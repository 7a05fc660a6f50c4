SPECIFICATION ImportSpec
CONSTANTS
  Size = 17
  OtherSize = 19
  Len4 = 1
  Len6 = 2
  Bits4 = 1
  Bits6 = 2
  RefLen = 1
  MACLen = 2
  PSKWrappedLen = 2
  HostCap = 4
  Interfaces <- MCInterfaces
  Peers <- MCPeers
  MACs <- MCMACs
  Beginnings <- MCBeginnings
  Values = {0, 1, 2}
  MaxValue = 3
  Files <- MCFiles
  Names <- MCNames
  Wraps <- MCWraps
CHECK_DEADLOCK FALSE
INVARIANTS
  OneEncoding
  WrittenIsRead
  VerifiesWhatWasSigned
  ImportedIsRead
  PeerFitsOnceTouched
