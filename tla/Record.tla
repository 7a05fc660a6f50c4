------------------------------- MODULE Record -------------------------------
(***************************************************************************)
(* internal/descr: the records a HEM key carries in its descr field, as    *)
(* bytes.  A command encodes settings, signs the interface record and      *)
(* stores it; the device hands the bytes back shorter or longer than they  *)
(* were written; a reader widens and decodes them.  Records nobody here    *)
(* wrote reach the same reader.                                            *)
(*                                                                         *)
(* Tags, lengths and numbers keep their bytes.  The six letters of the     *)
(* magic are one cell, and addresses, references, MAC and wrapped key are  *)
(* as many cells as the constants say.  The zone an IPv6 address may name  *)
(* is further cells after its own.                                         *)
(***************************************************************************)
EXTENDS Integers, Sequences

CONSTANTS
  Size,           \* bytes of a record, fixed by the device: 128 or 64
  OtherSize,      \* what firmware of the other kind hands back
  Len4, Len6,     \* bytes of an address: 4 and 16
  Bits4, Bits6,   \* its bits: 32 and 128
  RefLen,         \* PeerRefLen, 4
  MACLen,         \* 32
  PSKWrappedLen,  \* 40
  HostCap,        \* the format's own cap on a hostname: 60
  Interfaces,     \* interface settings a command may store
  Peers,          \* peer settings a command may store
  MACs,           \* what the device may compute
  Beginnings,     \* how a record of unknown origin may begin
  Values,         \* bytes found in the values of a record of unknown origin
  MaxValue        \* how many of them an item has

VARIABLES
  phase,     \* where the record is on its way
  kind,      \* "if" or "pr"
  settings,  \* what the command means to store
  message,   \* the bytes the MAC was computed over
  raw        \* the record

vars == <<phase, kind, settings, message, raw>>

Byte == 0..255
Bytes == Seq(Byte)
Uint16s == {n \in Nat : n <= 65535}

(* netip.Prefix, Interface, Endpoint and Peer.  A reference and a MAC are
   arrays, and whether an address or a prefix is valid is up to the codec. *)
PrefixType == [addr : Bytes, bits : Int]
InterfaceType ==
  [addrs : Seq(PrefixType), mtu : Uint16s, dns : Seq(Bytes), refs : Seq([1..RefLen -> Byte]),
   port : Uint16s, mac : Bytes]
EndpointType == [ip : Bytes, host : Bytes, port : Uint16s]
PeerType ==
  [endpoint : EndpointType, allowed : Seq(PrefixType), keepalive : Byte, psk : Bytes]

ASSUME LengthsApart ==
  /\ Len4 \in Nat \ {0} /\ Len6 \in Nat /\ Len4 < Len6
  /\ Size \in Nat /\ OtherSize \in Nat /\ Size < OtherSize

(* The length of a prefix is stored in a byte. *)
ASSUME FieldLengths ==
  /\ Bits4 \in Byte /\ Bits6 \in Byte
  /\ RefLen \in Nat /\ HostCap \in Nat
  /\ MACLen \in Nat \ {0} /\ PSKWrappedLen \in Nat \ {0}

ASSUME Inputs ==
  /\ Interfaces \subseteq InterfaceType
  /\ Peers \subseteq PeerType
  /\ MACs \subseteq [1..MACLen -> Byte]
  /\ Beginnings \subseteq Bytes
  /\ Values \subseteq Byte
  /\ MaxValue \in Byte

MagicInterface == 105
MagicPeer == 112
Version == 2
headerLen == 2

tagEnd == 0
TagADDR4 == 1
TagADDR6 == 2
TagMTU == 3
TagDNS4 == 4
TagDNS6 == 5
TagPeerRef == 6
TagListenPort == 7
TagMAC == 127

TagEndpoint4 == 16
TagEndpoint6 == 17
TagEndpointHost == 18
TagAIP4 == 19
TagAIP6 == 20
TagKeepalive == 21
TagPSKWrapped == 22

(* The tag and its length spend two bytes, the port two more. *)
MaxHostname == IF HostCap < Size - headerLen - 4 THEN HostCap ELSE Size - headerLen - 4

(* A record has room for an endpoint's tag, length and port. *)
ASSUME EndpointRoom == MaxHostname >= 0

-----------------------------------------------------------------------------
(* Writing. *)

Refused == <<>>

Zeros(n) == [k \in 1..n |-> 0]

Item(tag, value) == [tag |-> tag, value |-> value]

(* A field that is zero or empty has no tag. *)
Optional(there, tag, value) == IF there THEN <<Item(tag, value)>> ELSE <<>>

be16(v) == <<v \div 256, v % 256>>

Is4(addr) == Len(addr) = Len4
AddrValid(addr) == Len(addr) \in {Len4, Len6}
PrefixValid(p) ==
  /\ AddrValid(p.addr)
  /\ p.bits \in 0..(IF Is4(p.addr) THEN Bits4 ELSE Bits6)

(* Addr.As4 and Addr.As16: the address without the zone. *)
AsBytes(addr) == IF Len(addr) > Len6 THEN SubSeq(addr, 1, Len6) ELSE addr

(* The items under some tags, in the order they come. *)
Under(items, tags) ==
  LET u[n \in 0..Len(items)] ==
        IF n = 0 THEN <<>>
        ELSE IF items[n].tag \in tags THEN Append(u[n - 1], items[n])
        ELSE u[n - 1]
  IN  u[Len(items)]

(* One item per element, IPv4 before IPv6. *)
encodePrefixes(prefixes, tag4, tag6) ==
  LET item(p) == Item(IF Is4(p.addr) THEN tag4 ELSE tag6, Append(p.addr, p.bits))
      items == [k \in DOMAIN prefixes |-> item(prefixes[k])]
  IN  Under(items, {tag4}) \o Under(items, {tag6})

encodeDNS(dns) ==
  LET item(addr) == Item(IF Is4(addr) THEN TagDNS4 ELSE TagDNS6, addr)
      items == [k \in DOMAIN dns |-> item(AsBytes(dns[k]))]
  IN  Under(items, {TagDNS4}) \o Under(items, {TagDNS6})

tlv(w, item) ==
  IF ~w.ok \/ Len(item.value) > 255
  THEN [w EXCEPT !.ok = FALSE]
  ELSE [w EXCEPT !.buf = @ \o <<item.tag, Len(item.value)>> \o item.value]

(* Padded to Size, or refused when it does not fit. *)
finish(w) ==
  IF w.ok /\ Len(w.buf) <= Size THEN w.buf \o Zeros(Size - Len(w.buf)) ELSE Refused

(* The writer once every item has gone through it. *)
writer(magic, items) ==
  LET w[n \in 0..Len(items)] ==
        IF n = 0 THEN [buf |-> <<magic, Version>>, ok |-> TRUE] ELSE tlv(w[n - 1], items[n])
  IN  w[Len(items)]

write(magic, items) == finish(writer(magic, items))

(* The tags of a record, ascending. *)
interfaceItems(i) ==
     encodePrefixes(i.addrs, TagADDR4, TagADDR6)
  \o Optional(i.mtu # 0, TagMTU, be16(i.mtu))
  \o encodeDNS(i.dns)
  \o [k \in DOMAIN i.refs |-> Item(TagPeerRef, i.refs[k])]
  \o Optional(i.port # 0, TagListenPort, be16(i.port))
  \o Optional(i.mac # <<>>, TagMAC, i.mac)

EncodeInterface(i) ==
  IF /\ \A k \in DOMAIN i.addrs : PrefixValid(i.addrs[k])
     /\ \A k \in DOMAIN i.dns : AddrValid(AsBytes(i.dns[k]))
  THEN write(MagicInterface, interfaceItems(i))
  ELSE Refused

(* A hostname goes before an address when both are set. *)
endpointItem(e) ==
  LET addr == AsBytes(e.ip)
  IN  IF e.host # <<>>
      THEN Item(TagEndpointHost, be16(e.port) \o e.host)
      ELSE Item(IF Is4(addr) THEN TagEndpoint4 ELSE TagEndpoint6, addr \o be16(e.port))

peerItems(p) ==
     <<endpointItem(p.endpoint)>>
  \o encodePrefixes(p.allowed, TagAIP4, TagAIP6)
  \o Optional(p.keepalive # 0, TagKeepalive, <<p.keepalive>>)
  \o Optional(p.psk # <<>>, TagPSKWrapped, p.psk)

(* Mutant of EncodePeer: a wrapped key of any length is stored. *)
MutEncodeAnyPSK(p) ==
  IF /\ Len(p.endpoint.host) <= MaxHostname
     /\ p.endpoint.host # <<>> \/ AddrValid(AsBytes(p.endpoint.ip))
     /\ \A k \in DOMAIN p.allowed : PrefixValid(p.allowed[k])
  THEN write(MagicPeer, peerItems(p))
  ELSE Refused

EncodePeer(p) ==
  IF /\ Len(p.endpoint.host) <= MaxHostname
     /\ p.endpoint.host # <<>> \/ AddrValid(AsBytes(p.endpoint.ip))
     /\ \A k \in DOMAIN p.allowed : PrefixValid(p.allowed[k])
     /\ Len(p.psk) \in {0, PSKWrappedLen}
  THEN write(MagicPeer, peerItems(p))
  ELSE Refused

-----------------------------------------------------------------------------
(* Reading. *)

(* One turn of the loop: an item, or its end.  The padding is zero, and a
   length stays inside. *)
readItem(b, r) ==
  LET n == b[r.at + 1]
  IN  IF r.done \/ r.at > Len(b) THEN r
      ELSE IF b[r.at] = tagEnd
           THEN [r EXCEPT !.done = TRUE, !.ok = \A j \in r.at..Len(b) : b[j] = 0]
      ELSE IF r.at + 1 > Len(b) THEN [r EXCEPT !.done = TRUE, !.ok = FALSE]
      ELSE IF r.at + 1 + n > Len(b) THEN [r EXCEPT !.done = TRUE, !.ok = FALSE]
      ELSE [r EXCEPT !.at = @ + 2 + n,
                     !.items = Append(@, Item(b[r.at], SubSeq(b, r.at + 2, r.at + 1 + n)))]

(* An item takes two bytes at least, so the loop has ended after as many turns
   as there are bytes. *)
itemsOf(b) ==
  LET r[n \in 0..Len(b)] ==
        IF n = 0 THEN [at |-> headerLen + 1, items |-> <<>>, done |-> FALSE, ok |-> TRUE]
        ELSE readItem(b, r[n - 1])
  IN  r[Len(b)]

(* Mutant of Ascending: items are taken in any order. *)
MutAnyOrder(items) == TRUE

Ascending(items) == \A k \in 2..Len(items) : items[k - 1].tag <= items[k].tag

parse(b, magic) ==
  LET p == itemsOf(b)
  IN  IF /\ Len(b) \in headerLen..Size
         /\ b[1] = magic /\ b[2] = Version
      THEN [ok |-> p.ok /\ Ascending(p.items), items |-> p.items]
      ELSE [ok |-> FALSE, items |-> <<>>]

once(items, tag) == Len(Under(items, {tag})) <= 1

Uint16(s) == s[1] * 256 + s[2]

(* A prefix is its value without the last byte, and the last byte. *)
prefixFrom(value) ==
  [addr |-> SubSeq(value, 1, Len(value) - 1), bits |-> value[Len(value)]]

(* expect, nonZero and prefixFrom: what one item must look like. *)
InterfaceItemOK(it) ==
  CASE it.tag = TagADDR4      -> Len(it.value) = Len4 + 1 /\ it.value[Len4 + 1] <= Bits4
    [] it.tag = TagADDR6      -> Len(it.value) = Len6 + 1 /\ it.value[Len6 + 1] <= Bits6
    [] it.tag = TagDNS4       -> Len(it.value) = Len4
    [] it.tag = TagDNS6       -> Len(it.value) = Len6
    [] it.tag = TagPeerRef    -> Len(it.value) = RefLen
    [] it.tag \in {TagMTU, TagListenPort} -> Len(it.value) = 2 /\ Uint16(it.value) # 0
    [] it.tag = TagMAC        -> Len(it.value) = MACLen
    [] OTHER                  -> FALSE

PeerItemOK(it) ==
  CASE it.tag = TagEndpoint4    -> Len(it.value) = Len4 + 2
    [] it.tag = TagEndpoint6    -> Len(it.value) = Len6 + 2
    [] it.tag = TagEndpointHost -> Len(it.value) \in 3..(2 + MaxHostname)
    [] it.tag = TagAIP4         -> Len(it.value) = Len4 + 1 /\ it.value[Len4 + 1] <= Bits4
    [] it.tag = TagAIP6         -> Len(it.value) = Len6 + 1 /\ it.value[Len6 + 1] <= Bits6
    [] it.tag = TagKeepalive    -> Len(it.value) = 1 /\ it.value[1] # 0
    [] it.tag = TagPSKWrapped   -> Len(it.value) = PSKWrappedLen
    [] OTHER                    -> FALSE

ValuesUnder(items, tags) ==
  LET these == Under(items, tags) IN [k \in DOMAIN these |-> these[k].value]

PrefixesUnder(items, tags) ==
  LET values == ValuesUnder(items, tags) IN [k \in DOMAIN values |-> prefixFrom(values[k])]

(* The last value under a tag, or what an absent one means. *)
Single(items, tag, absent) ==
  LET values == ValuesUnder(items, {tag})
  IN  IF values = <<>> THEN absent ELSE values[Len(values)]

DecodeInterface(b) ==
  LET p == parse(b, MagicInterface)
      its == p.items
  IN  IF /\ p.ok
         /\ \A k \in DOMAIN its : InterfaceItemOK(its[k])
         /\ \A tag \in {TagMTU, TagListenPort, TagMAC} : once(its, tag)
         /\ \A k \in DOMAIN its : its[k].tag = TagMAC => k = Len(its)
      THEN [ok |-> TRUE,
            val |-> [addrs |-> PrefixesUnder(its, {TagADDR4, TagADDR6}),
                     mtu   |-> Uint16(Single(its, TagMTU, <<0, 0>>)),
                     dns   |-> ValuesUnder(its, {TagDNS4, TagDNS6}),
                     refs  |-> ValuesUnder(its, {TagPeerRef}),
                     port  |-> Uint16(Single(its, TagListenPort, <<0, 0>>)),
                     mac   |-> Single(its, TagMAC, <<>>)]]
      ELSE [ok |-> FALSE]

endpointFrom(it) ==
  LET n == Len(it.value)
  IN  IF it.tag = TagEndpointHost
      THEN [ip |-> <<>>, host |-> SubSeq(it.value, 3, n), port |-> Uint16(it.value)]
      ELSE [ip |-> SubSeq(it.value, 1, n - 2), host |-> <<>>,
            port |-> Uint16(SubSeq(it.value, n - 1, n))]

DecodePeer(b) ==
  LET p == parse(b, MagicPeer)
      its == p.items
      endpoints == Under(its, {TagEndpoint4, TagEndpoint6, TagEndpointHost})
  IN  IF /\ p.ok
         /\ \A k \in DOMAIN its : PeerItemOK(its[k])
         /\ \A tag \in {TagKeepalive, TagPSKWrapped} : once(its, tag)
         /\ Len(endpoints) = 1
      THEN [ok |-> TRUE,
            val |-> [endpoint  |-> endpointFrom(endpoints[1]),
                     allowed   |-> PrefixesUnder(its, {TagAIP4, TagAIP6}),
                     keepalive |-> Single(its, TagKeepalive, <<0>>)[1],
                     psk       |-> Single(its, TagPSKWrapped, <<>>)]]
      ELSE [ok |-> FALSE]

(* What a device handed back, widened to Size. *)
Normalize(b) ==
  IF Len(b) \in headerLen..Size THEN b \o Zeros(Size - Len(b)) ELSE Refused

(* The offset of an item's tag: the items before it, each with two bytes more. *)
offsetOf(items, k) ==
  LET off[n \in 0..Len(items)] ==
        IF n = 0 THEN headerLen ELSE off[n - 1] + 2 + Len(items[n].value)
  IN  off[k - 1]

ZeroMAC(rec) ==
  LET p == parse(rec, MagicInterface)
      macs == {k \in DOMAIN p.items : p.items[k].tag = TagMAC}
      k == CHOOSE k \in macs : \A j \in macs : k <= j
      off == offsetOf(p.items, k)
  IN  IF p.ok /\ macs # {}
      THEN [j \in DOMAIN rec |->
              IF j \in off + 3..off + 2 + Len(p.items[k].value) THEN 0 ELSE rec[j]]
      ELSE rec

-----------------------------------------------------------------------------
Init ==
  /\ phase = "idle"
  /\ kind = "if"
  /\ settings = <<>>
  /\ message = <<>>
  /\ raw = <<>>

(* Mutant of EncodeUnsigned: the tag is absent from what is signed. *)
MutEncodeWithoutTag(i) ==
  /\ phase = "idle"
  /\ settings' = [i EXCEPT !.mac = <<>>]
  /\ raw' = EncodeInterface(settings')
  /\ phase' = IF raw' = Refused THEN "refused" ELSE "unsigned"
  /\ UNCHANGED <<kind, message>>

(* Provisioning encodes with the MAC present and zero, to have what to sign. *)
EncodeUnsigned(i) ==
  /\ phase = "idle"
  /\ settings' = [i EXCEPT !.mac = Zeros(MACLen)]
  /\ raw' = EncodeInterface(settings')
  /\ phase' = IF raw' = Refused THEN "refused" ELSE "unsigned"
  /\ UNCHANGED <<kind, message>>

(* mac.Sign, and the record encoded again with what the device computed. *)
Sign ==
  /\ phase = "unsigned"
  /\ message' = ZeroMAC(raw)
  /\ \E m \in MACs : settings' = [settings EXCEPT !.mac = m]
  /\ raw' = EncodeInterface(settings')
  /\ phase' = IF raw' = Refused THEN "refused" ELSE "stored"
  /\ UNCHANGED kind

StorePeer(p) ==
  /\ phase = "idle"
  /\ kind' = "pr"
  /\ settings' = p
  /\ raw' = EncodePeer(settings')
  /\ phase' = IF raw' = Refused THEN "refused" ELSE "stored"
  /\ UNCHANGED message

(* The device returns n bytes: trailing zeros dropped, or more of them. *)
HandBack ==
  /\ phase = "stored"
  /\ \E n \in headerLen..OtherSize :
       /\ \A j \in DOMAIN raw : j > n => raw[j] = 0
       /\ raw' = [j \in 1..n |-> IF j <= Len(raw) THEN raw[j] ELSE 0]
  /\ phase' = "handed"
  /\ UNCHANGED <<kind, settings, message>>

(* A record of unknown origin, tag by tag, and possibly cut short. *)
FoundHeader ==
  /\ phase = "idle"
  /\ raw' \in Beginnings
  /\ kind' = IF raw'[1] = MagicInterface THEN "if" ELSE "pr"
  /\ phase' = "found"
  /\ UNCHANGED <<settings, message>>

(* Every tag of the kind, the end marker, and one tag nobody defined. *)
Tags == IF kind = "if" THEN 0..8 \cup {TagMAC} ELSE {0} \cup 16..23

FoundItem ==
  /\ phase = "found"
  /\ raw[2] = Version
  /\ \E n \in {k \in 0..MaxValue : Len(raw) + 2 + k <= Size} :
       \E tag \in Tags, value \in [1..n -> Values] :
         raw' = raw \o <<tag, n>> \o value
  /\ UNCHANGED <<phase, kind, settings, message>>

FoundCut ==
  /\ phase = "found"
  /\ \E n \in 1..MaxValue + 1 : raw' = SubSeq(raw, 1, Len(raw) - n)
  /\ phase' = "cut"
  /\ UNCHANGED <<kind, settings, message>>

Next ==
  \/ phase = "idle" /\ \E i \in Interfaces : EncodeUnsigned(i)
  \/ phase = "idle" /\ \E p \in Peers : StorePeer(p)
  \/ Sign
  \/ HandBack
  \/ FoundHeader
  \/ FoundItem
  \/ FoundCut

Spec == Init /\ [][Next]_vars

-----------------------------------------------------------------------------
(* What was written, apart from the order of the two families and the zone of a
   resolver or an endpoint, which the format does not keep. *)
Families(marked) ==
  LET both == Under(marked, {4}) \o Under(marked, {6})
  IN  [k \in DOMAIN both |-> both[k].value]

GroupedPrefixes(prefixes) ==
  Families([k \in DOMAIN prefixes |->
              Item(IF Is4(prefixes[k].addr) THEN 4 ELSE 6, prefixes[k])])

GroupedAddrs(addrs) ==
  LET marked(addr) == Item(IF Is4(addr) THEN 4 ELSE 6, addr)
  IN  Families([k \in DOMAIN addrs |-> marked(AsBytes(addrs[k]))])

StoredEndpoint(e) == [e EXCEPT !.ip = IF e.host = <<>> THEN AsBytes(@) ELSE <<>>]

Grouped ==
  IF kind = "if"
  THEN [settings EXCEPT !.addrs = GroupedPrefixes(@), !.dns = GroupedAddrs(@)]
  ELSE [settings EXCEPT !.allowed = GroupedPrefixes(@), !.endpoint = StoredEndpoint(@)]

Decode(b) == IF kind = "if" THEN DecodeInterface(b) ELSE DecodePeer(b)
Encode(val) == IF kind = "if" THEN EncodeInterface(val) ELSE EncodePeer(val)

(* One configuration is one byte sequence: whatever bytes a decoder accepts,
   whoever wrote them, encoding what it decoded gives the same bytes.  The code
   states it as "encode(decode(x)) == x" at nonZero and in parse. *)
OneEncoding ==
  phase \in {"found", "cut"} =>
    LET b == Normalize(raw)
        read == Decode(b)
    IN  b # Refused => (read.ok => Encode(read.val) = b)

(* What encoding did not refuse is read back as it was meant, priority order
   of the peers included, however many trailing zeros the device dropped, but
   for the zone of an IPv6 resolver or endpoint, which Encode takes and drops
   (As16); a record longer than this build's size is not read at all. *)
WrittenIsRead ==
  phase = "handed" =>
    LET b == Normalize(raw)
        read == Decode(b)
    IN  IF Len(raw) > Size THEN b = Refused ELSE read.ok /\ read.val = Grouped

(* Verification sees the bytes that were signed: the stored interface record,
   as it comes back and with its MAC blanked, is the message Sign was given,
   and encoding it a second time, with the MAC in, did not fail. *)
VerifiesWhatWasSigned ==
  /\ phase = "refused" => message = <<>>
  /\ phase = "handed" /\ kind = "if" /\ Len(raw) <= Size =>
       ZeroMAC(Normalize(raw)) = message
=============================================================================
