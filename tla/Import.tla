------------------------------- MODULE Import -------------------------------
(***************************************************************************)
(* A WireGuard client configuration brought into the device, by            *)
(* `wg-hem import` or by the window: internal/wgconf reads the file, the   *)
(* peer is named, both programs turn the result into provisioning          *)
(* parameters through the same comma-separated peer specification, and     *)
(* internal/provision encodes it into the records of module Record.        *)
(*                                                                         *)
(* A file is what its lines say: lists of addresses, numbers, and at most  *)
(* one line of a kind that is refused.  What follows a comma in the value  *)
(* of Endpoint, or in a name, is kept as the fields it becomes.  Of the    *)
(* flags that may follow `--`, only -psk is modelled.                      *)
(***************************************************************************)
EXTENDS Record

CONSTANTS
  Files,   \* configurations somebody may be handed
  Names,   \* names somebody may give the peer
  Wraps    \* what the device may answer when asked to wrap a key

VARIABLES
  stage,   \* how far the import has got
  conf,    \* the file, then wgconf.Conf
  name,    \* the peer's name, as typed
  params   \* provision.Params

ivars == <<stage, conf, name, params>>

Nothing == <<>>
NoEndpoint == [ip |-> <<>>, host |-> <<>>, port |-> 0]

(* An endpoint is an address or a name; a key is the reference made of it. *)
FileEndpoint == {e \in EndpointType : e.ip = <<>> \/ e.host = <<>>}
FieldType ==
       [key : {"label"}, value : STRING]
  \cup [key : {"endpoint"}, value : FileEndpoint]
  \cup [key : {"allowed-ips"}, value : PrefixType]
  \cup [key : {"keepalive"}, value : Int]
  \cup [key : {"pubkey"}, value : [1..RefLen -> Byte]]
  \cup [key : STRING \ {"endpoint", "allowed-ips", "keepalive", "pubkey"}, value : STRING]
FilePeer ==
  [pub : [1..RefLen -> Byte] \cup {<<>>}, endpoint : FileEndpoint, allowed : Seq(PrefixType),
   keepalive : Int, after : Seq(FieldType)]
FileType ==
  [odd : STRING, addrs : Seq(PrefixType), dns : Seq(Bytes), mtu : Int, port : Int,
   peers : Seq(FilePeer)]

ASSUME ImportInputs ==
  /\ Files \subseteq FileType
  /\ Names \subseteq [text : STRING, equals : BOOLEAN, after : Seq(FieldType)]
  /\ Wraps \subseteq Bytes

(* Directives of wg-quick, search domains, a pre-shared key and lines that are
   no setting are refused; so are no address, and no or several peers. *)
Parse(f) ==
  IF /\ f.odd = "none"
     /\ f.addrs # <<>>
     /\ Len(f.peers) = 1
     /\ f.peers[1].pub # <<>>
  THEN [addrs |-> f.addrs, dns |-> f.dns, mtu |-> f.mtu, port |-> f.port, peer |-> f.peers[1]]
  ELSE Nothing

Field(key, value) == <<[key |-> key, value |-> value]>>

(* "label=" and the name: a comma in it begins further fields. *)
labelFields(n) == Field("label", n.text) \o n.after

allowedFields(allowed) ==
  [k \in DOMAIN allowed |-> [key |-> "allowed-ips", value |-> allowed[k]]]

peerFields(peer, n) ==
  labelFields(n) \o Field("pubkey", peer.pub)
  \o (IF peer.endpoint # NoEndpoint THEN Field("endpoint", peer.endpoint) \o peer.after ELSE <<>>)
  \o allowedFields(peer.allowed)
  \o (IF peer.keepalive # 0 THEN Field("keepalive", peer.keepalive) ELSE <<>>)

(* An IPv4 address in IPv6 form is taken as the IPv4 one, its zone dropped. *)
Mapped == 255
Unmap(ip) == IF Len(ip) >= Len6 /\ ip[1] = Mapped THEN SubSeq(ip, Len6 - Len4 + 1, Len6) ELSE ip

(* A literal may have any port, a name must have one. *)
EndpointOK(e) ==
  \/ e.ip # <<>>
  \/ Len(e.host) \in 1..MaxHostname /\ e.port \in 1..65535

parseEndpoint(e) == IF e.ip # <<>> THEN [e EXCEPT !.ip = Unmap(@)] ELSE e

(* Bits are counted in cells here: those beyond the length are cleared. *)
Masked(p) == [p EXCEPT !.addr = [k \in DOMAIN @ |-> IF k <= p.bits THEN @[k] ELSE 0]]

takeField(p, f) ==
  CASE f.key = "label"       -> [p EXCEPT !.label = f.value]
    [] f.key = "pubkey"      -> [p EXCEPT !.pub = f.value]
    [] f.key = "endpoint"    -> [p EXCEPT !.endpoint = parseEndpoint(f.value),
                                          !.ok = @ /\ EndpointOK(f.value)]
    [] f.key = "allowed-ips" -> [p EXCEPT !.allowed = Append(@, Masked(f.value))]
    [] f.key = "keepalive"   -> [p EXCEPT !.keepalive = f.value, !.ok = @ /\ f.value \in 1..255]
    [] OTHER                 -> [p EXCEPT !.ok = FALSE]

ParsePeerSpec(fields) ==
  LET none == [ok |-> TRUE, label |-> "", pub |-> <<>>, endpoint |-> NoEndpoint,
               allowed |-> <<>>, keepalive |-> 0]
      taken[n \in 0..Len(fields)] ==
        IF n = 0 THEN none ELSE takeField(taken[n - 1], fields[n])
      p == taken[Len(fields)]
  IN  IF p.pub = <<>> \/ p.endpoint = NoEndpoint \/ p.allowed = <<>>
      THEN [p EXCEPT !.ok = FALSE] ELSE p

(* The command writes flags, leaving out what is zero, and reads them back. *)
fromFlags(c, n, psk) ==
  LET flag == [mtu |-> IF c.mtu # 0 THEN <<c.mtu>> ELSE <<>>,
               port |-> IF c.port # 0 THEN <<c.port>> ELSE <<>>]
      value(given) == IF given = <<>> THEN 0 ELSE given[1]
  IN  [addrs |-> c.addrs, dns |-> c.dns, mtu |-> value(flag.mtu), port |-> value(flag.port),
       label |-> "wg-hem identity", peer |-> ParsePeerSpec(peerFields(c.peer, n)), psk |-> psk]

(* The window has no flags. *)
FromConf(c, n) ==
  [addrs |-> c.addrs, dns |-> c.dns, mtu |-> c.mtu, port |-> c.port,
   label |-> n.text, peer |-> ParsePeerSpec(peerFields(c.peer, n)), psk |-> FALSE]

peerRecord(p, psk) ==
  [endpoint |-> p.endpoint, allowed |-> p.allowed, keepalive |-> p.keepalive, psk |-> psk]

uint16(n) == n % 65536

interfaceRecord(p) ==
  [addrs |-> p.addrs, mtu |-> uint16(p.mtu), dns |-> p.dns, refs |-> <<p.peer.pub>>,
   port |-> uint16(p.port), mac |-> <<>>]

(* Mutant of Validate: what uint16 would cut is let through. *)
MutValidateAnyNumber(p) ==
  /\ p.peer.ok
  /\ p.addrs # <<>>
  /\ EncodePeer(peerRecord(p.peer, IF p.psk THEN Zeros(PSKWrappedLen) ELSE <<>>)) # Refused

(* Mutant of Validate: the peer is tried without the key it will be given. *)
MutValidateNoRoom(p) ==
  /\ p.peer.ok
  /\ p.addrs # <<>>
  /\ p.mtu \in Uint16s
  /\ p.port \in Uint16s
  /\ EncodePeer(peerRecord(p.peer, <<>>)) # Refused

(* The peer is encoded with room for a wrapped key if there will be one. *)
Validate(p) ==
  /\ p.peer.ok
  /\ p.addrs # <<>>
  /\ p.mtu \in Uint16s
  /\ p.port \in Uint16s
  /\ EncodePeer(peerRecord(p.peer, IF p.psk THEN Zeros(PSKWrappedLen) ELSE <<>>)) # Refused

-----------------------------------------------------------------------------
ImportInit ==
  /\ Init
  /\ stage = "none"
  /\ conf = Nothing
  /\ name = Nothing
  /\ params = Nothing

ReadFile ==
  /\ stage = "none" /\ phase = "idle"
  /\ \E f \in Files : conf' = Parse(f)
  /\ stage' = IF conf' = Nothing THEN "refused" ELSE "read"
  /\ UNCHANGED <<name, params, vars>>

(* A name given with -name is taken as it is; a prompt and the window refuse
   one with a comma or an equals sign. *)
NameByFlag ==
  /\ stage = "read"
  /\ name' \in Names
  /\ stage' = "flags"
  /\ UNCHANGED <<conf, params, vars>>

NameAsked ==
  /\ stage = "read"
  /\ name' \in {n \in Names : ~n.equals /\ n.after = <<>>}
  /\ stage' \in {"flags", "window"}
  /\ UNCHANGED <<conf, params, vars>>

(* Flags may ask for a generated pre-shared key. *)
ToParams ==
  /\ \/ /\ stage = "flags"
        /\ \E psk \in BOOLEAN : params' = fromFlags(conf, name, psk)
     \/ /\ stage = "window"
        /\ params' = FromConf(conf, name)
  /\ stage' = IF Validate(params') THEN "valid" ELSE "refused"
  /\ UNCHANGED <<conf, name, vars>>

(* What may come of wrapping a key, when there is one. *)
WrapPSK(psk) == IF psk THEN {w \in Wraps : Len(w) = PSKWrappedLen} ELSE {<<>>}

(* A wrapped key of another length ends the run before anything is written. *)
WrapFails ==
  /\ stage = "valid"
  /\ params.psk
  /\ \E w \in Wraps : w \notin WrapPSK(TRUE)
  /\ stage' = "refused"
  /\ UNCHANGED <<conf, name, params, vars>>

(* Run writes the peer's record, then the interface's; either is followed. *)
Provision ==
  /\ stage = "valid"
  /\ \/ \E wrapped \in WrapPSK(params.psk) : StorePeer(peerRecord(params.peer, wrapped))
     \/ EncodeUnsigned(interfaceRecord(params))
  /\ stage' = "written"
  /\ UNCHANGED <<conf, name, params>>

(* A record on its way, whether or not it came from a file. *)
RecordStep ==
  /\ stage \in {"none", "written"}
  /\ Next
  /\ UNCHANGED ivars

ImportNext ==
  \/ ReadFile
  \/ NameByFlag
  \/ NameAsked
  \/ ToParams
  \/ WrapFails
  \/ Provision
  \/ RecordStep

ImportSpec == ImportInit /\ [][ImportNext]_<<vars, ivars>>

-----------------------------------------------------------------------------
(* What the file says, as the tunnel finds it in the device: without zones. *)
Meant ==
  IF kind = "if"
  THEN [addrs |-> GroupedPrefixes(conf.addrs), mtu |-> conf.mtu,
        dns |-> GroupedAddrs(conf.dns), refs |-> <<conf.peer.pub>>,
        port |-> conf.port, mac |-> settings.mac]
  ELSE [endpoint |-> [conf.peer.endpoint EXCEPT !.ip = AsBytes(Unmap(@))],
        allowed |-> GroupedPrefixes([k \in DOMAIN conf.peer.allowed |->
                                      Masked(conf.peer.allowed[k])]),
        keepalive |-> conf.peer.keepalive, psk |-> settings.psk]

(* A tunnel imported by either program is the one in the file: what the device
   hands back decodes to the file's addresses, resolver, numbers, endpoint and
   ranges, but for the zone of an IPv6 resolver or endpoint, which is lost
   without a word, and as long as neither the name nor the endpoint brought
   fields of its own (-name and Endpoint are not checked for commas, unlike a
   name that was asked for). *)
ImportedIsRead ==
  stage = "written" /\ phase = "handed" /\ Len(raw) <= Size
  /\ name.after = <<>> /\ conf.peer.after = <<>> =>
    LET read == Decode(Normalize(raw)) IN read.ok /\ read.val = Meant

(* A peer that does not fit, its wrapped key included, is refused by Validate,
   before the device is touched: once writing has begun its record encodes. *)
PeerFitsOnceTouched == stage = "written" /\ kind = "pr" => phase # "refused"
=============================================================================
