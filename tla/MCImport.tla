------------------------------ MODULE MCImport ------------------------------
(* A small instance of Import and Record for TLC: addresses of one and two
   bytes, records of seventeen, which an interface with one address, an MTU, a
   peer and a MAC fills exactly. *)
EXTENDS Import

Few(S, n) == UNION {[1..k -> S] : k \in 0..n}

Prefix(addr, bits) == [addr |-> addr, bits |-> bits]
MCZoned == <<1, 0, 9>>
MCAddrs == {<<1>>, <<0>>, <<1, 0>>, MCZoned}
MCPrefixes == {Prefix(<<0>>, 0), Prefix(<<1>>, 1), Prefix(<<1, 0>>, 2)}
MCInvalid == Prefix(<<1>>, 2)

MCInterfaces ==
  [addrs : Few(MCPrefixes, 1) \cup {<<p, q>> : p \in MCPrefixes, q \in {MCInvalid, Prefix(<<0>>, 0)}},
   mtu : {0, 256}, dns : Few(MCAddrs, 2), refs : Few({<<1>>, <<0>>}, 3),
   port : {0, 1}, mac : {<<>>}]

MCEndpoints ==
  [ip : {<<>>} \cup MCAddrs, host : {<<>>, <<1>>, <<1, 0>>, <<1, 1, 1, 1, 1, 1>>}, port : {0, 258}]

MCPeers ==
  [endpoint : MCEndpoints, allowed : Few(MCPrefixes \cup {MCInvalid}, 2), keepalive : {0, 2},
   psk : {<<>>, <<2, 0>>, <<1>>}]

(* Up to nine bytes are left to be found. *)
MCBeginnings ==
  {<<MagicInterface, Version - 1>>, <<MagicPeer, Version - 1>>,
   <<MagicInterface, Version, TagADDR4, 2, 1, 1, TagADDR4, 2, 0, 0>>,
   <<MagicInterface, Version, TagADDR4, 2, 1, 1, TagADDR6, 3, 1, 0, 2>>,
   <<MagicPeer, Version, TagEndpoint4, 3, 1, 1, 2, TagAIP4, 2, 0, 0>>,
   <<MagicPeer, Version, TagEndpoint6, 4, 1, 0, 1, 2>>,
   <<MagicPeer, Version, TagAIP4, 2, 0, 0, TagAIP4, 2, 1, 1>>}

MCMACs == {<<0, 0>>, <<2, 0>>, <<1, 2>>}
MCWraps == {<<0, 0>>, <<1, 2>>, <<2>>}

(* Files: ranges with host bits set, a mapped endpoint, an endpoint and a
   resolver with a zone, numbers out of range. *)
MCFilePeers ==
  [pub : {<<>>, <<7>>},
   endpoint : {NoEndpoint, [ip |-> <<1, 0>>, host |-> <<>>, port |-> 0],
               [ip |-> <<Mapped, 1>>, host |-> <<>>, port |-> 258],
               [ip |-> MCZoned, host |-> <<>>, port |-> 258],
               [ip |-> <<>>, host |-> <<1, 0>>, port |-> 258],
               [ip |-> <<>>, host |-> <<1>>, port |-> 0],
               [ip |-> <<>>, host |-> <<1, 1, 1, 1, 1>>, port |-> 258]},
   allowed : {<<>>, <<Prefix(<<1>>, 0)>>, <<Prefix(<<2, 1>>, 1)>>,
              <<Prefix(<<2, 1>>, 2), Prefix(<<1>>, 1)>>},
   keepalive : {0, 2, 300}, after : {<<>>}]

MCWithFields ==
  {[p EXCEPT !.after = Field("allowed-ips", Prefix(<<0>>, 0))] : p \in MCFilePeers}

MCFile(odd, peers) ==
  [odd : odd, addrs : {<<>>, <<Prefix(<<1>>, 1)>>, <<Prefix(<<1, 0>>, 2), Prefix(<<1>>, 0)>>},
   dns : {<<>>, <<<<1>>>>, <<MCZoned, <<1>>>>}, mtu : {0, 256, 70000}, port : {0, 1, -1},
   peers : peers]

MCFiles ==
  MCFile({"none"}, {<<p>> : p \in MCFilePeers \cup MCWithFields} \cup {<<>>})
  \cup MCFile({"hook", "search domain", "pre-shared key", "no setting"},
              {<<CHOOSE p \in MCFilePeers : p.pub # <<>>>>})
  \cup MCFile({"none"}, {<<p, p>> : p \in {CHOOSE p \in MCFilePeers : p.pub # <<>>}})

Name(text, equals, after) == [text |-> text, equals |-> equals, after |-> after]
MCNames == {Name("hq", FALSE, <<>>), Name("hq=1", TRUE, <<>>),
            Name("hq", FALSE, Field("backup", "")),
            Name("hq", FALSE, Field("allowed-ips", Prefix(<<0>>, 0)))}
=============================================================================
