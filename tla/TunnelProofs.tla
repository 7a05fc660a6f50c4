---------------------------- MODULE TunnelProofs ----------------------------
(***************************************************************************)
(* Theorems about module Tunnel, for every set of peers and addresses and  *)
(* every number of polls and moves.  They rest on one inductive invariant, *)
(* Inv.                                                                    *)
(***************************************************************************)
EXTENDS Tunnel, FiniteSetTheorems, TLAPS

USE PeersAssumption, AddrsAssumption, NumbersAssumption
USE DEF Opening, Using, Configuring, Holding, Tearing, Terminal

(* A tunnel that was only just made satisfies the invariant. *)
LEMMA InitInv == Init => Inv
  <1> SUFFICES ASSUME Init PROVE Inv
    OBVIOUS
  <1>1. TypeOK
    BY DEF Init, TypeOK
  <1>2. Undone /\ PSKsAccounted /\ OnOnePeer /\ Pinned
    BY DEF Init, Undone, PSKsAccounted, OnOnePeer, Pinned
  <1> QED BY <1>1, <1>2 DEF Inv

(* The public key is read, or not. *)
LEMMA GetPubKeyInv ==
  ASSUME Inv, GetPubKey
  PROVE  Inv'
  <1>1. TypeOK'
    BY DEF GetPubKey, sessionVars, pskVars, routeVars, Inv, TypeOK
  <1>2. Undone'
    BY DEF GetPubKey, sessionVars, pskVars, routeVars, Inv, TypeOK, Undone
  <1>3. PSKsAccounted'
    BY DEF GetPubKey, sessionVars, pskVars, routeVars, Inv, TypeOK, PSKsAccounted
  <1>4. OnOnePeer'
    BY DEF GetPubKey, sessionVars, pskVars, routeVars, Inv, TypeOK, OnOnePeer
  <1>5. Pinned'
    BY DEF GetPubKey, sessionVars, pskVars, routeVars, Inv, TypeOK, Pinned, Planned
  <1> QED BY <1>1, <1>2, <1>3, <1>4, <1>5 DEF Inv

(* The device is created, or not. *)
LEMMA CreateTUNInv ==
  ASSUME Inv, CreateTUN
  PROVE  Inv'
  <1>1. TypeOK'
    BY DEF CreateTUN, sessionVars, pskVars, routeVars, Inv, TypeOK
  <1>2. Undone'
    BY DEF CreateTUN, sessionVars, pskVars, routeVars, Inv, TypeOK, Undone
  <1>3. PSKsAccounted'
    BY DEF CreateTUN, sessionVars, pskVars, routeVars, Inv, TypeOK, PSKsAccounted
  <1>4. OnOnePeer'
    BY DEF CreateTUN, sessionVars, pskVars, routeVars, Inv, TypeOK, OnOnePeer
  <1>5. Pinned'
    BY DEF CreateTUN, sessionVars, pskVars, routeVars, Inv, TypeOK, Pinned, Planned
  <1> QED BY <1>1, <1>2, <1>3, <1>4, <1>5 DEF Inv

(* The device is brought up, or Run returns as it is. *)
LEMMA DevUpInv ==
  ASSUME Inv, DevUp
  PROVE  Inv'
  <1>1. TypeOK'
    BY DEF DevUp, sessionVars, pskVars, routeVars, Inv, TypeOK
  <1>2. Undone'
    BY DEF DevUp, sessionVars, pskVars, routeVars, Inv, TypeOK, Undone
  <1>3. PSKsAccounted'
    BY DEF DevUp, sessionVars, pskVars, routeVars, Inv, TypeOK, PSKsAccounted
  <1>4. OnOnePeer'
    BY DEF DevUp, sessionVars, pskVars, routeVars, Inv, TypeOK, OnOnePeer
  <1>5. Pinned'
    BY DEF DevUp, sessionVars, pskVars, routeVars, Inv, TypeOK, Pinned, Planned
  <1> QED BY <1>1, <1>2, <1>3, <1>4, <1>5 DEF Inv

(* A pre-shared key is unwrapped into a slice of its own. *)
LEMMA UnwrapPSKInv ==
  ASSUME Inv, UnwrapPSK
  PROVE  Inv'
  <1>1. TypeOK'
    <2>1. uses' \in Nat /\ psks' \subseteq 1 .. uses' /\ tpsk' \in 0 .. uses'
      <3>1. uses \in Nat /\ psks \subseteq 1 .. uses /\ tpsk \in 0 .. uses
        BY DEF Inv, TypeOK
      <3>2. CASE UNCHANGED <<uses, psks, tpsk>>
        BY <3>1, <3>2
      <3>3. CASE uses' = uses + 1 /\ psks' = psks \cup {uses + 1} /\ tpsk' = tpsk
        BY <3>1, <3>3
      <3> QED BY <3>2, <3>3 DEF UnwrapPSK
    <2> QED BY <2>1 DEF UnwrapPSK, routeVars, Inv, TypeOK
  <1>2. Undone'
    BY DEF UnwrapPSK, sessionVars, pskVars, routeVars, Inv, TypeOK, Undone
  <1>3. PSKsAccounted'
    BY DEF UnwrapPSK, sessionVars, pskVars, routeVars, Inv, TypeOK, PSKsAccounted
  <1>4. OnOnePeer'
    BY DEF UnwrapPSK, sessionVars, pskVars, routeVars, Inv, TypeOK, OnOnePeer
  <1>5. Pinned'
    BY DEF UnwrapPSK, sessionVars, pskVars, routeVars, Inv, TypeOK, Pinned, Planned
  <1> QED BY <1>1, <1>2, <1>3, <1>4, <1>5 DEF Inv

(* The candidate's endpoint is pinned. *)
LEMMA PinEndpointsInv ==
  ASSUME Inv, PinEndpoints
  PROVE  Inv'
  <1>1. TypeOK'
    BY DEF PinEndpoints, fail, Failover, Planned, sessionVars, pskVars, routeVars, Inv, TypeOK
  <1>2. Undone'
    BY DEF PinEndpoints, fail, Failover, Planned, sessionVars, pskVars, routeVars, Inv, TypeOK,
       Undone
  <1>3. PSKsAccounted'
    BY DEF PinEndpoints, fail, Failover, Planned, sessionVars, pskVars, routeVars, Inv, TypeOK,
       PSKsAccounted
  <1>4. OnOnePeer'
    BY DEF PinEndpoints, fail, Failover, Planned, sessionVars, pskVars, routeVars, Inv, TypeOK,
       OnOnePeer
  <1>5. Pinned'
    BY DEF PinEndpoints, fail, Failover, Planned, sessionVars, pskVars, routeVars, Inv, TypeOK,
       Pinned
  <1> QED BY <1>1, <1>2, <1>3, <1>4, <1>5 DEF Inv

(* The candidate's routes are added. *)
LEMMA FailoverRoutesInv ==
  ASSUME Inv, FailoverRoutes
  PROVE  Inv'
  <1>1. TypeOK'
    BY DEF FailoverRoutes, fail, sessionVars, pskVars, routeVars, Inv, TypeOK
  <1>2. Undone'
    BY DEF FailoverRoutes, fail, sessionVars, pskVars, routeVars, Inv, TypeOK, Undone
  <1>3. PSKsAccounted'
    BY DEF FailoverRoutes, fail, sessionVars, pskVars, routeVars, Inv, TypeOK, PSKsAccounted
  <1>4. OnOnePeer'
    BY DEF FailoverRoutes, fail, sessionVars, pskVars, routeVars, Inv, TypeOK, OnOnePeer
  <1>5. Pinned'
    BY DEF FailoverRoutes, fail, sessionVars, pskVars, routeVars, Inv, TypeOK, Pinned, Planned
  <1> QED BY <1>1, <1>2, <1>3, <1>4, <1>5 DEF Inv

(* The candidate becomes the peer. *)
LEMMA IpcSetInv ==
  ASSUME Inv, IpcSet
  PROVE  Inv'
  <1>1. TypeOK'
    <2>1. flags' \subseteq {"walk", "hasDNS", "dnsSet", "blind", "hemInside"}
      <3>1. flags \subseteq {"walk", "hasDNS", "dnsSet", "blind", "hemInside"}
        BY DEF Inv, TypeOK
      <3>2. flags' \in {flags, flags \cup {"hemInside"}, flags \ {"hemInside"}}
        BY DEF IpcSet
      <3> QED BY <3>1, <3>2
    <2>2. psks' \subseteq 1 .. uses /\ tpsk' \in 0 .. uses
      <3>1. uses \in Nat /\ psks \subseteq 1 .. uses /\ tpsk \in 0 .. uses
        BY DEF Inv, TypeOK
      <3>2. psks' \subseteq psks /\ tpsk' \in {tpsk, uses}
        BY DEF IpcSet, fail
      <3> QED BY <3>1, <3>2
    <2>3. pc' \in {"revert", "resave", "address"}
      BY DEF IpcSet, fail
    <2>4. peer' \in Peers \cup {NoPeer} /\ wg' \subseteq Peers /\ hs' \subseteq wg'
      BY DEF IpcSet, Inv, TypeOK
    <2> QED BY <2>1, <2>2, <2>3, <2>4 DEF IpcSet, routeVars, Inv, TypeOK
  <1>2. Undone'
    BY DEF IpcSet, fail, Failover, Planned, sessionVars, pskVars, routeVars, Inv, TypeOK, Undone
  <1>3. PSKsAccounted'
    BY DEF IpcSet, fail, Failover, Planned, sessionVars, pskVars, routeVars, Inv, TypeOK,
       PSKsAccounted
  <1>4. OnOnePeer'
    BY DEF IpcSet, fail, Failover, Planned, sessionVars, pskVars, routeVars, Inv, TypeOK,
       OnOnePeer
  <1>5. Pinned'
    BY DEF IpcSet, fail, Failover, Planned, sessionVars, pskVars, routeVars, Inv, TypeOK, Pinned,
       OnOnePeer
  <1> QED BY <1>1, <1>2, <1>3, <1>4, <1>5 DEF Inv

(* The interface gets its address and MTU. *)
LEMMA AddressInv ==
  ASSUME Inv, Address
  PROVE  Inv'
  <1>1. TypeOK'
    BY DEF Address, sessionVars, pskVars, routeVars, Inv, TypeOK
  <1>2. Undone'
    BY DEF Address, sessionVars, pskVars, routeVars, Inv, TypeOK, Undone
  <1>3. PSKsAccounted'
    BY DEF Address, sessionVars, pskVars, routeVars, Inv, TypeOK, PSKsAccounted
  <1>4. OnOnePeer'
    BY DEF Address, sessionVars, pskVars, routeVars, Inv, TypeOK, OnOnePeer
  <1>5. Pinned'
    BY DEF Address, sessionVars, pskVars, routeVars, Inv, TypeOK, Pinned, Planned
  <1> QED BY <1>1, <1>2, <1>3, <1>4, <1>5 DEF Inv

(* The peer's routes go in. *)
LEMMA InterfaceRoutesInv ==
  ASSUME Inv, InterfaceRoutes
  PROVE  Inv'
  <1>1. TypeOK'
    BY DEF InterfaceRoutes, sessionVars, pskVars, routeVars, Inv, TypeOK, OnOnePeer
  <1>2. Undone'
    BY DEF InterfaceRoutes, sessionVars, pskVars, routeVars, Inv, TypeOK, Undone
  <1>3. PSKsAccounted'
    BY DEF InterfaceRoutes, sessionVars, pskVars, routeVars, Inv, TypeOK, PSKsAccounted
  <1>4. OnOnePeer'
    BY DEF InterfaceRoutes, sessionVars, pskVars, routeVars, Inv, TypeOK, OnOnePeer
  <1>5. Pinned'
    BY DEF InterfaceRoutes, sessionVars, pskVars, routeVars, Inv, TypeOK, Pinned, Planned,
       OnOnePeer
  <1> QED BY <1>1, <1>2, <1>3, <1>4, <1>5 DEF Inv

(* The resolver is told. *)
LEMMA SetDNSInv ==
  ASSUME Inv, SetDNS
  PROVE  Inv'
  <1>1. TypeOK'
    BY DEF SetDNS, sessionVars, pskVars, routeVars, Inv, TypeOK
  <1>2. Undone'
    BY DEF SetDNS, sessionVars, pskVars, routeVars, Inv, TypeOK, Undone
  <1>3. PSKsAccounted'
    BY DEF SetDNS, sessionVars, pskVars, routeVars, Inv, TypeOK, PSKsAccounted
  <1>4. OnOnePeer'
    BY DEF SetDNS, sessionVars, pskVars, routeVars, Inv, TypeOK, OnOnePeer
  <1>5. Pinned'
    BY DEF SetDNS, sessionVars, pskVars, routeVars, Inv, TypeOK, Pinned, Planned
  <1> QED BY <1>1, <1>2, <1>3, <1>4, <1>5 DEF Inv

(* There is nothing to tell the resolver. *)
LEMMA NoDNSInv ==
  ASSUME Inv, NoDNS
  PROVE  Inv'
  <1>1. TypeOK'
    BY DEF NoDNS, sessionVars, pskVars, routeVars, Inv, TypeOK
  <1>2. Undone'
    BY DEF NoDNS, sessionVars, pskVars, routeVars, Inv, TypeOK, Undone
  <1>3. PSKsAccounted'
    BY DEF NoDNS, sessionVars, pskVars, routeVars, Inv, TypeOK, PSKsAccounted
  <1>4. OnOnePeer'
    BY DEF NoDNS, sessionVars, pskVars, routeVars, Inv, TypeOK, OnOnePeer
  <1>5. Pinned'
    BY DEF NoDNS, sessionVars, pskVars, routeVars, Inv, TypeOK, Pinned, Planned
  <1> QED BY <1>1, <1>2, <1>3, <1>4, <1>5 DEF Inv

(* The HEM is asked through the tunnel. *)
LEMMA ProbeInv ==
  ASSUME Inv, Probe
  PROVE  Inv'
  <1>1. TypeOK'
    BY DEF Probe, sessionVars, pskVars, routeVars, Inv, TypeOK
  <1>2. Undone'
    BY DEF Probe, sessionVars, pskVars, routeVars, Inv, TypeOK, Undone
  <1>3. PSKsAccounted'
    BY DEF Probe, sessionVars, pskVars, routeVars, Inv, TypeOK, PSKsAccounted
  <1>4. OnOnePeer'
    BY DEF Probe, sessionVars, pskVars, routeVars, Inv, TypeOK, OnOnePeer
  <1>5. Pinned'
    BY DEF Probe, sessionVars, pskVars, routeVars, Inv, TypeOK, Pinned, Planned
  <1> QED BY <1>1, <1>2, <1>3, <1>4, <1>5 DEF Inv

(* The state file is written. *)
LEMMA SaveInv ==
  ASSUME Inv, Save
  PROVE  Inv'
  <1>1. TypeOK'
    BY DEF Save, Saved, SaveFailed, sessionVars, pskVars, routeVars, Inv, TypeOK
  <1>2. Undone'
    BY DEF Save, Saved, SaveFailed, sessionVars, pskVars, routeVars, Inv, TypeOK, Undone
  <1>3. PSKsAccounted'
    BY DEF Save, Saved, SaveFailed, sessionVars, pskVars, routeVars, Inv, TypeOK, PSKsAccounted
  <1>4. OnOnePeer'
    BY DEF Save, Saved, SaveFailed, sessionVars, pskVars, routeVars, Inv, TypeOK, OnOnePeer
  <1>5. Pinned'
    BY DEF Save, Saved, SaveFailed, sessionVars, pskVars, routeVars, Inv, TypeOK, Pinned, Planned
  <1> QED BY <1>1, <1>2, <1>3, <1>4, <1>5 DEF Inv

(* The UAPI listener is opened, or the tunnel is blind. *)
LEMMA ListenInv ==
  ASSUME Inv, Listen
  PROVE  Inv'
  <1>1. TypeOK'
    <2>1. polls' \in 0 .. Polls
      BY DEF Listen
    <2>2. flags' \subseteq {"walk", "hasDNS", "dnsSet", "blind", "hemInside"} /\ pc' \in {"await", "blind"}
      BY DEF Listen, Inv, TypeOK
    <2> QED BY <2>1, <2>2 DEF Listen, sessionVars, pskVars, routeVars, Inv, TypeOK
  <1>2. Undone'
    BY DEF Listen, sessionVars, pskVars, routeVars, Inv, TypeOK, Undone
  <1>3. PSKsAccounted'
    BY DEF Listen, sessionVars, pskVars, routeVars, Inv, TypeOK, PSKsAccounted
  <1>4. OnOnePeer'
    BY DEF Listen, sessionVars, pskVars, routeVars, Inv, TypeOK, OnOnePeer
  <1>5. Pinned'
    BY DEF Listen, sessionVars, pskVars, routeVars, Inv, TypeOK, Pinned, Planned
  <1> QED BY <1>1, <1>2, <1>3, <1>4, <1>5 DEF Inv

(* The interface is asked for a handshake. *)
LEMMA PollInv ==
  ASSUME Inv, Poll
  PROVE  Inv'
  <1>1. TypeOK'
    BY DEF Poll, sessionVars, pskVars, routeVars, Inv, TypeOK
  <1>2. Undone'
    BY DEF Poll, sessionVars, pskVars, routeVars, Inv, TypeOK, Undone
  <1>3. PSKsAccounted'
    BY DEF Poll, sessionVars, pskVars, routeVars, Inv, TypeOK, PSKsAccounted
  <1>4. OnOnePeer'
    BY DEF Poll, sessionVars, pskVars, routeVars, Inv, TypeOK, OnOnePeer
  <1>5. Pinned'
    BY DEF Poll, sessionVars, pskVars, routeVars, Inv, TypeOK, Pinned, Planned
  <1> QED BY <1>1, <1>2, <1>3, <1>4, <1>5 DEF Inv

(* The peer has had its time. *)
LEMMA DeadlineInv ==
  ASSUME Inv, Deadline
  PROVE  Inv'
  <1>1. TypeOK'
    BY DEF Deadline, sessionVars, pskVars, routeVars, Inv, TypeOK
  <1>2. Undone'
    BY DEF Deadline, sessionVars, pskVars, routeVars, Inv, TypeOK, Undone
  <1>3. PSKsAccounted'
    BY DEF Deadline, sessionVars, pskVars, routeVars, Inv, TypeOK, PSKsAccounted
  <1>4. OnOnePeer'
    BY DEF Deadline, sessionVars, pskVars, routeVars, Inv, TypeOK, OnOnePeer
  <1>5. Pinned'
    BY DEF Deadline, sessionVars, pskVars, routeVars, Inv, TypeOK, Pinned, Planned
  <1> QED BY <1>1, <1>2, <1>3, <1>4, <1>5 DEF Inv

(* hold sees the end. *)
LEMMA EndHoldInv ==
  ASSUME Inv, EndHold
  PROVE  Inv'
  <1>1. TypeOK'
    BY DEF EndHold, sessionVars, pskVars, routeVars, Inv, TypeOK
  <1>2. Undone'
    BY DEF EndHold, sessionVars, pskVars, routeVars, Inv, TypeOK, Undone
  <1>3. PSKsAccounted'
    BY DEF EndHold, sessionVars, pskVars, routeVars, Inv, TypeOK, PSKsAccounted
  <1>4. OnOnePeer'
    BY DEF EndHold, sessionVars, pskVars, routeVars, Inv, TypeOK, OnOnePeer
  <1>5. Pinned'
    BY DEF EndHold, sessionVars, pskVars, routeVars, Inv, TypeOK, Pinned, Planned
  <1> QED BY <1>1, <1>2, <1>3, <1>4, <1>5 DEF Inv

(* The walk offers a peer. *)
LEMMA WalkNextInv ==
  ASSUME Inv, WalkNext
  PROVE  Inv'
  <1>1. TypeOK'
    <2>1. cand' \in Peers /\ tried' \subseteq Peers
      BY DEF WalkNext, Untried, Inv, TypeOK, OnOnePeer
    <2> QED BY <2>1 DEF WalkNext, pskVars, routeVars, Inv, TypeOK
  <1>2. Undone'
    BY DEF WalkNext, Untried, sessionVars, pskVars, routeVars, Inv, TypeOK, Undone
  <1>3. PSKsAccounted'
    BY DEF WalkNext, Untried, sessionVars, pskVars, routeVars, Inv, TypeOK, PSKsAccounted
  <1>4. OnOnePeer'
    BY DEF WalkNext, Untried, sessionVars, pskVars, routeVars, Inv, TypeOK, OnOnePeer
  <1>5. Pinned'
    BY DEF WalkNext, Untried, sessionVars, pskVars, routeVars, Inv, TypeOK, Pinned, Planned
  <1> QED BY <1>1, <1>2, <1>3, <1>4, <1>5 DEF Inv

(* The walk has none left. *)
LEMMA WalkGivesUpInv ==
  ASSUME Inv, WalkGivesUp
  PROVE  Inv'
  <1>1. TypeOK'
    BY DEF WalkGivesUp, sessionVars, pskVars, routeVars, Inv, TypeOK, OnOnePeer
  <1>2. Undone'
    BY DEF WalkGivesUp, sessionVars, pskVars, routeVars, Inv, TypeOK, Undone
  <1>3. PSKsAccounted'
    BY DEF WalkGivesUp, sessionVars, pskVars, routeVars, Inv, TypeOK, PSKsAccounted
  <1>4. OnOnePeer'
    BY DEF WalkGivesUp, sessionVars, pskVars, routeVars, Inv, TypeOK, OnOnePeer
  <1>5. Pinned'
    BY DEF WalkGivesUp, sessionVars, pskVars, routeVars, Inv, TypeOK, Pinned, Planned
  <1> QED BY <1>1, <1>2, <1>3, <1>4, <1>5 DEF Inv

(* A person offers a peer. *)
LEMMA RepromptInv ==
  ASSUME Inv, Reprompt
  PROVE  Inv'
  <1>1. TypeOK'
    BY DEF Reprompt, sessionVars, pskVars, routeVars, Inv, TypeOK
  <1>2. Undone'
    BY DEF Reprompt, sessionVars, pskVars, routeVars, Inv, TypeOK, Undone
  <1>3. PSKsAccounted'
    BY DEF Reprompt, sessionVars, pskVars, routeVars, Inv, TypeOK, PSKsAccounted
  <1>4. OnOnePeer'
    BY DEF Reprompt, sessionVars, pskVars, routeVars, Inv, TypeOK, OnOnePeer
  <1>5. Pinned'
    BY DEF Reprompt, sessionVars, pskVars, routeVars, Inv, TypeOK, Pinned, Planned
  <1> QED BY <1>1, <1>2, <1>3, <1>4, <1>5 DEF Inv

(* The state file follows the peer. *)
LEMMA ResaveInv ==
  ASSUME Inv, Resave
  PROVE  Inv'
  <1>1. TypeOK'
    <2>1. polls' \in 0 .. Polls
      BY DEF Resave
    <2>2. stateFile' \in Peers \cup {NoPeer, Torn} /\ held' \subseteq {"link", "dns", "pub", "orphan", "state"}
      BY DEF Resave, Saved, SaveFailed, Inv, TypeOK
    <2>3. warned' \subseteq Addrs \cup {"state", "stale"} /\ pc' = "await"
      BY DEF Resave, Inv, TypeOK
    <2> QED BY <2>1, <2>2, <2>3 DEF Resave, sessionVars, pskVars, routeVars, Inv, TypeOK
  <1>2. Undone'
    <2>1. hostRoutes \subseteq PreRoutes \cup pins \cup warned' /\ pc' = "await"
      BY DEF Resave, Inv, TypeOK, Undone
    <2> QED BY <2>1 DEF Resave, routeVars, Inv, Undone
  <1>3. PSKsAccounted'
    BY DEF Resave, Saved, SaveFailed, sessionVars, pskVars, routeVars, Inv, TypeOK, PSKsAccounted
  <1>4. OnOnePeer'
    BY DEF Resave, Saved, SaveFailed, sessionVars, pskVars, routeVars, Inv, TypeOK, OnOnePeer
  <1>5. Pinned'
    BY DEF Resave, Saved, SaveFailed, sessionVars, pskVars, routeVars, Inv, TypeOK, Pinned,
       Planned
  <1> QED BY <1>1, <1>2, <1>3, <1>4, <1>5 DEF Inv

(* teardown: the resolver. *)
LEMMA RevertDNSInv ==
  ASSUME Inv, RevertDNS
  PROVE  Inv'
  <1>1. TypeOK'
    BY DEF RevertDNS, sessionVars, pskVars, routeVars, Inv, TypeOK
  <1>2. Undone'
    BY DEF RevertDNS, sessionVars, pskVars, routeVars, Inv, TypeOK, Undone
  <1>3. PSKsAccounted'
    BY DEF RevertDNS, sessionVars, pskVars, routeVars, Inv, TypeOK, PSKsAccounted
  <1>4. OnOnePeer'
    BY DEF RevertDNS, sessionVars, pskVars, routeVars, Inv, TypeOK, OnOnePeer
  <1>5. Pinned'
    BY DEF RevertDNS, sessionVars, pskVars, routeVars, Inv, TypeOK, Pinned, Planned
  <1> QED BY <1>1, <1>2, <1>3, <1>4, <1>5 DEF Inv

(* teardown: the device, and the link with it. *)
LEMMA CloseDeviceInv ==
  ASSUME Inv, CloseDevice
  PROVE  Inv'
  <1>1. TypeOK'
    BY DEF CloseDevice, sessionVars, pskVars, routeVars, Inv, TypeOK
  <1>2. Undone'
    BY DEF CloseDevice, sessionVars, pskVars, routeVars, Inv, TypeOK, Undone
  <1>3. PSKsAccounted'
    BY DEF CloseDevice, sessionVars, pskVars, routeVars, Inv, TypeOK, PSKsAccounted
  <1>4. OnOnePeer'
    BY DEF CloseDevice, sessionVars, pskVars, routeVars, Inv, TypeOK, OnOnePeer
  <1>5. Pinned'
    BY DEF CloseDevice, sessionVars, pskVars, routeVars, Inv, TypeOK, Pinned, Planned
  <1> QED BY <1>1, <1>2, <1>3, <1>4, <1>5 DEF Inv

(* teardown: the host routes. *)
LEMMA RestorePinsInv ==
  ASSUME Inv, RestorePins
  PROVE  Inv'
  <1>1. TypeOK'
    BY DEF RestorePins, sessionVars, pskVars, routeVars, Inv, TypeOK
  <1>2. Undone'
    BY DEF RestorePins, sessionVars, pskVars, routeVars, Inv, TypeOK, Undone
  <1>3. PSKsAccounted'
    BY DEF RestorePins, sessionVars, pskVars, routeVars, Inv, TypeOK, PSKsAccounted
  <1>4. OnOnePeer'
    BY DEF RestorePins, sessionVars, pskVars, routeVars, Inv, TypeOK, OnOnePeer
  <1>5. Pinned'
    BY DEF RestorePins, sessionVars, pskVars, routeVars, Inv, TypeOK, Pinned, Planned
  <1> QED BY <1>1, <1>2, <1>3, <1>4, <1>5 DEF Inv

(* teardown: the pre-shared key. *)
LEMMA ForgetInv ==
  ASSUME Inv, Forget
  PROVE  Inv'
  <1>1. TypeOK'
    BY DEF Forget, sessionVars, pskVars, routeVars, Inv, TypeOK
  <1>2. Undone'
    BY DEF Forget, sessionVars, pskVars, routeVars, Inv, TypeOK, Undone, PSKsAccounted
  <1>3. PSKsAccounted'
    BY DEF Forget, sessionVars, pskVars, routeVars, Inv, TypeOK, PSKsAccounted
  <1>4. OnOnePeer'
    BY DEF Forget, sessionVars, pskVars, routeVars, Inv, TypeOK, OnOnePeer
  <1>5. Pinned'
    BY DEF Forget, sessionVars, pskVars, routeVars, Inv, TypeOK, Pinned, Planned
  <1> QED BY <1>1, <1>2, <1>3, <1>4, <1>5 DEF Inv

(* teardown: the state file, last. *)
LEMMA RemoveStateInv ==
  ASSUME Inv, RemoveState
  PROVE  Inv'
  <1>1. TypeOK'
    BY DEF RemoveState, sessionVars, pskVars, routeVars, Inv, TypeOK
  <1>2. Undone'
    BY DEF RemoveState, sessionVars, pskVars, routeVars, Inv, TypeOK, Undone
  <1>3. PSKsAccounted'
    BY DEF RemoveState, sessionVars, pskVars, routeVars, Inv, TypeOK, PSKsAccounted
  <1>4. OnOnePeer'
    BY DEF RemoveState, sessionVars, pskVars, routeVars, Inv, TypeOK, OnOnePeer
  <1>5. Pinned'
    BY DEF RemoveState, sessionVars, pskVars, routeVars, Inv, TypeOK, Pinned, Planned
  <1> QED BY <1>1, <1>2, <1>3, <1>4, <1>5 DEF Inv

(* Something wants the tunnel to end. *)
LEMMA ComesDueInv ==
  ASSUME Inv, ComesDue
  PROVE  Inv'
  <1>1. TypeOK'
    BY DEF ComesDue, sessionVars, pskVars, routeVars, Inv, TypeOK
  <1>2. Undone'
    BY DEF ComesDue, sessionVars, pskVars, routeVars, Inv, TypeOK, Undone
  <1>3. PSKsAccounted'
    BY DEF ComesDue, sessionVars, pskVars, routeVars, Inv, TypeOK, PSKsAccounted
  <1>4. OnOnePeer'
    BY DEF ComesDue, sessionVars, pskVars, routeVars, Inv, TypeOK, OnOnePeer
  <1>5. Pinned'
    BY DEF ComesDue, sessionVars, pskVars, routeVars, Inv, TypeOK, Pinned, Planned
  <1> QED BY <1>1, <1>2, <1>3, <1>4, <1>5 DEF Inv

(* The ending channel closes. *)
LEMMA WatchInv ==
  ASSUME Inv, Watch
  PROVE  Inv'
  <1>1. TypeOK'
    BY DEF Watch, sessionVars, pskVars, routeVars, Inv, TypeOK
  <1>2. Undone'
    BY DEF Watch, sessionVars, pskVars, routeVars, Inv, TypeOK, Undone
  <1>3. PSKsAccounted'
    BY DEF Watch, sessionVars, pskVars, routeVars, Inv, TypeOK, PSKsAccounted
  <1>4. OnOnePeer'
    BY DEF Watch, sessionVars, pskVars, routeVars, Inv, TypeOK, OnOnePeer
  <1>5. Pinned'
    BY DEF Watch, sessionVars, pskVars, routeVars, Inv, TypeOK, Pinned, Planned
  <1> QED BY <1>1, <1>2, <1>3, <1>4, <1>5 DEF Inv

(* A peer answers. *)
LEMMA HandshakeInv ==
  ASSUME Inv, NEW p \in Peers, Handshake(p)
  PROVE  Inv'
  <1>1. TypeOK'
    BY DEF Handshake, sessionVars, pskVars, routeVars, Inv, TypeOK
  <1>2. Undone'
    BY DEF Handshake, sessionVars, pskVars, routeVars, Inv, TypeOK, Undone
  <1>3. PSKsAccounted'
    BY DEF Handshake, sessionVars, pskVars, routeVars, Inv, TypeOK, PSKsAccounted
  <1>4. OnOnePeer'
    BY DEF Handshake, sessionVars, pskVars, routeVars, Inv, TypeOK, OnOnePeer
  <1>5. Pinned'
    BY DEF Handshake, sessionVars, pskVars, routeVars, Inv, TypeOK, Pinned, Planned
  <1> QED BY <1>1, <1>2, <1>3, <1>4, <1>5 DEF Inv

(* A signal before Run asked for signals. *)
LEMMA KilledInv ==
  ASSUME Inv, Killed
  PROVE  Inv'
  <1>1. TypeOK'
    BY DEF Killed, sessionVars, pskVars, routeVars, Inv, TypeOK
  <1>2. Undone'
    BY DEF Killed, sessionVars, pskVars, routeVars, Inv, TypeOK, Undone
  <1>3. PSKsAccounted'
    BY DEF Killed, sessionVars, pskVars, routeVars, Inv, TypeOK, PSKsAccounted
  <1>4. OnOnePeer'
    BY DEF Killed, sessionVars, pskVars, routeVars, Inv, TypeOK, OnOnePeer
  <1>5. Pinned'
    BY DEF Killed, sessionVars, pskVars, routeVars, Inv, TypeOK, Pinned, Planned
  <1> QED BY <1>1, <1>2, <1>3, <1>4, <1>5 DEF Inv

(* Every step, the stuttering one included, keeps the invariant. *)
LEMMA NextInv == Inv /\ [Next]_vars => Inv'
  <1> SUFFICES ASSUME Inv, [Next]_vars PROVE Inv'
    OBVIOUS
  <1>1. CASE UNCHANGED vars
    <2> USE <1>1 DEF vars, sessionVars, pskVars, routeVars, Inv
    <2>1. TypeOK'
      BY DEF TypeOK
    <2>2. Undone' /\ PSKsAccounted' /\ OnOnePeer' /\ Pinned'
      BY DEF Undone, PSKsAccounted, OnOnePeer, Pinned
    <2> QED BY <2>1, <2>2
  <1>2. CASE openDevice
    BY <1>2, GetPubKeyInv, CreateTUNInv, DevUpInv DEF openDevice
  <1>3. CASE usePeer
    BY <1>3, UnwrapPSKInv, PinEndpointsInv, FailoverRoutesInv, IpcSetInv DEF usePeer
  <1>4. CASE configureInterface \/ Save \/ Listen
    BY <1>4, AddressInv, InterfaceRoutesInv, SetDNSInv, NoDNSInv, ProbeInv, SaveInv, ListenInv
    DEF configureInterface
  <1>5. CASE hold \/ SelectNext
    BY <1>5, PollInv, DeadlineInv, EndHoldInv, ResaveInv, WalkNextInv, WalkGivesUpInv, RepromptInv
    DEF hold, SelectNext
  <1>6. CASE teardown
    BY <1>6, RevertDNSInv, CloseDeviceInv, RestorePinsInv, ForgetInv, RemoveStateInv DEF teardown
  <1>7. CASE ComesDue \/ Watch \/ Killed
    BY <1>7, ComesDueInv, WatchInv, KilledInv
  <1>8. CASE \E p \in Peers : Handshake(p)
    BY <1>8, HandshakeInv
  <1> QED BY <1>1, <1>2, <1>3, <1>4, <1>5, <1>6, <1>7, <1>8 DEF Next, Run

(* The invariant holds in every state a tunnel can reach. *)
THEOREM Invariance == Safety => []Inv
  BY InitInv, NextInv, PTL DEF Safety

(* The tunnel's variables have their types. *)
THEOREM TypeCorrect == Safety => []TypeOK
  <1>1. Inv => TypeOK
    BY DEF Inv
  <1> QED BY <1>1, Invariance, PTL

(* After teardown nothing stands that no warning named, but a public key   *)
(* file that could not be removed, and after an error of openDevice only   *)
(* the link may stand: for any peers, any addresses, any calls that failed *)
(* and any number of failovers.                                            *)
THEOREM TeardownLeavesNothing == Safety => []LeavesNothing
  <1>1. Inv => LeavesNothing
    BY DEF Inv, TypeOK, Undone, LeavesNothing, Cleared
  <1> QED BY <1>1, Invariance, PTL

(* No pre-shared key outlives the peer it belongs to, however often the    *)
(* tunnel fails over and wherever an attempt stops.                        *)
THEOREM PSKsZeroed == Safety => []PSKsAccounted
  <1>1. Inv => PSKsAccounted
    BY DEF Inv
  <1> QED BY <1>1, Invariance, PTL

(* A completed handshake is always one with the peer the tunnel reports.   *)
THEOREM SettledIsReported == Safety => []SettledOnPeer
  <1>1. Inv => SettledOnPeer
    BY DEF Inv, TypeOK, OnOnePeer, SettledOnPeer
  <1> QED BY <1>1, Invariance, PTL

(* The state file names the peer in use, or a warning said it does not.    *)
THEOREM StateFileFollows == Safety => []StateNamesPeer
  <1>1. Inv => StateNamesPeer
    BY DEF Inv, OnOnePeer, StateNamesPeer
  <1> QED BY <1>1, Invariance, PTL

(* Where an endpoint that any peer takes into the tunnel is taken by its   *)
(* own peer too, the endpoint in use always has a route around the tunnel. *)
(* Tunnel_narrow shows the hypothesis is needed.                           *)
THEOREM EndpointStaysOutside ==
  ASSUME Uniform
  PROVE  Safety => []EndpointOutside
  <1>1. Inv => EndpointOutside
    <2> SUFFICES ASSUME Inv, NEW p \in wg, Endpoint[p] \in tunRoutes
                 PROVE  Endpoint[p] \in hostRoutes
      BY DEF EndpointOutside
    <2>1. p \in Peers
      BY DEF Inv, TypeOK
    <2>2. PICK q \in Peers : Endpoint[p] \in Covers[q]
      BY DEF Inv, Pinned
    <2>3. Endpoint[p] \in Planned(p)
      BY <2>1, <2>2 DEF Uniform, Planned
    <2> QED BY <2>3 DEF Inv, Pinned
  <1> QED BY <1>1, Invariance, PTL

(* When the state file goes, which wg-hem down takes for the end, the rest *)
(* has gone already.                                                       *)
THEOREM StateFileGoesLast == Safety => DownMeansDown
  <1>1. Inv /\ [Next]_vars =>
          [("state" \in held /\ "state" \notin held') => Cleared /\ psks = {}]_vars
    <2> SUFFICES ASSUME Inv, Next, "state" \in held, "state" \notin held'
                 PROVE  Cleared /\ psks = {}
      OBVIOUS
    <2>1. CASE RemoveState
      BY <2>1 DEF RemoveState, Inv, Undone, Cleared
    <2>2. CASE openDevice
      BY <2>2 DEF openDevice, GetPubKey, CreateTUN, DevUp, Inv, OnOnePeer, TypeOK
    <2>3. CASE usePeer \/ hold \/ Save \/ Listen
      BY <2>3 DEF usePeer, UnwrapPSK, PinEndpoints, FailoverRoutes, IpcSet, hold, Poll, Deadline,
                  EndHold, Resave, Save, Listen, Saved, SaveFailed
    <2>4. CASE configureInterface \/ SelectNext
      BY <2>4 DEF configureInterface, Address, InterfaceRoutes, SetDNS, NoDNS, Probe, SelectNext,
                  WalkNext, WalkGivesUp, Reprompt
    <2>5. CASE RevertDNS \/ CloseDevice \/ RestorePins \/ Forget
      BY <2>5 DEF RevertDNS, CloseDevice, RestorePins, Forget
    <2>6. CASE ComesDue \/ Watch \/ Killed \/ \E p \in Peers : Handshake(p)
      BY <2>6 DEF ComesDue, Watch, Killed, Handshake
    <2> QED BY <2>1, <2>2, <2>3, <2>4, <2>5, <2>6 DEF Next, Run, teardown
  <1> QED BY <1>1, Invariance, PTL DEF Safety, DownMeansDown

-----------------------------------------------------------------------------
(* The walk: every peer has one turn.                                      *)

(* The calls of usePeer between the unwrapped key and the configured peer. *)
Midway == {"pin", "routes", "ipcset"}

(* A walk has unwrapped one key for every peer it has left behind, and one  *)
(* more for the peer it is on or is moving to, which it has not been on.    *)
Turns ==
  AutoFailover =>
    /\ uses <= Cardinality(Peers)
    /\ pc \in Opening \cup {"unwrap"} => uses = Cardinality(tried)
    /\ pc \in Opening \cup Using => cand \notin tried
    /\ pc \in Midway \cup Configuring \cup Holding => uses = Cardinality(tried) + 1
    /\ pc \in Configuring \cup Holding => peer \notin tried

(* The stored order is a list, so there are finitely many peers. *)
LEMMA FinitePeers == IsFiniteSet(Peers)
  <1>1. Order \in [1 .. Len(Order) -> Peers] /\ Len(Order) \in Nat
    OBVIOUS
  <1>2. \A p \in Peers : \E i \in 1 .. Len(Order) : Order[i] = p
    BY <1>1
  <1>3. Order \in Surjection(1 .. Len(Order), Peers)
    BY <1>1, <1>2 DEF Surjection
  <1>4. IsFiniteSet(1 .. Len(Order))
    BY <1>1, FS_Interval
  <1> QED BY <1>3, <1>4, FS_Surjection

(* One peer more is one turn more, and turns never outnumber peers. *)
LEMMA OneMore ==
  ASSUME NEW S, S \subseteq Peers, NEW p \in Peers
  PROVE  /\ Cardinality(S) \in Nat /\ Cardinality(Peers) \in Nat
         /\ p \notin S => /\ Cardinality(S \cup {p}) = Cardinality(S) + 1
                          /\ Cardinality(S) + 1 <= Cardinality(Peers)
  <1>1. IsFiniteSet(S)
    BY FinitePeers, FS_Subset
  <1>2. Cardinality(S) \in Nat /\ Cardinality(Peers) \in Nat
    BY <1>1, FinitePeers, FS_CardinalityType
  <1>3. Cardinality(S \cup {p}) <= Cardinality(Peers)
    <2>1. S \cup {p} \in SUBSET Peers
      OBVIOUS
    <2> QED BY <2>1, FinitePeers, FS_Subset
  <1>4. p \notin S => Cardinality(S \cup {p}) = Cardinality(S) + 1
    BY <1>1, FS_AddElement
  <1> QED BY <1>2, <1>3, <1>4

(* A step that moves on to no other peer. *)
LEMMA TurnsKept ==
  ASSUME Turns, UNCHANGED <<peer, cand, tried, uses>>, "walk" \in flags' => "walk" \in flags,
         \/ pc' \in Tearing \cup Terminal
         \/ pc \in Opening \cup {"unwrap"} /\ pc' \in Opening \cup {"unwrap"}
         \/ pc \in Midway /\ pc' \in Midway
         \/ pc \in Configuring \cup Holding /\ pc' \in Configuring \cup Holding
  PROVE  Turns'
  BY DEF Turns, AutoFailover, Midway

(* The key of the next peer is unwrapped, or is not. *)
LEMMA UnwrapTurns ==
  ASSUME Inv, Turns, UnwrapPSK
  PROVE  Turns'
  <1>1. CASE pc' = "revert" /\ UNCHANGED uses
    BY <1>1, TurnsKept DEF UnwrapPSK
  <1>2. CASE pc' = "pin" /\ uses' = uses + 1
    <2> SUFFICES ASSUME AutoFailover' PROVE Turns'
      BY DEF Turns
    <2>1. AutoFailover /\ UNCHANGED <<cand, tried>> /\ pc = "unwrap"
      BY DEF UnwrapPSK, AutoFailover
    <2>2. uses = Cardinality(tried) /\ cand \notin tried
      BY <2>1 DEF Turns
    <2>3. Cardinality(tried) + 1 <= Cardinality(Peers)
      BY <2>2, OneMore DEF Inv, TypeOK
    <2> QED BY <1>2, <2>1, <2>2, <2>3 DEF Turns, Midway
  <1> QED BY <1>1, <1>2 DEF UnwrapPSK

(* The peer that is configured is the one the key was unwrapped for. *)
LEMMA IpcSetTurns ==
  ASSUME Turns, IpcSet
  PROVE  Turns'
  <1>1. "walk" \in flags' => "walk" \in flags
    BY DEF IpcSet
  <1>2. CASE pc' = "revert"
    BY <1>1, <1>2 DEF IpcSet, Turns, AutoFailover, Midway
  <1>3. CASE pc' \in {"resave", "address"} /\ peer' = cand
    BY <1>1, <1>3 DEF IpcSet, Turns, AutoFailover, Midway
  <1> QED BY <1>2, <1>3 DEF IpcSet, fail

(* The walk leaves a peer behind and takes one it has not been on. *)
LEMMA WalkNextTurns ==
  ASSUME Inv, Turns, WalkNext
  PROVE  Turns'
  <1>1. AutoFailover /\ pc = "choose" /\ pc' = "unwrap" /\ uses' = uses
    BY DEF WalkNext
  <1>2. peer \in Peers /\ tried \subseteq Peers /\ peer \notin tried
    BY <1>1 DEF Inv, TypeOK, OnOnePeer, Turns
  <1>3. uses = Cardinality(tried) + 1 /\ uses <= Cardinality(Peers)
    BY <1>1 DEF Turns
  <1>4. uses' = Cardinality(tried')
    <2>1. tried' = tried \cup {peer}
      BY DEF WalkNext
    <2> QED BY <1>1, <1>2, <1>3, <2>1, OneMore
  <1>5. cand' \notin tried'
    BY DEF WalkNext, Untried
  <1> QED BY <1>1, <1>3, <1>4, <1>5 DEF Turns, Midway

(* Every step keeps the turns. *)
LEMMA NextTurns == Inv /\ Turns /\ [Next]_vars => Turns'
  <1> SUFFICES ASSUME Inv, Turns, [Next]_vars PROVE Turns'
    OBVIOUS
  <1>1. CASE UNCHANGED <<pc, sessionVars, flags>>
    BY <1>1 DEF Turns, AutoFailover, sessionVars
  <1>2. CASE openDevice
    BY <1>2, TurnsKept DEF openDevice, GetPubKey, CreateTUN, DevUp, sessionVars
  <1>3. CASE PinEndpoints \/ FailoverRoutes
    BY <1>3, TurnsKept DEF PinEndpoints, FailoverRoutes, fail, sessionVars, Midway
  <1>4. CASE configureInterface
    BY <1>4, TurnsKept DEF configureInterface, Address, InterfaceRoutes, SetDNS, NoDNS, Probe,
                           sessionVars
  <1>5. CASE Save \/ Listen \/ hold
    BY <1>5, TurnsKept DEF Save, Listen, hold, Poll, Deadline, EndHold, Resave, sessionVars
  <1>6. CASE teardown
    BY <1>6, TurnsKept DEF teardown, RevertDNS, CloseDevice, RestorePins, Forget, RemoveState,
                           sessionVars
  <1>7. CASE WalkGivesUp
    BY <1>7 DEF WalkGivesUp, Turns, AutoFailover, Midway
  <1>8. CASE Reprompt
    BY <1>8 DEF Reprompt, Turns, AutoFailover
  <1>9. CASE Killed
    BY <1>9, TurnsKept DEF Killed, sessionVars
  <1>10. CASE ComesDue \/ Watch \/ UNCHANGED vars \/ \E p \in Peers : Handshake(p)
    BY <1>1, <1>10 DEF ComesDue, Watch, Handshake, vars
  <1> QED
    BY <1>2, <1>3, <1>4, <1>5, <1>6, <1>7, <1>8, <1>9, <1>10, UnwrapTurns, IpcSetTurns,
       WalkNextTurns
    DEF Next, Run, usePeer, SelectNext

(* The turns hold in every state a tunnel can reach. *)
LEMMA TurnsAlways == Safety => [](Inv /\ Turns)
  <1>1. Init => Turns
    <2> SUFFICES ASSUME Init PROVE Turns
      OBVIOUS
    <2>1. Cardinality(tried) = 0 /\ Cardinality(Peers) \in Nat
      BY FS_EmptySet, FinitePeers, FS_CardinalityType DEF Init
    <2> QED BY <2>1 DEF Init, Turns, Midway
  <1> QED BY <1>1, InitInv, NextInv, NextTurns, PTL DEF Safety

(* "Each attempt is not free": a walk unwraps at most one pre-shared key   *)
(* per peer, for any stored order, one that lists a peer twice included.   *)
THEOREM WalkUnwrapsOnce == Safety => []OneTurnEach
  <1>1. Turns => OneTurnEach
    BY DEF Turns, OneTurnEach
  <1> QED BY <1>1, TurnsAlways, PTL

(* A walk gives up only after usePeer has been through for as many peers   *)
(* as the configuration has, for any stored order and wherever in it the   *)
(* session began: what the map marks as tried are turns that were taken.   *)
THEOREM WalkReachesAll == Safety => GivesUpAfterAll
  <1>1. Inv /\ Turns /\ [Next]_vars =>
          [pc = "choose" /\ pc' = "revert" /\ AutoFailover => uses = Cardinality(Peers)]_vars
    <2> SUFFICES ASSUME Inv, Turns, Next, pc = "choose", pc' = "revert", AutoFailover
                 PROVE  uses = Cardinality(Peers)
      OBVIOUS
    <2>1. CASE WalkGivesUp
      <3>1. peer \in Peers /\ tried \subseteq Peers
        BY DEF Inv, TypeOK, OnOnePeer
      <3>2. \A i \in DOMAIN Order : Order[i] \in tried \cup {peer}
        BY <2>1 DEF WalkGivesUp, Untried
      <3>3. tried \cup {peer} = Peers
        BY <3>1, <3>2
      <3>4. uses = Cardinality(tried) + 1 /\ peer \notin tried
        BY DEF Turns
      <3>5. Cardinality(tried \cup {peer}) = Cardinality(tried) + 1
        BY <3>1, <3>4, OneMore
      <3> QED BY <3>3, <3>4, <3>5
    <2>2. CASE WalkNext \/ Reprompt
      BY <2>2 DEF WalkNext, Reprompt
    <2>3. CASE openDevice \/ usePeer \/ configureInterface
      BY <2>3 DEF openDevice, GetPubKey, CreateTUN, DevUp, usePeer, UnwrapPSK, PinEndpoints,
                  FailoverRoutes, IpcSet, configureInterface, Address, InterfaceRoutes, SetDNS,
                  NoDNS, Probe
    <2>4. CASE Save \/ Listen \/ hold \/ teardown
      BY <2>4 DEF Save, Listen, hold, Poll, Deadline, EndHold, Resave, teardown, RevertDNS,
                  CloseDevice, RestorePins, Forget, RemoveState
    <2>5. CASE ComesDue \/ Watch \/ Killed \/ \E p \in Peers : Handshake(p)
      BY <2>5 DEF ComesDue, Watch, Killed, Handshake
    <2> QED BY <2>1, <2>2, <2>3, <2>4, <2>5 DEF Next, Run, SelectNext
  <1> QED BY <1>1, TurnsAlways, PTL DEF Safety, GivesUpAfterAll
=============================================================================
