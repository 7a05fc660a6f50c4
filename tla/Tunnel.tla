------------------------------- MODULE Tunnel -------------------------------
(***************************************************************************)
(* One tunnel's life (internal/tunnel), and what it does to the host on    *)
(* the way (internal/runtime, internal/session): Tunnel.Run, from reading  *)
(* the interface's public key to the last file teardown removes, with      *)
(* failover in between.                                                    *)
(*                                                                         *)
(* One step is one call into the device, the kernel, the resolver or the   *)
(* file system, because any of them may fail and a stop may arrive between *)
(* any two.  Addresses stand for themselves; a peer's AllowedIPs are the   *)
(* addresses they cover, and its endpoint is one address.                  *)
(***************************************************************************)
EXTENDS Naturals, Sequences, FiniteSets

CONSTANTS
  Peers,         \* the peers of the configuration
  Order,         \* tree.Peers: the stored order, which is the priority
  NoPeer,        \* t.peer == nil; no state file
  Torn,          \* a state file whose writing failed half way
  Addrs,         \* the addresses that matter
  Endpoint,      \* each peer's endpoint
  Covers,        \* the addresses each peer's AllowedIPs contain
  HEM,           \* where the device is
  PreRoutes,     \* host routes already there, through the same gateway
  Polls,         \* FailoverTimeout / handshakePoll
  MaxMoves       \* bound: peers a person picks in one session

ASSUME PeersAssumption ==
  /\ NoPeer \notin Peers /\ Torn \notin Peers /\ NoPeer # Torn
  /\ Order \in Seq(Peers) /\ \A p \in Peers : \E i \in DOMAIN Order : Order[i] = p
ASSUME AddrsAssumption ==
  /\ Endpoint \in [Peers -> Addrs] /\ Covers \in [Peers -> SUBSET Addrs]
  /\ HEM \in Addrs /\ PreRoutes \subseteq Addrs
  /\ "state" \notin Addrs /\ "stale" \notin Addrs
ASSUME NumbersAssumption == Polls \in Nat \ {0} /\ MaxMoves \in Nat

VARIABLES
  pc,          \* the call Run makes next
  over,        \* a watched channel is "due"; the ending channel is closed
  peer,        \* t.peer
  cand,        \* the peer usePeer is working on
  tried,       \* WalkPeers' map
  uses,        \* calls of usePeer so far; each unwraps into a slice of its own
  psks,        \* the slices not yet zeroed
  tpsk,        \* the slice t.psk is, 0 for nil
  held,        \* what stands on the host: link, resolver entry, files; "orphan"
               \* is a public key file that could not be removed
  flags,       \* the fields of Tunnel, its options included, that are true
  pins,        \* t.pins.routes
  hostRoutes,  \* host routes on the physical link
  tunRoutes,   \* addresses routed into the interface
  wg,          \* peers wireguard-go is configured with
  hs,          \* those of them that have completed a handshake
  stateFile,   \* the peer the state file names
  warned,      \* what a warning said stays behind or is stale
  polls        \* polls awaitHandshake has made of this peer

sessionVars == <<peer, cand, tried, uses>>
pskVars == <<psks, tpsk>>
routeVars == <<pins, hostRoutes, tunRoutes>>
vars == <<pc, over, sessionVars, pskVars, held, flags, routeVars, wg, hs,
          stateFile, warned, polls>>

Opening == {"getpub", "createtun", "devup"}
Using == {"unwrap", "pin", "routes", "ipcset"}
Configuring == {"address", "ifroutes", "resolver", "probe", "save", "listen"}
Holding == {"await", "choose", "resave", "settled", "blind"}
Tearing == {"revert", "close", "unpin", "forget", "unsave"}
Terminal == {"returned", "unopened", "killed"}

(* SelectNext is WalkPeers, rather than a prompt. *)
AutoFailover == "walk" \in flags

(* The configuration names DNS servers. *)
HasDNS == "hasDNS" \in flags

(* The goroutine that watches for the end runs from UAPIListen on. *)
Watching == pc \in Holding \/ (pc \in Using /\ peer # NoPeer)

TypeOK ==
  /\ pc \in Opening \cup Using \cup Configuring \cup Holding \cup Tearing \cup Terminal
  /\ over \in {"no", "due", "ending"}
  /\ peer \in Peers \cup {NoPeer} /\ cand \in Peers /\ tried \subseteq Peers
  /\ uses \in Nat /\ psks \subseteq 1 .. uses /\ tpsk \in 0 .. uses
  /\ held \subseteq {"link", "dns", "pub", "orphan", "state"}
  /\ flags \subseteq {"walk", "hasDNS", "dnsSet", "blind", "hemInside"}
  /\ pins \subseteq Addrs /\ hostRoutes \subseteq Addrs /\ tunRoutes \subseteq Addrs
  /\ wg \subseteq Peers /\ hs \subseteq wg
  /\ stateFile \in Peers \cup {NoPeer, Torn}
  /\ warned \subseteq Addrs \cup {"state", "stale"}
  /\ polls \in 0 .. Polls

(* New, and Run called with the peer its caller chose. *)
Init ==
  /\ pc = "getpub" /\ over = "no"
  /\ peer = NoPeer /\ cand \in Peers /\ tried = {} /\ uses = 0
  /\ psks = {} /\ tpsk = 0
  /\ held = {} /\ flags \in SUBSET {"walk", "hasDNS"}
  /\ pins = {} /\ hostRoutes = PreRoutes /\ tunRoutes = {}
  /\ wg = {} /\ hs = {}
  /\ stateFile = NoPeer /\ warned = {} /\ polls = 0

-----------------------------------------------------------------------------
(* openDevice.  Its errors are returned by Run as they are.                *)

GetPubKey ==
  /\ pc = "getpub"
  /\ pc' \in {"createtun", "unopened"}
  /\ UNCHANGED <<over, sessionVars, pskVars, held, flags, routeVars, wg, hs,
                 stateFile, warned, polls>>

CreateTUN ==
  /\ pc = "createtun"
  /\ \/ pc' = "unopened" /\ UNCHANGED held
     \/ pc' = "devup" /\ held' = held \cup {"link"}
  /\ UNCHANGED <<over, sessionVars, pskVars, flags, routeVars, wg, hs, stateFile,
                 warned, polls>>

(* dev.Up, and the public key file, whose failure is ignored.  When dev.Up  *)
(* fails the link is there and Run returns without teardown.                *)
DevUp ==
  /\ pc = "devup"
  /\ \/ pc' = "unopened" /\ UNCHANGED held
     \/ pc' = "unwrap" /\ \/ held' = held \cup {"pub"}
                          \/ UNCHANGED held
  /\ UNCHANGED <<over, sessionVars, pskVars, flags, routeVars, wg, hs, stateFile,
                 warned, polls>>

-----------------------------------------------------------------------------
(* usePeer, on the way up and again at every failover.                     *)

Failover == peer # NoPeer

(* The closure fail: the slice just unwrapped is zeroed. *)
fail == pc' = "revert" /\ psks' = psks \ {uses}

UnwrapPSK ==
  /\ pc = "unwrap"
  /\ \/ pc' = "revert" /\ UNCHANGED <<uses, psks>>
     \/ pc' = "pin" /\ uses' = uses + 1 /\ psks' = psks \cup {uses + 1}
  /\ UNCHANGED <<over, peer, cand, tried, tpsk, held, flags, routeVars, wg, hs,
                 stateFile, warned, polls>>

(* PlanRouting: the endpoint addresses the candidate's own AllowedIPs cover. *)
Planned(p) == {Endpoint[p]} \cap Covers[p]

(* Mutant of PinEndpoints: failover trusts the pins it has. *)
MutPinOnlyFirst ==
  /\ pc = "pin"
  /\ \/ fail /\ UNCHANGED <<pins, hostRoutes>>
     \/ /\ pc' = IF Failover THEN "routes" ELSE "ipcset"
        /\ pins' = IF Failover THEN pins ELSE pins \cup Planned(cand)
        /\ hostRoutes' = hostRoutes \cup pins'
        /\ UNCHANGED psks
  /\ UNCHANGED <<over, sessionVars, tpsk, held, flags, tunRoutes, wg, hs, stateFile,
                 warned, polls>>

(* PlanRouting, then Pins.Add; a route that is already there is recorded as *)
(* ours.  Either may fail: a name does not resolve, no gateway is found.    *)
PinEndpoints ==
  /\ pc = "pin"
  /\ \/ fail /\ UNCHANGED <<pins, hostRoutes>>
     \/ /\ pc' = IF Failover THEN "routes" ELSE "ipcset"
        /\ pins' = pins \cup Planned(cand)
        /\ hostRoutes' = hostRoutes \cup Planned(cand)
        /\ UNCHANGED psks
  /\ UNCHANGED <<over, sessionVars, tpsk, held, flags, tunRoutes, wg, hs, stateFile,
                 warned, polls>>

(* AddRoutes at failover: nothing is withdrawn; an error may come half way. *)
FailoverRoutes ==
  /\ pc = "routes"
  /\ \/ fail /\ \E some \in SUBSET Covers[cand] : tunRoutes' = tunRoutes \cup some
     \/ pc' = "ipcset" /\ tunRoutes' = tunRoutes \cup Covers[cand] /\ UNCHANGED psks
  /\ UNCHANGED <<over, sessionVars, tpsk, held, flags, pins, hostRoutes, wg, hs,
                 stateFile, warned, polls>>

(* Mutant of IpcSet: the previous peer is not dropped. *)
MutIpcSetKeepsPeer ==
  /\ pc = "ipcset"
  /\ \/ fail /\ UNCHANGED <<peer, tpsk, flags, wg, hs>>
     \/ /\ pc' = IF Failover THEN "resave" ELSE "address"
        /\ wg' = wg \cup {cand} /\ UNCHANGED hs
        /\ psks' = psks \ {tpsk} /\ tpsk' = uses
        /\ peer' = cand
        /\ flags' = IF HEM \in Covers[cand] THEN flags \cup {"hemInside"}
                                            ELSE flags \ {"hemInside"}
  /\ UNCHANGED <<over, cand, tried, uses, held, routeVars, stateFile, warned, polls>>

(* Mutant of IpcSet: the pre-shared key of the peer it replaces is kept. *)
MutIpcSetKeepsPSK ==
  /\ pc = "ipcset"
  /\ \/ fail /\ UNCHANGED <<peer, tpsk, flags, wg, hs>>
     \/ /\ pc' = IF Failover THEN "resave" ELSE "address"
        /\ wg' = {cand} /\ hs' = {}
        /\ UNCHANGED psks /\ tpsk' = uses
        /\ peer' = cand
        /\ flags' = IF HEM \in Covers[cand] THEN flags \cup {"hemInside"}
                                            ELSE flags \ {"hemInside"}
  /\ UNCHANGED <<over, cand, tried, uses, held, routeVars, stateFile, warned, polls>>

(* uapiConfig on an empty device, uapiReplacePeer on one that has a peer    *)
(* (which it drops, and its handshake with it), then the assignments that   *)
(* end usePeer.  Configuring a peer anew forgets its handshake.  Lines are  *)
(* applied as they are read, so an error may leave no peer or the new one.  *)
IpcSet ==
  /\ pc = "ipcset"
  /\ \/ /\ fail /\ UNCHANGED <<peer, tpsk, flags>>
        /\ UNCHANGED <<wg, hs>> \/ (wg' \in {{}, {cand}} /\ hs' = {})
     \/ /\ pc' = IF Failover THEN "resave" ELSE "address"
        /\ wg' = {cand} /\ hs' = {}
        /\ psks' = psks \ {tpsk} /\ tpsk' = uses
        /\ peer' = cand
        /\ flags' = IF HEM \in Covers[cand] THEN flags \cup {"hemInside"}
                                            ELSE flags \ {"hemInside"}
  /\ UNCHANGED <<over, cand, tried, uses, held, routeVars, stateFile, warned, polls>>

-----------------------------------------------------------------------------
(* configureInterface.  Every error of it tears down.                      *)

(* Up and SetMTU. *)
Address ==
  /\ pc = "address"
  /\ pc' \in {"ifroutes", "revert"}
  /\ UNCHANGED <<over, sessionVars, pskVars, held, flags, routeVars, wg, hs,
                 stateFile, warned, polls>>

InterfaceRoutes ==
  /\ pc = "ifroutes"
  /\ \/ pc' = "revert" /\ \E some \in SUBSET Covers[peer] : tunRoutes' = tunRoutes \cup some
     \/ pc' = "resolver" /\ tunRoutes' = tunRoutes \cup Covers[peer]
  /\ UNCHANGED <<over, sessionVars, pskVars, held, flags, pins, hostRoutes, wg, hs,
                 stateFile, warned, polls>>

(* SetDNS: two calls of resolvectl, so an error may leave an entry that     *)
(* dnsSet knows nothing of; without resolvectl it succeeds and does nothing. *)
SetDNS ==
  /\ pc = "resolver" /\ HasDNS
  /\ held' \in {held, held \cup {"dns"}}
  /\ \/ pc' = "revert" /\ UNCHANGED flags
     \/ pc' = "probe" /\ flags' = flags \cup {"dnsSet"}
  /\ UNCHANGED <<over, sessionVars, pskVars, routeVars, wg, hs, stateFile, warned, polls>>

NoDNS ==
  /\ pc = "resolver" /\ ~HasDNS
  /\ pc' = "probe"
  /\ UNCHANGED <<over, sessionVars, pskVars, held, flags, routeVars, wg, hs, stateFile,
                 warned, polls>>

(* ProbeHEM, when the HEM is inside the tunnel. *)
Probe ==
  /\ pc = "probe"
  /\ pc' = "save" \/ (pc' = "revert" /\ "hemInside" \in flags)
  /\ UNCHANGED <<over, sessionVars, pskVars, held, flags, routeVars, wg, hs, stateFile,
                 warned, polls>>

-----------------------------------------------------------------------------
(* Run, once the interface is configured, and hold.                        *)

(* State.Save: os.WriteFile truncates before it writes. *)
Saved == held' = held \cup {"state"} /\ stateFile' = peer
SaveFailed ==
  \/ UNCHANGED <<held, stateFile>>
  \/ held' = held \cup {"state"} /\ stateFile' = Torn

Save ==
  /\ pc = "save"
  /\ \/ pc' = "listen" /\ Saved
     \/ pc' = "revert" /\ SaveFailed
  /\ UNCHANGED <<over, sessionVars, pskVars, flags, routeVars, wg, hs, warned, polls>>

(* UAPIListen; without it the tunnel runs blind. *)
Listen ==
  /\ pc = "listen"
  /\ \/ pc' = "await" /\ UNCHANGED flags
     \/ pc' = "blind" /\ flags' = flags \cup {"blind"}
  /\ polls' = 0
  /\ UNCHANGED <<over, sessionVars, pskVars, held, routeVars, wg, hs, stateFile, warned>>

(* awaitHandshake, tick: rt.Status is asked, and may not answer. *)
Poll ==
  /\ pc = "await" /\ polls < Polls
  /\ polls' = polls + 1
  /\ \/ pc' = "settled" /\ hs # {}
     \/ UNCHANGED pc
  /\ UNCHANGED <<over, sessionVars, pskVars, held, flags, routeVars, wg, hs, stateFile, warned>>

(* Mutant of Deadline: a peer that does not answer is waited for again. *)
MutDeadlineWaitsOn ==
  /\ pc = "await" /\ polls + 1 >= Polls
  /\ polls' = 0
  /\ UNCHANGED <<pc, over, sessionVars, pskVars, held, flags, routeVars, wg, hs, stateFile,
                 warned>>

(* awaitHandshake, deadline.  It comes due together with the last tick, and *)
(* select takes either.  hold then looks at ending before it moves.         *)
Deadline ==
  /\ pc = "await" /\ polls + 1 >= Polls
  /\ pc' = IF over = "ending" THEN "revert" ELSE "choose"
  /\ UNCHANGED <<over, sessionVars, pskVars, held, flags, routeVars, wg, hs, stateFile,
                 warned, polls>>

(* Mutant of EndHold: a settled tunnel only waits for its device. *)
MutEndHoldUnsettled ==
  /\ pc \in {"await", "blind"} /\ over = "ending"
  /\ pc' = "revert"
  /\ UNCHANGED <<over, sessionVars, pskVars, held, flags, routeVars, wg, hs, stateFile,
                 warned, polls>>

(* The three places hold receives from ending. *)
EndHold ==
  /\ pc \in {"await", "settled", "blind"} /\ over = "ending"
  /\ pc' = "revert"
  /\ UNCHANGED <<over, sessionVars, pskVars, held, flags, routeVars, wg, hs, stateFile,
                 warned, polls>>

(* The peers WalkPeers may still offer after this one failed. *)
Untried == {i \in DOMAIN Order : Order[i] \notin tried \cup {peer}}

(* Mutant of WalkNext: what was tried is not remembered. *)
MutWalkForgets ==
  /\ pc = "choose" /\ AutoFailover
  /\ \E i \in DOMAIN Order : Order[i] # peer /\ cand' = Order[i]
  /\ pc' = "unwrap"
  /\ UNCHANGED <<over, peer, tried, uses, pskVars, held, flags, routeVars, wg, hs,
                 stateFile, warned, polls>>

WalkNext ==
  /\ pc = "choose" /\ AutoFailover
  /\ tried' = tried \cup {peer}
  /\ \E i \in Untried : (\A j \in Untried : i <= j) /\ cand' = Order[i]
  /\ pc' = "unwrap"
  /\ UNCHANGED <<over, peer, uses, pskVars, held, flags, routeVars, wg, hs,
                 stateFile, warned, polls>>

(* Mutant of WalkGivesUp: only the peers after this one are looked at. *)
MutWalkOnlyForward ==
  /\ pc = "choose" /\ AutoFailover
  /\ \A i, j \in DOMAIN Order : i > j /\ Order[j] = peer => Order[i] \in tried
  /\ tried' = tried \cup {peer} /\ pc' = "revert"
  /\ UNCHANGED <<over, peer, cand, uses, pskVars, held, flags, routeVars, wg, hs,
                 stateFile, warned, polls>>

WalkGivesUp ==
  /\ pc = "choose" /\ AutoFailover
  /\ Untried = {}
  /\ tried' = tried \cup {peer} /\ pc' = "revert"
  /\ UNCHANGED <<over, peer, cand, uses, pskVars, held, flags, routeVars, wg, hs,
                 stateFile, warned, polls>>

(* repromptPeer: whatever a person answers, the failed peer included; an    *)
(* unusable answer, or nobody there, is an error.                           *)
Reprompt ==
  /\ pc = "choose" /\ ~AutoFailover
  /\ \/ pc' = "unwrap" /\ uses < MaxMoves /\ cand' \in Peers
     \/ pc' = "revert" /\ UNCHANGED cand
  /\ UNCHANGED <<over, peer, tried, uses, pskVars, held, flags, routeVars, wg, hs,
                 stateFile, warned, polls>>

(* Mutant of Resave: the file is left naming the peer the session began with. *)
MutResaveForgotten ==
  /\ pc = "resave"
  /\ pc' = "await" /\ polls' = 0
  /\ UNCHANGED <<over, sessionVars, pskVars, held, flags, routeVars, wg, hs, stateFile, warned>>

(* hold, after usePeer succeeded: the state file follows, or a warning.     *)
Resave ==
  /\ pc = "resave"
  /\ \/ Saved /\ warned' = warned \ {"stale"}
     \/ SaveFailed /\ warned' = warned \cup {"stale"}
  /\ pc' = "await" /\ polls' = 0
  /\ UNCHANGED <<over, sessionVars, pskVars, flags, routeVars, wg, hs>>

-----------------------------------------------------------------------------
(* teardown.                                                               *)

(* Mutant of RevertDNS: teardown begins with the state file. *)
MutStateFileFirst ==
  /\ pc = "revert"
  /\ held' = held \ {"dns", "state"} /\ stateFile' = NoPeer
  /\ pc' = "close"
  /\ UNCHANGED <<over, sessionVars, pskVars, flags, routeVars, wg, hs, warned, polls>>

(* RevertDNS, if dnsSet; it is best-effort. *)
RevertDNS ==
  /\ pc = "revert"
  /\ held' \in {held} \cup (IF "dnsSet" \in flags THEN {held \ {"dns"}} ELSE {})
  /\ pc' = "close"
  /\ UNCHANGED <<over, sessionVars, pskVars, flags, routeVars, wg, hs, stateFile,
                 warned, polls>>

(* dev.Close, then Down: the link goes, and with it its routes and whatever *)
(* the resolver had been told about it.                                     *)
CloseDevice ==
  /\ pc = "close"
  /\ held' = held \ {"link", "dns"} /\ tunRoutes' = {} /\ wg' = {} /\ hs' = {}
  /\ pc' = "unpin"
  /\ UNCHANGED <<over, sessionVars, pskVars, flags, pins, hostRoutes, stateFile,
                 warned, polls>>

(* Mutant of RestorePins: what could not be removed is not mentioned. *)
MutRestoreSilent ==
  /\ pc = "unpin"
  /\ \E stuck \in SUBSET pins : hostRoutes' = hostRoutes \ (pins \ stuck)
  /\ pins' = {} /\ pc' = "forget"
  /\ UNCHANGED <<over, sessionVars, pskVars, held, flags, tunRoutes, wg, hs, stateFile,
                 warned, polls>>

(* Pins.Restore: a route that cannot be removed is warned about. *)
RestorePins ==
  /\ pc = "unpin"
  /\ \E stuck \in SUBSET pins :
       hostRoutes' = hostRoutes \ (pins \ stuck) /\ warned' = warned \cup stuck
  /\ pins' = {} /\ pc' = "forget"
  /\ UNCHANGED <<over, sessionVars, pskVars, held, flags, tunRoutes, wg, hs, stateFile, polls>>

(* Mutant of Forget: the public key file is not teardown's business. *)
MutForgetKeepsPub ==
  /\ pc = "forget"
  /\ psks' = psks \ {tpsk}
  /\ pc' = "unsave"
  /\ UNCHANGED <<over, sessionVars, tpsk, held, flags, routeVars, wg, hs, stateFile, warned,
                 polls>>

(* session.Zero(t.psk), and the public key file.  The error of os.Remove is *)
(* ignored: a file that stays, stays without a word.                        *)
Forget ==
  /\ pc = "forget"
  /\ psks' = psks \ {tpsk}
  /\ \/ held' = held \ {"pub"}
     \/ "pub" \in held /\ held' = (held \ {"pub"}) \cup {"orphan"}
  /\ pc' = "unsave"
  /\ UNCHANGED <<over, sessionVars, tpsk, flags, routeVars, wg, hs, stateFile, warned, polls>>

(* session.Remove, and Run returns. *)
RemoveState ==
  /\ pc = "unsave"
  /\ \/ held' = held \ {"state"} /\ stateFile' = NoPeer /\ UNCHANGED warned
     \/ "state" \in held /\ warned' = warned \cup {"state"} /\ UNCHANGED <<held, stateFile>>
  /\ pc' = "returned"
  /\ UNCHANGED <<over, sessionVars, pskVars, flags, routeVars, wg, hs, polls>>

-----------------------------------------------------------------------------
(* What the tunnel does not decide.                                        *)

(* A signal, a cancelled context, a closed device, a listener that fails,   *)
(* or a HEM that stopped answering handshakes.                              *)
ComesDue ==
  /\ over = "no" /\ pc \notin Terminal
  /\ over' = "due"
  /\ UNCHANGED <<pc, sessionVars, pskVars, held, flags, routeVars, wg, hs, stateFile,
                 warned, polls>>

(* The goroutine that watches closes the ending channel. *)
Watch ==
  /\ over = "due" /\ Watching
  /\ over' = "ending"
  /\ UNCHANGED <<pc, sessionVars, pskVars, held, flags, routeVars, wg, hs, stateFile,
                 warned, polls>>

(* A configured peer completes a handshake: wireguard-go, on its own time.  *)
Handshake(p) ==
  /\ p \in wg \ hs
  /\ hs' = hs \cup {p}
  /\ UNCHANGED <<pc, over, sessionVars, pskVars, held, flags, routeVars, wg, stateFile,
                 warned, polls>>

(* A signal before Run has asked for signals ends the process where it is:  *)
(* its memory and its tunnel device go with it, the rest stays.             *)
Killed ==
  /\ pc \in Opening \cup Using \cup Configuring /\ ~Watching
  /\ pc' = "killed"
  /\ held' = held \ {"link", "dns"} /\ tunRoutes' = {} /\ wg' = {} /\ hs' = {}
  /\ psks' = {} /\ tpsk' = 0 /\ pins' = {}
  /\ UNCHANGED <<over, sessionVars, flags, hostRoutes, stateFile, warned, polls>>

openDevice == GetPubKey \/ CreateTUN \/ DevUp
usePeer == UnwrapPSK \/ PinEndpoints \/ FailoverRoutes \/ IpcSet
configureInterface == Address \/ InterfaceRoutes \/ SetDNS \/ NoDNS \/ Probe
SelectNext == WalkNext \/ WalkGivesUp \/ Reprompt
hold == Poll \/ Deadline \/ EndHold \/ Resave
teardown == RevertDNS \/ CloseDevice \/ RestorePins \/ Forget \/ RemoveState

Run == openDevice \/ usePeer \/ configureInterface \/ Save \/ Listen \/ hold \/ teardown

Next ==
  \/ Run \/ SelectNext
  \/ ComesDue \/ Watch \/ Killed
  \/ \E p \in Peers : Handshake(p)

Safety == Init /\ [][Next]_vars

(* Every call Run makes returns: those to the device carry the SDK's        *)
(* timeout, the others are local; and time passes in awaitHandshake.  A     *)
(* walk always answers.  A prompt need not: nobody has to be there.  The    *)
(* goroutine that watches runs.                                             *)
Fairness ==
  /\ WF_vars(Run) /\ WF_vars(WalkNext \/ WalkGivesUp) /\ WF_vars(Watch)

Spec == Safety /\ Fairness

-----------------------------------------------------------------------------
(* Properties.                                                             *)

(* Link, resolver entry and public key file have been seen to, and host     *)
(* routes that were not there before are gone or named by a warning.        *)
Cleared ==
  /\ held \cap {"link", "dns", "pub"} = {} /\ tunRoutes = {}
  /\ hostRoutes \subseteq PreRoutes \cup warned

(* "teardown undoes everything this process created" (teardown): whichever  *)
(* of the calls failed, and however far failover had got, when Run returns  *)
(* after teardown no pre-shared key ever unwrapped is left in memory, and   *)
(* what still stands on the host was named by a warning; the one exception  *)
(* is a public key file that could not be removed, which nobody is told of. *)
(* "Every way out goes through it" is not so of openDevice's errors: on     *)
(* those only the link may be left, by a dev.Up that failed.                *)
LeavesNothing ==
  /\ pc = "returned" => Cleared /\ psks = {} /\ held \subseteq warned \cup {"orphan"}
  /\ pc = "unopened" => /\ held \subseteq {"link"} /\ psks = {} /\ tunRoutes = {}
                        /\ hostRoutes = PreRoutes

(* A pre-shared key is in memory only while it is t.psk or usePeer is still *)
(* working on it: failing over zeroes the one it replaces.                  *)
PSKsAccounted ==
  psks \subseteq {tpsk} \cup (IF pc \in Using \ {"unwrap"} THEN {uses} ELSE {})

(* wg-hem down reports "is down" as soon as the state file is gone          *)
(* (waitGone): the file goes only once the rest has been undone.            *)
DownMeansDown ==
  [][("state" \in held /\ "state" \notin held') => Cleared /\ psks = {}]_vars

(* "pinning its endpoint has to happen before a default route can capture   *)
(* it" (Run): the endpoint of the peer wireguard-go talks to is never       *)
(* routed into the tunnel without a host route around it.                   *)
EndpointOutside ==
  \A p \in wg : Endpoint[p] \in tunRoutes => Endpoint[p] \in hostRoutes

(* The same of the times hold waits for the peer it has moved to, which is  *)
(* when packets to that endpoint decide whether the tunnel settles          *)
(* ("Endpoints are peer endpoint addresses that AllowedIPs would otherwise  *)
(* capture", RoutePlan): false where AllowedIPs differ, see Tunnel_narrow.  *)
AwaitedOutside == pc = "await" => EndpointOutside

(* What the tunnel calls a completed handshake is one with the peer it      *)
(* reports, also when the peer it moved away from answers late.             *)
SettledOnPeer == pc = "settled" => peer \in hs /\ wg = {peer}

(* "It gives up after every peer has had its turn rather than cycling"      *)
(* (WalkPeers), wherever in the order the session began: by the time a walk *)
(* gives up, usePeer has been through for as many peers as there are, and   *)
(* a turn is more than a mark in the map.                                   *)
GivesUpAfterAll ==
  [][pc = "choose" /\ pc' = "revert" /\ AutoFailover => uses = Cardinality(Peers)]_vars

(* "Each attempt is not free" (WalkPeers): a walk unwraps no peer's         *)
(* pre-shared key twice.                                                    *)
OneTurnEach == AutoFailover => uses <= Cardinality(Peers)

(* The state file names the peer the tunnel is on, unless a warning said it *)
(* no longer does (hold).                                                   *)
StateNamesPeer ==
  pc \in {"await", "settled", "blind"} => stateFile = peer \/ "stale" \in warned

(* Once something ended the tunnel it does come down, whatever it was in    *)
(* the middle of, when failover asks nobody.                                *)
EndsWhenAsked == (AutoFailover /\ over # "no") ~> (pc \in Terminal)

(* A tunnel that walks does not sit on peers that never answer: it settles  *)
(* on one that does, runs blind and said so, or comes down.                 *)
SettlesOrEnds == AutoFailover => <>(pc \in {"settled", "blind"} \cup Terminal)

-----------------------------------------------------------------------------
(* The inductive invariant behind LeavesNothing, PSKsAccounted,            *)
(* DownMeansDown, SettledOnPeer, StateNamesPeer and EndpointOutside.       *)

(* How far teardown has got, and that a host route this process owns stays *)
(* on its list until it is removed or warned about.                        *)
Undone ==
  /\ pc # "killed" => hostRoutes \subseteq PreRoutes \cup pins \cup warned
  /\ pc \in {"unpin", "forget", "unsave", "returned"} =>
       held \cap {"link", "dns"} = {} /\ tunRoutes = {}
  /\ pc \in {"forget", "unsave", "returned"} => hostRoutes \subseteq PreRoutes \cup warned
  /\ pc \in {"unsave", "returned"} => psks = {} /\ "pub" \notin held
  /\ pc = "returned" => ("state" \in held => "state" \in warned)
  /\ pc \in Opening \cup {"unopened"} =>
       held \subseteq {"link"} /\ psks = {} /\ tunRoutes = {} /\ hostRoutes = PreRoutes

(* wireguard-go has the peer the tunnel is on and no other.                *)
OnOnePeer ==
  /\ pc \in Configuring \cup Holding => peer # NoPeer
  /\ pc \in Opening \cup Using \cup Configuring \cup Holding => wg = {peer} \ {NoPeer}
  /\ pc = "settled" => hs # {}
  /\ pc \in {"listen", "await", "choose", "settled", "blind"} =>
       stateFile = peer \/ "stale" \in warned

(* An endpoint its own peer's AllowedIPs cover is pinned before the peer   *)
(* goes in, for as long as it is in.                                       *)
Pinned ==
  /\ \A p \in wg : Planned(p) \subseteq hostRoutes
  /\ pc \in {"routes", "ipcset"} => Planned(cand) \subseteq hostRoutes
  /\ pc \in {"unpin", "forget", "unsave", "returned"} => wg = {}
  /\ \A a \in tunRoutes : \E p \in Peers : a \in Covers[p]

Inv == TypeOK /\ Undone /\ PSKsAccounted /\ OnOnePeer /\ Pinned

(* The configurations EndpointOutside is proved for: an endpoint some peer  *)
(* takes into the tunnel is taken by its own peer too.  Peers with the same *)
(* AllowedIPs are the usual case.                                           *)
Uniform == \A p, q \in Peers : Endpoint[p] \in Covers[q] => Endpoint[p] \in Covers[p]
=============================================================================
