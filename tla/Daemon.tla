------------------------------- MODULE Daemon -------------------------------
(***************************************************************************)
(* The privileged component's server (internal/daemon/daemon.go): an       *)
(* accept loop, one handler goroutine per connection, and at most one      *)
(* tunnel, which lives in a goroutine of its own.                          *)
(*                                                                         *)
(* One step of this specification is one critical section of Server.mu, or *)
(* what a goroutine does between two of them.  What a tunnel does while it *)
(* runs is module Tunnel; here a run only opens, comes up, returns and is  *)
(* cleared.  How a reply is put on the wire is module Wire.                *)
(***************************************************************************)
EXTENDS Naturals, Sequences, FiniteSets

CONSTANTS
  Conns,        \* connections accepted on the control socket
  Principals,   \* users the platform can identify
  Anonymous,    \* the zero Principal, equal to no user
  NoConn,       \* no connection: the starter of a run not yet begun
  Who,          \* what peerPrincipal answers for each connection
  Traffic,      \* bound: the kinds of request each client sends
  MaxRequests,  \* bound: requests one client sends on one connection
  MaxBacklog,   \* bound: requests waiting unread on one connection
  MaxRuns       \* bound: start requests sent by all clients together

ASSUME PrincipalAssumption == Anonymous \notin Principals
ASSUME NoConnAssumption == NoConn \notin Conns
ASSUME WhoAssumption == Who \in [Conns -> Principals \cup {Anonymous}]
ASSUME BoundAssumption == MaxRequests \in Nat /\ MaxBacklog \in Nat /\ MaxRuns \in Nat

VARIABLES
  (* Server, under mu *)
  running,    \* a tunnel is running or being opened
  owner,      \* who started it; clear() leaves the last value behind
  cancel,     \* the run whose context s.cancel cancels, or NoRun
  tun,        \* the run s.tun points at, or NoRun
  (* the runs: one per start request that was let through *)
  nruns,      \* runs begun so far; the run ids are 1 .. nruns
  phase,      \* where each run is
  starter,    \* the connection whose start request began it
  cancelled,  \* the runs whose context has been cancelled
  hsm,        \* the runs whose Tunnel.hsm is set, so a token can be replaced
  tokenOf,    \* who supplied the token the run acts with
  (* the handlers, and what their clients sent *)
  pc,         \* where each handler is
  started,    \* the handlers whose local variable started is true
  held,       \* the handler's local run: ctx in start, t in refresh
  inbox,      \* requests sent and not yet read
  eof,        \* the connections whose client has closed its end
  sent,       \* requests sent so far
  answered,   \* replies written so far
  asked       \* start requests sent by all clients

serverVars == <<running, owner, cancel, tun>>
runVars == <<nruns, phase, starter, cancelled, hsm, tokenOf>>
clientVars == <<eof, sent, asked>>
vars == <<serverVars, runVars, pc, started, held, inbox, answered, clientVars>>

NoRun == 0
Runs == 1 .. MaxRuns

(* unfit: does not decode, does not validate, or comes from another build.  *)
(* oversize: a length ReadMsg will not accept, which ends the connection.   *)
Request == {"start", "stop", "refresh", "whoami", "unfit", "oversize"}

ASSUME TrafficAssumption == Traffic \in [Conns -> SUBSET Request]

Phase == {"unborn", "opening", "opened", "up", "torn", "over"}
Live == {"opening", "opened", "up", "torn"}

HandlerPC == {"new", "read", "opening", "checked", "renewing", "gone"}

DataOK ==
  /\ owner \in Principals \cup {Anonymous}
  /\ cancel \in Runs \cup {NoRun}
  /\ tun \in Runs \cup {NoRun}
  /\ nruns \in 0 .. MaxRuns
  /\ phase \in [Runs -> Phase]
  /\ starter \in [Runs -> Conns \cup {NoConn}]
  /\ cancelled \subseteq Runs
  /\ hsm \subseteq Runs
  /\ tokenOf \in [Runs -> Principals \cup {Anonymous}]
  /\ pc \in [Conns -> HandlerPC]
  /\ started \subseteq Conns
  /\ held \in [Conns -> Runs \cup {NoRun}]
  /\ inbox \in [Conns -> Seq(Request)]
  /\ eof \subseteq Conns
  /\ sent \in [Conns -> Nat]
  /\ answered \in [Conns -> Nat]
  /\ asked \in Nat

TypeOK == running \in BOOLEAN /\ DataOK

Init ==
  /\ running = FALSE /\ owner = Anonymous /\ cancel = NoRun /\ tun = NoRun
  /\ nruns = 0
  /\ phase = [r \in Runs |-> "unborn"]
  /\ starter = [r \in Runs |-> NoConn]
  /\ cancelled = {}
  /\ hsm = {}
  /\ tokenOf = [r \in Runs |-> Anonymous]
  /\ pc = [c \in Conns |-> "new"]
  /\ started = {}
  /\ held = [c \in Conns |-> NoRun]
  /\ inbox = [c \in Conns |-> <<>>]
  /\ eof = {}
  /\ sent = [c \in Conns |-> 0]
  /\ answered = [c \in Conns |-> 0]
  /\ asked = 0

-----------------------------------------------------------------------------
(* The client's end of a connection.                                       *)

Send(c, q) ==
  /\ pc[c] # "gone" /\ c \notin eof
  /\ sent[c] < MaxRequests /\ Len(inbox[c]) < MaxBacklog
  /\ q = "start" => asked < MaxRuns
  /\ asked' = IF q = "start" THEN asked + 1 ELSE asked
  /\ sent' = [sent EXCEPT ![c] = @ + 1]
  /\ inbox' = [inbox EXCEPT ![c] = Append(@, q)]
  /\ UNCHANGED <<serverVars, runVars, pc, started, held, answered, eof>>

Close(c) ==
  /\ c \notin eof
  /\ eof' = eof \cup {c}
  /\ UNCHANGED <<serverVars, runVars, pc, started, held, inbox, answered, sent, asked>>

-----------------------------------------------------------------------------
(* Helpers of the handlers.                                                *)

Reads(c, q) ==
  /\ pc[c] = "read" /\ inbox[c] # <<>> /\ Head(inbox[c]) = q
  /\ inbox' = [inbox EXCEPT ![c] = Tail(@)]

Goto(c, to) == pc' = [pc EXCEPT ![c] = to]

(* Back to ReadMsg: the locals of start and refresh are out of scope. *)
BackToRead(c) == Goto(c, "read") /\ held' = [held EXCEPT ![c] = NoRun]

(* One reply: the handler never returns to ReadMsg without having written. *)
Answer(c) == answered' = [answered EXCEPT ![c] = @ + 1]

(* Mutant of stop: the owner is not asked about. *)
MutStopAnyCaller(who) ==
  IF running /\ cancel # NoRun
  THEN cancelled' = cancelled \cup {cancel}
  ELSE UNCHANGED cancelled

(* Server.stop: cancels the running context, for its owner only. *)
stop(who) ==
  IF running /\ owner = who /\ cancel # NoRun
  THEN cancelled' = cancelled \cup {cancel}
  ELSE UNCHANGED cancelled

(* Mutant of clear: the tunnel pointer is left behind. *)
MutClearKeepsTun == running' = FALSE /\ cancel' = NoRun /\ UNCHANGED tun

(* Server.clear: the owner is not reset. *)
clear == running' = FALSE /\ cancel' = NoRun /\ tun' = NoRun

-----------------------------------------------------------------------------
(* Server.handle.                                                          *)

(* Serve accepts and starts the handler. *)
Accept(c) ==
  /\ pc[c] = "new" /\ Who[c] # Anonymous
  /\ Goto(c, "read")
  /\ UNCHANGED <<serverVars, runVars, started, held, inbox, answered, clientVars>>

(* Mutant of TurnAway: not knowing who is asking is shrugged at. *)
MutTurnAwayAdmits(c) ==
  /\ pc[c] = "new" /\ Who[c] = Anonymous
  /\ Goto(c, "read")
  /\ UNCHANGED <<serverVars, runVars, started, held, inbox, answered, clientVars>>

(* A connection whose owner cannot be determined is told so and closed. *)
TurnAway(c) ==
  /\ pc[c] = "new" /\ Who[c] = Anonymous
  /\ Goto(c, "gone")
  /\ inbox' = [inbox EXCEPT ![c] = <<>>]
  /\ UNCHANGED <<serverVars, runVars, started, held, answered, clientVars>>

(* Requests that are answered from nothing that changes: whoami, and every *)
(* request that is refused before start or refresh looks at the session.   *)
AnswerOnly(c) ==
  /\ Reads(c, "whoami") \/ Reads(c, "unfit")
  /\ Answer(c)
  /\ UNCHANGED <<serverVars, runVars, pc, started, held, clientVars>>

(* start, first critical section. *)
StartRefused(c) ==
  /\ Reads(c, "start") /\ running
  /\ Answer(c)
  /\ UNCHANGED <<serverVars, runVars, pc, started, held, clientVars>>

(* Mutant of StartBegin: a running tunnel is not looked for. *)
MutStartNotExclusive(c) ==
  /\ nruns < MaxRuns
  /\ Reads(c, "start")
  /\ LET r == nruns + 1 IN
       /\ nruns' = r
       /\ phase' = [phase EXCEPT ![r] = "opening"]
       /\ starter' = [starter EXCEPT ![r] = c]
       /\ tokenOf' = [tokenOf EXCEPT ![r] = Who[c]]
       /\ held' = [held EXCEPT ![c] = r]
       /\ running' = TRUE /\ owner' = Who[c] /\ cancel' = r
  /\ Goto(c, "opening")
  /\ UNCHANGED <<tun, cancelled, hsm, started, answered, clientVars>>

StartBegin(c) ==
  /\ nruns < MaxRuns
  /\ Reads(c, "start") /\ ~running
  /\ LET r == nruns + 1 IN
       /\ nruns' = r
       /\ phase' = [phase EXCEPT ![r] = "opening"]
       /\ starter' = [starter EXCEPT ![r] = c]
       /\ tokenOf' = [tokenOf EXCEPT ![r] = Who[c]]
       /\ held' = [held EXCEPT ![c] = r]
       /\ running' = TRUE /\ owner' = Who[c] /\ cancel' = r
  /\ Goto(c, "opening")
  /\ UNCHANGED <<tun, cancelled, hsm, started, answered, clientVars>>

(* s.Open returned an error: cancel(), clear(), refusal. *)
OpenFails(c) ==
  /\ pc[c] = "opening"
  /\ phase' = [phase EXCEPT ![held[c]] = "over"]
  /\ cancelled' = cancelled \cup {held[c]}
  /\ clear
  /\ BackToRead(c) /\ Answer(c)
  /\ UNCHANGED <<owner, nruns, starter, hsm, tokenOf, started, inbox, clientVars>>

(* Mutant of OpenSucceeds: started is not set. *)
MutOpenForgetsStarted(c) ==
  /\ pc[c] = "opening"
  /\ phase' = [phase EXCEPT ![held[c]] = "opened"]
  /\ tun' = held[c]
  /\ BackToRead(c) /\ Answer(c)
  /\ UNCHANGED <<running, owner, cancel, nruns, starter, cancelled, hsm, tokenOf,
                 started, inbox, clientVars>>

(* s.Open returned a tunnel: second critical section, the run's goroutine  *)
(* is started, and the handler notes that this connection started it.      *)
OpenSucceeds(c) ==
  /\ pc[c] = "opening"
  /\ phase' = [phase EXCEPT ![held[c]] = "opened"]
  /\ tun' = held[c]
  /\ started' = started \cup {c}
  /\ BackToRead(c) /\ Answer(c)
  /\ UNCHANGED <<running, owner, cancel, nruns, starter, cancelled, hsm, tokenOf,
                 inbox, clientVars>>

StopRequest(c) ==
  /\ Reads(c, "stop")
  /\ stop(Who[c])
  /\ started' = started \ {c}
  /\ Answer(c)
  /\ UNCHANGED <<serverVars, nruns, phase, starter, hsm, tokenOf, pc, held, clientVars>>

(* refresh, first critical section: running and owner are read, the lock   *)
(* is dropped, and the answers are judged outside it.                      *)
RefreshCheck(c) ==
  /\ Reads(c, "refresh")
  /\ IF running /\ owner = Who[c]
     THEN Goto(c, "checked") /\ UNCHANGED answered
     ELSE Answer(c) /\ UNCHANGED pc
  /\ UNCHANGED <<serverVars, runVars, started, held, clientVars>>

(* Mutant of RefreshTake: the refusal is not written. *)
MutRefreshTakeSilent(c) ==
  /\ pc[c] = "checked"
  /\ IF tun = NoRun
     THEN Goto(c, "read") /\ UNCHANGED <<answered, held>>
     ELSE Goto(c, "renewing") /\ held' = [held EXCEPT ![c] = tun] /\ UNCHANGED answered
  /\ UNCHANGED <<serverVars, runVars, started, inbox, clientVars>>

(* refresh, second critical section: the tunnel is read. *)
RefreshTake(c) ==
  /\ pc[c] = "checked"
  /\ IF tun = NoRun
     THEN Goto(c, "read") /\ Answer(c) /\ UNCHANGED held
     ELSE Goto(c, "renewing") /\ held' = [held EXCEPT ![c] = tun] /\ UNCHANGED answered
  /\ UNCHANGED <<serverVars, runVars, started, inbox, clientVars>>

(* t.Refresh(token).  Tunnel.hsm is written by the run's goroutine and read *)
(* here with no lock between them, so a handler may still see nil.          *)
RefreshApply(c) ==
  /\ pc[c] = "renewing"
  /\ \/ held[c] \in hsm /\ tokenOf' = [tokenOf EXCEPT ![held[c]] = Who[c]]
     \/ UNCHANGED tokenOf
  /\ BackToRead(c) /\ Answer(c)
  /\ UNCHANGED <<serverVars, nruns, phase, starter, cancelled, hsm, started, inbox, clientVars>>

(* Mutant of Leave: a connection with a tunnel is kept until it is stopped. *)
MutLeaveWaitsForStop(c) ==
  /\ pc[c] = "read"
  /\ \/ inbox[c] = <<>> /\ c \in eof /\ c \notin started
     \/ inbox[c] # <<>> /\ Head(inbox[c]) = "oversize"
  /\ IF c \in started THEN stop(Who[c]) ELSE UNCHANGED cancelled
  /\ Goto(c, "gone")
  /\ inbox' = [inbox EXCEPT ![c] = <<>>]
  /\ UNCHANGED <<serverVars, nruns, phase, starter, hsm, tokenOf, started, held,
                 answered, clientVars>>

(* ReadMsg fails: the deferred stop, then the deferred Close. *)
Leave(c) ==
  /\ pc[c] = "read"
  /\ \/ inbox[c] = <<>> /\ c \in eof
     \/ inbox[c] # <<>> /\ Head(inbox[c]) = "oversize"
  /\ IF c \in started THEN stop(Who[c]) ELSE UNCHANGED cancelled
  /\ Goto(c, "gone")
  /\ inbox' = [inbox EXCEPT ![c] = <<>>]
  /\ UNCHANGED <<serverVars, nruns, phase, starter, hsm, tokenOf, started, held,
                 answered, clientVars>>

-----------------------------------------------------------------------------
(* The goroutine of a run.                                                 *)

(* Tunnel.openDevice has stored t.hsm. *)
ComesUp(r) ==
  /\ phase[r] = "opened"
  /\ phase' = [phase EXCEPT ![r] = "up"]
  /\ hsm' = hsm \cup {r}
  /\ UNCHANGED <<serverVars, nruns, starter, cancelled, tokenOf, pc, started, held,
                 inbox, answered, clientVars>>

(* t.Run returned, because it was cancelled or for a reason of its own. *)
RunReturns(r) ==
  /\ phase[r] \in {"opened", "up"}
  /\ phase' = [phase EXCEPT ![r] = "torn"]
  /\ UNCHANGED <<serverVars, nruns, starter, cancelled, hsm, tokenOf, pc, started, held,
                 inbox, answered, clientVars>>

(* s.clear(), then the deferred cancel(). *)
RunCleared(r) ==
  /\ phase[r] = "torn"
  /\ phase' = [phase EXCEPT ![r] = "over"]
  /\ clear
  /\ cancelled' = cancelled \cup {r}
  /\ UNCHANGED <<owner, nruns, starter, hsm, tokenOf, pc, started, held, inbox,
                 answered, clientVars>>

-----------------------------------------------------------------------------
Client(c) == Close(c) \/ \E q \in Traffic[c] : Send(c, q)

Handler(c) ==
  \/ Accept(c) \/ TurnAway(c) \/ AnswerOnly(c)
  \/ StartRefused(c) \/ StartBegin(c) \/ OpenFails(c) \/ OpenSucceeds(c)
  \/ StopRequest(c)
  \/ RefreshCheck(c) \/ RefreshTake(c) \/ RefreshApply(c)
  \/ Leave(c)

Run(r) == ComesUp(r) \/ RunReturns(r) \/ RunCleared(r)

Next ==
  \/ \E c \in Conns : Client(c) \/ Handler(c)
  \/ \E r \in Runs : Run(r)

Safety == Init /\ [][Next]_vars

(* A goroutine that can run does: the Go scheduler.  Every call Open makes  *)
(* carries a context and the SDK's timeout, so Open returns.  A run is      *)
(* obliged to return only once its context is cancelled (Tunnel.Run watches *)
(* ctx.Done; module Tunnel checks that it then gets out).  Clients owe      *)
(* nothing.                                                                 *)
Fairness ==
  /\ \A c \in Conns : WF_vars(Handler(c))
  /\ \A r \in Runs : WF_vars(r \in cancelled /\ RunReturns(r)) /\ WF_vars(RunCleared(r))

Spec == Safety /\ Fairness

-----------------------------------------------------------------------------
(* Properties.                                                             *)

(* "One tunnel at a time" (package comment): however many connections ask   *)
(* at once, and however the openings interleave, two runs are never both    *)
(* between the moment they were let through and the moment they were cleared. *)
OneTunnel ==
  \A r, s \in Runs : phase[r] \in Live /\ phase[s] \in Live => r = s

(* What the server believes under its lock is what is going on: it says     *)
(* running exactly while a run is live, and then owner, cancel and tun are  *)
(* that run's own.  A stale one would stop, renew or refuse the wrong thing. *)
SessionAgrees ==
  /\ running <=> \E r \in Runs : phase[r] \in Live
  /\ ~running => cancel = NoRun /\ tun = NoRun
  /\ \A r \in Runs : phase[r] \in Live =>
       /\ cancel = r
       /\ owner = Who[starter[r]]
       /\ tun = IF phase[r] = "opening" THEN NoRun ELSE r

(* "It belongs to the connection that started it": a live run that nobody   *)
(* has cancelled always has a handler left that will cancel it, because it  *)
(* is still opening it or has noted that it started it.                     *)
NeverOrphaned ==
  \A r \in Runs : phase[r] \in Live /\ r \notin cancelled =>
    /\ pc[starter[r]] # "gone"
    /\ pc[starter[r]] = "opening" \/ starter[r] \in started

(* Replies carry no request number, so a client pairs them by counting: each *)
(* path through the handler writes exactly one reply per request it reads.   *)
OneReplyPerRequest ==
  \A c \in Conns : pc[c] # "gone" =>
    sent[c] = answered[c] + Len(inbox[c])
              + (IF pc[c] \in {"opening", "checked", "renewing"} THEN 1 ELSE 0)

(* "Only they may stop ... it" (principal.go): a run that is going on is    *)
(* cancelled only by a step of a handler acting for the user who began it.  *)
StoppedByOwner(r) ==
  phase[r] \in Live /\ phase'[r] \in Live /\ r \notin cancelled /\ r \in cancelled'
  => \E c \in Conns : /\ Who[c] = Who[starter[r]]
                      /\ pc'[c] # pc[c] \/ answered'[c] # answered[c]

StoppedByOwnerOnly == [][\A r \in Runs : StoppedByOwner(r)]_vars

(* "No window, no tunnel" (docs/ARCHITECTURE-GUI.md): once a client has     *)
(* closed its connection, whatever that connection started comes down, also *)
(* when the connection closed before the start request was even read.       *)
NoWindowNoTunnel ==
  \A c \in Conns, r \in Runs : (c \in eof /\ starter[r] = c) ~> (phase[r] = "over")

(* "Not knowing who is asking is a refusal" (handle): nothing a caller       *)
(* without an identity sends, in whatever order it sends it, begins a run or *)
(* hands a run a token.                                                      *)
StrangersGetNothing ==
  \A r \in Runs : phase[r] # "unborn" =>
    Who[starter[r]] \in Principals /\ tokenOf[r] \in Principals

(* "Only they may stop or renew it" (principal.go): a run acts only with    *)
(* tokens of the user who began it.  refresh drops the lock between asking  *)
(* whose tunnel it is and picking the tunnel up.                            *)
RenewedByOwnerOnly ==
  \A r \in Runs : phase[r] # "unborn" => tokenOf[r] = Who[starter[r]]

(* A run's goroutine and the handler that began it agree on where it is:    *)
(* ids are handed out once, a run is opening exactly while its starter's    *)
(* handler is inside Open for it, and a handler renews or cancels only a    *)
(* run that was begun.                                                      *)
HandlersMatchRuns ==
  /\ \A r \in cancelled : phase[r] # "unborn"
  /\ \A r \in Runs : phase[r] = "unborn" <=> r > nruns
  /\ \A r \in Runs : phase[r] # "unborn" => starter[r] \in Conns
  /\ \A r \in Runs : phase[r] = "opening" =>
       pc[starter[r]] = "opening" /\ held[starter[r]] = r
  /\ \A c \in Conns : pc[c] = "opening" =>
       held[c] \in Runs /\ phase[held[c]] = "opening" /\ starter[held[c]] = c
  /\ \A c \in Conns : pc[c] = "renewing" => held[c] \in Runs /\ phase[held[c]] # "unborn"

(* A handler that reads requests knows who sends them. *)
HandlersKnowWho ==
  \A c \in Conns : pc[c] \notin {"new", "gone"} => Who[c] # Anonymous

(* The inductive invariant behind the safety properties. *)
Inv ==
  /\ TypeOK
  /\ HandlersMatchRuns
  /\ HandlersKnowWho
  /\ OneTunnel
  /\ SessionAgrees
  /\ NeverOrphaned
  /\ StrangersGetNothing

(* The server implements an exclusive session held by one user at a time.   *)
Exclusive == INSTANCE ExclusiveSession WITH
  Users <- Principals,
  Nobody <- Anonymous,
  holder <- IF running THEN owner ELSE Anonymous,
  ending <- running /\ cancel \in cancelled

(* Its safety part, which is proved, and all of it, which is model-checked. *)
ExclusiveSafety == Exclusive!Safety
ExclusiveSpec == Exclusive!Spec
=============================================================================
