---------------------------- MODULE DaemonProofs ----------------------------
(***************************************************************************)
(* Theorems about module Daemon, for every set of connections and users    *)
(* and every bound.  They rest on one inductive invariant, Inv.            *)
(***************************************************************************)
EXTENDS Daemon, TLAPS

USE PrincipalAssumption, NoConnAssumption, WhoAssumption, BoundAssumption,
    TrafficAssumption

(* The state before the first connection satisfies the invariant. *)
LEMMA InitInv == Init => Inv
  <1> SUFFICES ASSUME Init PROVE Inv
    OBVIOUS
  <1>1. TypeOK
    <2>1. DataOK
      BY DEF Init, DataOK, Runs, NoRun, Phase, HandlerPC
    <2>2. running \in BOOLEAN
      BY DEF Init
    <2> QED BY <2>1, <2>2 DEF TypeOK
  <1>2. HandlersMatchRuns /\ HandlersKnowWho /\ StrangersGetNothing
    BY DEF Init, HandlersMatchRuns, HandlersKnowWho, StrangersGetNothing, Runs
  <1>3. OneTunnel /\ SessionAgrees /\ NeverOrphaned
    BY DEF Init, OneTunnel, SessionAgrees, NeverOrphaned, Live
  <1> QED BY <1>1, <1>2, <1>3 DEF Inv

(* Server.stop adds at most the run s.cancel belongs to, and only when the *)
(* caller is its owner.                                                    *)
LEMMA StopCancels ==
  ASSUME NEW who, stop(who)
  PROVE  \/ cancelled' = cancelled
         \/ running /\ owner = who /\ cancel # NoRun /\ cancelled' = cancelled \cup {cancel}
  BY Zenon DEF stop

(* What s.cancel cancels is a run that was begun. *)
LEMMA CancelIsBegun ==
  ASSUME Inv, cancel # NoRun
  PROVE  cancel \in Runs /\ phase[cancel] # "unborn"
  <1>1. PICK r \in Runs : phase[r] \in Live
    BY Zenon DEF Inv, SessionAgrees
  <1>2. cancel = r
    BY <1>1 DEF Inv, SessionAgrees
  <1> QED BY <1>1, <1>2 DEF Live

(* Server.stop cancels nothing that was not begun. *)
LEMMA StopKeepsBegun ==
  ASSUME Inv, NEW who, stop(who)
  PROVE  \A s \in cancelled' : phase[s] # "unborn"
  <1>1. \A s \in cancelled : phase[s] # "unborn"
    BY DEF Inv, HandlersMatchRuns
  <1>2. CASE cancelled' = cancelled
    BY <1>1, <1>2
  <1>3. CASE cancel # NoRun /\ cancelled' = cancelled \cup {cancel}
    BY <1>1, <1>3, CancelIsBegun
  <1> QED BY <1>2, <1>3, StopCancels

(* A start request that is let through: the one step that makes a run live. *)
LEMMA StartBeginInv ==
  ASSUME Inv, NEW c \in Conns, StartBegin(c)
  PROVE  Inv'
  <1> DEFINE r == nruns + 1
  <1>0. r \in Runs /\ r # NoRun /\ phase[r] = "unborn" /\ c # NoConn
    BY DEF StartBegin, Inv, TypeOK, DataOK, HandlersMatchRuns, Runs, NoRun
  <1>1. running = FALSE /\ \A s \in Runs : phase[s] \notin Live
    BY DEF StartBegin, Inv, SessionAgrees
  <1>2. TypeOK'
    <2>1. DataOK'
      BY <1>0, <1>1 DEF StartBegin, Reads, Goto, clientVars, Inv, TypeOK, DataOK, Phase,
         HandlerPC, Runs, NoRun, Request
    <2>2. running' \in BOOLEAN
      BY DEF StartBegin, Reads, Goto, clientVars, Inv, TypeOK
    <2> QED BY <2>1, <2>2 DEF TypeOK
  <1>3. HandlersMatchRuns'
    BY <1>0, <1>1 DEF StartBegin, Reads, Goto, clientVars, Inv, TypeOK, DataOK,
       HandlersMatchRuns, Live, Runs
  <1>4. HandlersKnowWho'
    BY DEF StartBegin, Reads, Goto, clientVars, Inv, TypeOK, DataOK, HandlersKnowWho
  <1>5. OneTunnel'
    BY <1>0, <1>1 DEF StartBegin, Reads, Goto, clientVars, Inv, TypeOK, DataOK, OneTunnel, Live
  <1>6. SessionAgrees'
    BY <1>0, <1>1 DEF StartBegin, Reads, Goto, clientVars, Inv, TypeOK, DataOK, SessionAgrees,
       Live, NoRun
  <1>7. NeverOrphaned'
    BY <1>0, <1>1 DEF StartBegin, Reads, Goto, clientVars, Inv, TypeOK, DataOK, NeverOrphaned,
       Live
  <1>8. StrangersGetNothing'
    BY <1>0, <1>1 DEF StartBegin, Reads, Goto, clientVars, Inv, TypeOK, DataOK,
       StrangersGetNothing, HandlersKnowWho
  <1> QED BY <1>2, <1>3, <1>4, <1>5, <1>6, <1>7, <1>8 DEF Inv

(* A client sends a request. *)
LEMMA SendInv ==
  ASSUME Inv, NEW c \in Conns, (\E q \in Traffic[c] : Send(c, q))
  PROVE  Inv'
  <1>1. PICK q \in Request : Send(c, q)
    BY TrafficAssumption
  <1>2. TypeOK'
    <2>1. DataOK'
      BY <1>1 DEF Send, serverVars, runVars, Inv, TypeOK, DataOK, Phase, HandlerPC, Runs, NoRun
    <2>2. running' \in BOOLEAN
      BY <1>1 DEF Send, serverVars, runVars, Inv, TypeOK
    <2> QED BY <2>1, <2>2 DEF TypeOK
  <1>3. HandlersMatchRuns'
    BY <1>1 DEF Send, serverVars, runVars, Inv, TypeOK, DataOK, HandlersMatchRuns, Runs, NoRun
  <1>4. HandlersKnowWho'
    BY <1>1 DEF Send, serverVars, runVars, Inv, TypeOK, DataOK, HandlersKnowWho
  <1>5. OneTunnel'
    BY <1>1 DEF Send, serverVars, runVars, Inv, TypeOK, DataOK, OneTunnel, Live
  <1>6. SessionAgrees'
    BY <1>1 DEF Send, serverVars, runVars, Inv, TypeOK, DataOK, SessionAgrees, Live, NoRun
  <1>7. NeverOrphaned'
    BY <1>1 DEF Send, serverVars, runVars, Inv, TypeOK, DataOK, NeverOrphaned, Live
  <1>8. StrangersGetNothing'
    BY <1>1 DEF Send, serverVars, runVars, Inv, TypeOK, DataOK, StrangersGetNothing
  <1> QED BY <1>2, <1>3, <1>4, <1>5, <1>6, <1>7, <1>8 DEF Inv

(* A client closes its end. *)
LEMMA CloseInv ==
  ASSUME Inv, NEW c \in Conns, Close(c)
  PROVE  Inv'
  <1>2. TypeOK'
    <2>1. DataOK'
      BY DEF Close, serverVars, runVars, clientVars, Inv, TypeOK, DataOK, Phase, HandlerPC, Runs,
         NoRun, Request
    <2>2. running' \in BOOLEAN
      BY DEF Close, serverVars, runVars, clientVars, Inv, TypeOK
    <2> QED BY <2>1, <2>2 DEF TypeOK
  <1>3. HandlersMatchRuns'
    BY DEF Close, serverVars, runVars, clientVars, Inv, TypeOK, DataOK, HandlersMatchRuns, Runs,
       NoRun
  <1>4. HandlersKnowWho'
    BY DEF Close, serverVars, runVars, clientVars, Inv, TypeOK, DataOK, HandlersKnowWho
  <1>5. OneTunnel'
    BY DEF Close, serverVars, runVars, clientVars, Inv, TypeOK, DataOK, OneTunnel, Live
  <1>6. SessionAgrees'
    BY DEF Close, serverVars, runVars, clientVars, Inv, TypeOK, DataOK, SessionAgrees, Live, NoRun
  <1>7. NeverOrphaned'
    BY DEF Close, serverVars, runVars, clientVars, Inv, TypeOK, DataOK, NeverOrphaned, Live
  <1>8. StrangersGetNothing'
    BY DEF Close, serverVars, runVars, clientVars, Inv, TypeOK, DataOK, StrangersGetNothing
  <1> QED BY <1>2, <1>3, <1>4, <1>5, <1>6, <1>7, <1>8 DEF Inv

(* A connection is accepted. *)
LEMMA AcceptInv ==
  ASSUME Inv, NEW c \in Conns, Accept(c)
  PROVE  Inv'
  <1>2. TypeOK'
    <2>1. DataOK'
      BY DEF Accept, Goto, serverVars, runVars, clientVars, Inv, TypeOK, DataOK, Phase,
         HandlerPC, Runs, NoRun, Request
    <2>2. running' \in BOOLEAN
      BY DEF Accept, Goto, serverVars, runVars, clientVars, Inv, TypeOK
    <2> QED BY <2>1, <2>2 DEF TypeOK
  <1>3. HandlersMatchRuns'
    BY DEF Accept, Goto, serverVars, runVars, clientVars, Inv, TypeOK, DataOK, HandlersMatchRuns,
       Runs, NoRun
  <1>4. HandlersKnowWho'
    BY DEF Accept, Goto, serverVars, runVars, clientVars, Inv, TypeOK, DataOK, HandlersKnowWho
  <1>5. OneTunnel'
    BY DEF Accept, Goto, serverVars, runVars, clientVars, Inv, TypeOK, DataOK, OneTunnel, Live
  <1>6. SessionAgrees'
    BY DEF Accept, Goto, serverVars, runVars, clientVars, Inv, TypeOK, DataOK, SessionAgrees,
       Live, NoRun
  <1>7. NeverOrphaned'
    BY DEF Accept, Goto, serverVars, runVars, clientVars, Inv, TypeOK, DataOK, NeverOrphaned, Live
  <1>8. StrangersGetNothing'
    BY DEF Accept, Goto, serverVars, runVars, clientVars, Inv, TypeOK, DataOK, StrangersGetNothing
  <1> QED BY <1>2, <1>3, <1>4, <1>5, <1>6, <1>7, <1>8 DEF Inv

(* A caller without an identity is turned away. *)
LEMMA TurnAwayInv ==
  ASSUME Inv, NEW c \in Conns, TurnAway(c)
  PROVE  Inv'
  <1>2. TypeOK'
    <2>1. DataOK'
      BY DEF TurnAway, Goto, serverVars, runVars, clientVars, Inv, TypeOK, DataOK, Phase,
         HandlerPC, Runs, NoRun, Request
    <2>2. running' \in BOOLEAN
      BY DEF TurnAway, Goto, serverVars, runVars, clientVars, Inv, TypeOK
    <2> QED BY <2>1, <2>2 DEF TypeOK
  <1>3. HandlersMatchRuns'
    BY DEF TurnAway, Goto, serverVars, runVars, clientVars, Inv, TypeOK, DataOK,
       HandlersMatchRuns, Runs, NoRun
  <1>4. HandlersKnowWho'
    BY DEF TurnAway, Goto, serverVars, runVars, clientVars, Inv, TypeOK, DataOK, HandlersKnowWho
  <1>5. OneTunnel'
    BY DEF TurnAway, Goto, serverVars, runVars, clientVars, Inv, TypeOK, DataOK, OneTunnel, Live
  <1>6. SessionAgrees'
    BY DEF TurnAway, Goto, serverVars, runVars, clientVars, Inv, TypeOK, DataOK, SessionAgrees,
       Live, NoRun
  <1>7. NeverOrphaned'
    BY DEF TurnAway, Goto, serverVars, runVars, clientVars, Inv, TypeOK, DataOK, NeverOrphaned,
       Live,
       StrangersGetNothing, HandlersMatchRuns
  <1>8. StrangersGetNothing'
    BY DEF TurnAway, Goto, serverVars, runVars, clientVars, Inv, TypeOK, DataOK,
       StrangersGetNothing
  <1> QED BY <1>2, <1>3, <1>4, <1>5, <1>6, <1>7, <1>8 DEF Inv

(* A request that is only answered. *)
LEMMA AnswerOnlyInv ==
  ASSUME Inv, NEW c \in Conns, AnswerOnly(c)
  PROVE  Inv'
  <1>2. TypeOK'
    <2>1. DataOK'
      <3>1. inbox' \in [Conns -> Seq(Request)]
        <4>1. inbox' = [inbox EXCEPT ![c] = Tail(@)] /\ inbox[c] # <<>>
          BY DEF AnswerOnly, Reads
        <4>2. inbox \in [Conns -> Seq(Request)]
          BY DEF Inv, TypeOK, DataOK
        <4> QED BY <4>1, <4>2
      <3>2. answered' \in [Conns -> Nat]
        BY DEF AnswerOnly, Answer, Inv, TypeOK, DataOK
      <3> QED BY <3>1, <3>2 DEF AnswerOnly, serverVars, runVars, clientVars, Inv, TypeOK, DataOK
    <2>2. running' \in BOOLEAN
      BY DEF AnswerOnly, Reads, Answer, serverVars, runVars, clientVars, Inv, TypeOK
    <2> QED BY <2>1, <2>2 DEF TypeOK
  <1>3. HandlersMatchRuns'
    BY DEF AnswerOnly, Reads, Answer, serverVars, runVars, clientVars, Inv, TypeOK, DataOK,
       HandlersMatchRuns, Runs, NoRun
  <1>4. HandlersKnowWho'
    BY DEF AnswerOnly, Reads, Answer, serverVars, runVars, clientVars, Inv, TypeOK, DataOK,
       HandlersKnowWho
  <1>5. OneTunnel'
    BY DEF AnswerOnly, Reads, Answer, serverVars, runVars, clientVars, Inv, TypeOK, DataOK,
       OneTunnel, Live
  <1>6. SessionAgrees'
    BY DEF AnswerOnly, Reads, Answer, serverVars, runVars, clientVars, Inv, TypeOK, DataOK,
       SessionAgrees, Live, NoRun
  <1>7. NeverOrphaned'
    BY DEF AnswerOnly, Reads, Answer, serverVars, runVars, clientVars, Inv, TypeOK, DataOK,
       NeverOrphaned, Live
  <1>8. StrangersGetNothing'
    BY DEF AnswerOnly, Reads, Answer, serverVars, runVars, clientVars, Inv, TypeOK, DataOK,
       StrangersGetNothing
  <1> QED BY <1>2, <1>3, <1>4, <1>5, <1>6, <1>7, <1>8 DEF Inv

(* A start request while a run is live. *)
LEMMA StartRefusedInv ==
  ASSUME Inv, NEW c \in Conns, StartRefused(c)
  PROVE  Inv'
  <1>2. TypeOK'
    <2>1. DataOK'
      BY DEF StartRefused, Reads, Answer, serverVars, runVars, clientVars, Inv, TypeOK, DataOK,
         Phase, HandlerPC, Runs, NoRun, Request
    <2>2. running' \in BOOLEAN
      BY DEF StartRefused, Reads, Answer, serverVars, runVars, clientVars, Inv, TypeOK
    <2> QED BY <2>1, <2>2 DEF TypeOK
  <1>3. HandlersMatchRuns'
    BY DEF StartRefused, Reads, Answer, serverVars, runVars, clientVars, Inv, TypeOK, DataOK,
       HandlersMatchRuns, Runs, NoRun
  <1>4. HandlersKnowWho'
    BY DEF StartRefused, Reads, Answer, serverVars, runVars, clientVars, Inv, TypeOK, DataOK,
       HandlersKnowWho
  <1>5. OneTunnel'
    BY DEF StartRefused, Reads, Answer, serverVars, runVars, clientVars, Inv, TypeOK, DataOK,
       OneTunnel, Live
  <1>6. SessionAgrees'
    BY DEF StartRefused, Reads, Answer, serverVars, runVars, clientVars, Inv, TypeOK, DataOK,
       SessionAgrees, Live, NoRun
  <1>7. NeverOrphaned'
    BY DEF StartRefused, Reads, Answer, serverVars, runVars, clientVars, Inv, TypeOK, DataOK,
       NeverOrphaned, Live
  <1>8. StrangersGetNothing'
    BY DEF StartRefused, Reads, Answer, serverVars, runVars, clientVars, Inv, TypeOK, DataOK,
       StrangersGetNothing
  <1> QED BY <1>2, <1>3, <1>4, <1>5, <1>6, <1>7, <1>8 DEF Inv

(* refresh asks whose tunnel is running. *)
LEMMA RefreshCheckInv ==
  ASSUME Inv, NEW c \in Conns, RefreshCheck(c)
  PROVE  Inv'
  <1>0. \/ pc' = pc /\ answered' = [answered EXCEPT ![c] = @ + 1]
        \/ pc' = [pc EXCEPT ![c] = "checked"] /\ answered' = answered
    BY Zenon DEF RefreshCheck, Goto, Answer
  <1>1. UNCHANGED <<phase, starter, cancelled, started>> /\ pc[c] = "read"
    BY DEF RefreshCheck, Reads, runVars
  <1>2. TypeOK'
    <2>1. DataOK'
      <3>1. inbox' \in [Conns -> Seq(Request)]
        BY DEF RefreshCheck, Reads, Inv, TypeOK, DataOK
      <3>2. pc' \in [Conns -> HandlerPC] /\ answered' \in [Conns -> Nat]
        <4>1. pc \in [Conns -> HandlerPC] /\ answered \in [Conns -> Nat]
          BY DEF Inv, TypeOK, DataOK
        <4> QED BY <1>0, <4>1 DEF HandlerPC
      <3> QED BY <3>1, <3>2 DEF RefreshCheck, serverVars, runVars, clientVars, Inv, TypeOK, DataOK
    <2>2. running' \in BOOLEAN
      BY DEF RefreshCheck, Reads, Goto, Answer, serverVars, runVars, clientVars, Inv, TypeOK
    <2> QED BY <2>1, <2>2 DEF TypeOK
  <1>3. HandlersMatchRuns'
    BY DEF RefreshCheck, Reads, Goto, Answer, serverVars, runVars, clientVars, Inv, TypeOK,
       DataOK, HandlersMatchRuns, Runs, NoRun
  <1>4. HandlersKnowWho'
    BY DEF RefreshCheck, Reads, Goto, Answer, serverVars, runVars, clientVars, Inv, TypeOK,
       DataOK, HandlersKnowWho
  <1>5. OneTunnel'
    BY DEF RefreshCheck, Reads, Goto, Answer, serverVars, runVars, clientVars, Inv, TypeOK,
       DataOK, OneTunnel, Live
  <1>6. SessionAgrees'
    BY DEF RefreshCheck, Reads, Goto, Answer, serverVars, runVars, clientVars, Inv, TypeOK,
       DataOK, SessionAgrees, Live, NoRun
  <1>7. NeverOrphaned'
    BY <1>0, <1>1 DEF Inv, TypeOK, DataOK, HandlersMatchRuns, NeverOrphaned, Live
  <1>8. StrangersGetNothing'
    BY DEF RefreshCheck, Reads, Goto, Answer, serverVars, runVars, clientVars, Inv, TypeOK,
       DataOK, StrangersGetNothing
  <1> QED BY <1>2, <1>3, <1>4, <1>5, <1>6, <1>7, <1>8 DEF Inv

(* refresh picks the tunnel up. *)
LEMMA RefreshTakeInv ==
  ASSUME Inv, NEW c \in Conns, RefreshTake(c)
  PROVE  Inv'
  <1>0. \/ /\ pc' = [pc EXCEPT ![c] = "read"] /\ held' = held
           /\ answered' = [answered EXCEPT ![c] = @ + 1]
        \/ /\ pc' = [pc EXCEPT ![c] = "renewing"] /\ held' = [held EXCEPT ![c] = tun]
           /\ answered' = answered /\ tun # NoRun
    BY Zenon DEF RefreshTake, Goto, Answer
  <1>1. UNCHANGED <<phase, starter, cancelled, started, nruns>> /\ pc[c] = "checked"
    BY DEF RefreshTake, runVars
  <1>9. tun # NoRun => tun \in Runs /\ phase[tun] # "unborn"
    <2> SUFFICES ASSUME tun # NoRun PROVE tun \in Runs /\ phase[tun] # "unborn"
      OBVIOUS
    <2>1. tun \in Runs
      BY DEF Inv, TypeOK, DataOK
    <2>2. PICK r \in Runs : phase[r] \in Live
      BY Zenon DEF Inv, SessionAgrees
    <2>3. tun = r
      BY <2>2 DEF Inv, SessionAgrees
    <2> QED BY <2>1, <2>2, <2>3 DEF Live
  <1>2. TypeOK'
    <2>1. DataOK'
      <3>1. pc' \in [Conns -> HandlerPC] /\ answered' \in [Conns -> Nat]
            /\ held' \in [Conns -> Runs \cup {NoRun}]
        <4>1. pc \in [Conns -> HandlerPC] /\ answered \in [Conns -> Nat]
              /\ held \in [Conns -> Runs \cup {NoRun}]
          BY DEF Inv, TypeOK, DataOK
        <4> QED BY <1>0, <1>9, <4>1 DEF HandlerPC
      <3> QED BY <3>1 DEF RefreshTake, serverVars, runVars, clientVars, Inv, TypeOK, DataOK
    <2>2. running' \in BOOLEAN
      BY DEF RefreshTake, Goto, Answer, serverVars, runVars, clientVars, Inv, TypeOK
    <2> QED BY <2>1, <2>2 DEF TypeOK
  <1>3. HandlersMatchRuns'
    <2>1. /\ pc \in [Conns -> HandlerPC]
          /\ held \in [Conns -> Runs \cup {NoRun}]
          /\ starter \in [Runs -> Conns \cup {NoConn}]
      BY DEF Inv, TypeOK, DataOK
    <2>2. HandlersMatchRuns
      BY DEF Inv
    <2>3. \A d \in Conns : d # c => pc'[d] = pc[d] /\ held'[d] = held[d]
      BY <1>0, <2>1
    <2>4. \/ pc'[c] = "read"
          \/ pc'[c] = "renewing" /\ held'[c] = tun /\ tun # NoRun
      BY <1>0, <2>1
    <2>5. /\ \A s \in Runs : phase'[s] = "unborn" <=> s > nruns'
          /\ \A s \in Runs : phase'[s] # "unborn" => starter'[s] \in Conns
      BY <1>1, <2>2 DEF HandlersMatchRuns
    <2>6. \A s \in Runs : phase'[s] = "opening" =>
            pc'[starter'[s]] = "opening" /\ held'[starter'[s]] = s
      BY <1>1, <2>2, <2>3 DEF HandlersMatchRuns
    <2>7. \A d \in Conns : pc'[d] = "opening" =>
            held'[d] \in Runs /\ phase'[held'[d]] = "opening" /\ starter'[held'[d]] = d
      BY <1>1, <2>2, <2>3, <2>4 DEF HandlersMatchRuns
    <2>8. \A d \in Conns : pc'[d] = "renewing" =>
            held'[d] \in Runs /\ phase'[held'[d]] # "unborn"
      BY <1>1, <1>9, <2>2, <2>3, <2>4 DEF HandlersMatchRuns
    <2>9. \A s \in cancelled' : phase'[s] # "unborn"
      BY <1>1, <2>2 DEF HandlersMatchRuns
    <2> QED BY <2>5, <2>6, <2>7, <2>8, <2>9 DEF HandlersMatchRuns
  <1>4. HandlersKnowWho'
    BY DEF RefreshTake, Goto, Answer, serverVars, runVars, clientVars, Inv, TypeOK, DataOK,
       HandlersKnowWho
  <1>5. OneTunnel'
    BY DEF RefreshTake, Goto, Answer, serverVars, runVars, clientVars, Inv, TypeOK, DataOK,
       OneTunnel, Live
  <1>6. SessionAgrees'
    BY DEF RefreshTake, Goto, Answer, serverVars, runVars, clientVars, Inv, TypeOK, DataOK,
       SessionAgrees, Live, NoRun
  <1>7. NeverOrphaned'
    BY <1>0, <1>1 DEF Inv, TypeOK, DataOK, HandlersMatchRuns, NeverOrphaned, Live
  <1>8. StrangersGetNothing'
    BY DEF RefreshTake, Goto, Answer, serverVars, runVars, clientVars, Inv, TypeOK, DataOK,
       StrangersGetNothing
  <1> QED BY <1>2, <1>3, <1>4, <1>5, <1>6, <1>7, <1>8 DEF Inv

(* Open refused: the session is given back. *)
LEMMA OpenFailsInv ==
  ASSUME Inv, NEW c \in Conns, OpenFails(c)
  PROVE  Inv'
  <1>0. /\ held[c] \in Runs /\ phase[held[c]] = "opening" /\ starter[held[c]] = c
        /\ running = TRUE /\ cancel = held[c] /\ owner = Who[c] /\ tun = NoRun
    BY DEF OpenFails, Inv, TypeOK, DataOK, HandlersMatchRuns, SessionAgrees, Live
  <1>1. \A s \in Runs : s # held[c] => phase[s] \notin Live
    BY <1>0 DEF Inv, OneTunnel, Live
  <1>2. TypeOK'
    <2>1. DataOK'
      BY <1>0, <1>1 DEF OpenFails, BackToRead, Goto, Answer, clear, serverVars, runVars,
         clientVars, Inv, TypeOK, DataOK, Phase, HandlerPC, Runs, NoRun, Request
    <2>2. running' \in BOOLEAN
      BY DEF OpenFails, BackToRead, Goto, Answer, clear, serverVars, runVars, clientVars, Inv,
         TypeOK
    <2> QED BY <2>1, <2>2 DEF TypeOK
  <1>3. HandlersMatchRuns'
    BY <1>0, <1>1 DEF OpenFails, BackToRead, Goto, Answer, clear, serverVars, runVars,
       clientVars, Inv, TypeOK, DataOK, HandlersMatchRuns, Live, Runs, NoRun
  <1>4. HandlersKnowWho'
    BY <1>0, <1>1 DEF OpenFails, BackToRead, Goto, Answer, clear, serverVars, runVars,
       clientVars, Inv, TypeOK, DataOK, HandlersKnowWho
  <1>5. OneTunnel'
    BY <1>0, <1>1 DEF OpenFails, BackToRead, Goto, Answer, clear, serverVars, runVars,
       clientVars, Inv, TypeOK, DataOK, OneTunnel, Live
  <1>6. SessionAgrees'
    BY <1>0, <1>1 DEF OpenFails, BackToRead, Goto, Answer, clear, serverVars, runVars,
       clientVars, Inv, TypeOK, DataOK, SessionAgrees, Live, NoRun
  <1>7. NeverOrphaned'
    BY <1>0, <1>1 DEF OpenFails, BackToRead, Goto, Answer, clear, serverVars, runVars,
       clientVars, Inv, TypeOK, DataOK, NeverOrphaned, Live
  <1>8. StrangersGetNothing'
    BY <1>0, <1>1 DEF OpenFails, BackToRead, Goto, Answer, clear, serverVars, runVars,
       clientVars, Inv, TypeOK, DataOK, StrangersGetNothing
  <1> QED BY <1>2, <1>3, <1>4, <1>5, <1>6, <1>7, <1>8 DEF Inv

(* Open returned a tunnel, and its goroutine is started. *)
LEMMA OpenSucceedsInv ==
  ASSUME Inv, NEW c \in Conns, OpenSucceeds(c)
  PROVE  Inv'
  <1>0. /\ held[c] \in Runs /\ phase[held[c]] = "opening" /\ starter[held[c]] = c
        /\ running = TRUE /\ cancel = held[c] /\ owner = Who[c] /\ tun = NoRun
    BY DEF OpenSucceeds, Inv, TypeOK, DataOK, HandlersMatchRuns, SessionAgrees, Live
  <1>1. \A s \in Runs : s # held[c] => phase[s] \notin Live
    BY <1>0 DEF Inv, OneTunnel, Live
  <1>2. TypeOK'
    <2>1. DataOK'
      BY <1>0, <1>1 DEF OpenSucceeds, BackToRead, Goto, Answer, clear, serverVars, runVars,
         clientVars, Inv, TypeOK, DataOK, Phase, HandlerPC, Runs, NoRun, Request
    <2>2. running' \in BOOLEAN
      BY DEF OpenSucceeds, BackToRead, Goto, Answer, clear, serverVars, runVars, clientVars, Inv,
         TypeOK
    <2> QED BY <2>1, <2>2 DEF TypeOK
  <1>3. HandlersMatchRuns'
    BY <1>0, <1>1 DEF OpenSucceeds, BackToRead, Goto, Answer, clear, serverVars, runVars,
       clientVars, Inv, TypeOK, DataOK, HandlersMatchRuns, Live, Runs, NoRun
  <1>4. HandlersKnowWho'
    BY <1>0, <1>1 DEF OpenSucceeds, BackToRead, Goto, Answer, clear, serverVars, runVars,
       clientVars, Inv, TypeOK, DataOK, HandlersKnowWho
  <1>5. OneTunnel'
    BY <1>0, <1>1 DEF OpenSucceeds, BackToRead, Goto, Answer, clear, serverVars, runVars,
       clientVars, Inv, TypeOK, DataOK, OneTunnel, Live
  <1>6. SessionAgrees'
    BY <1>0, <1>1 DEF OpenSucceeds, BackToRead, Goto, Answer, clear, serverVars, runVars,
       clientVars, Inv, TypeOK, DataOK, SessionAgrees, Live, NoRun
  <1>7. NeverOrphaned'
    BY <1>0, <1>1 DEF OpenSucceeds, BackToRead, Goto, Answer, clear, serverVars, runVars,
       clientVars, Inv, TypeOK, DataOK, NeverOrphaned, Live
  <1>8. StrangersGetNothing'
    BY <1>0, <1>1 DEF OpenSucceeds, BackToRead, Goto, Answer, clear, serverVars, runVars,
       clientVars, Inv, TypeOK, DataOK, StrangersGetNothing
  <1> QED BY <1>2, <1>3, <1>4, <1>5, <1>6, <1>7, <1>8 DEF Inv

(* A stop request: whatever its user has live is cancelled, so clearing the
   handler's flag orphans nothing. *)
LEMMA StopRequestInv ==
  ASSUME Inv, NEW c \in Conns, StopRequest(c)
  PROVE  Inv'
  <1>0. \A r \in Runs : phase[r] \in Live /\ Who[starter[r]] = Who[c] => r \in cancelled'
    BY DEF StopRequest, stop, Inv, TypeOK, DataOK, SessionAgrees, Runs, NoRun
  <1>1. cancelled \subseteq cancelled' /\ cancelled' \subseteq Runs
    BY DEF StopRequest, stop, Inv, TypeOK, DataOK, NoRun
  <1>2. TypeOK'
    <2>1. DataOK'
      BY <1>1 DEF StopRequest, Reads, Answer, serverVars, runVars, clientVars, Inv, TypeOK,
         DataOK, Phase, HandlerPC, Runs, NoRun, Request
    <2>2. running' \in BOOLEAN
      BY DEF StopRequest, Reads, Answer, serverVars, runVars, clientVars, Inv, TypeOK
    <2> QED BY <2>1, <2>2 DEF TypeOK
  <1>3. HandlersMatchRuns'
    <2>1. \A s \in cancelled' : phase[s] # "unborn"
      BY StopKeepsBegun DEF StopRequest
    <2>2. UNCHANGED <<phase, starter, nruns, held, pc>>
      BY DEF StopRequest, Goto
    <2> QED BY <2>1, <2>2 DEF Inv, TypeOK, DataOK, HandlersMatchRuns, Runs
  <1>4. HandlersKnowWho'
    BY DEF StopRequest, Reads, Answer, serverVars, runVars, clientVars, Inv, TypeOK, DataOK,
       HandlersKnowWho
  <1>5. OneTunnel'
    BY DEF StopRequest, Reads, Answer, serverVars, runVars, clientVars, Inv, TypeOK, DataOK,
       OneTunnel, Live
  <1>6. SessionAgrees'
    BY DEF StopRequest, Reads, Answer, serverVars, runVars, clientVars, Inv, TypeOK, DataOK,
       SessionAgrees, Live, NoRun
  <1>7. NeverOrphaned'
    BY <1>0, <1>1 DEF StopRequest, Reads, Answer, serverVars, runVars, clientVars, Inv, TypeOK,
       DataOK, NeverOrphaned, Live
  <1>8. StrangersGetNothing'
    BY DEF StopRequest, Reads, Answer, serverVars, runVars, clientVars, Inv, TypeOK, DataOK,
       StrangersGetNothing
  <1> QED BY <1>2, <1>3, <1>4, <1>5, <1>6, <1>7, <1>8 DEF Inv

(* A handler leaves, and cancels what it had noted as started. *)
LEMMA LeaveInv ==
  ASSUME Inv, NEW c \in Conns, Leave(c)
  PROVE  Inv'
  <1>0. \A r \in Runs : phase[r] \in Live /\ starter[r] = c => r \in cancelled'
    BY DEF Leave, stop, Inv, TypeOK, DataOK, SessionAgrees, NeverOrphaned, Runs, NoRun
  <1>1. cancelled \subseteq cancelled' /\ cancelled' \subseteq Runs
    BY DEF Leave, stop, Inv, TypeOK, DataOK, NoRun
  <1>2. TypeOK'
    <2>1. DataOK'
      BY <1>1 DEF Leave, Goto, serverVars, runVars, clientVars, Inv, TypeOK, DataOK, Phase,
         HandlerPC, Runs, NoRun, Request
    <2>2. running' \in BOOLEAN
      BY DEF Leave, Goto, serverVars, runVars, clientVars, Inv, TypeOK
    <2> QED BY <2>1, <2>2 DEF TypeOK
  <1>3. HandlersMatchRuns'
    <2>1. \A s \in cancelled' : phase[s] # "unborn"
      BY StopKeepsBegun DEF Leave, Inv, HandlersMatchRuns
    <2>2. UNCHANGED <<phase, starter, nruns, held>> /\ pc[c] = "read" /\ pc' = [pc EXCEPT ![c] = "gone"]
      BY DEF Leave, Goto
    <2> QED BY <2>1, <2>2 DEF Inv, TypeOK, DataOK, HandlersMatchRuns, Runs
  <1>4. HandlersKnowWho'
    BY DEF Leave, Goto, serverVars, runVars, clientVars, Inv, TypeOK, DataOK, HandlersKnowWho
  <1>5. OneTunnel'
    BY DEF Leave, Goto, serverVars, runVars, clientVars, Inv, TypeOK, DataOK, OneTunnel, Live
  <1>6. SessionAgrees'
    BY DEF Leave, Goto, serverVars, runVars, clientVars, Inv, TypeOK, DataOK, SessionAgrees,
       Live, NoRun
  <1>7. NeverOrphaned'
    BY <1>0, <1>1 DEF Leave, Goto, serverVars, runVars, clientVars, Inv, TypeOK, DataOK,
       NeverOrphaned, Live
  <1>8. StrangersGetNothing'
    BY DEF Leave, Goto, serverVars, runVars, clientVars, Inv, TypeOK, DataOK, StrangersGetNothing
  <1> QED BY <1>2, <1>3, <1>4, <1>5, <1>6, <1>7, <1>8 DEF Inv

(* A token reaches the run the handler picked up. *)
LEMMA RefreshApplyInv ==
  ASSUME Inv, NEW c \in Conns, RefreshApply(c)
  PROVE  Inv'
  <1>0. pc[c] = "renewing" /\ held[c] \in Runs /\ Who[c] \in Principals
    BY DEF RefreshApply, Inv, HandlersMatchRuns, HandlersKnowWho
  <1>1. \/ tokenOf' = [tokenOf EXCEPT ![held[c]] = Who[c]]
        \/ tokenOf' = tokenOf
    BY DEF RefreshApply
  <1>2. TypeOK'
    <2>1. DataOK'
      <3>1. tokenOf' \in [Runs -> Principals \cup {Anonymous}]
        BY <1>0, <1>1 DEF Inv, TypeOK, DataOK
      <3>2. pc' \in [Conns -> HandlerPC] /\ answered' \in [Conns -> Nat]
            /\ held' \in [Conns -> Runs \cup {NoRun}]
        BY DEF RefreshApply, BackToRead, Goto, Answer, Inv, TypeOK, DataOK, HandlerPC
      <3> QED BY <3>1, <3>2 DEF RefreshApply, serverVars, clientVars, Inv, TypeOK, DataOK
    <2>2. running' \in BOOLEAN
      BY DEF RefreshApply, BackToRead, Goto, Answer, serverVars, runVars, clientVars, Inv, TypeOK
    <2> QED BY <2>1, <2>2 DEF TypeOK
  <1>3. HandlersMatchRuns'
    BY DEF RefreshApply, BackToRead, Goto, Answer, serverVars, runVars, clientVars, Inv, TypeOK,
       DataOK, HandlersMatchRuns, Runs, NoRun
  <1>4. HandlersKnowWho'
    BY DEF RefreshApply, BackToRead, Goto, Answer, serverVars, runVars, clientVars, Inv, TypeOK,
       DataOK, HandlersKnowWho
  <1>5. OneTunnel'
    BY DEF RefreshApply, BackToRead, Goto, Answer, serverVars, runVars, clientVars, Inv, TypeOK,
       DataOK, OneTunnel, Live
  <1>6. SessionAgrees'
    BY DEF RefreshApply, BackToRead, Goto, Answer, serverVars, runVars, clientVars, Inv, TypeOK,
       DataOK, SessionAgrees, Live, NoRun
  <1>7. NeverOrphaned'
    BY DEF RefreshApply, BackToRead, Goto, Answer, serverVars, runVars, clientVars, Inv, TypeOK,
       DataOK, NeverOrphaned, Live
  <1>8. StrangersGetNothing'
    <2>1. UNCHANGED <<phase, starter>>
      BY DEF RefreshApply
    <2> QED BY <1>0, <1>1, <2>1 DEF Inv, TypeOK, DataOK, StrangersGetNothing
  <1> QED BY <1>2, <1>3, <1>4, <1>5, <1>6, <1>7, <1>8 DEF Inv

(* The run's device is open. *)
LEMMA ComesUpInv ==
  ASSUME Inv, NEW r \in Runs, ComesUp(r)
  PROVE  Inv'
  <1>2. TypeOK'
    <2>1. DataOK'
      BY DEF ComesUp, serverVars, runVars, clientVars, Inv, TypeOK, DataOK, Phase, HandlerPC,
         Runs, NoRun, Request
    <2>2. running' \in BOOLEAN
      BY DEF ComesUp, serverVars, runVars, clientVars, Inv, TypeOK
    <2> QED BY <2>1, <2>2 DEF TypeOK
  <1>3. HandlersMatchRuns'
    BY DEF ComesUp, serverVars, runVars, clientVars, Inv, TypeOK, DataOK, HandlersMatchRuns,
       Runs, NoRun
  <1>4. HandlersKnowWho'
    BY DEF ComesUp, serverVars, runVars, clientVars, Inv, TypeOK, DataOK, HandlersKnowWho
  <1>5. OneTunnel'
    BY DEF ComesUp, serverVars, runVars, clientVars, Inv, TypeOK, DataOK, OneTunnel, Live
  <1>6. SessionAgrees'
    BY DEF ComesUp, serverVars, runVars, clientVars, Inv, TypeOK, DataOK, SessionAgrees, Live,
       NoRun
  <1>7. NeverOrphaned'
    BY DEF ComesUp, serverVars, runVars, clientVars, Inv, TypeOK, DataOK, NeverOrphaned, Live
  <1>8. StrangersGetNothing'
    BY DEF ComesUp, serverVars, runVars, clientVars, Inv, TypeOK, DataOK, StrangersGetNothing
  <1> QED BY <1>2, <1>3, <1>4, <1>5, <1>6, <1>7, <1>8 DEF Inv

(* The run's Run returned. *)
LEMMA RunReturnsInv ==
  ASSUME Inv, NEW r \in Runs, RunReturns(r)
  PROVE  Inv'
  <1>2. TypeOK'
    <2>1. DataOK'
      BY DEF RunReturns, serverVars, runVars, clientVars, Inv, TypeOK, DataOK, Phase, HandlerPC,
         Runs, NoRun, Request
    <2>2. running' \in BOOLEAN
      BY DEF RunReturns, serverVars, runVars, clientVars, Inv, TypeOK
    <2> QED BY <2>1, <2>2 DEF TypeOK
  <1>3. HandlersMatchRuns'
    BY DEF RunReturns, serverVars, runVars, clientVars, Inv, TypeOK, DataOK, HandlersMatchRuns,
       Runs, NoRun
  <1>4. HandlersKnowWho'
    BY DEF RunReturns, serverVars, runVars, clientVars, Inv, TypeOK, DataOK, HandlersKnowWho
  <1>5. OneTunnel'
    BY DEF RunReturns, serverVars, runVars, clientVars, Inv, TypeOK, DataOK, OneTunnel, Live
  <1>6. SessionAgrees'
    BY DEF RunReturns, serverVars, runVars, clientVars, Inv, TypeOK, DataOK, SessionAgrees, Live,
       NoRun
  <1>7. NeverOrphaned'
    BY DEF RunReturns, serverVars, runVars, clientVars, Inv, TypeOK, DataOK, NeverOrphaned, Live
  <1>8. StrangersGetNothing'
    BY DEF RunReturns, serverVars, runVars, clientVars, Inv, TypeOK, DataOK, StrangersGetNothing
  <1> QED BY <1>2, <1>3, <1>4, <1>5, <1>6, <1>7, <1>8 DEF Inv

(* The run gives the session back. *)
LEMMA RunClearedInv ==
  ASSUME Inv, NEW r \in Runs, RunCleared(r)
  PROVE  Inv'
  <1>0. \A s \in Runs : s # r => phase[s] \notin Live
    BY DEF RunCleared, Inv, OneTunnel, Live
  <1>2. TypeOK'
    <2>1. DataOK'
      BY <1>0 DEF RunCleared, clear, serverVars, runVars, clientVars, Inv, TypeOK, DataOK, Phase,
         HandlerPC, Runs, NoRun, Request
    <2>2. running' \in BOOLEAN
      BY DEF RunCleared, clear, serverVars, runVars, clientVars, Inv, TypeOK
    <2> QED BY <2>1, <2>2 DEF TypeOK
  <1>3. HandlersMatchRuns'
    BY <1>0 DEF RunCleared, clear, serverVars, runVars, clientVars, Inv, TypeOK, DataOK,
       HandlersMatchRuns, Live, Runs, NoRun
  <1>4. HandlersKnowWho'
    BY <1>0 DEF RunCleared, clear, serverVars, runVars, clientVars, Inv, TypeOK, DataOK,
       HandlersKnowWho
  <1>5. OneTunnel'
    BY <1>0 DEF RunCleared, clear, serverVars, runVars, clientVars, Inv, TypeOK, DataOK,
       OneTunnel, Live
  <1>6. SessionAgrees'
    BY <1>0 DEF RunCleared, clear, serverVars, runVars, clientVars, Inv, TypeOK, DataOK,
       SessionAgrees, Live, NoRun
  <1>7. NeverOrphaned'
    BY <1>0 DEF RunCleared, clear, serverVars, runVars, clientVars, Inv, TypeOK, DataOK,
       NeverOrphaned, Live
  <1>8. StrangersGetNothing'
    BY <1>0 DEF RunCleared, clear, serverVars, runVars, clientVars, Inv, TypeOK, DataOK,
       StrangersGetNothing
  <1> QED BY <1>2, <1>3, <1>4, <1>5, <1>6, <1>7, <1>8 DEF Inv

(* Every step, the stuttering one included, keeps the invariant. *)
LEMMA NextInv == Inv /\ [Next]_vars => Inv'
  <1> SUFFICES ASSUME Inv, [Next]_vars PROVE Inv'
    OBVIOUS
  <1>1. CASE UNCHANGED vars
    <2>1. TypeOK'
      <3>1. DataOK'
        BY <1>1 DEF Inv, TypeOK, DataOK, vars, serverVars, runVars, clientVars
      <3>2. running' \in BOOLEAN
        BY <1>1 DEF Inv, TypeOK, vars, serverVars
      <3> QED BY <3>1, <3>2 DEF TypeOK
    <2>2. HandlersMatchRuns' /\ HandlersKnowWho' /\ OneTunnel'
      BY <1>1 DEF Inv, HandlersMatchRuns, HandlersKnowWho, OneTunnel, vars, runVars
    <2>3. SessionAgrees' /\ NeverOrphaned' /\ StrangersGetNothing'
      BY <1>1 DEF Inv, SessionAgrees, NeverOrphaned, StrangersGetNothing, vars,
                  serverVars, runVars
    <2> QED BY <2>1, <2>2, <2>3 DEF Inv
  <1>2. ASSUME NEW c \in Conns, Client(c) PROVE Inv'
    BY <1>2, SendInv, CloseInv DEF Client
  <1>3. ASSUME NEW c \in Conns, Handler(c) PROVE Inv'
    BY <1>3, AcceptInv, TurnAwayInv, AnswerOnlyInv, StartRefusedInv, StartBeginInv,
       OpenFailsInv, OpenSucceedsInv, StopRequestInv, RefreshCheckInv, RefreshTakeInv,
       RefreshApplyInv, LeaveInv DEF Handler
  <1>4. ASSUME NEW r \in Runs, Run(r) PROVE Inv'
    BY <1>4, ComesUpInv, RunReturnsInv, RunClearedInv DEF Run
  <1> QED BY <1>1, <1>2, <1>3, <1>4 DEF Next

(* The invariant holds in every state the server can reach. *)
THEOREM Invariance == Safety => []Inv
  BY InitInv, NextInv, PTL DEF Safety

(* The server's variables have their types: in particular an owner is a    *)
(* user, never a connection.                                               *)
THEOREM TypeCorrect == Safety => []TypeOK
  <1>1. Inv => TypeOK
    BY DEF Inv
  <1> QED BY <1>1, Invariance, PTL

(* "One tunnel at a time": for any number of connections and users, two    *)
(* runs are never live together.                                           *)
THEOREM OneTunnelAtATime == Safety => []OneTunnel
  <1>1. Inv => OneTunnel
    BY DEF Inv
  <1> QED BY <1>1, Invariance, PTL

(* What the server keeps under its lock is the live run's own.             *)
THEOREM SessionIsTheRuns == Safety => []SessionAgrees
  <1>1. Inv => SessionAgrees
    BY DEF Inv
  <1> QED BY <1>1, Invariance, PTL

(* A live run that nobody cancelled has a handler that will cancel it.     *)
THEOREM NoOrphan == Safety => []NeverOrphaned
  <1>1. Inv => NeverOrphaned
    BY DEF Inv
  <1> QED BY <1>1, Invariance, PTL

(* A caller without an identity begins no run and supplies no token.       *)
THEOREM StrangersExcluded == Safety => []StrangersGetNothing
  <1>1. Inv => StrangersGetNothing
    BY DEF Inv
  <1> QED BY <1>1, Invariance, PTL

-----------------------------------------------------------------------------
(* One reply per request.                                                  *)

(* The request a handler is in the middle of. *)
Owed(p) == IF p \in {"opening", "checked", "renewing"} THEN 1 ELSE 0

(* A connection's requests are answered, being answered or not yet read. *)
Balance(p, s, a, q) == p # "gone" => s = a + Len(q) + Owed(p)

(* A step that is no other connection's. *)
OnlyOf(c) ==
  \A d \in Conns \ {c} : /\ pc'[d] = pc[d] /\ sent'[d] = sent[d]
                         /\ answered'[d] = answered[d] /\ inbox'[d] = inbox[d]

(* A balance that is kept by the one connection a step is about is kept. *)
LEMMA BalanceKept ==
  ASSUME OneReplyPerRequest, NEW c \in Conns, OnlyOf(c),
         Balance(pc'[c], sent'[c], answered'[c], inbox'[c])
  PROVE  OneReplyPerRequest'
  <1> SUFFICES ASSUME NEW d \in Conns, pc'[d] # "gone"
               PROVE  sent'[d] = answered'[d] + Len(inbox'[d]) + Owed(pc'[d])
    BY DEF OneReplyPerRequest, Owed
  <1>1. CASE d = c
    BY <1>1 DEF Balance
  <1>2. CASE d # c
    <2>1. sent[d] = answered[d] + Len(inbox[d]) + Owed(pc[d])
      BY <1>2 DEF OneReplyPerRequest, OnlyOf, Owed
    <2> QED BY <1>2, <2>1 DEF OnlyOf
  <1> QED BY <1>1, <1>2

(* A request that is read and answered in one step. *)
LEMMA ReadAndAnswered ==
  ASSUME Inv, OneReplyPerRequest, NEW c \in Conns, NEW q, Reads(c, q), Answer(c),
         UNCHANGED <<pc, sent>>
  PROVE  OneReplyPerRequest'
  <1>0. /\ answered \in [Conns -> Nat] /\ inbox \in [Conns -> Seq(Request)]
        /\ pc[c] = "read"
    BY DEF Inv, TypeOK, DataOK, Reads
  <1>1. answered[c] \in Nat /\ sent[c] = answered[c] + Len(inbox[c]) + 0
    BY <1>0 DEF OneReplyPerRequest
  <1>2. inbox'[c] = Tail(inbox[c]) /\ inbox[c] # <<>> /\ inbox[c] \in Seq(Request)
    BY <1>0 DEF Reads
  <1>3. Len(inbox'[c]) = Len(inbox[c]) - 1 /\ Len(inbox[c]) \in Nat
    BY <1>2
  <1>4. answered'[c] = answered[c] + 1 /\ OnlyOf(c)
    BY <1>0 DEF Answer, Reads, OnlyOf, Inv, TypeOK, DataOK
  <1>5. Balance(pc'[c], sent'[c], answered'[c], inbox'[c])
    <2>1. sent'[c] = answered'[c] + Len(inbox'[c]) + 0
      BY <1>1, <1>3, <1>4
    <2>2. Owed(pc'[c]) = 0
      BY <1>0 DEF Owed
    <2> QED BY <2>1, <2>2 DEF Balance
  <1> QED BY <1>4, <1>5, BalanceKept

(* A request that is read, and for which a handler sets out. *)
LEMMA ReadAndBegun ==
  ASSUME Inv, OneReplyPerRequest, NEW c \in Conns, NEW q, Reads(c, q),
         NEW p \in {"opening", "checked"}, Goto(c, p), UNCHANGED <<answered, sent>>
  PROVE  OneReplyPerRequest'
  <1>0. /\ answered \in [Conns -> Nat] /\ inbox \in [Conns -> Seq(Request)]
        /\ pc[c] = "read"
    BY DEF Inv, TypeOK, DataOK, Reads
  <1>1. answered[c] \in Nat /\ sent[c] = answered[c] + Len(inbox[c]) + 0
    BY <1>0 DEF OneReplyPerRequest
  <1>2. inbox'[c] = Tail(inbox[c]) /\ inbox[c] # <<>> /\ inbox[c] \in Seq(Request)
    BY <1>0 DEF Reads
  <1>3. Len(inbox'[c]) = Len(inbox[c]) - 1 /\ Len(inbox[c]) \in Nat
    BY <1>2
  <1>4. pc'[c] = p /\ OnlyOf(c)
    BY DEF Goto, Reads, OnlyOf, Inv, TypeOK, DataOK
  <1>5. Balance(pc'[c], sent'[c], answered'[c], inbox'[c])
    <2>1. sent'[c] = answered'[c] + Len(inbox'[c]) + 1
      BY <1>1, <1>3
    <2>2. Owed(pc'[c]) = 1
      BY <1>4 DEF Owed
    <2> QED BY <2>1, <2>2 DEF Balance
  <1> QED BY <1>4, <1>5, BalanceKept

(* A handler gets back to ReadMsg with the reply written. *)
LEMMA AnsweredAtLast ==
  ASSUME Inv, OneReplyPerRequest, NEW c \in Conns, pc[c] \in {"opening", "checked", "renewing"},
         Goto(c, "read"), Answer(c), UNCHANGED <<inbox, sent>>
  PROVE  OneReplyPerRequest'
  <1>1. /\ answered \in [Conns -> Nat] /\ inbox \in [Conns -> Seq(Request)]
        /\ sent[c] = answered[c] + Len(inbox[c]) + 1
    BY DEF Inv, TypeOK, DataOK, OneReplyPerRequest
  <1>2. Len(inbox[c]) \in Nat
    BY <1>1
  <1>3. pc'[c] = "read" /\ answered'[c] = answered[c] + 1 /\ OnlyOf(c)
    BY DEF Goto, Answer, OnlyOf, Inv, TypeOK, DataOK
  <1>4. Balance(pc'[c], sent'[c], answered'[c], inbox'[c])
    <2>1. sent'[c] = answered'[c] + Len(inbox'[c]) + 0
      BY <1>1, <1>2, <1>3
    <2>2. Owed(pc'[c]) = 0
      BY <1>3 DEF Owed
    <2> QED BY <2>1, <2>2 DEF Balance
  <1> QED BY <1>3, <1>4, BalanceKept

(* A step of a handler that neither reads nor answers. *)
LEMMA NothingOwed ==
  ASSUME Inv, OneReplyPerRequest, NEW c \in Conns, NEW p \in HandlerPC, Goto(c, p),
         p # "gone" => pc[c] # "gone" /\ Owed(p) = Owed(pc[c]) /\ inbox' = inbox,
         \A d \in Conns \ {c} : inbox'[d] = inbox[d], UNCHANGED <<answered, sent>>
  PROVE  OneReplyPerRequest'
  <1>1. pc'[c] = p /\ OnlyOf(c)
    BY DEF Goto, OnlyOf, Inv, TypeOK, DataOK
  <1>2. Balance(pc'[c], sent'[c], answered'[c], inbox'[c])
    <2>1. CASE p = "gone"
      BY <1>1, <2>1 DEF Balance
    <2>2. CASE p # "gone"
      BY <1>1, <2>2 DEF Balance, OneReplyPerRequest, Owed
    <2> QED BY <2>1, <2>2
  <1> QED BY <1>1, <1>2, BalanceKept

(* A client sends one more. *)
LEMMA SendCounted ==
  ASSUME Inv, OneReplyPerRequest, NEW c \in Conns, NEW q \in Request, Send(c, q)
  PROVE  OneReplyPerRequest'
  <1>1. /\ sent \in [Conns -> Nat] /\ answered \in [Conns -> Nat]
        /\ inbox \in [Conns -> Seq(Request)]
        /\ sent[c] = answered[c] + Len(inbox[c]) + Owed(pc[c])
    BY DEF Inv, TypeOK, DataOK, OneReplyPerRequest, Send, Owed
  <1>2. inbox'[c] = Append(inbox[c], q) /\ inbox[c] \in Seq(Request)
    BY <1>1 DEF Send
  <1>3. Len(inbox'[c]) = Len(inbox[c]) + 1 /\ Len(inbox[c]) \in Nat
    BY <1>2
  <1>4. sent'[c] = sent[c] + 1 /\ UNCHANGED <<pc, answered>> /\ OnlyOf(c)
    BY <1>1 DEF Send, OnlyOf
  <1>5. Owed(pc[c]) \in Nat
    BY DEF Owed
  <1>6. sent'[c] = answered'[c] + Len(inbox'[c]) + Owed(pc'[c])
    BY <1>1, <1>3, <1>4, <1>5
  <1> QED BY <1>4, <1>6, BalanceKept DEF Balance

(* Every step keeps the balance. *)
LEMMA NextBalanced == Inv /\ OneReplyPerRequest /\ [Next]_vars => OneReplyPerRequest'
  <1> SUFFICES ASSUME Inv, OneReplyPerRequest, [Next]_vars PROVE OneReplyPerRequest'
    OBVIOUS
  <1>1. CASE UNCHANGED <<pc, sent, answered, inbox>>
    BY <1>1 DEF OneReplyPerRequest
  <1>2. ASSUME NEW c \in Conns, Client(c) PROVE OneReplyPerRequest'
    BY <1>1, <1>2, SendCounted DEF Client, Close
  <1>3. ASSUME NEW r \in Runs, Run(r) PROVE OneReplyPerRequest'
    BY <1>1, <1>3 DEF Run, ComesUp, RunReturns, RunCleared, clientVars
  <1>4. ASSUME NEW c \in Conns, Accept(c) PROVE OneReplyPerRequest'
    <2>1. Goto(c, "read") /\ Owed("read") = Owed(pc[c]) /\ UNCHANGED <<inbox, answered, sent>>
      BY <1>4 DEF Accept, Owed, clientVars
    <2> QED BY <1>4, <2>1, NothingOwed DEF Accept, HandlerPC
  <1>5. ASSUME NEW c \in Conns, TurnAway(c) \/ Leave(c) PROVE OneReplyPerRequest'
    <2>1. Goto(c, "gone") /\ UNCHANGED <<answered, sent>>
      BY <1>5 DEF TurnAway, Leave, clientVars
    <2>2. \A d \in Conns \ {c} : inbox'[d] = inbox[d]
      BY <1>5 DEF TurnAway, Leave, Inv, TypeOK, DataOK
    <2> QED BY <2>1, <2>2, NothingOwed DEF HandlerPC
  <1>6. ASSUME NEW c \in Conns, AnswerOnly(c) PROVE OneReplyPerRequest'
    BY <1>6, ReadAndAnswered DEF AnswerOnly, clientVars
  <1>7. ASSUME NEW c \in Conns, StartRefused(c) PROVE OneReplyPerRequest'
    BY <1>7, ReadAndAnswered DEF StartRefused, clientVars
  <1>8. ASSUME NEW c \in Conns, StopRequest(c) PROVE OneReplyPerRequest'
    BY <1>8, ReadAndAnswered DEF StopRequest, clientVars
  <1>9. ASSUME NEW c \in Conns, StartBegin(c) PROVE OneReplyPerRequest'
    BY <1>9, ReadAndBegun DEF StartBegin, clientVars
  <1>10. ASSUME NEW c \in Conns, OpenFails(c) \/ OpenSucceeds(c) PROVE OneReplyPerRequest'
    BY <1>10, AnsweredAtLast DEF OpenFails, OpenSucceeds, BackToRead, clientVars
  <1>11. ASSUME NEW c \in Conns, RefreshCheck(c) PROVE OneReplyPerRequest'
    <2>1. \/ Reads(c, "refresh") /\ Answer(c) /\ UNCHANGED <<pc, sent>>
          \/ Reads(c, "refresh") /\ Goto(c, "checked") /\ UNCHANGED <<answered, sent>>
      BY <1>11, Zenon DEF RefreshCheck, clientVars
    <2> QED BY <2>1, ReadAndAnswered, ReadAndBegun
  <1>12. ASSUME NEW c \in Conns, RefreshTake(c) PROVE OneReplyPerRequest'
    <2>1. pc[c] = "checked" /\ UNCHANGED <<inbox, sent>>
      BY <1>12 DEF RefreshTake, clientVars
    <2>2. \/ Goto(c, "read") /\ Answer(c)
          \/ Goto(c, "renewing") /\ UNCHANGED answered
      BY <1>12, Zenon DEF RefreshTake
    <2>3. CASE Goto(c, "read") /\ Answer(c)
      BY <2>1, <2>3, AnsweredAtLast
    <2>4. CASE Goto(c, "renewing") /\ UNCHANGED answered
      <3>1. Owed("renewing") = Owed(pc[c])
        BY <2>1 DEF Owed
      <3> QED BY <2>1, <2>4, <3>1, NothingOwed DEF HandlerPC
    <2> QED BY <2>2, <2>3, <2>4
  <1>13. ASSUME NEW c \in Conns, RefreshApply(c) PROVE OneReplyPerRequest'
    BY <1>13, AnsweredAtLast DEF RefreshApply, BackToRead, clientVars
  <1>14. CASE UNCHANGED vars
    BY <1>1, <1>14 DEF vars, clientVars
  <1> QED
    BY <1>2, <1>3, <1>4, <1>5, <1>6, <1>7, <1>8, <1>9, <1>10, <1>11, <1>12, <1>13, <1>14
    DEF Next, Handler

(* Replies carry no request number.  Whatever the other connections and    *)
(* the runs do in between, a handler that is back at ReadMsg has written   *)
(* exactly one for every request it took off its connection.               *)
THEOREM RepliesPair == Safety => []OneReplyPerRequest
  <1>1. Init => OneReplyPerRequest
    BY DEF Init, OneReplyPerRequest
  <1> QED BY <1>1, InitInv, NextInv, NextBalanced, PTL DEF Safety

-----------------------------------------------------------------------------
(* The action property and the refinement.                                 *)

(* A run that is going on is cancelled only on behalf of its user, for any *)
(* number of connections and users.                                        *)
THEOREM StoppedByItsOwner == Safety => StoppedByOwnerOnly
  <1>1. Inv /\ [Next]_vars => [\A r \in Runs : StoppedByOwner(r)]_vars
    <2> SUFFICES ASSUME Inv, Next, NEW r \in Runs, phase[r] \in Live, phase'[r] \in Live,
                        r \notin cancelled, r \in cancelled'
                 PROVE  \E c \in Conns : /\ Who[c] = Who[starter[r]]
                                         /\ pc'[c] # pc[c] \/ answered'[c] # answered[c]
      BY DEF StoppedByOwner
    <2>1. cancel = r /\ owner = Who[starter[r]]
      BY DEF Inv, SessionAgrees
    <2>2. ASSUME NEW c \in Conns, StopRequest(c) PROVE Who[c] = owner /\ answered'[c] # answered[c]
      <3>1. Who[c] = owner
        BY <2>2, StopCancels DEF StopRequest
      <3>2. answered' = [answered EXCEPT ![c] = @ + 1] /\ answered \in [Conns -> Nat]
        BY <2>2 DEF StopRequest, Answer, Inv, TypeOK, DataOK
      <3> QED BY <3>1, <3>2
    <2>3. ASSUME NEW c \in Conns, Leave(c) PROVE Who[c] = owner /\ pc'[c] # pc[c]
      <3>1. Who[c] = owner
        BY <2>3, StopCancels DEF Leave
      <3>2. pc' = [pc EXCEPT ![c] = "gone"] /\ pc[c] = "read" /\ pc \in [Conns -> HandlerPC]
        BY <2>3 DEF Leave, Goto, Inv, TypeOK, DataOK
      <3> QED BY <3>1, <3>2
    <2>4. ASSUME NEW c \in Conns, OpenFails(c) PROVE FALSE
      <3>1. r = held[c]
        BY <2>4 DEF OpenFails
      <3>2. phase'[r] = "over"
        BY <2>4, <3>1 DEF OpenFails, Inv, TypeOK, DataOK
      <3> QED BY <3>2 DEF Live
    <2>5. ASSUME NEW s \in Runs, RunCleared(s) PROVE FALSE
      <3>1. r = s
        BY <2>5 DEF RunCleared
      <3>2. phase'[r] = "over"
        BY <2>5, <3>1 DEF RunCleared, Inv, TypeOK, DataOK
      <3> QED BY <3>2 DEF Live
    <2>6. ASSUME NEW c \in Conns, Client(c) PROVE FALSE
      BY <2>6 DEF Client, Send, Close, runVars
    <2>7. ASSUME NEW c \in Conns,
                 Accept(c) \/ TurnAway(c) \/ AnswerOnly(c) \/ StartRefused(c) \/ StartBegin(c)
                 \/ OpenSucceeds(c) \/ RefreshCheck(c) \/ RefreshTake(c) \/ RefreshApply(c)
          PROVE  FALSE
      BY <2>7 DEF Accept, TurnAway, AnswerOnly, StartRefused, StartBegin, OpenSucceeds,
                  RefreshCheck, RefreshTake, RefreshApply, runVars
    <2>8. ASSUME NEW s \in Runs, ComesUp(s) \/ RunReturns(s) PROVE FALSE
      BY <2>8 DEF ComesUp, RunReturns
    <2> QED BY <2>1, <2>2, <2>3, <2>4, <2>5, <2>6, <2>7, <2>8 DEF Next, Handler, Run
  <1> QED BY <1>1, InitInv, NextInv, PTL DEF Safety, StoppedByOwnerOnly

(* Who holds the session, and whether it was asked to end, as the mapping  *)
(* reads them off the server's variables.                                  *)
Holder == IF running THEN owner ELSE Anonymous
Ending == running /\ cancel \in cancelled

(* A step that leaves the server's variables and the contexts alone is not *)
(* seen by the abstract session.                                           *)
LEMMA SessionUntouched ==
  ASSUME UNCHANGED <<running, owner, cancel, cancelled>>
  PROVE  Holder' = Holder /\ Ending' = Ending
  BY DEF Holder, Ending

(* A stop, by request or by leaving, is seen as AskToEnd or not at all.    *)
LEMMA StopAsksToEnd ==
  ASSUME Inv, UNCHANGED <<running, owner, cancel, phase>>, NEW who, who # Anonymous, stop(who)
  PROVE  \/ Holder' = Holder /\ Ending' = Ending
         \/ Holder # Anonymous /\ ~Ending /\ Ending' = TRUE /\ Holder' = Holder
  <1>1. Holder' = Holder
    BY DEF Holder
  <1>2. CASE cancelled' = cancelled
    BY <1>2, SessionUntouched
  <1>3. CASE running /\ owner = who /\ cancelled' = cancelled \cup {cancel}
    <2>1. Ending' = TRUE
      BY <1>3 DEF Ending
    <2>2. Holder # Anonymous
      BY <1>3 DEF Holder
    <2>3. Ending \in BOOLEAN
      BY <1>3 DEF Ending
    <2> QED BY <1>1, <2>1, <2>2, <2>3
  <1> QED BY <1>2, <1>3, StopCancels

(* A run that gives the session back: End. *)
LEMMA ClearEnds ==
  ASSUME Inv, NEW r \in Runs, phase[r] \in Live, clear
  PROVE  Holder # Anonymous /\ Holder' = Anonymous /\ Ending' = FALSE
  <1>1. running = TRUE /\ owner = Who[starter[r]]
    BY DEF Inv, TypeOK, SessionAgrees
  <1>2. Who[starter[r]] \in Principals
    BY DEF Inv, StrangersGetNothing, Live
  <1>3. Holder # Anonymous
    BY <1>1, <1>2 DEF Holder
  <1>4. running' = FALSE
    BY DEF clear
  <1> QED BY <1>3, <1>4 DEF Holder, Ending

(* A start that is let through: Acquire by the connection's user. *)
LEMMA BeginAcquires ==
  ASSUME Inv, NEW c \in Conns, StartBegin(c)
  PROVE  /\ Holder = Anonymous
         /\ Who[c] \in Principals /\ Holder' = Who[c] /\ Ending' = FALSE
  <1>1. running = FALSE /\ running' = TRUE /\ owner' = Who[c]
    BY DEF StartBegin, Inv, TypeOK
  <1>2. Who[c] \in Principals
    BY DEF StartBegin, Reads, Inv, HandlersKnowWho
  <1>3. cancel' \notin cancelled'
    <2>1. nruns + 1 \in Runs /\ phase[nruns + 1] = "unborn"
      BY DEF StartBegin, Inv, TypeOK, DataOK, HandlersMatchRuns, Runs
    <2>2. cancel' = nruns + 1 /\ cancelled' = cancelled
      BY DEF StartBegin
    <2> QED BY <2>1, <2>2 DEF Inv, HandlersMatchRuns
  <1> QED BY <1>1, <1>2, <1>3 DEF Holder, Ending

(* Every step of the server is a step of the abstract session or none. *)
LEMMA StepRefines ==
  ASSUME Inv, [Next]_vars
  PROVE  \/ Holder' = Holder /\ Ending' = Ending
         \/ \E u \in Principals : Holder = Anonymous /\ Holder' = u /\ Ending' = FALSE
         \/ Holder # Anonymous /\ ~Ending /\ Ending' = TRUE /\ Holder' = Holder
         \/ Holder # Anonymous /\ Holder' = Anonymous /\ Ending' = FALSE
  <1>1. CASE UNCHANGED vars
    BY <1>1, SessionUntouched DEF vars, serverVars, runVars
  <1>2. ASSUME NEW c \in Conns, Client(c)
        PROVE  UNCHANGED <<running, owner, cancel, cancelled>>
    BY <1>2 DEF Client, Send, Close, serverVars, runVars
  <1>3. ASSUME NEW c \in Conns,
               Accept(c) \/ TurnAway(c) \/ AnswerOnly(c) \/ StartRefused(c)
               \/ OpenSucceeds(c) \/ RefreshCheck(c) \/ RefreshTake(c) \/ RefreshApply(c)
        PROVE  UNCHANGED <<running, owner, cancel, cancelled>>
    BY <1>3 DEF Accept, TurnAway, AnswerOnly, StartRefused, OpenSucceeds, RefreshCheck,
                RefreshTake, RefreshApply, serverVars, runVars
  <1>4. ASSUME NEW r \in Runs, ComesUp(r) \/ RunReturns(r)
        PROVE  UNCHANGED <<running, owner, cancel, cancelled>>
    BY <1>4 DEF ComesUp, RunReturns, serverVars
  <1>5. ASSUME NEW c \in Conns, StopRequest(c)
        PROVE  \/ Holder' = Holder /\ Ending' = Ending
               \/ Holder # Anonymous /\ ~Ending /\ Ending' = TRUE /\ Holder' = Holder
    <2>1. Who[c] # Anonymous /\ UNCHANGED <<running, owner, cancel, phase>> /\ stop(Who[c])
      BY <1>5 DEF StopRequest, Reads, serverVars, Inv, HandlersKnowWho
    <2> QED BY <2>1, StopAsksToEnd
  <1>6. ASSUME NEW c \in Conns, Leave(c)
        PROVE  \/ Holder' = Holder /\ Ending' = Ending
               \/ Holder # Anonymous /\ ~Ending /\ Ending' = TRUE /\ Holder' = Holder
    <2>1. /\ Who[c] # Anonymous /\ UNCHANGED <<running, owner, cancel, phase>>
          /\ stop(Who[c]) \/ UNCHANGED cancelled
      BY <1>6 DEF Leave, serverVars, Inv, HandlersKnowWho
    <2> QED BY <2>1, StopAsksToEnd, SessionUntouched
  <1>7. ASSUME NEW c \in Conns, OpenFails(c)
        PROVE  Holder # Anonymous /\ Holder' = Anonymous /\ Ending' = FALSE
    <2>1. held[c] \in Runs /\ phase[held[c]] \in Live /\ clear
      BY <1>7 DEF OpenFails, Inv, HandlersMatchRuns, Live
    <2> QED BY <2>1, ClearEnds
  <1>8. ASSUME NEW r \in Runs, RunCleared(r)
        PROVE  Holder # Anonymous /\ Holder' = Anonymous /\ Ending' = FALSE
    <2>1. phase[r] \in Live /\ clear
      BY <1>8 DEF RunCleared, Live
    <2> QED BY <2>1, ClearEnds
  <1> QED
    BY <1>1, <1>2, <1>3, <1>4, <1>5, <1>6, <1>7, <1>8, SessionUntouched, BeginAcquires
    DEF Next, Handler, Run

(* The server implements the exclusive session: for any connections and    *)
(* users, one user holds it at a time, and it changes hands only through   *)
(* being free.                                                             *)
THEOREM ImplementsExclusiveSession == Safety => ExclusiveSafety
  <1>1. Init => Exclusive!Init
    BY DEF Init, Exclusive!Init
  <1>2. Inv /\ [Next]_vars => [Exclusive!Next]_(Exclusive!vars)
    BY StepRefines
    DEF Holder, Ending, Exclusive!Next, Exclusive!Acquire, Exclusive!AskToEnd, Exclusive!End,
        Exclusive!vars
  <1> QED
    BY <1>1, <1>2, InitInv, NextInv, PTL
    DEF Safety, ExclusiveSafety, Exclusive!Safety
=============================================================================
