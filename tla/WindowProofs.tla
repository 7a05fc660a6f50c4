---------------------------- MODULE WindowProofs ----------------------------
(***************************************************************************)
(* That the connection a session holds is always being read, and that the  *)
(* component's end implements an exclusive session, however many           *)
(* connections are made and whatever is lost on the way.                   *)
(***************************************************************************)
EXTENDS Window, SequenceTheorems, TLAPS

USE WindowAssumption
USE DEF Conns, NoConn

Reads == conn # NoConn => pc[conn] = "reading"

(* The session lets go of a connection only with its reading, or for good. *)
LetsGo == conn # NoConn /\ conn' = NoConn => closed' \/ pc'[conn] # "reading"

(* The types the argument needs, and the invariant: there is no connection 0. *)
Held ==
  /\ conn \in Conns \cup {NoConn}
  /\ pc \in [Conns -> {"idle", "asking", "reading", "leaving", "done"}]
  /\ Reads

(* A session newly made holds nothing. *)
LEMMA InitHeld == Init => Held
  BY DEF Init, Held, Reads

(* What the person presses leaves the connection being read, or ends the   *)
(* process.                                                                *)
LEMMA PersonHeld ==
  ASSUME Held, Person
  PROVE  Held' /\ LetsGo
  <1>1. CASE \E c \in Conns : Connect(c)
    BY <1>1 DEF Connect, Held, Reads, LetsGo
  <1>2. CASE Disconnect
    BY <1>2 DEF Disconnect, Held, Reads, LetsGo
  <1>3. CASE Declines \/ Renew
    BY <1>3 DEF Declines, Renew, Held, Reads, LetsGo
  <1>4. CASE Quit
    BY <1>4 DEF Quit, Held, Reads, LetsGo
  <1> QED BY <1>1, <1>2, <1>3, <1>4 DEF Person

(* A Connect and the consume it becomes: the connection is taken up before *)
(* it is read, and let go of by the goroutine that stops reading it.       *)
LEMMA SessionHeld ==
  ASSUME Held, NEW c \in Conns, Session(c) \/ ReadFails(c)
  PROVE  Held' /\ LetsGo
  <1>1. CASE ConnectFails(c)
    BY <1>1 DEF ConnectFails, Held, Reads, LetsGo
  <1>2. CASE Dial(c)
    BY <1>2 DEF Dial, Held, Reads, LetsGo
  <1>3. CASE Consume(c)
    BY <1>3 DEF Consume, Held, Reads, LetsGo
  <1>4. CASE ConsumeEnds(c)
    BY <1>4 DEF ConsumeEnds, Held, Reads, LetsGo
  <1>5. CASE ConsumeLeaves(c)
    BY <1>5 DEF ConsumeLeaves, Held, Reads, LetsGo
  <1>6. CASE ReadFails(c)
    BY <1>6 DEF ReadFails, Held, Reads, LetsGo
  <1> QED BY <1>1, <1>2, <1>3, <1>4, <1>5, <1>6 DEF Session

(* Nobody else touches either variable. *)
LEMMA OthersLeaveIt ==
  ASSUME Draw \/ DisconnectWrites \/ AskToRenew \/ RenewWrites \/ Watcher \/ Flap
  PROVE  UNCHANGED <<conn, pc>>
  <1>1. CASE Draw
    BY <1>1 DEF Draw
  <1>2. CASE DisconnectWrites
    BY <1>2 DEF DisconnectWrites
  <1>3. CASE AskToRenew \/ RenewWrites
    BY <1>3 DEF AskToRenew, RenewWrites
  <1>4. CASE Watcher
    BY <1>4 DEF Watcher, WatchProbes, WatchLooks, WatchTells, WatchDisconnect, WatchStops
  <1>5. CASE Flap
    BY <1>5 DEF Flap, windowVars
  <1> QED BY <1>1, <1>2, <1>3, <1>4, <1>5

(* Nor does the component, or the runtime. *)
LEMMA ComponentLeavesIt ==
  ASSUME NEW c \in Conns,
         \/ Handler(c) \/ say(c) \/ report(c)
         \/ RunEnds(c) \/ RunCleared(c) \/ Collected(c)
  PROVE  UNCHANGED <<conn, pc>>
  <1>1. CASE Handler(c)
    BY <1>1 DEF Handler, TakesStart, RefusesStart, TakesStop, TakesRefresh, HandlerLeaves,
                windowVars
  <1>2. CASE say(c) \/ report(c)
    BY <1>2 DEF say, report, windowVars
  <1>3. CASE RunEnds(c) \/ RunCleared(c) \/ Collected(c)
    BY <1>3 DEF RunEnds, RunCleared, Collected, windowVars
  <1> QED BY <1>1, <1>2, <1>3

(* The connection a session holds is one a consume is reading, and it is    *)
(* let go of only with that reading, for any number of connections made,    *)
(* any capacity of the channels and any number of times the module goes or  *)
(* a read fails: Connect sets s.conn before its consume runs, and only the  *)
(* consume of that connection lets go of it.                                *)
THEOREM SessionReadsConn == Safety => ConnIsRead
  <1>1. Init => Held
    BY InitHeld
  <1>2. Held /\ [Next]_vars => Held' /\ [LetsGo]_vars
    <2> SUFFICES ASSUME Held, [Next]_vars PROVE Held' /\ [LetsGo]_vars
      OBVIOUS
    <2>1. CASE UNCHANGED vars
      BY <2>1 DEF vars, windowVars, Held, Reads
    <2>2. CASE Draw \/ DisconnectWrites \/ AskToRenew \/ RenewWrites \/ Watcher \/ Flap
      BY <2>2, OthersLeaveIt DEF Held, Reads, LetsGo
    <2>3. CASE Person
      BY <2>3, PersonHeld
    <2>4. CASE \E c \in Conns : Session(c) \/ ReadFails(c)
      BY <2>4, SessionHeld
    <2>5. CASE \E c \in Conns : \/ Handler(c) \/ say(c) \/ report(c)
                                \/ RunEnds(c) \/ RunCleared(c) \/ Collected(c)
      BY <2>5, ComponentLeavesIt DEF Held, Reads, LetsGo
    <2> QED BY <2>1, <2>2, <2>3, <2>4, <2>5 DEF Next
  <1>3. Held => Reads
    BY DEF Held
  <1> QED BY <1>1, <1>2, <1>3, PTL DEF Safety, ConnIsRead, Reads, LetsGo
-----------------------------------------------------------------------------
(* The component's end.                                                    *)

Ops == {"start", "stop", "refresh"}

ServedType ==
  /\ pc \in [Conns -> {"idle", "asking", "reading", "leaving", "done"}]
  /\ link \in [Conns -> {"none", "open", "closed", "left"}]
  /\ up \in [Conns -> Seq(Ops)]
  /\ run \in [Conns -> {"none", "live", "refused", "ended", "over"}]
  /\ cancelled \subseteq Conns

(* What makes a connection's start unique, whatever the session's goroutines *)
(* write after it: it is the first request of a connection just made, which  *)
(* has no run before the handler has taken it.                               *)
Fresh(c) ==
  /\ pc[c] \in {"idle", "asking"} => link[c] = "none"
  /\ link[c] = "none" => run[c] = "none" /\ up[c] = <<>>
  /\ \A i \in DOMAIN up[c] : up[c][i] = "start" => i = 1 /\ run[c] = "none"
  /\ run[c] = "none" => c \notin cancelled

OneRun == \A c, d \in Running : c = d

Served == ServedType /\ (\A c \in Conns : Fresh(c)) /\ OneRun

(* Before anything is dialled there is nothing to serve. *)
LEMMA InitServed == Init => Served
  BY DEF Init, Served, ServedType, Fresh, OneRun, Running

(* What the session writes after the start is never a start. *)
LEMMA WriteServed ==
  ASSUME Served, NEW c, NEW op \in {"stop", "refresh"}, Write(c, op),
         UNCHANGED <<pc, link, run, cancelled>>
  PROVE  Served'
  <1>1. CASE up' = up
    BY <1>1 DEF Served, ServedType, Fresh, OneRun, Running
  <1>2. CASE /\ link[c] = "open" /\ up' # up
             /\ up' = [up EXCEPT ![c] = Append(@, op)]
    <2>1. c \in Conns /\ up[c] \in Seq(Ops) /\ op \in Ops
      BY <1>2 DEF Served, ServedType, Ops
    <2>2. /\ Append(up[c], op) \in Seq(Ops)
          /\ Len(Append(up[c], op)) = Len(up[c]) + 1
          /\ \A i \in 1 .. Len(up[c]) : Append(up[c], op)[i] = up[c][i]
          /\ Append(up[c], op)[Len(up[c]) + 1] = op
      BY <2>1, AppendProperties
    <2>3. up' \in [Conns -> Seq(Ops)] /\ up'[c] = Append(up[c], op)
      BY <1>2, <2>1, <2>2 DEF Served, ServedType
    <2>4. \A d \in Conns : d # c => up'[d] = up[d]
      BY <1>2, <2>1 DEF Served, ServedType
    <2>5. ASSUME NEW i \in DOMAIN up'[c], up'[c][i] = "start"
          PROVE  i \in DOMAIN up[c] /\ up[c][i] = "start"
      BY <2>1, <2>2, <2>3, <2>5
    <2>6. Fresh(c)'
      BY <1>2, <2>1, <2>5 DEF Served, Fresh
    <2>7. ASSUME NEW d \in Conns, d # c PROVE Fresh(d)'
      BY <2>4, <2>7 DEF Served, Fresh
    <2>8. ServedType' /\ OneRun'
      BY <2>3 DEF Served, ServedType, OneRun, Running
    <2> QED BY <2>6, <2>7, <2>8 DEF Served
  <1> QED BY <1>1, <1>2 DEF Write

(* A handler that takes a request has one fewer to take, no start left, and *)
(* has taken the start only if it had no run.                              *)
LEMMA TakesRequest ==
  ASSUME Served, NEW c \in Conns, NEW op \in Ops, Takes(c, op)
  PROVE  /\ link[c] # "none" /\ pc[c] \notin {"idle", "asking"}
         /\ up' \in [Conns -> Seq(Ops)] /\ \A d \in Conns : d # c => up'[d] = up[d]
         /\ \A i \in DOMAIN up'[c] : up'[c][i] # "start"
         /\ op = "start" => run[c] = "none" /\ c \notin cancelled
  <1>1. /\ link[c] \in {"open", "closed"} /\ up[c] # <<>> /\ up[c] \in Seq(Ops)
        /\ op = Head(up[c]) /\ up' = [up EXCEPT ![c] = Tail(up[c])]
    BY DEF Takes, Served, ServedType
  <1>2. /\ Tail(up[c]) \in Seq(Ops) /\ Len(Tail(up[c])) = Len(up[c]) - 1
        /\ \A i \in 1 .. Len(Tail(up[c])) : Tail(up[c])[i] = up[c][i + 1]
    BY <1>1, HeadTailProperties
  <1>3. /\ up' \in [Conns -> Seq(Ops)] /\ up'[c] = Tail(up[c])
        /\ \A d \in Conns : d # c => up'[d] = up[d]
    BY <1>1, <1>2 DEF Served, ServedType
  <1>4. 1 \in DOMAIN up[c] /\ up[c][1] = op
    BY <1>1
  <1>5. ASSUME NEW i \in DOMAIN up'[c], up'[c][i] = "start" PROVE FALSE
    <2>1. i \in Nat /\ i + 1 \in DOMAIN up[c] /\ up[c][i + 1] = "start" /\ i + 1 # 1
      BY <1>1, <1>2, <1>3, <1>5
    <2> QED BY <2>1 DEF Served, Fresh
  <1> QED BY <1>1, <1>3, <1>4, <1>5 DEF Served, Fresh

(* A session's Connect and consume: a connection begins with a start, once. *)
LEMMA SessionServed ==
  ASSUME Served, NEW c \in Conns, Session(c) \/ ReadFails(c) \/ Collected(c)
  PROVE  Served'
  <1>1. CASE ConnectFails(c)
    BY <1>1 DEF ConnectFails, runVars, Served, ServedType, Fresh, OneRun, Running
  <1>2. CASE Dial(c)
    <2>1. /\ pc' = [pc EXCEPT ![c] = "reading"] /\ link' = [link EXCEPT ![c] = "open"]
          /\ up' = [up EXCEPT ![c] = <<"start">>] /\ UNCHANGED <<run, cancelled>>
          /\ pc[c] = "asking"
      BY <1>2 DEF Dial, runVars
    <2>2. run[c] = "none" /\ c \notin cancelled
      BY <2>1 DEF Served, Fresh
    <2>3. ServedType'
      BY <2>1 DEF Served, ServedType, Ops
    <2>4. Fresh(c)'
      BY <2>1, <2>2 DEF Served, ServedType, Fresh
    <2>5. ASSUME NEW d \in Conns, d # c PROVE Fresh(d)'
      BY <2>1, <2>5 DEF Served, ServedType, Fresh
    <2>6. OneRun'
      BY <2>1 DEF Served, OneRun, Running
    <2> QED BY <2>3, <2>4, <2>5, <2>6 DEF Served
  <1>3. CASE Consume(c)
    <2>1. /\ link[c] = "open" /\ UNCHANGED <<pc, up, run, cancelled>>
          /\ link' = [link EXCEPT ![c] = "closed"] \/ link' = link
      BY <1>3 DEF Consume, runVars
    <2> QED BY <2>1 DEF Served, ServedType, Fresh, OneRun, Running
  <1>4. CASE ConsumeEnds(c)
    BY <1>4 DEF ConsumeEnds, runVars, Served, ServedType, Fresh, OneRun, Running
  <1>5. CASE ConsumeLeaves(c)
    BY <1>5 DEF ConsumeLeaves, runVars, Served, ServedType, Fresh, OneRun, Running
  <1>6. CASE ReadFails(c)
    BY <1>6 DEF ReadFails, runVars, Served, ServedType, Fresh, OneRun, Running
  <1>7. CASE Collected(c)
    <2>1. /\ link[c] = "open" /\ UNCHANGED <<pc, up, run, cancelled>>
          /\ link' = [link EXCEPT ![c] = "closed"]
      BY <1>7 DEF Collected, windowVars, runVars
    <2> QED BY <2>1 DEF Served, ServedType, Fresh, OneRun, Running
  <1> QED BY <1>1, <1>2, <1>3, <1>4, <1>5, <1>6, <1>7 DEF Session

(* What the rest of the window does to its connections: it opens none. *)
LEMMA PersonServed ==
  ASSUME Served, Person \/ Draw \/ AskToRenew \/ Flap
  PROVE  Served'
  <1>1. ASSUME NEW c \in Conns, Connect(c) PROVE Served'
    <2>1. pc[c] = "idle" /\ pc' = [pc EXCEPT ![c] = "asking"]
          /\ UNCHANGED <<link, up, run, cancelled>>
      BY <1>1 DEF Connect, runVars
    <2>2. \A d \in Conns : Fresh(d)'
      BY <2>1 DEF Served, ServedType, Fresh
    <2> QED BY <2>1, <2>2 DEF Served, ServedType, OneRun, Running
  <1>2. CASE Disconnect \/ Declines \/ Renew \/ Draw \/ AskToRenew \/ Flap
    BY <1>2 DEF Disconnect, Declines, Renew, Draw, AskToRenew, Flap, windowVars, runVars, Served, ServedType, Fresh,
                OneRun, Running
  <1>3. CASE Quit
    BY <1>3 DEF Quit, runVars, Served, ServedType, Fresh, OneRun, Running
  <1> QED BY <1>1, <1>2, <1>3 DEF Person

(* The writes of Disconnect, Renew and the watch, each to a connection read *)
(* before, which may be gone by then.                                      *)
LEMMA WritersServed ==
  ASSUME Served, DisconnectWrites \/ RenewWrites \/ Watcher
  PROVE  Served'
  <1>1. CASE UNCHANGED <<pc, link, up, run, cancelled>>
    BY <1>1 DEF Served, ServedType, Fresh, OneRun, Running
  <1>2. UNCHANGED <<pc, link, run, cancelled>>
    BY DEF DisconnectWrites, RenewWrites, Watcher, WatchProbes, WatchLooks, WatchTells,
           WatchDisconnect, WatchStops, runVars
  <1>3. \/ UNCHANGED up
        \/ \E c, op : op \in {"stop", "refresh"} /\ Write(c, op)
    BY DEF DisconnectWrites, RenewWrites, Watcher, WatchProbes, WatchLooks, WatchTells,
           WatchDisconnect, WatchStops
  <1> QED BY <1>1, <1>2, <1>3, WriteServed

(* A handler that takes a start, a stop or a refresh, or leaves. *)
LEMMA HandlerServed ==
  ASSUME Served, NEW c \in Conns, Handler(c)
  PROVE  Served'
  <1>1. CASE TakesStart(c)
    <2>1. /\ Takes(c, "start") /\ Running = {} /\ run' = [run EXCEPT ![c] = "live"]
          /\ UNCHANGED <<pc, link, cancelled>>
      BY <1>1 DEF TakesStart, windowVars
    <2>2. ServedType'
      BY <2>1, TakesRequest DEF Ops, Served, ServedType
    <2>3. \A d \in Conns : Fresh(d)'
      BY <2>1, TakesRequest DEF Ops, Served, ServedType, Fresh
    <2>4. OneRun'
      BY <2>1 DEF Served, ServedType, OneRun, Running
    <2> QED BY <2>2, <2>3, <2>4 DEF Served
  <1>2. CASE RefusesStart(c)
    <2>1. /\ Takes(c, "start") /\ run' = [run EXCEPT ![c] = "refused"]
          /\ UNCHANGED <<pc, link, cancelled>>
      BY <1>2 DEF RefusesStart, windowVars
    <2>2. ServedType'
      BY <2>1, TakesRequest DEF Ops, Served, ServedType
    <2>3. \A d \in Conns : Fresh(d)'
      BY <2>1, TakesRequest DEF Ops, Served, ServedType, Fresh
    <2>4. OneRun'
      BY <2>1 DEF Served, ServedType, OneRun, Running
    <2> QED BY <2>2, <2>3, <2>4 DEF Served
  <1>3. CASE TakesStop(c)
    <2>1. /\ Takes(c, "stop") /\ cancelled' = cancelled \cup Running
          /\ UNCHANGED <<pc, link, run>>
      BY <1>3 DEF TakesStop, windowVars
    <2>2. ServedType'
      BY <2>1, TakesRequest DEF Ops, Served, ServedType, Running
    <2>3. \A d \in Conns : Fresh(d)'
      BY <2>1, TakesRequest DEF Ops, Served, ServedType, Fresh, Running
    <2> QED BY <2>1, <2>2, <2>3 DEF Served, OneRun, Running
  <1>4. CASE TakesRefresh(c)
    <2>1. Takes(c, "refresh") /\ UNCHANGED <<pc, link, run, cancelled>>
      BY <1>4 DEF TakesRefresh, windowVars
    <2>2. ServedType'
      BY <2>1, TakesRequest DEF Ops, Served, ServedType
    <2>3. \A d \in Conns : Fresh(d)'
      BY <2>1, TakesRequest DEF Ops, Served, ServedType, Fresh
    <2> QED BY <2>1, <2>2, <2>3 DEF Served, OneRun, Running
  <1>5. CASE HandlerLeaves(c)
    <2>1. /\ link[c] = "closed" /\ link' = [link EXCEPT ![c] = "left"]
          /\ cancelled' \in {cancelled, cancelled \cup Running}
          /\ UNCHANGED <<pc, up, run>>
      BY <1>5 DEF HandlerLeaves, windowVars
    <2>2. ServedType'
      BY <2>1 DEF Served, ServedType, Running
    <2>3. \A d \in Conns : Fresh(d)'
      BY <2>1 DEF Served, ServedType, Fresh, Running
    <2> QED BY <2>1, <2>2, <2>3 DEF Served, OneRun, Running
  <1> QED BY <1>1, <1>2, <1>3, <1>4, <1>5 DEF Handler

(* What a run does: it reports, it ends, and the session is free. *)
LEMMA RunServed ==
  ASSUME Served, NEW c \in Conns, say(c) \/ report(c) \/ RunEnds(c) \/ RunCleared(c)
  PROVE  Served'
  <1>1. CASE say(c) \/ report(c)
    BY <1>1 DEF say, report, windowVars, runVars, Served, ServedType, Fresh, OneRun, Running
  <1>2. CASE RunEnds(c)
    <2>1. /\ run[c] = "live" /\ run' = [run EXCEPT ![c] = "ended"]
          /\ UNCHANGED <<pc, link, up, cancelled>>
      BY <1>2 DEF RunEnds, windowVars
    <2>2. \A d \in Conns : Fresh(d)'
      BY <2>1 DEF Served, ServedType, Fresh
    <2> QED BY <2>1, <2>2 DEF Served, ServedType, OneRun, Running
  <1>3. CASE RunCleared(c)
    <2>1. /\ run[c] = "ended" /\ run' = [run EXCEPT ![c] = "over"]
          /\ cancelled' = cancelled \cup {c} /\ UNCHANGED <<pc, link, up>>
      BY <1>3 DEF RunCleared, windowVars
    <2>2. \A d \in Conns : Fresh(d)'
      BY <2>1 DEF Served, ServedType, Fresh
    <2> QED BY <2>1, <2>2 DEF Served, ServedType, OneRun, Running
  <1> QED BY <1>1, <1>2, <1>3

(* The invariant of the component's end is kept by every step. *)
LEMMA NextServed == Served /\ [Next]_vars => Served'
  <1> SUFFICES ASSUME Served, [Next]_vars PROVE Served'
    OBVIOUS
  <1>1. CASE UNCHANGED vars
    BY <1>1 DEF vars, windowVars, runVars, Served, ServedType, Fresh, OneRun, Running
  <1> QED
    BY <1>1, PersonServed, WritersServed, SessionServed, HandlerServed, RunServed DEF Next

-----------------------------------------------------------------------------
Holder == IF Running = {} THEN NoConn ELSE CHOOSE c \in Conns : c \in Running
Ending == Running # {} /\ Running \subseteq cancelled

(* The connection of the only run is the holder. *)
LEMMA HolderRuns ==
  ASSUME OneRun
  PROVE  /\ Running = {} => Holder = NoConn
         /\ \A c \in Running : Holder = c /\ Holder # NoConn
  <1>1. ASSUME NEW c \in Running PROVE Holder = c /\ Holder # NoConn
    <2>1. c \in Conns
      BY DEF Running
    <2>2. \A d \in Conns : d \in Running <=> d = c
      BY <2>1 DEF OneRun
    <2>3. Holder \in Running
      BY <1>1, <2>1 DEF Holder
    <2>4. Holder = c
      BY <1>1, <2>3 DEF OneRun
    <2> QED BY <2>1, <2>4
  <1> QED BY <1>1 DEF Holder

(* Steps that neither begin, cancel nor clear a run are not seen. *)
LEMMA HolderUntouched ==
  ASSUME Running' = Running, cancelled' = cancelled
  PROVE  Holder' = Holder /\ Ending' = Ending
  BY DEF Holder, Ending

(* A stop, or the end of a connection that started, is AskToEnd, or nothing *)
(* when there is no run or it has been asked already.                      *)
LEMMA CancelAsksToEnd ==
  ASSUME OneRun, Running' = Running, cancelled' = cancelled \cup Running
  PROVE  \/ Holder' = Holder /\ Ending' = Ending
         \/ Holder # NoConn /\ ~Ending /\ Ending' = TRUE /\ Holder' = Holder
  <1>1. Holder' = Holder
    BY DEF Holder
  <1>2. CASE Running = {}
    BY <1>1, <1>2 DEF Ending
  <1>3. CASE Running # {}
    <2>1. Ending' = TRUE
      BY <1>3 DEF Ending
    <2>2. Ending \in BOOLEAN
      BY DEF Ending
    <2>3. Holder # NoConn
      BY <1>3, HolderRuns
    <2> QED BY <1>1, <2>1, <2>2, <2>3
  <1> QED BY <1>2, <1>3

(* Every step of the session, of its connections and of the component is a *)
(* step of the exclusive session or none.                                  *)
LEMMA StepRefines ==
  ASSUME Served, Served', [Next]_vars
  PROVE  \/ Holder' = Holder /\ Ending' = Ending
         \/ \E c \in Conns : Holder = NoConn /\ Holder' = c /\ Ending' = FALSE
         \/ Holder # NoConn /\ ~Ending /\ Ending' = TRUE /\ Holder' = Holder
         \/ Holder # NoConn /\ Holder' = NoConn /\ Ending' = FALSE
  <1>1. CASE UNCHANGED <<run, cancelled>>
    BY <1>1, HolderUntouched DEF Running
  <1>2. ASSUME NEW c \in Conns, TakesStart(c)
        PROVE  Holder = NoConn /\ Holder' = c /\ Ending' = FALSE
    <2>1. /\ Takes(c, "start") /\ Running = {} /\ run' = [run EXCEPT ![c] = "live"]
          /\ cancelled' = cancelled
      BY <1>2 DEF TakesStart
    <2>2. c \notin cancelled
      BY <2>1, TakesRequest DEF Ops
    <2>3. c \in Running'
      BY <2>1 DEF Served, ServedType, Running
    <2>4. Holder' = c
      BY <2>3 DEF Served, Holder, OneRun, Running
    <2> QED BY <2>1, <2>2, <2>3, <2>4 DEF Holder, Ending
  <1>3. ASSUME NEW c \in Conns, RefusesStart(c) PROVE Holder' = Holder /\ Ending' = Ending
    <2>1. Takes(c, "start") /\ run' = [run EXCEPT ![c] = "refused"] /\ cancelled' = cancelled
      BY <1>3 DEF RefusesStart
    <2>2. run[c] = "none"
      BY <2>1, TakesRequest DEF Ops
    <2>3. Running' = Running
      BY <2>1, <2>2 DEF Served, ServedType, Running
    <2> QED BY <2>1, <2>3, HolderUntouched
  <1>4. ASSUME NEW c \in Conns, TakesStop(c) \/ HandlerLeaves(c)
        PROVE  \/ Holder' = Holder /\ Ending' = Ending
               \/ Holder # NoConn /\ ~Ending /\ Ending' = TRUE /\ Holder' = Holder
    <2>1. /\ cancelled' = cancelled \cup Running \/ cancelled' = cancelled
          /\ Running' = Running
      BY <1>4 DEF TakesStop, HandlerLeaves, Running
    <2> QED BY <2>1, CancelAsksToEnd, HolderUntouched DEF Served
  <1>5. ASSUME NEW c \in Conns, RunEnds(c) PROVE Holder' = Holder /\ Ending' = Ending
    <2>1. /\ run[c] = "live" /\ run' = [run EXCEPT ![c] = "ended"] /\ cancelled' = cancelled
      BY <1>5 DEF RunEnds
    <2>2. Running' = Running
      BY <2>1 DEF Served, ServedType, Running
    <2> QED BY <2>1, <2>2, HolderUntouched
  <1>6. ASSUME NEW c \in Conns, RunCleared(c)
        PROVE  Holder # NoConn /\ Holder' = NoConn /\ Ending' = FALSE
    <2>1. c \in Running /\ run' = [run EXCEPT ![c] = "over"]
      BY <1>6 DEF RunCleared, Running
    <2>2. Running' = {}
      BY <2>1 DEF Served, ServedType, OneRun, Running
    <2>3. Holder # NoConn
      BY <2>1, HolderRuns DEF Served
    <2> QED BY <2>2, <2>3 DEF Holder, Ending
  <1>7. CASE Draw \/ Person \/ DisconnectWrites \/ AskToRenew \/ RenewWrites \/ Watcher \/ Flap
    <2>1. UNCHANGED <<run, cancelled>>
      BY <1>7 DEF Draw, Person, Connect, Disconnect, Declines, Renew, Quit, DisconnectWrites,
                  AskToRenew, RenewWrites,
                  Watcher, WatchProbes, WatchLooks, WatchTells, WatchDisconnect, WatchStops,
                  Flap, runVars
    <2> QED BY <1>1, <2>1
  <1>8. ASSUME NEW c \in Conns, \/ Session(c) \/ ReadFails(c) \/ Collected(c)
                             \/ TakesRefresh(c) \/ say(c) \/ report(c)
        PROVE  UNCHANGED <<run, cancelled>>
    BY <1>8 DEF Session, ConnectFails, Dial, Consume, ConsumeEnds, ConsumeLeaves, ReadFails,
                Collected, TakesRefresh, say, report, runVars
  <1>9. CASE UNCHANGED vars
    BY <1>1, <1>9 DEF vars, runVars
  <1> QED
    BY <1>1, <1>2, <1>3, <1>4, <1>5, <1>6, <1>7, <1>8, <1>9 DEF Next, Handler

(* To any number of connections of one window, however late its goroutines *)
(* write and whatever is lost, the component is an exclusive session: a    *)
(* start gets it only once the last run has been cleared, and a run that   *)
(* begins has not been cancelled already.                                  *)
THEOREM ImplementsExclusiveSession == Safety => ServerIsExclusive
  <1>1. Init => Exclusive!Init
    BY DEF Init, Exclusive!Init, Running
  <1>2. Served /\ Served' /\ [Next]_vars => [Exclusive!Next]_(Exclusive!vars)
    BY StepRefines
    DEF Holder, Ending, Exclusive!Next, Exclusive!Acquire, Exclusive!AskToEnd, Exclusive!End,
        Exclusive!vars
  <1> QED
    BY <1>1, <1>2, InitServed, NextServed, PTL
    DEF Safety, ServerIsExclusive, Exclusive!Safety
=============================================================================
