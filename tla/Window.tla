------------------------------- MODULE Window -------------------------------
(***************************************************************************)
(* A window's session (gui/live.go, and the part of gui/main.go that       *)
(* drives it) and the component's end of it: what the handler of its       *)
(* connection answers (internal/daemon) and what a run reports             *)
(* (cmd/wg-hem/daemon.go).                                                 *)
(*                                                                         *)
(* The goroutines are the ones the code has: the drawing one, a Connect    *)
(* that goes on to read its connection, a Renew, the presence watch, and   *)
(* the component's.  A step ends where a mutex is released, a channel or a *)
(* connection is written, or a device is asked.  One user; what a second   *)
(* one does to the server is module Daemon.                                *)
(***************************************************************************)
EXTENDS Naturals, Sequences

CONSTANTS
  MaxConns,     \* bound: connections the window makes
  MaxMoves,     \* bound: times the person connects, disconnects or is asked to
                \* renew, the module is pulled out or plugged in, or a read
                \* fails, all told, connection n counting n times
  EventCap,     \* capacity of the events channel
  MaxQueue,     \* bound: messages a connection holds each way before a write waits
  Misses        \* presenceMisses

ASSUME WindowAssumption ==
  /\ MaxConns \in Nat \ {0} /\ EventCap \in Nat \ {0} /\ Misses \in Nat \ {0}
  /\ MaxMoves \in Nat /\ MaxQueue \in Nat \ {0}

Conns == 1 .. MaxConns
NoConn == 0

VARIABLES
  (* the window *)
  shown,      \* the state last drawn: Ready, Connected, or Busy for any other
  events,     \* liveSession.events
  conn,       \* liveSession.conn
  closed,     \* the window has quit
  pc,         \* for each connection, the Connect that makes it, then its consume
  asked,      \* the connection a Disconnect on the drawing goroutine has read
  renewOpen,  \* ui.renewOpen: the window asks whether to stay connected
  renewing,   \* the connection a Renew has read
  watch,      \* the presence watch: its locals, and where it is
  (* the module *)
  module,     \* it answers
  moves,      \* what MaxMoves counts
  (* the component *)
  link,       \* each connection: not made, open, closed by the window, left
  up,         \* requests on their way
  down,       \* replies and events on their way
  run,        \* the run each connection's start led to
  started,    \* the handlers whose local started is true
  cancelled   \* runs whose context is cancelled

renewVars == <<renewOpen, renewing>>
windowVars == <<shown, events, conn, closed, pc, asked, renewVars, watch>>
moduleVars == <<module, moves>>
runVars == <<run, started, cancelled>>
vars == <<windowVars, moduleVars, link, up, down, runVars>>

NewWatch == [at |-> "probe", now |-> FALSE, present |-> FALSE, misses |-> 0, on |-> NoConn]

(* newLiveSession, with the watch about to ask for the first time. *)
Init ==
  /\ shown = "Busy" /\ events = <<>>
  /\ conn = NoConn /\ closed = FALSE
  /\ pc = [c \in Conns |-> "idle"]
  /\ asked = NoConn /\ renewOpen = FALSE /\ renewing = NoConn
  /\ watch = NewWatch
  /\ module = TRUE /\ moves = 0
  /\ link = [c \in Conns |-> "none"]
  /\ up = [c \in Conns |-> <<>>] /\ down = [c \in Conns |-> <<>>]
  /\ run = [c \in Conns |-> "none"] /\ started = {} /\ cancelled = {}

-----------------------------------------------------------------------------
(* liveSession.emit: a full channel loses the event. *)
emit(e) == events' = IF Len(events) < EventCap THEN Append(events, e) ELSE events

(* Nobody reads c any more, and nobody has closed it. *)
Deaf(c) == link[c] = "open" /\ pc[c] \in {"leaving", "done"}

(* A request is written, once there is room for it; on a connection closed  *)
(* meanwhile the write fails and nobody looks.  One the session has let go  *)
(* of has room for the few requests still on their way to it.               *)
Write(c, op) ==
  /\ link[c] = "open" => Deaf(c) \/ Len(up[c]) < MaxQueue
  /\ up' = IF link[c] = "open" THEN [up EXCEPT ![c] = Append(@, op)] ELSE up

(* ui.consume and render. *)
Draw ==
  /\ ~closed /\ asked = NoConn /\ events # <<>>
  /\ shown' = Head(events) /\ events' = Tail(events)
  /\ UNCHANGED <<conn, closed, pc, asked, renewVars, watch, moduleVars,
                 link, up, down, runVars>>

(* onAction in state Ready: Connect begins on a goroutine of its own. *)
Connect(c) ==
  /\ ~closed /\ asked = NoConn /\ shown = "Ready"
  /\ pc[c] = "idle" /\ \A d \in Conns : d < c => pc[d] # "idle"
  /\ moves + c <= MaxMoves /\ moves' = moves + c
  /\ pc' = [pc EXCEPT ![c] = "asking"]
  /\ emit("Busy")
  /\ UNCHANGED <<shown, conn, closed, asked, renewVars, watch, module,
                 link, up, down, runVars>>

(* liveSession.failed, and a person who declined to choose a profile. *)
ConnectFails(c) ==
  /\ ~closed /\ pc[c] = "asking"
  /\ pc' = [pc EXCEPT ![c] = "done"]
  /\ emit("Ready")
  /\ UNCHANGED <<shown, conn, closed, asked, renewVars, watch, moduleVars,
                 link, up, down, runVars>>

(* The component is dialled and asked, and consume starts. *)
Dial(c) ==
  /\ ~closed /\ pc[c] = "asking"
  /\ pc' = [pc EXCEPT ![c] = "reading"]
  /\ link' = [link EXCEPT ![c] = "open"]
  /\ up' = [up EXCEPT ![c] = <<"start">>]
  /\ conn' = c
  /\ UNCHANGED <<shown, events, closed, asked, renewVars, watch, moduleVars,
                 down, runVars>>

(* Mutant of Consume: the end is shown and the connection kept. *)
MutConsumeKeepsOpen(c) ==
  /\ ~closed /\ pc[c] = "reading" /\ link[c] = "open" /\ down[c] # <<>>
  /\ LET m == Head(down[c]) IN
       /\ emit(CASE m = "no" -> "Ready" [] m = "Ended" -> "Busy" [] OTHER -> m)
       /\ UNCHANGED link
  /\ down' = [down EXCEPT ![c] = Tail(@)]
  /\ UNCHANGED <<shown, conn, closed, pc, asked, renewVars, watch, moduleVars,
                 up, runVars>>

(* consume: one message.  A refusal leaves the connection as it is; the end *)
(* of the tunnel closes it.                                                 *)
Consume(c) ==
  /\ ~closed /\ pc[c] = "reading" /\ link[c] = "open" /\ down[c] # <<>>
  /\ LET m == Head(down[c]) IN
       /\ emit(CASE m = "no" -> "Ready" [] m = "Ended" -> "Busy" [] OTHER -> m)
       /\ link' = IF m = "Ended" THEN [link EXCEPT ![c] = "closed"] ELSE link
       /\ down' = [down EXCEPT ![c] = IF m = "Ended" THEN <<>> ELSE Tail(@)]
  /\ UNCHANGED <<shown, conn, closed, pc, asked, renewVars, watch, moduleVars,
                 up, runVars>>

(* Mutant of ConsumeEnds: the session forgets whatever connection it has. *)
MutConsumeEndsForgetsAny(c) ==
  /\ ~closed /\ pc[c] = "reading" /\ link[c] \in {"closed", "left"}
  /\ pc' = [pc EXCEPT ![c] = "leaving"]
  /\ conn' = NoConn
  /\ UNCHANGED <<shown, events, closed, asked, renewVars, watch, moduleVars,
                 link, up, down, runVars>>

(* consume's deferred function, the part under the mutex. *)
ConsumeEnds(c) ==
  /\ ~closed /\ pc[c] = "reading" /\ link[c] \in {"closed", "left"}
  /\ pc' = [pc EXCEPT ![c] = "leaving"]
  /\ conn' = IF conn = c THEN NoConn ELSE conn
  /\ UNCHANGED <<shown, events, closed, asked, renewVars, watch, moduleVars,
                 link, up, down, runVars>>

(* ReadMsg fails on a connection that is still open, its framing lost (see   *)
(* module Wire): consume returns the same way and nobody closes it.          *)
ReadFails(c) ==
  /\ ~closed /\ pc[c] = "reading" /\ link[c] = "open" /\ down[c] # <<>>
  /\ moves < MaxMoves /\ moves' = moves + 1
  /\ pc' = [pc EXCEPT ![c] = "leaving"]
  /\ conn' = IF conn = c THEN NoConn ELSE conn
  /\ down' = [down EXCEPT ![c] = <<>>]
  /\ UNCHANGED <<shown, events, closed, asked, renewVars, watch, module,
                 link, up, runVars>>

(* Such a connection is closed when the runtime collects it, if ever. *)
Collected(c) ==
  /\ ~closed /\ pc[c] = "done" /\ link[c] = "open"
  /\ c \notin {asked, renewing, watch.on}
  /\ link' = [link EXCEPT ![c] = "closed"]
  /\ UNCHANGED <<windowVars, moduleVars, up, down, runVars>>

(* The rest of it, however consume ended. *)
ConsumeLeaves(c) ==
  /\ ~closed /\ pc[c] = "leaving"
  /\ pc' = [pc EXCEPT ![c] = "done"]
  /\ emit("Ready")
  /\ UNCHANGED <<shown, conn, closed, asked, renewVars, watch, moduleVars,
                 link, up, down, runVars>>

(* Disconnect, from the button or the tray: the connection is read ... *)
Disconnect ==
  /\ ~closed /\ asked = NoConn /\ conn # NoConn
  /\ moves < MaxMoves /\ moves' = moves + 1
  /\ asked' = conn
  /\ UNCHANGED <<shown, events, conn, closed, pc, renewVars, watch, module,
                 link, up, down, runVars>>

(* ... and used. *)
DisconnectWrites ==
  /\ ~closed /\ asked # NoConn
  /\ emit("Busy") /\ Write(asked, "stop")
  /\ asked' = NoConn
  /\ UNCHANGED <<shown, conn, closed, pc, renewVars, watch, moduleVars,
                 link, down, runVars>>

(* askToRenew: a tunnel that is running out is shown, and the window asks. *)
AskToRenew ==
  /\ ~closed /\ asked = NoConn /\ shown = "Connected" /\ ~renewOpen /\ renewing = NoConn
  /\ moves < MaxMoves /\ moves' = moves + 1
  /\ renewOpen' = TRUE
  /\ UNCHANGED <<shown, events, conn, closed, pc, asked, renewing, watch, module,
                 link, up, down, runVars>>

(* The dialogue is declined, or answered when there is no tunnel any more. *)
Declines ==
  /\ ~closed /\ asked = NoConn /\ renewOpen
  /\ renewOpen' = FALSE
  /\ UNCHANGED <<shown, events, conn, closed, pc, asked, renewing, watch,
                 moduleVars, link, up, down, runVars>>

(* It is answered, whatever the window shows by then, and Renew reads the   *)
(* connection of the moment.                                                *)
Renew ==
  /\ ~closed /\ asked = NoConn /\ renewOpen /\ conn # NoConn
  /\ renewOpen' = FALSE /\ renewing' = conn
  /\ emit("Connected")
  /\ UNCHANGED <<shown, conn, closed, pc, asked, watch, moduleVars, link, up, down,
                 runVars>>

(* It got its token and hands it over, or it did not. *)
RenewWrites ==
  /\ ~closed /\ renewing # NoConn
  /\ Write(renewing, "refresh") \/ UNCHANGED up
  /\ renewing' = NoConn
  /\ UNCHANGED <<shown, events, conn, closed, pc, asked, renewOpen, watch,
                 moduleVars, link, down, runVars>>

(* quit: Close, and the process goes, with its goroutines and connections. *)
Quit ==
  /\ ~closed /\ asked = NoConn
  /\ closed' = TRUE
  /\ link' = [c \in Conns |-> IF link[c] = "open" THEN "closed" ELSE link[c]]
  /\ down' = [c \in Conns |-> <<>>]
  /\ shown' = "Busy" /\ events' = <<>> /\ conn' = NoConn
  /\ pc' = [c \in Conns |-> "done"] /\ watch' = NewWatch
  /\ renewOpen' = FALSE /\ renewing' = NoConn
  /\ UNCHANGED <<asked, moduleVars, up, runVars>>

-----------------------------------------------------------------------------
(* liveSession.watch, one poll at a time.  The device is asked ... *)
WatchProbes ==
  /\ ~closed /\ watch.at = "probe"
  /\ watch' = [watch EXCEPT !.at = "look", !.now = module]
  /\ UNCHANGED <<shown, events, conn, closed, pc, asked, renewVars, moduleVars,
                 link, up, down, runVars>>

(* Mutant of WatchLooks: the watch stands aside while a tunnel is up. *)
MutWatchStandsAside ==
  /\ ~closed /\ watch.at = "look"
  /\ watch' = [watch EXCEPT !.misses = 0,
                            !.at = IF conn = NoConn /\ watch.now # watch.present
                                     THEN "tell" ELSE "probe"]
  /\ UNCHANGED <<shown, events, conn, closed, pc, asked, renewVars, moduleVars,
                 link, up, down, runVars>>

(* ... and the answer weighed: with a connection in hand a module that missed *)
(* Misses polls in a row is gone, without one a change is told, and so is a   *)
(* new reason for the same absence.                                           *)
WatchLooks ==
  /\ ~closed /\ watch.at = "look"
  /\ \/ /\ conn # NoConn /\ watch.now
        /\ watch' = [watch EXCEPT !.at = "probe", !.misses = 0, !.now = FALSE]
        /\ UNCHANGED events
     \/ /\ conn # NoConn /\ ~watch.now /\ watch.misses + 1 < Misses
        /\ watch' = [watch EXCEPT !.at = "probe", !.misses = @ + 1, !.now = FALSE]
        /\ UNCHANGED events
     \/ /\ conn # NoConn /\ ~watch.now /\ watch.misses + 1 >= Misses
        /\ watch' = [watch EXCEPT !.at = "disconnect", !.misses = 0, !.now = FALSE]
        /\ emit("Busy")
     \/ /\ conn = NoConn /\ watch.now = watch.present
        /\ watch' = [watch EXCEPT !.at = "probe", !.misses = 0, !.now = FALSE]
        /\ UNCHANGED events
     \/ /\ conn = NoConn /\ (watch.now # watch.present \/ ~watch.now)
        /\ watch' = [watch EXCEPT !.at = "tell", !.misses = 0]
        /\ UNCHANGED events
  /\ UNCHANGED <<shown, conn, closed, pc, asked, renewVars, moduleVars,
                 link, up, down, runVars>>

(* It is told whatever has been connected since it was weighed. *)
WatchTells ==
  /\ ~closed /\ watch.at = "tell"
  /\ watch' = [watch EXCEPT !.at = "probe", !.present = watch.now, !.now = FALSE]
  /\ emit(IF watch.now THEN "Ready" ELSE "Busy")
  /\ UNCHANGED <<shown, conn, closed, pc, asked, renewVars, moduleVars,
                 link, up, down, runVars>>

(* Disconnect again, on this goroutine. *)
WatchDisconnect ==
  /\ ~closed /\ watch.at = "disconnect"
  /\ watch' = [watch EXCEPT !.at = IF conn = NoConn THEN "probe" ELSE "stop", !.on = conn]
  /\ UNCHANGED <<shown, events, conn, closed, pc, asked, renewVars, moduleVars,
                 link, up, down, runVars>>

WatchStops ==
  /\ ~closed /\ watch.at = "stop"
  /\ emit("Busy") /\ Write(watch.on, "stop")
  /\ watch' = [watch EXCEPT !.at = "probe", !.on = NoConn]
  /\ UNCHANGED <<shown, conn, closed, pc, asked, renewVars, moduleVars,
                 link, down, runVars>>

(* The module is pulled out, or plugged back in. *)
Flap ==
  /\ moves < MaxMoves /\ moves' = moves + 1
  /\ module' = ~module
  /\ UNCHANGED <<windowVars, link, up, down, runVars>>

-----------------------------------------------------------------------------
(* What the component says to c, once there is room for it; said to a        *)
(* connection that is gone, or that nobody reads, it is lost.  A write there *)
(* that finds the buffer full waits for good: see Fairness.                  *)
Tell(c, m) ==
  LET read == link[c] = "open" /\ ~Deaf(c) IN
  /\ read => Len(down[c]) < MaxQueue
  /\ down' = IF read THEN [down EXCEPT ![c] = Append(@, m)] ELSE down

(* The handler of c takes the next request. *)
Takes(c, op) ==
  /\ link[c] \in {"open", "closed"}
  /\ up[c] # <<>> /\ Head(up[c]) = op
  /\ up' = [up EXCEPT ![c] = Tail(@)]

(* Whose run is running, to Server. *)
Running == {c \in Conns : run[c] \in {"live", "ended"}}

(* start, and a run begins.  A reply that says yes is read and dropped, here *)
(* and below; the run's first event is not.                                  *)
TakesStart(c) ==
  /\ Takes(c, "start") /\ Running = {}
  /\ run' = [run EXCEPT ![c] = "live"]
  /\ started' = started \cup {c}
  /\ UNCHANGED <<windowVars, moduleVars, link, cancelled>>
  /\ Tell(c, "Busy")

(* start, while a tunnel is running, or one that cannot be opened. *)
RefusesStart(c) ==
  /\ Takes(c, "start")
  /\ run' = [run EXCEPT ![c] = "refused"]
  /\ UNCHANGED <<windowVars, moduleVars, link, started, cancelled>>
  /\ Tell(c, "no")

(* stop: whichever run the user has. *)
TakesStop(c) ==
  /\ Takes(c, "stop")
  /\ cancelled' = cancelled \cup Running
  /\ started' = started \ {c}
  /\ UNCHANGED <<windowVars, moduleVars, link, down, run>>

(* refresh: the tunnel takes the token. *)
TakesRefresh(c) ==
  /\ Takes(c, "refresh")
  /\ UNCHANGED <<windowVars, moduleVars, link, run, started, cancelled>>
  /\ IF Running = {} THEN Tell(c, "no") ELSE UNCHANGED down

(* Mutant of HandlerLeaves: the tunnel outlives the window. *)
MutHandlerLeavesTunnel(c) ==
  /\ link[c] = "closed" /\ up[c] = <<>>
  /\ link' = [link EXCEPT ![c] = "left"]
  /\ UNCHANGED <<windowVars, moduleVars, up, down, runVars>>

(* The connection ends, and what it started with it. *)
HandlerLeaves(c) ==
  /\ link[c] = "closed" /\ up[c] = <<>>
  /\ link' = [link EXCEPT ![c] = "left"]
  /\ cancelled' = IF c \in started THEN cancelled \cup Running ELSE cancelled
  /\ started' = started \ {c}
  /\ UNCHANGED <<windowVars, moduleVars, up, down, run>>

-----------------------------------------------------------------------------
(* A sentence of the tunnel's becomes a notice on the state "connected". *)
say(c) ==
  /\ run[c] = "live"
  /\ UNCHANGED <<windowVars, moduleVars, link, up, runVars>>
  /\ Tell(c, "Connected")

(* The timer: a peer that has answered or one that has not, and once the    *)
(* interface is gone, nothing.  A report that has begun is sent even if the *)
(* run is cancelled meanwhile.                                              *)
report(c) ==
  /\ c \in Running
  /\ UNCHANGED <<windowVars, moduleVars, link, up, runVars>>
  /\ \/ Tell(c, "Busy")
     \/ run[c] = "live" /\ Tell(c, "Connected")

(* Tunnel.Run returns, cancelled or for a reason of its own. *)
RunEnds(c) ==
  /\ run[c] = "live"
  /\ run' = [run EXCEPT ![c] = "ended"]
  /\ UNCHANGED <<windowVars, moduleVars, link, up, started, cancelled>>
  /\ Tell(c, "Ended")

(* The goroutine start began goes: an error is told again, and the session *)
(* is free.                                                                *)
RunCleared(c) ==
  /\ run[c] = "ended"
  /\ run' = [run EXCEPT ![c] = "over"]
  /\ cancelled' = cancelled \cup {c}
  /\ UNCHANGED <<windowVars, moduleVars, link, up, started>>
  /\ Tell(c, "Ended") \/ UNCHANGED down

-----------------------------------------------------------------------------
Person ==
  \/ \E c \in Conns : Connect(c)
  \/ Disconnect
  \/ Declines
  \/ Renew
  \/ Quit

Session(c) ==
  \/ ConnectFails(c)
  \/ Dial(c)
  \/ Consume(c)
  \/ ConsumeEnds(c)
  \/ ConsumeLeaves(c)

Watcher ==
  \/ WatchProbes
  \/ WatchLooks
  \/ WatchTells
  \/ WatchDisconnect
  \/ WatchStops

Handler(c) ==
  \/ TakesStart(c)
  \/ RefusesStart(c)
  \/ TakesStop(c)
  \/ TakesRefresh(c)
  \/ HandlerLeaves(c)

Next ==
  \/ Draw
  \/ Person
  \/ DisconnectWrites
  \/ AskToRenew
  \/ RenewWrites
  \/ Watcher
  \/ Flap
  \/ \E c \in Conns :
       \/ Session(c)
       \/ ReadFails(c)
       \/ Collected(c)
       \/ Handler(c)
       \/ say(c)
       \/ report(c)
       \/ RunEnds(c)
       \/ RunCleared(c)

(* Every goroutine runs, and a write that waits for room gets it once the  *)
(* reader has made some: on a connection nobody reads it may wait for good, *)
(* and its goroutine with it.  The person, the module, the peer and the     *)
(* runtime owe nothing, and a run ends for certain only when it is          *)
(* cancelled.                                                               *)
Fairness ==
  /\ SF_vars(DisconnectWrites) /\ SF_vars(Watcher)
  /\ \A c \in Conns :
       /\ WF_vars(Session(c))
       /\ SF_vars(~Deaf(c) /\ Handler(c))
       /\ SF_vars(~Deaf(c) /\ ((c \in cancelled /\ RunEnds(c)) \/ RunCleared(c)))

Safety == Init /\ [][Next]_vars
Spec == Safety /\ Fairness

-----------------------------------------------------------------------------
(* The connection the session holds is one somebody is reading, so that     *)
(* what the component says on it, its end included, gets to the window; and *)
(* the session lets go of it only when that reading ends, or with the       *)
(* window.  However Connect, a second Connect and the end of the one before *)
(* are ordered (s.conn, set by Connect and reset by consume if it is still  *)
(* its own).                                                                *)
ConnIsRead ==
  /\ [](conn # NoConn => pc[conn] = "reading")
  /\ [][conn # NoConn /\ conn' = NoConn => closed' \/ pc'[conn] # "reading"]_vars

(* A tunnel that ended, however it did, frees the session of the            *)
(* connection it ran on, so that it can be started again (consume closing   *)
(* it on the state Ended), also when another Connect has come or gone.      *)
EndFreesSession ==
  LET Held == conn # NoConn /\ run[conn] \in {"ended", "over"} IN Held ~> ~Held

(* Pulling the module out ends the tunnel of the connection the session     *)
(* holds, unless the module is back in time (watch, presenceMisses).  Only  *)
(* of that one: a tunnel the session has lost sight of, because a later     *)
(* connection was held and ended or because its own could not be read any   *)
(* more, goes on.                                                           *)
PulledOutEndsTunnel ==
  LET Blind == ~module /\ conn # NoConn /\ run[conn] = "live" IN Blind ~> ~Blind

(* Disconnect on a connection, or closing the window, ends the tunnel it    *)
(* asked for, even one still on its way up (Disconnect, Close, handle):     *)
(* Disconnect while the connection is read, closing the window always.      *)
AskedToEndEnds ==
  LET Ended(c) == run[c] \in {"refused", "ended", "over"} IN
  /\ \A c \in Conns : (asked = c) ~> (Ended(c) \/ Deaf(c))
  /\ closed ~> \A c \in Conns : link[c] # "none" => Ended(c)

-----------------------------------------------------------------------------
(* The server's session is held by the connection whose run it is.         *)
Exclusive == INSTANCE ExclusiveSession WITH
  Users <- Conns,
  Nobody <- NoConn,
  holder <- IF Running = {} THEN NoConn ELSE CHOOSE c \in Conns : c \in Running,
  ending <- Running # {} /\ Running \subseteq cancelled

(* "One tunnel at a time" (internal/daemon): to the connections of one     *)
(* window too the component is an exclusive session.  A second Connect gets *)
(* it only once the first one's run is over, a run begins uncancelled, and *)
(* one asked to end stays so, whatever the session writes late.            *)
ServerIsExclusive == Exclusive!Safety
=============================================================================
