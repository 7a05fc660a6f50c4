-------------------------------- MODULE Host --------------------------------
(***************************************************************************)
(* One interface name on a Linux host, and every program that works on it: *)
(* tunnel processes of three kinds (wg-hem up, wg-quick-encedo up, and the *)
(* component, wg-hem daemon, with its tunnel), and the commands that end   *)
(* them (wg-hem down, wg-quick-encedo down, a signal, a service manager).  *)
(*                                                                         *)
(* They share the link, which is found and deleted by its name, the state  *)
(* file, which is written and removed by that name too, and the host's     *)
(* routing table, where each leaves pins only it knows of.  What one       *)
(* tunnel does between two of these is Tunnel's; pids are not used again,  *)
(* and whoever runs a command may signal and delete what it names.         *)
(***************************************************************************)
CONSTANTS
  Procs,   \* processes, by pid
  Downs,   \* invocations of wg-hem down
  Kinds,   \* what each process may be started as
  None     \* no link, no state file

Programs == {"hem", "quick", "component"}

ASSUME HostAssumption == None \notin Procs /\ Kinds \in [Procs -> SUBSET Programs]

VARIABLES
  kind,       \* what each process was started as
  pc,         \* the call its tunnel makes next
  hears,      \* processes that called signal.Notify
  told,       \* processes with a SIGTERM in a channel of theirs
  killed,     \* those a signal ended before it was caught
  saidRoute,  \* those that warned of a host route they leave behind
  saidState,  \* those that warned of a state file they leave behind
  link,       \* whose interface has the name
  pins,       \* processes with host routes around their tunnel in the table
  stateFile,  \* the pid in the state file
  orphaned,   \* processes whose state file somebody else took away
  down,       \* the call each wg-hem down makes next
  target      \* the pid it read

warnVars == <<saidRoute, saidState>>
procVars == <<kind, pc, hears, told, killed, warnVars>>
hostVars == <<link, pins, stateFile, orphaned>>
downVars == <<down, target>>
vars == <<procVars, hostVars, downVars>>

Init ==
  /\ kind \in {k \in [Procs -> Programs] : \A p \in Procs : k[p] \in Kinds[p]}
  /\ pc = [p \in Procs |-> "off"]
  /\ hears = {} /\ told = {} /\ killed = {} /\ saidRoute = {} /\ saidState = {}
  /\ link = None /\ pins = {} /\ stateFile = None /\ orphaned = {}
  /\ down = [d \in Downs |-> "load"] /\ target = [d \in Downs |-> None]

Alive(p) == pc[p] \notin {"off", "gone"}

Goto(p, l) == pc' = [pc EXCEPT ![p] = l]

(* The end of a process: a TUN device goes with the process that has it open. *)
Exit(p) ==
  /\ Goto(p, "gone")
  /\ link' = IF link = p THEN None ELSE link

(* The state file goes from whoever it names, unless that is owner's doing. *)
TakesFrom(owner) == orphaned' = orphaned \cup ({stateFile} \ {owner, None})

(* session.Remove, by name, for the tunnel that owner ran; a file that is   *)
(* there may stay there.                                                    *)
unlinked(owner) == stateFile' = None /\ TakesFrom(owner)
stays == stateFile # None /\ UNCHANGED <<stateFile, orphaned>>
removeState(owner) == unlinked(owner) \/ stays

-----------------------------------------------------------------------------
(* Bringing a tunnel up.                                                   *)

Start(p) ==
  /\ pc[p] = "off"
  /\ Goto(p, IF kind[p] = "quick" THEN "prepare" ELSE "open")
  /\ UNCHANGED <<kind, hears, told, killed, warnVars, hostVars, downVars>>

(* cmdUp's configuration, authentication, keys and plan; a failure of any is fatal. *)
Prepare(p) ==
  /\ pc[p] = "prepare"
  /\ pc' \in {[pc EXCEPT ![p] = "open"], [pc EXCEPT ![p] = "gone"]}
  /\ UNCHANGED <<kind, hears, told, killed, warnVars, hostVars, downVars>>

(* CreateTUN, which fails while the name is taken, and dev.Up, whose       *)
(* failure leaves the device open in a process that goes on.               *)
Open(p) ==
  /\ pc[p] = "open"
  /\ \/ link = None /\ link' = p
        /\ Goto(p, IF kind[p] = "quick" THEN "address" ELSE "pin")
     \/ UNCHANGED link /\ Goto(p, IF kind[p] = "component" THEN "returned" ELSE "gone")
     \/ kind[p] = "component" /\ link = None /\ link' = p /\ Goto(p, "returned")
  /\ UNCHANGED <<kind, hears, told, killed, warnVars, pins, stateFile, orphaned, downVars>>

(* wg-quick's IpcSet, address and MTU, before it has touched a route.      *)
Address(p) ==
  /\ pc[p] = "address"
  /\ \/ link # None /\ Goto(p, "pin") /\ UNCHANGED link
     \/ Exit(p)
  /\ UNCHANGED <<kind, hears, told, killed, warnVars, pins, stateFile, orphaned, downVars>>

(* Pins.Add; a call that failed has kept what it had added.                *)
Pin(p) ==
  /\ pc[p] = "pin"
  /\ \/ Goto(p, "configure") /\ pins' = pins \cup {p}
     \/ Goto(p, "close") /\ pins' \in {pins, pins \cup {p}}
  /\ UNCHANGED <<kind, hears, told, killed, warnVars, link, stateFile, orphaned, downVars>>

(* Addresses, routes, DNS and the probe of the HEM.                        *)
Configure(p) ==
  /\ pc[p] = "configure"
  /\ \/ link # None /\ Goto(p, IF kind[p] = "quick" THEN "listen" ELSE "save")
     \/ Goto(p, "close")
  /\ UNCHANGED <<kind, hears, told, killed, warnVars, hostVars, downVars>>

Save(p) ==
  /\ pc[p] = "save"
  /\ \/ Goto(p, "listen") /\ stateFile' = p /\ TakesFrom(p)
     \/ Goto(p, "close") /\ UNCHANGED <<stateFile, orphaned>>
  /\ UNCHANGED <<kind, hears, told, killed, warnVars, link, pins, downVars>>

(* Mutant of Listen: a UAPI socket that cannot be opened is fatal. *)
MutListenFatal(p) ==
  /\ pc[p] = "listen"
  /\ \/ Goto(p, "hold") /\ hears' = hears \cup {p} /\ UNCHANGED link
     \/ kind[p] = "quick" /\ Exit(p) /\ UNCHANGED hears
  /\ UNCHANGED <<kind, told, killed, warnVars, pins, stateFile, orphaned, downVars>>

(* UAPIListen, which wg-hem can do without, and signal.Notify.             *)
Listen(p) ==
  /\ pc[p] = "listen"
  /\ \/ Goto(p, "hold") /\ hears' = hears \cup {p}
     \/ kind[p] = "quick" /\ Goto(p, "close") /\ UNCHANGED hears
  /\ UNCHANGED <<kind, told, killed, warnVars, hostVars, downVars>>


(* What ends a tunnel, seen from outside: a signal, or the link deleted,   *)
(* which ends the device's read and closes dev.Wait().                     *)
Wake(p) ==
  /\ pc[p] = "hold" /\ (p \in told \/ link # p)
  /\ Goto(p, "close")
  /\ UNCHANGED <<kind, hears, told, killed, warnVars, hostVars, downVars>>

(* hsm.Dead(), an error on the UAPI socket, the context of a component's tunnel. *)
Ends(p) ==
  /\ pc[p] = "hold"
  /\ Goto(p, "close")
  /\ UNCHANGED <<kind, hears, told, killed, warnVars, hostVars, downVars>>

(* Failover, of wg-hem and of the component, which walks; wg-hem up asks,   *)
(* unless it was told to walk.  hold looks at ending before it does either. *)
NoAnswer(p) ==
  /\ pc[p] = "hold" /\ kind[p] # "quick" /\ p \notin told /\ link = p
  /\ Goto(p, "move") \/ (kind[p] = "hem" /\ Goto(p, "ask"))
  /\ UNCHANGED <<kind, hears, told, killed, warnVars, hostVars, downVars>>

(* repromptPeer: blocked in readLine until somebody answers, whatever comes *)
(* to an end meanwhile.                                                     *)
Answer(p) ==
  /\ pc[p] = "ask"
  /\ Goto(p, "move") \/ Goto(p, "close")
  /\ UNCHANGED <<kind, hears, told, killed, warnVars, hostVars, downVars>>

(* The walk's choice and usePeer, which adds to the pins there are already; *)
(* then the state file is written again, by its name, and a failure of that *)
(* is a warning.                                                            *)
Move(p) ==
  /\ pc[p] = "move"
  /\ \/ Goto(p, "hold") /\ stateFile' = p /\ TakesFrom(p)
     \/ (Goto(p, "hold") \/ Goto(p, "close")) /\ UNCHANGED <<stateFile, orphaned>>
  /\ UNCHANGED <<kind, hears, told, killed, warnVars, link, pins, downVars>>

-----------------------------------------------------------------------------
(* teardown, of wg-hem and of wg-quick-encedo.                             *)

(* Mutant of CloseDevice: the state file goes first. *)
MutCloseStateFirst(p) ==
  /\ pc[p] = "close"
  /\ Goto(p, "drop")
  /\ IF kind[p] = "quick" THEN UNCHANGED <<stateFile, orphaned>> ELSE unlinked(p)
  /\ UNCHANGED <<kind, hears, told, killed, warnVars, link, pins, downVars>>

CloseDevice(p) ==
  /\ pc[p] = "close"
  /\ Goto(p, "drop")
  /\ link' = IF link = p THEN None ELSE link
  /\ UNCHANGED <<kind, hears, told, killed, warnVars, pins, stateFile, orphaned, downVars>>

(* rt.Down: whatever has the name by now.                                  *)
DropLink(p) ==
  /\ pc[p] = "drop"
  /\ Goto(p, "restore") /\ link' = None
  /\ UNCHANGED <<kind, hears, told, killed, warnVars, pins, stateFile, orphaned, downVars>>

(* Mutant of Restore: a route that could not be removed is not mentioned. *)
MutRestoreSilent(p) ==
  /\ pc[p] = "restore"
  /\ Goto(p, IF kind[p] = "quick" THEN "gone" ELSE "unsave")
  /\ pins' \in {pins, pins \ {p}}
  /\ UNCHANGED <<kind, hears, told, killed, warnVars, link, stateFile, orphaned, downVars>>

(* Pins.Restore, which warns of what it cannot remove and goes on, and the  *)
(* .pub file, after which wg-quick-encedo is done.                          *)
Restore(p) ==
  /\ pc[p] = "restore"
  /\ Goto(p, IF kind[p] = "quick" THEN "gone" ELSE "unsave")
  /\ \/ pins' = pins \ {p} /\ UNCHANGED saidRoute
     \/ p \in pins /\ saidRoute' = saidRoute \cup {p} /\ UNCHANGED pins
  /\ UNCHANGED <<kind, hears, told, killed, saidState, link, stateFile, orphaned, downVars>>

(* Remove, and Run returns: to cmdUp, which ends, or to the component.     *)
RemoveState(p) ==
  /\ pc[p] = "unsave"
  /\ Goto(p, IF kind[p] = "component" THEN "returned" ELSE "gone")
  /\ \/ unlinked(p) /\ UNCHANGED saidState
     \/ stays /\ saidState' = saidState \cup {p}
  /\ UNCHANGED <<kind, hears, told, killed, saidRoute, link, pins, downVars>>

-----------------------------------------------------------------------------
(* Signals.                                                                *)

(* SIGTERM: wg-hem up and wg-quick-encedo catch it once the tunnel is up;   *)
(* before that it ends them where they are.  The component always does.    *)
Terminate(p) ==
  IF kind[p] = "component" \/ p \in hears
  THEN told' = told \cup {p} /\ UNCHANGED <<kind, pc, hears, killed, warnVars, link>>
  ELSE killed' = killed \cup {p} /\ Exit(p) /\ UNCHANGED <<kind, hears, told, warnVars>>

(* Somebody, or a service manager, asks a process to stop.                 *)
Signal(p) ==
  /\ Alive(p) /\ p \notin told
  /\ Terminate(p)
  /\ UNCHANGED <<pins, stateFile, orphaned, downVars>>

(* The component's listener is closed, Serve and cmdDaemon return, and the  *)
(* process ends without waiting for its tunnel; as a Windows service it     *)
(* ends when Execute returns.                                               *)
ServiceExits(p) ==
  /\ kind[p] = "component" /\ Alive(p) /\ p \in told
  /\ Exit(p)
  /\ UNCHANGED <<kind, hears, told, killed, warnVars, pins, stateFile, orphaned, downVars>>

-----------------------------------------------------------------------------
(* The commands.                                                           *)

(* wg-quick-encedo down: the link and nothing else.                        *)
QuickDown ==
  /\ link # None /\ link' = None
  /\ UNCHANGED <<procVars, pins, stateFile, orphaned, downVars>>

DownGoto(d, l) == down' = [down EXCEPT ![d] = l]

(* wg-hem down: no state file, or none it can read, is an error.           *)
DownLoads(d) ==
  /\ down[d] = "load" /\ stateFile # None
  /\ DownGoto(d, "signal") /\ target' = [target EXCEPT ![d] = stateFile]
  /\ UNCHANGED <<procVars, hostVars>>

DownSignals(d) ==
  /\ down[d] = "signal" /\ UNCHANGED <<target, pins, stateFile, orphaned>>
  /\ IF Alive(target[d])
     THEN DownGoto(d, "stat") /\ Terminate(target[d])
     ELSE DownGoto(d, "take") /\ UNCHANGED <<procVars, link>>

(* waitGone: the file removed is the sign that the teardown is done,       *)
DownStats(d) ==
  /\ down[d] = "stat"
  /\ DownGoto(d, IF stateFile = None THEN "said" ELSE "probe")
  /\ UNCHANGED <<procVars, hostVars, target>>

(* a process that is not there has nothing left to wait for, and the time  *)
(* may be up.                                                              *)
DownProbes(d) ==
  /\ down[d] = "probe" /\ UNCHANGED <<procVars, link, pins, target>>
  /\ \/ ~Alive(target[d]) /\ removeState(target[d]) /\ DownGoto(d, "said")
     \/ Alive(target[d]) /\ UNCHANGED <<stateFile, orphaned>>
        /\ \E l \in {"stat", "take"} : DownGoto(d, l)

(* takeDownInterface, which fails when nothing has the name, and the file. *)
DownTakes(d) ==
  /\ down[d] = "take"
  /\ link' = None /\ DownGoto(d, IF link = None THEN "failing" ELSE "taken")
  /\ UNCHANGED <<procVars, pins, stateFile, orphaned, target>>

DownForgets(d) ==
  /\ down[d] \in {"taken", "failing"}
  /\ removeState(target[d])
  /\ DownGoto(d, IF down[d] = "taken" THEN "said" ELSE "failed")
  /\ UNCHANGED <<procVars, link, pins, target>>

-----------------------------------------------------------------------------
bringUp(p) ==
  Prepare(p) \/ Open(p) \/ Address(p) \/ Pin(p) \/ Configure(p) \/ Save(p) \/ Listen(p)

teardown(p) == CloseDevice(p) \/ DropLink(p) \/ Restore(p) \/ RemoveState(p)

cmdDown(d) ==
  DownLoads(d) \/ DownSignals(d) \/ DownStats(d) \/ DownProbes(d) \/ DownTakes(d) \/ DownForgets(d)

Next ==
  \/ \E p \in Procs :
       \/ Start(p) \/ bringUp(p) \/ Wake(p) \/ Ends(p) \/ teardown(p)
       \/ NoAnswer(p) \/ Answer(p) \/ Move(p)
       \/ Signal(p) \/ ServiceExits(p)
  \/ QuickDown
  \/ \E d \in Downs : cmdDown(d)

(* A process that was started keeps running: its calls return, a channel    *)
(* that is ready is received from where hold does receive, and main         *)
(* returns.  Nobody has to answer the prompt.                               *)
Fairness ==
  \A p \in Procs :
    /\ WF_vars(bringUp(p) \/ Wake(p) \/ Move(p) \/ teardown(p))
    /\ WF_vars(ServiceExits(p))

Spec == Init /\ [][Next]_vars /\ Fairness

-----------------------------------------------------------------------------
(* Properties.                                                             *)

(* A tunnel process that ended by itself, at whatever point and whichever   *)
(* call failed, has left no host route and no state file that it did not    *)
(* warn of ("the abort path cannot drift from the one that runs on Ctrl+C", *)
(* cmdUp).  A signal before signal.Notify, and the component, are apart.    *)
EndsClean ==
  \A p \in Procs :
    pc[p] = "gone" /\ kind[p] # "component" /\ p \notin killed
      => (p \in pins => p \in saidRoute) /\ (stateFile = p => p \in saidState)

(* wg-hem down never says an interface is down while the tunnel it was      *)
(* asked about still has it, whatever ended that, however the waiting went  *)
(* and whoever else worked on the name meanwhile, provided the state file   *)
(* it watched was not removed or overwritten for somebody else.             *)
SaysDownIsDown ==
  \A d \in Downs :
    down[d] = "said" /\ link = target[d] => target[d] \in orphaned


(* "Closing the listener ends every connection on it, and a connection      *)
(* ending takes its tunnel down. Nothing else to unwind" (Execute): a       *)
(* component that was stopped has left nothing of its tunnel.               *)
ServiceStopUndoes ==
  \A p \in Procs :
    pc[p] = "gone" /\ kind[p] = "component" => p \notin pins /\ stateFile # p
=============================================================================
