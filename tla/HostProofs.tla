----------------------------- MODULE HostProofs -----------------------------
(***************************************************************************)
(* Theorems about module Host, for any number of processes and of wg-hem   *)
(* downs on the one interface name.  They rest on one inductive invariant, *)
(* Inv.                                                                    *)
(***************************************************************************)
EXTENDS Host, TLAPS

USE HostAssumption

Calls == {"off", "prepare", "open", "address", "pin", "configure", "save", "listen",
          "hold", "ask", "move", "close", "drop", "restore", "unsave", "returned", "gone"}

DownCalls == {"load", "signal", "stat", "probe", "take", "taken", "failing", "said",
              "failed"}

TypeOK ==
  /\ kind \in [Procs -> {"hem", "quick", "component"}] /\ pc \in [Procs -> Calls]
  /\ saidRoute \subseteq Procs /\ saidState \subseteq Procs
  /\ hears \subseteq Procs /\ told \subseteq Procs /\ killed \subseteq Procs
  /\ link \in Procs \cup {None} /\ stateFile \in Procs \cup {None}
  /\ pins \subseteq Procs /\ orphaned \subseteq Procs
  /\ down \in [Downs -> DownCalls] /\ target \in [Downs -> Procs \cup {None}]

(* A process that can leave without its teardown. *)
CutShort(p) == pc[p] = "gone" /\ (kind[p] = "component" \/ p \in killed)

(* A process whose routes stand is on its way to Restore, was cut short, or *)
(* has warned of them.                                                      *)
PinsOnTheWay ==
  \A p \in pins :
    \/ pc[p] \in {"configure", "save", "listen", "hold", "ask", "move", "close", "drop",
                  "restore"}
    \/ CutShort(p)
    \/ p \in saidRoute

(* A process the state file names is on its way to RemoveState, was cut     *)
(* short, or has warned of it; wg-quick-encedo neither writes the file nor  *)
(* removes it, and does not fail over.                                      *)
StateOnTheWay ==
  \A p \in Procs :
    /\ kind[p] = "quick" => pc[p] \notin {"save", "ask", "move", "unsave"} /\ stateFile # p
    /\ stateFile = p =>
         \/ pc[p] \in {"listen", "hold", "ask", "move", "close", "drop", "restore", "unsave"}
         \/ CutShort(p)
         \/ p \in saidState
    /\ p \in saidState => pc[p] \in {"returned", "gone"}

(* Who has the name has opened the device and not yet closed it; only a     *)
(* component whose device did not come up keeps one without a tunnel.       *)
LinkIsOpen ==
  \A p \in Procs :
    link = p =>
      pc[p] \in {"address", "pin", "configure", "save", "listen", "hold", "ask", "move",
                "close", "returned"}

(* A process does not open its device a second time. *)
Opened(p) == pc[p] \notin {"off", "prepare", "open"}

(* What a wg-hem down knows of the process it read: it has been past its    *)
(* one chance to take the name, and while it has the name the state file is *)
(* its, or was taken from it.  Once down has acted on the link it is gone.  *)
DownKnows ==
  \A d \in Downs : down[d] # "load" =>
    /\ target[d] \in Procs /\ Opened(target[d])
    /\ link = target[d] => stateFile = target[d] \/ target[d] \in orphaned
    /\ down[d] \in {"taken", "failing", "failed", "said"} /\ link = target[d] =>
         target[d] \in orphaned

Inv == TypeOK /\ PinsOnTheWay /\ StateOnTheWay /\ LinkIsOpen /\ DownKnows

(* A host nobody has worked on yet satisfies the invariant. *)
LEMMA InitInv == Init => Inv
  <1> SUFFICES ASSUME Init PROVE Inv
    OBVIOUS
  <1>1. kind \in [Procs -> {"hem", "quick", "component"}]
    BY DEF Init, Programs
  <1>2. TypeOK
    BY <1>1 DEF Init, TypeOK, Calls, DownCalls
  <1>3. PinsOnTheWay /\ StateOnTheWay /\ LinkIsOpen /\ DownKnows
    BY DEF Init, PinsOnTheWay, StateOnTheWay, LinkIsOpen, DownKnows
  <1> QED
    BY <1>2, <1>3 DEF Inv

(* A process is started. *)
LEMMA StartInv ==
  ASSUME Inv, NEW p \in Procs, Start(p)
  PROVE  Inv'
  <1>1. TypeOK'
    BY DEF Start, Goto, procVars, warnVars, hostVars, downVars, Inv, TypeOK, Calls, DownCalls
  <1>2. PinsOnTheWay'
    BY DEF Start, Goto, procVars, warnVars, hostVars, downVars, Inv, TypeOK, Calls,
       DownCalls, PinsOnTheWay, CutShort
  <1>3. StateOnTheWay'
    BY DEF Start, Goto, procVars, warnVars, hostVars, downVars, Inv, TypeOK, Calls,
       DownCalls, StateOnTheWay, CutShort
  <1>4. LinkIsOpen'
    BY DEF Start, Goto, procVars, warnVars, hostVars, downVars, Inv, TypeOK, Calls,
       DownCalls, LinkIsOpen
  <1>5. DownKnows'
    BY DEF Start, Goto, procVars, warnVars, hostVars, downVars, Inv, TypeOK, Calls,
       DownCalls, DownKnows, Opened, LinkIsOpen, StateOnTheWay, CutShort
  <1> QED BY <1>1, <1>2, <1>3, <1>4, <1>5 DEF Inv

(* The configuration is read, or the process ends. *)
LEMMA PrepareInv ==
  ASSUME Inv, NEW p \in Procs, Prepare(p)
  PROVE  Inv'
  <1>1. TypeOK'
    BY DEF Prepare, Goto, procVars, warnVars, hostVars, downVars, Inv, TypeOK, Calls,
       DownCalls
  <1>2. PinsOnTheWay'
    BY DEF Prepare, Goto, procVars, warnVars, hostVars, downVars, Inv, TypeOK, Calls,
       DownCalls, PinsOnTheWay, CutShort
  <1>3. StateOnTheWay'
    BY DEF Prepare, Goto, procVars, warnVars, hostVars, downVars, Inv, TypeOK, Calls,
       DownCalls, StateOnTheWay, CutShort
  <1>4. LinkIsOpen'
    BY DEF Prepare, Goto, procVars, warnVars, hostVars, downVars, Inv, TypeOK, Calls,
       DownCalls, LinkIsOpen
  <1>5. DownKnows'
    BY DEF Prepare, Goto, procVars, warnVars, hostVars, downVars, Inv, TypeOK, Calls,
       DownCalls, DownKnows, Opened, LinkIsOpen, StateOnTheWay, CutShort
  <1> QED BY <1>1, <1>2, <1>3, <1>4, <1>5 DEF Inv

(* The name is taken, or the device does not come up. *)
LEMMA OpenInv ==
  ASSUME Inv, NEW p \in Procs, Open(p)
  PROVE  Inv'
  <1>1. TypeOK'
    BY DEF Open, Goto, procVars, warnVars, hostVars, downVars, Inv, TypeOK, Calls, DownCalls
  <1>2. PinsOnTheWay'
    BY DEF Open, Goto, procVars, warnVars, hostVars, downVars, Inv, TypeOK, Calls,
       DownCalls, PinsOnTheWay, CutShort
  <1>3. StateOnTheWay'
    BY DEF Open, Goto, procVars, warnVars, hostVars, downVars, Inv, TypeOK, Calls,
       DownCalls, StateOnTheWay, CutShort
  <1>4. LinkIsOpen'
    BY DEF Open, Goto, procVars, warnVars, hostVars, downVars, Inv, TypeOK, Calls,
       DownCalls, LinkIsOpen
  <1>5. DownKnows'
    BY DEF Open, Goto, procVars, warnVars, hostVars, downVars, Inv, TypeOK, Calls,
       DownCalls, DownKnows, Opened, LinkIsOpen, StateOnTheWay, CutShort
  <1> QED BY <1>1, <1>2, <1>3, <1>4, <1>5 DEF Inv

(* wg-quick-encedo gives the link its address, or ends and takes the link with it. *)
LEMMA AddressInv ==
  ASSUME Inv, NEW p \in Procs, Address(p)
  PROVE  Inv'
  <1>1. TypeOK'
    BY DEF Address, Goto, Exit, procVars, warnVars, hostVars, downVars, Inv, TypeOK,
       Calls, DownCalls
  <1>2. PinsOnTheWay'
    BY DEF Address, Goto, Exit, procVars, warnVars, hostVars, downVars, Inv, TypeOK,
       Calls, DownCalls, PinsOnTheWay, CutShort
  <1>3. StateOnTheWay'
    BY DEF Address, Goto, Exit, procVars, warnVars, hostVars, downVars, Inv, TypeOK,
       Calls, DownCalls, StateOnTheWay, CutShort
  <1>4. LinkIsOpen'
    BY DEF Address, Goto, Exit, procVars, warnVars, hostVars, downVars, Inv, TypeOK,
       Calls, DownCalls, LinkIsOpen
  <1>5. DownKnows'
    BY DEF Address, Goto, Exit, procVars, warnVars, hostVars, downVars, Inv, TypeOK,
       Calls, DownCalls, DownKnows, Opened, LinkIsOpen, StateOnTheWay, CutShort
  <1> QED BY <1>1, <1>2, <1>3, <1>4, <1>5 DEF Inv

(* Host routes are added, or some of them. *)
LEMMA PinInv ==
  ASSUME Inv, NEW p \in Procs, Pin(p)
  PROVE  Inv'
  <1>1. TypeOK'
    BY DEF Pin, Goto, procVars, warnVars, hostVars, downVars, Inv, TypeOK, Calls, DownCalls
  <1>2. PinsOnTheWay'
    BY DEF Pin, Goto, procVars, warnVars, hostVars, downVars, Inv, TypeOK, Calls,
       DownCalls, PinsOnTheWay, CutShort
  <1>3. StateOnTheWay'
    BY DEF Pin, Goto, procVars, warnVars, hostVars, downVars, Inv, TypeOK, Calls,
       DownCalls, StateOnTheWay, CutShort
  <1>4. LinkIsOpen'
    BY DEF Pin, Goto, procVars, warnVars, hostVars, downVars, Inv, TypeOK, Calls,
       DownCalls, LinkIsOpen
  <1>5. DownKnows'
    BY DEF Pin, Goto, procVars, warnVars, hostVars, downVars, Inv, TypeOK, Calls,
       DownCalls, DownKnows, Opened, LinkIsOpen, StateOnTheWay, CutShort
  <1> QED BY <1>1, <1>2, <1>3, <1>4, <1>5 DEF Inv

(* The interface is configured, or torn down. *)
LEMMA ConfigureInv ==
  ASSUME Inv, NEW p \in Procs, Configure(p)
  PROVE  Inv'
  <1>1. TypeOK'
    BY DEF Configure, Goto, procVars, warnVars, hostVars, downVars, Inv, TypeOK,
       Calls, DownCalls
  <1>2. PinsOnTheWay'
    BY DEF Configure, Goto, procVars, warnVars, hostVars, downVars, Inv, TypeOK,
       Calls, DownCalls, PinsOnTheWay, CutShort
  <1>3. StateOnTheWay'
    BY DEF Configure, Goto, procVars, warnVars, hostVars, downVars, Inv, TypeOK,
       Calls, DownCalls, StateOnTheWay, CutShort
  <1>4. LinkIsOpen'
    BY DEF Configure, Goto, procVars, warnVars, hostVars, downVars, Inv, TypeOK,
       Calls, DownCalls, LinkIsOpen
  <1>5. DownKnows'
    BY DEF Configure, Goto, procVars, warnVars, hostVars, downVars, Inv, TypeOK,
       Calls, DownCalls, DownKnows, Opened, LinkIsOpen, StateOnTheWay, CutShort
  <1> QED BY <1>1, <1>2, <1>3, <1>4, <1>5 DEF Inv

(* The state file is written, and whoever it named loses it. *)
LEMMA SaveInv ==
  ASSUME Inv, NEW p \in Procs, Save(p)
  PROVE  Inv'
  <1>1. TypeOK'
    BY DEF Save, Goto, TakesFrom, procVars, warnVars, hostVars, downVars, Inv, TypeOK,
       Calls, DownCalls
  <1>2. PinsOnTheWay'
    BY DEF Save, Goto, TakesFrom, procVars, warnVars, hostVars, downVars, Inv, TypeOK,
       Calls, DownCalls, PinsOnTheWay, CutShort
  <1>3. StateOnTheWay'
    BY DEF Save, Goto, TakesFrom, procVars, warnVars, hostVars, downVars, Inv, TypeOK,
       Calls, DownCalls, StateOnTheWay, CutShort
  <1>4. LinkIsOpen'
    BY DEF Save, Goto, TakesFrom, procVars, warnVars, hostVars, downVars, Inv, TypeOK,
       Calls, DownCalls, LinkIsOpen
  <1>5. DownKnows'
    BY DEF Save, Goto, TakesFrom, procVars, warnVars, hostVars, downVars, Inv, TypeOK,
       Calls, DownCalls, DownKnows, Opened, LinkIsOpen, StateOnTheWay, CutShort
  <1> QED BY <1>1, <1>2, <1>3, <1>4, <1>5 DEF Inv

(* Signals are caught from here on. *)
LEMMA ListenInv ==
  ASSUME Inv, NEW p \in Procs, Listen(p)
  PROVE  Inv'
  <1>1. TypeOK'
    BY DEF Listen, Goto, procVars, warnVars, hostVars, downVars, Inv, TypeOK, Calls,
       DownCalls
  <1>2. PinsOnTheWay'
    BY DEF Listen, Goto, procVars, warnVars, hostVars, downVars, Inv, TypeOK, Calls,
       DownCalls, PinsOnTheWay, CutShort
  <1>3. StateOnTheWay'
    BY DEF Listen, Goto, procVars, warnVars, hostVars, downVars, Inv, TypeOK, Calls,
       DownCalls, StateOnTheWay, CutShort
  <1>4. LinkIsOpen'
    BY DEF Listen, Goto, procVars, warnVars, hostVars, downVars, Inv, TypeOK, Calls,
       DownCalls, LinkIsOpen
  <1>5. DownKnows'
    BY DEF Listen, Goto, procVars, warnVars, hostVars, downVars, Inv, TypeOK, Calls,
       DownCalls, DownKnows, Opened, LinkIsOpen, StateOnTheWay, CutShort
  <1> QED BY <1>1, <1>2, <1>3, <1>4, <1>5 DEF Inv

(* A signal or the loss of the link ends the wait. *)
LEMMA WakeInv ==
  ASSUME Inv, NEW p \in Procs, Wake(p)
  PROVE  Inv'
  <1>1. TypeOK'
    BY DEF Wake, Goto, procVars, warnVars, hostVars, downVars, Inv, TypeOK, Calls, DownCalls
  <1>2. PinsOnTheWay'
    BY DEF Wake, Goto, procVars, warnVars, hostVars, downVars, Inv, TypeOK, Calls,
       DownCalls, PinsOnTheWay, CutShort
  <1>3. StateOnTheWay'
    BY DEF Wake, Goto, procVars, warnVars, hostVars, downVars, Inv, TypeOK, Calls,
       DownCalls, StateOnTheWay, CutShort
  <1>4. LinkIsOpen'
    BY DEF Wake, Goto, procVars, warnVars, hostVars, downVars, Inv, TypeOK, Calls,
       DownCalls, LinkIsOpen
  <1>5. DownKnows'
    BY DEF Wake, Goto, procVars, warnVars, hostVars, downVars, Inv, TypeOK, Calls,
       DownCalls, DownKnows, Opened, LinkIsOpen, StateOnTheWay, CutShort
  <1> QED BY <1>1, <1>2, <1>3, <1>4, <1>5 DEF Inv

(* Something else ends it. *)
LEMMA EndsInv ==
  ASSUME Inv, NEW p \in Procs, Ends(p)
  PROVE  Inv'
  <1>1. TypeOK'
    BY DEF Ends, Goto, procVars, warnVars, hostVars, downVars, Inv, TypeOK, Calls, DownCalls
  <1>2. PinsOnTheWay'
    BY DEF Ends, Goto, procVars, warnVars, hostVars, downVars, Inv, TypeOK, Calls,
       DownCalls, PinsOnTheWay, CutShort
  <1>3. StateOnTheWay'
    BY DEF Ends, Goto, procVars, warnVars, hostVars, downVars, Inv, TypeOK, Calls,
       DownCalls, StateOnTheWay, CutShort
  <1>4. LinkIsOpen'
    BY DEF Ends, Goto, procVars, warnVars, hostVars, downVars, Inv, TypeOK, Calls,
       DownCalls, LinkIsOpen
  <1>5. DownKnows'
    BY DEF Ends, Goto, procVars, warnVars, hostVars, downVars, Inv, TypeOK, Calls,
       DownCalls, DownKnows, Opened, LinkIsOpen, StateOnTheWay, CutShort
  <1> QED BY <1>1, <1>2, <1>3, <1>4, <1>5 DEF Inv

(* A peer does not answer: the next is asked for, or walked to. *)
LEMMA NoAnswerInv ==
  ASSUME Inv, NEW p \in Procs, NoAnswer(p)
  PROVE  Inv'
  <1>1. TypeOK'
    BY DEF NoAnswer, Goto, procVars, warnVars, hostVars, downVars, Inv, TypeOK, Calls,
       DownCalls
  <1>2. PinsOnTheWay'
    BY DEF NoAnswer, Goto, procVars, warnVars, hostVars, downVars, Inv, TypeOK, Calls,
       DownCalls, PinsOnTheWay, CutShort
  <1>3. StateOnTheWay'
    BY DEF NoAnswer, Goto, procVars, warnVars, hostVars, downVars, Inv, TypeOK, Calls,
       DownCalls, StateOnTheWay, CutShort
  <1>4. LinkIsOpen'
    BY DEF NoAnswer, Goto, procVars, warnVars, hostVars, downVars, Inv, TypeOK, Calls,
       DownCalls, LinkIsOpen
  <1>5. DownKnows'
    BY DEF NoAnswer, Goto, procVars, warnVars, hostVars, downVars, Inv, TypeOK, Calls,
       DownCalls, DownKnows, Opened, LinkIsOpen, StateOnTheWay, CutShort
  <1> QED BY <1>1, <1>2, <1>3, <1>4, <1>5 DEF Inv

(* Somebody answers the prompt. *)
LEMMA AnswerInv ==
  ASSUME Inv, NEW p \in Procs, Answer(p)
  PROVE  Inv'
  <1>1. TypeOK'
    BY DEF Answer, Goto, procVars, warnVars, hostVars, downVars, Inv, TypeOK, Calls,
       DownCalls
  <1>2. PinsOnTheWay'
    BY DEF Answer, Goto, procVars, warnVars, hostVars, downVars, Inv, TypeOK, Calls,
       DownCalls, PinsOnTheWay, CutShort
  <1>3. StateOnTheWay'
    BY DEF Answer, Goto, procVars, warnVars, hostVars, downVars, Inv, TypeOK, Calls,
       DownCalls, StateOnTheWay, CutShort
  <1>4. LinkIsOpen'
    BY DEF Answer, Goto, procVars, warnVars, hostVars, downVars, Inv, TypeOK, Calls,
       DownCalls, LinkIsOpen
  <1>5. DownKnows'
    BY DEF Answer, Goto, procVars, warnVars, hostVars, downVars, Inv, TypeOK, Calls,
       DownCalls, DownKnows, Opened, LinkIsOpen, StateOnTheWay, CutShort
  <1> QED BY <1>1, <1>2, <1>3, <1>4, <1>5 DEF Inv

(* The next peer, and the state file again. *)
LEMMA MoveInv ==
  ASSUME Inv, NEW p \in Procs, Move(p)
  PROVE  Inv'
  <1>1. TypeOK'
    BY DEF Move, Goto, TakesFrom, procVars, warnVars, hostVars, downVars, Inv, TypeOK,
       Calls, DownCalls
  <1>2. PinsOnTheWay'
    BY DEF Move, Goto, TakesFrom, procVars, warnVars, hostVars, downVars, Inv, TypeOK,
       Calls, DownCalls, PinsOnTheWay, CutShort
  <1>3. StateOnTheWay'
    BY DEF Move, Goto, TakesFrom, procVars, warnVars, hostVars, downVars, Inv, TypeOK,
       Calls, DownCalls, StateOnTheWay, CutShort
  <1>4. LinkIsOpen'
    BY DEF Move, Goto, TakesFrom, procVars, warnVars, hostVars, downVars, Inv, TypeOK,
       Calls, DownCalls, LinkIsOpen
  <1>5. DownKnows'
    BY DEF Move, Goto, TakesFrom, procVars, warnVars, hostVars, downVars, Inv, TypeOK,
       Calls, DownCalls, DownKnows, Opened, LinkIsOpen, StateOnTheWay, CutShort
  <1> QED BY <1>1, <1>2, <1>3, <1>4, <1>5 DEF Inv

(* The device is closed: from here on the link is not this process's. *)
LEMMA CloseDeviceInv ==
  ASSUME Inv, NEW p \in Procs, CloseDevice(p)
  PROVE  Inv'
  <1>1. TypeOK'
    BY DEF CloseDevice, Goto, procVars, warnVars, hostVars, downVars, Inv, TypeOK,
       Calls, DownCalls
  <1>2. PinsOnTheWay'
    BY DEF CloseDevice, Goto, procVars, warnVars, hostVars, downVars, Inv, TypeOK,
       Calls, DownCalls, PinsOnTheWay, CutShort
  <1>3. StateOnTheWay'
    BY DEF CloseDevice, Goto, procVars, warnVars, hostVars, downVars, Inv, TypeOK,
       Calls, DownCalls, StateOnTheWay, CutShort
  <1>4. LinkIsOpen'
    BY DEF CloseDevice, Goto, procVars, warnVars, hostVars, downVars, Inv, TypeOK,
       Calls, DownCalls, LinkIsOpen
  <1>5. DownKnows'
    BY DEF CloseDevice, Goto, procVars, warnVars, hostVars, downVars, Inv, TypeOK,
       Calls, DownCalls, DownKnows, Opened, LinkIsOpen, StateOnTheWay, CutShort
  <1> QED BY <1>1, <1>2, <1>3, <1>4, <1>5 DEF Inv

(* Whatever has the name is deleted. *)
LEMMA DropLinkInv ==
  ASSUME Inv, NEW p \in Procs, DropLink(p)
  PROVE  Inv'
  <1>1. TypeOK'
    BY DEF DropLink, Goto, procVars, warnVars, hostVars, downVars, Inv, TypeOK, Calls,
       DownCalls
  <1>2. PinsOnTheWay'
    BY DEF DropLink, Goto, procVars, warnVars, hostVars, downVars, Inv, TypeOK, Calls,
       DownCalls, PinsOnTheWay, CutShort
  <1>3. StateOnTheWay'
    BY DEF DropLink, Goto, procVars, warnVars, hostVars, downVars, Inv, TypeOK, Calls,
       DownCalls, StateOnTheWay, CutShort
  <1>4. LinkIsOpen'
    BY DEF DropLink, Goto, procVars, warnVars, hostVars, downVars, Inv, TypeOK, Calls,
       DownCalls, LinkIsOpen
  <1>5. DownKnows'
    BY DEF DropLink, Goto, procVars, warnVars, hostVars, downVars, Inv, TypeOK, Calls,
       DownCalls, DownKnows, Opened, LinkIsOpen, StateOnTheWay, CutShort
  <1> QED BY <1>1, <1>2, <1>3, <1>4, <1>5 DEF Inv

(* The host routes are removed, or warned of. *)
LEMMA RestoreInv ==
  ASSUME Inv, NEW p \in Procs, Restore(p)
  PROVE  Inv'
  <1>1. TypeOK'
    BY DEF Restore, Goto, procVars, warnVars, hostVars, downVars, Inv, TypeOK, Calls,
       DownCalls
  <1>2. PinsOnTheWay'
    BY DEF Restore, Goto, procVars, warnVars, hostVars, downVars, Inv, TypeOK, Calls,
       DownCalls, PinsOnTheWay, CutShort
  <1>3. StateOnTheWay'
    BY DEF Restore, Goto, procVars, warnVars, hostVars, downVars, Inv, TypeOK, Calls,
       DownCalls, StateOnTheWay, CutShort
  <1>4. LinkIsOpen'
    BY DEF Restore, Goto, procVars, warnVars, hostVars, downVars, Inv, TypeOK, Calls,
       DownCalls, LinkIsOpen
  <1>5. DownKnows'
    BY DEF Restore, Goto, procVars, warnVars, hostVars, downVars, Inv, TypeOK, Calls,
       DownCalls, DownKnows, Opened, LinkIsOpen, StateOnTheWay, CutShort
  <1> QED BY <1>1, <1>2, <1>3, <1>4, <1>5 DEF Inv

(* The state file is removed by name, its own or somebody else's, or is     *)
(* warned of.                                                               *)
LEMMA RemoveStateInv ==
  ASSUME Inv, NEW p \in Procs, RemoveState(p)
  PROVE  Inv'
  <1>1. TypeOK'
    BY DEF RemoveState, Goto, unlinked, stays, TakesFrom, procVars, warnVars,
       hostVars, downVars, Inv, TypeOK, Calls, DownCalls
  <1>2. PinsOnTheWay'
    BY DEF RemoveState, Goto, unlinked, stays, TakesFrom, procVars, warnVars,
       hostVars, downVars, Inv, TypeOK, Calls, DownCalls, PinsOnTheWay, CutShort
  <1>3. StateOnTheWay'
    BY DEF RemoveState, Goto, unlinked, stays, TakesFrom, procVars, warnVars,
       hostVars, downVars, Inv, TypeOK, Calls, DownCalls, StateOnTheWay, CutShort
  <1>4. LinkIsOpen'
    BY DEF RemoveState, Goto, unlinked, stays, TakesFrom, procVars, warnVars,
       hostVars, downVars, Inv, TypeOK, Calls, DownCalls, LinkIsOpen
  <1>5. DownKnows'
    BY DEF RemoveState, Goto, unlinked, stays, TakesFrom, procVars, warnVars,
       hostVars, downVars, Inv, TypeOK, Calls, DownCalls, DownKnows, Opened,
       LinkIsOpen, StateOnTheWay, CutShort
  <1> QED BY <1>1, <1>2, <1>3, <1>4, <1>5 DEF Inv

(* SIGTERM is caught, or ends the process. *)
LEMMA SignalInv ==
  ASSUME Inv, NEW p \in Procs, Signal(p)
  PROVE  Inv'
  <1>1. TypeOK'
    BY DEF Signal, Terminate, Exit, Goto, Alive, procVars, warnVars, hostVars,
       downVars, Inv, TypeOK, Calls, DownCalls
  <1>2. PinsOnTheWay'
    BY DEF Signal, Terminate, Exit, Goto, Alive, procVars, warnVars, hostVars,
       downVars, Inv, TypeOK, Calls, DownCalls, PinsOnTheWay, CutShort
  <1>3. StateOnTheWay'
    BY DEF Signal, Terminate, Exit, Goto, Alive, procVars, warnVars, hostVars,
       downVars, Inv, TypeOK, Calls, DownCalls, StateOnTheWay, CutShort
  <1>4. LinkIsOpen'
    BY DEF Signal, Terminate, Exit, Goto, Alive, procVars, warnVars, hostVars,
       downVars, Inv, TypeOK, Calls, DownCalls, LinkIsOpen
  <1>5. DownKnows'
    BY DEF Signal, Terminate, Exit, Goto, Alive, procVars, warnVars, hostVars,
       downVars, Inv, TypeOK, Calls, DownCalls, DownKnows, Opened, LinkIsOpen,
       StateOnTheWay, CutShort
  <1> QED BY <1>1, <1>2, <1>3, <1>4, <1>5 DEF Inv

(* The component's process ends. *)
LEMMA ServiceExitsInv ==
  ASSUME Inv, NEW p \in Procs, ServiceExits(p)
  PROVE  Inv'
  <1>1. TypeOK'
    BY DEF ServiceExits, Exit, Goto, Alive, procVars, warnVars, hostVars, downVars,
       Inv, TypeOK, Calls, DownCalls
  <1>2. PinsOnTheWay'
    BY DEF ServiceExits, Exit, Goto, Alive, procVars, warnVars, hostVars, downVars,
       Inv, TypeOK, Calls, DownCalls, PinsOnTheWay, CutShort
  <1>3. StateOnTheWay'
    BY DEF ServiceExits, Exit, Goto, Alive, procVars, warnVars, hostVars, downVars,
       Inv, TypeOK, Calls, DownCalls, StateOnTheWay, CutShort
  <1>4. LinkIsOpen'
    BY DEF ServiceExits, Exit, Goto, Alive, procVars, warnVars, hostVars, downVars,
       Inv, TypeOK, Calls, DownCalls, LinkIsOpen
  <1>5. DownKnows'
    BY DEF ServiceExits, Exit, Goto, Alive, procVars, warnVars, hostVars, downVars,
       Inv, TypeOK, Calls, DownCalls, DownKnows, Opened, LinkIsOpen, StateOnTheWay,
       CutShort
  <1> QED BY <1>1, <1>2, <1>3, <1>4, <1>5 DEF Inv

(* wg-quick-encedo down deletes the link. *)
LEMMA QuickDownInv ==
  ASSUME Inv, QuickDown
  PROVE  Inv'
  <1>1. TypeOK'
    BY DEF QuickDown, procVars, warnVars, hostVars, downVars, Inv, TypeOK, Calls, DownCalls
  <1>2. PinsOnTheWay'
    BY DEF QuickDown, procVars, warnVars, hostVars, downVars, Inv, TypeOK, Calls,
       DownCalls, PinsOnTheWay, CutShort
  <1>3. StateOnTheWay'
    BY DEF QuickDown, procVars, warnVars, hostVars, downVars, Inv, TypeOK, Calls,
       DownCalls, StateOnTheWay, CutShort
  <1>4. LinkIsOpen'
    BY DEF QuickDown, procVars, warnVars, hostVars, downVars, Inv, TypeOK, Calls,
       DownCalls, LinkIsOpen
  <1>5. DownKnows'
    BY DEF QuickDown, procVars, warnVars, hostVars, downVars, Inv, TypeOK, Calls,
       DownCalls, DownKnows, Opened, LinkIsOpen, StateOnTheWay, CutShort
  <1> QED BY <1>1, <1>2, <1>3, <1>4, <1>5 DEF Inv

(* wg-hem down reads whom the state file names. *)
LEMMA DownLoadsInv ==
  ASSUME Inv, NEW d \in Downs, DownLoads(d)
  PROVE  Inv'
  <1>1. TypeOK'
    BY DEF DownLoads, DownGoto, procVars, warnVars, hostVars, downVars, Inv, TypeOK,
       Calls, DownCalls
  <1>2. PinsOnTheWay'
    BY DEF DownLoads, DownGoto, procVars, warnVars, hostVars, downVars, Inv, TypeOK,
       Calls, DownCalls, PinsOnTheWay, CutShort
  <1>3. StateOnTheWay'
    BY DEF DownLoads, DownGoto, procVars, warnVars, hostVars, downVars, Inv, TypeOK,
       Calls, DownCalls, StateOnTheWay, CutShort
  <1>4. LinkIsOpen'
    BY DEF DownLoads, DownGoto, procVars, warnVars, hostVars, downVars, Inv, TypeOK,
       Calls, DownCalls, LinkIsOpen
  <1>5. DownKnows'
    BY DEF DownLoads, DownGoto, procVars, warnVars, hostVars, downVars, Inv, TypeOK,
       Calls, DownCalls, DownKnows, Opened, LinkIsOpen, StateOnTheWay, CutShort
  <1> QED BY <1>1, <1>2, <1>3, <1>4, <1>5 DEF Inv

(* wg-hem down signals it, if it is there. *)
LEMMA DownSignalsInv ==
  ASSUME Inv, NEW d \in Downs, DownSignals(d)
  PROVE  Inv'
  <1>1. TypeOK'
    BY DEF DownSignals, DownGoto, Terminate, Exit, Goto, Alive, procVars, warnVars,
       hostVars, downVars, Inv, TypeOK, Calls, DownCalls, DownKnows
  <1>2. PinsOnTheWay'
    BY DEF DownSignals, DownGoto, Terminate, Exit, Goto, Alive, procVars, warnVars,
       hostVars, downVars, Inv, TypeOK, Calls, DownCalls, PinsOnTheWay, CutShort
  <1>3. StateOnTheWay'
    BY DEF DownSignals, DownGoto, Terminate, Exit, Goto, Alive, procVars, warnVars,
       hostVars, downVars, Inv, TypeOK, Calls, DownCalls, StateOnTheWay, CutShort
  <1>4. LinkIsOpen'
    BY DEF DownSignals, DownGoto, Terminate, Exit, Goto, Alive, procVars, warnVars,
       hostVars, downVars, Inv, TypeOK, Calls, DownCalls, LinkIsOpen
  <1>5. DownKnows'
    BY DEF DownSignals, DownGoto, Terminate, Exit, Goto, Alive, procVars, warnVars,
       hostVars, downVars, Inv, TypeOK, Calls, DownCalls, DownKnows, Opened,
       LinkIsOpen, StateOnTheWay, CutShort
  <1> QED BY <1>1, <1>2, <1>3, <1>4, <1>5 DEF Inv

(* wg-hem down finds the state file gone, or not. *)
LEMMA DownStatsInv ==
  ASSUME Inv, NEW d \in Downs, DownStats(d)
  PROVE  Inv'
  <1>1. TypeOK'
    BY DEF DownStats, DownGoto, procVars, warnVars, hostVars, downVars, Inv, TypeOK,
       Calls, DownCalls
  <1>2. PinsOnTheWay'
    BY DEF DownStats, DownGoto, procVars, warnVars, hostVars, downVars, Inv, TypeOK,
       Calls, DownCalls, PinsOnTheWay, CutShort
  <1>3. StateOnTheWay'
    BY DEF DownStats, DownGoto, procVars, warnVars, hostVars, downVars, Inv, TypeOK,
       Calls, DownCalls, StateOnTheWay, CutShort
  <1>4. LinkIsOpen'
    BY DEF DownStats, DownGoto, procVars, warnVars, hostVars, downVars, Inv, TypeOK,
       Calls, DownCalls, LinkIsOpen
  <1>5. DownKnows'
    BY DEF DownStats, DownGoto, procVars, warnVars, hostVars, downVars, Inv, TypeOK,
       Calls, DownCalls, DownKnows, Opened, LinkIsOpen, StateOnTheWay, CutShort
  <1> QED BY <1>1, <1>2, <1>3, <1>4, <1>5 DEF Inv

(* wg-hem down finds the process gone, waits on, or gives up. *)
LEMMA DownProbesInv ==
  ASSUME Inv, NEW d \in Downs, DownProbes(d)
  PROVE  Inv'
  <1>1. TypeOK'
    BY DEF DownProbes, DownGoto, removeState, unlinked, stays, TakesFrom, Alive,
       procVars, warnVars, hostVars, downVars, Inv, TypeOK, Calls, DownCalls
  <1>2. PinsOnTheWay'
    BY DEF DownProbes, DownGoto, removeState, unlinked, stays, TakesFrom, Alive,
       procVars, warnVars, hostVars, downVars, Inv, TypeOK, Calls, DownCalls,
       PinsOnTheWay, CutShort
  <1>3. StateOnTheWay'
    BY DEF DownProbes, DownGoto, removeState, unlinked, stays, TakesFrom, Alive,
       procVars, warnVars, hostVars, downVars, Inv, TypeOK, Calls, DownCalls,
       StateOnTheWay, CutShort
  <1>4. LinkIsOpen'
    BY DEF DownProbes, DownGoto, removeState, unlinked, stays, TakesFrom, Alive,
       procVars, warnVars, hostVars, downVars, Inv, TypeOK, Calls, DownCalls,
       LinkIsOpen
  <1>5. DownKnows'
    BY DEF DownProbes, DownGoto, removeState, unlinked, stays, TakesFrom, Alive,
       procVars, warnVars, hostVars, downVars, Inv, TypeOK, Calls, DownCalls,
       DownKnows, Opened, LinkIsOpen, StateOnTheWay, CutShort
  <1> QED BY <1>1, <1>2, <1>3, <1>4, <1>5 DEF Inv

(* wg-hem down deletes the link itself. *)
LEMMA DownTakesInv ==
  ASSUME Inv, NEW d \in Downs, DownTakes(d)
  PROVE  Inv'
  <1>1. TypeOK'
    BY DEF DownTakes, DownGoto, procVars, warnVars, hostVars, downVars, Inv, TypeOK,
       Calls, DownCalls
  <1>2. PinsOnTheWay'
    BY DEF DownTakes, DownGoto, procVars, warnVars, hostVars, downVars, Inv, TypeOK,
       Calls, DownCalls, PinsOnTheWay, CutShort
  <1>3. StateOnTheWay'
    BY DEF DownTakes, DownGoto, procVars, warnVars, hostVars, downVars, Inv, TypeOK,
       Calls, DownCalls, StateOnTheWay, CutShort
  <1>4. LinkIsOpen'
    BY DEF DownTakes, DownGoto, procVars, warnVars, hostVars, downVars, Inv, TypeOK,
       Calls, DownCalls, LinkIsOpen
  <1>5. DownKnows'
    BY DEF DownTakes, DownGoto, procVars, warnVars, hostVars, downVars, Inv, TypeOK,
       Calls, DownCalls, DownKnows, Opened, LinkIsOpen, StateOnTheWay, CutShort
  <1> QED BY <1>1, <1>2, <1>3, <1>4, <1>5 DEF Inv

(* wg-hem down removes the state file. *)
LEMMA DownForgetsInv ==
  ASSUME Inv, NEW d \in Downs, DownForgets(d)
  PROVE  Inv'
  <1>1. TypeOK'
    BY DEF DownForgets, DownGoto, removeState, unlinked, stays, TakesFrom, procVars,
       warnVars, hostVars, downVars, Inv, TypeOK, Calls, DownCalls
  <1>2. PinsOnTheWay'
    BY DEF DownForgets, DownGoto, removeState, unlinked, stays, TakesFrom, procVars,
       warnVars, hostVars, downVars, Inv, TypeOK, Calls, DownCalls, PinsOnTheWay,
       CutShort
  <1>3. StateOnTheWay'
    BY DEF DownForgets, DownGoto, removeState, unlinked, stays, TakesFrom, procVars,
       warnVars, hostVars, downVars, Inv, TypeOK, Calls, DownCalls, StateOnTheWay,
       CutShort
  <1>4. LinkIsOpen'
    BY DEF DownForgets, DownGoto, removeState, unlinked, stays, TakesFrom, procVars,
       warnVars, hostVars, downVars, Inv, TypeOK, Calls, DownCalls, LinkIsOpen
  <1>5. DownKnows'
    BY DEF DownForgets, DownGoto, removeState, unlinked, stays, TakesFrom, procVars,
       warnVars, hostVars, downVars, Inv, TypeOK, Calls, DownCalls, DownKnows, Opened,
       LinkIsOpen, StateOnTheWay, CutShort
  <1> QED BY <1>1, <1>2, <1>3, <1>4, <1>5 DEF Inv

(* Inv is inductive, so it holds throughout. *)
LEMMA InvInvariant == Spec => []Inv
<1>1. Inv /\ [Next]_vars => Inv'
  <2> SUFFICES ASSUME Inv, [Next]_vars PROVE Inv'
    OBVIOUS
  <2>1. CASE UNCHANGED vars
    BY <2>1 DEF vars, procVars, warnVars, hostVars, downVars, Inv, TypeOK, PinsOnTheWay,
       StateOnTheWay, LinkIsOpen, DownKnows, CutShort, Opened
  <2>2. ASSUME NEW p \in Procs, bringUp(p) PROVE Inv'
    BY <2>2, PrepareInv, OpenInv, AddressInv, PinInv, ConfigureInv, SaveInv, ListenInv
       DEF bringUp
  <2>3. ASSUME NEW p \in Procs, teardown(p) PROVE Inv'
    BY <2>3, CloseDeviceInv, DropLinkInv, RestoreInv, RemoveStateInv DEF teardown
  <2>4. ASSUME NEW d \in Downs, cmdDown(d) PROVE Inv'
    BY <2>4, DownLoadsInv, DownSignalsInv, DownStatsInv, DownProbesInv, DownTakesInv,
       DownForgetsInv DEF cmdDown
  <2> QED
    BY <2>1, <2>2, <2>3, <2>4, StartInv, WakeInv, EndsInv, NoAnswerInv, AnswerInv, MoveInv,
       SignalInv, ServiceExitsInv, QuickDownInv DEF Next
<1> QED
  BY InitInv, <1>1, PTL DEF Spec

(* The name, the file and the routes keep to what the programs assume of    *)
(* them, whatever interleaves: a process that has the name opened it and has *)
(* not closed it, and what a down waits for still says something about the  *)
(* process it read.                                                         *)
THEOREM Invariance == Spec => []Inv
  BY InvInvariant

(* A tunnel process that ended by itself left no host route and no state    *)
(* file it did not warn of, whichever call failed, those of the teardown    *)
(* included, and whoever else worked on the name (cmdUp's and               *)
(* wg-quick-encedo's abort paths).                                          *)
THEOREM EndedIsClean == Spec => []EndsClean
<1>1. Inv => EndsClean
  BY DEF Inv, TypeOK, PinsOnTheWay, StateOnTheWay, CutShort, EndsClean
<1> QED
  BY <1>1, InvInvariant, PTL

(* wg-hem down never says an interface is down that its tunnel still has,   *)
(* unless the file it watched was taken for somebody else (waitGone).       *)
THEOREM DownIsDown == Spec => []SaysDownIsDown
<1>1. Inv => SaysDownIsDown
  BY DEF Inv, DownKnows, SaysDownIsDown
<1> QED
  BY <1>1, InvInvariant, PTL
=============================================================================
