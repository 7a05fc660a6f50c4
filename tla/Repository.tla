----------------------------- MODULE Repository -----------------------------
(***************************************************************************)
(* The key repository of the HEM and the commands that write a             *)
(* configuration into it: provision, peer add, remove and update, and      *)
(* wipe (internal/provision, internal/config, internal/mac, cmd/wg-hem).   *)
(*                                                                         *)
(* A step is one call of the device, or a few that change nothing.  Any of *)
(* them can fail, with or without having taken effect, a command can be    *)
(* interrupted between any two, and several may be at work on one device.  *)
(* A MAC is the configuration it was computed over: the device gives one   *)
(* out only for what it was asked to sign with that key.                   *)
(***************************************************************************)
EXTENDS Naturals, Sequences, SequencesExt

CONSTANTS
  Ids,          \* identities, by KID; each a private key inside the device
  Peers,        \* peers, by KID, which is a function of the public key
  Settings,     \* what a peer record says: endpoint, AllowedIPs, keepalive
  Nobody,       \* no identity; no pre-shared key
  Absent,       \* no such key
  Alien,        \* a key of something other than this client
  Procs,        \* commands that may be at work at once
  MaxPeers,     \* mac.MaxPeers
  MaxCommands,  \* bound: commands begun, one at a time
  MaxAtOnce     \* bound: commands begun, where two were at work at once

(* A peer record: its settings, and the identity its pre-shared key is      *)
(* wrapped for.                                                             *)
Rec == [set : Settings, psk : Ids \cup {Nobody}]

ASSUME RepositoryAssumption ==
  /\ Nobody \notin Ids /\ Settings # {}
  /\ Absent \notin Rec /\ Alien \notin Rec /\ Absent # Alien
  /\ MaxPeers \in Nat \ {0} /\ MaxCommands \in Nat /\ MaxAtOnce \in Nat

VARIABLES
  (* the device *)
  ids,        \* identity keys in it
  used,       \* identities ever made
  keys,       \* for each peer, its key and record
  refs,       \* the peers each interface record names, in order; none, no record
  mac,        \* the MAC in it
  (* the commands *)
  cmd,        \* for each process, its command, locals and next call
  begun,      \* commands begun
  (* for the properties *)
  told,       \* identities a failed provision named to its caller
  cut,        \* a command was interrupted, or an answer lost
  overlap     \* two commands were at work at once

device == <<ids, used, keys, refs, mac>>
history == <<told, cut, overlap>>
vars == <<device, cmd, begun, history>>

Named(r) == {r[n] : n \in DOMAIN r}

(* Distinct peers, no more than the MAC's message has room for. *)
Orders == {r \in UNION {[1 .. n -> Peers] : n \in 1 .. MaxPeers} :
             \A a, b \in DOMAIN r : r[a] = r[b] => a = b}

(* mac.Canonical: the interface's key, its record, and every peer it names. *)
Canonical(i, r, ks) ==
  <<i, r, [p \in Peers |-> IF p \in Named(r) THEN ks[p] ELSE Absent]>>

NoMac == Canonical(Nobody, <<>>, [p \in Peers |-> Absent])

Idle == [op |-> "none", at |-> "idle", id |-> Nobody, todo |-> <<>>,
         set |-> CHOOSE s \in Settings : TRUE, psk |-> "none", adopt |-> FALSE,
         del |-> FALSE, created |-> FALSE, refs |-> <<>>, sum |-> NoMac,
         recs |-> [p \in Peers |-> Absent], left |-> {}, ifs |-> {}]

(* A device that holds no configuration, and maybe keys of others. *)
Init ==
  /\ ids = {} /\ used = {}
  /\ keys \in [Peers -> {Absent, Alien}]
  /\ refs = [i \in Ids |-> <<>>] /\ mac = [i \in Ids |-> NoMac]
  /\ cmd = [q \in Procs |-> Idle] /\ begun = 0
  /\ told = {} /\ cut = FALSE /\ overlap = FALSE

-----------------------------------------------------------------------------
Goto(q, c) == cmd' = [cmd EXCEPT ![q] = c]

Begin(q, c) ==
  /\ cmd[q].at = "idle"
  /\ overlap' = (overlap \/ \E o \in Procs \ {q} : cmd[o].at # "idle")
  /\ begun < (IF overlap' THEN MaxAtOnce ELSE MaxCommands)
  /\ begun' = begun + 1
  /\ Goto(q, c)
  /\ UNCHANGED <<device, told, cut>>

(* provision, with a key of its own or one that is there already (KID). *)
BeginProvision(q) ==
  \E i \in ids \cup {Nobody}, r \in Orders, s \in Settings, k \in {"none", "new"},
     a \in BOOLEAN :
    Begin(q, [Idle EXCEPT !.op = "provision", !.at = IF i = Nobody THEN "create" ELSE "place",
                          !.id = i, !.todo = r, !.set = s, !.psk = k, !.adopt = a])

BeginAdd(q) ==
  \E p \in Peers, s \in Settings, k \in {"none", "new"}, a \in BOOLEAN :
    Begin(q, [Idle EXCEPT !.op = "add", !.at = "load", !.todo = <<p>>, !.set = s,
                          !.psk = k, !.adopt = a])

BeginRemove(q) ==
  \E p \in Peers, d \in BOOLEAN :
    Begin(q, [Idle EXCEPT !.op = "remove", !.at = "load", !.todo = <<p>>, !.del = d])

BeginUpdate(q) ==
  \E p \in Peers, s \in Settings, k \in {"none", "new", "keep"} :
    Begin(q, [Idle EXCEPT !.op = "update", !.at = "load", !.todo = <<p>>, !.set = s, !.psk = k])

(* wipe, once its two searches have answered and the person confirmed. *)
BeginWipe(q) ==
  \E peersOnly \in BOOLEAN :
    LET ps == {p \in Peers : keys[p] \in Rec}
        is == IF peersOnly THEN {} ELSE {i \in Ids : refs[i] # <<>>}
    IN /\ ps \cup is # {}
       /\ Begin(q, [Idle EXCEPT !.op = "wipe", !.at = "wipe", !.left = ps, !.ifs = is])

-----------------------------------------------------------------------------
(* What a command goes on with after an error: a provision whose new key no *)
(* record names takes it back, and names the key otherwise.                 *)
Failed(c) == IF c.created THEN [c EXCEPT !.at = "rollback"] ELSE Idle
Names(c) == IF c.op = "provision" /\ ~c.created /\ c.id # Nobody THEN {c.id} ELSE {}

(* A call is answered: with ok the command goes on, or the answer is lost   *)
(* and it fails as if the call had done nothing.                            *)
Answered(q, ok) ==
  \/ Goto(q, ok) /\ UNCHANGED history
  \/ /\ Goto(q, Failed(cmd[q])) /\ told' = told \cup Names(cmd[q])
     /\ cut' = TRUE /\ UNCHANGED overlap

(* A call fails, or what it answered is a reason to stop. *)
Fails(q) ==
  /\ cmd[q].at \notin {"idle", "rollback", "done"}
  /\ Goto(q, Failed(cmd[q])) /\ told' = told \cup Names(cmd[q])
  /\ UNCHANGED <<device, begun, cut, overlap>>

(* The process goes, anywhere. *)
Interrupt(q) ==
  /\ cmd[q].at \notin {"idle", "done"}
  /\ Goto(q, Idle) /\ cut' = TRUE
  /\ UNCHANGED <<device, begun, told, overlap>>

Return(q) ==
  /\ cmd[q].at = "done"
  /\ Goto(q, Idle)
  /\ UNCHANGED <<device, begun, history>>

Create(q) ==
  LET c == cmd[q] IN
  /\ c.at = "create"
  /\ \E i \in Ids \ used :
       /\ ids' = ids \cup {i} /\ used' = used \cup {i}
       /\ Answered(q, [c EXCEPT !.at = "place", !.id = i, !.created = TRUE])
  /\ UNCHANGED <<keys, refs, mac, begun>>

Peer(c) == Head(c.todo)

(* PeerSpec.Record, with the pre-shared key wrapped for the identity. *)
Wanted(c) ==
  [set |-> c.set, psk |-> CASE c.psk = "new" -> c.id
                            [] c.psk = "none" -> Nobody
                            [] c.psk = "keep" -> c.recs[Peer(c)].psk]

(* Mutant of Place: a record that differs is taken as it is. *)
MutPlaceAnyPSK(q) ==
  LET c == cmd[q]  k == keys[Peer(c)] IN
  /\ c.at = "place"
  /\ \/ k = Absent /\ Goto(q, [c EXCEPT !.at = "import"])
     \/ k \in Rec /\ (k = Wanted(c) \/ c.adopt) /\ Goto(q, [c EXCEPT !.at = "reread"])
  /\ UNCHANGED <<device, begun, history>>

(* PlacePeer: a key that is not there is imported; one that is there is     *)
(* adopted if its record says the same, or if the caller takes what it says *)
(* and no pre-shared key is wrapped in it.  Otherwise it is refused: Fails. *)
Place(q) ==
  LET c == cmd[q]  k == keys[Peer(c)] IN
  /\ c.at = "place"
  /\ \/ k = Absent /\ Goto(q, [c EXCEPT !.at = "import"])
     \/ /\ k \in Rec /\ (k = Wanted(c) \/ (c.adopt /\ k.psk = Nobody))
        /\ Goto(q, [c EXCEPT !.at = "reread"])
  /\ UNCHANGED <<device, begun, history>>

(* The command after peer p was placed as k, which the tree is to cover.    *)
(* An added peer goes to the head or to the tail of the order.              *)
Placed(c, k) ==
  {[c EXCEPT !.todo = Tail(@), !.refs = r, !.recs[Peer(c)] = k,
             !.at = IF Len(c.todo) = 1 THEN "write" ELSE "place"] :
     r \in {Append(c.refs, Peer(c))} \cup
           (IF c.op = "add" THEN {<<Peer(c)>> \o c.refs} ELSE {})}

(* Mutant of Import: the device takes a second import of the same key. *)
MutImportOverwrites(q) ==
  LET c == cmd[q] IN
  /\ c.at \in {"import", "place"}
  /\ keys' = [keys EXCEPT ![Peer(c)] = Wanted(c)]
  /\ \E d \in Placed(c, Wanted(c)) : Answered(q, d)
  /\ UNCHANGED <<ids, used, refs, mac, begun>>

(* importPeer: the device refuses a key it has. *)
Import(q) ==
  LET c == cmd[q] IN
  /\ c.at = "import" /\ keys[Peer(c)] = Absent
  /\ keys' = [keys EXCEPT ![Peer(c)] = Wanted(c)]
  /\ \E d \in Placed(c, Wanted(c)) : Answered(q, d)
  /\ UNCHANGED <<ids, used, refs, mac, begun>>

(* Mutant of Reread: the tree covers the record the caller described. *)
MutRereadWanted(q) ==
  LET c == cmd[q] IN
  /\ c.at = "reread" /\ keys[Peer(c)] \in Rec
  /\ \E d \in Placed(c, Wanted(c)) : Goto(q, d)
  /\ UNCHANGED <<device, begun, history>>

(* ReadPeerRecord of an adopted peer: the tree covers what is stored. *)
Reread(q) ==
  LET c == cmd[q] IN
  /\ c.at = "reread" /\ keys[Peer(c)] \in Rec
  /\ \E d \in Placed(c, keys[Peer(c)]) : Goto(q, d)
  /\ UNCHANGED <<device, begun, history>>

-----------------------------------------------------------------------------
(* config.Load: the interface records are searched and one is picked ... *)
Load(q) ==
  /\ cmd[q].at = "load"
  /\ \E i \in Ids :
       /\ refs[i] # <<>>
       /\ Goto(q, [cmd[q] EXCEPT !.at = "resolve", !.id = i, !.refs = refs[i], !.sum = mac[i]])
  /\ UNCHANGED <<device, begun, history>>

(* What the command makes of the tree it loaded. *)
Loaded(c) ==
  LET p == Peer(c) IN
  CASE c.op = "add" /\ p \notin Named(c.refs) /\ Len(c.refs) < MaxPeers ->
         [c EXCEPT !.at = "place"]
    [] c.op = "remove" /\ p \in Named(c.refs) /\ Len(c.refs) > 1 ->
         [c EXCEPT !.at = "write", !.refs = RemoveFirst(@, p)]
    [] c.op = "update" /\ p \in Named(c.refs) -> [c EXCEPT !.at = "update"]
    [] OTHER -> Idle

(* Mutant of Resolve: the tree is used whether or not it verifies. *)
MutResolveUnverified(q) ==
  LET c == cmd[q] IN
  /\ c.at = "resolve" /\ c.id \in ids
  /\ \A p \in Named(c.refs) : keys[p] \in Rec
  /\ Goto(q, Loaded([c EXCEPT !.recs = keys, !.sum = NoMac]))
  /\ UNCHANGED <<device, begun, history>>

(* ... its peers are resolved and the MAC is verified over what was read.   *)
(* A tree that does not verify, or one the command does not apply to, ends  *)
(* it.                                                                      *)
Resolve(q) ==
  LET c == cmd[q]  tree == Canonical(c.id, c.refs, keys) IN
  /\ c.at = "resolve" /\ c.id \in ids
  /\ \A p \in Named(c.refs) : keys[p] \in Rec
  /\ c.sum = tree
  /\ Goto(q, Loaded([c EXCEPT !.recs = tree[3], !.sum = NoMac]))
  /\ UNCHANGED <<device, begun, history>>

(* peer update writes the peer's record, and then reseals. *)
UpdatePeer(q) ==
  LET c == cmd[q] IN
  /\ c.at = "update" /\ keys[Peer(c)] # Absent
  /\ keys' = [keys EXCEPT ![Peer(c)] = Wanted(c)]
  /\ Answered(q, [c EXCEPT !.at = "write", !.recs[Peer(c)] = Wanted(c)])
  /\ UNCHANGED <<ids, used, refs, mac, begun>>

(* The tree is signed and the interface record written (reseal; the end of  *)
(* provision.Run).                                                          *)
Write(q) ==
  LET c == cmd[q] IN
  /\ c.at = "write" /\ c.id \in ids
  /\ refs' = [refs EXCEPT ![c.id] = c.refs]
  /\ mac' = [mac EXCEPT ![c.id] = Canonical(c.id, c.refs, c.recs)]
  /\ Answered(q, [c EXCEPT !.at = "verify", !.created = FALSE])
  /\ UNCHANGED <<ids, used, keys, begun>>

(* mac.Verify, over the copies at hand. *)
Verify(q) ==
  LET c == cmd[q] IN
  /\ c.at = "verify" /\ c.id \in ids
  /\ Goto(q, [c EXCEPT !.at = IF c.del THEN "delete" ELSE "done"])
  /\ UNCHANGED <<device, begun, history>>

(* peer remove --delete-key *)
DeletePeer(q) ==
  LET c == cmd[q] IN
  /\ c.at = "delete" /\ keys[Peer(c)] # Absent
  /\ keys' = [keys EXCEPT ![Peer(c)] = Absent]
  /\ Answered(q, [c EXCEPT !.at = "done"])
  /\ UNCHANGED <<ids, used, refs, mac, begun>>

(* An identity key goes, and its record with it. *)
DeleteIdentity(i) ==
  /\ ids' = ids \ {i}
  /\ refs' = [refs EXCEPT ![i] = <<>>] /\ mac' = [mac EXCEPT ![i] = NoMac]
  /\ UNCHANGED <<used, keys>>

(* Mutant of Rollback: the key is left, and nobody is told. *)
MutRollbackNothing(q) ==
  /\ cmd[q].at = "rollback"
  /\ Goto(q, Idle)
  /\ UNCHANGED <<device, begun, history>>

(* Run's deferred function: the key goes back out, or the caller is told. *)
Rollback(q) ==
  /\ cmd[q].at = "rollback"
  /\ \/ cmd[q].id \in ids /\ DeleteIdentity(cmd[q].id) /\ UNCHANGED told
     \/ told' = told \cup {cmd[q].id} /\ UNCHANGED device
  /\ Goto(q, Idle)
  /\ UNCHANGED <<begun, cut, overlap>>

(* wipe: peers first, then identities. *)
WipePeer(q) ==
  LET c == cmd[q] IN
  /\ c.at = "wipe"
  /\ \E p \in c.left :
       /\ keys[p] # Absent
       /\ keys' = [keys EXCEPT ![p] = Absent]
       /\ Answered(q, [c EXCEPT !.left = @ \ {p}])
  /\ UNCHANGED <<ids, used, refs, mac, begun>>

WipeIdentity(q) ==
  LET c == cmd[q] IN
  /\ c.at = "wipe" /\ c.left = {}
  /\ \E i \in c.ifs \cap ids :
       /\ DeleteIdentity(i)
       /\ Answered(q, [c EXCEPT !.ifs = @ \ {i}])
  /\ UNCHANGED begun

Wiped(q) ==
  /\ cmd[q].at = "wipe" /\ cmd[q].left = {} /\ cmd[q].ifs = {}
  /\ Goto(q, [cmd[q] EXCEPT !.at = "done"])
  /\ UNCHANGED <<device, begun, history>>

-----------------------------------------------------------------------------
Begins(q) ==
  \/ BeginProvision(q)
  \/ BeginAdd(q)
  \/ BeginRemove(q)
  \/ BeginUpdate(q)
  \/ BeginWipe(q)

Ends(q) ==
  \/ Fails(q)
  \/ Interrupt(q)
  \/ Return(q)
  \/ Rollback(q)

Places(q) ==
  \/ Create(q)
  \/ Place(q)
  \/ Import(q)
  \/ Reread(q)

Changes(q) ==
  \/ Load(q)
  \/ Resolve(q)
  \/ UpdatePeer(q)
  \/ Write(q)
  \/ Verify(q)
  \/ DeletePeer(q)

Wipes(q) ==
  \/ WipePeer(q)
  \/ WipeIdentity(q)
  \/ Wiped(q)

Next == \E q \in Procs : Begins(q) \/ Ends(q) \/ Places(q) \/ Changes(q) \/ Wipes(q)

Spec == Init /\ [][Next]_vars

-----------------------------------------------------------------------------
(* What config.Load would accept now. *)
Loads(i) ==
  /\ refs[i] # <<>>
  /\ \A p \in Peers : p \in Named(refs[i]) => keys[p] \in Rec
  /\ mac[i] = Canonical(i, refs[i], keys)

(* A command that reported success leaves a configuration that loads: every *)
(* record it signed is the one stored, adopted ones too (Run, reseal), as   *)
(* long as commands are given one at a time.                                *)
FinishedLoads ==
  ~overlap => \A q \in Procs :
    cmd[q].at = "done" /\ cmd[q].op # "wipe" => Loads(cmd[q].id)

(* A configuration that loads can be used: its pre-shared keys are wrapped  *)
(* for the identity that loads it, however records came to be shared        *)
(* (PlacePeer, peerUpdate), by commands that do not overlap.                *)
PSKUnwraps ==
  ~overlap => \A i \in Ids :
    Loads(i) => \A p \in Named(refs[i]) : keys[p].psk \in {i, Nobody}

(* Provisioning an identity, or adding a peer to one, never breaks another  *)
(* identity's configuration, whoever else is at work and wherever it fails  *)
(* (PlacePeer: import, adopt, or refuse rather than overwrite).             *)
PlacingHarmsNobody ==
  [][\A i \in Ids, q \in Procs :
       /\ Loads(i) /\ cmd[q].op \in {"provision", "add"} /\ cmd[q].id # i /\ cmd'[q] # cmd[q]
       => Loads(i)']_vars

(* A key no record names cannot be found by wipe; a provision that failed   *)
(* took it back or named it to its caller (Cleanup), unless it was          *)
(* interrupted or an answer was lost.                                       *)
NoNamelessKey ==
  ~cut /\ (\A q \in Procs : cmd[q].at = "idle") =>
    \A i \in ids : refs[i] = <<>> => i \in told

(* A tree is not resealed around somebody else's edit: what a changed tree  *)
(* covers of the peers it kept is what the tree before it covered, but for  *)
(* the peer the command was about (load: "re-signing a tree that does not   *)
(* currently verify would launder someone else's edit").                    *)
NothingLaundered ==
  [][\A i \in Ids, q \in Procs :
       /\ cmd[q].op \in {"add", "remove", "update"} /\ cmd[q].id = i
       /\ ~overlap /\ mac'[i] # mac[i]
       => \A p \in Named(refs[i]) \cap Named(refs'[i]) :
            \/ mac'[i][3][p] = mac[i][3][p]
            \/ cmd[q].op = "update" /\ p = Peer(cmd[q])]_vars
=============================================================================
