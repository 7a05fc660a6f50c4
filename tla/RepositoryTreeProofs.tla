------------------------ MODULE RepositoryTreeProofs ------------------------
(***************************************************************************)
(* That commands given one at a time leave configurations that load, whose *)
(* pre-shared keys unwrap, and that none is resealed around somebody       *)
(* else's edit: for any number of identities, peers and records, and       *)
(* wherever a command fails, is interrupted or loses an answer.            *)
(***************************************************************************)
EXTENDS RepositoryProofs

(* A configuration with record r and MAC m, over the peer keys ks, loads. *)
Sound(i, r, m, ks) ==
  r # <<>> /\ (\A p \in Named(r) : ks[p] \in Rec) /\ m = Canonical(i, r, ks)

Own(i) == {i, Nobody}

(* What the command will sign is what is stored, and of use to its identity. *)
Covered(c, ks) ==
  /\ c.at \in Covering => \A p \in Named(c.refs) :
       c.recs[p] = ks[p] /\ ks[p] \in Rec /\ ks[p].psk \in Own(c.id)
  /\ c.at = "reread" => ks[Peer(c)].psk \in Own(c.id)

(* The record it changes is the one in the device. *)
Current(c, rs, ms) ==
  /\ c.at = "create" => c.refs = <<>>
  /\ c.at = "resolve" => c.refs = rs[c.id] /\ c.sum = ms[c.id]
  /\ c.at \in Placing \cup {"update"} /\ c.op # "provision" => c.refs = rs[c.id]
  /\ c.at \in Placing /\ c.op # "provision" => Len(c.todo) = 1

(* What it keeps of that record it keeps as the MAC there covers it. *)
Kept(c, rs, ms) ==
  c.at \in Covering /\ c.op # "provision" =>
    \A p \in Named(rs[c.id]) \cap Named(c.refs) :
      c.recs[p] = ms[c.id][3][p] \/ (c.op = "update" /\ p = Peer(c))

(* What it wrote loads. *)
Sealed(c, ks, rs, ms) ==
  c.at \in Written /\ c.op # "wipe" =>
    c.refs = rs[c.id] /\ Sound(c.id, rs[c.id], ms[c.id], ks)

Synced(c, ks, rs, ms) ==
  Covered(c, ks) /\ Current(c, rs, ms) /\ Kept(c, rs, ms) /\ Sealed(c, ks, rs, ms)

(* Every MAC covers pre-shared keys wrapped for its own identity. *)
Wrapped(rs, ms) == \A i \in Ids : \A p \in Named(rs[i]) : ms[i][3][p].psk \in Own(i)

Alone == \A q, o \in Procs : cmd[q].at # "idle" /\ cmd[o].at # "idle" => q = o

InStep ==
  ~overlap => /\ Alone /\ Wrapped(refs, mac)
              /\ \A q \in Procs : Synced(cmd[q], keys, refs, mac)

-----------------------------------------------------------------------------
(* A command that has read nothing, or is past writing. *)
LEMMA SyncedOutside ==
  ASSUME NEW c, NEW ks, NEW rs, NEW ms,
         \/ c.at \in {"idle", "load", "rollback", "wipe"}
         \/ c.at = "create" /\ c.refs = <<>>
         \/ c.at \in Written /\ c.op = "wipe"
         \/ c.at = "place" /\ c.op = "provision" /\ c.refs = <<>>
  PROVE  Synced(c, ks, rs, ms)
  BY NoNames DEF Synced, Covered, Current, Kept, Sealed, Placing, Covering, Written

(* So has one that failed: it only takes its key back. *)
LEMMA FailedSynced ==
  ASSUME NEW c, Fits(c), NEW ks, NEW rs, NEW ms
  PROVE  Synced(Failed(c), ks, rs, ms)
  <1>1. Failed(c).at \in {"idle", "rollback"}
    BY IdleFields DEF Failed, Fits, Fields
  <1> QED BY <1>1, SyncedOutside

(* A peer's key is not there, or its record is adopted (Place). *)
LEMMA PlaceSynced ==
  ASSUME NEW c, NEW d, Local(c), NEW ks, NEW rs, NEW ms, Synced(c, ks, rs, ms), c.at = "place",
         d.op = c.op, d.refs = c.refs, d.todo = c.todo, d.recs = c.recs, d.id = c.id,
         \/ d.at = "import"
         \/ d.at = "reread" /\ ks[Peer(c)] \in {Wanted(c)} \cup {k \in Rec : k.psk = Nobody}
  PROVE  Synced(d, ks, rs, ms)
  <1>1. Peer(d) = Peer(c)
    BY DEF Peer
  <1>2. Covered(d, ks)
    BY <1>1, WantedIsRecord DEF Synced, Covered, Own, Covering, Placing
  <1>3. Current(d, rs, ms) /\ Kept(d, rs, ms)
    BY <1>1 DEF Synced, Current, Kept, Covering, Placing
  <1>4. Sealed(d, ks, rs, ms)
    BY DEF Sealed, Written
  <1> QED BY <1>2, <1>3, <1>4 DEF Synced

(* A peer was placed as k, which the device has now (Import, Reread). *)
LEMMA PlacedSynced ==
  ASSUME NEW c, Fits(c), Local(c), c.at \in {"import", "reread"}, NEW k \in Rec,
         k.psk \in Own(c.id), NEW ks \in [Peers -> Keys], NEW rs, NEW ms, Synced(c, ks, rs, ms),
         NEW d \in Placed(c, k)
  PROVE  Synced(d, [ks EXCEPT ![Peer(c)] = k], rs, ms)
  <1>0. k \in Keys
    BY DEF Keys
  <1>1. /\ d.op = c.op /\ d.id = c.id /\ d.set = c.set /\ d.psk = c.psk /\ d.del = c.del
        /\ d.created = c.created /\ d.todo = Tail(c.todo)
        /\ d.recs = [c.recs EXCEPT ![Peer(c)] = k]
        /\ d.at = IF Len(c.todo) = 1 THEN "write" ELSE "place"
        /\ d.refs \in Seq(Peers) /\ d.refs # <<>> /\ Distinct(d.refs)
        /\ Named(d.refs) = Named(c.refs) \cup {Peer(c)}
        /\ Peer(c) \in Peers /\ Peer(c) \notin Named(c.refs)
    BY <1>0, PlacedFields, Zenon
  <1> DEFINE p == Peer(c)
  <1>2. c.recs \in [Peers -> Keys] /\ Named(c.refs) \subseteq Peers /\ c.op \in {"provision", "add"}
    BY DEF Local, Typed, Named, Staged, Placing
  <1>3. PICK kt : kt = [ks EXCEPT ![p] = k]
    OBVIOUS
  <1>4. kt[p] = k /\ d.recs[p] = k
    BY <1>1, <1>2, <1>3
  <1>5. \A o \in Named(c.refs) : kt[o] = ks[o] /\ d.recs[o] = c.recs[o]
    BY <1>1, <1>2, <1>3
  <1>6. \A o \in Named(c.refs) : c.recs[o] = ks[o] /\ ks[o] \in Rec /\ ks[o].psk \in Own(c.id)
    BY DEF Synced, Covered, Covering, Placing
  <1>7. Covered(d, kt)
    BY <1>1, <1>4, <1>5, <1>6 DEF Covered
  <1>8. c.op # "provision" => c.refs = rs[c.id] /\ d.at = "write"
    BY <1>1 DEF Synced, Current, Placing
  <1>9. Current(d, rs, ms)
    BY <1>1, <1>8 DEF Current, Placing
  <1>10. Kept(d, rs, ms)
    <2> SUFFICES ASSUME d.op # "provision", NEW o \in Named(rs[d.id]) PROVE d.recs[o] = ms[d.id][3][o]
      BY DEF Kept
    <2>1. o \in Named(c.refs) /\ c.op = "add"
      BY <1>1, <1>2, <1>8
    <2>2. c.recs[o] = ms[c.id][3][o]
      BY <1>1, <1>8, <2>1 DEF Synced, Kept, Covering, Placing
    <2> QED BY <1>1, <1>5, <2>1, <2>2
  <1>11. Sealed(d, kt, rs, ms)
    BY <1>1 DEF Sealed, Written
  <1> QED BY <1>3, <1>7, <1>9, <1>10, <1>11 DEF Synced

(* The tree was read, and verified (Resolve). *)
LEMMA LoadedSynced ==
  ASSUME NEW c, Fits(c), Local(c), c.at = "resolve", NEW ks, NEW rs, NEW ms, Wrapped(rs, ms),
         c.refs = rs[c.id], c.recs = ms[c.id][3], ms[c.id] = Canonical(c.id, c.refs, ks),
         \A p \in Named(c.refs) : ks[p] \in Rec
  PROVE  Synced(Loaded(c), ks, rs, ms)
  <1> SUFFICES ASSUME Loaded(c) # Idle PROVE Synced(Loaded(c), ks, rs, ms)
    BY SyncedOutside, IdleFields
  <1>1. PICK d : d = Loaded(c)
    OBVIOUS
  <1>2. /\ d.op = c.op /\ d.id = c.id /\ d.todo = c.todo /\ d.recs = c.recs
        /\ Named(d.refs) \subseteq Named(c.refs)
        /\ \/ c.op = "add" /\ d.at = "place" /\ d.refs = c.refs
           \/ c.op = "remove" /\ d.at = "write"
           \/ c.op = "update" /\ d.at = "update" /\ d.refs = c.refs
    BY <1>1, LoadedFields, Zenon
  <1>3. c.id \in Ids /\ Named(c.refs) \subseteq Peers /\ Len(c.todo) = 1
    BY DEF Local, Staged, Changing, Typed, Listed, Named
  <1>4. \A p \in Named(c.refs) : c.recs[p] = ks[p] /\ ks[p].psk \in Own(c.id)
    <2> SUFFICES ASSUME NEW p \in Named(c.refs) PROVE c.recs[p] = ks[p] /\ ks[p].psk \in Own(c.id)
      OBVIOUS
    <2>1. c.recs[p] = ks[p]
      BY <1>3 DEF Canonical
    <2>2. c.recs[p].psk \in Own(c.id)
      BY <1>3 DEF Wrapped
    <2> QED BY <2>1, <2>2
  <1>5. Covered(d, ks)
    BY <1>2, <1>4 DEF Covered
  <1>6. Current(d, rs, ms)
    BY <1>2, <1>3 DEF Current, Placing
  <1>7. Kept(d, rs, ms)
    BY <1>2 DEF Kept
  <1>8. Sealed(d, ks, rs, ms)
    BY <1>2 DEF Sealed, Written
  <1> QED BY <1>1, <1>5, <1>6, <1>7, <1>8 DEF Synced

(* The peer's record was rewritten (UpdatePeer). *)
LEMMA UpdateSynced ==
  ASSUME NEW c, Fits(c), Local(c), c.at = "update", c.op = "update",
         NEW ks \in [Peers -> Keys], NEW rs, NEW ms, Synced(c, ks, rs, ms),
         NEW d, d = [c EXCEPT !.at = "write", !.recs[Peer(c)] = Wanted(c)]
  PROVE  Synced(d, [ks EXCEPT ![Peer(c)] = Wanted(c)], rs, ms)
  <1> DEFINE p == Peer(c)
  <1>1. /\ d.at = "write" /\ d.op = c.op /\ d.id = c.id /\ d.refs = c.refs /\ d.todo = c.todo
        /\ d.recs = [c.recs EXCEPT ![p] = Wanted(c)]
    BY DEF Fits, Fields
  <1>2. c.recs \in [Peers -> Keys] /\ Named(c.refs) \subseteq Peers /\ p \in Named(c.refs)
    BY DEF Local, Typed, Named, Listed
  <1>3. PICK kt : kt = [ks EXCEPT ![p] = Wanted(c)]
    OBVIOUS
  <1>4. \A o \in Named(c.refs) : c.recs[o] = ks[o] /\ ks[o] \in Rec /\ ks[o].psk \in Own(c.id)
    BY DEF Synced, Covered, Covering
  <1>5. Wanted(c) \in Rec /\ Wanted(c).psk \in Own(c.id)
    BY <1>2, <1>4, UpdatedIsRecord DEF Own
  <1>6. kt[p] = Wanted(c) /\ d.recs[p] = Wanted(c)
    BY <1>1, <1>2, <1>3
  <1>7. \A o \in Named(c.refs) \ {p} : kt[o] = ks[o] /\ d.recs[o] = c.recs[o]
    BY <1>1, <1>2, <1>3
  <1>8. Covered(d, kt)
    BY <1>1, <1>4, <1>5, <1>6, <1>7 DEF Covered
  <1>9. Current(d, rs, ms)
    BY <1>1 DEF Current, Placing
  <1>10. Kept(d, rs, ms)
    <2> SUFFICES ASSUME NEW o \in Named(rs[d.id]) \cap Named(d.refs), o # Peer(d)
                 PROVE  d.recs[o] = ms[d.id][3][o]
      BY <1>1 DEF Kept
    <2>1. o \in Named(c.refs) \ {p} /\ o \in Named(rs[c.id])
      BY <1>1 DEF Peer
    <2>2. c.recs[o] = ms[c.id][3][o]
      BY <2>1 DEF Synced, Kept, Covering
    <2> QED BY <1>1, <1>7, <2>1, <2>2
  <1>11. Sealed(d, kt, rs, ms)
    BY <1>1 DEF Sealed, Written
  <1> QED BY <1>3, <1>8, <1>9, <1>10, <1>11 DEF Synced

(* The tree was signed and written (Write). *)
LEMMA WriteSynced ==
  ASSUME NEW c, NEW d, Local(c), c.at = "write", c.id \in Ids, NEW ks, NEW rs, NEW ms,
         Synced(c, ks, rs, ms), Wrapped(rs, ms), DOMAIN rs = Ids, DOMAIN ms = Ids,
         d.at = "verify", d.id = c.id, d.refs = c.refs,
         NEW rt, rt = [rs EXCEPT ![c.id] = c.refs],
         NEW mt, mt = [ms EXCEPT ![c.id] = Canonical(c.id, c.refs, c.recs)]
  PROVE  Synced(d, ks, rt, mt) /\ Wrapped(rt, mt)
  <1>1. \A p \in Named(c.refs) : c.recs[p] = ks[p] /\ ks[p] \in Rec /\ ks[p].psk \in Own(c.id)
    BY DEF Synced, Covered, Covering
  <1>2. c.refs # <<>> /\ Named(c.refs) \subseteq Peers
    BY DEF Local, Listed, Typed, Named
  <1>3. /\ rt[c.id] = c.refs /\ mt[c.id] = Canonical(c.id, c.refs, c.recs)
        /\ \A i \in Ids \ {c.id} : rt[i] = rs[i] /\ mt[i] = ms[i]
    OBVIOUS
  <1>4. Canonical(c.id, c.refs, c.recs) = Canonical(c.id, c.refs, ks)
    BY <1>1 DEF Canonical
  <1>5. Sealed(d, ks, rt, mt)
    BY <1>1, <1>2, <1>3, <1>4 DEF Sealed, Sound
  <1>6. Synced(d, ks, rt, mt)
    BY <1>5 DEF Synced, Covered, Current, Kept, Covering, Placing
  <1>7. \A p \in Named(c.refs) : mt[c.id][3][p] = c.recs[p]
    BY <1>2, <1>3 DEF Canonical
  <1>8. ASSUME NEW i \in Ids, NEW p \in Named(rt[i]) PROVE mt[i][3][p].psk \in Own(i)
    <2>1. CASE i = c.id
      BY <1>1, <1>3, <1>7, <2>1
    <2>2. CASE i # c.id
      BY <1>3, <2>2 DEF Wrapped
    <2> QED BY <2>1, <2>2
  <1> QED BY <1>6, <1>8 DEF Wrapped

(* An identity went, and its record with it. *)
LEMMA ForgottenWrapped ==
  ASSUME Shape, Wrapped(refs, mac), NEW i \in Ids, DeleteIdentity(i)
  PROVE  Wrapped(refs', mac')
  <1>1. refs'[i] = <<>> /\ \A o \in Ids \ {i} : refs'[o] = refs[o] /\ mac'[o] = mac[o]
    BY DEF DeleteIdentity, Shape
  <1> QED BY <1>1, NoNames DEF Wrapped

-----------------------------------------------------------------------------
(* Every step of a command that is alone keeps it in step with the device. *)
LEMMA InStepStep ==
  ASSUME Shape, Locals, InStep, [Next]_vars
  PROVE  InStep'
  <1> DEFINE Good == /\ Alone' /\ Wrapped(refs', mac')
                     /\ \A q \in Procs : Synced(cmd'[q], keys', refs', mac')
             Others(q) == \A o \in Procs \ {q} : cmd[o].at = "idle"
  <1> SUFFICES ASSUME ~overlap' PROVE Good
    BY DEF InStep
  <1>1. CASE UNCHANGED vars
    BY <1>1 DEF InStep, Alone, vars, device, history
  <1>2. ASSUME NEW q \in Procs PROVE Fits(cmd[q]) /\ Local(cmd[q])
    BY DEF Shape, Locals
  <1>3. ASSUME NEW q \in Procs, Others(q), NEW d, Goto(q, d), Wrapped(refs', mac'),
               Synced(d, keys', refs', mac')
        PROVE  Good
    <2>1. cmd'[q] = d /\ \A o \in Procs \ {q} : cmd'[o] = cmd[o] /\ cmd[o].at = "idle"
      BY <1>3 DEF Goto, Shape
    <2>2. \A o \in Procs \ {q} : Synced(cmd[o], keys', refs', mac')
      BY <2>1, SyncedOutside
    <2>3. Alone'
      BY <2>1 DEF Alone
    <2> HIDE DEF Others
    <2> QED BY <1>3, <2>1, <2>2, <2>3
  <1>4. ASSUME NEW q \in Procs, Others(q), NEW d, Answered(q, d), Wrapped(refs', mac'),
               Synced(d, keys', refs', mac')
        PROVE  Good
    <2>1. Synced(Failed(cmd[q]), keys', refs', mac')
      BY <1>2, FailedSynced
    <2>2. Goto(q, d) \/ Goto(q, Failed(cmd[q]))
      BY <1>4 DEF Answered
    <2> HIDE DEF Good, Others
    <2> QED BY <1>3, <1>4, <2>1, <2>2
  <1>5. ASSUME NEW q \in Procs, Begins(q) PROVE Good
    <2>1. PICK c : Local(c) /\ Fresh(c) /\ Begin(q, c)
      BY <1>5, BeginsLocal DEF Locals
    <2>2. ~overlap /\ Others(q) /\ Goto(q, c) /\ UNCHANGED <<keys, refs, mac>>
      BY <2>1 DEF Begin, device
    <2>3. Synced(c, keys', refs', mac')
      BY <2>1, SyncedOutside DEF Fresh
    <2>4. Wrapped(refs', mac')
      BY <2>2 DEF InStep
    <2> HIDE DEF Good, Others
    <2> QED BY <1>3, <2>2, <2>3, <2>4
  <1>6. ASSUME NEW q \in Procs, cmd[q].at # "idle", UNCHANGED overlap
        PROVE  /\ Others(q) /\ Wrapped(refs, mac) /\ Synced(cmd[q], keys, refs, mac)
    BY <1>6 DEF InStep, Alone
  <1>7. ASSUME NEW q \in Procs, Ends(q) PROVE Good
    <2>1. cmd[q].at # "idle" /\ UNCHANGED overlap
      BY <1>7 DEF Ends, Fails, Interrupt, Return, Rollback, history
    <2>2. Others(q) /\ Wrapped(refs, mac)
      BY <1>6, <2>1
    <2>3. \A d \in {Idle, Failed(cmd[q])} : Synced(d, keys', refs', mac')
      BY <1>2, SyncedOutside, FailedSynced, IdleFields
    <2>4. PICK d \in {Idle, Failed(cmd[q])} : Goto(q, d)
      BY <1>7 DEF Ends, Fails, Interrupt, Return, Rollback
    <2>5. Wrapped(refs', mac')
      <3>1. CASE UNCHANGED device
        BY <2>2, <3>1 DEF device
      <3>2. CASE Rollback(q) /\ DeleteIdentity(cmd[q].id)
        BY <1>2, <2>2, <3>2, ForgottenWrapped DEF Rollback, Local, Staged
      <3> QED BY <1>7, <3>1, <3>2 DEF Ends, Fails, Interrupt, Return, Rollback
    <2> HIDE DEF Good, Others
    <2> QED BY <1>3, <2>2, <2>3, <2>4, <2>5
  <1>8. ASSUME NEW q \in Procs, Places(q) PROVE Good
    <2> DEFINE c == cmd[q]
    <2>1. c.at # "idle" /\ UNCHANGED <<overlap, refs, mac>>
      BY <1>8 DEF Places, Create, Place, Import, Reread, Answered, history, device
    <2>2. /\ Others(q) /\ Wrapped(refs, mac) /\ Synced(c, keys, refs, mac) /\ Wrapped(refs', mac')
          /\ Fits(c) /\ Local(c)
      BY <1>2, <1>6, <2>1
    <2>3. CASE Create(q)
      <3>1. PICK d : /\ Answered(q, d)
                     /\ \E i \in Ids : d = [c EXCEPT !.at = "place", !.id = i, !.created = TRUE]
        BY <2>3 DEF Create
      <3>2. d.at = "place" /\ d.op = c.op /\ d.refs = c.refs
        BY <2>2, <3>1 DEF Fits, Fields
      <3>3. c.op = "provision"
        BY <2>2, <2>3 DEF Create, Local, Staged
      <3>4. c.refs = <<>>
        BY <2>2, <2>3 DEF Create, Synced, Current
      <3>5. Synced(d, keys', refs', mac')
        BY <3>2, <3>3, <3>4, SyncedOutside
      <3> HIDE DEF Good, Others, c
      <3> QED BY <1>4, <2>2, <3>1, <3>5
    <2>4. CASE Place(q)
      <3>1. c.at = "place" /\ UNCHANGED keys
        BY <2>4 DEF Place, device
      <3>2. PICK d : /\ Goto(q, d)
                     /\ \/ d = [c EXCEPT !.at = "import"]
                        \/ /\ d = [c EXCEPT !.at = "reread"]
                           /\ keys[Peer(c)] \in {Wanted(c)} \cup {k \in Rec : k.psk = Nobody}
        BY <2>4 DEF Place
      <3>3. /\ d.op = c.op /\ d.refs = c.refs /\ d.todo = c.todo /\ d.recs = c.recs /\ d.id = c.id
            /\ \/ d.at = "import"
               \/ /\ d.at = "reread"
                  /\ keys[Peer(c)] \in {Wanted(c)} \cup {k \in Rec : k.psk = Nobody}
        BY <2>2, <3>2 DEF Fits, Fields
      <3>4. Synced(d, keys, refs, mac)
        BY <2>2, <3>1, <3>3, PlaceSynced
      <3>5. Synced(d, keys', refs', mac')
        BY <2>1, <3>1, <3>4
      <3> HIDE DEF Good, Others, c
      <3> QED BY <1>3, <2>2, <3>2, <3>5
    <2>5. CASE Import(q)
      <3>1. PICK d \in Placed(c, Wanted(c)) : Answered(q, d)
        BY <2>5 DEF Import
      <3>2. c.at = "import" /\ keys' = [keys EXCEPT ![Peer(c)] = Wanted(c)]
        BY <2>5 DEF Import
      <3>3. Wanted(c) \in Rec /\ Wanted(c).psk \in Own(c.id) /\ keys \in [Peers -> Keys]
        BY <2>2, <3>2, WantedIsRecord DEF Own, Locals, Store
      <3>4. Synced(d, [keys EXCEPT ![Peer(c)] = Wanted(c)], refs, mac)
        BY <2>2, <3>2, <3>3, PlacedSynced
      <3>5. Synced(d, keys', refs', mac')
        BY <2>1, <3>2, <3>4
      <3> HIDE DEF Good, Others, c
      <3> QED BY <1>4, <2>2, <3>1, <3>5
    <2>6. CASE Reread(q)
      <3>1. PICK d \in Placed(c, keys[Peer(c)]) : Goto(q, d)
        BY <2>6 DEF Reread
      <3>2. c.at = "reread" /\ keys[Peer(c)] \in Rec /\ UNCHANGED keys
        BY <2>6 DEF Reread, device
      <3>3. keys[Peer(c)].psk \in Own(c.id) /\ keys \in [Peers -> Keys]
        BY <2>2, <3>2 DEF Synced, Covered, Locals, Store
      <3>4. Synced(d, [keys EXCEPT ![Peer(c)] = keys[Peer(c)]], refs, mac)
        BY <2>2, <3>2, <3>3, PlacedSynced
      <3>5. [keys EXCEPT ![Peer(c)] = keys[Peer(c)]] = keys
        BY <3>3
      <3>6. Synced(d, keys', refs', mac')
        BY <2>1, <3>2, <3>4, <3>5
      <3> HIDE DEF Good, Others, c
      <3> QED BY <1>3, <2>2, <3>1, <3>6
    <2> QED BY <1>8, <2>3, <2>4, <2>5, <2>6 DEF Places
  <1>9. ASSUME NEW q \in Procs, Changes(q) PROVE Good
    <2> DEFINE c == cmd[q]
    <2>1. c.at # "idle" /\ UNCHANGED overlap
      BY <1>9 DEF Changes, Load, Resolve, UpdatePeer, Write, Verify, DeletePeer, Answered, history
    <2>2. /\ Others(q) /\ Wrapped(refs, mac) /\ Synced(c, keys, refs, mac)
          /\ Fits(c) /\ Local(c)
      BY <1>2, <1>6, <2>1
    <2>3. CASE Load(q)
      <3>1. PICK d : /\ Goto(q, d)
                     /\ \E i \in Ids : d = [c EXCEPT !.at = "resolve", !.id = i, !.refs = refs[i],
                                                     !.sum = mac[i]]
        BY <2>3 DEF Load
      <3>2. d.at = "resolve" /\ d.refs = refs[d.id] /\ d.sum = mac[d.id]
        BY <2>2, <3>1 DEF Fits, Fields
      <3>3. UNCHANGED <<keys, refs, mac>>
        BY <2>3 DEF Load, device
      <3>4. Synced(d, keys', refs', mac')
        BY <3>2, <3>3 DEF Synced, Covered, Current, Kept, Sealed, Placing, Covering, Written
      <3> HIDE DEF Good, Others, c
      <3> QED BY <1>3, <2>2, <3>1, <3>3, <3>4
    <2>4. CASE Resolve(q)
      <3>1. PICK tree : tree = Canonical(c.id, c.refs, keys)
        OBVIOUS
      <3>2. PICK e : e = [c EXCEPT !.recs = tree[3], !.sum = NoMac]
        OBVIOUS
      <3>3. c.at = "resolve" /\ Goto(q, Loaded(e)) /\ UNCHANGED <<keys, refs, mac>>
            /\ c.sum = tree /\ \A p \in Named(c.refs) : keys[p] \in Rec
        BY <2>4, <3>1, <3>2 DEF Resolve, device
      <3>4. /\ e.op = c.op /\ e.set = c.set /\ e.psk = c.psk /\ e.refs = c.refs /\ e.at = c.at
            /\ e.todo = c.todo /\ e.recs = tree[3] /\ e.id = c.id /\ e.created = c.created
            /\ Fits(e)
        BY <2>2, <3>2 DEF Fits, OpFits, Fields
      <3>5. tree[3] = [p \in Peers |-> IF p \in Named(c.refs) THEN keys[p] ELSE Absent]
        BY <3>1 DEF Canonical
      <3>6. tree[3] \in [Peers -> Keys]
        BY <3>5 DEF Locals, Store, Keys
      <3>7. Local(e)
        BY <2>2, <3>3, <3>4, <3>6, ReadLocal
      <3>8. c.refs = refs[c.id] /\ mac[c.id] = tree
        BY <2>2, <3>3 DEF Synced, Current
      <3>9. /\ e.at = "resolve" /\ e.refs = refs[e.id] /\ e.recs = mac[e.id][3]
            /\ mac[e.id] = Canonical(e.id, e.refs, keys)
            /\ \A p \in Named(e.refs) : keys[p] \in Rec
        BY <3>1, <3>3, <3>4, <3>8
      <3>10. Synced(Loaded(e), keys, refs, mac)
        BY <2>2, <3>4, <3>7, <3>9, LoadedSynced
      <3>11. Synced(Loaded(e), keys', refs', mac') /\ Wrapped(refs', mac')
        BY <2>2, <3>3, <3>10
      <3> HIDE DEF Good, Others, c
      <3> QED BY <1>3, <2>2, <3>3, <3>11
    <2>5. CASE UpdatePeer(q)
      <3>1. PICK d : d = [c EXCEPT !.at = "write", !.recs[Peer(c)] = Wanted(c)]
        OBVIOUS
      <3>2. /\ c.at = "update" /\ c.op = "update" /\ Answered(q, d) /\ UNCHANGED <<refs, mac>>
            /\ keys' = [keys EXCEPT ![Peer(c)] = Wanted(c)]
        BY <2>2, <2>5, <3>1 DEF UpdatePeer, Fits, OpFits
      <3>3. keys \in [Peers -> Keys]
        BY DEF Locals, Store
      <3>4. Synced(d, [keys EXCEPT ![Peer(c)] = Wanted(c)], refs, mac)
        BY <2>2, <3>1, <3>2, <3>3, UpdateSynced
      <3>5. Synced(d, keys', refs', mac') /\ Wrapped(refs', mac')
        BY <2>2, <3>2, <3>4
      <3> HIDE DEF Good, Others, c
      <3> QED BY <1>4, <2>2, <3>2, <3>5
    <2>6. CASE Write(q)
      <3>1. PICK d : d = [c EXCEPT !.at = "verify", !.created = FALSE]
        OBVIOUS
      <3>2. d.at = "verify" /\ d.id = c.id /\ d.refs = c.refs
        BY <2>2, <3>1 DEF Fits, Fields
      <3>3. /\ c.at = "write" /\ c.id \in Ids /\ Answered(q, d) /\ UNCHANGED keys
            /\ refs' = [refs EXCEPT ![c.id] = c.refs]
            /\ mac' = [mac EXCEPT ![c.id] = Canonical(c.id, c.refs, c.recs)]
        BY <2>6, <3>1 DEF Write, Locals, Store
      <3>4. Synced(d, keys, refs', mac') /\ Wrapped(refs', mac')
        BY <2>2, <3>2, <3>3, WriteSynced DEF Shape
      <3>5. Synced(d, keys', refs', mac')
        BY <3>3, <3>4
      <3> HIDE DEF Good, Others, c
      <3> QED BY <1>4, <2>2, <3>3, <3>4, <3>5
    <2>7. CASE Verify(q)
      <3>1. PICK d : d = [c EXCEPT !.at = IF c.del THEN "delete" ELSE "done"]
        OBVIOUS
      <3>2. d.at \in {"delete", "done"} /\ d.id = c.id /\ d.refs = c.refs /\ d.op = c.op
        BY <2>2, <3>1 DEF Fits, Fields
      <3>3. c.at = "verify" /\ Goto(q, d) /\ UNCHANGED <<keys, refs, mac>>
        BY <2>7, <3>1 DEF Verify, device
      <3>4. Synced(d, keys', refs', mac')
        BY <2>2, <3>2, <3>3 DEF Synced, Covered, Current, Kept, Sealed, Placing, Covering, Written
      <3> HIDE DEF Good, Others, c
      <3> QED BY <1>3, <2>2, <3>3, <3>4
    <2>8. CASE DeletePeer(q)
      <3>1. PICK d : d = [c EXCEPT !.at = "done"]
        OBVIOUS
      <3>2. d.at = "done" /\ d.id = c.id /\ d.refs = c.refs /\ d.op = c.op
        BY <2>2, <3>1 DEF Fits, Fields
      <3>3. /\ c.at = "delete" /\ c.op = "remove" /\ Answered(q, d) /\ UNCHANGED <<refs, mac>>
            /\ keys' = [keys EXCEPT ![Peer(c)] = Absent]
        BY <2>2, <2>8, <3>1 DEF DeletePeer, Fits, OpFits
      <3>4. Peer(c) \notin Named(c.refs) /\ Named(c.refs) \subseteq Peers
        BY <2>2, <3>3 DEF Local, Listed, Typed, Named, Written
      <3>5. \A p \in Named(c.refs) : keys'[p] = keys[p]
        BY <3>3, <3>4 DEF Locals, Store
      <3>6. c.refs = refs[c.id] /\ Sound(c.id, refs[c.id], mac[c.id], keys)
        BY <2>2, <3>3 DEF Synced, Sealed, Written
      <3>7. Canonical(c.id, c.refs, keys') = Canonical(c.id, c.refs, keys)
        BY <3>5 DEF Canonical
      <3>8. Sealed(d, keys', refs', mac')
        BY <3>2, <3>3, <3>5, <3>6, <3>7 DEF Sealed, Sound
      <3>9. Synced(d, keys', refs', mac')
        BY <3>2, <3>8 DEF Synced, Covered, Current, Kept, Placing, Covering
      <3>10. Wrapped(refs', mac')
        BY <2>2, <3>3
      <3> HIDE DEF Good, Others, c
      <3> QED BY <1>4, <2>2, <3>3, <3>9, <3>10
    <2> QED BY <1>9, <2>3, <2>4, <2>5, <2>6, <2>7, <2>8 DEF Changes
  <1>10. ASSUME NEW q \in Procs, Wipes(q) PROVE Good
    <2> DEFINE c == cmd[q]
    <2>1. c.at = "wipe" /\ UNCHANGED overlap
      BY <1>10 DEF Wipes, WipePeer, WipeIdentity, Wiped, Answered, history
    <2>2. Others(q) /\ Wrapped(refs, mac) /\ Fits(c) /\ c.op = "wipe"
      BY <1>2, <1>6, <2>1 DEF Fits, OpFits
    <2>3. ASSUME NEW l,
                 NEW d \in {[c EXCEPT !.at = "done"], [c EXCEPT !.left = l], [c EXCEPT !.ifs = l]}
          PROVE  Synced(d, keys', refs', mac')
      <3>1. d.op = "wipe" /\ d.at \in {"wipe", "done"}
        BY <2>1, <2>2, <2>3 DEF Fits, Fields
      <3> QED BY <3>1, SyncedOutside DEF Written
    <2>4. CASE WipePeer(q)
      <3>1. PICK p \in c.left : Answered(q, [c EXCEPT !.left = c.left \ {p}])
        BY <2>4 DEF WipePeer
      <3>2. Wrapped(refs', mac')
        BY <2>2, <2>4 DEF WipePeer
      <3>3. Synced([c EXCEPT !.left = c.left \ {p}], keys', refs', mac')
        BY <2>3
      <3> HIDE DEF Good, Others, c
      <3> QED BY <1>4, <2>2, <3>1, <3>2, <3>3
    <2>5. CASE WipeIdentity(q)
      <3>1. PICK i \in ids : /\ DeleteIdentity(i)
                             /\ Answered(q, [c EXCEPT !.ifs = c.ifs \ {i}])
        BY <2>5 DEF WipeIdentity
      <3>2. Wrapped(refs', mac')
        BY <2>2, <3>1, ForgottenWrapped DEF Locals, Store
      <3>3. Synced([c EXCEPT !.ifs = c.ifs \ {i}], keys', refs', mac')
        BY <2>3
      <3> HIDE DEF Good, Others, c
      <3> QED BY <1>4, <2>2, <3>1, <3>2, <3>3
    <2>6. CASE Wiped(q)
      <3>1. Goto(q, [c EXCEPT !.at = "done"]) /\ UNCHANGED <<refs, mac>>
        BY <2>6 DEF Wiped, device
      <3>2. Synced([c EXCEPT !.at = "done"], keys', refs', mac')
        BY <2>3
      <3>3. Wrapped(refs', mac')
        BY <2>2, <3>1
      <3> HIDE DEF Good, Others, c
      <3> QED BY <1>3, <2>2, <3>1, <3>2, <3>3
    <2> QED BY <1>10, <2>4, <2>5, <2>6 DEF Wipes
  <1> QED BY <1>1, <1>5, <1>7, <1>8, <1>9, <1>10 DEF Next

(* As long as commands come one at a time. *)
LEMMA InStepInvariant == Spec => []InStep
<1>1. Init => InStep
  <2> SUFFICES ASSUME Init PROVE InStep
    OBVIOUS
  <2>1. \A q \in Procs : cmd[q] = Idle
    BY DEF Init
  <2>2. \A q \in Procs : Synced(cmd[q], keys, refs, mac)
    BY <2>1, IdleFields, SyncedOutside
  <2>3. Wrapped(refs, mac)
    BY NoNames DEF Init, Wrapped
  <2> QED BY <2>1, <2>2, <2>3, IdleFields DEF InStep, Alone
<1>2. Shape /\ Locals /\ InStep /\ [Next]_vars => InStep'
  BY InStepStep
<1> QED
  BY <1>1, <1>2, ShapeInvariant, LocalsInvariant, PTL DEF Spec

-----------------------------------------------------------------------------
(* A command that reports success leaves a configuration that loads, with   *)
(* every record it signed as the device stores it (Run, reseal, peerAdd,    *)
(* peerRemove, peerUpdate), when commands are given one at a time.          *)
THEOREM SuccessLoads == Spec => []FinishedLoads
<1>1. InStep => FinishedLoads
  BY DEF InStep, FinishedLoads, Synced, Sealed, Written, Sound, Loads
<1> QED BY <1>1, InStepInvariant, PTL

(* Whatever loads has pre-shared keys wrapped for its own identity,         *)
(* however records came to be shared by identities, and whatever command    *)
(* was cut short (PlacePeer, peerUpdate).                                   *)
THEOREM LoadedUnwraps == Spec => []PSKUnwraps
<1>1. Locals /\ InStep => PSKUnwraps
  <2> SUFFICES ASSUME Locals, InStep, ~overlap, NEW i \in Ids, Loads(i), NEW p \in Named(refs[i])
               PROVE  keys[p].psk \in {i, Nobody}
    BY DEF PSKUnwraps
  <2>1. p \in Peers
    BY DEF Locals, Store, Named
  <2>2. mac[i][3][p] = keys[p]
    BY <2>1 DEF Loads, Canonical
  <2>3. mac[i][3][p].psk \in Own(i)
    BY DEF InStep, Wrapped
  <2> QED BY <2>2, <2>3 DEF Own
<1> QED BY <1>1, InStepInvariant, LocalsInvariant, PTL

(* A tree is resealed only around the command's own change: what the new    *)
(* MAC covers of the peers that stay is what the old one covered, but for   *)
(* the peer an update is about (load, reseal).                              *)
THEOREM ResealsItsOwnEdit == Spec => NothingLaundered
<1> DEFINE Honest ==
      \A i \in Ids, q \in Procs :
        /\ cmd[q].op \in {"add", "remove", "update"} /\ cmd[q].id = i
        /\ ~overlap /\ mac'[i] # mac[i]
        => \A p \in Named(refs[i]) \cap Named(refs'[i]) :
             \/ mac'[i][3][p] = mac[i][3][p]
             \/ cmd[q].op = "update" /\ p = Peer(cmd[q])
<1>1. Shape /\ Locals /\ InStep /\ [Next]_vars => Honest
  <2> SUFFICES ASSUME Shape, Locals, InStep, [Next]_vars, NEW i \in Ids, NEW q \in Procs,
                      cmd[q].op \in {"add", "remove", "update"}, cmd[q].id = i,
                      ~overlap, mac'[i] # mac[i],
                      NEW p \in Named(refs[i]) \cap Named(refs'[i])
               PROVE  mac'[i][3][p] = mac[i][3][p] \/ (cmd[q].op = "update" /\ p = Peer(cmd[q]))
    OBVIOUS
  <2>1. cmd[q].at \notin {"idle", "rollback", "wipe"} /\ Local(cmd[q])
    BY DEF Shape, Fits, OpFits, Locals, Local, Staged
  <2>2. PICK o \in Procs : Begins(o) \/ Ends(o) \/ Places(o) \/ Changes(o) \/ Wipes(o)
    BY DEF Next, vars, device
  <2>3. Write(o) \/ Rollback(o) \/ WipeIdentity(o)
    BY <2>2 DEF Begins, BeginProvision, BeginAdd, BeginRemove, BeginUpdate, BeginWipe, Begin,
                Ends, Fails, Interrupt, Return, Places, Create, Place, Import, Reread,
                Changes, Load, Resolve, UpdatePeer, Verify, DeletePeer,
                Wipes, WipePeer, Wiped, device
  <2>4. cmd[o].at \in {"write", "rollback", "wipe"}
    BY <2>3 DEF Write, Rollback, WipeIdentity
  <2>5. o = q
    BY <2>1, <2>4 DEF InStep, Alone
  <2>6. Write(q) /\ cmd[q].at = "write"
    BY <2>1, <2>3, <2>4, <2>5 DEF Rollback, WipeIdentity, Write
  <2>7. /\ refs'[i] = cmd[q].refs /\ mac'[i] = Canonical(i, cmd[q].refs, cmd[q].recs)
        /\ p \in Peers
    BY <2>6 DEF Write, Shape, Locals, Store, Named
  <2>8. mac'[i][3][p] = cmd[q].recs[p]
    BY <2>7 DEF Canonical
  <2>9. cmd[q].recs[p] = mac[i][3][p] \/ (cmd[q].op = "update" /\ p = Peer(cmd[q]))
    BY <2>6, <2>7 DEF InStep, Synced, Kept, Covering
  <2> QED BY <2>8, <2>9
<1>2. Shape /\ Locals /\ InStep /\ [Next]_vars => [Honest]_vars
  BY <1>1
<1> QED
  BY <1>2, ShapeInvariant, LocalsInvariant, InStepInvariant, PTL DEF Spec, NothingLaundered
=============================================================================
