-------------------------- MODULE RepositoryProofs --------------------------
(***************************************************************************)
(* That provisioning and adding a peer break nobody else's configuration,  *)
(* and that a failed provision leaves no key nobody knows of, for any      *)
(* number of identities, peers and commands at work at once.               *)
(***************************************************************************)
EXTENDS Repository, SequenceTheorems, TLAPS

Fields == {"op", "at", "id", "todo", "set", "psk", "adopt", "del", "created", "refs",
           "sum", "recs", "left", "ifs"}

(* The steps that take or change a key that is there belong to commands     *)
(* other than provision and peer add.                                       *)
OpFits(c) ==
  /\ c.at = "update" => c.op = "update"
  /\ c.del => c.op = "remove"
  /\ c.at = "delete" => c.del
  /\ c.at = "wipe" => c.op = "wipe"

Fits(c) == DOMAIN c = Fields /\ OpFits(c)

Shape ==
  /\ DOMAIN keys = Peers /\ DOMAIN refs = Ids /\ DOMAIN mac = Ids
  /\ cmd = [q \in Procs |-> cmd[q]]
  /\ \A q \in Procs : Fits(cmd[q])

(* A command that has not begun has the fields of one. *)
LEMMA IdleFits == Fits(Idle) /\ Idle.at = "idle" /\ Idle.del = FALSE
  BY DEF Idle, Fields, OpFits, Fits

(* So has one that failed, *)
LEMMA FailedFits == ASSUME NEW c, Fits(c) PROVE Fits(Failed(c))
  BY IdleFits DEF Failed, Fits, OpFits, Fields

(* one that has its tree, *)
LEMMA LoadedFits == ASSUME NEW c, Fits(c), c.del => c.op = "remove" PROVE Fits(Loaded(c))
  <1> DEFINE p == Peer(c)
  <1>1. CASE c.op = "add" /\ p \notin Named(c.refs) /\ Len(c.refs) < MaxPeers
    BY <1>1 DEF Loaded, Fits, OpFits, Fields
  <1>2. CASE c.op = "remove" /\ p \in Named(c.refs) /\ Len(c.refs) > 1
    BY <1>2 DEF Loaded, Fits, OpFits, Fields
  <1>3. CASE c.op = "update" /\ p \in Named(c.refs)
    BY <1>3 DEF Loaded, Fits, OpFits, Fields
  <1>4. CASE /\ ~(c.op = "add" /\ p \notin Named(c.refs) /\ Len(c.refs) < MaxPeers)
             /\ ~(c.op = "remove" /\ p \in Named(c.refs) /\ Len(c.refs) > 1)
             /\ ~(c.op = "update" /\ p \in Named(c.refs))
    BY <1>4, IdleFits DEF Loaded
  <1> QED
    BY <1>1, <1>2, <1>3, <1>4

(* and one that has placed a peer. *)
LEMMA PlacedFits == ASSUME NEW c, Fits(c), NEW k, NEW d \in Placed(c, k) PROVE Fits(d)
  BY DEF Placed, Fits, OpFits, Fields

(* Shape is inductive. *)
LEMMA ShapeInvariant == Spec => []Shape
<1>1. Init => Shape
  BY IdleFits DEF Init, Shape
<1>2. Shape /\ [Next]_vars => Shape'
  <2> SUFFICES ASSUME Shape, [Next]_vars PROVE Shape'
    OBVIOUS
  <2> DEFINE Domains == <<DOMAIN keys, DOMAIN refs, DOMAIN mac>>
  <2>1. CASE UNCHANGED vars
    BY <2>1 DEF Shape, vars, device
  <2>2. ASSUME NEW q \in Procs, NEW c, Goto(q, c), Fits(c), UNCHANGED Domains
        PROVE  Shape'
    BY <2>2 DEF Shape, Goto
  <2>3. ASSUME NEW q \in Procs, NEW ok, Answered(q, ok), Fits(ok), UNCHANGED Domains
        PROVE  Shape'
    BY <2>2, <2>3, FailedFits DEF Answered, Shape
  <2>4. ASSUME NEW q \in Procs, Begins(q) PROVE Shape'
    <3>1. ASSUME NEW c, Begin(q, c), Fits(c) PROVE Shape'
      BY <2>2, <3>1 DEF Begin, device
    <3>2. CASE BeginProvision(q)
      <4>1. PICK i \in ids \cup {Nobody}, r \in Orders, s \in Settings, k \in {"none", "new"},
                 a \in BOOLEAN :
              Begin(q, [Idle EXCEPT !.op = "provision",
                           !.at = IF i = Nobody THEN "create" ELSE "place",
                           !.id = i, !.todo = r, !.set = s, !.psk = k, !.adopt = a])
        BY <3>2 DEF BeginProvision
      <4>2. Fits([Idle EXCEPT !.op = "provision",
                           !.at = IF i = Nobody THEN "create" ELSE "place",
                           !.id = i, !.todo = r, !.set = s, !.psk = k, !.adopt = a])
        BY IdleFits DEF Fits, OpFits, Fields
      <4> QED
        BY <3>1, <4>1, <4>2
    <3>3. CASE BeginAdd(q)
      <4>1. PICK p \in Peers, s \in Settings, k \in {"none", "new"}, a \in BOOLEAN :
              Begin(q, [Idle EXCEPT !.op = "add", !.at = "load", !.todo = <<p>>, !.set = s,
                           !.psk = k, !.adopt = a])
        BY <3>3 DEF BeginAdd
      <4>2. Fits([Idle EXCEPT !.op = "add", !.at = "load", !.todo = <<p>>, !.set = s,
                           !.psk = k, !.adopt = a])
        BY IdleFits DEF Fits, OpFits, Fields
      <4> QED
        BY <3>1, <4>1, <4>2
    <3>4. CASE BeginRemove(q)
      <4>1. PICK p \in Peers, d \in BOOLEAN :
              Begin(q, [Idle EXCEPT !.op = "remove", !.at = "load", !.todo = <<p>>, !.del = d])
        BY <3>4 DEF BeginRemove
      <4>2. Fits([Idle EXCEPT !.op = "remove", !.at = "load", !.todo = <<p>>, !.del = d])
        BY IdleFits DEF Fits, OpFits, Fields
      <4> QED
        BY <3>1, <4>1, <4>2
    <3>5. CASE BeginUpdate(q)
      <4>1. PICK p \in Peers, s \in Settings, k \in {"none", "new", "keep"} :
              Begin(q, [Idle EXCEPT !.op = "update", !.at = "load", !.todo = <<p>>, !.set = s,
                           !.psk = k])
        BY <3>5 DEF BeginUpdate
      <4>2. Fits([Idle EXCEPT !.op = "update", !.at = "load", !.todo = <<p>>, !.set = s,
                           !.psk = k])
        BY IdleFits DEF Fits, OpFits, Fields
      <4> QED
        BY <3>1, <4>1, <4>2
    <3>6. CASE BeginWipe(q)
      <4> DEFINE c(ps, is) == [Idle EXCEPT !.op = "wipe", !.at = "wipe", !.left = ps, !.ifs = is]
      <4>1. PICK ps, is : Begin(q, c(ps, is))
        BY <3>6 DEF BeginWipe
      <4>2. Fits(c(ps, is))
        BY IdleFits DEF Fits, OpFits, Fields
      <4> QED
        BY <3>1, <4>1, <4>2
    <3> QED
      BY <2>4, <3>2, <3>3, <3>4, <3>5, <3>6 DEF Begins
  <2>5. ASSUME NEW q \in Procs, Ends(q) PROVE Shape'
    <3>1. CASE Fails(q)
      BY <2>2, <3>1, FailedFits DEF Fails, Shape, device
    <3>2. CASE Interrupt(q) \/ Return(q)
      BY <2>2, <3>2, IdleFits DEF Interrupt, Return, device
    <3>3. CASE Rollback(q)
      BY <2>2, <3>3, IdleFits DEF Rollback, DeleteIdentity, device
    <3> QED
      BY <2>5, <3>1, <3>2, <3>3 DEF Ends
  <2>6. ASSUME NEW q \in Procs, Places(q) PROVE Shape'
    <3> Fits(cmd[q])
      BY DEF Shape
    <3>1. CASE Create(q)
      BY <2>3, <3>1 DEF Create, Fits, OpFits, Fields
    <3>2. CASE Place(q)
      BY <2>2, <3>2 DEF Place, Fits, OpFits, Fields, device
    <3>3. CASE Import(q)
      BY <2>3, <3>3, PlacedFits DEF Import
    <3>4. CASE Reread(q)
      BY <2>2, <3>4, PlacedFits DEF Reread, device
    <3> QED
      BY <2>6, <3>1, <3>2, <3>3, <3>4 DEF Places
  <2>7. ASSUME NEW q \in Procs, Changes(q) PROVE Shape'
    <3> Fits(cmd[q])
      BY DEF Shape
    <3>1. CASE Load(q)
      BY <2>2, <3>1 DEF Load, Fits, OpFits, Fields, device
    <3>2. CASE Resolve(q)
      <4> DEFINE c == [cmd[q] EXCEPT !.recs = Canonical(cmd[q].id, cmd[q].refs, keys)[3],
                                     !.sum = NoMac]
      <4>1. Fits(c)
        BY DEF Fits, OpFits, Fields
      <4>2. Fits(Loaded(c))
        BY <4>1, LoadedFits DEF Fits, OpFits
      <4> QED
        BY <2>2, <3>2, <4>2 DEF Resolve, device
    <3>3. CASE UpdatePeer(q)
      BY <2>3, <3>3 DEF UpdatePeer, Fits, OpFits, Fields
    <3>4. CASE Write(q)
      BY <2>3, <3>4 DEF Write, Fits, OpFits, Fields
    <3>5. CASE Verify(q)
      BY <2>2, <3>5 DEF Verify, Fits, OpFits, Fields, device
    <3>6. CASE DeletePeer(q)
      BY <2>3, <3>6 DEF DeletePeer, Fits, OpFits, Fields
    <3> QED
      BY <2>7, <3>1, <3>2, <3>3, <3>4, <3>5, <3>6 DEF Changes
  <2>8. ASSUME NEW q \in Procs, Wipes(q) PROVE Shape'
    <3> Fits(cmd[q])
      BY DEF Shape
    <3>1. CASE WipePeer(q)
      BY <2>3, <3>1 DEF WipePeer, Fits, OpFits, Fields
    <3>2. CASE WipeIdentity(q)
      BY <2>3, <3>2 DEF WipeIdentity, DeleteIdentity, Fits, OpFits, Fields
    <3>3. CASE Wiped(q)
      BY <2>2, <3>3 DEF Wiped, Fits, OpFits, Fields, device
    <3> QED
      BY <2>8, <3>1, <3>2, <3>3 DEF Wipes
  <2> QED
    BY <2>1, <2>4, <2>5, <2>6, <2>7, <2>8 DEF Next
<1> QED
  BY <1>1, <1>2, PTL DEF Spec

(* A configuration loads as before if its record is untouched, and every    *)
(* peer record too.                                                         *)
LEMMA LoadsKept ==
  ASSUME NEW i \in Ids, Loads(i), refs'[i] = refs[i], mac'[i] = mac[i],
         \A p \in Peers : keys[p] \in Rec => keys'[p] = keys[p]
  PROVE  Loads(i)'
<1>1. \A p \in Peers : p \in Named(refs[i]) => keys'[p] = keys[p]
  BY DEF Loads
<1>2. Canonical(i, refs[i], keys') = Canonical(i, refs[i], keys)
  BY <1>1 DEF Canonical
<1> QED
  BY <1>1, <1>2 DEF Loads

(* Provision and peer add leave every other identity's configuration        *)
(* loading, however many commands are at work, and wherever one fails or    *)
(* loses an answer (PlacePeer, Run).                                        *)
THEOREM PlacingIsHarmless == Spec => PlacingHarmsNobody
<1> DEFINE Harmless ==
      \A i \in Ids, q \in Procs :
        /\ Loads(i) /\ cmd[q].op \in {"provision", "add"} /\ cmd[q].id # i /\ cmd'[q] # cmd[q]
        => Loads(i)'
<1>1. Shape /\ [Next]_vars => Harmless
  <2> SUFFICES ASSUME Shape, [Next]_vars, NEW i \in Ids, NEW q \in Procs, Loads(i),
                      cmd[q].op \in {"provision", "add"}, cmd[q].id # i, cmd'[q] # cmd[q]
               PROVE  Loads(i)'
    OBVIOUS
  <2>1. PICK o \in Procs : Begins(o) \/ Ends(o) \/ Places(o) \/ Changes(o) \/ Wipes(o)
    BY DEF Next, vars
  <2>2. ASSUME NEW c, Goto(o, c) PROVE o = q
    BY <2>2 DEF Goto, Shape
  <2>3. OpFits(cmd[q])
    BY DEF Shape, Fits
  <2>4. ASSUME UNCHANGED <<keys, refs, mac>> PROVE Loads(i)'
    BY <2>4, LoadsKept
  <2>5. CASE Begins(o)
    BY <2>4, <2>5 DEF Begins, BeginProvision, BeginAdd, BeginRemove, BeginUpdate, BeginWipe,
                      Begin, device
  <2>6. CASE Ends(o)
    <3>1. CASE Fails(o) \/ Interrupt(o) \/ Return(o)
      BY <2>4, <3>1 DEF Fails, Interrupt, Return, device
    <3>2. CASE Rollback(o)
      <4>1. o = q
        BY <2>2, <3>2 DEF Rollback
      <4>2. CASE UNCHANGED device
        BY <2>4, <4>2 DEF device
      <4>3. CASE DeleteIdentity(cmd[q].id)
        BY <4>3, LoadsKept DEF DeleteIdentity, Shape
      <4> QED
        BY <3>2, <4>1, <4>2, <4>3 DEF Rollback
    <3> QED
      BY <2>6, <3>1, <3>2 DEF Ends
  <2>7. CASE Places(o)
    <3>1. CASE Create(o) \/ Place(o) \/ Reread(o)
      BY <2>4, <3>1 DEF Create, Place, Reread, device
    <3>2. CASE Import(o)
      <4>1. \A p \in Peers : keys[p] \in Rec => keys'[p] = keys[p]
        BY <3>2, RepositoryAssumption DEF Import, Shape
      <4> QED
        BY <3>2, <4>1, LoadsKept DEF Import
    <3> QED
      BY <2>7, <3>1, <3>2 DEF Places
  <2>8. ASSUME NEW ok, Answered(o, ok) PROVE o = q
    BY <2>2, <2>8 DEF Answered
  <2>9. CASE Changes(o)
    <3>1. CASE Load(o) \/ Resolve(o) \/ Verify(o)
      BY <2>4, <3>1 DEF Load, Resolve, Verify, device
    <3>2. CASE UpdatePeer(o)
      BY <2>3, <2>8, <3>2 DEF UpdatePeer, OpFits
    <3>3. CASE DeletePeer(o)
      BY <2>3, <2>8, <3>3 DEF DeletePeer, OpFits
    <3>4. CASE Write(o)
      BY <2>8, <3>4, LoadsKept DEF Write, Shape
    <3> QED
      BY <2>9, <3>1, <3>2, <3>3, <3>4 DEF Changes
  <2>10. CASE Wipes(o)
    <3>1. CASE WipePeer(o) \/ WipeIdentity(o)
      BY <2>3, <2>8, <3>1 DEF WipePeer, WipeIdentity, OpFits
    <3>2. CASE Wiped(o)
      BY <2>4, <3>2 DEF Wiped, device
    <3> QED
      BY <2>10, <3>1, <3>2 DEF Wipes
  <2> QED
    BY <2>1, <2>5, <2>6, <2>7, <2>9, <2>10
<1>2. Shape /\ [Next]_vars => [Harmless]_vars
  BY <1>1
<1> QED
  BY <1>2, ShapeInvariant, PTL DEF Spec, PlacingHarmsNobody

-----------------------------------------------------------------------------
(* Orders of peers.                                                        *)

Distinct(r) == \A a, b \in DOMAIN r : r[a] = r[b] => a = b

(* A peer goes to the tail of an order. *)
LEMMA AppendNames ==
  ASSUME NEW r \in Seq(Peers), NEW p \in Peers
  PROVE  /\ Append(r, p) \in Seq(Peers) /\ Append(r, p) # <<>>
         /\ Named(Append(r, p)) = Named(r) \cup {p}
         /\ Distinct(r) /\ p \notin Named(r) => Distinct(Append(r, p))
  <1>1. PICK s : s = Append(r, p)
    OBVIOUS
  <1>2. /\ s \in Seq(Peers) /\ Len(s) = Len(r) + 1 /\ Len(r) \in Nat
        /\ DOMAIN s = 1 .. Len(r) + 1 /\ DOMAIN r = 1 .. Len(r)
        /\ \A k \in 1 .. Len(r) : s[k] = r[k]
        /\ s[Len(r) + 1] = p
    BY <1>1, AppendProperties
  <1>3. Named(s) = Named(r) \cup {p}
    BY <1>2 DEF Named
  <1>4. Distinct(r) /\ p \notin Named(r) => Distinct(s)
    BY <1>2 DEF Named, Distinct
  <1>5. s # <<>>
    BY <1>2
  <1> QED BY <1>1, <1>2, <1>3, <1>4, <1>5

(* A peer goes to its head. *)
LEMMA PrependNames ==
  ASSUME NEW r \in Seq(Peers), NEW p \in Peers
  PROVE  /\ <<p>> \o r \in Seq(Peers) /\ <<p>> \o r # <<>>
         /\ Named(<<p>> \o r) = Named(r) \cup {p}
         /\ Distinct(r) /\ p \notin Named(r) => Distinct(<<p>> \o r)
  <1>1. PICK s : s = <<p>> \o r
    OBVIOUS
  <1>2. /\ s \in Seq(Peers) /\ Len(s) = Len(r) + 1 /\ Len(r) \in Nat
        /\ DOMAIN s = 1 .. Len(r) + 1 /\ DOMAIN r = 1 .. Len(r)
        /\ \A k \in 1 .. Len(r) : s[k + 1] = r[k]
        /\ s[1] = p
    BY <1>1
  <1>3. \A k \in DOMAIN s : k = 1 \/ (k - 1 \in DOMAIN r /\ s[k] = r[k - 1])
    <2> SUFFICES ASSUME NEW k \in DOMAIN s, k # 1 PROVE k - 1 \in DOMAIN r /\ s[k] = r[k - 1]
      OBVIOUS
    <2>1. k - 1 \in 1 .. Len(r) /\ (k - 1) + 1 = k
      BY <1>2
    <2> QED BY <1>2, <2>1
  <1>4. Named(s) = Named(r) \cup {p}
    <2>1. ASSUME NEW k \in DOMAIN r PROVE r[k] \in Named(s)
      <3>1. k + 1 \in DOMAIN s /\ s[k + 1] = r[k]
        BY <1>2
      <3> QED BY <3>1 DEF Named
    <2>2. p \in Named(s)
      BY <1>2 DEF Named
    <2>3. Named(s) \subseteq Named(r) \cup {p}
      BY <1>2, <1>3 DEF Named
    <2> QED BY <2>1, <2>2, <2>3 DEF Named
  <1>5. ASSUME Distinct(r), p \notin Named(r) PROVE Distinct(s)
    <2> SUFFICES ASSUME NEW a \in DOMAIN s, NEW b \in DOMAIN s, s[a] = s[b] PROVE a = b
      BY DEF Distinct
    <2>1. CASE a = 1 \/ b = 1
      BY <1>2, <1>3, <1>5, <2>1 DEF Named
    <2>2. CASE a # 1 /\ b # 1
      <3>1. a - 1 = b - 1
        BY <1>3, <1>5, <2>2 DEF Distinct
      <3> QED BY <1>2, <3>1
    <2> QED BY <2>1, <2>2
  <1>6. s # <<>>
    BY <1>2
  <1> QED BY <1>1, <1>2, <1>4, <1>5, <1>6

(* What is left of an order of distinct peers after its head. *)
LEMMA TailNames ==
  ASSUME NEW r \in Seq(Peers), r # <<>>
  PROVE  /\ Head(r) \in Peers /\ Head(r) \in Named(r) /\ Tail(r) \in Seq(Peers)
         /\ Named(Tail(r)) \subseteq Named(r)
         /\ Len(r) # 1 => Tail(r) # <<>>
         /\ Distinct(r) => Head(r) \notin Named(Tail(r)) /\ Distinct(Tail(r))
  <1>1. PICK t : t = Tail(r)
    OBVIOUS
  <1>2. /\ Len(r) \in Nat /\ Len(r) # 0 /\ DOMAIN r = 1 .. Len(r) /\ Head(r) = r[1]
        /\ t \in Seq(Peers) /\ Len(t) = Len(r) - 1 /\ DOMAIN t = 1 .. Len(r) - 1
        /\ \A k \in 1 .. Len(r) - 1 : t[k] = r[k + 1]
    BY <1>1
  <1>3. \A k \in DOMAIN t : k + 1 \in DOMAIN r /\ t[k] = r[k + 1] /\ k + 1 # 1
    BY <1>2
  <1>4. Head(r) \in Peers /\ Head(r) \in Named(r)
    BY <1>2 DEF Named
  <1>5. Named(t) \subseteq Named(r)
    BY <1>3 DEF Named
  <1>6. ASSUME Distinct(r) PROVE Head(r) \notin Named(t) /\ Distinct(t)
    <2>1. Head(r) \notin Named(t)
      BY <1>2, <1>3, <1>6 DEF Named, Distinct
    <2>2. ASSUME NEW a \in DOMAIN t, NEW b \in DOMAIN t, t[a] = t[b] PROVE a = b
      <3>1. a + 1 = b + 1
        BY <1>3, <1>6, <2>2 DEF Distinct
      <3> QED BY <1>2, <3>1
    <2> QED BY <2>1, <2>2 DEF Distinct
  <1>7. Len(r) # 1 => t # <<>>
    BY <1>2
  <1> QED BY <1>1, <1>2, <1>4, <1>5, <1>6, <1>7

(* peer remove cuts a peer out of an order of distinct ones. *)
LEMMA RemoveNames ==
  ASSUME NEW r \in Seq(Peers), Distinct(r), NEW p \in Named(r), Len(r) > 1
  PROVE  /\ RemoveFirst(r, p) \in Seq(Peers) /\ RemoveFirst(r, p) # <<>>
         /\ Distinct(RemoveFirst(r, p))
         /\ Named(RemoveFirst(r, p)) \subseteq Named(r) \ {p}
  <1>1. DOMAIN r = 1 .. Len(r) /\ Len(r) \in Nat
    OBVIOUS
  <1>2. PICK n \in 1 .. Len(r) : r[n] = p
    BY <1>1 DEF Named
  <1>3. {i \in 1 .. Len(r) : r[i] = p} = {n}
    BY <1>1, <1>2 DEF Distinct
  <1>4. Min({n}) = n
    BY <1>2 DEF Min
  <1>5. RemoveFirst(r, p) = SubSeq(r, 1, n - 1) \o SubSeq(r, n + 1, Len(r))
    BY <1>2, <1>3, <1>4 DEF RemoveFirst, RemoveAt, SelectInSeq
  <1>6. PICK a : a = SubSeq(r, 1, n - 1)
    OBVIOUS
  <1>7. PICK b : b = SubSeq(r, n + 1, Len(r))
    OBVIOUS
  <1>8. a \in Seq(Peers) /\ Len(a) = n - 1 /\ \A k \in 1 .. n - 1 : a[k] = r[k]
    <2>1. \A k \in 1 .. n - 1 : r[k] \in Peers
      BY <1>1
    <2> QED BY <1>1, <1>2, <1>6, <2>1, SubSeqProperties
  <1>9. /\ b \in Seq(Peers) /\ Len(b) = Len(r) - n
        /\ \A k \in 1 .. Len(r) - n : b[k] = r[n + k]
    <2>1. \A k \in n + 1 .. Len(r) : r[k] \in Peers
      BY <1>1
    <2>2. /\ b \in Seq(Peers)
          /\ Len(b) = IF n + 1 <= Len(r) THEN Len(r) - (n + 1) + 1 ELSE 0
          /\ \A k \in 1 .. Len(r) - (n + 1) + 1 : b[k] = r[(n + 1) + k - 1]
      BY <1>1, <1>2, <1>7, <2>1, SubSeqProperties
    <2>3. Len(b) = Len(r) - n /\ Len(r) - (n + 1) + 1 = Len(r) - n
      <3>1. n \in Int /\ n <= Len(r)
        BY <1>1
      <3>2. CASE n + 1 <= Len(r)
        BY <1>1, <2>2, <3>1, <3>2
      <3>3. CASE n = Len(r)
        BY <1>1, <2>2, <3>1, <3>3
      <3>4. \A k, l \in Int : k <= l => k = l \/ k + 1 <= l
        OBVIOUS
      <3>5. n = Len(r) \/ n + 1 <= Len(r)
        <4>1. Len(r) \in Int
          BY <1>1
        <4> QED BY <3>1, <3>4, <4>1
      <3> QED BY <3>2, <3>3, <3>5
    <2>4. \A k \in 1 .. Len(r) - n : (n + 1) + k - 1 = n + k
      BY <1>1, <1>2
    <2> QED BY <2>2, <2>3, <2>4
  <1>10. PICK s : s = a \o b
    OBVIOUS
  <1>11. /\ s \in Seq(Peers) /\ Len(s) = Len(r) - 1 /\ DOMAIN s = 1 .. Len(r) - 1
         /\ \A k \in 1 .. n - 1 : s[k] = r[k]
         /\ \A k \in n .. Len(r) - 1 : s[k] = r[k + 1]
    <2>1. s \in Seq(Peers) /\ Len(s) = Len(a) + Len(b) /\ DOMAIN s = 1 .. Len(a) + Len(b)
      <3>1. a \in Seq(Peers) /\ b \in Seq(Peers)
        BY <1>8, <1>9
      <3> QED BY <1>10, <3>1
    <2>2. \A k \in 1 .. Len(a) + Len(b) : s[k] = IF k <= Len(a) THEN a[k] ELSE b[k - Len(a)]
      BY <1>8, <1>9, <1>10
    <2>3. Len(a) + Len(b) = Len(r) - 1
      BY <1>1, <1>8, <1>9
    <2>4. \A k \in 1 .. n - 1 : s[k] = r[k]
      BY <1>1, <1>2, <1>8, <2>2, <2>3
    <2>5. ASSUME NEW k \in n .. Len(r) - 1 PROVE s[k] = r[k + 1]
      <3>1. k - Len(a) \in 1 .. Len(r) - n /\ n + (k - Len(a)) = k + 1 /\ ~(k <= Len(a))
            /\ k \in 1 .. Len(a) + Len(b)
        BY <1>1, <1>2, <1>8, <1>9
      <3>2. s[k] = b[k - Len(a)]
        BY <2>2, <3>1
      <3>3. b[k - Len(a)] = r[n + (k - Len(a))]
        BY <1>9, <3>1
      <3> QED BY <3>1, <3>2, <3>3
    <2> QED BY <2>1, <2>3, <2>4, <2>5
  <1>12. \A k \in DOMAIN s :
           \/ k < n /\ k \in DOMAIN r /\ s[k] = r[k]
           \/ k >= n /\ k + 1 \in DOMAIN r /\ s[k] = r[k + 1]
    BY <1>1, <1>2, <1>11
  <1>13. Named(s) \subseteq Named(r) \ {p}
    <2> SUFFICES ASSUME NEW k \in DOMAIN s PROVE s[k] \in Named(r) \ {p}
      BY DEF Named
    <2>1. PICK m \in DOMAIN r : s[k] = r[m] /\ m # n
      BY <1>1, <1>2, <1>11, <1>12
    <2> QED BY <1>1, <1>2, <2>1 DEF Named, Distinct
  <1>14. ASSUME NEW k \in DOMAIN s, NEW l \in DOMAIN s, s[k] = s[l] PROVE k = l
    <2>1. k \in Int /\ l \in Int
      BY <1>1, <1>11
    <2>2. CASE k < n /\ l < n
      BY <1>12, <1>14, <2>2 DEF Distinct
    <2>3. CASE k >= n /\ l >= n
      <3>1. k + 1 = l + 1
        BY <1>12, <1>14, <2>1, <2>3 DEF Distinct
      <3> QED BY <2>1, <3>1
    <2>4. CASE k < n /\ l >= n
      <3>1. k = l + 1
        BY <1>12, <1>14, <2>1, <2>4 DEF Distinct
      <3> QED BY <2>1, <2>4, <3>1
    <2>5. CASE k >= n /\ l < n
      <3>1. k + 1 = l
        BY <1>12, <1>14, <2>1, <2>5 DEF Distinct
      <3> QED BY <2>1, <2>5, <3>1
    <2> QED BY <2>1, <2>2, <2>3, <2>4, <2>5
  <1>15. s # <<>>
    BY <1>1, <1>11
  <1> QED BY <1>5, <1>6, <1>7, <1>10, <1>11, <1>13, <1>14, <1>15 DEF Distinct

-----------------------------------------------------------------------------
(* What a command's own variables say, whoever else is at work.             *)

Keys == Rec \cup {Absent, Alien}
Placing == {"place", "import", "reread"}
Covering == Placing \cup {"update", "write"}
Changing == {"add", "remove", "update"}
Written == {"verify", "delete", "done"}

Typed(c) ==
  /\ c.id \in Ids \cup {Nobody} /\ c.set \in Settings /\ c.psk \in {"none", "new", "keep"}
  /\ c.refs \in Seq(Peers) /\ Distinct(c.refs) /\ c.todo \in Seq(Peers)
  /\ c.recs \in [Peers -> Keys]

(* Which command a step belongs to, and that it knows its identity. *)
Staged(c) ==
  /\ c.at = "idle" => c.op = "none"
  /\ c.at \in {"create", "rollback"} \/ c.created => c.op = "provision"
  /\ c.at \in {"load", "resolve"} => c.op \in Changing
  /\ c.at \in Placing => c.op \in {"provision", "add"}
  /\ c.psk = "keep" => c.op = "update"
  /\ c.created => c.at \in Placing \cup {"write", "rollback"}
  /\ c.at \in {"resolve", "rollback"} \cup Covering \cup Written /\ c.op # "wipe" => c.id \in Ids

(* The peers it has placed and those it has not, which are others.  *)
Listed(c) ==
  /\ c.at \in {"create"} \cup Placing => c.todo # <<>>
  /\ c.at \in {"load", "resolve"} => Len(c.todo) = 1
  /\ c.op \in {"remove", "update"} => c.todo # <<>>
  /\ c.at \in {"create"} \cup Placing =>
       Distinct(c.todo) /\ Named(c.todo) \cap Named(c.refs) = {}
  /\ c.at = "write" => c.refs # <<>>
  /\ c.at = "update" => Peer(c) \in Named(c.refs) /\ c.recs[Peer(c)] \in Rec
  /\ c.op = "remove" /\ c.at \in {"write"} \cup Written => Peer(c) \notin Named(c.refs)

Local(c) == Typed(c) /\ Staged(c) /\ Listed(c)

(* The types of what is in the device. *)
Store ==
  /\ keys \in [Peers -> Keys] /\ refs \in [Ids -> Seq(Peers)] /\ ids \subseteq Ids
  /\ \A i \in Ids : Distinct(refs[i])

Locals == Store /\ \A q \in Procs : Local(cmd[q])

(* The order a command about one peer works through. *)
LEMMA OneName ==
  \A t \in Seq(Peers) : Len(t) = 1 => t # <<>> /\ Distinct(t) /\ Named(t) = {Head(t)}
  <1> SUFFICES ASSUME NEW t \in Seq(Peers), Len(t) = 1
               PROVE  t # <<>> /\ Distinct(t) /\ Named(t) = {Head(t)}
    OBVIOUS
  <1>1. DOMAIN t = {1} /\ Head(t) = t[1]
    OBVIOUS
  <1>2. t # <<>>
    OBVIOUS
  <1> QED BY <1>1, <1>2 DEF Distinct, Named

(* An order that names nobody. *)
LEMMA NoNames == <<>> \in Seq(Peers) /\ Distinct(<<>>) /\ Named(<<>>) = {}
  BY DEF Distinct, Named

(* A command that has not begun. *)
LEMMA IdleFields ==
  /\ DOMAIN Idle = Fields /\ Idle.op = "none" /\ Idle.at = "idle" /\ Idle.id = Nobody
  /\ Idle.todo = <<>> /\ Idle.set \in Settings /\ Idle.psk = "none" /\ Idle.del = FALSE
  /\ Idle.created = FALSE /\ Idle.refs = <<>> /\ Idle.recs \in [Peers -> Keys]
  BY RepositoryAssumption DEF Idle, Fields, Keys

(* Nor has it anything out of order. *)
LEMMA IdleLocal == Local(Idle)
  BY IdleFields, NoNames
  DEF Local, Typed, Staged, Listed, Placing, Covering, Changing, Written

(* A command that has just begun names nothing yet. *)
LEMMA BegunLocal ==
  ASSUME NEW c, c.refs = <<>>, c.created = FALSE, c.recs = Idle.recs, c.set \in Settings,
         c.todo \in Seq(Peers), c.id \in Ids \cup {Nobody},
         \/ /\ c.op = "provision" /\ c.psk \in {"none", "new"} /\ c.todo # <<>> /\ Distinct(c.todo)
            /\ (c.at = "create" \/ (c.at = "place" /\ c.id \in Ids))
         \/ c.op = "add" /\ c.psk \in {"none", "new"} /\ c.at = "load" /\ Len(c.todo) = 1
         \/ c.op = "remove" /\ c.psk = "none" /\ c.at = "load" /\ Len(c.todo) = 1
         \/ c.op = "update" /\ c.psk \in {"none", "new", "keep"} /\ c.at = "load" /\ Len(c.todo) = 1
         \/ c.op = "wipe" /\ c.psk = "none" /\ c.at = "wipe"
  PROVE  Local(c)
  <1>1. Typed(c)
    BY IdleFields, NoNames DEF Typed
  <1>2. Staged(c)
    BY DEF Staged, Placing, Covering, Changing, Written
  <1>3. Len(c.todo) = 1 => c.todo # <<>>
    BY OneName
  <1>4. Listed(c)
    BY <1>3, NoNames DEF Listed, Placing, Written
  <1> QED BY <1>1, <1>2, <1>4 DEF Local

(* A command that failed has nothing left to do but take its key back. *)
LEMMA FailedLocal == ASSUME NEW c, Fits(c), Local(c) PROVE Local(Failed(c))
  <1>1. CASE c.created
    <2>1. PICK d : d = [c EXCEPT !.at = "rollback"]
      OBVIOUS
    <2>2. /\ d.at = "rollback" /\ d.op = c.op /\ d.id = c.id /\ d.set = c.set /\ d.psk = c.psk
          /\ d.refs = c.refs /\ d.todo = c.todo /\ d.recs = c.recs /\ d.created = c.created
      BY <2>1 DEF Fits, Fields
    <2>3. c.op = "provision" /\ c.id \in Ids
      BY <1>1 DEF Local, Staged, Covering
    <2>4. Typed(d) /\ Staged(d)
      BY <2>2, <2>3 DEF Local, Typed, Staged, Placing, Covering, Changing, Written
    <2>5. Listed(d)
      BY <2>2, <2>3 DEF Listed, Placing, Written
    <2> QED BY <1>1, <2>1, <2>4, <2>5 DEF Failed, Local
  <1>2. CASE ~c.created
    BY <1>2, IdleLocal DEF Failed
  <1> QED BY <1>1, <1>2

(* The next peer was placed, as k. *)
LEMMA PlacedFields ==
  ASSUME NEW c, Fits(c), Local(c), c.at \in {"import", "reread"}, NEW k \in Keys,
         NEW d \in Placed(c, k)
  PROVE  /\ d.op = c.op /\ d.id = c.id /\ d.set = c.set /\ d.psk = c.psk /\ d.del = c.del
         /\ d.created = c.created /\ d.todo = Tail(c.todo)
         /\ d.recs = [c.recs EXCEPT ![Peer(c)] = k]
         /\ d.at = IF Len(c.todo) = 1 THEN "write" ELSE "place"
         /\ d.refs \in Seq(Peers) /\ d.refs # <<>> /\ Distinct(d.refs)
         /\ Named(d.refs) = Named(c.refs) \cup {Peer(c)}
         /\ Peer(c) \in Peers /\ Peer(c) \notin Named(c.refs)
  <1>1. /\ c.todo \in Seq(Peers) /\ c.todo # <<>> /\ c.refs \in Seq(Peers) /\ Distinct(c.refs)
        /\ Named(c.todo) \cap Named(c.refs) = {}
    BY DEF Local, Typed, Listed, Placing
  <1>2. Peer(c) \in Peers /\ Peer(c) \notin Named(c.refs)
    BY <1>1, TailNames DEF Peer
  <1>3. PICK r \in {Append(c.refs, Peer(c)), <<Peer(c)>> \o c.refs} :
          d = [c EXCEPT !.todo = Tail(@), !.refs = r, !.recs[Peer(c)] = k,
                        !.at = IF Len(c.todo) = 1 THEN "write" ELSE "place"]
    BY DEF Placed
  <1>4. r \in Seq(Peers) /\ r # <<>> /\ Distinct(r) /\ Named(r) = Named(c.refs) \cup {Peer(c)}
    BY <1>1, <1>2, AppendNames, PrependNames
  <1>5. /\ d.op = c.op /\ d.id = c.id /\ d.set = c.set /\ d.psk = c.psk /\ d.del = c.del
        /\ d.created = c.created /\ d.todo = Tail(c.todo) /\ d.refs = r
        /\ d.recs = [c.recs EXCEPT ![Peer(c)] = k]
        /\ d.at = IF Len(c.todo) = 1 THEN "write" ELSE "place"
    BY <1>3 DEF Fits, Fields
  <1> QED BY <1>2, <1>4, <1>5

(* Placing a peer takes it from those to place to those placed. *)
LEMMA PlacedLocal ==
  ASSUME NEW c, Fits(c), Local(c), c.at \in {"import", "reread"}, NEW k \in Keys,
         NEW d \in Placed(c, k)
  PROVE  Local(d)
  <1>0. /\ d.op = c.op /\ d.id = c.id /\ d.set = c.set /\ d.psk = c.psk /\ d.del = c.del
        /\ d.created = c.created /\ d.todo = Tail(c.todo)
        /\ d.recs = [c.recs EXCEPT ![Peer(c)] = k]
        /\ d.at = IF Len(c.todo) = 1 THEN "write" ELSE "place"
        /\ d.refs \in Seq(Peers) /\ d.refs # <<>> /\ Distinct(d.refs)
        /\ Named(d.refs) = Named(c.refs) \cup {Peer(c)}
        /\ Peer(c) \in Peers /\ Peer(c) \notin Named(c.refs)
    BY PlacedFields, Zenon
  <1>1. /\ c.todo \in Seq(Peers) /\ c.todo # <<>> /\ Distinct(c.todo)
        /\ Named(c.todo) \cap Named(c.refs) = {} /\ c.op \in {"provision", "add"} /\ c.id \in Ids
    BY DEF Local, Typed, Listed, Staged, Placing, Covering
  <1>2. d.at \in {"write", "place"} /\ (d.at = "place" => d.todo # <<>>)
    BY <1>1, <1>0, TailNames
  <1>3. Typed(d)
    <2>1. d.todo \in Seq(Peers)
      BY <1>1, <1>0, TailNames
    <2>2. d.recs \in [Peers -> Keys]
      BY <1>0 DEF Local, Typed
    <2> QED BY <2>1, <2>2, <1>0 DEF Local, Typed
  <1>4. Staged(d)
    <2>1. d.op = c.op /\ d.psk = c.psk /\ d.created = c.created /\ d.id = c.id
      BY <1>0
    <2> QED BY <1>1, <1>2, <2>1 DEF Local, Staged, Placing, Covering, Changing, Written
  <1>5. Listed(d)
    <2>1. Distinct(d.todo) /\ Named(d.todo) \cap Named(d.refs) = {}
      BY <1>1, <1>0, TailNames DEF Peer
    <2>2. d.refs # <<>> /\ d.op = c.op
      BY <1>0
    <2> QED BY <1>1, <1>2, <2>1, <2>2 DEF Listed, Placing, Written
  <1> QED BY <1>3, <1>4, <1>5 DEF Local

(* What the command makes of the tree it loaded, if it applies. *)
LEMMA LoadedFields ==
  ASSUME NEW c, Fits(c), Local(c), c.at = "resolve", Loaded(c) # Idle
  PROVE  /\ Loaded(c).op = c.op /\ Loaded(c).id = c.id /\ Loaded(c).set = c.set
         /\ Loaded(c).psk = c.psk /\ Loaded(c).del = c.del /\ Loaded(c).created = c.created
         /\ Loaded(c).todo = c.todo /\ Loaded(c).recs = c.recs
         /\ Loaded(c).refs \in Seq(Peers) /\ Distinct(Loaded(c).refs)
         /\ Named(Loaded(c).refs) \subseteq Named(c.refs)
         /\ \/ /\ c.op = "add" /\ Loaded(c).at = "place" /\ Loaded(c).refs = c.refs
               /\ Peer(c) \notin Named(c.refs)
            \/ /\ c.op = "remove" /\ Loaded(c).at = "write" /\ Loaded(c).refs # <<>>
               /\ Peer(c) \notin Named(Loaded(c).refs)
            \/ /\ c.op = "update" /\ Loaded(c).at = "update" /\ Loaded(c).refs = c.refs
               /\ Peer(c) \in Named(c.refs)
  <1>1. PICK d : d = Loaded(c)
    OBVIOUS
  <1>2. PICK p : p = Peer(c)
    OBVIOUS
  <1>3. c.refs \in Seq(Peers) /\ Distinct(c.refs)
    BY DEF Local, Typed
  <1>4. CASE c.op = "add" /\ p \notin Named(c.refs) /\ Len(c.refs) < MaxPeers
    <2>1. d = [c EXCEPT !.at = "place"]
      BY <1>1, <1>2, <1>4 DEF Loaded
    <2>2. /\ d.op = c.op /\ d.id = c.id /\ d.set = c.set /\ d.psk = c.psk /\ d.del = c.del
          /\ d.created = c.created /\ d.todo = c.todo /\ d.recs = c.recs
          /\ d.refs = c.refs /\ d.at = "place"
      BY <2>1 DEF Fits, Fields
    <2> QED BY <1>1, <1>2, <1>3, <1>4, <2>2
  <1>5. CASE c.op = "remove" /\ p \in Named(c.refs) /\ Len(c.refs) > 1
    <2>1. d = [c EXCEPT !.at = "write", !.refs = RemoveFirst(@, p)]
      BY <1>1, <1>2, <1>5 DEF Loaded
    <2>2. /\ d.op = c.op /\ d.id = c.id /\ d.set = c.set /\ d.psk = c.psk /\ d.del = c.del
          /\ d.created = c.created /\ d.todo = c.todo /\ d.recs = c.recs
          /\ d.refs = RemoveFirst(c.refs, p) /\ d.at = "write"
      BY <2>1 DEF Fits, Fields
    <2>3. d.refs \in Seq(Peers) /\ d.refs # <<>> /\ Distinct(d.refs) /\ Named(d.refs) \subseteq Named(c.refs) \ {p}
      BY <1>3, <1>5, <2>2, RemoveNames
    <2> QED BY <1>1, <1>2, <1>5, <2>2, <2>3
  <1>6. CASE c.op = "update" /\ p \in Named(c.refs)
    <2>1. d = [c EXCEPT !.at = "update"]
      BY <1>1, <1>2, <1>6 DEF Loaded
    <2>2. /\ d.op = c.op /\ d.id = c.id /\ d.set = c.set /\ d.psk = c.psk /\ d.del = c.del
          /\ d.created = c.created /\ d.todo = c.todo /\ d.recs = c.recs
          /\ d.refs = c.refs /\ d.at = "update"
      BY <2>1 DEF Fits, Fields
    <2> QED BY <1>1, <1>2, <1>3, <1>6, <2>2
  <1>7. CASE /\ ~(c.op = "add" /\ p \notin Named(c.refs) /\ Len(c.refs) < MaxPeers)
             /\ ~(c.op = "remove" /\ p \in Named(c.refs) /\ Len(c.refs) > 1)
             /\ ~(c.op = "update" /\ p \in Named(c.refs))
    BY <1>2, <1>7 DEF Loaded
  <1> QED BY <1>4, <1>5, <1>6, <1>7

(* The tree it loaded is one it may work on. *)
LEMMA LoadedLocal ==
  ASSUME NEW c, Fits(c), Local(c), c.at = "resolve", \A p \in Named(c.refs) : c.recs[p] \in Rec
  PROVE  Local(Loaded(c))
  <1> SUFFICES ASSUME Loaded(c) # Idle PROVE Local(Loaded(c))
    BY IdleLocal
  <1>1. PICK d : d = Loaded(c)
    OBVIOUS
  <1>2. /\ d.op = c.op /\ d.id = c.id /\ d.set = c.set
        /\ d.psk = c.psk /\ d.del = c.del /\ d.created = c.created
        /\ d.todo = c.todo /\ d.recs = c.recs
        /\ d.refs \in Seq(Peers) /\ Distinct(d.refs)
        /\ \/ c.op = "add" /\ d.at = "place" /\ d.refs = c.refs /\ Peer(c) \notin Named(c.refs)
           \/ /\ c.op = "remove" /\ d.at = "write" /\ d.refs # <<>>
              /\ Peer(c) \notin Named(d.refs)
           \/ /\ c.op = "update" /\ d.at = "update" /\ d.refs = c.refs
              /\ Peer(c) \in Named(c.refs)
    BY <1>1, LoadedFields, Zenon
  <1>3. c.id \in Ids /\ ~c.created /\ Len(c.todo) = 1 /\ c.todo \in Seq(Peers)
    BY DEF Local, Typed, Staged, Listed, Placing, Covering, Changing
  <1>4. Typed(d)
    BY <1>2 DEF Local, Typed
  <1>5. Staged(d)
    BY <1>2, <1>3 DEF Local, Staged, Placing, Covering, Changing, Written
  <1>6. Peer(d) = Peer(c)
    BY <1>2 DEF Peer
  <1>7. c.todo # <<>> /\ Distinct(c.todo) /\ Named(c.todo) = {Peer(c)}
    BY <1>3, OneName DEF Peer
  <1>8. Listed(d)
    BY <1>2, <1>6, <1>7 DEF Listed, Placing, Written
  <1> QED BY <1>1, <1>4, <1>5, <1>8 DEF Local

(* The tree was read into the command (Resolve). *)
LEMMA ReadLocal ==
  ASSUME NEW c, NEW e, Local(c), c.at = "resolve", e.recs \in [Peers -> Keys],
         e.op = c.op, e.set = c.set, e.psk = c.psk, e.refs = c.refs, e.at = c.at,
         e.todo = c.todo, e.id = c.id, e.created = c.created
  PROVE  Local(e)
  <1>1. Typed(e)
    BY DEF Local, Typed
  <1>2. Staged(e)
    BY DEF Local, Staged
  <1>3. Listed(e)
    BY DEF Local, Listed, Placing, Written
  <1> QED BY <1>1, <1>2, <1>3 DEF Local

(* What the device stores of a peer. *)
LEMMA WantedIsRecord ==
  ASSUME NEW c, Local(c), c.at \in {"place", "import", "reread"}
  PROVE  Wanted(c) \in Rec /\ Wanted(c).psk \in {c.id, Nobody}
  <1>1. c.id \in Ids /\ c.set \in Settings /\ c.psk \in {"none", "new"}
    BY DEF Local, Typed, Staged, Placing, Covering
  <1> QED BY <1>1 DEF Wanted, Rec

(* So is what an update makes of one; a key it keeps stays wrapped as it was. *)
LEMMA UpdatedIsRecord ==
  ASSUME NEW c, Local(c), c.at = "update", c.op = "update"
  PROVE  /\ Wanted(c) \in Rec /\ Peer(c) \in Peers
         /\ c.recs[Peer(c)].psk \in {c.id, Nobody} => Wanted(c).psk \in {c.id, Nobody}
  <1>1. c.id \in Ids /\ c.set \in Settings /\ c.psk \in {"none", "new", "keep"}
    BY DEF Local, Typed, Staged, Covering
  <1>2. c.recs[Peer(c)].psk \in Ids \cup {Nobody}
    BY DEF Local, Listed, Rec
  <1>3. Peer(c) \in Peers
    BY DEF Local, Listed, Typed, Named
  <1> QED BY <1>1, <1>2, <1>3 DEF Wanted, Rec

(* A call that moves a command on and leaves its peers as they are. *)
LEMMA MovedLocal ==
  ASSUME NEW c, NEW d, Local(c), d.op = c.op, d.set = c.set, d.psk = c.psk, d.refs = c.refs,
         d.todo = c.todo, d.recs = c.recs, d.id = c.id,
         \/ c.at = "place" /\ d.at \in {"import", "reread"} /\ d.created = c.created
         \/ c.at = "write" /\ d.at = "verify" /\ d.created = FALSE
         \/ c.at = "verify" /\ d.at \in {"delete", "done"} /\ d.created = c.created
         \/ c.at = "delete" /\ d.at = "done" /\ d.created = c.created
         \/ c.at = "wipe" /\ d.at \in {"wipe", "done"} /\ c.op = "wipe" /\ d.created = c.created
  PROVE  Local(d)
  <1>1. Typed(d)
    BY DEF Local, Typed
  <1>2. Staged(d)
    BY DEF Local, Staged, Placing, Covering, Changing, Written
  <1>3. Peer(d) = Peer(c)
    BY DEF Peer
  <1>4. Listed(d)
    BY <1>3 DEF Local, Listed, Placing, Written
  <1> QED BY <1>1, <1>2, <1>4 DEF Local

(* A search picked the interface record the command is to work on. *)
LEMMA LoadLocal ==
  ASSUME Store, NEW c, Fits(c), Local(c), c.at = "load", NEW i \in Ids,
         NEW d, d = [c EXCEPT !.at = "resolve", !.id = i, !.refs = refs[i], !.sum = mac[i]]
  PROVE  Local(d)
  <1>1. /\ d.at = "resolve" /\ d.op = c.op /\ d.id = i /\ d.set = c.set /\ d.psk = c.psk
        /\ d.refs = refs[i] /\ d.todo = c.todo /\ d.recs = c.recs /\ d.created = c.created
    BY DEF Fits, Fields
  <1>2. refs[i] \in Seq(Peers) /\ Distinct(refs[i])
    BY DEF Store
  <1>3. Typed(d)
    BY <1>1, <1>2 DEF Local, Typed
  <1>4. Staged(d)
    BY <1>1 DEF Local, Staged, Placing, Covering, Changing, Written
  <1>5. Listed(d)
    BY <1>1 DEF Local, Listed, Placing, Written
  <1> QED BY <1>3, <1>4, <1>5 DEF Local

(* The key of a new identity was made. *)
LEMMA CreateLocal ==
  ASSUME NEW c, Fits(c), Local(c), c.at = "create", NEW i \in Ids,
         NEW d, d = [c EXCEPT !.at = "place", !.id = i, !.created = TRUE]
  PROVE  Local(d)
  <1>1. /\ d.at = "place" /\ d.op = c.op /\ d.id = i /\ d.set = c.set /\ d.psk = c.psk
        /\ d.refs = c.refs /\ d.todo = c.todo /\ d.recs = c.recs /\ d.created = TRUE
    BY DEF Fits, Fields
  <1>2. Typed(d)
    BY <1>1 DEF Local, Typed
  <1>3. Staged(d)
    BY <1>1 DEF Local, Staged, Placing, Covering, Changing, Written
  <1>4. Listed(d)
    BY <1>1 DEF Local, Listed, Staged, Placing, Written
  <1> QED BY <1>2, <1>3, <1>4 DEF Local

(* The record of the peer was rewritten. *)
LEMMA UpdateLocal ==
  ASSUME NEW c, Fits(c), Local(c), c.at = "update",
         NEW d, d = [c EXCEPT !.at = "write", !.recs[Peer(c)] = Wanted(c)]
  PROVE  Local(d)
  <1>1. /\ d.at = "write" /\ d.op = c.op /\ d.id = c.id /\ d.set = c.set /\ d.psk = c.psk
        /\ d.refs = c.refs /\ d.todo = c.todo /\ d.created = c.created
        /\ d.recs = [c.recs EXCEPT ![Peer(c)] = Wanted(c)]
    BY DEF Fits, Fields
  <1>2. c.op = "update" /\ c.refs # <<>>
    BY DEF Fits, OpFits, Local, Listed, Named
  <1>3. Typed(d)
    <2>1. d.recs \in [Peers -> Keys]
      BY <1>1, <1>2, UpdatedIsRecord DEF Local, Typed, Keys
    <2> QED BY <1>1, <2>1 DEF Local, Typed
  <1>4. Staged(d)
    BY <1>1, <1>2 DEF Local, Staged, Placing, Covering, Changing, Written
  <1>5. Listed(d)
    BY <1>1, <1>2 DEF Local, Listed, Placing, Written
  <1> QED BY <1>3, <1>4, <1>5 DEF Local

(* A command that has read nothing yet. *)
Fresh(c) ==
  /\ c.refs = <<>>
  /\ c.at \in {"create", "load", "wipe"} \/ (c.at = "place" /\ c.op = "provision")

(* Every command begins with its own variables in order. *)
LEMMA BeginsLocal ==
  ASSUME Store, NEW q \in Procs, Begins(q)
  PROVE  \E c : Local(c) /\ Fresh(c) /\ Begin(q, c)
  <1>1. CASE BeginProvision(q)
    <2>1. PICK i \in ids \cup {Nobody}, r \in Orders, s \in Settings, k \in {"none", "new"},
               a \in BOOLEAN :
            Begin(q, [Idle EXCEPT !.op = "provision",
                         !.at = IF i = Nobody THEN "create" ELSE "place",
                         !.id = i, !.todo = r, !.set = s, !.psk = k, !.adopt = a])
      BY <1>1 DEF BeginProvision
    <2>2. PICK c : c = [Idle EXCEPT !.op = "provision",
                         !.at = IF i = Nobody THEN "create" ELSE "place",
                         !.id = i, !.todo = r, !.set = s, !.psk = k, !.adopt = a]
      OBVIOUS
    <2>3. /\ c.op = "provision" /\ c.at = (IF i = Nobody THEN "create" ELSE "place") /\ c.id = i
          /\ c.todo = r /\ c.set = s /\ c.psk = k /\ c.refs = <<>> /\ c.created = FALSE
          /\ c.recs = Idle.recs
      BY <2>2, IdleFields DEF Fields
    <2>4. r \in Seq(Peers) /\ r # <<>> /\ Distinct(r)
      <3>1. PICK n \in 1 .. MaxPeers : r \in [1 .. n -> Peers]
        BY DEF Orders
      <3>2. n \in Nat /\ n # 0
        BY RepositoryAssumption
      <3>3. r \in Seq(Peers) /\ r # <<>>
        BY <3>1, <3>2
      <3> QED BY <3>3 DEF Orders, Distinct
    <2>5. c.id \in Ids \cup {Nobody} /\ (c.at = "create" \/ (c.at = "place" /\ c.id \in Ids))
      BY <2>3 DEF Store
    <2>6. Local(c)
      BY <2>3, <2>4, <2>5, BegunLocal
    <2> QED BY <2>1, <2>2, <2>3, <2>6 DEF Fresh
  <1>2. CASE BeginAdd(q)
    <2>1. PICK p \in Peers, s \in Settings, k \in {"none", "new"}, a \in BOOLEAN :
            Begin(q, [Idle EXCEPT !.op = "add", !.at = "load", !.todo = <<p>>, !.set = s,
                         !.psk = k, !.adopt = a])
      BY <1>2 DEF BeginAdd
    <2>2. PICK c : c = [Idle EXCEPT !.op = "add", !.at = "load", !.todo = <<p>>, !.set = s,
                         !.psk = k, !.adopt = a]
      OBVIOUS
    <2>3. /\ c.op = "add" /\ c.at = "load" /\ c.id = Nobody /\ c.todo = <<p>> /\ c.set = s
          /\ c.psk = k /\ c.refs = <<>> /\ c.created = FALSE /\ c.recs = Idle.recs
      BY <2>2, IdleFields DEF Fields
    <2>4. <<p>> \in Seq(Peers) /\ Len(<<p>>) = 1
      OBVIOUS
    <2>5. Local(c)
      BY <2>3, <2>4, BegunLocal
    <2> QED BY <2>1, <2>2, <2>3, <2>5 DEF Fresh
  <1>3. CASE BeginRemove(q)
    <2>1. PICK p \in Peers, d \in BOOLEAN :
            Begin(q, [Idle EXCEPT !.op = "remove", !.at = "load", !.todo = <<p>>, !.del = d])
      BY <1>3 DEF BeginRemove
    <2>2. PICK c : c = [Idle EXCEPT !.op = "remove", !.at = "load", !.todo = <<p>>, !.del = d]
      OBVIOUS
    <2>3. /\ c.op = "remove" /\ c.at = "load" /\ c.id = Nobody /\ c.todo = <<p>>
          /\ c.set \in Settings /\ c.psk = "none" /\ c.refs = <<>> /\ c.created = FALSE
          /\ c.recs = Idle.recs
      BY <2>2, IdleFields DEF Fields
    <2>4. <<p>> \in Seq(Peers) /\ Len(<<p>>) = 1
      OBVIOUS
    <2>5. Local(c)
      BY <2>3, <2>4, BegunLocal
    <2> QED BY <2>1, <2>2, <2>3, <2>5 DEF Fresh
  <1>4. CASE BeginUpdate(q)
    <2>1. PICK p \in Peers, s \in Settings, k \in {"none", "new", "keep"} :
            Begin(q, [Idle EXCEPT !.op = "update", !.at = "load", !.todo = <<p>>, !.set = s,
                         !.psk = k])
      BY <1>4 DEF BeginUpdate
    <2>2. PICK c : c = [Idle EXCEPT !.op = "update", !.at = "load", !.todo = <<p>>, !.set = s,
                         !.psk = k]
      OBVIOUS
    <2>3. /\ c.op = "update" /\ c.at = "load" /\ c.id = Nobody /\ c.todo = <<p>>
          /\ c.set = s /\ c.psk = k /\ c.refs = <<>> /\ c.created = FALSE
          /\ c.recs = Idle.recs
      BY <2>2, IdleFields DEF Fields
    <2>4. <<p>> \in Seq(Peers) /\ Len(<<p>>) = 1
      OBVIOUS
    <2>5. Local(c)
      BY <2>3, <2>4, BegunLocal
    <2> QED BY <2>1, <2>2, <2>3, <2>5 DEF Fresh
  <1>5. CASE BeginWipe(q)
    <2> DEFINE w(ps, is) == [Idle EXCEPT !.op = "wipe", !.at = "wipe", !.left = ps, !.ifs = is]
    <2>1. PICK ps, is : Begin(q, w(ps, is))
      BY <1>5 DEF BeginWipe
    <2>2. PICK c : c = w(ps, is)
      OBVIOUS
    <2>3. /\ c.op = "wipe" /\ c.at = "wipe" /\ c.id = Nobody /\ c.todo = <<>>
          /\ c.set \in Settings /\ c.psk = "none" /\ c.refs = <<>> /\ c.created = FALSE
          /\ c.recs = Idle.recs
      BY <2>2, IdleFields DEF Fields
    <2>4. Local(c)
      BY <2>3, NoNames, BegunLocal
    <2> QED BY <2>1, <2>2, <2>3, <2>4 DEF Fresh
  <1> QED BY <1>1, <1>2, <1>3, <1>4, <1>5 DEF Begins

(* Where the command's answer may be lost, it goes on or it has failed. *)
LEMMA AnsweredLocal ==
  ASSUME Shape, Locals, NEW q \in Procs, NEW ok, Answered(q, ok), Local(ok)
  PROVE  \E c : Local(c) /\ Goto(q, c)
  <1>1. Local(Failed(cmd[q]))
    BY FailedLocal DEF Shape, Locals
  <1> QED BY <1>1 DEF Answered

(* The steps of a command leave the peers it works on in order. *)
LEMMA LocalsStep ==
  ASSUME Shape, Locals, [Next]_vars
  PROVE  Locals'
  <1>1. CASE UNCHANGED vars
    BY <1>1 DEF Locals, Store, vars, device
  <1>2. ASSUME NEW q \in Procs, \E c : Local(c) /\ Goto(q, c), Store' PROVE Locals'
    <2>1. PICK c : Local(c) /\ Goto(q, c)
      BY <1>2
    <2>2. \A o \in Procs : Local(cmd'[o])
      BY <2>1 DEF Goto, Shape, Locals
    <2> QED BY <1>2, <2>2 DEF Locals
  <1>3. UNCHANGED device => Store'
    BY DEF Locals, Store, device
  <1>4. ASSUME NEW i, DeleteIdentity(i) PROVE Store'
    <2>1. keys' \in [Peers -> Keys] /\ ids' \subseteq Ids
      BY <1>4 DEF DeleteIdentity, Locals, Store
    <2>2. refs' \in [Ids -> Seq(Peers)] /\ \A o \in Ids : Distinct(refs'[o])
      BY <1>4, NoNames DEF DeleteIdentity, Locals, Store
    <2> QED BY <2>1, <2>2 DEF Store
  <1>5. ASSUME NEW p, NEW k \in Keys, keys' = [keys EXCEPT ![p] = k],
               UNCHANGED <<ids, refs>>
        PROVE  Store'
    BY <1>5 DEF Locals, Store
  <1>6. ASSUME NEW q \in Procs, Begins(q) PROVE Locals'
    <2>1. PICK c : Local(c) /\ Begin(q, c)
      BY <1>6, BeginsLocal DEF Locals
    <2> QED BY <1>2, <1>3, <2>1 DEF Begin
  <1>7. ASSUME NEW q \in Procs PROVE Fits(cmd[q]) /\ Local(cmd[q])
    BY DEF Shape, Locals
  <1>8. ASSUME NEW q \in Procs, Ends(q) PROVE Locals'
    <2>1. CASE Fails(q)
      BY <1>2, <1>3, <1>7, <2>1, FailedLocal DEF Fails
    <2>2. CASE Interrupt(q) \/ Return(q)
      BY <1>2, <1>3, <2>2, IdleLocal DEF Interrupt, Return
    <2>3. CASE Rollback(q)
      <3>1. Goto(q, Idle) /\ cmd[q].id \in Ids
        BY <1>7, <2>3 DEF Rollback, Local, Staged
      <3>2. Store'
        BY <1>3, <1>4, <2>3, <3>1 DEF Rollback
      <3> QED BY <1>2, <3>1, <3>2, IdleLocal
    <2> QED BY <1>8, <2>1, <2>2, <2>3 DEF Ends
  <1>9. ASSUME NEW q \in Procs, Places(q) PROVE Locals'
    <2> DEFINE c == cmd[q]
    <2>1. Fits(c) /\ Local(c)
      BY <1>7
    <2>2. CASE Create(q)
      <3>1. PICK i \in Ids : /\ ids' = ids \cup {i}
                             /\ Answered(q, [c EXCEPT !.at = "place", !.id = i, !.created = TRUE])
        BY <2>2 DEF Create
      <3>2. Local([c EXCEPT !.at = "place", !.id = i, !.created = TRUE])
        BY <2>1, <2>2, CreateLocal DEF Create
      <3>3. Store'
        BY <2>2, <3>1 DEF Create, Locals, Store
      <3> HIDE DEF c
      <3> QED BY <1>2, <3>1, <3>2, <3>3, AnsweredLocal
    <2>3. CASE Place(q)
      <3>1. PICK d \in {[c EXCEPT !.at = "import"], [c EXCEPT !.at = "reread"]} : Goto(q, d)
        BY <2>3 DEF Place
      <3>2. /\ d.op = c.op /\ d.set = c.set /\ d.psk = c.psk /\ d.refs = c.refs
            /\ d.todo = c.todo /\ d.recs = c.recs /\ d.id = c.id /\ d.created = c.created
            /\ d.at \in {"import", "reread"}
        BY <2>1 DEF Fits, Fields
      <3>3. c.at = "place" /\ UNCHANGED device
        BY <2>3 DEF Place
      <3>4. Local(d)
        BY <2>1, <3>2, <3>3, MovedLocal
      <3> QED BY <1>2, <1>3, <3>1, <3>3, <3>4
    <2>4. CASE Import(q)
      <3>1. c.at = "import" /\ Wanted(c) \in Keys /\ Peer(c) \in Peers
        BY <2>1, <2>4, WantedIsRecord, TailNames
        DEF Import, Keys, Peer, Local, Typed, Listed, Placing
      <3>2. PICK d \in Placed(c, Wanted(c)) : Answered(q, d)
        BY <2>4 DEF Import
      <3>3. Local(d)
        BY <2>1, <3>1, PlacedLocal
      <3>4. Store'
        BY <1>5, <2>4, <3>1 DEF Import
      <3> HIDE DEF c
      <3> QED BY <1>2, <3>2, <3>3, <3>4, AnsweredLocal
    <2>5. CASE Reread(q)
      <3>1. c.at = "reread" /\ keys[Peer(c)] \in Keys
        BY <2>5 DEF Reread, Keys
      <3>2. PICK d \in Placed(c, keys[Peer(c)]) : Goto(q, d)
        BY <2>5 DEF Reread
      <3>3. Local(d)
        BY <2>1, <3>1, PlacedLocal
      <3> QED BY <1>2, <1>3, <2>5, <3>2, <3>3 DEF Reread
    <2> QED BY <1>9, <2>2, <2>3, <2>4, <2>5 DEF Places
  <1>10. ASSUME NEW q \in Procs, Changes(q) PROVE Locals'
    <2> DEFINE c == cmd[q]
    <2>1. Fits(c) /\ Local(c)
      BY <1>7
    <2>2. CASE Load(q)
      <3>1. PICK i \in Ids :
              Goto(q, [c EXCEPT !.at = "resolve", !.id = i, !.refs = refs[i], !.sum = mac[i]])
        BY <2>2 DEF Load
      <3>2. PICK d : d = [c EXCEPT !.at = "resolve", !.id = i, !.refs = refs[i], !.sum = mac[i]]
        OBVIOUS
      <3>3. Local(d)
        BY <2>1, <2>2, <3>2, LoadLocal DEF Load, Locals
      <3> QED BY <1>2, <1>3, <2>2, <3>1, <3>2, <3>3 DEF Load
    <2>3. CASE Resolve(q)
      <3>1. PICK tree : tree = Canonical(c.id, c.refs, keys)
        OBVIOUS
      <3>2. PICK e : e = [c EXCEPT !.recs = tree[3], !.sum = NoMac]
        OBVIOUS
      <3>3. c.at = "resolve" /\ UNCHANGED device /\ Goto(q, Loaded(e))
            /\ \A p \in Named(c.refs) : keys[p] \in Rec
        BY <2>3, <3>1, <3>2 DEF Resolve
      <3>4. /\ e.op = c.op /\ e.set = c.set /\ e.psk = c.psk /\ e.refs = c.refs /\ e.at = c.at
            /\ e.todo = c.todo /\ e.recs = tree[3] /\ e.id = c.id /\ e.created = c.created
            /\ Fits(e)
        BY <2>1, <3>2 DEF Fits, OpFits, Fields
      <3>5. tree[3] = [p \in Peers |-> IF p \in Named(c.refs) THEN keys[p] ELSE Absent]
        BY <3>1 DEF Canonical
      <3>6. tree[3] \in [Peers -> Keys]
        BY <3>5 DEF Locals, Store, Keys
      <3>7. Local(e)
        BY <2>1, <3>3, <3>4, <3>6, ReadLocal
      <3>8. Named(c.refs) \subseteq Peers
        BY <2>1 DEF Local, Typed, Named
      <3>9. \A p \in Named(e.refs) : e.recs[p] \in Rec
        BY <3>3, <3>4, <3>5, <3>8
      <3>10. Local(Loaded(e))
        BY <3>3, <3>4, <3>7, <3>9, LoadedLocal
      <3> QED BY <1>2, <1>3, <3>3, <3>10
    <2>4. CASE UpdatePeer(q)
      <3>1. c.at = "update" /\ c.op = "update"
        BY <2>1, <2>4 DEF UpdatePeer, Fits, OpFits
      <3>2. Wanted(c) \in Keys /\ Peer(c) \in Peers
        BY <2>1, <3>1, UpdatedIsRecord DEF Keys
      <3>3. Store'
        BY <1>5, <2>4, <3>2 DEF UpdatePeer
      <3>4. PICK d : d = [c EXCEPT !.at = "write", !.recs[Peer(c)] = Wanted(c)]
        OBVIOUS
      <3>5. Local(d) /\ Answered(q, d)
        BY <2>1, <2>4, <3>1, <3>4, UpdateLocal DEF UpdatePeer
      <3> HIDE DEF c
      <3> QED BY <1>2, <3>3, <3>5, AnsweredLocal
    <2>5. CASE Write(q)
      <3>1. PICK d : d = [c EXCEPT !.at = "verify", !.created = FALSE]
        OBVIOUS
      <3>2. /\ d.op = c.op /\ d.set = c.set /\ d.psk = c.psk /\ d.refs = c.refs
            /\ d.todo = c.todo /\ d.recs = c.recs /\ d.id = c.id /\ d.created = FALSE
            /\ d.at = "verify"
        BY <2>1, <3>1 DEF Fits, Fields
      <3>3. c.at = "write" /\ Answered(q, d)
        BY <2>5, <3>1 DEF Write
      <3>4. Local(d)
        BY <2>1, <3>2, <3>3, MovedLocal
      <3>5. Store'
        <4>1. c.refs \in Seq(Peers) /\ Distinct(c.refs)
          BY <2>1 DEF Local, Typed
        <4>2. refs' \in [Ids -> Seq(Peers)] /\ \A o \in Ids : Distinct(refs'[o])
          BY <2>5, <4>1 DEF Write, Locals, Store
        <4> QED BY <2>5, <4>2 DEF Write, Locals, Store
      <3> HIDE DEF c
      <3> QED BY <1>2, <3>3, <3>4, <3>5, AnsweredLocal
    <2>6. CASE Verify(q)
      <3>1. PICK d : d = [c EXCEPT !.at = IF c.del THEN "delete" ELSE "done"]
        OBVIOUS
      <3>2. /\ d.op = c.op /\ d.set = c.set /\ d.psk = c.psk /\ d.refs = c.refs
            /\ d.todo = c.todo /\ d.recs = c.recs /\ d.id = c.id /\ d.created = c.created
            /\ d.at \in {"delete", "done"}
        BY <2>1, <3>1 DEF Fits, Fields
      <3>3. c.at = "verify" /\ Goto(q, d) /\ UNCHANGED device
        BY <2>6, <3>1 DEF Verify
      <3>4. Local(d)
        BY <2>1, <3>2, <3>3, MovedLocal
      <3> QED BY <1>2, <1>3, <3>3, <3>4
    <2>7. CASE DeletePeer(q)
      <3>1. PICK d : d = [c EXCEPT !.at = "done"]
        OBVIOUS
      <3>2. /\ d.op = c.op /\ d.set = c.set /\ d.psk = c.psk /\ d.refs = c.refs
            /\ d.todo = c.todo /\ d.recs = c.recs /\ d.id = c.id /\ d.created = c.created
            /\ d.at = "done"
        BY <2>1, <3>1 DEF Fits, Fields
      <3>3. c.at = "delete" /\ Answered(q, d) /\ c.op = "remove"
        BY <2>1, <2>7, <3>1 DEF DeletePeer, Fits, OpFits
      <3>4. Local(d)
        BY <2>1, <3>2, <3>3, MovedLocal
      <3>5. Peer(c) \in Peers
        BY <2>1, <3>3, TailNames DEF Peer, Local, Typed, Listed
      <3>6. Store'
        BY <1>5, <2>7, <3>5 DEF DeletePeer, Keys
      <3> HIDE DEF c
      <3> QED BY <1>2, <3>3, <3>4, <3>6, AnsweredLocal
    <2> QED BY <1>10, <2>2, <2>3, <2>4, <2>5, <2>6, <2>7 DEF Changes
  <1>11. ASSUME NEW q \in Procs, Wipes(q) PROVE Locals'
    <2> DEFINE c == cmd[q]
    <2>1. Fits(c) /\ Local(c) /\ c.at = "wipe" /\ c.op = "wipe"
      BY <1>7, <1>11 DEF Wipes, WipePeer, WipeIdentity, Wiped, Fits, OpFits
    <2>2. ASSUME NEW l,
                 NEW d \in {[c EXCEPT !.at = "done"], [c EXCEPT !.left = l], [c EXCEPT !.ifs = l]}
          PROVE  Local(d)
      <3>1. /\ d.op = c.op /\ d.set = c.set /\ d.psk = c.psk /\ d.refs = c.refs
            /\ d.todo = c.todo /\ d.recs = c.recs /\ d.id = c.id /\ d.created = c.created
            /\ d.at \in {"wipe", "done"}
        BY <2>1, <2>2 DEF Fits, Fields
      <3> QED BY <2>1, <3>1, MovedLocal
    <2>3. CASE WipePeer(q)
      <3>1. PICK p \in c.left : /\ keys' = [keys EXCEPT ![p] = Absent]
                                /\ Answered(q, [c EXCEPT !.left = @ \ {p}])
        BY <2>3 DEF WipePeer
      <3>2. Local([c EXCEPT !.left = c.left \ {p}])
        BY <2>2
      <3>3. Store'
        BY <1>5, <2>3, <3>1 DEF WipePeer, Keys
      <3> HIDE DEF c
      <3> QED BY <1>2, <3>1, <3>2, <3>3, AnsweredLocal
    <2>4. CASE WipeIdentity(q)
      <3>1. PICK i \in c.ifs \cap ids : /\ DeleteIdentity(i)
                                        /\ Answered(q, [c EXCEPT !.ifs = @ \ {i}])
        BY <2>4 DEF WipeIdentity
      <3>2. Local([c EXCEPT !.ifs = c.ifs \ {i}])
        BY <2>2
      <3>3. Store'
        BY <1>4, <3>1 DEF Locals, Store
      <3> HIDE DEF c
      <3> QED BY <1>2, <3>1, <3>2, <3>3, AnsweredLocal
    <2>5. CASE Wiped(q)
      <3>1. Goto(q, [c EXCEPT !.at = "done"]) /\ UNCHANGED device
        BY <2>5 DEF Wiped
      <3>2. Local([c EXCEPT !.at = "done"])
        BY <2>2
      <3> QED BY <1>2, <1>3, <3>1, <3>2
    <2> QED BY <1>11, <2>3, <2>4, <2>5 DEF Wipes
  <1> QED BY <1>1, <1>6, <1>8, <1>9, <1>10, <1>11 DEF Next

(* Every command keeps its locals in order, whatever the others do. *)
LEMMA LocalsInvariant == Spec => []Locals
<1>1. Init => Locals
  <2> SUFFICES ASSUME Init PROVE Locals
    OBVIOUS
  <2>1. keys \in [Peers -> Keys] /\ ids \subseteq Ids
    BY DEF Init, Keys
  <2>2. refs \in [Ids -> Seq(Peers)] /\ \A i \in Ids : Distinct(refs[i])
    BY NoNames DEF Init
  <2>3. \A q \in Procs : Local(cmd[q])
    BY IdleLocal DEF Init
  <2> QED BY <2>1, <2>2, <2>3 DEF Locals, Store
<1>2. Shape /\ Locals /\ [Next]_vars => Locals'
  BY LocalsStep
<1> QED
  BY <1>1, <1>2, ShapeInvariant, PTL DEF Spec

-----------------------------------------------------------------------------
(* Keys that no record names.                                              *)

Pending(i) == \E q \in Procs : cmd[q].created /\ cmd[q].id = i

(* A key without a record is one a provision at work will take back or name *)
(* to its caller, or one that has been named.                               *)
Accounted == ~cut => \A i \in ids : refs[i] = <<>> => i \in told \/ Pending(i)

(* A step of q makes no key nameless: no key is new, no record goes but     *)
(* with its key, and a key that q has made stays its concern or is told,    *)
(* gone, or named by a record.                                              *)
LEMMA AccountedKept ==
  ASSUME Shape, Accounted, NEW q \in Procs, NEW d, Goto(q, d), UNCHANGED cut,
         ids' \subseteq ids, told \subseteq told',
         \A i \in ids' : refs'[i] = <<>> => refs[i] = <<>>,
         cmd[q].created => \/ d.created /\ d.id = cmd[q].id
                           \/ cmd[q].id \in told'
                           \/ cmd[q].id \notin ids'
                           \/ refs'[cmd[q].id] # <<>>
  PROVE  Accounted'
  <1> SUFFICES ASSUME ~cut, NEW i \in ids', refs'[i] = <<>>, i \notin told'
               PROVE  Pending(i)'
    BY DEF Accounted
  <1>1. PICK o \in Procs : cmd[o].created /\ cmd[o].id = i
    BY DEF Accounted, Pending
  <1>2. cmd'[q] = d /\ (o # q => cmd'[o] = cmd[o])
    BY DEF Goto, Shape
  <1>3. cmd'[o].created /\ cmd'[o].id = i
    BY <1>1, <1>2
  <1> QED BY <1>3 DEF Pending

(* Every step keeps the account. *)
LEMMA AccountedStep ==
  ASSUME Shape, Locals, Accounted, [Next]_vars
  PROVE  Accounted'
  <1>1. CASE UNCHANGED vars
    BY <1>1 DEF Accounted, Pending, vars, device, history
  <1>2. ASSUME NEW q \in Procs PROVE Fits(cmd[q]) /\ Local(cmd[q])
    BY DEF Shape, Locals
  <1>3. ASSUME NEW q \in Procs, NEW d, Goto(q, d), UNCHANGED <<device, cut>>, told \subseteq told',
               cmd[q].created => d.created /\ d.id = cmd[q].id
        PROVE  Accounted'
    BY <1>3, AccountedKept DEF device
  <1>4. cut' => Accounted'
    BY DEF Accounted
  <1>5. ASSUME NEW q \in Procs, cmd[q].at \notin Placing \cup {"write", "rollback"}
        PROVE  ~cmd[q].created
    BY <1>2, <1>5 DEF Local, Staged
  <1>6. ASSUME NEW q \in Procs, Begins(q) PROVE Accounted'
    <2>1. PICK c : Begin(q, c)
      BY <1>6, BeginsLocal DEF Locals
    <2>2. ~cmd[q].created
      BY <1>5, <2>1 DEF Begin, Placing
    <2> QED BY <1>3, <2>1, <2>2 DEF Begin
  <1>7. ASSUME NEW q \in Procs, Ends(q) PROVE Accounted'
    <2>1. CASE Fails(q)
      <3>1. cmd[q].created => Failed(cmd[q]).created /\ Failed(cmd[q]).id = cmd[q].id
        BY <1>2 DEF Failed, Fits, Fields
      <3> QED BY <1>3, <2>1, <3>1 DEF Fails
    <2>2. CASE Interrupt(q)
      BY <1>4, <2>2 DEF Interrupt
    <2>3. CASE Return(q)
      <3>1. ~cmd[q].created
        BY <1>5, <2>3 DEF Return, Placing
      <3> QED BY <1>3, <2>3, <3>1 DEF Return, history
    <2>4. CASE Rollback(q)
      <3>1. Goto(q, Idle) /\ UNCHANGED cut /\ cmd[q].id \in Ids
        BY <1>2, <2>4 DEF Rollback, Local, Staged
      <3>2. CASE DeleteIdentity(cmd[q].id) /\ UNCHANGED told
        <4>1. ids' = ids \ {cmd[q].id} /\ \A i \in ids' : refs'[i] = refs[i]
          BY <3>1, <3>2 DEF DeleteIdentity, Locals, Store
        <4> QED BY <3>1, <3>2, <4>1, AccountedKept
      <3>3. CASE told' = told \cup {cmd[q].id} /\ UNCHANGED device
        BY <3>1, <3>3, AccountedKept DEF device
      <3> QED BY <2>4, <3>2, <3>3 DEF Rollback
    <2> QED BY <1>7, <2>1, <2>2, <2>3, <2>4 DEF Ends
  <1>8. ASSUME NEW q \in Procs, Places(q) PROVE Accounted'
    <2> DEFINE c == cmd[q]
    <2>1. CASE Create(q)
      <3>1. PICK i \in Ids : /\ ids' = ids \cup {i}
                             /\ Answered(q, [c EXCEPT !.at = "place", !.id = i, !.created = TRUE])
        BY <2>1 DEF Create
      <3>2. PICK d : d = [c EXCEPT !.at = "place", !.id = i, !.created = TRUE]
        OBVIOUS
      <3>3. d.created /\ d.id = i /\ ~c.created
        BY <1>2, <1>5, <2>1, <3>2 DEF Create, Fits, Fields, Placing
      <3>4. CASE Goto(q, d) /\ UNCHANGED history
        <4>1. cmd'[q] = d /\ \A o \in Procs \ {q} : cmd'[o] = cmd[o]
          BY <3>4 DEF Goto, Shape
        <4>2. Pending(i)' /\ \A k \in Ids : Pending(k) => Pending(k)'
          BY <3>3, <4>1 DEF Pending
        <4> QED BY <2>1, <3>1, <3>4, <4>2 DEF Create, Accounted, history, Locals, Store
      <3> QED BY <1>4, <3>1, <3>2, <3>4 DEF Answered
    <2>2. CASE Place(q)
      <3>1. PICK d \in {[c EXCEPT !.at = "import"], [c EXCEPT !.at = "reread"]} : Goto(q, d)
        BY <2>2 DEF Place
      <3>2. d.created = c.created /\ d.id = c.id
        BY <1>2 DEF Fits, Fields
      <3> QED BY <1>3, <2>2, <3>1, <3>2 DEF Place, history
    <2>3. CASE Import(q)
      <3>1. PICK d \in Placed(c, Wanted(c)) : Answered(q, d)
        BY <2>3 DEF Import
      <3>2. d.created = c.created /\ d.id = c.id
        BY <1>2 DEF Placed, Fits, Fields
      <3>3. CASE Goto(q, d) /\ UNCHANGED history
        BY <2>3, <3>2, <3>3, AccountedKept DEF Import, history
      <3> QED BY <1>4, <3>1, <3>3 DEF Answered
    <2>4. CASE Reread(q)
      <3>1. PICK d \in Placed(c, keys[Peer(c)]) : Goto(q, d)
        BY <2>4 DEF Reread
      <3>2. d.created = c.created /\ d.id = c.id
        BY <1>2 DEF Placed, Fits, Fields
      <3> QED BY <1>3, <2>4, <3>1, <3>2 DEF Reread, history
    <2> QED BY <1>8, <2>1, <2>2, <2>3, <2>4 DEF Places
  <1>9. ASSUME NEW q \in Procs, NEW d, Answered(q, d), ~cmd[q].created,
               ids' \subseteq ids, \A i \in ids' : refs'[i] = <<>> => refs[i] = <<>>
        PROVE  Accounted'
    <2>1. CASE Goto(q, d) /\ UNCHANGED history
      BY <1>9, <2>1, AccountedKept DEF history
    <2> QED BY <1>4, <1>9, <2>1 DEF Answered
  <1>10. ASSUME NEW q \in Procs, Changes(q) PROVE Accounted'
    <2>1. CASE Write(q)
      <3> DEFINE d == [cmd[q] EXCEPT !.at = "verify", !.created = FALSE]
      <3>1. cmd[q].refs # <<>> /\ cmd[q].id \in Ids
        BY <1>2, <2>1 DEF Write, Local, Listed, Locals, Store
      <3>2. /\ refs'[cmd[q].id] # <<>> /\ ids' = ids
            /\ \A i \in ids : refs'[i] = <<>> => refs[i] = <<>>
        BY <2>1, <3>1 DEF Write, Locals, Store
      <3>3. CASE Goto(q, d) /\ UNCHANGED history
        BY <3>2, <3>3, AccountedKept DEF history
      <3> QED BY <1>4, <2>1, <3>3 DEF Write, Answered
    <2>2. CASE Load(q) \/ Resolve(q) \/ Verify(q)
      <3>1. ~cmd[q].created
        BY <1>5, <2>2 DEF Load, Resolve, Verify, Placing
      <3>2. PICK d : Goto(q, d)
        BY <2>2 DEF Load, Resolve, Verify
      <3> QED BY <1>3, <2>2, <3>1, <3>2 DEF Load, Resolve, Verify, history
    <2>3. CASE UpdatePeer(q) \/ DeletePeer(q)
      <3>1. ~cmd[q].created
        BY <1>5, <2>3 DEF UpdatePeer, DeletePeer, Placing
      <3> QED BY <1>9, <2>3, <3>1 DEF UpdatePeer, DeletePeer
    <2> QED BY <1>10, <2>1, <2>2, <2>3 DEF Changes
  <1>11. ASSUME NEW q \in Procs, Wipes(q) PROVE Accounted'
    <2>1. ~cmd[q].created
      BY <1>5, <1>11 DEF Wipes, WipePeer, WipeIdentity, Wiped, Placing
    <2>2. CASE WipePeer(q)
      BY <1>9, <2>1, <2>2 DEF WipePeer
    <2>3. CASE WipeIdentity(q)
      <3>1. PICK i \in ids : /\ DeleteIdentity(i)
                             /\ Answered(q, [cmd[q] EXCEPT !.ifs = @ \ {i}])
        BY <2>3 DEF WipeIdentity
      <3>2. ids' \subseteq ids /\ \A k \in ids' : refs'[k] = refs[k]
        BY <3>1 DEF DeleteIdentity, Locals, Store
      <3> QED BY <1>9, <2>1, <3>1, <3>2
    <2>4. CASE Wiped(q)
      BY <1>3, <2>1, <2>4 DEF Wiped, history
    <2> QED BY <1>11, <2>2, <2>3, <2>4 DEF Wipes
  <1> QED BY <1>1, <1>6, <1>7, <1>8, <1>10, <1>11 DEF Next

(* When nothing is at work, every key is named by a record or was named to  *)
(* the caller of the provision that failed, unless a command was            *)
(* interrupted or an answer lost (Run's deferred function, Cleanup).        *)
THEOREM KeysAreNamed == Spec => []NoNamelessKey
<1>1. Init => Accounted
  BY DEF Init, Accounted
<1>2. Shape /\ Locals /\ Accounted /\ [Next]_vars => Accounted'
  BY AccountedStep
<1>3. Locals /\ Accounted => NoNamelessKey
  <2> SUFFICES ASSUME Locals, Accounted, ~cut, \A q \in Procs : cmd[q].at = "idle",
                      NEW i \in ids, refs[i] = <<>>
               PROVE  i \in told
    BY DEF NoNamelessKey
  <2>1. \A q \in Procs : ~cmd[q].created
    BY DEF Locals, Local, Staged, Placing
  <2> QED BY <2>1 DEF Accounted, Pending
<1> QED
  BY <1>1, <1>2, <1>3, ShapeInvariant, LocalsInvariant, PTL DEF Spec
=============================================================================
