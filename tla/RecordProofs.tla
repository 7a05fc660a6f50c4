----------------------------- MODULE RecordProofs -----------------------------
(***************************************************************************)
(* Theorems about Record and Import, for records of every size and         *)
(* settings of every length.                                               *)
(*                                                                         *)
(* The encoder and the decoder are loops, modelled as recursive functions, *)
(* so what they compute is proved by induction.  The induction is about a  *)
(* set of numbers or of sequences, and rests on WFMin: a set of numbers    *)
(* that is not empty has a least member.                                   *)
(***************************************************************************)
EXTENDS Import, SequenceTheorems, WellFoundedInduction, TLAPS

-----------------------------------------------------------------------------
(* Induction and recursion over the numbers up to a bound. *)

(* A set of natural numbers that is not empty has a least member. *)
LEMMA Least ==
  ASSUME NEW T \in SUBSET Nat, T # {}
  PROVE  \E n \in T : \A m \in T : n <= m
  <1> DEFINE R == OpToRel(<, Nat)
  <1>1. IsWellFoundedOn(R, Nat)
    BY NatLessThanWellFounded
  <1>2. \E x \in T : \A y \in T : ~ (<<y, x>> \in R)
    <2> HIDE DEF R
    <2> QED BY <1>1, WFMin
  <1>3. \A x, y \in Nat : y < x => <<y, x>> \in R
    BY DEF OpToRel
  <1> HIDE DEF R
  <1>4. PICK x \in T : \A y \in T : ~ (<<y, x>> \in R)
    BY <1>2
  <1>5. \A y \in T : x <= y
    <2> TAKE y \in T
    <2>1. x \in Nat /\ y \in Nat
      OBVIOUS
    <2>2. ~(y < x)
      BY <1>3, <1>4, <2>1
    <2> QED BY <2>1, <2>2
  <1> QED BY <1>5

(* A set with 0 and the successor of each of its numbers has them all. *)
LEMMA Induction ==
  ASSUME NEW S, 0 \in S, \A n \in Nat : n \in S => n + 1 \in S
  PROVE  Nat \subseteq S
  <1> DEFINE T == Nat \ S
  <1> SUFFICES ASSUME T # {} PROVE FALSE
    OBVIOUS
  <1>1. PICK n \in T : \A m \in T : n <= m
    <2>1. T \in SUBSET Nat
      OBVIOUS
    <2> HIDE DEF T
    <2> QED BY <2>1, Least
  <1>2. n # 0 /\ n \in Nat
    OBVIOUS
  <1>3. n - 1 \in Nat /\ n - 1 \notin T
    BY <1>1, <1>2
  <1> QED BY <1>2, <1>3

(* A set of sequences with the empty one, and with each also all that are one
   element longer, has them all. *)
LEMMA SeqInduction ==
  ASSUME NEW X, NEW S, <<>> \in S,
         \A s \in Seq(X), e \in X : s \in S => Append(s, e) \in S
  PROVE  Seq(X) \subseteq S
  <1> DEFINE T == {n \in Nat : \A s \in Seq(X) : Len(s) = n => s \in S}
  <1>1. 0 \in T
    <2>1. \A s \in Seq(X) : Len(s) = 0 => s = <<>>
      BY EmptySeq
    <2> QED BY <2>1
  <1>2. \A n \in Nat : n \in T => n + 1 \in T
    <2> TAKE n \in Nat
    <2> HAVE n \in T
    <2> SUFFICES ASSUME NEW s \in Seq(X), Len(s) = n + 1 PROVE s \in S
      OBVIOUS
    <2>1. s # <<>>
      BY EmptySeq
    <2>2. PICK t \in Seq(X), e \in X : s = Append(t, e)
      BY <2>1, SequenceEmptyOrAppend
    <2>3. Len(t) = n
      BY <2>2, AppendProperties
    <2> QED BY <2>2, <2>3
  <1>3. Nat \subseteq T
    <2> HIDE DEF T
    <2> QED BY <1>1, <1>2, Induction
  <1> SUFFICES ASSUME NEW s \in Seq(X) PROVE s \in S
    OBVIOUS
  <1>4. Len(s) \in T
    BY <1>3
  <1> QED BY <1>4

(* f does what a recursion up to m says, beginning with s0. *)
Rec(f, m, s0, step) == f[0] = s0 /\ \A n \in 1..m : f[n] = step[<<f[n - 1], n>>]

LEMMA Extend ==
  ASSUME NEW N \in Nat, NEW S, NEW s0 \in S, NEW step \in [S \X (1..N) -> S],
         NEW m \in Nat, m + 1 <= N, NEW g \in [0..m -> S], Rec(g, m, s0, step)
  PROVE  \E f \in [0..m + 1 -> S] : Rec(f, m + 1, s0, step)
  <1>1. PICK v \in S : v = step[<<g[m], m + 1>>]
    <2>1. g[m] \in S /\ m + 1 \in 1..N
      OBVIOUS
    <2>2. <<g[m], m + 1>> \in S \X (1..N)
      BY <2>1
    <2> QED BY <2>2
  <1> DEFINE f == [n \in 0..m + 1 |-> IF n = m + 1 THEN v ELSE g[n]]
  <1>2. f \in [0..m + 1 -> S]
    <2> SUFFICES ASSUME NEW n \in 0..m + 1 PROVE (IF n = m + 1 THEN v ELSE g[n]) \in S
      OBVIOUS
    <2>1. CASE n = m + 1
      BY <2>1
    <2>2. CASE n # m + 1
      <3>1. n \in 0..m
        BY <2>2
      <3> QED BY <2>2, <3>1
    <2> QED BY <2>1, <2>2
  <1>3. f[0] = s0
    BY DEF Rec
  <1>4. ASSUME NEW n \in 1..m + 1 PROVE f[n] = step[<<f[n - 1], n>>]
    <2>1. CASE n = m + 1
      <3>1. f[n] = v /\ f[n - 1] = g[m]
        BY <2>1
      <3> QED BY <1>1, <2>1, <3>1
    <2>2. CASE n # m + 1
      <3>1. n \in 1..m /\ f[n] = g[n] /\ f[n - 1] = g[n - 1]
        BY <2>2
      <3> QED BY <3>1 DEF Rec
    <2> QED BY <2>1, <2>2
  <1> HIDE DEF f
  <1> QED BY <1>2, <1>3, <1>4 DEF Rec

(* Every such recursion has a function that does what it says. *)
LEMMA Recursion ==
  ASSUME NEW N \in Nat, NEW S, NEW s0 \in S, NEW step \in [S \X (1..N) -> S]
  PROVE  \E f \in [0..N -> S] : Rec(f, N, s0, step)
  <1> DEFINE T == {m \in Nat : m <= N => \E f \in [0..m -> S] : Rec(f, m, s0, step)}
  <1>1. 0 \in T
    <2>1. [n \in 0..0 |-> s0] \in [0..0 -> S]
      OBVIOUS
    <2>2. Rec([n \in 0..0 |-> s0], 0, s0, step)
      BY DEF Rec
    <2> QED BY <2>1, <2>2
  <1>2. \A m \in Nat : m \in T => m + 1 \in T
    <2> TAKE m \in Nat
    <2> HAVE m \in T
    <2> SUFFICES ASSUME m + 1 <= N PROVE \E f \in [0..m + 1 -> S] : Rec(f, m + 1, s0, step)
      OBVIOUS
    <2>1. PICK g \in [0..m -> S] : Rec(g, m, s0, step)
      OBVIOUS
    <2> QED BY <2>1, Extend
  <1>3. N \in T
    <2> HIDE DEF T
    <2> QED BY <1>1, <1>2, Induction
  <1> QED BY <1>3

(* Two functions that begin alike and go on alike are alike. *)
Follow(N, f, w) == f[0] = w[0] /\ \A n \in 1..N : f[n - 1] = w[n - 1] => f[n] = w[n]
Agree(N, f, w) == \A n \in 0..N : f[n] = w[n]

LEMMA Unique ==
  ASSUME NEW N \in Nat, NEW f, NEW w, Follow(N, f, w)
  PROVE  Agree(N, f, w)
  <1> USE DEF Follow, Agree
  <1> DEFINE T == {m \in Nat : m <= N => f[m] = w[m]}
  <1>1. 0 \in T
    OBVIOUS
  <1>2. \A m \in Nat : m \in T => m + 1 \in T
    <2> TAKE m \in Nat
    <2> HAVE m \in T
    <2> SUFFICES ASSUME m + 1 <= N PROVE f[m + 1] = w[m + 1]
      OBVIOUS
    <2>1. m + 1 \in 1..N /\ f[m] = w[m] /\ (m + 1) - 1 = m
      OBVIOUS
    <2> QED BY <2>1
  <1>3. Nat \subseteq T
    <2> HIDE DEF T
    <2> QED BY <1>1, <1>2, Induction
  <1> QED BY <1>3

-----------------------------------------------------------------------------
(* The loops of the codec, one element after another. *)

ItemType == [tag : Byte, value : Bytes]
WriterType == [buf : Bytes, ok : BOOLEAN]

LEMMA TlvTyped ==
  ASSUME NEW w \in WriterType, NEW it \in ItemType
  PROVE  tlv(w, it) \in WriterType
  <1>1. CASE ~w.ok \/ Len(it.value) > 255
    BY <1>1 DEF tlv, WriterType
  <1>2. CASE ~(~w.ok \/ Len(it.value) > 255)
    <2>0. it.tag \in Byte /\ it.value \in Seq(Byte) /\ w.buf \in Seq(Byte)
      BY DEF ItemType, Bytes, WriterType
    <2>1. PICK n \in Nat : n = Len(it.value)
      BY <2>0, LenProperties
    <2>2. Len(it.value) \in Byte
      <3>1. ~(n > 255)
        BY <1>2, <2>1, Zenon
      <3>2. n \in Byte
        BY <3>1 DEF Byte
      <3> QED BY <2>1, <3>2, Zenon
    <2>3. <<it.tag, Len(it.value)>> \in Seq(Byte)
      BY <2>0, <2>2
    <2>4. w.buf \o <<it.tag, Len(it.value)>> \o it.value \in Seq(Byte)
      BY <2>0, <2>3, ConcatProperties
    <2> QED BY <1>2, <2>4 DEF tlv, WriterType, Bytes
  <1> QED BY <1>1, <1>2

(* The writer has gone through the items one after another. *)
LEMMA WriterFold ==
  ASSUME NEW magic \in Byte, NEW items \in Seq(ItemType)
  PROVE  \E f \in [0..Len(items) -> WriterType] :
           /\ f[0] = [buf |-> <<magic, Version>>, ok |-> TRUE]
           /\ \A n \in 1..Len(items) : f[n] = tlv(f[n - 1], items[n])
           /\ writer(magic, items) = f[Len(items)]
  <1> DEFINE N == Len(items)
             s0 == [buf |-> <<magic, Version>>, ok |-> TRUE]
             step == [x \in WriterType \X (1..N) |-> tlv(x[1], items[x[2]])]
  <1>0. N \in Nat
    OBVIOUS
  <1>1. s0 \in WriterType
    BY DEF WriterType, Bytes, Byte, Version
  <1>2. step \in [WriterType \X (1..N) -> WriterType]
    BY TlvTyped
  <1>3. PICK f \in [0..N -> WriterType] : Rec(f, N, s0, step)
    <2> HIDE DEF step, s0, N
    <2> QED BY <1>0, <1>1, <1>2, Recursion
  <1>4. f[0] = s0 /\ \A n \in 1..N : f[n] = tlv(f[n - 1], items[n])
    <2>1. \A n \in 1..N : f[n - 1] \in WriterType
      BY <1>0
    <2> QED BY <1>3, <2>1 DEF Rec
  <1>5. f = [n \in 0..N |-> IF n = 0 THEN s0 ELSE tlv(f[n - 1], items[n])]
    BY <1>4, <1>0
  <1> DEFINE w == CHOOSE g : g = [n \in 0..N |-> IF n = 0 THEN s0 ELSE tlv(g[n - 1], items[n])]
  <1>6. w = [n \in 0..N |-> IF n = 0 THEN s0 ELSE tlv(w[n - 1], items[n])]
    BY <1>5
  <1>7. writer(magic, items) = w[N]
    BY DEF writer
  <1> HIDE DEF w
  <1>8. w[0] = s0 /\ \A n \in 1..N : w[n] = tlv(w[n - 1], items[n])
    <2> DEFINE h == [n \in 0..N |-> IF n = 0 THEN s0 ELSE tlv(w[n - 1], items[n])]
    <2>1. h[0] = s0 /\ \A n \in 1..N : h[n] = tlv(w[n - 1], items[n])
      BY <1>0
    <2>2. w = h
      BY <1>6
    <2> HIDE DEF h
    <2> QED BY <2>1, <2>2
  <1>9. \A n \in 0..N : f[n] = w[n]
    <2>1. \A n \in 1..N : f[n - 1] = w[n - 1] => f[n] = w[n]
      BY <1>4, <1>8
    <2>2. Follow(N, f, w)
      BY <1>4, <1>8, <2>1 DEF Follow
    <2>3. Agree(N, f, w)
      <3> HIDE DEF N
      <3> QED BY <1>0, <2>2, Unique
    <2> QED BY <2>3 DEF Agree
  <1>10. writer(magic, items) = f[N]
    BY <1>0, <1>7, <1>9
  <1> QED BY <1>4, <1>10

LEMMA WriterEmpty ==
  ASSUME NEW magic \in Byte
  PROVE  writer(magic, <<>>) = [buf |-> <<magic, Version>>, ok |-> TRUE]
  <1>1. <<>> \in Seq(ItemType) /\ Len(<<>>) = 0
    BY EmptySeq
  <1> QED BY <1>1, WriterFold, ZenonT(60)

LEMMA WriterAppend ==
  ASSUME NEW magic \in Byte, NEW items \in Seq(ItemType), NEW it \in ItemType
  PROVE  /\ writer(magic, items) \in WriterType
         /\ writer(magic, Append(items, it)) = tlv(writer(magic, items), it)
  <1>0. PICK N \in Nat : N = Len(items)
    OBVIOUS
  <1>1. PICK more \in Seq(ItemType) : more = Append(items, it)
    BY AppendProperties
  <1>2. Len(more) = N + 1 /\ (\A n \in 1..N : more[n] = items[n]) /\ more[N + 1] = it
    BY <1>0, <1>1, AppendProperties
  <1>3. PICK f \in [0..N -> WriterType] :
           /\ f[0] = [buf |-> <<magic, Version>>, ok |-> TRUE]
           /\ \A n \in 1..N : f[n] = tlv(f[n - 1], items[n])
           /\ writer(magic, items) = f[N]
    BY <1>0, WriterFold
  <1>4. PICK g \in [0..N + 1 -> WriterType] :
           /\ g[0] = [buf |-> <<magic, Version>>, ok |-> TRUE]
           /\ \A n \in 1..N + 1 : g[n] = tlv(g[n - 1], more[n])
           /\ writer(magic, more) = g[N + 1]
    <2>1. PICK M : M = Len(more)
      OBVIOUS
    <2>2. \E g \in [0..M -> WriterType] :
            /\ g[0] = [buf |-> <<magic, Version>>, ok |-> TRUE]
            /\ \A n \in 1..M : g[n] = tlv(g[n - 1], more[n])
            /\ writer(magic, more) = g[M]
      BY <2>1, WriterFold
    <2>3. M = N + 1
      BY <1>2, <2>1
    <2> QED BY <2>2, <2>3, Zenon
  <1>5. \A n \in 1..N : g[n] = tlv(g[n - 1], items[n])
    BY <1>2, <1>4
  <1>6. \A n \in 0..N : f[n] = g[n]
    <2>1. \A n \in 1..N : f[n - 1] = g[n - 1] => f[n] = g[n]
      BY <1>3, <1>5
    <2>2. Follow(N, f, g)
      BY <1>3, <1>4, <2>1 DEF Follow
    <2> QED BY <2>2, Unique DEF Agree
  <1>7. g[N + 1] = tlv(g[(N + 1) - 1], more[N + 1]) /\ (N + 1) - 1 = N /\ N \in 0..N
    BY <1>4
  <1> QED BY <1>1, <1>2, <1>3, <1>4, <1>6, <1>7

Kept(u, x, tags) == IF x.tag \in tags THEN Append(u, x) ELSE u

Selects(f, N, X, items, tags) ==
  /\ f \in [0..N -> Seq(X)]
  /\ f[0] = <<>>
  /\ \A n \in 1..N : f[n] = Kept(f[n - 1], items[n], tags)
  /\ Under(items, tags) = f[N]

(* The selection has gone through the items one after another. *)
LEMMA UnderFold ==
  ASSUME NEW X, NEW items \in Seq(X), NEW tags
  PROVE  \E f : Selects(f, Len(items), X, items, tags)
  <1> DEFINE N == Len(items)
             next(u, n) == Kept(u, items[n], tags)
             step == [x \in Seq(X) \X (1..N) |-> next(x[1], x[2])]
  <1>0. N \in Nat /\ <<>> \in Seq(X)
    BY EmptySeq
  <1>1. \A u \in Seq(X), n \in 1..N : next(u, n) \in Seq(X)
    <2> TAKE u \in Seq(X), n \in 1..N
    <2>1. items[n] \in X
      BY ElementOfSeq
    <2>2. Append(u, items[n]) \in Seq(X)
      BY <2>1, AppendProperties
    <2> QED BY <2>2 DEF Kept
  <1> HIDE DEF next
  <1>2. step \in [Seq(X) \X (1..N) -> Seq(X)]
    BY <1>1
  <1>3. PICK f \in [0..N -> Seq(X)] : Rec(f, N, <<>>, step)
    <2> HIDE DEF step, N
    <2> QED BY <1>0, <1>2, Recursion
  <1>4. f[0] = <<>> /\ \A n \in 1..N : f[n] = next(f[n - 1], n)
    <2>1. \A n \in 1..N : f[n - 1] \in Seq(X)
      BY <1>0
    <2> QED BY <1>3, <2>1 DEF Rec
  <1>5. f = [n \in 0..N |-> IF n = 0 THEN <<>> ELSE next(f[n - 1], n)]
    BY <1>4, <1>0
  <1> DEFINE w == CHOOSE g : g = [n \in 0..N |-> IF n = 0 THEN <<>> ELSE next(g[n - 1], n)]
  <1>6. w = [n \in 0..N |-> IF n = 0 THEN <<>> ELSE next(w[n - 1], n)]
    BY <1>5
  <1>7. Under(items, tags) = w[N]
    BY DEF Under, next, Kept
  <1> HIDE DEF w
  <1>8. w[0] = <<>> /\ \A n \in 1..N : w[n] = next(w[n - 1], n)
    <2> DEFINE h == [n \in 0..N |-> IF n = 0 THEN <<>> ELSE next(w[n - 1], n)]
    <2>1. h[0] = <<>> /\ \A n \in 1..N : h[n] = next(w[n - 1], n)
      BY <1>0
    <2>2. w = h
      BY <1>6
    <2> HIDE DEF h
    <2> QED BY <2>1, <2>2
  <1>9. Agree(N, f, w)
    <2>1. Follow(N, f, w)
      BY <1>4, <1>8 DEF Follow
    <2> HIDE DEF N
    <2> QED BY <1>0, <2>1, Unique
  <1>10. Under(items, tags) = f[N]
    BY <1>0, <1>7, <1>9 DEF Agree
  <1> QED BY <1>4, <1>10 DEF next, Selects

LEMMA UnderEmpty ==
  ASSUME NEW tags
  PROVE  Under(<<>>, tags) = <<>>
  <1>1. PICK s \in Seq({}) : s = <<>> /\ Len(s) = 0
    BY EmptySeq
  <1>2. PICK f : Selects(f, 0, {}, s, tags)
    BY <1>1, UnderFold
  <1> QED BY <1>1, <1>2 DEF Selects

LEMMA UnderAppend ==
  ASSUME NEW X, NEW items \in Seq(X), NEW it \in X, NEW tags
  PROVE  Under(Append(items, it), tags) =
           IF it.tag \in tags THEN Append(Under(items, tags), it) ELSE Under(items, tags)
  <1>0. PICK N \in Nat : N = Len(items)
    OBVIOUS
  <1>1. PICK more \in Seq(X) : more = Append(items, it)
    BY AppendProperties
  <1>2. Len(more) = N + 1 /\ (\A n \in 1..N : more[n] = items[n]) /\ more[N + 1] = it
    BY <1>0, <1>1, AppendProperties
  <1>3. PICK f : Selects(f, N, X, items, tags)
    BY <1>0, UnderFold
  <1>4. PICK g : Selects(g, N + 1, X, more, tags)
    BY <1>2, UnderFold
  <1>5. \A n \in 1..N : g[n] = Kept(g[n - 1], items[n], tags)
    BY <1>2, <1>4 DEF Selects
  <1>6. Agree(N, f, g)
    <2>1. Follow(N, f, g)
      BY <1>3, <1>4, <1>5 DEF Follow, Selects
    <2> QED BY <2>1, Unique
  <1>7. g[N + 1] = Kept(g[(N + 1) - 1], more[N + 1], tags) /\ (N + 1) - 1 = N /\ N \in 0..N
    BY <1>4 DEF Selects
  <1>8. Under(more, tags) = Kept(Under(items, tags), it, tags)
    BY <1>2, <1>3, <1>4, <1>6, <1>7 DEF Agree, Selects
  <1> QED BY <1>1, <1>8 DEF Kept

(* A selection has the elements' type, and their tags are among the tags. *)
LEMMA UnderTyped ==
  ASSUME NEW X, NEW items \in Seq(X), NEW tags
  PROVE  Under(items, tags) \in Seq({x \in X : x.tag \in tags})
  <1> DEFINE Y == {x \in X : x.tag \in tags}
             T == {s \in Seq(X) : Under(s, tags) \in Seq(Y)}
  <1>1. <<>> \in T
    BY UnderEmpty, EmptySeq
  <1>2. ASSUME NEW s \in Seq(X), NEW e \in X, s \in T PROVE Append(s, e) \in T
    <2>1. Append(s, e) \in Seq(X) /\ Under(s, tags) \in Seq(Y)
      BY <1>2, AppendProperties
    <2>2. CASE e.tag \in tags
      <3>1. Under(Append(s, e), tags) = Append(Under(s, tags), e)
        BY <2>2, UnderAppend
      <3>2. e \in Y
        BY <2>2
      <3> QED BY <2>1, <3>1, <3>2, AppendProperties, SMTT(40)
    <2>3. CASE e.tag \notin tags
      <3>1. Under(Append(s, e), tags) = Under(s, tags)
        BY <2>3, UnderAppend
      <3> QED BY <2>1, <3>1
    <2> QED BY <2>2, <2>3
  <1>3. Seq(X) \subseteq T
    <2> HIDE DEF T
    <2> QED BY <1>1, <1>2, SeqInduction
  <1> QED BY <1>3

LEMMA UnderSeq ==
  ASSUME NEW X, NEW items \in Seq(X), NEW tags
  PROVE  Under(items, tags) \in Seq(X)
  <1>1. Under(items, tags) \in Seq({x \in X : x.tag \in tags})
    BY UnderTyped
  <1>2. {x \in X : x.tag \in tags} \subseteq X
    OBVIOUS
  <1> QED BY <1>1, <1>2, SeqMonotonic

(* Append and \o, one from the other. *)
LEMMA ConcatAppend ==
  ASSUME NEW X, NEW s \in Seq(X), NEW t \in Seq(X), NEW e \in X
  PROVE  s \o Append(t, e) = Append(s \o t, e)
  <1>1. Append(t, e) = t \o <<e>> /\ <<e>> \in Seq(X) /\ s \o t \in Seq(X)
    BY AppendIsConcat, ConcatProperties
  <1>2. Append(s \o t, e) = (s \o t) \o <<e>>
    BY <1>1, AppendIsConcat
  <1> QED BY <1>1, <1>2, ConcatAssociative

(* Selecting from two lists, one after the other. *)
LEMMA UnderConcat ==
  ASSUME NEW X, NEW s \in Seq(X), NEW t \in Seq(X), NEW tags
  PROVE  Under(s \o t, tags) = Under(s, tags) \o Under(t, tags)
  <1> DEFINE T == {u \in Seq(X) : Under(s \o u, tags) = Under(s, tags) \o Under(u, tags)}
  <1>0. Under(s, tags) \in Seq(X)
    BY UnderSeq
  <1>1. <<>> \in T
    BY <1>0, UnderEmpty, EmptySeq, ConcatEmptySeq
  <1>2. ASSUME NEW u \in Seq(X), NEW e \in X, u \in T PROVE Append(u, e) \in T
    <2>1. Append(u, e) \in Seq(X) /\ s \o u \in Seq(X) /\ Under(u, tags) \in Seq(X)
      BY AppendProperties, ConcatProperties, UnderSeq
    <2>2. Under(s \o u, tags) = Under(s, tags) \o Under(u, tags)
      BY <1>2
    <2>3. s \o Append(u, e) = Append(s \o u, e)
      BY ConcatAppend
    <2>4. CASE e.tag \in tags
      <3>1. Under(Append(s \o u, e), tags) = Append(Under(s \o u, tags), e)
        BY <2>1, <2>4, UnderAppend, ZenonT(60)
      <3>2. Under(Append(u, e), tags) = Append(Under(u, tags), e)
        BY <2>4, UnderAppend
      <3>3. Under(s, tags) \o Append(Under(u, tags), e) = Append(Under(s, tags) \o Under(u, tags), e)
        BY <1>0, <2>1, ConcatAppend, SMTT(40)
      <3> QED BY <2>1, <2>2, <2>3, <3>1, <3>2, <3>3
    <2>5. CASE e.tag \notin tags
      <3>1. Under(Append(s \o u, e), tags) = Under(s \o u, tags)
        BY <2>1, <2>5, UnderAppend, ZenonT(60)
      <3>2. Under(Append(u, e), tags) = Under(u, tags)
        BY <2>5, UnderAppend
      <3> QED BY <2>1, <2>2, <2>3, <3>1, <3>2
    <2> QED BY <2>4, <2>5
  <1>3. Seq(X) \subseteq T
    <2> HIDE DEF T
    <2> QED BY <1>1, <1>2, SeqInduction
  <1> QED BY <1>3

(* A selection that takes all, and one that takes nothing. *)
LEMMA UnderAll ==
  ASSUME NEW X, NEW tags, NEW s \in Seq(X), \A k \in 1..Len(s) : s[k].tag \in tags
  PROVE  Under(s, tags) = s
  <1> DEFINE Y == {x \in X : x.tag \in tags}
             T == {u \in Seq(Y) : Under(u, tags) = u}
  <1>0. s \in Seq(Y)
    <2>1. \A k \in 1..Len(s) : s[k] \in Y
      BY ElementOfSeq
    <2> HIDE DEF Y
    <2> QED BY <2>1
  <1>1. <<>> \in T
    BY UnderEmpty, EmptySeq
  <1>2. ASSUME NEW u \in Seq(Y), NEW e \in Y, u \in T PROVE Append(u, e) \in T
    <2>1. Append(u, e) \in Seq(Y) /\ e.tag \in tags /\ Under(u, tags) = u
      BY <1>2, AppendProperties
    <2>2. Under(Append(u, e), tags) = Append(Under(u, tags), e)
      BY <2>1, UnderAppend
    <2> QED BY <2>1, <2>2
  <1>3. Seq(Y) \subseteq T
    <2> HIDE DEF T, Y
    <2> QED BY <1>1, <1>2, SeqInduction
  <1> QED BY <1>0, <1>3

LEMMA UnderNone ==
  ASSUME NEW X, NEW tags, NEW s \in Seq(X), \A k \in 1..Len(s) : s[k].tag \notin tags
  PROVE  Under(s, tags) = <<>>
  <1> DEFINE Y == {x \in X : x.tag \notin tags}
             T == {u \in Seq(Y) : Under(u, tags) = <<>>}
  <1>0. s \in Seq(Y)
    <2>1. \A k \in 1..Len(s) : s[k] \in Y
      BY ElementOfSeq
    <2> HIDE DEF Y
    <2> QED BY <2>1
  <1>1. <<>> \in T
    BY UnderEmpty, EmptySeq
  <1>2. ASSUME NEW u \in Seq(Y), NEW e \in Y, u \in T PROVE Append(u, e) \in T
    <2>1. Append(u, e) \in Seq(Y) /\ e.tag \notin tags /\ Under(u, tags) = <<>>
      BY <1>2, AppendProperties
    <2>2. Under(Append(u, e), tags) = Under(u, tags)
      BY <2>1, UnderAppend
    <2> QED BY <2>1, <2>2
  <1>3. Seq(Y) \subseteq T
    <2> HIDE DEF T, Y
    <2> QED BY <1>1, <1>2, SeqInduction
  <1> QED BY <1>0, <1>3

(* Converting each element, g a function. *)
Map(s, g) == [k \in DOMAIN s |-> g[s[k]]]

Maps(m, s, g, n) == \A k \in 1..n : m[k] = g[s[k]]

LEMMA MapTyped ==
  ASSUME NEW X, NEW Y, NEW g \in [X -> Y], NEW s \in Seq(X)
  PROVE  /\ Map(s, g) \in Seq(Y)
         /\ Len(Map(s, g)) = Len(s)
         /\ Maps(Map(s, g), s, g, Len(s))
  <1>1. DOMAIN s = 1..Len(s) /\ Len(s) \in Nat /\ \A k \in 1..Len(s) : s[k] \in X
    BY LenProperties, ElementOfSeq
  <1>2. \A k \in 1..Len(s) : g[s[k]] \in Y
    BY <1>1
  <1> QED BY <1>1, <1>2 DEF Map, Maps

LEMMA MapEmpty ==
  ASSUME NEW g
  PROVE  Map(<<>>, g) = <<>>
  BY DEF Map

LEMMA MapAppend ==
  ASSUME NEW X, NEW Y, NEW g \in [X -> Y], NEW s \in Seq(X), NEW e \in X
  PROVE  Map(Append(s, e), g) = Append(Map(s, g), g[e])
  <1>1. PICK t \in Seq(X) : t = Append(s, e)
    BY AppendProperties
  <1>2. Len(t) = Len(s) + 1 /\ (\A k \in 1..Len(s) : t[k] = s[k]) /\ t[Len(s) + 1] = e
    BY <1>1, AppendProperties
  <1>3. g[e] \in Y
    OBVIOUS
  <1>4. PICK a \in Seq(Y) : a = Map(s, g) /\ Len(a) = Len(s) /\ \A k \in 1..Len(s) : a[k] = g[s[k]]
    <2>1. /\ Map(s, g) \in Seq(Y) /\ Len(Map(s, g)) = Len(s)
          /\ \A k \in 1..Len(s) : Map(s, g)[k] = g[s[k]]
      BY MapTyped, SMTT(40) DEF Maps
    <2> QED BY <2>1, Zenon
  <1>5. PICK b \in Seq(Y) : b = Map(t, g) /\ Len(b) = Len(t) /\ \A k \in 1..Len(t) : b[k] = g[t[k]]
    <2>1. /\ Map(t, g) \in Seq(Y) /\ Len(Map(t, g)) = Len(t)
          /\ \A k \in 1..Len(t) : Map(t, g)[k] = g[t[k]]
      BY MapTyped, SMTT(40) DEF Maps
    <2> QED BY <2>1, Zenon
  <1>6. PICK c \in Seq(Y) : /\ c = Append(a, g[e])
                            /\ Len(c) = Len(a) + 1 
                            /\ \A k \in 1..Len(a) : c[k] = a[k]
                            /\ c[Len(a) + 1] = g[e]
    BY <1>3, AppendProperties, ZenonT(60)
  <1>7. Len(b) = Len(c)
    BY <1>2, <1>4, <1>5, <1>6
  <1>8. ASSUME NEW k \in 1..Len(b) PROVE b[k] = c[k]
    <2>0. PICK n \in Nat : n = Len(s)
      OBVIOUS
    <2>1. CASE k = n + 1
      BY <1>2, <1>4, <1>5, <1>6, <2>0, <2>1
    <2>2. CASE k # n + 1
      <3>1. k \in 1..n
        BY <1>2, <1>5, <2>0, <2>2
      <3>2. b[k] = g[t[k]] /\ t[k] = s[k] /\ a[k] = g[s[k]] /\ c[k] = a[k]
        BY <1>2, <1>4, <1>5, <1>6, <2>0, <3>1
      <3> QED BY <3>2
    <2> QED BY <2>1, <2>2
  <1>9. b = c
    BY <1>7, <1>8, SeqEqual
  <1> QED BY <1>1, <1>4, <1>5, <1>6, <1>9

LEMMA MapConcat ==
  ASSUME NEW X, NEW Y, NEW g \in [X -> Y], NEW s \in Seq(X), NEW t \in Seq(X)
  PROVE  Map(s \o t, g) = Map(s, g) \o Map(t, g)
  <1> DEFINE T == {u \in Seq(X) : Map(s \o u, g) = Map(s, g) \o Map(u, g)}
  <1>0. Map(s, g) \in Seq(Y)
    BY MapTyped
  <1>1. <<>> \in T
    <2>1. <<>> \in Seq(X) /\ Len(<<>>) = 0 /\ s \o <<>> = s
      BY EmptySeq, ConcatEmptySeq
    <2>2. Map(<<>>, g) = <<>>
      BY MapEmpty
    <2> QED BY <1>0, <2>1, <2>2, ConcatEmptySeq
  <1>2. ASSUME NEW u \in Seq(X), NEW e \in X, u \in T PROVE Append(u, e) \in T
    <2>1. Append(u, e) \in Seq(X) /\ s \o u \in Seq(X) /\ Map(u, g) \in Seq(Y) /\ g[e] \in Y
      BY AppendProperties, ConcatProperties, MapTyped
    <2>2. Map(s \o u, g) = Map(s, g) \o Map(u, g)
      BY <1>2
    <2>3. Map(s \o Append(u, e), g) = Append(Map(s \o u, g), g[e])
      <3>1. s \o Append(u, e) = Append(s \o u, e)
        BY ConcatAppend
      <3>2. Map(Append(s \o u, e), g) = Append(Map(s \o u, g), g[e])
        BY <2>1, MapAppend, ZenonT(60)
      <3> QED BY <3>1, <3>2
    <2>4. Map(s, g) \o Map(Append(u, e), g) = Append(Map(s, g) \o Map(u, g), g[e])
      <3>1. Map(Append(u, e), g) = Append(Map(u, g), g[e])
        BY MapAppend, ZenonT(60)
      <3>2. Map(s, g) \o Append(Map(u, g), g[e]) = Append(Map(s, g) \o Map(u, g), g[e])
        BY <1>0, <2>1, ConcatAppend
      <3> QED BY <3>1, <3>2
    <2> QED BY <2>1, <2>2, <2>3, <2>4
  <1>3. Seq(X) \subseteq T
    <2> HIDE DEF T
    <2> QED BY <1>1, <1>2, SeqInduction
  <1> QED BY <1>3

(* What has one of the tags is just what g gives one of the others. *)
Retags(g, X, Y, tags, others) ==
  g \in [X -> Y] /\ \A x \in X : x.tag \in tags <=> g[x].tag \in others

(* A conversion that keeps what is selected may come before or after. *)
LEMMA UnderMap ==
  ASSUME NEW X, NEW Y, NEW g, NEW tags, NEW others, Retags(g, X, Y, tags, others), NEW s \in Seq(X)
  PROVE  Under(Map(s, g), others) = Map(Under(s, tags), g)
  <1> DEFINE T == {u \in Seq(X) : Under(Map(u, g), others) = Map(Under(u, tags), g)}
  <1> g \in [X -> Y]
    BY DEF Retags
  <1>1. <<>> \in T
    BY UnderEmpty, MapEmpty, EmptySeq
  <1>2. ASSUME NEW u \in Seq(X), NEW e \in X, u \in T PROVE Append(u, e) \in T
    <2>1. /\ Append(u, e) \in Seq(X) /\ Map(u, g) \in Seq(Y) /\ g[e] \in Y
          /\ Under(u, tags) \in Seq(X)
      BY AppendProperties, MapTyped, UnderSeq
    <2>2. Under(Map(u, g), others) = Map(Under(u, tags), g)
      BY <1>2
    <2>3. Map(Append(u, e), g) = Append(Map(u, g), g[e])
      BY MapAppend, ZenonT(60)
    <2>4. CASE e.tag \in tags
      <3>1. Under(Append(u, e), tags) = Append(Under(u, tags), e)
        BY <2>4, UnderAppend
      <3>2. Under(Append(Map(u, g), g[e]), others) = Append(Under(Map(u, g), others), g[e])
        BY <2>1, <2>4, UnderAppend, SMTT(40) DEF Retags
      <3>3. Map(Append(Under(u, tags), e), g) = Append(Map(Under(u, tags), g), g[e])
        BY <2>1, MapAppend, ZenonT(60)
      <3> QED BY <2>1, <2>2, <2>3, <3>1, <3>2, <3>3
    <2>5. CASE e.tag \notin tags
      <3>1. Under(Append(u, e), tags) = Under(u, tags)
        BY <2>5, UnderAppend
      <3>2. Under(Append(Map(u, g), g[e]), others) = Under(Map(u, g), others)
        BY <2>1, <2>5, UnderAppend DEF Retags
      <3> QED BY <2>1, <2>2, <2>3, <3>1, <3>2
    <2> QED BY <2>4, <2>5
  <1>3. Seq(X) \subseteq T
    <2> HIDE DEF T
    <2> QED BY <1>1, <1>2, SeqInduction
  <1> QED BY <1>3

-----------------------------------------------------------------------------
(* Reading bytes. *)

ReaderType == [at : Nat \ {0}, items : Seq(ItemType), done : BOOLEAN, ok : BOOLEAN]

(* The four ways a turn of the reader's loop goes. *)
LEMMA ReadStops ==
  ASSUME NEW b \in Bytes, NEW r \in ReaderType, r.done \/ r.at > Len(b)
  PROVE  readItem(b, r) = r
  BY DEF readItem

LEMMA ReadEnds ==
  ASSUME NEW b \in Bytes, NEW r \in ReaderType, ~r.done, ~(r.at > Len(b)), b[r.at] = tagEnd
  PROVE  readItem(b, r) =
           [at |-> r.at, items |-> r.items, done |-> TRUE, ok |-> \A j \in r.at..Len(b) : b[j] = 0]
  BY DEF readItem, ReaderType

LEMMA ReadFails ==
  ASSUME NEW b \in Bytes, NEW r \in ReaderType, ~r.done, ~(r.at > Len(b)), b[r.at] # tagEnd,
         r.at + 1 > Len(b) \/ r.at + 1 + b[r.at + 1] > Len(b)
  PROVE  readItem(b, r) = [at |-> r.at, items |-> r.items, done |-> TRUE, ok |-> FALSE]
  BY DEF readItem, ReaderType

LEMMA ReadTakes ==
  ASSUME NEW b \in Bytes, NEW r \in ReaderType, ~r.done, ~(r.at > Len(b)), b[r.at] # tagEnd,
         ~(r.at + 1 > Len(b)), ~(r.at + 1 + b[r.at + 1] > Len(b))
  PROVE  readItem(b, r) =
           [at |-> r.at + 2 + b[r.at + 1],
            items |-> Append(r.items, Item(b[r.at], SubSeq(b, r.at + 2, r.at + 1 + b[r.at + 1]))),
            done |-> r.done, ok |-> r.ok]
  BY DEF readItem, ReaderType

LEMMA ReadTyped ==
  ASSUME NEW b \in Bytes, NEW r \in ReaderType
  PROVE  readItem(b, r) \in ReaderType
  <1>1. CASE r.done \/ r.at > Len(b)
    BY <1>1, ReadStops
  <1>2. CASE ~(r.done \/ r.at > Len(b)) /\ b[r.at] = tagEnd
    <2>1. PICK q : q = [at |-> r.at, items |-> r.items, done |-> TRUE,
                        ok |-> \A j \in r.at..Len(b) : b[j] = 0]
      OBVIOUS
    <2>2. q \in ReaderType
      BY <2>1 DEF ReaderType
    <2> QED BY <1>2, <2>1, <2>2, ReadEnds
  <1>3. CASE /\ ~(r.done \/ r.at > Len(b)) /\ b[r.at] # tagEnd
             /\ r.at + 1 > Len(b) \/ r.at + 1 + b[r.at + 1] > Len(b)
    <2>1. PICK q : q = [at |-> r.at, items |-> r.items, done |-> TRUE, ok |-> FALSE]
      OBVIOUS
    <2>2. q \in ReaderType
      BY <2>1 DEF ReaderType
    <2> QED BY <1>3, <2>1, <2>2, ReadFails
  <1>4. CASE /\ ~(r.done \/ r.at > Len(b)) /\ b[r.at] # tagEnd
             /\ ~(r.at + 1 > Len(b) \/ r.at + 1 + b[r.at + 1] > Len(b))
    <2>1. PICK at \in Nat \ {0}, L \in Nat : at = r.at /\ L = Len(b)
      BY DEF ReaderType, Bytes
    <2>2. at + 1 <= L
      BY <1>4, <2>1
    <2>3. b[at] \in Byte /\ b[at + 1] \in Byte
      BY <2>1, <2>2 DEF Bytes
    <2>4. PICK n \in Nat : n = b[at + 1] /\ at + 1 + n <= L
      <3>1. PICK n \in Nat : n = b[at + 1]
        BY <2>3 DEF Byte
      <3>2. ~(at + 1 + n > L)
        BY <1>4, <2>1, <3>1, Zenon
      <3>3. at + 1 + n <= L
        BY <3>2
      <3> QED BY <3>1, <3>3
    <2>5. SubSeq(b, at + 2, at + 1 + n) \in Seq(Byte)
      <3>1. \A j \in at + 2..at + 1 + n : b[j] \in Byte
        BY <2>1, <2>4, SMTT(40) DEF Bytes
      <3>2. at + 2 \in Int /\ at + 1 + n \in Int
        BY <2>1
      <3> QED BY <3>1, <3>2, SubSeqProperties
    <2>6. Item(b[at], SubSeq(b, at + 2, at + 1 + n)) \in ItemType
      BY <2>3, <2>5 DEF Item, ItemType, Bytes
    <2>7. Append(r.items, Item(b[at], SubSeq(b, at + 2, at + 1 + n))) \in Seq(ItemType)
      BY <2>6, AppendProperties DEF ReaderType
    <2>8. at + 2 + n \in Nat \ {0}
      OBVIOUS
    <2>9. readItem(b, r) = [at |-> at + 2 + n,
                            items |-> Append(r.items, Item(b[at], SubSeq(b, at + 2, at + 1 + n))),
                            done |-> r.done, ok |-> r.ok]
      BY <1>4, <2>1, <2>4, ReadTakes
    <2> QED BY <2>7, <2>8, <2>9 DEF ReaderType
  <1> QED BY <1>1, <1>2, <1>3, <1>4

(* The reader has gone through its turns one after another. *)
Reads(f, N, b) ==
  /\ f \in [0..N -> ReaderType]
  /\ f[0] = [at |-> headerLen + 1, items |-> <<>>, done |-> FALSE, ok |-> TRUE]
  /\ \A n \in 1..N : f[n] = readItem(b, f[n - 1])
  /\ itemsOf(b) = f[N]

LEMMA ReaderFold ==
  ASSUME NEW b \in Bytes
  PROVE  \E f : Reads(f, Len(b), b)
  <1> DEFINE N == Len(b)
             s0 == [at |-> headerLen + 1, items |-> <<>>, done |-> FALSE, ok |-> TRUE]
             step == [x \in ReaderType \X (1..N) |-> readItem(b, x[1])]
  <1>0. N \in Nat
    BY DEF Bytes
  <1>1. s0 \in ReaderType
    BY EmptySeq DEF ReaderType, headerLen
  <1>2. step \in [ReaderType \X (1..N) -> ReaderType]
    BY ReadTyped
  <1>3. PICK f \in [0..N -> ReaderType] : Rec(f, N, s0, step)
    <2> HIDE DEF step, s0, N
    <2> QED BY <1>0, <1>1, <1>2, Recursion
  <1>4. f[0] = s0 /\ \A n \in 1..N : f[n] = readItem(b, f[n - 1])
    <2>1. \A n \in 1..N : f[n - 1] \in ReaderType
      BY <1>0
    <2> HIDE DEF s0
    <2> QED BY <1>3, <2>1 DEF Rec
  <1>5. f = [n \in 0..N |-> IF n = 0 THEN s0 ELSE readItem(b, f[n - 1])]
    <2> HIDE DEF s0
    <2> QED BY <1>4, <1>0
  <1> DEFINE w == CHOOSE g : g = [n \in 0..N |-> IF n = 0 THEN s0 ELSE readItem(b, g[n - 1])]
  <1>6. w = [n \in 0..N |-> IF n = 0 THEN s0 ELSE readItem(b, w[n - 1])]
    <2> HIDE DEF s0
    <2> QED BY <1>5
  <1>7. itemsOf(b) = w[N]
    BY DEF itemsOf
  <1> HIDE DEF w
  <1>8. w[0] = s0 /\ \A n \in 1..N : w[n] = readItem(b, w[n - 1])
    <2> HIDE DEF s0
    <2> DEFINE h == [n \in 0..N |-> IF n = 0 THEN s0 ELSE readItem(b, w[n - 1])]
    <2>1. h[0] = s0 /\ \A n \in 1..N : h[n] = readItem(b, w[n - 1])
      BY <1>0
    <2>2. w = h
      BY <1>6
    <2> HIDE DEF h
    <2> QED BY <2>1, <2>2
  <1>9. Agree(N, f, w)
    <2>1. Follow(N, f, w)
      <3> HIDE DEF s0
      <3> QED BY <1>4, <1>8 DEF Follow
    <2> HIDE DEF N
    <2> QED BY <1>0, <2>1, Unique
  <1>10. itemsOf(b) = f[N]
    BY <1>0, <1>7, <1>9 DEF Agree
  <1> QED BY <1>4, <1>10 DEF Reads

-----------------------------------------------------------------------------
(* What is written, read; and what is read, written. *)

Good == {it \in ItemType : it.tag # tagEnd}

Begins(b, s) == Len(s) <= Len(b) /\ \A j \in 1..Len(s) : b[j] = s[j]

LEMMA GoodItems ==
  ASSUME NEW s \in Seq(Good)
  PROVE  s \in Seq(ItemType)
  <1>1. Good \subseteq ItemType
    BY DEF Good
  <1> QED BY <1>1, SeqMonotonic

(* d is a and then c, element by element. *)
Joined(d, a, c, L, n) ==
  /\ Len(d) = L + n
  /\ \A j \in 1..L : d[j] = a[j]
  /\ \A j \in 1..n : d[L + j] = c[j]

LEMMA Join ==
  ASSUME NEW S, NEW a \in Seq(S), NEW c \in Seq(S), NEW L \in Nat, NEW n \in Nat,
         L = Len(a), n = Len(c)
  PROVE  a \o c \in Seq(S) /\ Joined(a \o c, a, c, L, n)
  <1>1. a \o c \in Seq(S) /\ Len(a \o c) = L + n
    BY ConcatProperties
  <1>2. \A i \in 1..Len(a) + Len(c) : (a \o c)[i] = IF i <= Len(a) THEN a[i] ELSE c[i - Len(a)]
    BY ConcatProperties
  <1>3. ASSUME NEW j \in 1..L PROVE (a \o c)[j] = a[j]
    BY <1>2
  <1>4. ASSUME NEW j \in 1..n PROVE (a \o c)[L + j] = c[j]
    <2>1. L + j \in 1..Len(a) + Len(c) /\ ~(L + j <= L) /\ (L + j) - L = j
      OBVIOUS
    <2> QED BY <1>2, <2>1
  <1> QED BY <1>1, <1>3, <1>4 DEF Joined

(* What tlv adds to the buffer. *)
Adds(v, w, it, L, n) ==
  /\ Len(v) = L + 2 + n
  /\ \A j \in 1..L : v[j] = w[j]
  /\ v[L + 1] = it.tag
  /\ v[L + 2] = n
  /\ \A j \in 1..n : v[L + 2 + j] = it.value[j]

LEMMA TlvBytes ==
  ASSUME NEW w \in WriterType, NEW it \in ItemType, w.ok, Len(it.value) <= 255
  PROVE  /\ tlv(w, it).ok
         /\ tlv(w, it).buf \in Seq(Byte)
         /\ Adds(tlv(w, it).buf, w.buf, it, Len(w.buf), Len(it.value))
  <1>1. PICK a \in Seq(Byte), c \in Seq(Byte), t \in Byte : a = w.buf /\ c = it.value /\ t = it.tag
    BY DEF WriterType, ItemType, Bytes
  <1>2. PICK L \in Nat, n \in Nat : L = Len(a) /\ n = Len(c)
    OBVIOUS
  <1>3. n <= 255
    BY <1>1, <1>2
  <1>4. n \in Byte
    BY <1>3 DEF Byte
  <1>5. PICK h \in Seq(Byte) : h = <<t, n>> /\ Len(h) = 2 /\ h[1] = t /\ h[2] = n
    <2>1. <<t, n>> \in Seq(Byte)
      BY <1>4
    <2> QED BY <2>1
  <1>6. PICK d \in Seq(Byte) : d = a \o h /\ Joined(d, a, h, L, 2)
    <2>1. 2 \in Nat /\ Len(h) = 2
      BY <1>5
    <2> QED BY <1>2, <2>1, Join
  <1>7. PICK e \in Seq(Byte) : e = d \o c /\ Joined(e, d, c, L + 2, n)
    <2>1. L + 2 \in Nat /\ Len(d) = L + 2
      BY <1>6 DEF Joined
    <2> QED BY <1>2, <2>1, Join
  <1>8. tlv(w, it).ok /\ tlv(w, it).buf = e
    <2>1. ~(Len(it.value) > 255)
      BY <1>1, <1>2, <1>3
    <2>2. tlv(w, it) = [w EXCEPT !.buf = @ \o <<it.tag, Len(it.value)>> \o it.value]
      BY <2>1 DEF tlv
    <2>3. w.buf \o <<it.tag, Len(it.value)>> \o it.value = e
      BY <1>1, <1>2, <1>5, <1>6, <1>7
    <2> QED BY <2>2, <2>3 DEF WriterType
  <1>9. \A j \in 1..L : e[j] = a[j]
    BY <1>6, <1>7 DEF Joined
  <1>10. e[L + 1] = t /\ e[L + 2] = n
    <2>1. 1 \in 1..2 /\ 2 \in 1..2 /\ L + 1 \in 1..L + 2 /\ L + 2 \in 1..L + 2
      OBVIOUS
    <2>2. e[L + 1] = d[L + 1] /\ e[L + 2] = d[L + 2]
      BY <1>7, <2>1 DEF Joined
    <2>3. d[L + 1] = h[1] /\ d[L + 2] = h[2]
      BY <1>6, <2>1 DEF Joined
    <2> QED BY <1>5, <2>2, <2>3
  <1>11. Len(e) = L + 2 + n /\ \A j \in 1..n : e[L + 2 + j] = c[j]
    BY <1>7 DEF Joined
  <1>12. Adds(e, a, it, L, n)
    BY <1>1, <1>9, <1>10, <1>11 DEF Adds
  <1> QED BY <1>1, <1>2, <1>8, <1>12

LEMMA TlvOK ==
  ASSUME NEW w \in WriterType, NEW it \in ItemType, tlv(w, it).ok
  PROVE  w.ok /\ Len(it.value) <= 255
  <1>1. CASE ~w.ok \/ Len(it.value) > 255
    <2>1. tlv(w, it) = [w EXCEPT !.ok = FALSE]
      BY <1>1 DEF tlv
    <2>2. ~tlv(w, it).ok
      BY <2>1 DEF WriterType
    <2> QED BY <2>2
  <1>2. CASE ~(~w.ok \/ Len(it.value) > 255)
    <2>1. PICK n \in Nat : n = Len(it.value)
      BY DEF ItemType, Bytes
    <2>2. w.ok /\ ~(n > 255)
      BY <1>2, <2>1, Zenon
    <2>3. n <= 255
      BY <2>2
    <2> QED BY <2>1, <2>2, <2>3
  <1> QED BY <1>1, <1>2

LEMMA WriterTyped ==
  ASSUME NEW magic \in Byte, NEW items \in Seq(ItemType)
  PROVE  writer(magic, items) \in WriterType
  <1>1. PICK N \in Nat : N = Len(items)
    OBVIOUS
  <1>2. PICK f \in [0..N -> WriterType] : writer(magic, items) = f[N]
    BY <1>1, WriterFold
  <1> QED BY <1>2

(* The buffer begins with the header, and every item takes two bytes at least. *)
LEMMA WriterLength ==
  ASSUME NEW magic \in Byte, NEW items \in Seq(ItemType), writer(magic, items).ok
  PROVE  LET w == writer(magic, items)
         IN  Len(w.buf) >= 2 + 2 * Len(items) /\ w.buf[1] = magic /\ w.buf[2] = Version
  <1> DEFINE P(w, n) == w.ok => Len(w.buf) >= 2 + 2 * n /\ w.buf[1] = magic /\ w.buf[2] = Version
             T == {s \in Seq(ItemType) : P(writer(magic, s), Len(s))}
  <1>1. <<>> \in T
    BY WriterEmpty, EmptySeq
  <1>2. ASSUME NEW s \in Seq(ItemType), NEW e \in ItemType, s \in T PROVE Append(s, e) \in T
    <2>1. PICK w \in WriterType : w = writer(magic, s)
      BY WriterTyped
    <2>2. writer(magic, Append(s, e)) = tlv(w, e)
      BY <2>1, WriterAppend
    <2>3. Append(s, e) \in Seq(ItemType) /\ Len(Append(s, e)) = Len(s) + 1
      BY AppendProperties
    <2> SUFFICES ASSUME tlv(w, e).ok PROVE P(tlv(w, e), Len(s) + 1)
      BY <2>2, <2>3
    <2>4. w.ok /\ Len(e.value) <= 255
      BY TlvOK
    <2>5. Len(w.buf) >= 2 + 2 * Len(s) /\ w.buf[1] = magic /\ w.buf[2] = Version
      BY <1>2, <2>1, <2>4
    <2>6. PICK L \in Nat, m \in Nat, n \in Nat : L = Len(w.buf) /\ m = Len(s) /\ n = Len(e.value)
      BY DEF WriterType, ItemType, Bytes
    <2>7. Len(tlv(w, e).buf) = L + 2 + n /\ \A j \in 1..L : tlv(w, e).buf[j] = w.buf[j]
      <3>1. Adds(tlv(w, e).buf, w.buf, e, L, n)
        BY <2>4, <2>6, TlvBytes
      <3> QED BY <3>1 DEF Adds
    <2>8. L >= 2 + 2 * m /\ L >= 2
      BY <2>5, <2>6
    <2>9. tlv(w, e).buf[1] = magic /\ tlv(w, e).buf[2] = Version
      <3>1. 1 \in 1..L /\ 2 \in 1..L
        BY <2>8
      <3> QED BY <2>5, <2>7, <3>1
    <2>10. Len(tlv(w, e).buf) >= 2 + 2 * (m + 1)
      BY <2>7, <2>8
    <2> QED BY <2>6, <2>9, <2>10
  <1>3. Seq(ItemType) \subseteq T
    <2> HIDE DEF T
    <2> QED BY <1>1, <1>2, SeqInduction
  <1>4. P(writer(magic, items), Len(items))
    BY <1>3
  <1> QED BY <1>4

After(magic, s) ==
  [at |-> Len(writer(magic, s).buf) + 1, items |-> s, done |-> FALSE, ok |-> TRUE]

(* Bytes that begin with what the writer made of some items are read, in as
   many turns, as these items. *)
LEMMA ReadsWritten ==
  ASSUME NEW magic \in Byte, NEW b \in Bytes, NEW f, Reads(f, Len(b), b),
         NEW items \in Seq(Good), writer(magic, items).ok, Begins(b, writer(magic, items).buf)
  PROVE  Len(items) \in 0..Len(b) /\ f[Len(items)] = After(magic, items)
  <1> DEFINE T == {s \in Seq(Good) :
                     writer(magic, s).ok /\ Begins(b, writer(magic, s).buf)
                       => f[Len(s)] = After(magic, s)}
  <1>0. ASSUME NEW s \in Seq(Good), writer(magic, s).ok, Begins(b, writer(magic, s).buf)
        PROVE  Len(s) \in 0..Len(b)
    <2>1. s \in Seq(ItemType)
      BY GoodItems
    <2>2. PICK m \in Nat, L \in Nat, K \in Nat :
             m = Len(s) /\ L = Len(writer(magic, s).buf) /\ K = Len(b)
      BY <2>1, WriterTyped DEF WriterType, Bytes
    <2>3. L >= 2 + 2 * m
      BY <1>0, <2>1, <2>2, WriterLength
    <2>4. L <= K
      BY <1>0, <2>2 DEF Begins
    <2> QED BY <2>2, <2>3, <2>4
  <1>1. <<>> \in T
    <2>1. <<>> \in Seq(Good) /\ Len(<<>>) = 0
      BY EmptySeq
    <2>2. After(magic, <<>>) = [at |-> headerLen + 1, items |-> <<>>, done |-> FALSE, ok |-> TRUE]
      <3>1. writer(magic, <<>>).buf = <<magic, Version>>
        BY WriterEmpty
      <3>2. Len(<<magic, Version>>) = 2
        OBVIOUS
      <3> QED BY <3>1, <3>2 DEF After, headerLen
    <2> QED BY <2>1, <2>2 DEF Reads
  <1>2. ASSUME NEW s \in Seq(Good), NEW e \in Good, s \in T PROVE Append(s, e) \in T
    <2>1. s \in Seq(ItemType) /\ e \in ItemType /\ e.tag # tagEnd
      BY GoodItems DEF Good
    <2>2. Append(s, e) \in Seq(Good) /\ Len(Append(s, e)) = Len(s) + 1
      BY AppendProperties
    <2>3. PICK w \in WriterType : w = writer(magic, s)
      BY <2>1, WriterTyped
    <2>4. PICK v \in WriterType : v = tlv(w, e) /\ v = writer(magic, Append(s, e))
      BY <2>1, <2>3, WriterAppend, TlvTyped
    <2> SUFFICES ASSUME v.ok, Begins(b, v.buf) PROVE f[Len(s) + 1] = After(magic, Append(s, e))
      BY <2>2, <2>4
    <2>5. w.ok /\ Len(e.value) <= 255
      <3>1. e \in ItemType
        BY <2>1
      <3>2. tlv(w, e).ok
        BY <2>4, Zenon
      <3> QED BY <3>1, <3>2, TlvOK, Zenon
    <2>6. PICK L \in Nat, n \in Nat, m \in Nat, K \in Nat :
            L = Len(w.buf) /\ n = Len(e.value) /\ m = Len(s) /\ K = Len(b)
      BY <2>1 DEF WriterType, ItemType, Bytes
    <2>7. /\ Len(v.buf) = L + 2 + n
          /\ \A j \in 1..L : v.buf[j] = w.buf[j]
          /\ v.buf[L + 1] = e.tag
          /\ v.buf[L + 2] = n
          /\ \A j \in 1..n : v.buf[L + 2 + j] = e.value[j]
      <3>1. Adds(v.buf, w.buf, e, L, n)
        BY <2>1, <2>4, <2>5, <2>6, TlvBytes
      <3> QED BY <3>1 DEF Adds
    <2>8. L + 2 + n <= K /\ \A j \in 1..L + 2 + n : b[j] = v.buf[j]
      BY <2>6, <2>7 DEF Begins
    <2>9. Begins(b, w.buf)
      <3>1. L <= K
        BY <2>8
      <3>2. \A j \in 1..L : b[j] = w.buf[j]
        BY <2>7, <2>8
      <3> QED BY <2>6, <3>1, <3>2 DEF Begins
    <2>10. f[m] = After(magic, s)
      BY <1>2, <2>3, <2>5, <2>6, <2>9
    <2>11. m + 1 \in 1..K /\ m \in 0..K
      <3>1. Len(Append(s, e)) \in 0..Len(b)
        BY <1>0, <2>2, <2>4
      <3> QED BY <2>2, <2>6, <3>1
    <2>12. PICK r \in ReaderType : r = f[m]
      BY <2>6, <2>11 DEF Reads
    <2>13. f[m + 1] = readItem(b, r)
      <3>1. f[m + 1] = readItem(b, f[(m + 1) - 1]) /\ (m + 1) - 1 = m
        BY <2>6, <2>11 DEF Reads
      <3> QED BY <2>12, <3>1
    <2>14. r = [at |-> L + 1, items |-> s, done |-> FALSE, ok |-> TRUE]
      BY <2>3, <2>6, <2>10, <2>12 DEF After
    <2>15. b[L + 1] = e.tag /\ b[(L + 1) + 1] = n
      <3>1. L + 1 \in 1..L + 2 + n /\ L + 2 \in 1..L + 2 + n /\ (L + 1) + 1 = L + 2
        OBVIOUS
      <3> QED BY <2>7, <2>8, <3>1
    <2>16. SubSeq(b, L + 3, L + 2 + n) = e.value
      <3>1. \A i \in L + 3..L + 2 + n : b[i] \in Byte
        <4>1. \A i \in 1..K : b[i] \in Byte
          BY <2>6 DEF Bytes
        <4>2. \A i \in L + 3..L + 2 + n : i \in 1..K
          BY <2>8
        <4> QED BY <4>1, <4>2
      <3>2. PICK lo \in Int, hi \in Int : lo = L + 3 /\ hi = L + 2 + n
        OBVIOUS
      <3>3. /\ SubSeq(b, lo, hi) \in Seq(Byte)
            /\ Len(SubSeq(b, lo, hi)) = IF lo <= hi THEN hi - lo + 1 ELSE 0
            /\ \A i \in 1..hi - lo + 1 : SubSeq(b, lo, hi)[i] = b[lo + i - 1]
        BY <3>1, <3>2, SubSeqProperties
      <3>4. PICK q \in Seq(Byte) : q = SubSeq(b, lo, hi)
        BY <3>3
      <3>5. Len(q) = n
        BY <3>2, <3>3, <3>4
      <3>6. e.value \in Seq(Byte)
        BY <2>1 DEF ItemType, Bytes
      <3>7. ASSUME NEW i \in 1..n PROVE q[i] = e.value[i]
        <4>1. i \in 1..hi - lo + 1 /\ lo + i - 1 = L + 2 + i /\ L + 2 + i \in 1..L + 2 + n
          BY <3>2
        <4>2. q[i] = b[L + 2 + i]
          BY <3>3, <3>4, <4>1
        <4> QED BY <2>7, <2>8, <4>1, <4>2
      <3>8. q = e.value
        BY <2>6, <3>5, <3>6, <3>7, SeqEqual
      <3> QED BY <3>2, <3>4, <3>8
    <2>17. Item(e.tag, e.value) = e
      BY <2>1 DEF Item, ItemType
    <2>18. readItem(b, r) = [at |-> L + 3 + n, items |-> Append(s, e), done |-> FALSE, ok |-> TRUE]
      <3>1. ~r.done /\ r.at = L + 1 /\ r.items = s /\ r.ok = TRUE /\ r.done = FALSE
        BY <2>14
      <3>2. ~(L + 1 > K) /\ ~((L + 1) + 1 > K) /\ ~((L + 1) + 1 + n > K)
        BY <2>8
      <3>3. /\ ~(r.at > Len(b)) /\ b[r.at] # tagEnd
            /\ ~(r.at + 1 > Len(b)) /\ ~(r.at + 1 + b[r.at + 1] > Len(b))
        BY <2>1, <2>6, <2>15, <3>1, <3>2
      <3>4. readItem(b, r) =
              [at |-> r.at + 2 + b[r.at + 1],
               items |-> Append(r.items, Item(b[r.at], SubSeq(b, r.at + 2, r.at + 1 + b[r.at + 1]))),
               done |-> r.done, ok |-> r.ok]
        BY <3>1, <3>3, ReadTakes
      <3>5. /\ r.at + 2 + b[r.at + 1] = L + 3 + n
            /\ r.at + 2 = L + 3 /\ r.at + 1 + b[r.at + 1] = L + 2 + n
            /\ b[r.at] = e.tag
        BY <2>15, <3>1, SMTT(40)
      <3> QED BY <2>16, <2>17, <3>1, <3>4, <3>5
    <2>19. After(magic, Append(s, e)) = [at |-> L + 3 + n, items |-> Append(s, e), done |-> FALSE, ok |-> TRUE]
      <3>1. Len(v.buf) + 1 = L + 3 + n
        BY <2>7
      <3> QED BY <2>4, <3>1 DEF After
    <2> QED BY <2>6, <2>13, <2>18, <2>19
  <1>3. Seq(Good) \subseteq T
    <2> HIDE DEF T
    <2> QED BY <1>1, <1>2, SeqInduction
  <1> QED BY <1>0, <1>3

(* A loop that has stopped stays as it is. *)
LEMMA StaysStopped ==
  ASSUME NEW b \in Bytes, NEW f, Reads(f, Len(b), b), NEW m \in 0..Len(b),
         f[m].done \/ f[m].at > Len(b)
  PROVE  itemsOf(b) = f[m]
  <1>0. PICK K \in Nat : K = Len(b)
    BY DEF Bytes
  <1> DEFINE T == {d \in Nat : m + d <= K => f[m + d] = f[m]}
  <1>1. 0 \in T
    BY <1>0
  <1>2. ASSUME NEW d \in Nat, d \in T PROVE d + 1 \in T
    <2> SUFFICES ASSUME m + (d + 1) <= K PROVE f[m + (d + 1)] = f[m]
      OBVIOUS
    <2>1. f[m + d] = f[m] /\ m + d \in 0..K /\ m + (d + 1) \in 1..K /\ m + (d + 1) - 1 = m + d
      BY <1>0, <1>2
    <2>2. f[m + (d + 1)] = readItem(b, f[m + d]) /\ f[m] \in ReaderType
      BY <1>0, <2>1 DEF Reads
    <2> QED BY <2>1, <2>2, ReadStops
  <1>3. Nat \subseteq T
    <2> HIDE DEF T
    <2> QED BY <1>1, <1>2, Induction
  <1>4. K - m \in Nat /\ m + (K - m) = K
    BY <1>0
  <1>5. f[K] = f[m]
    BY <1>3, <1>4
  <1> QED BY <1>0, <1>5 DEF Reads

(* Padded with zeros, or not at all, they are read as these items and no more. *)
LEMMA ReadsPadded ==
  ASSUME NEW magic \in Byte, NEW b \in Bytes, NEW items \in Seq(Good), writer(magic, items).ok,
         Begins(b, writer(magic, items).buf),
         \A j \in 1..Len(b) : j > Len(writer(magic, items).buf) => b[j] = 0
  PROVE  itemsOf(b).ok = TRUE /\ itemsOf(b).items = items
  <1>0. PICK f : Reads(f, Len(b), b)
    BY ReaderFold
  <1>1. items \in Seq(ItemType)
    BY GoodItems
  <1>2. PICK K \in Nat, L \in Nat, m \in Nat :
          K = Len(b) /\ L = Len(writer(magic, items).buf) /\ m = Len(items)
    BY <1>1, WriterTyped DEF WriterType, Bytes
  <1>3. m \in 0..K /\ f[m] = After(magic, items)
    BY <1>0, <1>2, ReadsWritten
  <1>4. PICK r \in ReaderType : r = f[m]
    BY <1>0, <1>2, <1>3 DEF Reads
  <1>5. r = [at |-> L + 1, items |-> items, done |-> FALSE, ok |-> TRUE]
    BY <1>2, <1>3, <1>4 DEF After
  <1>6. L <= K /\ L >= 2 + 2 * m
    BY <1>1, <1>2, WriterLength DEF Begins
  <1>7. CASE L = K
    <2>1. f[m].at > Len(b)
      BY <1>2, <1>4, <1>5, <1>7
    <2>2. itemsOf(b) = f[m]
      BY <1>0, <1>2, <1>3, <2>1, StaysStopped
    <2>3. r.ok = TRUE /\ r.items = items
      BY <1>5
    <2> QED BY <1>4, <2>2, <2>3, Zenon
  <1>8. CASE L < K
    <2>1. L + 1 \in 1..K /\ L + 1 > L /\ m + 1 \in 1..K /\ (m + 1) - 1 = m
      BY <1>6, <1>8
    <2>2. b[L + 1] = tagEnd
      BY <1>2, <2>1 DEF tagEnd
    <2>3. \A j \in L + 1..K : b[j] = 0
      BY <1>2, <2>1
    <2>4. ~r.done /\ r.at = L + 1 /\ r.items = items
      BY <1>5
    <2>5. ~(L + 1 > K)
      BY <2>1
    <2>6. readItem(b, r) = [at |-> r.at, items |-> r.items, done |-> TRUE,
                            ok |-> \A j \in r.at..Len(b) : b[j] = 0]
      <3>1. ~(r.at > Len(b)) /\ b[r.at] = tagEnd
        BY <1>2, <2>2, <2>4, <2>5
      <3> QED BY <2>4, <3>1, ReadEnds
    <2>7. PICK q : q = readItem(b, r)
      OBVIOUS
    <2>8. q.done = TRUE /\ q.items = items
      BY <2>4, <2>6, <2>7
    <2>9. q.ok = TRUE
      <3>1. q.ok = (\A j \in r.at..Len(b) : b[j] = 0)
        BY <2>6, <2>7
      <3> QED BY <1>2, <2>3, <2>4, <3>1
    <2>10. f[m + 1] = q
      BY <1>0, <1>2, <1>4, <2>1, <2>7 DEF Reads
    <2>11. itemsOf(b) = f[m + 1]
      <3>1. m + 1 \in 0..Len(b) /\ f[m + 1].done
        BY <1>2, <2>1, <2>8, <2>10
      <3> QED BY <1>0, <3>1, StaysStopped
    <2> QED BY <2>8, <2>9, <2>10, <2>11
  <1>9. L = K \/ L < K
    BY <1>6
  <1> QED BY <1>7, <1>8, <1>9

(* What has been read after n turns is what the writer makes the bytes of. *)
Faithful(r, b, magic, n) ==
  /\ r.items \in Seq(Good)
  /\ writer(magic, r.items).ok
  /\ Len(writer(magic, r.items).buf) + 1 = r.at
  /\ Begins(b, writer(magic, r.items).buf)
  /\ r.done \/ r.ok
  /\ r.done /\ r.ok => \A j \in r.at..Len(b) : b[j] = 0
  /\ r.done \/ r.at > Len(b) \/ r.at >= 3 + 2 * n

LEMMA TakesFaithfully ==
  ASSUME NEW magic \in Byte, NEW b \in Bytes, NEW r \in ReaderType, NEW n \in Nat,
         Faithful(r, b, magic, n), ~r.done, ~(r.at > Len(b)), b[r.at] # tagEnd,
         ~(r.at + 1 > Len(b)), ~(r.at + 1 + b[r.at + 1] > Len(b))
  PROVE  Faithful(readItem(b, r), b, magic, n + 1)
  <1>1. PICK at \in Nat \ {0}, K \in Nat : at = r.at /\ K = Len(b)
    BY DEF ReaderType, Bytes
  <1>2. at + 1 <= K
    BY <1>1
  <1>3. at \in 1..K /\ at + 1 \in 1..K
    BY <1>2
  <1>4. b[at] \in Byte /\ b[at + 1] \in Byte
    BY <1>1, <1>3 DEF Bytes
  <1>5. PICK k \in Nat : k = b[at + 1] /\ at + 1 + k <= K /\ k <= 255
    <2>1. PICK k \in Nat : k = b[at + 1] /\ k <= 255
      <3>1. PICK k \in 0..255 : k = b[at + 1]
        BY <1>4 DEF Byte
      <3>2. k \in Nat /\ k <= 255
        OBVIOUS
      <3> QED BY <3>1, <3>2, Zenon
    <2>2. ~(at + 1 + k > K)
      BY <1>1, <2>1, Zenon
    <2>3. at + 1 + k <= K
      BY <2>2
    <2> QED BY <2>1, <2>3
  <1>6. PICK value \in Seq(Byte) : /\ value = SubSeq(b, at + 2, at + 1 + k)
                                   /\ Len(value) = k
                                   /\ \A i \in 1..k : value[i] = b[at + 1 + i]
    <2>1. \A i \in at + 2..at + 1 + k : b[i] \in Byte
      <3>1. \A i \in 1..K : b[i] \in Byte
        BY <1>1 DEF Bytes
      <3>2. \A i \in at + 2..at + 1 + k : i \in 1..K
        BY <1>5
      <3> QED BY <3>1, <3>2
    <2>2. PICK lo \in Int, hi \in Int : lo = at + 2 /\ hi = at + 1 + k
      OBVIOUS
    <2>3. /\ SubSeq(b, lo, hi) \in Seq(Byte)
          /\ Len(SubSeq(b, lo, hi)) = IF lo <= hi THEN hi - lo + 1 ELSE 0
          /\ \A i \in 1..hi - lo + 1 : SubSeq(b, lo, hi)[i] = b[lo + i - 1]
      BY <2>1, <2>2, SubSeqProperties
    <2>4. PICK q \in Seq(Byte) : q = SubSeq(b, lo, hi)
      BY <2>3
    <2>5. Len(q) = k
      BY <2>2, <2>3, <2>4
    <2>6. ASSUME NEW i \in 1..k PROVE q[i] = b[at + 1 + i]
      <3>1. i \in 1..hi - lo + 1 /\ lo + i - 1 = at + 1 + i
        BY <2>2
      <3> QED BY <2>3, <2>4, <3>1
    <2> QED BY <2>2, <2>4, <2>5, <2>6
  <1>7. PICK e \in Good : e = Item(b[at], value) /\ e.tag = b[at] /\ e.value = value
    <2>1. Item(b[at], value) \in ItemType /\ Item(b[at], value).tag # tagEnd
      BY <1>1, <1>4, SMTT(40) DEF Item, ItemType, Bytes
    <2> QED BY <2>1 DEF Good, Item
  <1>8. readItem(b, r) = [at |-> at + 2 + k, items |-> Append(r.items, e), done |-> r.done, ok |-> r.ok]
    BY <1>1, <1>5, <1>6, <1>7, ReadTakes
  <1>9. PICK s \in Seq(Good) : s = r.items
    BY DEF Faithful
  <1>10. s \in Seq(ItemType) /\ e \in ItemType
    BY GoodItems DEF Good
  <1>11. PICK w \in WriterType : w = writer(magic, s) /\ w.ok /\ Len(w.buf) + 1 = at /\ Begins(b, w.buf)
    BY <1>1, <1>9, <1>10, WriterTyped DEF Faithful
  <1>12. PICK L \in Nat : L = Len(w.buf) /\ at = L + 1
    BY <1>11 DEF WriterType, Bytes
  <1>13. PICK v : v = writer(magic, Append(s, e)) /\ v = tlv(w, e)
    BY <1>10, <1>11, WriterAppend
  <1>14. v.ok /\ Adds(v.buf, w.buf, e, L, k)
    <2>1. Len(e.value) = k
      BY <1>6, <1>7
    <2> QED BY <1>5, <1>10, <1>11, <1>12, <1>13, <2>1, TlvBytes, ZenonT(60)
  <1>15. Begins(b, v.buf)
    <2>1. Len(v.buf) = L + 2 + k /\ L + 2 + k <= K
      BY <1>5, <1>12, <1>14, SMTT(40) DEF Adds
    <2>2. ASSUME NEW j \in 1..L + 2 + k PROVE b[j] = v.buf[j]
      <3>1. CASE j \in 1..L
        BY <1>11, <1>12, <1>14, <3>1 DEF Begins, Adds
      <3>2. CASE j = L + 1
        BY <1>7, <1>12, <1>14, <3>2 DEF Adds
      <3>3. CASE j = L + 2
        BY <1>5, <1>12, <1>14, <3>3 DEF Adds
      <3>4. CASE j \notin 1..L /\ j # L + 1 /\ j # L + 2
        <4>1. PICK i \in 1..k : j = L + 2 + i
          <5>1. j - (L + 2) \in 1..k /\ j = L + 2 + (j - (L + 2))
            BY <3>4
          <5> QED BY <5>1
        <4>2. v.buf[L + 2 + i] = e.value[i]
          BY <1>14 DEF Adds
        <4>3. e.value[i] = b[at + 1 + i] /\ at + 1 + i = L + 2 + i
          <5>1. value[i] = b[at + 1 + i] /\ e.value = value
            BY <1>6, <1>7
          <5>2. at + 1 + i = L + 2 + i
            BY <1>12
          <5> QED BY <5>1, <5>2, Zenon
        <4> QED BY <4>1, <4>2, <4>3
      <3> QED BY <3>1, <3>2, <3>3, <3>4
    <2> QED BY <1>1, <2>1, <2>2 DEF Begins
  <1>16. PICK q : q = readItem(b, r)
    OBVIOUS
  <1>17. q.at = at + 2 + k /\ q.items = Append(s, e) /\ q.done = r.done /\ q.ok = r.ok
    BY <1>8, <1>9, <1>16
  <1>18. q.items \in Seq(Good)
    BY <1>17, AppendProperties
  <1>19. Len(v.buf) + 1 = q.at
    BY <1>12, <1>14, <1>17 DEF Adds
  <1>20. q.at > Len(b) \/ q.at >= 3 + 2 * (n + 1)
    <2>1. at >= 3 + 2 * n
      BY <1>1 DEF Faithful
    <2>2. at + 2 + k >= 3 + 2 * (n + 1)
      BY <2>1
    <2> QED BY <1>17, <2>2
  <1>21. ~q.done /\ q.ok
    <2>1. ~r.done /\ (r.done \/ r.ok)
      BY DEF Faithful
    <2> QED BY <1>17, <2>1, Zenon
  <1>22. writer(magic, q.items) = v
    BY <1>13, <1>17
  <1> QED BY <1>14, <1>15, <1>16, <1>18, <1>19, <1>20, <1>21, <1>22 DEF Faithful

LEMMA ReadsFaithfully ==
  ASSUME NEW magic \in Byte, NEW b \in Bytes, NEW r \in ReaderType, NEW n \in Nat,
         Faithful(r, b, magic, n)
  PROVE  Faithful(readItem(b, r), b, magic, n + 1)
  <1>1. CASE r.done \/ r.at > Len(b)
    <2>1. readItem(b, r) = r
      BY <1>1, ReadStops
    <2>2. Faithful(r, b, magic, n + 1)
      BY <1>1 DEF Faithful
    <2> QED BY <2>1, <2>2
  <1>2. CASE ~(r.done \/ r.at > Len(b)) /\ b[r.at] = tagEnd
    <2>1. PICK q : q = readItem(b, r)
      OBVIOUS
    <2>2. readItem(b, r) =
            [at |-> r.at, items |-> r.items, done |-> TRUE, ok |-> \A j \in r.at..Len(b) : b[j] = 0]
      BY <1>2, ReadEnds
    <2>3. q.at = r.at /\ q.items = r.items /\ q.done = TRUE /\ q.ok = (\A j \in r.at..Len(b) : b[j] = 0)
      BY <2>1, <2>2
    <2> QED BY <2>1, <2>3 DEF Faithful
  <1>3. CASE /\ ~(r.done \/ r.at > Len(b)) /\ b[r.at] # tagEnd
             /\ r.at + 1 > Len(b) \/ r.at + 1 + b[r.at + 1] > Len(b)
    <2>1. PICK q : q = readItem(b, r)
      OBVIOUS
    <2>2. readItem(b, r) = [at |-> r.at, items |-> r.items, done |-> TRUE, ok |-> FALSE]
      BY <1>3, ReadFails
    <2>3. q.at = r.at /\ q.items = r.items /\ q.done = TRUE /\ q.ok = FALSE
      BY <2>1, <2>2
    <2> QED BY <2>1, <2>3 DEF Faithful
  <1>4. CASE /\ ~(r.done \/ r.at > Len(b)) /\ b[r.at] # tagEnd
             /\ ~(r.at + 1 > Len(b) \/ r.at + 1 + b[r.at + 1] > Len(b))
    BY <1>4, TakesFaithfully
  <1> QED BY <1>1, <1>2, <1>3, <1>4

(* Bytes that were read to the end are what the writer makes of the items,
   and zeros. *)
LEMMA WritesRead ==
  ASSUME NEW magic \in Byte, NEW b \in Bytes, Len(b) >= headerLen, b[1] = magic, b[2] = Version,
         itemsOf(b).ok
  PROVE  LET items == itemsOf(b).items
             w == writer(magic, items)
         IN  /\ items \in Seq(Good)
             /\ w.ok
             /\ Begins(b, w.buf)
             /\ \A j \in 1..Len(b) : j > Len(w.buf) => b[j] = 0
  <1>0. PICK f : Reads(f, Len(b), b)
    BY ReaderFold
  <1>1. PICK K \in Nat : K = Len(b)
    BY DEF Bytes
  <1> DEFINE T == {n \in Nat : n <= K => Faithful(f[n], b, magic, n)}
  <1>2. 0 \in T
    <2>1. PICK r : r = f[0] /\ r = [at |-> headerLen + 1, items |-> <<>>, done |-> FALSE, ok |-> TRUE]
      BY <1>0 DEF Reads
    <2>2. r.at = 3 /\ r.items = <<>> /\ r.done = FALSE /\ r.ok = TRUE
      BY <2>1 DEF headerLen
    <2>3. PICK h \in Seq(Byte) : h = <<magic, Version>> /\ Len(h) = 2 /\ h[1] = magic /\ h[2] = Version
      <3>1. <<magic, Version>> \in Seq(Byte)
        BY DEF Version, Byte
      <3> QED BY <3>1
    <2>4. writer(magic, <<>>).ok = TRUE /\ writer(magic, <<>>).buf = h
      BY <2>3, WriterEmpty
    <2>5. Begins(b, h)
      <3>1. Len(h) <= Len(b)
        BY <1>1, <2>3 DEF headerLen
      <3>2. \A j \in 1..2 : b[j] = h[j]
        BY <2>3
      <3> QED BY <2>3, <3>1, <3>2 DEF Begins
    <2>6. <<>> \in Seq(Good)
      BY EmptySeq
    <2>7. Len(h) + 1 = r.at /\ r.at >= 3 + 2 * 0
      BY <2>2, <2>3
    <2>8. Faithful(r, b, magic, 0)
      BY <2>2, <2>4, <2>5, <2>6, <2>7 DEF Faithful
    <2> QED BY <2>1, <2>8
  <1>3. ASSUME NEW n \in Nat, n \in T PROVE n + 1 \in T
    <2> SUFFICES ASSUME n + 1 <= K PROVE Faithful(f[n + 1], b, magic, n + 1)
      OBVIOUS
    <2>1. n \in 0..K /\ n + 1 \in 1..K /\ (n + 1) - 1 = n
      OBVIOUS
    <2>2. f[n] \in ReaderType /\ f[n + 1] = readItem(b, f[n])
      BY <1>0, <1>1, <2>1 DEF Reads
    <2>3. Faithful(f[n], b, magic, n)
      BY <1>3, <2>1
    <2> QED BY <2>2, <2>3, ReadsFaithfully
  <1>4. Nat \subseteq T
    <2> HIDE DEF T
    <2> QED BY <1>2, <1>3, Induction
  <1>5. PICK r \in ReaderType : r = itemsOf(b) /\ Faithful(r, b, magic, K)
    BY <1>0, <1>1, <1>4 DEF Reads
  <1>6. PICK w \in WriterType : w = writer(magic, r.items)
    <2>1. r.items \in Seq(ItemType)
      BY <1>5 DEF ReaderType
    <2> QED BY <2>1, WriterTyped
  <1>7. \A j \in 1..Len(b) : j > Len(w.buf) => b[j] = 0
    <2>1. PICK L \in Nat : L = Len(w.buf) /\ r.at = L + 1
      BY <1>5, <1>6 DEF WriterType, Bytes, Faithful
    <2> SUFFICES ASSUME NEW j \in 1..K, j > L PROVE b[j] = 0
      BY <1>1, <2>1
    <2>2. CASE r.done
      <3>1. \A i \in L + 1..K : b[i] = 0
        BY <1>1, <1>5, <2>1, <2>2 DEF Faithful
      <3> QED BY <3>1
    <2>3. CASE ~r.done
      <3>1. L + 1 > K \/ L + 1 >= 3 + 2 * K
        BY <1>1, <1>5, <2>1, <2>3 DEF Faithful
      <3> QED BY <3>1
    <2> QED BY <2>2, <2>3
  <1> QED BY <1>5, <1>6, <1>7 DEF Faithful

LEMMA ZeroBytes ==
  ASSUME NEW n \in Nat
  PROVE  Zeros(n) \in Seq(Byte) /\ Len(Zeros(n)) = n /\ \A j \in 1..n : Zeros(n)[j] = 0
  BY DEF Zeros, Byte

(* A record is the writer's buffer and zeros, up to Size. *)
Padded(b, buf) ==
  /\ b \in Bytes /\ Len(b) = Size
  /\ Begins(b, buf)
  /\ \A j \in 1..Len(b) : j > Len(buf) => b[j] = 0

LEMMA WriteFits ==
  ASSUME NEW magic \in Byte, NEW items \in Seq(ItemType),
         writer(magic, items).ok, Len(writer(magic, items).buf) <= Size
  PROVE  /\ Padded(write(magic, items), writer(magic, items).buf)
         /\ write(magic, items) # Refused
  <1>1. PICK w \in WriterType : w = writer(magic, items)
    BY WriterTyped
  <1>2. PICK a \in Seq(Byte), L \in Nat : a = w.buf /\ L = Len(a)
    BY DEF WriterType, Bytes
  <1>3. L >= 2
    <2>1. PICK m \in Nat : m = Len(items)
      OBVIOUS
    <2>2. L >= 2 + 2 * m
      BY <1>1, <1>2, <2>1, WriterLength
    <2> QED BY <2>2
  <1>4. Size \in Nat /\ L <= Size
    BY <1>1, <1>2, LengthsApart
  <1>5. PICK n \in Nat : n = Size - L
    BY <1>4
  <1>6. PICK z \in Seq(Byte) : z = Zeros(n) /\ Len(z) = n /\ \A j \in 1..n : z[j] = 0
    BY ZeroBytes
  <1>7. PICK b \in Seq(Byte) : b = a \o z /\ Joined(b, a, z, L, n)
    BY <1>2, <1>6, Join
  <1>8. write(magic, items) = b
    BY <1>1, <1>2, <1>5, <1>6, <1>7 DEF write, finish
  <1>9. Len(b) = Size /\ \A j \in 1..L : b[j] = a[j]
    BY <1>4, <1>5, <1>7, SMTT(40) DEF Joined
  <1>10. ASSUME NEW j \in 1..Size, j > L PROVE b[j] = 0
    <2>1. PICK i \in 1..n : j = L + i
      <3>1. j - L \in 1..n /\ j = L + (j - L)
        BY <1>4, <1>5, <1>10
      <3> QED BY <3>1
    <2>2. b[L + i] = z[i] /\ z[i] = 0
      BY <1>6, <1>7 DEF Joined
    <2> QED BY <2>1, <2>2
  <1>11. b # <<>>
    BY <1>3, <1>4, <1>9, EmptySeq
  <1>12. Begins(b, a)
    BY <1>2, <1>4, <1>9 DEF Begins
  <1> QED BY <1>1, <1>2, <1>8, <1>9, <1>10, <1>11, <1>12 DEF Padded, Bytes, Refused

LEMMA WriteRefuses ==
  ASSUME NEW magic, NEW items, write(magic, items) # Refused
  PROVE  writer(magic, items).ok /\ Len(writer(magic, items).buf) <= Size
  BY DEF write, finish, Refused

(* A record that encoding did not refuse is read as the items it was made of. *)
LEMMA ParseWritten ==
  ASSUME NEW magic \in Byte, NEW items \in Seq(Good), Ascending(items),
         write(magic, items) # Refused
  PROVE  /\ write(magic, items) \in Bytes
         /\ Len(write(magic, items)) = Size
         /\ parse(write(magic, items), magic) = [ok |-> TRUE, items |-> items]
  <1>0. items \in Seq(ItemType)
    BY GoodItems
  <1>1. writer(magic, items).ok /\ Len(writer(magic, items).buf) <= Size
    BY WriteRefuses
  <1>2. PICK b : b = write(magic, items)
    OBVIOUS
  <1>3. Padded(b, writer(magic, items).buf)
    BY <1>0, <1>1, <1>2, WriteFits
  <1>4. itemsOf(b).ok = TRUE /\ itemsOf(b).items = items
    BY <1>1, <1>3, ReadsPadded DEF Padded
  <1>5. PICK L \in Nat, m \in Nat : L = Len(writer(magic, items).buf) /\ m = Len(items)
    BY <1>0, WriterTyped DEF WriterType, Bytes
  <1>6. /\ L >= 2 + 2 * m
        /\ writer(magic, items).buf[1] = magic /\ writer(magic, items).buf[2] = Version
    BY <1>0, <1>1, <1>5, WriterLength
  <1>7. L >= 2
    BY <1>6
  <1>8. b[1] = magic /\ b[2] = Version
    <2>1. 1 \in 1..L /\ 2 \in 1..L
      BY <1>7
    <2> QED BY <1>3, <1>5, <1>6, <2>1 DEF Padded, Begins
  <1>9. Len(b) = Size /\ Len(b) \in headerLen..Size
    <2>1. Len(b) = Size /\ L <= Len(b) /\ Size \in Nat
      BY <1>3, <1>5, LengthsApart DEF Padded, Begins
    <2> QED BY <1>7, <2>1 DEF headerLen
  <1>10. parse(b, magic) = [ok |-> TRUE, items |-> items]
    BY <1>4, <1>8, <1>9 DEF parse
  <1> QED BY <1>2, <1>3, <1>9, <1>10 DEF Padded

(* A record that is read is what encoding its items gives. *)
LEMMA WriteParsed ==
  ASSUME NEW magic \in Byte, NEW b \in Bytes, Len(b) = Size, parse(b, magic).ok
  PROVE  /\ parse(b, magic).items \in Seq(Good)
         /\ Ascending(parse(b, magic).items)
         /\ write(magic, parse(b, magic).items) = b
  <1>1. CASE ~(Len(b) \in headerLen..Size /\ b[1] = magic /\ b[2] = Version)
    <2>1. parse(b, magic) = [ok |-> FALSE, items |-> <<>>]
      BY <1>1 DEF parse
    <2>2. ~parse(b, magic).ok
      BY <2>1
    <2> QED BY <2>2
  <1>2. CASE Len(b) \in headerLen..Size /\ b[1] = magic /\ b[2] = Version
    <2>1. parse(b, magic) =
            [ok |-> itemsOf(b).ok /\ Ascending(itemsOf(b).items), items |-> itemsOf(b).items]
      BY <1>2 DEF parse
    <2>2. PICK items : items = itemsOf(b).items /\ items = parse(b, magic).items
      BY <2>1
    <2>3. itemsOf(b).ok /\ Ascending(items)
      <3>1. parse(b, magic).ok = (itemsOf(b).ok /\ Ascending(itemsOf(b).items))
        <4>1. PICK x : x = (itemsOf(b).ok /\ Ascending(itemsOf(b).items))
          OBVIOUS
        <4>2. parse(b, magic) = [ok |-> x, items |-> itemsOf(b).items]
          BY <2>1, <4>1
        <4>3. parse(b, magic).ok = x
          BY <4>2
        <4> QED BY <4>1, <4>3
      <3> QED BY <2>2, <3>1, Zenon
    <2>4. Len(b) >= headerLen
      BY <1>2 DEF headerLen
    <2>5. /\ items \in Seq(Good)
          /\ writer(magic, items).ok
          /\ Begins(b, writer(magic, items).buf)
          /\ \A j \in 1..Len(b) : j > Len(writer(magic, items).buf) => b[j] = 0
      <3>1. /\ itemsOf(b).items \in Seq(Good)
            /\ writer(magic, itemsOf(b).items).ok
            /\ Begins(b, writer(magic, itemsOf(b).items).buf)
            /\ \A j \in 1..Len(b) :
                 j > Len(writer(magic, itemsOf(b).items).buf) => b[j] = 0
        BY <1>2, <2>3, <2>4, WritesRead, Zenon
      <3> QED BY <2>2, <3>1, Zenon
    <2>6. items \in Seq(ItemType)
      BY <2>5, GoodItems
    <2>7. PICK L \in Nat, K \in Nat : L = Len(writer(magic, items).buf) /\ K = Len(b)
      BY <2>6, WriterTyped DEF WriterType, Bytes
    <2>8. L <= Size /\ K = Size
      BY <2>5, <2>7 DEF Begins
    <2>9. PICK c : c = write(magic, items) /\ Padded(c, writer(magic, items).buf)
      BY <2>5, <2>6, <2>7, <2>8, WriteFits
    <2>10. c \in Seq(Byte) /\ b \in Seq(Byte) /\ Len(c) = K
      BY <2>8, <2>9 DEF Padded, Bytes
    <2>11. ASSUME NEW j \in 1..K PROVE c[j] = b[j]
      <3>1. CASE j > L
        BY <2>5, <2>7, <2>9, <2>10, <3>1 DEF Padded
      <3>2. CASE ~(j > L)
        <4>1. j \in 1..L
          BY <3>2
        <4> QED BY <2>5, <2>7, <2>9, <4>1 DEF Padded, Begins
      <3> QED BY <3>1, <3>2
    <2>12. c = b
      BY <2>7, <2>10, <2>11, SeqEqual
    <2> QED BY <2>2, <2>3, <2>5, <2>9, <2>12
  <1> QED BY <1>1, <1>2

-----------------------------------------------------------------------------
(* Lists of items in ascending order, and what is found in them under a tag. *)

(* The items of s are in order, their tags from lo to hi. *)
Between(s, lo, hi) ==
  s \in Seq(Good) /\ Ascending(s) /\ \A k \in 1..Len(s) : s[k].tag \in lo..hi

LEMMA TagOf ==
  ASSUME NEW x \in Good
  PROVE  x.tag \in Nat
  <1>1. x \in ItemType
    BY DEF Good
  <1>2. x.tag \in Byte
    BY <1>1 DEF ItemType
  <1> QED BY <1>2 DEF Byte

LEMMA GoodTag ==
  ASSUME NEW s \in Seq(Good), NEW k \in 1..Len(s)
  PROVE  s[k] \in Good /\ s[k].tag \in Nat
  <1>1. s[k] \in Good
    BY ElementOfSeq
  <1> QED BY <1>1, TagOf

LEMMA BetweenConcat ==
  ASSUME NEW s, NEW t, NEW a \in Nat, NEW b \in Nat, NEW c \in Nat, NEW d \in Nat,
         a <= b, b <= c, c <= d, Between(s, a, b), Between(t, c, d)
  PROVE  Between(s \o t, a, d)
  <1>1. s \in Seq(Good) /\ t \in Seq(Good)
    BY DEF Between
  <1>2. PICK L \in Nat, n \in Nat : L = Len(s) /\ n = Len(t)
    BY <1>1
  <1>3. PICK u \in Seq(Good) : u = s \o t /\ Joined(u, s, t, L, n)
    BY <1>1, <1>2, Join
  <1>4. Len(u) = L + n
    BY <1>3 DEF Joined
  <1>5. ASSUME NEW k \in 1..L + n
        PROVE  \/ k \in 1..L /\ u[k] = s[k] /\ s[k].tag \in a..b
               \/ \E i \in 1..n : k = L + i /\ u[k] = t[i] /\ t[i].tag \in c..d
    <2>1. CASE k \in 1..L
      BY <1>2, <1>3, <2>1 DEF Joined, Between
    <2>2. CASE k \notin 1..L
      <3>1. PICK i \in 1..n : k = L + i
        <4>1. k - L \in 1..n /\ k = L + (k - L)
          BY <2>2
        <4> QED BY <4>1
      <3>2. u[k] = t[i] /\ t[i].tag \in c..d
        BY <1>2, <1>3, <3>1 DEF Joined, Between
      <3> QED BY <3>1, <3>2
    <2> QED BY <2>1, <2>2
  <1>6. \A k \in 1..L + n : u[k].tag \in a..d
    BY <1>5, SMTT(40)
  <1>7. ASSUME NEW k \in 2..L + n PROVE u[k - 1].tag <= u[k].tag
    <2>0. k \in 1..L + n /\ k - 1 \in 1..L + n
      OBVIOUS
    <2>1. CASE k \in 1..L
      <3>1. k - 1 \in 1..L /\ k \in 2..L
        BY <2>1
      <3>2. u[k] = s[k] /\ u[k - 1] = s[k - 1]
        BY <1>3, <2>1, <3>1 DEF Joined
      <3>3. s[k - 1].tag <= s[k].tag
        BY <1>2, <3>1 DEF Between, Ascending
      <3> QED BY <3>2, <3>3
    <2>2. CASE k \notin 1..L
      <3>1. PICK i \in 1..n : k = L + i /\ u[k] = t[i] /\ t[i].tag \in c..d
        BY <1>5, <2>0, <2>2
      <3>2. CASE i = 1
        <4>1. k - 1 \in 1..L /\ k - 1 = L
          BY <3>1, <3>2
        <4>2. u[k - 1] = s[k - 1] /\ s[k - 1].tag \in a..b
          BY <1>2, <1>3, <4>1 DEF Joined, Between
        <4>3. PICK x \in a..b, y \in c..d : x = u[k - 1].tag /\ y = u[k].tag
          BY <3>1, <4>2
        <4>4. x <= y
          BY <4>3
        <4> QED BY <4>3, <4>4
      <3>3. CASE i # 1
        <4>1. i - 1 \in 1..n /\ i \in 2..n /\ k - 1 = L + (i - 1)
          BY <3>1, <3>3
        <4>2. u[k - 1] = t[i - 1]
          BY <1>3, <4>1 DEF Joined
        <4>3. t[i - 1].tag <= t[i].tag
          BY <1>2, <4>1 DEF Between, Ascending
        <4> QED BY <3>1, <4>2, <4>3
      <3> QED BY <3>2, <3>3
    <2> QED BY <2>1, <2>2
  <1> QED BY <1>3, <1>4, <1>6, <1>7 DEF Between, Ascending

(* Items that all have one tag are in order. *)
LEMMA OneTag ==
  ASSUME NEW tag \in Nat, NEW s \in Seq(Good), \A k \in 1..Len(s) : s[k].tag = tag
  PROVE  Between(s, tag, tag)
  <1>1. \A k \in 2..Len(s) : k \in 1..Len(s) /\ k - 1 \in 1..Len(s)
    OBVIOUS
  <1> QED BY <1>1 DEF Between, Ascending

LEMMA UnderPiece ==
  ASSUME NEW s, NEW lo \in Nat, NEW hi \in Nat, NEW tags, Between(s, lo, hi)
  PROVE  /\ lo..hi \subseteq tags => Under(s, tags) = s
         /\ lo..hi \cap tags = {} => Under(s, tags) = <<>>
  <1>1. s \in Seq(Good) /\ \A k \in 1..Len(s) : s[k].tag \in lo..hi
    BY DEF Between
  <1>2. ASSUME lo..hi \subseteq tags PROVE Under(s, tags) = s
    <2>1. \A k \in 1..Len(s) : s[k].tag \in tags
      BY <1>1, <1>2
    <2> QED BY <1>1, <2>1, UnderAll
  <1>3. ASSUME lo..hi \cap tags = {} PROVE Under(s, tags) = <<>>
    <2>1. \A k \in 1..Len(s) : s[k].tag \notin tags
      BY <1>1, <1>3
    <2> QED BY <1>1, <2>1, UnderNone
  <1> QED BY <1>2, <1>3

(* Of a list in order, the items under smaller tags come first. *)
LEMMA AscendingAppend ==
  ASSUME NEW s \in Seq(Good), NEW e \in Good, Ascending(Append(s, e))
  PROVE  Ascending(s) /\ \A k \in 1..Len(s) : s[k].tag <= e.tag
  <1>1. PICK n \in Nat : n = Len(s)
    OBVIOUS
  <1>2. PICK t : t = Append(s, e) /\ Len(t) = n + 1 /\ (\A k \in 1..n : t[k] = s[k]) /\ t[n + 1] = e
    BY <1>1, AppendProperties, ZenonT(60)
  <1>3. \A k \in 2..n + 1 : t[k - 1].tag <= t[k].tag
    BY <1>2 DEF Ascending
  <1>4. ASSUME NEW k \in 2..n PROVE s[k - 1].tag <= s[k].tag
    <2>1. k \in 1..n /\ k - 1 \in 1..n /\ k \in 2..n + 1
      OBVIOUS
    <2> QED BY <1>2, <1>3, <2>1
  <1>5. Ascending(s)
    BY <1>1, <1>4 DEF Ascending
  <1> DEFINE T == {d \in Nat : \A k \in 1..n : k + d = n => s[k].tag <= e.tag}
  <1>6. 0 \in T
    <2> SUFFICES ASSUME NEW k \in 1..n, k = n PROVE s[k].tag <= e.tag
      OBVIOUS
    <2>1. n + 1 \in 2..n + 1 /\ (n + 1) - 1 = n /\ n \in 1..n
      OBVIOUS
    <2> QED BY <1>2, <1>3, <2>1
  <1>7. ASSUME NEW d \in Nat, d \in T PROVE d + 1 \in T
    <2> SUFFICES ASSUME NEW k \in 1..n, k + (d + 1) = n PROVE s[k].tag <= e.tag
      OBVIOUS
    <2>1. k + 1 \in 1..n /\ (k + 1) + d = n /\ k + 1 \in 2..n /\ (k + 1) - 1 = k
      OBVIOUS
    <2>2. s[k + 1].tag <= e.tag
      BY <1>7, <2>1
    <2>3. s[k].tag <= s[k + 1].tag
      BY <1>4, <2>1
    <2>4. s[k].tag \in Nat /\ s[k + 1].tag \in Nat /\ e.tag \in Nat
      <3>1. k \in 1..Len(s) /\ k + 1 \in 1..Len(s)
        BY <1>1, <2>1
      <3> QED BY <3>1, GoodTag, TagOf
    <2>5. PICK x \in Nat, y \in Nat, z \in Nat : x = s[k].tag /\ y = s[k + 1].tag /\ z = e.tag
      BY <2>4
    <2>6. x <= y /\ y <= z
      BY <2>2, <2>3, <2>5
    <2>7. x <= z
      BY <2>6
    <2> QED BY <2>5, <2>7
  <1>8. Nat \subseteq T
    <2> HIDE DEF T
    <2> QED BY <1>6, <1>7, Induction
  <1>9. ASSUME NEW k \in 1..n PROVE s[k].tag <= e.tag
    <2>1. PICK d \in Nat : k + d = n
      <3>1. n - k \in Nat /\ k + (n - k) = n
        OBVIOUS
      <3> QED BY <3>1
    <2>2. d \in T
      <3> HIDE DEF T
      <3> QED BY <1>8
    <2> QED BY <2>1, <2>2
  <1> QED BY <1>1, <1>5, <1>9

LEMMA UnderSplit ==
  ASSUME NEW low \in SUBSET Nat, NEW high \in SUBSET Nat, \A a \in low, c \in high : a < c,
         NEW s \in Seq(Good), Ascending(s)
  PROVE  Under(s, low \cup high) = Under(s, low) \o Under(s, high)
  <1> DEFINE both == low \cup high
             T == {u \in Seq(Good) : Ascending(u) => Under(u, both) = Under(u, low) \o Under(u, high)}
  <1>1. <<>> \in T
    BY UnderEmpty, EmptySeq, ConcatEmptySeq
  <1>2. ASSUME NEW u \in Seq(Good), NEW e \in Good, u \in T PROVE Append(u, e) \in T
    <2>0. Append(u, e) \in Seq(Good)
      BY AppendProperties
    <2> SUFFICES ASSUME Ascending(Append(u, e))
                 PROVE  Under(Append(u, e), both) = Under(Append(u, e), low) \o Under(Append(u, e), high)
      BY <2>0
    <2>1. Ascending(u) /\ \A k \in 1..Len(u) : u[k].tag <= e.tag
      BY AscendingAppend
    <2>2. Under(u, both) = Under(u, low) \o Under(u, high)
      BY <1>2, <2>1
    <2>3. Under(u, low) \in Seq(Good) /\ Under(u, high) \in Seq(Good) /\ e.tag \in Nat
      BY UnderSeq, TagOf
    <2>4. CASE e.tag \in high
      <3>1. e.tag \notin low /\ e.tag \in both
        BY <2>3, <2>4
      <3>2. /\ Under(Append(u, e), both) = Append(Under(u, both), e)
            /\ Under(Append(u, e), low) = Under(u, low)
            /\ Under(Append(u, e), high) = Append(Under(u, high), e)
        BY <2>4, <3>1, UnderAppend, SMTT(40)
      <3>3. Under(u, low) \o Append(Under(u, high), e) = Append(Under(u, low) \o Under(u, high), e)
        BY <2>3, ConcatAppend, SMTT(40)
      <3> QED BY <2>2, <3>2, <3>3
    <2>5. CASE e.tag \in low
      <3>1. e.tag \notin high /\ e.tag \in both
        BY <2>3, <2>5
      <3>2. \A k \in 1..Len(u) : u[k].tag \notin high
        <4> TAKE k \in 1..Len(u)
        <4>1. u[k].tag \in Nat /\ u[k].tag <= e.tag
          BY <2>1, GoodTag
        <4>2. \A c \in high : e.tag < c /\ c \in Nat
          BY <2>5
        <4> QED BY <2>3, <4>1, <4>2
      <3>3. Under(u, high) = <<>>
        BY <3>2, UnderNone
      <3>4. /\ Under(Append(u, e), both) = Append(Under(u, both), e)
            /\ Under(Append(u, e), low) = Append(Under(u, low), e)
            /\ Under(Append(u, e), high) = Under(u, high)
        BY <2>5, <3>1, UnderAppend
      <3>5. Under(u, low) \o <<>> = Under(u, low) /\ Append(Under(u, low), e) \in Seq(Good)
        BY <2>3, ConcatEmptySeq, AppendProperties
      <3>6. Append(Under(u, low), e) \o <<>> = Append(Under(u, low), e)
        BY <3>5, ConcatEmptySeq
      <3> QED BY <2>2, <3>3, <3>4, <3>5, <3>6
    <2>6. CASE e.tag \notin both
      <3>1. e.tag \notin low /\ e.tag \notin high
        BY <2>6
      <3>2. /\ Under(Append(u, e), both) = Under(u, both)
            /\ Under(Append(u, e), low) = Under(u, low)
            /\ Under(Append(u, e), high) = Under(u, high)
        BY <2>6, <3>1, UnderAppend
      <3> QED BY <2>2, <3>2
    <2> QED BY <2>4, <2>5, <2>6
  <1>3. Seq(Good) \subseteq T
    <2> HIDE DEF T
    <2> QED BY <1>1, <1>2, SeqInduction
  <1> QED BY <1>3

-----------------------------------------------------------------------------
(* The two families of an address list. *)

(* F is a list of members of V, and E has an item for each: one of V4 under t4,
   another under t6, with the bytes c gives it. *)
Encoded(E, F, V, V4, c, t4, t6) ==
  /\ F \in Seq(V)
  /\ Len(E) = Len(F)
  /\ \A k \in 1..Len(F) : E[k] = Item(IF F[k] \in V4 THEN t4 ELSE t6, c[F[k]])

Marked(s, V4) == [k \in DOMAIN s |-> Item(IF s[k] \in V4 THEN 4 ELSE 6, s[k])]
Tagged(s, V4, c, t4, t6) == [k \in DOMAIN s |-> Item(IF s[k] \in V4 THEN t4 ELSE t6, c[s[k]])]

Marks(V, V4) == {x \in [tag : {4, 6}, value : V] : x.tag = 4 <=> x.value \in V4}

LEMMA MarkedTyped ==
  ASSUME NEW V, NEW V4, NEW s \in Seq(V)
  PROVE  Marked(s, V4) \in Seq(Marks(V, V4))
  <1>1. PICK n \in Nat : n = Len(s) /\ DOMAIN s = 1..n
    OBVIOUS
  <1>2. ASSUME NEW k \in 1..n PROVE Item(IF s[k] \in V4 THEN 4 ELSE 6, s[k]) \in Marks(V, V4)
    <2>1. s[k] \in V
      BY <1>1, ElementOfSeq
    <2>2. CASE s[k] \in V4
      BY <2>1, <2>2 DEF Item, Marks
    <2>3. CASE s[k] \notin V4
      BY <2>1, <2>3 DEF Item, Marks
    <2> QED BY <2>2, <2>3
  <1>3. Marked(s, V4) \in [1..n -> Marks(V, V4)]
    BY <1>1, <1>2 DEF Marked
  <1> QED BY <1>3, SeqDef

LEMMA FamiliesEncoded ==
  ASSUME NEW V, NEW V4, NEW c \in [V -> Bytes], NEW t4 \in 1..255, NEW t6 \in 1..255, t4 < t6,
         NEW s \in Seq(V)
  PROVE  LET items == Tagged(s, V4, c, t4, t6)
             E == Under(items, {t4}) \o Under(items, {t6})
         IN  Encoded(E, Families(Marked(s, V4)), V, V4, c, t4, t6) /\ Between(E, t4, t6)
  <1> DEFINE M == Marks(V, V4)
             items == Tagged(s, V4, c, t4, t6)
             marked == Marked(s, V4)
             g == [x \in M |-> Item(IF x.tag = 4 THEN t4 ELSE t6, c[x.value])]
             low == Under(marked, {4})
             high == Under(marked, {6})
             both == low \o high
             E == Under(items, {t4}) \o Under(items, {t6})
             F == Families(marked)
  <1>1. marked \in Seq(M)
    BY MarkedTyped
  <1>2. ASSUME NEW x \in M
        PROVE  /\ x.tag \in {4, 6} /\ x.value \in V /\ (x.tag = 4 <=> x.value \in V4)
               /\ g[x] = Item(IF x.value \in V4 THEN t4 ELSE t6, c[x.value])
               /\ g[x] \in Good
               /\ x.tag \in {4} <=> g[x].tag \in {t4}
               /\ x.tag \in {6} <=> g[x].tag \in {t6}
    <2>1. x.tag \in {4, 6} /\ x.value \in V /\ (x.tag = 4 <=> x.value \in V4)
      BY DEF Marks
    <2>2. g[x] = Item(IF x.value \in V4 THEN t4 ELSE t6, c[x.value])
      BY <2>1
    <2>3. c[x.value] \in Bytes
      BY <2>1
    <2>4. g[x].tag = IF x.tag = 4 THEN t4 ELSE t6
      BY <2>1 DEF Item
    <2>5. g[x] \in Good
      <3>1. (IF x.value \in V4 THEN t4 ELSE t6) \in 1..255
        OBVIOUS
      <3> QED BY <2>2, <2>3, <3>1 DEF Good, ItemType, Item, Byte, tagEnd
    <2>6. (x.tag \in {4} <=> g[x].tag \in {t4}) /\ (x.tag \in {6} <=> g[x].tag \in {t6})
      BY <2>1, <2>4
    <2> QED BY <2>1, <2>2, <2>5, <2>6
  <1>3. g \in [M -> Good]
    BY <1>2
  <1>4. items = Map(marked, g)
    <2>1. DOMAIN items = DOMAIN s /\ DOMAIN marked = DOMAIN s /\ DOMAIN s = 1..Len(s)
      BY DEF Tagged, Marked
    <2>2. ASSUME NEW k \in DOMAIN s PROVE items[k] = g[marked[k]]
      <3>1. marked[k] \in M
        BY <1>1, <2>1, ElementOfSeq
      <3>2. marked[k].value = s[k]
        BY DEF Marked, Item
      <3>3. items[k] = Item(IF s[k] \in V4 THEN t4 ELSE t6, c[s[k]])
        BY DEF Tagged
      <3>4. g[marked[k]] = Item(IF marked[k].value \in V4 THEN t4 ELSE t6, c[marked[k].value])
        BY <1>2, <3>1
      <3> QED BY <3>2, <3>3, <3>4
    <2> HIDE DEF g, marked
    <2> QED BY <2>1, <2>2 DEF Map, Tagged
  <1> HIDE DEF g
  <1>5. Under(items, {t4}) = Map(low, g) /\ Under(items, {t6}) = Map(high, g)
    <2> HIDE DEF M, marked, items
    <2>1. PICK f4, f6, u4, u6 : f4 = {4} /\ f6 = {6} /\ u4 = {t4} /\ u6 = {t6}
      OBVIOUS
    <2>2. Retags(g, M, Good, f4, u4) /\ Retags(g, M, Good, f6, u6)
      BY <1>2, <1>3, <2>1 DEF Retags
    <2>4. Under(Map(marked, g), u4) = Map(Under(marked, f4), g)
      BY <1>1, <2>2, UnderMap
    <2>5. Under(Map(marked, g), u6) = Map(Under(marked, f6), g)
      BY <1>1, <2>2, UnderMap
    <2> QED BY <1>4, <2>1, <2>4, <2>5
  <1>6. low \in Seq(M) /\ high \in Seq(M) /\ both \in Seq(M)
    BY <1>1, UnderSeq, ConcatProperties
  <1>7. E = Map(both, g)
    <2> HIDE DEF M, low, high, items
    <2>1. Map(low \o high, g) = Map(low, g) \o Map(high, g)
      BY <1>3, <1>6, MapConcat, ZenonT(60)
    <2> QED BY <1>5, <2>1
  <1>8. PICK n \in Nat : n = Len(both) /\ DOMAIN both = 1..n
    BY <1>6
  <1>9. E \in Seq(Good) /\ Len(E) = n /\ \A k \in 1..n : E[k] = g[both[k]]
    <2> HIDE DEF M, both, E
    <2>1. /\ Map(both, g) \in Seq(Good)
          /\ Len(Map(both, g)) = Len(both)
          /\ Maps(Map(both, g), both, g, Len(both))
      BY <1>3, <1>6, MapTyped
    <2> QED BY <1>7, <1>8, <2>1 DEF Maps
  <1>10. \A k \in 1..n : both[k] \in M
    BY <1>6, <1>8, ElementOfSeq
  <1>11. F = [k \in 1..n |-> both[k].value]
    BY <1>8 DEF Families
  <1>12. F \in [1..n -> V]
    <2> HIDE DEF both
    <2> QED BY <1>2, <1>10, <1>11
  <1>13. F \in Seq(V) /\ Len(F) = n
    <2> HIDE DEF F
    <2> QED BY <1>12, SeqDef
  <1>14. ASSUME NEW k \in 1..n PROVE E[k] = Item(IF F[k] \in V4 THEN t4 ELSE t6, c[F[k]])
    <2>1. F[k] = both[k].value
      BY <1>11
    <2>2. g[both[k]] = Item(IF both[k].value \in V4 THEN t4 ELSE t6, c[both[k].value])
      BY <1>2, <1>10
    <2> HIDE DEF F, E, both
    <2> QED BY <1>9, <2>1, <2>2
  <1>15. Between(Under(items, {t4}), t4, t4) /\ Between(Under(items, {t6}), t6, t6)
    <2>0. items \in Seq(Good)
      <3> HIDE DEF M, marked, items
      <3> QED BY <1>1, <1>3, <1>4, MapTyped
    <2>1. ASSUME NEW t \in Nat PROVE Between(Under(items, {t}), t, t)
      <3> HIDE DEF items
      <3>1. Under(items, {t}) \in Seq({x \in Good : x.tag \in {t}})
        BY <2>0, UnderTyped
      <3>2. \A k \in 1..Len(Under(items, {t})) : Under(items, {t})[k] \in {x \in Good : x.tag \in {t}}
        BY <3>1, ElementOfSeq
      <3>3. Under(items, {t}) \in Seq(Good)
        BY <2>0, UnderSeq
      <3> QED BY <3>2, <3>3, OneTag
    <2> HIDE DEF items
    <2> QED BY <2>1
  <1>16. Between(E, t4, t6)
    <2> HIDE DEF items
    <2>1. t4 \in Nat /\ t6 \in Nat /\ t4 <= t4 /\ t4 <= t6 /\ t6 <= t6
      OBVIOUS
    <2> QED BY <1>15, <2>1, BetweenConcat
  <1>17. Encoded(E, F, V, V4, c, t4, t6)
    <2> HIDE DEF E, F
    <2> QED BY <1>9, <1>13, <1>14 DEF Encoded
  <1> QED BY <1>16, <1>17

(* A selection from a selection. *)
LEMMA UnderUnder ==
  ASSUME NEW X, NEW s \in Seq(X), NEW many, NEW few, few \subseteq many
  PROVE  Under(Under(s, many), few) = Under(s, few)
  <1> DEFINE T == {u \in Seq(X) : Under(Under(u, many), few) = Under(u, few)}
  <1>1. <<>> \in T
    BY UnderEmpty, EmptySeq
  <1>2. ASSUME NEW u \in Seq(X), NEW e \in X, u \in T PROVE Append(u, e) \in T
    <2>0. Append(u, e) \in Seq(X) /\ Under(u, many) \in Seq(X)
      BY AppendProperties, UnderSeq
    <2>1. Under(Under(u, many), few) = Under(u, few)
      BY <1>2
    <2>2. CASE e.tag \in few
      <3>1. Under(Append(u, e), many) = Append(Under(u, many), e)
        BY <2>2, UnderAppend
      <3>2. Under(Append(u, e), few) = Append(Under(u, few), e)
        BY <2>2, UnderAppend
      <3>3. Under(Append(Under(u, many), e), few) = Append(Under(Under(u, many), few), e)
        BY <2>0, <2>2, UnderAppend
      <3> QED BY <2>0, <2>1, <3>1, <3>2, <3>3
    <2>3. CASE e.tag \notin few /\ e.tag \in many
      <3>1. Under(Append(u, e), many) = Append(Under(u, many), e)
        BY <2>3, UnderAppend
      <3>2. Under(Append(u, e), few) = Under(u, few)
        BY <2>3, UnderAppend
      <3>3. Under(Append(Under(u, many), e), few) = Under(Under(u, many), few)
        BY <2>0, <2>3, UnderAppend
      <3> QED BY <2>0, <2>1, <3>1, <3>2, <3>3
    <2>4. CASE e.tag \notin few /\ e.tag \notin many
      <3>1. Under(Append(u, e), many) = Under(u, many)
        BY <2>4, UnderAppend
      <3>2. Under(Append(u, e), few) = Under(u, few)
        BY <2>4, UnderAppend
      <3> QED BY <2>0, <2>1, <3>1, <3>2
    <2> QED BY <2>2, <2>3, <2>4
  <1>3. Seq(X) \subseteq T
    <2> HIDE DEF T
    <2> QED BY <1>1, <1>2, SeqInduction
  <1> QED BY <1>3

(* The items of both families, read from a record and written again, are the
   same items: what was read is in order. *)
LEMMA FamiliesReencoded ==
  ASSUME NEW t4 \in Nat, NEW t6 \in Nat, t4 < t6, NEW s \in Seq(Good), Ascending(s)
  PROVE  LET u == Under(s, {t4, t6}) IN Under(u, {t4}) \o Under(u, {t6}) = u
  <1>1. {t4, t6} = {t4} \cup {t6}
    OBVIOUS
  <1>2. Under(s, {t4} \cup {t6}) = Under(s, {t4}) \o Under(s, {t6})
    BY UnderSplit
  <1>3. /\ Under(Under(s, {t4, t6}), {t4}) = Under(s, {t4})
        /\ Under(Under(s, {t4, t6}), {t6}) = Under(s, {t6})
    BY UnderUnder
  <1> QED BY <1>1, <1>2, <1>3

-----------------------------------------------------------------------------
(* The fields of a record. *)

ValidPrefix == {p \in PrefixType : PrefixValid(p)}
ValidAddr == {a \in Bytes : AddrValid(a)}

(* An item of an address list, as the decoder wants it. *)
PrefixItem(it, t4, t6) ==
  \/ it.tag = t4 /\ Len(it.value) = Len4 + 1 /\ it.value[Len4 + 1] <= Bits4
  \/ it.tag = t6 /\ Len(it.value) = Len6 + 1 /\ it.value[Len6 + 1] <= Bits6

AddrItem(it, t4, t6) ==
  \/ it.tag = t4 /\ Len(it.value) = Len4
  \/ it.tag = t6 /\ Len(it.value) = Len6

(* A sequence found in another one is a piece of it. *)
LEMMA Slice ==
  ASSUME NEW S, NEW v \in Seq(S), NEW a \in Seq(S), NEW m \in Nat, NEW n \in Nat,
         n = Len(a), m + n <= Len(v), \A k \in 1..n : v[m + k] = a[k]
  PROVE  SubSeq(v, m + 1, m + n) = a
  <1>1. PICK lo \in Int, hi \in Int : lo = m + 1 /\ hi = m + n
    OBVIOUS
  <1>2. \A k \in lo..hi : v[k] \in S
    <2>1. \A k \in lo..hi : k \in 1..Len(v)
      BY <1>1
    <2> QED BY <2>1, ElementOfSeq
  <1>3. /\ SubSeq(v, lo, hi) \in Seq(S)
        /\ Len(SubSeq(v, lo, hi)) = IF lo <= hi THEN hi - lo + 1 ELSE 0
        /\ \A i \in 1..hi - lo + 1 : SubSeq(v, lo, hi)[i] = v[lo + i - 1]
    BY <1>2, SubSeqProperties
  <1>4. PICK u \in Seq(S) : u = SubSeq(v, lo, hi)
    BY <1>3
  <1>5. Len(u) = n
    <2>1. Len(u) = IF lo <= hi THEN hi - lo + 1 ELSE 0
      BY <1>3, <1>4
    <2> QED BY <1>1, <2>1
  <1>6. ASSUME NEW k \in 1..n PROVE u[k] = a[k]
    <2>1. k \in 1..hi - lo + 1 /\ lo + k - 1 = m + k
      BY <1>1
    <2>2. u[k] = v[lo + k - 1]
      BY <1>3, <1>4, <2>1
    <2> QED BY <2>1, <2>2
  <1>7. u = a
    BY <1>5, <1>6, SeqEqual
  <1> QED BY <1>1, <1>4, <1>7

Slices(a, v, m, n) ==
  /\ a = SubSeq(v, m + 1, m + n) /\ Len(a) = n
  /\ \A k \in 1..n : a[k] = v[m + k]

LEMMA Sliced ==
  ASSUME NEW S, NEW v \in Seq(S), NEW m \in Nat, NEW n \in Nat, m + n <= Len(v)
  PROVE  \E a \in Seq(S) : Slices(a, v, m, n)
  <1>1. PICK lo \in Int, hi \in Int : lo = m + 1 /\ hi = m + n
    OBVIOUS
  <1>2. \A k \in lo..hi : v[k] \in S
    <2>1. \A k \in lo..hi : k \in 1..Len(v)
      BY <1>1
    <2> QED BY <2>1, ElementOfSeq
  <1>3. /\ SubSeq(v, lo, hi) \in Seq(S)
        /\ Len(SubSeq(v, lo, hi)) = IF lo <= hi THEN hi - lo + 1 ELSE 0
        /\ \A i \in 1..hi - lo + 1 : SubSeq(v, lo, hi)[i] = v[lo + i - 1]
    BY <1>2, SubSeqProperties
  <1>4. PICK u \in Seq(S) : u = SubSeq(v, lo, hi)
    BY <1>3
  <1>5. Len(u) = n
    <2>1. Len(u) = IF lo <= hi THEN hi - lo + 1 ELSE 0
      BY <1>3, <1>4
    <2> QED BY <1>1, <2>1
  <1>6. \A k \in 1..n : u[k] = v[m + k]
    <2> TAKE k \in 1..n
    <2>1. k \in 1..hi - lo + 1 /\ lo + k - 1 = m + k
      BY <1>1
    <2>2. u[k] = v[lo + k - 1]
      BY <1>3, <1>4, <2>1
    <2> QED BY <2>1, <2>2
  <1> QED BY <1>1, <1>4, <1>5, <1>6 DEF Slices

(* A prefix keeps its address and its length. *)
LEMMA PrefixBytes ==
  ASSUME NEW p \in ValidPrefix
  PROVE  LET v == Append(p.addr, p.bits)
             n == IF Is4(p.addr) THEN Len4 ELSE Len6
         IN  /\ v \in Bytes
             /\ Len(v) = n + 1
             /\ v[n + 1] <= IF Is4(p.addr) THEN Bits4 ELSE Bits6
             /\ prefixFrom(v) = p
  <1>1. p \in PrefixType /\ PrefixValid(p)
    BY DEF ValidPrefix
  <1>2. p.addr \in Seq(Byte) /\ p.bits \in Int /\ p = [addr |-> p.addr, bits |-> p.bits]
    BY <1>1 DEF PrefixType, Bytes
  <1>3. PICK n \in Nat : n = Len(p.addr) /\ n = IF Is4(p.addr) THEN Len4 ELSE Len6
    BY <1>1, <1>2, LengthsApart DEF PrefixValid, AddrValid, Is4
  <1>4. PICK most \in Byte : most = IF Is4(p.addr) THEN Bits4 ELSE Bits6
    BY FieldLengths
  <1>5. p.bits \in 0..most
    BY <1>1, <1>4 DEF PrefixValid
  <1>6. p.bits \in Byte /\ p.bits <= most
    BY <1>4, <1>5 DEF Byte
  <1>7. PICK v : v = Append(p.addr, p.bits)
    OBVIOUS
  <1>8. v \in Seq(Byte) /\ Len(v) = n + 1 /\ v[n + 1] = p.bits /\ \A k \in 1..n : v[k] = p.addr[k]
    <2>1. PICK a \in Seq(Byte), e \in Byte : a = p.addr /\ e = p.bits
      BY <1>2, <1>6
    <2>2. /\ Append(a, e) \in Seq(Byte) /\ Len(Append(a, e)) = Len(a) + 1
          /\ \A k \in 1..Len(a) : Append(a, e)[k] = a[k]
          /\ Append(a, e)[Len(a) + 1] = e
      BY <2>1, AppendProperties
    <2> QED BY <1>3, <1>7, <2>1, <2>2
  <1>9. SubSeq(v, 1, n) = p.addr
    <2>1. PICK a \in Seq(Byte) : a = p.addr /\ n = Len(a)
      BY <1>2, <1>3
    <2>2. 0 + n <= Len(v) /\ \A k \in 1..n : v[0 + k] = a[k]
      BY <1>8, <2>1
    <2>3. SubSeq(v, 0 + 1, 0 + n) = a
      BY <1>8, <2>1, <2>2, Slice
    <2> QED BY <2>1, <2>3
  <1>10. prefixFrom(v) = p
    <2>1. Len(v) - 1 = n
      BY <1>8
    <2> QED BY <1>2, <1>8, <1>9, <2>1 DEF prefixFrom
  <1> QED BY <1>3, <1>4, <1>6, <1>7, <1>8, <1>10 DEF Bytes

LEMMA ValidSeq ==
  ASSUME NEW X, NEW s \in Seq(X), NEW Y, \A k \in DOMAIN s : s[k] \in Y
  PROVE  s \in Seq(Y)
  <1>1. DOMAIN s = 1..Len(s) /\ Len(s) \in Nat
    OBVIOUS
  <1>2. s \in [1..Len(s) -> Y]
    BY <1>1
  <1> QED BY <1>1, <1>2, SeqDef

(* E is an address list as it is written, F as it is meant. *)
PrefixPiece(E, F, t4, t6) ==
  /\ Between(E, t4, t6)
  /\ F = [k \in DOMAIN E |-> prefixFrom(E[k].value)]
  /\ \A k \in 1..Len(E) : PrefixItem(E[k], t4, t6)

LEMMA PrefixesEncoded ==
  ASSUME NEW s \in Seq(PrefixType), \A k \in DOMAIN s : PrefixValid(s[k]),
         NEW t4 \in 1..255, NEW t6 \in 1..255, t4 < t6
  PROVE  PrefixPiece(encodePrefixes(s, t4, t6), GroupedPrefixes(s), t4, t6)
  <1> DEFINE V == ValidPrefix
             V4 == {p \in V : Is4(p.addr)}
             c == [p \in V |-> Append(p.addr, p.bits)]
             E == encodePrefixes(s, t4, t6)
             F == GroupedPrefixes(s)
  <1>1. \A k \in DOMAIN s : s[k] \in V
    BY ElementOfSeq DEF ValidPrefix
  <1>2. s \in Seq(V)
    <2> HIDE DEF V
    <2> QED BY <1>1, ValidSeq
  <1>3. c \in [V -> Bytes]
    BY PrefixBytes
  <1>4. \A k \in DOMAIN s : s[k] \in V4 <=> Is4(s[k].addr)
    BY <1>1
  <1>5. Marked(s, V4) = [k \in DOMAIN s |-> Item(IF Is4(s[k].addr) THEN 4 ELSE 6, s[k])]
    BY <1>4 DEF Marked
  <1>6. Tagged(s, V4, c, t4, t6) =
          [k \in DOMAIN s |-> Item(IF Is4(s[k].addr) THEN t4 ELSE t6, Append(s[k].addr, s[k].bits))]
    BY <1>1, <1>4 DEF Tagged
  <1>7. F = Families(Marked(s, V4))
    BY <1>5 DEF GroupedPrefixes
  <1>8. PICK items : items = Tagged(s, V4, c, t4, t6)
    OBVIOUS
  <1>9. E = Under(items, {t4}) \o Under(items, {t6})
    BY <1>6, <1>8 DEF encodePrefixes
  <1>10. Encoded(E, F, V, V4, c, t4, t6) /\ Between(E, t4, t6)
    <2> HIDE DEF V, V4, c, E, F
    <2> QED BY <1>2, <1>3, <1>7, <1>8, <1>9, FamiliesEncoded, ZenonT(60)
  <1>11. PICK n \in Nat : n = Len(E) /\ n = Len(F) /\ DOMAIN E = 1..n /\ DOMAIN F = 1..n
    <2>1. E \in Seq(Good) /\ F \in Seq(V) /\ Len(E) = Len(F)
      <3> HIDE DEF E, F, V, V4, c
      <3> QED BY <1>10 DEF Between, Encoded
    <2> HIDE DEF E, F, V
    <2> QED BY <2>1
  <1>12. ASSUME NEW k \in 1..n
         PROVE  F[k] \in V /\ E[k] = Item(IF Is4(F[k].addr) THEN t4 ELSE t6, Append(F[k].addr, F[k].bits))
    <2>1. F[k] \in V /\ E[k] = Item(IF F[k] \in V4 THEN t4 ELSE t6, c[F[k]])
      <3>1. F \in Seq(V) /\ E[k] = Item(IF F[k] \in V4 THEN t4 ELSE t6, c[F[k]])
        <4> HIDE DEF E, F, V, V4, c
        <4> QED BY <1>10, <1>11 DEF Encoded
      <3>2. F[k] \in V
        <4> HIDE DEF E, F, V
        <4> QED BY <1>11, <3>1, ElementOfSeq
      <3> QED BY <3>1, <3>2
    <2> HIDE DEF E, F
    <2> QED BY <2>1
  <1> HIDE DEF E, F, V, V4, c
  <1>13. ASSUME NEW k \in 1..n PROVE prefixFrom(E[k].value) = F[k] /\ PrefixItem(E[k], t4, t6)
    <2>1. PICK p : p = F[k]
      OBVIOUS
    <2>2. p \in ValidPrefix
      BY <1>12, <2>1 DEF V
    <2>3. E[k].tag = (IF Is4(p.addr) THEN t4 ELSE t6) /\ E[k].value = Append(p.addr, p.bits)
      <3>1. PICK t, w : t = (IF Is4(p.addr) THEN t4 ELSE t6) /\ w = Append(p.addr, p.bits)
        OBVIOUS
      <3>2. E[k] = Item(t, w)
        BY <1>12, <2>1, <3>1
      <3> QED BY <3>1, <3>2 DEF Item
    <2>4. CASE Is4(p.addr)
      <3>1. LET v == Append(p.addr, p.bits)
            IN  Len(v) = Len4 + 1 /\ v[Len4 + 1] <= Bits4 /\ prefixFrom(v) = p
        BY <2>2, <2>4, PrefixBytes
      <3> QED BY <2>1, <2>3, <2>4, <3>1 DEF PrefixItem
    <2>5. CASE ~Is4(p.addr)
      <3>1. LET v == Append(p.addr, p.bits)
            IN  Len(v) = Len6 + 1 /\ v[Len6 + 1] <= Bits6 /\ prefixFrom(v) = p
        BY <2>2, <2>5, PrefixBytes
      <3> QED BY <2>1, <2>3, <2>5, <3>1 DEF PrefixItem
    <2> QED BY <2>4, <2>5
  <1>14. F = [k \in DOMAIN E |-> prefixFrom(E[k].value)]
    <2>1. F \in Seq(V)
      BY <1>10 DEF Encoded
    <2> QED BY <1>11, <1>13, <2>1
  <1> QED BY <1>10, <1>11, <1>13, <1>14 DEF PrefixPiece, E, F

AddrPiece(E, F, t4, t6) ==
  /\ Between(E, t4, t6)
  /\ F = [k \in DOMAIN E |-> E[k].value]
  /\ \A k \in 1..Len(E) : AddrItem(E[k], t4, t6)

(* What encodeDNS and the reader's view of it are once the zones are gone. *)
encodeBare(s) ==
  LET items == [k \in DOMAIN s |-> Item(IF Is4(s[k]) THEN TagDNS4 ELSE TagDNS6, s[k])]
  IN  Under(items, {TagDNS4}) \o Under(items, {TagDNS6})

GroupedBare(s) == Families([k \in DOMAIN s |-> Item(IF Is4(s[k]) THEN 4 ELSE 6, s[k])])

Bared(s) == [k \in DOMAIN s |-> AsBytes(s[k])]

(* An address without its zone is an address. *)
LEMMA AsBytesTyped ==
  ASSUME NEW a \in Bytes
  PROVE  AsBytes(a) \in Bytes
  <1>1. CASE Len(a) > Len6
    <2>1. PICK m \in Nat, n \in Nat : m = 0 /\ n = Len6
      BY LengthsApart
    <2>2. m + n <= Len(a) /\ a \in Seq(Byte)
      BY <1>1, <2>1 DEF Bytes
    <2>3. PICK b \in Seq(Byte) : Slices(b, a, m, n)
      BY <2>2, Sliced
    <2>4. b = SubSeq(a, m + 1, m + n)
      BY <2>3 DEF Slices
    <2>5. m + 1 = 1 /\ m + n = Len6
      BY <2>1
    <2>6. AsBytes(a) = b
      BY <1>1, <2>4, <2>5 DEF AsBytes
    <2> QED BY <2>6 DEF Bytes
  <1>2. CASE ~(Len(a) > Len6)
    BY <1>2 DEF AsBytes
  <1> QED BY <1>1, <1>2

(* One without a zone is left as it is. *)
LEMMA AsBytesSame ==
  ASSUME NEW a, AddrValid(a)
  PROVE  AsBytes(a) = a
  <1>1. ~(Len(a) > Len6)
    BY LengthsApart DEF AddrValid
  <1> QED BY <1>1, Zenon DEF AsBytes

LEMMA BareEncoded ==
  ASSUME NEW s \in Seq(Bytes), \A k \in DOMAIN s : AddrValid(s[k])
  PROVE  AddrPiece(encodeBare(s), GroupedBare(s), TagDNS4, TagDNS6)
  <1> DEFINE V == ValidAddr
             V4 == {a \in V : Is4(a)}
             c == [a \in V |-> a]
             E == encodeBare(s)
             F == GroupedBare(s)
             t4 == TagDNS4
             t6 == TagDNS6
  <1>0. t4 \in 1..255 /\ t6 \in 1..255 /\ t4 < t6
    BY DEF TagDNS4, TagDNS6
  <1>1. \A k \in DOMAIN s : s[k] \in V
    BY ElementOfSeq DEF ValidAddr
  <1>2. s \in Seq(V)
    <2> HIDE DEF V
    <2> QED BY <1>1, ValidSeq
  <1>3. c \in [V -> Bytes]
    BY DEF ValidAddr
  <1>4. \A k \in DOMAIN s : s[k] \in V4 <=> Is4(s[k])
    BY <1>1
  <1>5. Marked(s, V4) = [k \in DOMAIN s |-> Item(IF Is4(s[k]) THEN 4 ELSE 6, s[k])]
    BY <1>4 DEF Marked
  <1>6. Tagged(s, V4, c, t4, t6) = [k \in DOMAIN s |-> Item(IF Is4(s[k]) THEN t4 ELSE t6, s[k])]
    BY <1>1, <1>4 DEF Tagged
  <1>7. F = Families(Marked(s, V4))
    BY <1>5 DEF GroupedBare
  <1>8. PICK items : items = Tagged(s, V4, c, t4, t6)
    OBVIOUS
  <1>9. E = Under(items, {t4}) \o Under(items, {t6})
    BY <1>6, <1>8, ZenonT(60) DEF encodeBare
  <1>10. Encoded(E, F, V, V4, c, t4, t6) /\ Between(E, t4, t6)
    <2> HIDE DEF V, V4, c, E, F, t4, t6
    <2> QED BY <1>0, <1>2, <1>3, <1>7, <1>8, <1>9, FamiliesEncoded, ZenonT(60)
  <1>11. PICK n \in Nat : n = Len(E) /\ n = Len(F) /\ DOMAIN E = 1..n /\ DOMAIN F = 1..n
    <2>1. E \in Seq(Good) /\ F \in Seq(V) /\ Len(E) = Len(F)
      <3> HIDE DEF E, F, V, V4, c
      <3> QED BY <1>10 DEF Between, Encoded
    <2> HIDE DEF E, F, V
    <2> QED BY <2>1
  <1>12. ASSUME NEW k \in 1..n
         PROVE  F[k] \in V /\ E[k] = Item(IF Is4(F[k]) THEN t4 ELSE t6, F[k])
    <2>1. F[k] \in V /\ E[k] = Item(IF F[k] \in V4 THEN t4 ELSE t6, c[F[k]])
      <3>1. F \in Seq(V) /\ E[k] = Item(IF F[k] \in V4 THEN t4 ELSE t6, c[F[k]])
        <4> HIDE DEF E, F, V, V4, c, t4, t6
        <4> QED BY <1>10, <1>11 DEF Encoded
      <3>2. F[k] \in V
        <4> HIDE DEF E, F, V
        <4> QED BY <1>11, <3>1, ElementOfSeq
      <3> QED BY <3>1, <3>2
    <2> HIDE DEF E, F, t4, t6
    <2> QED BY <2>1
  <1> HIDE DEF E, F, V, V4, c, t4, t6
  <1>13. ASSUME NEW k \in 1..n PROVE E[k].value = F[k] /\ AddrItem(E[k], t4, t6)
    <2>1. PICK a, t : a = F[k] /\ t = IF Is4(a) THEN t4 ELSE t6
      OBVIOUS
    <2>2. a \in Bytes /\ AddrValid(a)
      BY <1>12, <2>1 DEF V, ValidAddr
    <2>3. E[k].tag = t /\ E[k].value = a
      <3>1. E[k] = Item(t, a)
        BY <1>12, <2>1
      <3> QED BY <3>1 DEF Item
    <2>4. Len(a) = Len4 \/ Len(a) = Len6
      BY <2>2, Zenon DEF AddrValid
    <2>5. CASE Is4(a)
      <3>1. t = t4 /\ Len(a) = Len4
        BY <2>1, <2>5, ZenonT(30) DEF Is4
      <3>2. E[k].tag = t4 /\ Len(E[k].value) = Len4
        BY <2>3, <3>1, Zenon
      <3> QED BY <2>1, <2>3, <3>2, Zenon DEF AddrItem
    <2>6. CASE ~Is4(a)
      <3>1. t = t6 /\ Len(a) = Len6
        BY <2>1, <2>4, <2>6, Zenon DEF Is4
      <3> QED BY <2>1, <2>3, <3>1, Zenon DEF AddrItem
    <2> QED BY <2>1, <2>3, <2>5, <2>6
  <1>14. F = [k \in DOMAIN E |-> E[k].value]
    <2>1. F \in Seq(V)
      BY <1>10 DEF Encoded
    <2> QED BY <1>11, <1>13, <2>1
  <1> QED BY <1>10, <1>11, <1>13, <1>14 DEF AddrPiece, E, F, t4, t6

(* A list of resolvers is encoded, and read, as the list without its zones. *)
LEMMA EncodedBare ==
  ASSUME NEW s
  PROVE  encodeDNS(s) = encodeBare(Bared(s)) /\ GroupedAddrs(s) = GroupedBare(Bared(s))
  <1>1. PICK z : z = Bared(s)
    OBVIOUS
  <1>2. DOMAIN z = DOMAIN s /\ \A k \in DOMAIN s : z[k] = AsBytes(s[k])
    BY <1>1 DEF Bared
  <1>3. [k \in DOMAIN s |-> Item(IF Is4(AsBytes(s[k])) THEN TagDNS4 ELSE TagDNS6, AsBytes(s[k]))]
          = [k \in DOMAIN z |-> Item(IF Is4(z[k]) THEN TagDNS4 ELSE TagDNS6, z[k])]
    BY <1>2
  <1>4. [k \in DOMAIN s |-> Item(IF Is4(AsBytes(s[k])) THEN 4 ELSE 6, AsBytes(s[k]))]
          = [k \in DOMAIN z |-> Item(IF Is4(z[k]) THEN 4 ELSE 6, z[k])]
    BY <1>2
  <1>5. encodeDNS(s) = encodeBare(z)
    BY <1>3, Zenon DEF encodeDNS, encodeBare
  <1>6. GroupedAddrs(s) = GroupedBare(z)
    BY <1>4, Zenon DEF GroupedAddrs, GroupedBare
  <1> QED BY <1>1, <1>5, <1>6, Zenon

LEMMA AddrsEncoded ==
  ASSUME NEW s \in Seq(Bytes), \A k \in DOMAIN s : AddrValid(AsBytes(s[k]))
  PROVE  AddrPiece(encodeDNS(s), GroupedAddrs(s), TagDNS4, TagDNS6)
  <1>1. DOMAIN Bared(s) = DOMAIN s /\ \A k \in DOMAIN s : Bared(s)[k] = AsBytes(s[k])
    BY DEF Bared
  <1>2. Bared(s) \in Seq(Bytes)
    <2>1. \A k \in DOMAIN s : AsBytes(s[k]) \in Bytes
      BY AsBytesTyped, ElementOfSeq
    <2>2. DOMAIN s = 1..Len(s) /\ Len(s) \in Nat
      OBVIOUS
    <2> HIDE DEF Bytes
    <2> QED BY <2>1, <2>2 DEF Bared
  <1>3. \A k \in DOMAIN Bared(s) : AddrValid(Bared(s)[k])
    BY <1>1
  <1>4. PICK z \in Seq(Bytes) : z = Bared(s) /\ \A k \in DOMAIN z : AddrValid(z[k])
    BY <1>2, <1>3
  <1>5. AddrPiece(encodeBare(z), GroupedBare(z), TagDNS4, TagDNS6)
    BY <1>4, BareEncoded
  <1> QED BY <1>4, <1>5, EncodedBare, Zenon

(* A number of sixteen bits and its two bytes. *)
LEMMA Quotient ==
  ASSUME NEW v \in Int, NEW q \in Int, NEW r \in Int, q = v \div 256, r = v % 256
  PROVE  /\ v = q * 256 + r
         /\ v >= 0 /\ v <= 65535 => q >= 0 /\ q <= 255 /\ r >= 0 /\ r <= 255
  BY SMT

LEMMA Compose ==
  ASSUME NEW a \in Nat, NEW c \in Nat, a <= 255, c <= 255
  PROVE  /\ a * 256 + c \in Nat /\ a * 256 + c <= 65535
         /\ (a * 256 + c) \div 256 = a
         /\ (a * 256 + c) % 256 = c
  BY SMT

LEMMA WordBytes ==
  ASSUME NEW v \in Uint16s
  PROVE  \E a, c \in Byte : be16(v) = <<a, c>> /\ v = a * 256 + c
  <1>1. v \in Int /\ v >= 0 /\ v <= 65535
    BY DEF Uint16s
  <1>2. PICK a \in Int, c \in Int : a = v \div 256 /\ c = v % 256
    BY <1>1, SMT
  <1>3. v = a * 256 + c /\ a >= 0 /\ a <= 255 /\ c >= 0 /\ c <= 255
    BY <1>1, <1>2, Quotient
  <1>4. a \in Byte /\ c \in Byte
    BY <1>3 DEF Byte
  <1>5. be16(v) = <<a, c>>
    BY <1>2 DEF be16
  <1> QED BY <1>3, <1>4, <1>5, ZenonT(60)

LEMMA WordRead ==
  ASSUME NEW v \in Uint16s
  PROVE  be16(v) \in Bytes /\ Len(be16(v)) = 2 /\ Uint16(be16(v)) = v
  <1>1. PICK a \in Byte, c \in Byte : be16(v) = <<a, c>> /\ v = a * 256 + c
    BY WordBytes
  <1>2. <<a, c>> \in Seq(Byte) /\ Len(<<a, c>>) = 2
    OBVIOUS
  <1>3. Uint16(<<a, c>>) = a * 256 + c
    BY DEF Uint16
  <1> QED BY <1>1, <1>2, <1>3, Zenon DEF Bytes

LEMMA BytesWord ==
  ASSUME NEW s \in Bytes, Len(s) = 2
  PROVE  Uint16(s) \in Uint16s /\ be16(Uint16(s)) = s
  <1>1. PICK a \in Byte, c \in Byte : a = s[1] /\ c = s[2]
    <2>1. 1 \in 1..Len(s) /\ 2 \in 1..Len(s)
      OBVIOUS
    <2>2. s[1] \in Byte /\ s[2] \in Byte
      BY <2>1, ElementOfSeq DEF Bytes
    <2> QED BY <2>2
  <1>2. a \in Nat /\ c \in Nat /\ a <= 255 /\ c <= 255
    BY DEF Byte
  <1>3. PICK v : v = a * 256 + c
    OBVIOUS
  <1>4. v \in Nat /\ v <= 65535 /\ v \div 256 = a /\ v % 256 = c
    BY <1>2, <1>3, Compose
  <1>5. Uint16(s) = v
    BY <1>1, <1>3, Zenon DEF Uint16
  <1>6. be16(v) = <<a, c>>
    <2>1. PICK q, r : q = v \div 256 /\ r = v % 256
      OBVIOUS
    <2>2. be16(v) = <<q, r>>
      BY <2>1 DEF be16
    <2>3. q = a /\ r = c
      BY <1>4, <2>1, SMT
    <2> QED BY <2>2, <2>3
  <1>7. s \in Seq(Byte) /\ <<a, c>> \in Seq(Byte) /\ Len(<<a, c>>) = 2
    BY DEF Bytes
  <1>8. ASSUME NEW k \in 1..2 PROVE s[k] = <<a, c>>[k]
    <2>1. CASE k = 1
      BY <1>1, <2>1
    <2>2. CASE k = 2
      BY <1>1, <2>2
    <2> QED BY <2>1, <2>2
  <1>9. s = <<a, c>>
    <2>1. \A k \in 1..Len(s) : s[k] = <<a, c>>[k]
      BY <1>8
    <2> QED BY <1>7, <2>1, SeqEqual
  <1>10. v \in Uint16s
    BY <1>4 DEF Uint16s
  <1> QED BY <1>5, <1>6, <1>9, <1>10, Zenon

(* A field that may be absent. *)
OptionalPiece(O, there, tag, value) ==
  /\ Between(O, tag, tag)
  /\ Len(O) = IF there THEN 1 ELSE 0
  /\ \A k \in 1..Len(O) : there /\ O[k].tag = tag /\ O[k].value = value

LEMMA OptionalEncoded ==
  ASSUME NEW there \in BOOLEAN, NEW tag \in 1..255, NEW value \in Bytes
  PROVE  OptionalPiece(Optional(there, tag, value), there, tag, value)
  <1>1. CASE there
    <2>1. PICK it : it = Item(tag, value)
      OBVIOUS
    <2>2. it \in Good /\ it.tag = tag /\ it.value = value
      BY <1>1, <2>1 DEF Good, Item, ItemType, Byte, tagEnd
    <2>3. <<it>> \in Seq(Good) /\ Len(<<it>>) = 1 /\ <<it>>[1] = it
      BY <2>2
    <2>4. Optional(there, tag, value) = <<it>>
      BY <1>1, <2>1 DEF Optional
    <2>5. \A k \in 1..Len(<<it>>) : <<it>>[k] = it
      BY <2>3
    <2>6. Between(<<it>>, tag, tag)
      <3>1. tag \in Nat /\ \A k \in 1..Len(<<it>>) : <<it>>[k].tag = tag
        BY <2>2, <2>5
      <3> QED BY <2>3, <3>1, OneTag
    <2> QED BY <1>1, <2>2, <2>3, <2>4, <2>5, <2>6 DEF OptionalPiece
  <1>2. CASE ~there
    <2>1. Optional(there, tag, value) = <<>>
      BY <1>2 DEF Optional
    <2>2. <<>> \in Seq(Good) /\ Len(<<>>) = 0
      BY EmptySeq
    <2>3. Between(<<>>, tag, tag)
      BY <2>2 DEF Between, Ascending
    <2> QED BY <1>2, <2>1, <2>2, <2>3 DEF OptionalPiece
  <1> QED BY <1>1, <1>2

LEMMA SingleOptional ==
  ASSUME NEW items, NEW there \in BOOLEAN, NEW tag, NEW value, NEW absent,
         Under(items, {tag}) = Optional(there, tag, value)
  PROVE  /\ Single(items, tag, absent) = IF there THEN value ELSE absent
         /\ once(items, tag)
  <1>1. CASE there
    <2>1. Under(items, {tag}) = <<Item(tag, value)>>
      BY <1>1 DEF Optional
    <2>2. PICK u : u = <<Item(tag, value)>>
      OBVIOUS
    <2>3. DOMAIN u = 1..1 /\ u[1].value = value /\ Len(u) = 1
      BY <2>2 DEF Item
    <2>4. PICK v : v = ValuesUnder(items, {tag})
      OBVIOUS
    <2>5. v = [k \in 1..1 |-> u[k].value]
      BY <2>1, <2>2, <2>3, <2>4 DEF ValuesUnder
    <2>6. v # <<>> /\ Len(v) = 1 /\ v[1] = value
      BY <2>3, <2>5
    <2>7. Single(items, tag, absent) = value
      BY <2>4, <2>6 DEF Single
    <2>8. once(items, tag)
      <3>1. PICK w : w = Under(items, {tag})
        OBVIOUS
      <3>2. Len(w) = 1
        BY <2>1, <2>2, <2>3, <3>1, Zenon
      <3>3. Len(w) <= 1
        BY <3>2
      <3> QED BY <3>1, <3>3, Zenon DEF once
    <2> QED BY <1>1, <2>7, <2>8
  <1>2. CASE ~there
    <2>1. Under(items, {tag}) = <<>>
      BY <1>2 DEF Optional
    <2>2. ValuesUnder(items, {tag}) = <<>>
      BY <2>1 DEF ValuesUnder
    <2> QED BY <1>2, <2>1, <2>2 DEF Single, once
  <1> QED BY <1>1, <1>2

LEMMA RefsEncoded ==
  ASSUME NEW refs \in Seq([1..RefLen -> Byte])
  PROVE  LET R == [k \in DOMAIN refs |-> Item(TagPeerRef, refs[k])]
         IN  /\ Between(R, TagPeerRef, TagPeerRef)
             /\ refs = [k \in DOMAIN R |-> R[k].value]
             /\ \A k \in 1..Len(R) : R[k].tag = TagPeerRef /\ Len(R[k].value) = RefLen
  <1> DEFINE R == [k \in DOMAIN refs |-> Item(TagPeerRef, refs[k])]
  <1>1. PICK n \in Nat : n = Len(refs) /\ DOMAIN refs = 1..n
    OBVIOUS
  <1>2. RefLen \in Nat
    BY FieldLengths
  <1>3. \A r \in [1..RefLen -> Byte] : r \in Seq(Byte) /\ Len(r) = RefLen
    BY <1>2
  <1>4. ASSUME NEW k \in 1..n
        PROVE  /\ R[k] \in Good /\ R[k].tag = TagPeerRef
               /\ Len(R[k].value) = RefLen /\ R[k].value = refs[k]
    <2>1. PICK r \in [1..RefLen -> Byte] : r = refs[k]
      BY <1>1, ElementOfSeq
    <2>2. R[k] = [tag |-> 6, value |-> r]
      BY <1>1, <2>1 DEF Item, TagPeerRef
    <2>3. R[k] \in Good
      BY <1>3, <2>2, SMTT(40) DEF Good, ItemType, Byte, Bytes, tagEnd
    <2> QED BY <1>3, <2>1, <2>2, <2>3 DEF TagPeerRef
  <1>5. DOMAIN R = 1..n
    BY <1>1
  <1>6. R \in [1..n -> Good]
    BY <1>1, <1>4
  <1>7. R \in Seq(Good) /\ Len(R) = n
    <2> HIDE DEF R
    <2> QED BY <1>6, SeqDef
  <1>8. Between(R, TagPeerRef, TagPeerRef)
    <2> HIDE DEF R
    <2> QED BY <1>4, <1>7, OneTag DEF TagPeerRef
  <1>9. refs = [k \in DOMAIN R |-> R[k].value]
    <2> HIDE DEF R
    <2> QED BY <1>1, <1>4, <1>5
  <1> HIDE DEF R
  <1> QED BY <1>4, <1>7, <1>8, <1>9 DEF R

-----------------------------------------------------------------------------
(* The interface record: what was encoded is decoded. *)

(* its is the fields of an interface, in the order of their tags. *)
InterfacePieces(its, A, M, D, R, P, C) ==
  /\ its = A \o M \o D \o R \o P \o C
  /\ Between(A, 1, 2) /\ Between(M, 3, 3) /\ Between(D, 4, 5)
  /\ Between(R, 6, 6) /\ Between(P, 7, 7) /\ Between(C, 127, 127)

(* Two lists that share no tag. *)
LEMMA UnderBoth ==
  ASSUME NEW s \in Seq(Good), NEW t \in Seq(Good), NEW tags
  PROVE  /\ s \o t \in Seq(Good)
         /\ Under(t, tags) = <<>> => Under(s \o t, tags) = Under(s, tags)
         /\ Under(s, tags) = <<>> => Under(s \o t, tags) = Under(t, tags)
  <1>1. Under(s, tags) \in Seq(Good) /\ Under(t, tags) \in Seq(Good)
    BY UnderSeq
  <1>2. Under(s \o t, tags) = Under(s, tags) \o Under(t, tags)
    BY UnderConcat
  <1>3. s \o t \in Seq(Good)
    BY ConcatProperties
  <1>4. Under(s, tags) \o <<>> = Under(s, tags) /\ <<>> \o Under(t, tags) = Under(t, tags)
    BY <1>1, ConcatEmptySeq
  <1> QED BY <1>2, <1>3, <1>4

Concat(u, s, t) == u = s \o t

LEMMA UnderLeft ==
  ASSUME NEW s \in Seq(Good), NEW t \in Seq(Good), NEW u, NEW tags, NEW v,
         Concat(u, s, t), Under(s, tags) = v, Under(t, tags) = <<>>
  PROVE  Under(u, tags) = v
  BY UnderBoth DEF Concat

LEMMA UnderRight ==
  ASSUME NEW s \in Seq(Good), NEW t \in Seq(Good), NEW u, NEW tags, NEW v,
         Concat(u, s, t), Under(s, tags) = <<>>, Under(t, tags) = v
  PROVE  Under(u, tags) = v
  BY UnderBoth DEF Concat

LEMMA InterfaceUnder ==
  ASSUME NEW its, NEW A, NEW M, NEW D, NEW R, NEW P, NEW C, InterfacePieces(its, A, M, D, R, P, C)
  PROVE  /\ Between(its, 1, 127)
         /\ Between(A \o M \o D \o R \o P, 1, 7)
         /\ Under(its, {1, 2}) = A
         /\ Under(its, {3}) = M
         /\ Under(its, {4, 5}) = D
         /\ Under(its, {6}) = R
         /\ Under(its, {7}) = P
         /\ Under(its, {127}) = C
  <1>1. /\ Between(A, 1, 2) /\ Between(M, 3, 3) /\ Between(D, 4, 5)
        /\ Between(R, 6, 6) /\ Between(P, 7, 7) /\ Between(C, 127, 127)
    BY DEF InterfacePieces
  <1>2. PICK AM, AMD, AMDR, Q :
          AM = A \o M /\ AMD = AM \o D /\ AMDR = AMD \o R /\ Q = AMDR \o P
    OBVIOUS
  <1>3. its = Q \o C
    BY <1>2 DEF InterfacePieces
  <1>0. /\ Concat(AM, A, M) /\ Concat(AMD, AM, D) /\ Concat(AMDR, AMD, R)
        /\ Concat(Q, AMDR, P) /\ Concat(its, Q, C)
    BY <1>2, <1>3 DEF Concat
  <1>4. Between(AM, 1, 3)
    BY <1>1, <1>2, BetweenConcat
  <1>5. Between(AMD, 1, 5)
    BY <1>1, <1>2, <1>4, BetweenConcat
  <1>6. Between(AMDR, 1, 6)
    BY <1>1, <1>2, <1>5, BetweenConcat
  <1>7. Between(Q, 1, 7)
    BY <1>1, <1>2, <1>6, BetweenConcat, SMTT(40)
  <1>8. Between(its, 1, 127)
    BY <1>1, <1>3, <1>7, BetweenConcat
  <1>9. /\ A \in Seq(Good) /\ M \in Seq(Good) /\ D \in Seq(Good)
        /\ R \in Seq(Good) /\ P \in Seq(Good) /\ C \in Seq(Good)
        /\ AM \in Seq(Good) /\ AMD \in Seq(Good) /\ AMDR \in Seq(Good) /\ Q \in Seq(Good)
    BY <1>1, <1>4, <1>5, <1>6, <1>7 DEF Between
  <1>10. Under(its, {1, 2}) = A
    <2>1. PICK tags : tags = {1, 2}
      OBVIOUS
    <2>2. 1..2 \subseteq tags /\ 3..3 \cap tags = {} /\ 4..5 \cap tags = {}
          /\ 6..6 \cap tags = {} /\ 7..7 \cap tags = {} /\ 127..127 \cap tags = {}
      BY <2>1
    <2>3. /\ Under(A, tags) = A /\ Under(M, tags) = <<>> /\ Under(D, tags) = <<>>
          /\ Under(R, tags) = <<>> /\ Under(P, tags) = <<>> /\ Under(C, tags) = <<>>
      BY <1>1, <2>2, UnderPiece
    <2>4. Under(AM, tags) = A
      BY <1>0, <1>9, <2>3, UnderLeft
    <2>5. Under(AMD, tags) = A
      BY <1>0, <1>9, <2>3, <2>4, UnderLeft
    <2>6. Under(AMDR, tags) = A
      BY <1>0, <1>9, <2>3, <2>5, UnderLeft
    <2>7. Under(Q, tags) = A
      BY <1>0, <1>9, <2>3, <2>6, UnderLeft
    <2>8. Under(its, tags) = A
      BY <1>0, <1>9, <2>3, <2>7, UnderLeft
    <2> QED BY <2>1, <2>8
  <1>11. Under(its, {3}) = M
    <2>1. PICK tags : tags = {3}
      OBVIOUS
    <2>2. 1..2 \cap tags = {} /\ 3..3 \subseteq tags /\ 4..5 \cap tags = {}
          /\ 6..6 \cap tags = {} /\ 7..7 \cap tags = {} /\ 127..127 \cap tags = {}
      BY <2>1
    <2>3. /\ Under(A, tags) = <<>> /\ Under(M, tags) = M /\ Under(D, tags) = <<>>
          /\ Under(R, tags) = <<>> /\ Under(P, tags) = <<>> /\ Under(C, tags) = <<>>
      BY <1>1, <2>2, UnderPiece
    <2>4. Under(AM, tags) = M
      BY <1>0, <1>9, <2>3, UnderRight
    <2>5. Under(AMD, tags) = M
      BY <1>0, <1>9, <2>3, <2>4, UnderLeft
    <2>6. Under(AMDR, tags) = M
      BY <1>0, <1>9, <2>3, <2>5, UnderLeft
    <2>7. Under(Q, tags) = M
      BY <1>0, <1>9, <2>3, <2>6, UnderLeft
    <2>8. Under(its, tags) = M
      BY <1>0, <1>9, <2>3, <2>7, UnderLeft
    <2> QED BY <2>1, <2>8
  <1>12. Under(its, {4, 5}) = D
    <2>1. PICK tags : tags = {4, 5}
      OBVIOUS
    <2>2. 1..3 \cap tags = {} /\ 4..5 \subseteq tags
          /\ 6..6 \cap tags = {} /\ 7..7 \cap tags = {} /\ 127..127 \cap tags = {}
      BY <2>1
    <2>3. /\ Under(AM, tags) = <<>> /\ Under(D, tags) = D
          /\ Under(R, tags) = <<>> /\ Under(P, tags) = <<>> /\ Under(C, tags) = <<>>
      BY <1>1, <1>4, <2>2, UnderPiece
    <2>4. Under(AMD, tags) = D
      BY <1>0, <1>9, <2>3, UnderRight
    <2>5. Under(AMDR, tags) = D
      BY <1>0, <1>9, <2>3, <2>4, UnderLeft
    <2>6. Under(Q, tags) = D
      BY <1>0, <1>9, <2>3, <2>5, UnderLeft
    <2>7. Under(its, tags) = D
      BY <1>0, <1>9, <2>3, <2>6, UnderLeft
    <2> QED BY <2>1, <2>7
  <1>13. Under(its, {6}) = R
    <2>1. PICK tags : tags = {6}
      OBVIOUS
    <2>2. 1..5 \cap tags = {} /\ 6..6 \subseteq tags
          /\ 7..7 \cap tags = {} /\ 127..127 \cap tags = {}
      BY <2>1
    <2>3. /\ Under(AMD, tags) = <<>> /\ Under(R, tags) = R
          /\ Under(P, tags) = <<>> /\ Under(C, tags) = <<>>
      BY <1>1, <1>5, <2>2, UnderPiece
    <2>4. Under(AMDR, tags) = R
      BY <1>0, <1>9, <2>3, UnderRight
    <2>5. Under(Q, tags) = R
      BY <1>0, <1>9, <2>3, <2>4, UnderLeft
    <2>6. Under(its, tags) = R
      BY <1>0, <1>9, <2>3, <2>5, UnderLeft
    <2> QED BY <2>1, <2>6
  <1>14. Under(its, {7}) = P
    <2>1. PICK tags : tags = {7}
      OBVIOUS
    <2>2. 1..6 \cap tags = {} /\ 7..7 \subseteq tags /\ 127..127 \cap tags = {}
      BY <2>1
    <2>3. Under(AMDR, tags) = <<>> /\ Under(P, tags) = P /\ Under(C, tags) = <<>>
      BY <1>1, <1>6, <2>2, UnderPiece
    <2>4. Under(Q, tags) = P
      BY <1>0, <1>9, <2>3, UnderRight
    <2>5. Under(its, tags) = P
      BY <1>0, <1>9, <2>3, <2>4, UnderLeft
    <2> QED BY <2>1, <2>5
  <1>15. Under(its, {127}) = C
    <2>1. PICK tags : tags = {127}
      OBVIOUS
    <2>2. 1..7 \cap tags = {} /\ 127..127 \subseteq tags
      BY <2>1
    <2>3. Under(Q, tags) = <<>> /\ Under(C, tags) = C
      BY <1>1, <1>7, <2>2, UnderPiece
    <2> QED BY <1>3, <1>9, <2>1, <2>3, UnderBoth
  <1> QED BY <1>2, <1>7, <1>8, <1>10, <1>11, <1>12, <1>13, <1>14, <1>15

InterfaceItem == {it \in Good : InterfaceItemOK(it)}

(* What the encoder puts under each tag is what the decoder expects there. *)
LEMMA InterfaceItems ==
  ASSUME NEW it \in Good
  PROVE  /\ PrefixItem(it, 1, 2) => InterfaceItemOK(it)
         /\ AddrItem(it, 4, 5) => InterfaceItemOK(it)
         /\ it.tag \in {3, 7} /\ Len(it.value) = 2 /\ Uint16(it.value) # 0 => InterfaceItemOK(it)
         /\ it.tag = 6 /\ Len(it.value) = RefLen => InterfaceItemOK(it)
         /\ it.tag = 127 /\ Len(it.value) = MACLen => InterfaceItemOK(it)
  BY DEF PrefixItem, AddrItem, InterfaceItemOK, TagADDR4, TagADDR6, TagMTU, TagDNS4, TagDNS6,
         TagPeerRef, TagListenPort, TagMAC

InterfaceValid(i) ==
  /\ \A k \in DOMAIN i.addrs : PrefixValid(i.addrs[k])
  /\ \A k \in DOMAIN i.dns : AddrValid(AsBytes(i.dns[k]))

(* The fields of an interface are in order, and each is well formed. *)
LEMMA InterfaceFields ==
  ASSUME NEW i \in InterfaceType, InterfaceValid(i), Len(i.mac) \in {0, MACLen}
  PROVE  LET A == encodePrefixes(i.addrs, TagADDR4, TagADDR6)
             M == Optional(i.mtu # 0, TagMTU, be16(i.mtu))
             D == encodeDNS(i.dns)
             R == [k \in DOMAIN i.refs |-> Item(TagPeerRef, i.refs[k])]
             P == Optional(i.port # 0, TagListenPort, be16(i.port))
             C == Optional(i.mac # <<>>, TagMAC, i.mac)
         IN  /\ InterfacePieces(interfaceItems(i), A, M, D, R, P, C)
             /\ PrefixPiece(A, GroupedPrefixes(i.addrs), 1, 2)
             /\ AddrPiece(D, GroupedAddrs(i.dns), 4, 5)
             /\ i.refs = [k \in DOMAIN R |-> R[k].value]
             /\ interfaceItems(i) \in Seq(InterfaceItem)
             /\ Len(C) <= 1
  <1> DEFINE A == encodePrefixes(i.addrs, TagADDR4, TagADDR6)
             M == Optional(i.mtu # 0, TagMTU, be16(i.mtu))
             D == encodeDNS(i.dns)
             R == [k \in DOMAIN i.refs |-> Item(TagPeerRef, i.refs[k])]
             P == Optional(i.port # 0, TagListenPort, be16(i.port))
             C == Optional(i.mac # <<>>, TagMAC, i.mac)
  <1>1. /\ i.addrs \in Seq(PrefixType) /\ i.mtu \in Uint16s /\ i.dns \in Seq(Bytes)
        /\ i.refs \in Seq([1..RefLen -> Byte]) /\ i.port \in Uint16s /\ i.mac \in Bytes
    BY DEF InterfaceType
  <1>2. /\ TagADDR4 = 1 /\ TagADDR6 = 2 /\ TagMTU = 3 /\ TagDNS4 = 4 /\ TagDNS6 = 5
        /\ TagPeerRef = 6 /\ TagListenPort = 7 /\ TagMAC = 127
    BY DEF TagADDR4, TagADDR6, TagMTU, TagDNS4, TagDNS6, TagPeerRef, TagListenPort, TagMAC
  <1>3. PrefixPiece(A, GroupedPrefixes(i.addrs), 1, 2)
    <2>1. PICK s \in Seq(PrefixType) : s = i.addrs
      BY <1>1
    <2>2. \A k \in DOMAIN s : PrefixValid(s[k])
      BY <2>1 DEF InterfaceValid
    <2>3. 1 \in 1..255 /\ 2 \in 1..255 /\ 1 < 2
      BY SMTT(40)
    <2>4. PrefixPiece(encodePrefixes(s, 1, 2), GroupedPrefixes(s), 1, 2)
      BY <2>2, <2>3, PrefixesEncoded, ZenonT(60)
    <2> QED BY <1>2, <2>1, <2>4
  <1>4. AddrPiece(D, GroupedAddrs(i.dns), 4, 5)
    <2>1. PICK s \in Seq(Bytes) : s = i.dns
      BY <1>1
    <2>2. \A k \in DOMAIN s : AddrValid(AsBytes(s[k]))
      BY <2>1 DEF InterfaceValid
    <2>3. AddrPiece(encodeDNS(s), GroupedAddrs(s), TagDNS4, TagDNS6)
      BY <2>2, AddrsEncoded
    <2> QED BY <1>2, <2>1, <2>3
  <1>5. /\ Between(R, 6, 6)
        /\ i.refs = [k \in DOMAIN R |-> R[k].value]
        /\ \A k \in 1..Len(R) : R[k].tag = 6 /\ Len(R[k].value) = RefLen
    <2>1. PICK s \in Seq([1..RefLen -> Byte]) : s = i.refs
      BY <1>1
    <2>2. LET S == [k \in DOMAIN s |-> Item(TagPeerRef, s[k])]
          IN  /\ Between(S, TagPeerRef, TagPeerRef)
              /\ s = [k \in DOMAIN S |-> S[k].value]
              /\ \A k \in 1..Len(S) : S[k].tag = TagPeerRef /\ Len(S[k].value) = RefLen
      BY RefsEncoded
    <2> QED BY <1>2, <2>1, <2>2, ZenonT(60)
  <1>6. /\ Between(M, 3, 3)
        /\ \A k \in 1..Len(M) : i.mtu # 0 /\ M[k].tag = 3 /\ M[k].value = be16(i.mtu)
    <2>1. be16(i.mtu) \in Bytes
      BY <1>1, WordRead
    <2>2. PICK there \in BOOLEAN : there = (i.mtu # 0)
      OBVIOUS
    <2>3. PICK v \in Bytes : v = be16(i.mtu)
      BY <2>1
    <2>4. 3 \in 1..255
      OBVIOUS
    <2>5. OptionalPiece(Optional(there, 3, v), there, 3, v)
      BY <2>4, OptionalEncoded
    <2> QED BY <1>2, <2>2, <2>3, <2>5 DEF OptionalPiece
  <1>7. /\ Between(P, 7, 7)
        /\ \A k \in 1..Len(P) : i.port # 0 /\ P[k].tag = 7 /\ P[k].value = be16(i.port)
    <2>1. be16(i.port) \in Bytes
      BY <1>1, WordRead
    <2>2. PICK there \in BOOLEAN : there = (i.port # 0)
      OBVIOUS
    <2>3. PICK v \in Bytes : v = be16(i.port)
      BY <2>1
    <2>4. 7 \in 1..255
      OBVIOUS
    <2>5. OptionalPiece(Optional(there, 7, v), there, 7, v)
      BY <2>4, OptionalEncoded
    <2> QED BY <1>2, <2>2, <2>3, <2>5 DEF OptionalPiece
  <1>8. /\ Between(C, 127, 127) /\ Len(C) <= 1
        /\ \A k \in 1..Len(C) : i.mac # <<>> /\ C[k].tag = 127 /\ C[k].value = i.mac
    <2>1. PICK there \in BOOLEAN : there = (i.mac # <<>>)
      OBVIOUS
    <2>2. PICK v \in Bytes : v = i.mac
      BY <1>1
    <2>3. 127 \in 1..255
      OBVIOUS
    <2>4. OptionalPiece(Optional(there, 127, v), there, 127, v)
      BY <2>3, OptionalEncoded
    <2>5. C = Optional(there, 127, v)
      BY <1>2, <2>1, <2>2
    <2>6. PICK O : O = Optional(there, 127, v)
      OBVIOUS
    <2>7. /\ Between(O, 127, 127) /\ Len(O) \in {0, 1}
          /\ \A k \in 1..Len(O) : there /\ O[k].tag = 127 /\ O[k].value = v
      BY <2>4, <2>6 DEF OptionalPiece
    <2>8. Len(O) <= 1
      BY <2>7
    <2> HIDE DEF C
    <2> QED BY <2>1, <2>2, <2>5, <2>6, <2>7, <2>8, ZenonT(60)
  <1>9. interfaceItems(i) = A \o M \o D \o R \o P \o C
    BY DEF interfaceItems
  <1> HIDE DEF A, M, D, R, P, C
  <1>10. Between(A, 1, 2) /\ Between(D, 4, 5)
    BY <1>3, <1>4 DEF PrefixPiece, AddrPiece
  <1>11. InterfacePieces(interfaceItems(i), A, M, D, R, P, C)
    BY <1>5, <1>6, <1>7, <1>8, <1>9, <1>10 DEF InterfacePieces
  <1>12. ASSUME NEW S, NEW lo, NEW hi, Between(S, lo, hi),
                \A k \in 1..Len(S) : S[k] \in Good => InterfaceItemOK(S[k])
         PROVE  S \in Seq(InterfaceItem)
    <2>1. S \in Seq(Good)
      BY <1>12 DEF Between
    <2>2. DOMAIN S = 1..Len(S) /\ \A k \in 1..Len(S) : S[k] \in Good
      BY <2>1, ElementOfSeq
    <2>3. \A k \in DOMAIN S : S[k] \in InterfaceItem
      BY <1>12, <2>2 DEF InterfaceItem
    <2> QED BY <2>1, <2>3, ValidSeq
  <1>13. A \in Seq(InterfaceItem) /\ D \in Seq(InterfaceItem)
    <2>1. \A k \in 1..Len(A) : PrefixItem(A[k], 1, 2)
      BY <1>3 DEF PrefixPiece
    <2>2. \A k \in 1..Len(D) : AddrItem(D[k], 4, 5)
      BY <1>4 DEF AddrPiece
    <2>3. \A k \in 1..Len(A) : A[k] \in Good => InterfaceItemOK(A[k])
      BY <2>1, InterfaceItems
    <2>4. \A k \in 1..Len(D) : D[k] \in Good => InterfaceItemOK(D[k])
      BY <2>2, InterfaceItems
    <2> QED BY <1>10, <1>12, <2>3, <2>4
  <1>14. R \in Seq(InterfaceItem)
    <2>1. \A k \in 1..Len(R) : R[k] \in Good => InterfaceItemOK(R[k])
      BY <1>5, InterfaceItems
    <2> QED BY <1>5, <1>12, <2>1
  <1>15. M \in Seq(InterfaceItem)
    <2>1. Len(be16(i.mtu)) = 2 /\ Uint16(be16(i.mtu)) = i.mtu
      BY <1>1, WordRead
    <2>2. \A k \in 1..Len(M) : M[k].tag \in {3, 7} /\ Len(M[k].value) = 2 /\ Uint16(M[k].value) # 0
      BY <1>6, <2>1
    <2>3. \A k \in 1..Len(M) : M[k] \in Good => InterfaceItemOK(M[k])
      BY <2>2, InterfaceItems
    <2> QED BY <1>6, <1>12, <2>3
  <1>16. P \in Seq(InterfaceItem)
    <2>1. Len(be16(i.port)) = 2 /\ Uint16(be16(i.port)) = i.port
      BY <1>1, WordRead
    <2>2. \A k \in 1..Len(P) : P[k].tag \in {3, 7} /\ Len(P[k].value) = 2 /\ Uint16(P[k].value) # 0
      BY <1>7, <2>1
    <2>3. \A k \in 1..Len(P) : P[k] \in Good => InterfaceItemOK(P[k])
      BY <2>2, InterfaceItems
    <2> QED BY <1>7, <1>12, <2>3
  <1>17. C \in Seq(InterfaceItem)
    <2>1. i.mac # <<>> => Len(i.mac) = MACLen
      <3>1. i.mac \in Seq(Byte)
        BY <1>1 DEF Bytes
      <3>2. i.mac # <<>> => Len(i.mac) # 0
        BY <3>1, EmptySeq
      <3> QED BY <3>2
    <2>2. \A k \in 1..Len(C) : C[k].tag = 127 /\ Len(C[k].value) = MACLen
      BY <1>8, <2>1
    <2>3. \A k \in 1..Len(C) : C[k] \in Good => InterfaceItemOK(C[k])
      BY <2>2, InterfaceItems
    <2> QED BY <1>8, <1>12, <2>3
  <1>18. interfaceItems(i) \in Seq(InterfaceItem)
    BY <1>9, <1>13, <1>14, <1>15, <1>16, <1>17, ConcatProperties
  <1> QED BY <1>3, <1>4, <1>5, <1>8, <1>11, <1>18 DEF A, M, D, R, P, C

(* Only the last item is the MAC. *)
LEMMA MACLast ==
  ASSUME NEW its, NEW A, NEW M, NEW D, NEW R, NEW P, NEW C,
         InterfacePieces(its, A, M, D, R, P, C), Len(C) <= 1
  PROVE  \A k \in 1..Len(its) : its[k].tag = TagMAC => k = Len(its)
  <1>1. PICK Q : Q = A \o M \o D \o R \o P
    OBVIOUS
  <1>2. Between(Q, 1, 7) /\ its = Q \o C
    BY <1>1, InterfaceUnder, ZenonT(60) DEF InterfacePieces
  <1>3. Q \in Seq(Good) /\ C \in Seq(Good)
    BY <1>2 DEF Between, InterfacePieces
  <1>4. PICK L \in Nat, n \in Nat : L = Len(Q) /\ n = Len(C)
    BY <1>3
  <1>5. PICK u \in Seq(Good) : u = its /\ Joined(u, Q, C, L, n)
    BY <1>2, <1>3, <1>4, Join
  <1>6. n <= 1
    BY <1>4
  <1>7. Len(u) = L + n
    BY <1>5 DEF Joined
  <1>8. ASSUME NEW k \in 1..L + n, u[k].tag = 127 PROVE k = L + n
    <2>1. k \notin 1..L
      <3> SUFFICES ASSUME k \in 1..L PROVE FALSE
        OBVIOUS
      <3>1. u[k] = Q[k] /\ Q[k].tag \in 1..7
        BY <1>2, <1>4, <1>5 DEF Joined, Between
      <3> QED BY <1>8, <3>1
    <2> QED BY <1>6, <2>1
  <1> QED BY <1>5, <1>7, <1>8 DEF TagMAC

(* What the command meant, apart from the order of the two families. *)
GroupedInterface(i) == [i EXCEPT !.addrs = GroupedPrefixes(@), !.dns = GroupedAddrs(@)]

LEMMA InterfaceExcept ==
  ASSUME NEW i \in InterfaceType, NEW g, NEW h
  PROVE  [i EXCEPT !.addrs = g, !.dns = h] =
           [addrs |-> g, mtu |-> i.mtu, dns |-> h, refs |-> i.refs, port |-> i.port, mac |-> i.mac]
  <1>1. PICK k : k = [i EXCEPT !.addrs = g]
    OBVIOUS
  <1>2. k = [addrs |-> g, mtu |-> i.mtu, dns |-> i.dns, refs |-> i.refs, port |-> i.port,
             mac |-> i.mac]
    BY <1>1 DEF InterfaceType
  <1>3. [i EXCEPT !.addrs = g, !.dns = h] = [k EXCEPT !.dns = h]
    BY <1>1
  <1>4. [k EXCEPT !.dns = h] =
          [addrs |-> g, mtu |-> i.mtu, dns |-> h, refs |-> i.refs, port |-> i.port, mac |-> i.mac]
    BY <1>2
  <1> QED BY <1>3, <1>4

(* Interface.Encode, parse and DecodeInterface: what encoding does not refuse is
   a record of the device's size, in which the items written are found, and it
   decodes to the settings, each family together and the peers in their order. *)
THEOREM InterfaceIsRead ==
  ASSUME NEW i \in InterfaceType, Len(i.mac) \in {0, MACLen}, EncodeInterface(i) # Refused
  PROVE  /\ EncodeInterface(i) \in Bytes
         /\ Len(EncodeInterface(i)) = Size
         /\ parse(EncodeInterface(i), MagicInterface) = [ok |-> TRUE, items |-> interfaceItems(i)]
         /\ DecodeInterface(EncodeInterface(i)) = [ok |-> TRUE, val |-> GroupedInterface(i)]
  <1>1. InterfaceValid(i) /\ EncodeInterface(i) = write(MagicInterface, interfaceItems(i))
    BY DEF EncodeInterface, InterfaceValid
  <1> DEFINE its == interfaceItems(i)
             A == encodePrefixes(i.addrs, TagADDR4, TagADDR6)
             M == Optional(i.mtu # 0, TagMTU, be16(i.mtu))
             D == encodeDNS(i.dns)
             R == [k \in DOMAIN i.refs |-> Item(TagPeerRef, i.refs[k])]
             P == Optional(i.port # 0, TagListenPort, be16(i.port))
             C == Optional(i.mac # <<>>, TagMAC, i.mac)
             b == EncodeInterface(i)
  <1>2. /\ InterfacePieces(its, A, M, D, R, P, C)
        /\ PrefixPiece(A, GroupedPrefixes(i.addrs), 1, 2)
        /\ AddrPiece(D, GroupedAddrs(i.dns), 4, 5)
        /\ i.refs = [k \in DOMAIN R |-> R[k].value]
        /\ its \in Seq(InterfaceItem)
        /\ Len(C) <= 1
    BY <1>1, InterfaceFields
  <1>3. /\ its \in Seq(Good) /\ Ascending(its)
        /\ Under(its, {1, 2}) = A /\ Under(its, {3}) = M /\ Under(its, {4, 5}) = D
        /\ Under(its, {6}) = R /\ Under(its, {7}) = P /\ Under(its, {127}) = C
    <2> HIDE DEF its, A, M, D, R, P, C
    <2> QED BY <1>2, InterfaceUnder DEF Between
  <1>4. MagicInterface \in Byte
    BY DEF MagicInterface, Byte
  <1>5. b \in Bytes /\ Len(b) = Size /\ parse(b, MagicInterface) = [ok |-> TRUE, items |-> its]
    <2>1. write(MagicInterface, its) # Refused
      BY <1>1
    <2> HIDE DEF its
    <2>2. /\ write(MagicInterface, its) \in Bytes
          /\ Len(write(MagicInterface, its)) = Size
          /\ parse(write(MagicInterface, its), MagicInterface) = [ok |-> TRUE, items |-> its]
      BY <1>3, <1>4, <2>1, ParseWritten
    <2> QED BY <1>1, <2>2 DEF its
  <1>6. /\ TagADDR4 = 1 /\ TagADDR6 = 2 /\ TagMTU = 3 /\ TagDNS4 = 4 /\ TagDNS6 = 5
        /\ TagPeerRef = 6 /\ TagListenPort = 7 /\ TagMAC = 127
    BY DEF TagADDR4, TagADDR6, TagMTU, TagDNS4, TagDNS6, TagPeerRef, TagListenPort, TagMAC
  <1>7. \A k \in DOMAIN its : InterfaceItemOK(its[k])
    <2> HIDE DEF its
    <2>1. DOMAIN its = 1..Len(its) /\ \A k \in 1..Len(its) : its[k] \in InterfaceItem
      BY <1>2, ElementOfSeq
    <2> QED BY <2>1 DEF InterfaceItem
  <1>8. \A k \in DOMAIN its : its[k].tag = TagMAC => k = Len(its)
    <2> HIDE DEF its, A, M, D, R, P, C
    <2>1. DOMAIN its = 1..Len(its)
      BY <1>3
    <2> QED BY <1>2, <2>1, MACLast
  <1>9. /\ Single(its, TagMTU, <<0, 0>>) = IF i.mtu # 0 THEN be16(i.mtu) ELSE <<0, 0>>
        /\ Single(its, TagListenPort, <<0, 0>>) = IF i.port # 0 THEN be16(i.port) ELSE <<0, 0>>
        /\ Single(its, TagMAC, <<>>) = IF i.mac # <<>> THEN i.mac ELSE <<>>
        /\ once(its, TagMTU) /\ once(its, TagListenPort) /\ once(its, TagMAC)
    <2>1. /\ Under(its, {TagMTU}) = M /\ Under(its, {TagListenPort}) = P
          /\ Under(its, {TagMAC}) = C
      BY <1>3, <1>6
    <2> HIDE DEF its
    <2>2. PICK m \in BOOLEAN, p \in BOOLEAN, c \in BOOLEAN :
            m = (i.mtu # 0) /\ p = (i.port # 0) /\ c = (i.mac # <<>>)
      OBVIOUS
    <2>3. /\ Under(its, {TagMTU}) = Optional(m, TagMTU, be16(i.mtu))
          /\ Under(its, {TagListenPort}) = Optional(p, TagListenPort, be16(i.port))
          /\ Under(its, {TagMAC}) = Optional(c, TagMAC, i.mac)
      BY <2>1, <2>2
    <2>4. /\ Single(its, TagMTU, <<0, 0>>) = IF m THEN be16(i.mtu) ELSE <<0, 0>>
          /\ once(its, TagMTU)
      BY <2>3, SingleOptional
    <2>5. /\ Single(its, TagListenPort, <<0, 0>>) = IF p THEN be16(i.port) ELSE <<0, 0>>
          /\ once(its, TagListenPort)
      BY <2>3, SingleOptional
    <2>6. Single(its, TagMAC, <<>>) = (IF c THEN i.mac ELSE <<>>) /\ once(its, TagMAC)
      BY <2>3, SingleOptional
    <2> QED BY <2>2, <2>4, <2>5, <2>6
  <1>10. i.mtu \in Uint16s /\ i.port \in Uint16s
    BY DEF InterfaceType
  <1>11. Uint16(<<0, 0>>) = 0
    BY DEF Uint16
  <1>12. /\ Uint16(Single(its, TagMTU, <<0, 0>>)) = i.mtu
         /\ Uint16(Single(its, TagListenPort, <<0, 0>>)) = i.port
         /\ Single(its, TagMAC, <<>>) = i.mac
    <2>1. Uint16(be16(i.mtu)) = i.mtu /\ Uint16(be16(i.port)) = i.port
      BY <1>10, WordRead
    <2> HIDE DEF its
    <2> QED BY <1>9, <1>11, <2>1
  <1>13. PrefixesUnder(its, {TagADDR4, TagADDR6}) = GroupedPrefixes(i.addrs)
    <2>1. ValuesUnder(its, {TagADDR4, TagADDR6}) = [k \in DOMAIN A |-> A[k].value]
      <3> HIDE DEF its, A
      <3> QED BY <1>3, <1>6 DEF ValuesUnder
    <2>2. PrefixesUnder(its, {TagADDR4, TagADDR6}) = [k \in DOMAIN A |-> prefixFrom(A[k].value)]
      <3> HIDE DEF its, A
      <3> QED BY <2>1 DEF PrefixesUnder
    <2> HIDE DEF its, A
    <2> QED BY <1>2, <2>2 DEF PrefixPiece
  <1>14. ValuesUnder(its, {TagDNS4, TagDNS6}) = GroupedAddrs(i.dns)
    <2> HIDE DEF its, D
    <2> QED BY <1>2, <1>3, <1>6 DEF ValuesUnder, AddrPiece
  <1>15. ValuesUnder(its, {TagPeerRef}) = i.refs
    <2> HIDE DEF its, R
    <2> QED BY <1>2, <1>3, <1>6 DEF ValuesUnder
  <1>16. GroupedInterface(i) =
           [addrs |-> GroupedPrefixes(i.addrs), mtu |-> i.mtu, dns |-> GroupedAddrs(i.dns),
            refs |-> i.refs, port |-> i.port, mac |-> i.mac]
    <2>2. PICK g, h : g = GroupedPrefixes(i.addrs) /\ h = GroupedAddrs(i.dns)
      OBVIOUS
    <2>3. GroupedInterface(i) = [i EXCEPT !.addrs = g, !.dns = h]
      BY <2>2, Zenon DEF GroupedInterface
    <2>4. [i EXCEPT !.addrs = g, !.dns = h] =
            [addrs |-> g, mtu |-> i.mtu, dns |-> h, refs |-> i.refs, port |-> i.port, mac |-> i.mac]
      BY InterfaceExcept
    <2> QED BY <2>2, <2>3, <2>4
  <1> HIDE DEF its, A, M, D, R, P, C, b
  <1>17. DecodeInterface(b) = [ok |-> TRUE, val |-> GroupedInterface(i)]
    <2>1. PICK p : p = parse(b, MagicInterface)
      OBVIOUS
    <2>2. p.ok = TRUE /\ p.items = its
      BY <1>5, <2>1
    <2>3. \A tag \in {TagMTU, TagListenPort, TagMAC} : once(its, tag)
      BY <1>9
    <2> QED BY <1>7, <1>8, <1>12, <1>13, <1>14, <1>15, <1>16, <2>1, <2>2, <2>3 DEF DecodeInterface
  <1> QED BY <1>5, <1>17 DEF b, its

-----------------------------------------------------------------------------
(* The peer record: what was encoded is decoded. *)

EndpointValid(e) ==
  /\ Len(e.host) <= MaxHostname
  /\ e.host # <<>> \/ AddrValid(AsBytes(e.ip))

PeerItem == {it \in Good : PeerItemOK(it)}

LEMMA PeerItems ==
  ASSUME NEW it \in Good
  PROVE  /\ PrefixItem(it, 19, 20) => PeerItemOK(it)
         /\ it.tag = 16 /\ Len(it.value) = Len4 + 2 => PeerItemOK(it)
         /\ it.tag = 17 /\ Len(it.value) = Len6 + 2 => PeerItemOK(it)
         /\ it.tag = 18 /\ Len(it.value) \in 3..(2 + MaxHostname) => PeerItemOK(it)
         /\ it.tag = 21 /\ Len(it.value) = 1 /\ it.value[1] # 0 => PeerItemOK(it)
         /\ it.tag = 22 /\ Len(it.value) = PSKWrappedLen => PeerItemOK(it)
  BY DEF PrefixItem, PeerItemOK, TagEndpoint4, TagEndpoint6, TagEndpointHost, TagAIP4, TagAIP6,
         TagKeepalive, TagPSKWrapped

(* The bytes of a name and its port. *)
LEMMA HostBytes ==
  ASSUME NEW port \in Uint16s, NEW host \in Bytes, NEW n \in Nat, n = Len(host)
  PROVE  LET v == be16(port) \o host
         IN  /\ v \in Bytes /\ Len(v) = n + 2
             /\ SubSeq(v, 3, Len(v)) = host
             /\ Uint16(v) = port
  <1>1. PICK a \in Seq(Byte), h \in Seq(Byte) : a = be16(port) /\ h = host /\ Len(a) = 2 /\ Uint16(a) = port
    BY WordRead DEF Bytes
  <1>2. PICK v \in Seq(Byte) : v = a \o h /\ Joined(v, a, h, 2, n)
    BY <1>1, Join
  <1>3. Len(v) = 2 + n /\ (\A k \in 1..2 : v[k] = a[k]) /\ \A k \in 1..n : v[2 + k] = h[k]
    BY <1>2 DEF Joined
  <1>4. SubSeq(v, 2 + 1, 2 + n) = h
    BY <1>1, <1>3, Slice
  <1>5. v[1] = a[1] /\ v[2] = a[2]
    BY <1>3
  <1>6. Uint16(v) = port
    BY <1>1, <1>5 DEF Uint16
  <1>7. SubSeq(v, 3, Len(v)) = h
    BY <1>3, <1>4
  <1>8. v = be16(port) \o host
    BY <1>1, <1>2
  <1>9. Len(v) = n + 2
    BY <1>3
  <1> QED BY <1>1, <1>6, <1>7, <1>8, <1>9 DEF Bytes

(* The bytes of an address and its port. *)
LEMMA AddrBytes ==
  ASSUME NEW port \in Uint16s, NEW ip \in Bytes, NEW n \in Nat, n = Len(ip)
  PROVE  LET v == ip \o be16(port)
         IN  /\ v \in Bytes /\ Len(v) = n + 2
             /\ SubSeq(v, 1, Len(v) - 2) = ip
             /\ Uint16(SubSeq(v, Len(v) - 1, Len(v))) = port
  <1>1. PICK a \in Seq(Byte), h \in Seq(Byte) : a = be16(port) /\ h = ip /\ Len(a) = 2 /\ Uint16(a) = port
    BY WordRead DEF Bytes
  <1>2. PICK v \in Seq(Byte) : v = h \o a /\ Joined(v, h, a, n, 2)
    <2>1. PICK two \in Nat : two = 2
      OBVIOUS
    <2>2. n = Len(h) /\ two = Len(a)
      BY <1>1, <2>1
    <2>3. h \o a \in Seq(Byte) /\ Joined(h \o a, h, a, n, two)
      BY <2>2, Join
    <2> QED BY <2>1, <2>3
  <1>3. Len(v) = n + 2 /\ (\A k \in 1..n : v[k] = h[k]) /\ \A k \in 1..2 : v[n + k] = a[k]
    BY <1>2 DEF Joined
  <1>4. SubSeq(v, 0 + 1, 0 + n) = h
    <2>1. PICK zero \in Nat : zero = 0
      OBVIOUS
    <2>2. n = Len(h)
      BY <1>1
    <2>3. zero + n <= Len(v)
      BY <1>3, <2>1
    <2>4. \A k \in 1..n : v[zero + k] = h[k]
      BY <1>3, <2>1
    <2>5. SubSeq(v, zero + 1, zero + n) = h
      BY <2>2, <2>3, <2>4, Slice, ZenonT(60)
    <2> QED BY <2>1, <2>5, Zenon
  <1>5. SubSeq(v, n + 1, n + 2) = a
    BY <1>1, <1>3, Slice
  <1>6. Len(v) - 2 = n /\ Len(v) - 1 = n + 1 /\ Len(v) = n + 2 /\ 0 + 1 = 1 /\ 0 + n = n
    BY <1>3
  <1>7. v = ip \o be16(port)
    BY <1>1, <1>2
  <1> QED BY <1>1, <1>4, <1>5, <1>6, <1>7 DEF Bytes

LEMMA EndpointEncoded ==
  ASSUME NEW e \in EndpointType, EndpointValid(e)
  PROVE  LET it == endpointItem(e)
         IN  it \in PeerItem /\ it.tag \in 16..18 /\ endpointFrom(it) = StoredEndpoint(e)
  <1>1. /\ e.ip \in Bytes /\ e.host \in Bytes /\ e.port \in Uint16s
        /\ e = [ip |-> e.ip, host |-> e.host, port |-> e.port]
    BY DEF EndpointType
  <1>2. PICK ip \in Bytes, host \in Bytes, port \in Uint16s :
          /\ ip = e.ip /\ host = e.host /\ port = e.port
          /\ e = [ip |-> ip, host |-> host, port |-> port]
    BY <1>1, Zenon
  <1>3. PICK it : it = endpointItem(e)
    OBVIOUS
  <1>4. TagEndpoint4 = 16 /\ TagEndpoint6 = 17 /\ TagEndpointHost = 18
    BY DEF TagEndpoint4, TagEndpoint6, TagEndpointHost
  <1>5. MaxHostname \in Int
    BY FieldLengths, LengthsApart DEF MaxHostname, headerLen
  <1>6. CASE host # <<>>
    <2>1. PICK n \in Nat : n = Len(host) /\ n > 0 /\ n <= MaxHostname
      <3>1. host \in Seq(Byte)
        BY DEF Bytes
      <3>2. PICK n \in Nat : n = Len(host)
        BY <3>1
      <3>3. n # 0
        BY <1>6, <3>1, <3>2, EmptySeq
      <3>4. n <= MaxHostname
        BY <1>2, <3>2 DEF EndpointValid
      <3> QED BY <3>2, <3>3, <3>4
    <2>2. PICK v : v = be16(port) \o host
      OBVIOUS
    <2>3. v \in Bytes /\ Len(v) = n + 2 /\ SubSeq(v, 3, Len(v)) = host /\ Uint16(v) = port
      BY <2>1, <2>2, HostBytes
    <2>4. it = [tag |-> 18, value |-> v]
      <3>1. e.host # <<>>
        BY <1>2, <1>6, Zenon
      <3>2. endpointItem(e) = Item(TagEndpointHost, be16(e.port) \o e.host)
        BY <3>1 DEF endpointItem
      <3>3. be16(e.port) \o e.host = v
        BY <1>2, <2>2, Zenon
      <3> QED BY <1>3, <1>4, <3>2, <3>3 DEF Item
    <2>5. it \in Good
      BY <2>3, <2>4 DEF Good, ItemType, Byte, tagEnd
    <2>6. Len(v) \in 3..(2 + MaxHostname)
      BY <1>5, <2>1, <2>3
    <2>7. it \in PeerItem
      BY <2>4, <2>5, <2>6, PeerItems DEF PeerItem
    <2>8. endpointFrom(it) = [ip |-> <<>>, host |-> host, port |-> port]
      BY <1>4, <2>3, <2>4 DEF endpointFrom
    <2>9. StoredEndpoint(e) = [ip |-> <<>>, host |-> host, port |-> port]
      <3>1. StoredEndpoint(e) = [e EXCEPT !.ip = <<>>]
        BY <1>2, <1>6, Zenon DEF StoredEndpoint
      <3> QED BY <1>2, <3>1
    <2> QED BY <1>3, <2>4, <2>7, <2>8, <2>9
  <1>7. CASE host = <<>>
    <2>1. PICK a \in Bytes : a = AsBytes(ip) /\ AddrValid(a)
      <3>1. AddrValid(AsBytes(ip))
        BY <1>2, <1>7 DEF EndpointValid
      <3> QED BY <3>1, AsBytesTyped
    <2>2. PICK n \in Nat : n = Len(a)
      BY DEF Bytes
    <2>3. PICK v : v = a \o be16(port)
      OBVIOUS
    <2>4. /\ v \in Bytes /\ Len(v) = n + 2 /\ SubSeq(v, 1, Len(v) - 2) = a
          /\ Uint16(SubSeq(v, Len(v) - 1, Len(v))) = port
      BY <2>2, <2>3, AddrBytes
    <2>5. PICK t \in {16, 17} : t = IF Is4(a) THEN 16 ELSE 17
      OBVIOUS
    <2>6. it = [tag |-> t, value |-> v]
      <3>1. e.host = <<>> /\ AsBytes(e.ip) = a /\ e.port = port
        BY <1>2, <1>7, <2>1, Zenon
      <3>2. it = Item(IF Is4(a) THEN TagEndpoint4 ELSE TagEndpoint6, a \o be16(port))
        BY <1>3, <3>1, Zenon DEF endpointItem
      <3> QED BY <1>4, <2>3, <2>5, <3>2 DEF Item
    <2>7. it \in Good
      BY <2>4, <2>6 DEF Good, ItemType, Byte, tagEnd
    <2>8. (t = 16 /\ n = Len4) \/ (t = 17 /\ n = Len6)
      BY <2>1, <2>2, <2>5 DEF AddrValid, Is4
    <2>9. it \in PeerItem
      <3>1. it.tag = t /\ it.value = v
        BY <2>6
      <3> QED BY <2>4, <2>7, <2>8, <3>1, PeerItems DEF PeerItem
    <2>10. endpointFrom(it) = [ip |-> a, host |-> <<>>, port |-> port]
      BY <1>4, <2>4, <2>5, <2>6, SMTT(40) DEF endpointFrom
    <2>11. StoredEndpoint(e) = [ip |-> a, host |-> <<>>, port |-> port]
      <3>1. StoredEndpoint(e) = [e EXCEPT !.ip = a]
        BY <1>2, <1>7, <2>1, Zenon DEF StoredEndpoint
      <3> QED BY <1>2, <1>7, <3>1
    <2> QED BY <1>3, <2>5, <2>6, <2>9, <2>10, <2>11
  <1> QED BY <1>6, <1>7

PeerPieces(its, E, A, K, W) ==
  /\ its = E \o A \o K \o W
  /\ Between(E, 16, 18) /\ Between(A, 19, 20) /\ Between(K, 21, 21) /\ Between(W, 22, 22)

LEMMA PeerUnder ==
  ASSUME NEW its, NEW E, NEW A, NEW K, NEW W, PeerPieces(its, E, A, K, W)
  PROVE  /\ Between(its, 16, 22)
         /\ Under(its, {16, 17, 18}) = E
         /\ Under(its, {19, 20}) = A
         /\ Under(its, {21}) = K
         /\ Under(its, {22}) = W
  <1>1. Between(E, 16, 18) /\ Between(A, 19, 20) /\ Between(K, 21, 21) /\ Between(W, 22, 22)
    BY DEF PeerPieces
  <1>2. PICK EA, EAK : EA = E \o A /\ EAK = EA \o K
    OBVIOUS
  <1>3. its = EAK \o W
    BY <1>2 DEF PeerPieces
  <1>0. Concat(EA, E, A) /\ Concat(EAK, EA, K) /\ Concat(its, EAK, W)
    BY <1>2, <1>3 DEF Concat
  <1>4. Between(EA, 16, 20)
    BY <1>1, <1>2, BetweenConcat
  <1>5. Between(EAK, 16, 21)
    BY <1>1, <1>2, <1>4, BetweenConcat
  <1>6. Between(its, 16, 22)
    BY <1>1, <1>3, <1>5, BetweenConcat
  <1>9. /\ E \in Seq(Good) /\ A \in Seq(Good) /\ K \in Seq(Good) /\ W \in Seq(Good)
        /\ EA \in Seq(Good) /\ EAK \in Seq(Good)
    BY <1>1, <1>4, <1>5 DEF Between
  <1>10. Under(its, {16, 17, 18}) = E
    <2>1. PICK tags : tags = {16, 17, 18}
      OBVIOUS
    <2>2. 16..18 \subseteq tags /\ 19..20 \cap tags = {} /\ 21..21 \cap tags = {} /\ 22..22 \cap tags = {}
      BY <2>1
    <2>3. /\ Under(E, tags) = E /\ Under(A, tags) = <<>>
          /\ Under(K, tags) = <<>> /\ Under(W, tags) = <<>>
      BY <1>1, <2>2, UnderPiece
    <2>4. Under(EA, tags) = E
      BY <1>0, <1>9, <2>3, UnderLeft
    <2>5. Under(EAK, tags) = E
      BY <1>0, <1>9, <2>3, <2>4, UnderLeft
    <2>6. Under(its, tags) = E
      BY <1>0, <1>9, <2>3, <2>5, UnderLeft
    <2> QED BY <2>1, <2>6
  <1>11. Under(its, {19, 20}) = A
    <2>1. PICK tags : tags = {19, 20}
      OBVIOUS
    <2>2. 16..18 \cap tags = {} /\ 19..20 \subseteq tags /\ 21..21 \cap tags = {} /\ 22..22 \cap tags = {}
      BY <2>1
    <2>3. /\ Under(E, tags) = <<>> /\ Under(A, tags) = A
          /\ Under(K, tags) = <<>> /\ Under(W, tags) = <<>>
      BY <1>1, <2>2, UnderPiece
    <2>4. Under(EA, tags) = A
      BY <1>0, <1>9, <2>3, UnderRight
    <2>5. Under(EAK, tags) = A
      BY <1>0, <1>9, <2>3, <2>4, UnderLeft
    <2>6. Under(its, tags) = A
      BY <1>0, <1>9, <2>3, <2>5, UnderLeft
    <2> QED BY <2>1, <2>6
  <1>12. Under(its, {21}) = K
    <2>1. PICK tags : tags = {21}
      OBVIOUS
    <2>2. 16..20 \cap tags = {} /\ 21..21 \subseteq tags /\ 22..22 \cap tags = {}
      BY <2>1
    <2>3. Under(EA, tags) = <<>> /\ Under(K, tags) = K /\ Under(W, tags) = <<>>
      BY <1>1, <1>4, <2>2, UnderPiece
    <2>4. Under(EAK, tags) = K
      BY <1>0, <1>9, <2>3, UnderRight
    <2>5. Under(its, tags) = K
      BY <1>0, <1>9, <2>3, <2>4, UnderLeft
    <2> QED BY <2>1, <2>5
  <1>13. Under(its, {22}) = W
    <2>1. PICK tags : tags = {22}
      OBVIOUS
    <2>2. 16..21 \cap tags = {} /\ 22..22 \subseteq tags
      BY <2>1
    <2>3. Under(EAK, tags) = <<>> /\ Under(W, tags) = W
      BY <1>1, <1>5, <2>2, UnderPiece
    <2>4. Under(its, tags) = W
      BY <1>0, <1>9, <2>3, UnderRight
    <2> QED BY <2>1, <2>4
  <1> QED BY <1>6, <1>10, <1>11, <1>12, <1>13

PeerValid(p) ==
  /\ EndpointValid(p.endpoint)
  /\ \A k \in DOMAIN p.allowed : PrefixValid(p.allowed[k])
  /\ Len(p.psk) \in {0, PSKWrappedLen}

LEMMA PeerFields ==
  ASSUME NEW p \in PeerType, PeerValid(p)
  PROVE  LET E == <<endpointItem(p.endpoint)>>
             A == encodePrefixes(p.allowed, TagAIP4, TagAIP6)
             K == Optional(p.keepalive # 0, TagKeepalive, <<p.keepalive>>)
             W == Optional(p.psk # <<>>, TagPSKWrapped, p.psk)
         IN  /\ PeerPieces(peerItems(p), E, A, K, W)
             /\ PrefixPiece(A, GroupedPrefixes(p.allowed), 19, 20)
             /\ endpointFrom(endpointItem(p.endpoint)) = StoredEndpoint(p.endpoint)
             /\ peerItems(p) \in Seq(PeerItem)
  <1> DEFINE E == <<endpointItem(p.endpoint)>>
             A == encodePrefixes(p.allowed, TagAIP4, TagAIP6)
             K == Optional(p.keepalive # 0, TagKeepalive, <<p.keepalive>>)
             W == Optional(p.psk # <<>>, TagPSKWrapped, p.psk)
  <1>1. /\ p.endpoint \in EndpointType /\ p.allowed \in Seq(PrefixType)
        /\ p.keepalive \in Byte /\ p.psk \in Bytes
    BY DEF PeerType
  <1>2. TagAIP4 = 19 /\ TagAIP6 = 20 /\ TagKeepalive = 21 /\ TagPSKWrapped = 22
    BY DEF TagAIP4, TagAIP6, TagKeepalive, TagPSKWrapped
  <1>3. PrefixPiece(A, GroupedPrefixes(p.allowed), 19, 20)
    <2>1. PICK s \in Seq(PrefixType) : s = p.allowed
      BY <1>1
    <2>2. \A k \in DOMAIN s : PrefixValid(s[k])
      BY <2>1 DEF PeerValid
    <2>3. 19 \in 1..255 /\ 20 \in 1..255 /\ 19 < 20
      BY SMTT(40)
    <2>4. PrefixPiece(encodePrefixes(s, 19, 20), GroupedPrefixes(s), 19, 20)
      BY <2>2, <2>3, PrefixesEncoded, ZenonT(60)
    <2> QED BY <1>2, <2>1, <2>4
  <1>4. PICK it : /\ it = endpointItem(p.endpoint) /\ it \in PeerItem /\ it.tag \in 16..18
                  /\ endpointFrom(it) = StoredEndpoint(p.endpoint)
    <2>1. PICK e \in EndpointType : e = p.endpoint
      BY <1>1
    <2>2. EndpointValid(e)
      BY <2>1 DEF PeerValid
    <2>3. /\ endpointItem(e) \in PeerItem /\ endpointItem(e).tag \in 16..18
          /\ endpointFrom(endpointItem(e)) = StoredEndpoint(e)
      BY <2>2, EndpointEncoded
    <2> QED BY <2>1, <2>3
  <1>5. E \in Seq(PeerItem) /\ Between(E, 16, 18)
    <2>1. it \in Good
      BY <1>4 DEF PeerItem
    <2>2. E = <<it>>
      BY <1>4
    <2>3. Len(<<it>>) = 1 /\ <<it>>[1] = it /\ <<it>> \in Seq(Good) /\ <<it>> \in Seq(PeerItem)
      BY <1>4, <2>1
    <2>4. Between(<<it>>, 16, 18)
      BY <1>4, <2>3 DEF Between, Ascending
    <2> QED BY <2>2, <2>3, <2>4
  <1>6. /\ Between(K, 21, 21)
        /\ \A k \in 1..Len(K) : p.keepalive # 0 /\ K[k].tag = 21 /\ K[k].value = <<p.keepalive>>
    <2>1. PICK there \in BOOLEAN : there = (p.keepalive # 0)
      OBVIOUS
    <2>2. PICK v \in Bytes : v = <<p.keepalive>>
      <3>1. PICK n \in Byte : n = p.keepalive
        BY <1>1
      <3>2. <<n>> \in Bytes
        BY DEF Bytes
      <3> QED BY <3>1, <3>2
    <2>3. 21 \in 1..255
      OBVIOUS
    <2>4. OptionalPiece(Optional(there, 21, v), there, 21, v)
      BY <2>3, OptionalEncoded
    <2> QED BY <1>2, <2>1, <2>2, <2>4 DEF OptionalPiece
  <1>7. /\ Between(W, 22, 22)
        /\ \A k \in 1..Len(W) : p.psk # <<>> /\ W[k].tag = 22 /\ W[k].value = p.psk
    <2>1. PICK there \in BOOLEAN : there = (p.psk # <<>>)
      OBVIOUS
    <2>2. PICK v \in Bytes : v = p.psk
      BY <1>1
    <2>3. 22 \in 1..255
      OBVIOUS
    <2>4. OptionalPiece(Optional(there, 22, v), there, 22, v)
      BY <2>3, OptionalEncoded
    <2> QED BY <1>2, <2>1, <2>2, <2>4 DEF OptionalPiece
  <1>8. peerItems(p) = E \o A \o K \o W
    BY DEF peerItems
  <1> HIDE DEF E, A, K, W
  <1>9. Between(A, 19, 20)
    BY <1>3 DEF PrefixPiece
  <1>10. PeerPieces(peerItems(p), E, A, K, W)
    BY <1>5, <1>6, <1>7, <1>8, <1>9 DEF PeerPieces
  <1>11. ASSUME NEW S, NEW lo, NEW hi, Between(S, lo, hi),
                \A k \in 1..Len(S) : S[k] \in Good => PeerItemOK(S[k])
         PROVE  S \in Seq(PeerItem)
    <2>1. S \in Seq(Good)
      BY <1>11 DEF Between
    <2>2. DOMAIN S = 1..Len(S) /\ \A k \in 1..Len(S) : S[k] \in Good
      BY <2>1, ElementOfSeq
    <2>3. \A k \in DOMAIN S : S[k] \in PeerItem
      BY <1>11, <2>2 DEF PeerItem
    <2> QED BY <2>1, <2>3, ValidSeq
  <1>12. A \in Seq(PeerItem)
    <2>1. \A k \in 1..Len(A) : PrefixItem(A[k], 19, 20)
      BY <1>3 DEF PrefixPiece
    <2>2. \A k \in 1..Len(A) : A[k] \in Good => PeerItemOK(A[k])
      BY <2>1, PeerItems
    <2> QED BY <1>9, <1>11, <2>2
  <1>13. K \in Seq(PeerItem)
    <2>1. \A k \in 1..Len(K) : K[k].tag = 21 /\ Len(K[k].value) = 1 /\ K[k].value[1] # 0
      <3>1. PICK n, v : n = p.keepalive /\ v = <<n>>
        OBVIOUS
      <3>2. Len(v) = 1 /\ v[1] = n
        BY <3>1
      <3>3. \A k \in 1..Len(K) : n # 0 /\ K[k].tag = 21 /\ K[k].value = v
        BY <1>6, <3>1
      <3> QED BY <3>2, <3>3
    <2>2. \A k \in 1..Len(K) : K[k] \in Good => PeerItemOK(K[k])
      BY <2>1, PeerItems
    <2> QED BY <1>6, <1>11, <2>2
  <1>14. W \in Seq(PeerItem)
    <2>1. p.psk # <<>> => Len(p.psk) = PSKWrappedLen
      <3>1. p.psk \in Seq(Byte)
        BY <1>1 DEF Bytes
      <3>2. p.psk # <<>> => Len(p.psk) # 0
        BY <3>1, EmptySeq
      <3> QED BY <3>2 DEF PeerValid
    <2>2. \A k \in 1..Len(W) : W[k].tag = 22 /\ Len(W[k].value) = PSKWrappedLen
      BY <1>7, <2>1
    <2>3. \A k \in 1..Len(W) : W[k] \in Good => PeerItemOK(W[k])
      BY <2>2, PeerItems
    <2> QED BY <1>7, <1>11, <2>3
  <1>15. peerItems(p) \in Seq(PeerItem)
    BY <1>5, <1>8, <1>12, <1>13, <1>14, ConcatProperties
  <1> QED BY <1>3, <1>4, <1>10, <1>15 DEF E, A, K, W

GroupedPeer(p) ==
  [p EXCEPT !.allowed = GroupedPrefixes(@), !.endpoint = StoredEndpoint(@)]

LEMMA PeerExcept ==
  ASSUME NEW p \in PeerType
  PROVE  GroupedPeer(p) = [endpoint |-> StoredEndpoint(p.endpoint), allowed |-> GroupedPrefixes(p.allowed),
                           keepalive |-> p.keepalive, psk |-> p.psk]
  <1>1. PICK g, h : g = GroupedPrefixes(p.allowed) /\ h = StoredEndpoint(p.endpoint)
    OBVIOUS
  <1>2. GroupedPeer(p) = [p EXCEPT !.allowed = g, !.endpoint = h]
    BY <1>1 DEF GroupedPeer, PeerType
  <1>3. PICK k : k = [p EXCEPT !.allowed = g]
    OBVIOUS
  <1>4. k = [endpoint |-> p.endpoint, allowed |-> g, keepalive |-> p.keepalive, psk |-> p.psk]
    BY <1>3 DEF PeerType
  <1>5. [p EXCEPT !.allowed = g, !.endpoint = h] = [k EXCEPT !.endpoint = h]
    BY <1>3
  <1>6. [k EXCEPT !.endpoint = h] =
          [endpoint |-> h, allowed |-> g, keepalive |-> p.keepalive, psk |-> p.psk]
    BY <1>4
  <1> QED BY <1>1, <1>2, <1>5, <1>6

(* Peer.Encode and DecodePeer: what encoding does not refuse decodes to the
   settings, a hostname going before an address. *)
THEOREM PeerIsRead ==
  ASSUME NEW p \in PeerType, EncodePeer(p) # Refused
  PROVE  /\ EncodePeer(p) \in Bytes
         /\ Len(EncodePeer(p)) = Size
         /\ DecodePeer(EncodePeer(p)) = [ok |-> TRUE, val |-> GroupedPeer(p)]
  <1>1. PeerValid(p) /\ EncodePeer(p) = write(MagicPeer, peerItems(p))
    BY DEF EncodePeer, PeerValid, EndpointValid
  <1> DEFINE its == peerItems(p)
             it == endpointItem(p.endpoint)
             A == encodePrefixes(p.allowed, TagAIP4, TagAIP6)
             K == Optional(p.keepalive # 0, TagKeepalive, <<p.keepalive>>)
             W == Optional(p.psk # <<>>, TagPSKWrapped, p.psk)
             b == EncodePeer(p)
  <1>2. /\ PeerPieces(its, <<it>>, A, K, W)
        /\ PrefixPiece(A, GroupedPrefixes(p.allowed), 19, 20)
        /\ endpointFrom(it) = StoredEndpoint(p.endpoint)
        /\ its \in Seq(PeerItem)
    BY <1>1, PeerFields
  <1>3. /\ its \in Seq(Good) /\ Ascending(its)
        /\ Under(its, {16, 17, 18}) = <<it>> /\ Under(its, {19, 20}) = A
        /\ Under(its, {21}) = K /\ Under(its, {22}) = W
    <2> HIDE DEF its, it, A, K, W
    <2> QED BY <1>2, PeerUnder DEF Between
  <1>4. MagicPeer \in Byte
    BY DEF MagicPeer, Byte
  <1>5. b \in Bytes /\ Len(b) = Size /\ parse(b, MagicPeer) = [ok |-> TRUE, items |-> its]
    <2>1. write(MagicPeer, its) # Refused
      BY <1>1
    <2> HIDE DEF its
    <2>2. /\ write(MagicPeer, its) \in Bytes
          /\ Len(write(MagicPeer, its)) = Size
          /\ parse(write(MagicPeer, its), MagicPeer) = [ok |-> TRUE, items |-> its]
      BY <1>3, <1>4, <2>1, ParseWritten
    <2> QED BY <1>1, <2>2 DEF its
  <1>6. /\ TagEndpoint4 = 16 /\ TagEndpoint6 = 17 /\ TagEndpointHost = 18
        /\ TagAIP4 = 19 /\ TagAIP6 = 20 /\ TagKeepalive = 21 /\ TagPSKWrapped = 22
    BY DEF TagEndpoint4, TagEndpoint6, TagEndpointHost, TagAIP4, TagAIP6, TagKeepalive, TagPSKWrapped
  <1>7. \A k \in DOMAIN its : PeerItemOK(its[k])
    <2> HIDE DEF its
    <2>1. DOMAIN its = 1..Len(its) /\ \A k \in 1..Len(its) : its[k] \in PeerItem
      BY <1>2, ElementOfSeq
    <2> QED BY <2>1 DEF PeerItem
  <1>8. /\ Single(its, TagKeepalive, <<0>>) = IF p.keepalive # 0 THEN <<p.keepalive>> ELSE <<0>>
        /\ Single(its, TagPSKWrapped, <<>>) = IF p.psk # <<>> THEN p.psk ELSE <<>>
        /\ once(its, TagKeepalive) /\ once(its, TagPSKWrapped)
    <2>1. Under(its, {TagKeepalive}) = K /\ Under(its, {TagPSKWrapped}) = W
      BY <1>3, <1>6
    <2> HIDE DEF its
    <2>2. PICK m \in BOOLEAN, c \in BOOLEAN : m = (p.keepalive # 0) /\ c = (p.psk # <<>>)
      OBVIOUS
    <2>3. /\ Under(its, {TagKeepalive}) = Optional(m, TagKeepalive, <<p.keepalive>>)
          /\ Under(its, {TagPSKWrapped}) = Optional(c, TagPSKWrapped, p.psk)
      BY <2>1, <2>2
    <2>4. /\ Single(its, TagKeepalive, <<0>>) = IF m THEN <<p.keepalive>> ELSE <<0>>
          /\ once(its, TagKeepalive)
      BY <2>3, SingleOptional
    <2>5. Single(its, TagPSKWrapped, <<>>) = (IF c THEN p.psk ELSE <<>>) /\ once(its, TagPSKWrapped)
      BY <2>3, SingleOptional
    <2> QED BY <2>2, <2>4, <2>5
  <1>9. Single(its, TagKeepalive, <<0>>)[1] = p.keepalive /\ Single(its, TagPSKWrapped, <<>>) = p.psk
    <2> HIDE DEF its
    <2> QED BY <1>8
  <1>10. PrefixesUnder(its, {TagAIP4, TagAIP6}) = GroupedPrefixes(p.allowed)
    <2>1. ValuesUnder(its, {TagAIP4, TagAIP6}) = [k \in DOMAIN A |-> A[k].value]
      <3> HIDE DEF its, A
      <3> QED BY <1>3, <1>6 DEF ValuesUnder
    <2>2. PrefixesUnder(its, {TagAIP4, TagAIP6}) = [k \in DOMAIN A |-> prefixFrom(A[k].value)]
      <3> HIDE DEF its, A
      <3> QED BY <2>1 DEF PrefixesUnder
    <2> HIDE DEF its, A
    <2> QED BY <1>2, <2>2 DEF PrefixPiece
  <1> HIDE DEF its, it, A, K, W, b
  <1>11. PICK ends : ends = Under(its, {TagEndpoint4, TagEndpoint6, TagEndpointHost})
    OBVIOUS
  <1>12. Len(ends) = 1 /\ ends[1] = it
    <2>1. ends = <<it>>
      BY <1>3, <1>6, <1>11
    <2> QED BY <2>1
  <1>13. DecodePeer(b) = [ok |-> TRUE, val |-> GroupedPeer(p)]
    <2>1. PICK q : q = parse(b, MagicPeer)
      OBVIOUS
    <2>2. q.ok = TRUE /\ q.items = its
      BY <1>5, <2>1
    <2>3. \A tag \in {TagKeepalive, TagPSKWrapped} : once(its, tag)
      BY <1>8
    <2>4. GroupedPeer(p) = [endpoint |-> endpointFrom(it), allowed |-> GroupedPrefixes(p.allowed),
                            keepalive |-> p.keepalive, psk |-> p.psk]
      BY <1>2, PeerExcept
    <2> QED BY <1>7, <1>9, <1>10, <1>11, <1>12, <2>1, <2>2, <2>3, <2>4 DEF DecodePeer
  <1> QED BY <1>5, <1>13 DEF b

-----------------------------------------------------------------------------
(* Reading first: what was decoded is encoded to the same bytes. *)

LEMMA ItemIs ==
  ASSUME NEW it \in Good, NEW tag, it.tag = tag
  PROVE  it.value \in Bytes /\ it = Item(tag, it.value)
  BY DEF Good, ItemType, Item

(* An address list read from well-formed items is valid and has those items. *)
LEMMA PrefixReencoded ==
  ASSUME NEW it \in Good, NEW t4, NEW t6, t4 # t6, PrefixItem(it, t4, t6)
  PROVE  LET p == prefixFrom(it.value)
         IN  /\ PrefixValid(p)
             /\ Item(IF Is4(p.addr) THEN t4 ELSE t6, Append(p.addr, p.bits)) = it
  <1>1. PICK v \in Seq(Byte) : v = it.value
    BY DEF Good, ItemType, Bytes
  <1>2. Len4 \in Nat /\ Len6 \in Nat /\ Len4 # Len6 /\ Bits4 \in Nat /\ Bits6 \in Nat
    BY LengthsApart, FieldLengths DEF Byte
  <1>3. PICK n \in Nat, most \in Nat, t \in {t4, t6} :
          /\ Len(v) = n + 1 /\ v[n + 1] <= most /\ it.tag = t
          /\ \/ n = Len4 /\ most = Bits4 /\ t = t4
             \/ n = Len6 /\ most = Bits6 /\ t = t6
    BY <1>1, <1>2 DEF PrefixItem
  <1>4. PICK e \in Byte : e = v[n + 1]
    <2>1. n + 1 \in 1..Len(v)
      BY <1>3
    <2> QED BY <2>1, ElementOfSeq
  <1>5. PICK a \in Seq(Byte) : a = SubSeq(v, 1, n) /\ Len(a) = n /\ \A k \in 1..n : a[k] = v[k]
    <2>1. PICK lo \in Int, hi \in Int : lo = 1 /\ hi = n
      OBVIOUS
    <2>2. \A k \in lo..hi : v[k] \in Byte
      <3>1. \A k \in lo..hi : k \in 1..Len(v)
        BY <1>3, <2>1
      <3> QED BY <3>1, ElementOfSeq
    <2>3. /\ SubSeq(v, lo, hi) \in Seq(Byte)
          /\ Len(SubSeq(v, lo, hi)) = IF lo <= hi THEN hi - lo + 1 ELSE 0
          /\ \A i \in 1..hi - lo + 1 : SubSeq(v, lo, hi)[i] = v[lo + i - 1]
      BY <2>2, SubSeqProperties
    <2>4. PICK u \in Seq(Byte) : u = SubSeq(v, lo, hi)
      BY <2>3
    <2>5. Len(u) = n
      <3>1. Len(u) = IF lo <= hi THEN hi - lo + 1 ELSE 0
        BY <2>3, <2>4
      <3> QED BY <2>1, <3>1
    <2>6. \A k \in 1..n : u[k] = v[k]
      <3> TAKE k \in 1..n
      <3>1. k \in 1..hi - lo + 1 /\ lo + k - 1 = k
        BY <2>1
      <3>2. u[k] = v[lo + k - 1]
        BY <2>3, <2>4, <3>1
      <3> QED BY <3>1, <3>2
    <2> QED BY <2>1, <2>4, <2>5, <2>6
  <1>6. Append(a, e) = v
    <2>1. /\ Append(a, e) \in Seq(Byte) /\ Len(Append(a, e)) = Len(a) + 1
          /\ \A k \in 1..Len(a) : Append(a, e)[k] = a[k]
          /\ Append(a, e)[Len(a) + 1] = e
      BY AppendProperties
    <2>2. PICK w \in Seq(Byte) : w = Append(a, e)
      BY <2>1
    <2>3. Len(w) = n + 1 /\ w[n + 1] = e /\ \A k \in 1..n : w[k] = v[k]
      BY <1>5, <2>1, <2>2
    <2>4. ASSUME NEW k \in 1..n + 1 PROVE w[k] = v[k]
      <3>1. CASE k = n + 1
        BY <1>4, <2>3, <3>1
      <3>2. CASE k # n + 1
        <4>1. k \in 1..n
          BY <3>2
        <4> QED BY <2>3, <4>1
      <3> QED BY <3>1, <3>2
    <2>5. w = v
      BY <1>3, <2>3, <2>4, SeqEqual
    <2> QED BY <2>2, <2>5
  <1>7. PICK p : p = prefixFrom(it.value)
    OBVIOUS
  <1>8. p.addr = a /\ p.bits = e
    <2>1. Len(v) - 1 = n /\ Len(v) = n + 1
      BY <1>3
    <2> QED BY <1>1, <1>4, <1>5, <1>7, <2>1 DEF prefixFrom
  <1>9. e \in 0..most
    <2>1. e <= most
      BY <1>3, <1>4, Zenon
    <2>2. e \in Nat
      BY DEF Byte
    <2> QED BY <2>1, <2>2
  <1>10. (Is4(a) => n = Len4) /\ (~Is4(a) => n = Len6)
    BY <1>3, <1>5 DEF Is4
  <1>11. PrefixValid(p)
    <2>1. AddrValid(a)
      BY <1>3, <1>5 DEF AddrValid
    <2>2. most = IF Is4(a) THEN Bits4 ELSE Bits6
      BY <1>2, <1>3, <1>10
    <2> QED BY <1>8, <1>9, <2>1, <2>2 DEF PrefixValid
  <1>12. (IF Is4(p.addr) THEN t4 ELSE t6) = t
    BY <1>2, <1>3, <1>8, <1>10
  <1>13. Item(t, v) = it
    BY <1>1, <1>3, ItemIs
  <1>14. Append(p.addr, p.bits) = v
    BY <1>6, <1>8
  <1> QED BY <1>7, <1>11, <1>12, <1>13, <1>14

LEMMA PrefixItems ==
  ASSUME NEW t4, NEW t6, t4 # t6, NEW A \in Seq(Good), \A k \in 1..Len(A) : PrefixItem(A[k], t4, t6)
  PROVE  LET F == [k \in DOMAIN A |-> prefixFrom(A[k].value)]
         IN  /\ \A k \in DOMAIN F : PrefixValid(F[k])
             /\ encodePrefixes(F, t4, t6) = Under(A, {t4}) \o Under(A, {t6})
  <1> DEFINE F == [k \in DOMAIN A |-> prefixFrom(A[k].value)]
             items == [k \in DOMAIN F |->
                         Item(IF Is4(F[k].addr) THEN t4 ELSE t6, Append(F[k].addr, F[k].bits))]
  <1>2. DOMAIN A = 1..Len(A) /\ \A k \in 1..Len(A) : A[k] \in Good
    BY ElementOfSeq
  <1>3. DOMAIN F = DOMAIN A
    OBVIOUS
  <1>4. ASSUME NEW k \in DOMAIN A
        PROVE  /\ PrefixValid(F[k])
               /\ Item(IF Is4(F[k].addr) THEN t4 ELSE t6, Append(F[k].addr, F[k].bits)) = A[k]
    <2>1. PICK it \in Good : it = A[k] /\ PrefixItem(it, t4, t6)
      BY <1>2
    <2>2. PICK p : p = prefixFrom(it.value)
      OBVIOUS
    <2>3. /\ PrefixValid(p)
          /\ Item(IF Is4(p.addr) THEN t4 ELSE t6, Append(p.addr, p.bits)) = it
      BY <2>1, <2>2, PrefixReencoded
    <2>4. F[k] = p
      BY <2>1, <2>2
    <2> HIDE DEF F
    <2> QED BY <2>1, <2>3, <2>4
  <1>5. items = A
    <2> HIDE DEF F
    <2>1. DOMAIN items = DOMAIN A
      BY <1>3
    <2>2. \A k \in DOMAIN A : items[k] = A[k]
      BY <1>3, <1>4
    <2>3. items = [k \in DOMAIN A |-> A[k]]
      BY <1>3, <1>4
    <2>4. A = [k \in DOMAIN A |-> A[k]]
      OBVIOUS
    <2> QED BY <2>3, <2>4
  <1>6. encodePrefixes(F, t4, t6) = Under(items, {t4}) \o Under(items, {t6})
    BY DEF encodePrefixes
  <1> HIDE DEF F, items
  <1>8. encodePrefixes(F, t4, t6) = Under(A, {t4}) \o Under(A, {t6})
    BY <1>5, <1>6
  <1>9. \A k \in DOMAIN F : PrefixValid(F[k])
    BY <1>3, <1>4
  <1> QED BY <1>8, <1>9 DEF F

LEMMA PrefixesReencoded ==
  ASSUME NEW t4 \in Nat, NEW t6 \in Nat, t4 < t6, NEW s \in Seq(Good), Ascending(s),
         NEW A, A = Under(s, {t4, t6}), \A k \in 1..Len(A) : PrefixItem(A[k], t4, t6)
  PROVE  LET F == [k \in DOMAIN A |-> prefixFrom(A[k].value)]
         IN  /\ \A k \in DOMAIN F : PrefixValid(F[k])
             /\ encodePrefixes(F, t4, t6) = A
  <1>1. A \in Seq(Good) /\ t4 # t6
    BY UnderSeq
  <1>2. Under(A, {t4}) \o Under(A, {t6}) = A
    BY FamiliesReencoded
  <1>3. LET F == [k \in DOMAIN A |-> prefixFrom(A[k].value)]
        IN  /\ \A k \in DOMAIN F : PrefixValid(F[k])
            /\ encodePrefixes(F, t4, t6) = Under(A, {t4}) \o Under(A, {t6})
    BY <1>1, PrefixItems, Zenon
  <1> QED BY <1>2, <1>3, Zenon

LEMMA AddrsReencoded ==
  ASSUME NEW s \in Seq(Good), Ascending(s),
         NEW D, D = Under(s, {4, 5}), \A k \in 1..Len(D) : AddrItem(D[k], 4, 5)
  PROVE  LET F == [k \in DOMAIN D |-> D[k].value]
         IN  /\ \A k \in DOMAIN F : AddrValid(AsBytes(F[k]))
             /\ encodeDNS(F) = D
  <1> DEFINE F == [k \in DOMAIN D |-> D[k].value]
             items == [k \in DOMAIN F |-> Item(IF Is4(F[k]) THEN 4 ELSE 5, F[k])]
  <1>1. D \in Seq(Good)
    BY UnderSeq
  <1>2. DOMAIN D = 1..Len(D) /\ \A k \in 1..Len(D) : D[k] \in Good
    BY <1>1, ElementOfSeq
  <1>3. DOMAIN F = DOMAIN D
    OBVIOUS
  <1>4. ASSUME NEW k \in DOMAIN D
        PROVE  AddrValid(F[k]) /\ Item(IF Is4(F[k]) THEN 4 ELSE 5, F[k]) = D[k]
    <2>1. PICK it \in Good : it = D[k] /\ AddrItem(it, 4, 5)
      BY <1>2
    <2>2. PICK v : v = it.value
      OBVIOUS
    <2>3. Len4 # Len6
      BY LengthsApart
    <2>4. AddrValid(v) /\ it.tag = IF Is4(v) THEN 4 ELSE 5
      BY <2>1, <2>2, <2>3 DEF AddrItem, AddrValid, Is4
    <2>5. PICK t : t = IF Is4(v) THEN 4 ELSE 5
      OBVIOUS
    <2>6. it = Item(t, v)
      BY <2>2, <2>4, <2>5, ItemIs
    <2>7. F[k] = v
      BY <2>1, <2>2
    <2> HIDE DEF F
    <2> QED BY <2>1, <2>4, <2>5, <2>6, <2>7
  <1>5. items = D
    <2> HIDE DEF F
    <2> QED BY <1>1, <1>2, <1>3, <1>4
  <1>6. encodeDNS(F) = Under(items, {4}) \o Under(items, {5})
    <2>1. Bared(F) = F
      <3> HIDE DEF F
      <3>1. \A k \in DOMAIN F : AsBytes(F[k]) = F[k]
        BY <1>3, <1>4, AsBytesSame
      <3>2. F = [k \in DOMAIN F |-> F[k]]
        BY DEF F
      <3> QED BY <3>1, <3>2 DEF Bared
    <2>2. encodeDNS(F) = encodeBare(F)
      BY <2>1, EncodedBare
    <2> QED BY <2>2 DEF encodeBare, TagDNS4, TagDNS6
  <1>7. Under(D, {4}) \o Under(D, {5}) = D
    <2>1. PICK a \in Nat, c \in Nat : a = 4 /\ c = 5 /\ a < c
      OBVIOUS
    <2>2. Under(Under(s, {a, c}), {a}) \o Under(Under(s, {a, c}), {c}) = Under(s, {a, c})
      BY <2>1, FamiliesReencoded
    <2> QED BY <2>1, <2>2
  <1> HIDE DEF F, items
  <1>8. encodeDNS(F) = D
    BY <1>5, <1>6, <1>7
  <1>9. \A k \in DOMAIN F : AddrValid(AsBytes(F[k]))
    BY <1>3, <1>4, AsBytesSame
  <1> QED BY <1>8, <1>9 DEF F

(* One item at most under a tag. *)
LEMMA SingleRead ==
  ASSUME NEW X, X \subseteq Good, NEW items \in Seq(X), NEW tag, NEW absent, once(items, tag)
  PROVE  \/ Under(items, {tag}) = <<>> /\ Single(items, tag, absent) = absent
         \/ \E it \in X : /\ it.tag = tag /\ Under(items, {tag}) = <<it>>
                          /\ Single(items, tag, absent) = it.value
  <1>1. PICK u : u = Under(items, {tag})
    OBVIOUS
  <1>2. u \in Seq({x \in X : x.tag \in {tag}})
    BY <1>1, UnderTyped
  <1>3. PICK n \in Nat : n = Len(u) /\ DOMAIN u = 1..n
    BY <1>2
  <1>4. n = 0 \/ n = 1
    <2>1. Len(u) <= 1
      BY <1>1, Zenon DEF once
    <2>2. n <= 1
      BY <1>3, <2>1, Zenon
    <2> QED BY <2>2
  <1>5. PICK v : v = ValuesUnder(items, {tag})
    OBVIOUS
  <1>6. v = [k \in 1..n |-> u[k].value]
    BY <1>1, <1>3, <1>5 DEF ValuesUnder
  <1>7. Single(items, tag, absent) = IF v = <<>> THEN absent ELSE v[Len(v)]
    BY <1>5 DEF Single
  <1>8. CASE n = 0
    <2>1. u = <<>>
      BY <1>2, <1>3, <1>8, EmptySeq
    <2>2. v = <<>>
      BY <1>6, <1>8
    <2> QED BY <1>1, <1>7, <2>1, <2>2
  <1>9. CASE n = 1
    <2>1. PICK it \in X : it = u[1] /\ it.tag = tag
      <3>1. 1 \in 1..Len(u)
        BY <1>3, <1>9
      <3>2. u[1] \in {x \in X : x.tag \in {tag}}
        BY <1>2, <3>1, ElementOfSeq
      <3> QED BY <3>2
    <2>2. u = <<it>>
      <3>1. u \in Seq(X) /\ <<it>> \in Seq(X) /\ Len(<<it>>) = 1 /\ <<it>>[1] = it
        BY <1>1, UnderSeq
      <3>2. \A k \in 1..Len(u) : u[k] = <<it>>[k]
        BY <1>3, <1>9, <2>1, <3>1
      <3>3. Len(u) = Len(<<it>>)
        BY <1>3, <1>9, <3>1
      <3> QED BY <3>1, <3>2, <3>3, SeqEqual
    <2>3. Len(v) = 1 /\ v[1] = it.value /\ v # <<>>
      BY <1>6, <1>9, <2>1
    <2>4. Single(items, tag, absent) = it.value
      BY <1>7, <2>3
    <2> QED BY <1>1, <2>1, <2>2, <2>4
  <1> QED BY <1>4, <1>8, <1>9

(* Tags below others; what comes under some. *)
Apart(low, high, both) ==
  /\ low \subseteq Nat /\ high \subseteq Nat
  /\ \A a \in low, c \in high : a < c
  /\ both = low \cup high
Gathers(s, tags, u) == u = Under(s, tags)

(* Under any tags that are met, in ascending groups. *)
LEMMA SplitAt ==
  ASSUME NEW low, NEW high, NEW both, Apart(low, high, both), NEW s \in Seq(Good), Ascending(s),
         NEW u, NEW v, Gathers(s, low, u), Gathers(s, high, v)
  PROVE  Gathers(s, both, u \o v)
  <1>1. /\ low \in SUBSET Nat /\ high \in SUBSET Nat /\ (\A a \in low, c \in high : a < c)
        /\ both = low \cup high
    BY DEF Apart
  <1>2. Under(s, low \cup high) = Under(s, low) \o Under(s, high)
    BY <1>1, UnderSplit
  <1> QED BY <1>1, <1>2, Zenon DEF Gathers

(* An interface record's items, tag group by tag group. *)
InterfaceParts(its, A, M, D, R, P, C) ==
  /\ \A k \in 1..Len(its) : its[k].tag \in {1, 2, 3, 4, 5, 6, 7, 127}
  /\ Gathers(its, {1, 2}, A) /\ Gathers(its, {3}, M) /\ Gathers(its, {4, 5}, D)
  /\ Gathers(its, {6}, R) /\ Gathers(its, {7}, P) /\ Gathers(its, {127}, C)

LEMMA InterfaceSplit ==
  ASSUME NEW its \in Seq(Good), Ascending(its),
         NEW A, NEW M, NEW D, NEW R, NEW P, NEW C, InterfaceParts(its, A, M, D, R, P, C)
  PROVE  its = A \o M \o D \o R \o P \o C
  <1>0. /\ \A k \in 1..Len(its) : its[k].tag \in {1, 2, 3, 4, 5, 6, 7, 127}
        /\ Gathers(its, {1, 2}, A) /\ Gathers(its, {3}, M) /\ Gathers(its, {4, 5}, D)
        /\ Gathers(its, {6}, R) /\ Gathers(its, {7}, P) /\ Gathers(its, {127}, C)
    BY DEF InterfaceParts
  <1>1. Gathers(its, {1, 2, 3}, A \o M)
    <2>1. Apart({1, 2}, {3}, {1, 2, 3})
      BY DEF Apart
    <2> QED BY <1>0, <2>1, SplitAt
  <1>2. Gathers(its, {1, 2, 3, 4, 5}, A \o M \o D)
    <2>1. Apart({1, 2, 3}, {4, 5}, {1, 2, 3, 4, 5})
      BY DEF Apart
    <2> QED BY <1>0, <1>1, <2>1, SplitAt
  <1>3. Gathers(its, {1, 2, 3, 4, 5, 6}, A \o M \o D \o R)
    <2>1. Apart({1, 2, 3, 4, 5}, {6}, {1, 2, 3, 4, 5, 6})
      BY DEF Apart
    <2> QED BY <1>0, <1>2, <2>1, SplitAt
  <1>4. Gathers(its, {1, 2, 3, 4, 5, 6, 7}, A \o M \o D \o R \o P)
    <2>1. Apart({1, 2, 3, 4, 5, 6}, {7}, {1, 2, 3, 4, 5, 6, 7})
      BY DEF Apart
    <2> QED BY <1>0, <1>3, <2>1, SplitAt
  <1>5. Gathers(its, {1, 2, 3, 4, 5, 6, 7, 127}, A \o M \o D \o R \o P \o C)
    <2>1. Apart({1, 2, 3, 4, 5, 6, 7}, {127}, {1, 2, 3, 4, 5, 6, 7, 127})
      BY DEF Apart
    <2> QED BY <1>0, <1>4, <2>1, SplitAt
  <1>6. Under(its, {1, 2, 3, 4, 5, 6, 7, 127}) = its
    BY <1>0, UnderAll
  <1> QED BY <1>0, <1>5, <1>6, Zenon DEF Gathers

(* What each item accepted by the decoder holds. *)
LEMMA InterfaceItemsRead ==
  ASSUME NEW it \in InterfaceItem
  PROVE  /\ it.tag \in {1, 2, 3, 4, 5, 6, 7, 127}
         /\ it.tag \in {1, 2} => PrefixItem(it, 1, 2)
         /\ it.tag \in {4, 5} => AddrItem(it, 4, 5)
         /\ it.tag \in {3, 7} => Len(it.value) = 2 /\ Uint16(it.value) # 0
         /\ it.tag = 6 => Len(it.value) = RefLen
         /\ it.tag = 127 => Len(it.value) = MACLen
  BY DEF InterfaceItem, PrefixItem, AddrItem, InterfaceItemOK, TagADDR4, TagADDR6, TagMTU, TagDNS4,
         TagDNS6, TagPeerRef, TagListenPort, TagMAC

(* A number of sixteen bits, read and written again. *)
LEMMA WordReencoded ==
  ASSUME NEW items \in Seq(InterfaceItem), NEW tag \in {3, 7}, once(items, tag)
  PROVE  LET v == Uint16(Single(items, tag, <<0, 0>>))
         IN  Optional(v # 0, tag, be16(v)) = Under(items, {tag})
  <1>1. InterfaceItem \subseteq Good
    BY DEF InterfaceItem
  <1>2. PICK w : w = Single(items, tag, <<0, 0>>)
    OBVIOUS
  <1>3. \/ Under(items, {tag}) = <<>> /\ w = <<0, 0>>
        \/ \E it \in InterfaceItem : it.tag = tag /\ Under(items, {tag}) = <<it>> /\ w = it.value
    BY <1>1, <1>2, SingleRead
  <1>4. CASE Under(items, {tag}) = <<>> /\ w = <<0, 0>>
    <2>1. Uint16(w) = 0
      BY <1>4 DEF Uint16
    <2> QED BY <1>2, <1>4, <2>1 DEF Optional
  <1>5. CASE \E it \in InterfaceItem : it.tag = tag /\ Under(items, {tag}) = <<it>> /\ w = it.value
    <2>1. PICK it \in InterfaceItem : it.tag = tag /\ Under(items, {tag}) = <<it>> /\ w = it.value
      BY <1>5
    <2>2. Len(w) = 2 /\ Uint16(w) # 0
      BY <2>1, InterfaceItemsRead
    <2>3. w \in Bytes /\ it = Item(tag, w)
      BY <1>1, <2>1, ItemIs
    <2>4. be16(Uint16(w)) = w
      BY <2>2, <2>3, BytesWord
    <2>5. PICK v : v = Uint16(w)
      OBVIOUS
    <2>6. Optional(v # 0, tag, be16(v)) = <<it>>
      BY <2>2, <2>3, <2>4, <2>5 DEF Optional
    <2> QED BY <1>2, <2>1, <2>5, <2>6
  <1> QED BY <1>3, <1>4, <1>5

(* An interface record any tool wrote, when DecodeInterface accepts it, is the
   one Interface.Encode makes of what was read. *)
THEOREM InterfaceOnce ==
  ASSUME NEW b \in Bytes, Len(b) = Size, DecodeInterface(b).ok
  PROVE  EncodeInterface(DecodeInterface(b).val) = b
  <1>1. PICK p : p = parse(b, MagicInterface)
    OBVIOUS
  <1>2. PICK its : its = p.items
    OBVIOUS
  <1>3. PICK val : val = [addrs |-> PrefixesUnder(its, {TagADDR4, TagADDR6}),
                          mtu   |-> Uint16(Single(its, TagMTU, <<0, 0>>)),
                          dns   |-> ValuesUnder(its, {TagDNS4, TagDNS6}),
                          refs  |-> ValuesUnder(its, {TagPeerRef}),
                          port  |-> Uint16(Single(its, TagListenPort, <<0, 0>>)),
                          mac   |-> Single(its, TagMAC, <<>>)]
    OBVIOUS
  <1>4. /\ p.ok
        /\ \A k \in DOMAIN its : InterfaceItemOK(its[k])
        /\ \A tag \in {TagMTU, TagListenPort, TagMAC} : once(its, tag)
        /\ DecodeInterface(b).val = val
    BY <1>1, <1>2, <1>3 DEF DecodeInterface
  <1>5. MagicInterface \in Byte
    BY DEF MagicInterface, Byte
  <1>6. its \in Seq(Good) /\ Ascending(its) /\ write(MagicInterface, its) = b
    BY <1>1, <1>2, <1>4, <1>5, WriteParsed
  <1>7. its \in Seq(InterfaceItem)
    <2>1. DOMAIN its = 1..Len(its) /\ \A k \in 1..Len(its) : its[k] \in Good
      BY <1>6, ElementOfSeq
    <2>2. \A k \in DOMAIN its : its[k] \in InterfaceItem
      BY <1>4, <2>1 DEF InterfaceItem
    <2> QED BY <1>6, <2>2, ValidSeq
  <1>8. /\ TagADDR4 = 1 /\ TagADDR6 = 2 /\ TagMTU = 3 /\ TagDNS4 = 4 /\ TagDNS6 = 5
        /\ TagPeerRef = 6 /\ TagListenPort = 7 /\ TagMAC = 127
    BY DEF TagADDR4, TagADDR6, TagMTU, TagDNS4, TagDNS6, TagPeerRef, TagListenPort, TagMAC
  <1>9. PICK A, M, D, R, P, C :
          /\ A = Under(its, {1, 2}) /\ M = Under(its, {3}) /\ D = Under(its, {4, 5})
          /\ R = Under(its, {6}) /\ P = Under(its, {7}) /\ C = Under(its, {127})
    OBVIOUS
  <1>10. its = A \o M \o D \o R \o P \o C
    <2>1. \A k \in 1..Len(its) : its[k].tag \in {1, 2, 3, 4, 5, 6, 7, 127}
      BY <1>7, ElementOfSeq, InterfaceItemsRead
    <2>2. InterfaceParts(its, A, M, D, R, P, C)
      BY <1>9, <2>1, Zenon DEF Gathers, InterfaceParts
    <2> QED BY <1>6, <2>2, InterfaceSplit
  <1>11. ASSUME NEW tags, NEW u, u = Under(its, tags)
         PROVE  /\ u \in Seq(Good) /\ DOMAIN u = 1..Len(u)
                /\ \A k \in 1..Len(u) : u[k] \in InterfaceItem /\ u[k] \in Good /\ u[k].tag \in tags
    <2>1. u \in Seq({x \in InterfaceItem : x.tag \in tags}) /\ u \in Seq(Good)
      BY <1>6, <1>7, <1>11, UnderTyped, UnderSeq
    <2>2. \A k \in 1..Len(u) : u[k] \in {x \in InterfaceItem : x.tag \in tags} /\ u[k] \in Good
      BY <2>1, ElementOfSeq
    <2>3. DOMAIN u = 1..Len(u)
      BY <2>1
    <2> QED BY <2>1, <2>2, <2>3
  <1>12. /\ encodePrefixes(val.addrs, TagADDR4, TagADDR6) = A
         /\ \A k \in DOMAIN val.addrs : PrefixValid(val.addrs[k])
    <2>1. \A k \in 1..Len(A) : PrefixItem(A[k], 1, 2)
      BY <1>9, <1>11, InterfaceItemsRead, SMTT(40)
    <2>2. PICK F : F = [k \in DOMAIN A |-> prefixFrom(A[k].value)]
      OBVIOUS
    <2>3. PICK t4 \in Nat, t6 \in Nat : t4 = 1 /\ t6 = 2 /\ t4 < t6
      OBVIOUS
    <2>4. A = Under(its, {t4, t6}) /\ \A k \in 1..Len(A) : PrefixItem(A[k], t4, t6)
      BY <1>9, <2>1, <2>3
    <2>5. (\A k \in DOMAIN F : PrefixValid(F[k])) /\ encodePrefixes(F, t4, t6) = A
      BY <1>6, <2>2, <2>3, <2>4, PrefixesReencoded
    <2>6. val.addrs = F
      <3>1. ValuesUnder(its, {TagADDR4, TagADDR6}) = [k \in DOMAIN A |-> A[k].value]
        BY <1>8, <1>9 DEF ValuesUnder
      <3> QED BY <1>3, <2>2, <3>1 DEF PrefixesUnder
    <2> QED BY <1>8, <2>3, <2>5, <2>6
  <1>13. encodeDNS(val.dns) = D /\ \A k \in DOMAIN val.dns : AddrValid(AsBytes(val.dns[k]))
    <2>1. \A k \in 1..Len(D) : AddrItem(D[k], 4, 5)
      BY <1>9, <1>11, InterfaceItemsRead
    <2>2. PICK F : F = [k \in DOMAIN D |-> D[k].value]
      OBVIOUS
    <2>3. (\A k \in DOMAIN F : AddrValid(AsBytes(F[k]))) /\ encodeDNS(F) = D
      BY <1>6, <1>9, <2>1, <2>2, AddrsReencoded
    <2>4. val.dns = F
      BY <1>3, <1>8, <1>9, <2>2 DEF ValuesUnder
    <2> QED BY <2>3, <2>4
  <1>14. [k \in DOMAIN val.refs |-> Item(TagPeerRef, val.refs[k])] = R
    <2>1. R \in Seq(Good) /\ \A k \in DOMAIN R : R[k] \in Good /\ R[k].tag = 6
      <3>1. PICK tags : tags = {6}
        OBVIOUS
      <3>2. R = Under(its, tags)
        BY <1>9, <3>1
      <3>3. /\ R \in Seq(Good) /\ DOMAIN R = 1..Len(R)
            /\ \A k \in 1..Len(R) : R[k] \in InterfaceItem /\ R[k] \in Good /\ R[k].tag \in tags
        BY <1>11, <3>2
      <3> QED BY <3>1, <3>3
    <2>2. val.refs = [k \in DOMAIN R |-> R[k].value]
      BY <1>3, <1>8, <1>9 DEF ValuesUnder
    <2>3. DOMAIN val.refs = DOMAIN R
      BY <2>2
    <2>4. \A k \in DOMAIN R : Item(6, R[k].value) = R[k]
      BY <2>1, ItemIs
    <2>5. [k \in DOMAIN val.refs |-> Item(TagPeerRef, val.refs[k])] = [k \in DOMAIN R |-> R[k]]
      BY <1>8, <2>2, <2>3, <2>4
    <2>6. R = [k \in DOMAIN R |-> R[k]]
      BY <2>1
    <2> QED BY <2>5, <2>6
  <1>15. Optional(val.mtu # 0, TagMTU, be16(val.mtu)) = M
    <2>1. val.mtu = Uint16(Single(its, 3, <<0, 0>>)) /\ once(its, 3)
      BY <1>3, <1>4, <1>8
    <2> QED BY <1>7, <1>8, <1>9, <2>1, WordReencoded
  <1>16. Optional(val.port # 0, TagListenPort, be16(val.port)) = P
    <2>1. val.port = Uint16(Single(its, 7, <<0, 0>>)) /\ once(its, 7)
      BY <1>3, <1>4, <1>8
    <2> QED BY <1>7, <1>8, <1>9, <2>1, WordReencoded
  <1>17. Optional(val.mac # <<>>, TagMAC, val.mac) = C
    <2>1. PICK w : w = val.mac /\ w = Single(its, 127, <<>>) /\ once(its, 127)
      BY <1>3, <1>4, <1>8
    <2>2. InterfaceItem \subseteq Good
      BY DEF InterfaceItem
    <2>3. \/ Under(its, {127}) = <<>> /\ w = <<>>
          \/ \E it \in InterfaceItem : it.tag = 127 /\ Under(its, {127}) = <<it>> /\ w = it.value
      BY <1>7, <2>1, <2>2, SingleRead
    <2>4. CASE Under(its, {127}) = <<>> /\ w = <<>>
      BY <1>9, <2>1, <2>4 DEF Optional
    <2>5. CASE \E it \in InterfaceItem : it.tag = 127 /\ Under(its, {127}) = <<it>> /\ w = it.value
      <3>1. PICK it \in InterfaceItem : it.tag = 127 /\ Under(its, {127}) = <<it>> /\ w = it.value
        BY <2>5
      <3>2. Len(w) = MACLen /\ MACLen # 0
        BY <3>1, InterfaceItemsRead, FieldLengths
      <3>3. w # <<>>
        BY <3>2
      <3>4. it = Item(127, w)
        BY <2>2, <3>1, ItemIs, SMTT(40)
      <3> QED BY <1>8, <1>9, <2>1, <3>1, <3>3, <3>4, ZenonT(60) DEF Optional
    <2> QED BY <2>3, <2>4, <2>5
  <1>18. interfaceItems(val) = its
    BY <1>10, <1>12, <1>13, <1>14, <1>15, <1>16, <1>17 DEF interfaceItems
  <1>19. EncodeInterface(val) = write(MagicInterface, interfaceItems(val))
    BY <1>12, <1>13 DEF EncodeInterface
  <1> QED BY <1>4, <1>6, <1>18, <1>19

-----------------------------------------------------------------------------
(* The peer record, read and written again. *)

Long(s, n) == n = Len(s)

LEMMA JoinedIs ==
  ASSUME NEW S, NEW v \in Seq(S), NEW a \in Seq(S), NEW c \in Seq(S), NEW m \in Nat, NEW n \in Nat,
         Long(a, m), Long(c, n), Joined(v, a, c, m, n)
  PROVE  a \o c = v
  <1>1. PICK w \in Seq(S) : w = a \o c /\ Joined(w, a, c, m, n)
    BY Join DEF Long
  <1>2. /\ Len(w) = m + n /\ Len(v) = m + n
        /\ \A k \in 1..m : w[k] = v[k]
        /\ \A k \in 1..n : w[m + k] = v[m + k]
    BY <1>1 DEF Joined
  <1>3. ASSUME NEW k \in 1..m + n PROVE w[k] = v[k]
    <2>1. CASE k <= m
      BY <1>2, <2>1
    <2>2. CASE k > m
      <3>1. PICK j \in 1..n : k = m + j
        <4>1. k - m \in 1..n /\ k = m + (k - m)
          BY <2>2
        <4> QED BY <4>1
      <3> QED BY <1>2, <3>1
    <2> QED BY <2>1, <2>2
  <1>4. w = v
    BY <1>2, <1>3, SeqEqual
  <1> QED BY <1>1, <1>4

Halved(v, m, n, a, c) ==
  /\ a = SubSeq(v, 1, m) /\ Len(a) = m /\ \A k \in 1..m : a[k] = v[k]
  /\ c = SubSeq(v, m + 1, m + n) /\ Len(c) = n
  /\ a \o c = v

LEMMA Halving ==
  ASSUME NEW S, NEW v \in Seq(S), NEW m \in Nat, NEW n \in Nat, Len(v) = m + n
  PROVE  \E a \in Seq(S), c \in Seq(S) : Halved(v, m, n, a, c)
  <1>1. PICK zero \in Nat : zero = 0
    OBVIOUS
  <1>2. zero + m <= Len(v) /\ m + n <= Len(v)
    BY <1>1
  <1>3. PICK a \in Seq(S) : Slices(a, v, zero, m)
    BY <1>2, Sliced
  <1>4. PICK c \in Seq(S) : Slices(c, v, m, n)
    BY <1>2, Sliced
  <1>5. a = SubSeq(v, 1, m) /\ Len(a) = m /\ \A k \in 1..m : a[k] = v[k]
    BY <1>1, <1>3 DEF Slices
  <1>6. c = SubSeq(v, m + 1, m + n) /\ Len(c) = n /\ \A k \in 1..n : c[k] = v[m + k]
    BY <1>4 DEF Slices
  <1>7. a \o c = v
    <2>1. Joined(v, a, c, m, n) /\ Long(a, m) /\ Long(c, n)
      BY <1>5, <1>6 DEF Joined, Long
    <2> QED BY <2>1, JoinedIs, SMTT(40)
  <1> QED BY <1>5, <1>6, <1>7 DEF Halved

(* What each item accepted by the decoder holds. *)
LEMMA PeerItemsRead ==
  ASSUME NEW it \in PeerItem
  PROVE  /\ it.tag \in {16, 17, 18, 19, 20, 21, 22}
         /\ it.tag = 16 => Len(it.value) = Len4 + 2
         /\ it.tag = 17 => Len(it.value) = Len6 + 2
         /\ it.tag = 18 => Len(it.value) \in 3..(2 + MaxHostname)
         /\ it.tag \in {19, 20} => PrefixItem(it, 19, 20)
         /\ it.tag = 21 => Len(it.value) = 1 /\ it.value[1] # 0
         /\ it.tag = 22 => Len(it.value) = PSKWrappedLen
  BY DEF PeerItem, PrefixItem, PeerItemOK, TagEndpoint4, TagEndpoint6, TagEndpointHost, TagAIP4,
         TagAIP6, TagKeepalive, TagPSKWrapped

LEMMA EndpointReencoded ==
  ASSUME NEW it \in PeerItem, it.tag \in {16, 17, 18}
  PROVE  LET e == endpointFrom(it)
         IN  e \in EndpointType /\ EndpointValid(e) /\ endpointItem(e) = it
  <1>1. it \in Good
    BY DEF PeerItem
  <1>2. PICK v \in Seq(Byte) : v = it.value
    BY <1>1 DEF Good, ItemType, Bytes
  <1>3. TagEndpoint4 = 16 /\ TagEndpoint6 = 17 /\ TagEndpointHost = 18
    BY DEF TagEndpoint4, TagEndpoint6, TagEndpointHost
  <1>4. MaxHostname \in Int
    BY FieldLengths, LengthsApart DEF MaxHostname, headerLen
  <1>5. PICK e : e = endpointFrom(it)
    OBVIOUS
  <1>6. CASE it.tag = 18
    <2>1. PICK n \in Nat : n > 0 /\ n <= MaxHostname /\ Len(v) = 2 + n
      <3>1. Len(v) \in 3..(2 + MaxHostname)
        BY <1>2, <1>6, PeerItemsRead
      <3>2. Len(v) - 2 \in Nat /\ Len(v) - 2 > 0 /\ Len(v) - 2 <= MaxHostname /\ Len(v) = 2 + (Len(v) - 2)
        BY <1>4, <3>1
      <3> QED BY <3>2
    <2>3. PICK a \in Seq(Byte), h \in Seq(Byte) : Halved(v, 2, n, a, h)
      <3>1. PICK two \in Nat : two = 2
        OBVIOUS
      <3>2. Len(v) = two + n
        BY <2>1, <3>1
      <3>3. \E a \in Seq(Byte), h \in Seq(Byte) : Halved(v, two, n, a, h)
        BY <3>2, Halving
      <3> QED BY <3>1, <3>3
    <2>4. /\ Len(a) = 2 /\ a[1] = v[1] /\ a[2] = v[2]
          /\ h = SubSeq(v, 2 + 1, 2 + n) /\ Len(h) = n
      BY <2>3 DEF Halved
    <2>5. a \o h = v
      BY <2>3 DEF Halved
    <2>6. Uint16(v) = Uint16(a)
      BY <2>4 DEF Uint16
    <2>7. PICK p : p = Uint16(a)
      OBVIOUS
    <2>8. p \in Uint16s /\ be16(p) = a
      BY <2>4, <2>7, BytesWord DEF Bytes
    <2>9. e = [ip |-> <<>>, host |-> h, port |-> p]
      <3>1. 2 + 1 = 3 /\ 2 + n = Len(v)
        BY <2>1
      <3> QED BY <1>2, <1>3, <1>5, <1>6, <2>4, <2>6, <2>7, <3>1 DEF endpointFrom
    <2>10. h # <<>>
      BY <2>1, <2>4
    <2>11. e \in EndpointType
      <3>1. h \in Bytes /\ <<>> \in Bytes
        BY DEF Bytes
      <3> QED BY <2>8, <2>9, <3>1 DEF EndpointType
    <2>12. EndpointValid(e)
      BY <2>1, <2>4, <2>9, <2>10 DEF EndpointValid
    <2>13. endpointItem(e) = Item(18, v)
      BY <1>3, <2>5, <2>8, <2>9, <2>10 DEF endpointItem
    <2>14. it = Item(18, v)
      BY <1>1, <1>2, <1>6, ItemIs
    <2> QED BY <1>5, <2>11, <2>12, <2>13, <2>14, SMTT(40)
  <1>7. CASE it.tag \in {16, 17}
    <2>1. Len4 \in Nat /\ Len6 \in Nat /\ Len4 # Len6
      BY LengthsApart
    <2>2. PICK n \in Nat : /\ Len(v) = n + 2
                           /\ \/ it.tag = 16 /\ n = Len4
                              \/ it.tag = 17 /\ n = Len6
      BY <1>2, <1>7, <2>1, PeerItemsRead
    <2>4. PICK a \in Seq(Byte), h \in Seq(Byte) : Halved(v, n, 2, a, h)
      <3>1. PICK two \in Nat : two = 2
        OBVIOUS
      <3>2. Len(v) = n + two
        BY <2>2, <3>1
      <3>3. \E a \in Seq(Byte), h \in Seq(Byte) : Halved(v, n, two, a, h)
        BY <3>2, Halving
      <3> QED BY <3>1, <3>3
    <2>5. /\ a = SubSeq(v, 1, n) /\ Len(a) = n
          /\ h = SubSeq(v, n + 1, n + 2) /\ Len(h) = 2
      BY <2>4 DEF Halved
    <2>6. a \o h = v
      BY <2>4 DEF Halved
    <2>7. PICK p : p = Uint16(h)
      OBVIOUS
    <2>8. p \in Uint16s /\ be16(p) = h
      BY <2>5, <2>7, BytesWord DEF Bytes
    <2>9. e = [ip |-> a, host |-> <<>>, port |-> p]
      <3>1. n = Len(v) - 2 /\ n + 1 = Len(v) - 1 /\ n + 2 = Len(v)
        BY <2>2
      <3>2. it.tag # TagEndpointHost
        BY <1>3, <1>7
      <3> QED BY <1>2, <1>5, <2>5, <2>7, <3>1, <3>2 DEF endpointFrom
    <2>10. AddrValid(a)
      BY <2>2, <2>5 DEF AddrValid
    <2>11. PICK t : t = it.tag
      OBVIOUS
    <2>12. t = IF Is4(a) THEN 16 ELSE 17
      BY <2>1, <2>2, <2>5, <2>11 DEF Is4
    <2>13. e \in EndpointType
      <3>1. a \in Bytes /\ <<>> \in Bytes
        BY DEF Bytes
      <3> QED BY <2>8, <2>9, <3>1 DEF EndpointType
    <2>14. EndpointValid(e)
      <3>1. e.ip = a /\ e.host = <<>> /\ Len(<<>>) = 0
        BY <2>9
      <3> QED BY <2>10, <3>1, AsBytesSame, EndpointRoom DEF EndpointValid
    <2>15. endpointItem(e) = Item(t, v)
      <3>1. AsBytes(e.ip) = a /\ e.host = <<>> /\ e.port = p
        BY <2>9, <2>10, AsBytesSame
      <3>2. endpointItem(e) = Item(IF Is4(a) THEN TagEndpoint4 ELSE TagEndpoint6, a \o be16(p))
        BY <3>1, Zenon DEF endpointItem
      <3> QED BY <1>3, <2>6, <2>8, <2>12, <3>2
    <2>16. it = Item(t, v)
      BY <1>1, <1>2, <2>11, ItemIs
    <2> QED BY <1>5, <2>13, <2>14, <2>15, <2>16
  <1> QED BY <1>6, <1>7

(* PrefixesReencoded, for a list that is a part of a record. *)
AllPrefixes(A, t4, t6) == \A k \in 1..Len(A) : PrefixItem(A[k], t4, t6)
Reprefixed(A, t4, t6) ==
  LET F == [k \in DOMAIN A |-> prefixFrom(A[k].value)]
  IN  (\A k \in DOMAIN F : PrefixValid(F[k])) /\ encodePrefixes(F, t4, t6) = A

LEMMA PrefixesAgain ==
  ASSUME NEW t4 \in Nat, NEW t6 \in Nat, t4 < t6, NEW s \in Seq(Good), Ascending(s),
         NEW A, Gathers(s, {t4, t6}, A), AllPrefixes(A, t4, t6)
  PROVE  Reprefixed(A, t4, t6)
  <1>1. A = Under(s, {t4, t6})
    BY DEF Gathers
  <1>2. A \in Seq(Good) /\ t4 # t6
    BY <1>1, UnderSeq
  <1>3. Under(A, {t4}) \o Under(A, {t6}) = A
    BY <1>1, FamiliesReencoded
  <1>4. \A k \in 1..Len(A) : PrefixItem(A[k], t4, t6)
    BY DEF AllPrefixes
  <1>5. LET F == [k \in DOMAIN A |-> prefixFrom(A[k].value)]
        IN  /\ \A k \in DOMAIN F : PrefixValid(F[k])
            /\ encodePrefixes(F, t4, t6) = Under(A, {t4}) \o Under(A, {t6})
    BY <1>2, <1>4, PrefixItems
  <1> QED BY <1>3, <1>5, Zenon DEF Reprefixed

(* A peer record's items, tag group by tag group. *)
PeerParts(its, E, A, K, W) ==
  /\ \A k \in 1..Len(its) : its[k].tag \in {16, 17, 18, 19, 20, 21, 22}
  /\ Gathers(its, {16, 17, 18}, E) /\ Gathers(its, {19, 20}, A)
  /\ Gathers(its, {21}, K) /\ Gathers(its, {22}, W)

LEMMA PeerSplit ==
  ASSUME NEW its \in Seq(Good), Ascending(its),
         NEW E, NEW A, NEW K, NEW W, PeerParts(its, E, A, K, W)
  PROVE  its = E \o A \o K \o W
  <1>0. /\ \A k \in 1..Len(its) : its[k].tag \in {16, 17, 18, 19, 20, 21, 22}
        /\ Gathers(its, {16, 17, 18}, E) /\ Gathers(its, {19, 20}, A)
        /\ Gathers(its, {21}, K) /\ Gathers(its, {22}, W)
    BY DEF PeerParts
  <1>1. Gathers(its, {16, 17, 18, 19, 20}, E \o A)
    <2>1. Apart({16, 17, 18}, {19, 20}, {16, 17, 18, 19, 20})
      BY DEF Apart
    <2> QED BY <1>0, <2>1, SplitAt
  <1>2. Gathers(its, {16, 17, 18, 19, 20, 21}, E \o A \o K)
    <2>1. Apart({16, 17, 18, 19, 20}, {21}, {16, 17, 18, 19, 20, 21})
      BY DEF Apart
    <2> QED BY <1>0, <1>1, <2>1, SplitAt
  <1>3. Gathers(its, {16, 17, 18, 19, 20, 21, 22}, E \o A \o K \o W)
    <2>1. Apart({16, 17, 18, 19, 20, 21}, {22}, {16, 17, 18, 19, 20, 21, 22})
      BY DEF Apart
    <2> QED BY <1>0, <1>2, <2>1, SplitAt
  <1>4. Under(its, {16, 17, 18, 19, 20, 21, 22}) = its
    BY <1>0, UnderAll
  <1> QED BY <1>3, <1>4, Zenon DEF Gathers

(* A peer record any tool wrote, when DecodePeer accepts it, is the one
   EncodePeer makes of what was read. *)
THEOREM PeerOnce ==
  ASSUME NEW b \in Bytes, Len(b) = Size, DecodePeer(b).ok
  PROVE  EncodePeer(DecodePeer(b).val) = b
  <1>1. PICK p : p = parse(b, MagicPeer)
    OBVIOUS
  <1>2. PICK its : its = p.items
    OBVIOUS
  <1>3. PICK ends : ends = Under(its, {TagEndpoint4, TagEndpoint6, TagEndpointHost})
    OBVIOUS
  <1>4. PICK val : val = [endpoint  |-> endpointFrom(ends[1]),
                          allowed   |-> PrefixesUnder(its, {TagAIP4, TagAIP6}),
                          keepalive |-> Single(its, TagKeepalive, <<0>>)[1],
                          psk       |-> Single(its, TagPSKWrapped, <<>>)]
    OBVIOUS
  <1>5. /\ p.ok
        /\ \A k \in DOMAIN its : PeerItemOK(its[k])
        /\ \A tag \in {TagKeepalive, TagPSKWrapped} : once(its, tag)
        /\ Len(ends) = 1
        /\ DecodePeer(b).val = val
    BY <1>1, <1>2, <1>3, <1>4 DEF DecodePeer
  <1>6. MagicPeer \in Byte
    BY DEF MagicPeer, Byte
  <1>7. its \in Seq(Good) /\ Ascending(its) /\ write(MagicPeer, its) = b
    BY <1>1, <1>2, <1>5, <1>6, WriteParsed
  <1>8. its \in Seq(PeerItem)
    <2>1. DOMAIN its = 1..Len(its) /\ \A k \in 1..Len(its) : its[k] \in Good
      BY <1>7, ElementOfSeq
    <2>2. \A k \in DOMAIN its : its[k] \in PeerItem
      BY <1>5, <2>1 DEF PeerItem
    <2> QED BY <1>7, <2>2, ValidSeq
  <1>9. /\ TagEndpoint4 = 16 /\ TagEndpoint6 = 17 /\ TagEndpointHost = 18
        /\ TagAIP4 = 19 /\ TagAIP6 = 20 /\ TagKeepalive = 21 /\ TagPSKWrapped = 22
    BY DEF TagEndpoint4, TagEndpoint6, TagEndpointHost, TagAIP4, TagAIP6, TagKeepalive, TagPSKWrapped
  <1>10. PICK E, A, K, W :
           /\ E = Under(its, {16, 17, 18}) /\ A = Under(its, {19, 20})
           /\ K = Under(its, {21}) /\ W = Under(its, {22})
    OBVIOUS
  <1>11. its = E \o A \o K \o W
    <2>1. \A k \in 1..Len(its) : its[k].tag \in {16, 17, 18, 19, 20, 21, 22}
      BY <1>8, ElementOfSeq, PeerItemsRead
    <2>2. PeerParts(its, E, A, K, W)
      BY <1>10, <2>1, Zenon DEF Gathers, PeerParts
    <2> QED BY <1>7, <2>2, PeerSplit
  <1>12. ASSUME NEW tags, NEW u, u = Under(its, tags)
         PROVE  /\ u \in Seq(Good) /\ DOMAIN u = 1..Len(u)
                /\ \A k \in 1..Len(u) : u[k] \in PeerItem /\ u[k] \in Good /\ u[k].tag \in tags
    <2>1. u \in Seq({x \in PeerItem : x.tag \in tags}) /\ u \in Seq(Good)
      BY <1>7, <1>8, <1>12, UnderTyped, UnderSeq
    <2>2. \A k \in 1..Len(u) : u[k] \in {x \in PeerItem : x.tag \in tags} /\ u[k] \in Good
      BY <2>1, ElementOfSeq
    <2>3. DOMAIN u = 1..Len(u)
      BY <2>1
    <2> QED BY <2>1, <2>2, <2>3
  <1>13. EndpointValid(val.endpoint) /\ <<endpointItem(val.endpoint)>> = E
    <2>1. PICK tags : tags = {16, 17, 18}
      OBVIOUS
    <2>2. ends = Under(its, tags)
      BY <1>3, <1>9, <2>1
    <2>3. /\ ends \in Seq(Good) /\ DOMAIN ends = 1..Len(ends)
          /\ \A k \in 1..Len(ends) : ends[k] \in PeerItem /\ ends[k] \in Good /\ ends[k].tag \in tags
      BY <1>12, <2>2
    <2>4. PICK it \in PeerItem : it = ends[1] /\ it \in Good /\ it.tag \in tags
      <3>1. 1 \in 1..Len(ends)
        BY <1>5
      <3> QED BY <2>3, <3>1
    <2>5. ends = <<it>>
      <3>1. <<it>> \in Seq(Good) /\ Len(<<it>>) = 1 /\ <<it>>[1] = it
        BY <2>4
      <3>2. \A k \in 1..Len(ends) : ends[k] = <<it>>[k]
        BY <1>5, <2>4, <3>1
      <3>3. Len(ends) = Len(<<it>>)
        BY <1>5, <3>1
      <3> QED BY <2>3, <3>1, <3>2, <3>3, SeqEqual
    <2>6. it.tag \in {16, 17, 18}
      BY <2>1, <2>4
    <2>7. PICK e : e = endpointFrom(it)
      OBVIOUS
    <2>8. EndpointValid(e) /\ endpointItem(e) = it
      BY <2>6, <2>7, EndpointReencoded
    <2>9. val.endpoint = e
      BY <1>4, <2>4, <2>7
    <2>10. E = ends
      BY <1>10, <2>1, <2>2
    <2> QED BY <2>5, <2>8, <2>9, <2>10
  <1>14. /\ encodePrefixes(val.allowed, TagAIP4, TagAIP6) = A
         /\ \A k \in DOMAIN val.allowed : PrefixValid(val.allowed[k])
    <2>1. \A k \in 1..Len(A) : PrefixItem(A[k], 19, 20)
      BY <1>10, <1>12, PeerItemsRead, ZenonT(60)
    <2>2. PICK F : F = [k \in DOMAIN A |-> prefixFrom(A[k].value)]
      OBVIOUS
    <2>3. PICK t4 \in Nat, t6 \in Nat : t4 = 19 /\ t6 = 20 /\ t4 < t6
      OBVIOUS
    <2>4. A = Under(its, {t4, t6}) /\ \A k \in 1..Len(A) : PrefixItem(A[k], t4, t6)
      BY <1>10, <2>1, <2>3
    <2>5. (\A k \in DOMAIN F : PrefixValid(F[k])) /\ encodePrefixes(F, t4, t6) = A
      <3>1. t4 < t6
        BY <2>3
      <3>2. Gathers(its, {t4, t6}, A) /\ AllPrefixes(A, t4, t6)
        BY <2>4, Zenon DEF Gathers, AllPrefixes
      <3>3. Reprefixed(A, t4, t6)
        BY <1>7, <3>1, <3>2, PrefixesAgain
      <3> QED BY <2>2, <3>3, Zenon DEF Reprefixed
    <2>6. val.allowed = F
      <3>1. ValuesUnder(its, {TagAIP4, TagAIP6}) = [k \in DOMAIN A |-> A[k].value]
        BY <1>9, <1>10 DEF ValuesUnder
      <3> QED BY <1>4, <2>2, <3>1 DEF PrefixesUnder
    <2> QED BY <1>9, <2>3, <2>5, <2>6
  <1>15. PeerItem \subseteq Good
    BY DEF PeerItem
  <1>16. Optional(val.keepalive # 0, TagKeepalive, <<val.keepalive>>) = K
    <2>1. PICK w : w = Single(its, 21, <<0>>) /\ once(its, 21)
      BY <1>5, <1>9
    <2>2. \/ Under(its, {21}) = <<>> /\ w = <<0>>
          \/ \E it \in PeerItem : it.tag = 21 /\ Under(its, {21}) = <<it>> /\ w = it.value
      BY <1>8, <1>15, <2>1, SingleRead
    <2>3. val.keepalive = w[1]
      BY <1>4, <1>9, <2>1
    <2>4. CASE Under(its, {21}) = <<>> /\ w = <<0>>
      <3>1. val.keepalive = 0
        BY <2>3, <2>4
      <3> QED BY <1>10, <2>4, <3>1 DEF Optional
    <2>5. CASE \E it \in PeerItem : it.tag = 21 /\ Under(its, {21}) = <<it>> /\ w = it.value
      <3>1. PICK it \in PeerItem : it.tag = 21 /\ Under(its, {21}) = <<it>> /\ w = it.value
        BY <2>5
      <3>2. Len(w) = 1 /\ w[1] # 0
        BY <3>1, PeerItemsRead
      <3>3. w \in Bytes /\ it = Item(21, w)
        BY <1>15, <3>1, ItemIs
      <3>4. <<w[1]>> = w
        BY <3>2, <3>3 DEF Bytes
      <3>5. PICK k : k = val.keepalive /\ k # 0 /\ <<k>> = w
        BY <2>3, <3>2, <3>4
      <3> QED BY <1>9, <1>10, <3>1, <3>3, <3>5 DEF Optional
    <2> QED BY <2>2, <2>4, <2>5
  <1>17. Optional(val.psk # <<>>, TagPSKWrapped, val.psk) = W /\ Len(val.psk) \in {0, PSKWrappedLen}
    <2>1. PICK w : w = val.psk /\ w = Single(its, 22, <<>>) /\ once(its, 22)
      BY <1>4, <1>5, <1>9
    <2>2. \/ Under(its, {22}) = <<>> /\ w = <<>>
          \/ \E it \in PeerItem : it.tag = 22 /\ Under(its, {22}) = <<it>> /\ w = it.value
      BY <1>8, <1>15, <2>1, SingleRead
    <2>3. CASE Under(its, {22}) = <<>> /\ w = <<>>
      BY <1>10, <2>1, <2>3 DEF Optional
    <2>4. CASE \E it \in PeerItem : it.tag = 22 /\ Under(its, {22}) = <<it>> /\ w = it.value
      <3>1. PICK it \in PeerItem : it.tag = 22 /\ Under(its, {22}) = <<it>> /\ w = it.value
        BY <2>4
      <3>2. Len(w) = PSKWrappedLen /\ PSKWrappedLen # 0
        BY <3>1, PeerItemsRead, FieldLengths
      <3>3. w # <<>>
        BY <3>2
      <3>4. it = Item(22, w)
        BY <1>15, <3>1, ItemIs
      <3> QED BY <1>9, <1>10, <2>1, <3>1, <3>2, <3>3, <3>4 DEF Optional
    <2> QED BY <2>2, <2>3, <2>4
  <1>18. peerItems(val) = its
    BY <1>11, <1>13, <1>14, <1>16, <1>17 DEF peerItems
  <1>19. EncodePeer(val) = write(MagicPeer, peerItems(val))
    BY <1>13, <1>14, <1>17 DEF EncodePeer, EndpointValid
  <1> QED BY <1>5, <1>7, <1>18, <1>19

-----------------------------------------------------------------------------
(* The last item of a record: another value as long leaves everything before
   it as it was.  The MAC is one, and the wrapped key is the other. *)

(* b is what was written of the items before, then the item, then zeros. *)
EndsWith(b, B, it, L, n) ==
  /\ b \in Bytes /\ Len(b) = Size /\ L + 2 + n <= Size
  /\ \A j \in 1..L : b[j] = B[j]
  /\ b[L + 1] = it.tag /\ b[L + 2] = n
  /\ \A j \in 1..n : b[L + 2 + j] = it.value[j]
  /\ \A j \in 1..Size : j > L + 2 + n => b[j] = 0

(* Room for an item of n bytes after the items Q. *)
HasRoom(magic, Q, n) ==
  writer(magic, Q).ok /\ n <= 255 /\ Len(writer(magic, Q).buf) + 2 + n <= Size

Buffered(magic, Q, B, L) == B = writer(magic, Q).buf /\ L = Len(B)
Spends(it, n) == n = Len(it.value)

LEMMA LastFits ==
  ASSUME NEW magic \in Byte, NEW Q \in Seq(ItemType), NEW it \in ItemType,
         NEW n \in Nat, Spends(it, n)
  PROVE  (write(magic, Append(Q, it)) # Refused) <=> HasRoom(magic, Q, n)
  <1>1. PICK w \in WriterType : w = writer(magic, Q)
    BY WriterTyped
  <1>2. PICK s \in Seq(ItemType) : s = Append(Q, it)
    BY AppendProperties
  <1>3. PICK x \in WriterType : x = writer(magic, s) /\ x = tlv(w, it)
    BY <1>1, <1>2, WriterTyped, WriterAppend
  <1>4. PICK L \in Nat, K \in Nat : L = Len(w.buf) /\ K = Len(x.buf)
    BY DEF WriterType, Bytes
  <1>5. CASE w.ok /\ n <= 255
    <2>1. x.ok /\ K = L + 2 + n
      <3>1. Len(it.value) <= 255
        BY <1>5 DEF Spends
      <3>2. tlv(w, it).ok /\ Adds(tlv(w, it).buf, w.buf, it, Len(w.buf), Len(it.value))
        BY <1>5, <3>1, TlvBytes
      <3>3. x.ok /\ Adds(x.buf, w.buf, it, L, n)
        BY <1>3, <1>4, <3>2, Zenon DEF Spends
      <3> QED BY <1>4, <3>3 DEF Adds
    <2>2. CASE K <= Size
      <3>1. write(magic, s) # Refused
        BY <1>3, <1>4, <2>1, <2>2, WriteFits
      <3> QED BY <1>1, <1>2, <1>4, <1>5, <2>1, <2>2, <3>1 DEF HasRoom
    <2>3. CASE ~(K <= Size)
      <3>1. write(magic, s) = Refused
        BY <1>3, <1>4, <2>3 DEF write, finish
      <3>2. ~HasRoom(magic, Q, n)
        BY <1>1, <1>4, <2>1, <2>3 DEF HasRoom
      <3> QED BY <1>2, <3>1, <3>2
    <2> QED BY <2>2, <2>3
  <1>6. CASE ~(w.ok /\ n <= 255)
    <2>1. ~x.ok
      <3>1. ~w.ok \/ Len(it.value) > 255
        <4>1. ~w.ok \/ n > 255
          BY <1>6
        <4> QED BY <4>1, Zenon DEF Spends
      <3> QED BY <1>3, <3>1 DEF tlv, WriterType
    <2>2. write(magic, s) = Refused
      BY <1>3, <2>1 DEF write, finish
    <2>3. ~HasRoom(magic, Q, n)
      BY <1>1, <1>6 DEF HasRoom
    <2> QED BY <1>2, <2>2, <2>3
  <1> QED BY <1>5, <1>6

LEMMA LastWritten ==
  ASSUME NEW magic \in Byte, NEW Q \in Seq(ItemType), NEW it \in ItemType,
         NEW n \in Nat, Spends(it, n), HasRoom(magic, Q, n),
         NEW B, NEW L \in Nat, Buffered(magic, Q, B, L)
  PROVE  EndsWith(write(magic, Append(Q, it)), B, it, L, n)
  <1>1. PICK w \in WriterType : w = writer(magic, Q)
    BY WriterTyped
  <1>2. PICK s \in Seq(ItemType) : s = Append(Q, it)
    BY AppendProperties
  <1>3. PICK x \in WriterType : x = writer(magic, s) /\ x = tlv(w, it)
    BY <1>1, <1>2, WriterTyped, WriterAppend
  <1>4. w.ok /\ n <= 255 /\ L + 2 + n <= Size /\ Size \in Nat
    BY <1>1, LengthsApart DEF HasRoom, Buffered
  <1>5. x.ok /\ Adds(x.buf, w.buf, it, L, n)
    <2>1. Len(it.value) <= 255 /\ L = Len(w.buf) /\ n = Len(it.value)
      BY <1>1, <1>4 DEF Spends, Buffered
    <2>2. tlv(w, it).ok /\ Adds(tlv(w, it).buf, w.buf, it, Len(w.buf), Len(it.value))
      BY <1>4, <2>1, TlvBytes
    <2> QED BY <1>3, <2>1, <2>2, Zenon
  <1>6. Len(x.buf) = L + 2 + n
    BY <1>5 DEF Adds
  <1>7. Padded(write(magic, s), x.buf)
    BY <1>3, <1>4, <1>5, <1>6, WriteFits
  <1>8. PICK b : b = write(magic, s)
    OBVIOUS
  <1>9. /\ b \in Bytes /\ Len(b) = Size
        /\ \A j \in 1..L + 2 + n : b[j] = x.buf[j]
        /\ \A j \in 1..Size : j > L + 2 + n => b[j] = 0
    BY <1>6, <1>7, <1>8 DEF Padded, Begins
  <1>10. \A j \in 1..L : b[j] = B[j]
    <2> TAKE j \in 1..L
    <2>1. j \in 1..L + 2 + n
      OBVIOUS
    <2>2. x.buf[j] = w.buf[j]
      BY <1>5 DEF Adds
    <2> QED BY <1>1, <1>9, <2>1, <2>2 DEF Buffered
  <1>11. b[L + 1] = it.tag /\ b[L + 2] = n
    <2>1. L + 1 \in 1..L + 2 + n /\ L + 2 \in 1..L + 2 + n
      OBVIOUS
    <2> QED BY <1>5, <1>9, <2>1 DEF Adds
  <1>12. \A j \in 1..n : b[L + 2 + j] = it.value[j]
    <2> TAKE j \in 1..n
    <2>1. L + 2 + j \in 1..L + 2 + n
      OBVIOUS
    <2>2. x.buf[L + 2 + j] = it.value[j]
      BY <1>5 DEF Adds
    <2> QED BY <1>9, <2>1, <2>2
  <1> QED BY <1>2, <1>4, <1>8, <1>9, <1>10, <1>11, <1>12 DEF EndsWith

(* The offsets, one item after another. *)
Counts(f, N, items) ==
  /\ f \in [0..N -> Nat]
  /\ f[0] = headerLen
  /\ \A n \in 1..N : f[n] = f[n - 1] + 2 + Len(items[n].value)
  /\ \A k \in 1..N : offsetOf(items, k) = f[k - 1]

LEMMA OffsetFold ==
  ASSUME NEW items \in Seq(ItemType)
  PROVE  \E f : Counts(f, Len(items), items)
  <1> DEFINE N == Len(items)
             next(u, n) == u + 2 + Len(items[n].value)
             step == [x \in Nat \X (1..N) |-> next(x[1], x[2])]
  <1>0. N \in Nat /\ headerLen \in Nat
    BY DEF headerLen
  <1>1. \A u \in Nat, n \in 1..N : next(u, n) \in Nat
    <2> TAKE u \in Nat, n \in 1..N
    <2>1. items[n] \in ItemType
      BY ElementOfSeq
    <2>2. PICK m \in Nat : m = Len(items[n].value)
      BY <2>1 DEF ItemType, Bytes
    <2>3. u + 2 + m \in Nat
      OBVIOUS
    <2> QED BY <2>2, <2>3, Zenon
  <1> HIDE DEF next
  <1>2. step \in [Nat \X (1..N) -> Nat]
    BY <1>1
  <1>3. PICK f \in [0..N -> Nat] : Rec(f, N, headerLen, step)
    <2> HIDE DEF step, N
    <2> QED BY <1>0, <1>2, Recursion
  <1>4. f[0] = headerLen /\ \A n \in 1..N : f[n] = next(f[n - 1], n)
    <2>1. \A n \in 1..N : f[n - 1] \in Nat
      BY <1>0
    <2> QED BY <1>3, <2>1 DEF Rec
  <1>5. f = [n \in 0..N |-> IF n = 0 THEN headerLen ELSE next(f[n - 1], n)]
    BY <1>4, <1>0
  <1> DEFINE w == CHOOSE g : g = [n \in 0..N |-> IF n = 0 THEN headerLen ELSE next(g[n - 1], n)]
  <1>6. w = [n \in 0..N |-> IF n = 0 THEN headerLen ELSE next(w[n - 1], n)]
    BY <1>5
  <1>7. \A k : offsetOf(items, k) = w[k - 1]
    BY DEF offsetOf, next
  <1> HIDE DEF w
  <1>8. w[0] = headerLen /\ \A n \in 1..N : w[n] = next(w[n - 1], n)
    <2> DEFINE h == [n \in 0..N |-> IF n = 0 THEN headerLen ELSE next(w[n - 1], n)]
    <2>1. h[0] = headerLen /\ \A n \in 1..N : h[n] = next(w[n - 1], n)
      BY <1>0
    <2>2. w = h
      BY <1>6
    <2> HIDE DEF h
    <2> QED BY <2>1, <2>2
  <1>9. Agree(N, f, w)
    <2>1. Follow(N, f, w)
      BY <1>4, <1>8 DEF Follow
    <2> HIDE DEF N
    <2> QED BY <1>0, <2>1, Unique
  <1>10. \A k \in 1..N : offsetOf(items, k) = f[k - 1]
    <2> TAKE k \in 1..N
    <2>1. k - 1 \in 0..N
      BY <1>0
    <2>2. f[k - 1] = w[k - 1]
      BY <1>9, <2>1 DEF Agree
    <2> QED BY <1>7, <2>2
  <1> QED BY <1>4, <1>10 DEF next, Counts

LEMMA OffsetFirst ==
  ASSUME NEW it \in ItemType
  PROVE  offsetOf(Append(<<>>, it), 1) = headerLen
  <1>1. PICK s \in Seq(ItemType) : s = Append(<<>>, it) /\ Len(s) = 1
    <2>1. PICK none \in Seq(ItemType) : none = <<>> /\ Len(none) = 0
      BY EmptySeq
    <2>2. PICK s \in Seq(ItemType) : s = Append(none, it)
      BY AppendProperties
    <2>3. Len(s) = 1
      BY <2>1, <2>2, AppendProperties
    <2> QED BY <2>1, <2>2, <2>3, Zenon
  <1>2. PICK N \in Nat : N = 1 /\ N = Len(s)
    BY <1>1
  <1>3. PICK f : Counts(f, N, s)
    BY <1>2, OffsetFold
  <1>4. offsetOf(s, 1) = f[1 - 1] /\ f[0] = headerLen
    BY <1>2, <1>3 DEF Counts
  <1> QED BY <1>1, <1>4

LEMMA OffsetNext ==
  ASSUME NEW Q \in Seq(ItemType), NEW e \in ItemType, NEW it \in ItemType, NEW N \in Nat, N = Len(Q)
  PROVE  offsetOf(Append(Append(Q, e), it), N + 2)
           = offsetOf(Append(Q, e), N + 1) + 2 + Len(e.value)
  <1>1. PICK s \in Seq(ItemType) : s = Append(Q, e) /\ Len(s) = N + 1 /\ s[N + 1] = e
    BY AppendProperties, ZenonT(60)
  <1>2. PICK t \in Seq(ItemType) : t = Append(s, it) /\ Len(t) = N + 2 /\ \A n \in 1..N + 1 : t[n] = s[n]
    <2>1. PICK M \in Nat : M = N + 1 /\ M = Len(s)
      BY <1>1
    <2>2. PICK t \in Seq(ItemType) : t = Append(s, it)
      BY AppendProperties
    <2>3. Len(t) = M + 1 /\ \A n \in 1..M : t[n] = s[n]
      BY <2>1, <2>2, AppendProperties
    <2>4. Len(t) = N + 2 /\ \A n \in 1..N + 1 : t[n] = s[n]
      BY <2>1, <2>3
    <2> QED BY <2>2, <2>4, Zenon
  <1>3. PICK f : Counts(f, N + 1, s)
    BY <1>1, OffsetFold
  <1>4. PICK g : Counts(g, N + 2, t)
    BY <1>2, OffsetFold
  <1>5. Agree(N + 1, f, g)
    <2>1. f[0] = g[0]
      BY <1>3, <1>4 DEF Counts
    <2>2. \A n \in 1..N + 1 : f[n - 1] = g[n - 1] => f[n] = g[n]
      <3> TAKE n \in 1..N + 1
      <3>1. n \in 1..N + 2 /\ t[n] = s[n]
        BY <1>2
      <3>2. f[n] = f[n - 1] + 2 + Len(s[n].value)
        BY <1>3 DEF Counts
      <3>3. g[n] = g[n - 1] + 2 + Len(t[n].value)
        BY <1>4, <3>1 DEF Counts
      <3> QED BY <3>1, <3>2, <3>3, Zenon
    <2>3. Follow(N + 1, f, g)
      BY <2>1, <2>2 DEF Follow
    <2> QED BY <2>3, Unique
  <1>6. f[N] = g[N] /\ f[N + 1] = g[N + 1]
    <2>1. N \in 0..N + 1 /\ N + 1 \in 0..N + 1
      OBVIOUS
    <2> QED BY <1>5, <2>1 DEF Agree
  <1>7. offsetOf(s, N + 1) = f[N]
    <2>1. N + 1 \in 1..N + 1 /\ (N + 1) - 1 = N
      OBVIOUS
    <2>2. offsetOf(s, N + 1) = f[(N + 1) - 1]
      BY <1>3, <2>1 DEF Counts
    <2> QED BY <2>1, <2>2
  <1>8. offsetOf(t, N + 2) = g[N + 1]
    <2>1. N + 2 \in 1..N + 2 /\ (N + 2) - 1 = N + 1
      OBVIOUS
    <2>2. offsetOf(t, N + 2) = g[(N + 2) - 1]
      BY <1>4, <2>1 DEF Counts
    <2> QED BY <2>1, <2>2
  <1>9. f[N + 1] = f[N] + 2 + Len(e.value)
    <2>1. N + 1 \in 1..N + 1 /\ (N + 1) - 1 = N
      OBVIOUS
    <2>2. f[N + 1] = f[(N + 1) - 1] + 2 + Len(s[N + 1].value)
      BY <1>3, <2>1 DEF Counts
    <2> QED BY <1>1, <2>1, <2>2, Zenon
  <1> QED BY <1>1, <1>2, <1>6, <1>7, <1>8, <1>9, Zenon

(* The offset of the last item is the length of what was written before it. *)
OffsetIsLen(magic, s, N) ==
  writer(magic, s).ok =>
    \A it \in ItemType : offsetOf(Append(s, it), N + 1) = Len(writer(magic, s).buf)

LEMMA OffsetOfLast ==
  ASSUME NEW magic \in Byte, NEW Q \in Seq(ItemType)
  PROVE  OffsetIsLen(magic, Q, Len(Q))
  <1> DEFINE T == {s \in Seq(ItemType) : OffsetIsLen(magic, s, Len(s))}
  <1>1. <<>> \in T
    <2>1. <<>> \in Seq(ItemType) /\ Len(<<>>) = 0 /\ 0 + 1 = 1
      BY EmptySeq
    <2>2. Len(writer(magic, <<>>).buf) = headerLen
      BY WriterEmpty DEF headerLen
    <2>3. OffsetIsLen(magic, <<>>, 0)
      BY <2>1, <2>2, OffsetFirst DEF OffsetIsLen
    <2> QED BY <2>1, <2>3
  <1>2. ASSUME NEW s \in Seq(ItemType), NEW e \in ItemType, s \in T PROVE Append(s, e) \in T
    <2>1. PICK N \in Nat : N = Len(s)
      OBVIOUS
    <2>2. PICK t \in Seq(ItemType) : t = Append(s, e) /\ Len(t) = N + 1
      BY <2>1, AppendProperties
    <2>3. PICK w \in WriterType : w = writer(magic, s)
      BY WriterTyped
    <2>4. writer(magic, t) = tlv(w, e)
      BY <2>2, <2>3, WriterAppend
    <2>5. ASSUME tlv(w, e).ok, NEW it \in ItemType
          PROVE  offsetOf(Append(t, it), (N + 1) + 1) = Len(tlv(w, e).buf)
      <3>1. w.ok /\ Len(e.value) <= 255
        BY <2>5, TlvOK
      <3>2. offsetOf(Append(s, e), N + 1) = Len(w.buf)
        BY <1>2, <2>1, <2>3, <3>1 DEF OffsetIsLen
      <3>3. Len(tlv(w, e).buf) = Len(w.buf) + 2 + Len(e.value)
        <4>1. Adds(tlv(w, e).buf, w.buf, e, Len(w.buf), Len(e.value))
          BY <3>1, TlvBytes
        <4> QED BY <4>1 DEF Adds
      <3>4. (N + 1) + 1 = N + 2
        OBVIOUS
      <3>5. offsetOf(Append(Append(s, e), it), N + 2)
              = offsetOf(Append(s, e), N + 1) + 2 + Len(e.value)
        BY <2>1, OffsetNext, SMTT(40)
      <3> QED BY <2>2, <3>2, <3>3, <3>4, <3>5, Zenon
    <2>6. OffsetIsLen(magic, t, N + 1)
      BY <2>4, <2>5 DEF OffsetIsLen
    <2> QED BY <2>2, <2>6
  <1>3. Seq(ItemType) \subseteq T
    <2> HIDE DEF T
    <2> QED BY <1>1, <1>2, SeqInduction
  <1> QED BY <1>3

-----------------------------------------------------------------------------
(* The MAC is the last item of an interface record, so signing changes its
   bytes and nothing else, and blanking it gives back what was signed. *)

frontItems(i) ==
     encodePrefixes(i.addrs, TagADDR4, TagADDR6)
  \o Optional(i.mtu # 0, TagMTU, be16(i.mtu))
  \o encodeDNS(i.dns)
  \o [k \in DOMAIN i.refs |-> Item(TagPeerRef, i.refs[k])]
  \o Optional(i.port # 0, TagListenPort, be16(i.port))

LEMMA MACItem ==
  ASSUME NEW mac \in Bytes, Len(mac) = MACLen
  PROVE  Optional(mac # <<>>, TagMAC, mac) = <<Item(TagMAC, mac)>> /\ Item(TagMAC, mac) \in Good
  <1>1. mac # <<>>
    BY FieldLengths
  <1>2. Item(TagMAC, mac) \in Good
    BY DEF Item, Good, ItemType, TagMAC, tagEnd, Byte
  <1> QED BY <1>1, <1>2 DEF Optional

LEMMA SignedItems ==
  ASSUME NEW i \in InterfaceType, InterfaceValid(i), Len(i.mac) = MACLen
  PROVE  /\ Between(frontItems(i), 1, 7)
         /\ interfaceItems(i) = Append(frontItems(i), Item(TagMAC, i.mac))
  <1> DEFINE A == encodePrefixes(i.addrs, TagADDR4, TagADDR6)
             M == Optional(i.mtu # 0, TagMTU, be16(i.mtu))
             D == encodeDNS(i.dns)
             R == [k \in DOMAIN i.refs |-> Item(TagPeerRef, i.refs[k])]
             P == Optional(i.port # 0, TagListenPort, be16(i.port))
             C == Optional(i.mac # <<>>, TagMAC, i.mac)
             its == interfaceItems(i)
  <1>1. InterfacePieces(its, A, M, D, R, P, C)
    BY InterfaceFields
  <1>2. frontItems(i) = A \o M \o D \o R \o P
    BY DEF frontItems
  <1>3. i.mac \in Bytes
    BY DEF InterfaceType
  <1>4. C = <<Item(TagMAC, i.mac)>> /\ Item(TagMAC, i.mac) \in Good
    BY <1>3, MACItem
  <1> HIDE DEF A, M, D, R, P, C, its
  <1>5. Between(A \o M \o D \o R \o P, 1, 7)
    BY <1>1, InterfaceUnder
  <1>6. its = (A \o M \o D \o R \o P) \o C
    BY <1>1 DEF InterfacePieces
  <1>7. PICK Q \in Seq(Good) : Q = A \o M \o D \o R \o P
    BY <1>5 DEF Between
  <1>8. PICK it \in Good : it = Item(TagMAC, i.mac)
    BY <1>4
  <1>9. Q \o <<it>> = Append(Q, it)
    OBVIOUS
  <1>10. its = Append(Q, it)
    BY <1>4, <1>6, <1>7, <1>8, <1>9, Zenon
  <1> QED BY <1>2, <1>5, <1>7, <1>8, <1>10, Zenon DEF its

(* The same settings with another MAC. *)
Resigned(j, i, m) == j = [i EXCEPT !.mac = m]

LEMMA ResignedTyped ==
  ASSUME NEW i \in InterfaceType, NEW m \in Bytes, NEW j, Resigned(j, i, m)
  PROVE  /\ j \in InterfaceType /\ j.mac = m
         /\ frontItems(j) = frontItems(i)
         /\ InterfaceValid(j) <=> InterfaceValid(i)
  <1>1. j = [addrs |-> i.addrs, mtu |-> i.mtu, dns |-> i.dns, refs |-> i.refs, port |-> i.port,
             mac |-> m]
    BY DEF InterfaceType, Resigned
  <1>2. /\ j.addrs = i.addrs /\ j.mtu = i.mtu /\ j.dns = i.dns /\ j.refs = i.refs
        /\ j.port = i.port /\ j.mac = m
    BY <1>1
  <1>3. j \in InterfaceType
    BY <1>1 DEF InterfaceType
  <1>4. frontItems(j) = frontItems(i)
    BY <1>2, Zenon DEF frontItems
  <1>5. InterfaceValid(j) <=> InterfaceValid(i)
    BY <1>2, Zenon DEF InterfaceValid
  <1> QED BY <1>2, <1>3, <1>4, <1>5

LEMMA SignedEncoding ==
  ASSUME NEW i \in InterfaceType, InterfaceValid(i), Len(i.mac) = MACLen
  PROVE  /\ frontItems(i) \in Seq(ItemType) /\ Item(TagMAC, i.mac) \in ItemType
         /\ Spends(Item(TagMAC, i.mac), MACLen)
         /\ EncodeInterface(i) = write(MagicInterface, Append(frontItems(i), Item(TagMAC, i.mac)))
         /\ EncodeInterface(i) # Refused <=> HasRoom(MagicInterface, frontItems(i), MACLen)
  <1>1. PICK Q \in Seq(ItemType) : Q = frontItems(i)
    BY SignedItems, GoodItems DEF Between
  <1>2. i.mac \in Bytes
    BY DEF InterfaceType
  <1>3. PICK it \in ItemType : it = Item(TagMAC, i.mac)
    BY <1>2, MACItem DEF Good
  <1>4. Spends(it, MACLen)
    BY <1>3 DEF Spends, Item
  <1>5. EncodeInterface(i) = write(MagicInterface, Append(Q, it))
    BY <1>1, <1>3, SignedItems DEF EncodeInterface, InterfaceValid
  <1>6. MagicInterface \in Byte /\ MACLen \in Nat
    BY FieldLengths DEF MagicInterface, Byte
  <1>7. write(MagicInterface, Append(Q, it)) # Refused <=> HasRoom(MagicInterface, Q, MACLen)
    BY <1>4, <1>6, LastFits
  <1> QED BY <1>1, <1>3, <1>4, <1>5, <1>7, Zenon

(* A second encoding, with the MAC the device computed, does not fail. *)
LEMMA ResignFits ==
  ASSUME NEW i \in InterfaceType, Len(i.mac) = MACLen, EncodeInterface(i) # Refused,
         NEW m \in Bytes, Len(m) = MACLen, NEW j, Resigned(j, i, m)
  PROVE  j \in InterfaceType /\ Len(j.mac) = MACLen /\ EncodeInterface(j) # Refused
  <1>1. InterfaceValid(i)
    BY DEF EncodeInterface, InterfaceValid
  <1>2. /\ j \in InterfaceType /\ j.mac = m /\ frontItems(j) = frontItems(i) /\ InterfaceValid(j)
    BY <1>1, ResignedTyped
  <1>3. HasRoom(MagicInterface, frontItems(i), MACLen)
    BY <1>1, SignedEncoding
  <1>4. EncodeInterface(j) # Refused <=> HasRoom(MagicInterface, frontItems(j), MACLen)
    BY <1>2, SignedEncoding
  <1> QED BY <1>2, <1>3, <1>4

(* A record with the bytes of its last value blanked. *)
Blanked(b, L, n) == [j \in DOMAIN b |-> IF j \in L + 3..L + 2 + n THEN 0 ELSE b[j]]

LEMMA BlankedIs ==
  ASSUME NEW b, NEW c, NEW B, NEW x, NEW y, NEW L \in Nat, NEW n \in Nat,
         EndsWith(b, B, x, L, n), EndsWith(c, B, y, L, n), x.tag = y.tag,
         \A j \in 1..n : y.value[j] = 0
  PROVE  Blanked(b, L, n) = c
  <1>1. Size \in Nat
    BY LengthsApart
  <1>2. /\ b \in Seq(Byte) /\ c \in Seq(Byte) /\ Len(b) = Size /\ Len(c) = Size /\ L + 2 + n <= Size
    BY DEF EndsWith, Bytes
  <1>3. DOMAIN b = 1..Size /\ DOMAIN c = 1..Size
    BY <1>2
  <1>4. ASSUME NEW j \in 1..Size PROVE (IF j \in L + 3..L + 2 + n THEN 0 ELSE b[j]) = c[j]
    <2>1. CASE j \in 1..L
      <3>1. j \notin L + 3..L + 2 + n
        BY <2>1
      <3> QED BY <2>1, <3>1 DEF EndsWith
    <2>2. CASE j = L + 1 \/ j = L + 2
      <3>1. j \notin L + 3..L + 2 + n
        BY <2>2
      <3> QED BY <2>2, <3>1 DEF EndsWith
    <2>3. CASE j \in L + 3..L + 2 + n
      <3>1. PICK k \in 1..n : j = L + 2 + k
        <4>1. j - L - 2 \in 1..n /\ j = L + 2 + (j - L - 2)
          BY <2>3
        <4> QED BY <4>1
      <3>2. c[L + 2 + k] = y.value[k]
        BY DEF EndsWith
      <3> QED BY <2>3, <3>1, <3>2
    <2>4. CASE j > L + 2 + n
      <3>1. j \notin L + 3..L + 2 + n
        BY <2>4
      <3> QED BY <2>4, <3>1 DEF EndsWith
    <2>5. j \in 1..L \/ j = L + 1 \/ j = L + 2 \/ j \in L + 3..L + 2 + n \/ j > L + 2 + n
      OBVIOUS
    <2> QED BY <2>1, <2>2, <2>3, <2>4, <2>5
  <1>5. Blanked(b, L, n) = [j \in 1..Size |-> c[j]]
    BY <1>3, <1>4 DEF Blanked
  <1>6. c = [j \in 1..Size |-> c[j]]
    BY <1>2, <1>3
  <1> QED BY <1>5, <1>6

(* The MAC's place, as ZeroMAC finds it. *)
LEMMA MACPlace ==
  ASSUME NEW Q, Between(Q, 1, 7), NEW it \in Good, it.tag = TagMAC, NEW N \in Nat, N = Len(Q)
  PROVE  {k \in DOMAIN Append(Q, it) : Append(Q, it)[k].tag = TagMAC} = {N + 1}
         /\ Append(Q, it)[N + 1] = it
  <1>1. Q \in Seq(Good)
    BY DEF Between
  <1>2. PICK s \in Seq(Good) : s = Append(Q, it)
    BY <1>1, AppendProperties
  <1>3. Len(s) = N + 1 /\ (\A n \in 1..N : s[n] = Q[n]) /\ s[N + 1] = it
    BY <1>1, <1>2, AppendProperties
  <1>4. DOMAIN s = 1..N + 1
    BY <1>3
  <1>5. ASSUME NEW k \in 1..N + 1 PROVE s[k].tag = TagMAC <=> k = N + 1
    <2>1. CASE k = N + 1
      BY <1>3, <2>1
    <2>2. CASE k # N + 1
      <3>1. k \in 1..N
        BY <2>2
      <3>2. Q[k].tag \in 1..7
        BY <3>1 DEF Between
      <3>3. s[k].tag # TagMAC
        BY <1>3, <3>1, <3>2 DEF TagMAC
      <3> QED BY <2>2, <3>3
    <2> QED BY <2>1, <2>2
  <1>6. {k \in DOMAIN s : s[k].tag = TagMAC} = {N + 1}
    BY <1>4, <1>5
  <1> QED BY <1>2, <1>3, <1>6, Zenon

(* What a reader verifies: the record with its MAC blanked is the one that was
   encoded with the MAC zero, which is what was signed. *)
THEOREM BlankedIsUnsigned ==
  ASSUME NEW i \in InterfaceType, Len(i.mac) = MACLen, EncodeInterface(i) # Refused
  PROVE  ZeroMAC(EncodeInterface(i)) = EncodeInterface([i EXCEPT !.mac = Zeros(MACLen)])
  <1>1. PICK z \in Bytes : z = Zeros(MACLen) /\ Len(z) = MACLen /\ \A j \in 1..MACLen : z[j] = 0
    BY FieldLengths, ZeroBytes DEF Bytes
  <1>2. PICK u : u = [i EXCEPT !.mac = z] /\ Resigned(u, i, z)
    BY DEF Resigned
  <1>3. InterfaceValid(i)
    BY DEF EncodeInterface, InterfaceValid
  <1>4. /\ u \in InterfaceType /\ Len(u.mac) = MACLen /\ EncodeInterface(u) # Refused
        /\ u.mac = z /\ frontItems(u) = frontItems(i) /\ InterfaceValid(u)
    BY <1>1, <1>2, <1>3, ResignFits, ResignedTyped
  <1>5. PICK Q \in Seq(ItemType) : Q = frontItems(i) /\ Between(Q, 1, 7)
    BY <1>3, SignedItems, SignedEncoding
  <1>6. MagicInterface \in Byte /\ MACLen \in Nat
    BY FieldLengths DEF MagicInterface, Byte
  <1>7. PICK x \in ItemType, y \in ItemType : x = Item(TagMAC, i.mac) /\ y = Item(TagMAC, z)
    BY <1>3, <1>4, SignedEncoding
  <1>8. PICK b, c : /\ b = EncodeInterface(i) /\ c = EncodeInterface(u)
                    /\ b = write(MagicInterface, Append(Q, x))
                    /\ c = write(MagicInterface, Append(Q, y))
    <2>1. EncodeInterface(i) = write(MagicInterface, Append(frontItems(i), Item(TagMAC, i.mac)))
      BY <1>3, SignedEncoding
    <2>2. EncodeInterface(u) = write(MagicInterface, Append(frontItems(u), Item(TagMAC, u.mac)))
      BY <1>4, SignedEncoding
    <2> QED BY <1>4, <1>5, <1>7, <2>1, <2>2, Zenon
  <1>9. HasRoom(MagicInterface, Q, MACLen) /\ Spends(x, MACLen) /\ Spends(y, MACLen)
    <2>1. HasRoom(MagicInterface, frontItems(i), MACLen) /\ Spends(Item(TagMAC, i.mac), MACLen)
      BY <1>3, SignedEncoding
    <2>2. Spends(Item(TagMAC, u.mac), MACLen)
      BY <1>4, SignedEncoding
    <2> QED BY <1>4, <1>5, <1>7, <2>1, <2>2, Zenon
  <1>10. PICK B \in Seq(Byte), L \in Nat :
           B = writer(MagicInterface, Q).buf /\ L = Len(B) /\ Buffered(MagicInterface, Q, B, L)
    <2>1. PICK B \in Seq(Byte) : B = writer(MagicInterface, Q).buf
      BY <1>6, WriterTyped DEF WriterType, Bytes
    <2>2. PICK L \in Nat : L = Len(B)
      OBVIOUS
    <2> QED BY <2>1, <2>2, Zenon DEF Buffered
  <1>11. EndsWith(b, B, x, L, MACLen) /\ EndsWith(c, B, y, L, MACLen)
    <2>1. EndsWith(write(MagicInterface, Append(Q, x)), B, x, L, MACLen)
      BY <1>6, <1>9, <1>10, LastWritten
    <2>2. EndsWith(write(MagicInterface, Append(Q, y)), B, y, L, MACLen)
      BY <1>6, <1>9, <1>10, LastWritten
    <2> QED BY <1>8, <2>1, <2>2, Zenon
  <1>12. Blanked(b, L, MACLen) = c
    <2>1. x.tag = y.tag /\ \A j \in 1..MACLen : y.value[j] = 0
      BY <1>1, <1>7 DEF Item
    <2> QED BY <1>6, <1>11, <2>1, BlankedIs
  <1>13. PICK N \in Nat : N = Len(Q)
    OBVIOUS
  <1>14. PICK its : its = Append(Q, x)
    OBVIOUS
  <1>15. {k \in DOMAIN its : its[k].tag = TagMAC} = {N + 1} /\ its[N + 1] = x
    <2>1. x \in Good /\ x.tag = TagMAC
      <3>1. i.mac \in Bytes
        BY DEF InterfaceType
      <3> QED BY <1>7, <3>1, MACItem DEF Item
    <2> QED BY <1>5, <1>13, <1>14, <2>1, MACPlace
  <1>16. offsetOf(its, N + 1) = L
    <2>1. writer(MagicInterface, Q).ok
      BY <1>9 DEF HasRoom
    <2>2. OffsetIsLen(MagicInterface, Q, Len(Q))
      BY <1>6, OffsetOfLast
    <2>3. offsetOf(Append(Q, x), Len(Q) + 1) = Len(writer(MagicInterface, Q).buf)
      BY <2>1, <2>2 DEF OffsetIsLen
    <2> QED BY <1>10, <1>13, <1>14, <2>3, Zenon
  <1>17. parse(b, MagicInterface) = [ok |-> TRUE, items |-> its]
    <2>1. parse(b, MagicInterface) = [ok |-> TRUE, items |-> interfaceItems(i)]
      BY <1>8, InterfaceIsRead
    <2>2. interfaceItems(i) = its
      BY <1>3, <1>5, <1>7, <1>14, SignedItems, Zenon
    <2> QED BY <2>1, <2>2
  <1>18. Len(x.value) = MACLen
    BY <1>9 DEF Spends
  <1>19. ZeroMAC(b) = Blanked(b, L, MACLen)
    <2>1. PICK p : p = parse(b, MagicInterface) /\ p.ok /\ p.items = its
      BY <1>17
    <2>2. PICK macs : macs = {k \in DOMAIN p.items : p.items[k].tag = TagMAC}
      OBVIOUS
    <2>3. macs = {N + 1}
      BY <1>15, <2>1, <2>2, Zenon
    <2>4. PICK k : k = CHOOSE n \in macs : \A j \in macs : n <= j
      OBVIOUS
    <2>5. k = N + 1
      <3>1. \E n \in macs : \A j \in macs : n <= j
        BY <2>3
      <3>2. k \in macs
        BY <2>4, <3>1, Zenon
      <3> QED BY <2>3, <3>2
    <2>6. PICK off : off = offsetOf(p.items, k)
      OBVIOUS
    <2>7. off = L
      BY <1>16, <2>1, <2>5, <2>6, Zenon
    <2>8. Len(p.items[k].value) = MACLen
      BY <1>15, <1>18, <2>1, <2>5, Zenon
    <2>9. ZeroMAC(b) = [j \in DOMAIN b |->
                          IF j \in off + 3..off + 2 + Len(p.items[k].value) THEN 0 ELSE b[j]]
      <3>1. macs # {}
        BY <2>3
      <3> QED BY <2>1, <2>2, <2>4, <2>6, <3>1, Zenon DEF ZeroMAC
    <2> QED BY <2>7, <2>8, <2>9, Zenon DEF Blanked
  <1> QED BY <1>1, <1>2, <1>8, <1>12, <1>19, Zenon

-----------------------------------------------------------------------------
(* The wrapped key is the last item of a peer record, so room for one is room
   for another. *)

LEMMA PeerFrontTyped ==
  ASSUME NEW p \in PeerType, PeerValid(p), Len(p.psk) = PSKWrappedLen
  PROVE  LET Q == <<endpointItem(p.endpoint)>> \o encodePrefixes(p.allowed, TagAIP4, TagAIP6)
                  \o Optional(p.keepalive # 0, TagKeepalive, <<p.keepalive>>)
             it == Item(TagPSKWrapped, p.psk)
         IN  /\ Q \in Seq(ItemType) /\ it \in ItemType /\ Spends(it, PSKWrappedLen)
             /\ peerItems(p) = Append(Q, it)
  <1> DEFINE E == <<endpointItem(p.endpoint)>>
             A == encodePrefixes(p.allowed, TagAIP4, TagAIP6)
             K == Optional(p.keepalive # 0, TagKeepalive, <<p.keepalive>>)
             W == Optional(p.psk # <<>>, TagPSKWrapped, p.psk)
             its == peerItems(p)
  <1>1. PeerPieces(its, E, A, K, W)
    BY PeerFields
  <1>2. p.psk \in Bytes
    BY DEF PeerType
  <1>3. PICK it \in ItemType : it = Item(TagPSKWrapped, p.psk)
    <2>1. PICK v \in Bytes : v = p.psk
      BY <1>2
    <2>2. [tag |-> 22, value |-> v] \in ItemType
      BY DEF ItemType, Byte
    <2> QED BY <2>1, <2>2, Zenon DEF Item, TagPSKWrapped
  <1>4. W = <<it>>
    <2>1. p.psk # <<>>
      BY FieldLengths
    <2> QED BY <1>3, <2>1 DEF Optional
  <1> HIDE DEF E, A, K, W, its
  <1>5. E \in Seq(Good) /\ A \in Seq(Good) /\ K \in Seq(Good)
    BY <1>1 DEF PeerPieces, Between
  <1>6. PICK Q \in Seq(Good) : Q = E \o A \o K
    BY <1>5, ConcatProperties
  <1>7. its = Q \o <<it>>
    <2>1. its = E \o A \o K \o W
      BY <1>1 DEF PeerPieces
    <2> QED BY <1>4, <1>6, <2>1, Zenon
  <1>8. Q \in Seq(ItemType)
    BY GoodItems
  <1>9. Q \o <<it>> = Append(Q, it)
    BY <1>8
  <1>10. Spends(it, PSKWrappedLen)
    BY <1>3 DEF Spends, Item
  <1> QED BY <1>3, <1>6, <1>7, <1>8, <1>9, <1>10, Zenon DEF E, A, K, its

LEMMA PeerRoom ==
  ASSUME NEW q, q.endpoint \in EndpointType, q.allowed \in Seq(PrefixType), q.keepalive \in Byte,
         NEW z \in Bytes, NEW w \in Bytes, Len(z) = PSKWrappedLen, Len(w) = PSKWrappedLen,
         EncodePeer(peerRecord(q, z)) # Refused
  PROVE  EncodePeer(peerRecord(q, w)) # Refused
  <1> DEFINE Q == <<endpointItem(q.endpoint)>> \o encodePrefixes(q.allowed, TagAIP4, TagAIP6)
                  \o Optional(q.keepalive # 0, TagKeepalive, <<q.keepalive>>)
  <1>1. ASSUME NEW v \in Bytes, Len(v) = PSKWrappedLen
        PROVE  /\ (EncodePeer(peerRecord(q, v)) # Refused) <=>
                    (PeerValid(peerRecord(q, v)) /\ HasRoom(MagicPeer, Q, PSKWrappedLen))
               /\ PeerValid(peerRecord(q, v)) <=>
                    (EndpointValid(q.endpoint) /\ \A k \in DOMAIN q.allowed : PrefixValid(q.allowed[k]))
    <2>1. PICK p : p = peerRecord(q, v)
      OBVIOUS
    <2>2. p.endpoint = q.endpoint /\ p.allowed = q.allowed /\ p.keepalive = q.keepalive /\ p.psk = v
      BY <2>1 DEF peerRecord
    <2>3. p \in PeerType
      BY <2>1 DEF peerRecord, PeerType
    <2>4. PeerValid(p) <=>
            (EndpointValid(q.endpoint) /\ \A k \in DOMAIN q.allowed : PrefixValid(q.allowed[k]))
      <3>1. Len(p.psk) \in {0, PSKWrappedLen}
        BY <1>1, <2>2
      <3> QED BY <2>2, <3>1, Zenon DEF PeerValid
    <2>5. CASE PeerValid(p)
      <3>1. PICK it \in ItemType : /\ Q \in Seq(ItemType) /\ Spends(it, PSKWrappedLen)
                                   /\ peerItems(p) = Append(Q, it)
        BY <1>1, <2>2, <2>3, <2>5, PeerFrontTyped, Zenon
      <3>2. EncodePeer(p) = write(MagicPeer, Append(Q, it))
        BY <2>5, <3>1 DEF EncodePeer, PeerValid, EndpointValid
      <3>3. MagicPeer \in Byte /\ PSKWrappedLen \in Nat
        BY FieldLengths DEF MagicPeer, Byte
      <3> HIDE DEF Q
      <3>4. (write(MagicPeer, Append(Q, it)) # Refused) <=> HasRoom(MagicPeer, Q, PSKWrappedLen)
        BY <3>1, <3>3, LastFits
      <3> QED BY <2>1, <2>4, <2>5, <3>2, <3>4, Zenon
    <2>6. CASE ~PeerValid(p)
      <3>1. EncodePeer(p) = Refused
        BY <2>6, Zenon DEF EncodePeer, PeerValid, EndpointValid
      <3> QED BY <2>1, <2>4, <2>6, <3>1, Zenon
    <2> QED BY <2>5, <2>6
  <1> HIDE DEF Q
  <1> QED BY <1>1

-----------------------------------------------------------------------------
(* The device hands back a record with fewer or more zeros at its end. *)

HandedBack(b, c, n) ==
  /\ n \in headerLen..OtherSize
  /\ \A j \in DOMAIN c : j > n => c[j] = 0
  /\ b = [j \in 1..n |-> IF j <= Len(c) THEN c[j] ELSE 0]

LEMMA NormalizeHanded ==
  ASSUME NEW c \in Bytes, Len(c) = Size, NEW n, NEW b, HandedBack(b, c, n)
  PROVE  /\ b \in Bytes
         /\ Len(b) <= Size => Normalize(b) = c
         /\ Len(b) > Size => Normalize(b) = Refused
  <1>1. Size \in Nat /\ OtherSize \in Nat /\ headerLen = 2
    BY LengthsApart DEF headerLen
  <1>2. PICK m \in Nat : m = n /\ m >= 2
    BY <1>1 DEF HandedBack
  <1>3. c \in Seq(Byte) /\ DOMAIN c = 1..Size
    BY DEF Bytes
  <1>4. b = [j \in 1..m |-> IF j <= Size THEN c[j] ELSE 0]
    BY <1>2 DEF HandedBack
  <1>5. b \in Seq(Byte)
    <2>1. \A j \in 1..m : (IF j <= Size THEN c[j] ELSE 0) \in Byte
      <3> TAKE j \in 1..m
      <3>1. CASE j <= Size
        <4>1. j \in 1..Len(c)
          BY <1>1, <3>1
        <4>2. c[j] \in Byte
          BY <1>3, <4>1, ElementOfSeq
        <4> QED BY <3>1, <4>2
      <3>2. CASE ~(j <= Size)
        BY <3>2 DEF Byte
      <3> QED BY <3>1, <3>2
    <2> QED BY <1>4, <2>1
  <1>6. Len(b) = m /\ \A j \in 1..m : b[j] = IF j <= Size THEN c[j] ELSE 0
    BY <1>4
  <1>7. b \in Bytes
    BY <1>5 DEF Bytes
  <1>8. CASE m > Size
    <2>1. Len(b) \notin headerLen..Size
      BY <1>1, <1>6, <1>8
    <2>2. Normalize(b) = Refused
      BY <2>1 DEF Normalize
    <2> QED BY <1>1, <1>6, <1>8, <1>7, <2>2
  <1>9. CASE m <= Size
    <2>1. PICK k \in Nat : k = Size - m /\ Size = m + k
      <3>1. Size - m \in Nat /\ Size = m + (Size - m)
        BY <1>1, <1>9
      <3> QED BY <3>1, Zenon
    <2>2. PICK z \in Seq(Byte) : z = Zeros(k) /\ Len(z) = k /\ \A j \in 1..k : z[j] = 0
      BY ZeroBytes
    <2>3. \A j \in 1..m : b[j] = c[j]
      BY <1>1, <1>6, <1>9
    <2>4. \A j \in 1..k : z[j] = c[m + j]
      <3> TAKE j \in 1..k
      <3>1. m + j \in 1..Size /\ m + j > m
        BY <1>1, <2>1
      <3>2. c[m + j] = 0
        BY <1>2, <1>3, <3>1 DEF HandedBack
      <3> QED BY <2>2, <3>2
    <2>5. b \o z = c
      <3>1. Long(b, m) /\ Long(z, k)
        BY <1>6, <2>2 DEF Long
      <3>2. Joined(c, b, z, m, k)
        BY <2>1, <2>3, <2>4 DEF Joined
      <3> QED BY <1>3, <1>5, <3>1, <3>2, JoinedIs, SMTT(40)
    <2>6. Len(b) \in headerLen..Size
      BY <1>1, <1>2, <1>6, <1>9
    <2>7. Normalize(b) = b \o Zeros(Size - Len(b))
      BY <2>6 DEF Normalize
    <2>8. Normalize(b) = c
      <3>1. Size - Len(b) = k
        BY <1>6, <2>1
      <3> QED BY <2>2, <2>5, <2>7, <3>1, Zenon
    <2>9. ~(Len(b) > Size)
      BY <1>1, <1>6, <1>9
    <2> QED BY <1>7, <2>8, <2>9
  <1> QED BY <1>1, <1>2, <1>8, <1>9

(* What a reader widens is bytes, as many as a record has. *)
LEMMA NormalizeTyped ==
  ASSUME NEW b \in Bytes, Normalize(b) # Refused
  PROVE  Normalize(b) \in Bytes /\ Len(Normalize(b)) = Size
  <1>1. PICK m \in Nat : m = Len(b)
    BY DEF Bytes
  <1>2. Size \in Nat
    BY LengthsApart
  <1>3. Len(b) \in headerLen..Size /\ Normalize(b) = b \o Zeros(Size - Len(b))
    BY DEF Normalize
  <1>4. m <= Size
    BY <1>1, <1>2, <1>3 DEF headerLen
  <1>5. PICK k \in Nat : k = Size - m /\ Size = m + k
    <2>1. Size - m \in Nat /\ Size = m + (Size - m)
      BY <1>2, <1>4
    <2> QED BY <2>1, Zenon
  <1>6. PICK z \in Seq(Byte) : z = Zeros(k) /\ Len(z) = k
    BY ZeroBytes
  <1>7. PICK a \in Seq(Byte) : a = b /\ Len(a) = m
    BY <1>1 DEF Bytes
  <1>8. a \o z \in Seq(Byte) /\ Joined(a \o z, a, z, m, k)
    BY <1>6, <1>7, Join
  <1>9. Len(a \o z) = m + k
    BY <1>8 DEF Joined
  <1>10. Normalize(b) = a \o z
    <2>1. Size - Len(b) = k
      BY <1>1, <1>5
    <2> QED BY <1>3, <1>6, <1>7, <2>1, Zenon
  <1> QED BY <1>5, <1>8, <1>9, <1>10 DEF Bytes

-----------------------------------------------------------------------------
(* The peer specification: fields taken one after another. *)

LabelType == STRING \cup {""}
PubType == [1..RefLen -> Byte] \cup {<<>>}
ParsedType ==
  {p \in [ok : BOOLEAN, label : LabelType, pub : PubType,
          endpoint : EndpointType, allowed : Seq(PrefixType), keepalive : Int] :
     p.ok => p.keepalive \in Byte}

NoPeer ==
  [ok |-> TRUE, label |-> "", pub |-> <<>>, endpoint |-> NoEndpoint,
   allowed |-> <<>>, keepalive |-> 0]

LEMMA ParsedIs ==
  ASSUME NEW t \in BOOLEAN, NEW l \in LabelType, NEW h \in PubType, NEW e \in EndpointType,
         NEW a \in Seq(PrefixType), NEW k \in Int, t => k \in Byte
  PROVE  [ok |-> t, label |-> l, pub |-> h, endpoint |-> e, allowed |-> a, keepalive |-> k]
           \in ParsedType
  BY DEF ParsedType

LEMMA NoPeerTyped == NoPeer \in ParsedType
  <1>1. <<>> \in Bytes /\ <<>> \in Seq(PrefixType) /\ 0 \in Uint16s /\ 0 \in Byte /\ 0 \in Int
    BY DEF Bytes, Uint16s, Byte
  <1>2. NoEndpoint \in EndpointType
    BY <1>1 DEF NoEndpoint, EndpointType
  <1>3. "" \in LabelType /\ <<>> \in PubType /\ TRUE \in BOOLEAN
    <2>1. "" \in LabelType
      BY Zenon DEF LabelType
    <2>2. <<>> \in PubType
      BY Zenon DEF PubType
    <2> QED BY <2>1, <2>2, Zenon
  <1> QED BY <1>1, <1>2, <1>3, ParsedIs, Zenon DEF NoPeer

LEMMA UnmapTyped ==
  ASSUME NEW ip \in Bytes
  PROVE  Unmap(ip) \in Bytes
  <1>1. CASE Len(ip) >= Len6 /\ ip[1] = Mapped
    <2>1. PICK m \in Nat, n \in Nat : m = Len6 - Len4 /\ n = Len4 /\ m + n = Len6
      <3>1. Len6 - Len4 \in Nat /\ Len4 \in Nat /\ (Len6 - Len4) + Len4 = Len6
        BY LengthsApart
      <3> QED BY <3>1, Zenon
    <2>2. m + n <= Len(ip) /\ ip \in Seq(Byte)
      BY <1>1, <2>1 DEF Bytes
    <2>3. PICK a \in Seq(Byte) : Slices(a, ip, m, n)
      BY <2>2, Sliced
    <2>4. a = SubSeq(ip, m + 1, m + n)
      BY <2>3 DEF Slices
    <2>5. a = SubSeq(ip, Len6 - Len4 + 1, Len6)
      BY <2>1, <2>4, Zenon
    <2>6. Unmap(ip) = a
      BY <1>1, <2>5 DEF Unmap
    <2> QED BY <2>6 DEF Bytes
  <1>2. CASE ~(Len(ip) >= Len6 /\ ip[1] = Mapped)
    BY <1>2 DEF Unmap
  <1> QED BY <1>1, <1>2

LEMMA MaskedTyped ==
  ASSUME NEW p \in PrefixType
  PROVE  Masked(p) \in PrefixType
  <1>1. PICK a \in Seq(Byte), m \in Int : a = p.addr /\ m = p.bits /\ p = [addr |-> a, bits |-> m]
    BY DEF PrefixType, Bytes
  <1>2. PICK c : c = [k \in DOMAIN a |-> IF k <= m THEN a[k] ELSE 0]
    OBVIOUS
  <1>3. c \in Seq(Byte)
    <2>1. \A k \in DOMAIN a : (IF k <= m THEN a[k] ELSE 0) \in Byte
      <3> TAKE k \in DOMAIN a
      <3>1. a[k] \in Byte
        BY ElementOfSeq
      <3>2. 0 \in Byte
        BY DEF Byte
      <3> QED BY <3>1, <3>2
    <2>2. DOMAIN a = 1..Len(a) /\ Len(a) \in Nat
      OBVIOUS
    <2> QED BY <1>2, <2>1, <2>2
  <1>4. Masked(p) = [addr |-> c, bits |-> m]
    <2>1. Masked(p) =
            [p EXCEPT !.addr = [k \in DOMAIN p.addr |-> IF k <= p.bits THEN p.addr[k] ELSE 0]]
      BY Zenon DEF Masked
    <2>2. a = p.addr /\ m = p.bits
      BY <1>1
    <2>3. Masked(p) = [p EXCEPT !.addr = c]
      BY <1>2, <2>1, <2>2, Zenon
    <2> QED BY <1>1, <2>3
  <1> QED BY <1>3, <1>4 DEF PrefixType, Bytes

LEMMA parseEndpointTyped ==
  ASSUME NEW e \in EndpointType
  PROVE  parseEndpoint(e) \in EndpointType
  <1>1. CASE e.ip # <<>>
    <2>1. Unmap(e.ip) \in Bytes
      BY UnmapTyped DEF EndpointType
    <2> QED BY <1>1, <2>1 DEF parseEndpoint, EndpointType
  <1>2. CASE e.ip = <<>>
    BY <1>2 DEF parseEndpoint
  <1> QED BY <1>1, <1>2

LEMMA TakeTyped ==
  ASSUME NEW p \in ParsedType, NEW f \in FieldType
  PROVE  takeField(p, f) \in ParsedType
  <1>1. /\ p.ok \in BOOLEAN /\ p.label \in LabelType /\ p.pub \in PubType
        /\ p.endpoint \in EndpointType /\ p.allowed \in Seq(PrefixType) /\ p.keepalive \in Int
        /\ p.ok => p.keepalive \in Byte
        /\ p = [ok |-> p.ok, label |-> p.label, pub |-> p.pub, endpoint |-> p.endpoint,
                allowed |-> p.allowed, keepalive |-> p.keepalive]
    BY DEF ParsedType
  <1>2. CASE f.key = "label"
    <2>1. f.value \in LabelType
      BY <1>2 DEF FieldType, LabelType
    <2>2. takeField(p, f) = [p EXCEPT !.label = f.value]
      BY <1>2 DEF takeField
    <2> QED BY <2>1, <2>2 DEF ParsedType
  <1>3. CASE f.key = "pubkey"
    <2>1. f.value \in PubType
      BY <1>3 DEF FieldType, PubType
    <2>2. takeField(p, f) = [p EXCEPT !.pub = f.value]
      BY <1>3 DEF takeField
    <2> QED BY <2>1, <2>2 DEF ParsedType
  <1>4. CASE f.key = "endpoint"
    <2>1. f.value \in EndpointType
      BY <1>4 DEF FieldType, FileEndpoint
    <2>2. PICK e \in EndpointType : e = parseEndpoint(f.value)
      BY <2>1, parseEndpointTyped
    <2>3. PICK fine \in BOOLEAN : fine = (p.ok /\ EndpointOK(f.value))
      OBVIOUS
    <2>4. takeField(p, f) = [p EXCEPT !.endpoint = parseEndpoint(f.value),
                                      !.ok = @ /\ EndpointOK(f.value)]
      BY <1>4 DEF takeField
    <2>5. PICK q : q = [p EXCEPT !.endpoint = e]
      OBVIOUS
    <2>6. q = [ok |-> p.ok, label |-> p.label, pub |-> p.pub, endpoint |-> e,
               allowed |-> p.allowed, keepalive |-> p.keepalive]
      BY <1>1, <2>5
    <2>7. takeField(p, f) = [q EXCEPT !.ok = fine]
      BY <1>1, <2>2, <2>3, <2>4, <2>5
    <2>8. takeField(p, f) = [ok |-> fine, label |-> p.label, pub |-> p.pub, endpoint |-> e,
                             allowed |-> p.allowed, keepalive |-> p.keepalive]
      BY <2>6, <2>7
    <2>9. fine => p.keepalive \in Byte
      BY <1>1, <2>3
    <2> QED BY <1>1, <2>8, <2>9, ParsedIs, ZenonT(60)
  <1>5. CASE f.key = "allowed-ips"
    <2>1. f.value \in PrefixType
      BY <1>5 DEF FieldType
    <2>2. Append(p.allowed, Masked(f.value)) \in Seq(PrefixType)
      BY <1>1, <2>1, MaskedTyped, AppendProperties
    <2>3. takeField(p, f) = [p EXCEPT !.allowed = Append(@, Masked(f.value))]
      BY <1>5 DEF takeField
    <2> QED BY <2>2, <2>3 DEF ParsedType
  <1>6. CASE f.key = "keepalive"
    <2>1. f.value \in Int
      BY <1>6 DEF FieldType
    <2>2. PICK fine \in BOOLEAN : fine = (p.ok /\ f.value \in 1..255)
      OBVIOUS
    <2>3. takeField(p, f) = [p EXCEPT !.keepalive = f.value, !.ok = @ /\ f.value \in 1..255]
      BY <1>6 DEF takeField
    <2>4. PICK q : q = [p EXCEPT !.keepalive = f.value]
      OBVIOUS
    <2>5. q = [ok |-> p.ok, label |-> p.label, pub |-> p.pub, endpoint |-> p.endpoint,
               allowed |-> p.allowed, keepalive |-> f.value]
      BY <1>1, <2>4
    <2>6. takeField(p, f) = [q EXCEPT !.ok = fine]
      BY <1>1, <2>2, <2>3, <2>4
    <2>7. takeField(p, f) = [ok |-> fine, label |-> p.label, pub |-> p.pub, endpoint |-> p.endpoint,
                             allowed |-> p.allowed, keepalive |-> f.value]
      BY <2>5, <2>6
    <2>8. fine => f.value \in Byte
      <3>1. \A v : v \in 1..255 => v \in Byte
        BY DEF Byte
      <3> QED BY <2>2, <3>1, Zenon
    <2>9. PICK v \in Int : v = f.value /\ (fine => v \in Byte)
      BY <2>1, <2>8, Zenon
    <2>10. [ok |-> fine, label |-> p.label, pub |-> p.pub, endpoint |-> p.endpoint,
            allowed |-> p.allowed, keepalive |-> v] \in ParsedType
      <3>1. /\ p.label \in LabelType /\ p.pub \in PubType
            /\ p.endpoint \in EndpointType /\ p.allowed \in Seq(PrefixType)
        BY <1>1, Zenon
      <3>2. fine => v \in Byte
        BY <2>9, Zenon
      <3> QED BY <3>1, <3>2, ParsedIs
    <2> QED BY <2>7, <2>9, <2>10, Zenon
  <1>7. CASE f.key \notin {"label", "pubkey", "endpoint", "allowed-ips", "keepalive"}
    <2>1. takeField(p, f) = [p EXCEPT !.ok = FALSE]
      BY <1>7 DEF takeField
    <2> QED BY <2>1 DEF ParsedType
  <1> QED BY <1>2, <1>3, <1>4, <1>5, <1>6, <1>7

(* f is the specification after each of the first N fields, p after them all. *)
Folds(f, N, s) ==
  /\ f \in [0..N -> ParsedType]
  /\ f[0] = NoPeer
  /\ \A n \in 1..N : f[n] = takeField(f[n - 1], s[n])
Taken(s, p) == \E f : Folds(f, Len(s), s) /\ p = f[Len(s)]

(* What is missing is refused at the end. *)
Checked(p) ==
  IF p.pub = <<>> \/ p.endpoint = NoEndpoint \/ p.allowed = <<>>
  THEN [p EXCEPT !.ok = FALSE] ELSE p

LEMMA TakenNone == Taken(<<>>, NoPeer)
  <1>1. PICK f : f = [n \in 0..0 |-> NoPeer]
    OBVIOUS
  <1>2. Folds(f, 0, <<>>) /\ f[0] = NoPeer
    BY <1>1, NoPeerTyped DEF Folds
  <1>3. Len(<<>>) = 0
    OBVIOUS
  <1> QED BY <1>2, <1>3, Zenon DEF Taken

LEMMA TakenNext ==
  ASSUME NEW s \in Seq(FieldType), NEW e \in FieldType, NEW p, Taken(s, p)
  PROVE  p \in ParsedType /\ Taken(Append(s, e), takeField(p, e))
  <1>1. PICK N \in Nat : N = Len(s)
    OBVIOUS
  <1>2. PICK f : Folds(f, N, s) /\ p = f[N]
    BY <1>1 DEF Taken
  <1>3. PICK t \in Seq(FieldType) : t = Append(s, e)
    BY AppendProperties
  <1>4. Len(t) = N + 1 /\ (\A n \in 1..N : t[n] = s[n]) /\ t[N + 1] = e
    BY <1>1, <1>3, AppendProperties
  <1>5. p \in ParsedType
    BY <1>2 DEF Folds
  <1>6. PICK v \in ParsedType : v = takeField(p, e)
    BY <1>5, TakeTyped
  <1> DEFINE g == [n \in 0..N + 1 |-> IF n = N + 1 THEN v ELSE f[n]]
  <1>7. g \in [0..N + 1 -> ParsedType]
    <2> SUFFICES ASSUME NEW n \in 0..N + 1 PROVE (IF n = N + 1 THEN v ELSE f[n]) \in ParsedType
      OBVIOUS
    <2>1. CASE n = N + 1
      BY <2>1
    <2>2. CASE n # N + 1
      <3>1. n \in 0..N
        BY <2>2
      <3> QED BY <1>2, <2>2, <3>1 DEF Folds
    <2> QED BY <2>1, <2>2
  <1>8. g[0] = NoPeer
    BY <1>2 DEF Folds
  <1>9. ASSUME NEW n \in 1..N + 1 PROVE g[n] = takeField(g[n - 1], t[n])
    <2>1. CASE n = N + 1
      <3>1. g[n] = v /\ g[n - 1] = f[N]
        BY <2>1
      <3> QED BY <1>2, <1>4, <1>6, <2>1, <3>1
    <2>2. CASE n # N + 1
      <3>1. n \in 1..N /\ g[n] = f[n] /\ g[n - 1] = f[n - 1]
        BY <2>2
      <3>2. f[n] = takeField(f[n - 1], s[n])
        BY <1>2, <3>1 DEF Folds
      <3>3. t[n] = s[n]
        BY <1>4, <3>1
      <3> HIDE DEF g
      <3> QED BY <3>1, <3>2, <3>3, Zenon
    <2> QED BY <2>1, <2>2
  <1>10. g[N + 1] = v
    OBVIOUS
  <1> HIDE DEF g
  <1>11. Folds(g, N + 1, t)
    BY <1>7, <1>8, <1>9 DEF Folds
  <1>12. Taken(t, v)
    BY <1>4, <1>10, <1>11, Zenon DEF Taken
  <1> QED BY <1>3, <1>5, <1>6, <1>12, Zenon

LEMMA TakenTyped ==
  ASSUME NEW s \in Seq(FieldType)
  PROVE  \E p \in ParsedType : Taken(s, p)
  <1> DEFINE T == {u \in Seq(FieldType) : \E p \in ParsedType : Taken(u, p)}
  <1>1. <<>> \in T
    BY TakenNone, NoPeerTyped, EmptySeq
  <1>2. ASSUME NEW u \in Seq(FieldType), NEW e \in FieldType, u \in T PROVE Append(u, e) \in T
    <2>1. PICK p \in ParsedType : Taken(u, p)
      BY <1>2
    <2>2. Taken(Append(u, e), takeField(p, e)) /\ takeField(p, e) \in ParsedType
      BY <2>1, TakenNext, TakeTyped
    <2>3. Append(u, e) \in Seq(FieldType)
      BY AppendProperties
    <2> QED BY <2>2, <2>3, Zenon
  <1>3. Seq(FieldType) \subseteq T
    <2> HIDE DEF T
    <2> QED BY <1>1, <1>2, SeqInduction
  <1> QED BY <1>3

LEMMA ParseTaken ==
  ASSUME NEW s \in Seq(FieldType), NEW p, Taken(s, p)
  PROVE  ParsePeerSpec(s) = Checked(p)
  <1> DEFINE N == Len(s)
  <1>0. N \in Nat
    OBVIOUS
  <1>1. PICK f : Folds(f, N, s) /\ p = f[N]
    BY DEF Taken
  <1>2. f = [n \in 0..N |-> IF n = 0 THEN NoPeer ELSE takeField(f[n - 1], s[n])]
    BY <1>0, <1>1 DEF Folds
  <1> DEFINE w == CHOOSE g : g = [n \in 0..N |-> IF n = 0 THEN NoPeer ELSE takeField(g[n - 1], s[n])]
  <1>3. w = [n \in 0..N |-> IF n = 0 THEN NoPeer ELSE takeField(w[n - 1], s[n])]
    BY <1>2
  <1>4. ParsePeerSpec(s) = Checked(w[N])
    BY DEF ParsePeerSpec, Checked, NoPeer
  <1> HIDE DEF w
  <1>5. w[0] = NoPeer /\ \A n \in 1..N : w[n] = takeField(w[n - 1], s[n])
    <2> DEFINE h == [n \in 0..N |-> IF n = 0 THEN NoPeer ELSE takeField(w[n - 1], s[n])]
    <2>1. h[0] = NoPeer /\ \A n \in 1..N : h[n] = takeField(w[n - 1], s[n])
      BY <1>0
    <2>2. w = h
      BY <1>3
    <2> HIDE DEF h
    <2> QED BY <2>1, <2>2
  <1>6. Agree(N, f, w)
    <2>1. Follow(N, f, w)
      BY <1>1, <1>5 DEF Follow, Folds
    <2> HIDE DEF N
    <2> QED BY <1>0, <2>1, Unique
  <1>7. w[N] = p
    BY <1>0, <1>1, <1>6 DEF Agree
  <1> QED BY <1>4, <1>7

(* What a specification that was taken holds. *)
LEMMA SpecTyped ==
  ASSUME NEW s \in Seq(FieldType), NEW q, q = ParsePeerSpec(s), q.ok
  PROVE  /\ Taken(s, q)
         /\ q.pub \in [1..RefLen -> Byte] /\ q.endpoint \in EndpointType
         /\ q.allowed \in Seq(PrefixType) /\ q.keepalive \in Byte
         /\ q.endpoint # NoEndpoint
  <1>1. PICK p \in ParsedType : Taken(s, p)
    BY TakenTyped
  <1>2. q = Checked(p)
    BY <1>1, ParseTaken
  <1>3. ~(p.pub = <<>> \/ p.endpoint = NoEndpoint \/ p.allowed = <<>>)
    <2> SUFFICES ASSUME p.pub = <<>> \/ p.endpoint = NoEndpoint \/ p.allowed = <<>> PROVE FALSE
      OBVIOUS
    <2>1. q = [p EXCEPT !.ok = FALSE]
      BY <1>2, Zenon DEF Checked
    <2>2. ~q.ok
      BY <2>1 DEF ParsedType
    <2> QED BY <2>2
  <1>4. q = p
    BY <1>2, <1>3, Zenon DEF Checked
  <1>5. p.ok
    BY <1>4, Zenon
  <1>6. /\ p.pub \in PubType /\ p.endpoint \in EndpointType
        /\ p.allowed \in Seq(PrefixType) /\ p.keepalive \in Byte
    BY <1>5 DEF ParsedType
  <1>7. p.pub \in [1..RefLen -> Byte]
    BY <1>3, <1>6, Zenon DEF PubType
  <1> QED BY <1>1, <1>3, <1>4, <1>6, <1>7, Zenon

LEMMA FieldTyped ==
  /\ \A l \in STRING : [key |-> "label", value |-> l] \in FieldType
  /\ \A h \in [1..RefLen -> Byte] : [key |-> "pubkey", value |-> h] \in FieldType
  /\ \A e \in FileEndpoint : [key |-> "endpoint", value |-> e] \in FieldType
  /\ \A x \in PrefixType : [key |-> "allowed-ips", value |-> x] \in FieldType
  /\ \A k \in Int : [key |-> "keepalive", value |-> k] \in FieldType
  <1>1. \A l \in STRING : [key |-> "label", value |-> l] \in FieldType
    BY DEF FieldType
  <1>2. \A h \in [1..RefLen -> Byte] : [key |-> "pubkey", value |-> h] \in FieldType
    BY DEF FieldType
  <1>3. \A e \in FileEndpoint : [key |-> "endpoint", value |-> e] \in FieldType
    BY DEF FieldType
  <1>4. \A x \in PrefixType : [key |-> "allowed-ips", value |-> x] \in FieldType
    BY DEF FieldType
  <1>5. \A k \in Int : [key |-> "keepalive", value |-> k] \in FieldType
    BY DEF FieldType
  <1> QED BY <1>1, <1>2, <1>3, <1>4, <1>5

LEMMA allowedTyped ==
  ASSUME NEW A \in Seq(PrefixType)
  PROVE  allowedFields(A) \in Seq(FieldType)
  <1>1. DOMAIN A = 1..Len(A) /\ Len(A) \in Nat
    OBVIOUS
  <1>2. \A k \in 1..Len(A) : [key |-> "allowed-ips", value |-> A[k]] \in FieldType
    <2> TAKE k \in 1..Len(A)
    <2>1. A[k] \in PrefixType
      BY ElementOfSeq
    <2> QED BY <2>1, FieldTyped
  <1> QED BY <1>1, <1>2 DEF allowedFields

LEMMA OneField ==
  ASSUME NEW key, NEW value, [key |-> key, value |-> value] \in FieldType
  PROVE  Field(key, value) \in Seq(FieldType)
  BY DEF Field

NameType == [text : STRING, equals : BOOLEAN, after : Seq(FieldType)]

LEMMA FieldsTyped ==
  ASSUME NEW peer \in FilePeer, peer.pub # <<>>, NEW n \in NameType
  PROVE  peerFields(peer, n) \in Seq(FieldType)
  <1>1. /\ peer.pub \in [1..RefLen -> Byte] /\ peer.endpoint \in FileEndpoint
        /\ peer.allowed \in Seq(PrefixType) /\ peer.keepalive \in Int /\ peer.after \in Seq(FieldType)
    BY DEF FilePeer
  <1>2. n.text \in STRING /\ n.after \in Seq(FieldType)
    BY DEF NameType
  <1>3. PICK a \in Seq(FieldType) : a = labelFields(n)
    <2>1. Field("label", n.text) \in Seq(FieldType)
      BY <1>2, FieldTyped, OneField
    <2> QED BY <1>2, <2>1, ConcatProperties DEF labelFields
  <1>4. PICK h \in Seq(FieldType) : h = Field("pubkey", peer.pub)
    BY <1>1, FieldTyped, OneField
  <1>5. PICK e \in Seq(FieldType) :
          e = IF peer.endpoint # NoEndpoint THEN Field("endpoint", peer.endpoint) \o peer.after ELSE <<>>
    <2>1. Field("endpoint", peer.endpoint) \in Seq(FieldType)
      BY <1>1, FieldTyped, OneField
    <2>2. Field("endpoint", peer.endpoint) \o peer.after \in Seq(FieldType)
      BY <1>1, <2>1, ConcatProperties
    <2>3. <<>> \in Seq(FieldType)
      BY EmptySeq
    <2> QED BY <2>2, <2>3, Zenon
  <1>6. PICK w \in Seq(FieldType) : w = allowedFields(peer.allowed)
    BY <1>1, allowedTyped
  <1>7. PICK k \in Seq(FieldType) :
          k = IF peer.keepalive # 0 THEN Field("keepalive", peer.keepalive) ELSE <<>>
    <2>1. Field("keepalive", peer.keepalive) \in Seq(FieldType)
      BY <1>1, FieldTyped, OneField
    <2>2. <<>> \in Seq(FieldType)
      BY EmptySeq
    <2> QED BY <2>1, <2>2, Zenon
  <1>8. a \o h \o e \o w \o k \in Seq(FieldType)
    BY ConcatProperties
  <1>9. peerFields(peer, n) = a \o h \o e \o w \o k
    BY <1>3, <1>4, <1>5, <1>6, <1>7, Zenon DEF peerFields
  <1> QED BY <1>8, <1>9

(* The ranges a specification lists, masked. *)
MaskedAll(A) == [k \in DOMAIN A |-> Masked(A[k])]

WithAllowed(p, a) == [p EXCEPT !.allowed = a]

LEMMA TakenIn ==
  ASSUME NEW s \in Seq(FieldType), NEW p, Taken(s, p)
  PROVE  p \in ParsedType
  <1>1. PICK N \in Nat : N = Len(s)
    OBVIOUS
  <1>2. PICK f : Folds(f, N, s) /\ p = f[N]
    BY <1>1 DEF Taken
  <1> QED BY <1>2 DEF Folds

LEMMA AllowedMaps ==
  LET g == [x \in PrefixType |-> [key |-> "allowed-ips", value |-> x]]
      h == [x \in PrefixType |-> Masked(x)]
  IN  /\ g \in [PrefixType -> FieldType] /\ h \in [PrefixType -> PrefixType]
      /\ \A A \in Seq(PrefixType) : allowedFields(A) = Map(A, g) /\ MaskedAll(A) = Map(A, h)
  <1> DEFINE g == [x \in PrefixType |-> [key |-> "allowed-ips", value |-> x]]
             h == [x \in PrefixType |-> Masked(x)]
  <1>1. g \in [PrefixType -> FieldType] /\ h \in [PrefixType -> PrefixType]
    BY FieldTyped, MaskedTyped
  <1>2. ASSUME NEW A \in Seq(PrefixType) PROVE allowedFields(A) = Map(A, g) /\ MaskedAll(A) = Map(A, h)
    <2>1. \A k \in DOMAIN A : A[k] \in PrefixType
      BY ElementOfSeq
    <2> QED BY <2>1 DEF allowedFields, MaskedAll, Map
  <1> QED BY <1>1, <1>2

LEMMA AllowedTaken ==
  ASSUME NEW s \in Seq(FieldType), NEW p, Taken(s, p), p.allowed = <<>>, NEW A \in Seq(PrefixType)
  PROVE  Taken(s \o allowedFields(A), WithAllowed(p, MaskedAll(A)))
  <1> DEFINE T == {B \in Seq(PrefixType) : Taken(s \o allowedFields(B), WithAllowed(p, MaskedAll(B)))}
  <1>0. PICK g \in [PrefixType -> FieldType], h \in [PrefixType -> PrefixType] :
          /\ \A x \in PrefixType : g[x] = [key |-> "allowed-ips", value |-> x] /\ h[x] = Masked(x)
          /\ \A B \in Seq(PrefixType) : allowedFields(B) = Map(B, g) /\ MaskedAll(B) = Map(B, h)
    BY AllowedMaps
  <1>1. p \in ParsedType
    BY TakenIn
  <1>2. <<>> \in T
    <2>1. <<>> \in Seq(PrefixType)
      BY EmptySeq
    <2>2. allowedFields(<<>>) = <<>> /\ MaskedAll(<<>>) = <<>>
      BY <1>0, <2>1, MapEmpty
    <2>3. s \o <<>> = s
      BY ConcatEmptySeq
    <2>4. WithAllowed(p, <<>>) = p
      BY <1>1 DEF WithAllowed, ParsedType
    <2> QED BY <2>1, <2>2, <2>3, <2>4, Zenon
  <1>3. ASSUME NEW B \in Seq(PrefixType), NEW x \in PrefixType, B \in T PROVE Append(B, x) \in T
    <2>1. PICK t \in Seq(FieldType) : t = allowedFields(B)
      BY allowedTyped
    <2>2. PICK m \in Seq(PrefixType) : m = MaskedAll(B)
      <3>1. Map(B, h) \in Seq(PrefixType)
        BY MapTyped
      <3> QED BY <1>0, <3>1
    <2>3. Taken(s \o t, WithAllowed(p, m))
      BY <1>3, <2>1, <2>2, Zenon
    <2>4. PICK e \in FieldType : e = [key |-> "allowed-ips", value |-> x] /\ g[x] = e
      BY <1>0, FieldTyped
    <2>5. PICK y \in PrefixType : y = Masked(x) /\ h[x] = y
      BY <1>0, MaskedTyped
    <2>6. Append(B, x) \in Seq(PrefixType)
      BY AppendProperties
    <2>7. allowedFields(Append(B, x)) = Append(t, e)
      <3>1. Map(Append(B, x), g) = Append(Map(B, g), g[x])
        BY MapAppend, ZenonT(60)
      <3> QED BY <1>0, <2>1, <2>4, <2>6, <3>1, Zenon
    <2>8. MaskedAll(Append(B, x)) = Append(m, y)
      <3>1. Map(Append(B, x), h) = Append(Map(B, h), h[x])
        BY MapAppend, ZenonT(60)
      <3> QED BY <1>0, <2>2, <2>5, <2>6, <3>1, Zenon
    <2>9. s \o Append(t, e) = Append(s \o t, e) /\ s \o t \in Seq(FieldType)
      BY ConcatAppend, ConcatProperties
    <2>10. Taken(Append(s \o t, e), takeField(WithAllowed(p, m), e))
      BY <2>3, <2>9, TakenNext
    <2>11. takeField(WithAllowed(p, m), e) = WithAllowed(p, Append(m, y))
      <3>1. PICK q : q = WithAllowed(p, m)
        OBVIOUS
      <3>2. q = [p EXCEPT !.allowed = m] /\ q.allowed = m
        BY <1>1, <3>1 DEF WithAllowed, ParsedType
      <3>3. takeField(q, e) = [q EXCEPT !.allowed = Append(@, Masked(x))]
        BY <2>4 DEF takeField
      <3>4. takeField(q, e) = [q EXCEPT !.allowed = Append(m, y)]
        BY <2>5, <3>2, <3>3
      <3>5. [q EXCEPT !.allowed = Append(m, y)] = [p EXCEPT !.allowed = Append(m, y)]
        BY <1>1, <3>2 DEF ParsedType
      <3> QED BY <3>1, <3>4, <3>5, Zenon DEF WithAllowed
    <2> QED BY <2>6, <2>7, <2>8, <2>9, <2>10, <2>11, Zenon
  <1>4. Seq(PrefixType) \subseteq T
    <2> HIDE DEF T
    <2> QED BY <1>2, <1>3, SeqInduction
  <1> QED BY <1>4

(* What a specification says so far, its label and whether it is refused apart. *)
Says(p, h, e, a, k) == p.pub = h /\ p.endpoint = e /\ p.allowed = a /\ p.keepalive = k

LEMMA FieldSays ==
  ASSUME NEW p \in ParsedType, NEW h, NEW e, NEW a, NEW k, Says(p, h, e, a, k), NEW v
  PROVE  /\ Says(takeField(p, [key |-> "label", value |-> v]), h, e, a, k)
         /\ Says(takeField(p, [key |-> "pubkey", value |-> v]), v, e, a, k)
         /\ Says(takeField(p, [key |-> "endpoint", value |-> v]), h, parseEndpoint(v), a, k)
         /\ Says(takeField(p, [key |-> "keepalive", value |-> v]), h, e, a, v)
         /\ Says(WithAllowed(p, v), h, e, v, k)
         /\ Says(Checked(p), h, e, a, k)
  <1>0. DOMAIN p = {"ok", "label", "pub", "endpoint", "allowed", "keepalive"}
    BY DEF ParsedType
  <1>1. Says(takeField(p, [key |-> "label", value |-> v]), h, e, a, k)
    <2>1. takeField(p, [key |-> "label", value |-> v]) = [p EXCEPT !.label = v]
      BY DEF takeField
    <2> QED BY <2>1 DEF Says, ParsedType
  <1>2. Says(takeField(p, [key |-> "pubkey", value |-> v]), v, e, a, k)
    <2>1. takeField(p, [key |-> "pubkey", value |-> v]) = [p EXCEPT !.pub = v]
      BY DEF takeField
    <2> QED BY <2>1 DEF Says, ParsedType
  <1>3. Says(takeField(p, [key |-> "endpoint", value |-> v]), h, parseEndpoint(v), a, k)
    <2>1. PICK c : c = parseEndpoint(v)
      OBVIOUS
    <2>2. PICK f : f = [key |-> "endpoint", value |-> v] /\ f.key = "endpoint" /\ f.value = v
      <3>1. PICK f : f = [key |-> "endpoint", value |-> v]
        OBVIOUS
      <3>2. f.key = "endpoint" /\ f.value = v
        BY <3>1
      <3> QED BY <3>1, <3>2, Zenon
    <2>3. takeField(p, f) = [p EXCEPT !.endpoint = parseEndpoint(f.value), !.ok = @ /\ EndpointOK(f.value)]
      BY <2>2 DEF takeField
    <2>4. PICK fine : fine = (p.ok /\ EndpointOK(v))
      OBVIOUS
    <2>5. PICK q : q = [p EXCEPT !.endpoint = c]
      OBVIOUS
    <2>6. q.ok = p.ok /\ q.endpoint = c /\ Says(q, h, c, a, k) /\ "ok" \in DOMAIN q
      BY <1>0, <2>5 DEF Says
    <2>7. takeField(p, f) = [q EXCEPT !.ok = fine]
      BY <2>1, <2>2, <2>3, <2>4, <2>5, <2>6
    <2>8. Says([q EXCEPT !.ok = fine], h, c, a, k)
      BY <1>0, <2>5, <2>6 DEF Says
    <2> QED BY <2>1, <2>2, <2>7, <2>8, Zenon
  <1>4. Says(takeField(p, [key |-> "keepalive", value |-> v]), h, e, a, v)
    <2>1. PICK f : f = [key |-> "keepalive", value |-> v] /\ f.key = "keepalive" /\ f.value = v
      <3>1. PICK f : f = [key |-> "keepalive", value |-> v]
        OBVIOUS
      <3>2. f.key = "keepalive" /\ f.value = v
        BY <3>1
      <3> QED BY <3>1, <3>2, Zenon
    <2>2. takeField(p, f) = [p EXCEPT !.keepalive = f.value, !.ok = @ /\ f.value \in 1..255]
      BY <2>1 DEF takeField
    <2>3. PICK fine : fine = (p.ok /\ v \in 1..255)
      OBVIOUS
    <2>4. PICK q : q = [p EXCEPT !.keepalive = v]
      OBVIOUS
    <2>5. q.ok = p.ok /\ Says(q, h, e, a, v) /\ "ok" \in DOMAIN q
      BY <1>0, <2>4 DEF Says
    <2>6. takeField(p, f) = [q EXCEPT !.ok = fine]
      BY <2>1, <2>2, <2>3, <2>4, <2>5
    <2>7. Says([q EXCEPT !.ok = fine], h, e, a, v)
      BY <1>0, <2>4, <2>5 DEF Says
    <2> QED BY <2>1, <2>6, <2>7, Zenon
  <1>5. Says(WithAllowed(p, v), h, e, v, k)
    BY DEF WithAllowed, Says, ParsedType
  <1>6. Says(Checked(p), h, e, a, k)
    <2>1. Says([p EXCEPT !.ok = FALSE], h, e, a, k)
      BY DEF Says, ParsedType
    <2> QED BY <2>1 DEF Checked
  <1> QED BY <1>1, <1>2, <1>3, <1>4, <1>5, <1>6

LEMMA FieldTaken ==
  ASSUME NEW s \in Seq(FieldType), NEW p, Taken(s, p), NEW key, NEW value,
         [key |-> key, value |-> value] \in FieldType
  PROVE  /\ s \o Field(key, value) \in Seq(FieldType)
         /\ p \in ParsedType
         /\ Taken(s \o Field(key, value), takeField(p, [key |-> key, value |-> value]))
  <1>1. PICK f \in FieldType : f = [key |-> key, value |-> value]
    OBVIOUS
  <1>2. Append(s, f) = s \o <<f>> /\ Append(s, f) \in Seq(FieldType)
    BY AppendIsConcat, AppendProperties
  <1>3. p \in ParsedType /\ Taken(Append(s, f), takeField(p, f))
    BY TakenNext
  <1>4. s \o Field(key, value) = Append(s, f)
    BY <1>1, <1>2, Zenon DEF Field
  <1> QED BY <1>1, <1>2, <1>3, <1>4, Zenon

(* The specification made of a peer says what the peer does, when neither the
   name nor the endpoint brings a field of its own. *)
LEMMA ImportedFields ==
  ASSUME NEW peer \in FilePeer, peer.pub # <<>>, NEW n \in NameType,
         n.after = <<>>, peer.after = <<>>
  PROVE  Says(ParsePeerSpec(peerFields(peer, n)), peer.pub, parseEndpoint(peer.endpoint),
              MaskedAll(peer.allowed), peer.keepalive)
  <1>0. \A s \in Seq(FieldType) : \A p : Taken(s, p) => p \in ParsedType
    BY TakenIn
  <1>1. /\ peer.pub \in [1..RefLen -> Byte] /\ peer.endpoint \in FileEndpoint
        /\ peer.allowed \in Seq(PrefixType) /\ peer.keepalive \in Int
    BY DEF FilePeer
  <1>2. n.text \in STRING
    BY DEF NameType
  <1>3. /\ [key |-> "label", value |-> n.text] \in FieldType
        /\ [key |-> "pubkey", value |-> peer.pub] \in FieldType
        /\ [key |-> "endpoint", value |-> peer.endpoint] \in FieldType
        /\ [key |-> "keepalive", value |-> peer.keepalive] \in FieldType
    BY <1>1, <1>2, FieldTyped
  <1>4. <<>> \in Seq(FieldType) /\ \A s \in Seq(FieldType) : s \o <<>> = s /\ <<>> \o s = s
    BY EmptySeq, ConcatEmptySeq
  <1>5. /\ Field("label", n.text) \in Seq(FieldType)
        /\ Field("endpoint", peer.endpoint) \in Seq(FieldType)
    BY <1>3, OneField
  <1>6. PICK s1 \in Seq(FieldType) : s1 = labelFields(n) /\ s1 = <<>> \o Field("label", n.text)
    BY <1>4, <1>5 DEF labelFields
  <1>7. PICK p1 : Taken(s1, p1) /\ Says(p1, <<>>, NoEndpoint, <<>>, 0)
    <2>1. Says(NoPeer, <<>>, NoEndpoint, <<>>, 0)
      BY DEF Says, NoPeer
    <2>2. Taken(<<>> \o Field("label", n.text), takeField(NoPeer, [key |-> "label", value |-> n.text]))
      BY <1>3, <1>4, TakenNone, FieldTaken
    <2>3. Says(takeField(NoPeer, [key |-> "label", value |-> n.text]), <<>>, NoEndpoint, <<>>, 0)
      BY <2>1, NoPeerTyped, FieldSays
    <2> QED BY <1>6, <2>2, <2>3, Zenon
  <1>8. PICK s2 \in Seq(FieldType), p2 \in ParsedType :
          /\ s2 = s1 \o Field("pubkey", peer.pub)
          /\ Taken(s2, p2) /\ Says(p2, peer.pub, NoEndpoint, <<>>, 0)
    <2>1. /\ s1 \o Field("pubkey", peer.pub) \in Seq(FieldType)
          /\ p1 \in ParsedType
          /\ Taken(s1 \o Field("pubkey", peer.pub), takeField(p1, [key |-> "pubkey", value |-> peer.pub]))
      BY <1>3, <1>7, FieldTaken
    <2>2. Says(takeField(p1, [key |-> "pubkey", value |-> peer.pub]), peer.pub, NoEndpoint, <<>>, 0)
      BY <1>7, <2>1, FieldSays
    <2> QED BY <1>0, <2>1, <2>2, Zenon
  <1>9. PICK s3 \in Seq(FieldType), p3 \in ParsedType :
          /\ s3 = s2 \o (IF peer.endpoint # NoEndpoint
                         THEN Field("endpoint", peer.endpoint) \o peer.after ELSE <<>>)
          /\ Taken(s3, p3) /\ Says(p3, peer.pub, parseEndpoint(peer.endpoint), <<>>, 0)
    <2>1. CASE peer.endpoint = NoEndpoint
      <3>1. parseEndpoint(peer.endpoint) = NoEndpoint
        BY <2>1 DEF parseEndpoint, NoEndpoint
      <3>2. s2 \o (IF peer.endpoint # NoEndpoint
                   THEN Field("endpoint", peer.endpoint) \o peer.after ELSE <<>>) = s2
        BY <1>4, <2>1, Zenon
      <3> QED BY <1>0, <1>8, <3>1, <3>2, Zenon
    <2>2. CASE peer.endpoint # NoEndpoint
      <3>1. Field("endpoint", peer.endpoint) \o peer.after = Field("endpoint", peer.endpoint)
        BY <1>4, <1>5, Zenon
      <3>2. s2 \o (IF peer.endpoint # NoEndpoint
                   THEN Field("endpoint", peer.endpoint) \o peer.after ELSE <<>>)
              = s2 \o Field("endpoint", peer.endpoint)
        BY <2>2, <3>1, Zenon
      <3>3. /\ s2 \o Field("endpoint", peer.endpoint) \in Seq(FieldType)
            /\ p2 \in ParsedType
            /\ Taken(s2 \o Field("endpoint", peer.endpoint),
                     takeField(p2, [key |-> "endpoint", value |-> peer.endpoint]))
        BY <1>3, <1>8, FieldTaken
      <3>4. Says(takeField(p2, [key |-> "endpoint", value |-> peer.endpoint]),
                 peer.pub, parseEndpoint(peer.endpoint), <<>>, 0)
        BY <1>8, <3>3, FieldSays
      <3> QED BY <1>0, <3>2, <3>3, <3>4, Zenon
    <2> QED BY <2>1, <2>2
  <1>10. PICK s4 \in Seq(FieldType), p4 \in ParsedType :
          /\ s4 = s3 \o allowedFields(peer.allowed)
          /\ Taken(s4, p4)
          /\ Says(p4, peer.pub, parseEndpoint(peer.endpoint), MaskedAll(peer.allowed), 0)
    <2>1. s3 \o allowedFields(peer.allowed) \in Seq(FieldType)
      BY <1>1, allowedTyped, ConcatProperties
    <2>2. p3.allowed = <<>> /\ p3 \in ParsedType
      BY <1>9, TakenIn DEF Says
    <2>3. Taken(s3 \o allowedFields(peer.allowed), WithAllowed(p3, MaskedAll(peer.allowed)))
      BY <1>1, <1>9, <2>2, AllowedTaken
    <2>4. Says(WithAllowed(p3, MaskedAll(peer.allowed)), peer.pub, parseEndpoint(peer.endpoint),
               MaskedAll(peer.allowed), 0)
      BY <1>9, <2>2, FieldSays
    <2> QED BY <1>0, <2>1, <2>3, <2>4, Zenon
  <1>11. PICK s5 \in Seq(FieldType), p5 \in ParsedType :
          /\ s5 = s4 \o (IF peer.keepalive # 0 THEN Field("keepalive", peer.keepalive) ELSE <<>>)
          /\ Taken(s5, p5)
          /\ Says(p5, peer.pub, parseEndpoint(peer.endpoint), MaskedAll(peer.allowed), peer.keepalive)
    <2>1. CASE peer.keepalive = 0
      <3>1. s4 \o (IF peer.keepalive # 0 THEN Field("keepalive", peer.keepalive) ELSE <<>>) = s4
        BY <1>4, <2>1, Zenon
      <3> QED BY <1>0, <1>10, <2>1, <3>1, Zenon
    <2>2. CASE peer.keepalive # 0
      <3>1. s4 \o (IF peer.keepalive # 0 THEN Field("keepalive", peer.keepalive) ELSE <<>>)
              = s4 \o Field("keepalive", peer.keepalive)
        BY <2>2, Zenon
      <3>2. /\ s4 \o Field("keepalive", peer.keepalive) \in Seq(FieldType)
            /\ p4 \in ParsedType
            /\ Taken(s4 \o Field("keepalive", peer.keepalive),
                     takeField(p4, [key |-> "keepalive", value |-> peer.keepalive]))
        BY <1>3, <1>10, FieldTaken
      <3>3. Says(takeField(p4, [key |-> "keepalive", value |-> peer.keepalive]),
                 peer.pub, parseEndpoint(peer.endpoint), MaskedAll(peer.allowed), peer.keepalive)
        BY <1>10, <3>2, FieldSays
      <3> QED BY <1>0, <3>1, <3>2, <3>3, Zenon
    <2> QED BY <2>1, <2>2
  <1>12. peerFields(peer, n) = s5
    BY <1>6, <1>8, <1>9, <1>10, <1>11, Zenon DEF peerFields
  <1>13. ParsePeerSpec(s5) = Checked(p5) /\ p5 \in ParsedType
    BY <1>11, ParseTaken, TakenIn
  <1>14. Says(Checked(p5), peer.pub, parseEndpoint(peer.endpoint), MaskedAll(peer.allowed), peer.keepalive)
    BY <1>11, <1>13, FieldSays
  <1> QED BY <1>12, <1>13, <1>14, Zenon

-----------------------------------------------------------------------------
(* The inductive invariant of a record on its way. *)

(* A record that encoding did not refuse, and for an interface what was signed:
   the record with the MAC zero. *)
Storable ==
  IF kind = "if"
  THEN /\ settings \in InterfaceType /\ Len(settings.mac) = MACLen
       /\ EncodeInterface(settings) # Refused
       /\ message = EncodeInterface([settings EXCEPT !.mac = Zeros(MACLen)])
  ELSE settings \in PeerType /\ EncodePeer(settings) # Refused

Unsigned ==
  /\ kind = "if" /\ settings \in InterfaceType /\ settings.mac = Zeros(MACLen)
  /\ raw = EncodeInterface(settings) /\ raw # Refused

HandedOver ==
  /\ raw \in Bytes
  /\ Len(raw) <= Size => Normalize(raw) = Encode(settings)
  /\ Len(raw) > Size => Normalize(raw) = Refused

(* What is true of a record in each phase. *)
RecordInv ==
  /\ kind \in {"if", "pr"}
  /\ phase \in {"idle", "refused", "unsigned", "stored", "handed", "found", "cut"}
  /\ phase = "idle" => kind = "if"
  /\ phase \in {"idle", "refused", "unsigned"} => message = <<>>
  /\ phase = "unsigned" => Unsigned
  /\ phase = "stored" => Storable /\ raw = Encode(settings)
  /\ phase = "handed" => Storable /\ HandedOver
  /\ phase \in {"found", "cut"} => raw \in Bytes

LEMMA RecordStarts == Init => RecordInv
  BY DEF Init, RecordInv

LEMMA ZeroMACIs ==
  /\ Zeros(MACLen) \in Bytes
  /\ Len(Zeros(MACLen)) = MACLen
  BY FieldLengths, ZeroBytes DEF Bytes

LEMMA EncodeUnsignedKeeps ==
  ASSUME RecordInv, NEW i \in InterfaceType, EncodeUnsigned(i)
  PROVE  RecordInv'
  <1>1. kind' = "if" /\ message' = <<>>
    BY DEF RecordInv, EncodeUnsigned
  <1>2. PICK z \in Bytes : z = Zeros(MACLen)
    BY ZeroMACIs
  <1>3. settings' = [i EXCEPT !.mac = z]
    BY <1>2, Zenon DEF EncodeUnsigned
  <1>4. settings' \in InterfaceType /\ settings'.mac = Zeros(MACLen)
    BY <1>2, <1>3 DEF InterfaceType
  <1>5. raw' = EncodeInterface(settings') /\ phase' = IF raw' = Refused THEN "refused" ELSE "unsigned"
    BY DEF EncodeUnsigned
  <1>6. phase' = "unsigned" => Unsigned'
    BY <1>1, <1>4, <1>5 DEF Unsigned
  <1> QED BY <1>1, <1>5, <1>6 DEF RecordInv

LEMMA StorePeerKeeps ==
  ASSUME RecordInv, NEW p \in PeerType, StorePeer(p)
  PROVE  RecordInv'
  <1>1. kind' = "pr" /\ message' = <<>> /\ settings' \in PeerType
    BY DEF RecordInv, StorePeer
  <1>2. raw' = EncodePeer(settings') /\ phase' = IF raw' = Refused THEN "refused" ELSE "stored"
    BY DEF StorePeer
  <1>3. phase' = "stored" => Storable' /\ raw' = Encode(settings)'
    BY <1>1, <1>2 DEF Storable, Encode
  <1> QED BY <1>1, <1>2, <1>3 DEF RecordInv

LEMMA SignKeeps ==
  ASSUME RecordInv, Sign
  PROVE  RecordInv' /\ phase' = "stored"
  <1>1. Unsigned /\ kind' = "if" /\ raw' = EncodeInterface(settings') /\ message' = ZeroMAC(raw)
    BY DEF RecordInv, Sign, Unsigned
  <1>2. PICK m \in MACs : settings' = [settings EXCEPT !.mac = m]
    BY DEF Sign
  <1>3. m \in Bytes /\ Len(m) = MACLen
    BY Inputs, FieldLengths DEF Bytes
  <1>4. PICK i \in InterfaceType : i = settings
    BY <1>1 DEF Unsigned
  <1>5. Len(i.mac) = MACLen /\ EncodeInterface(i) # Refused /\ i.mac = Zeros(MACLen)
    BY <1>1, <1>4, ZeroMACIs DEF Unsigned
  <1>6. PICK j : j = settings' /\ j = [i EXCEPT !.mac = m] /\ Resigned(j, i, m)
    BY <1>2, <1>4 DEF Resigned
  <1>7. j \in InterfaceType /\ Len(j.mac) = MACLen /\ EncodeInterface(j) # Refused
    BY <1>3, <1>5, <1>6, ResignFits
  <1>8. PICK z : z = Zeros(MACLen)
    OBVIOUS
  <1>9. [i EXCEPT !.mac = z] = i /\ [j EXCEPT !.mac = z] = i
    BY <1>5, <1>6, <1>8 DEF InterfaceType
  <1>10. ZeroMAC(EncodeInterface(i)) = EncodeInterface(i)
    BY <1>5, <1>8, <1>9, BlankedIsUnsigned
  <1>11. message' = EncodeInterface(i)
    BY <1>1, <1>4, <1>10, Zenon DEF Unsigned
  <1>12. phase' = "stored"
    BY <1>1, <1>6, <1>7 DEF Sign
  <1>13. Storable'
    BY <1>1, <1>6, <1>7, <1>8, <1>9, <1>11 DEF Storable
  <1>14. raw' = Encode(settings)'
    BY <1>1 DEF Encode
  <1> QED BY <1>1, <1>12, <1>13, <1>14 DEF RecordInv

(* What is in the device decodes and encodes; this is where the bytes come from. *)
LEMMA StorableBytes ==
  ASSUME Storable
  PROVE  Encode(settings) \in Bytes /\ Len(Encode(settings)) = Size
  <1>1. CASE kind = "if"
    <2>1. Encode(settings) = EncodeInterface(settings)
      BY <1>1 DEF Encode
    <2>2. /\ settings \in InterfaceType /\ Len(settings.mac) \in {0, MACLen}
          /\ EncodeInterface(settings) # Refused
      BY <1>1 DEF Storable
    <2> QED BY <2>1, <2>2, InterfaceIsRead
  <1>2. CASE kind # "if"
    <2>1. Encode(settings) = EncodePeer(settings)
      BY <1>2 DEF Encode
    <2>2. settings \in PeerType /\ EncodePeer(settings) # Refused
      BY <1>2 DEF Storable
    <2> QED BY <2>1, <2>2, PeerIsRead
  <1> QED BY <1>1, <1>2

LEMMA HandBackKeeps ==
  ASSUME RecordInv, HandBack
  PROVE  RecordInv'
  <1>1. Storable /\ raw = Encode(settings)
    BY DEF RecordInv, HandBack
  <1>2. UNCHANGED <<kind, settings, message>> /\ phase' = "handed"
    BY DEF HandBack
  <1>3. PICK c \in Bytes : c = raw /\ c = Encode(settings) /\ Len(c) = Size
    BY <1>1, StorableBytes
  <1>4. PICK n, b : b = raw' /\ HandedBack(b, c, n)
    BY <1>3 DEF HandBack, HandedBack
  <1>5. /\ b \in Bytes
        /\ Len(b) <= Size => Normalize(b) = c
        /\ Len(b) > Size => Normalize(b) = Refused
    BY <1>3, <1>4, NormalizeHanded
  <1>6. Encode(settings)' = c
    BY <1>2, <1>3 DEF Encode
  <1>7. HandedOver'
    BY <1>4, <1>5, <1>6 DEF HandedOver
  <1>8. Storable'
    BY <1>1, <1>2 DEF Storable
  <1> QED BY <1>2, <1>7, <1>8 DEF RecordInv

LEMMA FoundKeeps ==
  ASSUME RecordInv, FoundHeader \/ FoundItem \/ FoundCut
  PROVE  RecordInv' /\ phase' \in {"found", "cut"}
  <1>1. CASE FoundHeader
    <2>1. raw' \in Bytes /\ kind' \in {"if", "pr"} /\ phase' = "found"
      BY <1>1, Inputs DEF FoundHeader
    <2> QED BY <2>1 DEF RecordInv
  <1>2. CASE FoundItem
    <2>1. raw \in Seq(Byte) /\ UNCHANGED <<phase, kind>> /\ phase = "found"
      BY <1>2 DEF RecordInv, FoundItem, Bytes
    <2>0. PICK n \in 0..MaxValue : \E tag \in Tags, value \in [1..n -> Values] :
            raw' = raw \o <<tag, n>> \o value
      BY <1>2 DEF FoundItem
    <2>2. PICK tag \in Tags, value \in [1..n -> Values] : raw' = raw \o <<tag, n>> \o value
      BY <2>0
    <2>3. n \in Byte /\ n \in Nat
      BY <2>2, Inputs DEF Byte
    <2>4. tag \in Byte
      BY <2>2 DEF Tags, Byte, TagMAC
    <2>5. <<tag, n>> \in Seq(Byte)
      BY <2>3, <2>4
    <2>6. value \in Seq(Byte)
      <3>1. value \in [1..n -> Byte]
        BY <2>2, Inputs
      <3> QED BY <2>3, <3>1
    <2>7. raw \o <<tag, n>> \o value \in Seq(Byte)
      BY <2>1, <2>5, <2>6, ConcatProperties
    <2> QED BY <2>1, <2>2, <2>7 DEF RecordInv, Bytes
  <1>3. CASE FoundCut
    <2>1. raw \in Seq(Byte) /\ UNCHANGED kind /\ phase' = "cut"
      BY <1>3 DEF RecordInv, FoundCut, Bytes
    <2>2. PICK n \in 1..MaxValue + 1 : raw' = SubSeq(raw, 1, Len(raw) - n)
      BY <1>3 DEF FoundCut
    <2>3. PICK k \in Int : k = Len(raw) - n /\ k <= Len(raw)
      <3>1. Len(raw) - n \in Int /\ Len(raw) - n <= Len(raw)
        BY <2>1, <2>2, Inputs DEF Byte
      <3> QED BY <3>1, Zenon
    <2>4. SubSeq(raw, 1, k) \in Seq(Byte)
      BY <2>1, <2>3
    <2> QED BY <2>1, <2>2, <2>3, <2>4 DEF RecordInv, Bytes
  <1> QED BY <1>1, <1>2, <1>3

(* Every step of a record on its way keeps the invariant. *)
LEMMA RecordKeeps ==
  ASSUME RecordInv, Next
  PROVE  RecordInv'
  <1>1. ASSUME NEW i \in Interfaces, EncodeUnsigned(i) PROVE RecordInv'
    BY <1>1, Inputs, EncodeUnsignedKeeps
  <1>2. ASSUME NEW p \in Peers, StorePeer(p) PROVE RecordInv'
    BY <1>2, Inputs, StorePeerKeeps
  <1> QED BY <1>1, <1>2, SignKeeps, HandBackKeeps, FoundKeeps DEF Next


(* What is read back from the device, when it can be read. *)
LEMMA HandedIsRead ==
  ASSUME RecordInv, phase = "handed", Len(raw) <= Size
  PROVE  Decode(Normalize(raw)) = [ok |-> TRUE, val |-> Grouped]
  <1>1. Storable /\ Normalize(raw) = Encode(settings)
    BY DEF RecordInv, HandedOver
  <1>2. CASE kind = "if"
    <2>1. /\ settings \in InterfaceType /\ Len(settings.mac) \in {0, MACLen}
          /\ EncodeInterface(settings) # Refused
      BY <1>1, <1>2 DEF Storable
    <2>2. DecodeInterface(EncodeInterface(settings)) = [ok |-> TRUE, val |-> GroupedInterface(settings)]
      BY <2>1, InterfaceIsRead
    <2>3. Grouped = GroupedInterface(settings)
      BY <1>2, Zenon DEF Grouped, GroupedInterface
    <2> QED BY <1>1, <1>2, <2>2, <2>3, Zenon DEF Decode, Encode
  <1>3. CASE kind # "if"
    <2>1. settings \in PeerType /\ EncodePeer(settings) # Refused
      BY <1>1, <1>3 DEF Storable
    <2>2. DecodePeer(EncodePeer(settings)) = [ok |-> TRUE, val |-> GroupedPeer(settings)]
      BY <2>1, PeerIsRead
    <2>3. Grouped = GroupedPeer(settings)
      BY <1>3, Zenon DEF Grouped, GroupedPeer
    <2> QED BY <1>1, <1>3, <2>2, <2>3, Zenon DEF Decode, Encode
  <1> QED BY <1>2, <1>3

LEMMA ShowsWrittenIsRead ==
  ASSUME RecordInv
  PROVE  WrittenIsRead
  <1> SUFFICES ASSUME phase = "handed"
               PROVE  IF Len(raw) > Size THEN Normalize(raw) = Refused
                      ELSE Decode(Normalize(raw)).ok /\ Decode(Normalize(raw)).val = Grouped
    BY DEF WrittenIsRead
  <1>1. HandedOver
    BY DEF RecordInv
  <1>2. PICK n \in Nat : n = Len(raw)
    BY <1>1 DEF HandedOver, Bytes
  <1>3. CASE n > Size
    BY <1>1, <1>2, <1>3 DEF HandedOver
  <1>4. CASE ~(n > Size)
    <2>1. Len(raw) <= Size
      BY <1>2, <1>4, LengthsApart
    <2>2. PICK d : d = Decode(Normalize(raw)) /\ d = [ok |-> TRUE, val |-> Grouped]
      BY <2>1, HandedIsRead, Zenon
    <2>3. d.ok /\ d.val = Grouped
      BY <2>2
    <2> QED BY <1>2, <1>4, <2>2, <2>3, Zenon
  <1> QED BY <1>3, <1>4

LEMMA ShowsOneEncoding ==
  ASSUME RecordInv
  PROVE  OneEncoding
  <1> SUFFICES ASSUME phase \in {"found", "cut"}, Normalize(raw) # Refused, Decode(Normalize(raw)).ok
               PROVE  Encode(Decode(Normalize(raw)).val) = Normalize(raw)
    BY DEF OneEncoding
  <1>1. raw \in Bytes
    BY DEF RecordInv
  <1>2. PICK b \in Bytes : b = Normalize(raw) /\ Len(b) = Size
    BY <1>1, NormalizeTyped
  <1>3. CASE kind = "if"
    <2>1. DecodeInterface(b).ok
      BY <1>2, <1>3, Zenon DEF Decode
    <2>2. EncodeInterface(DecodeInterface(b).val) = b
      BY <1>2, <2>1, InterfaceOnce
    <2> QED BY <1>2, <1>3, <2>2, Zenon DEF Decode, Encode
  <1>4. CASE kind # "if"
    <2>1. DecodePeer(b).ok
      BY <1>2, <1>4, Zenon DEF Decode
    <2>2. EncodePeer(DecodePeer(b).val) = b
      BY <1>2, <2>1, PeerOnce
    <2> QED BY <1>2, <1>4, <2>2, Zenon DEF Decode, Encode
  <1> QED BY <1>3, <1>4

LEMMA ShowsVerifies ==
  ASSUME RecordInv
  PROVE  VerifiesWhatWasSigned
  <1>1. phase = "refused" => message = <<>>
    BY DEF RecordInv
  <1>2. ASSUME phase = "handed", kind = "if", Len(raw) <= Size
        PROVE  ZeroMAC(Normalize(raw)) = message
    <2>1. Storable /\ Normalize(raw) = EncodeInterface(settings)
      BY <1>2 DEF RecordInv, HandedOver, Encode
    <2>2. /\ settings \in InterfaceType /\ Len(settings.mac) = MACLen
          /\ EncodeInterface(settings) # Refused
          /\ message = EncodeInterface([settings EXCEPT !.mac = Zeros(MACLen)])
      BY <1>2, <2>1 DEF Storable
    <2>3. ZeroMAC(EncodeInterface(settings)) = EncodeInterface([settings EXCEPT !.mac = Zeros(MACLen)])
      BY <2>2, BlankedIsUnsigned
    <2> QED BY <2>1, <2>2, <2>3, Zenon
  <1> QED BY <1>1, <1>2 DEF VerifiesWhatWasSigned

-----------------------------------------------------------------------------
(* The inductive invariant of an import. *)

(* wgconf.Conf. *)
ConfType ==
  [addrs : Seq(PrefixType), dns : Seq(Bytes), mtu : Int, port : Int,
   peer : {p \in FilePeer : p.pub # <<>>}]

(* The parameters are the file's, and Validate passed. *)
AsInFile ==
  /\ params.addrs = conf.addrs /\ params.dns = conf.dns
  /\ params.mtu = conf.mtu /\ params.port = conf.port
  /\ params.peer = ParsePeerSpec(peerFields(conf.peer, name))
  /\ params.psk \in BOOLEAN

Converted == AsInFile /\ Validate(params)

(* The settings are what the parameters say, the MAC and the wrapped key apart. *)
FromParams ==
  IF kind = "if"
  THEN settings = [interfaceRecord(params) EXCEPT !.mac = settings.mac]
  ELSE settings = peerRecord(params.peer, settings.psk) /\ phase # "refused"

ImportInv ==
  /\ RecordInv
  /\ stage \in {"none", "refused", "read", "flags", "window", "valid", "written"}
  /\ stage \in {"read", "flags", "window", "valid"} => phase = "idle"
  /\ stage \in {"read", "flags", "window", "valid", "written"} => conf \in ConfType
  /\ stage \in {"flags", "window", "valid", "written"} => name \in NameType
  /\ stage \in {"valid", "written"} => Converted
  /\ stage = "written" =>
       phase \in {"unsigned", "stored", "handed", "refused"} /\ FromParams

LEMMA ImportStarts == ImportInit => ImportInv
  BY RecordStarts DEF ImportInit, ImportInv

(* A step of the import that leaves the record alone. *)
LEMMA RecordStays ==
  ASSUME RecordInv, UNCHANGED vars
  PROVE  RecordInv'
  BY DEF RecordInv, vars, Unsigned, Storable, HandedOver, Encode

LEMMA ParseTyped ==
  ASSUME NEW f \in FileType, Parse(f) # Nothing
  PROVE  Parse(f) \in ConfType
  <1>1. /\ f.addrs \in Seq(PrefixType) /\ f.dns \in Seq(Bytes) /\ f.mtu \in Int /\ f.port \in Int
        /\ f.peers \in Seq(FilePeer)
    BY DEF FileType
  <1>2. /\ Len(f.peers) = 1 /\ f.peers[1].pub # <<>>
        /\ Parse(f) = [addrs |-> f.addrs, dns |-> f.dns, mtu |-> f.mtu, port |-> f.port,
                       peer |-> f.peers[1]]
    BY Zenon DEF Parse
  <1>3. f.peers[1] \in FilePeer
    <2>1. 1 \in 1..Len(f.peers)
      BY <1>2
    <2> QED BY <1>1, <2>1, ElementOfSeq
  <1> QED BY <1>1, <1>2, <1>3 DEF ConfType

LEMMA ReadFileKeeps ==
  ASSUME ImportInv, ReadFile
  PROVE  ImportInv'
  <1>1. RecordInv'
    BY RecordStays DEF ImportInv, ReadFile
  <1>2. PICK f \in Files : conf' = Parse(f)
    BY DEF ReadFile
  <1>3. conf' # Nothing => conf' \in ConfType
    BY <1>2, ImportInputs, ParseTyped
  <1>4. stage' = (IF conf' = Nothing THEN "refused" ELSE "read") /\ phase' = "idle"
    BY DEF ReadFile, vars
  <1> QED BY <1>1, <1>3, <1>4 DEF ImportInv

LEMMA NamedKeeps ==
  ASSUME ImportInv, NameByFlag \/ NameAsked
  PROVE  ImportInv'
  <1>1. UNCHANGED <<conf, vars>> /\ stage = "read" /\ stage' \in {"flags", "window"} /\ name' \in Names
    BY DEF NameByFlag, NameAsked
  <1>2. RecordInv' /\ phase' = "idle" /\ conf' \in ConfType
    BY <1>1, RecordStays DEF ImportInv, vars
  <1>3. name' \in NameType
    BY <1>1, ImportInputs DEF NameType
  <1> QED BY <1>1, <1>2, <1>3 DEF ImportInv

LEMMA FlagsSame ==
  ASSUME NEW c, NEW n, NEW psk \in BOOLEAN, NEW p, p \in {fromFlags(c, n, psk), FromConf(c, n)}
  PROVE  /\ p.addrs = c.addrs /\ p.dns = c.dns /\ p.mtu = c.mtu /\ p.port = c.port
         /\ p.peer = ParsePeerSpec(peerFields(c.peer, n))
         /\ p.psk \in BOOLEAN
  <1>1. CASE p = FromConf(c, n)
    BY <1>1 DEF FromConf
  <1>2. CASE p = fromFlags(c, n, psk)
    <2>1. ASSUME NEW v
          PROVE  LET given == IF v # 0 THEN <<v>> ELSE <<>>
                 IN  (IF given = <<>> THEN 0 ELSE given[1]) = v
      <3>1. CASE v = 0
        BY <3>1
      <3>2. CASE v # 0
        <4>1. <<v>> # <<>> /\ <<v>>[1] = v
          OBVIOUS
        <4> QED BY <3>2, <4>1, Zenon
      <3> QED BY <3>1, <3>2
    <2>2. PICK flag : flag = [mtu |-> IF c.mtu # 0 THEN <<c.mtu>> ELSE <<>>,
                              port |-> IF c.port # 0 THEN <<c.port>> ELSE <<>>]
      OBVIOUS
    <2>3. /\ flag.mtu = IF c.mtu # 0 THEN <<c.mtu>> ELSE <<>>
          /\ flag.port = IF c.port # 0 THEN <<c.port>> ELSE <<>>
      BY <2>2
    <2>4. /\ (IF flag.mtu = <<>> THEN 0 ELSE flag.mtu[1]) = c.mtu
          /\ (IF flag.port = <<>> THEN 0 ELSE flag.port[1]) = c.port
      BY <2>1, <2>3, Zenon
    <2>5. p = [addrs |-> c.addrs, dns |-> c.dns,
               mtu |-> IF flag.mtu = <<>> THEN 0 ELSE flag.mtu[1],
               port |-> IF flag.port = <<>> THEN 0 ELSE flag.port[1],
               label |-> "wg-hem identity", peer |-> ParsePeerSpec(peerFields(c.peer, n)), psk |-> psk]
      BY <1>2, <2>2, Zenon DEF fromFlags
    <2>6. p = [addrs |-> c.addrs, dns |-> c.dns, mtu |-> c.mtu, port |-> c.port,
               label |-> "wg-hem identity", peer |-> ParsePeerSpec(peerFields(c.peer, n)), psk |-> psk]
      BY <2>4, <2>5, Zenon
    <2> QED BY <2>6
  <1> QED BY <1>1, <1>2

LEMMA ToParamsKeeps ==
  ASSUME ImportInv, ToParams
  PROVE  ImportInv'
  <1>1. /\ UNCHANGED <<conf, name, vars>> /\ stage \in {"flags", "window"}
        /\ stage' = IF Validate(params') THEN "valid" ELSE "refused"
        /\ \E psk \in BOOLEAN : params' \in {fromFlags(conf, name, psk), FromConf(conf, name)}
    BY DEF ToParams
  <1>2. RecordInv' /\ phase' = "idle" /\ conf' \in ConfType /\ name' \in NameType
    BY <1>1, RecordStays DEF ImportInv, vars
  <1>3. PICK psk \in BOOLEAN : params' \in {fromFlags(conf, name, psk), FromConf(conf, name)}
    BY <1>1
  <1>4. /\ params'.addrs = conf.addrs /\ params'.dns = conf.dns
        /\ params'.mtu = conf.mtu /\ params'.port = conf.port
        /\ params'.peer = ParsePeerSpec(peerFields(conf.peer, name))
        /\ params'.psk \in BOOLEAN
    BY <1>3, FlagsSame
  <1>5. AsInFile'
    BY <1>1, <1>4, Zenon DEF AsInFile
  <1>6. stage' = "valid" => Converted'
    BY <1>1, <1>5 DEF Converted
  <1> QED BY <1>1, <1>2, <1>6 DEF ImportInv

LEMMA WrapFailsKeeps ==
  ASSUME ImportInv, WrapFails
  PROVE  ImportInv'
  BY RecordStays DEF ImportInv, WrapFails

(* What Validate let through is what the record's fields can hold. *)
LEMMA ConvertedPeer ==
  ASSUME conf \in ConfType, name \in NameType, Converted
  PROVE  /\ params.peer.pub \in [1..RefLen -> Byte] /\ params.peer.endpoint \in EndpointType
         /\ params.peer.allowed \in Seq(PrefixType) /\ params.peer.keepalive \in Byte
  <1>1. PICK s \in Seq(FieldType) : s = peerFields(conf.peer, name)
    <2>1. conf.peer \in FilePeer /\ conf.peer.pub # <<>>
      BY DEF ConfType
    <2> QED BY <2>1, FieldsTyped
  <1>2. PICK q : q = params.peer /\ q = ParsePeerSpec(s) /\ q.ok
    <2>1. Validate(params) /\ params.peer = ParsePeerSpec(peerFields(conf.peer, name))
      BY DEF Converted, AsInFile
    <2>2. params.peer.ok
      BY <2>1 DEF Validate
    <2> QED BY <1>1, <2>1, <2>2, Zenon
  <1>3. /\ q.pub \in [1..RefLen -> Byte] /\ q.endpoint \in EndpointType
        /\ q.allowed \in Seq(PrefixType) /\ q.keepalive \in Byte
    BY <1>2, SpecTyped
  <1> QED BY <1>2, <1>3, Zenon

LEMMA uint16Typed ==
  ASSUME NEW n \in Int
  PROVE  uint16(n) \in Uint16s
  BY DEF uint16, Uint16s

LEMMA ConvertedInterface ==
  ASSUME conf \in ConfType, name \in NameType, Converted
  PROVE  interfaceRecord(params) \in InterfaceType
  <1>1. /\ params.addrs \in Seq(PrefixType) /\ params.dns \in Seq(Bytes)
        /\ params.mtu \in Int /\ params.port \in Int
    BY DEF Converted, AsInFile, ConfType
  <1>2. uint16(params.mtu) \in Uint16s /\ uint16(params.port) \in Uint16s
    BY <1>1, uint16Typed
  <1>3. PICK r \in Seq([1..RefLen -> Byte]) : r = <<params.peer.pub>>
    <2>1. params.peer.pub \in [1..RefLen -> Byte]
      BY ConvertedPeer
    <2>2. \A X : \A x \in X : <<x>> \in Seq(X)
      OBVIOUS
    <2> QED BY <2>1, <2>2, Zenon
  <1>4. <<>> \in Bytes
    BY DEF Bytes
  <1>5. interfaceRecord(params) =
          [addrs |-> params.addrs, mtu |-> uint16(params.mtu), dns |-> params.dns, refs |-> r,
           port |-> uint16(params.port), mac |-> <<>>]
    BY <1>3, Zenon DEF interfaceRecord
  <1> QED BY <1>1, <1>2, <1>4, <1>5 DEF InterfaceType

(* The wrapped key is as long as the zeros Validate tried, so the peer fits. *)
LEMMA WrappedFits ==
  ASSUME conf \in ConfType, name \in NameType, Converted, NEW w \in WrapPSK(params.psk)
  PROVE  peerRecord(params.peer, w) \in PeerType /\ EncodePeer(peerRecord(params.peer, w)) # Refused
  <1>1. PICK q : q = params.peer
    OBVIOUS
  <1>2. q.endpoint \in EndpointType /\ q.allowed \in Seq(PrefixType) /\ q.keepalive \in Byte
    BY <1>1, ConvertedPeer, Zenon
  <1>3. EncodePeer(peerRecord(q, IF params.psk THEN Zeros(PSKWrappedLen) ELSE <<>>)) # Refused
    <2>1. Validate(params)
      BY DEF Converted
    <2>2. EncodePeer(peerRecord(params.peer, IF params.psk THEN Zeros(PSKWrappedLen) ELSE <<>>)) # Refused
      BY <2>1 DEF Validate
    <2> QED BY <1>1, <2>2, Zenon
  <1>4. ASSUME w \in Bytes PROVE peerRecord(q, w) \in PeerType
    BY <1>2, <1>4 DEF peerRecord, PeerType
  <1>5. CASE params.psk
    <2>1. w \in Bytes /\ Len(w) = PSKWrappedLen
      BY <1>5, ImportInputs DEF WrapPSK
    <2>2. PICK z \in Bytes : z = Zeros(PSKWrappedLen) /\ Len(z) = PSKWrappedLen
      BY FieldLengths, ZeroBytes DEF Bytes
    <2>3. EncodePeer(peerRecord(q, z)) # Refused
      BY <1>3, <1>5, <2>2, Zenon
    <2>4. EncodePeer(peerRecord(q, w)) # Refused
      BY <1>2, <2>1, <2>2, <2>3, PeerRoom
    <2> QED BY <1>1, <1>4, <2>1, <2>4, Zenon
  <1>6. CASE ~params.psk
    <2>1. w = <<>> /\ w \in Bytes
      BY <1>6 DEF WrapPSK, Bytes
    <2>2. EncodePeer(peerRecord(q, w)) # Refused
      BY <1>3, <1>6, <2>1, Zenon
    <2> QED BY <1>1, <1>4, <2>1, <2>2, Zenon
  <1> QED BY <1>5, <1>6

LEMMA ProvisionKeeps ==
  ASSUME ImportInv, Provision
  PROVE  ImportInv'
  <1>1. /\ stage = "valid" /\ stage' = "written" /\ UNCHANGED <<conf, name, params>>
        /\ RecordInv /\ conf \in ConfType /\ name \in NameType /\ Converted
    BY DEF ImportInv, Provision
  <1>2. conf' \in ConfType /\ name' \in NameType /\ Converted'
    BY <1>1 DEF Converted, AsInFile
  <1>3. CASE EncodeUnsigned(interfaceRecord(params))
    <2>1. PICK i \in InterfaceType : i = interfaceRecord(params) /\ EncodeUnsigned(i)
      BY <1>1, <1>3, ConvertedInterface
    <2>2. RecordInv'
      BY <1>1, <2>1, EncodeUnsignedKeeps
    <2>3. kind' = "if" /\ phase' \in {"unsigned", "refused"}
      BY <1>1, <2>1 DEF EncodeUnsigned, RecordInv
    <2>4. PICK z : z = Zeros(MACLen) /\ settings' = [i EXCEPT !.mac = z]
      BY <2>1, Zenon DEF EncodeUnsigned
    <2>5. settings'.mac = z
      BY <2>4 DEF InterfaceType
    <2>6. settings' = [interfaceRecord(params') EXCEPT !.mac = settings'.mac]
      BY <1>1, <2>1, <2>4, <2>5, Zenon
    <2>7. FromParams'
      BY <2>3, <2>6, Zenon DEF FromParams
    <2> QED BY <1>1, <1>2, <2>2, <2>3, <2>7 DEF ImportInv
  <1>4. ASSUME NEW w \in WrapPSK(params.psk), StorePeer(peerRecord(params.peer, w)) PROVE ImportInv'
    <2>1. PICK p \in PeerType : p = peerRecord(params.peer, w) /\ EncodePeer(p) # Refused /\ StorePeer(p)
      BY <1>1, <1>4, WrappedFits
    <2>2. RecordInv'
      BY <1>1, <2>1, StorePeerKeeps
    <2>3. kind' = "pr" /\ phase' = "stored" /\ settings' = p
      BY <2>1 DEF StorePeer
    <2>4. p.psk = w
      BY <2>1 DEF peerRecord
    <2>5. settings' = peerRecord(params'.peer, settings'.psk)
      BY <1>1, <2>1, <2>3, <2>4, Zenon
    <2>6. FromParams'
      BY <2>3, <2>5 DEF FromParams
    <2> QED BY <1>1, <1>2, <2>2, <2>3, <2>6 DEF ImportInv
  <1> QED BY <1>3, <1>4 DEF Provision

LEMMA RecordStepKeeps ==
  ASSUME ImportInv, RecordStep
  PROVE  ImportInv'
  <1>1. stage \in {"none", "written"} /\ Next /\ UNCHANGED <<stage, conf, name, params>> /\ RecordInv
    BY DEF RecordStep, ivars, ImportInv
  <1>2. RecordInv'
    BY <1>1, RecordKeeps
  <1>3. CASE stage = "none"
    BY <1>1, <1>2, <1>3 DEF ImportInv
  <1>4. CASE stage = "written"
    <2>1. /\ conf \in ConfType /\ name \in NameType /\ Converted /\ FromParams
          /\ phase \in {"unsigned", "stored", "handed", "refused"}
      BY <1>4 DEF ImportInv
    <2>2. conf' \in ConfType /\ name' \in NameType /\ Converted'
      BY <1>1, <2>1 DEF Converted, AsInFile
    <2>3. CASE Sign
      <3>1. kind = "if" /\ kind' = "if" /\ phase' = "stored"
        BY <1>1, <2>3, SignKeeps DEF RecordInv, Sign, Unsigned
      <3>2. PICK m : settings' = [settings EXCEPT !.mac = m]
        BY <2>3 DEF Sign
      <3>3. PICK i \in InterfaceType : i = interfaceRecord(params)
        BY <2>1, ConvertedInterface
      <3>4. settings = [i EXCEPT !.mac = settings.mac]
        BY <2>1, <3>1, <3>3, Zenon DEF FromParams
      <3>5. settings' = [i EXCEPT !.mac = m] /\ settings'.mac = m
        BY <3>2, <3>4 DEF InterfaceType
      <3>6. settings' = [interfaceRecord(params') EXCEPT !.mac = settings'.mac]
        BY <1>1, <3>3, <3>5, Zenon
      <3>7. FromParams'
        BY <3>1, <3>6, Zenon DEF FromParams
      <3> QED BY <1>1, <1>2, <1>4, <2>2, <3>1, <3>7 DEF ImportInv
    <2>4. CASE HandBack
      <3>1. UNCHANGED <<kind, settings>> /\ phase' = "handed"
        BY <2>4 DEF HandBack
      <3>2. FromParams'
        BY <1>1, <2>1, <3>1 DEF FromParams
      <3> QED BY <1>1, <1>2, <1>4, <2>2, <3>1, <3>2 DEF ImportInv
    <2>5. ~FoundHeader /\ ~FoundItem /\ ~FoundCut
      BY <2>1 DEF FoundHeader, FoundItem, FoundCut
    <2> QED BY <1>1, <2>1, <2>3, <2>4, <2>5 DEF Next
  <1> QED BY <1>1, <1>3, <1>4

LEMMA ImportKeeps ==
  ASSUME ImportInv, [ImportNext]_<<vars, ivars>>
  PROVE  ImportInv'
  <1>1. CASE UNCHANGED <<vars, ivars>>
    <2>1. RecordInv'
      BY <1>1, RecordStays DEF ImportInv
    <2>2. UNCHANGED <<phase, kind, settings, message, raw, stage, conf, name, params>>
      BY <1>1 DEF vars, ivars
    <2> QED BY <2>1, <2>2 DEF ImportInv, Converted, AsInFile, FromParams
  <1> QED BY <1>1, ReadFileKeeps, NamedKeeps, ToParamsKeeps, WrapFailsKeeps, ProvisionKeeps,
             RecordStepKeeps DEF ImportNext

(* An endpoint is stored with its address unmapped and without its zone. *)
LEMMA EndpointMeant ==
  ASSUME NEW e \in FileEndpoint
  PROVE  StoredEndpoint(parseEndpoint(e)) = [e EXCEPT !.ip = AsBytes(Unmap(@))]
  <1>1. e \in EndpointType /\ (e.ip = <<>> \/ e.host = <<>>)
    BY DEF FileEndpoint
  <1>2. PICK u, a : u = Unmap(e.ip) /\ a = AsBytes(u)
    OBVIOUS
  <1>3. [e EXCEPT !.ip = AsBytes(Unmap(@))] = [e EXCEPT !.ip = a]
    BY <1>2, Zenon
  <1>4. CASE e.ip # <<>>
    <2>1. parseEndpoint(e) = [e EXCEPT !.ip = u]
      BY <1>2, <1>4, Zenon DEF parseEndpoint
    <2>2. PICK d : d = [e EXCEPT !.ip = u]
      OBVIOUS
    <2>3. d.host = <<>> /\ d.ip = u
      BY <1>1, <1>4, <2>2 DEF EndpointType
    <2>4. StoredEndpoint(d) = [d EXCEPT !.ip = a]
      BY <1>2, <2>3, Zenon DEF StoredEndpoint
    <2>5. [d EXCEPT !.ip = a] = [e EXCEPT !.ip = a]
      BY <1>1, <2>2 DEF EndpointType
    <2> QED BY <1>3, <2>1, <2>2, <2>4, <2>5, Zenon
  <1>5. CASE e.ip = <<>>
    <2>1. parseEndpoint(e) = e
      BY <1>5, Zenon DEF parseEndpoint
    <2>2. u = <<>> /\ a = <<>> /\ AsBytes(e.ip) = <<>>
      <3>1. ~(Len(<<>>) >= Len6) /\ ~(Len(<<>>) > Len6)
        BY LengthsApart
      <3> QED BY <1>2, <1>5, <3>1, Zenon DEF Unmap, AsBytes
    <2>3. StoredEndpoint(e) = [e EXCEPT !.ip = <<>>]
      <3>1. (IF e.host = <<>> THEN AsBytes(e.ip) ELSE <<>>) = <<>>
        BY <2>2, Zenon
      <3> QED BY <3>1, Zenon DEF StoredEndpoint
    <2> QED BY <1>3, <2>1, <2>2, <2>3, Zenon
  <1> QED BY <1>4, <1>5

LEMMA uint16Same ==
  ASSUME NEW n \in Uint16s
  PROVE  uint16(n) = n
  BY DEF uint16, Uint16s

LEMMA InterfaceMeant ==
  ASSUME conf \in ConfType, name \in NameType, Converted, kind = "if", FromParams,
         params.peer.pub = conf.peer.pub
  PROVE  Grouped = Meant
  <1>1. PICK i \in InterfaceType : i = interfaceRecord(params)
    BY ConvertedInterface
  <1>2. PICK m : m = settings.mac /\ settings = [i EXCEPT !.mac = m]
    BY <1>1, Zenon DEF FromParams
  <1>3. params.mtu \in Uint16s /\ params.port \in Uint16s
    BY DEF Converted, Validate
  <1>4. uint16(params.mtu) = conf.mtu /\ uint16(params.port) = conf.port
    BY <1>3, uint16Same DEF Converted, AsInFile
  <1>5. params.addrs = conf.addrs /\ params.dns = conf.dns
    BY DEF Converted, AsInFile
  <1>6. i = [addrs |-> conf.addrs, mtu |-> conf.mtu, dns |-> conf.dns, refs |-> <<conf.peer.pub>>,
             port |-> conf.port, mac |-> <<>>]
    BY <1>1, <1>4, <1>5, Zenon DEF interfaceRecord
  <1>7. settings = [addrs |-> conf.addrs, mtu |-> conf.mtu, dns |-> conf.dns,
                    refs |-> <<conf.peer.pub>>, port |-> conf.port, mac |-> m]
    BY <1>2, <1>6
  <1>8. PICK g, h : g = GroupedPrefixes(conf.addrs) /\ h = GroupedAddrs(conf.dns)
    OBVIOUS
  <1>9. Grouped = [settings EXCEPT !.addrs = g, !.dns = h]
    <2>1. settings.addrs = conf.addrs /\ settings.dns = conf.dns
      BY <1>7
    <2>2. Grouped = [settings EXCEPT !.addrs = GroupedPrefixes(settings.addrs),
                                     !.dns = GroupedAddrs(settings.dns)]
      <3>1. Grouped = GroupedInterface(settings)
        BY Zenon DEF Grouped, GroupedInterface
      <3>2. [settings EXCEPT !.addrs = GroupedPrefixes(settings.addrs)].dns = settings.dns
        BY <1>7
      <3> QED BY <3>1, <3>2 DEF GroupedInterface
    <2> QED BY <1>8, <2>1, <2>2, Zenon
  <1>10. PICK s : s = [settings EXCEPT !.addrs = g]
    OBVIOUS
  <1>11. s = [addrs |-> g, mtu |-> conf.mtu, dns |-> conf.dns,
              refs |-> <<conf.peer.pub>>, port |-> conf.port, mac |-> m]
    BY <1>7, <1>10
  <1>12. Grouped = [s EXCEPT !.dns = h]
    BY <1>9, <1>10
  <1>13. Grouped = [addrs |-> g, mtu |-> conf.mtu, dns |-> h,
                    refs |-> <<conf.peer.pub>>, port |-> conf.port, mac |-> m]
    BY <1>11, <1>12
  <1>14. Meant = [addrs |-> g, mtu |-> conf.mtu, dns |-> h,
                  refs |-> <<conf.peer.pub>>, port |-> conf.port, mac |-> m]
    BY <1>2, <1>8, Zenon DEF Meant
  <1> QED BY <1>13, <1>14, Zenon

LEMMA PeerMeant ==
  ASSUME conf \in ConfType, kind = "pr", FromParams, settings \in PeerType,
         Says(params.peer, conf.peer.pub, parseEndpoint(conf.peer.endpoint),
              MaskedAll(conf.peer.allowed), conf.peer.keepalive)
  PROVE  Grouped = Meant
  <1>1. PICK w : w = settings.psk /\ settings = peerRecord(params.peer, w)
    BY Zenon DEF FromParams
  <1>2. settings = [endpoint |-> parseEndpoint(conf.peer.endpoint), allowed |-> MaskedAll(conf.peer.allowed),
                    keepalive |-> conf.peer.keepalive, psk |-> w]
    BY <1>1, Zenon DEF peerRecord, Says
  <1>3. /\ settings.endpoint = parseEndpoint(conf.peer.endpoint)
        /\ settings.allowed = MaskedAll(conf.peer.allowed)
        /\ settings.keepalive = conf.peer.keepalive
    BY <1>2
  <1>4. Grouped = GroupedPeer(settings)
    BY Zenon DEF Grouped, GroupedPeer
  <1>5. GroupedPeer(settings) =
          [endpoint |-> StoredEndpoint(settings.endpoint), allowed |-> GroupedPrefixes(settings.allowed),
           keepalive |-> settings.keepalive, psk |-> settings.psk]
    BY PeerExcept
  <1>6. conf.peer.endpoint \in FileEndpoint
    BY DEF ConfType, FilePeer
  <1>7. StoredEndpoint(settings.endpoint) = [conf.peer.endpoint EXCEPT !.ip = AsBytes(Unmap(@))]
    BY <1>3, <1>6, EndpointMeant
  <1>8. Meant = [endpoint |-> [conf.peer.endpoint EXCEPT !.ip = AsBytes(Unmap(@))],
                 allowed |-> GroupedPrefixes(MaskedAll(conf.peer.allowed)),
                 keepalive |-> conf.peer.keepalive, psk |-> settings.psk]
    <2>1. kind # "if"
      OBVIOUS
    <2> QED BY <2>1, Zenon DEF Meant, MaskedAll
  <1> QED BY <1>3, <1>4, <1>5, <1>7, <1>8, Zenon

LEMMA ShowsImportedIsRead ==
  ASSUME ImportInv
  PROVE  ImportedIsRead
  <1> SUFFICES ASSUME stage = "written", phase = "handed", Len(raw) <= Size,
                      name.after = <<>>, conf.peer.after = <<>>
               PROVE  Decode(Normalize(raw)).ok /\ Decode(Normalize(raw)).val = Meant
    BY DEF ImportedIsRead
  <1>1. RecordInv /\ conf \in ConfType /\ name \in NameType /\ Converted /\ FromParams
    BY DEF ImportInv
  <1>2. Decode(Normalize(raw)) = [ok |-> TRUE, val |-> Grouped]
    BY <1>1, HandedIsRead
  <1>3. Says(params.peer, conf.peer.pub, parseEndpoint(conf.peer.endpoint),
             MaskedAll(conf.peer.allowed), conf.peer.keepalive)
    <2>1. conf.peer \in FilePeer /\ conf.peer.pub # <<>>
      BY <1>1 DEF ConfType
    <2>2. Says(ParsePeerSpec(peerFields(conf.peer, name)), conf.peer.pub,
               parseEndpoint(conf.peer.endpoint), MaskedAll(conf.peer.allowed), conf.peer.keepalive)
      BY <1>1, <2>1, ImportedFields
    <2>3. params.peer = ParsePeerSpec(peerFields(conf.peer, name))
      BY <1>1 DEF Converted, AsInFile
    <2> QED BY <2>2, <2>3, Zenon
  <1>4. Grouped = Meant
    <2>1. CASE kind = "if"
      <3>1. params.peer.pub = conf.peer.pub
        BY <1>3 DEF Says
      <3> QED BY <1>1, <2>1, <3>1, InterfaceMeant
    <2>2. CASE kind = "pr"
      <3>1. settings \in PeerType
        BY <1>1, <2>2 DEF RecordInv, Storable
      <3> QED BY <1>1, <1>3, <2>2, <3>1, PeerMeant
    <2> QED BY <1>1, <2>1, <2>2 DEF RecordInv
  <1>5. PICK d : d = Decode(Normalize(raw)) /\ d = [ok |-> TRUE, val |-> Meant]
    BY <1>2, <1>4, Zenon
  <1>6. d.ok /\ d.val = Meant
    BY <1>5
  <1> QED BY <1>5, <1>6, Zenon

LEMMA ShowsPeerFits ==
  ASSUME ImportInv
  PROVE  PeerFitsOnceTouched
  BY DEF ImportInv, FromParams, PeerFitsOnceTouched

-----------------------------------------------------------------------------
(* The theorems of the specification: each property follows from ImportInv, or
   of records alone from RecordInv. *)

(* ImportInv: every phase of a record, and every stage of an import, leaves
   what the encoder, the device and the two programs promise the next. *)
THEOREM ImportInductive == ImportSpec => []ImportInv
  <1>1. ImportInit => ImportInv
    BY ImportStarts
  <1>2. ImportInv /\ [ImportNext]_<<vars, ivars>> => ImportInv'
    BY ImportKeeps
  <1> QED BY <1>1, <1>2, PTL DEF ImportSpec

(* EncodeInterface, EncodePeer, the device's shortening, Normalize and the
   decoders, one after another: what encoding did not refuse is read back as it
   was meant, and a record longer than this build's size is not read. *)
THEOREM AlwaysRead == ImportSpec => []WrittenIsRead
  <1>1. ImportInv => WrittenIsRead
    BY ShowsWrittenIsRead DEF ImportInv
  <1> QED BY <1>1, ImportInductive, PTL

(* encode(decode(x)) == x, for any bytes of any origin that the decoders take. *)
THEOREM AlwaysOneEncoding == ImportSpec => []OneEncoding
  <1>1. ImportInv => OneEncoding
    BY ShowsOneEncoding DEF ImportInv
  <1> QED BY <1>1, ImportInductive, PTL

(* ZeroMAC on what the device hands back gives the bytes mac.Sign was given, and
   the second encoding, with the MAC in, is never refused. *)
THEOREM AlwaysVerifies == ImportSpec => []VerifiesWhatWasSigned
  <1>1. ImportInv => VerifiesWhatWasSigned
    BY ShowsVerifies DEF ImportInv
  <1> QED BY <1>1, ImportInductive, PTL

(* Validate leaves room for the wrapped key, so no peer record is refused once
   Run has begun to write. *)
THEOREM AlwaysFits == ImportSpec => []PeerFitsOnceTouched
  <1>1. ImportInv => PeerFitsOnceTouched
    BY ShowsPeerFits
  <1> QED BY <1>1, ImportInductive, PTL

(* From wgconf through flags or the window, ParsePeerSpec, Validate, the codec
   and the device: what is read back is what the file says. *)
THEOREM AlwaysImported == ImportSpec => []ImportedIsRead
  <1>1. ImportInv => ImportedIsRead
    BY ShowsImportedIsRead
  <1> QED BY <1>1, ImportInductive, PTL

(* Without an import, for records of the interfaces and peers alone. *)
THEOREM RecordAlone == Spec => [](WrittenIsRead /\ OneEncoding /\ VerifiesWhatWasSigned)
  <1>1. Init => RecordInv
    BY RecordStarts
  <1>2. RecordInv /\ [Next]_vars => RecordInv'
    BY RecordKeeps, RecordStays
  <1>3. RecordInv => WrittenIsRead /\ OneEncoding /\ VerifiesWhatWasSigned
    BY ShowsWrittenIsRead, ShowsOneEncoding, ShowsVerifies
  <1> QED BY <1>1, <1>2, <1>3, PTL DEF Spec
=============================================================================
