----------------------------- MODULE WireProofs -----------------------------
(***************************************************************************)
(* Theorems about module Wire, for any number of writers, any limit and    *)
(* any sizes: what the reader decodes was written, once and in order, and  *)
(* writers that keep apart lose no boundary.                               *)
(***************************************************************************)
EXTENDS Wire, SequenceTheorems, TLAPS

USE WireAssumption

Message == Writers \X Nat
Unit == [kind : {"length", "text"}, of : Message, n : Nat]

TypeOK ==
  /\ stream \in Seq(Unit)
  /\ pending \in [Writers -> Nat] /\ written \in [Writers -> Nat]
  /\ accepted \subseteq Message /\ received \in Seq(Message)
  /\ reader \in {"reading", "garbled", "ended"}

IsHeader(u) == u.kind = "length"

(* A writer's number in a message goes no further than what it has written. *)
Begun(m, a, wr) == m \in a /\ m[2] <= wr[m[1]]

(* Headers on the stream are of accepted messages, each writer's in order, *)
(* and all of them later than what has been received.                       *)
Ordered ==
  /\ \A i \in DOMAIN stream : IsHeader(stream[i]) => Begun(stream[i].of, accepted, written)
  /\ \A i \in DOMAIN received : Begun(received[i], accepted, written)
  /\ \A i, j \in DOMAIN stream :
       i < j /\ IsHeader(stream[i]) /\ IsHeader(stream[j]) /\ stream[i].of[1] = stream[j].of[1]
       => stream[i].of[2] < stream[j].of[2]
  /\ \A i \in DOMAIN received, j \in DOMAIN stream :
       IsHeader(stream[j]) /\ received[i][1] = stream[j].of[1]
       => received[i][2] < stream[j].of[2]
  /\ \A i, j \in DOMAIN received :
       i < j /\ received[i][1] = received[j][1] => received[i][2] < received[j][2]

(* The header at i is followed by its body, and that by a header or nothing. *)
Complete(s, i) ==
  /\ i + s[i].n <= Len(s)
  /\ \A k \in i + 1 .. i + s[i].n : s[k] = [s[i] EXCEPT !.kind = "text"]
  /\ i + s[i].n < Len(s) => IsHeader(s[i + s[i].n + 1])

(* The stream of writers that kept apart: frames one after the other, and   *)
(* at most one writer between the header that ends it and its body.         *)
Framed ==
  /\ reader = "reading"
  /\ stream # <<>> => IsHeader(stream[1])
  /\ \A i \in DOMAIN stream : IsHeader(stream[i]) =>
       /\ stream[i].n \in 1 .. MaxMessage
       /\ Complete(stream, i) \/ (i = Len(stream) /\ \E w \in Writers : pending[w] # 0)
  /\ \A w \in Writers : pending[w] # 0 =>
       /\ stream # <<>>
       /\ stream[Len(stream)] = [kind |-> "length", of |-> <<w, written[w]>>, n |-> pending[w]]

Apart == ~overlap => Framed

Inv == TypeOK /\ Ordered /\ Apart

(* An empty connection satisfies the invariant. *)
LEMMA InitInv == Init => Inv
  BY DEF Init, Inv, TypeOK, Ordered, Apart, Framed, Message

(* What a write puts on the stream comes after what was there. *)
LEMMA Written ==
  ASSUME NEW s \in Seq(Unit), NEW t \in Seq(Unit)
  PROVE  /\ s \o t \in Seq(Unit) /\ Len(s \o t) = Len(s) + Len(t)
         /\ \A i \in 1 .. Len(s) : (s \o t)[i] = s[i]
         /\ \A i \in 1 .. Len(t) : (s \o t)[Len(s) + i] = t[i]
  BY ConcatProperties

(* What is on the stream, and what has been received. *)
LEMMA Elements ==
  ASSUME TypeOK
  PROVE  /\ Len(stream) \in Nat /\ DOMAIN stream = 1 .. Len(stream)
         /\ Len(received) \in Nat /\ DOMAIN received = 1 .. Len(received)
         /\ \A i \in DOMAIN stream :
              /\ stream[i] \in Unit /\ stream[i].of \in Message /\ stream[i].n \in Nat
         /\ \A i \in DOMAIN received : received[i] \in Message
  <1>1. \A i \in DOMAIN stream : stream[i] \in Unit
    BY DEF TypeOK
  <1>2. \A u \in Unit : u.of \in Message /\ u.n \in Nat
    BY DEF Unit
  <1> QED BY <1>1, <1>2 DEF TypeOK

(* A message is a writer and a number. *)
LEMMA Messages == \A m \in Message : m[1] \in Writers /\ m[2] \in Nat
  BY DEF Message

(* A complete frame stays complete when the stream grows, provided that what *)
(* comes after it, if it was the last, is a header.                          *)
LEMMA CompleteGrows ==
  ASSUME NEW s \in Seq(Unit), NEW t \in Seq(Unit), NEW i \in 1 .. Len(s), Complete(s, i),
         Len(s) <= Len(t), \A k \in 1 .. Len(s) : t[k] = s[k],
         i + s[i].n = Len(s) /\ Len(s) < Len(t) => IsHeader(t[Len(s) + 1])
  PROVE  Complete(t, i)
  <1>1. Len(s) \in Nat /\ Len(t) \in Nat /\ s[i] \in Unit /\ t[i] = s[i]
    OBVIOUS
  <1>2. PICK n : n = s[i].n
    OBVIOUS
  <1>3. n \in Nat
    BY <1>1, <1>2 DEF Unit
  <1>4. i + n <= Len(s) /\ i + n <= Len(t)
    BY <1>1, <1>2, <1>3 DEF Complete
  <1>5. ASSUME NEW k \in i + 1 .. i + n PROVE t[k] = [t[i] EXCEPT !.kind = "text"]
    <2>1. k \in 1 .. Len(s)
      BY <1>1, <1>3, <1>4
    <2>2. s[k] = [s[i] EXCEPT !.kind = "text"]
      BY <1>2 DEF Complete
    <2> QED BY <1>1, <2>1, <2>2
  <1>6. ASSUME i + n < Len(t) PROVE IsHeader(t[i + n + 1])
    <2>1. CASE i + n = Len(s)
      BY <1>1, <1>2, <1>6, <2>1
    <2>2. CASE i + n < Len(s)
      <3>1. IsHeader(s[i + n + 1])
        BY <1>2, <2>2 DEF Complete
      <3>2. i + n + 1 \in 1 .. Len(s)
        BY <1>1, <1>3, <2>2
      <3> QED BY <3>1, <3>2
    <2> QED BY <1>1, <1>3, <1>4, <2>1, <2>2
  <1> QED BY <1>1, <1>2, <1>4, <1>5, <1>6 DEF Complete

(* Nor does it matter what was read before it. *)
LEMMA CompleteShifts ==
  ASSUME NEW s \in Seq(Unit), NEW t \in Seq(Unit), NEW d \in Nat, Len(s) = d + Len(t),
         \A k \in 1 .. Len(t) : t[k] = s[d + k],
         NEW i \in 1 .. Len(t), Complete(s, d + i)
  PROVE  Complete(t, i)
  <1>1. Len(t) \in Nat /\ d + i \in 1 .. Len(s) /\ t[i] = s[d + i] /\ t[i] \in Unit
    OBVIOUS
  <1>2. PICK n : n = t[i].n
    OBVIOUS
  <1>3. n \in Nat /\ s[d + i].n = n
    BY <1>1, <1>2 DEF Unit
  <1>4. i + n <= Len(t)
    BY <1>1, <1>3 DEF Complete
  <1>5. ASSUME NEW k \in i + 1 .. i + n PROVE t[k] = [t[i] EXCEPT !.kind = "text"]
    <2>1. k \in 1 .. Len(t) /\ d + k \in d + i + 1 .. d + i + n
      BY <1>1, <1>3, <1>4
    <2>2. s[d + k] = [s[d + i] EXCEPT !.kind = "text"]
      BY <1>3, <2>1 DEF Complete
    <2> QED BY <1>1, <2>1, <2>2
  <1>6. ASSUME i + n < Len(t) PROVE IsHeader(t[i + n + 1])
    <2>1. d + i + n < Len(s) /\ i + n + 1 \in 1 .. Len(t) /\ d + (i + n + 1) = d + i + n + 1
      BY <1>1, <1>3, <1>6
    <2>2. IsHeader(s[d + i + n + 1])
      BY <1>3, <2>1 DEF Complete
    <2> QED BY <2>1, <2>2
  <1> QED BY <1>1, <1>2, <1>4, <1>5, <1>6 DEF Complete

(* A message over the limit leaves the connection as it is. *)
LEMMA TooLongInv ==
  ASSUME Inv, NEW w \in Writers, NEW n \in Sizes, TooLong(w, n)
  PROVE  Inv'
  <1> USE DEF Inv
  <1>1. TypeOK'
    BY DEF TooLong, TypeOK
  <1>2. \A m \in Message : Begun(m, accepted, written) => Begun(m, accepted', written')
    BY Messages DEF TooLong, TypeOK, Begun
  <1>3. Ordered'
    BY <1>2, Elements DEF TooLong, Ordered, IsHeader
  <1>4. Apart'
    BY DEF TooLong, TypeOK, Apart, Framed, IsHeader, Complete
  <1> QED BY <1>1, <1>3, <1>4

(* A header goes on the stream. *)
LEMMA WriteHeaderInv ==
  ASSUME Inv, NEW w \in Writers, NEW n \in Sizes, WriteHeader(w, n)
  PROVE  Inv'
  <1> USE DEF Inv
  <1>1. PICK m : m = <<w, written[w] + 1>>
    OBVIOUS
  <1>2. PICK h : h = [kind |-> "length", of |-> m, n |-> n]
    OBVIOUS
  <1>3. /\ m \in Message /\ m[1] = w /\ m[2] = written[w] + 1
        /\ h \in Unit /\ h.kind = "length" /\ h.of = m /\ h.n = n
    BY <1>1, <1>2 DEF TypeOK, Message, Unit
  <1>4. /\ written' = [written EXCEPT ![w] = written[w] + 1]
        /\ accepted' = accepted \cup {m} /\ stream' = stream \o <<h>>
        /\ UNCHANGED <<received, reader>>
    BY <1>1, <1>2 DEF WriteHeader, Header, TypeOK
  <1>5. /\ Len(stream') = Len(stream) + 1 /\ stream' \in Seq(Unit)
        /\ DOMAIN stream' = 1 .. Len(stream) + 1
        /\ \A i \in 1 .. Len(stream) : stream'[i] = stream[i]
        /\ stream'[Len(stream) + 1] = h
    <2>1. <<h>> \in Seq(Unit) /\ Len(<<h>>) = 1 /\ <<h>>[1] = h
      BY <1>3
    <2> QED BY <1>4, <2>1, Written DEF TypeOK
  <1>6. TypeOK'
    <2>1. pending' \in [Writers -> Nat] /\ written' \in [Writers -> Nat]
      BY <1>4 DEF WriteHeader, TypeOK
    <2>2. accepted' \subseteq Message
      BY <1>3, <1>4 DEF TypeOK
    <2>3. received' \in Seq(Message) /\ reader' \in {"reading", "garbled", "ended"}
      BY <1>4 DEF TypeOK
    <2> QED BY <1>5, <2>1, <2>2, <2>3 DEF TypeOK
  <1>7. Ordered'
    <2>1. \A o \in Message : Begun(o, accepted, written) => Begun(o, accepted', written') /\ (o[1] = w => o[2] < m[2])
      BY <1>3, <1>4, Messages DEF TypeOK, Begun
    <2>2. Begun(m, accepted', written')
      BY <1>3, <1>4 DEF TypeOK, Begun
    <2>3. /\ \A i \in DOMAIN stream : stream[i].of \in Message
          /\ \A i \in DOMAIN received : received[i] \in Message
          /\ DOMAIN stream = 1 .. Len(stream) /\ Len(stream) \in Nat
      BY Elements
    <2>4. \A i \in DOMAIN stream' :
            \/ i = Len(stream) + 1 /\ stream'[i].of = m
            \/ i \in DOMAIN stream /\ i < Len(stream) + 1 /\ stream'[i] = stream[i]
      BY <1>3, <1>5, <2>3
    <2>5. \A i \in DOMAIN stream' : IsHeader(stream'[i]) => Begun(stream'[i].of, accepted', written')
      BY <2>1, <2>2, <2>3, <2>4 DEF Ordered, IsHeader
    <2>6. \A i \in DOMAIN received' : Begun(received'[i], accepted', written')
      BY <1>4, <2>1, <2>3 DEF Ordered
    <2>7. ASSUME NEW i \in DOMAIN stream', NEW j \in DOMAIN stream', i < j, IsHeader(stream'[i]),
                 IsHeader(stream'[j]), stream'[i].of[1] = stream'[j].of[1]
          PROVE  stream'[i].of[2] < stream'[j].of[2]
      <3>1. i \in DOMAIN stream /\ stream'[i] = stream[i] /\ IsHeader(stream[i])
        BY <1>5, <2>3, <2>4, <2>7 DEF IsHeader
      <3>2. CASE j = Len(stream) + 1 /\ stream'[j].of = m
        BY <1>3, <2>1, <2>3, <2>7, <3>1, <3>2 DEF Ordered
      <3>3. CASE j \in DOMAIN stream /\ stream'[j] = stream[j]
        BY <2>7, <3>1, <3>3 DEF Ordered, IsHeader
      <3> QED BY <2>4, <3>2, <3>3
    <2>8. ASSUME NEW i \in DOMAIN received, NEW j \in DOMAIN stream', IsHeader(stream'[j]),
                 received[i][1] = stream'[j].of[1]
          PROVE  received[i][2] < stream'[j].of[2]
      <3>1. CASE j = Len(stream) + 1 /\ stream'[j].of = m
        BY <1>3, <2>1, <2>3, <2>8, <3>1 DEF Ordered
      <3>2. CASE j \in DOMAIN stream /\ stream'[j] = stream[j]
        BY <2>8, <3>2 DEF Ordered, IsHeader
      <3> QED BY <2>4, <3>1, <3>2
    <2> QED
      BY <1>4, <2>5, <2>6, <2>7, <2>8 DEF Ordered
  <1>8. Apart'
    <2> SUFFICES ASSUME ~overlap' PROVE Framed'
      BY DEF Apart
    <2>1. Framed /\ \A v \in Writers : pending[v] = 0
      BY DEF WriteHeader, Apart
    <2>2. \A i \in DOMAIN stream : IsHeader(stream[i]) => Complete(stream', i)
      <3> SUFFICES ASSUME NEW i \in DOMAIN stream, IsHeader(stream[i]) PROVE Complete(stream', i)
        OBVIOUS
      <3>1. Complete(stream, i)
        BY <2>1 DEF Framed
      <3>2. i \in 1 .. Len(stream) /\ stream \in Seq(Unit) /\ Len(stream) <= Len(stream')
        BY <1>5, Elements DEF TypeOK
      <3>3. IsHeader(stream'[Len(stream) + 1])
        BY <1>3, <1>5 DEF IsHeader
      <3> QED
        BY <1>5, <3>1, <3>2, <3>3, CompleteGrows
    <2>3. \A v \in Writers : pending'[v] # 0 => v = w /\ pending'[w] = n
      BY <2>1 DEF WriteHeader, TypeOK
    <2>4. n \in 1 .. MaxMessage /\ pending'[w] = n /\ n # 0
      BY DEF WriteHeader, TypeOK
    <2>5. h = [kind |-> "length", of |-> <<w, written'[w]>>, n |-> pending'[w]]
      BY <1>1, <1>2, <1>4, <2>4 DEF TypeOK
    <2>6. reader' = "reading"
      BY <1>4, <2>1 DEF Framed
    <2>7. IsHeader(stream'[1])
      <3>1. CASE Len(stream) = 0
        BY <1>3, <1>5, <3>1 DEF IsHeader
      <3>2. CASE Len(stream) # 0
        <4>1. 1 \in 1 .. Len(stream) /\ stream # <<>>
          BY <3>2, Elements
        <4> QED BY <1>5, <2>1, <4>1 DEF Framed, IsHeader
      <3> QED BY <3>1, <3>2
    <2>8. ASSUME NEW i \in DOMAIN stream', IsHeader(stream'[i])
          PROVE  /\ stream'[i].n \in 1 .. MaxMessage
                 /\ Complete(stream', i) \/ (i = Len(stream') /\ \E v \in Writers : pending'[v] # 0)
      <3>1. CASE i = Len(stream) + 1
        BY <1>3, <1>5, <2>4, <3>1
      <3>2. CASE i \in DOMAIN stream
        <4>1. stream'[i] = stream[i] /\ IsHeader(stream[i])
          BY <1>5, <2>8, <3>2, Elements DEF IsHeader
        <4> QED BY <2>1, <2>2, <3>2, <4>1 DEF Framed
      <3> QED BY <1>5, <3>1, <3>2, Elements
    <2>9. \A v \in Writers : pending'[v] # 0 =>
            /\ stream' # <<>>
            /\ stream'[Len(stream')] =
                 [kind |-> "length", of |-> <<v, written'[v]>>, n |-> pending'[v]]
      BY <1>5, <2>3, <2>5, Elements
    <2> QED
      BY <2>6, <2>7, <2>8, <2>9 DEF Framed
  <1> QED BY <1>6, <1>7, <1>8

(* The body follows, of the writer's message of the moment. *)
LEMMA WriteBodyInv ==
  ASSUME Inv, NEW w \in Writers, WriteBody(w)
  PROVE  Inv'
  <1> USE DEF Inv
  <1>1. PICK p \in Nat : p = pending[w] /\ p # 0
    BY DEF WriteBody, TypeOK
  <1>2. PICK u : u = [kind |-> "text", of |-> <<w, written[w]>>, n |-> p]
    OBVIOUS
  <1>3. u \in Unit /\ u.kind = "text"
    BY <1>1, <1>2 DEF TypeOK, Unit, Message
  <1>4. /\ pending' = [pending EXCEPT ![w] = 0] /\ stream' = stream \o [i \in 1 .. p |-> u]
        /\ UNCHANGED <<written, accepted, received, reader, overlap>>
    BY <1>1, <1>2 DEF WriteBody, Body
  <1>5. /\ Len(stream') = Len(stream) + p /\ stream' \in Seq(Unit)
        /\ DOMAIN stream' = 1 .. Len(stream) + p
        /\ \A i \in 1 .. Len(stream) : stream'[i] = stream[i]
        /\ \A i \in Len(stream) + 1 .. Len(stream) + p : stream'[i] = u
    <2>1. PICK b : b = [i \in 1 .. p |-> u]
      OBVIOUS
    <2>2. b \in Seq(Unit) /\ Len(b) = p /\ \A i \in 1 .. p : b[i] = u
      BY <1>1, <1>3, <2>1
    <2>3. \A i \in 1 .. p : stream'[Len(stream) + i] = u
      BY <1>4, <2>1, <2>2, Written DEF TypeOK
    <2>4. \A i \in Len(stream) + 1 .. Len(stream) + p : i - Len(stream) \in 1 .. p /\ i = Len(stream) + (i - Len(stream))
      BY Elements
    <2>5. \A i \in Len(stream) + 1 .. Len(stream) + p : stream'[i] = u
      BY <2>3, <2>4
    <2>6. /\ Len(stream') = Len(stream) + p /\ stream' \in Seq(Unit)
          /\ \A i \in 1 .. Len(stream) : stream'[i] = stream[i]
      BY <1>4, <2>1, <2>2, Written DEF TypeOK
    <2> QED BY <2>5, <2>6
  <1>6. TypeOK'
    BY <1>4, <1>5 DEF TypeOK
  <1>7. Ordered'
    <2>1. \A i \in DOMAIN stream' : IsHeader(stream'[i]) => i \in DOMAIN stream /\ IsHeader(stream[i]) /\ stream'[i] = stream[i]
      BY <1>1, <1>3, <1>5, Elements DEF IsHeader
    <2>2. \A m : Begun(m, accepted', written') <=> Begun(m, accepted, written)
      BY <1>4 DEF Begun
    <2>3. \A i \in DOMAIN stream' : IsHeader(stream'[i]) => Begun(stream'[i].of, accepted', written')
      BY <2>1, <2>2 DEF Ordered
    <2>4. \A i \in DOMAIN received' : Begun(received'[i], accepted', written')
      BY <1>4, <2>2 DEF Ordered
    <2>5. \A i, j \in DOMAIN stream' :
            i < j /\ IsHeader(stream'[i]) /\ IsHeader(stream'[j])
            /\ stream'[i].of[1] = stream'[j].of[1] => stream'[i].of[2] < stream'[j].of[2]
      BY <2>1 DEF Ordered
    <2>6. ASSUME NEW i \in DOMAIN received, NEW j \in DOMAIN stream', IsHeader(stream'[j]),
                 received[i][1] = stream'[j].of[1]
          PROVE  received[i][2] < stream'[j].of[2]
      <3>1. j \in DOMAIN stream /\ IsHeader(stream[j]) /\ stream'[j] = stream[j]
        BY <2>1, <2>6
      <3> QED BY <2>6, <3>1 DEF Ordered
    <2>7. \A i, j \in DOMAIN received' :
            i < j /\ received'[i][1] = received'[j][1] => received'[i][2] < received'[j][2]
      BY <1>4 DEF Ordered
    <2> QED
      BY <1>4, <2>3, <2>4, <2>5, <2>6, <2>7 DEF Ordered
  <1>8. Apart'
    <2> SUFFICES ASSUME ~overlap PROVE Framed'
      BY <1>4 DEF Apart
    <2>1. Framed
      BY DEF Apart
    <2>2. /\ Len(stream) # 0 /\ Len(stream) \in DOMAIN stream
          /\ stream[Len(stream)] = [kind |-> "length", of |-> <<w, written[w]>>, n |-> p]
      BY <1>1, <2>1, Elements DEF Framed, TypeOK
    <2>3. ASSUME NEW v \in Writers, pending[v] # 0 PROVE v = w
      <3>1. stream[Len(stream)] = [kind |-> "length", of |-> <<v, written[v]>>, n |-> pending[v]]
        BY <2>1, <2>3 DEF Framed
      <3>2. <<v, written[v]>> = <<w, written[w]>>
        BY <2>2, <3>1
      <3> QED BY <3>2
    <2>4. stream[Len(stream)].n = p /\ u = [stream[Len(stream)] EXCEPT !.kind = "text"]
      BY <1>2, <2>2
    <2>5. \A i \in DOMAIN stream : IsHeader(stream[i]) => Complete(stream', i)
      <3> SUFFICES ASSUME NEW i \in DOMAIN stream, IsHeader(stream[i]) PROVE Complete(stream', i)
        OBVIOUS
      <3>1. CASE i = Len(stream)
        <4>1. stream'[i] = stream[i] /\ stream'[i].n = p /\ Len(stream') = i + p
          BY <1>5, <2>4, <3>1, Elements
        <4>2. \A k \in i + 1 .. i + p : stream'[k] = [stream'[i] EXCEPT !.kind = "text"]
          BY <1>5, <2>4, <3>1, <4>1
        <4>3. i \in Nat
          BY Elements
        <4>4. i + p <= Len(stream') /\ ~(i + p < Len(stream'))
          <5>1. PICK l : l = Len(stream') /\ l = i + p
            BY <4>1
          <5>2. i + p <= l /\ ~(i + p < l)
            BY <1>1, <4>3, <5>1
          <5> QED BY <5>1, <5>2
        <4> QED
          BY <4>1, <4>2, <4>4 DEF Complete
      <3>2. CASE i # Len(stream)
        <4>1. Complete(stream, i)
          BY <2>1, <3>2 DEF Framed
        <4>2. i + stream[i].n # Len(stream)
          <5>1. CASE stream[i].n = 0
            BY <3>2, <5>1, Elements
          <5>2. CASE stream[i].n # 0
            <6> SUFFICES ASSUME i + stream[i].n = Len(stream) PROVE FALSE
              OBVIOUS
            <6>1. Len(stream) \in i + 1 .. i + stream[i].n
              BY <5>2, Elements
            <6>2. stream[Len(stream)] = [stream[i] EXCEPT !.kind = "text"]
              BY <4>1, <6>1 DEF Complete
            <6>3. stream[i] \in Unit /\ stream[Len(stream)].kind = "length"
              BY <2>2, Elements
            <6> QED BY <6>2, <6>3 DEF Unit
          <5> QED BY <5>1, <5>2
        <4>3. i \in 1 .. Len(stream) /\ stream \in Seq(Unit) /\ Len(stream) <= Len(stream')
          BY <1>1, <1>5, Elements DEF TypeOK
        <4> QED
          BY <1>5, <4>1, <4>2, <4>3, CompleteGrows
      <3> QED BY <3>1, <3>2
    <2>6. \A i \in DOMAIN stream' : IsHeader(stream'[i]) => i \in DOMAIN stream /\ IsHeader(stream[i]) /\ stream'[i] = stream[i]
      BY <1>1, <1>3, <1>5, Elements DEF IsHeader
    <2>7. \A v \in Writers : pending'[v] = 0
      BY <1>4, <2>3 DEF TypeOK
    <2>8. stream' # <<>> /\ IsHeader(stream'[1])
      BY <1>1, <1>5, <2>1, <2>2, Elements DEF Framed, IsHeader
    <2> QED
      BY <1>4, <2>1, <2>5, <2>6, <2>7, <2>8 DEF Framed
  <1> QED BY <1>6, <1>7, <1>8
-----------------------------------------------------------------------------

(* With writers apart nothing on the stream is too long to read. *)
LEMMA TooLongToReadInv ==
  ASSUME Inv, TooLongToRead
  PROVE  Inv'
  <1> USE DEF Inv
  <1>1. TypeOK'
    BY DEF TooLongToRead, TypeOK
  <1>2. Ordered'
    <2>1. \A m : Begun(m, accepted', written') <=> Begun(m, accepted, written)
      BY DEF TooLongToRead, Begun
    <2>2. stream' = stream /\ received' = received
      BY DEF TooLongToRead
    <2> QED BY <2>1, <2>2 DEF Ordered, IsHeader
  <1>3. overlap
    <2> SUFFICES ASSUME ~overlap PROVE FALSE
      OBVIOUS
    <2>1. Framed /\ stream # <<>>
      BY DEF Apart, TooLongToRead
    <2>2. 1 \in DOMAIN stream /\ stream[1].kind = "length" /\ stream[1].n \in 1 .. MaxMessage
      BY <2>1, Elements DEF Framed, IsHeader, TypeOK
    <2> QED BY <2>2, Elements DEF TooLongToRead
  <1> QED BY <1>1, <1>2, <1>3 DEF TooLongToRead, Apart

(* A message leaves the stream with its body. *)
LEMMA ReadMsgInv ==
  ASSUME Inv, ReadMsg
  PROVE  Inv'
  <1> USE DEF Inv
  <1>1. stream # <<>> /\ 1 \in DOMAIN stream /\ stream[1] \in Unit /\ Len(stream) \in Nat
    BY Elements DEF ReadMsg, TypeOK
  <1>2. PICK n \in Nat : n = stream[1].n
    BY <1>1, Elements
  <1>3. PICK m \in Message : m = stream[1].of
    BY <1>1, Elements
  <1>4. /\ IsHeader(stream[1]) /\ n <= MaxMessage /\ Len(stream) > n
        /\ stream' = SubSeq(stream, 2 + n, Len(stream))
        /\ UNCHANGED <<pending, written, accepted, overlap>>
    BY <1>2 DEF ReadMsg, IsHeader
  <1>5. \/ received' = Append(received, m) /\ reader' = reader
        \/ received' = received /\ reader' = "garbled"
    BY <1>3 DEF ReadMsg
  <1>6. /\ stream' \in Seq(Unit) /\ Len(stream') \in Nat
        /\ Len(stream) = (1 + n) + Len(stream')
        /\ DOMAIN stream' = 1 .. Len(stream')
        /\ \A k \in 1 .. Len(stream') : stream'[k] = stream[(1 + n) + k]
    <2>1. 2 + n \in 1 .. Len(stream) + 1
      BY <1>1, <1>4
    <2>2. /\ stream' \in Seq(Unit)
          /\ Len(stream') = IF 2 + n <= Len(stream) THEN Len(stream) - (2 + n) + 1 ELSE 0
          /\ \A k \in 1 .. Len(stream) - (2 + n) + 1 : stream'[k] = stream[2 + n + k - 1]
      <3>1. 2 + n \in Int /\ Len(stream) \in Int
        BY <1>1
      <3>2. \A i \in 2 + n .. Len(stream) : stream[i] \in Unit
        <4>1. \A i \in 2 + n .. Len(stream) : i \in DOMAIN stream
          BY <1>1, Elements DEF TypeOK
        <4> QED BY <4>1, Elements DEF TypeOK
      <3>3. PICK a \in Int : a = 2 + n
        BY <3>1
      <3>4. PICK b \in Int : b = Len(stream)
        BY <3>1
      <3>5. \A i \in a .. b : stream[i] \in Unit
        BY <3>2, <3>3, <3>4
      <3>6. /\ SubSeq(stream, a, b) \in Seq(Unit)
            /\ Len(SubSeq(stream, a, b)) = IF a <= b THEN b - a + 1 ELSE 0
            /\ \A i \in 1 .. b - a + 1 : SubSeq(stream, a, b)[i] = stream[a + i - 1]
        BY <3>5, SubSeqProperties
      <3>7. stream' = SubSeq(stream, a, b)
        BY <1>4, <3>3, <3>4
      <3> QED BY <3>3, <3>4, <3>6, <3>7
    <2>3. Len(stream') = Len(stream) - (2 + n) + 1 /\ Len(stream') \in Nat
      BY <1>1, <1>4, <2>2
    <2>4. \A k \in 1 .. Len(stream') : 2 + n + k - 1 = (1 + n) + k
      BY <2>3
    <2>5. DOMAIN stream' = 1 .. Len(stream')
      BY <2>2
    <2>6. ASSUME NEW k \in 1 .. Len(stream') PROVE stream'[k] = stream[(1 + n) + k]
      BY <2>2, <2>3, <2>4
    <2>7. Len(stream) = (1 + n) + Len(stream')
      BY <1>1, <2>3
    <2> QED BY <2>2, <2>3, <2>5, <2>6, <2>7
  <1>7. \A k \in DOMAIN stream' : /\ (1 + n) + k \in DOMAIN stream /\ 1 < (1 + n) + k
                                  /\ stream'[k] = stream[(1 + n) + k]
    BY <1>1, <1>6, Elements
  <1>8. /\ received' \in Seq(Message)
        /\ \A i \in DOMAIN received' :
             \/ i \in DOMAIN received /\ received'[i] = received[i]
             \/ i = Len(received) + 1 /\ received'[i] = m
    <2>1. CASE received' = received
      BY <2>1 DEF TypeOK
    <2>2. CASE received' = Append(received, m)
      <3>1. /\ received' \in Seq(Message) /\ Len(received') = Len(received) + 1
            /\ \A i \in 1 .. Len(received) : received'[i] = received[i]
            /\ received'[Len(received) + 1] = m
        BY <2>2, AppendProperties DEF TypeOK
      <3> QED BY <3>1, Elements
    <2> QED BY <1>5, <2>1, <2>2
  <1>9. TypeOK'
    BY <1>4, <1>5, <1>6, <1>8 DEF TypeOK
  <1>10. Ordered'
    <2>1. \A o : Begun(o, accepted', written') <=> Begun(o, accepted, written)
      BY <1>4 DEF Begun
    <2>2. Begun(m, accepted, written)
      BY <1>1, <1>3, <1>4 DEF Ordered
    <2>3. \A i \in DOMAIN stream' : IsHeader(stream'[i]) => Begun(stream'[i].of, accepted', written')
      BY <1>7, <2>1 DEF Ordered
    <2>4. \A i \in DOMAIN received' : Begun(received'[i], accepted', written')
      BY <1>8, <2>1, <2>2 DEF Ordered
    <2>5. ASSUME NEW i \in DOMAIN stream', NEW j \in DOMAIN stream', i < j, IsHeader(stream'[i]),
                 IsHeader(stream'[j]), stream'[i].of[1] = stream'[j].of[1]
          PROVE  stream'[i].of[2] < stream'[j].of[2]
      <3>1. (1 + n) + i < (1 + n) + j
        BY <1>6, <2>5
      <3> QED BY <1>7, <2>5, <3>1 DEF Ordered
    <2>6. ASSUME NEW i \in DOMAIN received', NEW j \in DOMAIN stream', IsHeader(stream'[j]),
                 received'[i][1] = stream'[j].of[1]
          PROVE  received'[i][2] < stream'[j].of[2]
      <3>1. CASE i \in DOMAIN received /\ received'[i] = received[i]
        BY <1>7, <2>6, <3>1 DEF Ordered
      <3>2. CASE received'[i] = m
        BY <1>1, <1>3, <1>4, <1>7, <2>6, <3>2 DEF Ordered
      <3> QED BY <1>8, <3>1, <3>2
    <2>7. ASSUME NEW i \in DOMAIN received', NEW j \in DOMAIN received', i < j,
                 received'[i][1] = received'[j][1]
          PROVE  received'[i][2] < received'[j][2]
      <3>1. i \in DOMAIN received /\ received'[i] = received[i]
        <4>1. Len(received') <= Len(received) + 1 /\ DOMAIN received' = 1 .. Len(received')
          BY <1>5, AppendProperties, Elements DEF TypeOK
        <4> QED BY <1>8, <2>7, <4>1, Elements
      <3>2. CASE j \in DOMAIN received /\ received'[j] = received[j]
        BY <2>7, <3>1, <3>2 DEF Ordered
      <3>3. CASE received'[j] = m
        BY <1>1, <1>3, <1>4, <2>7, <3>1, <3>3 DEF Ordered
      <3> QED BY <1>8, <3>2, <3>3
    <2> QED
      BY <2>3, <2>4, <2>5, <2>6, <2>7 DEF Ordered
  <1>11. Apart'
    <2> SUFFICES ASSUME ~overlap PROVE Framed'
      BY <1>4 DEF Apart
    <2>1. Framed
      BY DEF Apart
    <2>2. n # 0 /\ Complete(stream, 1)
      BY <1>1, <1>2, <1>4, <2>1 DEF Framed
    <2>3. reader' = "reading"
      <3>1. PICK body : body = SubSeq(stream, 2, 1 + n)
        OBVIOUS
      <3>2. ASSUME NEW k \in DOMAIN body PROVE body[k] = [stream[1] EXCEPT !.kind = "text"]
        <4>1. 2 \in 1 .. Len(stream) + 1 /\ 1 + n \in 1 .. Len(stream)
          BY <1>1, <1>4, <2>2
        <4>2. /\ DOMAIN body = 1 .. n
              /\ body[k] = stream[2 + k - 1]
          BY <1>1, <1>4, <2>2, <3>1, <3>2, <4>1, SubSeqProperties DEF TypeOK
        <4>3. 2 + k - 1 \in 1 + 1 .. 1 + n
          BY <4>2
        <4> QED BY <1>2, <2>2, <4>2, <4>3 DEF Complete
      <3> QED BY <1>2, <2>1, <3>1, <3>2 DEF ReadMsg, Framed
    <2>4. stream' # <<>> => IsHeader(stream'[1])
      <3> SUFFICES ASSUME stream' # <<>> PROVE IsHeader(stream'[1])
        OBVIOUS
      <3>1. 1 \in 1 .. Len(stream') /\ 1 + n < Len(stream)
        BY <1>6
      <3>2. stream'[1] = stream[1 + n + 1]
        BY <1>6, <3>1
      <3> QED BY <1>2, <2>2, <3>1, <3>2 DEF Complete
    <2>5. ASSUME NEW i \in DOMAIN stream', IsHeader(stream'[i])
          PROVE  /\ stream'[i].n \in 1 .. MaxMessage
                 /\ Complete(stream', i) \/ (i = Len(stream') /\ \E w \in Writers : pending[w] # 0)
      <3>1. PICK d \in Nat : d = 1 + n
        OBVIOUS
      <3>2. d + i \in DOMAIN stream /\ stream'[i] = stream[d + i] /\ IsHeader(stream[d + i])
        BY <1>7, <2>5, <3>1
      <3>3. stream'[i].n \in 1 .. MaxMessage
        BY <2>1, <3>2 DEF Framed
      <3>4. CASE Complete(stream, d + i)
        <4>1. Complete(stream', i)
          BY <1>6, <3>1, <3>4, CompleteShifts DEF TypeOK
        <4> QED BY <3>3, <4>1
      <3>5. CASE d + i = Len(stream) /\ \E w \in Writers : pending[w] # 0
        <4>1. i = Len(stream')
          BY <1>6, <3>1, <3>5
        <4> QED BY <3>3, <3>5, <4>1
      <3> QED BY <2>1, <3>2, <3>4, <3>5 DEF Framed
    <2>6. ASSUME NEW w \in Writers, pending[w] # 0
          PROVE  /\ stream' # <<>>
                 /\ stream'[Len(stream')] = [kind |-> "length", of |-> <<w, written[w]>>, n |-> pending[w]]
      <3>1. IsHeader(stream[Len(stream)])
        <4>1. stream[Len(stream)] = [kind |-> "length", of |-> <<w, written[w]>>, n |-> pending[w]]
          BY <2>1, <2>6 DEF Framed
        <4> QED BY <4>1 DEF IsHeader
      <3>2. Len(stream) # 1 + n
        <4> SUFFICES ASSUME Len(stream) = 1 + n PROVE FALSE
          OBVIOUS
        <4>1. stream[Len(stream)] = [stream[1] EXCEPT !.kind = "text"]
          <5>1. Len(stream) \in 1 + 1 .. 1 + n
            BY <2>2
          <5> QED BY <1>2, <2>2, <5>1 DEF Complete
        <4> QED BY <1>1, <3>1, <4>1 DEF IsHeader, Unit
      <3>3. Len(stream') \in 1 .. Len(stream') /\ (1 + n) + Len(stream') = Len(stream)
        BY <1>6, <3>2
      <3>4. stream'[Len(stream')] = stream[Len(stream)]
        BY <1>6, <3>3
      <3>5. stream' # <<>>
        BY <3>3
      <3> QED BY <2>1, <2>6, <3>4, <3>5 DEF Framed
    <2> QED
      BY <1>4, <2>3, <2>4, <2>5, <2>6 DEF Framed
  <1> QED BY <1>9, <1>10, <1>11

(* Nothing changes when no step is taken. *)
LEMMA StutterInv == Inv /\ UNCHANGED vars => Inv'
  <1> SUFFICES ASSUME Inv, UNCHANGED vars PROVE Inv'
    OBVIOUS
  <1>1. TypeOK'
    BY DEF Inv, TypeOK, vars
  <1>2. \A m : Begun(m, accepted', written') <=> Begun(m, accepted, written)
    BY DEF Begun, vars
  <1>3. Ordered'
    BY <1>2 DEF Inv, Ordered, IsHeader, vars
  <1>4. Apart'
    BY DEF Inv, Apart, Framed, IsHeader, Complete, vars
  <1> QED BY <1>1, <1>3, <1>4 DEF Inv

(* However the writes of WriteMsg and the reads of ReadMsg interleave, the   *)
(* headers on the stream are of accepted messages in their writers' order,   *)
(* and while no message was begun within another the stream is whole frames. *)
THEOREM Invariance == Spec => []Inv
  <1>1. Inv /\ [Next]_vars => Inv'
    BY TooLongInv, WriteHeaderInv, WriteBodyInv, TooLongToReadInv, ReadMsgInv, StutterInv DEF Next
  <1> QED BY <1>1, InitInv, PTL DEF Spec

(* What ReadMsg returns and the reader decodes was accepted by WriteMsg, no  *)
(* message twice, and each writer's in the order it wrote them: whichever    *)
(* way the writers' halves of a message fall on the connection.              *)
THEOREM DecodedWasWritten == Spec => []NothingInvented
  <1>1. Inv => NothingInvented
    <2> SUFFICES ASSUME Inv PROVE NothingInvented
      OBVIOUS
    <2>1. ToSet(received) \subseteq accepted
      BY DEF Inv, Ordered, Begun, ToSet
    <2> QED BY <2>1 DEF Inv, Ordered, NothingInvented
  <1> QED BY <1>1, Invariance, PTL

(* While no message is begun within another, ReadMsg finds every boundary    *)
(* and refuses nothing that WriteMsg let through.                            *)
THEOREM ApartIsIntact == Spec => []IntactApart
  <1>1. Inv => IntactApart
    BY DEF Inv, Apart, Framed, IntactApart
  <1> QED BY <1>1, Invariance, PTL
=============================================================================
