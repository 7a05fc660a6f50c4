-------------------------------- MODULE Wire --------------------------------
(***************************************************************************)
(* One direction of the control connection (internal/ipc/transport.go):    *)
(* WriteMsg puts a length and a body on the stream in two writes, ReadMsg  *)
(* takes them off.  On the component's side the handler and the goroutines *)
(* of its run all write to the same connection (module Daemon).            *)
(*                                                                         *)
(* A write is atomic, a message is not.  The stream is a sequence of units *)
(* of header size; a body is text, so read as a length it is beyond any    *)
(* limit.                                                                  *)
(***************************************************************************)
EXTENDS Naturals, Sequences, SequencesExt

CONSTANTS
  Writers,     \* the goroutines that write to this connection
  MaxMessage,  \* maxMessage: the longest body, in units
  Sizes,       \* the lengths of what they encode
  MaxMsgs      \* bound: messages each of them writes

ASSUME WireAssumption ==
  MaxMessage \in Nat \ {0} /\ Sizes \subseteq Nat \ {0} /\ MaxMsgs \in Nat

VARIABLES
  stream,    \* what has been written and not yet read
  pending,   \* the length whose header a writer has written, 0 for none
  written,   \* messages each writer has handed to WriteMsg
  accepted,  \* the messages WriteMsg did not refuse: writer and number
  received,  \* those ReadMsg has returned and the reader could decode, in order
  reader,    \* "reading", "garbled" (could not decode one) or "ended"
  overlap    \* a message was begun while another was half written

vars == <<stream, pending, written, accepted, received, reader, overlap>>

Init ==
  /\ stream = <<>> /\ pending = [w \in Writers |-> 0] /\ written = [w \in Writers |-> 0]
  /\ accepted = {} /\ received = <<>> /\ reader = "reading"
  /\ overlap = FALSE

-----------------------------------------------------------------------------
Header(m, n) == <<[kind |-> "length", of |-> m, n |-> n]>>
Body(m, n) == [i \in 1 .. n |-> [kind |-> "text", of |-> m, n |-> n]]

(* WriteMsg refuses what is over the limit, with nothing written. *)
TooLong(w, n) ==
  /\ pending[w] = 0 /\ written[w] < MaxMsgs /\ n > MaxMessage
  /\ written' = [written EXCEPT ![w] = @ + 1]
  /\ UNCHANGED <<stream, pending, accepted, received, reader, overlap>>

(* Mutant of WriteHeader: the length counts the header too. *)
MutWriteCountsHeader(w, n) ==
  /\ pending[w] = 0 /\ written[w] < MaxMsgs /\ n < MaxMessage
  /\ written' = [written EXCEPT ![w] = @ + 1]
  /\ accepted' = accepted \cup {<<w, written'[w]>>}
  /\ stream' = stream \o Header(<<w, written'[w]>>, n + 1)
  /\ pending' = [pending EXCEPT ![w] = n]
  /\ overlap' = (overlap \/ \E v \in Writers : pending[v] # 0)
  /\ UNCHANGED <<received, reader>>

(* WriteMsg's first write. *)
WriteHeader(w, n) ==
  /\ pending[w] = 0 /\ written[w] < MaxMsgs /\ n <= MaxMessage
  /\ written' = [written EXCEPT ![w] = @ + 1]
  /\ accepted' = accepted \cup {<<w, written'[w]>>}
  /\ stream' = stream \o Header(<<w, written'[w]>>, n)
  /\ pending' = [pending EXCEPT ![w] = n]
  /\ overlap' = (overlap \/ \E v \in Writers : pending[v] # 0)
  /\ UNCHANGED <<received, reader>>

(* WriteMsg's second write. *)
WriteBody(w) ==
  /\ pending[w] # 0
  /\ stream' = stream \o Body(<<w, written[w]>>, pending[w])
  /\ pending' = [pending EXCEPT ![w] = 0]
  /\ UNCHANGED <<written, accepted, received, reader, overlap>>

-----------------------------------------------------------------------------
(* Mutant of TooLongToRead: a body of exactly the limit is refused. *)
MutReadRefusesLimit ==
  /\ reader # "ended" /\ stream # <<>>
  /\ stream[1].kind = "text" \/ stream[1].n >= MaxMessage
  /\ reader' = "ended"
  /\ UNCHANGED <<stream, pending, written, accepted, received, overlap>>

(* ReadMsg reads a length over the limit, and whoever reads gives up. *)
TooLongToRead ==
  /\ reader # "ended" /\ stream # <<>>
  /\ stream[1].kind = "text" \/ stream[1].n > MaxMessage
  /\ reader' = "ended"
  /\ UNCHANGED <<stream, pending, written, accepted, received, overlap>>

(* Mutant of ReadMsg: the body is looked at and left where it is. *)
MutReadPeeks ==
  /\ reader # "ended" /\ stream # <<>>
  /\ LET n == stream[1].n
         body == SubSeq(stream, 2, 1 + n)
     IN  /\ stream[1].kind = "length" /\ n <= MaxMessage /\ Len(stream) > n
         /\ stream' = stream /\ Len(received) < MaxMsgs + 1
         /\ IF \A i \in DOMAIN body : body[i] = [stream[1] EXCEPT !.kind = "text"]
            THEN received' = Append(received, stream[1].of) /\ UNCHANGED reader
            ELSE reader' = "garbled" /\ UNCHANGED received
  /\ UNCHANGED <<pending, written, accepted, overlap>>

(* ReadMsg returns a body, and the reader decodes it or passes over it. *)
ReadMsg ==
  /\ reader # "ended" /\ stream # <<>>
  /\ LET n == stream[1].n
         body == SubSeq(stream, 2, 1 + n)
     IN  /\ stream[1].kind = "length" /\ n <= MaxMessage /\ Len(stream) > n
         /\ stream' = SubSeq(stream, 2 + n, Len(stream))
         /\ IF \A i \in DOMAIN body : body[i] = [stream[1] EXCEPT !.kind = "text"]
            THEN received' = Append(received, stream[1].of) /\ UNCHANGED reader
            ELSE reader' = "garbled" /\ UNCHANGED received
  /\ UNCHANGED <<pending, written, accepted, overlap>>

Next ==
  \/ \E w \in Writers, n \in Sizes : TooLong(w, n) \/ WriteHeader(w, n)
  \/ \E w \in Writers : WriteBody(w)
  \/ TooLongToRead \/ ReadMsg

(* A writer that has begun goes on, and the reader reads: both are loops    *)
(* that do nothing else.                                                    *)
Spec ==
  /\ Init /\ [][Next]_vars
  /\ \A w \in Writers : WF_vars(WriteBody(w))
  /\ WF_vars(TooLongToRead \/ ReadMsg)

-----------------------------------------------------------------------------
(* Properties.                                                             *)

(* "WriteMsg frames a value so the reader knows where it ends": the reader  *)
(* never takes part of one message for another.                             *)
FramesIntact == reader # "garbled"

(* What does hold of it: as long as no two messages were written at once,   *)
(* the reader finds every boundary and refuses nothing WriteMsg let through. *)
IntactApart == ~overlap => reader = "reading"

(* What WriteMsg let through then reaches the reader, up to the very limit. *)
AllArrive == []<>(overlap \/ accepted = ToSet(received))

(* However writers get in each other's way, what the reader does decode was *)
(* written, once, and each writer's messages keep their order.              *)
NothingInvented ==
  /\ ToSet(received) \subseteq accepted
  /\ \A i, j \in DOMAIN received :
       i < j /\ received[i][1] = received[j][1] => received[i][2] < received[j][2]
=============================================================================
