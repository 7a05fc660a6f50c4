-------------------------------- MODULE HSM --------------------------------
(***************************************************************************)
(* internal/runtime/hsm.go and the seam wireguard-go reaches it through:   *)
(* the Diffie-Hellmans of the handshakes are calls to the HEM, made from   *)
(* wireguard-go's own goroutines with whatever token the session has, and  *)
(* retried; a peer's static secret is one more, made when it is put in.    *)
(* When a handshake's call has failed past its retries the tunnel is told  *)
(* to end, through a channel that holds one signal and that nobody listens *)
(* to before the interface is up.                                          *)
(***************************************************************************)
EXTENDS Integers, FiniteSets

CONSTANTS
  Workers,        \* wireguard-go's handshake goroutines
  Foreground,     \* the goroutine of Run, which puts peers in
  Retries,        \* ecdhRetries
  MaxTokens,      \* bounds: tokens issued,
  MaxFlaps,       \* times the HEM comes or goes,
  MaxHandshakes,  \* handshake messages that arrive,
  MaxPeers        \* and peers put in

VARIABLES
  token,     \* HSM.token: the number of the one last set
  call,      \* each goroutine's ecdh: where it is, the try, the token a try carries
  dead,      \* signals in the channel
  at,        \* where Run is
  walks,     \* SelectNext is WalkPeers, rather than a prompt
  watching,  \* Run's goroutine that waits for the ends is there
  ending,    \* and has closed the channel ending
  secret,    \* precomputedStaticStatic of the peer: the HEM's, or of a zero key
  hem,       \* the HEM answers
  good,      \* the tokens it accepts
  bounds     \* what the bounds count

vars == <<token, call, dead, at, walks, watching, ending, secret, hem, good, bounds>>
run == <<at, walks, watching, ending>>
outside == <<token, hem, good>>

ASSUME HSMAssumption ==
  /\ Foreground \notin Workers
  /\ Retries \in Nat \ {0} /\ MaxTokens \in Nat \ {0}
  /\ MaxFlaps \in Nat /\ MaxHandshakes \in Nat /\ MaxPeers \in Nat

Callers == Workers \cup {Foreground}

NoCall == [at |-> "idle", try |-> 0, tok |-> 0, internal |-> FALSE]
NewCall(internal) == [NoCall EXCEPT !.at = "begin", !.try = 1, !.internal = internal]

(* NewHSM, with the token the session was opened with. *)
Init ==
  /\ token = 1 /\ good = {1} /\ hem = TRUE
  /\ call = [c \in Callers |-> NoCall]
  /\ dead = 0
  /\ at = "open" /\ walks \in BOOLEAN /\ watching = FALSE /\ ending = FALSE
  /\ secret = "none"
  /\ bounds = [flaps |-> 0, handshakes |-> 0, peers |-> 0]

Counts(what) == bounds' = [bounds EXCEPT ![what] = @ + 1]

-----------------------------------------------------------------------------
(* ecdh.                                                                   *)

(* A try begins, with the token of the moment. *)
Try(c) ==
  /\ call[c].at = "begin"
  /\ call' = [call EXCEPT ![c].at = "asked", ![c].tok = token]
  /\ UNCHANGED <<dead, run, secret, outside, bounds>>

(* Mutant of Answer: the token is read once, before the loop. *)
MutAnswerKeepsToken(c) ==
  /\ call[c].at = "asked"
  /\ call' = [call EXCEPT ![c] =
       IF hem /\ @.tok \in good THEN [@ EXCEPT !.at = "ok", !.tok = 0]
       ELSE IF @.try = Retries THEN [@ EXCEPT !.at = "failed", !.tok = 0]
       ELSE [@ EXCEPT !.try = @ + 1]]
  /\ UNCHANGED <<dead, run, secret, outside, bounds>>

(* The HEM answers, refuses the token, or does not answer in ecdhTimeout;
   ecdhRetryDelay later the next try begins. *)
Answer(c) ==
  /\ call[c].at = "asked"
  /\ call' = [call EXCEPT ![c] =
       IF hem /\ @.tok \in good THEN [@ EXCEPT !.at = "ok", !.tok = 0]
       ELSE IF @.try = Retries THEN [@ EXCEPT !.at = "failed", !.tok = 0]
       ELSE [@ EXCEPT !.at = "begin", !.tok = 0, !.try = @ + 1]]
  /\ UNCHANGED <<dead, run, secret, outside, bounds>>

(* Mutant of signal: the channel has no room, and nobody may be receiving. *)
MutSignalUnbuffered == dead' = IF watching /\ ~ending THEN 1 ELSE dead

(* The send that does not wait. *)
signal == dead' = 1

(* A key in the device is tried in silence, a value read off the wire is not. *)
ECDHReturns(c) ==
  /\ IF call[c].at = "failed" /\ ~call[c].internal THEN signal ELSE UNCHANGED dead
  /\ call' = [call EXCEPT ![c] = NoCall]

-----------------------------------------------------------------------------
(* wireguard-go.                                                           *)

(* ConsumeMessageInitiation or ConsumeMessageResponse: an ephemeral. *)
Handshake(w) ==
  /\ at \notin {"open", "closed"}
  /\ call[w] = NoCall
  /\ bounds.handshakes < MaxHandshakes /\ Counts("handshakes")
  /\ call' = [call EXCEPT ![w] = NewCall(FALSE)]
  /\ UNCHANGED <<dead, run, secret, outside>>

(* The handshake goes on, or the message is dropped. *)
Consumed(w) ==
  /\ call[w].at \in {"ok", "failed"}
  /\ ECDHReturns(w)
  /\ UNCHANGED <<run, secret, outside, bounds>>

(* NewPeer, out of IpcSet, for the first peer or at a failover, which may have
   been decided on just before the end came or by a person who did not know of
   it; peerKID knows the key or does not. *)
NewPeer ==
  /\ at \in {"opened", "asking"} \/ (at = "hold" /\ walks)
  /\ bounds.peers < MaxPeers /\ Counts("peers")
  /\ \E internal \in BOOLEAN : call' = [call EXCEPT ![Foreground] = NewCall(internal)]
  /\ at' = "adding"
  /\ secret' = "none"
  /\ UNCHANGED <<dead, walks, watching, ending, outside>>

(* Without the HEM's answer the zero private key is used, and nobody is told. *)
PeerAdded ==
  /\ at = "adding"
  /\ call[Foreground].at \in {"ok", "failed"}
  /\ ECDHReturns(Foreground)
  /\ secret' = IF call[Foreground].at = "ok" THEN "hem" ELSE "zero"
  /\ at' = IF watching THEN "hold" ELSE "setup"
  /\ UNCHANGED <<walks, watching, ending, outside, bounds>>

-----------------------------------------------------------------------------
(* Run.                                                                    *)

(* NewHSM and Inject, and the device is up. *)
Inject ==
  /\ at = "open"
  /\ at' = "opened"
  /\ UNCHANGED <<call, dead, walks, watching, ending, secret, outside, bounds>>

(* Addresses, routes, DNS, the probe, the state file and the listener; only
   then the goroutine that waits for the ends. *)
Listen ==
  /\ at = "setup"
  /\ at' = "hold" /\ watching' = TRUE
  /\ UNCHANGED <<call, dead, walks, ending, secret, outside, bounds>>

(* A peer that never answered, and a person to ask: hold is in readLine, and
   selects on nothing until there is an answer. *)
Reprompt ==
  /\ at = "hold" /\ ~walks /\ ~ending
  /\ at' = "asking"
  /\ UNCHANGED <<call, dead, walks, watching, ending, secret, outside, bounds>>

(* One of those steps failed, or no other peer could be put in. *)
GivesUp ==
  /\ at \in {"opened", "setup", "hold", "asking"}
  /\ at' = "closed"
  /\ UNCHANGED <<call, dead, walks, watching, ending, secret, outside, bounds>>

Watch ==
  /\ watching /\ ~ending
  /\ \/ dead = 1 /\ dead' = 0
     \/ at # "closed" /\ UNCHANGED dead  \* a signal, the device, the context
  /\ ending' = TRUE
  /\ UNCHANGED <<call, at, walks, watching, secret, outside, bounds>>

(* hold returns, and teardown closes the device. *)
Teardown ==
  /\ at = "hold" /\ ending
  /\ at' = "closed"
  /\ UNCHANGED <<call, dead, walks, watching, ending, secret, outside, bounds>>

(* Refresh, from whoever talks to the person. *)
SetToken ==
  /\ at \notin {"open", "closed"}
  /\ token < MaxTokens
  /\ token' = token + 1
  /\ good' = good \cup {token'}
  /\ UNCHANGED <<call, dead, run, secret, hem, bounds>>

-----------------------------------------------------------------------------
(* The HEM.                                                                *)

Expires ==
  /\ \E t \in good : good' = good \ {t}
  /\ UNCHANGED <<call, dead, run, secret, token, hem, bounds>>

Flap ==
  /\ bounds.flaps < MaxFlaps /\ Counts("flaps")
  /\ hem' = ~hem
  /\ UNCHANGED <<call, dead, run, secret, token, good>>

-----------------------------------------------------------------------------
Caller(c) == Try(c) \/ Answer(c)
Worker(w) == Handshake(w) \/ Consumed(w)
Run == Inject \/ NewPeer \/ PeerAdded \/ Listen \/ Reprompt \/ GivesUp \/ Teardown

Next ==
  \/ \E c \in Callers : Caller(c)
  \/ \E w \in Workers : Worker(w)
  \/ Run \/ Watch \/ SetToken
  \/ Expires \/ Flap

Safety == Init /\ [][Next]_vars

(* Goroutines run, calls time out, and a bring-up goes on or fails.  Neither
   giving up, nor another reason to end, nor a handshake, nor an answer to the
   prompt is owed. *)
Fairness ==
  /\ \A c \in Callers : WF_vars(Caller(c))
  /\ \A w \in Workers : WF_vars(Consumed(w))
  /\ WF_vars(Inject) /\ WF_vars(at = "opened" /\ NewPeer) /\ WF_vars(PeerAdded)
  /\ WF_vars(Listen) /\ WF_vars(dead = 1 /\ Watch) /\ WF_vars(Teardown)

Spec == Safety /\ Fairness

-----------------------------------------------------------------------------
(* The HEM answers, and token t is the one set and is accepted. *)
UsableWith(t) == hem /\ token = t /\ t \in good

(* A call that has a try to begin yet. *)
TryLeft(c) == call[c].at = "begin" \/ (call[c].at = "asked" /\ call[c].try < Retries)

(* "The retry after it picks up the new one" (SetToken): a call that has a try
   to begin yet when a token is set, or when the HEM is back, succeeds, whatever
   token its tries carried so far and whatever became of that, as long as the
   HEM answers and the token is neither replaced nor lapses; somebody who renews
   in time keeps the tunnel.  A last try already under way has no retry after
   it, and may fail with a token that has lapsed since. *)
RenewalInTime ==
  \A c \in Callers, t \in 1 .. MaxTokens :
    (TryLeft(c) /\ UsableWith(t)) ~> (call[c].at = "ok" \/ ~UsableWith(t))

(* "Rather than leave it up and silent" (Dead): once a handshake's call has
   failed past its retries the interface comes down, also when that happened
   before anybody listened to the channel, while a peer is being put in, or
   several times over; except a tunnel that is left at wg-hem's prompt, which
   does stay up and silent until somebody answers. *)
FailureEndsTunnel ==
  \/ <>[](at = "asking")
  \/ \A w \in Workers : (call[w].at = "failed") ~> (at = "closed")
=============================================================================
