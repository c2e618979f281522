----------------------------- MODULE AnswerOnce -----------------------------
(***************************************************************************)
(* What the channel worker promises of an incoming message, whatever its   *)
(* leases, retries and instances do: it waits, and then either its reply   *)
(* is released for sending, for good, or it is closed, for good.  The      *)
(* provider is asked to deliver a released reply at most once and never    *)
(* one that was closed.                                                    *)
(***************************************************************************)
EXTENDS Naturals

CONSTANT Messages

VARIABLES
  phase, \* [Messages -> {"unseen", "waiting", "released", "closed"}]
  asked  \* [Messages -> how often the provider was handed its reply]

Init ==
  /\ phase = [m \in Messages |-> "unseen"]
  /\ asked = [m \in Messages |-> 0]

Moves(m, from, to) == phase[m] \in from /\ phase' = [phase EXCEPT ![m] = to] /\ UNCHANGED asked

Admit(m) == Moves(m, {"unseen"}, "waiting")
Release(m) == Moves(m, {"waiting"}, "released")

Ask(m) ==
  /\ phase[m] = "released" /\ asked[m] = 0
  /\ asked' = [asked EXCEPT ![m] = 1]
  /\ UNCHANGED phase

\* One transaction may close several messages: a reconciliation, a participant forgotten.
Close(S) ==
  /\ \A m \in S : phase[m] \in {"unseen", "waiting"}
  /\ phase' = [m \in Messages |-> IF m \in S THEN "closed" ELSE phase[m]]
  /\ UNCHANGED asked

Next ==
  \/ \E m \in Messages : Admit(m) \/ Release(m) \/ Ask(m)
  \/ \E S \in SUBSET Messages : Close(S)

Spec == Init /\ [][Next]_<<phase, asked>>

============================================================================
