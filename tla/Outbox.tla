------------------------------- MODULE Outbox -------------------------------
(***************************************************************************)
(* What the ingestion loop assumes of publishing (sink.go, the contract of *)
(* Sink): messages 1, 2, ... reach the consumer's queue in this order, and *)
(* the position the loop may save never passes one that has not.  Nothing  *)
(* of channels, confirmations, retries or restarts.                        *)
(***************************************************************************)
EXTENDS Integers

CONSTANT Messages

VARIABLES
  arrived,  \* messages that have reached the queue, once or more often
  saved     \* the last message behind the saved position

vars == <<arrived, saved>>

Init == arrived = {} /\ saved = 0

(* A message reaches the queue for the first time, after all before it.    *)
Arrive(m) ==
  /\ 1 .. m - 1 \subseteq arrived
  /\ arrived' = arrived \cup {m} /\ saved' = saved

Commit ==
  /\ saved' \in Nat /\ saved' > saved
  /\ 1 .. saved' \subseteq arrived /\ arrived' = arrived

Next == Commit \/ \E m \in Messages : Arrive(m)

Spec == Init /\ [][Next]_vars
=============================================================================
