----------------------------- MODULE LedgerFeed -----------------------------
(***************************************************************************)
(* What the indexer promises the consumer of its messages, with nothing of *)
(* endpoints, files or crashes: a feed of ledgers that is complete up to   *)
(* its position, except for ledgers it has declared missing.               *)
(*                                                                         *)
(* Delivery is at least once, so a ledger may be delivered before or after *)
(* the position passes it in a previous life: `delivered' only grows.  The *)
(* feed picks the ledger it begins with until it has taken a position.     *)
(***************************************************************************)
EXTENDS Integers

CONSTANT MaxLedger

Ledgers == 1 .. MaxLedger

VARIABLES
  base,       \* first ledger the feed answers for
  position,   \* last ledger it answers for; 0 before it has taken one
  delivered,  \* ledgers whose facts have all reached the consumer
  missing     \* ledgers declared lost

vars == <<base, position, delivered, missing>>

Covered(p) ==
  \A n \in Ledgers : base <= n /\ n <= p => n \in delivered \cup missing

Init ==
  /\ base \in Nat /\ position = 0
  /\ delivered \in SUBSET Ledgers
  /\ missing = {}

(* Until it has taken a position the feed may still choose where to begin. *)
Rebase ==
  /\ position = 0 /\ position' = 0
  /\ base' \in Nat
  /\ delivered' \in SUBSET Ledgers
  /\ missing' = missing

(* Facts reach the consumer, or a loss is declared.                        *)
Report ==
  /\ delivered' \in SUBSET Ledgers /\ delivered \subseteq delivered'
  /\ missing' \in SUBSET Ledgers /\ missing \subseteq missing'
  /\ UNCHANGED <<base, position>>

(* The position moves forward, over covered ledgers only.                  *)
Commit ==
  /\ position' \in Nat /\ position' > position
  /\ Covered(position')
  /\ UNCHANGED <<base, delivered, missing>>

Next == Rebase \/ Report \/ Commit

Spec == Init /\ [][Next]_vars

(* The feed is complete up to its position.                                *)
Complete == position # 0 => Covered(position)
=============================================================================
