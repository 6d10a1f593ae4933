-------------------------- MODULE LedgerFeed_proofs --------------------------
(***************************************************************************)
(* What the ledger feed promises.                                          *)
(***************************************************************************)
EXTENDS LedgerFeed, TLAPS

(* A feed is complete up to its position: every ledger from its base on is *)
(* delivered or declared lost (LedgerFeed, the promise the ingestion loop  *)
(* implements).                                                            *)
THEOREM FeedComplete == Spec => []Complete
<1>1. Init => Complete
  BY DEF Init, Complete
<1>2. Complete /\ [Next]_vars => Complete'
  <2> SUFFICES ASSUME Complete, [Next]_vars PROVE Complete'
    OBVIOUS
  <2> USE DEF Complete, Covered
  <2>1. CASE Rebase
    BY <2>1 DEF Rebase
  <2>2. CASE Report
    BY <2>2 DEF Report
  <2>3. CASE Commit
    BY <2>3 DEF Commit
  <2>4. CASE UNCHANGED vars
    BY <2>4 DEF vars
  <2>5. QED
    BY <2>1, <2>2, <2>3, <2>4 DEF Next
<1>3. QED
  BY <1>1, <1>2, PTL DEF Spec
=============================================================================
