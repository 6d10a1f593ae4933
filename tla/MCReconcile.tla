---------------------------- MODULE MCReconcile -----------------------------
(***************************************************************************)
(* Instances of Reconcile for TLC: the storage shapes escrows start with,  *)
(* and, for each run, what the chain, the RPC and the operators may do.    *)
(***************************************************************************)
EXTENDS Reconcile

(* Escrow 1 keeps its state in the contract instance, the others in a      *)
(* dedicated entry beside it.                                              *)
Mixed == [e \in Escrows |-> IF e = 1 THEN {"inst"} ELSE Keys]
=============================================================================
