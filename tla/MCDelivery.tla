----------------------------- MODULE MCDelivery -----------------------------
(***************************************************************************)
(* An instance of Delivery for TLC: three messages, the last invalid.      *)
(***************************************************************************)
EXTENDS Delivery

LastInvalid == {LastMessage}
=============================================================================
