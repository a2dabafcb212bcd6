----------------------------- MODULE MCInbound -----------------------------
(***************************************************************************)
(* Instances of Inbound for TLC.                                           *)
(***************************************************************************)
EXTENDS Inbound, TLC

CONSTANTS a1, w1, w2

OneAccount == (a1 :> 1)

ReplayClassify == [replay |-> "classify"]

Symmetry == Permutations(Workers)

=============================================================================
