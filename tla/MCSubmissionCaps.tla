-------------------------- MODULE MCSubmissionCaps --------------------------
(***************************************************************************)
(* Instances of SubmissionCaps for TLC.                                    *)
(***************************************************************************)
EXTENDS SubmissionCaps, TLC

CONSTANTS p1, s1, s2

Symmetry == Permutations(Sessions)

=============================================================================
