---------------------------- MODULE MCMailStore ----------------------------
(***************************************************************************)
(* Instances of MailStore for TLC.                                         *)
(***************************************************************************)
EXTENDS MailStore, TLC

Symmetry == Permutations(Messages \ Old) \union Permutations(Sessions)

=============================================================================
