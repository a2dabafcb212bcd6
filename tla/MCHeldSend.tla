----------------------------- MODULE MCHeldSend -----------------------------
(***************************************************************************)
(* Instances of HeldSend for TLC.                                          *)
(***************************************************************************)
EXTENDS HeldSend, TLC

CONSTANTS h1, h2, w1, w2, u1, u2

=============================================================================
