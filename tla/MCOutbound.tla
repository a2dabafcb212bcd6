----------------------------- MODULE MCOutbound -----------------------------
(***************************************************************************)
(* Instances of Outbound for TLC.                                          *)
(***************************************************************************)
EXTENDS Outbound, TLC

CONSTANTS r1, r2, p1, p2, a1, a2

\* The bounds of every instance cut nothing off.
ASSUME RoomAssumption == Room

Retries == <<1, 2>>
AllNotify == {"failure", "delay"}

Symmetry == Permutations(Recipients) \cup Permutations(Procs) \cup Permutations(Admins)

=============================================================================
