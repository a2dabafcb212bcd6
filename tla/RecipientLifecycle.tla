------------------------- MODULE RecipientLifecycle -------------------------
(***************************************************************************)
(* What outbound delivery promises of each recipient of a message when     *)
(* nothing fails and nobody bounces or deletes by hand: the state machine  *)
(* drawn in apps/delivery/src/state.ts, with the two things outside the    *)
(* database that it is about, the copy the remote has accepted and the     *)
(* failure report filed for the sender.  Delivery is exactly once: the     *)
(* remote is given a copy only during an attempt and only while it has     *)
(* none, and the attempt's conclusion tells the truth about it.            *)
(*                                                                         *)
(* Recipients of one group are taken, answered and concluded together, so  *)
(* a step moves a set of them.                                             *)
(***************************************************************************)
EXTENDS Naturals

CONSTANT Recipients

VARIABLES
    state,      \* RecipientState, without cancelled
    copies,     \* copies the remote has accepted
    reports     \* failure reports filed

vars == <<state, copies, reports>>

States == {"queued", "attempting", "deferred", "delivered", "bounced"}

Init ==
    /\ state = [r \in Recipients |-> "queued"]
    /\ copies = [r \in Recipients |-> 0]
    /\ reports = [r \in Recipients |-> 0]

\* An attempt begins.
Take(S) ==
    /\ \A r \in S : state[r] \in {"queued", "deferred"}
    /\ state' = [r \in Recipients |-> IF r \in S THEN "attempting" ELSE state[r]]
    /\ UNCHANGED <<copies, reports>>

\* The remote accepts.
Accept(S) ==
    /\ \A r \in S : state[r] = "attempting" /\ copies[r] = 0
    /\ copies' = [r \in Recipients |-> IF r \in S THEN 1 ELSE copies[r]]
    /\ UNCHANGED <<state, reports>>

\* What may be concluded from an attempt.
Conclusions(r) == IF copies[r] = 1 THEN {"delivered"} ELSE {"bounced", "deferred"}

Conclude(S) ==
    /\ state' \in [Recipients -> States]
    /\ \A r \in S : state[r] = "attempting" /\ state'[r] \in Conclusions(r)
    /\ \A r \in Recipients \ S : state'[r] = state[r]
    /\ UNCHANGED <<copies, reports>>

\* A bounce is reported to the sender.
Report(r) ==
    /\ state[r] = "bounced"
    /\ reports[r] = 0
    /\ reports' = [reports EXCEPT ![r] = 1]
    /\ UNCHANGED <<state, copies>>

Next ==
    \/ \E S \in SUBSET Recipients : Take(S) \/ Accept(S) \/ Conclude(S)
    \/ \E r \in Recipients : Report(r)

Spec == Init /\ [][Next]_vars

-----------------------------------------------------------------------------
\* Exactly once: at most one copy, delivered exactly when the attempt that got
\* it accepted has concluded, and a failure is reported at most once and only
\* when the remote has no copy.
ExactlyOnce ==
    \A r \in Recipients :
        /\ copies[r] \in {0, 1}
        /\ state[r] = "delivered" => copies[r] = 1
        /\ state[r] \in {"queued", "deferred", "bounced"} => copies[r] = 0
        /\ reports[r] \in {0, 1}
        /\ reports[r] = 1 => state[r] = "bounced" /\ copies[r] = 0

=============================================================================
