---------------------- MODULE RecipientLifecycleProofs ----------------------
(***************************************************************************)
(* The abstract life of a recipient is exactly-once delivery, for every    *)
(* set of recipients; a specification that implements it (Outbound does    *)
(* when nothing fails, run outbound) inherits the result.                  *)
(***************************************************************************)
EXTENDS RecipientLifecycle, TLAPS

\* The type of the variables, that ExactlyOnce needs to be inductive.
Types ==
    /\ state \in [Recipients -> States]
    /\ copies \in [Recipients -> {0, 1}]
    /\ reports \in [Recipients -> {0, 1}]

IInv == Types /\ ExactlyOnce

\* A group is taken for an attempt before the remote has a copy.
LEMMA TakeKeeps ==
    ASSUME IInv, NEW S \in SUBSET Recipients, Take(S)
    PROVE  IInv'
<1>1. Types'
  BY DEF IInv, Types, States, Take
<1>2. ExactlyOnce'
  BY DEF IInv, Types, States, ExactlyOnce, Take
<1>3. QED  BY <1>1, <1>2 DEF IInv

\* The remote accepts while the recipient is attempting, and has no copy yet.
LEMMA AcceptKeeps ==
    ASSUME IInv, NEW S \in SUBSET Recipients, Accept(S)
    PROVE  IInv'
<1>1. Types'
  BY DEF IInv, Types, Accept
<1>2. ExactlyOnce'
  BY DEF IInv, Types, ExactlyOnce, Accept
<1>3. QED  BY <1>1, <1>2 DEF IInv

\* The conclusion of an attempt tells the truth about the remote's copy.
LEMMA ConcludeKeeps ==
    ASSUME IInv, NEW S \in SUBSET Recipients, Conclude(S)
    PROVE  IInv'
<1>1. Types'
  BY DEF IInv, Types, Conclude
<1>2. ASSUME NEW r \in Recipients
      PROVE  /\ state'[r] = "delivered" => copies[r] = 1
             /\ state'[r] \in {"queued", "deferred", "bounced"} => copies[r] = 0
             /\ reports[r] = 1 => state'[r] = "bounced" /\ copies[r] = 0
  <2>1. CASE r \in S
    BY <2>1 DEF IInv, Types, ExactlyOnce, Conclude, Conclusions
  <2>2. CASE r \notin S
    BY <2>2 DEF IInv, ExactlyOnce, Conclude
  <2>3. QED  BY <2>1, <2>2
<1>3. ExactlyOnce'
  BY <1>2 DEF IInv, ExactlyOnce, Conclude
<1>4. QED  BY <1>1, <1>3 DEF IInv

\* Only a bounce is reported, and only once.
LEMMA ReportKeeps ==
    ASSUME IInv, NEW r \in Recipients, Report(r)
    PROVE  IInv'
<1>1. Types'
  BY DEF IInv, Types, Report
<1>2. ExactlyOnce'
  BY DEF IInv, Types, ExactlyOnce, Report
<1>3. QED  BY <1>1, <1>2 DEF IInv

\* At most one copy, delivered exactly when it was accepted, and a failure
\* reported only of what the remote does not have: what the state machine of
\* state.ts, with begin's and the outcome transaction's guards, amounts to.
THEOREM ExactlyOnceSafe == Spec => []ExactlyOnce
<1>1. Init => IInv
  BY DEF Init, IInv, Types, States, ExactlyOnce
<1>2. IInv /\ [Next]_vars => IInv'
  <2> SUFFICES ASSUME IInv, [Next]_vars PROVE IInv'
    OBVIOUS
  <2>1. CASE Next
    BY <2>1, TakeKeeps, AcceptKeeps, ConcludeKeeps, ReportKeeps DEF Next
  <2>2. CASE UNCHANGED vars
    BY <2>2 DEF vars, IInv, Types, ExactlyOnce
  <2>3. QED  BY <2>1, <2>2
<1>3. IInv => ExactlyOnce
  BY DEF IInv
<1>4. QED  BY <1>1, <1>2, <1>3, PTL DEF Spec

=============================================================================
