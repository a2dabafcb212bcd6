--------------------------- MODULE OutboundProofs ---------------------------
(***************************************************************************)
(* Outbound delivery, for any recipients and processes, leases, timeouts,  *)
(* retry schedules and policies.                                           *)
(*                                                                         *)
(* Sound and Told hold in every behaviour: what rows and handlers hold,    *)
(* and that what is reported to the sender has ended without a delivery.   *)
(* Bounced adds that the bounce is the last word, when nobody deletes by   *)
(* hand and SES reports nothing; Orderly, until the first failure, that an *)
(* attempt is one handler's and lasts, when nobody bounces by hand either  *)
(* and all recipients go by one transport.  Clocks, InTime and Dated are   *)
(* of the clocks; Working and Covered charge every attempt, through any    *)
(* failure, to a tick, a retry by hand or a failure; Keyed counts the jobs *)
(* with keys of their own.  These bound the model's counters.              *)
(***************************************************************************)
EXTENDS Outbound, FiniteSetTheorems, TLAPS

Places == {"booting", "idle", "recover", "recovering", "load", "begin", "transport",
           "commit", "dsn", "completing"}
Intents == {"failure", "delay"} \X Recipients
Sightings == [tries : Nat, delaySent : BOOLEAN, failSent : BOOLEAN]

RowTypes ==
    /\ state \in [Recipients -> States]
    /\ attempts \in [Recipients -> Nat]
    /\ age \in [Recipients -> Nat]
    /\ via \in [Recipients -> Transports]
    /\ delaySent \in [Recipients -> BOOLEAN]
    /\ failSent \in [Recipients -> BOOLEAN]
    /\ open \in [Recipients -> SUBSET (Nat \X Nat)]
    /\ suppressed \in [Recipients -> BOOLEAN]

HandlerTypes ==
    /\ pc \in [Procs -> Places]
    /\ stuck \in [Procs -> SUBSET Recipients]
    /\ claimed \in [Procs -> [Recipients -> Transports \cup {Nothing}]]
    /\ seen \in [Procs -> [Recipients -> Sightings]]
    /\ current \in [Procs -> Transports \cup {Nothing}]
    /\ timer \in [Procs -> Nat]
    /\ result \in [Procs -> [Recipients -> Outcomes \cup {Nothing}]]
    /\ intents \in [Procs -> SUBSET Intents]

SweepTypes ==
    /\ sStuck \in [Procs -> SUBSET Recipients]
    /\ sIntents \in [Procs -> SUBSET Intents]

OtherTypes ==
    /\ admin \in [Admins -> [op : AdminOps \cup {Nothing}, ids : SUBSET Recipients]]
    /\ copies \in [Recipients -> 0..2]
    /\ filed \in [Recipients -> 0..2]
    /\ faults \in 0..MaxFaults

Types == RowTypes /\ HandlerTypes /\ SweepTypes /\ OtherTypes

\* A handler that has heard of an acceptance tells the truth about the remote.
Heard ==
    \A p \in Procs, r \in Recipients : result[p][r] = "delivered" => copies[r] > 0

Sound == Types /\ Heard /\ DeliveredHasCopy /\ OneFailureDsn

-----------------------------------------------------------------------------
\* Without a delivery, and with a report perhaps: bounced or, where operators delete by id
\* what they read before, deleted after the bounce.
Ended == {"bounced"} \cup (IF "delete" \in AdminOps THEN {"cancelled"} ELSE {})

\* A failure report that is about to be filed is of a recipient that has ended.
AboutEnds ==
    \A p \in Procs, r \in Recipients :
        <<"failure", r>> \in intents[p] \cup sIntents[p] => state[r] \in Ended

\* What has been reported to the sender has ended without a delivery: bounced, or deleted
\* by hand after the bounce.
ReportedIsEnded == \A r \in Recipients : filed[r] > 0 => state[r] \in Ended

Told == AboutEnds /\ ReportedIsEnded

-----------------------------------------------------------------------------
\* Nobody deletes, and SES does not report: a bounce is the last word.
Quiet == "delete" \notin AdminOps /\ ~SesNotifies

Bounced == \A r \in Recipients : suppressed[r] => state[r] = "bounced"

-----------------------------------------------------------------------------
\* Every recipient is routed the same way, whatever the operator forces.
OneTransport == "force-ses" \notin AdminOps \/ ~SesConfigured \/ SesClaims

\* Besides, nobody deletes, bounces or cancels by hand and SES does not report.
Calm ==
    /\ Quiet
    /\ "bounce" \notin AdminOps
    /\ ~OwnerCancels
    /\ OneTransport

\* Nobody has found an attempt to recover.
NoneStuck == \A p \in Procs : stuck[p] = {} /\ sStuck[p] = {}

\* The clock of a transport runs only during the transport.
Timed ==
    \A p \in Procs : /\ timer[p] <= AttemptTimeout
                     /\ pc[p] # "transport" => timer[p] = 0

Routed == \A r \in Recipients : Route(via[r]) = Route("direct")

\* An attempt under way: its row and its delivery_attempt are as begin left them
\* and younger than the timeout, and the remote has a copy only when it said so.
Flight(p, r) ==
    /\ state[r] = "attempting"
    /\ \E a \in open[r] : a[1] = seen[p][r].tries
    /\ pc[p] \in {"transport", "commit"}
    /\ claimed[p][r] = Route("direct")
    /\ current[p] = Route("direct")
    /\ age[r] <= AttemptTimeout
    /\ pc[p] = "transport" => age[r] <= timer[p] /\ copies[r] = 0
    /\ pc[p] = "commit" =>
          /\ result[p][r] \in Outcomes \ {"replyLost"}
          /\ copies[r] = IF result[p][r] = "delivered" THEN 1 ELSE 0

Flying == \A p \in Procs, r \in Recipients : InFlight(p, r) => Flight(p, r)

\* An attempt is one handler's.
Alone ==
    \A p, q \in Procs, r \in Recipients : InFlight(p, r) /\ InFlight(q, r) => p = q

\* What is attempting has a handler that attempts it, and the rest has as many
\* copies as its state says.
Accounted ==
    \A r \in Recipients :
        /\ state[r] = "attempting" => \E p \in Procs : InFlight(p, r)
        /\ state[r] \in {"queued", "deferred", "bounced"} => copies[r] = 0
        /\ state[r] = "delivered" => copies[r] = 1
        /\ state[r] # "cancelled"

Orderly == NoneStuck /\ Timed /\ Routed /\ Flying /\ Alone /\ Accounted

-----------------------------------------------------------------------------
\* The types are kept.

\* recoverInterrupted's update keeps the types of the rows.
LEMMA RecoverRowTypes ==
    ASSUME RowTypes, NEW r \in Recipients, RecoverRow(r), suppressed' = suppressed
    PROVE  RowTypes'
<1>1. CASE state[r] = "attempting"
  BY <1>1 DEF RowTypes, RecoverRow, States
<1>2. CASE state[r] # "attempting"
  BY <1>2 DEF RowTypes, RecoverRow, rowVars
<1>3. QED  BY <1>1, <1>2

\* A handler that ends forgets what it has read.
LEMMA ForgetTypes ==
    ASSUME HandlerTypes, NEW p \in Procs, Forget(p), pc' \in [Procs -> Places]
    PROVE  HandlerTypes'
<1>1. Unclaimed \in [Recipients -> Transports \cup {Nothing}]
  BY DEF Unclaimed
<1>2. Unclaimed \in [Recipients -> Outcomes \cup {Nothing}]
  BY DEF Unclaimed
<1>3. [r \in Recipients |-> Unseen] \in [Recipients -> Sightings]
  BY DEF Unseen, Sightings
<1>4. QED  BY <1>1, <1>2, <1>3 DEF HandlerTypes, Forget

\* Filing a DSN keeps the types of the marks and the counter.
LEMMA EmitDsnTypes ==
    ASSUME RowTypes, OtherTypes, NEW i \in Intents, EmitDsn(i),
           UNCHANGED <<state, attempts, via, open, suppressed, admin, copies>>
    PROVE  RowTypes' /\ OtherTypes'
<1> DEFINE r == i[2]
           kind == i[1]
<1>1. r \in Recipients
  BY DEF Intents
<1>2. CASE Fault /\ UNCHANGED <<delaySent, failSent, age, filed>>
  BY <1>2, OutboundAssumption DEF RowTypes, OtherTypes, Fault
<1>3. CASE ~(Fault /\ UNCHANGED <<delaySent, failSent, age, filed>>)
  <2>1. /\ delaySent' = [delaySent EXCEPT ![r] = @ \/ kind = "delay"]
        /\ failSent' = [failSent EXCEPT ![r] = @ \/ kind = "failure"]
        /\ age' = [age EXCEPT ![r] =
             IF (kind = "delay" /\ delaySent[r]) \/ (kind = "failure" /\ failSent[r])
             THEN @ ELSE 0]
        /\ filed' = [filed EXCEPT ![r] =
             IF kind = "failure" /\ ~failSent[r] /\ ~NullSender THEN Inc(@) ELSE @]
        /\ UNCHANGED faults
    BY <1>3, Zenon DEF EmitDsn
  <2>2. delaySent' \in [Recipients -> BOOLEAN] /\ failSent' \in [Recipients -> BOOLEAN]
    BY <2>1 DEF RowTypes
  <2>3. age' \in [Recipients -> Nat]
    BY <1>1, <2>1 DEF RowTypes
  <2>4. filed' \in [Recipients -> 0..2]
    BY <1>1, <2>1 DEF OtherTypes, Inc
  <2>5. QED  BY <2>1, <2>2, <2>3, <2>4 DEF RowTypes, OtherTypes
<1>4. QED  BY <1>2, <1>3

\* Every step of a handler.
LEMMA HandleTypes ==
    ASSUME Types, NEW p \in Procs, Handle(p)
    PROVE  Types'
<1>1. ASSUME NEW k \in Keys, ClaimJob(p, k) PROVE Types'
  BY <1>1 DEF ClaimJob, Types, RowTypes, HandlerTypes, SweepTypes, OtherTypes, Places,
     rowVars, sweepVars, operatorVars, ghostVars
<1>2. CASE Recover(p)
  <2>1. Interrupted \in SUBSET Recipients
    BY DEF Interrupted
  <2>2. HandlerTypes'
    BY <1>2, <2>1 DEF Recover, Types, HandlerTypes, Places
  <2>3. QED
    BY <1>2, <2>2 DEF Recover, Types, RowTypes, SweepTypes, OtherTypes, rowVars, sweepVars,
       operatorVars, ghostVars
<1>3. ASSUME NEW r \in Recipients, RecoverOne(p, r) PROVE Types'
  <2>1. RowTypes'
    BY <1>3, RecoverRowTypes DEF RecoverOne, Types
  <2>2. HandlerTypes'
    BY <1>3 DEF RecoverOne, Types, HandlerTypes, Places
  <2>3. QED
    BY <1>3, <2>1, <2>2 DEF RecoverOne, Types, SweepTypes, OtherTypes, sweepVars, operatorVars,
       ghostVars
<1>4. CASE Load(p)
  BY <1>4 DEF Load, Types, RowTypes, HandlerTypes, SweepTypes, OtherTypes, Places,
     rowVars, sweepVars, operatorVars, ghostVars
<1>5. CASE Begin(p)
  <2>1. /\ state' \in [Recipients -> States] /\ attempts' \in [Recipients -> Nat]
        /\ age' \in [Recipients -> Nat]
    BY <1>5 DEF Begin, Types, RowTypes, States
  <2>2. open' \in [Recipients -> SUBSET (Nat \X Nat)]
    BY <1>5 DEF Begin, Types, RowTypes
  <2>3. \A r \in Recipients : Route(via[r]) \in Transports
    BY DEF Types, RowTypes, Route, Transports
  <2>4. claimed' \in [Procs -> [Recipients -> Transports \cup {Nothing}]]
    BY <1>5, <2>3 DEF Begin, Types, HandlerTypes
  <2>5. seen' \in [Procs -> [Recipients -> Sightings]]
    <3> DEFINE s == [r \in Recipients |->
                       IF r \in Due
                       THEN [tries |-> attempts[r] + 1, delaySent |-> delaySent[r],
                             failSent |-> failSent[r]]
                       ELSE Unseen]
    <3>1. ASSUME NEW r \in Recipients PROVE s[r] \in Sightings
      <4>1. attempts[r] + 1 \in Nat /\ delaySent[r] \in BOOLEAN /\ failSent[r] \in BOOLEAN
        BY DEF Types, RowTypes
      <4>2. QED  BY <4>1 DEF Sightings, Unseen
    <3>2. s \in [Recipients -> Sightings]
      BY <3>1
    <3>3. seen' = [seen EXCEPT ![p] = s]
      BY <1>5 DEF Begin
    <3> HIDE DEF s
    <3>4. QED  BY <3>2, <3>3 DEF Types, HandlerTypes
  <2>6. current' \in [Procs -> Transports \cup {Nothing}]
    <3>1. PICK r \in Due : current' = [current EXCEPT ![p] = Route(via[r])]
      BY <1>5 DEF Begin
    <3>2. r \in Recipients
      BY DEF Due, Waiting
    <3>3. QED  BY <2>3, <3>1, <3>2 DEF Types, HandlerTypes
  <2>7. HandlerTypes'
    BY <1>5, <2>4, <2>5, <2>6 DEF Begin, Types, HandlerTypes, Places
  <2>8. QED
    BY <1>5, <2>1, <2>2, <2>7 DEF Begin, Types, RowTypes, SweepTypes, OtherTypes, sweepVars,
       operatorVars, ghostVars
<1>6. CASE BeginNothing(p)
  BY <1>6 DEF BeginNothing, Types, RowTypes, HandlerTypes, SweepTypes, OtherTypes, Places,
     rowVars, sweepVars, operatorVars, ghostVars
<1>7. CASE TransportReturns(p)
  <2>1. PICK res \in [Batch(p) -> Outcomes] :
          /\ result' = [result EXCEPT ![p] =
                [r \in Recipients |-> IF r \in Batch(p) THEN res[r] ELSE Nothing]]
          /\ copies' = [r \in Recipients |->
                IF r \in Batch(p) /\ res[r] \in {"delivered", "replyLost"}
                THEN Inc(copies[r]) ELSE copies[r]]
          /\ IF \E r \in Batch(p) : res[r] = "replyLost" THEN Fault ELSE UNCHANGED faults
    BY <1>7 DEF TransportReturns
  <2>2. result' \in [Procs -> [Recipients -> Outcomes \cup {Nothing}]]
    BY <2>1 DEF Types, HandlerTypes
  <2>3. copies' \in [Recipients -> 0..2]
    BY <2>1 DEF Types, OtherTypes, Inc
  <2>4. faults' \in 0..MaxFaults
    BY <2>1, OutboundAssumption DEF Types, OtherTypes, Fault
  <2>5. HandlerTypes'
    BY <1>7, <2>2 DEF TransportReturns, Types, HandlerTypes, Places
  <2>6. QED
    BY <1>7, <2>3, <2>4, <2>5 DEF TransportReturns, Types, RowTypes, SweepTypes, OtherTypes,
       rowVars, sweepVars, operatorVars
<1>8. CASE Commit(p)
  <2> DEFINE batch == Batch(p)
             moved == {r \in batch : state[r] = "attempting"}
  <2>1. state' = [r \in Recipients |->
                    IF r \in moved THEN NextState(result[p][r]) ELSE state[r]]
    BY <1>8 DEF Commit
  <2>2. \A o : NextState(o) \in States
    BY DEF NextState, States
  <2>3. state' \in [Recipients -> States]
    BY <2>1, <2>2 DEF Types, RowTypes
  <2>4. age' \in [Recipients -> Nat]
    BY <1>8 DEF Commit, Types, RowTypes
  <2>5. open' \in [Recipients -> SUBSET (Nat \X Nat)]
    BY <1>8 DEF Commit, Types, RowTypes
  <2>6. suppressed' \in [Recipients -> BOOLEAN]
    BY <1>8 DEF Commit, Types, RowTypes
  <2>7. RowTypes'
    BY <1>8, <2>3, <2>4, <2>5, <2>6 DEF Commit, Types, RowTypes
  <2>8. intents' \in [Procs -> SUBSET Intents]
    <3>1. \A r \in Recipients : \A o, was : DsnFor(r, o, was) \subseteq Intents
      BY DEF DsnFor, Intents
    <3>2. UNION {DsnFor(r, result[p][r], seen[p][r]) : r \in moved} \subseteq Intents
      BY <3>1 DEF Batch
    <3>3. intents' = [intents EXCEPT ![p] =
                        UNION {DsnFor(r, result[p][r], seen[p][r]) : r \in moved}]
      BY <1>8 DEF Commit
    <3>4. QED  BY <3>2, <3>3 DEF Types, HandlerTypes
  <2>9. claimed' \in [Procs -> [Recipients -> Transports \cup {Nothing}]]
    BY <1>8 DEF Commit, Types, HandlerTypes
  <2>10. seen' \in [Procs -> [Recipients -> Sightings]]
    <3>1. Unseen \in Sightings
      BY DEF Unseen, Sightings
    <3>2. QED  BY <1>8, <3>1 DEF Commit, Types, HandlerTypes
  <2>11. result' \in [Procs -> [Recipients -> Outcomes \cup {Nothing}]]
    BY <1>8 DEF Commit, Types, HandlerTypes, Unclaimed
  <2>12. HandlerTypes'
    BY <1>8, <2>8, <2>9, <2>10, <2>11 DEF Commit, Types, HandlerTypes, Places
  <2>13. QED
    BY <1>8, <2>7, <2>12 DEF Commit, Types, SweepTypes, OtherTypes, sweepVars, operatorVars,
       ghostVars
<1>9. CASE HandlerDsn(p)
  <2>1. PICK i \in intents[p] :
          EmitDsn(i) /\ intents' = [intents EXCEPT ![p] = @ \ {i}]
    BY <1>9 DEF HandlerDsn
  <2>2. i \in Intents
    BY DEF Types, HandlerTypes
  <2>3. RowTypes' /\ OtherTypes'
    BY <1>9, <2>1, <2>2, EmitDsnTypes DEF HandlerDsn, Types, operatorVars
  <2>4. HandlerTypes' /\ SweepTypes'
    BY <1>9, <2>1 DEF HandlerDsn, Types, HandlerTypes, SweepTypes, sweepVars
  <2>5. QED  BY <2>3, <2>4 DEF Types
<1>10. CASE BatchDone(p)
  <2>1. Left(p) \subseteq Transports
    BY DEF Left, Types, HandlerTypes
  <2>2. pc' \in [Procs -> Places]
    BY <1>10 DEF BatchDone, AfterBatch, Types, HandlerTypes, Places
  <2>3. current' \in [Procs -> Transports \cup {Nothing}]
    BY <1>10, <2>1 DEF BatchDone, AfterBatch, Types, HandlerTypes
  <2>4. QED
    BY <1>10, <2>2, <2>3 DEF BatchDone, Types, RowTypes, HandlerTypes, SweepTypes, OtherTypes,
       rowVars, sweepVars, operatorVars, ghostVars
<1>11. CASE CompleteJob(p)
  <2>1. HandlerTypes'
    BY <1>11, ForgetTypes DEF CompleteJob, Types, HandlerTypes, Places
  <2>2. QED
    BY <1>11, <2>1 DEF CompleteJob, Types, RowTypes, SweepTypes, OtherTypes, rowVars,
       sweepVars, operatorVars, ghostVars
<1>12. QED
  BY <1>1, <1>2, <1>3, <1>4, <1>5, <1>6, <1>7, <1>8, <1>9, <1>10, <1>11 DEF Handle

\* Every step of a sweeper.
LEMMA SweepKeepsTypes ==
    ASSUME Types, NEW p \in Procs, Sweep(p)
    PROVE  Types'
<1>1. Interrupted \in SUBSET Recipients
  BY DEF Interrupted
<1>2. ASSUME pc' = pc \/ SweepEnds(p) PROVE pc' \in [Procs -> Places]
  BY <1>2 DEF SweepEnds, Types, HandlerTypes, Places
<1>3. ASSUME NEW next, SweepStep(p, next), pc' \in [Procs -> Places] PROVE HandlerTypes'
  BY <1>3 DEF SweepStep, Types, HandlerTypes
<1>4. CASE SweepRecover(p)
  BY <1>1, <1>3, <1>4 DEF SweepRecover, SweepStep, Types, RowTypes, HandlerTypes, SweepTypes,
     OtherTypes, rowVars, operatorVars
<1>5. ASSUME NEW r \in Recipients, SweepRecoverOne(p, r) PROVE Types'
  <2>1. RowTypes'
    BY <1>5, RecoverRowTypes DEF SweepRecoverOne, SweepStep, Types
  <2>2. QED
    BY <1>3, <1>5, <2>1 DEF SweepRecoverOne, SweepStep, Types, HandlerTypes, SweepTypes,
       OtherTypes, operatorVars
<1>6. CASE SweepOrphans(p) \/ SweepReschedule(p)
  BY <1>3, <1>6 DEF SweepOrphans, SweepReschedule, SweepStep, Types, RowTypes, HandlerTypes,
     SweepTypes, OtherTypes, rowVars, operatorVars
<1>7. CASE SweepUnsent(p)
  <2>1. {<<"failure", r>> : r \in Unsent} \subseteq Intents
    BY DEF Unsent, Intents
  <2>2. sIntents' \in [Procs -> SUBSET Intents]
    BY <1>7, <2>1 DEF SweepUnsent, Types, SweepTypes
  <2>3. HandlerTypes'
    BY <1>2, <1>3, <1>7 DEF SweepUnsent
  <2>4. QED
    BY <1>7, <2>2, <2>3 DEF SweepUnsent, SweepStep, Types, RowTypes, SweepTypes, OtherTypes,
       rowVars, operatorVars
<1>8. CASE SweepDsn(p)
  <2>1. PICK i \in sIntents[p] :
          /\ EmitDsn(i)
          /\ sIntents' = [sIntents EXCEPT ![p] = @ \ {i}]
          /\ SweepStep(p, IF sIntents[p] = {i} THEN "idle" ELSE "emitting")
          /\ IF sIntents[p] = {i} THEN SweepEnds(p) ELSE UNCHANGED pc
    BY <1>8 DEF SweepDsn
  <2>2. i \in Intents
    BY DEF Types, SweepTypes
  <2>3. RowTypes' /\ OtherTypes'
    BY <1>8, <2>1, <2>2, EmitDsnTypes DEF SweepDsn, SweepStep, Types, operatorVars
  <2>4. HandlerTypes'
    BY <1>2, <1>3, <2>1
  <2>5. SweepTypes'
    BY <1>8, <2>1 DEF SweepDsn, Types, SweepTypes
  <2>6. QED  BY <2>3, <2>4, <2>5 DEF Types
<1>9. QED  BY <1>4, <1>5, <1>6, <1>7, <1>8 DEF Sweep

\* Failures of a process.
LEMMA FailureTypes ==
    ASSUME Types, NEW p \in Procs, HandlerThrows(p) \/ SweepThrows(p) \/ Crash(p)
    PROVE  Types'
<1>1. faults' \in 0..MaxFaults
  <2>1. Fault
    BY DEF HandlerThrows, SweepThrows, Crash
  <2>2. QED  BY <2>1, OutboundAssumption DEF Fault, Types, OtherTypes
<1>2. CASE HandlerThrows(p)
  <2>1. HandlerTypes'
    BY <1>2, ForgetTypes DEF HandlerThrows, Types, HandlerTypes, Places
  <2>2. QED
    BY <1>1, <1>2, <2>1 DEF HandlerThrows, Types, RowTypes, SweepTypes, OtherTypes, rowVars,
       sweepVars, operatorVars, ghostVars
<1>3. CASE SweepThrows(p)
  <2>1. HandlerTypes'
    BY <1>3 DEF SweepThrows, SweepStep, SweepEnds, Types, HandlerTypes, Places
  <2>2. QED
    BY <1>1, <1>3, <2>1 DEF SweepThrows, SweepStep, Types, RowTypes, SweepTypes, OtherTypes,
       rowVars, operatorVars
<1>4. CASE Crash(p)
  <2>1. HandlerTypes'
    BY <1>4, ForgetTypes DEF Crash, Types, HandlerTypes, Places
  <2>2. QED
    BY <1>1, <1>4, <2>1 DEF Crash, Types, RowTypes, SweepTypes, OtherTypes, rowVars,
       operatorVars, ghostVars
<1>5. QED  BY <1>2, <1>3, <1>4

\* The operator's steps.
LEMMA OperatorTypes ==
    ASSUME Types, Operator
    PROVE  Types'
<1> DEFINE Asked == [op : AdminOps \cup {Nothing}, ids : SUBSET Recipients]
<1>1. NoAdmin \in Asked
  BY DEF NoAdmin
<1>2. CASE Freeze \/ Thaw
  BY <1>2 DEF Freeze, Thaw, Elsewhere, Types, RowTypes, HandlerTypes, SweepTypes, OtherTypes,
     rowVars, handlerVars, sweepVars, ghostVars
<1>3. CASE ThawEnqueue
  <2>1. faults' \in 0..MaxFaults
    BY <1>3, OutboundAssumption DEF ThawEnqueue, Fault, Types, OtherTypes
  <2>2. QED
    BY <1>3, <2>1 DEF ThawEnqueue, Elsewhere, Types, RowTypes, HandlerTypes, SweepTypes,
       OtherTypes, rowVars, handlerVars, sweepVars, ghostVars
<1>4. ASSUME NEW a \in Admins, NEW op \in AdminOps, AdminRead(a, op) PROVE Types'
  <2>1. Waiting \subseteq Recipients
    BY DEF Waiting
  <2>2. admin' \in [Admins -> Asked]
    BY <1>4, <2>1 DEF AdminRead, Types, OtherTypes
  <2>3. QED
    BY <1>4, <2>2 DEF AdminRead, Elsewhere, Types, RowTypes, HandlerTypes, SweepTypes,
       OtherTypes, rowVars, handlerVars, sweepVars, ghostVars
<1>5. ASSUME NEW a \in Admins, AdminWrite(a) PROVE Types'
  <2>1. admin' \in [Admins -> Asked]
    BY <1>1, <1>5 DEF AdminWrite, AdminNudge, AdminDelete, AdminBounce, Answered, Types,
       OtherTypes
  <2>2. CASE AdminNudge(a)
    <3>1. age' \in [Recipients -> Nat] /\ via' \in [Recipients -> Transports]
      BY <2>2 DEF AdminNudge, Chosen, Types, RowTypes, Transports
    <3>2. QED
      BY <2>1, <2>2, <3>1 DEF AdminNudge, Elsewhere, Types, RowTypes, HandlerTypes, SweepTypes,
         OtherTypes, handlerVars, sweepVars, ghostVars
  <2>3. CASE AdminDelete(a)
    <3>1. age' \in [Recipients -> Nat] /\ state' \in [Recipients -> States]
      BY <2>3 DEF AdminDelete, Chosen, Types, RowTypes, States
    <3>2. QED
      BY <2>1, <2>3, <3>1 DEF AdminDelete, Elsewhere, Types, RowTypes, HandlerTypes, SweepTypes,
         OtherTypes, handlerVars, sweepVars, ghostVars
  <2>4. CASE AdminBounce(a)
    <3>1. age' \in [Recipients -> Nat] /\ state' \in [Recipients -> States]
      BY <2>4 DEF AdminBounce, Chosen, Types, RowTypes, States
    <3>2. failSent' \in [Recipients -> BOOLEAN]
      BY <2>4 DEF AdminBounce, Chosen, Types, RowTypes
    <3>3. filed' \in [Recipients -> 0..2]
      <4>1. \/ filed' = [r \in Recipients |->
                           IF r \in admin[a].ids /\ ~failSent[r] /\ ~NullSender
                           THEN Inc(filed[r]) ELSE filed[r]]
            \/ filed' = filed
        BY <2>4 DEF AdminBounce
      <4>2. \A n \in 0..2 : Inc(n) \in 0..2
        BY DEF Inc
      <4>3. QED  BY <4>1, <4>2 DEF Types, OtherTypes
    <3>4. faults' \in 0..MaxFaults
      <4>1. Fault \/ UNCHANGED faults
        BY <2>4 DEF AdminBounce
      <4>2. QED  BY <4>1, OutboundAssumption DEF Fault, Types, OtherTypes
    <3>5. QED
      BY <2>1, <2>4, <3>1, <3>2, <3>3, <3>4 DEF AdminBounce, Elsewhere, Types, RowTypes,
         HandlerTypes, SweepTypes, OtherTypes, handlerVars, sweepVars
  <2>5. QED  BY <1>5, <2>2, <2>3, <2>4 DEF AdminWrite
<1>6. ASSUME NEW r \in Recipients, Cancel(r) PROVE Types'
  <2>1. age' \in [Recipients -> Nat] /\ state' \in [Recipients -> States]
    BY <1>6 DEF Cancel, Types, RowTypes, States
  <2>2. QED
    BY <1>6, <2>1 DEF Cancel, Elsewhere, Types, RowTypes, HandlerTypes, SweepTypes, OtherTypes,
       handlerVars, sweepVars, operatorVars, ghostVars
<1>7. QED  BY <1>2, <1>3, <1>4, <1>5, <1>6 DEF Operator

\* SES reports, and time passes.
LEMMA OutsideTypes ==
    ASSUME Types, Tick \/ \E r \in Recipients, hard \in BOOLEAN : SesBounce(r, hard)
    PROVE  Types'
<1>1. ASSUME NEW r \in Recipients, NEW hard \in BOOLEAN, SesBounce(r, hard) PROVE Types'
  <2>1. /\ state' \in [Recipients -> States] /\ age' \in [Recipients -> Nat]
        /\ copies' = copies /\ filed' = filed /\ faults' = faults
    BY <1>1 DEF SesBounce, Types, RowTypes, States
  <2>2. suppressed' \in [Recipients -> BOOLEAN]
    BY <1>1 DEF SesBounce, Types, RowTypes
  <2>3. QED
    BY <1>1, <2>1, <2>2 DEF SesBounce, Elsewhere, Types, RowTypes, HandlerTypes, SweepTypes,
       OtherTypes, handlerVars, sweepVars, operatorVars
<1>2. CASE Tick
  <2>1. age' \in [Recipients -> Nat] /\ timer' \in [Procs -> Nat]
    BY <1>2 DEF Tick, Types, RowTypes, HandlerTypes
  <2>2. open' \in [Recipients -> SUBSET (Nat \X Nat)]
    BY <1>2 DEF Tick, Types, RowTypes
  <2>3. QED
    BY <1>2, <2>1, <2>2 DEF Tick, Types, RowTypes, HandlerTypes, SweepTypes, OtherTypes,
       operatorVars, ghostVars
<1>3. QED  BY <1>1, <1>2

-----------------------------------------------------------------------------
\* What holds always.

\* The rest of Sound.
Facts == Heard /\ DeliveredHasCopy /\ OneFailureDsn

\* Steps that leave the states, the copies and the reports alone keep Facts, whatever
\* they forget of the outcomes they had read.
LEMMA FactsAlone ==
    ASSUME Facts, UNCHANGED <<state, copies, filed, failSent>>,
           \A p \in Procs, r \in Recipients :
               result'[p][r] = "delivered" => result[p][r] = "delivered"
    PROVE  Facts'
BY DEF Facts, Heard, DeliveredHasCopy, OneFailureDsn

\* What the handler forgets of outcomes.
LEMMA ForgetForgets ==
    ASSUME Types, NEW p \in Procs, Forget(p)
    PROVE  \A q \in Procs, r \in Recipients :
              result'[q][r] = "delivered" => result[q][r] = "delivered"
BY DEF Forget, Types, HandlerTypes, Unclaimed, Nothing

\* A recovery moves an attempt back into line: it neither delivers nor deletes.
LEMMA RecoverFacts ==
    ASSUME Types, Facts, NEW r \in Recipients, RecoverRow(r),
           UNCHANGED <<copies, filed, result>>
    PROVE  Facts'
<1>1. failSent' = failSent
  BY DEF RecoverRow, rowVars
<1>2. \A q \in Recipients : state'[q] = state[q] \/ state'[q] = "deferred"
  BY DEF RecoverRow, rowVars, Types, RowTypes
<1>3. QED
  BY <1>1, <1>2 DEF Facts, Heard, DeliveredHasCopy, OneFailureDsn

\* A report is filed only where the claim of failureDsnSentAt is new.
LEMMA EmitFacts ==
    ASSUME Types, Facts, NEW i \in Intents, EmitDsn(i),
           UNCHANGED <<state, copies, result>>
    PROVE  Facts'
<1> DEFINE r == i[2]
           kind == i[1]
<1>1. r \in Recipients
  BY DEF Intents
<1>2. OneFailureDsn'
  <2>1. CASE UNCHANGED <<failSent, filed>>
    BY <2>1 DEF Facts, OneFailureDsn
  <2>2. CASE ~UNCHANGED <<failSent, filed>>
    <3>1. /\ failSent' = [failSent EXCEPT ![r] = @ \/ kind = "failure"]
          /\ filed' = [filed EXCEPT ![r] =
               IF kind = "failure" /\ ~failSent[r] /\ ~NullSender THEN Inc(@) ELSE @]
      BY <2>2 DEF EmitDsn
    <3>2. ASSUME NEW q \in Recipients
          PROVE  filed'[q] <= 1 /\ (filed'[q] > 0 => failSent'[q])
      <4>1. /\ filed[q] \in 0..2 /\ filed[q] <= 1 /\ (filed[q] > 0 => failSent[q])
            /\ failSent \in [Recipients -> BOOLEAN] /\ filed \in [Recipients -> 0..2]
        BY DEF Types, RowTypes, OtherTypes, Facts, OneFailureDsn
      <4>2. CASE q # r
        BY <3>1, <4>1, <4>2
      <4>3. CASE q = r /\ kind = "failure" /\ ~failSent[r] /\ ~NullSender
        <5>1. filed[q] = 0
          BY <4>1, <4>3
        <5>2. filed'[q] = 1
          BY <3>1, <4>1, <4>3, <5>1 DEF Inc
        <5>3. failSent'[q]
          BY <3>1, <4>1, <4>3, Zenon
        <5>4. QED  BY <5>2, <5>3
      <4>4. CASE q = r /\ ~(kind = "failure" /\ ~failSent[r] /\ ~NullSender)
        <5>1. filed'[q] = filed[q]
          BY <3>1, <4>1, <4>4
        <5>2. failSent[q] => failSent'[q]
          BY <3>1, <4>1, <4>4, Zenon
        <5>3. QED  BY <4>1, <5>1, <5>2
      <4>5. QED  BY <4>2, <4>3, <4>4
    <3>3. QED  BY <3>2 DEF OneFailureDsn
  <2>3. QED  BY <2>1, <2>2
<1>3. QED
  BY <1>2 DEF Facts, Heard, DeliveredHasCopy

\* Every step of a handler.
LEMMA HandleFacts ==
    ASSUME Types, Facts, NEW p \in Procs, Handle(p)
    PROVE  Facts'
<1>1. CASE \/ \E k \in Keys : ClaimJob(p, k)
           \/ Recover(p) \/ Load(p) \/ BeginNothing(p) \/ BatchDone(p)
  BY <1>1, FactsAlone DEF ClaimJob, Recover, Load, BeginNothing, BatchDone, rowVars,
     operatorVars, ghostVars
<1>2. ASSUME NEW r \in Recipients, RecoverOne(p, r) PROVE Facts'
  BY <1>2, RecoverFacts DEF RecoverOne, operatorVars, ghostVars
<1>3. CASE Begin(p)
  <2>1. \A r \in Recipients : state'[r] = state[r] \/ state'[r] = "attempting"
    BY <1>3 DEF Begin
  <2>2. QED
    BY <1>3, <2>1 DEF Begin, ghostVars, Facts, Heard, DeliveredHasCopy, OneFailureDsn
<1>4. CASE TransportReturns(p)
  <2>1. PICK res \in [Batch(p) -> Outcomes] :
          /\ result' = [result EXCEPT ![p] =
                [r \in Recipients |-> IF r \in Batch(p) THEN res[r] ELSE Nothing]]
          /\ copies' = [r \in Recipients |->
                IF r \in Batch(p) /\ res[r] \in {"delivered", "replyLost"}
                THEN Inc(copies[r]) ELSE copies[r]]
    BY <1>4 DEF TransportReturns
  <2>2. ASSUME NEW r \in Recipients PROVE copies[r] > 0 => copies'[r] > 0
    BY <2>1 DEF Types, OtherTypes, Inc
  <2>3. Heard'
    <3> SUFFICES ASSUME NEW q \in Procs, NEW r \in Recipients, result'[q][r] = "delivered"
                 PROVE  copies'[r] > 0
      BY DEF Heard
    <3>1. CASE q = p
      <4>1. r \in Batch(p) /\ res[r] = "delivered"
        BY <2>1, <3>1 DEF Types, HandlerTypes, Nothing
      <4>2. QED  BY <2>1, <4>1 DEF Types, OtherTypes, Inc
    <3>2. CASE q # p
      BY <2>1, <2>2, <3>2 DEF Types, HandlerTypes, Facts, Heard
    <3>3. QED  BY <3>1, <3>2
  <2>4. DeliveredHasCopy'
    BY <1>4, <2>2 DEF TransportReturns, rowVars, Facts, DeliveredHasCopy
  <2>5. QED
    BY <1>4, <2>3, <2>4 DEF TransportReturns, rowVars, Facts, OneFailureDsn
<1>5. CASE Commit(p)
  <2> DEFINE moved == {r \in Batch(p) : state[r] = "attempting"}
  <2>1. /\ state' = [r \in Recipients |->
                       IF r \in moved THEN NextState(result[p][r]) ELSE state[r]]
        /\ result' = [result EXCEPT ![p] = Unclaimed]
        /\ UNCHANGED <<copies, filed, failSent>>
    BY <1>5 DEF Commit, ghostVars
  <2>2. \A o : NextState(o) = "delivered" => o = "delivered"
    BY DEF NextState
  <2>3. DeliveredHasCopy'
    BY <2>1, <2>2 DEF Types, HandlerTypes, Facts, Heard, DeliveredHasCopy
  <2>4. Heard'
    BY <2>1 DEF Types, HandlerTypes, Facts, Heard, Unclaimed, Nothing
  <2>5. QED  BY <2>1, <2>3, <2>4 DEF Facts, OneFailureDsn
<1>6. CASE HandlerDsn(p)
  BY <1>6, EmitFacts DEF HandlerDsn, operatorVars, Types, HandlerTypes
<1>7. CASE CompleteJob(p)
  BY <1>7, FactsAlone, ForgetForgets DEF CompleteJob, rowVars, operatorVars, ghostVars
<1>8. QED  BY <1>1, <1>2, <1>3, <1>4, <1>5, <1>6, <1>7 DEF Handle

\* Every other step.
LEMMA OtherFacts ==
    ASSUME Types, Facts,
           \/ \E p \in Procs : Sweep(p) \/ HandlerThrows(p) \/ SweepThrows(p) \/ Crash(p)
           \/ Operator
           \/ \E r \in Recipients, hard \in BOOLEAN : SesBounce(r, hard)
           \/ Tick
    PROVE  Facts'
<1>1. ASSUME NEW p \in Procs, Sweep(p) PROVE Facts'
  <2>1. CASE SweepRecover(p) \/ SweepOrphans(p) \/ SweepReschedule(p) \/ SweepUnsent(p)
    BY <2>1, FactsAlone DEF SweepRecover, SweepOrphans, SweepReschedule, SweepUnsent,
       SweepStep, rowVars, operatorVars
  <2>2. ASSUME NEW r \in Recipients, SweepRecoverOne(p, r) PROVE Facts'
    BY <2>2, RecoverFacts DEF SweepRecoverOne, SweepStep, operatorVars
  <2>3. CASE SweepDsn(p)
    BY <2>3, EmitFacts DEF SweepDsn, SweepStep, operatorVars, Types, SweepTypes
  <2>4. QED  BY <1>1, <2>1, <2>2, <2>3 DEF Sweep
<1>2. ASSUME NEW p \in Procs, HandlerThrows(p) \/ SweepThrows(p) \/ Crash(p) PROVE Facts'
  <2>1. CASE HandlerThrows(p) \/ Crash(p)
    BY <2>1, FactsAlone, ForgetForgets DEF HandlerThrows, Crash, rowVars, operatorVars,
       ghostVars
  <2>2. CASE SweepThrows(p)
    BY <2>2, FactsAlone DEF SweepThrows, SweepStep, rowVars, operatorVars
  <2>3. QED  BY <1>2, <2>1, <2>2
<1>3. CASE Operator
  <2>1. CASE Freeze \/ Thaw \/ ThawEnqueue
    BY <2>1, FactsAlone DEF Freeze, Thaw, ThawEnqueue, Elsewhere, handlerVars, rowVars,
       ghostVars
  <2>2. ASSUME NEW a \in Admins, NEW op \in AdminOps, AdminRead(a, op) PROVE Facts'
    BY <2>2, FactsAlone DEF AdminRead, Elsewhere, handlerVars, rowVars, ghostVars
  <2>3. ASSUME NEW a \in Admins, AdminNudge(a) PROVE Facts'
    BY <2>3, FactsAlone DEF AdminNudge, Elsewhere, handlerVars, ghostVars
  <2>4. ASSUME NEW a \in Admins, AdminDelete(a) PROVE Facts'
    BY <2>4 DEF AdminDelete, Chosen, Elsewhere, handlerVars, ghostVars, Facts, Heard,
       DeliveredHasCopy, OneFailureDsn
  <2>5. ASSUME NEW a \in Admins, AdminBounce(a) PROVE Facts'
    <3>1. /\ state' = [r \in Recipients |->
                         IF r \in admin[a].ids THEN "bounced" ELSE state[r]]
          /\ UNCHANGED <<copies, result>>
      BY <2>5 DEF AdminBounce, Chosen, Elsewhere, handlerVars
    <3>2. Heard' /\ DeliveredHasCopy'
      BY <3>1 DEF Facts, Heard, DeliveredHasCopy
    <3>3. CASE UNCHANGED <<failSent, filed>>
      BY <3>2, <3>3 DEF Facts, OneFailureDsn
    <3>4. CASE ~UNCHANGED <<failSent, filed>>
      <4>1. /\ failSent' = IF NullSender THEN failSent ELSE Chosen(a, failSent, TRUE)
            /\ filed' = [r \in Recipients |->
                           IF r \in admin[a].ids /\ ~failSent[r] /\ ~NullSender
                           THEN Inc(filed[r]) ELSE filed[r]]
        BY <2>5, <3>4 DEF AdminBounce
      <4>2. ASSUME NEW r \in Recipients
            PROVE  filed'[r] <= 1 /\ (filed'[r] > 0 => failSent'[r])
        <5>1. /\ filed[r] \in 0..2 /\ filed[r] <= 1 /\ (filed[r] > 0 => failSent[r])
              /\ failSent \in [Recipients -> BOOLEAN]
          BY DEF Types, RowTypes, OtherTypes, Facts, OneFailureDsn
        <5>2. CASE r \in admin[a].ids /\ ~failSent[r] /\ ~NullSender
          BY <4>1, <5>1, <5>2 DEF Inc, Chosen
        <5>3. CASE ~(r \in admin[a].ids /\ ~failSent[r] /\ ~NullSender)
          BY <4>1, <5>1, <5>3 DEF Chosen
        <5>4. QED  BY <5>2, <5>3
      <4>3. QED  BY <3>2, <4>2 DEF Facts, OneFailureDsn
    <3>5. QED  BY <3>3, <3>4
  <2>6. ASSUME NEW r \in Recipients, Cancel(r) PROVE Facts'
    BY <2>6 DEF Cancel, Elsewhere, handlerVars, ghostVars, Types, RowTypes, Facts, Heard,
       DeliveredHasCopy, OneFailureDsn
  <2>7. QED
    BY <1>3, <2>1, <2>2, <2>3, <2>4, <2>5, <2>6 DEF Operator, AdminWrite
<1>4. ASSUME NEW r \in Recipients, NEW hard \in BOOLEAN, SesBounce(r, hard) PROVE Facts'
  <2>1. \A q \in Recipients : state'[q] = state[q] \/ state'[q] = "bounced"
    BY <1>4 DEF SesBounce, Types, RowTypes
  <2>2. UNCHANGED <<copies, filed, failSent, result>>
    BY <1>4 DEF SesBounce, Elsewhere, handlerVars
  <2>3. QED
    BY <2>1, <2>2 DEF Facts, Heard, DeliveredHasCopy, OneFailureDsn
<1>5. CASE Tick
  BY <1>5, FactsAlone DEF Tick, operatorVars, ghostVars
<1>6. QED  BY <1>1, <1>2, <1>3, <1>4, <1>5

\* Sound is an invariant.
LEMMA SoundAlways == Spec => []Sound
<1>1. Init => Sound
  <2> SUFFICES ASSUME Init PROVE Sound
    OBVIOUS
  <2>1. RowTypes
    BY DEF Init, RowTypes, States, Transports
  <2>2. HandlerTypes
    <3>1. Unclaimed \in [Recipients -> Transports \cup {Nothing}]
      BY DEF Unclaimed
    <3>2. Unclaimed \in [Recipients -> Outcomes \cup {Nothing}]
      BY DEF Unclaimed
    <3>3. [r \in Recipients |-> Unseen] \in [Recipients -> Sightings]
      BY DEF Unseen, Sightings
    <3>4. QED  BY <3>1, <3>2, <3>3 DEF Init, HandlerTypes, Places
  <2>3. SweepTypes /\ OtherTypes
    BY OutboundAssumption DEF Init, SweepTypes, OtherTypes, NoAdmin
  <2>4. Heard /\ DeliveredHasCopy /\ OneFailureDsn
    BY DEF Init, Heard, DeliveredHasCopy, OneFailureDsn, Unclaimed, Nothing
  <2>5. QED  BY <2>1, <2>2, <2>3, <2>4 DEF Sound, Types
<1>2. Sound /\ [Next]_vars => Sound'
  <2> SUFFICES ASSUME Types, Facts, [Next]_vars PROVE Types' /\ Facts'
    BY DEF Sound, Facts
  <2>1. CASE Next
    BY <2>1, HandleTypes, SweepKeepsTypes, FailureTypes, OperatorTypes, OutsideTypes,
       HandleFacts, OtherFacts DEF Next
  <2>2. CASE UNCHANGED vars
    <3>1. Types'
      BY <2>2 DEF vars, rowVars, handlerVars, sweepVars, operatorVars, ghostVars, Types,
         RowTypes, HandlerTypes, SweepTypes, OtherTypes
    <3>2. Facts'
      BY <2>2, FactsAlone DEF vars, rowVars, handlerVars, operatorVars, ghostVars
    <3>3. QED  BY <3>1, <3>2
  <2>3. QED  BY <2>1, <2>2
<1>3. QED  BY <1>1, <1>2, PTL DEF Spec

\* A recipient is marked delivered only when the remote has accepted a copy: for any
\* number of failures, processes and operators (nextState, the outcome transaction).
THEOREM DeliveredSafe == Spec => []DeliveredHasCopy
<1>1. Sound => DeliveredHasCopy
  BY DEF Sound
<1>2. QED  BY <1>1, SoundAlways, PTL

\* At most one failure DSN is filed for a recipient, by handlers, sweepers and
\* operators together, and it is marked so (the claim of failureDsnSentAt).
THEOREM OneFailureSafe == Spec => []OneFailureDsn
<1>1. Sound => OneFailureDsn
  BY DEF Sound
<1>2. QED  BY <1>1, SoundAlways, PTL

-----------------------------------------------------------------------------
\* How a recipient moves.

\* The moves of begin, of recovery and the outcome transaction, of the operators, of the
\* sender and of SES.
Move(r) ==
    \/ state'[r] = state[r]
    \/ state[r] \in Active /\ state'[r] = "attempting"
    \/ state[r] = "attempting" /\ state'[r] \in {"deferred", "delivered", "bounced"}
    \/ state'[r] = "cancelled" /\ \E a \in Admins : admin[a].op = "delete" /\ r \in admin[a].ids
    \/ state'[r] = "bounced" /\ BounceOpen(r)
    \/ OwnerCancels /\ state[r] \in Active /\ state'[r] = "cancelled"
    \/ SesNotifies /\ state[r] = "delivered" /\ state'[r] = "bounced"

\* No step moves a recipient in another way.
LEMMA Moves ==
    ASSUME Types, [Next]_vars, NEW r \in Recipients
    PROVE  Move(r)
<1> USE DEF Move
<1>1. CASE UNCHANGED state
  BY <1>1
<1>2. ASSUME NEW q \in Recipients, RecoverRow(q) PROVE Move(r)
  BY <1>2 DEF RecoverRow, rowVars, Types, RowTypes
<1>3. ASSUME NEW p \in Procs, Handle(p) PROVE Move(r)
  <2>1. CASE \/ \E k \in Keys : ClaimJob(p, k)
             \/ Recover(p) \/ Load(p) \/ BeginNothing(p) \/ TransportReturns(p)
             \/ HandlerDsn(p) \/ BatchDone(p) \/ CompleteJob(p)
    BY <1>1, <2>1 DEF ClaimJob, Recover, Load, BeginNothing, TransportReturns, HandlerDsn,
       BatchDone, CompleteJob, rowVars
  <2>2. CASE \E q \in Recipients : RecoverOne(p, q)
    BY <1>2, <2>2 DEF RecoverOne
  <2>3. CASE Begin(p)
    BY <2>3 DEF Begin, Due, Waiting
  <2>4. CASE Commit(p)
    <3>1. \A o : NextState(o) \in {"deferred", "delivered", "bounced"}
      BY DEF NextState
    <3>2. QED  BY <2>4, <3>1 DEF Commit
  <2>5. QED  BY <1>3, <2>1, <2>2, <2>3, <2>4 DEF Handle
<1>4. ASSUME NEW p \in Procs, Sweep(p) PROVE Move(r)
  <2>1. CASE \/ SweepRecover(p) \/ SweepOrphans(p) \/ SweepReschedule(p) \/ SweepUnsent(p)
             \/ SweepDsn(p)
    BY <1>1, <2>1 DEF SweepRecover, SweepOrphans, SweepReschedule, SweepUnsent, SweepDsn,
       rowVars
  <2>2. CASE \E q \in Recipients : SweepRecoverOne(p, q)
    BY <1>2, <2>2 DEF SweepRecoverOne
  <2>3. QED  BY <1>4, <2>1, <2>2 DEF Sweep
<1>5. ASSUME NEW p \in Procs, HandlerThrows(p) \/ SweepThrows(p) \/ Crash(p) PROVE Move(r)
  BY <1>1, <1>5 DEF HandlerThrows, SweepThrows, Crash, rowVars
<1>6. CASE Operator
  <2>1. CASE \/ Freeze \/ Thaw \/ ThawEnqueue
             \/ \E a \in Admins, op \in AdminOps : AdminRead(a, op)
             \/ \E a \in Admins : AdminNudge(a)
    BY <1>1, <2>1 DEF Freeze, Thaw, ThawEnqueue, AdminRead, AdminNudge, rowVars
  <2>2. ASSUME NEW a \in Admins, AdminDelete(a) PROVE Move(r)
    BY <2>2 DEF AdminDelete, Chosen
  <2>3. ASSUME NEW a \in Admins, AdminBounce(a) PROVE Move(r)
    BY <2>3 DEF AdminBounce, Chosen, BounceOpen
  <2>4. ASSUME NEW q \in Recipients, Cancel(q) PROVE Move(r)
    BY <2>4 DEF Cancel, Types, RowTypes
  <2>5. QED  BY <1>6, <2>1, <2>2, <2>3, <2>4 DEF Operator, AdminWrite
<1>7. ASSUME NEW q \in Recipients, NEW hard \in BOOLEAN, SesBounce(q, hard) PROVE Move(r)
  BY <1>7 DEF SesBounce, Types, RowTypes
<1>8. CASE Tick
  BY <1>1, <1>8 DEF Tick
<1>9. CASE UNCHANGED vars
  BY <1>1, <1>9 DEF vars, rowVars
<1>10. QED  BY <1>3, <1>4, <1>5, <1>6, <1>7, <1>8, <1>9 DEF Next

\* Only the clock and the operators' requests move what they count.
LEMMA CountsStay ==
    ASSUME [Next]_vars
    PROVE  /\ ~Tick => queueAge' = queueAge
           /\ ~Operator => admin' = admin /\ adminCount' = adminCount
<1>1. ASSUME NEW p \in Procs, Handle(p) PROVE UNCHANGED <<queueAge, admin, adminCount>>
  BY <1>1 DEF Handle, ClaimJob, Recover, RecoverOne, Load, Begin, BeginNothing,
     TransportReturns, Commit, HandlerDsn, BatchDone, CompleteJob, operatorVars
<1>2. ASSUME NEW p \in Procs, Sweep(p) PROVE UNCHANGED <<queueAge, admin, adminCount>>
  BY <1>2 DEF Sweep, SweepRecover, SweepRecoverOne, SweepOrphans, SweepReschedule,
     SweepUnsent, SweepDsn, SweepStep, operatorVars
<1>3. ASSUME NEW p \in Procs, HandlerThrows(p) \/ SweepThrows(p) \/ Crash(p)
      PROVE  UNCHANGED <<queueAge, admin, adminCount>>
  BY <1>3 DEF HandlerThrows, SweepThrows, SweepStep, Crash, operatorVars
<1>4. Operator => queueAge' = queueAge
  BY DEF Operator, AdminWrite, Cancel, Freeze, Thaw, ThawEnqueue, AdminRead, AdminNudge, AdminDelete, AdminBounce,
     Elsewhere
<1>5. ASSUME NEW r \in Recipients, NEW hard \in BOOLEAN, SesBounce(r, hard)
      PROVE  UNCHANGED <<queueAge, admin, adminCount>>
  BY <1>5 DEF SesBounce, Elsewhere, operatorVars
<1>6. Tick => admin' = admin /\ adminCount' = adminCount
  BY DEF Tick, operatorVars
<1>7. UNCHANGED vars => UNCHANGED <<queueAge, admin, adminCount>>
  BY DEF vars, operatorVars
<1>8. QED  BY <1>1, <1>2, <1>3, <1>4, <1>5, <1>6, <1>7 DEF Next

\* An operator's request begins with recipients that wait.
LEMMA BounceReadsWaiting ==
    ASSUME Sound, [Next]_vars, NEW r \in Recipients, state[r] \notin Active, BounceOpen(r)'
    PROVE  BounceOpen(r)
<1>1. CASE admin' = admin
  BY <1>1 DEF BounceOpen
<1>2. ASSUME NEW a \in Admins, NEW op \in AdminOps, AdminRead(a, op) PROVE BounceOpen(r)
  <2>1. PICK b \in Admins : admin'[b].op = "bounce" /\ r \in admin'[b].ids
    BY DEF BounceOpen
  <2>2. b = a => r \in Waiting
    BY <1>2, <2>1 DEF AdminRead, Sound, Types, OtherTypes
  <2>3. b # a
    BY <2>2 DEF Waiting
  <2>4. admin'[b] = admin[b]
    BY <1>2, <2>3 DEF AdminRead, Sound, Types, OtherTypes
  <2>5. QED  BY <2>1, <2>4 DEF BounceOpen
<1>3. ASSUME NEW a \in Admins, AdminWrite(a) PROVE BounceOpen(r)
  <2>1. PICK b \in Admins : admin'[b].op = "bounce" /\ r \in admin'[b].ids
    BY DEF BounceOpen
  <2>2. Answered(a)
    BY <1>3 DEF AdminWrite, AdminNudge, AdminDelete, AdminBounce
  <2>3. admin'[b] = admin[b] \/ admin'[b] = NoAdmin
    BY <2>2 DEF Answered, Sound, Types, OtherTypes
  <2>4. QED  BY <2>1, <2>3 DEF BounceOpen, NoAdmin
<1>4. CASE Operator
  BY <1>1, <1>2, <1>3, <1>4 DEF Operator, Freeze, Thaw, ThawEnqueue, Cancel, operatorVars
<1>5. CASE ~Operator
  BY <1>1, <1>5, CountsStay
<1>6. QED  BY <1>4, <1>5

\* What was cancelled or deleted stays so, but for a bounce by an operator who had read the
\* recipient before, and no new one: no late outcome, recovery, retry or SES report moves it
\* (doDelete, cancelRecipient; the guards of begin, recovery and the outcome transaction).
THEOREM CancelledStaysSafe == Spec => CancelledStays
<1>1. Sound /\ [Next]_vars =>
        [\A r \in Recipients :
            state[r] = "cancelled" =>
                \/ state'[r] = "cancelled" /\ (BounceOpen(r)' => BounceOpen(r))
                \/ state'[r] = "bounced" /\ BounceOpen(r)]_vars
  <2> SUFFICES ASSUME Sound, [Next]_vars, NEW r \in Recipients, state[r] = "cancelled"
               PROVE  \/ state'[r] = "cancelled" /\ (BounceOpen(r)' => BounceOpen(r))
                      \/ state'[r] = "bounced" /\ BounceOpen(r)
    OBVIOUS
  <2>1. state[r] \notin Active
    BY DEF Active
  <2>2. BounceOpen(r)' => BounceOpen(r)
    BY <2>1, BounceReadsWaiting
  <2>3. Move(r)
    BY Moves DEF Sound
  <2>4. QED  BY <2>1, <2>2, <2>3 DEF Move
<1>2. QED  BY <1>1, SoundAlways, PTL DEF Spec, CancelledStays

\* A final state is final, through any number of failures, recoveries and retries, as
\* long as nobody deletes or bounces by hand and SES reports nothing.
THEOREM FinalSafe ==
    ASSUME Quiet, "bounce" \notin AdminOps
    PROVE  Spec => FinalIsFinal
<1>1. Sound /\ [Next]_vars =>
        [\A r \in Recipients : state[r] \in Final => state'[r] = state[r]]_vars
  <2> SUFFICES ASSUME Sound, [Next]_vars, NEW r \in Recipients, state[r] \in Final
               PROVE  state'[r] = state[r]
    OBVIOUS
  <2>1. \A a \in Admins : admin[a].op \notin {"delete", "bounce"}
    BY DEF Sound, Types, OtherTypes, Quiet, Nothing
  <2>2. Move(r)
    BY Moves DEF Sound
  <2>3. QED  BY <2>1, <2>2 DEF Move, BounceOpen, Active, Final, Quiet
<1>2. QED  BY <1>1, SoundAlways, PTL DEF Spec, FinalIsFinal

\* How a final state is left: an operator who read the recipient while it was waiting
\* deletes or bounces it after it has ended (doDelete and doBounce update by id,
\* whatever the state is now), or SES reports the bounce of what it had accepted.
\* What was cancelled is left for a bounce only.
Overruled(r) ==
    \/ state'[r] = "cancelled" /\ \E a \in Admins : admin[a].op = "delete" /\ r \in admin[a].ids
    \/ state'[r] = "bounced" /\ BounceOpen(r)
    \/ SesNotifies /\ state[r] = "delivered" /\ state'[r] = "bounced"

\* A final state is left in no other way, whatever fails and whatever operators and SES
\* do: late outcomes, recoveries, retries and sweeps leave it alone.
THEOREM FinalLeftByHand ==
    Spec => [][\A r \in Recipients : state[r] \in Final =>
                   state'[r] = state[r] \/ Overruled(r)]_vars
<1>1. Sound /\ [Next]_vars => [\A r \in Recipients : state[r] \in Final =>
                                  state'[r] = state[r] \/ Overruled(r)]_vars
  <2> SUFFICES ASSUME Sound, [Next]_vars, NEW r \in Recipients, state[r] \in Final
               PROVE  state'[r] = state[r] \/ Overruled(r)
    OBVIOUS
  <2>1. Move(r)
    BY Moves DEF Sound
  <2>2. QED  BY <2>1 DEF Move, Active, Final, Overruled
<1>2. QED  BY <1>1, SoundAlways, PTL DEF Spec

-----------------------------------------------------------------------------
\* What is reported has ended.

\* An end is left for another end only.
LEMMA EndStays ==
    ASSUME Sound, [Next]_vars, NEW r \in Recipients, state[r] \in Ended
    PROVE  state'[r] \in Ended
<1>1. Move(r)
  BY Moves DEF Sound
<1>2. CASE "delete" \in AdminOps
  <2>1. Ended = {"bounced", "cancelled"}
    BY <1>2 DEF Ended
  <2>2. QED  BY <1>1, <2>1 DEF Move, Active
<1>3. CASE "delete" \notin AdminOps
  <2>1. Ended = {"bounced"}
    BY <1>3 DEF Ended
  <2>2. \A a \in Admins : admin[a].op # "delete"
    BY <1>3 DEF Sound, Types, OtherTypes, Nothing
  <2>3. QED  BY <1>1, <2>1, <2>2 DEF Move, Active
<1>4. QED  BY <1>2, <1>3

\* What operators and owners do to the rows: nothing begins an attempt or wakes a row
\* that had ended, and only a retry moves its wait.
LEMMA OperatorRows ==
    ASSUME Sound, Operator
    PROVE  /\ \A r \in Recipients :
                 /\ age'[r] = age[r] \/ age'[r] = 0
                 /\ state'[r] = "attempting" => state[r] = "attempting"
                 /\ state'[r] \in Active => state[r] \in Active
           /\ wait' = wait \/ \E a \in Admins : AdminNudge(a)
<1>1. CASE \E q \in Recipients : Cancel(q)
  BY <1>1 DEF Cancel, Active, Sound, Types, RowTypes
<1>2. CASE \E a \in Admins : AdminNudge(a)
  BY <1>2 DEF AdminNudge, Chosen
<1>3. CASE \E a \in Admins : AdminDelete(a)
  BY <1>3 DEF AdminDelete, Chosen, Active
<1>4. CASE \E a \in Admins : AdminBounce(a)
  BY <1>4 DEF AdminBounce, Chosen, Active
<1>5. CASE UNCHANGED <<state, age, wait>>
  BY <1>5
<1>6. QED
  BY <1>1, <1>2, <1>3, <1>4, <1>5 DEF Operator, AdminWrite, Freeze, Thaw, ThawEnqueue, AdminRead,
     rowVars

\* A step that adds no intent and no report keeps Told.
LEMMA ToldAlone ==
    ASSUME Sound, Told, [Next]_vars, UNCHANGED filed,
           \A p \in Procs : intents'[p] \subseteq intents[p] /\ sIntents'[p] \subseteq sIntents[p]
    PROVE  Told'
BY EndStays DEF Told, AboutEnds, ReportedIsEnded

\* A report is filed of a recipient that has ended.
LEMMA EmitTold ==
    ASSUME Sound, Told, NEW p \in Procs, NEW i \in intents[p] \cup sIntents[p], EmitDsn(i),
           UNCHANGED state
    PROVE  ReportedIsEnded'
<1>1. i \in Intents
  BY DEF Sound, Types, HandlerTypes, SweepTypes
<1>2. ASSUME NEW r \in Recipients, filed'[r] # filed[r] PROVE state[r] \in Ended
  <2>1. i[2] = r /\ i[1] = "failure"
    BY <1>1, <1>2 DEF EmitDsn, Intents, Sound, Types, OtherTypes
  <2>2. i = <<"failure", r>>
    BY <1>1, <2>1 DEF Intents
  <2>3. QED  BY <2>2 DEF Told, AboutEnds
<1>3. QED  BY <1>2 DEF Told, ReportedIsEnded

\* Every step of a handler.
LEMMA HandleTold ==
    ASSUME Sound, Told, NEW p \in Procs, Handle(p), [Next]_vars
    PROVE  Told'
<1>1. CASE \/ \E k \in Keys : ClaimJob(p, k)
           \/ Recover(p) \/ (\E r \in Recipients : RecoverOne(p, r))
           \/ Load(p) \/ Begin(p) \/ BeginNothing(p)
           \/ TransportReturns(p) \/ BatchDone(p)
  <2>1. UNCHANGED <<filed, intents, sIntents>>
    BY <1>1 DEF ClaimJob, Recover, RecoverOne, Load, Begin, BeginNothing, TransportReturns,
       BatchDone, ghostVars, sweepVars
  <2>2. QED  BY <2>1, ToldAlone
<1>2. CASE CompleteJob(p)
  <2>1. UNCHANGED <<filed, sIntents>>
    BY <1>2 DEF CompleteJob, ghostVars, sweepVars
  <2>2. \A q \in Procs : intents'[q] \subseteq intents[q]
    BY <1>2 DEF CompleteJob, Forget, Sound, Types, HandlerTypes
  <2>3. QED  BY <2>1, <2>2, ToldAlone
<1>3. CASE HandlerDsn(p)
  <2>1. PICK i \in intents[p] :
          EmitDsn(i) /\ intents' = [intents EXCEPT ![p] = @ \ {i}]
    BY <1>3 DEF HandlerDsn
  <2>2. UNCHANGED <<state, sIntents>>
    BY <1>3 DEF HandlerDsn, sweepVars
  <2>3. ReportedIsEnded'
    BY <2>1, <2>2, EmitTold
  <2>4. AboutEnds'
    BY <2>1, <2>2 DEF Told, AboutEnds, Sound, Types, HandlerTypes
  <2>5. QED  BY <2>3, <2>4 DEF Told
<1>4. CASE Commit(p)
  <2> DEFINE moved == {r \in Batch(p) : state[r] = "attempting"}
             new == UNION {DsnFor(r, result[p][r], seen[p][r]) : r \in moved}
  <2>1. /\ state' = [r \in Recipients |->
                       IF r \in moved THEN NextState(result[p][r]) ELSE state[r]]
        /\ intents' = [intents EXCEPT ![p] = new]
        /\ UNCHANGED <<filed, sIntents>>
    BY <1>4 DEF Commit, ghostVars, sweepVars
  <2>2. ASSUME NEW r \in Recipients, <<"failure", r>> \in new PROVE state'[r] \in Ended
    <3>1. PICK q \in moved : <<"failure", r>> \in DsnFor(q, result[p][q], seen[p][q])
      BY <2>2
    <3>2. q = r /\ NextState(result[p][q]) = "bounced"
      BY <3>1 DEF DsnFor
    <3>3. QED  BY <2>1, <3>2 DEF Batch, Ended
  <2>3. AboutEnds'
    <3> SUFFICES ASSUME NEW q \in Procs, NEW r \in Recipients,
                        <<"failure", r>> \in intents'[q] \cup sIntents'[q]
                 PROVE  state'[r] \in Ended
      BY DEF AboutEnds
    <3>1. \/ <<"failure", r>> \in intents[q] \cup sIntents[q]
          \/ <<"failure", r>> \in new
      BY <2>1 DEF Sound, Types, HandlerTypes
    <3>2. QED  BY <2>2, <3>1, EndStays DEF Told, AboutEnds
  <2>4. ReportedIsEnded'
    BY <2>1, EndStays DEF Told, ReportedIsEnded
  <2>5. QED  BY <2>3, <2>4 DEF Told
<1>5. QED  BY <1>1, <1>2, <1>3, <1>4 DEF Handle

\* Every other step.
LEMMA OtherTold ==
    ASSUME Sound, Told, [Next]_vars,
           \/ \E p \in Procs : Sweep(p) \/ HandlerThrows(p) \/ SweepThrows(p) \/ Crash(p)
           \/ Operator
           \/ \E r \in Recipients, hard \in BOOLEAN : SesBounce(r, hard)
           \/ Tick
    PROVE  Told'
<1>1. ASSUME NEW p \in Procs, Sweep(p) PROVE Told'
  <2>1. CASE \/ SweepRecover(p) \/ (\E r \in Recipients : SweepRecoverOne(p, r))
             \/ SweepOrphans(p) \/ SweepReschedule(p)
    <3>1. UNCHANGED <<filed, intents, sIntents>>
      BY <2>1 DEF SweepRecover, SweepRecoverOne, SweepOrphans, SweepReschedule, SweepStep
    <3>2. QED  BY <3>1, ToldAlone
  <2>2. CASE SweepUnsent(p)
    <3>1. /\ sIntents' = [sIntents EXCEPT ![p] = {<<"failure", r>> : r \in Unsent}]
          /\ UNCHANGED <<state, filed, intents>>
      BY <2>2 DEF SweepUnsent, SweepStep, rowVars
    <3>2. \A r \in Unsent : state[r] = "bounced"
      BY DEF Unsent
    <3>3. AboutEnds'
      BY <3>1, <3>2 DEF Told, AboutEnds, Ended, Sound, Types, SweepTypes
    <3>4. QED  BY <3>1, <3>3 DEF Told, ReportedIsEnded
  <2>3. CASE SweepDsn(p)
    <3>1. PICK i \in sIntents[p] :
            EmitDsn(i) /\ sIntents' = [sIntents EXCEPT ![p] = @ \ {i}]
      BY <2>3 DEF SweepDsn
    <3>2. UNCHANGED <<state, intents>>
      BY <2>3 DEF SweepDsn, SweepStep
    <3>3. ReportedIsEnded'
      BY <3>1, <3>2, EmitTold
    <3>4. AboutEnds'
      BY <3>1, <3>2 DEF Told, AboutEnds, Sound, Types, SweepTypes
    <3>5. QED  BY <3>3, <3>4 DEF Told
  <2>4. QED  BY <1>1, <2>1, <2>2, <2>3 DEF Sweep
<1>2. ASSUME NEW p \in Procs, HandlerThrows(p) \/ SweepThrows(p) \/ Crash(p) PROVE Told'
  <2>1. UNCHANGED filed
    BY <1>2 DEF HandlerThrows, SweepThrows, SweepStep, Crash, ghostVars
  <2>2. \A q \in Procs : intents'[q] \subseteq intents[q] /\ sIntents'[q] \subseteq sIntents[q]
    BY <1>2 DEF HandlerThrows, SweepThrows, SweepStep, Crash, Forget, sweepVars, Sound, Types,
       HandlerTypes, SweepTypes
  <2>3. QED  BY <2>1, <2>2, ToldAlone
<1>3. CASE Operator
  <2>1. CASE \/ Freeze \/ Thaw \/ ThawEnqueue
             \/ \E a \in Admins, op \in AdminOps : AdminRead(a, op)
             \/ \E r \in Recipients : Cancel(r)
    <3>1. UNCHANGED <<filed, intents, sIntents>>
      BY <2>1 DEF Freeze, Thaw, ThawEnqueue, AdminRead, Cancel, Elsewhere, handlerVars,
         sweepVars, ghostVars
    <3>2. QED  BY <3>1, ToldAlone
  <2>2. ASSUME NEW a \in Admins, AdminNudge(a) \/ AdminDelete(a) PROVE Told'
    <3>1. UNCHANGED <<filed, intents, sIntents>>
      BY <2>2 DEF AdminNudge, AdminDelete, Elsewhere, handlerVars, sweepVars, ghostVars
    <3>2. QED  BY <3>1, ToldAlone
  <2>3. ASSUME NEW a \in Admins, AdminBounce(a) PROVE Told'
    <3>1. UNCHANGED <<intents, sIntents>>
      BY <2>3 DEF AdminBounce, Elsewhere, handlerVars, sweepVars
    <3>2. AboutEnds'
      BY <3>1, EndStays DEF Told, AboutEnds
    <3>3. ASSUME NEW r \in Recipients, filed'[r] # filed[r] PROVE state'[r] \in Ended
      BY <2>3, <3>3 DEF AdminBounce, Chosen, Ended, Sound, Types, OtherTypes
    <3>4. ReportedIsEnded'
      BY <3>1, <3>3, EndStays DEF Told, ReportedIsEnded
    <3>5. QED  BY <3>2, <3>4 DEF Told
  <2>4. QED  BY <1>3, <2>1, <2>2, <2>3 DEF Operator, AdminWrite
<1>4. ASSUME NEW r \in Recipients, NEW hard \in BOOLEAN, SesBounce(r, hard) PROVE Told'
  <2>1. UNCHANGED <<filed, intents, sIntents>>
    BY <1>4 DEF SesBounce, Elsewhere, handlerVars, sweepVars
  <2>2. QED  BY <2>1, ToldAlone
<1>5. CASE Tick
  <2>1. UNCHANGED <<filed, intents, sIntents>>
    BY <1>5 DEF Tick, ghostVars
  <2>2. QED  BY <2>1, ToldAlone
<1>6. QED  BY <1>1, <1>2, <1>3, <1>4, <1>5

\* Told is an invariant.
LEMMA ToldAlways == Spec => []Told
<1>1. Init => Told
  BY DEF Init, Told, AboutEnds, ReportedIsEnded
<1>2. Sound /\ Told /\ [Next]_vars => Told'
  <2> SUFFICES ASSUME Sound, Told, [Next]_vars PROVE Told'
    OBVIOUS
  <2>1. CASE Next
    BY <2>1, HandleTold, OtherTold DEF Next
  <2>2. CASE UNCHANGED vars
    BY <2>2, ToldAlone DEF vars, rowVars, handlerVars, sweepVars, ghostVars
  <2>3. QED  BY <2>1, <2>2
<1>3. QED  BY <1>1, <1>2, SoundAlways, PTL DEF Spec

\* The sender is told of a failure only when the recipient has ended without a delivery,
\* whatever fails, whatever the operator does and whatever SES reports (nextState's DSNs,
\* the sweep's query, bounceOne; the guards of begin, recovery and the outcome transaction).
THEOREM ReportedSafe == Spec => []ReportedIsEnded
<1>1. Told => ReportedIsEnded
  BY DEF Told
<1>2. QED  BY <1>1, ToldAlways, PTL

-----------------------------------------------------------------------------
\* A bounce is the last word.

\* Nothing moves a bounce on.
LEMMA BounceStays ==
    ASSUME Quiet, Sound, [Next]_vars, NEW r \in Recipients, state[r] = "bounced"
    PROVE  state'[r] = "bounced"
<1>1. \A a \in Admins : admin[a].op # "delete"
  BY DEF Sound, Types, OtherTypes, Quiet, Nothing
<1>2. Move(r)
  BY Moves DEF Sound
<1>3. QED  BY <1>1, <1>2 DEF Move, Active, Quiet

\* What is suppressed has bounced.
LEMMA BouncedKept ==
    ASSUME Quiet, Sound, Bounced, [Next]_vars
    PROVE  Bounced'
<1>1. CASE suppressed' = suppressed
  BY <1>1, BounceStays DEF Bounced
<1>2. ASSUME NEW p \in Procs, Commit(p) PROVE Bounced'
  <2>1. suppressed' = [r \in Recipients |-> suppressed[r] \/ Suppress(r, p)]
    BY <1>2 DEF Commit
  <2>2. ASSUME NEW r \in Recipients, Suppress(r, p) PROVE state'[r] = "bounced"
    BY <1>2, <2>2 DEF Commit, Suppress, NextState
  <2>3. ASSUME NEW r \in Recipients, suppressed'[r] PROVE state'[r] = "bounced"
    BY <2>1, <2>2, <2>3, BounceStays DEF Bounced
  <2>4. QED  BY <2>3 DEF Bounced
<1>3. \A r \in Recipients, hard \in BOOLEAN : ~SesBounce(r, hard)
  BY DEF SesBounce, Quiet
<1>4. ASSUME NEW p \in Procs, Handle(p), ~Commit(p) PROVE suppressed' = suppressed
  BY <1>4 DEF Handle, ClaimJob, Recover, RecoverOne, Load, Begin, BeginNothing,
     TransportReturns, HandlerDsn, BatchDone, CompleteJob
<1>5. ASSUME NEW p \in Procs, Sweep(p) \/ HandlerThrows(p) \/ SweepThrows(p) \/ Crash(p)
      PROVE  suppressed' = suppressed
  BY <1>5 DEF Sweep, SweepRecover, SweepRecoverOne, SweepOrphans, SweepReschedule,
     SweepUnsent, SweepDsn, SweepStep, HandlerThrows, SweepThrows, Crash
<1>6. ASSUME Operator \/ Tick PROVE suppressed' = suppressed
  BY <1>6 DEF Operator, AdminWrite, Cancel, Freeze, Thaw, ThawEnqueue, AdminRead, AdminNudge, AdminDelete,
     AdminBounce, Tick
<1>7. QED  BY <1>1, <1>2, <1>3, <1>4, <1>5, <1>6 DEF Next, vars

\* Bounced is an invariant.
LEMMA BouncedAlways == ASSUME Quiet PROVE Spec => []Bounced
<1>1. Init => Bounced
  BY DEF Init, Bounced
<1>2. Sound /\ Bounced /\ [Next]_vars => Bounced'
  BY BouncedKept
<1>3. QED  BY <1>1, <1>2, SoundAlways, PTL DEF Spec

\* The sender is told of a failure, and the address suppressed, only when the
\* recipient has bounced for good, through failures of every kind, retries, bounces by
\* hand and the sender's cancels.  A delete by id, and a report of SES during an attempt,
\* are excluded.
THEOREM BounceIsLastSafe == ASSUME Quiet PROVE Spec => []BounceIsLast
<1>1. Told /\ Bounced => BounceIsLast
  BY DEF Told, ReportedIsEnded, Ended, Quiet, Bounced, BounceIsLast
<1>2. QED  BY <1>1, ToldAlways, BouncedAlways, PTL

-----------------------------------------------------------------------------
\* When nothing fails: one handler per attempt, and no attempt outlives its lease.

Direct == Route("direct")

\* The operator only retries.
LEMMA CalmMeans ==
    ASSUME Calm, Sound
    PROVE  /\ \A a \in Admins : ~AdminDelete(a) /\ ~AdminBounce(a)
           /\ \A r \in Recipients : ~Cancel(r)
           /\ \A r \in Recipients, hard \in BOOLEAN : ~SesBounce(r, hard)
<1>1. \A a \in Admins : admin[a].op \notin {"delete", "bounce"}
  BY DEF Calm, Quiet, Sound, Types, OtherTypes, Nothing
<1>2. QED  BY <1>1 DEF AdminDelete, AdminBounce, Cancel, SesBounce, Calm, Quiet

\* Attempts end within the timeout and the lease is longer: recovery finds nothing.
LEMMA NoneInterrupted ==
    ASSUME Sound, Orderly
    PROVE  Interrupted = {}
<1>1. ASSUME NEW r \in Recipients, state[r] = "attempting" PROVE ~(age[r] > Lease)
  <2>1. PICK p \in Procs : InFlight(p, r)
    BY <1>1 DEF Orderly, Accounted
  <2>2. age[r] <= AttemptTimeout
    BY <2>1 DEF Orderly, Flying, Flight
  <2>3. age[r] \in Nat
    BY DEF Sound, Types, RowTypes
  <2>4. QED  BY <2>2, <2>3, OutboundAssumption, JobTableAssumption
<1>2. QED  BY <1>1 DEF Interrupted

\* A route is a transport.
LEMMA DirectIs == Direct \in Transports /\ Direct # Nothing
BY DEF Direct, Route, Transports, Nothing

\* Nothing of handler q changes.
Same(q) ==
    /\ pc'[q] = pc[q] /\ claimed'[q] = claimed[q] /\ seen'[q] = seen[q]
    /\ current'[q] = current[q] /\ timer'[q] = timer[q] /\ result'[q] = result[q]

\* Handler q has no attempt under way and begins none.
Grounded(q) ==
    /\ pc[q] \notin {"transport", "commit"}
    /\ \A r \in Recipients : claimed'[q][r] = Nothing
    /\ timer'[q] = 0

\* Only handlers without attempts go on, and the rows at most get younger.
LEMMA OrderlyAlone ==
    ASSUME Sound, Types', Orderly, UNCHANGED <<state, open, copies>>,
           NoneStuck', Routed',
           \A r \in Recipients : age'[r] <= age[r],
           \A q \in Procs : Same(q) \/ Grounded(q)
    PROVE  Orderly'
<1>1. ASSUME NEW q \in Procs, NEW r \in Recipients, InFlight(q, r)' \/ InFlight(q, r)
      PROVE  Same(q) /\ InFlight(q, r) /\ InFlight(q, r)'
  BY <1>1 DEF InFlight, Same, Grounded, Orderly, Flying, Flight
<1>2. Flying'
  <2> SUFFICES ASSUME NEW q \in Procs, NEW r \in Recipients, InFlight(q, r)'
               PROVE  Flight(q, r)'
    BY DEF Flying
  <2>1. Same(q) /\ InFlight(q, r) /\ Flight(q, r)
    BY <1>1 DEF Orderly, Flying
  <2>2. age'[r] <= age[r] /\ age[r] \in Nat /\ age'[r] \in Nat /\ timer[q] \in Nat
    BY DEF Sound, Types, RowTypes, HandlerTypes
  <2>3. age'[r] <= AttemptTimeout /\ (pc[q] = "transport" => age'[r] <= timer[q])
    BY <2>1, <2>2, OutboundAssumption DEF Flight
  <2>4. QED  BY <2>1, <2>3 DEF Flight, Same
<1>3. Alone'
  BY <1>1 DEF Orderly, Alone
<1>4. Accounted'
  BY <1>1 DEF Orderly, Accounted
<1>5. Timed'
  BY OutboundAssumption DEF Orderly, Timed, Same, Grounded
<1>6. QED  BY <1>2, <1>3, <1>4, <1>5 DEF Orderly

\* A handler outside the transport and the outcome transaction has nothing under way.
LEMMA OnTheGround ==
    ASSUME Orderly, NEW p \in Procs, pc[p] \notin {"transport", "commit"}
    PROVE  timer[p] = 0 /\ \A r \in Recipients : claimed[p][r] = Nothing
BY DEF Orderly, Flying, Flight, InFlight, Timed

\* All a handler has under way is the batch of its one transport.
LEMMA OneBatch ==
    ASSUME Orderly, NEW p \in Procs
    PROVE  \A r \in Recipients : InFlight(p, r) <=> r \in Batch(p)
BY DEF Orderly, Flying, Flight, InFlight, Batch

\* begin takes rows that nobody attempts.
LEMMA BeginOrderly ==
    ASSUME Sound, Types', Orderly, NEW p \in Procs, Begin(p)
    PROVE  Orderly'
<1>1. \A r \in Recipients : claimed[p][r] = Nothing
  BY OnTheGround DEF Begin
<1>2. timer[p] = 0
  BY OnTheGround DEF Begin
<1>3. \A r \in Recipients : r \in Due => state[r] \in Active
  BY DEF Due, Waiting
<1>4. ASSUME NEW q \in Procs, NEW r \in Recipients, r \in Due PROVE ~InFlight(q, r)
  BY <1>3, <1>4 DEF Orderly, Flying, Flight, Active
<1>5. /\ state' = [r \in Recipients |-> IF r \in Due THEN "attempting" ELSE state[r]]
      /\ age' = [r \in Recipients |-> IF r \in Due THEN 0 ELSE age[r]]
      /\ open' = [r \in Recipients |->
                     IF r \in Due THEN open[r] \cup {<<attempts[r] + 1, 0>>} ELSE open[r]]
      /\ UNCHANGED <<via, timer, result, copies, stuck, sStuck>>
  BY DEF Begin, sweepVars, ghostVars
<1>6. \A r \in Recipients : claimed'[p][r] = IF r \in Due THEN Direct ELSE Nothing
  BY DEF Begin, Sound, Types, HandlerTypes, Orderly, Routed, Direct
<1>7. current'[p] = Direct
  <2>1. PICK r \in Due : current' = [current EXCEPT ![p] = Route(via[r])]
    BY DEF Begin
  <2>2. r \in Recipients
    BY DEF Due, Waiting
  <2>3. QED  BY <2>1, <2>2 DEF Sound, Types, HandlerTypes, Orderly, Routed, Direct
<1>8. \A r \in Recipients : r \in Due => seen'[p][r].tries = attempts[r] + 1
  BY DEF Begin, Sound, Types, HandlerTypes
<1>9. pc'[p] = "transport"
  BY DEF Begin, Sound, Types, HandlerTypes
<1>10. \A q \in Procs : q # p => Same(q)
  BY <1>5 DEF Begin, Same, Sound, Types, HandlerTypes
<1>11. ASSUME NEW q \in Procs, NEW r \in Recipients
       PROVE  InFlight(q, r)' <=> IF q = p THEN r \in Due ELSE InFlight(q, r)
  BY <1>6, <1>10, DirectIs DEF InFlight, Same
<1>12. Flying'
  <2> SUFFICES ASSUME NEW q \in Procs, NEW r \in Recipients, InFlight(q, r)'
               PROVE  Flight(q, r)'
    BY DEF Flying
  <2>1. CASE q = p
    <3>1. r \in Due
      BY <1>11, <2>1
    <3>2. copies[r] = 0
      BY <1>3, <3>1 DEF Orderly, Accounted, Active
    <3>3. \E a \in open'[r] : a[1] = seen'[p][r].tries
      <4>1. <<attempts[r] + 1, 0>> \in open'[r]
        BY <1>5, <3>1
      <4>2. QED  BY <1>8, <3>1, <4>1
    <3>4. state'[r] = "attempting" /\ age'[r] = 0 /\ claimed'[p][r] = Direct
      BY <1>5, <1>6, <3>1
    <3>5. QED
      BY <1>2, <1>5, <1>7, <1>9, <2>1, <3>2, <3>3, <3>4, OutboundAssumption DEF Flight, Direct
  <2>2. CASE q # p
    <3>1. InFlight(q, r) /\ r \notin Due
      BY <1>4, <1>11, <2>2
    <3>2. Flight(q, r) /\ Same(q)
      BY <1>10, <2>2, <3>1 DEF Orderly, Flying
    <3>3. QED  BY <1>5, <3>1, <3>2 DEF Flight, Same
  <2>3. QED  BY <2>1, <2>2
<1>13. Alone'
  BY <1>4, <1>11 DEF Orderly, Alone
<1>14. Accounted'
  <2> SUFFICES ASSUME NEW r \in Recipients
               PROVE  /\ state'[r] = "attempting" => \E q \in Procs : InFlight(q, r)'
                      /\ state'[r] \in {"queued", "deferred", "bounced"} => copies'[r] = 0
                      /\ state'[r] = "delivered" => copies'[r] = 1
                      /\ state'[r] # "cancelled"
    BY DEF Accounted
  <2>1. CASE r \in Due
    BY <1>5, <1>11, <2>1
  <2>2. CASE r \notin Due
    <3>1. \A q \in Procs : InFlight(q, r) => InFlight(q, r)'
      BY <1>1, <1>11 DEF InFlight
    <3>2. state'[r] = state[r] /\ copies' = copies
      BY <1>5, <2>2
    <3>3. QED  BY <3>1, <3>2 DEF Orderly, Accounted
  <2>3. QED  BY <2>1, <2>2
<1>15. NoneStuck' /\ Timed' /\ Routed'
  BY <1>5, <1>9, <1>10 DEF Orderly, NoneStuck, Timed, Routed, Same, Route
<1>16. QED  BY <1>12, <1>13, <1>14, <1>15 DEF Orderly

\* The remote's answer: a copy where it was accepted, and none elsewhere.
LEMMA TransportOrderly ==
    ASSUME ~Fault, Sound, Types', Orderly, NEW p \in Procs, TransportReturns(p)
    PROVE  /\ Orderly'
           /\ \A r \in Recipients : \/ copies'[r] = copies[r]
                                    \/ /\ state[r] = "attempting"
                                       /\ copies[r] = 0 /\ copies'[r] = 1
<1>1. PICK res \in [Batch(p) -> Outcomes] :
          /\ result' = [result EXCEPT ![p] =
                [r \in Recipients |-> IF r \in Batch(p) THEN res[r] ELSE Nothing]]
          /\ copies' = [r \in Recipients |->
                IF r \in Batch(p) /\ res[r] \in {"delivered", "replyLost"}
                THEN Inc(copies[r]) ELSE copies[r]]
          /\ IF \E r \in Batch(p) : res[r] = "replyLost" THEN Fault ELSE UNCHANGED faults
  BY DEF TransportReturns
<1>2. \A r \in Batch(p) : res[r] \in Outcomes \ {"replyLost"}
  BY <1>1
<1>3. UNCHANGED <<state, age, open, via, claimed, seen, current, stuck, sStuck>>
  BY DEF TransportReturns, rowVars, sweepVars
<1>4. pc[p] = "transport" /\ pc'[p] = "commit" /\ timer'[p] = 0
  BY DEF TransportReturns, Sound, Types, HandlerTypes
<1>5. ASSUME NEW r \in Recipients, r \in Batch(p)
      PROVE  /\ Flight(p, r) /\ copies[r] = 0
             /\ copies'[r] = IF res[r] = "delivered" THEN 1 ELSE 0
             /\ result'[p][r] = res[r]
  <2>1. Flight(p, r) /\ copies[r] = 0
    BY <1>4, <1>5, OneBatch DEF Orderly, Flying, Flight
  <2>2. QED  BY <1>1, <1>2, <1>5, <2>1 DEF Inc, Sound, Types, HandlerTypes
<1>6. \A r \in Recipients : r \notin Batch(p) => copies'[r] = copies[r]
  BY <1>1
<1>7. ASSUME NEW q \in Procs, q # p PROVE Same(q)
  BY <1>1, <1>3, <1>7 DEF TransportReturns, Same, Sound, Types, HandlerTypes
<1>8. \A q \in Procs, r \in Recipients : InFlight(q, r)' <=> InFlight(q, r)
  BY <1>3 DEF InFlight
<1>9. Flying'
  <2> SUFFICES ASSUME NEW q \in Procs, NEW r \in Recipients, InFlight(q, r)'
               PROVE  Flight(q, r)'
    BY DEF Flying
  <2>1. CASE q = p
    <3>1. r \in Batch(p)
      BY <1>8, <2>1, OneBatch
    <3>2. QED  BY <1>2, <1>3, <1>4, <1>5, <2>1, <3>1 DEF Flight
  <2>2. CASE q # p
    <3>1. r \notin Batch(p)
      BY <1>8, <2>2, OneBatch DEF Orderly, Alone
    <3>2. Flight(q, r) /\ Same(q)
      BY <1>7, <1>8, <2>2 DEF Orderly, Flying
    <3>3. QED  BY <1>3, <1>6, <3>1, <3>2 DEF Flight, Same
  <2>3. QED  BY <2>1, <2>2
<1>10. Alone'
  BY <1>8 DEF Orderly, Alone
<1>11. Accounted'
  <2>1. \A r \in Recipients : state[r] # "attempting" => copies'[r] = copies[r]
    BY <1>5, <1>6 DEF Flight
  <2>2. QED  BY <1>3, <1>8, <2>1 DEF Orderly, Accounted
<1>12. NoneStuck' /\ Timed' /\ Routed'
  BY <1>3, <1>4, <1>7, OutboundAssumption DEF Orderly, NoneStuck, Timed, Routed, Same, Route
<1>13. Orderly'
  BY <1>9, <1>10, <1>11, <1>12 DEF Orderly
<1>14. QED
  BY <1>5, <1>6, <1>13 DEF Flight

\* The outcome transaction concludes the whole batch, truthfully.
LEMMA CommitOrderly ==
    ASSUME Sound, Types', Orderly, NEW p \in Procs, Commit(p)
    PROVE  /\ Orderly'
           /\ \A r \in Recipients :
                 \/ state'[r] = state[r]
                 \/ /\ state[r] = "attempting"
                    /\ copies[r] = 1 => state'[r] = "delivered"
                    /\ copies[r] # 1 => state'[r] \in {"bounced", "deferred"}
<1> DEFINE batch == Batch(p)
           moved == {r \in batch : state[r] = "attempting"}
<1>1. /\ state' = [r \in Recipients |->
                      IF r \in moved THEN NextState(result[p][r]) ELSE state[r]]
      /\ age' = [r \in Recipients |-> IF r \in moved THEN 0 ELSE age[r]]
      /\ open' = [r \in Recipients |->
                    IF r \in batch THEN {a \in open[r] : a[1] # seen[p][r].tries} ELSE open[r]]
      /\ claimed' = [claimed EXCEPT ![p] =
                        [r \in Recipients |-> IF r \in batch THEN Nothing ELSE @[r]]]
      /\ UNCHANGED <<via, timer, copies, stuck, sStuck>>
  BY DEF Commit, sweepVars, ghostVars
<1>2. pc[p] = "commit" /\ pc'[p] = "dsn"
  BY DEF Commit, Sound, Types, HandlerTypes
<1>3. \A r \in Recipients : claimed'[p][r] = Nothing
  BY <1>1, OneBatch DEF InFlight, Sound, Types, HandlerTypes
<1>4. ASSUME NEW q \in Procs, q # p PROVE Same(q)
  BY <1>1, <1>4 DEF Commit, Same, Sound, Types, HandlerTypes
<1>5. \A q \in Procs, r \in Recipients : InFlight(q, r)' <=> q # p /\ InFlight(q, r)
  BY <1>3, <1>4 DEF InFlight, Same
<1>6. \A q \in Procs, r \in Recipients : q # p /\ InFlight(q, r) => r \notin batch
  BY OneBatch DEF Orderly, Alone
<1>7. ASSUME NEW r \in Recipients, r \in batch
      PROVE  /\ r \in moved
             /\ state'[r] = IF copies[r] = 1 THEN "delivered"
                            ELSE IF Expired \/ result[p][r] \in {"permanent", "unknownUser"}
                                 THEN "bounced" ELSE "deferred"
             /\ copies[r] \in {0, 1}
  <2>1. Flight(p, r)
    BY <1>7, OneBatch DEF Orderly, Flying
  <2>2. /\ state[r] = "attempting" /\ result[p][r] \in Outcomes \ {"replyLost"}
        /\ copies[r] = IF result[p][r] = "delivered" THEN 1 ELSE 0
    BY <1>2, <2>1 DEF Flight
  <2>3. NextState(result[p][r]) = IF copies[r] = 1 THEN "delivered"
                            ELSE IF Expired \/ result[p][r] \in {"permanent", "unknownUser"}
                                 THEN "bounced" ELSE "deferred"
    BY <2>2 DEF NextState, Outcomes
  <2>4. QED  BY <1>1, <1>7, <2>2, <2>3
<1>8. \A r \in Recipients : r \notin batch => state'[r] = state[r]
  BY <1>1
<1>9. Flying'
  <2> SUFFICES ASSUME NEW q \in Procs, NEW r \in Recipients, InFlight(q, r)'
               PROVE  Flight(q, r)'
    BY DEF Flying
  <2>1. q # p /\ InFlight(q, r) /\ r \notin batch /\ Same(q)
    BY <1>4, <1>5, <1>6
  <2>2. Flight(q, r)
    BY <2>1 DEF Orderly, Flying
  <2>3. age'[r] = age[r] /\ open'[r] = open[r] /\ state'[r] = state[r] /\ copies' = copies
    BY <1>1, <2>1
  <2>4. QED  BY <2>1, <2>2, <2>3 DEF Flight, Same
<1>10. Alone'
  BY <1>5 DEF Orderly, Alone
<1>11. Accounted'
  <2> SUFFICES ASSUME NEW r \in Recipients
               PROVE  /\ state'[r] = "attempting" => \E q \in Procs : InFlight(q, r)'
                      /\ state'[r] \in {"queued", "deferred", "bounced"} => copies'[r] = 0
                      /\ state'[r] = "delivered" => copies'[r] = 1
                      /\ state'[r] # "cancelled"
    BY DEF Accounted
  <2>1. CASE r \in batch
    BY <1>1, <1>7, <2>1
  <2>2. CASE r \notin batch
    <3>1. ~InFlight(p, r)
      BY <2>2, OneBatch
    <3>2. \A q \in Procs : InFlight(q, r) => InFlight(q, r)'
      BY <1>5, <3>1
    <3>3. QED  BY <1>1, <1>8, <2>2, <3>2 DEF Orderly, Accounted
  <2>3. QED  BY <2>1, <2>2
<1>12. NoneStuck' /\ Timed' /\ Routed'
  BY <1>1, <1>2, <1>4 DEF Orderly, NoneStuck, Timed, Routed, Same, Route
<1>13. Orderly'
  BY <1>9, <1>10, <1>11, <1>12 DEF Orderly
<1>14. QED
  BY <1>7, <1>8, <1>13

\* Time passes only while every attempt is in its transport: rows and transports
\* grow old together.
LEMMA TickOrderly ==
    ASSUME Sound, Types', Orderly, Tick
    PROVE  Orderly'
<1>1. UNCHANGED <<state, via, pc, stuck, claimed, seen, current, result, sStuck, copies>>
  BY DEF Tick, ghostVars
<1>2. \A p \in Procs, r \in Recipients : InFlight(p, r)' <=> InFlight(p, r)
  BY <1>1 DEF InFlight
<1>3. \A p \in Procs :
         /\ pc[p] = "transport" => timer[p] < AttemptTimeout
         /\ timer'[p] = IF pc[p] = "transport" THEN timer[p] + 1 ELSE timer[p]
  BY DEF Tick
<1>4. \A r \in Recipients : age'[r] <= age[r] + 1
  BY DEF Tick, Sound, Types, RowTypes
<1>5. Flying'
  <2> SUFFICES ASSUME NEW p \in Procs, NEW r \in Recipients, InFlight(p, r)'
               PROVE  Flight(p, r)'
    BY DEF Flying
  <2>1. Flight(p, r)
    BY <1>2 DEF Orderly, Flying
  <2>2. pc[p] = "transport"
    BY <2>1 DEF Tick, Flight
  <2>3. age[r] \in Nat /\ age'[r] \in Nat /\ timer[p] \in Nat
    BY DEF Sound, Types, RowTypes, HandlerTypes
  <2>4. age'[r] <= timer'[p] /\ timer'[p] <= AttemptTimeout
    BY <1>3, <1>4, <2>1, <2>2, <2>3, OutboundAssumption DEF Flight
  <2>5. age'[r] <= AttemptTimeout
    <3>1. timer'[p] = timer[p] + 1 /\ AttemptTimeout \in Nat
      BY <1>3, <2>2, OutboundAssumption
    <3>2. QED  BY <2>3, <2>4, <3>1
  <2>6. \E a \in open'[r] : a[1] = seen'[p][r].tries
    <3>1. PICK a \in open[r] : a[1] = seen[p][r].tries
      BY <2>1 DEF Flight
    <3>2. open'[r] = {<<b[1], IF b[2] <= Lease THEN b[2] + 1 ELSE b[2]>> : b \in open[r]}
      BY DEF Tick
    <3>3. <<a[1], IF a[2] <= Lease THEN a[2] + 1 ELSE a[2]>> \in open'[r]
      BY <3>1, <3>2
    <3>4. QED  BY <1>1, <3>1, <3>3
  <2>7. QED  BY <1>1, <2>1, <2>2, <2>4, <2>5, <2>6 DEF Flight
<1>6. Alone' /\ Accounted'
  BY <1>1, <1>2 DEF Orderly, Alone, Accounted
<1>7. Timed'
  <2> SUFFICES ASSUME NEW p \in Procs
               PROVE  timer'[p] <= AttemptTimeout /\ (pc'[p] # "transport" => timer'[p] = 0)
    BY DEF Timed
  <2>1. timer[p] \in Nat /\ timer[p] <= AttemptTimeout /\ (pc[p] # "transport" => timer[p] = 0)
    BY DEF Orderly, Timed, Sound, Types, HandlerTypes
  <2>2. QED  BY <1>1, <1>3, <2>1, OutboundAssumption
<1>8. NoneStuck' /\ Routed'
  BY <1>1 DEF Orderly, NoneStuck, Routed, Route
<1>9. QED  BY <1>5, <1>6, <1>7, <1>8 DEF Orderly

\* A DSN leaves a row at most younger.
LEMMA EmitYounger ==
    ASSUME Sound, NEW i \in Intents, EmitDsn(i)
    PROVE  \A r \in Recipients : age'[r] <= age[r]
<1>1. i[2] \in Recipients
  BY DEF Intents
<1>2. age' = age \/ age' = [age EXCEPT ![i[2]] = 0]
  BY <1>1 DEF EmitDsn, Sound, Types, RowTypes
<1>3. QED  BY <1>2 DEF Sound, Types, RowTypes

\* Every step of a handler.
LEMMA HandleOrderly ==
    ASSUME ~Fault, Sound, Types', Orderly, NEW p \in Procs, Handle(p)
    PROVE  Orderly'
<1>1. \A r \in Recipients : age[r] <= age[r]
  BY DEF Sound, Types, RowTypes
<1>2. CASE (\E k \in Keys : ClaimJob(p, k)) \/ Load(p) \/ BeginNothing(p)
  <2>1. UNCHANGED <<state, open, copies, age, via, stuck, sStuck, claimed, seen, current,
                    timer, result>>
    BY <1>2 DEF ClaimJob, Load, BeginNothing, rowVars, sweepVars, ghostVars
  <2>2. pc[p] \notin {"transport", "commit"}
    BY <1>2 DEF ClaimJob, Load, BeginNothing
  <2>3. \A q \in Procs : q # p => pc'[q] = pc[q]
    BY <1>2 DEF ClaimJob, Load, BeginNothing, Sound, Types, HandlerTypes
  <2>4. \A q \in Procs : Same(q) \/ Grounded(q)
    BY <2>1, <2>2, <2>3, OnTheGround DEF Same, Grounded
  <2>5. NoneStuck' /\ Routed'
    BY <2>1 DEF Orderly, NoneStuck, Routed, Route
  <2>6. QED  BY <1>1, <2>1, <2>4, <2>5, OrderlyAlone
<1>3. CASE Recover(p)
  <2>1. UNCHANGED <<state, open, copies, age, via, sStuck, claimed, seen, current, timer,
                    result>>
    BY <1>3 DEF Recover, rowVars, sweepVars, ghostVars
  <2>2. NoneStuck' /\ Routed'
    BY <1>3, <2>1, NoneInterrupted DEF Recover, Orderly, NoneStuck, Routed, Route, Sound, Types,
       HandlerTypes
  <2>3. pc[p] \notin {"transport", "commit"} /\ \A q \in Procs : q # p => pc'[q] = pc[q]
    BY <1>3 DEF Recover, Sound, Types, HandlerTypes
  <2>4. \A q \in Procs : Same(q) \/ Grounded(q)
    BY <2>1, <2>3, OnTheGround DEF Same, Grounded
  <2>5. QED  BY <1>1, <2>1, <2>2, <2>4, OrderlyAlone
<1>4. ASSUME NEW r \in Recipients, RecoverOne(p, r) PROVE FALSE
  BY <1>4 DEF RecoverOne, Orderly, NoneStuck
<1>5. CASE Begin(p)
  BY <1>5, BeginOrderly
<1>6. CASE TransportReturns(p)
  BY <1>6, TransportOrderly
<1>7. CASE Commit(p)
  BY <1>7, CommitOrderly
<1>8. CASE HandlerDsn(p)
  <2>1. \A r \in Recipients : age'[r] <= age[r]
    BY <1>8, EmitYounger DEF HandlerDsn, Sound, Types, HandlerTypes
  <2>2. UNCHANGED <<state, open, copies, via, stuck, sStuck, pc, claimed, seen, current, timer,
                    result>>
    BY <1>8 DEF HandlerDsn, sweepVars
  <2>3. NoneStuck' /\ Routed' /\ \A q \in Procs : Same(q)
    BY <2>2 DEF Orderly, NoneStuck, Routed, Route, Same
  <2>4. QED  BY <2>1, <2>2, <2>3, OrderlyAlone
<1>9. CASE BatchDone(p)
  <2>1. \A r \in Recipients : claimed[p][r] = Nothing
    BY <1>9, OnTheGround DEF BatchDone
  <2>2. timer[p] = 0
    BY <1>9, OnTheGround DEF BatchDone
  <2>3. UNCHANGED <<state, open, copies, age, via, stuck, sStuck, claimed, seen, timer, result>>
    BY <1>9 DEF BatchDone, rowVars, sweepVars, ghostVars
  <2>4. \A q \in Procs : q # p => pc'[q] = pc[q] /\ current'[q] = current[q]
    BY <1>9 DEF BatchDone, AfterBatch, Sound, Types, HandlerTypes
  <2>5. \A q \in Procs : Same(q) \/ Grounded(q)
    BY <1>9, <2>1, <2>2, <2>3, <2>4 DEF BatchDone, Same, Grounded
  <2>6. NoneStuck' /\ Routed'
    BY <2>3 DEF Orderly, NoneStuck, Routed, Route
  <2>7. QED  BY <1>1, <2>3, <2>5, <2>6, OrderlyAlone
<1>10. CASE CompleteJob(p)
  <2>1. UNCHANGED <<state, open, copies, age, via, sStuck>>
    BY <1>10 DEF CompleteJob, rowVars, sweepVars, ghostVars
  <2>2. /\ pc[p] \notin {"transport", "commit"} /\ timer'[p] = 0
        /\ \A r \in Recipients : claimed'[p][r] = Nothing
    BY <1>10 DEF CompleteJob, Forget, Unclaimed, Sound, Types, HandlerTypes
  <2>3. \A q \in Procs : q # p => Same(q)
    BY <1>10 DEF CompleteJob, Forget, Same, Sound, Types, HandlerTypes
  <2>4. \A q \in Procs : Same(q) \/ Grounded(q)
    BY <2>2, <2>3 DEF Grounded
  <2>5. NoneStuck' /\ Routed'
    BY <1>10, <2>1 DEF CompleteJob, Forget, Orderly, NoneStuck, Routed, Route, Sound, Types,
       HandlerTypes
  <2>6. QED  BY <1>1, <2>1, <2>4, <2>5, OrderlyAlone
<1>11. QED
  BY <1>2, <1>3, <1>4, <1>5, <1>6, <1>7, <1>8, <1>9, <1>10 DEF Handle

\* Every step of a sweeper.
LEMMA SweepOrderly ==
    ASSUME Sound, Types', Orderly, NEW p \in Procs, Sweep(p)
    PROVE  Orderly'
<1>1. ASSUME NEW next, SweepStep(p, next), pc' = pc \/ SweepEnds(p)
      PROVE  \A q \in Procs : Same(q) \/ Grounded(q)
  <2>1. UNCHANGED <<claimed, seen, current, timer, result>>
    BY <1>1 DEF SweepStep
  <2>2. ASSUME NEW q \in Procs PROVE pc'[q] = pc[q] \/ pc[q] = "booting"
    BY <1>1 DEF SweepEnds, Sound, Types, HandlerTypes
  <2>3. QED  BY <2>1, <2>2, OnTheGround DEF Same, Grounded
<1>2. \A r \in Recipients : age[r] <= age[r]
  BY DEF Sound, Types, RowTypes
<1>3. CASE SweepRecover(p) \/ SweepOrphans(p) \/ SweepReschedule(p) \/ SweepUnsent(p)
  <2>1. UNCHANGED <<state, open, copies, age, via, stuck>>
    BY <1>3 DEF SweepRecover, SweepOrphans, SweepReschedule, SweepUnsent, SweepStep, rowVars
  <2>2. (\E next : SweepStep(p, next)) /\ (pc' = pc \/ SweepEnds(p))
    BY <1>3 DEF SweepRecover, SweepOrphans, SweepReschedule, SweepUnsent
  <2>3. sStuck' = sStuck \/ sStuck' = [sStuck EXCEPT ![p] = {}]
    BY <1>3, NoneInterrupted DEF SweepRecover, SweepOrphans, SweepReschedule, SweepUnsent
  <2>4. NoneStuck' /\ Routed'
    BY <2>1, <2>3 DEF Orderly, NoneStuck, Routed, Route, Sound, Types, SweepTypes
  <2>5. QED  BY <1>1, <1>2, <2>1, <2>2, <2>4, OrderlyAlone
<1>4. ASSUME NEW r \in Recipients, SweepRecoverOne(p, r) PROVE FALSE
  BY <1>4 DEF SweepRecoverOne, Orderly, NoneStuck
<1>5. CASE SweepDsn(p)
  <2>1. PICK i \in sIntents[p] :
          /\ EmitDsn(i)
          /\ SweepStep(p, IF sIntents[p] = {i} THEN "idle" ELSE "emitting")
          /\ IF sIntents[p] = {i} THEN SweepEnds(p) ELSE UNCHANGED pc
    BY <1>5 DEF SweepDsn
  <2>2. \A r \in Recipients : age'[r] <= age[r]
    BY <2>1, EmitYounger DEF Sound, Types, SweepTypes
  <2>3. UNCHANGED <<state, open, copies, via, stuck, sStuck>>
    BY <1>5, <2>1 DEF SweepDsn, SweepStep
  <2>4. \A q \in Procs : Same(q) \/ Grounded(q)
    BY <1>1, <2>1
  <2>5. NoneStuck' /\ Routed'
    BY <2>3 DEF Orderly, NoneStuck, Routed, Route
  <2>6. QED  BY <2>2, <2>3, <2>4, <2>5, OrderlyAlone
<1>6. QED  BY <1>3, <1>4, <1>5 DEF Sweep

\* One transport serves the group, whatever the operator forces.
LEMMA RoutedKept ==
    ASSUME OneTransport, Sound, Routed, [Next]_vars
    PROVE  Routed'
<1>1. ASSUME NEW a \in Admins, AdminNudge(a), admin[a].op = "force-ses" PROVE Routed'
  <2>1. "force-ses" \in AdminOps
    BY <1>1 DEF Sound, Types, OtherTypes, Nothing
  <2>2. Route("ses") = Route("direct")
    BY <2>1 DEF OneTransport, Route
  <2>3. \A r \in Recipients : via'[r] = via[r] \/ via'[r] = "ses"
    BY <1>1 DEF AdminNudge, Chosen
  <2>4. QED  BY <2>2, <2>3 DEF Routed, Route
<1>2. CASE ~ \E a \in Admins : AdminNudge(a) /\ admin[a].op = "force-ses"
  <2>1. \A p \in Procs : Handle(p) => via' = via
    BY DEF Handle, ClaimJob, Recover, RecoverOne, RecoverRow, Load, Begin, BeginNothing,
       TransportReturns, Commit, HandlerDsn, BatchDone, CompleteJob, rowVars
  <2>2. \A p \in Procs : Sweep(p) => via' = via
    BY DEF Sweep, SweepRecover, SweepRecoverOne, RecoverRow, SweepOrphans, SweepReschedule,
       SweepUnsent, SweepDsn, rowVars
  <2>3. \A p \in Procs : HandlerThrows(p) \/ SweepThrows(p) \/ Crash(p) => via' = via
    BY DEF HandlerThrows, SweepThrows, Crash, rowVars
  <2>4. Operator => via' = via
    BY <1>2 DEF Operator, AdminWrite, Cancel, Freeze, Thaw, ThawEnqueue, AdminRead, AdminNudge, AdminDelete,
       AdminBounce, rowVars
  <2>5. Tick \/ (\E r \in Recipients, hard \in BOOLEAN : SesBounce(r, hard)) => via' = via
    BY DEF Tick, SesBounce
  <2>6. via' = via
    BY <2>1, <2>2, <2>3, <2>4, <2>5 DEF Next, vars, rowVars
  <2>7. QED  BY <2>6 DEF Routed, Route
<1>3. QED  BY <1>1, <1>2

\* Failures are counted one at a time.
LEMMA FaultsCounted ==
    ASSUME [Next]_vars
    PROVE  faults' = faults \/ faults' = faults + 1
<1>1. ASSUME NEW p \in Procs, Handle(p) PROVE faults' = faults \/ faults' = faults + 1
  BY <1>1 DEF Handle, ClaimJob, Recover, RecoverOne, Load, Begin, BeginNothing,
     TransportReturns, Commit, HandlerDsn, EmitDsn, BatchDone, CompleteJob, Fault
<1>2. ASSUME NEW p \in Procs, Sweep(p) PROVE faults' = faults \/ faults' = faults + 1
  BY <1>2 DEF Sweep, SweepRecover, SweepRecoverOne, SweepOrphans, SweepReschedule,
     SweepUnsent, SweepDsn, EmitDsn, Fault
<1>3. ASSUME NEW p \in Procs, HandlerThrows(p) \/ SweepThrows(p) \/ Crash(p)
      PROVE  faults' = faults + 1
  BY <1>3 DEF HandlerThrows, SweepThrows, Crash, Fault
<1>4. CASE Operator
  BY <1>4 DEF Operator, AdminWrite, Cancel, Freeze, Thaw, ThawEnqueue, AdminRead, AdminNudge, AdminDelete,
     AdminBounce, Fault
<1>5. ASSUME NEW r \in Recipients, NEW hard \in BOOLEAN, SesBounce(r, hard)
      PROVE  faults' = faults \/ faults' = faults + 1
  BY <1>5 DEF SesBounce, Fault
<1>6. Tick \/ UNCHANGED vars => faults' = faults
  BY DEF Tick, vars
<1>7. QED  BY <1>1, <1>2, <1>3, <1>4, <1>5, <1>6 DEF Next

\* The operator freezes, thaws and retries.
LEMMA OperatorOrderly ==
    ASSUME Calm, Sound, Types', Orderly, Operator
    PROVE  Orderly'
<1>1. /\ UNCHANGED <<state, open, copies, stuck, sStuck>>
      /\ \A q \in Procs : Same(q)
  BY CalmMeans DEF Operator, AdminWrite, Cancel, Freeze, Thaw, ThawEnqueue, AdminRead, AdminNudge, Elsewhere,
     rowVars, handlerVars, sweepVars, ghostVars, Same
<1>2. \A r \in Recipients : age'[r] = age[r] \/ age'[r] = 0
  BY CalmMeans DEF Operator, AdminWrite, Cancel, Freeze, Thaw, ThawEnqueue, AdminRead, AdminNudge, Chosen, rowVars
<1>3. \A r \in Recipients : age'[r] <= age[r]
  BY <1>2 DEF Sound, Types, RowTypes
<1>4. Routed'
  BY RoutedKept DEF Next, Calm, Orderly
<1>5. NoneStuck'
  BY <1>1 DEF Orderly, NoneStuck
<1>6. QED  BY <1>1, <1>3, <1>4, <1>5, OrderlyAlone

\* Orderly, until the first failure.
LEMMA OrderlyAlways == ASSUME Calm PROVE Spec => [](faults = 0 => Orderly)
<1>1. Init => Orderly
  BY OutboundAssumption DEF Init, Orderly, NoneStuck, Timed, Routed, Flying, Alone, Accounted,
     InFlight, Unclaimed
<1>2. Sound /\ Sound' /\ (faults = 0 => Orderly) /\ [Next]_vars => (faults = 0 => Orderly)'
  <2> SUFFICES ASSUME Sound, Types', faults = 0 => Orderly, [Next]_vars, faults' = 0
               PROVE  Orderly'
    BY DEF Sound
  <2>1. ~Fault /\ Orderly
    BY FaultsCounted DEF Fault, Sound, Types, OtherTypes
  <2>2. \A p \in Procs : ~HandlerThrows(p) /\ ~SweepThrows(p) /\ ~Crash(p)
    BY <2>1 DEF HandlerThrows, SweepThrows, Crash
  <2>3. CASE Next
    BY <2>1, <2>2, <2>3, CalmMeans, HandleOrderly, SweepOrderly, OperatorOrderly, TickOrderly
       DEF Next
  <2>4. CASE UNCHANGED vars
    <3>1. /\ UNCHANGED <<state, open, copies, age, via, stuck, sStuck>>
          /\ \A q \in Procs : Same(q)
      BY <2>4 DEF vars, rowVars, handlerVars, sweepVars, ghostVars, Same
    <3>2. \A r \in Recipients : age'[r] <= age[r]
      BY <3>1 DEF Sound, Types, RowTypes
    <3>3. NoneStuck' /\ Routed'
      BY <2>1, <3>1 DEF Orderly, NoneStuck, Routed, Route
    <3>4. QED  BY <2>1, <3>1, <3>2, <3>3, OrderlyAlone
  <2>5. QED  BY <2>3, <2>4
<1>3. QED  BY <1>1, <1>2, SoundAlways, PTL DEF Spec

\* Where nothing may fail, nothing fails.
LEMMA NoFailures == ASSUME MaxFaults = 0 PROVE Spec => [](faults = 0)
<1>1. Sound => faults = 0
  BY DEF Sound, Types, OtherTypes
<1>2. QED  BY <1>1, SoundAlways, PTL

\* While a handler has an attempt under way the recipient stays attempting and the
\* attempt open (begin's guard, the lease of recovery), when nothing fails, nobody
\* deletes or bounces by hand, and one transport serves the group: for any timeout below
\* the lease and any number of processes and retries.
THEOREM InFlightSafe == ASSUME Calm, MaxFaults = 0 PROVE Spec => []InFlightKept
<1>1. Orderly => InFlightKept
  BY DEF Orderly, Flying, Flight, InFlightKept
<1>2. Spec => [](faults = 0 => Orderly)
  BY OrderlyAlways
<1>3. Spec => [](faults = 0)
  BY NoFailures
<1>4. QED  BY <1>1, <1>2, <1>3, PTL

-----------------------------------------------------------------------------
\* The refinement.

\* Filing a DSN reports a bounce that has no report, or changes nothing outside.
LEMMA EmitReports ==
    ASSUME Sound, Told, Orderly, NEW p \in Procs, NEW i \in intents[p] \cup sIntents[p],
           EmitDsn(i), UNCHANGED <<state, copies>>
    PROVE  [Lifecycle!Next]_(Lifecycle!vars)
<1> DEFINE r == i[2]
<1>1. i \in Intents /\ r \in Recipients
  BY DEF Sound, Types, HandlerTypes, SweepTypes, Intents
<1>2. CASE filed' = filed
  BY <1>2 DEF Lifecycle!vars
<1>3. CASE filed' # filed
  <2>1. i[1] = "failure" /\ ~failSent[r] /\ filed' = [filed EXCEPT ![r] = Inc(@)]
    BY <1>1, <1>3 DEF EmitDsn, Sound, Types, OtherTypes
  <2>2. filed[r] = 0
    BY <1>1, <2>1 DEF Sound, Types, OtherTypes, OneFailureDsn
  <2>3. filed' = [filed EXCEPT ![r] = 1]
    BY <1>1, <2>1, <2>2 DEF Inc, Sound, Types, OtherTypes
  <2>4. state[r] = "bounced"
    <3>1. i = <<"failure", r>>
      BY <1>1, <2>1 DEF Intents
    <3>2. QED  BY <1>1, <3>1 DEF Told, AboutEnds, Ended, Orderly, Accounted
  <2>5. Lifecycle!Report(r)
    BY <2>2, <2>3, <2>4 DEF Lifecycle!Report
  <2>6. QED  BY <1>1, <2>5 DEF Lifecycle!Next
<1>4. QED  BY <1>2, <1>3

\* Every step of the worker is a step of the abstract life, or none.
LEMMA StepRefines ==
    ASSUME Calm, ~Fault, Sound, Types', Told, Orderly, [Next]_vars
    PROVE  [Lifecycle!Next]_(Lifecycle!vars)
<1>1. CASE UNCHANGED <<state, copies, filed>>
  BY <1>1 DEF Lifecycle!vars
<1>2. ASSUME NEW p \in Procs, Begin(p) PROVE Lifecycle!Next
  <2>1. Due \in SUBSET Recipients /\ \A r \in Due : state[r] \in {"queued", "deferred"}
    BY DEF Due, Waiting, Active
  <2>2. Lifecycle!Take(Due)
    BY <1>2, <2>1 DEF Begin, ghostVars, Lifecycle!Take
  <2>3. QED  BY <2>1, <2>2 DEF Lifecycle!Next
<1>3. ASSUME NEW p \in Procs, TransportReturns(p) PROVE Lifecycle!Next
  <2> DEFINE S == {r \in Recipients : copies'[r] # copies[r]}
  <2>1. \A r \in Recipients : \/ copies'[r] = copies[r]
                              \/ /\ state[r] = "attempting"
                                 /\ copies[r] = 0 /\ copies'[r] = 1
    BY <1>3, TransportOrderly
  <2>2. copies' \in [Recipients -> 0..2] /\ copies \in [Recipients -> 0..2]
    BY DEF Sound, Types, OtherTypes
  <2>3. copies' = [r \in Recipients |-> IF r \in S THEN 1 ELSE copies[r]]
    BY <2>1, <2>2
  <2>4. UNCHANGED <<state, filed>>
    BY <1>3 DEF TransportReturns, rowVars
  <2>5. Lifecycle!Accept(S)
    BY <2>1, <2>3, <2>4 DEF Lifecycle!Accept
  <2>6. S \in SUBSET Recipients
    OBVIOUS
  <2> HIDE DEF S
  <2>7. QED  BY <2>5, <2>6 DEF Lifecycle!Next
<1>4. ASSUME NEW p \in Procs, Commit(p) PROVE Lifecycle!Next
  <2> DEFINE S == {r \in Recipients : state'[r] # state[r]}
  <2>1. /\ Orderly'
        /\ \A r \in Recipients :
                 \/ state'[r] = state[r]
                 \/ /\ state[r] = "attempting"
                    /\ copies[r] = 1 => state'[r] = "delivered"
                    /\ copies[r] # 1 => state'[r] \in {"bounced", "deferred"}
    BY <1>4, CommitOrderly
  <2>2. state' \in [Recipients -> Lifecycle!States]
    <3>1. \A r \in Recipients : state'[r] \in Lifecycle!States
      BY <2>1 DEF Types, RowTypes, States, Orderly, Accounted, Lifecycle!States
    <3>2. state' \in [Recipients -> States]
      BY DEF Types, RowTypes
    <3>3. QED  BY <3>1, <3>2
  <2>3. UNCHANGED <<copies, filed>>
    BY <1>4 DEF Commit, ghostVars
  <2>4. Lifecycle!Conclude(S)
    BY <2>1, <2>2, <2>3 DEF Lifecycle!Conclude, Lifecycle!Conclusions
  <2>5. S \in SUBSET Recipients
    OBVIOUS
  <2> HIDE DEF S
  <2>6. QED  BY <2>4, <2>5 DEF Lifecycle!Next
<1>5. ASSUME NEW p \in Procs, HandlerDsn(p) PROVE [Lifecycle!Next]_(Lifecycle!vars)
  BY <1>5, EmitReports DEF HandlerDsn
<1>6. ASSUME NEW p \in Procs, SweepDsn(p) PROVE [Lifecycle!Next]_(Lifecycle!vars)
  BY <1>6, EmitReports DEF SweepDsn, SweepStep
<1>7. ASSUME NEW p \in Procs, Handle(p) PROVE [Lifecycle!Next]_(Lifecycle!vars)
  <2>1. CASE \/ \E k \in Keys : ClaimJob(p, k)
             \/ Recover(p) \/ Load(p) \/ BeginNothing(p) \/ BatchDone(p) \/ CompleteJob(p)
    BY <1>1, <2>1 DEF ClaimJob, Recover, Load, BeginNothing, BatchDone, CompleteJob, rowVars,
       ghostVars
  <2>2. ~ \E r \in Recipients : RecoverOne(p, r)
    BY DEF RecoverOne, Orderly, NoneStuck
  <2>3. QED  BY <1>2, <1>3, <1>4, <1>5, <1>7, <2>1, <2>2 DEF Handle
<1>8. ASSUME NEW p \in Procs, Sweep(p) PROVE [Lifecycle!Next]_(Lifecycle!vars)
  <2>1. CASE SweepRecover(p) \/ SweepOrphans(p) \/ SweepReschedule(p) \/ SweepUnsent(p)
    BY <1>1, <2>1 DEF SweepRecover, SweepOrphans, SweepReschedule, SweepUnsent, SweepStep,
       rowVars
  <2>2. ~ \E r \in Recipients : SweepRecoverOne(p, r)
    BY DEF SweepRecoverOne, Orderly, NoneStuck
  <2>3. QED  BY <1>6, <1>8, <2>1, <2>2 DEF Sweep
<1>9. CASE Operator
  BY <1>1, <1>9, CalmMeans DEF Operator, AdminWrite, Cancel, Freeze, Thaw, ThawEnqueue, AdminRead, AdminNudge,
     rowVars, ghostVars
<1>10. CASE Tick
  BY <1>1, <1>10 DEF Tick, ghostVars
<1>11. CASE UNCHANGED vars
  BY <1>1, <1>11 DEF vars, rowVars, ghostVars
<1>12. \A p \in Procs : ~HandlerThrows(p) /\ ~SweepThrows(p) /\ ~Crash(p)
  BY CalmMeans DEF HandlerThrows, SweepThrows, Crash
<1>13. QED
  BY <1>7, <1>8, <1>9, <1>10, <1>11, <1>12, CalmMeans DEF Next

\* The delivery worker implements the abstract life of a recipient (the state machine of
\* state.ts with exactly-once delivery), under the same assumptions: for any recipients,
\* processes, retries by hand, freezes and thaws.
THEOREM LifecycleImplemented == ASSUME Calm, MaxFaults = 0 PROVE Spec => ImplementsLifecycle
<1>1. Init => Lifecycle!Init
  BY DEF Init, Lifecycle!Init
<1>2. Sound /\ Sound' /\ Told /\ Orderly /\ [Next]_vars => [Lifecycle!Next]_(Lifecycle!vars)
  <2>1. Sound => ~Fault
    BY DEF Sound, Types, OtherTypes, Fault
  <2>2. QED  BY <2>1, StepRefines DEF Sound
<1>3. Spec => []Sound
  BY SoundAlways
<1>4. Spec => []Told
  BY ToldAlways
<1>5. Spec => [](faults = 0 => Orderly)
  BY OrderlyAlways
<1>6. Spec => [](faults = 0)
  BY NoFailures
<1>7. QED
  BY <1>1, <1>2, <1>3, <1>4, <1>5, <1>6, PTL DEF Spec, ImplementsLifecycle, Lifecycle!Spec

\* Exactly once, of the worker itself, also where it may fail: until the first failure
\* the remote never has two copies, delivered says it has one, and a failure is reported
\* of what it has not; and attempts under way stay attempting and open.
THEOREM ExactlyOnceUntilAFault ==
    ASSUME Calm
    PROVE  Spec => [](faults = 0 => Lifecycle!ExactlyOnce /\ InFlightKept)
<1>1. Sound /\ Told /\ Orderly => Lifecycle!ExactlyOnce
  <2> SUFFICES ASSUME Sound, Told, Orderly, NEW r \in Recipients
               PROVE  /\ copies[r] \in {0, 1}
                      /\ state[r] = "delivered" => copies[r] = 1
                      /\ state[r] \in {"queued", "deferred", "bounced"} => copies[r] = 0
                      /\ filed[r] \in {0, 1}
                      /\ filed[r] = 1 => state[r] = "bounced" /\ copies[r] = 0
    BY DEF Lifecycle!ExactlyOnce
  <2>1. filed[r] \in {0, 1}
    BY DEF Sound, Types, OtherTypes, OneFailureDsn
  <2>2. filed[r] = 1 => state[r] = "bounced"
    BY DEF Told, ReportedIsEnded, Ended, Orderly, Accounted
  <2>3. CASE state[r] = "attempting"
    <3>1. PICK p \in Procs : InFlight(p, r)
      BY <2>3 DEF Orderly, Accounted
    <3>2. copies[r] \in {0, 1}
      BY <3>1 DEF Orderly, Flying, Flight
    <3>3. QED  BY <2>1, <2>2, <2>3, <3>2
  <2>4. CASE state[r] # "attempting"
    BY <2>1, <2>2, <2>4 DEF Orderly, Accounted, Sound, Types, RowTypes, States
  <2>5. QED  BY <2>3, <2>4
<1>2. Orderly => InFlightKept
  BY DEF Orderly, Flying, Flight, InFlightKept
<1>3. Spec => []Sound
  BY SoundAlways
<1>4. Spec => []Told
  BY ToldAlways
<1>5. Spec => [](faults = 0 => Orderly)
  BY OrderlyAlways
<1>6. QED  BY <1>1, <1>2, <1>3, <1>4, <1>5, PTL

\* And at every time, where nothing may fail.
THEOREM DeliveredExactlyOnce ==
    ASSUME Calm, MaxFaults = 0
    PROVE  Spec => []Lifecycle!ExactlyOnce
<1>1. Spec => [](faults = 0 => Lifecycle!ExactlyOnce /\ InFlightKept)
  BY ExactlyOnceUntilAFault
<1>2. Spec => [](faults = 0)
  BY NoFailures
<1>3. QED  BY <1>1, <1>2, PTL

-----------------------------------------------------------------------------
\* The clocks of the queue.

\* The clocks of the queue, and what has been spent of the operator's actions.
Clocks ==
    /\ wait \in [Recipients -> Nat]
    /\ queueAge \in 0..MaxQueueAge
    /\ adminCount \in 0..MaxAdmin
    /\ freezes \in 0..MaxFreezes
    /\ swept \in [Procs -> BOOLEAN]

\* The next attempt of a recipient in line is due by the time the message expires.
InTime == \A r \in Recipients : state[r] \in Active => queueAge + wait[r] <= MaxQueueAge

\* The schedule gives a delay for every number of attempts.
LEMMA DelaysPositive ==
    ASSUME NEW tries \in Nat, NEW d \in RetryDelays(tries)
    PROVE  d \in Nat /\ d >= 1
<1> DEFINE i == IF tries < 1 THEN 1
                ELSE IF tries > Len(RetrySchedule) THEN Len(RetrySchedule) ELSE tries
<1>1. RetrySchedule \in Seq(Nat \ {0}) /\ RetrySchedule # <<>>
  BY OutboundAssumption
<1>2. Len(RetrySchedule) \in Nat /\ Len(RetrySchedule) # 0
  BY <1>1
<1>3. i \in 1..Len(RetrySchedule)
  BY <1>2
<1>4. RetrySchedule[i] \in Nat
  BY <1>1, <1>3
<1>5. BaseDelay(tries) \in Nat
  BY <1>4 DEF BaseDelay
<1>6. QED  BY <1>5, OutboundAssumption DEF RetryDelays

\* The next attempt is later, and no later than the message expires.
LEMMA WaitsInTime ==
    ASSUME queueAge \in 0..MaxQueueAge, NEW o, NEW tries \in Nat, NEW d \in RetryDelays(tries)
    PROVE  /\ NextWait(o, d) \in Nat
           /\ queueAge + NextWait(o, d) <= MaxQueueAge
           /\ NextState(o) \in Active => NextWait(o, d) > 0
<1>1. d \in Nat /\ d >= 1
  BY DelaysPositive
<1>2. NextState(o) \in Active <=> NextState(o) = "deferred"
  BY DEF NextState, Active
<1>3. NextState(o) = "deferred" => queueAge < MaxQueueAge
  BY OutboundAssumption DEF NextState, Expired
<1>4. QED  BY <1>1, <1>2, <1>3, OutboundAssumption DEF NextWait, Earlier

\* What the outcome transaction does to states and waits.
LEMMA CommitWaits ==
    ASSUME Sound, Clocks, NEW p \in Procs, Commit(p)
    PROVE  /\ wait' \in [Recipients -> Nat]
           /\ \A r \in Recipients :
                 \/ state'[r] = state[r] /\ wait'[r] = wait[r]
                 \/ /\ r \in Batch(p) /\ state[r] = "attempting" /\ state'[r] # "attempting"
                    /\ queueAge + wait'[r] <= MaxQueueAge
                    /\ state'[r] \in Active => wait'[r] > 0
           /\ \A r \in Batch(p) : state'[r] # "attempting"
<1> DEFINE moved == {r \in Batch(p) : state[r] = "attempting"}
<1>1. PICK delay \in [moved -> UNION {RetryDelays(seen[p][r].tries) : r \in moved}] :
         /\ \A r \in moved : delay[r] \in RetryDelays(seen[p][r].tries)
         /\ state' = [r \in Recipients |->
                        IF r \in moved THEN NextState(result[p][r]) ELSE state[r]]
         /\ wait' = [r \in Recipients |->
                       IF r \in moved THEN NextWait(result[p][r], delay[r]) ELSE wait[r]]
  BY DEF Commit
<1>2. ASSUME NEW r \in moved
      PROVE  /\ wait'[r] \in Nat
             /\ queueAge + wait'[r] <= MaxQueueAge
             /\ state'[r] \in Active => wait'[r] > 0
             /\ state'[r] # "attempting"
  <2>1. seen[p][r].tries \in Nat
    BY DEF Batch, Sound, Types, HandlerTypes, Sightings
  <2>2. delay[r] \in RetryDelays(seen[p][r].tries)
    BY <1>1
  <2>3. wait'[r] = NextWait(result[p][r], delay[r]) /\ state'[r] = NextState(result[p][r])
    BY <1>1 DEF Batch
  <2>4. NextState(result[p][r]) # "attempting"
    BY DEF NextState
  <2>5. QED  BY <2>1, <2>2, <2>3, <2>4, WaitsInTime DEF Clocks
<1>3. \A r \in Recipients : r \notin moved => state'[r] = state[r] /\ wait'[r] = wait[r]
  BY <1>1
<1>4. DOMAIN wait' = Recipients /\ wait' = [r \in Recipients |-> wait'[r]]
  BY <1>1
<1>5. \A r \in Recipients : wait'[r] \in Nat
  BY <1>2, <1>3 DEF Clocks
<1>6. \A r \in Batch(p) : r \in Recipients
  BY DEF Batch
<1>7. QED  BY <1>2, <1>3, <1>4, <1>5, <1>6

\* Steps other than the outcome transaction and the clock leave a wait alone or end it.
LEMMA InTimeAlone ==
    ASSUME Sound, Types', Clocks, InTime, wait' \in [Recipients -> Nat],
           UNCHANGED queueAge,
           \A r \in Recipients : \/ wait'[r] = 0
                                 \/ /\ wait'[r] = wait[r]
                                    /\ state'[r] \in Active => state[r] \in Active
    PROVE  InTime'
<1> SUFFICES ASSUME NEW r \in Recipients, state'[r] \in Active
             PROVE  queueAge' + wait'[r] <= MaxQueueAge
  BY DEF InTime
<1>1. CASE wait'[r] = 0
  BY <1>1, OutboundAssumption DEF Clocks
<1>2. CASE wait'[r] = wait[r] /\ state[r] \in Active
  BY <1>2 DEF InTime
<1>3. QED  BY <1>1, <1>2

\* recoverInterrupted's update and the waits.
LEMMA RecoverInTime ==
    ASSUME Sound, Clocks, NEW q \in Recipients, RecoverRow(q)
    PROVE  /\ wait' \in [Recipients -> Nat]
           /\ \A r \in Recipients :
                 \/ wait'[r] = 0
                 \/ wait'[r] = wait[r] /\ (state'[r] \in Active => state[r] \in Active)
BY DEF RecoverRow, rowVars, Clocks, Sound, Types, RowTypes

\* Every step.
LEMMA InTimeKept ==
    ASSUME Sound, Types', Clocks, InTime, [Next]_vars
    PROVE  Clocks' /\ InTime'
<1>1. ASSUME UNCHANGED <<wait, queueAge, adminCount, freezes>>,
             swept' \in [Procs -> BOOLEAN],
             \A r \in Recipients : state'[r] \in Active => state[r] \in Active
      PROVE  Clocks' /\ InTime'
  BY <1>1 DEF Clocks, InTime
<1>2. ASSUME NEW p \in Procs, Handle(p) PROVE Clocks' /\ InTime'
  <2>1. UNCHANGED <<queueAge, adminCount, freezes, swept>>
    BY <1>2 DEF Handle, ClaimJob, Recover, RecoverOne, Load, Begin, BeginNothing,
       TransportReturns, Commit, HandlerDsn, BatchDone, CompleteJob, operatorVars, sweepVars
  <2>2. CASE \/ (\E k \in Keys : ClaimJob(p, k)) \/ Recover(p) \/ Load(p) \/ BeginNothing(p)
             \/ TransportReturns(p) \/ HandlerDsn(p) \/ BatchDone(p) \/ CompleteJob(p)
    <3>1. UNCHANGED <<wait, state>>
      BY <2>2 DEF ClaimJob, Recover, Load, BeginNothing, TransportReturns, HandlerDsn,
         BatchDone, CompleteJob, rowVars
    <3>2. QED  BY <1>1, <2>1, <3>1 DEF Clocks
  <2>3. ASSUME NEW q \in Recipients, RecoverOne(p, q) PROVE Clocks' /\ InTime'
    BY <2>1, <2>3, RecoverInTime, InTimeAlone DEF RecoverOne, Clocks
  <2>4. CASE Begin(p)
    <3>1. wait' = wait /\ \A r \in Recipients : state'[r] \in Active => state[r] \in Active
      BY <2>4 DEF Begin, Active
    <3>2. QED  BY <1>1, <2>1, <3>1 DEF Clocks
  <2>5. CASE Commit(p)
    <3>1. /\ wait' \in [Recipients -> Nat]
          /\ \A r \in Recipients : \/ state'[r] = state[r] /\ wait'[r] = wait[r]
                                   \/ queueAge + wait'[r] <= MaxQueueAge
      BY <2>5, CommitWaits
    <3>2. QED  BY <2>1, <3>1 DEF Clocks, InTime
  <2>6. QED  BY <1>2, <2>2, <2>3, <2>4, <2>5 DEF Handle
<1>3. ASSUME NEW p \in Procs, Sweep(p) PROVE Clocks' /\ InTime'
  <2>1. UNCHANGED <<queueAge, adminCount, freezes>> /\ swept' \in [Procs -> BOOLEAN]
    BY <1>3 DEF Sweep, SweepRecover, SweepRecoverOne, SweepOrphans, SweepReschedule,
       SweepUnsent, SweepDsn, SweepStep, operatorVars, Clocks
  <2>2. CASE \/ SweepRecover(p) \/ SweepOrphans(p) \/ SweepReschedule(p) \/ SweepUnsent(p)
             \/ SweepDsn(p)
    <3>1. UNCHANGED <<wait, state>>
      BY <2>2 DEF SweepRecover, SweepOrphans, SweepReschedule, SweepUnsent, SweepDsn, rowVars
    <3>2. QED  BY <1>1, <2>1, <3>1
  <2>3. ASSUME NEW q \in Recipients, SweepRecoverOne(p, q) PROVE Clocks' /\ InTime'
    BY <2>1, <2>3, RecoverInTime, InTimeAlone DEF SweepRecoverOne, Clocks
  <2>4. QED  BY <1>3, <2>2, <2>3 DEF Sweep
<1>4. ASSUME NEW p \in Procs, HandlerThrows(p) \/ SweepThrows(p) \/ Crash(p)
      PROVE  Clocks' /\ InTime'
  <2>1. UNCHANGED <<wait, state, queueAge, adminCount, freezes>> /\ swept' \in [Procs -> BOOLEAN]
    BY <1>4 DEF HandlerThrows, SweepThrows, SweepStep, Crash, rowVars, operatorVars, sweepVars,
       Clocks
  <2>2. QED  BY <1>1, <2>1
<1>5. CASE Operator
  <2>1. UNCHANGED <<queueAge, swept>>
    BY <1>5 DEF Operator, AdminWrite, Cancel, Freeze, Thaw, ThawEnqueue, AdminRead, AdminNudge, AdminDelete,
       AdminBounce, Elsewhere, sweepVars
  <2>2. adminCount' \in 0..MaxAdmin /\ freezes' \in 0..MaxFreezes
    <3>1. /\ \/ adminCount' = adminCount
             \/ adminCount < MaxAdmin /\ adminCount' = adminCount + 1
          /\ \/ freezes' = freezes
             \/ freezes < MaxFreezes /\ freezes' = freezes + 1
      BY <1>5 DEF Operator, AdminWrite, Cancel, Freeze, Thaw, ThawEnqueue, AdminRead, AdminNudge, AdminDelete,
         AdminBounce, operatorVars
    <3>2. QED  BY <3>1, OutboundAssumption DEF Clocks
  <2>3. ASSUME NEW a \in Admins, AdminNudge(a) PROVE Clocks' /\ InTime'
    <3>1. /\ wait' \in [Recipients -> Nat] /\ state' = state
          /\ \A r \in Recipients : wait'[r] = 0 \/ wait'[r] = wait[r]
      BY <2>3 DEF AdminNudge, Chosen, Clocks
    <3>2. QED  BY <2>1, <2>2, <3>1, InTimeAlone DEF Clocks
  <2>4. CASE ~ \E a \in Admins : AdminNudge(a)
    <3>1. wait' = wait /\ \A r \in Recipients : state'[r] \in Active => state[r] \in Active
      BY <1>5, <2>4, OperatorRows
    <3>2. QED  BY <2>1, <2>2, <3>1 DEF Clocks, InTime
  <2>5. QED  BY <2>3, <2>4
<1>6. ASSUME NEW q \in Recipients, NEW hard \in BOOLEAN, SesBounce(q, hard)
      PROVE  Clocks' /\ InTime'
  <2>1. UNCHANGED <<wait, queueAge, adminCount, freezes, swept>>
    BY <1>6 DEF SesBounce, operatorVars, Elsewhere, sweepVars
  <2>2. \A r \in Recipients : state'[r] \in Active => state[r] \in Active
    BY <1>6 DEF SesBounce, Active, Sound, Types, RowTypes
  <2>3. QED  BY <1>1, <2>1, <2>2 DEF Clocks
<1>7. CASE Tick
  <2>1. /\ wait' = [r \in Recipients |->
                      IF state[r] \in Active /\ wait[r] > 0 THEN wait[r] - 1 ELSE wait[r]]
        /\ queueAge' = IF queueAge < MaxQueueAge THEN queueAge + 1 ELSE queueAge
        /\ swept' = [p \in Procs |-> FALSE]
        /\ UNCHANGED <<state, adminCount, freezes>>
    BY <1>7 DEF Tick, operatorVars
  <2>2. wait' \in [Recipients -> Nat] /\ queueAge' \in 0..MaxQueueAge
    BY <2>1, OutboundAssumption DEF Clocks
  <2>3. InTime'
    BY <2>1, OutboundAssumption DEF Clocks, InTime
  <2>4. QED  BY <2>1, <2>2, <2>3 DEF Clocks
<1>8. CASE UNCHANGED vars
  BY <1>1, <1>8 DEF vars, rowVars, operatorVars, sweepVars, Clocks
<1>9. QED  BY <1>2, <1>3, <1>4, <1>5, <1>6, <1>7, <1>8 DEF Next

\* The clocks, at every time.
LEMMA ClocksAlways == Spec => [](Clocks /\ InTime)
<1>1. Init => Clocks /\ InTime
  BY OutboundAssumption DEF Init, Clocks, InTime
<1>2. Sound /\ Sound' /\ Clocks /\ InTime /\ [Next]_vars => Clocks' /\ InTime'
  BY InTimeKept DEF Sound
<1>3. QED  BY <1>1, <1>2, SoundAlways, PTL DEF Spec

\* A retry is never scheduled past the expiry of the message, whatever fails: a recipient
\* in line is due at the latest when the message expires (nextState takes the earlier of
\* the two), for any schedule, jitter and retries by hand.
THEOREM DueBeforeExpiry == Spec => []InTime
BY ClocksAlways, PTL

-----------------------------------------------------------------------------
\* Handlers at work, whatever fails.

\* The attempt of handler p is the latest of a recipient that is attempting.
Latest(p, r) == state[r] = "attempting" /\ seen[p][r].tries = attempts[r]

\* An attempt of handler p, which may have been taken from it since: while it is the
\* latest the row is younger than the timeout.
AtWork(p, r) ==
    /\ pc[p] \in {"transport", "commit"}
    /\ claimed[p][r] = Route("direct")
    /\ current[p] = Route("direct")
    /\ seen[p][r].tries <= attempts[r]
    /\ Latest(p, r) => /\ age[r] <= AttemptTimeout
                       /\ pc[p] = "transport" => age[r] <= timer[p]

Working ==
    /\ Timed
    /\ Routed
    /\ \A p \in Procs, r \in Recipients : InFlight(p, r) => AtWork(p, r)

\* Handler q has no attempt any more.
Idled(q) == timer'[q] = 0 /\ \A r \in Recipients : claimed'[q][r] = Nothing

\* Handlers go on with what they have or drop it, and no attempt begins.
LEMMA WorkingAlone ==
    ASSUME Sound, Types', Working, Routed', UNCHANGED attempts,
           \A r \in Recipients : age'[r] <= age[r],
           \A r \in Recipients : state'[r] = "attempting" => state[r] = "attempting",
           \A q \in Procs : Same(q) \/ Idled(q)
    PROVE  Working'
<1>1. ASSUME NEW q \in Procs, NEW r \in Recipients, InFlight(q, r)' PROVE AtWork(q, r)'
  <2>1. Same(q) /\ AtWork(q, r)
    BY <1>1 DEF InFlight, Same, Idled, Working
  <2>2. age'[r] <= age[r] /\ age[r] \in Nat /\ age'[r] \in Nat /\ timer[q] \in Nat
    BY DEF Sound, Types, RowTypes, HandlerTypes
  <2>3. Latest(q, r)' => Latest(q, r)
    BY <2>1 DEF Latest, Same
  <2>4. Latest(q, r)' => /\ age'[r] <= AttemptTimeout
                         /\ pc[q] = "transport" => age'[r] <= timer[q]
    BY <2>1, <2>2, <2>3, OutboundAssumption DEF AtWork
  <2>5. QED  BY <2>1, <2>4 DEF AtWork, Same
<1>2. ASSUME NEW q \in Procs
      PROVE  timer'[q] <= AttemptTimeout /\ (pc'[q] # "transport" => timer'[q] = 0)
  <2>1. \/ timer'[q] = timer[q] /\ pc'[q] = pc[q]
        \/ timer'[q] = 0
    BY DEF Same, Idled
  <2>2. timer[q] <= AttemptTimeout /\ (pc[q] # "transport" => timer[q] = 0)
    BY DEF Working, Timed
  <2>3. 0 <= AttemptTimeout
    BY OutboundAssumption
  <2>4. QED  BY <2>1, <2>2, <2>3
<1>3. QED  BY <1>1, <1>2 DEF Working, Timed

\* A handler outside the transport and the outcome transaction is at work on nothing.
LEMMA NotAtWork ==
    ASSUME Working, NEW p \in Procs, pc[p] \notin {"transport", "commit"}
    PROVE  timer[p] = 0 /\ \A r \in Recipients : claimed[p][r] = Nothing
BY DEF Working, AtWork, InFlight, Timed

\* begin numbers its attempts above the ones before.
LEMMA BeginWorking ==
    ASSUME Sound, Types', Working, NEW p \in Procs, Begin(p)
    PROVE  Working'
<1>1. timer[p] = 0 /\ \A r \in Recipients : claimed[p][r] = Nothing
  BY NotAtWork DEF Begin
<1>2. /\ state' = [r \in Recipients |-> IF r \in Due THEN "attempting" ELSE state[r]]
      /\ attempts' = [r \in Recipients |-> IF r \in Due THEN attempts[r] + 1 ELSE attempts[r]]
      /\ age' = [r \in Recipients |-> IF r \in Due THEN 0 ELSE age[r]]
      /\ UNCHANGED <<via, timer, result>>
  BY DEF Begin
<1>3. \A r \in Recipients : claimed'[p][r] = IF r \in Due THEN Direct ELSE Nothing
  BY DEF Begin, Sound, Types, HandlerTypes, Working, Routed, Direct
<1>4. current'[p] = Direct
  <2>1. PICK r \in Due : current' = [current EXCEPT ![p] = Route(via[r])]
    BY DEF Begin
  <2>2. r \in Recipients
    BY DEF Due, Waiting
  <2>3. QED  BY <2>1, <2>2 DEF Sound, Types, HandlerTypes, Working, Routed, Direct
<1>5. \A r \in Recipients : r \in Due => seen'[p][r].tries = attempts[r] + 1
  BY DEF Begin, Sound, Types, HandlerTypes
<1>6. pc'[p] = "transport"
  BY DEF Begin, Sound, Types, HandlerTypes
<1>7. \A q \in Procs : q # p => Same(q)
  BY <1>2 DEF Begin, Same, Sound, Types, HandlerTypes
<1>8. ASSUME NEW q \in Procs, NEW r \in Recipients, InFlight(q, r)' PROVE AtWork(q, r)'
  <2>1. attempts[r] \in Nat
    BY DEF Sound, Types, RowTypes
  <2>2. CASE q = p
    <3>1. r \in Due
      BY <1>3, <1>8, <2>2 DEF InFlight
    <3>2. age'[r] = 0 /\ attempts'[r] = attempts[r] + 1 /\ timer'[p] = 0
      BY <1>1, <1>2, <3>1
    <3>3. seen'[p][r].tries = attempts[r] + 1 /\ claimed'[p][r] = Direct
      BY <1>3, <1>5, <3>1
    <3>4. QED
      BY <1>4, <1>6, <2>1, <2>2, <3>2, <3>3, OutboundAssumption DEF AtWork, Direct
  <2>3. CASE q # p
    <3>1. Same(q) /\ AtWork(q, r)
      BY <1>7, <1>8, <2>3 DEF InFlight, Same, Working
    <3>2. seen[q][r].tries \in Nat
      BY DEF Sound, Types, HandlerTypes, Sightings
    <3>3. CASE r \in Due
      <4>1. attempts'[r] = attempts[r] + 1
        BY <1>2, <3>3
      <4>2. seen'[q][r].tries <= attempts'[r] /\ ~Latest(q, r)'
        BY <2>1, <3>1, <3>2, <4>1 DEF AtWork, Same, Latest
      <4>3. QED  BY <3>1, <4>2 DEF AtWork, Same
    <3>4. CASE r \notin Due
      <4>1. attempts'[r] = attempts[r] /\ state'[r] = state[r] /\ age'[r] = age[r]
        BY <1>2, <3>4
      <4>2. QED  BY <3>1, <4>1 DEF AtWork, Same, Latest
    <3>5. QED  BY <3>3, <3>4
  <2>4. QED  BY <2>2, <2>3
<1>9. Timed'
  BY <1>1, <1>2, <1>6, <1>7, OutboundAssumption DEF Working, Timed, Same
<1>10. Routed'
  BY <1>2 DEF Working, Routed, Route
<1>11. QED  BY <1>8, <1>9, <1>10 DEF Working

\* The transport has returned within the timeout.
LEMMA TransportWorking ==
    ASSUME Sound, Types', Working, NEW p \in Procs, TransportReturns(p)
    PROVE  Working'
<1>1. UNCHANGED <<state, attempts, age, via, claimed, seen, current>>
  BY DEF TransportReturns, rowVars
<1>2. pc[p] = "transport" /\ pc'[p] = "commit" /\ timer'[p] = 0
  BY DEF TransportReturns, Sound, Types, HandlerTypes
<1>3. \A q \in Procs : q # p => pc'[q] = pc[q] /\ timer'[q] = timer[q]
  BY DEF TransportReturns, Sound, Types, HandlerTypes
<1>4. ASSUME NEW q \in Procs, NEW r \in Recipients, InFlight(q, r)' PROVE AtWork(q, r)'
  <2>1. AtWork(q, r)
    BY <1>1, <1>4 DEF InFlight, Working
  <2>2. Latest(q, r)' => Latest(q, r)
    BY <1>1 DEF Latest
  <2>3. QED  BY <1>1, <1>2, <1>3, <2>1, <2>2 DEF AtWork
<1>5. Timed'
  BY <1>2, <1>3, OutboundAssumption DEF Working, Timed
<1>6. Routed'
  BY <1>1 DEF Working, Routed, Route
<1>7. QED  BY <1>4, <1>5, <1>6 DEF Working

\* Rows and transports grow old together.
LEMMA TickWorking ==
    ASSUME Sound, Types', Working, Tick
    PROVE  Working'
<1>1. UNCHANGED <<state, attempts, via, pc, claimed, seen, current>>
  BY DEF Tick
<1>2. \A p \in Procs :
         /\ pc[p] \in {"idle", "transport"}
         /\ pc[p] = "transport" => timer[p] < AttemptTimeout
         /\ timer'[p] = IF pc[p] = "transport" THEN timer[p] + 1 ELSE timer[p]
  BY DEF Tick
<1>3. \A r \in Recipients : age'[r] <= age[r] + 1
  BY DEF Tick, Sound, Types, RowTypes
<1>4. ASSUME NEW p \in Procs, NEW r \in Recipients, InFlight(p, r)' PROVE AtWork(p, r)'
  <2>1. AtWork(p, r) /\ pc[p] = "transport"
    BY <1>1, <1>2, <1>4 DEF InFlight, Working, AtWork
  <2>2. Latest(p, r)' => Latest(p, r)
    BY <1>1 DEF Latest
  <2>3. age[r] \in Nat /\ age'[r] \in Nat /\ timer[p] \in Nat
    BY DEF Sound, Types, RowTypes, HandlerTypes
  <2>4. Latest(p, r) => age'[r] <= timer'[p] /\ age'[r] <= AttemptTimeout
    <3>1. Latest(p, r) => age[r] <= timer[p]
      BY <2>1 DEF AtWork
    <3>2. timer'[p] = timer[p] + 1 /\ timer[p] < AttemptTimeout /\ age'[r] <= age[r] + 1
      BY <1>2, <1>3, <2>1
    <3>3. QED  BY <2>3, <3>1, <3>2, OutboundAssumption
  <2>5. QED  BY <1>1, <2>1, <2>2, <2>4 DEF AtWork
<1>5. Timed'
  <2> SUFFICES ASSUME NEW p \in Procs
               PROVE  timer'[p] <= AttemptTimeout /\ (pc'[p] # "transport" => timer'[p] = 0)
    BY DEF Timed
  <2>1. timer[p] \in Nat /\ timer[p] <= AttemptTimeout /\ (pc[p] # "transport" => timer[p] = 0)
    BY DEF Working, Timed, Sound, Types, HandlerTypes
  <2>2. QED  BY <1>1, <1>2, <2>1, OutboundAssumption
<1>6. Routed'
  BY <1>1 DEF Working, Routed, Route
<1>7. QED  BY <1>4, <1>5, <1>6 DEF Working

\* recoverInterrupted's update leaves a row at most younger, and in line.
LEMMA RecoverYounger ==
    ASSUME Sound, NEW q \in Recipients, RecoverRow(q)
    PROVE  /\ UNCHANGED attempts
           /\ \A r \in Recipients : age'[r] <= age[r]
           /\ \A r \in Recipients : state'[r] = "attempting" => state[r] = "attempting"
BY DEF RecoverRow, rowVars, Sound, Types, RowTypes

\* Every step of a handler.
LEMMA HandleWorking ==
    ASSUME Sound, Types', Working, Routed', NEW p \in Procs, Handle(p)
    PROVE  Working'
<1>1. \A r \in Recipients : age[r] <= age[r]
  BY DEF Sound, Types, RowTypes
<1>2. CASE \/ (\E k \in Keys : ClaimJob(p, k)) \/ Recover(p) \/ Load(p) \/ BeginNothing(p)
           \/ BatchDone(p)
  <2>1. UNCHANGED <<state, attempts, age, claimed, seen, timer, result>>
    BY <1>2 DEF ClaimJob, Recover, Load, BeginNothing, BatchDone, rowVars
  <2>2. pc[p] \notin {"transport", "commit"}
    BY <1>2 DEF ClaimJob, Recover, Load, BeginNothing, BatchDone
  <2>3. \A q \in Procs : q # p => pc'[q] = pc[q] /\ current'[q] = current[q]
    BY <1>2 DEF ClaimJob, Recover, Load, BeginNothing, BatchDone, AfterBatch, Sound, Types,
       HandlerTypes
  <2>4. \A q \in Procs : Same(q) \/ Idled(q)
    BY <2>1, <2>2, <2>3, NotAtWork DEF Same, Idled
  <2>5. QED  BY <1>1, <2>1, <2>4, WorkingAlone
<1>3. ASSUME NEW r \in Recipients, RecoverOne(p, r) PROVE Working'
  <2>1. UNCHANGED <<claimed, seen, current, timer, result>> /\ pc[p] \notin {"transport", "commit"}
    BY <1>3 DEF RecoverOne
  <2>2. \A q \in Procs : q # p => pc'[q] = pc[q]
    BY <1>3 DEF RecoverOne, Sound, Types, HandlerTypes
  <2>3. \A q \in Procs : Same(q) \/ Idled(q)
    BY <2>1, <2>2, NotAtWork DEF Same, Idled
  <2>4. QED  BY <1>3, <2>3, RecoverYounger, WorkingAlone DEF RecoverOne
<1>4. CASE Begin(p)
  BY <1>4, BeginWorking
<1>5. CASE TransportReturns(p)
  BY <1>5, TransportWorking
<1>6. CASE Commit(p)
  <2>1. \A r \in Recipients : InFlight(p, r) => r \in Batch(p)
    BY DEF Working, AtWork, InFlight, Batch
  <2>2. claimed' = [claimed EXCEPT ![p] =
                       [r \in Recipients |-> IF r \in Batch(p) THEN Nothing ELSE @[r]]]
    BY <1>6 DEF Commit
  <2>3. \A r \in Recipients : claimed'[p][r] = Nothing
    BY <2>1, <2>2 DEF InFlight, Sound, Types, HandlerTypes
  <2>4. timer'[p] = 0
    BY <1>6 DEF Commit, Working, Timed
  <2>5. \A q \in Procs : q # p => Same(q)
    BY <1>6, <2>2 DEF Commit, Same, Sound, Types, HandlerTypes
  <2>6. \A r \in Recipients : state'[r] = "attempting" => state[r] = "attempting"
    <3>1. \A o : NextState(o) # "attempting"
      BY DEF NextState
    <3>2. QED  BY <1>6, <3>1 DEF Commit
  <2>7. \A r \in Recipients : age'[r] <= age[r]
    BY <1>6 DEF Commit, Sound, Types, RowTypes
  <2>8. attempts' = attempts
    BY <1>6 DEF Commit
  <2>9. QED  BY <2>3, <2>4, <2>5, <2>6, <2>7, <2>8, WorkingAlone DEF Idled
<1>7. CASE HandlerDsn(p)
  <2>1. \A r \in Recipients : age'[r] <= age[r]
    BY <1>7, EmitYounger DEF HandlerDsn, Sound, Types, HandlerTypes
  <2>2. UNCHANGED <<state, attempts>> /\ \A q \in Procs : Same(q)
    BY <1>7 DEF HandlerDsn, Same
  <2>3. QED  BY <2>1, <2>2, WorkingAlone
<1>8. CASE CompleteJob(p)
  <2>1. UNCHANGED <<state, attempts, age>>
    BY <1>8 DEF CompleteJob, rowVars
  <2>2. \A q \in Procs : Same(q) \/ Idled(q)
    BY <1>8 DEF CompleteJob, Forget, Unclaimed, Same, Idled, Sound, Types, HandlerTypes
  <2>3. QED  BY <1>1, <2>1, <2>2, WorkingAlone
<1>9. QED  BY <1>2, <1>3, <1>4, <1>5, <1>6, <1>7, <1>8 DEF Handle

\* Every step of a sweeper, and every failure.
LEMMA SweepWorking ==
    ASSUME Sound, Types', Working, Routed', NEW p \in Procs,
           Sweep(p) \/ HandlerThrows(p) \/ SweepThrows(p) \/ Crash(p)
    PROVE  Working'
<1>1. ASSUME NEW next, SweepStep(p, next), pc' = pc \/ SweepEnds(p)
      PROVE  \A q \in Procs : Same(q) \/ Idled(q)
  <2>1. UNCHANGED <<claimed, seen, current, timer, result>>
    BY <1>1 DEF SweepStep
  <2>2. ASSUME NEW q \in Procs PROVE pc'[q] = pc[q] \/ pc[q] = "booting"
    BY <1>1 DEF SweepEnds, Sound, Types, HandlerTypes
  <2>3. QED  BY <2>1, <2>2, NotAtWork DEF Same, Idled
<1>2. \A r \in Recipients : age[r] <= age[r]
  BY DEF Sound, Types, RowTypes
<1>3. CASE \/ SweepRecover(p) \/ SweepOrphans(p) \/ SweepReschedule(p) \/ SweepUnsent(p)
           \/ SweepThrows(p)
  <2>1. UNCHANGED <<state, attempts, age>>
    BY <1>3 DEF SweepRecover, SweepOrphans, SweepReschedule, SweepUnsent, SweepThrows, rowVars
  <2>2. (\E next : SweepStep(p, next)) /\ (pc' = pc \/ SweepEnds(p))
    BY <1>3 DEF SweepRecover, SweepOrphans, SweepReschedule, SweepUnsent, SweepThrows
  <2>3. QED  BY <1>1, <1>2, <2>1, <2>2, WorkingAlone
<1>4. ASSUME NEW r \in Recipients, SweepRecoverOne(p, r) PROVE Working'
  <2>1. \A q \in Procs : Same(q) \/ Idled(q)
    BY <1>1, <1>4 DEF SweepRecoverOne
  <2>2. QED  BY <1>4, <2>1, RecoverYounger, WorkingAlone DEF SweepRecoverOne
<1>5. CASE SweepDsn(p)
  <2>1. PICK i \in sIntents[p] :
          /\ EmitDsn(i)
          /\ SweepStep(p, IF sIntents[p] = {i} THEN "idle" ELSE "emitting")
          /\ IF sIntents[p] = {i} THEN SweepEnds(p) ELSE UNCHANGED pc
    BY <1>5 DEF SweepDsn
  <2>2. \A r \in Recipients : age'[r] <= age[r]
    BY <2>1, EmitYounger DEF Sound, Types, SweepTypes
  <2>3. UNCHANGED <<state, attempts>>
    BY <1>5 DEF SweepDsn
  <2>4. QED  BY <1>1, <2>1, <2>2, <2>3, WorkingAlone
<1>6. CASE HandlerThrows(p) \/ Crash(p)
  <2>1. UNCHANGED <<state, attempts, age>>
    BY <1>6 DEF HandlerThrows, Crash, rowVars
  <2>2. Forget(p) /\ \E x : pc' = [pc EXCEPT ![p] = x]
    BY <1>6 DEF HandlerThrows, Crash
  <2>3. \A q \in Procs : Same(q) \/ Idled(q)
    BY <2>2 DEF Forget, Unclaimed, Same, Idled, Sound, Types, HandlerTypes
  <2>4. QED  BY <1>2, <2>1, <2>3, WorkingAlone
<1>7. QED  BY <1>3, <1>4, <1>5, <1>6 DEF Sweep

\* Every step.
LEMMA WorkingKept ==
    ASSUME OneTransport, Sound, Types', Working, [Next]_vars
    PROVE  Working'
<1>1. Routed'
  BY RoutedKept DEF Working
<1>2. ASSUME UNCHANGED attempts, \A q \in Procs : Same(q),
             \A r \in Recipients : age'[r] = age[r] \/ age'[r] = 0,
             \A r \in Recipients : state'[r] = "attempting" => state[r] = "attempting"
      PROVE  Working'
  <2>1. \A r \in Recipients : age'[r] <= age[r]
    BY <1>2 DEF Sound, Types, RowTypes
  <2>2. QED  BY <1>1, <1>2, <2>1, WorkingAlone
<1>3. CASE Operator
  <2>1. UNCHANGED attempts /\ \A q \in Procs : Same(q)
    BY <1>3 DEF Operator, AdminWrite, Cancel, Freeze, Thaw, ThawEnqueue, AdminRead, AdminNudge, AdminDelete,
       AdminBounce, Elsewhere, rowVars, handlerVars, Same
  <2>2. \A r \in Recipients : age'[r] = age[r] \/ age'[r] = 0
    BY <1>3, OperatorRows
  <2>3. \A r \in Recipients : state'[r] = "attempting" => state[r] = "attempting"
    BY <1>3, OperatorRows
  <2>4. QED  BY <1>2, <2>1, <2>2, <2>3
<1>4. ASSUME NEW r \in Recipients, NEW hard \in BOOLEAN, SesBounce(r, hard) PROVE Working'
  <2>1. UNCHANGED attempts /\ \A q \in Procs : Same(q)
    BY <1>4 DEF SesBounce, Elsewhere, handlerVars, Same
  <2>2. \A q \in Recipients : /\ age'[q] = age[q] \/ age'[q] = 0
                              /\ state'[q] = "attempting" => state[q] = "attempting"
    BY <1>4 DEF SesBounce, Sound, Types, RowTypes
  <2>3. QED  BY <1>2, <2>1, <2>2
<1>5. CASE UNCHANGED vars
  BY <1>2, <1>5 DEF vars, rowVars, handlerVars, Same
<1>6. QED
  BY <1>1, <1>3, <1>4, <1>5, HandleWorking, SweepWorking, TickWorking DEF Next

-----------------------------------------------------------------------------
\* What attempts are charged to.

\* The lists of interrupted attempts that are being worked off: one of the handler and
\* one of the sweeper of each process.
Lists == Procs \X {"handler", "sweeper"}
Listed(r) ==
    {l \in Lists : IF l[2] = "handler" THEN r \in stuck[l[1]] ELSE r \in sStuck[l[1]]}

\* A failure leaves one attempt behind, which every list may hold when it is recovered
\* and each of them may put in line again.
Most == Cardinality(Lists)

\* What has been granted so far: a tick of the clock, a retry by hand and a failure.
Requests == {a \in Admins : admin[a] # NoAdmin}
Asking == Cardinality(Requests)
Nudges == adminCount - Asking
Budget == queueAge + Nudges + Most * faults

\* Somebody is at work on the latest attempt.
Alive(r) == \E p \in Procs : InFlight(p, r) /\ seen[p][r].tries = attempts[r]

\* Every attempt but the first is charged to a grant, and so are the recoveries on lists;
\* a recipient that may be attempted now has one left; an attempt that nobody is at work
\* on has been charged to a failure.
Charged(r) ==
    /\ attempts[r] + Cardinality(Listed(r)) <= Budget + 1
    /\ state[r] \in Active /\ wait[r] = 0 => attempts[r] + Cardinality(Listed(r)) <= Budget
    /\ state[r] = "attempting" /\ ~Alive(r) => attempts[r] + Most <= Budget + 1

\* There are two lists to a process.
LEMMA ListsCounted ==
    /\ IsFiniteSet(Lists)
    /\ Most \in Nat
    /\ Most = 2 * Cardinality(Procs)
<1>1. IsFiniteSet({"handler", "sweeper"}) /\ Cardinality({"handler", "sweeper"}) = 2
  <2>1. {"handler", "sweeper"} = {"handler"} \cup {"sweeper"}
    OBVIOUS
  <2>2. IsFiniteSet({"handler"}) /\ Cardinality({"handler"}) = 1
    BY FS_Singleton
  <2>3. QED  BY <2>1, <2>2, FS_AddElement
<1>2. IsFiniteSet(Procs)
  BY OutboundAssumption
<1>3. IsFiniteSet(Lists) /\ Most = Cardinality(Procs) * 2
  BY <1>1, <1>2, FS_Product DEF Lists, Most
<1>4. Cardinality(Procs) \in Nat
  BY <1>2, FS_CardinalityType
<1>5. QED  BY <1>3, <1>4

\* A recipient is on no more lists than there are.
LEMMA ListedCounted ==
    ASSUME NEW S \in SUBSET Lists
    PROVE  /\ IsFiniteSet(S)
           /\ Cardinality(S) \in 0..Most
           /\ \A T \in SUBSET S : /\ Cardinality(T) \in Nat
                                  /\ Cardinality(T) <= Cardinality(S)
                                  /\ T # S => Cardinality(T) < Cardinality(S)
<1>1. IsFiniteSet(S) /\ Cardinality(S) <= Most
  BY ListsCounted, FS_Subset DEF Most
<1>2. Cardinality(S) \in Nat
  BY <1>1, FS_CardinalityType
<1>3. ASSUME NEW T \in SUBSET S
      PROVE  /\ Cardinality(T) \in Nat
             /\ Cardinality(T) <= Cardinality(S)
             /\ T # S => Cardinality(T) < Cardinality(S)
  <2>1. IsFiniteSet(T) /\ Cardinality(T) <= Cardinality(S)
        /\ (Cardinality(S) = Cardinality(T) => S = T)
    BY <1>1, FS_Subset
  <2>2. Cardinality(T) \in Nat
    BY <2>1, FS_CardinalityType
  <2>3. QED  BY <1>2, <2>1, <2>2
<1>4. QED  BY <1>1, <1>2, <1>3, ListsCounted

\* The requests under way.
LEMMA RequestsCounted ==
    /\ IsFiniteSet(Requests) /\ Asking \in Nat /\ Asking' \in Nat
    /\ admin' = admin => Asking' = Asking
<1>1. IsFiniteSet(Admins)
  BY OutboundAssumption
<1>2. IsFiniteSet(Requests) /\ IsFiniteSet(Requests')
  BY <1>1, FS_Subset DEF Requests
<1>3. Asking \in Nat /\ Asking' \in Nat
  BY <1>2, FS_CardinalityType DEF Asking
<1>4. admin' = admin => Asking' = Asking
  BY DEF Asking, Requests
<1>5. QED  BY <1>2, <1>3, <1>4

\* A request begins, and is answered.
LEMMA RequestBegins ==
    ASSUME Types, NEW a \in Admins, NEW op \in AdminOps, AdminRead(a, op)
    PROVE  Asking' = Asking + 1
<1>1. a \notin Requests /\ op # Nothing
  BY OutboundAssumption DEF AdminRead, Requests, Nothing
<1>2. Requests' = Requests \cup {a}
  BY <1>1 DEF AdminRead, Requests, NoAdmin, Types, OtherTypes
<1>3. QED  BY <1>1, <1>2, RequestsCounted, FS_AddElement DEF Asking

LEMMA RequestEnds ==
    ASSUME Types, NEW a \in Admins, AdminWrite(a)
    PROVE  Asking' = Asking - 1
<1>1. admin[a].op # Nothing /\ Answered(a)
  BY DEF AdminWrite, AdminNudge, AdminDelete, AdminBounce, Nothing
<1>2. a \in Requests
  BY <1>1 DEF Requests, NoAdmin
<1>3. Requests' = Requests \ {a}
  BY <1>1 DEF Answered, Requests, Types, OtherTypes
<1>4. QED  BY <1>2, <1>3, RequestsCounted, FS_RemoveElement DEF Asking

\* Grants are never taken back.
Granted == Budget \in Int /\ Budget' \in Int /\ Budget <= Budget'

\* Every step, and what a failure, a tick and a retry by hand grant.
LEMMA BudgetGrows ==
    ASSUME Sound, Clocks, Sound', Clocks', [Next]_vars
    PROVE  /\ Granted
           /\ Fault => Budget + Most <= Budget'
           /\ Tick /\ queueAge < MaxQueueAge => Budget + 1 <= Budget'
           /\ (\E a \in Admins : AdminNudge(a)) => Budget + 1 <= Budget'
<1>1. ASSUME Sound, Clocks PROVE adminCount \in Nat /\ queueAge \in Nat /\ faults \in Nat
  BY <1>1, OutboundAssumption DEF Clocks, Sound, Types, OtherTypes
<1>2. adminCount' \in Nat /\ queueAge' \in Nat /\ faults' \in Nat
  BY OutboundAssumption DEF Clocks, Sound, Types, OtherTypes
<1>3. queueAge <= queueAge' /\ (Tick /\ queueAge < MaxQueueAge => queueAge + 1 <= queueAge')
  <2>1. CASE Tick
    BY <1>1, <2>1 DEF Tick
  <2>2. CASE ~Tick
    <3>1. queueAge' = queueAge
      BY <2>2, CountsStay
    <3>2. QED  BY <1>1, <2>2, <3>1
  <2>3. QED  BY <2>1, <2>2
<1>4. Nudges <= Nudges' /\ ((\E a \in Admins : AdminNudge(a)) => Nudges + 1 <= Nudges')
  <2>1. Asking \in Nat
    BY RequestsCounted
  <2>2. CASE admin' = admin /\ adminCount' = adminCount
    <3>1. Asking' = Asking
      BY <2>2, RequestsCounted
    <3>2. ASSUME NEW a \in Admins PROVE ~AdminNudge(a)
      <4>1. CASE AdminNudge(a)
        BY <2>1, <3>1, <4>1, RequestEnds DEF AdminWrite, Sound
      <4>2. QED  BY <4>1
    <3>3. QED  BY <1>1, <2>1, <2>2, <3>1, <3>2 DEF Nudges
  <2>3. ASSUME NEW a \in Admins, NEW op \in AdminOps, AdminRead(a, op)
        PROVE  /\ Nudges <= Nudges'
               /\ \A b \in Admins : ~AdminNudge(b)
    <3>1. Asking' = Asking + 1 /\ adminCount' = adminCount + 1
      BY <2>3, RequestBegins DEF AdminRead, Sound
    <3>2. ASSUME NEW b \in Admins, AdminNudge(b) PROVE FALSE
      BY <2>1, <3>1, <3>2, RequestEnds DEF AdminWrite, Sound
    <3>3. QED  BY <1>1, <2>1, <3>1, <3>2 DEF Nudges
  <2>4. ASSUME NEW a \in Admins, AdminWrite(a) PROVE Nudges + 1 <= Nudges'
    <3>1. Asking' = Asking - 1 /\ adminCount' = adminCount
      BY <2>4, RequestEnds DEF AdminWrite, AdminNudge, AdminDelete, AdminBounce, Sound
    <3>2. QED  BY <1>1, <2>1, <3>1 DEF Nudges
  <2>5. \/ admin' = admin /\ adminCount' = adminCount
        \/ \E a \in Admins, op \in AdminOps : AdminRead(a, op)
        \/ \E a \in Admins : AdminWrite(a)
    BY CountsStay DEF Operator, Freeze, Thaw, ThawEnqueue, Cancel, operatorVars
  <2>6. Nudges \in Int /\ Nudges' \in Int
    BY <1>1, <1>2, <2>1, RequestsCounted DEF Nudges
  <2> HIDE DEF Nudges
  <2>7. QED  BY <2>2, <2>3, <2>4, <2>5, <2>6 DEF AdminWrite
<1>5. Nudges \in Int /\ Nudges' \in Int
  BY <1>1, <1>2, RequestsCounted DEF Nudges
<1>6. Most * faults <= Most * faults' /\ (Fault => Most * faults + Most <= Most * faults')
  <2>1. faults' = faults \/ faults' = faults + 1
    BY FaultsCounted
  <2>2. Fault => faults' = faults + 1
    BY DEF Fault
  <2>3. Most * (faults + 1) = Most * faults + Most
    BY <1>1, ListsCounted
  <2>4. Most * faults \in Nat
    BY <1>1, ListsCounted
  <2>5. QED  BY <2>1, <2>2, <2>3, <2>4, ListsCounted
<1>7. Most * faults \in Int /\ Most * faults' \in Int
  BY <1>1, <1>2, ListsCounted
<1> HIDE DEF Nudges
<1>8. QED  BY <1>1, <1>2, <1>3, <1>4, <1>5, <1>6, <1>7, ListsCounted DEF Budget, Granted

\* No attempt begins and none is listed: the charges stay covered when a recipient comes
\* due by a new grant or off a list, and an attempt is left behind by a failure only.
LEMMA ChargedAlone ==
    ASSUME Sound, NEW r \in Recipients, Charged(r),
           attempts'[r] = attempts[r], Listed(r)' \subseteq Listed(r), Granted,
           state'[r] \in Active /\ wait'[r] = 0 =>
               \/ state[r] \in Active /\ wait[r] = 0
               \/ Budget + 1 <= Budget'
               \/ Listed(r)' # Listed(r),
           state'[r] = "attempting" /\ ~Alive(r)' =>
               \/ state[r] = "attempting" /\ ~Alive(r)
               \/ Budget + Most <= Budget'
    PROVE  Charged(r)'
<1> DEFINE n == Cardinality(Listed(r))
           m == Cardinality(Listed(r)')
<1>1. n \in Nat /\ m \in Nat /\ m <= n /\ (Listed(r)' # Listed(r) => m < n)
  BY ListedCounted DEF Listed
<1>2. Budget \in Int /\ Budget' \in Int /\ Most \in Nat /\ attempts[r] \in Nat
  BY ListsCounted DEF Granted, Sound, Types, RowTypes
<1>3. /\ attempts[r] + n <= Budget + 1
      /\ state[r] \in Active /\ wait[r] = 0 => attempts[r] + n <= Budget
      /\ state[r] = "attempting" /\ ~Alive(r) => attempts[r] + Most <= Budget + 1
  BY DEF Charged
<1> HIDE DEF n, m
<1>4. attempts'[r] + m <= Budget' + 1
  BY <1>1, <1>2, <1>3 DEF Granted
<1>5. state'[r] \in Active /\ wait'[r] = 0 => attempts'[r] + m <= Budget'
  BY <1>1, <1>2, <1>3 DEF Granted
<1>6. state'[r] = "attempting" /\ ~Alive(r)' => attempts'[r] + Most <= Budget' + 1
  BY <1>1, <1>2, <1>3 DEF Granted
<1>7. QED  BY <1>4, <1>5, <1>6 DEF Charged, n, m, Most

\* Lists that only lose recipients.
LEMMA ListedLess ==
    ASSUME NEW r \in Recipients,
           \A p \in Procs : stuck'[p] \subseteq stuck[p] /\ sStuck'[p] \subseteq sStuck[p]
    PROVE  Listed(r)' \subseteq Listed(r)
BY DEF Listed, Lists

\* The latest attempts stay somebody's.
LEMMA AliveStays ==
    ASSUME NEW r \in Recipients, attempts'[r] = attempts[r],
           \A p \in Procs : InFlight(p, r) =>
               claimed'[p][r] = claimed[p][r] /\ seen'[p][r] = seen[p][r]
    PROVE  Alive(r) => Alive(r)'
BY DEF Alive, InFlight

\* Recovery takes an attempt that nobody is at work on.
LEMMA InterruptedIsDead ==
    ASSUME Sound, Working, NEW r \in Interrupted
    PROVE  state[r] = "attempting" /\ ~Alive(r)
<1>1. r \in Recipients /\ state[r] = "attempting" /\ age[r] > Lease
  BY DEF Interrupted
<1>2. ASSUME Alive(r) PROVE FALSE
  <2>1. PICK p \in Procs : InFlight(p, r) /\ seen[p][r].tries = attempts[r]
    BY <1>2 DEF Alive
  <2>2. age[r] <= AttemptTimeout
    BY <1>1, <2>1 DEF Working, AtWork, Latest
  <2>3. age[r] \in Nat
    BY <1>1 DEF Sound, Types, RowTypes
  <2>4. QED  BY <1>1, <2>2, <2>3, OutboundAssumption, JobTableAssumption
<1>3. QED  BY <1>1, <1>2

\* recoverInterrupted's read.
LEMMA ListingCharged ==
    ASSUME Sound, Working, Granted, NEW r \in Recipients, Charged(r),
           UNCHANGED <<state, attempts, wait, claimed, seen>>,
           r \in Interrupted \/ Listed(r)' \subseteq Listed(r)
    PROVE  Charged(r)'
<1>1. Alive(r)' <=> Alive(r)
  BY DEF Alive, InFlight
<1>2. CASE Listed(r)' \subseteq Listed(r)
  BY <1>1, <1>2, ChargedAlone
<1>3. CASE r \in Interrupted
  <2>1. state[r] = "attempting" /\ ~Alive(r)
    BY <1>3, InterruptedIsDead
  <2>2. attempts[r] + Most <= Budget + 1
    BY <2>1 DEF Charged
  <2>3. Cardinality(Listed(r)') \in 0..Most
    BY ListedCounted DEF Listed
  <2>4. Budget \in Int /\ Budget' \in Int /\ Most \in Nat /\ attempts[r] \in Nat
    BY ListsCounted DEF Granted, Sound, Types, RowTypes
  <2>5. attempts[r] + Cardinality(Listed(r)') <= Budget' + 1 /\ attempts[r] + Most <= Budget' + 1
    BY <2>2, <2>3, <2>4 DEF Granted
  <2>6. QED  BY <2>1, <2>5 DEF Charged, Active, Most
<1>4. QED  BY <1>2, <1>3

\* recoverInterrupted's update: the recipient leaves a list for the line.
LEMMA RecoverCharged ==
    ASSUME Sound, Clocks, Granted,
           NEW q \in Recipients, RecoverRow(q), UNCHANGED <<claimed, seen>>,
           \A p \in Procs : stuck'[p] \subseteq stuck[p] /\ sStuck'[p] \subseteq sStuck[p],
           Listed(q)' # Listed(q),
           NEW r \in Recipients, Charged(r)
    PROVE  Charged(r)'
<1>1. Listed(r)' \subseteq Listed(r)
  BY ListedLess
<1>2. attempts' = attempts
  BY DEF RecoverRow, rowVars
<1>3. Alive(r) <=> Alive(r)'
  BY <1>2 DEF Alive, InFlight
<1>4. \/ state'[r] = state[r] /\ wait'[r] = wait[r]
      \/ r = q /\ state'[r] # "attempting"
  BY DEF RecoverRow, rowVars, Sound, Types, RowTypes, Clocks
<1>5. QED  BY <1>1, <1>2, <1>3, <1>4, ChargedAlone

\* begin spends what the recipient has left.
LEMMA BeginCharged ==
    ASSUME Sound, Clocks, Working, Granted,
           NEW p \in Procs, Begin(p), NEW r \in Recipients, Charged(r)
    PROVE  Charged(r)'
<1>1. UNCHANGED <<wait, stuck, sStuck>>
  BY DEF Begin, sweepVars
<1>2. Listed(r)' = Listed(r)
  BY <1>1 DEF Listed
<1>3. CASE r \in Due
  <2>1. state'[r] = "attempting" /\ attempts'[r] = attempts[r] + 1
    BY <1>3 DEF Begin
  <2>2. Alive(r)'
    <3>1. claimed'[p][r] = Route(via[r]) /\ seen'[p][r].tries = attempts[r] + 1
      BY <1>3 DEF Begin, Sound, Types, HandlerTypes
    <3>2. Route(via[r]) # Nothing
      BY DEF Route, Sound, Types, RowTypes, Transports, Nothing
    <3>3. QED  BY <2>1, <3>1, <3>2 DEF Alive, InFlight
  <2>3. state[r] \in Active /\ wait[r] = 0
    BY <1>3 DEF Due, Waiting, Clocks
  <2>4. attempts[r] + Cardinality(Listed(r)) <= Budget
    BY <2>3 DEF Charged
  <2>5. Budget \in Int /\ Budget' \in Int /\ attempts[r] \in Nat
    BY DEF Granted, Sound, Types, RowTypes
  <2>6. Cardinality(Listed(r)) \in Nat
    BY ListedCounted DEF Listed
  <2>7. attempts'[r] + Cardinality(Listed(r)') <= Budget' + 1
    BY <1>2, <2>1, <2>4, <2>5, <2>6 DEF Granted
  <2>8. QED  BY <2>1, <2>2, <2>7 DEF Charged, Active
<1>4. CASE r \notin Due
  <2>1. state'[r] = state[r] /\ attempts'[r] = attempts[r] /\ wait'[r] = wait[r]
    BY <1>1, <1>4 DEF Begin
  <2>2. \A q \in Procs : InFlight(q, r) =>
            claimed'[q][r] = claimed[q][r] /\ seen'[q][r] = seen[q][r]
    <3>1. ~InFlight(p, r)
      BY NotAtWork DEF Begin, InFlight
    <3>2. \A q \in Procs : q # p => claimed'[q] = claimed[q] /\ seen'[q] = seen[q]
      BY DEF Begin, Sound, Types, HandlerTypes
    <3>3. QED  BY <3>1, <3>2
  <2>3. Alive(r) => Alive(r)'
    BY <2>1, <2>2, AliveStays
  <2>4. QED  BY <1>2, <2>1, <2>3, ChargedAlone
<1>5. QED  BY <1>3, <1>4

\* The charges of every recipient are covered.
Covered == \A r \in Recipients : Charged(r)

\* Steps that leave rows, attempts and lists alone, and those that end attempts by failing.
LEMMA CoveredAlone ==
    ASSUME Sound, Covered, Granted, UNCHANGED <<state, attempts, wait>>,
           \A p \in Procs : stuck'[p] \subseteq stuck[p] /\ sStuck'[p] \subseteq sStuck[p],
           \/ Budget + Most <= Budget'
           \/ \A p \in Procs, r \in Recipients : InFlight(p, r) =>
                  claimed'[p][r] = claimed[p][r] /\ seen'[p][r] = seen[p][r]
    PROVE  Covered'
<1> SUFFICES ASSUME NEW r \in Recipients PROVE Charged(r)'
  BY DEF Covered
<1>1. Listed(r)' \subseteq Listed(r)
  BY ListedLess
<1>2. Budget + Most <= Budget' \/ (Alive(r) => Alive(r)')
  BY AliveStays
<1>3. QED  BY <1>1, <1>2, ChargedAlone DEF Covered

\* Every step of a handler.
LEMMA HandleCovered ==
    ASSUME Sound, Clocks, Working, Covered, Sound', Clocks', Granted, NEW p \in Procs, Handle(p)
    PROVE  Covered'
<1>1. CASE \/ (\E k \in Keys : ClaimJob(p, k)) \/ Load(p) \/ BeginNothing(p)
           \/ TransportReturns(p) \/ HandlerDsn(p) \/ BatchDone(p)
  <2>1. UNCHANGED <<state, attempts, wait, claimed, seen, stuck, sStuck>>
    BY <1>1 DEF ClaimJob, Load, BeginNothing, TransportReturns, HandlerDsn, BatchDone, rowVars,
       sweepVars
  <2>2. QED  BY <2>1, CoveredAlone
<1>2. CASE Recover(p)
  <2>1. /\ UNCHANGED <<state, attempts, wait, claimed, seen, sStuck>>
        /\ stuck' = [stuck EXCEPT ![p] = Interrupted]
    BY <1>2 DEF Recover, rowVars, sweepVars
  <2>2. ASSUME NEW r \in Recipients, r \notin Interrupted PROVE Listed(r)' \subseteq Listed(r)
    BY <2>1, <2>2 DEF Listed, Lists, Sound, Types, HandlerTypes
  <2>3. QED  BY <2>1, <2>2, ListingCharged DEF Covered
<1>3. ASSUME NEW q \in Recipients, RecoverOne(p, q) PROVE Covered'
  <2>1. /\ RecoverRow(q) /\ UNCHANGED <<claimed, seen, sStuck>>
        /\ q \in stuck[p] /\ stuck' = [stuck EXCEPT ![p] = @ \ {q}]
    BY <1>3 DEF RecoverOne, sweepVars
  <2>2. \A o \in Procs : stuck'[o] \subseteq stuck[o] /\ sStuck'[o] \subseteq sStuck[o]
    BY <2>1 DEF Sound, Types, HandlerTypes
  <2>3. Listed(q)' # Listed(q)
    <3>1. <<p, "handler">> \in Listed(q)
      BY <2>1 DEF Listed, Lists
    <3>2. q \notin stuck'[p]
      BY <2>1 DEF Sound, Types, HandlerTypes
    <3>3. <<p, "handler">> \notin Listed(q)'
      BY <3>2 DEF Listed
    <3>4. QED  BY <3>1, <3>3
  <2>4. QED  BY <2>1, <2>2, <2>3, RecoverCharged DEF Covered
<1>4. CASE Begin(p)
  BY <1>4, BeginCharged DEF Covered
<1>5. CASE Commit(p)
  <2> SUFFICES ASSUME NEW r \in Recipients PROVE Charged(r)'
    BY DEF Covered
  <2>1. /\ UNCHANGED <<attempts, stuck, sStuck>>
        /\ claimed' = [claimed EXCEPT ![p] =
                          [q \in Recipients |-> IF q \in Batch(p) THEN Nothing ELSE @[q]]]
        /\ seen' = [seen EXCEPT ![p] =
                       [q \in Recipients |-> IF q \in Batch(p) THEN Unseen ELSE @[q]]]
    BY <1>5 DEF Commit, sweepVars
  <2>2. Listed(r)' = Listed(r)
    BY <2>1 DEF Listed
  <2>3. /\ \/ state'[r] = state[r] /\ wait'[r] = wait[r]
           \/ state'[r] # "attempting" /\ (state'[r] \in Active => wait'[r] > 0)
        /\ r \in Batch(p) => state'[r] # "attempting"
    BY <1>5, CommitWaits
  <2>4. wait'[r] \in Nat
    BY DEF Clocks
  <2>5. r \notin Batch(p) => (Alive(r) => Alive(r)')
    <3>1. r \notin Batch(p) =>
            \A q \in Procs : claimed'[q][r] = claimed[q][r] /\ seen'[q][r] = seen[q][r]
      BY <2>1 DEF Sound, Types, HandlerTypes
    <3>2. QED  BY <2>1, <3>1, AliveStays
  <2>6. QED  BY <2>1, <2>2, <2>3, <2>4, <2>5, ChargedAlone DEF Covered
<1>6. CASE CompleteJob(p)
  <2>1. UNCHANGED <<state, attempts, wait, sStuck>> /\ pc[p] = "completing" /\ Forget(p)
    BY <1>6 DEF CompleteJob, rowVars, sweepVars
  <2>2. \A q \in Procs : stuck'[q] \subseteq stuck[q]
    BY <2>1 DEF Forget, Sound, Types, HandlerTypes
  <2>3. \A r \in Recipients : ~InFlight(p, r)
    BY <2>1, NotAtWork DEF InFlight
  <2>4. \A q \in Procs : q # p => claimed'[q] = claimed[q] /\ seen'[q] = seen[q]
    BY <2>1 DEF Forget, Sound, Types, HandlerTypes
  <2>5. QED  BY <2>1, <2>2, <2>3, <2>4, CoveredAlone
<1>7. QED  BY <1>1, <1>2, <1>3, <1>4, <1>5, <1>6 DEF Handle

\* Every step of a sweeper.
LEMMA SweepCovered ==
    ASSUME Sound, Clocks, Working, Covered, Sound', Clocks', Granted, NEW p \in Procs, Sweep(p)
    PROVE  Covered'
<1>1. UNCHANGED <<claimed, seen, stuck>>
  BY DEF Sweep, SweepRecover, SweepRecoverOne, SweepOrphans, SweepReschedule, SweepUnsent,
     SweepDsn, SweepStep
<1>2. CASE SweepOrphans(p) \/ SweepReschedule(p) \/ SweepUnsent(p) \/ SweepDsn(p)
  <2>1. UNCHANGED <<state, attempts, wait, sStuck>>
    BY <1>2 DEF SweepOrphans, SweepReschedule, SweepUnsent, SweepDsn, rowVars
  <2>2. QED  BY <1>1, <2>1, CoveredAlone
<1>3. CASE SweepRecover(p)
  <2>1. UNCHANGED <<state, attempts, wait>> /\ sStuck' = [sStuck EXCEPT ![p] = Interrupted]
    BY <1>3 DEF SweepRecover, rowVars
  <2>2. ASSUME NEW r \in Recipients, r \notin Interrupted PROVE Listed(r)' \subseteq Listed(r)
    BY <1>1, <2>1, <2>2 DEF Listed, Lists, Sound, Types, SweepTypes
  <2>3. QED  BY <1>1, <2>1, <2>2, ListingCharged DEF Covered
<1>4. ASSUME NEW q \in Recipients, SweepRecoverOne(p, q) PROVE Covered'
  <2>1. /\ RecoverRow(q)
        /\ q \in sStuck[p] /\ sStuck' = [sStuck EXCEPT ![p] = @ \ {q}]
    BY <1>4 DEF SweepRecoverOne
  <2>2. \A o \in Procs : stuck'[o] \subseteq stuck[o] /\ sStuck'[o] \subseteq sStuck[o]
    BY <1>1, <2>1 DEF Sound, Types, SweepTypes
  <2>3. Listed(q)' # Listed(q)
    <3>1. <<p, "sweeper">> \in Listed(q)
      BY <2>1 DEF Listed, Lists
    <3>2. q \notin sStuck'[p]
      BY <2>1 DEF Sound, Types, SweepTypes
    <3>3. <<p, "sweeper">> \notin Listed(q)'
      BY <3>2 DEF Listed
    <3>4. QED  BY <3>1, <3>3
  <2>4. QED  BY <1>1, <2>1, <2>2, <2>3, RecoverCharged DEF Covered
<1>5. QED  BY <1>2, <1>3, <1>4 DEF Sweep

\* Every step.
LEMMA CoveredKept ==
    ASSUME Sound, Clocks, InTime, Working, Covered, Sound', Clocks', [Next]_vars
    PROVE  Covered'
<1>1. Granted
  BY BudgetGrows
<1>2. ASSUME NEW p \in Procs, HandlerThrows(p) \/ SweepThrows(p) \/ Crash(p) PROVE Covered'
  <2>1. UNCHANGED <<state, attempts, wait>> /\ Fault
    BY <1>2 DEF HandlerThrows, SweepThrows, Crash, rowVars
  <2>2. \A q \in Procs : stuck'[q] \subseteq stuck[q] /\ sStuck'[q] \subseteq sStuck[q]
    <3>1. /\ stuck' = stuck \/ stuck' = [stuck EXCEPT ![p] = {}]
          /\ sStuck' = sStuck \/ sStuck' = [sStuck EXCEPT ![p] = {}]
      BY <1>2 DEF HandlerThrows, SweepThrows, SweepStep, Crash, Forget, sweepVars
    <3>2. QED  BY <3>1 DEF Sound, Types, HandlerTypes, SweepTypes
  <2>3. Budget + Most <= Budget'
    BY <2>1, BudgetGrows
  <2>4. QED  BY <1>1, <2>1, <2>2, <2>3, CoveredAlone
<1>3. ASSUME UNCHANGED <<attempts, claimed, seen, stuck, sStuck>>,
             \A r \in Recipients :
                /\ state'[r] = "attempting" => state[r] = "attempting"
                /\ state'[r] \in Active => state[r] \in Active
                /\ wait'[r] = wait[r] \/ Budget + 1 <= Budget'
      PROVE  Covered'
  <2> SUFFICES ASSUME NEW r \in Recipients PROVE Charged(r)'
    BY DEF Covered
  <2>1. Listed(r)' = Listed(r)
    BY <1>3 DEF Listed
  <2>2. Alive(r)' <=> Alive(r)
    BY <1>3 DEF Alive, InFlight
  <2>3. QED  BY <1>1, <1>3, <2>1, <2>2, ChargedAlone DEF Covered
<1>4. CASE Operator
  <2>1. UNCHANGED <<attempts, claimed, seen, stuck, sStuck>>
    BY <1>4 DEF Operator, AdminWrite, Cancel, Freeze, Thaw, ThawEnqueue, AdminRead, AdminNudge, AdminDelete,
       AdminBounce, Elsewhere, rowVars, handlerVars, sweepVars
  <2>2. \A r \in Recipients : /\ state'[r] = "attempting" => state[r] = "attempting"
                              /\ state'[r] \in Active => state[r] \in Active
    BY <1>4, OperatorRows
  <2>3. wait' = wait \/ \E a \in Admins : AdminNudge(a)
    BY <1>4, OperatorRows
  <2>4. (\E a \in Admins : AdminNudge(a)) => Budget + 1 <= Budget'
    BY BudgetGrows
  <2>5. QED  BY <1>3, <2>1, <2>2, <2>3, <2>4
<1>5. ASSUME NEW q \in Recipients, NEW hard \in BOOLEAN, SesBounce(q, hard) PROVE Covered'
  <2>1. UNCHANGED <<attempts, wait, claimed, seen, stuck, sStuck>>
    BY <1>5 DEF SesBounce, Elsewhere, handlerVars, sweepVars
  <2>2. \A r \in Recipients : state'[r] = state[r] \/ state'[r] = "bounced"
    BY <1>5 DEF SesBounce, Sound, Types, RowTypes
  <2>3. QED  BY <1>3, <2>1, <2>2 DEF Active
<1>6. CASE Tick
  <2>1. UNCHANGED <<state, attempts, claimed, seen, stuck, sStuck>>
    BY <1>6 DEF Tick
  <2>2. queueAge < MaxQueueAge => Budget + 1 <= Budget'
    BY <1>6, BudgetGrows
  <2>3. CASE queueAge < MaxQueueAge
    BY <1>3, <2>1, <2>2, <2>3
  <2>4. CASE ~(queueAge < MaxQueueAge)
    <3>1. \A r \in Recipients : state[r] \in Active => wait[r] = 0
      BY <2>4, OutboundAssumption DEF Clocks, InTime
    <3>2. \A r \in Recipients : wait'[r] = wait[r]
      BY <1>6, <3>1 DEF Tick
    <3>3. QED  BY <1>3, <2>1, <3>2
  <2>5. QED  BY <2>3, <2>4
<1>7. CASE UNCHANGED vars
  BY <1>3, <1>7 DEF vars, rowVars, handlerVars, sweepVars
<1>8. QED
  BY <1>1, <1>2, <1>4, <1>5, <1>6, <1>7, HandleCovered, SweepCovered DEF Next

\* The charges are covered at every time.
LEMMA CoveredAlways == ASSUME OneTransport PROVE Spec => [](Working /\ Covered)
<1> DEFINE Inv == Working /\ Covered
<1>1. Init => Inv
  <2> SUFFICES ASSUME Init PROVE Inv
    OBVIOUS
  <2>1. Working
    BY OutboundAssumption DEF Init, Working, Timed, Routed, InFlight, Unclaimed
  <2>2. ASSUME NEW r \in Recipients PROVE Charged(r)
    <3>1. Listed(r) = {}
      BY DEF Init, Listed, Lists
    <3>2. Cardinality(Listed(r)) = 0
      BY <3>1, FS_EmptySet
    <3>3. Asking = 0
      <4>1. Requests = {}
        BY DEF Init, Requests
      <4>2. QED  BY <4>1, FS_EmptySet DEF Asking
    <3>4. Budget = 0
      BY <3>3, ListsCounted DEF Init, Budget, Nudges
    <3>5. QED  BY <3>2, <3>4 DEF Init, Charged
  <2>3. QED  BY <2>1, <2>2 DEF Covered
<1>2. Sound /\ Sound' /\ Clocks /\ Clocks' /\ InTime /\ Inv /\ [Next]_vars => Inv'
  <2> SUFFICES ASSUME Sound, Sound', Clocks, Clocks', InTime, Inv, [Next]_vars PROVE Inv'
    OBVIOUS
  <2>1. Working'
    BY WorkingKept DEF Sound
  <2>2. QED  BY <2>1, CoveredKept
<1>3. QED  BY <1>1, <1>2, SoundAlways, ClocksAlways, PTL DEF Spec

\* A recipient is attempted once, once more for each tick of the clock while the message
\* is in the queue and for each action of an operator, and twice for each process for
\* a failure.
AttemptsBounded ==
    \A r \in Recipients :
        attempts[r] <= 1 + queueAge + adminCount + 2 * Cardinality(Procs) * faults

\* However claims, recoveries, sweeps, outcomes, retries by hand, crashes and lost replies
\* interleave, no recipient is hammered: attempts are bounded by the time in the queue,
\* the operators' actions and the failures, where one transport serves the group (begin's
\* due check, recovery's lease, the guard of the outcome transaction).
THEOREM AttemptsAreBounded ==
    ASSUME OneTransport
    PROVE  Spec => []AttemptsBounded
<1>1. Sound /\ Clocks /\ Covered => AttemptsBounded
  <2> SUFFICES ASSUME Sound, Clocks, Covered, NEW r \in Recipients
               PROVE  attempts[r] <= 1 + queueAge + adminCount + 2 * Cardinality(Procs) * faults
    BY DEF AttemptsBounded
  <2>1. adminCount \in Nat /\ queueAge \in Nat /\ faults \in Nat /\ attempts[r] \in Nat
    BY OutboundAssumption DEF Clocks, Sound, Types, RowTypes, OtherTypes
  <2>2. Cardinality(Listed(r)) \in Nat
    BY ListedCounted DEF Listed
  <2>3. attempts[r] + Cardinality(Listed(r)) <= Budget + 1
    BY DEF Covered, Charged
  <2>4. Nudges \in Int /\ Nudges <= adminCount
    BY <2>1, RequestsCounted DEF Nudges
  <2>5. Budget = queueAge + Nudges + 2 * Cardinality(Procs) * faults
    BY ListsCounted DEF Budget
  <2>6. 2 * Cardinality(Procs) * faults \in Nat
    BY <2>1, ListsCounted
  <2>7. QED  BY <2>1, <2>2, <2>3, <2>4, <2>5, <2>6
<1>2. Spec => [](Working /\ Covered)
  BY CoveredAlways
<1>3. QED  BY <1>1, <1>2, SoundAlways, ClocksAlways, PTL

-----------------------------------------------------------------------------
\* Ages.

\* Ages stop just past the lease, and attempts are numbered from 1 on.
Dated ==
    \A r \in Recipients : /\ age[r] <= Lease + 1
                          /\ open[r] \subseteq (1..attempts[r]) \X (0..(Lease + 1))

\* A step that begins no attempt and is not the clock's.
LEMMA DatedAlone ==
    ASSUME Sound, Dated, UNCHANGED attempts,
           \A r \in Recipients : age'[r] <= age[r] /\ open'[r] \subseteq open[r],
           Types'
    PROVE  Dated'
<1> SUFFICES ASSUME NEW r \in Recipients
             PROVE  /\ age'[r] <= Lease + 1
                    /\ open'[r] \subseteq (1..attempts'[r]) \X (0..(Lease + 1))
  BY DEF Dated
<1>1. age[r] \in Nat /\ age'[r] \in Nat /\ age'[r] <= age[r] /\ age[r] <= Lease + 1
  BY DEF Sound, Types, RowTypes, Dated
<1>2. QED  BY <1>1, JobTableAssumption DEF Dated

\* recoverInterrupted's update.
LEMMA RecoverDated ==
    ASSUME Sound, Types', Dated, NEW q \in Recipients, RecoverRow(q)
    PROVE  Dated'
<1>1. \A r \in Recipients : open'[r] \subseteq open[r]
  BY DEF RecoverRow, rowVars, Sound, Types, RowTypes
<1>2. QED  BY <1>1, RecoverYounger, DatedAlone

\* Every step.
LEMMA DatedKept ==
    ASSUME Sound, Types', Dated, [Next]_vars
    PROVE  Dated'
<1>1. \A r \in Recipients : age[r] <= age[r] /\ 0 <= age[r]
  BY DEF Sound, Types, RowTypes
<1>2. CASE UNCHANGED <<attempts, age, open>>
  BY <1>1, <1>2, DatedAlone
<1>3. ASSUME NEW p \in Procs, Handle(p) PROVE Dated'
  <2>1. CASE \/ (\E k \in Keys : ClaimJob(p, k)) \/ Recover(p) \/ Load(p) \/ BeginNothing(p)
             \/ TransportReturns(p) \/ BatchDone(p) \/ CompleteJob(p)
    BY <1>2, <2>1 DEF ClaimJob, Recover, Load, BeginNothing, TransportReturns, BatchDone,
       CompleteJob, rowVars
  <2>2. CASE \E q \in Recipients : RecoverOne(p, q)
    BY <2>2, RecoverDated DEF RecoverOne
  <2>3. CASE Begin(p)
    <3> SUFFICES ASSUME NEW r \in Recipients
                 PROVE  /\ age'[r] <= Lease + 1
                        /\ open'[r] \subseteq (1..attempts'[r]) \X (0..(Lease + 1))
      BY DEF Dated
    <3>1. attempts[r] \in Nat
      BY DEF Sound, Types, RowTypes
    <3>2. CASE r \in Due
      <4>1. /\ age'[r] = 0 /\ attempts'[r] = attempts[r] + 1
            /\ open'[r] = open[r] \cup {<<attempts[r] + 1, 0>>}
        BY <2>3, <3>2 DEF Begin
      <4>2. 1..attempts[r] \subseteq 1..attempts'[r] /\ attempts[r] + 1 \in 1..attempts'[r]
        BY <3>1, <4>1
      <4>3. 0 \in 0..(Lease + 1) /\ 0 <= Lease + 1
        BY JobTableAssumption
      <4>4. QED  BY <4>1, <4>2, <4>3 DEF Dated
    <3>3. CASE r \notin Due
      BY <2>3, <3>3 DEF Begin, Dated
    <3>4. QED  BY <3>2, <3>3
  <2>4. CASE Commit(p)
    <3>1. \A r \in Recipients : age'[r] <= age[r]
      BY <1>1, <2>4 DEF Commit
    <3>2. \A r \in Recipients : open'[r] \subseteq open[r]
      BY <2>4 DEF Commit
    <3>3. QED  BY <2>4, <3>1, <3>2, DatedAlone DEF Commit
  <2>5. CASE HandlerDsn(p)
    <3>1. \A r \in Recipients : age'[r] <= age[r]
      BY <2>5, EmitYounger DEF HandlerDsn, Sound, Types, HandlerTypes
    <3>2. QED  BY <2>5, <3>1, DatedAlone DEF HandlerDsn
  <2>6. QED  BY <1>3, <2>1, <2>2, <2>3, <2>4, <2>5 DEF Handle
<1>4. ASSUME NEW p \in Procs, Sweep(p) PROVE Dated'
  <2>1. CASE SweepRecover(p) \/ SweepOrphans(p) \/ SweepReschedule(p) \/ SweepUnsent(p)
    BY <1>2, <2>1 DEF SweepRecover, SweepOrphans, SweepReschedule, SweepUnsent, rowVars
  <2>2. CASE \E q \in Recipients : SweepRecoverOne(p, q)
    BY <2>2, RecoverDated DEF SweepRecoverOne
  <2>3. CASE SweepDsn(p)
    <3>1. \A r \in Recipients : age'[r] <= age[r]
      BY <2>3, EmitYounger DEF SweepDsn, Sound, Types, SweepTypes
    <3>2. QED  BY <2>3, <3>1, DatedAlone DEF SweepDsn
  <2>4. QED  BY <1>4, <2>1, <2>2, <2>3 DEF Sweep
<1>5. ASSUME NEW p \in Procs, HandlerThrows(p) \/ SweepThrows(p) \/ Crash(p) PROVE Dated'
  BY <1>2, <1>5 DEF HandlerThrows, SweepThrows, Crash, rowVars
<1>6. CASE Operator
  <2>1. UNCHANGED <<attempts, open>>
    BY <1>6 DEF Operator, AdminWrite, Cancel, Freeze, Thaw, ThawEnqueue, AdminRead, AdminNudge, AdminDelete,
       AdminBounce, rowVars
  <2>2. \A r \in Recipients : age'[r] = age[r] \/ age'[r] = 0
    BY <1>6, OperatorRows
  <2>3. \A r \in Recipients : age'[r] <= age[r]
    BY <1>1, <2>2
  <2>4. QED  BY <2>1, <2>3, DatedAlone
<1>7. ASSUME NEW q \in Recipients, NEW hard \in BOOLEAN, SesBounce(q, hard) PROVE Dated'
  <2>1. \A r \in Recipients : age'[r] <= age[r]
    BY <1>1, <1>7 DEF SesBounce, Sound, Types, RowTypes
  <2>2. QED  BY <1>7, <2>1, DatedAlone DEF SesBounce
<1>8. CASE Tick
  <2> SUFFICES ASSUME NEW r \in Recipients
               PROVE  /\ age'[r] <= Lease + 1
                      /\ open'[r] \subseteq (1..attempts'[r]) \X (0..(Lease + 1))
    BY DEF Dated
  <2>1. /\ age'[r] = IF state[r] \in {"attempting", "bounced"} /\ age[r] <= Lease
                     THEN age[r] + 1 ELSE age[r]
        /\ open'[r] = {<<a[1], IF a[2] <= Lease THEN a[2] + 1 ELSE a[2]>> : a \in open[r]}
        /\ attempts' = attempts
    BY <1>8 DEF Tick
  <2>2. age[r] \in Nat /\ age[r] <= Lease + 1
    BY DEF Sound, Types, RowTypes, Dated
  <2>3. age'[r] <= Lease + 1
    BY <2>1, <2>2, JobTableAssumption
  <2>4. ASSUME NEW a \in open[r]
        PROVE  <<a[1], IF a[2] <= Lease THEN a[2] + 1 ELSE a[2]>>
                  \in (1..attempts[r]) \X (0..(Lease + 1))
    <3>1. a[1] \in 1..attempts[r] /\ a[2] \in 0..(Lease + 1)
      BY DEF Dated
    <3>2. (IF a[2] <= Lease THEN a[2] + 1 ELSE a[2]) \in 0..(Lease + 1)
      BY <3>1, JobTableAssumption
    <3>3. QED  BY <3>1, <3>2
  <2>5. QED  BY <2>1, <2>3, <2>4
<1>9. CASE UNCHANGED vars
  BY <1>2, <1>9 DEF vars, rowVars
<1>10. QED  BY <1>3, <1>4, <1>5, <1>6, <1>7, <1>8, <1>9 DEF Next

-----------------------------------------------------------------------------
\* Jobs.

Sweeps == {"idle", "recovering", "orphans", "reschedule", "unsent", "emitting"}

\* The rows of the group's jobs; a job with a key of its own is dropped when it is done.
JobTypes ==
    /\ jobs = [k \in Keys |-> jobs[k]]
    /\ \A k \in Keys : jobs[k].lockedBy \in Procs \cup {NoOne}
    /\ \A k \in Extras : jobs[k].status \in {"absent", "pending", "running"}

LiveExtras == {k \in Extras : jobs[k].status # "absent"}

\* One row of the table changes.
LEMMA RowChanges ==
    ASSUME JobTypes, NEW k, NEW row, jobs' = [jobs EXCEPT ![k] = row],
           k \in Keys => row.lockedBy \in Procs \cup {NoOne},
           k \in Extras => row.status \in {"absent", "pending", "running"}
    PROVE  /\ JobTypes'
           /\ LiveExtras' \subseteq LiveExtras \cup {k}
           /\ k \notin Extras \/ jobs[k].status # "absent" => LiveExtras' \subseteq LiveExtras
<1>1. Extras \subseteq Keys
  BY DEF Keys
<1>2. jobs' = [j \in Keys |-> IF j = k THEN row ELSE jobs[j]]
  BY DEF JobTypes
<1>3. JobTypes'
  BY <1>1, <1>2 DEF JobTypes
<1>4. QED  BY <1>1, <1>2, <1>3 DEF LiveExtras

\* enqueue, of any key.
LEMMA EnqueueChanges ==
    ASSUME JobTypes, NEW key, NEW delay, jobs' = jobs \/ jobs' = Enqueue(key, delay)
    PROVE  JobTypes' /\ LiveExtras' \subseteq LiveExtras \cup {key}
<1>1. CASE jobs' = jobs
  BY <1>1 DEF JobTypes, LiveExtras
<1>2. CASE jobs' = Enqueue(key, delay)
  <2> DEFINE row == IF jobs[key].status = "absent" THEN NewRow(delay) ELSE jobs[key]
  <2>1. jobs' = [jobs EXCEPT ![key] = row]
    BY <1>2 DEF Enqueue
  <2>2. NewRow(delay).lockedBy = NoOne /\ NewRow(delay).status = "pending"
    BY DEF NewRow, Row
  <2>3. key \in Keys => row.lockedBy \in Procs \cup {NoOne}
    BY <2>2 DEF JobTypes
  <2>4. key \in Extras => row.status \in {"absent", "pending", "running"}
    BY <2>2 DEF JobTypes
  <2> HIDE DEF row
  <2>5. QED  BY <2>1, <2>3, <2>4, RowChanges
<1>3. QED  BY <1>1, <1>2

\* scheduleNext without a key: a generation's.
LEMMA GenerationChanges ==
    ASSUME JobTypes, NEW st, NEW wt, NEW n, jobs' = ScheduleNext(st, wt, <<"gen", n>>)
    PROVE  JobTypes' /\ LiveExtras' \subseteq LiveExtras
<1>1. \E d : jobs' = jobs \/ jobs' = Enqueue(<<"gen", n>>, d)
  BY DEF ScheduleNext
<1>2. JobTypes' /\ LiveExtras' \subseteq LiveExtras \cup {<<"gen", n>>}
  BY <1>1, EnqueueChanges
<1>3. <<"gen", n>> \notin Extras
  BY DEF Extras
<1>4. QED  BY <1>2, <1>3 DEF LiveExtras

\* claim, complete and fail.
LEMMA HandlerJobs ==
    ASSUME JobTypes, NEW p \in Procs,
           (\E k \in Keys : ClaimJob(p, k)) \/ CompleteJob(p) \/ HandlerThrows(p)
    PROVE  JobTypes' /\ LiveExtras' \subseteq LiveExtras
<1>1. ASSUME NEW k \in Keys, ClaimJob(p, k) PROVE JobTypes' /\ LiveExtras' \subseteq LiveExtras
  <2>1. jobs[k].status # "absent" /\ jobs' = [jobs EXCEPT ![k] = Claimed(jobs[k], p)]
    BY <1>1 DEF ClaimJob, Claimable, Stale
  <2>2. Claimed(jobs[k], p).lockedBy = p /\ Claimed(jobs[k], p).status = "running"
    BY DEF Claimed, Row
  <2>3. QED  BY <2>1, <2>2, RowChanges
<1>2. CASE CompleteJob(p)
  <2> DEFINE k == job[p]
             row == Settled(k, Completed(jobs[k], p))
  <2>1. jobs' = [jobs EXCEPT ![k] = row]
    BY <1>2 DEF CompleteJob
  <2>2. k \in Keys => row.lockedBy \in Procs \cup {NoOne}
    BY DEF JobTypes, Settled, Completed, NoRow, Row
  <2>3. k \in Extras => row.status \in {"absent", "pending", "running"}
    BY DEF JobTypes, Settled, Completed, NoRow, Row
  <2>4. k \in Extras /\ jobs[k].status = "absent" => row.status = "absent"
    BY DEF Settled, Completed, Held
  <2> HIDE DEF row
  <2>5. /\ JobTypes'
        /\ k \notin Extras \/ jobs[k].status # "absent" => LiveExtras' \subseteq LiveExtras
    BY <2>1, <2>2, <2>3, RowChanges
  <2>6. CASE k \in Extras /\ jobs[k].status = "absent"
    <3>1. \A j \in Extras : jobs'[j].status = "absent" <=> jobs[j].status = "absent"
      BY <2>1, <2>4, <2>6 DEF JobTypes, Keys
    <3>2. QED  BY <2>5, <3>1 DEF LiveExtras
  <2>7. QED  BY <2>5, <2>6
<1>3. CASE HandlerThrows(p)
  <2> DEFINE k == job[p]
  <2>1. PICK delay : jobs' = [jobs EXCEPT ![k] = Failed(jobs[k], p, FALSE, delay)]
    BY <1>3 DEF HandlerThrows
  <2> DEFINE row == Failed(jobs[k], p, FALSE, delay)
  <2>2. k \in Keys => row.lockedBy \in Procs \cup {NoOne}
    BY DEF JobTypes, Failed, Row
  <2>3. k \in Extras => row.status \in {"absent", "pending", "running"}
    BY DEF JobTypes, Failed, Row
  <2>4. k \in Extras /\ jobs[k].status = "absent" => row.status = "absent"
    BY DEF Failed, Held
  <2> HIDE DEF row
  <2>5. /\ JobTypes'
        /\ k \notin Extras \/ jobs[k].status # "absent" => LiveExtras' \subseteq LiveExtras
    BY <2>1, <2>2, <2>3, RowChanges DEF row
  <2>6. CASE k \in Extras /\ jobs[k].status = "absent"
    <3>1. \A j \in Extras : jobs'[j].status = "absent" <=> jobs[j].status = "absent"
      BY <2>1, <2>4, <2>6 DEF JobTypes, Keys, row
    <3>2. QED  BY <2>5, <3>1 DEF LiveExtras
  <2>7. QED  BY <2>5, <2>6
<1>4. QED  BY <1>1, <1>2, <1>3

\* Sweepers about to put a job of their own in line.
Rescheduling == {p \in Procs : spc[p] = "reschedule"}

Count(b) == IF b THEN 1 ELSE 0

\* Keys of their own are taken by live jobs, or will be by sweepers, by the operators'
\* requests under way and by the thaw that a freeze leads to.  A sweeper that finds no live
\* job has found none of these: so they are at most one to a process, and one to each
\* action and each freeze.
Keyed ==
    /\ JobTypes
    /\ spc \in [Procs -> Sweeps]
    /\ frozen \in BOOLEAN /\ thawing \in BOOLEAN
    /\ Asking <= adminCount
    /\ Count(frozen) + Count(thawing) <= freezes
    /\ Cardinality(LiveExtras) + Cardinality(Rescheduling) + Asking
          + Count(frozen) + Count(thawing) <= Cardinality(Procs) + adminCount + freezes

\* There are as many keys of their own as the bound says.
LEMMA ExtrasCounted == IsFiniteSet(Extras) /\ Cardinality(Extras) = MaxExtra
<1> DEFINE f == [n \in 1..MaxExtra |-> <<"extra", n>>]
<1>1. f \in Bijection(1..MaxExtra, Extras)
  <2>1. f \in [1..MaxExtra -> Extras]
    BY DEF Extras
  <2>2. \A m, n \in 1..MaxExtra : f[m] = f[n] => m = n
    OBVIOUS
  <2>3. \A k \in Extras : \E n \in 1..MaxExtra : f[n] = k
    BY DEF Extras
  <2>4. f \in Injection(1..MaxExtra, Extras)
    BY <2>1, <2>2 DEF Injection, IsInjective
  <2>5. f \in Surjection(1..MaxExtra, Extras)
    BY <2>1, <2>3 DEF Surjection
  <2>6. QED  BY <2>4, <2>5 DEF Bijection
<1>2. ExistsBijection(1..MaxExtra, Extras)
  BY <1>1 DEF ExistsBijection
<1>3. IsFiniteSet(1..MaxExtra) /\ Cardinality(1..MaxExtra) = MaxExtra
  <2>1. MaxExtra \in Nat
    BY OutboundAssumption
  <2>2. QED  BY <2>1, FS_Interval
<1>4. QED  BY <1>2, <1>3, FS_Bijection

\* Sets of keys: fewer have no more, and a key more makes one more.
LEMMA LiveExtrasCounted ==
    ASSUME NEW S \in SUBSET Extras
    PROVE  /\ IsFiniteSet(S) /\ Cardinality(S) \in Nat
           /\ \A T : T \subseteq S => Cardinality(T) \in Nat /\ Cardinality(T) <= Cardinality(S)
           /\ \A T, k : T \in SUBSET Extras /\ T \subseteq S \cup {k} =>
                 Cardinality(T) \in Nat /\ Cardinality(T) <= Cardinality(S) + 1
<1>1. IsFiniteSet(S)
  BY ExtrasCounted, FS_Subset
<1>2. Cardinality(S) \in Nat
  BY <1>1, FS_CardinalityType
<1>3. ASSUME NEW T, T \subseteq S
      PROVE  Cardinality(T) \in Nat /\ Cardinality(T) <= Cardinality(S)
  <2>1. IsFiniteSet(T) /\ Cardinality(T) <= Cardinality(S)
    BY <1>1, <1>3, FS_Subset
  <2>2. QED  BY <2>1, FS_CardinalityType
<1>4. ASSUME NEW T, NEW k, T \subseteq S \cup {k}
      PROVE  Cardinality(T) \in Nat /\ Cardinality(T) <= Cardinality(S) + 1
  <2>1. IsFiniteSet(S \cup {k}) /\ Cardinality(S \cup {k}) <= Cardinality(S) + 1
    <3>1. /\ IsFiniteSet(S \cup {k})
          /\ Cardinality(S \cup {k}) = IF k \in S THEN Cardinality(S) ELSE Cardinality(S) + 1
      BY <1>1, FS_AddElement, Zenon
    <3>2. QED  BY <1>2, <3>1
  <2>2. IsFiniteSet(T) /\ Cardinality(T) <= Cardinality(S \cup {k})
    BY <1>4, <2>1, FS_Subset
  <2>3. Cardinality(T) \in Nat /\ Cardinality(S \cup {k}) \in Nat
    BY <2>1, <2>2, FS_CardinalityType
  <2>4. QED  BY <1>2, <2>1, <2>2, <2>3
<1>5. QED  BY <1>1, <1>2, <1>3, <1>4

\* Sets of processes: fewer have less.
LEMMA SweepersCounted ==
    ASSUME NEW S \in SUBSET Procs
    PROVE  /\ Cardinality(S) \in Nat /\ Cardinality(Procs) \in Nat
           /\ Cardinality(S) <= Cardinality(Procs)
           /\ \A T : T \subseteq S =>
                 /\ Cardinality(T) \in Nat /\ Cardinality(T) <= Cardinality(S)
                 /\ T # S => Cardinality(T) < Cardinality(S)
<1>1. IsFiniteSet(Procs)
  BY OutboundAssumption
<1>2. IsFiniteSet(S) /\ Cardinality(S) <= Cardinality(Procs)
  BY <1>1, FS_Subset
<1>3. Cardinality(S) \in Nat /\ Cardinality(Procs) \in Nat
  BY <1>1, <1>2, FS_CardinalityType
<1>4. ASSUME NEW T, T \subseteq S
      PROVE  /\ Cardinality(T) \in Nat /\ Cardinality(T) <= Cardinality(S)
             /\ T # S => Cardinality(T) < Cardinality(S)
  <2>1. /\ IsFiniteSet(T) /\ Cardinality(T) <= Cardinality(S)
        /\ Cardinality(S) = Cardinality(T) => S = T
    BY <1>2, <1>4, FS_Subset
  <2>2. Cardinality(T) \in Nat
    BY <2>1, FS_CardinalityType
  <2>3. QED  BY <1>3, <2>1, <2>2
<1>5. QED  BY <1>2, <1>3, <1>4

\* A step that takes no key and promises none.
LEMMA KeyedAlone ==
    ASSUME Keyed, Clocks, JobTypes', spc' \in [Procs -> Sweeps],
           UNCHANGED <<admin, adminCount, frozen, thawing, freezes>>,
           LiveExtras' \subseteq LiveExtras, Rescheduling' \subseteq Rescheduling
    PROVE  Keyed'
<1> DEFINE e == Cardinality(LiveExtras)
           s == Cardinality(Rescheduling)
<1>1. e \in Nat /\ e' \in Nat /\ e' <= e
  BY LiveExtrasCounted DEF LiveExtras
<1>2. s \in Nat /\ s' \in Nat /\ s' <= s /\ Cardinality(Procs) \in Nat
  BY SweepersCounted DEF Rescheduling
<1>3. adminCount \in Nat /\ freezes \in Nat
  BY OutboundAssumption DEF Clocks
<1>4. /\ Asking \in Nat /\ Count(frozen) \in Nat /\ Count(thawing) \in Nat
      /\ Asking' = Asking
      /\ Count(frozen)' = Count(frozen) /\ Count(thawing)' = Count(thawing)
  BY RequestsCounted DEF Count
<1>5. e + s + Asking + Count(frozen) + Count(thawing)
        <= Cardinality(Procs) + adminCount + freezes
  BY DEF Keyed
<1>6. e' + s' + Asking + Count(frozen) + Count(thawing)
        <= Cardinality(Procs) + adminCount + freezes
  <2> HIDE DEF e, s
  <2>1. QED  BY <1>1, <1>2, <1>3, <1>4, <1>5
<1>7. QED  BY <1>4, <1>6 DEF Keyed

\* An operator's step takes a key that was promised, or promises one for its count.
LEMMA KeyedOperator ==
    ASSUME Sound, Keyed, Clocks, Operator
    PROVE  Keyed'
<1> DEFINE e == Cardinality(LiveExtras)
           s == Cardinality(Rescheduling)
<1>1. spc' = spc
  BY DEF Operator, AdminWrite, Cancel, Freeze, Thaw, ThawEnqueue, AdminRead, AdminNudge, AdminDelete, AdminBounce,
     Elsewhere, sweepVars
<1>2. s' = s /\ s \in Nat /\ Cardinality(Procs) \in Nat
  BY <1>1, SweepersCounted DEF Rescheduling
<1>3. adminCount \in Nat /\ freezes \in Nat /\ frozen \in BOOLEAN /\ thawing \in BOOLEAN
  BY OutboundAssumption DEF Clocks, Keyed
<1>4. /\ Asking <= adminCount
      /\ Count(frozen) + Count(thawing) <= freezes
      /\ e + s + Asking + Count(frozen) + Count(thawing)
           <= Cardinality(Procs) + adminCount + freezes
  BY DEF Keyed
<1>5. e \in Nat /\ e' \in Nat
  BY LiveExtrasCounted DEF LiveExtras
<1>6. ASSUME JobTypes', frozen' \in BOOLEAN, thawing' \in BOOLEAN,
             /\ Asking' <= adminCount'
             /\ Count(frozen)' + Count(thawing)' <= freezes'
             /\ e' + s + Asking' + Count(frozen)' + Count(thawing)'
                  <= Cardinality(Procs) + adminCount' + freezes'
      PROVE  Keyed'
  BY <1>1, <1>2, <1>6 DEF Keyed
<1>7. ASSUME ThawEnqueue
      PROVE  /\ thawing = TRUE /\ thawing' = FALSE
             /\ UNCHANGED <<admin, adminCount, frozen, freezes>>
  BY <1>3, <1>7 DEF ThawEnqueue
<1>8. CASE UNCHANGED jobs
  <2>1. JobTypes' /\ e' = e
    BY <1>8 DEF Keyed, JobTypes, LiveExtras
  <2> HIDE DEF e, s
  <2>2. CASE Freeze
    <3>1. /\ frozen = FALSE /\ frozen' = TRUE /\ freezes' = freezes + 1
          /\ UNCHANGED <<admin, adminCount, thawing>>
      BY <1>3, <2>2 DEF Freeze
    <3>2. QED  BY <1>2, <1>3, <1>4, <1>5, <1>6, <2>1, <3>1, RequestsCounted DEF Count
  <2>3. CASE Thaw
    <3>1. /\ frozen = TRUE /\ frozen' = FALSE /\ thawing = FALSE /\ thawing' = TRUE
          /\ UNCHANGED <<admin, adminCount, freezes>>
      BY <1>3, <2>3 DEF Thaw
    <3>2. /\ Count(frozen) = 1 /\ Count(thawing) = 0 /\ Count(frozen)' = 0
          /\ Count(thawing)' = 1 /\ Asking' = Asking
          /\ Asking \in Nat
      BY <3>1, RequestsCounted DEF Count
    <3>3. /\ Asking' <= adminCount'
          /\ Count(frozen)' + Count(thawing)' <= freezes'
          /\ e' + s + Asking' + Count(frozen)' + Count(thawing)'
                <= Cardinality(Procs) + adminCount' + freezes'
      BY <1>2, <1>3, <1>4, <1>5, <2>1, <3>1, <3>2
    <3>4. QED  BY <1>6, <2>1, <3>1, <3>3
  <2>4. CASE ThawEnqueue
    BY <1>2, <1>3, <1>4, <1>5, <1>6, <1>7, <2>1, <2>4, RequestsCounted DEF Count
  <2>5. ASSUME NEW a \in Admins, NEW op \in AdminOps, AdminRead(a, op) PROVE Keyed'
    <3>1. /\ Asking' = Asking + 1 /\ adminCount' = adminCount + 1
          /\ UNCHANGED <<frozen, thawing, freezes>>
      BY <2>5, RequestBegins DEF AdminRead, Sound
    <3>2. QED  BY <1>2, <1>3, <1>4, <1>5, <1>6, <2>1, <3>1, RequestsCounted DEF Count
  <2>6. ASSUME NEW a \in Admins, AdminWrite(a) PROVE Keyed'
    <3>1. Asking' = Asking - 1 /\ UNCHANGED <<adminCount, frozen, thawing, freezes>>
      BY <2>6, RequestEnds DEF AdminWrite, AdminNudge, AdminDelete, AdminBounce, Sound
    <3>2. QED  BY <1>2, <1>3, <1>4, <1>5, <1>6, <2>1, <3>1, RequestsCounted DEF Count
  <2>7. ASSUME NEW r \in Recipients, Cancel(r) PROVE Keyed'
    <3>1. UNCHANGED <<admin, adminCount, frozen, thawing, freezes>>
      BY <2>7 DEF Cancel, operatorVars
    <3>2. QED  BY <1>2, <1>3, <1>4, <1>5, <1>6, <2>1, <3>1, RequestsCounted DEF Count
  <2>8. QED  BY <2>2, <2>3, <2>4, <2>5, <2>6, <2>7 DEF Operator
<1>9. CASE ~UNCHANGED jobs
  <2>1. ThawEnqueue \/ \E a \in Admins : AdminNudge(a)
    BY <1>9 DEF Operator, AdminWrite, Cancel, Freeze, Thaw, AdminRead, AdminDelete, AdminBounce
  <2>2. jobs' = Enqueue(<<"extra", FreshKey>>, 0)
    BY <1>9, <2>1 DEF AdminNudge, ThawEnqueue
  <2>3. JobTypes' /\ LiveExtras' \subseteq LiveExtras \cup {<<"extra", FreshKey>>}
    BY <2>2, EnqueueChanges DEF Keyed
  <2>4. e' <= e + 1
    BY <2>3, LiveExtrasCounted DEF LiveExtras
  <2> HIDE DEF e, s
  <2>5. CASE ThawEnqueue
    BY <1>2, <1>3, <1>4, <1>5, <1>6, <1>7, <2>3, <2>4, <2>5, RequestsCounted DEF Count
  <2>6. ASSUME NEW a \in Admins, AdminNudge(a) PROVE Keyed'
    <3>1. Asking' = Asking - 1 /\ UNCHANGED <<adminCount, frozen, thawing, freezes>>
      BY <2>6, RequestEnds DEF AdminWrite, AdminNudge, Sound
    <3>2. QED
      BY <1>2, <1>3, <1>4, <1>5, <1>6, <2>3, <2>4, <3>1, RequestsCounted DEF Count
  <2>7. QED  BY <2>1, <2>5, <2>6
<1>10. QED  BY <1>8, <1>9

\* Every step.
LEMMA KeyedKept ==
    ASSUME Sound, Keyed, Clocks, [Next]_vars
    PROVE  Keyed'
<1>1. ASSUME UNCHANGED <<jobs, admin, adminCount, frozen, thawing, freezes>>,
             spc' \in [Procs -> Sweeps], Rescheduling' \subseteq Rescheduling
      PROVE  Keyed'
  <2>1. JobTypes' /\ LiveExtras' = LiveExtras
    BY <1>1 DEF Keyed, JobTypes, LiveExtras
  <2>2. QED  BY <1>1, <2>1, KeyedAlone
<1>2. ASSUME spc' = spc PROVE spc' \in [Procs -> Sweeps] /\ Rescheduling' = Rescheduling
  BY <1>2 DEF Keyed, Rescheduling
<1>3. ASSUME NEW p \in Procs, Handle(p) PROVE Keyed'
  <2>1. UNCHANGED <<admin, adminCount, frozen, thawing, freezes, spc>>
    BY <1>3 DEF Handle, ClaimJob, Recover, RecoverOne, Load, Begin, BeginNothing,
       TransportReturns, Commit, HandlerDsn, BatchDone, CompleteJob, operatorVars, sweepVars
  <2>2. CASE \/ Recover(p) \/ (\E r \in Recipients : RecoverOne(p, r)) \/ Load(p) \/ Begin(p)
             \/ TransportReturns(p) \/ HandlerDsn(p) \/ BatchDone(p)
    <3>1. jobs' = jobs
      BY <2>2 DEF Recover, RecoverOne, Load, Begin, TransportReturns, HandlerDsn, BatchDone
    <3>2. QED  BY <1>1, <1>2, <2>1, <3>1
  <2>3. CASE (\E k \in Keys : ClaimJob(p, k)) \/ CompleteJob(p)
    <3>1. JobTypes' /\ LiveExtras' \subseteq LiveExtras
      BY <2>3, HandlerJobs DEF Keyed
    <3>2. QED  BY <1>2, <2>1, <3>1, KeyedAlone
  <2>4. CASE BeginNothing(p) \/ Commit(p)
    <3>1. \E st, wt, n : jobs' = ScheduleNext(st, wt, <<"gen", n>>)
      BY <2>4 DEF BeginNothing, Commit, Generation
    <3>2. JobTypes' /\ LiveExtras' \subseteq LiveExtras
      BY <3>1, GenerationChanges DEF Keyed
    <3>3. QED  BY <1>2, <2>1, <3>2, KeyedAlone
  <2>5. QED  BY <1>3, <2>2, <2>3, <2>4 DEF Handle
<1>4. ASSUME NEW p \in Procs, Sweep(p) PROVE Keyed'
  <2>1. UNCHANGED <<admin, adminCount, frozen, thawing, freezes>>
    BY <1>4 DEF Sweep, SweepRecover, SweepRecoverOne, SweepOrphans, SweepReschedule,
       SweepUnsent, SweepDsn, SweepStep, operatorVars
  <2>2. ASSUME NEW next \in Sweeps, SweepStep(p, next)
        PROVE  /\ spc' = [spc EXCEPT ![p] = next] /\ spc' \in [Procs -> Sweeps]
               /\ next # "reschedule" => Rescheduling' = Rescheduling \ {p}
    BY <2>2 DEF SweepStep, Keyed, Rescheduling
  <2>3. CASE \/ SweepRecover(p) \/ (\E r \in Recipients : SweepRecoverOne(p, r))
             \/ SweepUnsent(p) \/ SweepDsn(p)
    <3>1. jobs' = jobs /\ \E next \in Sweeps \ {"reschedule"} : SweepStep(p, next)
      BY <2>3 DEF SweepRecover, SweepRecoverOne, SweepUnsent, SweepDsn, Sweeps
    <3>2. QED  BY <1>1, <2>1, <2>2, <3>1
  <2>4. CASE SweepOrphans(p)
    <3>1. /\ jobs' = jobs
          /\ \/ SweepStep(p, "unsent")
             \/ ~LiveJob /\ SweepStep(p, "reschedule")
      BY <2>4 DEF SweepOrphans
    <3>2. CASE SweepStep(p, "unsent")
      BY <1>1, <2>1, <2>2, <3>1, <3>2 DEF Sweeps
    <3>3. CASE ~LiveJob /\ SweepStep(p, "reschedule")
      <4>1. spc' \in [Procs -> Sweeps]
        BY <2>2, <3>3 DEF Sweeps
      <4>2. JobTypes'
        BY <3>1 DEF Keyed, JobTypes
      <4>3. LiveExtras' = {}
        BY <3>1, <3>3 DEF LiveExtras, LiveJob, Keyed, JobTypes, Keys
      <4>4. Cardinality(LiveExtras)' = 0
        BY <4>3, FS_EmptySet
      <4>5. /\ Cardinality(Rescheduling)' \in Nat /\ Cardinality(Procs) \in Nat
            /\ Cardinality(Rescheduling)' <= Cardinality(Procs)
        BY SweepersCounted DEF Rescheduling
      <4>6. adminCount \in Nat /\ freezes \in Nat
        BY OutboundAssumption DEF Clocks
      <4>7. /\ Asking' = Asking
            /\ Count(frozen)' = Count(frozen) /\ Count(thawing)' = Count(thawing)
            /\ Asking \in Nat /\ Count(frozen) \in Nat
            /\ Count(thawing) \in Nat
        BY <2>1, RequestsCounted DEF Count
      <4>8. QED  BY <2>1, <4>1, <4>2, <4>4, <4>5, <4>6, <4>7 DEF Keyed
    <3>4. QED  BY <3>1, <3>2, <3>3
  <2>5. CASE SweepReschedule(p)
    <3> DEFINE e == Cardinality(LiveExtras)
               s == Cardinality(Rescheduling)
    <3>1. /\ \E key, d : jobs' = jobs \/ jobs' = Enqueue(key, d)
          /\ spc[p] = "reschedule" /\ SweepStep(p, "unsent")
      BY <2>5 DEF SweepReschedule, ScheduleNext
    <3>2. JobTypes' /\ \E key : LiveExtras' \subseteq LiveExtras \cup {key}
      BY <3>1, EnqueueChanges DEF Keyed
    <3>3. e \in Nat /\ e' \in Nat /\ e' <= e + 1
      BY <3>2, LiveExtrasCounted DEF LiveExtras
    <3>4. spc' \in [Procs -> Sweeps] /\ Rescheduling' = Rescheduling \ {p} /\ p \in Rescheduling
      BY <2>2, <3>1 DEF Sweeps, Rescheduling
    <3>5. s \in Nat /\ s' \in Nat /\ s' < s /\ Cardinality(Procs) \in Nat
      <4>1. Rescheduling \in SUBSET Procs
        BY DEF Rescheduling
      <4>2. QED  BY <3>4, <4>1, SweepersCounted
    <3>6. adminCount \in Nat /\ freezes \in Nat
      BY OutboundAssumption DEF Clocks
    <3>7. /\ Asking' = Asking
          /\ Count(frozen)' = Count(frozen) /\ Count(thawing)' = Count(thawing)
          /\ Asking \in Nat /\ Count(frozen) \in Nat
          /\ Count(thawing) \in Nat
      BY <2>1, RequestsCounted DEF Count
    <3>8. e + s + Asking + Count(frozen) + Count(thawing)
            <= Cardinality(Procs) + adminCount + freezes
      BY DEF Keyed
    <3>9. e' + s' + Asking + Count(frozen) + Count(thawing)
            <= Cardinality(Procs) + adminCount + freezes
      <4> HIDE DEF e, s
      <4>1. QED  BY <3>3, <3>5, <3>6, <3>7, <3>8
    <3>10. QED  BY <2>1, <3>2, <3>4, <3>7, <3>9 DEF Keyed
  <2>6. QED  BY <1>4, <2>3, <2>4, <2>5 DEF Sweep
<1>5. ASSUME NEW p \in Procs, HandlerThrows(p) \/ SweepThrows(p) \/ Crash(p) PROVE Keyed'
  <2>1. UNCHANGED <<admin, adminCount, frozen, thawing, freezes>>
    BY <1>5 DEF HandlerThrows, SweepThrows, SweepStep, Crash, operatorVars
  <2>2. CASE HandlerThrows(p)
    <3>1. JobTypes' /\ LiveExtras' \subseteq LiveExtras
      BY <2>2, HandlerJobs DEF Keyed
    <3>2. spc' = spc
      BY <2>2 DEF HandlerThrows, sweepVars
    <3>3. QED  BY <1>2, <2>1, <3>1, <3>2, KeyedAlone
  <2>3. CASE SweepThrows(p) \/ Crash(p)
    <3>1. jobs' = jobs /\ spc' = [spc EXCEPT ![p] = "idle"]
      BY <2>3 DEF SweepThrows, SweepStep, Crash
    <3>2. spc' \in [Procs -> Sweeps] /\ Rescheduling' \subseteq Rescheduling
      BY <3>1 DEF Keyed, Sweeps, Rescheduling
    <3>3. QED  BY <1>1, <2>1, <3>1, <3>2
  <2>4. QED  BY <1>5, <2>2, <2>3
<1>6. ASSUME NEW r \in Recipients, NEW hard \in BOOLEAN, SesBounce(r, hard) PROVE Keyed'
  <2>1. UNCHANGED <<jobs, admin, adminCount, frozen, thawing, freezes, spc>>
    BY <1>6 DEF SesBounce, operatorVars, Elsewhere, sweepVars
  <2>2. QED  BY <1>1, <1>2, <2>1
<1>7. CASE Tick
  <2>1. UNCHANGED <<admin, adminCount, frozen, thawing, freezes, spc>>
    BY <1>7 DEF Tick, operatorVars
  <2>2. jobs' = [k \in Keys |-> Aged(jobs[k])]
    BY <1>7 DEF Tick
  <2>3. \A row : Aged(row).status = row.status /\ Aged(row).lockedBy = row.lockedBy
    BY DEF Aged, Row
  <2>4. JobTypes' /\ LiveExtras' \subseteq LiveExtras
    BY <2>2, <2>3 DEF Keyed, JobTypes, LiveExtras, Keys
  <2>5. QED  BY <1>2, <2>1, <2>4, KeyedAlone
<1>8. CASE UNCHANGED vars
  BY <1>1, <1>2, <1>8 DEF vars, operatorVars, sweepVars
<1>9. QED  BY <1>3, <1>4, <1>5, <1>6, <1>7, <1>8, KeyedOperator DEF Next

\* Ages and keys, at every time.
LEMMA KeyedAlways == Spec => [](Dated /\ Keyed)
<1> DEFINE Inv == Dated /\ Keyed
<1>1. Init => Inv
  <2> SUFFICES ASSUME Init PROVE Inv
    OBVIOUS
  <2>1. Dated
    BY JobTableAssumption DEF Init, Dated
  <2>2. JobTypes /\ LiveExtras = {}
    <3>1. jobs = [k \in Keys |-> IF k = <<"gen", 0>> THEN NewRow(0) ELSE NoRow]
      BY DEF Init
    <3>2. /\ NewRow(0).lockedBy = NoOne /\ NoRow.lockedBy = NoOne
          /\ NoRow.status = "absent"
      BY DEF NewRow, NoRow, Row
    <3>3. \A k \in Extras : k # <<"gen", 0>> /\ k \in Keys
      BY DEF Extras, Keys
    <3>4. QED  BY <3>1, <3>2, <3>3 DEF JobTypes, LiveExtras
  <2>3. Rescheduling = {}
    BY DEF Init, Rescheduling
  <2>4. Cardinality({}) = 0 /\ Cardinality(Procs) \in Nat
    BY FS_EmptySet, FS_CardinalityType, OutboundAssumption
  <2>5. Asking = 0 /\ Count(frozen) = 0 /\ Count(thawing) = 0
    <3>1. Requests = {}
      BY DEF Init, Requests
    <3>2. QED  BY <3>1, FS_EmptySet DEF Init, Count, Asking
  <2>6. spc \in [Procs -> Sweeps] /\ frozen \in BOOLEAN /\ thawing \in BOOLEAN
    BY DEF Init, Sweeps
  <2>7. adminCount = 0 /\ freezes = 0
    BY DEF Init
  <2>8. Keyed
    BY <2>2, <2>3, <2>4, <2>5, <2>6, <2>7 DEF Keyed
  <2>9. QED  BY <2>1, <2>8
<1>2. Sound /\ Sound' /\ Clocks /\ Inv /\ [Next]_vars => Inv'
  BY DatedKept, KeyedKept DEF Sound
<1>3. QED  BY <1>1, <1>2, SoundAlways, ClocksAlways, PTL DEF Spec

\* There is always a key for one more job.
LEMMA AlwaysAKey ==
    ASSUME MaxExtra > Cardinality(Procs) + MaxAdmin + MaxFreezes
    PROVE  Spec => [](\E k \in Extras : jobs[k].status = "absent")
<1>1. Clocks /\ Keyed => \E k \in Extras : jobs[k].status = "absent"
  <2> SUFFICES ASSUME Clocks, Keyed, LiveExtras = Extras PROVE FALSE
    BY DEF LiveExtras
  <2>1. Cardinality(LiveExtras) = MaxExtra
    BY ExtrasCounted
  <2>2. Cardinality(Rescheduling) \in Nat /\ Cardinality(Procs) \in Nat
    BY SweepersCounted DEF Rescheduling
  <2>3. /\ adminCount \in Nat /\ adminCount <= MaxAdmin
        /\ freezes \in Nat /\ freezes <= MaxFreezes
    BY OutboundAssumption DEF Clocks
  <2>4. Asking \in Nat /\ Count(frozen) \in Nat /\ Count(thawing) \in Nat
    BY RequestsCounted DEF Count
  <2>5. MaxExtra + Cardinality(Rescheduling) + Asking + Count(frozen)
          + Count(thawing) <= Cardinality(Procs) + adminCount + freezes
    BY <2>1 DEF Keyed
  <2>6. MaxExtra \in Nat /\ MaxAdmin \in Nat /\ MaxFreezes \in Nat
    BY OutboundAssumption
  <2>7. QED  BY <2>2, <2>3, <2>4, <2>5, <2>6
<1>2. QED  BY <1>1, ClocksAlways, KeyedAlways, PTL

\* The type invariant, and with it that no bound of the model is ever met: generations
\* and keys never run out, so no behaviour of the code is cut off by MaxGen or MaxExtra.
THEOREM TypeCorrect == ASSUME OneTransport, Room PROVE Spec => []TypeOK
<1> DEFINE AKey == \E k \in Extras : jobs[k].status = "absent"
<1>1. Sound /\ Clocks /\ Dated /\ Keyed /\ Working /\ AttemptsBounded /\ AKey => TypeOK
  <2> SUFFICES ASSUME Sound, Clocks, Dated, Keyed, Working, AttemptsBounded, AKey
               PROVE  TypeOK
    OBVIOUS
  <2>1. ASSUME NEW r \in Recipients PROVE attempts[r] \in 0..MaxGen
    <3>1. /\ adminCount \in Nat /\ adminCount <= MaxAdmin
          /\ queueAge \in Nat /\ queueAge <= MaxQueueAge
          /\ faults \in Nat /\ faults <= MaxFaults /\ attempts[r] \in Nat
      BY OutboundAssumption DEF Clocks, Sound, Types, RowTypes, OtherTypes
    <3>2. 2 * Cardinality(Procs) \in Nat
      BY ListsCounted
    <3>3. 2 * Cardinality(Procs) * faults <= 2 * Cardinality(Procs) * MaxFaults
      <4> DEFINE c == 2 * Cardinality(Procs)
      <4>1. c \in Nat
        BY <3>2
      <4> HIDE DEF c
      <4>2. c * faults <= c * MaxFaults
        BY <3>1, <4>1, OutboundAssumption
      <4>3. QED  BY <4>2 DEF c
    <3>4. /\ 2 * Cardinality(Procs) * faults \in Nat
          /\ 2 * Cardinality(Procs) * MaxFaults \in Nat
      BY <3>1, <3>2, OutboundAssumption
    <3>5. attempts[r] <= 1 + queueAge + adminCount + 2 * Cardinality(Procs) * faults
      BY DEF AttemptsBounded
    <3>6. MaxGen \in Nat /\ MaxAdmin \in Nat /\ MaxQueueAge \in Nat
      BY OutboundAssumption
    <3>7. attempts[r] <= 1 + MaxQueueAge + MaxAdmin + 2 * Cardinality(Procs) * MaxFaults
      BY <3>1, <3>3, <3>4, <3>5, <3>6
    <3>8. QED  BY <3>1, <3>4, <3>6, <3>7 DEF Room
  <2>2. attempts \in [Recipients -> 0..MaxGen]
    BY <2>1 DEF Sound, Types, RowTypes
  <2>3. age \in [Recipients -> 0..(Lease + 1)]
    <3>1. age \in [Recipients -> Nat] /\ \A r \in Recipients : age[r] <= Lease + 1
      BY DEF Sound, Types, RowTypes, Dated
    <3>2. \A r \in Recipients : age[r] \in 0..(Lease + 1)
      BY <3>1, JobTableAssumption
    <3>3. QED  BY <3>1, <3>2
  <2>4. \A r \in Recipients : open[r] \subseteq (1..MaxGen) \X (0..(Lease + 1))
    <3>1. \A r \in Recipients : 1..attempts[r] \subseteq 1..MaxGen
      BY <2>1, OutboundAssumption
    <3>2. QED  BY <3>1 DEF Dated
  <2>5. timer \in [Procs -> 0..AttemptTimeout]
    <3>1. \A p \in Procs : timer[p] \in 0..AttemptTimeout
      BY OutboundAssumption DEF Working, Timed, Sound, Types, HandlerTypes
    <3>2. QED  BY <3>1 DEF Sound, Types, HandlerTypes
  <2>6. QED
    BY <2>2, <2>3, <2>4, <2>5 DEF TypeOK, Sound, Types, RowTypes, HandlerTypes, OtherTypes,
       Places, Clocks, Keyed, JobTypes, Sweeps
<1>2. Spec => []AKey
  BY AlwaysAKey DEF Room
<1>3. Spec => [](Working /\ Covered)
  BY CoveredAlways
<1>4. Spec => []AttemptsBounded
  BY AttemptsAreBounded
<1>5. QED  BY <1>1, <1>2, <1>3, <1>4, SoundAlways, ClocksAlways, KeyedAlways, PTL

=============================================================================
