--------------------------- MODULE JobQueueProofs ---------------------------
(***************************************************************************)
(* Safety of the job queue for any number of jobs, workers, queues,        *)
(* attempts, faults and replays.  The argument: a row that is running      *)
(* under a worker's own name can only be there because of that worker's    *)
(* last claim of it, so what the worker read with the claim (attempts) and *)
(* did since (a handler that returned) still describes the row when the    *)
(* guarded UPDATE of complete or fail applies.                             *)
(***************************************************************************)
EXTENDS JobQueue, TLAPS

-----------------------------------------------------------------------------
\* A backoff is a time.
LEMMA BackoffType == \A n : Backoff(n) \subseteq Int
  BY JobTableAssumption DEF Backoff

\* drain's turn stays on a queue.
LEMMA AdvanceType ==
    ASSUME TypeOK, NEW w \in Workers, NEW b \in BOOLEAN, Advance(w, b)
    PROVE  /\ at' \in [Workers -> 1..NumQueues]
           /\ any' \in [Workers -> BOOLEAN]
           /\ pc' \in [Workers -> PCs]
  <1>1. at' \in [Workers -> 1..NumQueues]
    <2>1. ASSUME at[w] # NumQueues PROVE at[w] + 1 \in 1..NumQueues
      BY <2>1, QueueAssumption DEF TypeOK
    <2>2. 1 \in 1..NumQueues
      BY QueueAssumption
    <2>3. at' = [at EXCEPT ![w] = IF at[w] = NumQueues THEN 1 ELSE at[w] + 1]
      BY DEF Advance
    <2> QED
      BY <2>1, <2>2, <2>3 DEF TypeOK
  <1>2. any' \in [Workers -> BOOLEAN]
    <2>1. PICK v \in BOOLEAN : any' = [any EXCEPT ![w] = v]
      <3>1. CASE at[w] = NumQueues
        BY <3>1, Zenon DEF Advance
      <3>2. CASE at[w] # NumQueues
        <4>1. (any[w] \/ b) \in BOOLEAN
          OBVIOUS
        <4> QED
          BY <3>2, <4>1, Zenon DEF Advance
      <3> QED
        BY <3>1, <3>2
    <2> QED
      BY <2>1 DEF TypeOK
  <1>3. pc' \in [Workers -> PCs]
    <2>1. PICK p \in {"waiting", "next"} : pc' = [pc EXCEPT ![w] = p]
      BY Zenon DEF Advance
    <2> QED
      BY <2>1 DEF TypeOK, PCs
  <1> QED
    BY <1>1, <1>2, <1>3

-----------------------------------------------------------------------------
\* Type correctness of the queue: every statement of runOne, drain, enqueue
\* and the replay route leaves the table and the workers' locals well formed.
THEOREM TypeCorrect == Spec => []TypeOK
  <1>1. Init => TypeOK
    <2> SUFFICES ASSUME Init PROVE TypeOK
      OBVIOUS
    <2>1. NoRow \in Rows
      BY DEF NoRow, Row, Rows, Statuses
    <2>2. AnyJob \in Jobs
      BY QueueAssumption DEF AnyJob
    <2> QED
      BY <2>1, <2>2, QueueAssumption DEF Init, TypeOK, PCs
  <1>2. TypeOK /\ [Next]_vars => TypeOK'
    <2> SUFFICES ASSUME TypeOK, [Next]_vars PROVE TypeOK'
      OBVIOUS
    <2> USE DEF TypeOK, PCs
    <2>a. AnyJob \in Jobs
      BY QueueAssumption DEF AnyJob
    <2>1. CASE \E j \in Jobs, delay \in Delays : Enqueue(j, delay)
      <3> PICK j \in Jobs, delay \in Delays : Enqueue(j, delay)
        BY <2>1
      <3>1. NewRow(delay) \in Rows
        BY QueueAssumption DEF NewRow, NoRow, Row, Rows, Statuses
      <3> QED
        BY <3>1 DEF Enqueue, workerVars
    <2>2. CASE \E j \in Jobs : Replay(j)
      <3> PICK j \in Jobs : Replay(j)
        BY <2>2
      <3>1. Replayed(jobs[j]) \in Rows
        BY DEF Replayed, NewRow, NoRow, Row, Rows, Statuses
      <3> QED
        BY <3>1, QueueAssumption DEF Replay, workerVars
    <2>3. ASSUME NEW w \in Workers, Work(w) PROVE TypeOK'
      <3>1. ASSUME NEW j \in Jobs, Claim(w, j) PROVE TypeOK'
        <4>1. Claimed(jobs[j], w) \in Rows
          BY DEF Claimed, Row, Rows, Statuses
        <4> QED
          BY <3>1, <4>1 DEF Claim
      <3>2. CASE ClaimNothing(w)
        BY <3>2, AdvanceType DEF ClaimNothing
      <3>3. CASE ReadClaim(w)
        BY <3>3 DEF ReadClaim, Rows
      <3>4. CASE HandlerReturns(w)
        BY <3>4 DEF HandlerReturns
      <3>5. CASE HandlerThrows(w)
        BY <3>5 DEF HandlerThrows
      <3>6. CASE Complete(w)
        <4>1. Completed(jobs[mine[w]], readBy[w]) \in Rows
          BY DEF Completed, Row, Rows, Statuses
        <4> QED
          BY <3>6, <4>1, <2>a, AdvanceType DEF Complete, CompleteJob, Forget
      <3>7. CASE Fail(w)
        <4>1. ASSUME NEW delay \in Backoff(readTries[w])
              PROVE  Failed(jobs[mine[w]], readBy[w], readTries[w] >= MaxAttempts, delay) \in Rows
          BY BackoffType DEF Failed, Row, Rows, Statuses
        <4>2. jobs' \in [Jobs -> Rows]
          BY <3>7, <4>1 DEF Fail, FailJob
        <4> QED
          BY <3>7, <4>2, <2>a, AdvanceType DEF Fail, Forget
      <3>8. CASE Wake(w)
        BY <3>8 DEF Wake
      <3> QED
        BY <2>3, <3>1, <3>2, <3>3, <3>4, <3>5, <3>6, <3>7, <3>8 DEF Work
    <2>4. ASSUME NEW w \in Workers, CompleteThrows(w) PROVE TypeOK'
      <3>1. Completed(jobs[mine[w]], readBy[w]) \in Rows
        BY DEF Completed, Row, Rows, Statuses
      <3> QED
        BY <2>4, <3>1, QueueAssumption DEF CompleteThrows, CompleteJob, Fault
    <2>5. ASSUME NEW w \in Workers, StatementThrows(w) PROVE TypeOK'
      <3>1. ASSUME NEW j \in Jobs PROVE Claimed(jobs[j], w) \in Rows
        BY DEF Claimed, Row, Rows, Statuses
      <3>2. ASSUME NEW delay \in Backoff(readTries[w])
            PROVE  Failed(jobs[mine[w]], readBy[w], readTries[w] >= MaxAttempts, delay) \in Rows
        BY BackoffType DEF Failed, Row, Rows, Statuses
      <3>3. jobs' \in [Jobs -> Rows]
        BY <2>5, <3>1, <3>2 DEF StatementThrows, FailJob
      <3> QED
        BY <2>5, <3>3, <2>a, QueueAssumption DEF StatementThrows, Fault, DrainError, Forget
    <2>6. ASSUME NEW w \in Workers, Exit(w) PROVE TypeOK'
      BY <2>6, <2>a, QueueAssumption DEF Exit, Forget
    <2>7. CASE Tick
      <3>1. \A j \in Jobs : Aged(jobs[j]) \in Rows
        BY JobTableAssumption DEF Aged, Row, Rows, Statuses
      <3> QED
        BY <2>7, <3>1, QueueAssumption, JobTableAssumption DEF Tick, Fault
    <2>8. CASE UNCHANGED vars
      BY <2>8 DEF vars, workerVars
    <2> QED
      BY <2>1, <2>2, <2>3, <2>4, <2>5, <2>6, <2>7, <2>8 DEF Next, Crash, Stop
  <1> QED
    BY <1>1, <1>2, PTL DEF Spec

-----------------------------------------------------------------------------
(***************************************************************************)
(* The inductive invariant.  Own(w) is what a busy worker may rely on:     *)
(* that it is the holder inside its lease (HolderOrLapsed, per worker);    *)
(* that what it read was its own claim; and that a row which carries its   *)
(* name is the one it claimed, read and, when completing, ran.             *)
(***************************************************************************)
Own(w) ==
    /\ pc[w] = "reading" => held[w] <= Lease
    /\ pc[w] \in {"reading", "handling", "completing"} =>
          \/ held[w] > Lease
          \/ /\ Held(jobs[mine[w]], w)
             /\ jobs[mine[w]].lockAge = held[w]
    /\ pc[w] \in {"handling", "completing", "failing"} => readBy[w] = w
    /\ pc[w] \in {"handling", "completing", "failing"} /\ Held(jobs[mine[w]], w) =>
          jobs[mine[w]].attempts = readTries[w]
    /\ pc[w] = "completing" /\ Held(jobs[mine[w]], w) => ran[mine[w]]

IInv ==
    /\ TypeOK
    /\ \A w \in Workers : Own(w)
    /\ BudgetRespected
    /\ DoneMeansRan

\* What a step may do to the rows, seen by a worker that takes no part in it:
\* a row it holds inside its lease does not change, and no row is given its name.
Spares(v) ==
    \A j \in Jobs :
        \/ jobs'[j] = jobs[j]
        \/ /\ ~Held(jobs'[j], v)
           /\ Held(jobs[j], v) => jobs[j].lockAge > Lease

SameLocals(v) ==
    /\ pc'[v] = pc[v]
    /\ mine'[v] = mine[v]
    /\ readBy'[v] = readBy[v]
    /\ readTries'[v] = readTries[v]
    /\ held'[v] = held[v]

\* A bystander keeps what it relies on.
LEMMA Bystander ==
    ASSUME TypeOK, NEW v \in Workers, Own(v), SameLocals(v), Spares(v),
           \A j \in Jobs : Held(jobs'[j], v) /\ ran[j] => ran'[j]
    PROVE  Own(v)'
  <1>1. mine[v] \in Jobs
    BY DEF TypeOK
  <1>2. CASE jobs'[mine[v]] = jobs[mine[v]]
    BY <1>1, <1>2 DEF Own, SameLocals, Held
  <1>3. CASE jobs'[mine[v]] # jobs[mine[v]]
    <2>1. /\ ~Held(jobs'[mine[v]], v)
          /\ Held(jobs[mine[v]], v) => jobs[mine[v]].lockAge > Lease
      BY <1>1, <1>3 DEF Spares
    <2> QED
      BY <1>1, <2>1 DEF Own, SameLocals, Held
  <1> QED
    BY <1>2, <1>3

\* The rows that a finished claim leaves alone, and those it writes.
LEMMA ClaimStep ==
    ASSUME IInv, NEW w \in Workers, NEW j \in Jobs, NextJob(at[w], j),
           jobs' = [jobs EXCEPT ![j] = Claimed(@, w)], ran' = ran
    PROVE  /\ \A v \in Workers \ {w} : Spares(v)
           /\ BudgetRespected'
           /\ DoneMeansRan'
  <1> USE DEF IInv, TypeOK
  <1>1. /\ jobs'[j].status = "running"
        /\ jobs'[j].lockedBy = w
        /\ \A k \in Jobs \ {j} : jobs'[k] = jobs[k]
    BY DEF Claimed, Row
  <1>2. ASSUME NEW v \in Workers \ {w} PROVE Spares(v)
    <2>1. ~Held(jobs'[j], v)
      BY <1>1 DEF Held
    <2>2. Held(jobs[j], v) => jobs[j].lockAge > Lease
      BY DEF NextJob, Claimable, Stale, Held
    <2> QED
      BY <1>1, <2>1, <2>2 DEF Spares
  <1>3. BudgetRespected'
    BY <1>1 DEF BudgetRespected
  <1>4. DoneMeansRan'
    BY <1>1 DEF DoneMeansRan
  <1> QED
    BY <1>2, <1>3, <1>4

\* complete's UPDATE touches the worker's own claim only, and that one has run.
LEMMA CompleteStep ==
    ASSUME IInv, NEW w \in Workers, pc[w] = "completing", CompleteJob(w), ran' = ran
    PROVE  /\ \A v \in Workers : v # w => Spares(v)
           /\ ~Held(jobs'[mine[w]], w)
           /\ BudgetRespected'
           /\ DoneMeansRan'
  <1> USE DEF IInv, TypeOK
  <1>1. readBy[w] = w /\ mine[w] \in Jobs
    BY DEF Own
  <1>2. \A k \in Jobs : k # mine[w] => jobs'[k] = jobs[k]
    BY DEF CompleteJob
  <1>3. CASE Held(jobs[mine[w]], w)
    <2>1. jobs'[mine[w]] = Row("done", jobs[mine[w]].runIn, jobs[mine[w]].attempts, 0, w)
      BY <1>1, <1>3 DEF CompleteJob, Completed, Held
    <2>2. jobs'[mine[w]].status = "done"
      BY <2>1 DEF Row
    <2>3. ran[mine[w]]
      BY <1>3 DEF Own
    <2>4. \A v \in Workers : v # w => Spares(v)
      BY <1>2, <1>3, <2>2 DEF Spares, Held
    <2>5. BudgetRespected'
      BY <1>2, <2>2 DEF BudgetRespected
    <2>6. DoneMeansRan'
      BY <1>2, <2>2, <2>3 DEF DoneMeansRan
    <2> QED
      BY <2>2, <2>4, <2>5, <2>6 DEF Held
  <1>4. CASE ~Held(jobs[mine[w]], w)
    <2>1. jobs' = jobs
      BY <1>1, <1>4 DEF CompleteJob, Completed
    <2> QED
      BY <1>4, <2>1 DEF Spares, BudgetRespected, DoneMeansRan
  <1> QED
    BY <1>3, <1>4

\* fail's UPDATE touches the worker's own claim only, whose attempts are the
\* ones it read.
LEMMA FailStep ==
    ASSUME IInv, NEW w \in Workers, pc[w] = "failing", FailJob(w), ran' = ran
    PROVE  /\ \A v \in Workers : v # w => Spares(v)
           /\ BudgetRespected'
           /\ DoneMeansRan'
  <1> USE DEF IInv, TypeOK
  <1>1. readBy[w] = w /\ mine[w] \in Jobs
    BY DEF Own
  <1>2. PICK delay \in Backoff(readTries[w]) :
            jobs' = [jobs EXCEPT ![mine[w]] =
                        Failed(@, readBy[w], readTries[w] >= MaxAttempts, delay)]
    BY DEF FailJob
  <1>3. \A k \in Jobs : k # mine[w] => jobs'[k] = jobs[k]
    BY <1>2
  <1>4. CASE Held(jobs[mine[w]], w)
    <2>1. jobs[mine[w]].attempts = readTries[w]
      BY <1>4 DEF Own
    <2>2. /\ jobs'[mine[w]].attempts = readTries[w]
          /\ jobs'[mine[w]].status = IF readTries[w] >= MaxAttempts THEN "dead" ELSE "pending"
      BY <1>1, <1>2, <1>4, <2>1 DEF Failed, Row
    <2>3. \A v \in Workers : v # w => Spares(v)
      BY <1>3, <1>4, <2>2 DEF Spares, Held
    <2>4. BudgetRespected'
      BY <1>3, <2>2, QueueAssumption DEF BudgetRespected
    <2>5. DoneMeansRan'
      BY <1>3, <2>2 DEF DoneMeansRan
    <2> QED
      BY <2>3, <2>4, <2>5
  <1>5. CASE ~Held(jobs[mine[w]], w)
    <2>1. jobs' = jobs
      BY <1>1, <1>2, <1>5 DEF Failed
    <2> QED
      BY <2>1 DEF Spares, BudgetRespected, DoneMeansRan
  <1> QED
    BY <1>4, <1>5

-----------------------------------------------------------------------------
\* A step of one worker that leaves the others' locals alone and spares them
\* is all right for everybody as soon as it is all right for that worker.
LEMMA OneWorker ==
    ASSUME IInv, NEW w \in Workers, Own(w)',
           \A v \in Workers \ {w} : SameLocals(v) /\ Spares(v),
           \A j \in Jobs : ran[j] => ran'[j]
    PROVE  \A v \in Workers : Own(v)'
  BY Bystander DEF IInv

\* Every action keeps the inductive invariant, provided that a claim is read
\* back inside its lease.
LEMMA Inductive == ASSUME ~StalledRead, IInv, TypeOK', [Next]_vars PROVE IInv'
  <1> USE DEF IInv
  <1>1. ASSUME NEW j \in Jobs, NEW delay \in Delays, Enqueue(j, delay) PROVE IInv'
    <2>1. /\ jobs'[j].status = "pending"
          /\ jobs'[j].attempts = 0
          /\ \A k \in Jobs : k # j => jobs'[k] = jobs[k]
      BY <1>1 DEF Enqueue, NewRow, Row, TypeOK
    <2>2. ASSUME NEW v \in Workers PROVE Own(v)'
      <3>1. Spares(v)
        BY <1>1, <2>1 DEF Spares, Held, Enqueue
      <3> QED
        BY <1>1, <3>1, Bystander DEF Enqueue, workerVars, SameLocals
    <2>3. BudgetRespected'
      BY <2>1, QueueAssumption DEF BudgetRespected
    <2>4. DoneMeansRan'
      BY <1>1, <2>1 DEF DoneMeansRan, Enqueue
    <2> QED
      BY <2>2, <2>3, <2>4
  <1>2. ASSUME NEW j \in Jobs, Replay(j) PROVE IInv'
    <2>1. /\ jobs'[j].status = "pending"
          /\ jobs'[j].attempts = 0
          /\ \A k \in Jobs : k # j => jobs'[k] = jobs[k]
      BY <1>2 DEF Replay, Replayed, NewRow, Row, TypeOK
    <2>2. ASSUME NEW v \in Workers PROVE Own(v)'
      <3>1. Spares(v)
        BY <1>2, <2>1 DEF Spares, Held, Replay, Replayable
      <3>2. \A k \in Jobs : Held(jobs'[k], v) /\ ran[k] => ran'[k]
        BY <1>2, <2>1 DEF Replay, Held, TypeOK
      <3> QED
        BY <1>2, <3>1, <3>2, Bystander DEF Replay, workerVars, SameLocals
    <2>3. BudgetRespected'
      BY <2>1, QueueAssumption DEF BudgetRespected
    <2>4. DoneMeansRan'
      BY <1>2, <2>1 DEF DoneMeansRan, Replay, TypeOK
    <2> QED
      BY <2>2, <2>3, <2>4
  <1>3. ASSUME NEW w \in Workers, Work(w) PROVE IInv'
    <2>1. ASSUME NEW j \in Jobs, Claim(w, j) PROVE IInv'
      <3>1. /\ \A v \in Workers \ {w} : Spares(v)
            /\ BudgetRespected'
            /\ DoneMeansRan'
        BY <2>1, ClaimStep DEF Claim
      <3>2. Own(w)'
        BY <2>1, JobTableAssumption DEF Claim, Claimed, Row, Own, Held, TypeOK
      <3>3. \A v \in Workers \ {w} : SameLocals(v)
        BY <2>1 DEF Claim, SameLocals, TypeOK
      <3> QED
        BY <2>1, <3>1, <3>2, <3>3, OneWorker DEF Claim
    <2>2. CASE ClaimNothing(w)
      <3>1. pc'[w] \in {"next", "waiting"} /\ \A v \in Workers \ {w} : pc'[v] = pc[v]
        BY <2>2 DEF ClaimNothing, Advance, TypeOK
      <3>2. Own(w)'
        BY <3>1 DEF Own
      <3>3. \A v \in Workers \ {w} : SameLocals(v) /\ Spares(v)
        BY <2>2, <3>1 DEF ClaimNothing, SameLocals, Spares
      <3>4. BudgetRespected' /\ DoneMeansRan'
        BY <2>2 DEF ClaimNothing, BudgetRespected, DoneMeansRan
      <3> QED
        BY <2>2, <3>2, <3>3, <3>4, OneWorker DEF ClaimNothing
    <2>3. CASE ReadClaim(w)
      <3>1. Held(jobs[mine[w]], w) /\ jobs[mine[w]].lockAge = held[w]
        BY <2>3, JobTableAssumption DEF ReadClaim, Own, TypeOK
      <3>2. Own(w)'
        BY <2>3, <3>1 DEF ReadClaim, Own, Held, TypeOK
      <3>3. \A v \in Workers \ {w} : SameLocals(v) /\ Spares(v)
        BY <2>3 DEF ReadClaim, SameLocals, Spares, TypeOK
      <3>4. BudgetRespected' /\ DoneMeansRan'
        BY <2>3 DEF ReadClaim, BudgetRespected, DoneMeansRan
      <3> QED
        BY <2>3, <3>2, <3>3, <3>4, OneWorker DEF ReadClaim
    <2>4. CASE HandlerReturns(w)
      <3>1. Own(w)'
        BY <2>4 DEF HandlerReturns, Own, Held, TypeOK
      <3>2. \A v \in Workers \ {w} : SameLocals(v) /\ Spares(v)
        BY <2>4 DEF HandlerReturns, SameLocals, Spares, TypeOK
      <3>3. \A j \in Jobs : ran[j] => ran'[j]
        BY <2>4 DEF HandlerReturns, TypeOK
      <3>4. BudgetRespected' /\ DoneMeansRan'
        BY <2>4, <3>3 DEF HandlerReturns, BudgetRespected, DoneMeansRan
      <3> QED
        BY <3>1, <3>2, <3>3, <3>4, OneWorker
    <2>5. CASE HandlerThrows(w)
      <3>1. Own(w)'
        BY <2>5 DEF HandlerThrows, Own, Held, TypeOK
      <3>2. \A v \in Workers \ {w} : SameLocals(v) /\ Spares(v)
        BY <2>5 DEF HandlerThrows, SameLocals, Spares, TypeOK
      <3>3. BudgetRespected' /\ DoneMeansRan'
        BY <2>5 DEF HandlerThrows, BudgetRespected, DoneMeansRan
      <3> QED
        BY <2>5, <3>1, <3>2, <3>3, OneWorker DEF HandlerThrows
    <2>6. CASE Complete(w)
      <3>1. /\ \A v \in Workers : v # w => Spares(v)
            /\ BudgetRespected'
            /\ DoneMeansRan'
        BY <2>6, CompleteStep DEF Complete
      <3>2. pc'[w] \in {"next", "waiting"} /\ \A v \in Workers \ {w} : SameLocals(v)
        BY <2>6 DEF Complete, Advance, Forget, SameLocals, TypeOK
      <3>3. Own(w)'
        BY <3>2 DEF Own
      <3> QED
        BY <2>6, <3>1, <3>2, <3>3, OneWorker DEF Complete
    <2>7. CASE Fail(w)
      <3>1. /\ \A v \in Workers : v # w => Spares(v)
            /\ BudgetRespected'
            /\ DoneMeansRan'
        BY <2>7, FailStep DEF Fail
      <3>2. pc'[w] \in {"next", "waiting"} /\ \A v \in Workers \ {w} : SameLocals(v)
        BY <2>7 DEF Fail, Advance, Forget, SameLocals, TypeOK
      <3>3. Own(w)'
        BY <3>2 DEF Own
      <3> QED
        BY <2>7, <3>1, <3>2, <3>3, OneWorker DEF Fail
    <2>8. CASE Wake(w)
      <3>1. Own(w)'
        BY <2>8 DEF Wake, Own, TypeOK
      <3>2. \A v \in Workers \ {w} : SameLocals(v) /\ Spares(v)
        BY <2>8 DEF Wake, SameLocals, Spares, TypeOK
      <3>3. BudgetRespected' /\ DoneMeansRan'
        BY <2>8 DEF Wake, BudgetRespected, DoneMeansRan
      <3> QED
        BY <2>8, <3>1, <3>2, <3>3, OneWorker DEF Wake
    <2> QED
      BY <1>3, <2>1, <2>2, <2>3, <2>4, <2>5, <2>6, <2>7, <2>8 DEF Work
  <1>4. ASSUME NEW w \in Workers, CompleteThrows(w) PROVE IInv'
    <2>1. CASE CompleteJob(w)
      <3>1. /\ \A v \in Workers : v # w => Spares(v)
            /\ ~Held(jobs'[mine[w]], w)
            /\ BudgetRespected'
            /\ DoneMeansRan'
        BY <1>4, <2>1, CompleteStep DEF CompleteThrows
      <3>2. \A v \in Workers \ {w} : SameLocals(v)
        BY <1>4 DEF CompleteThrows, SameLocals, TypeOK
      <3>3. Own(w)'
        BY <1>4, <3>1 DEF CompleteThrows, Own, TypeOK
      <3> QED
        BY <1>4, <3>1, <3>2, <3>3, OneWorker DEF CompleteThrows
    <2>2. CASE UNCHANGED jobs
      <3>1. \A v \in Workers \ {w} : SameLocals(v) /\ Spares(v)
        BY <1>4, <2>2 DEF CompleteThrows, SameLocals, Spares, TypeOK
      <3>2. Own(w)'
        BY <1>4, <2>2 DEF CompleteThrows, Own, Held, TypeOK
      <3>3. BudgetRespected' /\ DoneMeansRan'
        BY <1>4, <2>2 DEF CompleteThrows, BudgetRespected, DoneMeansRan
      <3> QED
        BY <1>4, <3>1, <3>2, <3>3, OneWorker DEF CompleteThrows
    <2> QED
      BY <1>4, <2>1, <2>2 DEF CompleteThrows
  <1>5. ASSUME NEW w \in Workers, StatementThrows(w) PROVE IInv'
    <2> DEFINE Good == /\ \A v \in Workers \ {w} : Spares(v)
                       /\ BudgetRespected'
                       /\ DoneMeansRan'
    <2>1. Good
      <3>0. ran' = ran
        BY <1>5 DEF StatementThrows
      <3>1. ASSUME UNCHANGED jobs PROVE Good
        BY <3>0, <3>1 DEF Spares, BudgetRespected, DoneMeansRan
      <3>2. ASSUME NEW j \in Jobs, NextJob(at[w], j),
                   jobs' = [jobs EXCEPT ![j] = Claimed(@, w)]
            PROVE  Good
        BY <3>0, <3>2, ClaimStep
      <3>3. ASSUME pc[w] = "failing", FailJob(w) PROVE Good
        BY <3>0, <3>3, FailStep
      <3> HIDE DEF Good
      <3> QED
        BY <1>5, <3>1, <3>2, <3>3 DEF StatementThrows
    <2>2. pc'[w] = "waiting" /\ \A v \in Workers \ {w} : SameLocals(v)
      BY <1>5 DEF StatementThrows, DrainError, Forget, SameLocals, TypeOK
    <2>3. Own(w)'
      BY <2>2 DEF Own
    <2> QED
      BY <1>5, <2>1, <2>2, <2>3, OneWorker DEF StatementThrows
  <1>6. ASSUME NEW w \in Workers, Exit(w) PROVE IInv'
    <2>1. pc'[w] = "gone" /\ \A v \in Workers \ {w} : SameLocals(v) /\ Spares(v)
      BY <1>6 DEF Exit, Forget, SameLocals, Spares, TypeOK
    <2>2. Own(w)'
      BY <2>1 DEF Own
    <2>3. BudgetRespected' /\ DoneMeansRan'
      BY <1>6 DEF Exit, BudgetRespected, DoneMeansRan
    <2> QED
      BY <1>6, <2>1, <2>2, <2>3, OneWorker DEF Exit
  <1>7. CASE Tick
    <2>1. \A j \in Jobs :
             /\ jobs'[j].status = jobs[j].status
             /\ jobs'[j].attempts = jobs[j].attempts
             /\ jobs'[j].lockedBy = jobs[j].lockedBy
             /\ jobs'[j].lockAge = IF jobs[j].status = "running" /\ jobs[j].lockAge <= Lease
                                   THEN jobs[j].lockAge + 1 ELSE jobs[j].lockAge
      BY <1>7 DEF Tick, Aged, Row
    <2>2. \A w \in Workers :
             held'[w] = IF Busy(w) /\ held[w] <= Lease THEN held[w] + 1 ELSE held[w]
      BY <1>7 DEF Tick
    <2>3. ASSUME NEW w \in Workers PROVE Own(w)'
      <3>1. mine'[w] = mine[w] /\ mine[w] \in Jobs /\ pc'[w] = pc[w]
        BY <1>7 DEF Tick, TypeOK
      <3>2. pc[w] = "reading" => held'[w] <= Lease
        BY <1>7, <2>2, JobTableAssumption DEF Tick, TypeOK
      <3>3. pc[w] \in {"reading", "handling", "completing"} =>
              held'[w] > Lease \/ (Held(jobs'[mine[w]], w) /\ jobs'[mine[w]].lockAge = held'[w])
        <4> SUFFICES ASSUME pc[w] \in {"reading", "handling", "completing"}, held[w] <= Lease
                     PROVE  \/ held'[w] > Lease
                            \/ /\ Held(jobs'[mine[w]], w)
                               /\ jobs'[mine[w]].lockAge = held'[w]
          BY <2>2, JobTableAssumption DEF TypeOK
        <4>1. Held(jobs[mine[w]], w) /\ jobs[mine[w]].lockAge = held[w]
          BY JobTableAssumption DEF Own, TypeOK
        <4>2. held'[w] = held[w] + 1
          BY <2>2 DEF Busy
        <4>3. jobs'[mine[w]].lockAge = held[w] + 1
          BY <2>1, <3>1, <4>1 DEF Held
        <4>4. Held(jobs'[mine[w]], w)
          BY <2>1, <3>1, <4>1 DEF Held
        <4> QED
          BY <4>2, <4>3, <4>4
      <3> QED
        BY <1>7, <2>1, <3>1, <3>2, <3>3 DEF Tick, Own, Held
    <2>4. BudgetRespected' /\ DoneMeansRan'
      BY <1>7, <2>1 DEF Tick, BudgetRespected, DoneMeansRan
    <2> QED
      BY <2>3, <2>4
  <1>8. CASE UNCHANGED vars
    BY <1>8 DEF vars, workerVars, Own, BudgetRespected, DoneMeansRan
  <1> QED
    BY <1>1, <1>2, <1>3, <1>4, <1>5, <1>6, <1>7, <1>8 DEF Next, Crash, Stop

\* The inductive invariant holds initially and hence always.
LEMMA Invariance == ASSUME ~StalledRead PROVE Spec => []IInv
  <1>1. ASSUME Init, TypeOK PROVE IInv
    BY <1>1 DEF Init, IInv, Own, BudgetRespected, DoneMeansRan, NoRow, Row
  <1>2. ASSUME IInv, TypeOK', [Next]_vars PROVE IInv'
    BY <1>2, Inductive
  <1> QED
    BY <1>1, <1>2, TypeCorrect, PTL DEF Spec

\* Inside its lease a claim belongs to the worker that runs it: claim, complete,
\* fail and the replay route never take it away or give it to a second worker.
THEOREM HolderSafe == ASSUME ~StalledRead PROVE Spec => []HolderOrLapsed
  <1>1. IInv => HolderOrLapsed
    BY DEF IInv, Own, HolderOrLapsed
  <1> QED
    BY <1>1, Invariance, PTL

\* fail's verdict is right: what waits has attempts left, what is dead has none.
THEOREM BudgetSafe == ASSUME ~StalledRead PROVE Spec => []BudgetRespected
  <1>1. IInv => BudgetRespected
    BY DEF IInv
  <1> QED
    BY <1>1, Invariance, PTL

\* complete never marks done a job whose handler has not succeeded since the
\* job was last put in line.
THEOREM DoneSafe == ASSUME ~StalledRead PROVE Spec => []DoneMeansRan
  <1>1. IInv => DoneMeansRan
    BY DEF IInv
  <1> QED
    BY <1>1, Invariance, PTL

=============================================================================
