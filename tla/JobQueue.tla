------------------------------ MODULE JobQueue ------------------------------
(***************************************************************************)
(* The Postgres job queue (packages/queue/src/index.ts): producers enqueue *)
(* by idempotency key, worker processes run startWorker's loop (drain,     *)
(* runOne, wait), the operator replays finished jobs.  Every database      *)
(* statement of the code is one step, and the process may stop or crash,   *)
(* or its statement fail, between any two of them.                         *)
(*                                                                         *)
(* A member of Workers is one process: a workerId is a fresh uuid, so a    *)
(* restarted process is another member.                                    *)
(***************************************************************************)
EXTENDS JobTable, FiniteSets

CONSTANTS
    Jobs,           \* idempotency keys
    Workers,        \* worker processes
    NumQueues,      \* a worker serves queues 1..NumQueues, in this order
    QueueOf,        \* the queue a key is enqueued on
    MaxAttempts,    \* maxAttempts of every job
    Delays,         \* the runAt offsets producers ask for
    StalledRead,    \* may claim's second statement outlast the lease?
    MaxFaults,      \* bound on failed statements and on outlived leases
    MaxReplays      \* bound on the operator's replays

ASSUME QueueAssumption ==
    /\ Jobs # {}
    /\ NumQueues \in Nat \ {0}
    /\ QueueOf \in [Jobs -> 1..NumQueues]
    /\ MaxAttempts \in Nat \ {0}
    /\ Delays \subseteq Nat
    /\ StalledRead \in BOOLEAN
    /\ MaxFaults \in Nat
    /\ MaxReplays \in Nat
    /\ NoOne \notin Workers

VARIABLES
    jobs,       \* the job table: key -> row
    pc,         \* where each worker is in runOne / drain / loop
    at,         \* the queue whose turn it is in drain's for loop
    any,        \* drain's `any`: some queue had a job in this round
    mine,       \* the job claim returned
    readBy,     \* its lockedBy, as read
    readTries,  \* its attempts, as read
    held,       \* time since this worker's claim (not in the code)
    ran,        \* has a run of the job succeeded since it was put in line?
    faults, replays

workerVars == <<pc, at, any, mine, readBy, readTries, held>>
vars == <<jobs, workerVars, ran, faults, replays>>

Statuses == {"absent", "pending", "running", "done", "dead"}

Rows == [status : Statuses, runIn : Int, attempts : Nat, lockAge : Nat,
         lockedBy : Workers \cup {NoOne}]

PCs == {"next", "reading", "handling", "completing", "failing", "waiting", "gone"}

\* A worker between the UPDATE of its claim and the end of runOne.
Busy(w) == pc[w] \in {"reading", "handling", "completing", "failing"}

\* What mine holds while runOne has no job.
AnyJob == CHOOSE j \in Jobs : TRUE

Init ==
    /\ jobs = [j \in Jobs |-> NoRow]
    /\ pc = [w \in Workers |-> "next"]
    /\ at = [w \in Workers |-> 1]
    /\ any = [w \in Workers |-> FALSE]
    /\ mine = [w \in Workers |-> AnyJob]
    /\ readBy = [w \in Workers |-> NoOne]
    /\ readTries = [w \in Workers |-> 0]
    /\ held = [w \in Workers |-> 0]
    /\ ran = [j \in Jobs |-> FALSE]
    /\ faults = 0
    /\ replays = 0

-----------------------------------------------------------------------------
\* Producers and the operator.

\* enqueue by key.  A key that has a row already is left alone (return null).
Enqueue(j, delay) ==
    /\ jobs[j].status = "absent"
    /\ jobs' = [jobs EXCEPT ![j] = NewRow(delay)]
    /\ UNCHANGED <<workerVars, ran, faults, replays>>

\* The admin replay route, guarded on the status.
Replay(j) ==
    /\ Replayable(jobs[j])
    /\ replays < MaxReplays
    /\ jobs' = [jobs EXCEPT ![j] = Replayed(jobs[j])]
    /\ ran' = [ran EXCEPT ![j] = FALSE]
    /\ replays' = replays + 1
    /\ UNCHANGED <<workerVars, faults>>

-----------------------------------------------------------------------------
\* A worker.

\* claim's ORDER BY run_at: the most overdue row of the queue first.
NextJob(q, j) ==
    /\ QueueOf[j] = q
    /\ Claimable(jobs[j])
    /\ \A k \in Jobs :
          QueueOf[k] = q /\ Claimable(jobs[k]) => jobs[j].runIn <= jobs[k].runIn

NothingDue(q) == \A j \in Jobs : QueueOf[j] = q => ~Claimable(jobs[j])

\* Seeded fault of Advance: the turn runs past the last queue.
AdvanceNoWrap(w, ranOne) ==
    /\ at' = [at EXCEPT ![w] = at[w] + 1]
    /\ any' = [any EXCEPT ![w] = any[w] \/ ranOne]
    /\ pc' = [pc EXCEPT ![w] = "next"]

\* drain's loops: on to the next queue; after the last one another round if
\* any queue had a job, else drain returns and the loop waits.
Advance(w, ranOne) ==
    LET seen == any[w] \/ ranOne
        last == at[w] = NumQueues
    IN  /\ at' = [at EXCEPT ![w] = IF last THEN 1 ELSE at[w] + 1]
        /\ any' = [any EXCEPT ![w] = IF last THEN FALSE ELSE seen]
        /\ pc' = [pc EXCEPT ![w] = IF last /\ ~seen THEN "waiting" ELSE "next"]

\* runOne's locals go out of scope.
Forget(w) ==
    /\ mine' = [mine EXCEPT ![w] = AnyJob]
    /\ readBy' = [readBy EXCEPT ![w] = NoOne]
    /\ readTries' = [readTries EXCEPT ![w] = 0]
    /\ held' = [held EXCEPT ![w] = 0]

\* An exception out of drain: 'drain-error' is logged, then the loop waits.
DrainError(w) ==
    /\ pc' = [pc EXCEPT ![w] = "waiting"]
    /\ at' = [at EXCEPT ![w] = 1]
    /\ any' = [any EXCEPT ![w] = FALSE]

\* claim's UPDATE finds a row and commits.
Claim(w, j) ==
    /\ pc[w] = "next"
    /\ NextJob(at[w], j)
    /\ jobs' = [jobs EXCEPT ![j] = Claimed(@, w)]
    /\ pc' = [pc EXCEPT ![w] = "reading"]
    /\ mine' = [mine EXCEPT ![w] = j]
    /\ held' = [held EXCEPT ![w] = 0]
    /\ UNCHANGED <<at, any, readBy, readTries, ran, faults, replays>>

\* claim's UPDATE finds nothing: runOne returns false.
ClaimNothing(w) ==
    /\ pc[w] = "next"
    /\ NothingDue(at[w])
    /\ Advance(w, FALSE)
    /\ UNCHANGED <<jobs, mine, readBy, readTries, held, ran, faults, replays>>

\* claim's second statement reads the row back, whoever holds it by now.
ReadClaim(w) ==
    /\ pc[w] = "reading"
    /\ readBy' = [readBy EXCEPT ![w] = jobs[mine[w]].lockedBy]
    /\ readTries' = [readTries EXCEPT ![w] = jobs[mine[w]].attempts]
    /\ pc' = [pc EXCEPT ![w] = "handling"]
    /\ UNCHANGED <<jobs, at, any, mine, held, ran, faults, replays>>

\* The handler returns.
HandlerReturns(w) ==
    /\ pc[w] = "handling"
    /\ pc' = [pc EXCEPT ![w] = "completing"]
    /\ ran' = [ran EXCEPT ![mine[w]] = TRUE]
    /\ UNCHANGED <<jobs, at, any, mine, readBy, readTries, held, faults, replays>>

\* Seeded fault of HandlerThrows: the exception is swallowed.
HandlerThrowsSwallowed(w) ==
    /\ pc[w] = "handling"
    /\ pc' = [pc EXCEPT ![w] = "completing"]
    /\ UNCHANGED <<jobs, at, any, mine, readBy, readTries, held, ran, faults, replays>>

\* The handler throws.
HandlerThrows(w) ==
    /\ pc[w] = "handling"
    /\ pc' = [pc EXCEPT ![w] = "failing"]
    /\ UNCHANGED <<jobs, at, any, mine, readBy, readTries, held, ran, faults, replays>>

CompleteJob(w) == jobs' = [jobs EXCEPT ![mine[w]] = Completed(@, readBy[w])]

Complete(w) ==
    /\ pc[w] = "completing"
    /\ CompleteJob(w)
    /\ Advance(w, TRUE)
    /\ Forget(w)
    /\ UNCHANGED <<ran, faults, replays>>

FailJob(w) ==
    \E delay \in Backoff(readTries[w]) :
        jobs' = [jobs EXCEPT ![mine[w]] =
                    Failed(@, readBy[w], readTries[w] >= MaxAttempts, delay)]

Fail(w) ==
    /\ pc[w] = "failing"
    /\ FailJob(w)
    /\ Advance(w, TRUE)
    /\ Forget(w)
    /\ UNCHANGED <<ran, faults, replays>>

\* The poll timer fires, or NOTIFY arrives while `wake` is set.
Wake(w) ==
    /\ pc[w] = "waiting"
    /\ pc' = [pc EXCEPT ![w] = "next"]
    /\ UNCHANGED <<jobs, at, any, mine, readBy, readTries, held, ran, faults, replays>>

-----------------------------------------------------------------------------
\* Failures.

Fault == faults < MaxFaults /\ faults' = faults + 1

\* complete's statement fails, before its commit or after it: runOne's catch
\* calls fail.
CompleteThrows(w) ==
    /\ pc[w] = "completing"
    /\ Fault
    /\ CompleteJob(w) \/ UNCHANGED jobs
    /\ pc' = [pc EXCEPT ![w] = "failing"]
    /\ UNCHANGED <<at, any, mine, readBy, readTries, held, ran, replays>>

\* A statement of claim or fail throws out of runOne and drain.  The statement
\* may have been committed all the same.
StatementThrows(w) ==
    /\ Fault
    /\ \/ pc[w] = "next" /\ UNCHANGED jobs
       \/ pc[w] = "next" /\ \E j \in Jobs : /\ NextJob(at[w], j)
                                            /\ jobs' = [jobs EXCEPT ![j] = Claimed(@, w)]
       \/ pc[w] = "reading" /\ UNCHANGED jobs
       \/ pc[w] = "failing" /\ UNCHANGED jobs
       \/ pc[w] = "failing" /\ FailJob(w)
    /\ DrainError(w)
    /\ Forget(w)
    /\ UNCHANGED <<ran, replays>>

\* Some process is always there to take over: the supervisor restarts them.
Survivor(w) == \E v \in Workers \ {w} : pc[v] # "gone"

\* The process ends and takes its variables with it.
Exit(w) ==
    /\ Survivor(w)
    /\ pc' = [pc EXCEPT ![w] = "gone"]
    /\ at' = [at EXCEPT ![w] = 1]
    /\ any' = [any EXCEPT ![w] = FALSE]
    /\ Forget(w)
    /\ UNCHANGED <<jobs, ran, faults, replays>>

\* The process dies in the middle of a job.
Crash(w) == Busy(w) /\ Exit(w)

\* stop(), which drain and the loop look at between jobs; or a crash there.
Stop(w) == pc[w] \in {"next", "waiting"} /\ Exit(w)

\* Time passes.  That a worker's claim outlives the lease while it is still
\* busy counts as a fault, and may happen to a worker that has yet to read its
\* claim only when StalledRead says so.
Outlives(w) == Busy(w) /\ held[w] = Lease

Tick ==
    /\ (\E w \in Workers : pc[w] = "reading" /\ held[w] >= Lease) => StalledRead
    /\ IF \E w \in Workers : Outlives(w) THEN Fault ELSE UNCHANGED faults
    /\ jobs' = [j \in Jobs |-> Aged(jobs[j])]
    /\ held' = [w \in Workers |->
                    IF Busy(w) /\ held[w] <= Lease THEN held[w] + 1 ELSE held[w]]
    /\ UNCHANGED <<pc, at, any, mine, readBy, readTries, ran, replays>>

-----------------------------------------------------------------------------
Work(w) ==
    \/ \E j \in Jobs : Claim(w, j)
    \/ ClaimNothing(w)
    \/ ReadClaim(w)
    \/ HandlerReturns(w)
    \/ HandlerThrows(w)
    \/ Complete(w)
    \/ Fail(w)
    \/ Wake(w)

Next ==
    \/ \E j \in Jobs, delay \in Delays : Enqueue(j, delay)
    \/ \E j \in Jobs : Replay(j)
    \/ \E w \in Workers : Work(w)
    \/ \E w \in Workers : CompleteThrows(w)
    \/ \E w \in Workers : StatementThrows(w)
    \/ \E w \in Workers : Crash(w)
    \/ \E w \in Workers : Stop(w)
    \/ Tick

Spec == Init /\ [][Next]_vars

\* Every live process keeps running: its event loop takes its next step, its
\* handlers settle, its poll timer fires; and the clock goes on.
FairSpec ==
    /\ Spec
    /\ \A w \in Workers : WF_vars(Work(w))
    /\ WF_vars(Tick)

-----------------------------------------------------------------------------
\* The variables have their types.
TypeOK ==
    /\ jobs \in [Jobs -> Rows]
    /\ pc \in [Workers -> PCs]
    /\ at \in [Workers -> 1..NumQueues]
    /\ any \in [Workers -> BOOLEAN]
    /\ mine \in [Workers -> Jobs]
    /\ readBy \in [Workers -> Workers \cup {NoOne}]
    /\ readTries \in [Workers -> Nat]
    /\ held \in [Workers -> Nat]
    /\ ran \in [Jobs -> BOOLEAN]
    /\ faults \in 0..MaxFaults
    /\ replays \in 0..MaxReplays

\* A worker that runs a job is the one the table names, under the very claim it
\* took, until its lease has passed: claim never hands one job to two workers
\* inside a lease, whatever statements failed and whoever replayed the job.
HolderOrLapsed ==
    \A w \in Workers :
        pc[w] \in {"reading", "handling", "completing"} =>
            \/ held[w] > Lease
            \/ /\ Held(jobs[mine[w]], w)
               /\ jobs[mine[w]].lockAge = held[w]

\* A job that waits has attempts left and a dead one has spent them all: fail
\* decides on the attempts it read at claim time, and those are still the
\* row's when its guarded UPDATE applies, reclaims and replays in between
\* notwithstanding.
BudgetRespected ==
    \A j \in Jobs :
        /\ jobs[j].status = "pending" => jobs[j].attempts < MaxAttempts
        /\ jobs[j].status = "dead" => jobs[j].attempts >= MaxAttempts

\* A job is done only if a run of its handler succeeded since it was last put
\* in line: a worker whose lease lapsed long ago cannot complete the claim of
\* another, nor the replay of a job it once ran.
DoneMeansRan ==
    \A j \in Jobs : jobs[j].status = "done" => ran[j]

\* Every job in line ends done or dead: a crashed or failed worker's claim
\* lapses and is taken again.
EveryJobSettles ==
    \A j \in Jobs :
        jobs[j].status = "pending" ~> jobs[j].status \in {"done", "dead"}

=============================================================================
