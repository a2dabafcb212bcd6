------------------------------ MODULE JobTable ------------------------------
(***************************************************************************)
(* One row of the `job` table (packages/queue/src/index.ts) and what the   *)
(* queue's statements do to it.  The modules that keep a job table         *)
(* (JobQueue, Outbound) apply these operators to their rows.               *)
(*                                                                         *)
(* Time is relative, so that no behaviour runs out of clock: a row holds   *)
(* runIn, the time left until run_at (negative once overdue), and lockAge, *)
(* the time since locked_at.  Tick ages both.  lockAge stops at Lease + 1: *)
(* the code compares it with the lease only.                               *)
(***************************************************************************)
EXTENDS Integers

CONSTANTS
    Lease,          \* leaseMs: a claim older than this may be taken again
    BackoffBase,    \* baseMs of backoffMs
    BackoffCap,     \* capMs of backoffMs
    MaxLate         \* how far overdue a row is still told apart from others

ASSUME JobTableAssumption ==
    /\ Lease \in Nat
    /\ BackoffBase \in Nat
    /\ BackoffCap \in Nat
    /\ MaxLate \in Nat

\* The value of locked_by when it is null.
NoOne == "no one"

Row(status, runIn, attempts, lockAge, lockedBy) ==
    [status |-> status, runIn |-> runIn, attempts |-> attempts,
     lockAge |-> lockAge, lockedBy |-> lockedBy]

\* The row of a key nobody has enqueued: there is no such row in the table.
NoRow == Row("absent", 0, 0, 0, NoOne)

\* enqueue: a new row, pending, run_at = options.runAt ?? now.
NewRow(delay) == Row("pending", delay, 0, 0, NoOne)

\* Seeded faults of Stale and Claimable: a lease one tick short, and no reclaim.
StaleEarly(row) == row.status = "running" /\ row.lockAge >= Lease

ClaimablePendingOnly(row) == row.status = "pending" /\ row.runIn <= 0

\* The WHERE of claim: due, or claimed longer ago than the lease.
Stale(row) == row.status = "running" /\ row.lockAge > Lease

Claimable(row) ==
    \/ row.status = "pending" /\ row.runIn <= 0
    \/ Stale(row)

\* The UPDATE of claim.
Claimed(row, worker) == Row("running", row.runIn, row.attempts + 1, 0, worker)

\* The guard complete and fail share: still running under the name the worker
\* read with the job.
Held(row, by) == row.status = "running" /\ row.lockedBy = by

\* complete: locked_by stays.
Completed(row, by) ==
    IF Held(row, by) THEN Row("done", row.runIn, row.attempts, 0, row.lockedBy) ELSE row

\* backoffMs: anything from half the ceiling to the ceiling.
Ceiling(attempt) ==
    LET doubled == BackoffBase * 2 ^ (IF attempt > 1 THEN attempt - 1 ELSE 0)
    IN  IF doubled < BackoffCap THEN doubled ELSE BackoffCap

Backoff(attempt) ==
    {d \in 0..BackoffCap : Ceiling(attempt) <= 2 * d /\ d <= Ceiling(attempt)}

\* fail: dead when the attempts read at claim time are spent, otherwise pending
\* again after a backoff.
Failed(row, by, spent, delay) ==
    IF ~Held(row, by) THEN row
    ELSE IF spent THEN Row("dead", row.runIn, row.attempts, 0, row.lockedBy)
    ELSE Row("pending", delay, row.attempts, 0, row.lockedBy)

\* POST /api/admin/jobs/:id/replay: a finished job back in line.
Replayable(row) == row.status \in {"dead", "done"}

\* Seeded fault of Replayed: the attempts are not reset.
ReplayedAttemptsKept(row) == Row("pending", 0, row.attempts, 0, NoOne)

Replayed(row) == NewRow(0)

\* One tick of the clock, as seen by a row.
Aged(row) ==
    Row(row.status,
        IF row.status = "pending" /\ row.runIn > -MaxLate THEN row.runIn - 1 ELSE row.runIn,
        row.attempts,
        IF row.status = "running" /\ row.lockAge <= Lease THEN row.lockAge + 1 ELSE row.lockAge,
        row.lockedBy)

=============================================================================
