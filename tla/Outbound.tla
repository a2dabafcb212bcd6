------------------------------ MODULE Outbound ------------------------------
(***************************************************************************)
(* Outbound delivery of one message to the recipients of one domain: the   *)
(* group that one 'outbound' job is about (apps/delivery).  The group's    *)
(* rows, its jobs, the delivery processes (each a queue worker running     *)
(* handle, and a sweeper running sweep beside it), the operators' actions  *)
(* (apps/api/src/admin-queue), the sender's cancel (apps/api/src/delivery),*)
(* freezing and thawing the credential, and the bounce notifications of    *)
(* SES.                                                                    *)
(*                                                                         *)
(* Every transaction is one step; a handler that reads, decides and writes *)
(* in several transactions takes several.  Transactions are READ COMMITTED *)
(* so an operator's SELECT and the UPDATE by id after it are two steps.    *)
(* Database work takes no time on the clock of leases, timeouts and retry  *)
(* delays: only Tick and the transport take time.                          *)
(*                                                                         *)
(* Left out: what is only displayed or logged (last reply, details of an   *)
(* attempt, Message-ID alias, audit rows).                                 *)
(***************************************************************************)
EXTENDS JobTable, FiniteSets, Sequences, FiniteSetsExt

CONSTANTS
    Recipients,
    Procs,              \* delivery processes
    Admins,             \* operators: each has one request under way at a time
    AttemptTimeout,     \* attemptTimeoutMs
    RetrySchedule,      \* retrySchedule: the delay after the n-th attempt
    Jitter,             \* the most a delay differs from the schedule
    MaxQueueAge,        \* MAX_QUEUE_AGE_MS
    DelayDsnAfter,      \* DELAY_DSN_AFTER_MS
    Notify,             \* the NOTIFY policy: a subset of {"failure", "delay"}
    NullSender,         \* is the envelope sender empty?
    SesConfigured,      \* is there an SES transport?
    SesClaims,          \* does SES claim the domain?
    AdminOps,           \* the operators' actions that happen
    OwnerCancels,       \* does the sender cancel recipients?
    SesNotifies,        \* does SES send bounce notifications?
    MaxAdmin, MaxFreezes, MaxFaults,    \* bounds on operators' requests and failures
    MaxGen,             \* bound on the generation of a job key
    MaxExtra            \* bound on jobs in line with keys used once

ASSUME OutboundAssumption ==
    /\ IsFiniteSet(Procs) /\ IsFiniteSet(Admins)
    /\ AttemptTimeout \in Nat /\ AttemptTimeout < Lease
    /\ RetrySchedule \in Seq(Nat \ {0}) /\ RetrySchedule # <<>>
    /\ Jitter \in Nat
    /\ MaxQueueAge \in Nat
    /\ DelayDsnAfter \in Nat
    /\ Notify \subseteq {"failure", "delay"}
    /\ NullSender \in BOOLEAN
    /\ SesConfigured \in BOOLEAN
    /\ SesClaims \in BOOLEAN
    /\ AdminOps \subseteq {"retry", "force-ses", "delete", "bounce"}
    /\ OwnerCancels \in BOOLEAN
    /\ SesNotifies \in BOOLEAN
    /\ MaxAdmin \in Nat /\ MaxFreezes \in Nat /\ MaxFaults \in Nat
    /\ MaxGen \in Nat /\ MaxExtra \in Nat

\* The bounds leave room: for a generation for every attempt there can be, and for a key
\* for every job with a key of its own and one more.  So they cut nothing off.
Room ==
    /\ MaxGen >= 1 + MaxQueueAge + MaxAdmin + 2 * Cardinality(Procs) * MaxFaults
    /\ MaxExtra > Cardinality(Procs) + MaxAdmin + MaxFreezes

VARIABLES
    \* outbound_recipient
    state,      \* RecipientState
    attempts,
    wait,       \* time until nextAttemptAt; 0 once due
    age,        \* time since updatedAt, kept where the code looks at it
    via,        \* the transport column
    delaySent, failSent,    \* delayDsnSentAt, failureDsnSentAt are set
    \* delivery_attempt: the open ones, as <<attempt number, time since startedAt>>
    open,
    queueAge,   \* time since the message's createdAt, up to MaxQueueAge
    jobs,       \* the group's jobs, by key
    frozen,     \* the credential's frozenAt is set
    suppressed, \* the address is on the suppression list
    \* the handler of each process
    pc, job, stuck, claimed, seen, current, timer, result, intents,
    \* the sweeper of each process
    spc, sStuck, sIntents,
    swept,      \* the sweep of this minute has started
    \* the operators
    admin,      \* the request of each: the action, and the rows it read
    thawing,    \* a thaw has cleared frozenAt and not yet enqueued the group
    adminCount, freezes,
    \* not in the code
    copies,     \* copies the remote accepted (2 stands for 2 or more)
    filed,      \* failure DSNs filed (2 stands for 2 or more)
    sesSaid,    \* SES has reported the recipient's bounce
    sesMarked,  \* that report moved the recipient to bounced
    faults

rowVars == <<state, attempts, wait, age, via, delaySent, failSent, open>>
handlerVars == <<pc, job, stuck, claimed, seen, current, timer, result, intents>>
sweepVars == <<spc, sStuck, sIntents, swept>>
operatorVars == <<admin, thawing, adminCount, freezes>>
ghostVars == <<copies, filed, sesSaid, sesMarked>>
vars == <<rowVars, queueAge, jobs, frozen, suppressed, handlerVars, sweepVars,
          operatorVars, ghostVars, faults>>

States == {"queued", "attempting", "deferred", "delivered", "bounced", "cancelled"}
Active == {"queued", "deferred"}            \* ACTIVE of admin-queue; what begin takes
Final == {"delivered", "bounced", "cancelled"}
Transports == {"direct", "ses"}
Outcomes == {"delivered", "temporary", "permanent", "unknownUser", "replyLost"}

\* Job keys: a generation (outboundJobKey), or one never used again
\* (sweep-<now>, thaw-<now>, admin-<uuid>).
Gens == {<<"gen", n>> : n \in 0..MaxGen}
Extras == {<<"extra", n>> : n \in 1..MaxExtra}
Keys == Gens \cup Extras

Nothing == "nothing"
Unclaimed == [r \in Recipients |-> Nothing]
Unseen == [tries |-> 0, delaySent |-> FALSE, failSent |-> FALSE]
NoAdmin == [op |-> Nothing, ids |-> {}]

Waiting == {r \in Recipients : state[r] \in Active}

\* enqueueOutbound, committed: every recipient queued, one job, generation 0.
Init ==
    /\ state = [r \in Recipients |-> "queued"]
    /\ attempts = [r \in Recipients |-> 0]
    /\ wait = [r \in Recipients |-> 0]
    /\ age = [r \in Recipients |-> 0]
    /\ via = [r \in Recipients |-> "direct"]
    /\ delaySent = [r \in Recipients |-> FALSE]
    /\ failSent = [r \in Recipients |-> FALSE]
    /\ open = [r \in Recipients |-> {}]
    /\ queueAge = 0
    /\ jobs = [k \in Keys |-> IF k = <<"gen", 0>> THEN NewRow(0) ELSE NoRow]
    /\ frozen = FALSE
    /\ suppressed = [r \in Recipients |-> FALSE]
    /\ pc = [p \in Procs |-> "idle"]
    /\ job = [p \in Procs |-> <<"gen", 0>>]
    /\ stuck = [p \in Procs |-> {}]
    /\ claimed = [p \in Procs |-> Unclaimed]
    /\ seen = [p \in Procs |-> [r \in Recipients |-> Unseen]]
    /\ current = [p \in Procs |-> Nothing]
    /\ timer = [p \in Procs |-> 0]
    /\ result = [p \in Procs |-> Unclaimed]
    /\ intents = [p \in Procs |-> {}]
    /\ spc = [p \in Procs |-> "idle"]
    /\ sStuck = [p \in Procs |-> {}]
    /\ sIntents = [p \in Procs |-> {}]
    /\ swept = [p \in Procs |-> FALSE]
    /\ admin = [a \in Admins |-> NoAdmin]
    /\ thawing = FALSE
    /\ adminCount = 0
    /\ freezes = 0
    /\ copies = [r \in Recipients |-> 0]
    /\ filed = [r \in Recipients |-> 0]
    /\ sesSaid = [r \in Recipients |-> FALSE]
    /\ sesMarked = [r \in Recipients |-> FALSE]
    /\ faults = 0

Fault == faults < MaxFaults /\ faults' = faults + 1

\* Ghost counters tell none, one and several apart.
Inc(n) == IF n < 2 THEN n + 1 ELSE n

-----------------------------------------------------------------------------
\* Jobs of the group.

\* A key that is never used again, for a job put in line now.
FreshKey == Min({n \in 1..MaxExtra : jobs[<<"extra", n>>].status = "absent"})

Enqueue(key, delay) ==
    [jobs EXCEPT ![key] = IF @.status = "absent" THEN NewRow(delay) ELSE @]

\* The key scheduleNext uses when it is given no generation.
Generation(st) == <<"gen", Max({attempts[r] : r \in {q \in Recipients : st[q] \in Active}})>>

\* scheduleNext, over the rows st and wt: a job at the earliest nextAttemptAt of
\* the recipients that wait, unless the key is taken.
ScheduleNext(st, wt, key) ==
    LET pending == {r \in Recipients : st[r] \in Active}
    IN  IF pending = {} THEN jobs
        ELSE Enqueue(key, Min({wt[r] : r \in pending}))

LiveJob == \E k \in Keys : jobs[k].status \in {"pending", "running"}

\* A finished job whose key is never used again need not be kept.
Settled(key, row) ==
    IF key \in Extras /\ row.status \in {"done", "dead"} THEN NoRow ELSE row

\* claim, both statements: JobQueue has them apart.
ClaimJob(p, k) ==
    /\ pc[p] = "idle"
    /\ Claimable(jobs[k])
    /\ \A j \in Keys : Claimable(jobs[j]) => jobs[k].runIn <= jobs[j].runIn
    /\ jobs' = [jobs EXCEPT ![k] = Claimed(@, p)]
    /\ job' = [job EXCEPT ![p] = k]
    /\ pc' = [pc EXCEPT ![p] = "recover"]
    /\ UNCHANGED <<rowVars, queueAge, frozen, suppressed, stuck, claimed, seen,
                   current, timer, result, intents, sweepVars, operatorVars,
                   ghostVars, faults>>

\* The handler's locals go out of scope.
Forget(p) ==
    /\ job' = [job EXCEPT ![p] = <<"gen", 0>>]
    /\ stuck' = [stuck EXCEPT ![p] = {}]
    /\ claimed' = [claimed EXCEPT ![p] = Unclaimed]
    /\ seen' = [seen EXCEPT ![p] = [r \in Recipients |-> Unseen]]
    /\ current' = [current EXCEPT ![p] = Nothing]
    /\ timer' = [timer EXCEPT ![p] = 0]
    /\ result' = [result EXCEPT ![p] = Unclaimed]
    /\ intents' = [intents EXCEPT ![p] = {}]

\* The handler has returned: complete.
CompleteJob(p) ==
    /\ pc[p] = "completing"
    /\ jobs' = [jobs EXCEPT ![job[p]] = Settled(job[p], Completed(@, p))]
    /\ pc' = [pc EXCEPT ![p] = "idle"]
    /\ Forget(p)
    /\ UNCHANGED <<rowVars, queueAge, frozen, suppressed, sweepVars, operatorVars,
                   ghostVars, faults>>

\* A statement of the handler fails, or is committed and its reply is lost; so does
\* enqueue, which looks its key up and then inserts it, when another transaction
\* inserts the same key in between:
\* the exception leaves handle, and fail puts the job back in line (maxAttempts
\* is 1000).
HandlerThrows(p) ==
    /\ pc[p] \notin {"idle", "booting"}
    /\ pc[p] = "transport" => timer[p] = 0     \* runTransport catches
    /\ Fault
    /\ \E delay \in Backoff(jobs[job[p]].attempts) :
          jobs' = [jobs EXCEPT ![job[p]] = Failed(@, p, FALSE, delay)]
    /\ pc' = [pc EXCEPT ![p] = "idle"]
    /\ Forget(p)
    /\ UNCHANGED <<rowVars, queueAge, frozen, suppressed, sweepVars, operatorVars, ghostVars>>

-----------------------------------------------------------------------------
\* recoverInterrupted, for the handler and for the sweeper: a read, and one
\* transaction per row it found.

\* Seeded fault: every attempt is presumed dead.
InterruptedAny == {r \in Recipients : state[r] = "attempting"}

Interrupted ==
    {r \in Recipients : /\ state[r] = "attempting"
                        /\ age[r] > Lease
                        /\ \A a \in open[r] : a[2] > Lease}

\* Seeded fault of RecoverRow: by id, whatever the state is now.
RecoverRowUnguarded(r) ==
    /\ state' = [state EXCEPT ![r] = "deferred"]
    /\ wait' = [wait EXCEPT ![r] = 0]
    /\ age' = [age EXCEPT ![r] = 0]
    /\ open' = [open EXCEPT ![r] = {}]
    /\ UNCHANGED <<attempts, via, delaySent, failSent>>

\* Guarded on the state only.
RecoverRow(r) ==
    IF state[r] = "attempting"
    THEN /\ state' = [state EXCEPT ![r] = "deferred"]
         /\ wait' = [wait EXCEPT ![r] = 0]
         /\ age' = [age EXCEPT ![r] = 0]
         /\ open' = [open EXCEPT ![r] = {}]
         /\ UNCHANGED <<attempts, via, delaySent, failSent>>
    ELSE UNCHANGED rowVars

Recover(p) ==
    /\ pc[p] = "recover"
    /\ stuck' = [stuck EXCEPT ![p] = Interrupted]
    /\ pc' = [pc EXCEPT ![p] = IF Interrupted = {} THEN "load" ELSE "recovering"]
    /\ UNCHANGED <<rowVars, queueAge, jobs, frozen, suppressed, job, claimed, seen,
                   current, timer, result, intents, sweepVars, operatorVars,
                   ghostVars, faults>>

RecoverOne(p, r) ==
    /\ pc[p] = "recovering"
    /\ r \in stuck[p]
    /\ RecoverRow(r)
    /\ stuck' = [stuck EXCEPT ![p] = @ \ {r}]
    /\ pc' = [pc EXCEPT ![p] = IF stuck[p] = {r} THEN "load" ELSE "recovering"]
    /\ UNCHANGED <<queueAge, jobs, frozen, suppressed, job, claimed, seen, current,
                   timer, result, intents, sweepVars, operatorVars, ghostVars, faults>>

-----------------------------------------------------------------------------
\* handle.

\* The message is read with its credential; a frozen one's group is held:
\* holdGroup changes only what the rows display, and no job is enqueued.
Load(p) ==
    /\ pc[p] = "load"
    /\ pc' = [pc EXCEPT ![p] = IF frozen THEN "completing" ELSE "begin"]
    /\ UNCHANGED <<rowVars, queueAge, jobs, frozen, suppressed, job, stuck, claimed,
                   seen, current, timer, result, intents, sweepVars, operatorVars,
                   ghostVars, faults>>

\* routeByClaims.
Route(enqueued) ==
    IF SesConfigured /\ SesClaims THEN "ses"
    ELSE IF enqueued = "ses" /\ ~SesConfigured THEN "direct" ELSE enqueued

Due == {r \in Waiting : wait[r] <= 0}

\* begin: every due recipient goes attempting with an open attempt.
Begin(p) ==
    /\ pc[p] = "begin"
    /\ Due # {}
    /\ state' = [r \in Recipients |-> IF r \in Due THEN "attempting" ELSE state[r]]
    /\ attempts' = [r \in Recipients |-> IF r \in Due THEN attempts[r] + 1 ELSE attempts[r]]
    /\ age' = [r \in Recipients |-> IF r \in Due THEN 0 ELSE age[r]]
    /\ open' = [r \in Recipients |->
                   IF r \in Due THEN open[r] \cup {<<attempts[r] + 1, 0>>} ELSE open[r]]
    /\ claimed' = [claimed EXCEPT ![p] =
                      [r \in Recipients |-> IF r \in Due THEN Route(via[r]) ELSE Nothing]]
    /\ seen' = [seen EXCEPT ![p] = [r \in Recipients |->
                   IF r \in Due
                   THEN [tries |-> attempts[r] + 1, delaySent |-> delaySent[r],
                         failSent |-> failSent[r]]
                   ELSE Unseen]]
    /\ \E r \in Due : current' = [current EXCEPT ![p] = Route(via[r])]
    /\ pc' = [pc EXCEPT ![p] = "transport"]
    /\ UNCHANGED <<wait, via, delaySent, failSent, queueAge, jobs, frozen, suppressed,
                   job, stuck, timer, result, intents, sweepVars, operatorVars,
                   ghostVars, faults>>

\* begin finds nothing due: the rest of the group is scheduled.
BeginNothing(p) ==
    /\ pc[p] = "begin"
    /\ Due = {}
    /\ jobs' = ScheduleNext(state, wait, Generation(state))
    /\ pc' = [pc EXCEPT ![p] = "completing"]
    /\ UNCHANGED <<rowVars, queueAge, frozen, suppressed, job, stuck, claimed, seen,
                   current, timer, result, intents, sweepVars, operatorVars,
                   ghostVars, faults>>

\* The recipients of the transport whose turn it is.
Batch(p) == {r \in Recipients : claimed[p][r] = current[p] /\ claimed[p][r] # Nothing}

\* runTransport returns, with one outcome per recipient: accepted, refused for
\* now or for good (5.1.x or another 5xx).  That the remote accepted and its
\* reply never came, by a reset or the abort at the timeout, is a fault.
TransportReturns(p) ==
    /\ pc[p] = "transport"
    /\ \E res \in [Batch(p) -> Outcomes] :
          /\ result' = [result EXCEPT ![p] =
                [r \in Recipients |-> IF r \in Batch(p) THEN res[r] ELSE Nothing]]
          /\ copies' = [r \in Recipients |->
                IF r \in Batch(p) /\ res[r] \in {"delivered", "replyLost"}
                THEN Inc(copies[r]) ELSE copies[r]]
          /\ IF \E r \in Batch(p) : res[r] = "replyLost" THEN Fault ELSE UNCHANGED faults
    /\ pc' = [pc EXCEPT ![p] = "commit"]
    /\ timer' = [timer EXCEPT ![p] = 0]
    /\ UNCHANGED <<rowVars, queueAge, jobs, frozen, suppressed, job, stuck, claimed,
                   seen, current, intents, sweepVars, operatorVars, filed, sesSaid,
                   sesMarked>>

\* baseDelayMs and jitteredDelayMs.
BaseDelay(tries) ==
    RetrySchedule[IF tries < 1 THEN 1
                  ELSE IF tries > Len(RetrySchedule) THEN Len(RetrySchedule) ELSE tries]

RetryDelays(tries) ==
    {d \in 1..(BaseDelay(tries) + Jitter) : d >= BaseDelay(tries) - Jitter}

\* nextState: the state, and the DSNs to send.
Expired == queueAge >= MaxQueueAge

\* Seeded fault of NextState: an attempt that failed without a reply counts as
\* delivered.
NextStateOptimistic(outcome) ==
    CASE outcome \in {"permanent", "unknownUser"} -> "bounced"
      [] outcome = "temporary" -> IF Expired THEN "bounced" ELSE "delivered"
      [] OTHER -> "delivered"

NextState(outcome) ==
    CASE outcome = "delivered" -> "delivered"
      [] outcome \in {"permanent", "unknownUser"} -> "bounced"
      [] OTHER -> IF Expired THEN "bounced" ELSE "deferred"

Earlier(a, b) == IF a < b THEN a ELSE b

\* Seeded fault of NextWait: the time left in the queue is taken backwards.
NextWaitSwapped(outcome, delay) ==
    IF NextState(outcome) = "deferred" THEN Earlier(delay, queueAge - MaxQueueAge) ELSE 0

NextWait(outcome, delay) ==
    IF NextState(outcome) = "deferred" THEN Earlier(delay, MaxQueueAge - queueAge) ELSE 0

DsnFor(r, outcome, was) ==
    CASE NextState(outcome) = "bounced" /\ "failure" \in Notify /\ ~was.failSent -> {<<"failure", r>>}
      [] /\ NextState(outcome) = "deferred"
         /\ "delay" \in Notify
         /\ ~was.delaySent
         /\ queueAge >= DelayDsnAfter -> {<<"delay", r>>}
      [] OTHER -> {}

\* After a batch and its DSNs: the next transport's batch, or the end of handle.
AfterBatch(p, left) ==
    IF left = {}
    THEN /\ pc' = [pc EXCEPT ![p] = "completing"]
         /\ current' = [current EXCEPT ![p] = Nothing]
    ELSE /\ pc' = [pc EXCEPT ![p] = "transport"]
         /\ \E t \in left : current' = [current EXCEPT ![p] = t]

Left(p) == {claimed[p][r] : r \in Recipients} \ {Nothing}

\* Seeded fault of Suppress: also when the outcome is dropped.
SuppressAnyway(r, p) == r \in Batch(p) /\ result[p][r] = "unknownUser"

\* shouldSuppress, of a row the outcome moves.
Suppress(r, p) ==
    r \in Batch(p) /\ state[r] = "attempting" /\ result[p][r] = "unknownUser"

\* The outcome transaction.  A row that is not attempting any more has been
\* taken by recovery or an operator: its outcome is dropped ('attempt-lost-race').
Commit(p) ==
    LET batch == Batch(p)
        moved == {r \in batch : state[r] = "attempting"}
    IN  /\ pc[p] = "commit"
        /\ \E delay \in [moved -> UNION {RetryDelays(seen[p][r].tries) : r \in moved}] :
              /\ \A r \in moved : delay[r] \in RetryDelays(seen[p][r].tries)
              /\ state' = [r \in Recipients |->
                             IF r \in moved THEN NextState(result[p][r]) ELSE state[r]]
              /\ wait' = [r \in Recipients |->
                            IF r \in moved THEN NextWait(result[p][r], delay[r]) ELSE wait[r]]
              /\ jobs' = ScheduleNext(state', wait', Generation(state'))
        /\ age' = [r \in Recipients |-> IF r \in moved THEN 0 ELSE age[r]]
        /\ open' = [r \in Recipients |->
                      IF r \in batch THEN {a \in open[r] : a[1] # seen[p][r].tries} ELSE open[r]]
        /\ suppressed' = [r \in Recipients |->
                            suppressed[r] \/ Suppress(r, p)]
        /\ intents' = [intents EXCEPT ![p] =
                          UNION {DsnFor(r, result[p][r], seen[p][r]) : r \in moved}]
        /\ claimed' = [claimed EXCEPT ![p] =
                          [r \in Recipients |-> IF r \in batch THEN Nothing ELSE @[r]]]
        /\ seen' = [seen EXCEPT ![p] =
                       [r \in Recipients |-> IF r \in batch THEN Unseen ELSE @[r]]]
        /\ result' = [result EXCEPT ![p] = Unclaimed]
        /\ current' = [current EXCEPT ![p] = Nothing]
        /\ pc' = [pc EXCEPT ![p] = "dsn"]
        /\ UNCHANGED <<attempts, via, delaySent, failSent, queueAge, frozen, job,
                       stuck, timer, sweepVars, operatorVars, ghostVars, faults>>

\* Seeded fault of EmitDsn: filed without the claim of failureDsnSentAt.
EmitDsnUnclaimed(intent) ==
    /\ delaySent' = [delaySent EXCEPT ![intent[2]] = @ \/ intent[1] = "delay"]
    /\ failSent' = [failSent EXCEPT ![intent[2]] = @ \/ intent[1] = "failure"]
    /\ filed' = [filed EXCEPT ![intent[2]] = IF intent[1] = "failure" THEN Inc(@) ELSE @]
    /\ UNCHANGED <<age, faults>>

\* emitDsn with the hook of dsn.ts: the claim of *DsnSentAt and the filing are one
\* transaction; nothing is filed for the null sender, whose DSN is marked sent
\* all the same.  The hook may fail, and then nothing is marked.
EmitDsn(intent) ==
    LET kind == intent[1]
        r == intent[2]
    IN  \/ /\ delaySent' = [delaySent EXCEPT ![r] = @ \/ kind = "delay"]
           /\ failSent' = [failSent EXCEPT ![r] = @ \/ kind = "failure"]
           /\ age' = [age EXCEPT ![r] =
                IF (kind = "delay" /\ delaySent[r]) \/ (kind = "failure" /\ failSent[r])
                THEN @ ELSE 0]
           /\ filed' = [filed EXCEPT ![r] =
                IF kind = "failure" /\ ~failSent[r] /\ ~NullSender THEN Inc(@) ELSE @]
           /\ UNCHANGED faults
        \/ /\ Fault
           /\ UNCHANGED <<delaySent, failSent, age, filed>>

HandlerDsn(p) ==
    /\ pc[p] = "dsn"
    /\ \E i \in intents[p] :
          /\ EmitDsn(i)
          /\ intents' = [intents EXCEPT ![p] = @ \ {i}]
    /\ UNCHANGED <<state, attempts, wait, via, open, queueAge, jobs, frozen,
                   suppressed, pc, job, stuck, claimed, seen, current, timer, result,
                   sweepVars, operatorVars, copies, sesSaid, sesMarked>>

BatchDone(p) ==
    /\ pc[p] = "dsn"
    /\ intents[p] = {}
    /\ AfterBatch(p, Left(p))
    /\ UNCHANGED <<rowVars, queueAge, jobs, frozen, suppressed, job, stuck, claimed,
                   seen, timer, result, intents, sweepVars, operatorVars, ghostVars,
                   faults>>

-----------------------------------------------------------------------------
\* sweep: on start, before the worker takes jobs, and every minute beside it.

SweepStep(p, next) ==
    /\ spc' = [spc EXCEPT ![p] = next]
    /\ UNCHANGED <<queueAge, frozen, suppressed, job, stuck, claimed, seen, current,
                   timer, result, intents, operatorVars, copies, sesSaid, sesMarked>>

\* The last statement of sweep: a process that was starting takes jobs now.
SweepEnds(p) == pc' = [pc EXCEPT ![p] = IF @ = "booting" THEN "idle" ELSE @]

SweepRecover(p) ==
    /\ spc[p] = "idle"
    /\ ~swept[p]
    /\ swept' = [swept EXCEPT ![p] = TRUE]
    /\ sStuck' = [sStuck EXCEPT ![p] = Interrupted]
    /\ SweepStep(p, IF Interrupted = {} THEN "orphans" ELSE "recovering")
    /\ UNCHANGED <<rowVars, jobs, pc, sIntents, filed, faults>>

SweepRecoverOne(p, r) ==
    /\ spc[p] = "recovering"
    /\ r \in sStuck[p]
    /\ RecoverRow(r)
    /\ sStuck' = [sStuck EXCEPT ![p] = @ \ {r}]
    /\ SweepStep(p, IF sStuck[p] = {r} THEN "orphans" ELSE "recovering")
    /\ UNCHANGED <<jobs, pc, sIntents, swept, filed, faults>>

\* The query for groups with work to do and no live job.
SweepOrphans(p) ==
    /\ spc[p] = "orphans"
    /\ SweepStep(p, IF Waiting # {} /\ ~LiveJob THEN "reschedule" ELSE "unsent")
    /\ UNCHANGED <<rowVars, jobs, pc, sStuck, sIntents, swept, filed, faults>>

\* Seeded fault of SweepReschedule: under the generation's key, which is taken.
SweepRescheduleTaken(p) ==
    /\ spc[p] = "reschedule"
    /\ jobs' = ScheduleNext(state, wait, Generation(state))
    /\ SweepStep(p, "unsent")
    /\ UNCHANGED <<rowVars, pc, sStuck, sIntents, swept, filed, faults>>

\* scheduleNext with a key of its own.
SweepReschedule(p) ==
    /\ spc[p] = "reschedule"
    /\ jobs' = ScheduleNext(state, wait, <<"extra", FreshKey>>)
    /\ SweepStep(p, "unsent")
    /\ UNCHANGED <<rowVars, pc, sStuck, sIntents, swept, filed, faults>>

\* Seeded fault of Unsent: the NOTIFY policy is read the wrong way round.
UnsentInverted ==
    {r \in Recipients : /\ state[r] = "bounced"
                        /\ ~failSent[r]
                        /\ age[r] > Lease
                        /\ "failure" \notin Notify}

\* The query for bounced recipients whose failure DSN was never marked sent.
Unsent ==
    {r \in Recipients : /\ state[r] = "bounced"
                        /\ ~failSent[r]
                        /\ age[r] > Lease
                        /\ "failure" \in Notify}

SweepUnsent(p) ==
    /\ spc[p] = "unsent"
    /\ sIntents' = [sIntents EXCEPT ![p] = {<<"failure", r>> : r \in Unsent}]
    /\ SweepStep(p, IF Unsent = {} THEN "idle" ELSE "emitting")
    /\ IF Unsent = {} THEN SweepEnds(p) ELSE UNCHANGED pc
    /\ UNCHANGED <<rowVars, jobs, sStuck, swept, filed, faults>>

SweepDsn(p) ==
    /\ spc[p] = "emitting"
    /\ \E i \in sIntents[p] :
          /\ EmitDsn(i)
          /\ sIntents' = [sIntents EXCEPT ![p] = @ \ {i}]
          /\ SweepStep(p, IF sIntents[p] = {i} THEN "idle" ELSE "emitting")
          /\ IF sIntents[p] = {i} THEN SweepEnds(p) ELSE UNCHANGED pc
    /\ UNCHANGED <<state, attempts, wait, via, open, jobs, sStuck, swept>>

\* A statement of sweep fails: 'sweep-error' is logged.
SweepThrows(p) ==
    /\ spc[p] # "idle"
    /\ Fault
    /\ sStuck' = [sStuck EXCEPT ![p] = {}]
    /\ sIntents' = [sIntents EXCEPT ![p] = {}]
    /\ SweepStep(p, "idle")
    /\ SweepEnds(p)
    /\ UNCHANGED <<rowVars, jobs, swept, filed>>

\* The process dies with its handler and its sweeper, and starts again.
Crash(p) ==
    /\ pc[p] \notin {"idle", "booting"} \/ spc[p] # "idle"
    /\ Fault
    /\ pc' = [pc EXCEPT ![p] = "booting"]
    /\ Forget(p)
    /\ spc' = [spc EXCEPT ![p] = "idle"]
    /\ sStuck' = [sStuck EXCEPT ![p] = {}]
    /\ sIntents' = [sIntents EXCEPT ![p] = {}]
    /\ swept' = [swept EXCEPT ![p] = FALSE]
    /\ UNCHANGED <<rowVars, queueAge, jobs, frozen, suppressed, operatorVars, ghostVars>>

-----------------------------------------------------------------------------
\* Operators, and SES.

Elsewhere == <<queueAge, handlerVars, sweepVars>>

\* The credential is frozen: by the daily cap or by an administrator.
Freeze ==
    /\ ~frozen
    /\ freezes < MaxFreezes
    /\ frozen' = TRUE
    /\ freezes' = freezes + 1
    /\ UNCHANGED <<rowVars, jobs, suppressed, admin, thawing, adminCount, ghostVars,
                   faults, Elsewhere>>

\* thawCredential's transaction.
Thaw ==
    /\ frozen
    /\ ~thawing
    /\ frozen' = FALSE
    /\ thawing' = TRUE
    /\ UNCHANGED <<rowVars, jobs, suppressed, admin, adminCount, freezes, ghostVars,
                   faults, Elsewhere>>

\* reenqueueHeld, after it; lost if the process dies in between.
ThawEnqueue ==
    /\ thawing
    /\ thawing' = FALSE
    /\ \/ /\ jobs' = IF Waiting = {} THEN jobs ELSE Enqueue(<<"extra", FreshKey>>, 0)
          /\ UNCHANGED faults
       \/ /\ Fault
          /\ UNCHANGED jobs
    /\ UNCHANGED <<rowVars, frozen, suppressed, admin, adminCount, freezes, ghostVars,
                   Elsewhere>>

\* An operator's action reads which recipients are queued or deferred: of one
\* recipient, or of the whole message or domain.  Nothing keeps two operators apart.
AdminRead(a, op) ==
    /\ op \in AdminOps
    /\ op = "force-ses" => SesConfigured
    /\ admin[a] = NoAdmin
    /\ adminCount < MaxAdmin
    /\ Waiting # {}
    /\ \E ids \in {{r} : r \in Waiting} \cup {Waiting} :
          admin' = [admin EXCEPT ![a] = [op |-> op, ids |-> ids]]
    /\ adminCount' = adminCount + 1
    /\ UNCHANGED <<rowVars, jobs, frozen, suppressed, thawing, freezes, ghostVars,
                   faults, Elsewhere>>

Chosen(a, f, value) == [r \in Recipients |-> IF r \in admin[a].ids THEN value ELSE f[r]]

\* The response is sent.
Answered(a) == admin' = [admin EXCEPT ![a] = NoAdmin]

\* doRetry and doForceSes: by id, whatever the state is now; then nudgeGroups.
AdminNudge(a) ==
    /\ admin[a].op \in {"retry", "force-ses"}
    /\ wait' = Chosen(a, wait, 0)
    /\ age' = Chosen(a, age, 0)
    /\ via' = IF admin[a].op = "force-ses" THEN Chosen(a, via, "ses") ELSE via
    /\ jobs' = Enqueue(<<"extra", FreshKey>>, 0)
    /\ Answered(a)
    /\ UNCHANGED <<state, attempts, delaySent, failSent, open, frozen, suppressed,
                   thawing, adminCount, freezes, ghostVars, faults, Elsewhere>>

\* doDelete: by id, whatever the state is now.
AdminDelete(a) ==
    /\ admin[a].op = "delete"
    /\ state' = Chosen(a, state, "cancelled")
    /\ age' = Chosen(a, age, 0)
    /\ Answered(a)
    /\ UNCHANGED <<attempts, wait, via, delaySent, failSent, open, jobs, frozen,
                   suppressed, thawing, adminCount, freezes, ghostVars, faults, Elsewhere>>

\* doBounce: bounceOne for every recipient read, in one transaction: the DSN is
\* claimed and filed, and the row is bounced whatever its state is now.  When the
\* message's headers could not be read the DSN is left to the sweep.
AdminBounce(a) ==
    /\ admin[a].op = "bounce"
    /\ state' = Chosen(a, state, "bounced")
    /\ age' = Chosen(a, age, 0)
    /\ \/ /\ failSent' = IF NullSender THEN failSent ELSE Chosen(a, failSent, TRUE)
          /\ filed' = [r \in Recipients |->
                         IF r \in admin[a].ids /\ ~failSent[r] /\ ~NullSender
                         THEN Inc(filed[r]) ELSE filed[r]]
          /\ UNCHANGED faults
       \/ /\ Fault
          /\ UNCHANGED <<failSent, filed>>
    /\ Answered(a)
    /\ UNCHANGED <<attempts, wait, via, delaySent, open, jobs, frozen, suppressed,
                   thawing, adminCount, freezes, copies, sesSaid, sesMarked, Elsewhere>>

\* The rest of a request.
AdminWrite(a) == AdminNudge(a) \/ AdminDelete(a) \/ AdminBounce(a)

\* cancelRecipient, for the sender: guarded on the state as it is now.
Cancel(r) ==
    /\ OwnerCancels
    /\ state[r] \in Active
    /\ state' = [state EXCEPT ![r] = "cancelled"]
    /\ age' = [age EXCEPT ![r] = 0]
    /\ UNCHANGED <<attempts, wait, via, delaySent, failSent, open, jobs, frozen,
                   suppressed, operatorVars, ghostVars, faults, Elsewhere>>

\* recordAsyncBounce for a signed, permanent SES bounce: once per recipient, and
\* modelled where SES claims the domain, so that every copy went through it.
\* hard says that it is 5.1.x or without status.
SesBounce(r, hard) ==
    /\ SesNotifies
    /\ SesConfigured /\ SesClaims
    /\ copies[r] > 0
    /\ ~sesSaid[r]
    /\ sesSaid' = [sesSaid EXCEPT ![r] = TRUE]
    /\ IF state[r] = "delivered"
       THEN /\ state' = [state EXCEPT ![r] = "bounced"]
            /\ age' = [age EXCEPT ![r] = 0]
            /\ sesMarked' = [sesMarked EXCEPT ![r] = TRUE]
       ELSE UNCHANGED <<state, age, sesMarked>>
    /\ suppressed' = [suppressed EXCEPT ![r] = @ \/ (hard /\ state[r] # "bounced")]
    /\ UNCHANGED <<attempts, wait, via, delaySent, failSent, open, jobs, frozen,
                   operatorVars, copies, filed, faults, Elsewhere>>

-----------------------------------------------------------------------------
\* Time passes while handlers are idle or in a transport, which the abort ends
\* at the timeout.
Tick ==
    /\ \A p \in Procs : /\ spc[p] = "idle"
                         /\ \/ pc[p] = "idle"
                            \/ pc[p] = "transport" /\ timer[p] < AttemptTimeout
    /\ \A a \in Admins : admin[a] = NoAdmin
    /\ ~thawing
    /\ jobs' = [k \in Keys |-> Aged(jobs[k])]
    /\ wait' = [r \in Recipients |->
                  IF state[r] \in Active /\ wait[r] > 0 THEN wait[r] - 1 ELSE wait[r]]
    /\ age' = [r \in Recipients |->
                 IF state[r] \in {"attempting", "bounced"} /\ age[r] <= Lease
                 THEN age[r] + 1 ELSE age[r]]
    /\ open' = [r \in Recipients |->
                  {<<a[1], IF a[2] <= Lease THEN a[2] + 1 ELSE a[2]>> : a \in open[r]}]
    /\ queueAge' = IF queueAge < MaxQueueAge THEN queueAge + 1 ELSE queueAge
    /\ swept' = [p \in Procs |-> FALSE]
    /\ timer' = [p \in Procs |-> IF pc[p] = "transport" THEN timer[p] + 1 ELSE timer[p]]
    /\ UNCHANGED <<state, attempts, via, delaySent, failSent, frozen, suppressed, pc,
                   job, stuck, claimed, seen, current, result, intents, spc, sStuck,
                   sIntents, operatorVars, ghostVars, faults>>

-----------------------------------------------------------------------------
Handle(p) ==
    \/ \E k \in Keys : ClaimJob(p, k)
    \/ Recover(p)
    \/ \E r \in Recipients : RecoverOne(p, r)
    \/ Load(p)
    \/ Begin(p)
    \/ BeginNothing(p)
    \/ TransportReturns(p)
    \/ Commit(p)
    \/ HandlerDsn(p)
    \/ BatchDone(p)
    \/ CompleteJob(p)

Sweep(p) ==
    \/ SweepRecover(p)
    \/ \E r \in Recipients : SweepRecoverOne(p, r)
    \/ SweepOrphans(p)
    \/ SweepReschedule(p)
    \/ SweepUnsent(p)
    \/ SweepDsn(p)

Operator ==
    \/ Freeze
    \/ Thaw
    \/ ThawEnqueue
    \/ \E a \in Admins, op \in AdminOps : AdminRead(a, op)
    \/ \E a \in Admins : AdminWrite(a)
    \/ \E r \in Recipients : Cancel(r)

Next ==
    \/ \E p \in Procs : Handle(p)
    \/ \E p \in Procs : Sweep(p)
    \/ \E p \in Procs : HandlerThrows(p)
    \/ \E p \in Procs : SweepThrows(p)
    \/ \E p \in Procs : Crash(p)
    \/ Operator
    \/ \E r \in Recipients, hard \in BOOLEAN : SesBounce(r, hard)
    \/ Tick

Spec == Init /\ [][Next]_vars

\* Processes keep running: an idle worker polls, a transport returns, the sweep
\* runs every minute; the clock goes on, and a request that began goes on.
\* Nobody has to thaw a credential.
FairSpec ==
    /\ Spec
    /\ \A p \in Procs : WF_vars(Handle(p)) /\ WF_vars(Sweep(p))
    /\ WF_vars(ThawEnqueue)
    /\ \A a \in Admins : WF_vars(AdminWrite(a))
    /\ WF_vars(Tick)

-----------------------------------------------------------------------------
\* The variables have their types; generations stay below the bound and there
\* is always a free key for one more job.
TypeOK ==
    /\ state \in [Recipients -> States]
    /\ attempts \in [Recipients -> 0..MaxGen]
    /\ wait \in [Recipients -> Nat]
    /\ age \in [Recipients -> 0..(Lease + 1)]
    /\ via \in [Recipients -> Transports]
    /\ delaySent \in [Recipients -> BOOLEAN]
    /\ failSent \in [Recipients -> BOOLEAN]
    /\ \A r \in Recipients : open[r] \subseteq (1..MaxGen) \X (0..(Lease + 1))
    /\ queueAge \in 0..MaxQueueAge
    /\ \A k \in Keys : jobs[k].lockedBy \in Procs \cup {NoOne}
    /\ \E k \in Extras : jobs[k].status = "absent"
    /\ pc \in [Procs -> {"booting", "idle", "recover", "recovering", "load", "begin",
                          "transport", "commit", "dsn", "completing"}]
    /\ claimed \in [Procs -> [Recipients -> Transports \cup {Nothing}]]
    /\ result \in [Procs -> [Recipients -> Outcomes \cup {Nothing}]]
    /\ timer \in [Procs -> 0..AttemptTimeout]
    /\ spc \in [Procs -> {"idle", "recovering", "orphans", "reschedule", "unsent", "emitting"}]
    /\ faults \in 0..MaxFaults

\* The attempt of a recipient a handler is working on.
InFlight(p, r) == claimed[p][r] # Nothing

\* While a handler has an attempt under way the recipient stays attempting and
\* the attempt open: what the transport returns is never dropped, and nobody
\* else attempts the recipient (begin's guard, recovery's lease).
InFlightKept ==
    \A p \in Procs, r \in Recipients :
        InFlight(p, r) => /\ state[r] = "attempting"
                          /\ \E a \in open[r] : a[1] = seen[p][r].tries

\* A recipient is marked delivered only when the remote has accepted a copy,
\* through crashes, lost replies, recoveries and operators.
DeliveredHasCopy ==
    \A r \in Recipients : state[r] = "delivered" => copies[r] > 0

\* At most one failure DSN is filed for a recipient, by whichever of handlers,
\* sweepers and operators comes first, and what is filed is marked so.
OneFailureDsn ==
    \A r \in Recipients : /\ filed[r] <= 1
                          /\ filed[r] > 0 => failSent[r]

\* The sender is told of a failure, and the address suppressed, only when the
\* recipient has bounced: a late outcome, a recovery or a retry never moves the
\* row on afterwards.
BounceIsLast ==
    \A r \in Recipients : filed[r] > 0 \/ suppressed[r] => state[r] = "bounced"

\* A final state is final (cancel.ts): no crash, recovery or late outcome moves
\* a recipient out of it.
FinalIsFinal ==
    [][\A r \in Recipients : state[r] \in Final => state'[r] = state[r]]_vars

\* A bounce that has read the recipient is still to be carried out.
BounceOpen(r) == \E a \in Admins : admin[a].op = "bounce" /\ r \in admin[a].ids

\* What the sender cancelled or an operator deleted stays so: the outcome of an attempt
\* that was under way, its recovery, a retry or the SES feedback that comes after does
\* not bring the recipient back into line or give it another end.  One thing does: a
\* bounce that read the recipient before (doBounce reads outside its transaction and
\* updates by id).  Once none is open, none can come.
CancelledStays ==
    [][\A r \in Recipients :
          state[r] = "cancelled" =>
              \/ state'[r] = "cancelled" /\ (BounceOpen(r)' => BounceOpen(r))
              \/ state'[r] = "bounced" /\ BounceOpen(r)]_vars

\* Without failures, and when nobody deletes, bounces or cancels, detailed delivery
\* implements the abstract life of a recipient: exactly one copy, whatever second
\* jobs an operator's retry puts in line beside the one that runs.
Lifecycle == INSTANCE RecipientLifecycle WITH reports <- filed

ImplementsLifecycle == Lifecycle!Spec

\* Every recipient ends in a final state, unless its credential stays frozen.
Settles ==
    <>[]~frozen => \A r \in Recipients : <>[](state[r] \in Final)

\* Every bounce the sender asked to hear of is reported, or marked so for the
\* null sender.
BouncesReported ==
    \A r \in Recipients :
        state[r] = "bounced" /\ "failure" \in Notify ~> failSent[r]

=============================================================================
