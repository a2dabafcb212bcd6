------------------------------ MODULE Inbound ------------------------------
(***************************************************************************)
(* The life of one received message: smtp-in spools it with its job in one *)
(* transaction (apps/smtp-in/src/data.ts), workers run the pipeline of     *)
(* stages on it (apps/worker/src/pipeline.ts and stages/), operators ask   *)
(* for replays, the user expunges copies, and the sweep threads what a     *)
(* crash left without a thread.                                            *)
(*                                                                         *)
(* The job's rows are those of JobTable.  Here a claim is one step (the    *)
(* module JobQueue takes it apart) and time is only the lease: LeaseLapses *)
(* ages the claims.  A restarted process keeps its name.                   *)
(*                                                                         *)
(* What the stages verify, parse, classify, notify and feedback compute is *)
(* left out: they read, or write what other modules own, and then record   *)
(* their marker.  So are the verdict, search index and push of a copy.     *)
(***************************************************************************)
EXTENDS JobTable, FiniteSets, FiniteSetsExt, Sequences

CONSTANTS
    Accounts,       \* the accounts the recipients resolve to (planCopies)
    Targets,        \* how many mailboxes Sieve files each account's copy into
    Vacation,       \* the accounts whose script answers the sender
    Workers,
    Original,       \* the job smtp-in enqueues: inbound:<id>
    ReplayFrom,     \* the replay jobs, and the stage each one replays from
    MaxAttempts,    \* maxAttempts of a job
    MaxFaults,      \* bound on crashes, exceptions and outlived leases
    MaxOthers       \* bound on the user's expunges and the operator's requeues

Replays == DOMAIN ReplayFrom
Jobs == {Original} \cup Replays

STAGES == <<"verify", "parse", "classify", "sieve", "file", "notify", "feedback">>
StageNames == {STAGES[i] : i \in 1..7}

ASSUME InboundAssumption ==
    /\ IsFiniteSet(Accounts) /\ Accounts # {}
    /\ Targets \in [Accounts -> Nat \ {0}]
    /\ Vacation \subseteq Accounts
    /\ NoOne \notin Workers
    /\ Original \notin Replays
    /\ ReplayFrom \in [Replays -> StageNames]
    /\ MaxAttempts \in Nat \ {0}
    /\ MaxFaults \in Nat /\ MaxOthers \in Nat

VARIABLES
    \* inbound_message
    state,      \* InboundState; "none" before DATA
    marked,     \* verdicts.pipeline.stages: the stages with a marker
    applied,    \* verdicts.pipeline.replays: the replay jobs applied
    jobs,       \* the job table: key -> row
    \* the mailboxes
    copies,     \* the message rows of this spool row, as <<account, number>>
    threaded,   \* those with a threadId
    refcount,   \* the blob's
    spoolRef,   \* the spool row holds a reference (blobReleasedAt is null)
    replied,    \* sieve_vacation_reply: the accounts with a row for this message
    \* each worker's run of handle
    pc, job, tries,
    fresh,      \* the state loaded first was not processing
    at,         \* the stage of the for loop
    left,       \* accounts (sieve) or copies (file) the stage has still to treat
    sweeping,   \* the copy the sweep has looked at and is about to thread
    releasing,  \* retention has found no copy and is about to release the spool
    \* not in the code
    ever,       \* the accounts a filing has committed for
    numbered,   \* how many copies each account has been given so far
    sent,       \* vacation replies queued (2 stands for 2 or more)
    outlived,   \* a lease has lapsed under a worker that lives
    unsaid,     \* handle's catch has thrown on the last attempt of a job
    faults, others

workerVars == <<pc, job, tries, fresh, at, left>>
mailVars == <<copies, threaded, refcount, spoolRef, ever, numbered>>
replyVars == <<replied, sent>>
bounds == <<releasing, outlived, unsaid, faults, others>>
vars == <<state, marked, applied, jobs, mailVars, replyVars, workerVars, sweeping, bounds>>

CopiesOf(a) == {c \in copies : c[1] = a}

Init ==
    /\ state = "none"
    /\ marked = {}
    /\ applied = {}
    /\ jobs = [j \in Jobs |-> NoRow]
    /\ copies = {} /\ threaded = {}
    /\ refcount = 0 /\ spoolRef = FALSE /\ releasing = FALSE
    /\ outlived = FALSE /\ unsaid = FALSE
    /\ replied = {}
    /\ pc = [w \in Workers |-> "idle"]
    /\ job = [w \in Workers |-> Original]
    /\ tries = [w \in Workers |-> 0]
    /\ fresh = [w \in Workers |-> FALSE]
    /\ at = [w \in Workers |-> 1]
    /\ left = [w \in Workers |-> {}]
    /\ sweeping = {}
    /\ ever = {}
    /\ numbered = [a \in Accounts |-> 0]
    /\ sent = [a \in Accounts |-> 0]
    /\ faults = 0 /\ others = 0

-----------------------------------------------------------------------------
\* Reception.

\* The next n copies of account a.
NewCopies(a, n) == {<<a, k>> : k \in (numbered[a] + 1)..(numbered[a] + n)}

\* Seeded fault of File: the copies reported are counted, not the ones created.
FileCountsReported(A, n) ==
    LET new == UNION {NewCopies(a, n[a]) : a \in A}
    IN  /\ copies' = copies \cup new
        /\ refcount' = refcount + Cardinality(copies')
        /\ numbered' = [a \in Accounts |-> IF a \in A THEN numbered[a] + n[a] ELSE numbered[a]]

\* File n[a] copies for each account of A.
File(A, n) ==
    LET new == UNION {NewCopies(a, n[a]) : a \in A}
    IN  /\ copies' = copies \cup new
        /\ refcount' = refcount + Cardinality(new)
        /\ numbered' = [a \in Accounts |-> IF a \in A THEN numbered[a] + n[a] ELSE numbered[a]]

\* createAcceptMessage's transaction: the blob (whose first reference is the
\* spool row's), the spool row and its job.
Accept ==
    /\ state = "none"
    /\ state' = "spooled"
    /\ refcount' = 1 /\ spoolRef' = TRUE
    /\ jobs' = [jobs EXCEPT ![Original] = NewRow(0)]
    /\ UNCHANGED <<marked, applied, copies, threaded, ever, numbered, replyVars,
                   workerVars, sweeping, bounds>>

\* The same for a message refused with 5xx: one copy per account in Rejects, no job.
Reject ==
    /\ state = "none"
    /\ state' = "rejected"
    /\ copies' = UNION {NewCopies(a, 1) : a \in Accounts}
    /\ refcount' = 1 + Cardinality(Accounts) /\ spoolRef' = TRUE
    /\ numbered' = [a \in Accounts |-> 1]
    /\ UNCHANGED <<marked, applied, jobs, threaded, ever, replyVars, workerVars,
                   sweeping, bounds>>

-----------------------------------------------------------------------------
\* The operator and the user.

Others == others < MaxOthers /\ others' = others + 1

\* replayInbound: a job of its own for the stages from ReplayFrom[r] on.
ReplayInbound(r) ==
    /\ state \notin {"none", "rejected"}
    /\ jobs[r].status = "absent"
    /\ jobs' = [jobs EXCEPT ![r] = NewRow(0)]
    /\ UNCHANGED <<state, marked, applied, mailVars, replyVars, workerVars, sweeping, bounds>>

\* POST /api/admin/jobs/:id/replay puts a finished job back in line.
Requeue(j) ==
    /\ Others
    /\ Replayable(jobs[j])
    /\ jobs' = [jobs EXCEPT ![j] = Replayed(@)]
    /\ UNCHANGED <<state, marked, applied, mailVars, replyVars, workerVars, sweeping,
                   releasing, outlived, unsaid, faults>>

\* The user expunges a copy, which gives its reference back.
Expunge(c) ==
    /\ Others
    /\ copies' = copies \ {c}
    /\ threaded' = threaded \ {c}
    /\ refcount' = refcount - 1
    /\ UNCHANGED <<state, marked, applied, jobs, spoolRef, ever, numbered, replyVars,
                   workerVars, sweeping, releasing, outlived, unsaid, faults>>

-----------------------------------------------------------------------------
\* The worker: run, up to the loop over the stages.

Goto(w, place) == pc' = [pc EXCEPT ![w] = place]

\* claim, and the first load of the row.  A rejected row has no job, so run's
\* early return for one is never taken.
Claim(w, j) ==
    /\ pc[w] = "idle"
    /\ Claimable(jobs[j])
    /\ jobs' = [jobs EXCEPT ![j] = Claimed(@, w)]
    /\ job' = [job EXCEPT ![w] = j]
    /\ tries' = [tries EXCEPT ![w] = jobs[j].attempts + 1]
    /\ fresh' = [fresh EXCEPT ![w] = state # "processing"]
    /\ Goto(w, IF j \in Replays THEN "replaying" ELSE "starting")
    /\ UNCHANGED <<state, marked, applied, mailVars, replyVars, at, left, sweeping, bounds>>

\* resetFrom: the markers of the stages before `from` stay.
ResetFrom(from) == marked \ {STAGES[i] : i \in {k \in 1..7 : \E m \in 1..k : STAGES[m] = from}}

\* applyReplay, once per job.
ApplyReplay(w) ==
    /\ pc[w] = "replaying"
    /\ marked' = IF job[w] \in applied THEN marked ELSE ResetFrom(ReplayFrom[job[w]])
    /\ applied' = applied \cup {job[w]}
    /\ Goto(w, "starting")
    /\ UNCHANGED <<state, jobs, mailVars, replyVars, job, tries, fresh, at, left, sweeping, bounds>>

\* The row is processing from here on, unless it was when it was loaded.
Start(w) ==
    /\ pc[w] = "starting"
    /\ state' = IF fresh[w] THEN "processing" ELSE state
    /\ at' = [at EXCEPT ![w] = 1]
    /\ fresh' = [fresh EXCEPT ![w] = FALSE]
    /\ Goto(w, "next")
    /\ UNCHANGED <<marked, applied, jobs, mailVars, replyVars, job, tries, left, sweeping, bounds>>

-----------------------------------------------------------------------------
\* The loop over the stages.

\* What need() asks of the markers loaded before the stage.
Needs == [verify |-> {}, parse |-> {}, classify |-> {"verify", "parse"},
          sieve |-> {"parse", "classify"}, file |-> {"parse", "classify", "sieve"},
          notify |-> {"file"}, feedback |-> {"verify"}]

\* Every stage but notify reads the blob (sieve where there is a script).
ReadsBlob(stage) == stage # "notify" /\ (stage = "sieve" => Vacation # {})

CanRun(stage) == Needs[stage] \subseteq marked /\ (ReadsBlob(stage) => refcount > 0)

\* One turn: load the row, skip a marked stage, leave the loop after the last one.
\* A stage whose needs a replay has cleared meanwhile, or whose blob is gone,
\* throws before it does anything.  sendVacation's look for an earlier reply comes right after the load.
NextStage(w) ==
    /\ pc[w] = "next"
    /\ \/ /\ at[w] = 8
          /\ Goto(w, "finishing")
          /\ UNCHANGED <<at, left>>
       \/ /\ at[w] <= 7 /\ STAGES[at[w]] \in marked
          /\ at' = [at EXCEPT ![w] = @ + 1]
          /\ UNCHANGED <<pc, left>>
       \/ /\ at[w] <= 7 /\ STAGES[at[w]] \notin marked
          /\ Goto(w, IF CanRun(STAGES[at[w]]) THEN STAGES[at[w]] ELSE "catch")
          /\ left' = [left EXCEPT ![w] = IF STAGES[at[w]] = "sieve" THEN Vacation \ replied ELSE {}]
          /\ UNCHANGED at
    /\ UNCHANGED <<state, marked, applied, jobs, mailVars, replyVars, job, tries, fresh,
                   sweeping, bounds>>

\* record: the marker joins whatever the row has by then.
Record(w) ==
    /\ pc[w] \in StageNames \ {"file"}
    /\ left[w] = {}
    /\ marked' = marked \cup {pc[w]}
    /\ at' = [at EXCEPT ![w] = @ + 1]
    /\ Goto(w, "next")
    /\ UNCHANGED <<state, applied, jobs, mailVars, replyVars, job, tries, fresh, left,
                   sweeping, bounds>>

\* The loops over accounts and copies have an order.
First(w) == CHOOSE x \in left[w] : TRUE

\* Seeded fault of SendReply: the row is not in the transaction of the submission.
SendReplyUnclaimed(w) ==
    LET a == First(w) IN
    /\ pc[w] = "sieve" /\ left[w] # {}
    /\ replied' = replied \cup {a}
    /\ sent' = [sent EXCEPT ![a] = Min({@ + 1, 2})]
    /\ left' = [left EXCEPT ![w] = @ \ {a}]
    /\ UNCHANGED <<state, marked, applied, jobs, mailVars, pc, job, tries, fresh, at, sweeping, bounds>>

\* acceptSubmission with the row inside its transaction: a second row is a unique
\* violation, which rolls the submission back ("a concurrent run sent it").
SendReply(w) ==
    LET a == First(w) IN
    /\ pc[w] = "sieve" /\ left[w] # {}
    /\ replied' = replied \cup {a}
    /\ sent' = IF a \in replied THEN sent ELSE [sent EXCEPT ![a] = Min({@ + 1, 2})]
    /\ left' = [left EXCEPT ![w] = @ \ {a}]
    /\ UNCHANGED <<state, marked, applied, jobs, mailVars, pc, job, tries, fresh, at, sweeping, bounds>>

\* Seeded fault of Missing: the marker is trusted, not the rows.
MissingUnchecked == Accounts

\* The accounts that have no copy of the spool row in any mailbox.
Missing == {a \in Accounts : CopiesOf(a) = {}}

\* Seeded fault of FileStage: the marker is recorded before the copies are filed.
FileStageMarkFirst(w) ==
    /\ pc[w] = "file"
    /\ refcount > 0
    /\ \/ /\ "file" \notin marked
          /\ marked' = marked \cup {"file"}
          /\ UNCHANGED <<copies, refcount, numbered, ever, left, pc>>
       \/ /\ "file" \in marked
          /\ File(Missing, Targets)
          /\ ever' = Accounts
          /\ left' = [left EXCEPT ![w] = copies' \ copies]
          /\ Goto(w, "threading")
          /\ UNCHANGED marked
    /\ UNCHANGED <<state, applied, jobs, threaded, spoolRef, replyVars, job, tries, fresh,
                   at, sweeping, bounds>>

\* The transaction of fileStage, under the spool row's lock: the copies of the
\* accounts that have none, their references and the marker.
FileStage(w) ==
    /\ pc[w] = "file"
    /\ refcount > 0
    /\ File(Missing, Targets)
    /\ ever' = Accounts
    /\ marked' = marked \cup {"file"}
    /\ left' = [left EXCEPT ![w] = copies' \ copies]
    /\ Goto(w, "threading")
    /\ UNCHANGED <<state, applied, jobs, threaded, spoolRef, replyVars, job, tries, fresh,
                   at, sweeping, bounds>>

\* The blob vanished before filing: the transaction throws.
BlobVanished(w) ==
    /\ pc[w] = "file"
    /\ refcount = 0
    /\ Goto(w, "catch")
    /\ UNCHANGED <<state, marked, applied, jobs, mailVars, replyVars, job, tries, fresh, at,
                   left, sweeping, bounds>>

\* assignThread under the account's lock: it does not ask whether the copy has a
\* thread by now.
AssignThread(c) ==
    /\ threaded' = threaded \cup {c}
    /\ UNCHANGED <<copies, refcount, spoolRef, ever, numbered>>

\* After the commit: the copies this run created, unless they are threaded.
LookAtThread(w) ==
    /\ pc[w] = "threading"
    /\ \/ /\ left[w] = {}
          /\ at' = [at EXCEPT ![w] = @ + 1]
          /\ Goto(w, "next")
          /\ UNCHANGED left
       \/ /\ left[w] # {} /\ First(w) \in threaded
          /\ left' = [left EXCEPT ![w] = @ \ {First(w)}]
          /\ UNCHANGED <<pc, at>>
       \/ /\ left[w] # {} /\ First(w) \notin threaded
          /\ Goto(w, "assigning")
          /\ UNCHANGED <<left, at>>
    /\ UNCHANGED <<state, marked, applied, jobs, mailVars, replyVars, job, tries, fresh,
                   sweeping, bounds>>

\* A copy that was expunged meanwhile makes assignThread throw.
Assign(w) ==
    /\ pc[w] = "assigning"
    /\ IF First(w) \in copies
       THEN /\ AssignThread(First(w))
            /\ left' = [left EXCEPT ![w] = @ \ {First(w)}]
            /\ Goto(w, "threading")
       ELSE Goto(w, "catch") /\ UNCHANGED <<mailVars, left>>
    /\ UNCHANGED <<state, marked, applied, jobs, replyVars, job, tries, fresh, at, sweeping, bounds>>

-----------------------------------------------------------------------------
\* The end of run, handle and runOne.

\* The row is filed, whatever it has become meanwhile.
Finish(w) ==
    /\ pc[w] = "finishing"
    /\ state' = "filed"
    /\ Goto(w, "completing")
    /\ UNCHANGED <<marked, applied, jobs, mailVars, replyVars, job, tries, fresh, at, left,
                   sweeping, bounds>>

\* A worker without a job.
Rest(w) ==
    /\ Goto(w, "idle")
    /\ job' = [job EXCEPT ![w] = Original]
    /\ tries' = [tries EXCEPT ![w] = 0]
    /\ fresh' = [fresh EXCEPT ![w] = FALSE]
    /\ at' = [at EXCEPT ![w] = 1]
    /\ left' = [left EXCEPT ![w] = {}]

Complete(w) ==
    /\ pc[w] = "completing"
    /\ jobs' = [jobs EXCEPT ![job[w]] = Completed(@, w)]
    /\ Rest(w)
    /\ UNCHANGED <<state, marked, applied, mailVars, replyVars, sweeping, bounds>>

LastAttempt(w) == tries[w] >= MaxAttempts

\* Seeded fault of Catch: the row is never failed.
CatchSilently(w) ==
    /\ pc[w] = "catch"
    /\ Goto(w, "failing")
    /\ UNCHANGED <<state, marked, applied, jobs, mailVars, replyVars, job, tries, fresh, at,
                   left, sweeping, bounds>>

\* handle's catch: the row is failed on the last attempt, unless it is filed.
Catch(w) ==
    /\ pc[w] = "catch"
    /\ state' = IF state # "filed" /\ LastAttempt(w) THEN "failed" ELSE state
    /\ Goto(w, "failing")
    /\ UNCHANGED <<marked, applied, jobs, mailVars, replyVars, job, tries, fresh, at, left,
                   sweeping, bounds>>

Fail(w) ==
    /\ pc[w] = "failing"
    /\ \E delay \in Backoff(tries[w]) :
          jobs' = [jobs EXCEPT ![job[w]] = Failed(@, w, LastAttempt(w), delay)]
    /\ Rest(w)
    /\ UNCHANGED <<state, marked, applied, mailVars, replyVars, sweeping, bounds>>

-----------------------------------------------------------------------------
\* The sweep over copies without a thread.

\* Seeded fault of SweepLook: only the copies of filed spool rows are looked for.
SweepLookFiled(c) ==
    /\ sweeping = {}
    /\ c \in copies \ threaded
    /\ state = "filed"
    /\ sweeping' = {c}
    /\ UNCHANGED <<state, marked, applied, jobs, mailVars, replyVars, workerVars, bounds>>

\* Select and look again.
SweepLook(c) ==
    /\ sweeping = {}
    /\ c \in copies \ threaded
    /\ sweeping' = {c}
    /\ UNCHANGED <<state, marked, applied, jobs, mailVars, replyVars, workerVars, bounds>>

\* A copy that is gone by now is passed over.
SweepAssign ==
    /\ sweeping # {}
    /\ sweeping' = {}
    /\ \A c \in sweeping : IF c \in copies THEN AssignThread(c) ELSE UNCHANGED mailVars
    /\ UNCHANGED <<state, marked, applied, jobs, replyVars, workerVars, bounds>>

-----------------------------------------------------------------------------
\* Retention, once the user has expunged every copy.

\* spoolBatch and releaseSpool: no message names the blob.
RetentionLooks ==
    /\ ~releasing /\ spoolRef
    /\ copies = {}
    /\ state \in {"filed", "rejected"}
    /\ releasing' = TRUE
    /\ UNCHANGED <<state, marked, applied, jobs, mailVars, replyVars, workerVars, sweeping,
                   outlived, unsaid, faults, others>>

\* The row that still holds its reference gives it back; a copy may have been
\* filed since, and a replay may have taken the row out of filed.
RetentionReleases ==
    /\ releasing
    /\ releasing' = FALSE
    /\ IF spoolRef /\ state \in {"filed", "rejected"}
       THEN spoolRef' = FALSE /\ refcount' = refcount - 1
       ELSE UNCHANGED <<spoolRef, refcount>>
    /\ UNCHANGED <<state, marked, applied, jobs, copies, threaded, ever, numbered,
                   replyVars, workerVars, sweeping, outlived, unsaid, faults, others>>

-----------------------------------------------------------------------------
\* Failures.

Fault ==
    /\ faults < MaxFaults
    /\ faults' = faults + 1

\* A statement throws, having changed nothing: of run, which handle catches; or
\* the one of that catch, or complete, which runOne catches and fails the job.
Throw(w) ==
    /\ pc[w] \notin {"idle", "failing"}
    /\ Fault
    /\ Goto(w, IF pc[w] \in {"catch", "completing"} THEN "failing" ELSE "catch")
    /\ unsaid' = (unsaid \/ (pc[w] = "catch" /\ LastAttempt(w)))
    /\ UNCHANGED <<state, marked, applied, jobs, mailVars, replyVars, job, tries, fresh, at,
                   left, sweeping, releasing, outlived, others>>

\* kill -9, and the process starts again; or fail throws, which leaves the job
\* running the same way.
Crash(w) ==
    /\ pc[w] # "idle"
    /\ Fault
    /\ Rest(w)
    /\ UNCHANGED <<state, marked, applied, jobs, mailVars, replyVars, sweeping,
                   releasing, outlived, unsaid, others>>

\* Does a worker still run the job it is claimed by?
Alive(j) == \E w \in Workers : pc[w] # "idle" /\ job[w] = j /\ Held(jobs[j], w)

\* Time passes, so that the claim of a job lapses, most often after a crash.
LeaseLapses(j) ==
    /\ jobs[j].status = "running" /\ ~Stale(jobs[j])
    /\ IF Alive(j) THEN Fault ELSE UNCHANGED faults
    /\ outlived' = (outlived \/ Alive(j))
    /\ jobs' = [jobs EXCEPT ![j] = Aged(@)]
    /\ UNCHANGED <<state, marked, applied, mailVars, replyVars, workerVars, sweeping,
                   releasing, unsaid, others>>

-----------------------------------------------------------------------------
Work(w) ==
    \/ \E j \in Jobs : Claim(w, j)
    \/ ApplyReplay(w)
    \/ Start(w)
    \/ NextStage(w)
    \/ Record(w)
    \/ SendReply(w)
    \/ FileStage(w)
    \/ BlobVanished(w)
    \/ LookAtThread(w)
    \/ Assign(w)
    \/ Finish(w)
    \/ Complete(w)
    \/ Catch(w)
    \/ Fail(w)

Sweep ==
    \/ \E c \in copies : SweepLook(c)
    \/ SweepAssign

Next ==
    \/ Accept
    \/ Reject
    \/ \E r \in Replays : ReplayInbound(r)
    \/ \E j \in Jobs : Requeue(j)
    \/ \E c \in copies : Expunge(c)
    \/ \E w \in Workers : Work(w) \/ Throw(w) \/ Crash(w)
    \/ Sweep
    \/ RetentionLooks
    \/ RetentionReleases
    \/ \E j \in Jobs : LeaseLapses(j)

\* Workers poll and their statements return, the sweep runs on an interval, and
\* time passes.
Spec ==
    /\ Init
    /\ [][Next]_vars
    /\ \A w \in Workers : WF_vars(Work(w))
    /\ WF_vars(Sweep)
    /\ \A j \in Jobs : WF_vars(LeaseLapses(j))

-----------------------------------------------------------------------------
\* A message is in an account's mailboxes once: however many runs, retries and
\* replays file it, an account never has more copies of the spool row than its
\* script asked for (fileStage's look for existing copies, under its lock).
FiledOnce == \A a \in Accounts : Cardinality(CopiesOf(a)) <= Targets[a]

\* The blob is referenced by the spool row until retention releases it, and by
\* each copy, whoever files, replays, expunges or releases meanwhile: a copy never
\* outlives its blob.
CountsItsCopies == refcount = Cardinality(copies) + (IF spoolRef THEN 1 ELSE 0)

\* A spool row that says filed, and a marker that says so, are true: copies were
\* committed for every account.
FiledIsTrue == state = "filed" \/ "file" \in marked => ever = Accounts

\* Each account answers a message once, whatever runs of the sieve stage overlap
\* or are repeated.
OneReply == \A a \in Accounts : sent[a] <= 1

\* In the end the spool row says how it ended, filed or, when the queue has given
\* up, failed: no accepted message stays spooled or processing, if no lease lapses
\* under a worker that lives. One end is not in the row: when the update in handle's
\* own catch throws on a job's last attempt, the row stays processing for good and
\* it is the dead job that tells the operator.
SpoolSettles ==
    <>[](\/ outlived
         \/ state \in {"none", "rejected", "filed", "failed"}
         \/ unsaid /\ \E j \in Jobs : jobs[j].status = "dead")

\* Every copy that stays gets its thread, through the sweep where the worker
\* crashed between its commit and its threading.
CopiesThreaded == \A a \in Accounts : <>[](CopiesOf(a) \subseteq threaded)

=============================================================================
