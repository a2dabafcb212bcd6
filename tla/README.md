# A formal model of Postroom

Postroom is a self-hosted mail server: SMTP in and out, IMAP, ManageSieve, DAV, a
web client and an API, written in TypeScript around one Postgres database and a
directory of encrypted blobs.  Its processes do not talk to each other.  They
share rows: every daemon reads and writes the same tables, wakes up by `NOTIFY`
or by a timer, and has to assume that another process, or an earlier life of
itself, did half of something a moment ago.  That is what is modelled here.

The modules are translated from the source; `PROJECT.json` maps each definition
to its lines.

## The system

### Components that carry state across processes

| Component | State | Operations | Talks to |
|---|---|---|---|
| Job queue (`packages/queue`) | `job` rows: status, run_at, attempts, locked_at, locked_by | enqueue, claim, complete, fail, replay; the worker's loop | every daemon enqueues or works |
| Outbound delivery (`apps/delivery`) | `outbound_recipient` (state, attempts, nextAttemptAt, DSN marks), `delivery_attempt`, the group's jobs, the suppression list | handle, recoverInterrupted, sweep, DSNs, hold and thaw | queue, transports, operators, SES notifications |
| Operators' queue actions (`apps/api/src/admin-queue`) | the same rows | retry, force-ses, delete, bounce | delivery, through the rows |
| The sender's cancel (`apps/api/src/delivery`, `apps/delivery/src/cancel.ts`) | the same rows | cancel one waiting recipient | delivery, through the rows |
| Blob store (`packages/blobstore`) | `blob` rows with a refcount and a wrapped key, files, temporary files, an advisory lock per name | put, release, reap, gc | SMTP spool, filing, APPEND, EXPUNGE, retention |
| SMTP reception (`apps/smtp-in`) | spool rows (`inbound_message`) | DATA: blob, spool row and job, or the Rejects copies, in one transaction, then 250 | queue, blob store |
| Inbound pipeline (`apps/worker/src/pipeline.ts`, `stages`) | `inbound_message` with a marker per stage, copies, `sieve_vacation_reply` | stages verify to feedback, replay, the sweep over copies without a thread | queue, blob store, mailboxes |
| Compose and scheduled sends (`apps/api/src/compose`, `apps/worker/src/scheduled`) | `pending_send` and its copies, drafts, `reply_reminder` | hold, undo, reschedule, edit, discard, release, remind | submission, blob store, mailboxes |
| Submission and caps (`apps/submission`) | `app_password.frozenAt`, counts of recipients, alert markers, the mails of the last hour (`packages/alerts`) | the look at RCPT, accept under two advisory locks, freeze, alert | delivery, the mail relay |
| Mailboxes and IMAP (`apps/imap`) | mailboxes with uidnext and highest_modseq, messages, expunged messages; each session's view | APPEND, STORE, COPY, MOVE, EXPUNGE, RENAME, SELECT with QRESYNC, sync, IDLE | filing, webmail, compose, retention: all write the same tables |
| Retention (`apps/worker/src/retention`) | expiry of messages and spool references | moveBatch, expireBatch, releaseSpool | blob store, mailboxes, spool |
| Account deletion (`apps/worker`) | a purge with a cursor | purge of messages in batches, then of the rest | mailboxes, blob store |
| Sign-in (`apps/api/src/auth`, `packages/auth-throttle`) | sessions, refresh tokens, failed attempts | rotate, revoke, throttle | all servers |

Everything else (parsers, writers, scoring, generated documents, single-row
request handlers, the web client) is listed in `PROJECT.json` with the reason it
is not modelled.

### What is hard about it

* A claim or an attempt is presumed dead by its age.  A slow process that is not
  dead races the one that takes over.
* Handlers read, decide and write in several transactions.  Operators read rows
  and then write by id, under READ COMMITTED.
* A statement may fail after it has committed.  A crash may come between any two
  statements, and between a statement and a file operation.
* What the remote server did is not in the database.
* Retries are kept idempotent by keys (`idempotency_key`, generations), guards in
  `WHERE` clauses and marks that are set once; each is a place for an off-by-one.
* A missed wake-up, a lost job or a lost thaw must be made good by a sweep.
* Seven programs write the mailbox tables, and all but the purge of an account keep
  the modseq and the record of expunges that the IMAP server relies on.
* What a request read before it took its lock may be out of date once it has it.

`PROJECT.json` lists these under `hazards`, each at its line.

### What makes each component correct

* Queue: inside a lease a job has one runner; the attempt budget is kept across
  reclaims and replays; done means done; nothing stays in line for ever.
* Delivery: an attempt in flight belongs to its handler; delivered means that the
  remote accepted; a final state is final, but for an operator's write by id; one
  failure report, about a bounce;
  every recipient settles and every bounce is reported.
* Blob store: a row has its file, through power losses (once its directory is durable);
  the refcount is exact; what is recorded is counted.
* Inbound: a message is filed once per account and answered once, also when its
  job, a retry and a replay overlap; filed is true; the blob counts the copies; every
  accepted message ends filed or failed, or has a dead job, and its copies are threaded.
* Scheduled sends: a held send goes out once and whole, or not at all; what was
  taken back is not sent; its blobs are given back once; what is due is settled.
* Caps: however submissions overlap, no hour and no day has more recipients than
  the path and the account may send; the operator is told once of a freeze, and of none
  only within an hour of the last mail about that password or when the relay fails.
* Mailboxes: a UID never changes its message, every change moves the modseq, and a
  session or a client that resynchronises ends with the true picture.

## Modules

```
JobTable ---------> JobQueue ---------> MCJobQueue        JobQueueProofs
     \
      +-----------> Outbound ---------> MCOutbound        OutboundProofs
      |                | implements
      |                v
      |       RecipientLifecycle                          RecipientLifecycleProofs
      |
      +-----------> Inbound ----------> MCInbound         InboundProofs

                    BlobStore --------> MCBlobStore       BlobStoreProofs
                    HeldSend ---------> MCHeldSend        HeldSendProofs
                    SubmissionCaps ---> MCSubmissionCaps  SubmissionCapsProofs
                    MailStore --------> MCMailStore       MailStoreProofs
```

The last four touch each other through single operations, which appear on both
sides: a put or a release of a blob is an action of BlobStore and a change of
`refcount` or `refs` in Inbound and HeldSend; the freeze that SubmissionCaps decides
is an action of Outbound; removing a draft is HeldSend's `Remove` and MailStore's
`RemoveDraft`; filing is Inbound's `FileStage` and MailStore's `Arrive`.

**JobTable** has one row of the job table and the effect of each statement of
`packages/queue/src/index.ts` on it.  Time is relative: a row keeps the time left
to `run_at` and the time since `locked_at`, so behaviours do not run out of clock.

**JobQueue** composes rows with worker processes.  `pc` walks through `runOne`,
`drain` and the loop of `startWorker`; claim's two statements, the handler, and
complete or fail are separate steps.  Any statement may throw, before or after its
commit; a process may crash in a job or stop between two; the operator replays.
`held` (time since a worker's claim) and `ran` are not in the code: the properties
need them.  A restarted worker has a new uuid and is another member of `Workers`.

**RecipientLifecycle** is the abstract specification: the state machine drawn in
`apps/delivery/src/state.ts`, the remote's copy and the failure report.

**Outbound** is the delivery worker for one group (one message, one domain).  Each
process runs the handler (`pc`: recover, load, begin, transport, commit, dsn,
completing) and the sweeper (`spc`) side by side, as the daemon does.  Around them
are operators, any number at once (`AdminRead`, then `AdminNudge`, `AdminDelete` or
`AdminBounce`: the SELECT and the UPDATE are two steps, and the UPDATE goes by id), the
sender's cancel (`Cancel`, guarded on the state as it is), the freeze and the thaw with its enqueue
afterwards, and SES bounce notifications.  A transport call is its set of outcomes
(accepted, refused for now, refused for good, unknown user, accepted with the
reply lost) within `AttemptTimeout`.  `copies`, `filed`, `sesSaid` and `sesMarked`
record what is outside the rows.  `Enqueue` is one step: a key that another transaction
creates at the same moment makes the code's `create` throw and rolls an outcome back,
which is one of the faults `HandlerThrows` stands for.  Text of replies, audit rows and
the Message-ID alias are left out.

**BlobStore** is one blob name: the lock is per name.  Names share the directories they
lie in (`root/aa/bb`).  `PutMkdir`, `PutPlace`, `PutSync` and `PutParents` are
`placeFile`: only the put whose `mkdir` made the directory (`made`) syncs its parents;
`OtherPut` is a put of another name that makes the same directory, and syncs it later or
never.  `dir` says whether the directory is there and whether its own entry is durable.
The two levels are one, because a put that makes either syncs both parents.  A
file is represented by the key it was encrypted under, because a file is readable
only under the key in the row.  Statements of a transaction write a draft that the
commit publishes; rename, unlink and the sync of the directory act at once.
`durable` is the set of things a power loss may leave at the name: an entry is durable
once its directory was synced, and a directory whose own entry was not may go with all
it holds, which is what POSIX allows.  `found` and `lost` are not in the code.  Callers are
modelled by the references they keep: recorded in the same transaction (spool,
filing, retention) or in hand until APPEND records or releases them.

**Inbound** follows one received message.  `Accept` and `Reject` are smtp-in's
transaction; `Claim`, `ApplyReplay`, `Start`, `NextStage` and one action per kind of
stage are `run`; `Catch`, `Fail` and `Complete` are the end of `handle` and of the
queue's `runOne` on rows of JobTable.  A claim is one step here (JobQueue takes it
apart), and time is only the lease: `LeaseLapses` ages a claim, for a worker that
died or, as a fault, for one that lives.  `SweepLook` and `SweepAssign`,
`RetentionLooks` and `RetentionReleases` are two steps each, because the code looks
first and acts in another statement.  The sweep's grace period is left out: the sweep
may look at any moment.  Any statement may throw, that of `handle`'s own catch too
(`Throw`).  `ever`, `numbered`, `sent`, `outlived` and `unsaid` are not in the
code.  Verify, parse, classify, notify and feedback write nothing but their marker
here; a blob that is missing makes the filing throw (`BlobVanished`).

**HeldSend** has `pending_send` rows (`hold`, `due`, `refs`, `queued`), their drafts,
the reminders, and the locks that transactions hold: the row's, the mailbox's and
the account's caps lock.  A release worker walks through `releaseOne` (`Look`, `Gate`,
`TakeDraft`, `AcceptCopy`, `Commit`, `FinishUnsent`), a request through the routes
that edit, discard or send a draft (`Begin`, `FileCopy`, `Cancel`, `Remove`); a
change of a transaction that has not committed is undone by `RollBack`.  Undo,
reschedule, expunge and move are one transaction each.  `Victim` is Postgres breaking
a cycle of lock waits.

**SubmissionCaps** is one account with app passwords and the webmail.  Time is a
count of ticks; rows are counted by path and time of creation, with the windows of
the code.  The code's readings of the clock are kept: each of the two counts uses the time
read before the wait for its lock.  The freeze at RCPT is two statements, the one at DATA a
transaction of its own beside the accepting one.  A mail about a freeze is `sendAlert`:
not sent within an hour of the last with its key (`Deduped`, the map `lastSent` of the
process, which a crash empties), else posted to the relay, which takes it or fails
(`RelayAnswers`; a relay that is not configured is one that always fails).  `told`, which
no crash empties, `unaudited` and `unalerted` are not in the code.  Of the account's cap
the marker row is modelled and the mail that follows it is not.

**MailStore** has the mailbox, message and expunged_message rows of one account and
the programs that write them (`Write`), a transaction to a step whatever number of
messages it takes: `Copy` files the whole set under a UID and a modseq each, `SaveDraft`
files the new copy and removes the old one under two, `Purge` deletes rows and keeps
neither modseq nor record.  Against them stand sessions that read them in
statements of their own: `Select` and `Snapshot` (SELECT), `Vanish` and `Changes`
(QRESYNC), `Probe`, `ReadChanged` and `Finish` (sync).  `client` is the mail program
at the other end, which forgets nothing between connections and resynchronises from
the HIGHESTMODSEQ of its last SELECT.  `draft` and `source` are what a compose route
and RENAME INBOX have read before they have the lock; `Old` are the messages an account
may start with.  `astray` marks what the code
itself loses track of (see below).  Sequence numbers, names, renames of other
mailboxes, the Sent copy (an arrival in a mailbox like another), blobs, training and the \Seen that FETCH sets are left out; \Deleted
stands for every flag.

`Seeded fault` definitions beside an operation change it the way a plausible bug
would; they are used only to see that a property would notice
(`mutants` in `PROJECT.json`).

## Runs

| Run | Instance | Shows |
|---|---|---|
| `queue` | 2 workers, 2 jobs on 2 queues, lease 1, 2 attempts, 1 fault, 1 replay, any crash | `HolderOrLapsed`, `BudgetRespected`, `DoneMeansRan`; under fairness `EveryJobSettles` |
| `outbound` | 2 processes, 2 recipients, an operator's retry, no fault | `InFlightKept`; `ImplementsLifecycle` |
| `outbound_faults` | 2 processes, 1 recipient, 1 fault of any kind | `DeliveredHasCopy`, `BounceIsLast`, `FinalIsFinal` |
| `outbound_reports` | 2 processes, 2 requests of operators who delete or bounce, the sender's cancel, 1 fault | `OneFailureDsn`, `CancelledStays` |
| `outbound_live` | 1 process, SES and its notifications, 1 fault, 1 freeze, fairness | `Settles`, `BouncesReported` |
| `blobstore` | 3 actors, 4 keys, 2 references, a directory shared with other names, 1 power loss, any aborts and crashes | `RowHasItsFile`, `RefcountExact`, `RecordedIsCounted` |
| `blobstore_faults` | 2 actors, also lost transactions and lost replies | `NeverOvercounted` |
| `inbound` | 2 workers, a job and a replay from classify, 2 attempts, 1 fault, 1 expunge or requeue, sweep and retention | `FiledOnce`, `CountsItsCopies`, `FiledIsTrue`, `OneReply`; under fairness `SpoolSettles`, `CopiesThreaded` |
| `heldsend` | 2 held sends of 2 copies, 2 release workers, 1 request, 3 acts of the user, 1 fault | `TakenBack`, `ReleasedAsOne`, `HoldsItsBlobs`, `DraftIsKept`, `SurfacedOnce`; under fairness `DueIsSettled`, `RequestsEnd` |
| `caps` | 2 sessions, an app password and the webmail, clock 0 to 2, 2 thaws, 1 fault (crash or relay) | `WithinPathCaps`, `WithinAccountCaps`, `ToldOnce` |
| `mailstore` | 1 session and its client, 4 messages, 4 mailboxes, 2 writing transactions | `PictureIsTrue`, `NoGhosts`, `UidNamesOne`, `ModseqGrows`; under fairness `ToldInTheEnd` |
| `vanished` | a smaller one, expects a violation | `VanishedIsExact` |

`TypeOK` is checked for JobQueue and Outbound and proved for JobQueue, Outbound,
BlobStore and SubmissionCaps.  That of Outbound says in addition that the bounds on
generations and keys are never reached, so the bounds cut nothing off.

Bounds.  The lease is longer than the attempt timeout by one tick, which is the
least that lets "just inside" and "just outside" both happen; ages stop one tick
beyond the lease, because the code compares them with the lease only.  The queue
age is bounded by `MAX_QUEUE_AGE_MS` in the code, so the number of attempts is
(`outbound_faults` allows two deferrals before the expiry, the others one).  A
second fault multiplies the states without a new kind of step: the races here need one.
Operators race each other and the sender (a delete or a cancel between the read and the
write of a bounce), so `outbound_reports` has two requests, of one operator or of two at
once; a third adds no race between two writes.  SES notifications are in `outbound_live`,
where TLC can afford them; that they file no second report is in `OneFailureSafe`, which
is proved for every value of the constants.  The generation bound `MaxGen` and the number of
extra jobs `MaxExtra` satisfy `Room` in every instance (an assumption of MCOutbound that
TLC evaluates), and `TypeCorrect` proves that then neither is ever met: with fewer
generations a job beyond the bound would be lost, and with it what comes after.  One power
loss suffices: after it every actor starts anew, from any state that the first steps can leave.  In
`inbound` two workers and two jobs are what lets a run overlap a retry or a replay
of the same message; a third job adds a second replay of the same kind.  In
`heldsend` two copies are the least that can be refused half way, and two sends
share the mailbox and the caps lock.  In `caps` the hour is one tick and the day two,
so that an hour ends inside the day and a session may wait across its end; caps of
two to four recipients are met by the third and later messages, and two thaws let a
password freeze three times, within the hour and after it.  In `mailstore` two
transactions are what the interleavings need: one for the change, one between two
reads of the session that is about to hear of it; four messages are the least with which
the second can be a COPY of two (of the one that was there and one that arrived), which
gives the new rows two modseqs in one step; `MaxVal` lets the folder be deleted
and made anew under another UIDVALIDITY.

`CHECK_DEADLOCK FALSE` is set where the system may stop: all jobs settled and
replays used up, all recipients final, all identities of references used, the
message filed, the sends settled, the clock or the writers at their bound.

Symmetry is over model values that no definition tells apart; the run with
symmetry and a temporal property (`outbound`) has a property without fairness,
which TLC checks step by step.

Fairness.  `JobQueue!FairSpec`: a live process takes its next step (its event loop
goes on, handlers settle, the poll timer of `startWorker` fires) and the clock
goes on; some process is alive, because the supervisor restarts them.  No fairness
for faults, producers or operators.  `Outbound!FairSpec`: handlers and sweepers go
on (the transport is bounded by its AbortSignal, the sweep runs every minute), a
request that began finishes, the clock goes on.  Nobody has to thaw a credential;
`Settles` is conditional on that.  `Inbound!Spec`: workers poll and their statements
return, the sweep runs on its interval, leases lapse.  `HeldSend!Spec`: the workers'
ticks and the requests' statements go on, and a release time comes; requests have strong fairness, because a
lock is handed out to those who wait for it (Postgres queues them), and `Victim` is
fair because Postgres looks for cycles.  `MailStore!FairSpec`: a session's command
finishes and an idle session is woken again (IDLE polls every 60 s; a client that is
not idling sends NOOP); writers are not fair.

### What the code does not promise

The run `vanished` expects a violation: `updateMessage` moves a message out of a
mailbox and advances its modseq, but leaves no `expunged_message` row, so a QRESYNC
client that was away keeps the message for good, although
`extensions/qresync.ts` says that the answer is always exact.  In the passing run the
mailboxes and UIDs this touches are in `astray`, and the properties except exactly
these: moves in the webmail; the mailboxes an account's purge has deleted messages from
(`purge.ts` 119-135 advances no modseq and records nothing, so a session that is still
open shows what has gone); a draft removed by id after it has been moved elsewhere
(`removeMessage` deletes it there and records it here); and RENAME INBOX, which gives
the new mailbox the uidnext and modseq that were read before the lock, so that a
UID may be handed out twice and the next filing fails on the unique index.

Other places where the code does not keep what a comment or a test suggests.  Each can
be seen with TLC by the change of constants or the formula that is given.

* Queue: claim's second statement reads the row by id.  If it takes longer than the
  lease it returns another worker's claim (`StalledRead = TRUE`: `HolderOrLapsed`
  is violated; the test says "never hands one job to two workers").  The proofs
  about the queue assume `~StalledRead`.
* Delivery: a recovery that read its list before another one, and updates after the
  recipient was begun again, closes a live attempt (`worker.ts` 137; `InFlightKept`
  with the constants of `outbound_faults`).  The operator's bounce reads outside its
  transaction (`admin-queue/index.ts` 413) and updates by id (403), so a recipient
  delivered in between is reported as failed, and one that the sender cancelled or another
  operator deleted in between becomes bounced, with a failure DSN, although
  `cancel.ts` 3 says that a final state is final; `CancelledStays` says that nothing else
  does that, and nothing that reads afterwards.  A delete, too, writes by id what another
  operator may have bounced, or a worker delivered, since it read.  Two handlers of one
  group that commit at once may choose the same key for the next job; the second `create`
  throws and its outcome is rolled back (`queue/src/index.ts` 22, `worker.ts` 329), and
  with three recipients that may be a delivery, which is then made again.  Outbound has
  this only as a fault among others, so what is claimed of runs without faults is claimed
  of runs without such a clash.  The next job's key is the maximum of attempts in the group; with
  two recipients and `Jitter = 1` it can be one that was used, and the group has no job
  until the sweep, which makes good any group without a live job (`Settles` has the case
  of a lost job and a lost thaw; its run has one recipient).  The sweep also files a failure
  DSN for what SES bounced.
* Inbound: when a lease lapses under a live worker, its `processing` may be the last
  word on a row whose job is dead (`pipeline.ts` 201); `SpoolSettles` says so by
  `outlived`.  When the update in `handle`'s catch throws on the last attempt (233-236),
  the row stays `processing` too and only the dead job tells; `SpoolSettles` says so by
  `unsaid`.  The comment there has it "visible either way: the error on the spool row,
  and `failed` once the queue gives up".  A sweep whose grace is shorter than a worker's threading threads a
  copy twice, with the same result.  A replay after the user has expunged every copy
  files the message again.
* Scheduled sends: a draft moved out of Drafts is still sent (`release.ts` 149 asks
  for the account only; the comment at 28-29 says that taking it out cancels).  A
  reschedule between the worker's select and its look is ignored: `releaseOne` does
  not compare the time again (146-147).  A send from a draft whose held send was
  released a moment before sends it again (`compose/index.ts` 392-399).  The draft
  routes and the release take the mailbox and the row in opposite orders and rely on
  Postgres to break the cycle; the request then fails and is made again by the user.
* Caps: at RCPT the freeze and its audit row are not one transaction, although
  `caps/index.ts` 73 calls them an atomic pair: a crash leaves a freeze without its
  row.  A password that is frozen, thawed and frozen again within an hour has one mail for
  both freezes, and a mail the relay does not take is only logged (`alerts/src/index.ts`
  58-88, `caps/index.ts` 108); `ToldOnce` claims a mail within the hour before the freeze or
  since, where no fault has happened.  The freeze at DATA needs a second connection of the pool while its session
  holds the first and others wait for the lock with theirs (189).
* Blob store: `placeFile` syncs the parents of a directory only in the put whose `mkdir`
  made it (`store.ts` 227-231).  A put that finds the directory, made by one that has
  failed or is slower, commits its row while the directory's own entry may still be lost,
  although `placeFile` is to "make the rename durable" (220).  `RowHasItsFile` excepts the
  row of such a put when a power loss takes that directory (`lost /\ found`) and no other.
* IMAP: the head of `store.ts` (7-8) says that a change gives "every changed message's
  modseq" the mailbox's new value.  In a COPY of several messages (438-446) and when a
  draft is saved (`compose/index.ts` 714, 739) the new rows have lower ones.
  `ModseqGrows` states what a session needs, and what holds: a modseq above the mailbox's
  old value and at most the new one, so that no session has read past it.  STORE.SILENT notes the modseq of a message whose other session's flags the
  client was not told of; the model gives such a flag the value `unknown`, which
  `PictureIsTrue` leaves out.

The release of a scheduled send removes its draft wherever it is by then; MailStore has it
as a draft read in Drafts and moved before it is removed.

Three more assumptions are visible as constants.  `TxLoss`: with it TLC finds
`RowHasItsFile` violated, because a rename or an unlink does not notice that the
transaction with the lock is gone (the 120 s timeout of `TX_OPTIONS`, a lost
connection).  `LostReply`: with it `RecordedIsCounted` is violated, because APPEND
releases the blob of a Message whose commit succeeded.  Two transports: `begin`
opens all attempts at once and the batches run one after the other, so with
`SesConfigured = TRUE`, `AdminOps = {"force-ses"}`, `Lease = 3` and
`AttemptTimeout = 2` the second batch outlives the lease and `InFlightKept` is
violated.

## Proofs

For every value of the constants that satisfies the named assumptions:

* `JobQueueProofs`: `TypeCorrect`; and, if `~StalledRead`, `HolderSafe`,
  `BudgetSafe` and `DoneSafe`.  None of the three invariants is inductive.  `IInv`
  adds what each worker relies on (`Own`): a claim not yet read is inside its
  lease; inside the lease the row is as the claim left it and its age is the
  claim's; what was read was the worker's own claim; and a row that carries the
  worker's name is the claim it read, with the attempts it read, and has been run
  if the worker is completing.  The lemma `Bystander` carries `Own` over a step
  of somebody else: such a step gives no row the worker's name, and changes no row
  it holds inside its lease.
* `RecipientLifecycleProofs`: `ExactlyOnceSafe`, of the abstract specification.
* `OutboundProofs`, about the delivery worker for any recipients, processes, lease,
  timeout below the lease, retry schedule and policy.
  * `Sound` needs no assumption, so it holds through any faults, operators, freezes and
    SES reports: types, and a handler that heard of an acceptance tells the truth
    (`Heard`).  From it `DeliveredSafe` and `OneFailureSafe`.
    The lemma `Moves` lists the only ways in which a step moves a recipient's state, with
    any number of operators' requests open at once and the sender's cancel;
    from it `CancelledStaysSafe`; `FinalLeftByHand`, who alone can take a recipient out of a
    final state; and, where nobody can, `FinalSafe`.
  * `Told` needs none either: a failure report filed, or about to be, is of a recipient
    that bounced or was deleted by hand after that (`ReportedSafe`).  If nobody deletes and
    SES reports nothing (`Quiet`), a suppressed address is one that bounced, too
    (`Bounced`), which gives `BounceIsLastSafe`.
  * `Orderly` holds until the first fault, if nobody deletes, bounces or cancels by hand, SES
    reports nothing and one transport serves the group (`Calm`): nobody has found anything
    to recover, an attempt has one handler (`Alone`), is as `begin` left it and younger
    than the timeout (`Flight`), and what is not in flight has as many copies as its state
    says (`Accounted`).  From it `ExactlyOnceUntilAFault`, and where there are no faults
    `InFlightSafe`, `DeliveredExactlyOnce` and `LifecycleImplemented`, the refinement, with
    a step of RecipientLifecycle or a stutter for each action.
  * `Clocks` and `InTime` need nothing: the next attempt of a recipient in line is due by
    the time the message expires (`DueBeforeExpiry`).
  * `Working` and `Covered` hold through any faults, operators and SES reports, if one
    transport serves the group (`OneTransport`), and give `AttemptsAreBounded`: a
    recipient is attempted at most 1 + (time in the queue) + (operator's actions) +
    2 |Procs| (faults) times.  The argument is an account that is never overdrawn.  A
    tick of the queue's clock, an operator's action and a fault grant 1, 1 and 2 |Procs|
    attempts (`Budget`).  An outcome puts a recipient in line with a wait of at least a tick, so
    whatever comes due has been granted its attempt by the clock or by hand.  Recovery puts
    it in line at once; but `Working` says that an attempt somebody is at work on is
    younger than the timeout, hence than the lease, so what recovery lists was left
    behind by a fault, and that grant pays for every list - one of the handler and one
    of the sweeper of each process - that can hold the recipient when it is recovered,
    since each may put it in line once more.  With two transports a batch waits for the
    first before the second starts, and may outlive its lease without a fault.
  * `Dated` and `Keyed` need nothing.  Ages stop just past the lease; and jobs with a key
    of their own - in line, or about to be put there by a sweeper, a retry or a thaw - are
    at most one to a process, a retry and a freeze, because a sweeper reschedules only what
    has no live job at all.  With the bound on attempts they give `TypeCorrect`, for bounds
    that leave `Room`.

  The assumptions are those without which the code does not keep the property: a delete
  or a bounce writes by id what it read before; a report of SES during an attempt bounces
  it under its handler; after a fault two recoveries race; a second transport outlives
  the lease.  See "What the code does not promise".  But for `TypeCorrect` nothing is
  assumed or used of the jobs: a handler may run at any time.
* `BlobStoreProofs`: if `~TxLoss` and `~LostReply`, `TypeCorrect`, `FileSafe`,
  `CountSafe` and `RecordedSafe`.  `IInv` says that an actor inside a transaction
  has the lock; what it has read of the row and done to the file is still so
  (`Knows`): after its sync the file is its own and durable, and so is the directory unless
  it found it there; outside, nobody else works on its reference (`Owns`, `Apart`).  There
  is a lemma per action.  `OvercountSafe` needs neither assumption: `WInv` keeps of
  all this what survives the loss of a transaction or of a reply.
* `InboundProofs`: `FiledOnceSafe`, `CountsItsCopiesSafe`, `FiledIsTrueSafe` and
  `OneReplySafe`, for any accounts, mailboxes, scripts, workers, replays, crashes,
  outlived leases, expunges and requeues.  `IInv` adds that the copies of an account are
  numbered from one up, so that what is filed is new (`Numbered`); that before DATA there
  is nothing (`Nothing`); and where each worker is in the loop over the stages (`Loop`).
  A worker past the file stage knows that copies were committed for every account: its
  marker, which a replay may take away under it, would not do.
* `HeldSendProofs`: `ReleasedAsOneSafe`, `HoldsItsBlobsSafe`, `DraftIsKeptSafe`,
  `TakenBackSafe` and `SurfacedOnceSafe`, for any sends, copies, workers, requests and
  crashes.  All processes decide on what they have read and write later.  `IInv` says
  what the row's lock is worth (`Locked`: who has it works on that row, and the row is
  held), that a release which took the draft still has it (`Takes`), and that a request
  which goes on without the lock has seen a row that will not be held again (`Asks`).
* `SubmissionCapsProofs`: `TypeCorrect`, `ToldOnceSafe`, `PathCapsSafe` and
  `AccountCapsSafe`, for any sessions, passwords, caps, windows, thaws and crashes.
  `Counts` says that every session on its way to the audit row or to the alert has its
  freeze in the count it will take one off, and that what is left over is at most one
  per crash; without it a count could fall below zero, which is telling twice.  `Mailed`
  says that no process remembers a mail later than the last one that went out, so that
  what keeps it from sending is a mail of that hour; and, until the first fault, that a
  frozen password has a mail of the hour before its freeze or later, or a session that is
  on its way to tell (`OnItsWay`).  `CInv`
  carries the caps: a session that was let through has the locks (`HoldsLocks`) and was
  counted within the caps at a time that is past (`HasRoom`).  Since then nobody else
  has inserted on its path, and, once it has the account's lock, on any path.  A window
  that ends now or later starts no earlier than the one it counted (`WindowFits`), so the
  stale clock errs on the safe side.  Counts are cardinalities of sets of rows, which
  need no induction.
* `MailStoreProofs`: `PictureIsTrueSafe`, `NoGhostsSafe`, `UidNamesOneSafe` and
  `ModseqGrowsSafe`, for any sessions, messages and number of writing transactions.
  `SInv` is about the tables (`Tables`, `Standing`, `Numbered`, `Drafted`); `Session` is
  about one session and its client: what the client may have missed since the modseq it
  keeps (`Memory`), and what the view may have missed at each stage of a SELECT or a sync
  (`Watching`).  Between them is `Contract`, what a transaction owes to everybody who
  watches a mailbox: what it changed has a modseq above the mailbox's old one and within
  its new one, what it removed is recorded under such a modseq or in `astray`, and the
  UIDs it gave were new.  It does not say that the modseq is the new one, so it covers a
  transaction that files and removes several messages one after another.  Every writer
  keeps `SInv` and `Contract`; what keeps `Contract` keeps every session's part; a
  session's own step keeps its own.  `ExactWithoutWebMoves` delimits the finding of the run
  `vanished`: in a behaviour without a webmail move of a single message `VanishedIsExact`
  holds, because nothing else puts a UID into `astray`.  That `sync` finds what has gone by
  comparing numbers of messages is an argument about cardinalities (`GoneIsFound`).

The theorems are for any number of jobs, workers, actors, keys, references, messages
and faults, and for any bound on them.  Only model-checked: all
liveness (`EveryJobSettles`, `Settles`, `BouncesReported`, `SpoolSettles`,
`CopiesThreaded`, `DueIsSettled`, `RequestsEnd`, `ToldInTheEnd`: fairness and ENABLED are
outside the prover's reach) and the counterexample to `VanishedIsExact`.  Every other
property of a run is proved, under the assumptions named here.  No module with a theorem
uses a RECURSIVE operator; what a recursive definition computes for all inputs would need
induction over data, which the prover cannot do either.

## Plan

1. Proofs: a bound on attempts with two transports, where a batch that waits for the
   second may outlive its lease; the races of two recoveries after a fault, counted.
2. Models: refresh tokens and the auth throttle, the rest of account deletion (a purge
   that is resumed), DKIM rotation, DAV sync tokens, snoozing (`snooze.ts` 21-29 reads the
   message ids before it locks the mailboxes); a clash of keys in `enqueue` as a step of
   its own.

## Not modelled

Parsers, cryptography, network dialogues and the user interface, for
the reasons in `PROJECT.json`.
