------------------------------ MODULE HeldSend ------------------------------
(***************************************************************************)
(* A send that waits: undo send and scheduled send (apps/api/src/compose), *)
(* the worker that releases it (apps/worker/src/scheduled/release.ts) and  *)
(* the reminder its Sent copy arms (remind.ts).                            *)
(*                                                                         *)
(* Each pending_send row h has a copy of its own in Drafts.  The database  *)
(* is read committed, so a transaction is modelled by the locks it takes,  *)
(* in its order: the pending_send row it updates, the Drafts mailbox row,  *)
(* and the advisory lock of the recipient caps.  Its writes are seen when  *)
(* it commits, in the step that takes the last of what it needs.  Releases *)
(* lock the row and then Drafts, an edit Drafts and then the row: Postgres *)
(* ends one of two transactions that wait for each other (Victim).         *)
(***************************************************************************)
EXTENDS Naturals, FiniteSets

CONSTANTS
    Holds,          \* pending_send rows, each with its draft
    Workers,        \* processes that run the scheduled loop
    Requests,       \* requests to the API that run at once
    NoOne,
    Copies,         \* pending_send_copy rows of a send (0: the held blob is sent)
    Reminded,       \* the sends that ask to be reminded
    MaxAsks,        \* bound on what the user does
    MaxFaults       \* bound on crashes and exceptions

Procs == Workers \cup Requests
Sendable == IF Copies = 0 THEN 1 ELSE Copies

ASSUME HeldSendAssumption ==
    /\ Workers \cap Requests = {} /\ NoOne \notin Procs
    /\ Copies \in Nat /\ MaxAsks \in Nat /\ MaxFaults \in Nat
    /\ Reminded \subseteq Holds

VARIABLES
    hold,       \* PendingSendState, "none" before the row exists
    due,        \* releaseAt has passed
    draft,      \* the Drafts copy: none, drafts, moved (another mailbox) or gone
    refs,       \* blob references the row holds
    queued,     \* outbound messages its release has committed
    sent,       \* its Sent copy: none, there or gone
    reminder,   \* reply_reminder of the Sent copy
    surfaced,   \* copies of it filed in INBOX
    replied,    \* someone has answered
    rowLock, boxLock, capsLock,
    pc, on,     \* each process, and the row it works on
    arg,        \* what it is about to write, or the request it runs
    taken,      \* copies accepted in the open transaction
    \* not in the code
    removed,    \* the user has removed, edited or sent the draft
    takenBack,  \* a request to the API has taken it back
    asks, faults

rows == <<hold, due, draft, refs, queued, sent, removed, takenBack>>
reminders == <<reminder, surfaced, replied>>
locks == <<rowLock, boxLock, capsLock>>
procs == <<pc, on, arg, taken>>
vars == <<rows, reminders, locks, procs, asks, faults>>

Init ==
    /\ hold = [h \in Holds |-> "none"] /\ due = [h \in Holds |-> FALSE]
    /\ draft = [h \in Holds |-> "none"] /\ refs = [h \in Holds |-> 0]
    /\ queued = [h \in Holds |-> 0] /\ sent = [h \in Holds |-> "none"]
    /\ reminder = [h \in Holds |-> "none"] /\ surfaced = [h \in Holds |-> 0]
    /\ replied = [h \in Holds |-> FALSE]
    /\ rowLock = [h \in Holds |-> NoOne] /\ boxLock = NoOne /\ capsLock = NoOne
    /\ pc = [p \in Procs |-> "idle"] /\ on = [p \in Procs |-> NoOne]
    /\ arg = [p \in Procs |-> "none"] /\ taken = [p \in Procs |-> 0]
    /\ removed = [h \in Holds |-> FALSE] /\ takenBack = [h \in Holds |-> FALSE]
    /\ asks = 0 /\ faults = 0

-----------------------------------------------------------------------------
\* Transactions.

Free(lock, p) == lock \in {NoOne, p}

Goto(p, place) == pc' = [pc EXCEPT ![p] = place]

\* Commit or roll back: every lock of p is let go.
Unlock(p) ==
    /\ rowLock' = [h \in Holds |-> IF rowLock[h] = p THEN NoOne ELSE rowLock[h]]
    /\ boxLock' = IF boxLock = p THEN NoOne ELSE boxLock
    /\ capsLock' = IF capsLock = p THEN NoOne ELSE capsLock

Rest(p) ==
    /\ Goto(p, "idle")
    /\ on' = [on EXCEPT ![p] = NoOne]
    /\ arg' = [arg EXCEPT ![p] = "none"]
    /\ taken' = [taken EXCEPT ![p] = 0]

\* A transaction that has deleted the draft has its row, wherever it is.
Deleting(h) == \E w \in Workers : pc[w] = "copies" /\ on[w] = h

DraftFree(h, p) == ~Deleting(h) /\ (draft[h] = "drafts" => Free(boxLock, p))

-----------------------------------------------------------------------------
\* The worker: releaseDue and releaseOne.

\* releaseDue's select, and releaseOne's first look at the row and its draft: its
\* verdict when the draft is gone.  Whether the row is still due is not asked again.
Select(w, h) ==
    /\ pc[w] = "idle"
    /\ hold[h] = "held" /\ due[h]
    /\ Goto(w, "look")
    /\ on' = [on EXCEPT ![w] = h]
    /\ UNCHANGED <<rows, reminders, locks, arg, taken, asks, faults>>

\* Seeded fault of Look: a row without its draft is left alone.
LookSkipsGone(w) ==
    LET h == on[w] IN
    /\ pc[w] = "look"
    /\ IF hold[h] # "held" \/ draft[h] = "gone" THEN Rest(w)
       ELSE /\ Goto(w, "accept")
            /\ arg' = [arg EXCEPT ![w] = "cancelled"]
            /\ UNCHANGED <<on, taken>>
    /\ UNCHANGED <<rows, reminders, locks, asks, faults>>

Look(w) ==
    LET h == on[w] IN
    /\ pc[w] = "look"
    /\ IF hold[h] # "held" THEN Rest(w)
       ELSE /\ Goto(w, IF draft[h] = "gone" THEN "unsent" ELSE "accept")
            /\ arg' = [arg EXCEPT ![w] = "cancelled"]
            /\ UNCHANGED <<on, taken>>
    /\ UNCHANGED <<rows, reminders, locks, asks, faults>>

\* acceptSubmission refuses the first copy: no DKIM key, a From that is not the
\* account's any more, or the caps.
Refuse(w) ==
    /\ pc[w] = "accept"
    /\ Goto(w, "unsent")
    /\ arg' = [arg EXCEPT ![w] = "failed"]
    /\ UNCHANGED <<rows, reminders, locks, on, taken, asks, faults>>

\* Seeded fault of Gate: the state the worker loaded is taken for granted.
GateUnchecked(w) ==
    LET h == on[w] IN
    /\ pc[w] = "accept"
    /\ capsLock = NoOne /\ rowLock[h] = NoOne
    /\ rowLock' = [rowLock EXCEPT ![h] = w] /\ capsLock' = w
    /\ Goto(w, "draft")
    /\ taken' = [taken EXCEPT ![w] = 1]
    /\ UNCHANGED <<boxLock, on, arg, rows, reminders, asks, faults>>

\* The transaction: the caps' lock, the first copy's queue rows, and the row,
\* conditional on held.
Gate(w) ==
    LET h == on[w] IN
    /\ pc[w] = "accept"
    /\ capsLock = NoOne /\ rowLock[h] = NoOne
    /\ IF hold[h] = "held"
       THEN /\ rowLock' = [rowLock EXCEPT ![h] = w] /\ capsLock' = w
            /\ Goto(w, "draft")
            /\ taken' = [taken EXCEPT ![w] = 1]
            /\ UNCHANGED <<boxLock, on, arg>>
       ELSE Rest(w) /\ UNCHANGED locks
    /\ UNCHANGED <<rows, reminders, asks, faults>>

\* Seeded fault of RollBack: the verdict is written with the transaction still open.
RollBackLater(w, verdict) ==
    /\ Goto(w, "unsent")
    /\ arg' = [arg EXCEPT ![w] = verdict]
    /\ taken' = [taken EXCEPT ![w] = 0]
    /\ UNCHANGED <<locks, on>>

\* Rolled back, with a verdict for finishUnsent.
RollBack(w, verdict) ==
    /\ Unlock(w)
    /\ Goto(w, "unsent")
    /\ arg' = [arg EXCEPT ![w] = verdict]
    /\ taken' = [taken EXCEPT ![w] = 0]
    /\ UNCHANGED on

\* The draft is removed under the lock of its mailbox.  When it is gone the release
\* is given up (DraftGone), or throws if it went while the lock was waited for.
TakeDraft(w) ==
    LET h == on[w] IN
    /\ pc[w] = "draft"
    /\ \/ /\ draft[h] # "gone" /\ DraftFree(h, w)
          /\ boxLock' = IF draft[h] = "drafts" THEN w ELSE boxLock
          /\ Goto(w, "copies")
          /\ UNCHANGED <<rowLock, capsLock, on, arg, taken>>
       \/ draft[h] = "gone" /\ RollBack(w, "cancelled")
       \/ draft[h] = "gone" /\ Unlock(w) /\ Rest(w)
    /\ UNCHANGED <<rows, reminders, asks, faults>>

\* One more copy is accepted inside the transaction.
AcceptCopy(w) ==
    /\ pc[w] = "copies" /\ taken[w] < Sendable
    /\ taken' = [taken EXCEPT ![w] = @ + 1]
    /\ UNCHANGED <<rows, reminders, locks, pc, on, arg, asks, faults>>

\* Seeded fault of CopyRefused: what was accepted so far is sent.
CopyRefusedKeepsRest(w) ==
    LET h == on[w] IN
    /\ pc[w] = "copies" /\ taken[w] < Sendable
    /\ queued' = [queued EXCEPT ![h] = @ + taken[w]]
    /\ RollBack(w, "failed")
    /\ UNCHANGED <<hold, due, draft, refs, sent, removed, takenBack, reminders, asks, faults>>

\* One of the further copies is refused: none is sent.
CopyRefused(w) ==
    /\ pc[w] = "copies" /\ taken[w] < Sendable
    /\ RollBack(w, "failed")
    /\ UNCHANGED <<rows, reminders, asks, faults>>

\* Seeded fault of Commit: the reference on the held blob is kept.
CommitKeepsBlob(w) ==
    LET h == on[w] IN
    /\ pc[w] = "copies" /\ taken[w] = Sendable
    /\ hold' = [hold EXCEPT ![h] = "released"]
    /\ queued' = [queued EXCEPT ![h] = @ + taken[w]]
    /\ draft' = [draft EXCEPT ![h] = "gone"]
    /\ sent' = [sent EXCEPT ![h] = "there"]
    /\ reminder' = [reminder EXCEPT ![h] = IF h \in Reminded THEN "pending" ELSE @]
    /\ refs' = [refs EXCEPT ![h] = @ - Copies]
    /\ Unlock(w) /\ Rest(w)
    /\ UNCHANGED <<due, removed, takenBack, surfaced, replied, asks, faults>>

\* Every copy is in: the Sent copy, the held references, the reminder, and the commit.
Commit(w) ==
    LET h == on[w] IN
    /\ pc[w] = "copies" /\ taken[w] = Sendable
    /\ hold' = [hold EXCEPT ![h] = "released"]
    /\ queued' = [queued EXCEPT ![h] = @ + taken[w]]
    /\ draft' = [draft EXCEPT ![h] = "gone"]
    /\ sent' = [sent EXCEPT ![h] = "there"]
    /\ reminder' = [reminder EXCEPT ![h] = IF h \in Reminded THEN "pending" ELSE @]
    /\ refs' = [refs EXCEPT ![h] = @ - (1 + Copies)]
    /\ Unlock(w) /\ Rest(w)
    /\ UNCHANGED <<due, removed, takenBack, surfaced, replied, asks, faults>>

\* Seeded fault of FinishUnsent: the draft goes with the row.
FinishUnsentTakesDraft(w) ==
    LET h == on[w] IN
    /\ pc[w] = "unsent"
    /\ rowLock[h] = NoOne
    /\ IF hold[h] = "held"
       THEN /\ hold' = [hold EXCEPT ![h] = arg[w]]
            /\ refs' = [refs EXCEPT ![h] = @ - (1 + Copies)]
            /\ draft' = [draft EXCEPT ![h] = "gone"]
       ELSE UNCHANGED <<hold, refs, draft>>
    /\ Rest(w)
    /\ UNCHANGED <<due, queued, sent, removed, takenBack, reminders, locks, asks, faults>>

\* finishUnsent, conditional on held as well.
FinishUnsent(w) ==
    LET h == on[w] IN
    /\ pc[w] = "unsent"
    /\ rowLock[h] = NoOne
    /\ IF hold[h] = "held"
       THEN /\ hold' = [hold EXCEPT ![h] = arg[w]]
            /\ refs' = [refs EXCEPT ![h] = @ - (1 + Copies)]
       ELSE UNCHANGED <<hold, refs>>
    /\ Rest(w)
    /\ UNCHANGED <<due, draft, queued, sent, removed, takenBack, reminders, locks, asks, faults>>

-----------------------------------------------------------------------------
\* The worker: checkDue and checkOne.

\* What the reminder's row, the Sent copy and the conversation say.
Check(w, h) ==
    /\ pc[w] = "idle"
    /\ reminder[h] = "pending"
    /\ on' = [on EXCEPT ![w] = h]
    /\ arg' = [arg EXCEPT ![w] = CASE sent[h] = "gone" -> "cancelled"
                                   [] sent[h] # "gone" /\ replied[h] -> "replied"
                                   [] OTHER -> "resurfaced"]
    /\ Goto(w, "settle")
    /\ UNCHANGED <<rows, reminders, locks, taken, asks, faults>>

\* Seeded fault of Settle: a reminder settled meanwhile is settled again.
SettleAgain(w) ==
    LET h == on[w] IN
    /\ pc[w] = "settle"
    /\ reminder' = [reminder EXCEPT ![h] = arg[w]]
    /\ surfaced' = [surfaced EXCEPT ![h] = IF arg[w] = "resurfaced" THEN @ + 1 ELSE @]
    /\ Rest(w)
    /\ UNCHANGED <<rows, replied, locks, asks, faults>>

\* Conditional on pending, with the copy in INBOX.  A Sent copy expunged since the
\* look may have taken the blob with it: the transaction throws.
Settle(w) ==
    LET h == on[w] IN
    /\ pc[w] = "settle"
    /\ \/ /\ reminder[h] = "pending"
          /\ reminder' = [reminder EXCEPT ![h] = arg[w]]
          /\ surfaced' = [surfaced EXCEPT ![h] = IF arg[w] = "resurfaced" THEN @ + 1 ELSE @]
       \/ /\ reminder[h] # "pending" \/ (arg[w] = "resurfaced" /\ sent[h] = "gone")
          /\ UNCHANGED <<reminder, surfaced>>
    /\ Rest(w)
    /\ UNCHANGED <<rows, replied, locks, asks, faults>>

-----------------------------------------------------------------------------
\* The user, through the API.

Ask == asks < MaxAsks /\ asks' = asks + 1

\* holdSend without a draft to replace: the row, its blobs and its copy in Drafts.
\* Row n exists from the commit on.
NewHold(n) ==
    /\ hold' = [hold EXCEPT ![n] = "held"]
    /\ draft' = [draft EXCEPT ![n] = "drafts"]
    /\ refs' = [refs EXCEPT ![n] = 1 + Copies]

\* The rows still to be created: Holds bounds their number.
Unused == {n \in Holds : hold[n] = "none"}

Hold(n) ==
    /\ Ask
    /\ n \in Unused /\ boxLock = NoOne
    /\ NewHold(n)
    /\ UNCHANGED <<due, queued, sent, removed, takenBack, reminders, locks, procs, faults>>

\* POST /pending/:id/undo: held to cancelled, or 409.
Undo(h) ==
    /\ Ask
    /\ hold[h] = "held" /\ rowLock[h] = NoOne
    /\ hold' = [hold EXCEPT ![h] = "cancelled"]
    /\ refs' = [refs EXCEPT ![h] = @ - (1 + Copies)]
    /\ takenBack' = [takenBack EXCEPT ![h] = TRUE]
    /\ UNCHANGED <<due, draft, queued, sent, removed, reminders, locks, procs, faults>>

\* PATCH /pending/:id gives a held row a later time.
Reschedule(h) ==
    /\ Ask
    /\ hold[h] = "held" /\ rowLock[h] = NoOne
    /\ due' = [due EXCEPT ![h] = FALSE]
    /\ UNCHANGED <<hold, draft, refs, queued, sent, removed, takenBack, reminders, locks, procs, faults>>

\* A request about the draft of h, up to the look at its held row: it discards or
\* edits the draft it finds, sends it now (under the caps' lock), or holds a new
\* send in its place.  An edit and a new hold file their copy first, under Drafts'
\* lock.  A send that finds no draft is a send of its own, and not modelled.
Begin(u, h, what) ==
    /\ pc[u] = "idle" /\ Ask
    /\ draft[h] = "drafts"
    /\ on' = [on EXCEPT ![u] = h]
    /\ arg' = [arg EXCEPT ![u] = what]
    /\ capsLock' = IF what = "send" THEN u ELSE capsLock
    /\ what = "send" => capsLock = NoOne
    /\ Goto(u, IF what \in {"edit", "hold"} THEN "file" ELSE "cancel")
    /\ UNCHANGED <<rows, reminders, rowLock, boxLock, taken, faults>>

\* A new hold looks for the old draft only now: without it there is none to replace.
FileCopy(u) ==
    /\ pc[u] = "file"
    /\ boxLock = NoOne
    /\ \/ /\ arg[u] = "hold" => draft[on[u]] = "drafts"
          /\ boxLock' = u
          /\ Goto(u, "cancel")
          /\ UNCHANGED <<hold, draft, refs, on, arg, taken>>
       \/ /\ arg[u] = "hold" /\ draft[on[u]] # "drafts"
          /\ IF Unused = {} THEN UNCHANGED <<hold, draft, refs>>
             ELSE \E n \in Unused : NewHold(n)
          /\ Rest(u)
          /\ UNCHANGED boxLock
    /\ UNCHANGED <<due, queued, sent, removed, takenBack, reminders, rowLock, capsLock, asks, faults>>

\* cancelHeldForDraft: the row, if it is held, is updated once its lock is free.
Cancel(u) ==
    LET h == on[u] IN
    /\ pc[u] = "cancel"
    /\ \/ hold[h] # "held" /\ UNCHANGED rowLock
       \/ hold[h] = "held" /\ rowLock[h] = NoOne /\ rowLock' = [rowLock EXCEPT ![h] = u]
    /\ Goto(u, "remove")
    /\ UNCHANGED <<rows, reminders, boxLock, capsLock, on, arg, taken, asks, faults>>

\* removeMessage and the commit.  The draft that is gone by now fails the request.
Remove(u) ==
    LET h == on[u] IN
    /\ pc[u] = "remove"
    /\ Free(boxLock, u) /\ ~Deleting(h)
    /\ \/ /\ draft[h] # "gone"
          /\ \E n \in IF arg[u] = "hold" /\ Unused # {} THEN Unused ELSE {h} :
                /\ hold' = [x \in Holds |-> IF x = h /\ rowLock[h] = u THEN "cancelled"
                                            ELSE IF x = n /\ n # h THEN "held" ELSE hold[x]]
                /\ refs' = [x \in Holds |-> IF x = h /\ rowLock[h] = u THEN refs[h] - (1 + Copies)
                                            ELSE IF x = n /\ n # h THEN 1 + Copies ELSE refs[x]]
                /\ draft' = [x \in Holds |-> IF x = h THEN "gone"
                                             ELSE IF x = n THEN "drafts" ELSE draft[x]]
          /\ removed' = [removed EXCEPT ![h] = TRUE]
          /\ takenBack' = [takenBack EXCEPT ![h] = TRUE]
       \/ /\ draft[h] = "gone"
          /\ UNCHANGED <<hold, refs, draft, removed, takenBack>>
    /\ Unlock(u) /\ Rest(u)
    /\ UNCHANGED <<due, queued, sent, reminders, asks, faults>>

-----------------------------------------------------------------------------
\* The user, through any client, and time.

\* The draft is expunged, or moved to another mailbox (it keeps its id).
ExpungeDraft(h) ==
    /\ Ask
    /\ draft[h] \in {"drafts", "moved"} /\ DraftFree(h, NoOne)
    /\ draft' = [draft EXCEPT ![h] = "gone"]
    /\ removed' = [removed EXCEPT ![h] = TRUE]
    /\ UNCHANGED <<hold, due, refs, queued, sent, takenBack, reminders, locks, procs, faults>>

MoveDraft(h) ==
    /\ Ask
    /\ draft[h] = "drafts" /\ DraftFree(h, NoOne)
    /\ draft' = [draft EXCEPT ![h] = "moved"]
    /\ UNCHANGED <<hold, due, refs, queued, sent, removed, takenBack, reminders, locks, procs, faults>>

ExpungeSent(h) ==
    /\ Ask
    /\ sent[h] = "there"
    /\ sent' = [sent EXCEPT ![h] = "gone"]
    /\ UNCHANGED <<hold, due, draft, refs, queued, removed, takenBack, reminders, locks, procs, faults>>

Reply(h) ==
    /\ reminder[h] = "pending" /\ ~replied[h]
    /\ replied' = [replied EXCEPT ![h] = TRUE]
    /\ UNCHANGED <<rows, reminder, surfaced, locks, procs, asks, faults>>

BecomesDue(h) ==
    /\ hold[h] = "held" /\ ~due[h]
    /\ due' = [due EXCEPT ![h] = TRUE]
    /\ UNCHANGED <<hold, draft, refs, queued, sent, removed, takenBack, reminders, locks, procs, asks, faults>>

-----------------------------------------------------------------------------
\* Failures.

\* Whom p waits for: NoOne if it does not wait.
Blocker(p) ==
    CASE pc[p] = "draft" /\ draft[on[p]] = "drafts" -> boxLock
      [] pc[p] = "remove" /\ boxLock # p -> boxLock
      [] pc[p] = "cancel" /\ hold[on[p]] = "held" -> rowLock[on[p]]
      [] OTHER -> NoOne

Give(p) ==
    /\ Unlock(p) /\ Rest(p)
    /\ UNCHANGED <<rows, reminders, asks>>

\* Postgres ends a transaction that waits in a circle.
Victim(p) ==
    /\ Blocker(p) # NoOne /\ Blocker(Blocker(p)) = p
    /\ Give(p)
    /\ UNCHANGED faults

\* An exception, or the end of the process; a release is tried on the next tick.
Fails(p) ==
    /\ pc[p] # "idle"
    /\ faults < MaxFaults /\ faults' = faults + 1
    /\ Give(p)

-----------------------------------------------------------------------------
Release(w) ==
    \/ \E h \in Holds : Select(w, h) \/ Check(w, h)
    \/ Look(w) \/ Refuse(w) \/ Gate(w) \/ TakeDraft(w)
    \/ AcceptCopy(w) \/ CopyRefused(w) \/ Commit(w)
    \/ FinishUnsent(w)
    \/ Settle(w)

Request(u) == FileCopy(u) \/ Cancel(u) \/ Remove(u)

User ==
    \/ \E h \in Holds :
          \/ Hold(h) \/ Undo(h) \/ Reschedule(h)
          \/ ExpungeDraft(h) \/ MoveDraft(h) \/ ExpungeSent(h) \/ Reply(h)
    \/ \E u \in Requests, h \in Holds, what \in {"discard", "edit", "send", "hold"} : Begin(u, h, what)

Next ==
    \/ User
    \/ \E w \in Workers : Release(w)
    \/ \E u \in Requests : Request(u)
    \/ \E p \in Procs : Victim(p) \/ Fails(p)
    \/ \E h \in Holds : BecomesDue(h)

\* The loop ticks, statements return, Postgres finds the circles, time passes; a lock
\* that is let go is given to who waits for it, before the next tick asks for it.
Spec ==
    /\ Init
    /\ [][Next]_vars
    /\ \A w \in Workers : WF_vars(Release(w))
    /\ \A u \in Requests : SF_vars(Request(u))
    /\ \A p \in Procs : WF_vars(Victim(p))
    /\ \A h \in Holds : WF_vars(BecomesDue(h))

-----------------------------------------------------------------------------
\* A held send is queued once, every copy of it or none, exactly when its row says
\* released: an undone, failed or takenBack one is not sent, whatever the undo, the
\* other worker, a crash or a refused copy raced with.
ReleasedAsOne == \A h \in Holds : queued[h] = IF hold[h] = "released" THEN Sendable ELSE 0

\* The blob references of a row are those of a held one: none leaks, none is given
\* back twice.
HoldsItsBlobs == \A h \in Holds : refs[h] = IF hold[h] = "held" THEN 1 + Copies ELSE 0

\* What is not sent stays in Drafts: the draft only goes with the release or by the
\* user's hand, and a released one is gone.
DraftIsKept ==
    \A h \in Holds :
        /\ draft[h] = "gone" => hold[h] = "released" \/ removed[h]
        /\ hold[h] = "released" => draft[h] = "gone"

\* An undo that was answered, and discarding, editing or sending a draft that is
\* still there, take the held send back: it does not stay held and is not sent.
TakenBack == \A h \in Holds : takenBack[h] => hold[h] \in {"cancelled", "failed"}

\* A reminder brings its message back once, or not at all.
SurfacedOnce == \A h \in Holds : surfaced[h] = IF reminder[h] = "resurfaced" THEN 1 ELSE 0

\* A held send that is due is released, cancelled or failed, or given a later time:
\* no crash, refusal or lock keeps it waiting.
DueIsSettled == \A h \in Holds : hold[h] = "held" /\ due[h] ~> hold[h] # "held" \/ ~due[h]

\* Nobody waits for a lock for ever: each request is answered.
RequestsEnd == \A u \in Requests : pc[u] # "idle" ~> pc[u] = "idle"

=============================================================================
