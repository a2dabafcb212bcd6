----------------------------- MODULE MailStore -----------------------------
(***************************************************************************)
(* The mailboxes of one account and the IMAP sessions that watch them      *)
(* (apps/imap/src: store.ts, view.ts, extensions/qresync.ts, session.ts).  *)
(* The writers of the mailbox, message and expunged_message tables are     *)
(* actions: the IMAP commands, the filing of new mail, the webmail's flags *)
(* and moves (api/src/mail/store.ts), the compose routes' saving and       *)
(* removal of a draft, the retention sweep, the purge of a deleted         *)
(* account.  A transaction that locks the mailbox rows first and reads the *)
(* rest under the locks is one step, however many messages it takes; what  *)
(* a request read before it took the lock is a step of its own.  A         *)
(* session's reads are statements with no transaction around them, so each *)
(* is a step and the writers run between them.                             *)
(*                                                                         *)
(* A message stands for its content, and \Deleted for every flag.          *)
(* client[s] is the program at the other end: the UIDs and flags it was    *)
(* told of, which it keeps between connections, and the HIGHESTMODSEQ of   *)
(* its last SELECT, from which it resynchronises.                          *)
(***************************************************************************)
EXTENDS Integers, FiniteSetsExt

CONSTANTS
    Sessions, Messages,
    Old,                     \* the messages an account may start with
    Inbox, Drafts, Trash,    \* the special-use mailboxes
    Folder,                  \* a name for an ordinary mailbox
    Watched,                 \* the mailboxes the sessions select
    MaxWrites,               \* bound: transactions that change the tables
    MaxVal,                  \* bound: mailboxes ever created under the name Folder
    NoBox

Boxes == {Inbox, Drafts, Trash, Folder}

ASSUME MailStoreAssumption ==
    /\ Inbox # Drafts /\ Inbox # Trash /\ Drafts # Trash
    /\ Folder \notin {Inbox, Drafts, Trash}
    /\ NoBox \notin Boxes \union Messages
    /\ Watched \subseteq Boxes
    /\ IsFiniteSet(Messages) /\ Old \subseteq Messages

VARIABLES
    box,        \* mailbox rows: whether there is one, uidvalidity, uidnext, highest_modseq
    msg,        \* message rows: mailbox, uid, modseq, flag
    expunged,   \* expunged_message rows: mailbox, uid, modseq
    draft,      \* the draft a compose route has read and is about to remove
    source,     \* the INBOX row renameMailbox has read and is about to copy
    view,       \* each session's MailboxView, and where its command stands
    client,     \* what each session's client was told and keeps
    astray,     \* ghost: removals and mailboxes the code itself loses track of
    writes      \* how many transactions changed the tables

store == <<box, msg, expunged>>
vars == <<box, msg, expunged, draft, source, view, client, astray, writes>>

Exists(b) == box[b].live
In(b) == {m \in Messages : msg[m].box = b}
Uids(b) == {msg[m].uid : m \in In(b)}
Present == {m \in Messages : msg[m].box # NoBox}
MaxOf(S) == IF S = {} THEN 0 ELSE Max(S)

Nowhere == [box |-> NoBox, uid |-> 0, modseq |-> 0, flag |-> "clear"]
NoDraft == [of |-> NoBox, box |-> NoBox, uid |-> 0]
NoSource == [live |-> FALSE, val |-> 0, next |-> 1, hm |-> 0]
NoView == [phase |-> "off", box |-> NoBox, val |-> 0, uids |-> {}, known |-> <<>>,
           pending |-> {}, hm |-> 0, since |-> 0, allow |-> FALSE, probe |-> 0,
           changed |-> {}]
NoMemory == [box |-> NoBox, val |-> 0, hm |-> 0, told |-> <<>>]

(* The account has its special-use mailboxes, and one message in one of    *)
(* them or in a folder.                                                    *)
Init ==
    /\ \E m \in Old, home \in {Inbox, Drafts, Folder} :
        /\ msg = [k \in Messages |->
              IF k = m THEN [box |-> home, uid |-> 1, modseq |-> 1, flag |-> "clear"] ELSE Nowhere]
        /\ box = [b \in Boxes |->
              LET row(n) == [live |-> TRUE, val |-> 1, next |-> n + 1, hm |-> n] IN
              IF b = home THEN row(1) ELSE IF b = Folder THEN NoSource ELSE row(0)]
    /\ expunged = {}
    /\ draft = NoDraft
    /\ source = NoSource
    /\ view = [s \in Sessions |-> NoView]
    /\ client = [s \in Sessions |-> NoMemory]
    /\ astray = {}
    /\ writes = 0

-----------------------------------------------------------------------------
(* What the transactions do.  Each is called with its mailbox rows locked. *)

(* Seeded faults: a UID taken from the messages present; the removal       *)
(* recorded under the modseq before it.                                    *)
NextUidOfPresent(b) == MaxOf(Uids(b)) + 1
RecordBefore(b, uids, n) == {<<b, u, n - 1>> : u \in uids}

(* recordExpunged: ON CONFLICT DO NOTHING keeps an earlier row.            *)
Record(b, uids, n) ==
    {<<b, u, n>> : u \in {v \in uids : ~ \E r \in expunged : r[1] = b /\ r[2] = v}}

(* fileLocalMessage: the next UID and a new modseq.                        *)
NextUid(b) == box[b].next
MayFile(b) == Exists(b) /\ NextUid(b) \notin Uids(b)    \* unique (mailbox, uid)
Filed(b, flag) == [box |-> b, uid |-> NextUid(b), modseq |-> box[b].hm + 1, flag |-> flag]
File(b, m, flag) ==
    /\ MayFile(b) /\ msg[m] = Nowhere
    /\ msg' = [msg EXCEPT ![m] = Filed(b, flag)]
    /\ box' = [box EXCEPT ![b].next = NextUid(b) + 1, ![b].hm = @ + 1]
    /\ UNCHANGED expunged

SetFlag(b, S, flag) ==
    LET ch == {m \in S : msg[m].flag # flag} IN
    /\ msg' = [m \in Messages |-> IF m \in ch
                 THEN [msg[m] EXCEPT !.flag = flag, !.modseq = box[b].hm + 1] ELSE msg[m]]
    /\ box' = IF ch = {} THEN box ELSE [box EXCEPT ![b].hm = @ + 1]
    /\ UNCHANGED expunged

(* Remove the messages S of b, the way EXPUNGE does.                       *)
Delete(b, S) ==
    LET n == box[b].hm + 1 IN
    /\ msg' = [m \in Messages |-> IF m \in S THEN Nowhere ELSE msg[m]]
    /\ box' = [box EXCEPT ![b].hm = n]
    /\ expunged' = expunged \union Record(b, {msg[m].uid : m \in S}, n)

(* The UIDs the target gives to S, in the order of their UIDs.             *)
Moved(S, dst) ==
    [m \in S |-> box[dst].next + Cardinality({k \in S : msg[k].uid < msg[m].uid})]

(* MOVE: the rows are re-homed under one modseq for both mailboxes.        *)
Rehome(src, dst, S) ==
    LET n == Max({box[src].hm, box[dst].hm}) + 1
        at == Moved(S, dst)
    IN  /\ {at[m] : m \in S} \intersect Uids(dst) = {}
        /\ msg' = [m \in Messages |-> IF m \in S
                     THEN [msg[m] EXCEPT !.box = dst, !.uid = at[m], !.modseq = n] ELSE msg[m]]
        /\ box' = [b \in Boxes |->
                     CASE b = dst -> [box[b] EXCEPT !.next = @ + Cardinality(S), !.hm = n]
                       [] b = src /\ src # dst -> [box[b] EXCEPT !.hm = n]
                       [] OTHER -> box[b]]
        /\ expunged' = expunged \union Record(src, {msg[m].uid : m \in S}, n)

(* COPY: fileLocalMessage for each message of S in turn, so the n-th copy  *)
(* takes the n-th next UID and the n-th next modseq.  of says which of S   *)
(* each of the new rows N is the copy of.                                  *)
Duplicate(dst, S, N, of) ==
    LET at == Moved(S, dst) IN
    /\ \A k \in S : \E m \in N : of[m] = k
    /\ \A m, j \in N : of[m] = of[j] => m = j
    /\ {at[m] : m \in S} \intersect Uids(dst) = {}
    /\ msg' = [m \in Messages |-> IF m \in N
                 THEN [box |-> dst, uid |-> at[of[m]],
                       modseq |-> box[dst].hm + 1 + (at[of[m]] - box[dst].next),
                       flag |-> msg[of[m]].flag]
                 ELSE msg[m]]
    /\ box' = [box EXCEPT ![dst].next = @ + Cardinality(S), ![dst].hm = @ + Cardinality(S)]
    /\ UNCHANGED expunged

-----------------------------------------------------------------------------
(* Writers that are not IMAP sessions.                                     *)

Watchers == <<view, client>>

(* The rows of S are gone: a compose route that read one cannot delete it. *)
Lost(S) == draft' = IF draft.of \in S THEN [draft EXCEPT !.of = NoBox] ELSE draft

(* A new row under the name Folder, with a uidvalidity of its own.         *)
NewFolder(next, hm) ==
    [live |-> TRUE, val |-> box[Folder].val + 1, next |-> next, hm |-> hm]
MayCreate == ~ Exists(Folder) /\ box[Folder].val < MaxVal

Arrive(b, m) ==
    b # Trash /\ File(b, m, "clear") /\ UNCHANGED <<draft, source, Watchers, astray>>

Create ==
    /\ MayCreate
    /\ box' = [box EXCEPT ![Folder] = NewFolder(1, 0)]
    /\ UNCHANGED <<msg, expunged, draft, source, Watchers, astray>>

(* updateMessage without a move.                                           *)
WebFlag(m, flag) ==
    /\ msg[m] # Nowhere
    /\ SetFlag(msg[m].box, {m}, flag)
    /\ UNCHANGED <<draft, source, Watchers, astray>>

(* Seeded fault: the source's modseq is left alone.                        *)
WebBumpNot(b) == box[b].hm
WebBump(b) == box[b].hm + 1

(* updateMessage with a move: a new row in the target, the old one deleted *)
(* and its mailbox's modseq advanced; no expunged_message row is written.  *)
WebMove(m, dst, flag) ==
    LET src == msg[m].box IN
    /\ msg[m] # Nowhere /\ src # dst /\ Exists(dst)
    /\ box[dst].next \notin Uids(dst)
    /\ msg' = [msg EXCEPT ![m] = [box |-> dst, uid |-> box[dst].next,
                                  modseq |-> box[dst].hm + 1, flag |-> flag]]
    /\ box' = [box EXCEPT ![dst].next = @ + 1, ![dst].hm = @ + 1, ![src].hm = WebBump(src)]
    /\ astray' = astray \union {<<src, msg[m].uid>>}
    /\ Lost({m})
    /\ UNCHANGED <<expunged, source, Watchers>>

(* moveMessages of the snooze and reminder routes, moveBatch of retention. *)
BatchMove(src, dst, S) ==
    /\ S # {} /\ S \subseteq In(src) /\ src # dst /\ Exists(dst)
    /\ Rehome(src, dst, S)
    /\ UNCHANGED <<draft, source, Watchers, astray>>

(* expireBatch: only Trash is ever expunged by age (Rejects alike).        *)
Expire(S) ==
    /\ S # {} /\ S \subseteq In(Trash)
    /\ Delete(Trash, S) /\ Lost(S)
    /\ UNCHANGED <<source, Watchers, astray>>

(* A compose route reads the draft it is about to replace or discard ...   *)
ReadDraft(m) ==
    /\ draft = NoDraft /\ msg[m].box = Drafts
    /\ draft' = [of |-> m, box |-> Drafts, uid |-> msg[m].uid]
    /\ UNCHANGED <<store, source, Watchers, astray>>

(* ... and removes it by its id, under the lock of the mailbox it was read *)
(* in.  A row deleted meanwhile makes the transaction fail; one that was   *)
(* moved is deleted where it now is, and its removal recorded where it was.*)
RemoveMessage(n) ==
    LET m == draft.of IN
    /\ draft # NoDraft /\ m # NoBox
    /\ expunged' = expunged \union Record(Drafts, {draft.uid}, n)
    /\ astray' = IF msg[m].box = Drafts /\ msg[m].uid = draft.uid
                 THEN astray ELSE astray \union {<<msg[m].box, 0>>}
    /\ draft' = NoDraft
    /\ UNCHANGED <<source, Watchers>>

(* The draft is discarded, or sent.                                        *)
RemoveDraft ==
    /\ RemoveMessage(box[Drafts].hm + 1)
    /\ msg' = [msg EXCEPT ![draft.of] = Nowhere]
    /\ box' = [box EXCEPT ![Drafts].hm = @ + 1]

(* The draft is replaced: the new copy m is filed, then the old one        *)
(* removed, under a modseq each, in one transaction.                       *)
SaveDraft(m) ==
    /\ MayFile(Drafts) /\ msg[m] = Nowhere
    /\ RemoveMessage(box[Drafts].hm + 2)
    /\ msg' = [msg EXCEPT ![m] = Filed(Drafts, "clear"), ![draft.of] = Nowhere]
    /\ box' = [box EXCEPT ![Drafts].next = NextUid(Drafts) + 1, ![Drafts].hm = @ + 2]

(* The row had gone: message.delete throws and all is rolled back.         *)
DraftGone ==
    /\ draft # NoDraft /\ draft.of = NoBox
    /\ draft' = NoDraft
    /\ UNCHANGED <<store, source, Watchers, astray>>

(* messageBatch of the account's purge: the rows go, with no modseq and no *)
(* expunged_message row.                                                   *)
Purge(S) ==
    /\ S # {}
    /\ msg' = [m \in Messages |-> IF m \in S THEN Nowhere ELSE msg[m]]
    /\ astray' = astray \union {<<msg[m].box, 0>> : m \in S}
    /\ Lost(S)
    /\ UNCHANGED <<box, expunged, source, Watchers>>

(* RENAME of INBOX: the row is read, then locked; the new mailbox takes    *)
(* its counters from the row as it was read.                               *)
FindInbox ==
    /\ source = NoSource
    /\ source' = box[Inbox]
    /\ UNCHANGED <<store, draft, Watchers, astray>>

RenameInbox ==
    /\ source # NoSource
    /\ \/ Exists(Folder) /\ UNCHANGED <<store, astray>>    \* Rollback('exists')
       \/ /\ MayCreate
          /\ box' = [box EXCEPT ![Folder] = NewFolder(source.next, source.hm),
                                ![Inbox].hm = @ + 1]
          /\ msg' = [m \in Messages |-> IF m \in In(Inbox)
                       THEN [msg[m] EXCEPT !.box = Folder] ELSE msg[m]]
          /\ expunged' = expunged \union Record(Inbox, Uids(Inbox), box[Inbox].hm + 1)
          /\ astray' = IF source = box[Inbox] THEN astray
                       ELSE astray \union {<<Folder, 0>>}
    /\ source' = NoSource
    /\ UNCHANGED <<draft, Watchers>>

(* DELETE: the messages go with the mailbox, the expunged rows by cascade. *)
DeleteMailbox ==
    /\ Exists(Folder)
    /\ box' = [box EXCEPT ![Folder].live = FALSE, ![Folder].next = 1, ![Folder].hm = 0]
    /\ msg' = [m \in Messages |-> IF m \in In(Folder) THEN Nowhere ELSE msg[m]]
    /\ expunged' = {r \in expunged : r[1] # Folder}
    /\ astray' = {a \in astray : a[1] # Folder}
    /\ Lost(In(Folder))
    /\ UNCHANGED <<source, Watchers>>

-----------------------------------------------------------------------------
(* IMAP sessions: SELECT, and what the client is told.                     *)

Here(s) == box[view[s].box].live /\ box[view[s].box].val = view[s].val
Rows(s) == IF Here(s) THEN In(view[s].box) ELSE {}
RowUids(s) == {msg[m].uid : m \in Rows(s)}
Live(s) == view[s].uids \ view[s].pending

Keep(f, S) == [u \in DOMAIN f \intersect S |-> f[u]]

(* What the rows R (read as records) tell a client, and the modseqs noted. *)
Row(m, r) == [m |-> m, uid |-> r.uid, modseq |-> r.modseq, flag |-> r.flag]
With(R, u) == CHOOSE r \in R : r.uid = u
Tell(R, told) ==
    [u \in {r.uid : r \in R} \union DOMAIN told |->
        IF \E r \in R : r.uid = u THEN [m |-> With(R, u).m, flag |-> With(R, u).flag]
        ELSE told[u]]
Note(R, known) ==
    [u \in {r.uid : r \in R} \union DOMAIN known |->
        IF \E r \in R : r.uid = u THEN With(R, u).modseq ELSE known[u]]

(* The view's modseqs, once it has reported the rows R.                    *)
Noting(v, R) == [v EXCEPT !.known = Note(R, @)]

(* The command is done, its locals gone.                                   *)
Idle(v) == [v EXCEPT !.phase = "idle", !.since = 0, !.allow = FALSE, !.probe = 0, !.changed = {}]

(* The client gives up what it kept unless it resynchronises it.           *)
Select(s, b, q) ==
    /\ view[s].phase \in {"off", "idle"} /\ Exists(b)
    /\ q => client[s].box = b /\ client[s].hm > 0
    /\ LET resync == q /\ client[s].val = box[b].val IN
        /\ view' = [view EXCEPT ![s] = [NoView EXCEPT !.phase = "opening", !.box = b,
                        !.val = box[b].val, !.hm = box[b].hm,
                        !.since = IF resync THEN client[s].hm ELSE 0]]
        /\ client' = IF resync THEN client
                     ELSE [client EXCEPT ![s] = [NoMemory EXCEPT !.box = b, !.val = box[b].val]]
    /\ UNCHANGED <<store, draft, source, astray>>

(* MailboxView.open: the rows, read after the modseq.                      *)
Snapshot(s) ==
    /\ view[s].phase = "opening"
    /\ view' = [view EXCEPT ![s] = [@ EXCEPT
                    !.uids = RowUids(s),
                    !.known = Note({Row(m, msg[m]) : m \in Rows(s)}, <<>>),
                    !.phase = IF view[s].since = 0 THEN "idle" ELSE "vanishing"]]
    /\ client' = IF view[s].since = 0 THEN [client EXCEPT ![s].hm = view[s].hm] ELSE client
    /\ UNCHANGED <<store, draft, source, astray>>

(* qresyncSelectResponses: VANISHED (EARLIER) ...                          *)
Vanish(s) ==
    LET gone == {r[2] : r \in {x \in expunged : Here(s) /\ x[1] = view[s].box
                                                  /\ x[3] > view[s].since}}
    IN  /\ view[s].phase = "vanishing"
        /\ client' = [client EXCEPT ![s].told = Keep(@, DOMAIN @ \ gone)]
        /\ view' = [view EXCEPT ![s].phase = "changing"]
        /\ UNCHANGED <<store, draft, source, astray>>

(* ... then what changed, of the messages in the view; and SELECT is done. *)
Changes(s) ==
    LET R == {r \in {Row(m, msg[m]) : m \in Rows(s)} :
                 r.modseq > view[s].since /\ r.uid \in view[s].uids}
    IN  /\ view[s].phase = "changing"
        /\ client' = [client EXCEPT ![s].told = Tell(R, @), ![s].hm = view[s].hm]
        /\ view' = [view EXCEPT ![s] = Idle(Noting(@, R))]
        /\ UNCHANGED <<store, draft, source, astray>>

(* LOGOUT, or the connection drops; the client keeps what it was told.     *)
Disconnect(s) ==
    /\ view[s].phase # "off"
    /\ view' = [view EXCEPT ![s] = NoView]
    /\ UNCHANGED <<store, draft, source, client, astray>>

-----------------------------------------------------------------------------
(* The commands on the selected mailbox; each ends in a sync, which may    *)
(* announce expunges (allow) unless the command numbers its messages.      *)

Targets(s, U) == {m \in Rows(s) : msg[m].uid \in U}
Command(s) == view[s].phase = "idle" /\ Here(s)
Syncing(v, allow) == [v EXCEPT !.phase = "sync", !.allow = allow]

(* expungeNow: our own EXPUNGE or MOVE is announced at once.               *)
Forget(v, gone) ==
    [v EXCEPT !.uids = @ \ gone, !.pending = @ \ gone, !.known = Keep(@, DOMAIN @ \ gone)]

Fetch(s, U, allow) ==
    LET R == {Row(m, msg[m]) : m \in Targets(s, U)} IN
    /\ Command(s) /\ U \subseteq Live(s)
    /\ view' = [view EXCEPT ![s] = Syncing(Noting(@, R), allow)]
    /\ client' = [client EXCEPT ![s].told = Tell(R, @)]
    /\ UNCHANGED <<store, draft, source, astray>>

(* STORE, its rows noted whether told or (.SILENT) not.                    *)
Store(s, U, flag, silent, allow) ==
    /\ Command(s) /\ U \subseteq Live(s) /\ Targets(s, U) # {}
    /\ SetFlag(view[s].box, Targets(s, U), flag)
    /\ LET R == {Row(m, msg'[m]) : m \in Targets(s, U)} IN
        /\ view' = [view EXCEPT ![s] = Syncing(Noting(@, R), allow)]
        /\ client' = [client EXCEPT ![s].told =
              Tell(IF silent THEN {[r EXCEPT !.flag = "unknown"] : r \in R} ELSE R, @)]
    /\ UNCHANGED <<draft, source, astray>>

(* EXPUNGE takes every \Deleted message, UID EXPUNGE those of the set.     *)
Expunge(s, all, U) ==
    LET S == {m \in Rows(s) : msg[m].flag = "deleted" /\ (all \/ msg[m].uid \in U)}
        gone == {msg[m].uid : m \in S}
    IN  /\ Command(s) /\ U \subseteq Live(s) /\ S # {}
        /\ Delete(view[s].box, S) /\ Lost(S)
        /\ view' = [view EXCEPT ![s] = Syncing(Forget(@, gone), TRUE)]
        /\ client' = [client EXCEPT ![s].told = Keep(@, DOMAIN @ \ gone)]
        /\ UNCHANGED <<source, astray>>

(* CLOSE expunges without a word and leaves the mailbox.                   *)
Close(s) ==
    LET S == {m \in Rows(s) : msg[m].flag = "deleted"} IN
    /\ Command(s) /\ S # {}
    /\ Delete(view[s].box, S) /\ Lost(S)
    /\ view' = [view EXCEPT ![s] = NoView]
    /\ UNCHANGED <<source, client, astray>>

Copy(s, U, dst) ==
    LET S == Targets(s, U) IN
    /\ Command(s) /\ U \subseteq Live(s) /\ S # {} /\ Exists(dst)
    /\ \E N \in SUBSET (Messages \ Present) : \E of \in [N -> S] : Duplicate(dst, S, N, of)
    /\ view' = [view EXCEPT ![s] = Syncing(@, TRUE)]
    /\ UNCHANGED <<draft, source, client, astray>>

Move(s, U, dst) ==
    LET S == Targets(s, U)
        gone == {msg[m].uid : m \in S}
    IN  /\ Command(s) /\ U \subseteq Live(s) /\ S # {} /\ Exists(dst)
        /\ Rehome(view[s].box, dst, S)
        /\ view' = [view EXCEPT ![s] = Syncing(Forget(@, gone), TRUE)]
        /\ client' = [client EXCEPT ![s].told = Keep(@, DOMAIN @ \ gone)]
        /\ UNCHANGED <<draft, source, astray>>

-----------------------------------------------------------------------------
(* MailboxView.sync, after a command, on NOOP and whenever IDLE wakes.     *)

Wake(s) ==
    /\ view[s].phase = "idle"
    /\ view' = [view EXCEPT ![s] = Syncing(@, TRUE)]
    /\ UNCHANGED <<store, draft, source, client, astray>>

Flush(v) == IF v.allow THEN Forget(v, v.pending) ELSE v
Announced(v) == IF v.allow THEN v.pending ELSE {}

Probe(s) ==
    LET v == view[s] IN
    /\ v.phase = "sync"
    /\ \/ ~ Here(s) /\ view' = [view EXCEPT ![s] = NoView] /\ UNCHANGED client    \* BYE
       \/ /\ Here(s) /\ box[v.box].hm = v.hm
          /\ view' = [view EXCEPT ![s] = Idle(Flush(v))]
          /\ client' = [client EXCEPT ![s].told = Keep(@, DOMAIN @ \ Announced(v))]
       \/ /\ Here(s) /\ box[v.box].hm # v.hm
          /\ view' = [view EXCEPT ![s] = [v EXCEPT !.phase = "probed", !.probe = box[v.box].hm]]
          /\ UNCHANGED client
    /\ UNCHANGED <<store, draft, source, astray>>

ReadChanged(s) ==
    /\ view[s].phase = "probed"
    /\ view' = [view EXCEPT ![s] = [@ EXCEPT !.phase = "changed",
            !.changed = {r \in {Row(m, msg[m]) : m \in Rows(s)} : r.modseq > view[s].hm}]]
    /\ UNCHANGED <<store, draft, source, client, astray>>

(* Seeded faults: the modseq synced to is read after the rows; it is that  *)
(* of the newest row read, which an expunge has none of.                   *)
SyncedToLater(v) == box[v.box].hm
SyncedToRows(v) == MaxOf({v.hm} \union {r.modseq : r \in v.changed})
SyncedTo(v) == v.probe

Arrivals(v) == {r \in v.changed : r.uid > MaxOf(v.uids)}

(* The rest of sync: what has gone (the count and the list of UIDs up to   *)
(* the largest known are read together: UIDs up to it only ever go), what  *)
(* arrived, and whose flags changed.                                       *)
Finish(s) ==
    LET v == view[s]
        gone == IF Cardinality({u \in RowUids(s) : u <= MaxOf(v.uids)}) # Cardinality(Live(s))
                THEN v.uids \ RowUids(s) ELSE {}
        w == [v EXCEPT !.pending = @ \union gone]
        f == Flush(w)
        new == Arrivals(v)
        fresh == {r \in v.changed \ new : /\ r.uid \in f.uids \ f.pending
                                          /\ r.modseq > f.known[r.uid]}
        g == [f EXCEPT !.uids = @ \union {r.uid : r \in new}, !.hm = SyncedTo(v)]
    IN  /\ v.phase = "changed"
        /\ view' = [view EXCEPT ![s] = Idle(Noting(g, fresh \union new))]
        /\ client' = [client EXCEPT ![s].told =
                        Tell(fresh, Keep(@, DOMAIN @ \ Announced(w)))]
        /\ UNCHANGED <<store, draft, source, astray>>

-----------------------------------------------------------------------------

Flag == {"clear", "deleted"}

(* The transactions that change the tables, the sessions' among them.      *)
Write ==
    \/ \E b \in Boxes, m \in Messages : Arrive(b, m)
    \/ Create \/ RemoveDraft \/ RenameInbox \/ DeleteMailbox
    \/ \E m \in Messages : SaveDraft(m)
    \/ \E S \in SUBSET Present : Purge(S)
    \/ \E m \in Messages, f \in Flag : WebFlag(m, f)
    \/ \E m \in Messages, d \in Boxes, f \in Flag : WebMove(m, d, f)
    \/ \E b, d \in Boxes : \E S \in SUBSET In(b) : BatchMove(b, d, S)
    \/ \E S \in SUBSET In(Trash) : Expire(S)
    \/ \E s \in Sessions :
        \/ Close(s)
        \/ \E U \in SUBSET Live(s) :
            \/ \E f \in Flag, quiet, a \in BOOLEAN : Store(s, U, f, quiet, a)
            \/ \E all \in BOOLEAN : Expunge(s, all, U)
            \/ \E d \in Boxes : Move(s, U, d) \/ Copy(s, U, d)

Step(s) ==
    /\ Snapshot(s) \/ Vanish(s) \/ Changes(s) \/ Probe(s) \/ ReadChanged(s) \/ Finish(s)
    /\ UNCHANGED writes
Awake(s) == Wake(s) /\ UNCHANGED writes

Next ==
    \/ writes < MaxWrites /\ Write /\ writes' = IF store' = store THEN writes ELSE writes + 1
    \/ \E s \in Sessions : Step(s) \/ Awake(s)
    \/ /\ \/ FindInbox
          \/ DraftGone
          \/ \E m \in Messages : ReadDraft(m)
          \/ \E s \in Sessions :
              \/ \E b \in Watched, q \in BOOLEAN : Select(s, b, q)
              \/ Disconnect(s)
              \/ \E U \in SUBSET Live(s), a \in BOOLEAN : Fetch(s, U, a)
       /\ UNCHANGED writes

Spec == Init /\ [][Next]_vars
FairSpec == Spec /\ \A s \in Sessions : WF_vars(Step(s)) /\ WF_vars(Awake(s))

-----------------------------------------------------------------------------

Sound(b) == <<b, 0>> \notin astray

(* A session that has nothing left to hear: its modseq is the mailbox's.   *)
Synced(s) ==
    /\ view[s].phase = "idle" /\ Here(s)
    /\ view[s].hm = box[view[s].box].hm

(* PictureIsTrue: between commands, a session whose modseq is the          *)
(* mailbox's has in its view exactly the messages of the mailbox, and the  *)
(* flags its client was told of are the ones stored - although probe,      *)
(* changedSince and uidsUpTo (view.ts sync) read at different moments.     *)
PictureIsTrue ==
    \A s \in Sessions : Synced(s) /\ Sound(view[s].box) =>
        /\ Live(s) = RowUids(s)
        /\ \A m \in Rows(s) : msg[m].uid \in DOMAIN client[s].told =>
              client[s].told[msg[m].uid].flag \in {"unknown", msg[m].flag}

Ghosts(s) == DOMAIN client[s].told \ (RowUids(s) \union view[s].pending)

(* NoGhosts: a client that resynchronised from the modseq it remembered    *)
(* (SELECT QRESYNC), or that never left, keeps no message that is gone,    *)
(* but for those a webmail move took away without an expunged_message row. *)
NoGhosts ==
    \A s \in Sessions : Synced(s) /\ Sound(view[s].box) =>
        \A u \in Ghosts(s) : <<view[s].box, u>> \in astray

(* VanishedIsExact: what qresync.ts claims of its answer: no client that   *)
(* resynchronised keeps a message that is gone.                            *)
VanishedIsExact ==
    \A s \in Sessions : Synced(s) /\ Sound(view[s].box) => Ghosts(s) = {}

(* UidNamesOne: within a UIDVALIDITY a UID a client has heard of never     *)
(* comes to name another message (store.ts: a UID is never reused).        *)
UidNamesOne ==
    \A s \in Sessions : LET c == client[s] IN
        (/\ c.box # NoBox /\ box[c.box].live /\ c.val = box[c.box].val /\ Sound(c.box)) =>
            \A m \in In(c.box) : msg[m].uid \in DOMAIN c.told => c.told[msg[m].uid].m = m

(* ModseqGrows: a step that changes what a mailbox holds gives it a new,   *)
(* larger highest_modseq, and every message it changed there a modseq      *)
(* above the old value and no greater than the new one, so that            *)
(* changedSince(old) finds it.  (The head of store.ts says more, that the  *)
(* message's modseq is that value: not so of the first of several copies,  *)
(* or of the new copy of a draft that is saved.)                           *)
ModseqGrows ==
    [][\A b \in Boxes :
        (/\ box[b].live /\ box'[b].live /\ <<b, 0>> \notin astray'
         /\ {<<m, msg'[m]>> : m \in In(b)'} # {<<m, msg[m]>> : m \in In(b)}) =>
            /\ box'[b].hm > box[b].hm
            /\ \A m \in In(b)' : msg'[m] # msg[m] =>
                  msg'[m].modseq > box[b].hm /\ msg'[m].modseq <= box'[b].hm]_vars

(* ToldInTheEnd: a session that stays catches up with its mailbox again    *)
(* and again, whatever changed between the reads of its syncs.             *)
ToldInTheEnd ==
    \A s \in Sessions : []<>(view[s].phase = "off" \/ Synced(s))

=============================================================================
