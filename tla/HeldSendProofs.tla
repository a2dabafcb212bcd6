--------------------------- MODULE HeldSendProofs ---------------------------
(***************************************************************************)
(* What a held send promises, for any number of sends, copies, workers and *)
(* requests, and through any number of crashes.  None of the five          *)
(* invariants is inductive.  A release, an undo and a request about the    *)
(* draft all decide on what they have read of the row and write later; the *)
(* strengthening says what the lock of the row is worth (Locked): whoever  *)
(* has it works on that row, and the row is still held.  A release that    *)
(* has taken the draft still has it (Takes), and a request that goes on    *)
(* without the lock has seen a row that will not be held again (Asks).     *)
(***************************************************************************)
EXTENDS HeldSend, TLAPS

Verdicts == {"cancelled", "failed"}
Settlements == {"cancelled", "replied", "resurfaced"}

Types ==
    /\ hold \in [Holds -> {"none", "held", "released"} \cup Verdicts]
    /\ draft \in [Holds -> {"none", "drafts", "moved", "gone"}]
    /\ due \in [Holds -> BOOLEAN] /\ removed \in [Holds -> BOOLEAN]
    /\ takenBack \in [Holds -> BOOLEAN] /\ replied \in [Holds -> BOOLEAN]
    /\ refs \in [Holds -> Nat] /\ queued \in [Holds -> Nat] /\ surfaced \in [Holds -> Nat]
    /\ sent \in [Holds -> {"none", "there", "gone"}]
    /\ reminder \in [Holds -> {"none", "pending"} \cup Settlements]
    /\ rowLock \in [Holds -> Procs \cup {NoOne}]
    /\ boxLock \in Procs \cup {NoOne} /\ capsLock \in Procs \cup {NoOne}
    /\ pc \in [Procs -> {"idle", "look", "accept", "draft", "copies", "unsent", "settle",
                         "file", "cancel", "remove"}]
    /\ on \in [Procs -> Holds \cup {NoOne}]
    /\ arg \in [Procs -> {"none", "discard", "edit", "send", "hold"} \cup Verdicts \cup Settlements]
    /\ taken \in [Procs -> Nat]

\* A process that works has a row to work on, and what it is about to write is one of
\* the outcomes of its kind.
Works(p) ==
    /\ pc[p] # "idle" => on[p] \in Holds
    /\ pc[p] = "unsent" => arg[p] \in Verdicts
    /\ pc[p] = "settle" => arg[p] \in Settlements

\* A release in its transaction has the row, and after TakeDraft the draft.
Takes(p) ==
    /\ pc[p] \in {"draft", "copies"} => p \in Workers /\ rowLock[on[p]] = p
    /\ pc[p] = "copies" => draft[on[p]] \in {"drafts", "moved"}

\* A request that removes the draft has the row, or the row is past being held.
Asks(p) ==
    /\ pc[p] \in {"file", "cancel", "remove"} => hold[on[p]] # "none"
    /\ pc[p] = "remove" => rowLock[on[p]] = p \/ hold[on[p]] # "held"

\* The lock of a row is had by one who works on it, and while it is the row is held.
Locked(h) ==
    rowLock[h] # NoOne =>
        /\ on[rowLock[h]] = h
        /\ pc[rowLock[h]] \in {"draft", "copies", "remove"}
        /\ hold[h] = "held"

\* A row, its draft and its reminder are at matching points of their lives.
Matches(h) ==
    /\ hold[h] = "none" <=> draft[h] = "none"
    /\ reminder[h] # "none" => hold[h] = "released"

Running == \A p \in Procs : Works(p) /\ Takes(p) /\ Asks(p)
Rows == \A h \in Holds : Locked(h) /\ Matches(h)
Promises == ReleasedAsOne /\ HoldsItsBlobs /\ DraftIsKept /\ TakenBack /\ SurfacedOnce

IInv == Types /\ Running /\ Rows /\ Promises

-----------------------------------------------------------------------------
\* A step that leaves rows and reminders alone keeps what is promised of them.
LEMMA RowsAlone ==
    ASSUME IInv, UNCHANGED <<rows, reminders>>
    PROVE  Promises'
BY DEF IInv, Promises, ReleasedAsOne, HoldsItsBlobs, DraftIsKept, TakenBack, SurfacedOnce,
   rows, reminders

\* releaseDue finds a row that is due.
LEMMA SelectKeeps ==
    ASSUME IInv, NEW w \in Workers, NEW h \in Holds, Select(w, h)
    PROVE  IInv'
<1>1. Types'
  BY HeldSendAssumption DEF IInv, Types, Procs, Select, Goto, rows, reminders, locks
<1>2. Running'
  BY HeldSendAssumption DEF IInv, Types, Running, Works, Takes, Asks, Procs, Rows, Locked,
     Select, Goto, rows, reminders, locks
<1>3. Rows'
  BY HeldSendAssumption DEF IInv, Types, Rows, Locked, Matches, Procs, Running, Takes,
     Select, Goto, rows, reminders, locks
<1>4. Promises'
  BY RowsAlone DEF rows, Select
<1>5. QED  BY <1>1, <1>2, <1>3, <1>4 DEF IInv

\* releaseOne loads the row and its draft.
LEMMA LookKeeps ==
    ASSUME IInv, NEW w \in Workers, Look(w)
    PROVE  IInv'
<1>1. Types'
  BY HeldSendAssumption DEF IInv, Types, Procs, Verdicts, Look, Goto, Rest, rows, reminders,
     locks
<1>2. Running'
  BY HeldSendAssumption DEF IInv, Types, Running, Works, Takes, Asks, Procs, Rows, Locked,
     Verdicts, Look, Goto, Rest, rows, reminders, locks
<1>3. Rows'
  BY HeldSendAssumption DEF IInv, Types, Rows, Locked, Matches, Procs, Look, Goto, Rest,
     rows, reminders, locks
<1>4. Promises'
  BY RowsAlone DEF rows, Look
<1>5. QED  BY <1>1, <1>2, <1>3, <1>4 DEF IInv

\* The first copy is refused.
LEMMA RefuseKeeps ==
    ASSUME IInv, NEW w \in Workers, Refuse(w)
    PROVE  IInv'
<1>1. Types'
  BY HeldSendAssumption DEF IInv, Types, Procs, Verdicts, Refuse, Goto, rows, reminders,
     locks
<1>2. Running'
  BY HeldSendAssumption DEF IInv, Types, Running, Works, Takes, Asks, Procs, Verdicts,
     Refuse, Goto, rows, reminders, locks
<1>3. Rows'
  BY HeldSendAssumption DEF IInv, Types, Rows, Locked, Matches, Procs, Refuse, Goto, rows,
     reminders, locks
<1>4. Promises'
  BY RowsAlone DEF rows, Refuse
<1>5. QED  BY <1>1, <1>2, <1>3, <1>4 DEF IInv

\* The conditional update takes the lock of a row that is held.
LEMMA GateKeeps ==
    ASSUME IInv, NEW w \in Workers, Gate(w)
    PROVE  IInv'
<1>1. Types'
  BY HeldSendAssumption DEF IInv, Types, Procs, Running, Works, Gate, Goto, Rest, rows,
     reminders, locks
<1>2. Running'
  BY HeldSendAssumption DEF IInv, Types, Running, Works, Takes, Asks, Procs, Rows, Locked,
     Gate, Goto, Rest, rows, reminders, locks
<1>3. Rows'
  BY HeldSendAssumption DEF IInv, Types, Rows, Locked, Matches, Procs, Running, Works, Gate,
     Goto, Rest, rows, reminders, locks
<1>4. Promises'
  BY RowsAlone DEF rows, Gate
<1>5. QED  BY <1>1, <1>2, <1>3, <1>4 DEF IInv

\* The release takes the draft, or is given up.
LEMMA TakeDraftKeeps ==
    ASSUME IInv, NEW w \in Workers, TakeDraft(w)
    PROVE  IInv'
<1>1. Types'
  BY HeldSendAssumption DEF IInv, Types, Procs, Verdicts, TakeDraft, RollBack, Unlock, Goto,
     Rest, rows, reminders
<1>2. Running'
  BY HeldSendAssumption DEF IInv, Types, Running, Works, Takes, Asks, Procs, Rows, Locked,
     Matches, Verdicts, TakeDraft, RollBack, Unlock, Goto, Rest, rows, reminders
<1>3. Rows'
  BY HeldSendAssumption DEF IInv, Types, Rows, Locked, Matches, Procs, Running, Takes,
     TakeDraft, RollBack, Unlock, Goto, Rest, rows, reminders
<1>4. Promises'
  BY RowsAlone DEF rows, TakeDraft
<1>5. QED  BY <1>1, <1>2, <1>3, <1>4 DEF IInv

\* One more copy is accepted.
LEMMA AcceptCopyKeeps ==
    ASSUME IInv, NEW w \in Workers, AcceptCopy(w)
    PROVE  IInv'
<1>1. Types'
  BY HeldSendAssumption DEF IInv, Types, Procs, AcceptCopy, rows, reminders, locks
<1>2. Running'
  BY HeldSendAssumption DEF IInv, Types, Running, Works, Takes, Asks, Procs, AcceptCopy,
     rows, reminders, locks
<1>3. Rows'
  BY HeldSendAssumption DEF IInv, Types, Rows, Locked, Matches, Procs, AcceptCopy, rows,
     reminders, locks
<1>4. Promises'
  BY RowsAlone DEF rows, AcceptCopy
<1>5. QED  BY <1>1, <1>2, <1>3, <1>4 DEF IInv

\* A copy is refused, and the transaction rolled back.
LEMMA CopyRefusedKeeps ==
    ASSUME IInv, NEW w \in Workers, CopyRefused(w)
    PROVE  IInv'
<1>1. Types'
  BY HeldSendAssumption DEF IInv, Types, Procs, Verdicts, CopyRefused, RollBack, Unlock,
     Goto, rows, reminders
<1>2. Running'
  BY HeldSendAssumption DEF IInv, Types, Running, Works, Takes, Asks, Procs, Rows, Locked,
     Verdicts, CopyRefused, RollBack, Unlock, Goto, rows, reminders
<1>3. Rows'
  BY HeldSendAssumption DEF IInv, Types, Rows, Locked, Matches, Procs, CopyRefused,
     RollBack, Unlock, Goto, rows, reminders
<1>4. Promises'
  BY RowsAlone DEF rows, CopyRefused
<1>5. QED  BY <1>1, <1>2, <1>3, <1>4 DEF IInv

\* The commit moves the row, its draft, its references and its copies at once.
LEMMA CommitKeeps ==
    ASSUME IInv, NEW w \in Workers, Commit(w)
    PROVE  IInv'
<1>1. Types'
  BY HeldSendAssumption DEF IInv, Types, Procs, Sendable, Settlements, Running, Works,
     Takes, Rows, Locked, Promises, HoldsItsBlobs, Commit, Unlock, Goto, Rest
<1>2. Running'
  BY HeldSendAssumption DEF IInv, Types, Running, Works, Takes, Asks, Procs, Rows, Locked,
     Commit, Unlock, Goto, Rest
<1>3. Rows'
  BY HeldSendAssumption DEF IInv, Types, Rows, Locked, Matches, Procs, Running, Works,
     Takes, Commit, Unlock, Goto, Rest
<1>4. Promises'
  BY HeldSendAssumption DEF IInv, Types, Promises, ReleasedAsOne, HoldsItsBlobs,
     DraftIsKept, TakenBack, SurfacedOnce, Procs, Running, Works, Takes, Rows, Locked,
     Matches, Sendable, Commit, Unlock, Goto, Rest
<1>5. QED  BY <1>1, <1>2, <1>3, <1>4 DEF IInv

\* finishUnsent takes a row that nobody has locked and that is still held.
LEMMA FinishUnsentKeeps ==
    ASSUME IInv, NEW w \in Workers, FinishUnsent(w)
    PROVE  IInv'
<1>1. Types'
  BY HeldSendAssumption DEF IInv, Types, Procs, Verdicts, Running, Works, Promises,
     HoldsItsBlobs, FinishUnsent, Goto, Rest, locks, reminders
<1>2. Running'
  BY HeldSendAssumption DEF IInv, Types, Running, Works, Takes, Asks, Procs, Rows, Locked,
     Verdicts, FinishUnsent, Goto, Rest, locks, reminders
<1>3. Rows'
  BY HeldSendAssumption DEF IInv, Types, Rows, Locked, Matches, Procs, Running, Works,
     Verdicts, FinishUnsent, Goto, Rest, locks, reminders
<1>4. Promises'
  BY HeldSendAssumption DEF IInv, Types, Promises, ReleasedAsOne, HoldsItsBlobs,
     DraftIsKept, TakenBack, SurfacedOnce, Procs, Running, Works, Verdicts, Rows, Matches,
     FinishUnsent, Goto, Rest, locks, reminders
<1>5. QED  BY <1>1, <1>2, <1>3, <1>4 DEF IInv

\* checkOne decides on what it reads.
LEMMA CheckKeeps ==
    ASSUME IInv, NEW w \in Workers, NEW h \in Holds, Check(w, h)
    PROVE  IInv'
<1>1. Types'
  BY HeldSendAssumption DEF IInv, Types, Procs, Settlements, Check, Goto, rows, reminders,
     locks
<1>2. Running'
  BY HeldSendAssumption DEF IInv, Types, Running, Works, Takes, Asks, Procs, Rows, Locked,
     Settlements, Check, Goto, rows, reminders, locks
<1>3. Rows'
  BY HeldSendAssumption DEF IInv, Types, Rows, Locked, Matches, Procs, Running, Takes,
     Check, Goto, rows, reminders, locks
<1>4. Promises'
  BY RowsAlone DEF rows, Check
<1>5. QED  BY <1>1, <1>2, <1>3, <1>4 DEF IInv

\* A reminder is settled while it is pending.
LEMMA SettleKeeps ==
    ASSUME IInv, NEW w \in Workers, Settle(w)
    PROVE  IInv'
<1>1. Types'
  BY HeldSendAssumption DEF IInv, Types, Procs, Settlements, Running, Works, Settle, Goto,
     Rest, rows, locks
<1>2. Running'
  BY HeldSendAssumption DEF IInv, Types, Running, Works, Takes, Asks, Procs, Rows, Locked,
     Settle, Goto, Rest, rows, locks
<1>3. Rows'
  BY HeldSendAssumption DEF IInv, Types, Rows, Locked, Matches, Procs, Running, Works,
     Settlements, Settle, Goto, Rest, rows, locks
<1>4. Promises'
  BY HeldSendAssumption DEF IInv, Types, Promises, ReleasedAsOne, HoldsItsBlobs,
     DraftIsKept, TakenBack, SurfacedOnce, Procs, Running, Works, Settlements, rows, Settle,
     Goto, Rest, locks
<1>5. QED  BY <1>1, <1>2, <1>3, <1>4 DEF IInv

\* A new row, with its draft and its references.
LEMMA HoldKeeps ==
    ASSUME IInv, NEW h \in Holds, Hold(h)
    PROVE  IInv'
<1>1. Types'
  BY HeldSendAssumption DEF IInv, Types, Hold, NewHold, Unused, procs, locks, reminders
<1>2. Running'
  BY HeldSendAssumption DEF IInv, Types, Running, Works, Takes, Asks, Procs, Rows, Matches,
     Hold, NewHold, Unused, procs, locks, reminders
<1>3. Rows'
  BY HeldSendAssumption DEF IInv, Types, Rows, Locked, Matches, Procs, Hold, NewHold,
     Unused, procs, locks, reminders
<1>4. Promises'
  BY HeldSendAssumption DEF IInv, Types, Promises, ReleasedAsOne, HoldsItsBlobs,
     DraftIsKept, TakenBack, SurfacedOnce, Rows, Matches, Sendable, Hold, NewHold, Unused,
     procs, locks, reminders
<1>5. QED  BY <1>1, <1>2, <1>3, <1>4 DEF IInv

\* Undo takes a held row that nobody has locked.
LEMMA UndoKeeps ==
    ASSUME IInv, NEW h \in Holds, Undo(h)
    PROVE  IInv'
<1>1. Types'
  BY HeldSendAssumption DEF IInv, Types, Verdicts, Promises, HoldsItsBlobs, Undo, procs,
     locks, reminders
<1>2. Running'
  BY HeldSendAssumption DEF IInv, Types, Running, Works, Takes, Asks, Procs, Rows, Locked,
     Undo, procs, locks, reminders
<1>3. Rows'
  BY HeldSendAssumption DEF IInv, Types, Rows, Locked, Matches, Procs, Undo, procs, locks,
     reminders
<1>4. Promises'
  BY HeldSendAssumption DEF IInv, Types, Promises, ReleasedAsOne, HoldsItsBlobs,
     DraftIsKept, TakenBack, SurfacedOnce, Rows, Matches, Undo, procs, locks, reminders
<1>5. QED  BY <1>1, <1>2, <1>3, <1>4 DEF IInv

\* A later time changes nothing else.
LEMMA RescheduleKeeps ==
    ASSUME IInv, NEW h \in Holds, Reschedule(h)
    PROVE  IInv'
<1>1. Types'
  BY HeldSendAssumption DEF IInv, Types, Reschedule, procs, locks, reminders
<1>2. Running'
  BY HeldSendAssumption DEF IInv, Types, Running, Works, Takes, Asks, Procs, Reschedule,
     procs, locks, reminders
<1>3. Rows'
  BY HeldSendAssumption DEF IInv, Types, Rows, Locked, Matches, Procs, Reschedule, procs,
     locks, reminders
<1>4. Promises'
  BY HeldSendAssumption DEF IInv, Types, Promises, ReleasedAsOne, HoldsItsBlobs,
     DraftIsKept, TakenBack, SurfacedOnce, Reschedule, procs, locks, reminders
<1>5. QED  BY <1>1, <1>2, <1>3, <1>4 DEF IInv

\* A request finds its draft.
LEMMA BeginKeeps ==
    ASSUME IInv, NEW u \in Requests, NEW h \in Holds,
           NEW what \in {"discard", "edit", "send", "hold"},
           Begin(u, h, what)
    PROVE  IInv'
<1>1. Types'
  BY HeldSendAssumption DEF IInv, Types, Procs, Begin, Goto, rows, reminders
<1>2. Running'
  BY HeldSendAssumption DEF IInv, Types, Running, Works, Takes, Asks, Procs, Rows, Locked,
     Matches, Begin, Goto, rows, reminders
<1>3. Rows'
  BY HeldSendAssumption DEF IInv, Types, Rows, Locked, Matches, Procs, Running, Takes,
     Begin, Goto, rows, reminders
<1>4. Promises'
  BY RowsAlone DEF rows, Begin
<1>5. QED  BY <1>1, <1>2, <1>3, <1>4 DEF IInv

\* A request files its copy under the lock of Drafts.
LEMMA FileCopyKeeps ==
    ASSUME IInv, NEW u \in Requests, FileCopy(u)
    PROVE  IInv'
<1>1. Types'
  BY HeldSendAssumption DEF IInv, Types, Procs, FileCopy, NewHold, Unused, Goto, Rest,
     reminders
<1>2. Running'
  BY HeldSendAssumption DEF IInv, Types, Running, Works, Takes, Asks, Procs, Rows, Locked,
     Matches, FileCopy, NewHold, Unused, Goto, Rest, reminders
<1>3. Rows'
  BY HeldSendAssumption DEF IInv, Types, Rows, Locked, Matches, Procs, FileCopy, NewHold,
     Unused, Goto, Rest, reminders
<1>4. Promises'
  BY HeldSendAssumption DEF IInv, Types, Promises, ReleasedAsOne, HoldsItsBlobs,
     DraftIsKept, TakenBack, SurfacedOnce, Rows, Matches, FileCopy, NewHold, Unused, Goto,
     Rest, reminders
<1>5. QED  BY <1>1, <1>2, <1>3, <1>4 DEF IInv

\* cancelHeldForDraft takes the row if it is held.
LEMMA CancelKeeps ==
    ASSUME IInv, NEW u \in Requests, Cancel(u)
    PROVE  IInv'
<1>1. Types'
  BY HeldSendAssumption DEF IInv, Types, Procs, Running, Works, Cancel, Goto, rows,
     reminders
<1>2. Running'
  BY HeldSendAssumption DEF IInv, Types, Running, Works, Takes, Asks, Procs, Rows, Locked,
     Cancel, Goto, rows, reminders
<1>3. Rows'
  BY HeldSendAssumption DEF IInv, Types, Rows, Locked, Matches, Procs, Running, Works,
     Cancel, Goto, rows, reminders
<1>4. Promises'
  BY RowsAlone DEF rows, Cancel
<1>5. QED  BY <1>1, <1>2, <1>3, <1>4 DEF IInv

\* The request removes the draft, and takes the row back if it has it.
LEMMA RemoveKeeps ==
    ASSUME IInv, NEW u \in Requests, Remove(u)
    PROVE  IInv'
<1> DEFINE h == on[u]
           mine == rowLock[h] = u
<1>1. u \in Procs /\ u # NoOne /\ h \in Holds /\ pc[u] = "remove" /\ hold[h] # "none"
  BY HeldSendAssumption DEF IInv, Running, Works, Asks, Procs, Remove
<1>2. PICK n \in Holds :
        \/ UNCHANGED <<hold, refs, draft, removed, takenBack>> /\ draft[h] = "gone"
        \/ /\ draft[h] # "gone"
           /\ n = h \/ hold[n] = "none"
           /\ hold' = [x \in Holds |-> IF x = h /\ mine THEN "cancelled"
                                       ELSE IF x = n /\ n # h THEN "held" ELSE hold[x]]
           /\ refs' = [x \in Holds |-> IF x = h /\ mine THEN refs[h] - (1 + Copies)
                                       ELSE IF x = n /\ n # h THEN 1 + Copies ELSE refs[x]]
           /\ draft' = [x \in Holds |-> IF x = h THEN "gone"
                                        ELSE IF x = n THEN "drafts" ELSE draft[x]]
           /\ removed' = [removed EXCEPT ![h] = TRUE]
           /\ takenBack' = [takenBack EXCEPT ![h] = TRUE]
  BY <1>1 DEF Remove, Unused
<1>3. mine => hold[h] = "held" /\ refs[h] = 1 + Copies
  BY <1>1, HeldSendAssumption DEF IInv, Rows, Locked, Promises, HoldsItsBlobs
<1>4. draft[h] # "gone" /\ ~mine => hold[h] \in Verdicts
  BY <1>1 DEF IInv, Types, Verdicts, Running, Asks, Promises, DraftIsKept
<1>5. Types'
  <2>1. hold' \in [Holds -> {"none", "held", "released"} \cup Verdicts]
    BY <1>1, <1>2 DEF IInv, Types, Verdicts
  <2>2. draft' \in [Holds -> {"none", "drafts", "moved", "gone"}]
    BY <1>1, <1>2 DEF IInv, Types
  <2>3. removed' \in [Holds -> BOOLEAN] /\ takenBack' \in [Holds -> BOOLEAN]
    BY <1>1, <1>2 DEF IInv, Types
  <2>4. /\ 1 + Copies \in Nat
        /\ mine => refs[h] - (1 + Copies) = 0
    BY <1>3, HeldSendAssumption
  <2>5. refs' \in [Holds -> Nat]
    BY <1>1, <1>2, <2>4 DEF IInv, Types
  <2>6. /\ rowLock' \in [Holds -> Procs \cup {NoOne}]
        /\ boxLock' \in Procs \cup {NoOne} /\ capsLock' \in Procs \cup {NoOne}
    BY DEF IInv, Types, Remove, Unlock
  <2>7. QED  BY <2>1, <2>5, <2>6, <2>2, <2>3 DEF IInv, Types, Remove, Rest, Goto, reminders
<1>6. Running'
  BY <1>1, HeldSendAssumption DEF IInv, Types, Running, Works, Takes, Asks, Rows, Locked,
     Matches, Procs, Remove, Unlock, Rest, Goto, Unused, Deleting
<1>7. Rows'
  BY <1>1, HeldSendAssumption DEF IInv, Types, Running, Asks, Rows, Locked, Matches, Procs,
     Remove, Unlock, Rest, Goto, Unused, reminders
<1>8. \A x \in Holds :
        hold[x] = "none" => draft[x] = "none" /\ reminder[x] = "none" /\ ~takenBack[x]
  BY DEF IInv, Types, Rows, Matches, Promises, TakenBack
<1>9. ReleasedAsOne' /\ HoldsItsBlobs'
  BY <1>1, <1>2, <1>3, HeldSendAssumption DEF IInv, Types, Promises, ReleasedAsOne,
     HoldsItsBlobs, Remove
<1>10. DraftIsKept'
  BY <1>1, <1>2, <1>3, <1>8 DEF IInv, Types, Promises, DraftIsKept
<1>11. TakenBack'
  BY <1>1, <1>2, <1>3, <1>4, <1>8 DEF IInv, Types, Verdicts, Promises, TakenBack
<1>12. SurfacedOnce'
  BY DEF IInv, Promises, SurfacedOnce, Remove, reminders
<1>13. QED  BY <1>5, <1>6, <1>7, <1>9, <1>10, <1>11, <1>12 DEF IInv, Promises

\* A client expunges the draft, unless a release has it.
LEMMA ExpungeDraftKeeps ==
    ASSUME IInv, NEW h \in Holds, ExpungeDraft(h)
    PROVE  IInv'
<1>1. Types'
  BY HeldSendAssumption DEF IInv, Types, ExpungeDraft, DraftFree, Deleting, procs, locks,
     reminders
<1>2. Running'
  BY HeldSendAssumption DEF IInv, Types, Running, Works, Takes, Asks, Procs, ExpungeDraft,
     DraftFree, Deleting, procs, locks, reminders
<1>3. Rows'
  BY HeldSendAssumption DEF IInv, Types, Rows, Locked, Matches, Procs, ExpungeDraft,
     DraftFree, Deleting, procs, locks, reminders
<1>4. Promises'
  BY HeldSendAssumption DEF IInv, Types, Promises, ReleasedAsOne, HoldsItsBlobs,
     DraftIsKept, TakenBack, SurfacedOnce, Rows, Matches, ExpungeDraft, DraftFree, Deleting,
     procs, locks, reminders
<1>5. QED  BY <1>1, <1>2, <1>3, <1>4 DEF IInv

\* A client moves the draft, unless a release has it.
LEMMA MoveDraftKeeps ==
    ASSUME IInv, NEW h \in Holds, MoveDraft(h)
    PROVE  IInv'
<1>1. Types'
  BY HeldSendAssumption DEF IInv, Types, MoveDraft, DraftFree, Deleting, procs, locks,
     reminders
<1>2. Running'
  BY HeldSendAssumption DEF IInv, Types, Running, Works, Takes, Asks, Procs, MoveDraft,
     DraftFree, Deleting, procs, locks, reminders
<1>3. Rows'
  BY HeldSendAssumption DEF IInv, Types, Rows, Locked, Matches, Procs, MoveDraft, DraftFree,
     Deleting, procs, locks, reminders
<1>4. Promises'
  BY HeldSendAssumption DEF IInv, Types, Promises, ReleasedAsOne, HoldsItsBlobs,
     DraftIsKept, TakenBack, SurfacedOnce, MoveDraft, DraftFree, Deleting, procs, locks,
     reminders
<1>5. QED  BY <1>1, <1>2, <1>3, <1>4 DEF IInv

\* A client expunges the Sent copy.
LEMMA ExpungeSentKeeps ==
    ASSUME IInv, NEW h \in Holds, ExpungeSent(h)
    PROVE  IInv'
<1>1. Types'
  BY HeldSendAssumption DEF IInv, Types, ExpungeSent, procs, locks, reminders
<1>2. Running'
  BY HeldSendAssumption DEF IInv, Types, Running, Works, Takes, Asks, Procs, ExpungeSent,
     procs, locks, reminders
<1>3. Rows'
  BY HeldSendAssumption DEF IInv, Types, Rows, Locked, Matches, Procs, ExpungeSent, procs,
     locks, reminders
<1>4. Promises'
  BY HeldSendAssumption DEF IInv, Types, Promises, ReleasedAsOne, HoldsItsBlobs,
     DraftIsKept, TakenBack, SurfacedOnce, ExpungeSent, procs, locks, reminders
<1>5. QED  BY <1>1, <1>2, <1>3, <1>4 DEF IInv

\* An answer comes.
LEMMA ReplyKeeps ==
    ASSUME IInv, NEW h \in Holds, Reply(h)
    PROVE  IInv'
<1>1. Types'
  BY HeldSendAssumption DEF IInv, Types, Reply, procs, locks, rows
<1>2. Running'
  BY HeldSendAssumption DEF IInv, Types, Running, Works, Takes, Asks, Procs, Reply, procs,
     locks, rows
<1>3. Rows'
  BY HeldSendAssumption DEF IInv, Types, Rows, Locked, Matches, Procs, Reply, procs, locks,
     rows
<1>4. Promises'
  BY HeldSendAssumption DEF IInv, Types, Promises, ReleasedAsOne, HoldsItsBlobs,
     DraftIsKept, TakenBack, SurfacedOnce, Reply, procs, locks, rows
<1>5. QED  BY <1>1, <1>2, <1>3, <1>4 DEF IInv

\* Time passes.
LEMMA BecomesDueKeeps ==
    ASSUME IInv, NEW h \in Holds, BecomesDue(h)
    PROVE  IInv'
<1>1. Types'
  BY HeldSendAssumption DEF IInv, Types, BecomesDue, procs, locks, reminders
<1>2. Running'
  BY HeldSendAssumption DEF IInv, Types, Running, Works, Takes, Asks, Procs, BecomesDue,
     procs, locks, reminders
<1>3. Rows'
  BY HeldSendAssumption DEF IInv, Types, Rows, Locked, Matches, Procs, BecomesDue, procs,
     locks, reminders
<1>4. Promises'
  BY HeldSendAssumption DEF IInv, Types, Promises, ReleasedAsOne, HoldsItsBlobs,
     DraftIsKept, TakenBack, SurfacedOnce, BecomesDue, procs, locks, reminders
<1>5. QED  BY <1>1, <1>2, <1>3, <1>4 DEF IInv

\* A transaction that ends without a commit gives back its locks and nothing else.
LEMMA GiveKeeps ==
    ASSUME IInv, NEW p \in Procs, Give(p)
    PROVE  IInv'
<1>1. Types'
  BY HeldSendAssumption DEF IInv, Types, Give, Unlock, Goto, Rest, rows, reminders
<1>2. Running'
  BY HeldSendAssumption DEF IInv, Types, Running, Works, Takes, Asks, Procs, Rows, Locked,
     Give, Unlock, Goto, Rest, rows, reminders
<1>3. Rows'
  BY HeldSendAssumption DEF IInv, Types, Rows, Locked, Matches, Procs, Running, Takes, Give,
     Unlock, Goto, Rest, rows, reminders
<1>4. Promises'
  BY RowsAlone DEF rows, Give
<1>5. QED  BY <1>1, <1>2, <1>3, <1>4 DEF IInv

-----------------------------------------------------------------------------
\* Before the first send there is nothing to keep.
LEMMA InitHolds == Init => IInv
<1> SUFFICES ASSUME Init PROVE IInv
  OBVIOUS
<1>1. Types
  BY HeldSendAssumption DEF Init, Types, Procs
<1>2. Running /\ Rows /\ Promises
  BY HeldSendAssumption DEF Init, Running, Works, Takes, Asks, Rows, Locked, Matches,
     Promises, ReleasedAsOne, HoldsItsBlobs, DraftIsKept, TakenBack, SurfacedOnce
<1>3. QED  BY <1>1, <1>2 DEF IInv

\* Every step keeps the invariant.
LEMMA NextKeeps == IInv /\ [Next]_vars => IInv'
<1> SUFFICES ASSUME IInv, [Next]_vars PROVE IInv'
  OBVIOUS
<1>1. CASE UNCHANGED vars
  BY <1>1 DEF vars, rows, reminders, locks, procs, IInv, Types, Running, Works, Takes, Asks,
     Rows, Locked, Matches, Promises, ReleasedAsOne, HoldsItsBlobs, DraftIsKept, TakenBack,
     SurfacedOnce
<1>2. CASE User
  BY <1>2, HoldKeeps, UndoKeeps, RescheduleKeeps, ExpungeDraftKeeps, MoveDraftKeeps,
     ExpungeSentKeeps, ReplyKeeps, BeginKeeps DEF User
<1>3. ASSUME NEW w \in Workers, Release(w)
      PROVE  IInv'
  BY <1>3, SelectKeeps, CheckKeeps, LookKeeps, RefuseKeeps, GateKeeps, TakeDraftKeeps,
     AcceptCopyKeeps, CopyRefusedKeeps, CommitKeeps, FinishUnsentKeeps, SettleKeeps DEF Release
<1>4. ASSUME NEW u \in Requests, Request(u)
      PROVE  IInv'
  BY <1>4, FileCopyKeeps, CancelKeeps, RemoveKeeps DEF Request
<1>5. ASSUME NEW p \in Procs, Victim(p) \/ Fails(p)
      PROVE  IInv'
  BY <1>5, GiveKeeps DEF Victim, Fails
<1>6. ASSUME NEW h \in Holds, BecomesDue(h)
      PROVE  IInv'
  BY <1>6, BecomesDueKeeps
<1>7. QED  BY <1>1, <1>2, <1>3, <1>4, <1>5, <1>6 DEF Next

\* A held send is queued once, every copy or none, exactly when its row says released
\* (releaseOne's conditional update inside the transaction of the submissions).
THEOREM ReleasedAsOneSafe == Spec => []ReleasedAsOne
<1>1. IInv => ReleasedAsOne
  BY DEF IInv, Promises
<1>2. QED  BY <1>1, InitHolds, NextKeeps, PTL DEF Spec

\* The references of a held row are given back once, by whichever of the release, the
\* undo, finishUnsent and cancelHeldForDraft ends it.
THEOREM HoldsItsBlobsSafe == Spec => []HoldsItsBlobs
<1>1. IInv => HoldsItsBlobs
  BY DEF IInv, Promises
<1>2. QED  BY <1>1, InitHolds, NextKeeps, PTL DEF Spec

\* What is not sent stays in Drafts unless the user removes it.
THEOREM DraftIsKeptSafe == Spec => []DraftIsKept
<1>1. IInv => DraftIsKept
  BY DEF IInv, Promises
<1>2. QED  BY <1>1, InitHolds, NextKeeps, PTL DEF Spec

\* An undo that was answered, or a draft that was discarded, edited or sent, is not
\* sent by the worker.
THEOREM TakenBackSafe == Spec => []TakenBack
<1>1. IInv => TakenBack
  BY DEF IInv, Promises
<1>2. QED  BY <1>1, InitHolds, NextKeeps, PTL DEF Spec

\* A reminder surfaces its message once (checkOne's conditional update).
THEOREM SurfacedOnceSafe == Spec => []SurfacedOnce
<1>1. IInv => SurfacedOnce
  BY DEF IInv, Promises
<1>2. QED  BY <1>1, InitHolds, NextKeeps, PTL DEF Spec

=============================================================================
