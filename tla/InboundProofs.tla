---------------------------- MODULE InboundProofs ----------------------------
(***************************************************************************)
(* What happens to a received message, for any accounts, mailboxes per     *)
(* account, vacation scripts, workers and replays, through any number of   *)
(* crashes, outlived leases, expunges and requeues.                        *)
(*                                                                         *)
(* The copies are counted by their numbers: what is filed is new (Numbered)*)
(* and a row nobody has received yet has no copies and no runs (Nothing).  *)
(* A worker past the file stage knows that copies were committed (Past):   *)
(* that outlives the marker, which a replay may take away under it.        *)
(***************************************************************************)
EXTENDS Inbound, FiniteSetTheorems, TLAPS

Places == {"idle", "replaying", "starting", "next", "threading", "assigning", "finishing",
           "completing", "catch", "failing"} \cup StageNames

Types ==
    /\ numbered \in [Accounts -> Nat] /\ sent \in [Accounts -> Nat]
    /\ replied \subseteq Accounts
    /\ refcount \in Int /\ spoolRef \in BOOLEAN
    /\ pc \in [Workers -> Places] /\ at \in [Workers -> 1..8]
    /\ DOMAIN left = Workers
    /\ jobs = [j \in Jobs |-> jobs[j]]

\* The copies are numbered from one up, account by account.
Numbered ==
    /\ IsFiniteSet(copies)
    /\ \A c \in copies : \E a \in Accounts : \E k \in 1..numbered[a] : c = <<a, k>>

\* Before DATA there is nothing.
Nothing ==
    state = "none" =>
        /\ copies = {} /\ ~spoolRef
        /\ numbered = [a \in Accounts |-> 0]
        /\ \A j \in Jobs : jobs[j] = NoRow
        /\ \A w \in Workers : pc[w] = "idle"

\* Where a worker is in the loop over the stages; past the file stage, a filing has
\* committed for every account.
Past(w) ==
    /\ pc[w] \in StageNames => at[w] <= 7 /\ pc[w] = STAGES[at[w]]
    /\ pc[w] = "sieve" => left[w] \subseteq Accounts
    /\ pc[w] = "finishing" => at[w] = 8
    /\ pc[w] \in {"threading", "assigning"} => at[w] = 5 /\ ever = Accounts
    /\ at[w] > 5 => ever = Accounts

\* A reply is sent in the transaction that writes its row.
Answers == \A a \in Accounts : sent[a] = IF a \in replied THEN 1 ELSE 0

Loop == \A w \in Workers : Past(w)

IInv ==
    /\ Types /\ Numbered /\ Nothing /\ Loop /\ Answers
    /\ FiledOnce /\ CountsItsCopies /\ FiledIsTrue

-----------------------------------------------------------------------------
\* The stages, by number.
LEMMA StagesAre ==
    /\ StageNames = {"verify", "parse", "classify", "sieve", "file", "notify", "feedback"}
    /\ \A i \in 1..7 : /\ STAGES[i] \in StageNames
                       /\ STAGES[i] = "file" <=> i = 5
                       /\ STAGES[i] = "sieve" <=> i = 4
<1>1. /\ STAGES[1] = "verify" /\ STAGES[2] = "parse" /\ STAGES[3] = "classify"
      /\ STAGES[4] = "sieve" /\ STAGES[5] = "file" /\ STAGES[6] = "notify"
      /\ STAGES[7] = "feedback"
  BY DEF STAGES
<1>2. \A i \in 1..7 : i = 1 \/ i = 2 \/ i = 3 \/ i = 4 \/ i = 5 \/ i = 6 \/ i = 7
  OBVIOUS
<1>3. StageNames = {"verify", "parse", "classify", "sieve", "file", "notify", "feedback"}
  BY <1>1, <1>2 DEF StageNames
<1>4. QED  BY <1>1, <1>2, <1>3

\* The next n copies of an account are n.
LEMMA NewCopiesAre ==
    ASSUME numbered \in [Accounts -> Nat], NEW a \in Accounts, NEW n \in Nat
    PROVE  IsFiniteSet(NewCopies(a, n)) /\ Cardinality(NewCopies(a, n)) = n
<1> DEFINE I == (numbered[a] + 1)..(numbered[a] + n)
           f == [k \in I |-> <<a, k>>]
<1>1. IsFiniteSet(I) /\ Cardinality(I) = n
  <2>1. numbered[a] \in Nat /\ numbered[a] + 1 \in Int /\ numbered[a] + n \in Int
    OBVIOUS
  <2>2. IsFiniteSet(I) /\ Cardinality(I) = IF numbered[a] + 1 > numbered[a] + n THEN 0
                                           ELSE (numbered[a] + n) - (numbered[a] + 1) + 1
    BY <2>1, FS_Interval
  <2>3. QED  BY <2>1, <2>2
<1>2. f \in Bijection(I, NewCopies(a, n))
  BY DEF Bijection, Injection, Surjection, IsInjective, NewCopies
<1>3. ExistsBijection(I, NewCopies(a, n))
  BY <1>2 DEF ExistsBijection
<1>4. QED  BY <1>1, <1>3, FS_Bijection

\* What File adds is finite and new.
LEMMA FiledIsNew ==
    ASSUME IInv, NEW A \in SUBSET Accounts, NEW n \in [Accounts -> Nat], File(A, n)
    PROVE  /\ Numbered'
           /\ refcount' - refcount = Cardinality(copies') - Cardinality(copies)
           /\ Cardinality(copies) \in Nat /\ Cardinality(copies') \in Nat
           /\ numbered' \in [Accounts -> Nat] /\ refcount' \in Int
           /\ \A a \in Accounts :
                 CopiesOf(a)' = CopiesOf(a) \cup (IF a \in A THEN NewCopies(a, n[a]) ELSE {})
<1> DEFINE g == [a \in A |-> NewCopies(a, n[a])]
           parts == {NewCopies(a, n[a]) : a \in A}
           new == UNION parts
<1>1. numbered \in [Accounts -> Nat] /\ refcount \in Int /\ IsFiniteSet(copies)
  BY DEF IInv, Types, Numbered
<1>2. IsFiniteSet(new)
  <2>1. IsFiniteSet(A)
    BY FS_Subset, InboundAssumption
  <2>2. g \in Surjection(A, parts)
    BY DEF Surjection
  <2>3. IsFiniteSet(parts)
    BY <2>1, <2>2, FS_Surjection
  <2>4. \A a \in A : IsFiniteSet(NewCopies(a, n[a]))
    BY <1>1, NewCopiesAre
  <2>5. QED  BY <2>3, <2>4, FS_UNION
<1>3. \A c \in new : \E a \in A : \E k \in (numbered[a] + 1)..(numbered[a] + n[a]) : c = <<a, k>>
  BY DEF NewCopies
<1>4. copies \cap new = {}
  BY <1>1, <1>3 DEF IInv, Numbered
<1>5. copies' = copies \cup new /\ refcount' = refcount + Cardinality(new)
  BY DEF File
<1>6. /\ IsFiniteSet(copies') /\ Cardinality(copies') = Cardinality(copies) + Cardinality(new)
      /\ Cardinality(copies) \in Nat /\ Cardinality(copies') \in Nat /\ Cardinality(new) \in Nat
  <2>1. /\ IsFiniteSet(copies')
        /\ Cardinality(copies')
             = Cardinality(copies) + Cardinality(new) - Cardinality(copies \cap new)
    BY <1>1, <1>2, <1>5, FS_Union
  <2>2. Cardinality(copies) \in Nat /\ Cardinality(new) \in Nat /\ Cardinality(copies') \in Nat
    BY <1>1, <1>2, <2>1, FS_CardinalityType
  <2>3. QED  BY <1>4, <2>1, <2>2, FS_EmptySet
<1>7. numbered' \in [Accounts -> Nat]
  BY <1>1 DEF File
<1>8. Numbered'
  <2>1. \A c \in copies : \E a \in Accounts : \E k \in 1..numbered'[a] : c = <<a, k>>
    BY <1>1 DEF IInv, Numbered, File
  <2>2. \A c \in new : \E a \in Accounts : \E k \in 1..numbered'[a] : c = <<a, k>>
    BY <1>1, <1>3 DEF File
  <2>3. QED  BY <1>5, <1>6, <2>1, <2>2 DEF Numbered
<1>9. ASSUME NEW a \in Accounts
      PROVE  CopiesOf(a)' = CopiesOf(a) \cup (IF a \in A THEN NewCopies(a, n[a]) ELSE {})
  BY <1>5 DEF CopiesOf, NewCopies
<1>10. QED  BY <1>1, <1>5, <1>6, <1>7, <1>8, <1>9

\* A step that leaves the copies and their references alone keeps what is said of them.
LEMMA CopiesAlone ==
    ASSUME IInv, UNCHANGED <<copies, numbered, refcount, spoolRef>>
    PROVE  Numbered' /\ FiledOnce' /\ CountsItsCopies'
BY DEF IInv, Numbered, FiledOnce, CopiesOf, CountsItsCopies

\* Whoever works on the message has received it.
LEMMA Received ==
    ASSUME IInv, NEW w \in Workers, pc[w] # "idle"
    PROVE  state # "none"
BY DEF IInv, Nothing

\* A replay is a job of its own.
LEMMA ReplayInboundKeeps ==
    ASSUME IInv, NEW r \in Replays, ReplayInbound(r)
    PROVE  IInv'
<1>1. Types'
  BY DEF IInv, Types, ReplayInbound, mailVars, replyVars, workerVars
<1>2. Numbered' /\ FiledOnce' /\ CountsItsCopies'
  BY CopiesAlone DEF mailVars, ReplayInbound
<1>3. Nothing'
  BY DEF IInv, Nothing, ReplayInbound, mailVars, replyVars, workerVars
<1>4. Loop'
  BY DEF IInv, Types, Loop, Past, ReplayInbound, mailVars, replyVars, workerVars
<1>5. Answers' /\ FiledIsTrue'
  BY DEF IInv, Answers, FiledIsTrue, ReplayInbound, mailVars, replyVars, workerVars
<1>6. QED  BY <1>1, <1>2, <1>3, <1>4, <1>5 DEF IInv

\* A finished job goes back in line.
LEMMA RequeueKeeps ==
    ASSUME IInv, NEW j \in Jobs, Requeue(j)
    PROVE  IInv'
<1>1. Types'
  BY DEF IInv, Types, Requeue, mailVars, replyVars, workerVars
<1>2. Numbered' /\ FiledOnce' /\ CountsItsCopies'
  BY CopiesAlone DEF mailVars, Requeue
<1>3. Nothing'
  BY DEF IInv, Nothing, NoRow, Row, Replayable, Requeue, mailVars, replyVars, workerVars
<1>4. Loop'
  BY DEF IInv, Types, Loop, Past, Requeue, mailVars, replyVars, workerVars
<1>5. Answers' /\ FiledIsTrue'
  BY DEF IInv, Answers, FiledIsTrue, Requeue, mailVars, replyVars, workerVars
<1>6. QED  BY <1>1, <1>2, <1>3, <1>4, <1>5 DEF IInv

\* A job that is there is claimed.
LEMMA ClaimKeeps ==
    ASSUME IInv, NEW w \in Workers, NEW j \in Jobs, Claim(w, j)
    PROVE  IInv'
<1>1. Types'
  BY DEF IInv, Types, Places, Claim, mailVars, replyVars, Goto
<1>2. Numbered' /\ FiledOnce' /\ CountsItsCopies'
  BY CopiesAlone DEF mailVars, Claim
<1>3. Nothing'
  BY DEF IInv, Nothing, NoRow, Row, Claimable, Stale, Claim, mailVars, replyVars, Goto
<1>4. Loop'
  BY StagesAre DEF IInv, Types, Loop, Past, Claim, mailVars, replyVars, Goto
<1>5. Answers' /\ FiledIsTrue'
  BY DEF IInv, Answers, FiledIsTrue, Claim, mailVars, replyVars, Goto
<1>6. QED  BY <1>1, <1>2, <1>3, <1>4, <1>5 DEF IInv

\* A replay takes markers away.
LEMMA ApplyReplayKeeps ==
    ASSUME IInv, NEW w \in Workers, ApplyReplay(w)
    PROVE  IInv'
<1>1. Types'
  BY DEF IInv, Types, Places, ApplyReplay, mailVars, replyVars, Goto
<1>2. Numbered' /\ FiledOnce' /\ CountsItsCopies'
  BY CopiesAlone DEF mailVars, ApplyReplay
<1>3. Nothing'
  BY Received DEF IInv, Nothing, ApplyReplay, mailVars, replyVars, Goto
<1>4. Loop'
  BY StagesAre DEF IInv, Types, Loop, Past, ApplyReplay, mailVars, replyVars, Goto
<1>5. Answers' /\ FiledIsTrue'
  BY DEF IInv, Answers, FiledIsTrue, ResetFrom, ApplyReplay, mailVars, replyVars, Goto
<1>6. QED  BY <1>1, <1>2, <1>3, <1>4, <1>5 DEF IInv

\* The loop starts.
LEMMA StartKeeps ==
    ASSUME IInv, NEW w \in Workers, Start(w)
    PROVE  IInv'
<1>1. Types'
  BY DEF IInv, Types, Places, Start, mailVars, replyVars, Goto
<1>2. Numbered' /\ FiledOnce' /\ CountsItsCopies'
  BY CopiesAlone DEF mailVars, Start
<1>3. Nothing'
  BY Received DEF IInv, Nothing, Start, mailVars, replyVars, Goto
<1>4. Loop'
  BY StagesAre DEF IInv, Types, Loop, Past, Start, mailVars, replyVars, Goto
<1>5. Answers' /\ FiledIsTrue'
  BY DEF IInv, Answers, FiledIsTrue, Start, mailVars, replyVars, Goto
<1>6. QED  BY <1>1, <1>2, <1>3, <1>4, <1>5 DEF IInv

\* A marker is recorded.
LEMMA RecordKeeps ==
    ASSUME IInv, NEW w \in Workers, Record(w)
    PROVE  IInv'
<1>1. Types'
  BY StagesAre DEF IInv, Types, Places, Loop, Past, Record, mailVars, replyVars, Goto
<1>2. Numbered' /\ FiledOnce' /\ CountsItsCopies'
  BY CopiesAlone DEF mailVars, Record
<1>3. Nothing'
  BY Received, StagesAre DEF IInv, Nothing, Record, mailVars, replyVars, Goto
<1>4. Loop'
  BY StagesAre DEF IInv, Types, Loop, Past, Record, mailVars, replyVars, Goto
<1>5. Answers' /\ FiledIsTrue'
  BY DEF IInv, Answers, FiledIsTrue, Loop, Past, Record, mailVars, replyVars, Goto
<1>6. QED  BY <1>1, <1>2, <1>3, <1>4, <1>5 DEF IInv

\* The filing throws.
LEMMA BlobVanishedKeeps ==
    ASSUME IInv, NEW w \in Workers, BlobVanished(w)
    PROVE  IInv'
<1>1. Types'
  BY DEF IInv, Types, Places, BlobVanished, mailVars, replyVars, Goto
<1>2. Numbered' /\ FiledOnce' /\ CountsItsCopies'
  BY CopiesAlone DEF mailVars, BlobVanished
<1>3. Nothing'
  BY Received DEF IInv, Nothing, BlobVanished, mailVars, replyVars, Goto
<1>4. Loop'
  BY StagesAre DEF IInv, Types, Loop, Past, BlobVanished, mailVars, replyVars, Goto
<1>5. Answers' /\ FiledIsTrue'
  BY DEF IInv, Answers, FiledIsTrue, BlobVanished, mailVars, replyVars, Goto
<1>6. QED  BY <1>1, <1>2, <1>3, <1>4, <1>5 DEF IInv

\* The copies of this run are threaded.
LEMMA LookAtThreadKeeps ==
    ASSUME IInv, NEW w \in Workers, LookAtThread(w)
    PROVE  IInv'
<1>1. Types'
  BY DEF IInv, Types, Places, Loop, Past, LookAtThread, mailVars, replyVars, Goto
<1>2. Numbered' /\ FiledOnce' /\ CountsItsCopies'
  BY CopiesAlone DEF mailVars, LookAtThread
<1>3. Nothing'
  BY Received DEF IInv, Nothing, LookAtThread, mailVars, replyVars, Goto
<1>4. Loop'
  BY StagesAre DEF IInv, Types, Loop, Past, LookAtThread, mailVars, replyVars, Goto
<1>5. Answers' /\ FiledIsTrue'
  BY DEF IInv, Answers, FiledIsTrue, LookAtThread, mailVars, replyVars, Goto
<1>6. QED  BY <1>1, <1>2, <1>3, <1>4, <1>5 DEF IInv

\* The row is filed, and copies were committed.
LEMMA FinishKeeps ==
    ASSUME IInv, NEW w \in Workers, Finish(w)
    PROVE  IInv'
<1>1. Types'
  BY DEF IInv, Types, Places, Finish, mailVars, replyVars, Goto
<1>2. Numbered' /\ FiledOnce' /\ CountsItsCopies'
  BY CopiesAlone DEF mailVars, Finish
<1>3. Nothing'
  BY Received DEF IInv, Nothing, Finish, mailVars, replyVars, Goto
<1>4. Loop'
  BY StagesAre DEF IInv, Types, Loop, Past, Finish, mailVars, replyVars, Goto
<1>5. Answers' /\ FiledIsTrue'
  BY DEF IInv, Answers, FiledIsTrue, Loop, Past, Finish, mailVars, replyVars, Goto
<1>6. QED  BY <1>1, <1>2, <1>3, <1>4, <1>5 DEF IInv

\* The job is done.
LEMMA CompleteKeeps ==
    ASSUME IInv, NEW w \in Workers, Complete(w)
    PROVE  IInv'
<1>1. Types'
  BY DEF IInv, Types, Places, Complete, mailVars, replyVars, Goto, Rest
<1>2. Numbered' /\ FiledOnce' /\ CountsItsCopies'
  BY CopiesAlone DEF mailVars, Complete
<1>3. Nothing'
  BY Received DEF IInv, Nothing, Complete, mailVars, replyVars, Goto, Rest
<1>4. Loop'
  BY StagesAre DEF IInv, Types, Loop, Past, Complete, mailVars, replyVars, Goto, Rest
<1>5. Answers' /\ FiledIsTrue'
  BY DEF IInv, Answers, FiledIsTrue, Complete, mailVars, replyVars, Goto, Rest
<1>6. QED  BY <1>1, <1>2, <1>3, <1>4, <1>5 DEF IInv

\* The run has failed.
LEMMA CatchKeeps ==
    ASSUME IInv, NEW w \in Workers, Catch(w)
    PROVE  IInv'
<1>1. Types'
  BY DEF IInv, Types, Places, Catch, mailVars, replyVars, Goto
<1>2. Numbered' /\ FiledOnce' /\ CountsItsCopies'
  BY CopiesAlone DEF mailVars, Catch
<1>3. Nothing'
  BY Received DEF IInv, Nothing, Catch, mailVars, replyVars, Goto
<1>4. Loop'
  BY StagesAre DEF IInv, Types, Loop, Past, Catch, mailVars, replyVars, Goto
<1>5. Answers' /\ FiledIsTrue'
  BY DEF IInv, Answers, FiledIsTrue, Catch, mailVars, replyVars, Goto
<1>6. QED  BY <1>1, <1>2, <1>3, <1>4, <1>5 DEF IInv

\* The job is put back, or dead.
LEMMA FailKeeps ==
    ASSUME IInv, NEW w \in Workers, Fail(w)
    PROVE  IInv'
<1>1. Types'
  BY DEF IInv, Types, Places, Fail, mailVars, replyVars, Goto, Rest
<1>2. Numbered' /\ FiledOnce' /\ CountsItsCopies'
  BY CopiesAlone DEF mailVars, Fail
<1>3. Nothing'
  BY Received DEF IInv, Nothing, Fail, mailVars, replyVars, Goto, Rest
<1>4. Loop'
  BY StagesAre DEF IInv, Types, Loop, Past, Fail, mailVars, replyVars, Goto, Rest
<1>5. Answers' /\ FiledIsTrue'
  BY DEF IInv, Answers, FiledIsTrue, Fail, mailVars, replyVars, Goto, Rest
<1>6. QED  BY <1>1, <1>2, <1>3, <1>4, <1>5 DEF IInv

\* A statement throws.
LEMMA ThrowKeeps ==
    ASSUME IInv, NEW w \in Workers, Throw(w)
    PROVE  IInv'
<1>1. Types'
  BY DEF IInv, Types, Places, Throw, mailVars, replyVars, Goto
<1>2. Numbered' /\ FiledOnce' /\ CountsItsCopies'
  BY CopiesAlone DEF mailVars, Throw
<1>3. Nothing'
  BY Received DEF IInv, Nothing, Throw, mailVars, replyVars, Goto
<1>4. Loop'
  BY StagesAre DEF IInv, Types, Loop, Past, Throw, mailVars, replyVars, Goto
<1>5. Answers' /\ FiledIsTrue'
  BY DEF IInv, Answers, FiledIsTrue, Throw, mailVars, replyVars, Goto
<1>6. QED  BY <1>1, <1>2, <1>3, <1>4, <1>5 DEF IInv

\* The process dies.
LEMMA CrashKeeps ==
    ASSUME IInv, NEW w \in Workers, Crash(w)
    PROVE  IInv'
<1>1. Types'
  BY DEF IInv, Types, Places, Crash, mailVars, replyVars, Goto, Rest
<1>2. Numbered' /\ FiledOnce' /\ CountsItsCopies'
  BY CopiesAlone DEF mailVars, Crash
<1>3. Nothing'
  BY Received DEF IInv, Nothing, Crash, mailVars, replyVars, Goto, Rest
<1>4. Loop'
  BY StagesAre DEF IInv, Types, Loop, Past, Crash, mailVars, replyVars, Goto, Rest
<1>5. Answers' /\ FiledIsTrue'
  BY DEF IInv, Answers, FiledIsTrue, Crash, mailVars, replyVars, Goto, Rest
<1>6. QED  BY <1>1, <1>2, <1>3, <1>4, <1>5 DEF IInv

\* A lease lapses.
LEMMA LeaseLapsesKeeps ==
    ASSUME IInv, NEW j \in Jobs, LeaseLapses(j)
    PROVE  IInv'
<1>1. Types'
  BY DEF IInv, Types, LeaseLapses, mailVars, replyVars, workerVars
<1>2. Numbered' /\ FiledOnce' /\ CountsItsCopies'
  BY CopiesAlone DEF mailVars, LeaseLapses
<1>3. Nothing'
  BY DEF IInv, Nothing, NoRow, Row, LeaseLapses, mailVars, replyVars, workerVars
<1>4. Loop'
  BY DEF IInv, Types, Loop, Past, LeaseLapses, mailVars, replyVars, workerVars
<1>5. Answers' /\ FiledIsTrue'
  BY DEF IInv, Answers, FiledIsTrue, LeaseLapses, mailVars, replyVars, workerVars
<1>6. QED  BY <1>1, <1>2, <1>3, <1>4, <1>5 DEF IInv

\* Retention finds no copy.
LEMMA RetentionLooksKeeps ==
    ASSUME IInv, RetentionLooks
    PROVE  IInv'
<1>1. Types'
  BY DEF IInv, Types, RetentionLooks, mailVars, replyVars, workerVars
<1>2. Numbered' /\ FiledOnce' /\ CountsItsCopies'
  BY CopiesAlone DEF mailVars, RetentionLooks
<1>3. Nothing'
  BY DEF IInv, Nothing, RetentionLooks, mailVars, replyVars, workerVars
<1>4. Loop'
  BY DEF IInv, Types, Loop, Past, RetentionLooks, mailVars, replyVars, workerVars
<1>5. Answers' /\ FiledIsTrue'
  BY DEF IInv, Answers, FiledIsTrue, RetentionLooks, mailVars, replyVars, workerVars
<1>6. QED  BY <1>1, <1>2, <1>3, <1>4, <1>5 DEF IInv

\* The sweep finds a copy without a thread.
LEMMA SweepLookKeeps ==
    ASSUME IInv, NEW c \in copies, SweepLook(c)
    PROVE  IInv'
<1>1. Types'
  BY DEF IInv, Types, SweepLook, mailVars, replyVars, workerVars
<1>2. Numbered' /\ FiledOnce' /\ CountsItsCopies'
  BY CopiesAlone DEF mailVars, SweepLook
<1>3. Nothing'
  BY DEF IInv, Nothing, SweepLook, mailVars, replyVars, workerVars
<1>4. Loop'
  BY DEF IInv, Types, Loop, Past, SweepLook, mailVars, replyVars, workerVars
<1>5. Answers' /\ FiledIsTrue'
  BY DEF IInv, Answers, FiledIsTrue, SweepLook, mailVars, replyVars, workerVars
<1>6. QED  BY <1>1, <1>2, <1>3, <1>4, <1>5 DEF IInv

\* The spool row and its job; nothing else is there yet.
LEMMA AcceptKeeps ==
    ASSUME IInv, Accept
    PROVE  IInv'
<1>1. copies = {} /\ Cardinality(copies) = 0
  BY FS_EmptySet DEF IInv, Nothing, Accept
<1>2. Types'
  BY DEF IInv, Types, Accept, replyVars, workerVars
<1>3. Numbered' /\ FiledOnce'
  BY DEF IInv, Numbered, FiledOnce, CopiesOf, Accept
<1>4. CountsItsCopies'
  BY <1>1 DEF CountsItsCopies, Accept
<1>5. Nothing' /\ Loop' /\ Answers' /\ FiledIsTrue'
  BY DEF IInv, Nothing, Loop, Past, Answers, FiledIsTrue, Accept, replyVars, workerVars
<1>6. QED  BY <1>2, <1>3, <1>4, <1>5 DEF IInv

\* One copy per account is as many as there are accounts.
LEMMA RejectKeeps ==
    ASSUME IInv, Reject
    PROVE  IInv'
<1> DEFINE f == [a \in Accounts |-> <<a, 1>>]
<1>1. numbered = [a \in Accounts |-> 0]
  BY DEF IInv, Nothing, Reject
<1>2. copies' = {<<a, 1>> : a \in Accounts}
  <2>1. \A a \in Accounts : NewCopies(a, 1) = {<<a, 1>>}
    BY <1>1 DEF NewCopies
  <2>2. QED  BY <2>1 DEF Reject
<1>3. f \in Bijection(Accounts, copies')
  BY <1>2 DEF Bijection, Injection, Surjection, IsInjective
<1>4. IsFiniteSet(copies') /\ Cardinality(copies') = Cardinality(Accounts)
  BY <1>3, FS_Bijection, InboundAssumption DEF ExistsBijection
<1>5. Cardinality(Accounts) \in Nat
  BY FS_CardinalityType, InboundAssumption
<1>6. Types'
  BY <1>5 DEF IInv, Types, Reject, replyVars, workerVars
<1>7. Numbered'
  BY <1>2, <1>4 DEF Numbered, Reject
<1>8. FiledOnce'
  <2>1. ASSUME NEW a \in Accounts
        PROVE  Cardinality(CopiesOf(a)') <= Targets[a]
    <3>1. CopiesOf(a)' = {<<a, 1>>}
      BY <1>2 DEF CopiesOf
    <3>2. Cardinality({<<a, 1>>}) = 1
      BY FS_Singleton
    <3>3. Targets[a] \in Nat \ {0}
      BY InboundAssumption
    <3>4. QED  BY <3>1, <3>2, <3>3
  <2>2. QED  BY <2>1 DEF FiledOnce
<1>9. CountsItsCopies'
  BY <1>4, <1>5 DEF CountsItsCopies, Reject
<1>10. Nothing' /\ Loop' /\ Answers' /\ FiledIsTrue'
  BY DEF IInv, Nothing, Loop, Past, Answers, FiledIsTrue, Reject, replyVars, workerVars
<1>11. QED  BY <1>6, <1>7, <1>8, <1>9, <1>10 DEF IInv

\* The next stage, by its marker and by what it needs.
LEMMA NextStageKeeps ==
    ASSUME IInv, NEW w \in Workers, NextStage(w)
    PROVE  IInv'
<1>1. Types'
  BY StagesAre DEF IInv, Types, Places, NextStage, Goto, mailVars, replyVars
<1>2. Numbered' /\ FiledOnce' /\ CountsItsCopies'
  BY CopiesAlone DEF mailVars, NextStage
<1>3. Nothing'
  BY Received DEF IInv, Nothing, NextStage
<1>4. ASSUME NEW v \in Workers, v # w
      PROVE  Past(v)'
  BY <1>4 DEF IInv, Types, Loop, Past, NextStage, Goto, mailVars
<1>5. Past(w)'
  <2>1. at[w] \in 1..8 /\ w \in DOMAIN left /\ pc \in [Workers -> Places] /\ ever' = ever
    BY DEF IInv, Types, NextStage, mailVars
  <2>2. (at[w] > 5 => ever = Accounts) /\ ("file" \in marked => ever = Accounts)
    BY DEF IInv, Loop, Past, FiledIsTrue
  <2>3. CASE at[w] = 8 /\ Goto(w, "finishing") /\ UNCHANGED <<at, left>>
    BY <2>1, <2>2, <2>3, StagesAre DEF Past, Goto
  <2>4. CASE /\ at[w] <= 7 /\ STAGES[at[w]] \in marked
             /\ at' = [at EXCEPT ![w] = @ + 1] /\ UNCHANGED <<pc, left>>
    BY <2>1, <2>2, <2>4, StagesAre DEF IInv, Types, Past, NextStage
  <2>5. CASE /\ at[w] <= 7
             /\ Goto(w, IF CanRun(STAGES[at[w]]) THEN STAGES[at[w]] ELSE "catch")
             /\ left' = [left EXCEPT ![w] =
                            IF STAGES[at[w]] = "sieve" THEN Vacation \ replied ELSE {}]
             /\ UNCHANGED at
    BY <2>1, <2>2, <2>5, StagesAre, InboundAssumption DEF Past, Goto
  <2>6. QED  BY <2>3, <2>4, <2>5 DEF NextStage
<1>6. Answers' /\ FiledIsTrue'
  BY DEF IInv, Answers, FiledIsTrue, NextStage, mailVars, replyVars
<1>7. QED  BY <1>1, <1>2, <1>3, <1>4, <1>5, <1>6 DEF IInv, Loop

\* The reply's row is in the transaction of the reply.
LEMMA SendReplyKeeps ==
    ASSUME IInv, NEW w \in Workers, SendReply(w)
    PROVE  IInv'
<1> DEFINE a == First(w)
<1>1. a \in left[w] /\ a \in Accounts
  BY DEF IInv, Loop, Past, SendReply, First
<1>2. Min({0 + 1, 2}) = 1
  <2>1. \A x \in {1, 2} : (\A y \in {1, 2} : x <= y) => x = 1
    OBVIOUS
  <2>2. QED  BY <2>1 DEF Min
<1>3. sent' = IF a \in replied THEN sent ELSE [sent EXCEPT ![a] = 1]
  BY <1>1, <1>2 DEF IInv, Types, Answers, SendReply
<1>4. Types'
  BY <1>1, <1>3 DEF IInv, Types, SendReply, mailVars
<1>5. Numbered' /\ FiledOnce' /\ CountsItsCopies'
  BY CopiesAlone DEF mailVars, SendReply
<1>6. Nothing'
  BY Received DEF IInv, Nothing, SendReply
<1>7. Loop'
  BY DEF IInv, Types, Loop, Past, SendReply, mailVars
<1>8. Answers'
  BY <1>1, <1>3 DEF IInv, Types, Answers, SendReply
<1>9. FiledIsTrue'
  BY DEF IInv, FiledIsTrue, SendReply, mailVars
<1>10. QED  BY <1>4, <1>5, <1>6, <1>7, <1>8, <1>9 DEF IInv

\* The accounts that have no copy are given one each, or as many as their script asks.
LEMMA FileStageKeeps ==
    ASSUME IInv, NEW w \in Workers, FileStage(w)
    PROVE  IInv'
<1>1. Missing \in SUBSET Accounts /\ Targets \in [Accounts -> Nat] /\ File(Missing, Targets)
  BY InboundAssumption DEF Missing, FileStage
<1>2. /\ Numbered'
      /\ refcount' - refcount = Cardinality(copies') - Cardinality(copies)
      /\ Cardinality(copies) \in Nat /\ Cardinality(copies') \in Nat
      /\ numbered' \in [Accounts -> Nat] /\ refcount' \in Int
      /\ \A a \in Accounts : CopiesOf(a)' = CopiesOf(a) \cup
                               (IF a \in Missing THEN NewCopies(a, Targets[a]) ELSE {})
  BY <1>1, FiledIsNew
<1>3. FiledOnce'
  <2>1. ASSUME NEW a \in Accounts
        PROVE  Cardinality(CopiesOf(a)') <= Targets[a]
    <3>1. CASE a \in Missing
      <4>1. CopiesOf(a)' = NewCopies(a, Targets[a])
        BY <1>2, <3>1 DEF Missing
      <4>2. Cardinality(NewCopies(a, Targets[a])) = Targets[a] /\ Targets[a] \in Nat
        BY <1>1, NewCopiesAre DEF IInv, Types
      <4>3. QED  BY <4>1, <4>2
    <3>2. CASE a \notin Missing
      BY <1>2, <3>2 DEF IInv, FiledOnce
    <3>3. QED  BY <3>1, <3>2
  <2>2. QED  BY <2>1 DEF FiledOnce
<1>4. CountsItsCopies'
  BY <1>2 DEF IInv, Types, CountsItsCopies, FileStage
<1>5. at[w] = 5
  BY StagesAre DEF IInv, Types, Loop, Past, FileStage
<1>6. Types'
  BY <1>2 DEF IInv, Types, Places, FileStage, Goto, replyVars
<1>7. Nothing'
  BY Received DEF IInv, Nothing, FileStage
<1>8. Loop'
  BY <1>5, StagesAre DEF IInv, Types, Loop, Past, FileStage, Goto
<1>9. Answers' /\ FiledIsTrue'
  BY DEF IInv, Answers, FiledIsTrue, FileStage, replyVars
<1>10. QED  BY <1>2, <1>3, <1>4, <1>6, <1>7, <1>8, <1>9 DEF IInv

\* Threading does not touch copies and references.
LEMMA AssignKeeps ==
    ASSUME IInv, NEW w \in Workers, Assign(w)
    PROVE  IInv'
<1>1. UNCHANGED <<copies, numbered, refcount, spoolRef, ever>>
  BY DEF Assign, AssignThread, mailVars
<1>2. Types'
  BY <1>1 DEF IInv, Types, Places, Assign, Goto, replyVars
<1>3. Numbered' /\ FiledOnce' /\ CountsItsCopies'
  BY <1>1, CopiesAlone
<1>4. Nothing'
  BY Received DEF IInv, Nothing, Assign
<1>5. Loop'
  BY <1>1, StagesAre DEF IInv, Types, Loop, Past, Assign, Goto
<1>6. Answers' /\ FiledIsTrue'
  BY <1>1 DEF IInv, Answers, FiledIsTrue, Assign, replyVars
<1>7. QED  BY <1>2, <1>3, <1>4, <1>5, <1>6 DEF IInv

\* Neither does the sweep's.
LEMMA SweepAssignKeeps ==
    ASSUME IInv, SweepAssign
    PROVE  IInv'
<1>1. UNCHANGED <<copies, numbered, refcount, spoolRef, ever>>
  BY DEF SweepAssign, AssignThread, mailVars
<1>2. Types'
  BY <1>1 DEF IInv, Types, SweepAssign, replyVars, workerVars
<1>3. Numbered' /\ FiledOnce' /\ CountsItsCopies'
  BY <1>1, CopiesAlone
<1>4. Nothing' /\ Loop' /\ Answers' /\ FiledIsTrue'
  BY <1>1 DEF IInv, Nothing, Loop, Past, Answers, FiledIsTrue, SweepAssign, replyVars,
     workerVars
<1>5. QED  BY <1>2, <1>3, <1>4 DEF IInv

\* An expunged copy gives one reference back.
LEMMA ExpungeKeeps ==
    ASSUME IInv, NEW c \in copies, Expunge(c)
    PROVE  IInv'
<1>1. /\ IsFiniteSet(copies') /\ Cardinality(copies') = Cardinality(copies) - 1
      /\ Cardinality(copies) \in Nat
  BY FS_RemoveElement, FS_CardinalityType DEF IInv, Numbered, Expunge
<1>2. Types'
  BY DEF IInv, Types, Expunge, replyVars, workerVars
<1>3. Numbered'
  BY <1>1 DEF IInv, Numbered, Expunge
<1>4. FiledOnce'
  <2>1. ASSUME NEW a \in Accounts
        PROVE  Cardinality(CopiesOf(a)') <= Targets[a]
    <3>1. IsFiniteSet(CopiesOf(a)) /\ CopiesOf(a)' \in SUBSET CopiesOf(a)
      BY FS_Subset DEF IInv, Numbered, CopiesOf, Expunge
    <3>2. /\ Cardinality(CopiesOf(a)') <= Cardinality(CopiesOf(a))
          /\ Cardinality(CopiesOf(a)') \in Nat /\ Cardinality(CopiesOf(a)) \in Nat
      BY <3>1, FS_Subset, FS_CardinalityType
    <3>3. Cardinality(CopiesOf(a)) <= Targets[a] /\ Targets[a] \in Nat
      BY InboundAssumption DEF IInv, FiledOnce
    <3>4. QED  BY <3>2, <3>3
  <2>2. QED  BY <2>1 DEF FiledOnce
<1>5. CountsItsCopies'
  BY <1>1 DEF IInv, Types, CountsItsCopies, Expunge
<1>6. Nothing' /\ Loop' /\ Answers' /\ FiledIsTrue'
  BY DEF IInv, Nothing, Loop, Past, Answers, FiledIsTrue, Expunge, replyVars, workerVars
<1>7. QED  BY <1>2, <1>3, <1>4, <1>5, <1>6 DEF IInv

\* The spool row's reference is given back once.
LEMMA RetentionReleasesKeeps ==
    ASSUME IInv, RetentionReleases
    PROVE  IInv'
<1>1. Cardinality(copies) \in Nat
  BY FS_CardinalityType DEF IInv, Numbered
<1>2. Types'
  <2>1. refcount' = refcount - 1 \/ refcount' = refcount
    BY DEF RetentionReleases
  <2>2. spoolRef' = FALSE \/ spoolRef' = spoolRef
    BY DEF RetentionReleases
  <2>3. refcount' \in Int
    BY <2>1 DEF IInv, Types
  <2>4. spoolRef' \in BOOLEAN
    BY <2>2, Zenon DEF IInv, Types
  <2>5. QED  BY <2>3, <2>4 DEF IInv, Types, RetentionReleases, replyVars, workerVars
<1>3. Numbered' /\ FiledOnce'
  BY DEF IInv, Numbered, FiledOnce, CopiesOf, RetentionReleases
<1>4. CountsItsCopies'
  BY <1>1 DEF IInv, Types, CountsItsCopies, RetentionReleases
<1>5. Nothing' /\ Loop' /\ Answers' /\ FiledIsTrue'
  BY DEF IInv, Nothing, Loop, Past, Answers, FiledIsTrue, RetentionReleases, replyVars,
     workerVars
<1>6. QED  BY <1>2, <1>3, <1>4, <1>5 DEF IInv

-----------------------------------------------------------------------------
\* Before DATA nothing is counted.
LEMMA InitHolds == Init => IInv
<1> SUFFICES ASSUME Init PROVE IInv
  OBVIOUS
<1>1. IsFiniteSet(copies) /\ Cardinality(copies) = 0 /\ \A a : CopiesOf(a) = {}
  BY FS_EmptySet DEF Init, CopiesOf
<1>2. Types
  <2>1. spoolRef \in BOOLEAN
    BY Zenon DEF Init
  <2>2. numbered \in [Accounts -> Nat] /\ sent \in [Accounts -> Nat]
    BY DEF Init
  <2>3. replied \subseteq Accounts /\ refcount \in Int /\ DOMAIN left = Workers
    BY DEF Init
  <2>4. pc \in [Workers -> Places] /\ at \in [Workers -> 1..8]
    BY DEF Init, Places
  <2>5. jobs = [j \in Jobs |-> jobs[j]]
    BY DEF Init
  <2>6. QED  BY <2>1, <2>2, <2>3, <2>4, <2>5 DEF Types
<1>3. Numbered /\ Nothing
  BY <1>1 DEF Init, Numbered, Nothing
<1>4. Loop /\ Answers /\ FiledIsTrue
  BY StagesAre DEF Init, Loop, Past, Answers, FiledIsTrue
<1>5. FiledOnce /\ CountsItsCopies
  <2>1. copies = {} /\ refcount = 0 /\ spoolRef = FALSE
    BY DEF Init
  <2>2. \A a : Cardinality(CopiesOf(a)) = 0
    BY <1>1, FS_EmptySet
  <2>3. FiledOnce
    BY <2>2, InboundAssumption DEF FiledOnce
  <2>4. CountsItsCopies
    BY <1>1, <2>1 DEF CountsItsCopies
  <2>5. QED  BY <2>3, <2>4
<1>6. QED  BY <1>2, <1>4, <1>5, <1>3 DEF IInv

\* Every step keeps the invariant.
LEMMA NextKeeps == IInv /\ [Next]_vars => IInv'
<1> SUFFICES ASSUME IInv, [Next]_vars PROVE IInv'
  OBVIOUS
<1>1. CASE UNCHANGED vars
  <2>1. Numbered' /\ FiledOnce' /\ CountsItsCopies'
    BY <1>1, CopiesAlone DEF vars, mailVars
  <2>2. Types' /\ Nothing' /\ Loop' /\ Answers' /\ FiledIsTrue'
    BY <1>1 DEF vars, mailVars, replyVars, workerVars, IInv, Types, Nothing, Loop, Past,
       Answers, FiledIsTrue
  <2>3. QED  BY <2>1, <2>2 DEF IInv
<1>2. ASSUME NEW w \in Workers, Work(w) \/ Throw(w) \/ Crash(w)
      PROVE  IInv'
  BY <1>2, ClaimKeeps, ApplyReplayKeeps, StartKeeps, NextStageKeeps, RecordKeeps,
     SendReplyKeeps, FileStageKeeps, BlobVanishedKeeps, LookAtThreadKeeps, AssignKeeps,
     FinishKeeps, CompleteKeeps, CatchKeeps, FailKeeps, ThrowKeeps, CrashKeeps DEF Work
<1>3. CASE Sweep
  BY <1>3, SweepLookKeeps, SweepAssignKeeps DEF Sweep
<1>4. QED
  BY <1>1, <1>2, <1>3, AcceptKeeps, RejectKeeps, ReplayInboundKeeps, RequeueKeeps,
     ExpungeKeeps, RetentionLooksKeeps, RetentionReleasesKeeps, LeaseLapsesKeeps DEF Next

\* An account never has more copies of a message than its script asked for, however
\* many runs, retries and replays file it (fileStage's look for existing copies).
THEOREM FiledOnceSafe == Spec => []FiledOnce
<1>1. IInv => FiledOnce
  BY DEF IInv
<1>2. QED  BY <1>1, InitHolds, NextKeeps, PTL DEF Spec

\* The blob's count is its copies and the spool row: no copy outlives its blob.
THEOREM CountsItsCopiesSafe == Spec => []CountsItsCopies
<1>1. IInv => CountsItsCopies
  BY DEF IInv
<1>2. QED  BY <1>1, InitHolds, NextKeeps, PTL DEF Spec

\* A row or a marker that says filed is true.
THEOREM FiledIsTrueSafe == Spec => []FiledIsTrue
<1>1. IInv => FiledIsTrue
  BY DEF IInv
<1>2. QED  BY <1>1, InitHolds, NextKeeps, PTL DEF Spec

\* Each account answers a message once (sieve_vacation_reply's unique row in the
\* transaction of the submission).
THEOREM OneReplySafe == Spec => []OneReply
<1>1. IInv => OneReply
  BY DEF IInv, Types, Answers, OneReply
<1>2. QED  BY <1>1, InitHolds, NextKeeps, PTL DEF Spec

==============================================================================
