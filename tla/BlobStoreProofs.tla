--------------------------- MODULE BlobStoreProofs ---------------------------
(***************************************************************************)
(* The blob store's invariants, for every number of actors, keys and       *)
(* references and of power losses, as long as the database does not end a  *)
(* transaction under a running actor (~TxLoss) and a failed commit has     *)
(* committed nothing (~LostReply).  With either TLC finds one of them      *)
(* violated; that the refcount is never too high holds all the same        *)
(* (OvercountSafe).                                                        *)
(*                                                                         *)
(* The argument: an actor inside a transaction holds the lock, so at most  *)
(* one is; what it has read of the row and done to the file stays true     *)
(* until its commit (Knows).  Outside, an actor owns the reference it      *)
(* works on (Owns): nobody else counts or releases it.  A put that made    *)
(* the directory has synced its parents before it commits, so a power loss *)
(* takes only a directory that the row's put found there (Kept).           *)
(***************************************************************************)
EXTENDS BlobStore, FiniteSetTheorems, TLAPS

\* The directory that this put made is durable.
Safe(a) == made[a] => dir = "synced"

\* What the holder of the lock knows of row and file.
Knows(a) ==
    /\ pc[a] \in InTx => lock = a
    /\ pc[a] = "count" => row.refcount > 0
    /\ pc[a] \in {"mkdir", "place", "sync", "parents", "create", "unlink", "unlinked"} =>
          row.refcount = 0
    /\ pc[a] = "sync" => file = key[a]
    /\ pc[a] = "parents" => file = key[a] /\ durable = {key[a]}
    /\ pc[a] = "create" => /\ file = key[a] /\ durable = {key[a]}
                          /\ Safe(a)
    /\ pc[a] = "putCommit" =>
          /\ draft[a].refcount = row.refcount + 1
          /\ draft[a].key # NoKey
          /\ row.refcount > 0 => draft[a].key = row.key
          /\ row.refcount = 0 => /\ file = draft[a].key
                                 /\ durable = {draft[a].key}
                                 /\ Safe(a)
    /\ pc[a] = "releaseCommit" =>
          /\ row.refcount > 0
          /\ draft[a].refcount = row.refcount - 1
          /\ draft[a].refcount = 0 => draft[a].key = NoKey
          /\ draft[a].refcount > 0 => draft[a].key = row.key

Putting == {"lock", "check", "mkdir", "place", "sync", "parents", "create", "count", "putCommit"}
Releasing == {"release", "drop", "releaseCommit"}

\* Whose reference an actor works on.
Owns(a) ==
    /\ pc[a] \in Putting => /\ key[a] \in Keys
                            /\ target[a] \in Refs
                            /\ target[a] \notin refs
                            /\ target[a] \notin recorded
                            /\ mode[a] # "gc"
    /\ pc[a] \in Releasing => /\ target[a] \in refs
                              /\ mode[a] # "caller" => target[a] \notin recorded
    /\ pc[a] = "inHand" => /\ target[a] \in refs
                           /\ target[a] \notin recorded
                           /\ mode[a] = "own"

Apart == \A a, b \in Actors : a # b /\ target[a] = target[b] => target[a] = NoRef

\* A row's file is there and synced, or a power loss has taken the directory that the
\* row's put found; a put that made it has left it durable.
Kept ==
    row.refcount > 0 =>
        /\ (file = row.key /\ durable = {row.key}) \/ (lost /\ found)
        /\ found \/ dir = "synced"

IInv ==
    /\ TypeOK
    /\ Kept
    /\ RefcountExact
    /\ RecordedIsCounted
    /\ Apart
    /\ \A a \in Actors : Knows(a) /\ Owns(a)

\* The fields of a blob row.
LEMMA BlobFields ==
    ASSUME NEW k, NEW n
    PROVE  Blob(k, n).key = k /\ Blob(k, n).refcount = n
BY DEF Blob

\* No row, as a row.
LEMMA NoBlobIsBlob ==
    /\ NoBlob \in [key : Keys \cup {NoKey}, refcount : Nat]
    /\ NoBlob.key = NoKey /\ NoBlob.refcount = 0
BY DEF NoBlob, Blob

\* Only the holder of the advisory lock is inside a transaction of the store.
LEMMA Alone ==
    ASSUME IInv, NEW a \in Actors, NEW b \in Actors, b # a, lock = a
    PROVE  pc[b] \notin InTx
BY DEF IInv, shard, Knows

\* A row that counts a reference has a key.
LEMMA CountedHasKey ==
    ASSUME IInv, row.refcount > 0
    PROVE  row.key # NoKey
BY DEF IInv, shard, TypeOK

\* What put knows when only the commit is left: the row it counts on, or that its file
\* is in place and synced.
LEMMA AtPutCommit ==
    ASSUME NEW a \in Actors, pc'[a] = "putCommit", lock' = a,
           draft'[a].refcount = row'.refcount + 1, draft'[a].key # NoKey,
           row'.refcount > 0 => draft'[a].key = row'.key,
           row'.refcount = 0 => /\ file' = draft'[a].key /\ durable' = {draft'[a].key}
                               /\ Safe(a)'
    PROVE  Knows(a)'
BY DEF Knows

\* What release knows when only the commit is left.
LEMMA AtReleaseCommit ==
    ASSUME NEW a \in Actors, pc'[a] = "releaseCommit", lock' = a, row'.refcount > 0,
           draft'[a].refcount = row'.refcount - 1,
           draft'[a].refcount = 0 => draft'[a].key = NoKey,
           draft'[a].refcount > 0 => draft'[a].key = row'.key
    PROVE  Knows(a)'
BY DEF Knows

\* An actor outside the lock relies on nothing.
LEMMA Outside ==
    ASSUME NEW b \in Actors, pc'[b] \notin InTx
    PROVE  Knows(b)'
BY DEF Knows, InTx

\* What an actor that stands still knows stays true: the row and the file are as they
\* were, a sync only confirms them, and a durable directory stays durable.
LEMMA Still ==
    ASSUME NEW b \in Actors, Knows(b), UNCHANGED <<pc[b], key[b], draft[b], made[b], row, file>>,
           pc[b] \in InTx => lock' = b,
           durable' = durable \/ durable' = {file},
           dir = "synced" => dir' = "synced"
    PROVE  Knows(b)'
<1>1. Safe(b) => Safe(b)'
  BY DEF Safe
<1>2. \A k : file = k /\ durable = {k} => file' = k /\ durable' = {k}
  OBVIOUS
<1>3. QED  BY <1>1, <1>2 DEF Knows

\* put's lockBlob: the lock was free, so nobody was inside.
LEMMA PutLockKeeps ==
    ASSUME IInv, NEW a \in Actors, PutLock(a)
    PROVE  IInv'
<1>1. TypeOK'
  BY BlobStoreAssumption DEF IInv, shard, TypeOK, PutLock, TakeLock, Goto, Pcs, InTx, NoBlob,
      Blob, Knows, Owns, Putting
<1>2. Kept' /\ RecordedIsCounted' /\ Apart'
  BY BlobStoreAssumption DEF IInv, shard, TypeOK, Kept, RecordedIsCounted, Apart,
      Knows, Owns,
      InTx, Putting, Releasing, PutLock, TakeLock, Goto, NoBlob, Blob
<1>3. RefcountExact'
  BY DEF IInv, shard, RefcountExact, PutLock
<1>4. ASSUME NEW b \in Actors PROVE Knows(b)'
  BY <1>4, BlobStoreAssumption DEF IInv, shard, TypeOK, Kept, Knows, Owns,
      InTx, Putting, Releasing, PutLock, TakeLock, Goto, NoBlob, Blob
<1>5. ASSUME NEW b \in Actors PROVE Owns(b)'
  BY <1>5, BlobStoreAssumption DEF IInv, shard, TypeOK, RecordedIsCounted, Apart, Knows, Owns,
      InTx, Putting, Releasing, PutLock, TakeLock, Goto
<1>6. QED  BY <1>1, <1>2, <1>3, <1>4, <1>5 DEF IInv

\* put's look at the row tells the two branches apart, and the lock keeps it true.
LEMMA PutCheckKeeps ==
    ASSUME IInv, NEW a \in Actors, PutCheck(a)
    PROVE  IInv'
<1>1. TypeOK'
  BY BlobStoreAssumption DEF IInv, shard, TypeOK, PutCheck, Alive, Goto, Pcs, InTx, NoBlob,
      Blob, Knows, Owns, Putting
<1>2. Kept' /\ RecordedIsCounted' /\ Apart'
  BY BlobStoreAssumption DEF IInv, shard, TypeOK, Kept, RecordedIsCounted, Apart,
      Knows, Owns,
      InTx, Putting, Releasing, PutCheck, Alive, Goto, NoBlob, Blob
<1>3. RefcountExact'
  BY DEF IInv, shard, RefcountExact, PutCheck
<1>4. ASSUME NEW b \in Actors PROVE Knows(b)'
  <2>1. CASE b # a
    <3>1. pc'[b] = pc[b] /\ pc[b] \notin InTx
      BY <2>1, Alone DEF IInv, shard, TypeOK, PutCheck, Alive, Goto
    <3>2. QED  BY <3>1, Outside
  <2>2. CASE b = a
    <3>1. row.refcount \in Nat /\ row' = row /\ lock' = a
      BY DEF IInv, shard, TypeOK, PutCheck, Alive
    <3>2. pc'[a] = IF row.refcount > 0 THEN "count" ELSE "mkdir"
      BY DEF IInv, shard, TypeOK, PutCheck, Goto
    <3>3. QED  BY <2>2, <3>1, <3>2 DEF Knows, InTx
  <2>3. QED  BY <2>1, <2>2
<1>5. ASSUME NEW b \in Actors PROVE Owns(b)'
  BY <1>5, BlobStoreAssumption DEF IInv, shard, TypeOK, RecordedIsCounted, Apart, Knows, Owns,
      InTx, Putting, Releasing, PutCheck, Alive, Goto
<1>6. QED  BY <1>1, <1>2, <1>3, <1>4, <1>5 DEF IInv

\* put's increment of a row that is there: the row has its file already.
LEMMA PutCountKeeps ==
    ASSUME IInv, NEW a \in Actors, PutCount(a)
    PROVE  IInv'
<1>1. TypeOK'
  <2>1. Blob(row.key, row.refcount + 1) \in [key : Keys \cup {NoKey}, refcount : Nat]
    BY DEF IInv, shard, TypeOK, Blob
  <2>2. QED  BY <2>1 DEF IInv, shard, TypeOK, PutCount, Goto, Pcs, InTx
<1>2. Kept' /\ RecordedIsCounted' /\ Apart'
  BY BlobStoreAssumption DEF IInv, shard, TypeOK, Kept, RecordedIsCounted, Apart,
      Knows, Owns,
      InTx, Putting, Releasing, PutCount, Alive, Goto, Blob, NoBlob
<1>3. RefcountExact'
  BY DEF IInv, shard, RefcountExact, PutCount
<1>4. ASSUME NEW b \in Actors PROVE Knows(b)'
  <2>1. CASE b # a
    <3>1. pc'[b] = pc[b] /\ pc[b] \notin InTx
      BY <2>1, Alone DEF IInv, shard, TypeOK, PutCount, Alive, Goto
    <3>2. QED  BY <3>1, Outside
  <2>2. CASE b = a
    <3>1. pc'[a] = "putCommit" /\ lock' = a /\ row' = row
      BY DEF IInv, shard, TypeOK, PutCount, Alive, Goto
    <3>d. draft'[a] = Blob(row.key, row.refcount + 1)
      BY DEF IInv, shard, TypeOK, PutCount
    <3>2. row.refcount > 0 /\ row.refcount \in Nat
      BY DEF IInv, shard, TypeOK, Knows, PutCount
    <3>3. row.key # NoKey
      BY <3>2, CountedHasKey
    <3>4. draft'[a].key = row.key /\ draft'[a].refcount = row.refcount + 1
      BY <3>d, BlobFields
    <3>5. draft'[a].refcount = row'.refcount + 1
      BY <3>1, <3>2, <3>3, <3>4
    <3>6. draft'[a].key # NoKey /\ draft'[a].key = row'.key /\ row'.refcount # 0
      BY <3>1, <3>2, <3>3, <3>4
    <3>7. QED  BY <2>2, <3>1, <3>5, <3>6, AtPutCommit
  <2>3. QED  BY <2>1, <2>2
<1>5. ASSUME NEW b \in Actors PROVE Owns(b)'
  BY <1>5, BlobStoreAssumption DEF IInv, shard, TypeOK, RecordedIsCounted, Apart, Knows, Owns,
      InTx, Putting, Releasing, PutCount, Alive, Goto, Blob
<1>6. QED  BY <1>1, <1>2, <1>3, <1>4, <1>5 DEF IInv

\* The directory is made, or found.
LEMMA PutMkdirKeeps ==
    ASSUME IInv, NEW a \in Actors, PutMkdir(a)
    PROVE  IInv'
<1>1. TypeOK'
  BY BlobStoreAssumption DEF IInv, shard, TypeOK, PutMkdir, Goto, Pcs, InTx
<1>2. Kept' /\ RecordedIsCounted' /\ Apart'
  <2>1. row'.refcount = 0
    BY DEF IInv, Knows, PutMkdir
  <2>2. QED  BY <2>1 DEF IInv, Kept, RecordedIsCounted, Apart, PutMkdir
<1>3. RefcountExact'
  BY DEF IInv, shard, RefcountExact, PutMkdir
<1>4. ASSUME NEW b \in Actors PROVE Knows(b)'
  <2>0. lock = a
    BY DEF IInv, Knows, InTx, PutMkdir
  <2>1. CASE b # a
    <3>1. pc'[b] = pc[b] /\ pc[b] \notin InTx
      BY <2>0, <2>1, Alone DEF IInv, TypeOK, PutMkdir, Goto
    <3>2. QED  BY <3>1, Outside
  <2>2. CASE b = a
    BY <2>0, <2>2 DEF IInv, shard, TypeOK, Knows, InTx, PutMkdir, Goto
  <2>3. QED  BY <2>1, <2>2
<1>5. ASSUME NEW b \in Actors PROVE Owns(b)'
  BY <1>5, BlobStoreAssumption DEF IInv, shard, TypeOK, RecordedIsCounted, Apart, Owns,
      InTx, Putting, Releasing, PutMkdir, Goto
<1>6. QED  BY <1>1, <1>2, <1>3, <1>4, <1>5 DEF IInv

\* The rename happens only without a row, so it replaces no row's file.
LEMMA PutPlaceKeeps ==
    ASSUME IInv, NEW a \in Actors, PutPlace(a)
    PROVE  IInv'
<1>1. TypeOK'
  BY BlobStoreAssumption DEF IInv, shard, TypeOK, PutPlace, Goto, Pcs, InTx, NoBlob, Blob,
      Knows, Owns, Putting
<1>2. Kept' /\ RecordedIsCounted' /\ Apart'
  <2>1. row'.refcount = 0
    BY DEF IInv, shard, Knows, PutPlace
  <2>2. QED  BY <2>1 DEF IInv, shard, Kept, RecordedIsCounted, Apart, PutPlace
<1>3. RefcountExact'
  BY DEF IInv, shard, RefcountExact, PutPlace
<1>4. ASSUME NEW b \in Actors PROVE Knows(b)'
  BY <1>4, BlobStoreAssumption DEF IInv, shard, TypeOK, Kept, Knows, Owns,
      InTx, Putting, Releasing, PutPlace, Goto, NoBlob, Blob
<1>5. ASSUME NEW b \in Actors PROVE Owns(b)'
  BY <1>5, BlobStoreAssumption DEF IInv, shard, TypeOK, RecordedIsCounted, Apart, Knows, Owns,
      InTx, Putting, Releasing, PutPlace, Goto
<1>6. QED  BY <1>1, <1>2, <1>3, <1>4, <1>5 DEF IInv

\* The sync of the directory makes the placed file the one a power loss leaves.
LEMMA PutSyncKeeps ==
    ASSUME IInv, NEW a \in Actors, PutSync(a)
    PROVE  IInv'
<1>1. TypeOK'
  BY BlobStoreAssumption DEF IInv, shard, TypeOK, PutSync, Goto, Pcs, InTx, NoBlob, Blob,
      Knows, Owns, Putting
<1>2. Kept' /\ RecordedIsCounted' /\ Apart'
  BY BlobStoreAssumption DEF IInv, shard, TypeOK, Kept, RecordedIsCounted, Apart,
      Knows, Owns,
      InTx, Putting, Releasing, PutSync, Goto, NoBlob, Blob
<1>3. RefcountExact'
  BY DEF IInv, shard, RefcountExact, PutSync
<1>4. ASSUME NEW b \in Actors PROVE Knows(b)'
  <2>1. CASE b # a
    <3>1. /\ UNCHANGED <<pc[b], key[b], draft[b], made[b], row, file, dir>>
          /\ durable' = durable \/ durable' = {file}
          /\ pc[b] \in InTx => lock' = b
      BY <2>1 DEF IInv, shard, TypeOK, Knows, PutSync, Goto
    <3>2. QED  BY <3>1, Still DEF IInv
  <2>2. CASE b = a
    <3>1. /\ row'.refcount = 0 /\ lock' = a /\ file' = key'[a] /\ durable' = {key'[a]}
          /\ pc'[a] = (IF made[a] THEN "parents" ELSE "create") /\ made' = made
      BY DEF IInv, TypeOK, Knows, InTx, PutSync, Goto
    <3>2. pc'[a] = "parents" \/ (pc'[a] = "create" /\ ~made'[a])
      BY <3>1
    <3>3. QED  BY <2>2, <3>1, <3>2 DEF Knows, Safe
  <2>3. QED  BY <2>1, <2>2
<1>5. ASSUME NEW b \in Actors PROVE Owns(b)'
  BY <1>5, BlobStoreAssumption DEF IInv, shard, TypeOK, RecordedIsCounted, Apart, Knows, Owns,
      InTx, Putting, Releasing, PutSync, Goto
<1>6. QED  BY <1>1, <1>2, <1>3, <1>4, <1>5 DEF IInv

\* The parents' sync makes the directory durable that this put made.
LEMMA PutParentsKeeps ==
    ASSUME IInv, NEW a \in Actors, PutParents(a)
    PROVE  IInv'
<1>1. TypeOK'
  BY BlobStoreAssumption DEF IInv, shard, TypeOK, PutParents, Goto, Pcs, InTx
<1>2. Kept' /\ RecordedIsCounted' /\ Apart'
  <2>1. row'.refcount = 0
    BY DEF IInv, Knows, PutParents
  <2>2. QED  BY <2>1 DEF IInv, Kept, RecordedIsCounted, Apart, PutParents
<1>3. RefcountExact'
  BY DEF IInv, shard, RefcountExact, PutParents
<1>4. ASSUME NEW b \in Actors PROVE Knows(b)'
  <2>0. lock = a
    BY DEF IInv, Knows, InTx, PutParents
  <2>1. CASE b # a
    <3>1. pc'[b] = pc[b] /\ pc[b] \notin InTx
      BY <2>0, <2>1, Alone DEF IInv, TypeOK, PutParents, Goto
    <3>2. QED  BY <3>1, Outside
  <2>2. CASE b = a
    <3>1. /\ row'.refcount = 0 /\ file' = key'[a] /\ durable' = {key'[a]}
          /\ pc'[a] = "create" /\ lock' = a /\ dir' = "synced"
      BY <2>0 DEF IInv, TypeOK, Knows, PutParents, Goto
    <3>2. QED  BY <2>2, <3>1 DEF Knows, Safe
  <2>3. QED  BY <2>1, <2>2
<1>5. ASSUME NEW b \in Actors PROVE Owns(b)'
  BY <1>5, BlobStoreAssumption DEF IInv, shard, TypeOK, RecordedIsCounted, Apart, Owns,
      InTx, Putting, Releasing, PutParents, Goto
<1>6. QED  BY <1>1, <1>2, <1>3, <1>4, <1>5 DEF IInv

\* put's insert: the first reference of a row whose file is in place and synced.
LEMMA PutCreateKeeps ==
    ASSUME IInv, NEW a \in Actors, PutCreate(a)
    PROVE  IInv'
<1>1. TypeOK'
  <2>1. Blob(key[a], 1) \in [key : Keys \cup {NoKey}, refcount : Nat]
    BY DEF IInv, shard, TypeOK, Blob
  <2>2. QED  BY <2>1 DEF IInv, shard, TypeOK, PutCreate, Goto, Pcs, InTx
<1>2. Kept' /\ RecordedIsCounted' /\ Apart'
  BY BlobStoreAssumption DEF IInv, shard, TypeOK, Kept, RecordedIsCounted, Apart,
      Knows, Owns,
      InTx, Putting, Releasing, PutCreate, Alive, Goto, Blob, NoBlob
<1>3. RefcountExact'
  BY DEF IInv, shard, RefcountExact, PutCreate
<1>4. ASSUME NEW b \in Actors PROVE Knows(b)'
  <2>1. CASE b # a
    <3>1. pc'[b] = pc[b] /\ pc[b] \notin InTx
      BY <2>1, Alone DEF IInv, shard, TypeOK, PutCreate, Alive, Goto
    <3>2. QED  BY <3>1, Outside
  <2>2. CASE b = a
    <3>1. /\ pc'[a] = "putCommit" /\ lock' = a /\ row'.refcount = row.refcount
          /\ UNCHANGED <<file, durable, made, dir>>
      BY DEF IInv, shard, TypeOK, PutCreate, Alive, Goto
    <3>s. Safe(a)' <=> Safe(a)
      BY <3>1 DEF Safe
    <3>d. draft'[a] = Blob(key[a], 1)
      BY DEF IInv, shard, TypeOK, PutCreate
    <3>2. /\ file = key[a] /\ durable = {key[a]} /\ row.refcount = 0 /\ key[a] # NoKey
          /\ Safe(a)
      BY BlobStoreAssumption DEF IInv, shard, Knows, Owns, Putting, PutCreate
    <3>3. draft'[a].key = key[a] /\ draft'[a].refcount = 1
      BY <3>d, BlobFields
    <3>4. key'[a] = key[a]
      BY DEF PutCreate
    <3>5. draft'[a].refcount = row'.refcount + 1
      BY <3>1, <3>2, <3>3
    <3>6. /\ draft'[a].key # NoKey /\ row'.refcount = 0
          /\ file' = draft'[a].key /\ durable' = {draft'[a].key}
          /\ Safe(a)'
      BY <3>1, <3>2, <3>3, <3>s
    <3>7. QED  BY <2>2, <3>1, <3>5, <3>6, AtPutCommit
  <2>3. QED  BY <2>1, <2>2
<1>5. ASSUME NEW b \in Actors PROVE Owns(b)'
  BY <1>5, BlobStoreAssumption DEF IInv, shard, TypeOK, RecordedIsCounted, Apart, Knows, Owns,
      InTx, Putting, Releasing, PutCreate, Alive, Goto, Blob
<1>6. QED  BY <1>1, <1>2, <1>3, <1>4, <1>5 DEF IInv

\* A caller that gives a reference back still owns it.
LEMMA GiveBackKeeps ==
    ASSUME IInv, NEW a \in Actors, GiveBack(a)
    PROVE  IInv'
<1>1. TypeOK'
  BY BlobStoreAssumption DEF IInv, shard, TypeOK, GiveBack, Goto, Pcs, InTx, NoBlob, Blob,
      Knows, Owns, Putting
<1>2. Kept' /\ RecordedIsCounted' /\ Apart'
  BY BlobStoreAssumption DEF IInv, shard, TypeOK, Kept, RecordedIsCounted, Apart,
      Knows, Owns,
      InTx, Putting, Releasing, GiveBack, Goto, NoBlob, Blob
<1>3. RefcountExact'
  BY DEF IInv, shard, RefcountExact, GiveBack
<1>4. ASSUME NEW b \in Actors PROVE Knows(b)'
  <2>1. CASE b # a
    <3>1. /\ UNCHANGED <<pc[b], key[b], draft[b], made[b], row, file, dir>>
          /\ durable' = durable \/ durable' = {file}
          /\ pc[b] \in InTx => lock' = b
      BY <2>1 DEF IInv, shard, TypeOK, Knows, GiveBack, Goto
    <3>2. QED  BY <3>1, Still DEF IInv
  <2>2. CASE b = a
    <3>1. pc'[a] \notin InTx
      BY DEF IInv, TypeOK, InTx, GiveBack, Goto
    <3>2. QED  BY <2>2, <3>1, Outside
  <2>3. QED  BY <2>1, <2>2
<1>5. ASSUME NEW b \in Actors PROVE Owns(b)'
  BY <1>5, BlobStoreAssumption DEF IInv, shard, TypeOK, RecordedIsCounted, Apart, Knows, Owns,
      InTx, Putting, Releasing, GiveBack, Goto
<1>6. QED  BY <1>1, <1>2, <1>3, <1>4, <1>5 DEF IInv

\* release's lockBlob: the lock was free, so nobody was inside.
LEMMA ReleaseLockKeeps ==
    ASSUME IInv, NEW a \in Actors, ReleaseLock(a)
    PROVE  IInv'
<1>1. TypeOK'
  BY BlobStoreAssumption DEF IInv, shard, TypeOK, ReleaseLock, TakeLock, Goto, Pcs, InTx,
      NoBlob, Blob, Knows, Owns, Putting
<1>2. Kept' /\ RecordedIsCounted' /\ Apart'
  BY BlobStoreAssumption DEF IInv, shard, TypeOK, Kept, RecordedIsCounted, Apart,
      Knows, Owns,
      InTx, Putting, Releasing, ReleaseLock, TakeLock, Goto, NoBlob, Blob
<1>3. RefcountExact'
  BY DEF IInv, shard, RefcountExact, ReleaseLock
<1>4. ASSUME NEW b \in Actors PROVE Knows(b)'
  BY <1>4, BlobStoreAssumption DEF IInv, shard, TypeOK, Kept, Knows, Owns,
      InTx, Putting, Releasing, ReleaseLock, TakeLock, Goto, NoBlob, Blob
<1>5. ASSUME NEW b \in Actors PROVE Owns(b)'
  BY <1>5, BlobStoreAssumption DEF IInv, shard, TypeOK, RecordedIsCounted, Apart, Knows, Owns,
      InTx, Putting, Releasing, ReleaseLock, TakeLock, Goto
<1>6. QED  BY <1>1, <1>2, <1>3, <1>4, <1>5 DEF IInv

\* release's decrement, or its deletion of the row with the last reference.
LEMMA ReleaseDropKeeps ==
    ASSUME IInv, NEW a \in Actors, ReleaseDrop(a)
    PROVE  IInv'
<1>1. TypeOK'
  <2>1. Blob(row.key, row.refcount - 1) \in [key : Keys \cup {NoKey}, refcount : Nat]
    <3>1. row.key \in Keys \cup {NoKey} /\ row.refcount \in Nat /\ row.refcount > 0
      BY DEF IInv, shard, TypeOK, ReleaseDrop
    <3>2. row.refcount - 1 \in Nat
      BY <3>1
    <3>3. QED  BY <3>1, <3>2 DEF Blob
  <2>2. NoBlob \in [key : Keys \cup {NoKey}, refcount : Nat]
    BY DEF NoBlob, Blob
  <2>3. QED  BY <2>1, <2>2 DEF IInv, shard, TypeOK, ReleaseDrop, Goto, Pcs, InTx
<1>2. Kept' /\ RecordedIsCounted' /\ Apart'
  BY BlobStoreAssumption DEF IInv, shard, TypeOK, Kept, RecordedIsCounted, Apart,
      Knows, Owns,
      InTx, Putting, Releasing, ReleaseDrop, Alive, Goto, Blob, NoBlob
<1>3. RefcountExact'
  BY DEF IInv, shard, RefcountExact, ReleaseDrop
<1>4. ASSUME NEW b \in Actors PROVE Knows(b)'
  <2>1. CASE b # a
    <3>1. pc'[b] = pc[b] /\ pc[b] \notin InTx
      BY <2>1, Alone DEF IInv, shard, TypeOK, ReleaseDrop, Alive, Goto
    <3>2. QED  BY <3>1, Outside
  <2>2. CASE b = a
    <3>1. /\ pc'[a] = "releaseCommit" /\ lock' = a /\ row'.refcount = row.refcount
          /\ row'.key = row.key
      BY DEF IInv, shard, TypeOK, ReleaseDrop, Alive, Goto
    <3>d. draft'[a] = IF row.refcount <= 1 THEN NoBlob ELSE Blob(row.key, row.refcount - 1)
      BY DEF IInv, shard, TypeOK, ReleaseDrop
    <3>2. row.refcount \in Nat /\ row.refcount > 0
      BY DEF IInv, shard, TypeOK, ReleaseDrop
    <3>3. CASE row.refcount = 1
      <4>1. draft'[a].key = NoKey /\ draft'[a].refcount = 0
        BY <3>d, <3>3, NoBlobIsBlob
      <4>2. draft'[a].refcount = row'.refcount - 1 /\ row'.refcount > 0
        BY <3>1, <3>3, <4>1
      <4>3. QED  BY <2>2, <3>1, <4>1, <4>2, AtReleaseCommit
    <3>4. CASE row.refcount > 1
      <4>1. draft'[a].key = row.key /\ draft'[a].refcount = row.refcount - 1
        <5>1. draft'[a] = Blob(row.key, row.refcount - 1)
          BY <3>d, <3>2, <3>4
        <5>2. QED  BY <5>1, BlobFields
      <4>2. /\ draft'[a].refcount = row'.refcount - 1 /\ row'.refcount > 0
            /\ draft'[a].refcount # 0
        BY <3>1, <3>2, <3>4, <4>1
      <4>3. draft'[a].key = row'.key
        BY <3>1, <4>1
      <4>4. QED  BY <2>2, <3>1, <4>2, <4>3, AtReleaseCommit
    <3>5. QED  BY <3>2, <3>3, <3>4
  <2>3. QED  BY <2>1, <2>2
<1>5. ASSUME NEW b \in Actors PROVE Owns(b)'
  BY <1>5, BlobStoreAssumption DEF IInv, shard, TypeOK, RecordedIsCounted, Apart, Knows, Owns,
      InTx, Putting, Releasing, ReleaseDrop, Alive, Goto, Blob
<1>6. QED  BY <1>1, <1>2, <1>3, <1>4, <1>5 DEF IInv

\* reap's lockBlob: the lock was free, so nobody was inside.
LEMMA ReapLockKeeps ==
    ASSUME IInv, NEW a \in Actors, ReapLock(a)
    PROVE  IInv'
<1>1. TypeOK'
  BY BlobStoreAssumption DEF IInv, shard, TypeOK, ReapLock, TakeLock, Goto, Pcs, InTx, NoBlob,
      Blob, Knows, Owns, Putting
<1>2. Kept' /\ RecordedIsCounted' /\ Apart'
  BY BlobStoreAssumption DEF IInv, shard, TypeOK, Kept, RecordedIsCounted, Apart,
      Knows, Owns,
      InTx, Putting, Releasing, ReapLock, TakeLock, Goto, NoBlob, Blob
<1>3. RefcountExact'
  BY DEF IInv, shard, RefcountExact, ReapLock
<1>4. ASSUME NEW b \in Actors PROVE Knows(b)'
  BY <1>4, BlobStoreAssumption DEF IInv, shard, TypeOK, Kept, Knows, Owns,
      InTx, Putting, Releasing, ReapLock, TakeLock, Goto, NoBlob, Blob
<1>5. ASSUME NEW b \in Actors PROVE Owns(b)'
  BY <1>5, BlobStoreAssumption DEF IInv, shard, TypeOK, RecordedIsCounted, Apart, Knows, Owns,
      InTx, Putting, Releasing, ReapLock, TakeLock, Goto
<1>6. QED  BY <1>1, <1>2, <1>3, <1>4, <1>5 DEF IInv

\* gc's tryLockBlob: the lock was free, so nobody was inside.
LEMMA GcLockKeeps ==
    ASSUME IInv, NEW a \in Actors, GcLock(a)
    PROVE  IInv'
<1>1. TypeOK'
  BY BlobStoreAssumption DEF IInv, shard, TypeOK, GcLock, TakeLock, Goto, Pcs, InTx, NoBlob,
      Blob, Knows, Owns, Putting
<1>2. Kept' /\ RecordedIsCounted' /\ Apart'
  BY BlobStoreAssumption DEF IInv, shard, TypeOK, Kept, RecordedIsCounted, Apart,
      Knows, Owns,
      InTx, Putting, Releasing, GcLock, TakeLock, Goto, NoBlob, Blob
<1>3. RefcountExact'
  BY DEF IInv, shard, RefcountExact, GcLock
<1>4. ASSUME NEW b \in Actors PROVE Knows(b)'
  BY <1>4, BlobStoreAssumption DEF IInv, shard, TypeOK, Kept, Knows, Owns,
      InTx, Putting, Releasing, GcLock, TakeLock, Goto, NoBlob, Blob
<1>5. ASSUME NEW b \in Actors PROVE Owns(b)'
  BY <1>5, BlobStoreAssumption DEF IInv, shard, TypeOK, RecordedIsCounted, Apart, Knows, Owns,
      InTx, Putting, Releasing, GcLock, TakeLock, Goto
<1>6. QED  BY <1>1, <1>2, <1>3, <1>4, <1>5 DEF IInv

\* reap and gc go on to the unlink only when they see no row.
LEMMA LookKeeps ==
    ASSUME IInv, NEW a \in Actors, Look(a)
    PROVE  IInv'
<1>1. TypeOK'
  BY BlobStoreAssumption DEF IInv, shard, TypeOK, Look, Alive, Goto, Pcs, InTx, NoBlob, Blob,
      Knows, Owns, Putting
<1>2. Kept' /\ RecordedIsCounted' /\ Apart'
  BY BlobStoreAssumption DEF IInv, shard, TypeOK, Kept, RecordedIsCounted, Apart,
      Knows, Owns,
      InTx, Putting, Releasing, Look, Alive, Goto, NoBlob, Blob
<1>3. RefcountExact'
  BY DEF IInv, shard, RefcountExact, Look
<1>4. ASSUME NEW b \in Actors PROVE Knows(b)'
  <2>1. CASE b # a
    <3>1. pc'[b] = pc[b] /\ pc[b] \notin InTx
      BY <2>1, Alone DEF IInv, shard, TypeOK, Look, Alive, Goto
    <3>2. QED  BY <3>1, Outside
  <2>2. CASE b = a
    <3>1. row.refcount \in Nat /\ row' = row /\ lock' = a
      BY DEF IInv, shard, TypeOK, Look, Alive
    <3>2. pc'[a] = IF row.refcount > 0 THEN "end" ELSE "unlink"
      BY DEF IInv, shard, TypeOK, Look, Goto
    <3>3. QED  BY <2>2, <3>1, <3>2 DEF Knows, InTx
  <2>3. QED  BY <2>1, <2>2
<1>5. ASSUME NEW b \in Actors PROVE Owns(b)'
  BY <1>5, BlobStoreAssumption DEF IInv, shard, TypeOK, RecordedIsCounted, Apart, Knows, Owns,
      InTx, Putting, Releasing, Look, Alive, Goto
<1>6. QED  BY <1>1, <1>2, <1>3, <1>4, <1>5 DEF IInv

\* The unlink happens only without a row, so it takes no row's file.
LEMMA UnlinkKeeps ==
    ASSUME IInv, NEW a \in Actors, Unlink(a)
    PROVE  IInv'
<1>1. TypeOK'
  BY BlobStoreAssumption DEF IInv, shard, TypeOK, Unlink, Goto, Pcs, InTx, NoBlob, Blob,
      Knows, Owns, Putting
<1>2. Kept' /\ RecordedIsCounted' /\ Apart'
  <2>1. row'.refcount = 0
    BY DEF IInv, shard, Knows, Unlink
  <2>2. QED  BY <2>1 DEF IInv, shard, Kept, RecordedIsCounted, Apart, Unlink
<1>3. RefcountExact'
  BY DEF IInv, shard, RefcountExact, Unlink
<1>4. ASSUME NEW b \in Actors PROVE Knows(b)'
  BY <1>4, BlobStoreAssumption DEF IInv, shard, TypeOK, Kept, Knows, Owns,
      InTx, Putting, Releasing, Unlink, Goto, NoBlob, Blob
<1>5. ASSUME NEW b \in Actors PROVE Owns(b)'
  BY <1>5, BlobStoreAssumption DEF IInv, shard, TypeOK, RecordedIsCounted, Apart, Knows, Owns,
      InTx, Putting, Releasing, Unlink, Goto
<1>6. QED  BY <1>1, <1>2, <1>3, <1>4, <1>5 DEF IInv

\* reap's sync of the directory, still under the lock and without a row.
LEMMA ReapSyncKeeps ==
    ASSUME IInv, NEW a \in Actors, ReapSync(a)
    PROVE  IInv'
<1>1. TypeOK'
  BY BlobStoreAssumption DEF IInv, shard, TypeOK, ReapSync, Goto, Pcs, InTx, NoBlob, Blob,
      Knows, Owns, Putting
<1>2. Kept' /\ RecordedIsCounted' /\ Apart'
  BY BlobStoreAssumption DEF IInv, shard, TypeOK, Kept, RecordedIsCounted, Apart,
      Knows, Owns,
      InTx, Putting, Releasing, ReapSync, Goto, NoBlob, Blob
<1>3. RefcountExact'
  BY DEF IInv, shard, RefcountExact, ReapSync
<1>4. ASSUME NEW b \in Actors PROVE Knows(b)'
  BY <1>4, BlobStoreAssumption DEF IInv, shard, TypeOK, Kept, Knows, Owns,
      InTx, Putting, Releasing, ReapSync, Goto, NoBlob, Blob
<1>5. ASSUME NEW b \in Actors PROVE Owns(b)'
  BY <1>5, BlobStoreAssumption DEF IInv, shard, TypeOK, RecordedIsCounted, Apart, Knows, Owns,
      InTx, Putting, Releasing, ReapSync, Goto
<1>6. QED  BY <1>1, <1>2, <1>3, <1>4, <1>5 DEF IInv

\* The end of reap's or gc's transaction frees the lock.
LEMMA EndKeeps ==
    ASSUME IInv, NEW a \in Actors, End(a)
    PROVE  IInv'
<1>1. TypeOK'
  BY BlobStoreAssumption DEF IInv, shard, TypeOK, End, Alive, Goto, Forget, Pcs, InTx, NoBlob,
      Blob, Knows, Owns, Putting
<1>2. Kept' /\ RecordedIsCounted' /\ Apart'
  BY BlobStoreAssumption DEF IInv, shard, TypeOK, Kept, RecordedIsCounted, Apart,
      Knows, Owns,
      InTx, Putting, Releasing, End, Alive, Goto, Forget, NoBlob, Blob
<1>3. RefcountExact'
  BY DEF IInv, shard, RefcountExact, End
<1>4. ASSUME NEW b \in Actors PROVE Knows(b)'
  BY <1>4, BlobStoreAssumption DEF IInv, shard, TypeOK, Kept, Knows, Owns,
      InTx, Putting, Releasing, End, Alive, Goto, Forget, NoBlob, Blob
<1>5. ASSUME NEW b \in Actors PROVE Owns(b)'
  BY <1>5, BlobStoreAssumption DEF IInv, shard, TypeOK, RecordedIsCounted, Apart, Knows, Owns,
      InTx, Putting, Releasing, End, Alive, Goto, Forget
<1>6. QED  BY <1>1, <1>2, <1>3, <1>4, <1>5 DEF IInv

\* gc's sync, after its transaction: a row that came meanwhile has its file synced.
LEMMA GcSyncKeeps ==
    ASSUME IInv, NEW a \in Actors, GcSync(a)
    PROVE  IInv'
<1>1. TypeOK'
  BY BlobStoreAssumption DEF IInv, shard, TypeOK, GcSync, Goto, Pcs, InTx, NoBlob, Blob,
      Knows, Owns, Putting
<1>2. Kept' /\ RecordedIsCounted' /\ Apart'
  BY BlobStoreAssumption DEF IInv, shard, TypeOK, Kept, RecordedIsCounted, Apart,
      Knows, Owns,
      InTx, Putting, Releasing, GcSync, Goto, NoBlob, Blob
<1>3. RefcountExact'
  BY DEF IInv, shard, RefcountExact, GcSync
<1>4. ASSUME NEW b \in Actors PROVE Knows(b)'
  <2>1. CASE b # a
    <3>1. /\ UNCHANGED <<pc[b], key[b], draft[b], made[b], row, file, dir>>
          /\ durable' = durable \/ durable' = {file}
          /\ pc[b] \in InTx => lock' = b
      BY <2>1 DEF IInv, shard, TypeOK, Knows, GcSync, Goto
    <3>2. QED  BY <3>1, Still DEF IInv
  <2>2. CASE b = a
    <3>1. pc'[a] \notin InTx
      BY DEF IInv, TypeOK, InTx, GcSync, Goto
    <3>2. QED  BY <2>2, <3>1, Outside
  <2>3. QED  BY <2>1, <2>2
<1>5. ASSUME NEW b \in Actors PROVE Owns(b)'
  BY <1>5, BlobStoreAssumption DEF IInv, shard, TypeOK, RecordedIsCounted, Apart, Knows, Owns,
      InTx, Putting, Releasing, GcSync, Goto
<1>6. QED  BY <1>1, <1>2, <1>3, <1>4, <1>5 DEF IInv

\* A rollback frees the lock and commits nothing.
LEMMA AbortKeeps ==
    ASSUME IInv, NEW a \in Actors, Abort(a)
    PROVE  IInv'
<1>1. TypeOK'
  BY BlobStoreAssumption DEF IInv, shard, TypeOK, Abort, Goto, Forget, Pcs, InTx, NoBlob,
      Blob, Knows, Owns, Putting
<1>2. Kept' /\ RecordedIsCounted' /\ Apart'
  BY BlobStoreAssumption DEF IInv, shard, TypeOK, Kept, RecordedIsCounted, Apart,
      Knows, Owns,
      InTx, Putting, Releasing, Abort, Goto, Forget, NoBlob, Blob
<1>3. RefcountExact'
  BY DEF IInv, shard, RefcountExact, Abort
<1>4. ASSUME NEW b \in Actors PROVE Knows(b)'
  <2>1. CASE b # a
    <3>1. /\ UNCHANGED <<pc[b], key[b], draft[b], made[b], row, file, dir>>
          /\ durable' = durable \/ durable' = {file}
          /\ pc[b] \in InTx => lock' = b
      BY <2>1 DEF IInv, shard, TypeOK, Knows, Abort, Goto, Forget
    <3>2. QED  BY <3>1, Still DEF IInv
  <2>2. CASE b = a
    <3>1. pc'[a] \notin InTx
      BY DEF IInv, TypeOK, InTx, Abort, Goto, Forget
    <3>2. QED  BY <2>2, <3>1, Outside
  <2>3. QED  BY <2>1, <2>2
<1>5. ASSUME NEW b \in Actors PROVE Owns(b)'
  BY <1>5, BlobStoreAssumption DEF IInv, shard, TypeOK, RecordedIsCounted, Apart, Knows, Owns,
      InTx, Putting, Releasing, Abort, Goto, Forget
<1>6. QED  BY <1>1, <1>2, <1>3, <1>4, <1>5 DEF IInv

\* A dying process frees the lock and commits nothing.
LEMMA CrashKeeps ==
    ASSUME IInv, NEW a \in Actors, Crash(a)
    PROVE  IInv'
<1>1. TypeOK'
  BY BlobStoreAssumption DEF IInv, shard, TypeOK, Crash, Goto, Forget, Pcs, InTx, NoBlob,
      Blob, Knows, Owns, Putting
<1>2. Kept' /\ RecordedIsCounted' /\ Apart'
  BY BlobStoreAssumption DEF IInv, shard, TypeOK, Kept, RecordedIsCounted, Apart,
      Knows, Owns,
      InTx, Putting, Releasing, Crash, Goto, Forget, NoBlob, Blob
<1>3. RefcountExact'
  BY DEF IInv, shard, RefcountExact, Crash
<1>4. ASSUME NEW b \in Actors PROVE Knows(b)'
  <2>1. CASE b # a
    <3>1. /\ UNCHANGED <<pc[b], key[b], draft[b], made[b], row, file, dir>>
          /\ durable' = durable \/ durable' = {file}
          /\ pc[b] \in InTx => lock' = b
      BY <2>1 DEF IInv, shard, TypeOK, Knows, Crash, Goto, Forget
    <3>2. QED  BY <3>1, Still DEF IInv
  <2>2. CASE b = a
    <3>1. pc'[a] \notin InTx
      BY DEF IInv, TypeOK, InTx, Crash, Goto, Forget
    <3>2. QED  BY <2>2, <3>1, Outside
  <2>3. QED  BY <2>1, <2>2
<1>5. ASSUME NEW b \in Actors PROVE Owns(b)'
  BY <1>5, BlobStoreAssumption DEF IInv, shard, TypeOK, RecordedIsCounted, Apart, Knows, Owns,
      InTx, Putting, Releasing, Crash, Goto, Forget
<1>6. QED  BY <1>1, <1>2, <1>3, <1>4, <1>5 DEF IInv

\* put's commit counts exactly the reference it was called for.
LEMMA CommitPutKeeps ==
    ASSUME IInv, NEW a \in Actors, CommitPut(a)
    PROVE  IInv'
<1> DEFINE t == target[a]
<1>a. /\ pc[a] = "putCommit" /\ lock = a
      /\ row' = draft[a] /\ refs' = refs \cup {t} /\ lock' = NoActor
      /\ file' = file /\ durable' = durable /\ temps' = temps /\ losses' = losses
      /\ \/ /\ mode[a] = "caller"
            /\ recorded' = recorded \cup {t} /\ pc' = [pc EXCEPT ![a] = "idle"]
            /\ Forget(a)
         \/ /\ mode[a] # "caller"
            /\ pc' = [pc EXCEPT ![a] = "inHand"]
            /\ UNCHANGED <<recorded, key, target, draft, mode, made>>
      /\ found' = IF row.refcount = 0 THEN ~made[a] ELSE found
      /\ dir' = dir /\ lost' = lost
  BY DEF CommitPut, Alive, Goto
<1>b. /\ t \in Refs /\ t \notin refs /\ t \notin recorded
      /\ draft[a].refcount = row.refcount + 1 /\ draft[a].key # NoKey
      /\ row.refcount > 0 => draft[a].key = row.key
      /\ row.refcount = 0 => /\ file = draft[a].key /\ durable = {draft[a].key}
                             /\ Safe(a)
  BY <1>a DEF IInv, shard, Knows, Owns, Putting
<1>c. row'.refcount \in Nat \ {0} /\ row' \in [key : Keys \cup {NoKey}, refcount : Nat]
  <2>1. row.refcount \in Nat /\ draft[a] \in [key : Keys \cup {NoKey}, refcount : Nat]
    BY DEF IInv, shard, TypeOK
  <2>2. row' = draft[a] /\ draft[a].refcount = row.refcount + 1
    BY <1>a, <1>b
  <2>3. QED  BY <2>1, <2>2
<1>1. TypeOK'
  <2>1. row'.refcount = 0 <=> row'.key = NoKey
    BY <1>a, <1>b, <1>c
  <2>2. pc' \in [Actors -> Pcs]
    BY <1>a DEF IInv, shard, TypeOK, Pcs
  <2>3. NoBlob \in [key : Keys \cup {NoKey}, refcount : Nat]
    BY DEF NoBlob, Blob
  <2>4. refs' \in SUBSET Refs /\ recorded' \in SUBSET Refs
    BY <1>a, <1>b DEF IInv, shard, TypeOK
  <2>5. /\ key' \in [Actors -> Keys \cup {NoKey}]
        /\ target' \in [Actors -> Refs \cup {NoRef}]
        /\ draft' \in [Actors -> [key : Keys \cup {NoKey}, refcount : Nat]]
        /\ mode' \in [Actors -> {"own", "caller", "gc"}]
        /\ made' \in [Actors -> BOOLEAN]
    <3>1. CASE mode[a] = "caller"
      <4>1. draft' = [draft EXCEPT ![a] = NoBlob]
        BY <1>a, <3>1 DEF Forget
      <4>2. draft' \in [Actors -> [key : Keys \cup {NoKey}, refcount : Nat]]
        BY <2>3, <4>1 DEF IInv, shard, TypeOK
      <4>3. QED  BY <1>a, <3>1, <4>2 DEF IInv, shard, TypeOK, Forget
    <3>2. CASE mode[a] # "caller"
      BY <1>a, <3>2 DEF IInv, shard, TypeOK
    <3>3. QED  BY <3>1, <3>2
  <2>6. /\ file' = file /\ durable' = durable /\ temps' = temps
        /\ losses' = losses /\ lock' = NoActor /\ dir' = dir /\ lost' = lost
    BY <1>a
  <2>8. found' \in BOOLEAN
    BY <1>a DEF IInv, TypeOK
  <2>7. QED  BY <1>c, <2>1, <2>2, <2>4, <2>5, <2>6, <2>8 DEF IInv, shard, TypeOK
<1>2. Kept' /\ RecordedIsCounted'
  <2>1. CASE row.refcount = 0
    <3>1. file' = row'.key /\ durable' = {row'.key} /\ found' = ~made[a] /\ dir' = dir /\ Safe(a)
      BY <1>a, <1>b, <2>1
    <3>2. found' \/ dir' = "synced"
      BY <3>1 DEF Safe
    <3>3. QED  BY <1>a, <3>1, <3>2 DEF IInv, Kept, RecordedIsCounted
  <2>2. CASE row.refcount > 0
    BY <1>a, <1>b, <2>2 DEF IInv, TypeOK, Kept, RecordedIsCounted
  <2>3. QED  BY <2>1, <2>2 DEF IInv, TypeOK
<1>3. Apart'
  BY <1>a, BlobStoreAssumption DEF IInv, shard, TypeOK, Apart, Forget
<1>4. RefcountExact'
  <2>1. IsFiniteSet(refs)
    BY FS_Subset, BlobStoreAssumption DEF IInv, shard, TypeOK
  <2>2. Cardinality(refs') = Cardinality(refs) + 1
    BY <1>a, <1>b, <2>1, FS_AddElement
  <2>3. QED  BY <1>a, <1>b, <2>2 DEF IInv, shard, RefcountExact
<1>5. ASSUME NEW b \in Actors PROVE Knows(b)'
  <2>1. pc'[b] \notin InTx
    BY <1>a, Alone DEF IInv, shard, TypeOK, InTx
  <2>2. QED  BY <2>1, Outside
<1>6. ASSUME NEW b \in Actors PROVE Owns(b)'
  <2>1. CASE b = a
    BY <1>a, <1>b, <2>1 DEF IInv, shard, TypeOK, Owns, Putting, Releasing
  <2>2. CASE b # a
    <3>1. target[b] # t \/ target[b] = NoRef
      BY <2>2 DEF IInv, shard, Apart
    <3>2. /\ pc'[b] = pc[b] /\ key'[b] = key[b] /\ target'[b] = target[b]
          /\ mode'[b] = mode[b]
      BY <1>a, <2>2 DEF IInv, shard, TypeOK, Forget
    <3>3. QED  BY <1>a, <1>b, <3>1, <3>2, BlobStoreAssumption DEF IInv, shard, TypeOK, Owns, Putting,
       Releasing
  <2>3. QED  BY <2>1, <2>2
<1>7. QED  BY <1>1, <1>2, <1>3, <1>4, <1>5, <1>6 DEF IInv

\* release's commit takes away exactly the reference it was called for.
LEMMA CommitReleaseKeeps ==
    ASSUME IInv, NEW a \in Actors, CommitRelease(a)
    PROVE  IInv'
<1> DEFINE t == target[a]
<1>a. /\ pc[a] = "releaseCommit" /\ lock = a
      /\ row' = draft[a] /\ refs' = refs \ {t} /\ lock' = NoActor
      /\ recorded' = IF mode[a] = "caller" THEN recorded \ {t} ELSE recorded
      /\ file' = file /\ durable' = durable /\ temps' = temps /\ losses' = losses
      /\ pc' = [pc EXCEPT ![a] = IF draft[a].refcount = 0 THEN "reap" ELSE "idle"]
      /\ Forget(a)
      /\ dir' = dir /\ found' = (found /\ draft[a].refcount > 0)
      /\ lost' = (lost /\ draft[a].refcount > 0)
  BY DEF CommitRelease, Alive, Goto
<1>b. /\ t \in refs
      /\ mode[a] # "caller" => t \notin recorded
      /\ row.refcount > 0
      /\ draft[a].refcount = row.refcount - 1
      /\ draft[a].refcount = 0 => draft[a].key = NoKey
      /\ draft[a].refcount > 0 => draft[a].key = row.key
  BY <1>a DEF IInv, shard, Knows, Owns, Releasing
<1>1. TypeOK'
  <2>1. row'.refcount = 0 <=> row'.key = NoKey
    <3>1. row.refcount \in Nat /\ row.key # NoKey
      BY <1>b, CountedHasKey DEF IInv, shard, TypeOK
    <3>2. /\ row' = draft[a] /\ draft[a].refcount = row.refcount - 1
          /\ draft[a].refcount = 0 => draft[a].key = NoKey
          /\ draft[a].refcount > 0 => draft[a].key = row.key
          /\ row.refcount > 0
      BY <1>a, <1>b
    <3>3. QED  BY <3>1, <3>2
  <2>2. pc' \in [Actors -> Pcs]
    BY <1>a DEF IInv, shard, TypeOK, Pcs
  <2>3. QED  BY <1>a, <1>b, <2>1, <2>2 DEF IInv, shard, TypeOK, Forget, NoBlob, Blob
<1>2. Kept' /\ RecordedIsCounted'
  BY <1>a, <1>b DEF IInv, shard, TypeOK, Kept, RecordedIsCounted
<1>3. Apart'
  BY <1>a, BlobStoreAssumption DEF IInv, shard, TypeOK, Apart, Forget
<1>4. RefcountExact'
  <2>1. IsFiniteSet(refs)
    BY FS_Subset, BlobStoreAssumption DEF IInv, shard, TypeOK
  <2>2. Cardinality(refs') = Cardinality(refs) - 1
    BY <1>a, <1>b, <2>1, FS_RemoveElement
  <2>3. QED  BY <1>a, <1>b, <2>2 DEF IInv, shard, RefcountExact
<1>5. ASSUME NEW b \in Actors PROVE Knows(b)'
  <2>1. pc'[b] \notin InTx
    BY <1>a, Alone DEF IInv, shard, TypeOK, InTx
  <2>2. QED  BY <2>1, Outside
<1>6. ASSUME NEW b \in Actors PROVE Owns(b)'
  <2>1. CASE b = a
    BY <1>a, <2>1 DEF IInv, shard, TypeOK, Owns, Putting, Releasing
  <2>2. CASE b # a
    <3>1. target[b] # t \/ target[b] = NoRef
      BY <2>2 DEF IInv, shard, Apart
    <3>2. /\ pc'[b] = pc[b] /\ key'[b] = key[b] /\ target'[b] = target[b]
          /\ mode'[b] = mode[b]
      BY <1>a, <2>2 DEF IInv, shard, TypeOK, Forget
    <3>3. QED  BY <1>a, <1>b, <3>1, <3>2, BlobStoreAssumption DEF IInv, shard, TypeOK, Owns, Putting,
       Releasing
  <2>3. QED  BY <2>1, <2>2
<1>7. QED  BY <1>1, <1>2, <1>3, <1>4, <1>5, <1>6 DEF IInv

\* The row that APPEND commits stands for a reference that is counted.
LEMMA RecordKeeps ==
    ASSUME IInv, NEW a \in Actors, Record(a), ~LostReply
    PROVE  IInv'
<1>a. /\ pc[a] = "inHand" /\ recorded' = recorded \cup {target[a]}
      /\ pc' = [pc EXCEPT ![a] = "idle"] /\ Forget(a)
      /\ UNCHANGED <<row, file, durable, temps, lock, refs, dir, found, lost, losses>>
  BY DEF shard, Record, Goto
<1>b. target[a] \in refs
  BY <1>a DEF IInv, shard, Owns
<1>1. TypeOK'
  BY <1>a, <1>b DEF IInv, shard, TypeOK, Forget, Pcs, NoBlob, Blob
<1>2. Kept' /\ RecordedIsCounted' /\ RefcountExact'
  BY <1>a, <1>b DEF IInv, shard, Kept, RecordedIsCounted, RefcountExact
<1>3. Apart'
  BY <1>a, BlobStoreAssumption DEF IInv, shard, TypeOK, Apart, Forget
<1>4. ASSUME NEW b \in Actors PROVE Knows(b)' /\ Owns(b)'
  <2>1. CASE b = a
    BY <1>a, <2>1 DEF IInv, shard, TypeOK, Knows, Owns, InTx, Putting, Releasing
  <2>2. CASE b # a
    <3>1. target[b] # target[a] \/ target[b] = NoRef
      BY <2>2 DEF IInv, shard, Apart
    <3>2. /\ pc'[b] = pc[b] /\ key'[b] = key[b] /\ target'[b] = target[b]
          /\ mode'[b] = mode[b] /\ draft'[b] = draft[b] /\ made'[b] = made[b]
      BY <1>a, <2>2 DEF IInv, shard, TypeOK, Forget
    <3>3. Knows(b)'
      <4>1. pc[b] \in InTx => lock' = b
        BY <1>a DEF IInv, Knows
      <4>2. QED  BY <1>a, <3>2, <4>1, Still DEF IInv
    <3>4. Owns(b)'
      BY <1>a, <1>b, <3>1, <3>2, BlobStoreAssumption DEF IInv, shard, TypeOK, Owns, Putting,
          Releasing
    <3>5. QED  BY <3>3, <3>4
  <2>3. QED  BY <2>1, <2>2
<1>5. QED  BY <1>1, <1>2, <1>3, <1>4 DEF IInv

\* A put starts with a key and a reference of its own.
LEMMA PutKeeps ==
    ASSUME IInv, NEW a \in Actors, NEW k \in Keys, NEW r \in Refs,
           NEW tx \in {"own", "caller"}, Put(a, k, r, tx)
    PROVE  IInv'
<1>1. TypeOK'
  BY DEF IInv, shard, TypeOK, Put, Goto, Pcs
<1>2. Kept' /\ RecordedIsCounted' /\ RefcountExact'
  BY DEF IInv, shard, Kept, RecordedIsCounted, RefcountExact, Put
<1>3. Apart'
  BY DEF IInv, shard, TypeOK, Apart, Put
<1>4. ASSUME NEW b \in Actors PROVE Knows(b)'
  <2>1. CASE b # a
    <3>1. /\ UNCHANGED <<pc[b], key[b], draft[b], made[b], row, file, dir>>
          /\ durable' = durable \/ durable' = {file}
          /\ pc[b] \in InTx => lock' = b
      BY <2>1 DEF IInv, shard, TypeOK, Knows, Put, Goto
    <3>2. QED  BY <3>1, Still DEF IInv
  <2>2. CASE b = a
    <3>1. pc'[a] \notin InTx
      BY DEF IInv, TypeOK, InTx, Put, Goto
    <3>2. QED  BY <2>2, <3>1, Outside
  <2>3. QED  BY <2>1, <2>2
<1>5. ASSUME NEW b \in Actors PROVE Owns(b)'
  BY <1>5 DEF IInv, shard, TypeOK, Owns, Putting, Releasing, Put, Goto
<1>6. QED  BY <1>1, <1>2, <1>3, <1>4, <1>5 DEF IInv

\* A release starts with a recorded reference that nobody else releases.
LEMMA ReleaseKeeps ==
    ASSUME IInv, NEW a \in Actors, NEW r \in Refs, Release(a, r)
    PROVE  IInv'
<1>1. TypeOK'
  BY DEF IInv, shard, TypeOK, Release, Goto, Pcs
<1>2. Kept' /\ RecordedIsCounted' /\ RefcountExact'
  BY DEF IInv, shard, Kept, RecordedIsCounted, RefcountExact, Release
<1>3. Apart'
  BY DEF IInv, shard, TypeOK, Apart, Release
<1>4. ASSUME NEW b \in Actors PROVE Knows(b)'
  <2>1. CASE b # a
    <3>1. /\ UNCHANGED <<pc[b], key[b], draft[b], made[b], row, file, dir>>
          /\ durable' = durable \/ durable' = {file}
          /\ pc[b] \in InTx => lock' = b
      BY <2>1 DEF IInv, shard, TypeOK, Knows, Release, Goto
    <3>2. QED  BY <3>1, Still DEF IInv
  <2>2. CASE b = a
    <3>1. pc'[a] \notin InTx
      BY DEF IInv, TypeOK, InTx, Release, Goto
    <3>2. QED  BY <2>2, <3>1, Outside
  <2>3. QED  BY <2>1, <2>2
<1>5. ASSUME NEW b \in Actors PROVE Owns(b)'
  BY <1>5 DEF IInv, shard, TypeOK, RecordedIsCounted, Owns, Putting, Releasing, Release, Goto
<1>6. QED  BY <1>1, <1>2, <1>3, <1>4, <1>5 DEF IInv

\* gc of temporary files touches no blob.
LEMMA GcTempKeeps ==
    ASSUME IInv, NEW k \in Keys, GcTemp(k)
    PROVE  IInv'
<1>1. TypeOK'
  BY DEF IInv, TypeOK, GcTemp, actorVars, shard
<1>2. Kept' /\ RecordedIsCounted' /\ RefcountExact' /\ Apart'
  BY DEF IInv, Kept, RecordedIsCounted, RefcountExact, Apart, GcTemp, actorVars, shard
<1>3. ASSUME NEW b \in Actors PROVE Knows(b)' /\ Owns(b)'
  <2>1. Knows(b)'
    <3>1. /\ UNCHANGED <<pc[b], key[b], draft[b], made[b], row, file, durable, dir>>
          /\ pc[b] \in InTx => lock' = b
      BY DEF IInv, Knows, GcTemp, actorVars, shard
    <3>2. QED  BY <3>1, Still DEF IInv
  <2>2. Owns(b)'
    BY DEF IInv, Owns, GcTemp, actorVars
  <2>3. QED  BY <2>1, <2>2
<1>4. QED  BY <1>1, <1>2, <1>3 DEF IInv

\* A power loss leaves what was synced, and a row's file was.
LEMMA PowerLossKeeps ==
    ASSUME IInv, PowerLoss
    PROVE  IInv'
<1>1. TypeOK'
  <2>1. draft' \in [Actors -> [key : Keys \cup {NoKey}, refcount : Nat]]
    BY NoBlobIsBlob DEF PowerLoss
  <2>2. /\ row' \in [key : Keys \cup {NoKey}, refcount : Nat]
        /\ row'.refcount = 0 <=> row'.key = NoKey
    BY DEF IInv, shard, TypeOK, PowerLoss
  <2>3. file' \in Keys \cup {NoKey} /\ durable' \in SUBSET (Keys \cup {NoKey})
    BY DEF IInv, TypeOK, PowerLoss
  <2>4. lost' \in BOOLEAN /\ found' \in BOOLEAN /\ dir' \in {"absent", "made", "synced"}
    BY DEF IInv, TypeOK, PowerLoss
  <2>5. /\ pc' \in [Actors -> Pcs] /\ key' \in [Actors -> Keys \cup {NoKey}]
        /\ target' \in [Actors -> Refs \cup {NoRef}] /\ losses' \in Nat
        /\ mode' \in [Actors -> {"own", "caller", "gc"}] /\ made' \in [Actors -> BOOLEAN]
    BY DEF IInv, TypeOK, PowerLoss, Pcs
  <2>6. QED  BY <2>1, <2>2, <2>3, <2>4, <2>5 DEF IInv, TypeOK, PowerLoss
<1>2. Kept' /\ RecordedIsCounted' /\ RefcountExact' /\ Apart'
  <2>1. RecordedIsCounted' /\ RefcountExact' /\ Apart'
    BY DEF IInv, RecordedIsCounted, RefcountExact, Apart, PowerLoss
  <2>2. ASSUME row.refcount > 0, dir = "made", file' = NoKey, lost' = (lost \/ row.refcount > 0)
        PROVE  Kept'
    BY <2>2 DEF IInv, Kept, PowerLoss
  <2>3. ASSUME row.refcount > 0, dir' = (IF dir = "made" THEN "synced" ELSE dir),
               file' \in durable, UNCHANGED lost
        PROVE  Kept'
    BY <2>3 DEF IInv, Kept, PowerLoss
  <2>4. row.refcount > 0 \/ ~(row'.refcount > 0)
    BY DEF PowerLoss
  <2>5. QED  BY <2>1, <2>2, <2>3, <2>4 DEF Kept, PowerLoss
<1>3. ASSUME NEW b \in Actors PROVE Knows(b)' /\ Owns(b)'
  BY <1>3 DEF Knows, Owns, InTx, Putting, Releasing, PowerLoss
<1>4. QED  BY <1>1, <1>2, <1>3 DEF IInv

\* What the kernel writes back by itself is what is in the directory.
LEMMA WriteBackKeeps ==
    ASSUME IInv, WriteBack
    PROVE  IInv'
<1>1. TypeOK'
  BY DEF IInv, shard, TypeOK, WriteBack, actorVars
<1>2. Kept' /\ RecordedIsCounted' /\ RefcountExact' /\ Apart'
  BY DEF IInv, shard, Kept, RecordedIsCounted, RefcountExact, Apart, WriteBack,
      actorVars
<1>3. ASSUME NEW b \in Actors PROVE Knows(b)' /\ Owns(b)'
  <2>1. Knows(b)'
    <3>1. /\ UNCHANGED <<pc[b], key[b], draft[b], made[b], row, file>>
          /\ durable' = durable \/ durable' = {file}
          /\ dir = "synced" => dir' = "synced"
          /\ pc[b] \in InTx => lock' = b
      BY DEF IInv, Knows, WriteBack, actorVars, shard
    <3>2. QED  BY <3>1, Still DEF IInv
  <2>2. Owns(b)'
    BY DEF IInv, Owns, WriteBack, actorVars
  <2>3. QED  BY <2>1, <2>2
<1>4. QED  BY <1>1, <1>2, <1>3 DEF IInv

\* What other puts do to the directory does not undo its sync.
LEMMA OtherPutKeeps ==
    ASSUME IInv, OtherPut
    PROVE  IInv'
<1>1. TypeOK'
  BY DEF IInv, TypeOK, OtherPut, actorVars
<1>2. Kept' /\ RecordedIsCounted' /\ RefcountExact' /\ Apart'
  BY DEF IInv, Kept, RecordedIsCounted, RefcountExact, Apart, OtherPut, actorVars
<1>3. ASSUME NEW b \in Actors PROVE Knows(b)' /\ Owns(b)'
  <2>1. Knows(b)'
    <3>1. /\ UNCHANGED <<pc[b], key[b], draft[b], made[b], row, file>>
          /\ durable' = durable \/ durable' = {file}
          /\ dir = "synced" => dir' = "synced"
          /\ pc[b] \in InTx => lock' = b
      BY DEF IInv, Knows, OtherPut, actorVars, shard
    <3>2. QED  BY <3>1, Still DEF IInv
  <2>2. Owns(b)'
    BY DEF IInv, Owns, OtherPut, actorVars
  <2>3. QED  BY <2>1, <2>2
<1>4. QED  BY <1>1, <1>2, <1>3 DEF IInv

\* Every step of put, release, reap, gc and of the failures keeps the invariant.
LEMMA Inductive ==
    ASSUME ~TxLoss, ~LostReply, IInv, [Next]_vars
    PROVE  IInv'
<1>1. ASSUME NEW a \in Actors, PutStep(a) PROVE IInv'
  BY <1>1, PutKeeps, PutLockKeeps, PutCheckKeeps, PutCountKeeps, PutMkdirKeeps,
     PutPlaceKeeps, PutSyncKeeps, PutParentsKeeps, PutCreateKeeps, CommitPutKeeps, RecordKeeps, GiveBackKeeps DEF PutStep
<1>2. ASSUME NEW a \in Actors, ReleaseStep(a) PROVE IInv'
  BY <1>2, ReleaseKeeps, ReleaseLockKeeps, ReleaseDropKeeps, CommitReleaseKeeps
  DEF ReleaseStep
<1>3. ASSUME NEW a \in Actors, RemoveStep(a) PROVE IInv'
  BY <1>3, ReapLockKeeps, GcLockKeeps, LookKeeps, UnlinkKeeps, ReapSyncKeeps, EndKeeps,
     GcSyncKeeps DEF RemoveStep
<1>4. ASSUME NEW a \in Actors, LoseTx(a) PROVE IInv'
  BY <1>4 DEF LoseTx
<1>5. ASSUME UNCHANGED vars PROVE IInv'
  <2>1. TypeOK' /\ Kept' /\ RecordedIsCounted' /\ RefcountExact' /\ Apart'
    BY <1>5 DEF vars, actorVars, shard, IInv, TypeOK, Kept, RecordedIsCounted,
        RefcountExact, Apart
  <2>2. ASSUME NEW b \in Actors PROVE Knows(b)' /\ Owns(b)'
    <3>1. /\ UNCHANGED <<pc[b], key[b], draft[b], made[b], row, file>>
          /\ durable' = durable \/ durable' = {file}
          /\ dir = "synced" => dir' = "synced"
          /\ pc[b] \in InTx => lock' = b
      BY <1>5, <2>2 DEF IInv, Knows, vars, actorVars, shard
    <3>2. Knows(b)'
      BY <2>2, <3>1, Still DEF IInv
    <3>3. Owns(b)'
      BY <1>5, <2>2 DEF IInv, Owns, vars, actorVars
    <3>4. QED  BY <3>2, <3>3
  <2>3. QED  BY <2>1, <2>2 DEF IInv
<1>6. QED
  BY <1>1, <1>2, <1>3, <1>4, <1>5, AbortKeeps, CrashKeeps, GcTempKeeps, PowerLossKeeps,
     WriteBackKeeps, OtherPutKeeps DEF Next

\* The empty store has the invariant.
LEMMA Initial == Init => IInv
<1> SUFFICES ASSUME Init PROVE IInv
  OBVIOUS
<1>1. TypeOK
  BY DEF Init, TypeOK, Pcs, NoBlob, Blob
<1>2. Kept /\ RecordedIsCounted /\ Apart
  BY DEF Init, Kept, RecordedIsCounted, Apart, NoBlob, Blob
<1>3. RefcountExact
  BY FS_EmptySet DEF Init, RefcountExact, NoBlob, Blob
<1>4. ASSUME NEW a \in Actors PROVE Knows(a) /\ Owns(a)
  BY <1>4 DEF Init, Knows, Owns, InTx, Putting, Releasing
<1>5. QED  BY <1>1, <1>2, <1>3, <1>4 DEF IInv

\* The inductive invariant holds in every state.
LEMMA Invariance == ASSUME ~TxLoss, ~LostReply PROVE Spec => []IInv
BY Initial, Inductive, PTL DEF Spec

\* The rows, files, locks and locals of put, release, reap and gc keep their
\* types, and release deletes a row that counts nothing.
THEOREM TypeCorrect == ASSUME ~TxLoss, ~LostReply PROVE Spec => []TypeOK
<1>1. IInv => TypeOK
  BY DEF IInv
<1>2. QED  BY <1>1, Invariance, PTL

\* A committed row has its file, readable under the row's key and safe from a
\* power loss: put's order of mkdir, rename, syncs and commit under the lock.  The
\* exception is a row whose put found the directory made by another and a power loss
\* that takes that directory (placeFile syncs the parents only where it made it).
THEOREM FileSafe == ASSUME ~TxLoss, ~LostReply PROVE Spec => []RowHasItsFile
<1>1. IInv => RowHasItsFile
  BY DEF IInv, Kept, RowHasItsFile
<1>2. QED  BY <1>1, Invariance, PTL

\* The refcount is the number of references: increments and decrements under
\* the lock lose nothing, whatever is rolled back, crashes or loses power.
THEOREM CountSafe == ASSUME ~TxLoss, ~LostReply PROVE Spec => []RefcountExact
<1>1. IInv => RefcountExact
  BY DEF IInv
<1>2. QED  BY <1>1, Invariance, PTL

\* A Message or spool row that names the blob is counted, so the blob is there.
THEOREM RecordedSafe == ASSUME ~TxLoss, ~LostReply PROVE Spec => []RecordedIsCounted
<1>1. IInv => RecordedIsCounted
  BY DEF IInv
<1>2. QED  BY <1>1, Invariance, PTL

-----------------------------------------------------------------------------
\* The refcount is never too high, also when transactions and replies are lost.
\* Then an actor in a transaction need not have the lock, and RefcountExact,
\* RowHasItsFile and RecordedIsCounted fail; but a commit still needs the lock,
\* and who has it at the commit has had it since it read the row.

\* The shape of the variables that the count depends on.
Counters ==
    /\ row.refcount \in Nat
    /\ refs \in SUBSET Refs
    /\ pc \in [Actors -> Pcs]
    /\ target \in [Actors -> Refs \cup {NoRef}]
    /\ draft \in [Actors -> [key : Keys \cup {NoKey}, refcount : Nat]]
    /\ key \in [Actors -> Keys \cup {NoKey}]
    /\ row.key \in Keys \cup {NoKey}

\* What a commit under the lock will do to the count.
Counting(a) ==
    /\ pc[a] \in Putting => target[a] \in Refs /\ target[a] \notin refs
    /\ pc[a] = "putCommit" /\ lock = a => draft[a].refcount <= row.refcount + 1
    /\ pc[a] = "releaseCommit" /\ lock = a =>
          row.refcount > 0 /\ draft[a].refcount <= row.refcount - 1

WInv ==
    /\ Counters
    /\ NeverOvercounted
    /\ Apart
    /\ \A a \in Actors : Counting(a)

\* A reference that is added is counted, one that is taken away was at most one.
LEMMA Counted ==
    ASSUME Counters, NEW t
    PROVE  /\ t \in Refs /\ t \notin refs =>
                 Cardinality(refs \cup {t}) = Cardinality(refs) + 1
           /\ Cardinality(refs) - 1 <= Cardinality(refs \ {t})
           /\ Cardinality(refs) \in Nat /\ Cardinality(refs \ {t}) \in Nat
<1>1. IsFiniteSet(refs)
  BY FS_Subset, BlobStoreAssumption DEF Counters
<1>2. t \notin refs => Cardinality(refs \cup {t}) = Cardinality(refs) + 1
  BY <1>1, FS_AddElement
<1>3. Cardinality(refs) \in Nat
  BY <1>1, FS_CardinalityType
<1>4. CASE t \in refs
  <2>1. Cardinality(refs \ {t}) = Cardinality(refs) - 1 /\ IsFiniteSet(refs \ {t})
    BY <1>1, <1>4, FS_RemoveElement
  <2>2. QED  BY <1>2, <1>3, <1>4, <2>1, FS_CardinalityType
<1>5. CASE t \notin refs
  <2>1. refs \ {t} = refs
    BY <1>5
  <2>2. QED  BY <1>2, <1>3, <2>1
<1>6. QED  BY <1>4, <1>5

\* A step that commits nothing, at which actor a moves to p and reads no row.
LEMMA NothingCounted ==
    ASSUME WInv, NEW a \in Actors, UNCHANGED <<row, refs>>,
           NEW p \in Pcs \ {"putCommit", "releaseCommit"}, pc' = [pc EXCEPT ![a] = p],
           lock' = lock \/ lock' = a \/ lock' = NoActor,
           key' \in [Actors -> Keys \cup {NoKey}],
           \/ target' = target /\ (p \in Putting => pc[a] \in Putting)
           \/ target' = [target EXCEPT ![a] = NoRef] /\ p \notin Putting
           \/ \E r \in Refs : /\ target' = [target EXCEPT ![a] = r]
                              /\ \A b \in Actors : target[b] # r
                              /\ p \in Putting => r \notin refs,
           draft' = draft \/ draft' = [draft EXCEPT ![a] = NoBlob]
    PROVE  WInv'
<1>1. Counters'
  BY NoBlobIsBlob DEF WInv, Counters
<1>2. NeverOvercounted'
  BY DEF WInv, NeverOvercounted
<1>3. Apart'
  BY BlobStoreAssumption DEF WInv, Counters, Apart
<1>4. ASSUME NEW b \in Actors PROVE Counting(b)'
  BY <1>4, BlobStoreAssumption DEF WInv, Counters, Counting
<1>5. QED  BY <1>1, <1>2, <1>3, <1>4 DEF WInv

\* The statements that write the count to the transaction.
LEMMA DraftCounted ==
    ASSUME WInv, NEW a \in Actors, PutCount(a) \/ PutCreate(a) \/ ReleaseDrop(a)
    PROVE  WInv'
<1> DEFINE n == draft'[a].refcount
<1>1. /\ UNCHANGED <<row, refs, target, lock, key>> /\ lock = a
      /\ pc' = [pc EXCEPT ![a] = pc'[a]]
      /\ draft' = [draft EXCEPT ![a] = draft'[a]]
  BY DEF WInv, Counters, PutCount, PutCreate, ReleaseDrop, Alive, Goto
<1>2. \/ pc[a] \in Putting /\ pc'[a] = "putCommit" /\ n <= row.refcount + 1
      \/ pc'[a] = "releaseCommit" /\ row.refcount > 0 /\ n <= row.refcount - 1
  <2>1. CASE PutCount(a)
    <3>1. draft'[a] = Blob(row.key, row.refcount + 1)
      BY <2>1 DEF WInv, Counters, PutCount
    <3>2. QED  BY <2>1, <3>1, BlobFields DEF WInv, Counters, PutCount, Goto, Putting
  <2>2. CASE PutCreate(a)
    <3>1. draft'[a] = Blob(key[a], 1)
      BY <2>2 DEF WInv, Counters, PutCreate
    <3>2. QED  BY <2>2, <3>1, BlobFields DEF WInv, Counters, PutCreate, Goto, Putting
  <2>3. CASE ReleaseDrop(a)
    <3>1. draft'[a] = IF row.refcount <= 1 THEN NoBlob ELSE Blob(row.key, row.refcount - 1)
      BY <2>3 DEF WInv, Counters, ReleaseDrop
    <3>2. n <= row.refcount - 1
      BY <2>3, <3>1, BlobFields, NoBlobIsBlob DEF WInv, Counters, ReleaseDrop
    <3>3. QED  BY <2>3, <3>2 DEF WInv, Counters, ReleaseDrop, Goto
  <2>4. QED  BY <2>1, <2>2, <2>3
<1>3. draft'[a] \in [key : Keys \cup {NoKey}, refcount : Nat]
  <2>1. Blob(row.key, row.refcount + 1) \in [key : Keys \cup {NoKey}, refcount : Nat]
    BY DEF WInv, Counters, Blob
  <2>2. Blob(key[a], 1) \in [key : Keys \cup {NoKey}, refcount : Nat]
    BY DEF WInv, Counters, Blob
  <2>3. row.refcount > 1 =>
            Blob(row.key, row.refcount - 1) \in [key : Keys \cup {NoKey}, refcount : Nat]
    BY DEF WInv, Counters, Blob
  <2>4. QED  BY <2>1, <2>2, <2>3, NoBlobIsBlob DEF WInv, Counters, PutCount, PutCreate,
     ReleaseDrop
<1>4. Counters'
  BY <1>1, <1>2, <1>3 DEF WInv, Counters, Pcs, InTx
<1>5. NeverOvercounted' /\ Apart'
  BY <1>1 DEF WInv, NeverOvercounted, Apart
<1>6. ASSUME NEW b \in Actors PROVE Counting(b)'
  <2>1. CASE b = a
    BY <1>1, <1>2, <2>1 DEF WInv, Counting, Putting
  <2>2. CASE b # a
    BY <1>1, <2>2 DEF WInv, Counters, Counting
  <2>3. QED  BY <2>1, <2>2
<1>7. QED  BY <1>4, <1>5, <1>6 DEF WInv

\* put's commit: the reference is new, so the count may be one more.
LEMMA PutCounted ==
    ASSUME WInv, NEW a \in Actors, CommitPut(a)
    PROVE  WInv'
<1> DEFINE t == target[a]
<1>1. /\ pc[a] = "putCommit" /\ lock = a /\ lock' = NoActor
      /\ row' = draft[a] /\ refs' = refs \cup {t}
      /\ \/ pc' = [pc EXCEPT ![a] = "idle"] /\ Forget(a)
         \/ pc' = [pc EXCEPT ![a] = "inHand"] /\ UNCHANGED <<key, target, draft>>
  BY DEF CommitPut, Alive, Goto
<1>2. t \in Refs /\ t \notin refs /\ draft[a].refcount <= row.refcount + 1
  BY <1>1 DEF WInv, Counting, Putting
<1>3. Counters'
  <2>1. row'.refcount \in Nat /\ row'.key \in Keys \cup {NoKey} /\ refs' \in SUBSET Refs
    BY <1>1, <1>2 DEF WInv, Counters
  <2>2. pc' \in [Actors -> Pcs]
    BY <1>1 DEF WInv, Counters, Pcs
  <2>3. CASE Forget(a)
    BY <2>1, <2>2, <2>3, NoBlobIsBlob DEF WInv, Counters, Forget
  <2>4. CASE UNCHANGED <<key, target, draft>>
    BY <2>1, <2>2, <2>4 DEF WInv, Counters
  <2>5. QED  BY <1>1, <2>3, <2>4
<1>4. NeverOvercounted'
  <2>1. Cardinality(refs') = Cardinality(refs) + 1 /\ Cardinality(refs) \in Nat
    BY <1>1, <1>2, Counted DEF WInv
  <2>2. row'.refcount \in Nat /\ row.refcount \in Nat
    BY <1>3 DEF WInv, Counters
  <2>3. row'.refcount <= row.refcount + 1 /\ row.refcount <= Cardinality(refs)
    BY <1>1, <1>2 DEF WInv, NeverOvercounted
  <2>4. QED  BY <2>1, <2>2, <2>3 DEF NeverOvercounted
<1>5. Apart'
  BY <1>1, BlobStoreAssumption DEF WInv, Counters, Apart, Forget
<1>6. ASSUME NEW b \in Actors PROVE Counting(b)'
  <2>1. CASE b = a
    BY <1>1, <2>1, BlobStoreAssumption DEF WInv, Counters, Counting, Putting
  <2>2. CASE b # a
    <3>1. target[b] # t \/ target[b] = NoRef
      BY <2>2 DEF WInv, Apart
    <3>2. pc'[b] = pc[b] /\ target'[b] = target[b]
      BY <1>1, <2>2 DEF WInv, Counters, Forget
    <3>3. QED  BY <1>1, <1>2, <3>1, <3>2, BlobStoreAssumption DEF WInv, Counting
  <2>3. QED  BY <2>1, <2>2
<1>7. QED  BY <1>3, <1>4, <1>5, <1>6 DEF WInv

\* release's commit: the count is one less, the references are at most one less.
LEMMA ReleaseCounted ==
    ASSUME WInv, NEW a \in Actors, CommitRelease(a)
    PROVE  WInv'
<1> DEFINE t == target[a]
<1>1. /\ pc[a] = "releaseCommit" /\ lock = a /\ lock' = NoActor
      /\ row' = draft[a] /\ refs' = refs \ {t} /\ Forget(a)
      /\ pc' = [pc EXCEPT ![a] = pc'[a]] /\ pc'[a] \in {"reap", "idle"}
  BY DEF WInv, Counters, CommitRelease, Alive, Goto
<1>2. row.refcount > 0 /\ draft[a].refcount <= row.refcount - 1
  BY <1>1 DEF WInv, Counting
<1>3. Counters'
  BY <1>1, NoBlobIsBlob DEF WInv, Counters, Forget, Pcs, InTx
<1>4. NeverOvercounted'
  <2>1. /\ Cardinality(refs) - 1 <= Cardinality(refs')
        /\ Cardinality(refs) \in Nat /\ Cardinality(refs') \in Nat
    BY <1>1, Counted DEF WInv
  <2>2. row'.refcount \in Nat /\ row.refcount \in Nat
    BY <1>3 DEF WInv, Counters
  <2>3. row'.refcount <= row.refcount - 1 /\ row.refcount <= Cardinality(refs)
    BY <1>1, <1>2 DEF WInv, NeverOvercounted
  <2>4. QED  BY <2>1, <2>2, <2>3 DEF NeverOvercounted
<1>5. Apart'
  BY <1>1, BlobStoreAssumption DEF WInv, Counters, Apart, Forget
<1>6. ASSUME NEW b \in Actors PROVE Counting(b)'
  BY <1>1, <1>6, BlobStoreAssumption DEF WInv, Counters, Counting, Forget, Putting
<1>7. QED  BY <1>3, <1>4, <1>5, <1>6 DEF WInv

\* Every step of an actor keeps the count down.
LEMMA ActorCounted ==
    ASSUME WInv, NEW a \in Actors, PutStep(a) \/ ReleaseStep(a) \/ RemoveStep(a)
    PROVE  WInv'
<1> USE DEF Pcs, InTx, Putting
<1>1. ASSUME NEW k \in Keys, NEW r \in Refs, NEW tx, Put(a, k, r, tx) PROVE WInv'
  BY <1>1, NothingCounted DEF Put, Goto, WInv, Counters
<1>2. CASE PutLock(a) \/ ReleaseLock(a) \/ ReapLock(a)
  BY <1>2, NothingCounted DEF PutLock, ReleaseLock, ReapLock, TakeLock, Goto, WInv, Counters
<1>3. CASE PutCheck(a)
  BY <1>3, NothingCounted DEF PutCheck, Goto, WInv, Counters
<1>4. CASE PutMkdir(a) \/ PutPlace(a) \/ PutSync(a) \/ PutParents(a)
  BY <1>4, NothingCounted DEF PutMkdir, PutPlace, PutSync, PutParents, Goto, WInv, Counters
<1>5. CASE Record(a)
  <2>1. UNCHANGED <<row, refs, lock>>
    BY <1>5 DEF Record
  <2>2. CASE Goto(a, "idle") /\ Forget(a)
    <3>1. key' \in [Actors -> Keys \cup {NoKey}]
      BY <2>2 DEF Forget, WInv, Counters
    <3>2. QED  BY <2>1, <2>2, <3>1, NothingCounted DEF Goto, Forget
  <2>3. CASE Goto(a, "release") /\ UNCHANGED <<key, target, draft, mode, made>>
    BY <2>1, <2>3, NothingCounted DEF Goto, WInv, Counters
  <2>4. QED  BY <1>5, <2>2, <2>3 DEF Record
<1>6. CASE GiveBack(a) \/ ReapSync(a) \/ GcSync(a)
  BY <1>6, NothingCounted DEF GiveBack, ReapSync, GcSync, Goto, WInv, Counters
<1>7. ASSUME NEW r \in Refs, Release(a, r) PROVE WInv'
  BY <1>7, NothingCounted DEF Release, Goto, WInv, Counters
<1>8. CASE GcLock(a)
  BY <1>8, NothingCounted DEF GcLock, TakeLock, Goto, WInv, Counters
<1>9. CASE Look(a)
  BY <1>9, NothingCounted DEF Look, Goto, WInv, Counters
<1>10. CASE Unlink(a)
  BY <1>10, NothingCounted DEF Unlink, Goto, WInv, Counters
<1>11. CASE End(a)
  BY <1>11, NothingCounted DEF End, Goto, Forget, WInv, Counters
<1>12. QED
  BY <1>1, <1>2, <1>3, <1>4, <1>5, <1>6, <1>7, <1>8, <1>9, <1>10, <1>11,
     DraftCounted, PutCounted, ReleaseCounted DEF PutStep, ReleaseStep, RemoveStep

\* So do the failures, a transaction that is lost under its actor included.
LEMMA FailureCounted ==
    ASSUME WInv, Next, ~ \E a \in Actors : PutStep(a) \/ ReleaseStep(a) \/ RemoveStep(a)
    PROVE  WInv'
<1>1. ASSUME NEW a \in Actors, Abort(a) \/ Crash(a) PROVE WInv'
  <2>1. /\ UNCHANGED <<row, refs>> /\ pc' = [pc EXCEPT ![a] = "idle"]
        /\ lock' = lock \/ lock' = NoActor
        /\ key' \in [Actors -> Keys \cup {NoKey}]
        /\ target' = [target EXCEPT ![a] = NoRef] /\ draft' = [draft EXCEPT ![a] = NoBlob]
    BY <1>1 DEF Abort, Crash, Goto, Forget, WInv, Counters
  <2>2. "idle" \in Pcs \ {"putCommit", "releaseCommit"} /\ "idle" \notin Putting
    BY DEF Pcs, Putting
  <2>3. QED  BY <2>1, <2>2, NothingCounted
<1>2. ASSUME NEW a \in Actors, LoseTx(a) PROVE WInv'
  BY <1>2, BlobStoreAssumption
  DEF LoseTx, actorVars, WInv, Counters, NeverOvercounted, Apart, Counting
<1>3. ASSUME NEW k \in Keys, GcTemp(k) PROVE WInv'
  BY <1>3 DEF GcTemp, actorVars, WInv, Counters, NeverOvercounted, Apart, Counting
<1>4. CASE PowerLoss
  BY <1>4, NoBlobIsBlob
  DEF PowerLoss, WInv, Counters, NeverOvercounted, Apart, Counting, Pcs, Putting
<1>5. CASE WriteBack
  BY <1>5 DEF WriteBack, actorVars, WInv, Counters, NeverOvercounted, Apart, Counting
<1>6. CASE OtherPut
  BY <1>6 DEF OtherPut, actorVars, WInv, Counters, NeverOvercounted, Apart, Counting
<1>7. QED  BY <1>1, <1>2, <1>3, <1>4, <1>5, <1>6 DEF Next

\* The refcount never exceeds the references that were put and not released,
\* whatever is rolled back, crashes, loses power, is lost under its actor, or was
\* committed and reported as failed: no release leaves a blob that is kept for ever.
THEOREM OvercountSafe == Spec => []NeverOvercounted
<1>1. Init => WInv
  <2> SUFFICES ASSUME Init PROVE WInv
    OBVIOUS
  <2>1. Counters
    BY NoBlobIsBlob DEF Init, Counters, Pcs
  <2>2. NeverOvercounted
    BY NoBlobIsBlob, FS_EmptySet DEF Init, NeverOvercounted
  <2>3. Apart /\ \A a \in Actors : Counting(a)
    BY DEF Init, Apart, Counting, Putting
  <2>4. QED  BY <2>1, <2>2, <2>3 DEF WInv
<1>2. WInv /\ [Next]_vars => WInv'
  <2>1. ASSUME WInv, UNCHANGED vars PROVE WInv'
    BY <2>1 DEF vars, actorVars, WInv, Counters, NeverOvercounted, Apart, Counting
  <2>2. QED  BY <2>1, ActorCounted, FailureCounted
<1>3. WInv => NeverOvercounted
  BY DEF WInv
<1>4. QED  BY <1>1, <1>2, <1>3, PTL DEF Spec

=============================================================================
