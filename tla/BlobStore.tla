------------------------------ MODULE BlobStore ------------------------------
(***************************************************************************)
(* The blob store (packages/blobstore/src/store.ts), one name of it: every *)
(* mutation of a blob holds an advisory lock on its name.  Actors of any   *)
(* process put, release, reap and collect; each statement and each file    *)
(* operation is a step.                                                    *)
(*                                                                         *)
(* Names share the directories that hold them (root/aa/bb): one that a put *)
(* of another name has made is there for this one, and its own entry is    *)
(* made durable only by the put whose mkdir made it.  The two levels are   *)
(* one directory here, since a put that makes either syncs both parents.   *)
(*                                                                         *)
(* A put encrypts under a key (DEK) of its own, so a file is readable      *)
(* under the row's key only if the put that inserted the row placed it: a  *)
(* file is represented by its key.  A transaction's write is kept in the   *)
(* actor's draft until the commit, which also ends the lock.  The caller   *)
(* of put and release is modelled by the references it keeps: in the same  *)
(* transaction (a Message or spool row), or in hand until it records or    *)
(* releases them (IMAP APPEND).                                            *)
(*                                                                         *)
(* Left out: the encryption, what guards the directories against symbolic  *)
(* links, reads (get, verify, stat).                                       *)
(***************************************************************************)
EXTENDS Naturals, FiniteSets

CONSTANTS
    Actors,
    Keys,           \* the DEKs puts draw from
    Refs,           \* identities of references
    MaxLosses,      \* bound on power losses
    TxLoss,         \* may the database end a transaction under a running actor?
    LostReply       \* may a commit's reply be lost, and its caller told it failed?

NoKey == "no key"
NoActor == "no actor"
NoRef == "no reference"

ASSUME BlobStoreAssumption ==
    /\ NoKey \notin Keys
    /\ NoActor \notin Actors
    /\ NoRef \notin Refs
    /\ IsFiniteSet(Refs)
    /\ MaxLosses \in Nat
    /\ TxLoss \in BOOLEAN
    /\ LostReply \in BOOLEAN

VARIABLES
    row,        \* the blob row: its key and refcount; no row has refcount 0
    file,       \* the file at the blob's name
    durable,    \* what a power loss may leave at that name, if it leaves the directory
    dir,        \* the directory: "absent", "made", or with a durable entry "synced"
    temps,      \* temporary files
    lock,       \* the holder of the advisory lock
    refs,       \* references that were counted and not released
    recorded,   \* those a Message or spool row stands for
    pc, key, target, draft,     \* of each actor
    mode,       \* in a transaction of its own, in its caller's, or gc
    made,       \* has its mkdir made the directory?
    \* not in the code
    found,      \* did the put that placed the row's file find the directory there?
    lost,       \* has a power loss taken the directory with the row's file?
    losses

actorVars == <<pc, key, target, draft, mode, made>>
shard == <<dir, found, lost>>
vars == <<row, file, durable, temps, lock, refs, recorded, actorVars, shard, losses>>

Blob(k, n) == [key |-> k, refcount |-> n]
NoBlob == Blob(NoKey, 0)

\* Where an actor is inside a transaction that holds the lock.
InTx == {"check", "mkdir", "place", "sync", "parents", "create", "count", "drop",
         "putCommit", "releaseCommit", "look", "unlink", "unlinked", "end"}
Pcs == InTx \cup {"idle", "lock", "release", "reap", "inHand", "gcSync"}

Init ==
    /\ row = NoBlob
    /\ file = NoKey
    /\ durable = {NoKey}
    /\ temps = {}
    /\ lock = NoActor
    /\ refs = {}
    /\ recorded = {}
    /\ pc = [a \in Actors |-> "idle"]
    /\ key = [a \in Actors |-> NoKey]
    /\ target = [a \in Actors |-> NoRef]
    /\ draft = [a \in Actors |-> NoBlob]
    /\ mode = [a \in Actors |-> "own"]
    /\ made = [a \in Actors |-> FALSE]
    /\ dir = "absent" /\ found = FALSE /\ lost = FALSE
    /\ losses = 0

\* The next thing an actor does.
Goto(a, next) == pc' = [pc EXCEPT ![a] = next]

\* The actor's locals go out of scope.
Forget(a) ==
    /\ key' = [key EXCEPT ![a] = NoKey]
    /\ target' = [target EXCEPT ![a] = NoRef]
    /\ draft' = [draft EXCEPT ![a] = NoBlob]
    /\ mode' = [mode EXCEPT ![a] = "own"]
    /\ made' = [made EXCEPT ![a] = FALSE]

\* What a statement of a transaction needs: the transaction is still there.
\* The lock lasts as long as it does.
Alive(a) == lock = a

\* lockBlob.
TakeLock(a) == lock = NoActor /\ lock' = a

-----------------------------------------------------------------------------
\* put.

\* The temporary file is written and synced, under a key and for a reference
\* nobody else uses, in the caller's transaction or in one of its own.
Put(a, k, r, tx) ==
    /\ pc[a] = "idle"
    /\ k \notin temps \cup {row.key, file} \cup durable
    /\ \A b \in Actors : key[b] # k /\ target[b] # r
    /\ r \notin refs \cup recorded
    /\ temps' = temps \cup {k}
    /\ key' = [key EXCEPT ![a] = k]
    /\ target' = [target EXCEPT ![a] = r]
    /\ mode' = [mode EXCEPT ![a] = tx]
    /\ Goto(a, "lock")
    /\ UNCHANGED <<row, file, durable, lock, refs, recorded, draft, made, shard, losses>>

PutLock(a) ==
    /\ pc[a] = "lock"
    /\ TakeLock(a)
    /\ Goto(a, "check")
    /\ UNCHANGED <<row, file, durable, temps, refs, recorded, key, target, draft, mode, made,
                   shard, losses>>

\* Is there a row?
PutCheck(a) ==
    /\ pc[a] = "check"
    /\ Alive(a)
    /\ Goto(a, IF row.refcount > 0 THEN "count" ELSE "mkdir")
    /\ UNCHANGED <<row, file, durable, temps, lock, refs, recorded, key, target, draft,
                   mode, made, shard, losses>>

\* The increment; finally removes the temporary file.
PutCount(a) ==
    /\ pc[a] = "count"
    /\ Alive(a)
    /\ draft' = [draft EXCEPT ![a] = Blob(row.key, row.refcount + 1)]
    /\ temps' = temps \ {key[a]}
    /\ Goto(a, "putCommit")
    /\ UNCHANGED <<row, file, durable, lock, refs, recorded, key, target, mode, made, shard, losses>>

\* placeFile: the directory, the rename, the sync of the directory and, in the put
\* whose mkdir made it, the sync of its parents.  Files do not ask whether the
\* transaction is still there.
PutMkdir(a) ==
    /\ pc[a] = "mkdir"
    /\ made' = [made EXCEPT ![a] = (dir = "absent")]
    /\ dir' = IF dir = "absent" THEN "made" ELSE dir
    /\ Goto(a, "place")
    /\ UNCHANGED <<row, file, durable, temps, lock, refs, recorded, key, target, draft, mode,
                   found, lost, losses>>

PutPlace(a) ==
    /\ pc[a] = "place"
    /\ file' = key[a]
    /\ durable' = durable \cup {key[a]}
    /\ temps' = temps \ {key[a]}
    /\ Goto(a, "sync")
    /\ UNCHANGED <<row, lock, refs, recorded, key, target, draft, mode, made, shard, losses>>

\* Seeded fault of PutSync: the parents are not synced.
PutSyncOnly(a) ==
    /\ pc[a] = "sync"
    /\ durable' = {file}
    /\ Goto(a, "create")
    /\ UNCHANGED <<row, file, temps, lock, refs, recorded, key, target, draft, mode, made,
                   shard, losses>>

PutSync(a) ==
    /\ pc[a] = "sync"
    /\ durable' = {file}
    /\ Goto(a, IF made[a] THEN "parents" ELSE "create")
    /\ UNCHANGED <<row, file, temps, lock, refs, recorded, key, target, draft, mode, made,
                   shard, losses>>

PutParents(a) ==
    /\ pc[a] = "parents"
    /\ dir' = "synced"
    /\ Goto(a, "create")
    /\ UNCHANGED <<row, file, durable, temps, lock, refs, recorded, key, target, draft, mode,
                   made, found, lost, losses>>

PutCreate(a) ==
    /\ pc[a] = "create"
    /\ Alive(a)
    /\ draft' = [draft EXCEPT ![a] = Blob(key[a], 1)]
    /\ Goto(a, "putCommit")
    /\ UNCHANGED <<row, file, durable, temps, lock, refs, recorded, key, target, mode, made,
                   shard, losses>>

-----------------------------------------------------------------------------
\* release: of a recorded reference, in the transaction that removes what
\* recorded it and has locked that row, or of one in hand, in its own.

Release(a, r) ==
    /\ pc[a] = "idle"
    /\ r \in recorded
    /\ \A b \in Actors : target[b] # r
    /\ target' = [target EXCEPT ![a] = r]
    /\ mode' = [mode EXCEPT ![a] = "caller"]
    /\ Goto(a, "release")
    /\ UNCHANGED <<row, file, durable, temps, lock, refs, recorded, key, draft, made, shard, losses>>

ReleaseLock(a) ==
    /\ pc[a] = "release"
    /\ TakeLock(a)
    /\ Goto(a, "drop")
    /\ UNCHANGED <<row, file, durable, temps, refs, recorded, key, target, draft, mode, made,
                   shard, losses>>

\* Seeded fault of ReleaseDrop: the row is deleted although it is referenced.
ReleaseDropRow(a) ==
    /\ pc[a] = "drop"
    /\ Alive(a)
    /\ row.refcount > 0
    /\ draft' = [draft EXCEPT ![a] = NoBlob]
    /\ Goto(a, "releaseCommit")
    /\ UNCHANGED <<row, file, durable, temps, lock, refs, recorded, key, target, mode, made,
                   shard, losses>>

\* Seeded fault of ReleaseDrop: the decrement is forgotten.
ReleaseDropForgets(a) ==
    /\ pc[a] = "drop"
    /\ Alive(a)
    /\ row.refcount > 0
    /\ draft' = [draft EXCEPT ![a] = row]
    /\ Goto(a, "releaseCommit")
    /\ UNCHANGED <<row, file, durable, temps, lock, refs, recorded, key, target, mode, made,
                   shard, losses>>

\* The decrement, or the deletion of the row; without a row it throws.
ReleaseDrop(a) ==
    /\ pc[a] = "drop"
    /\ Alive(a)
    /\ row.refcount > 0
    /\ draft' = [draft EXCEPT ![a] =
                    IF row.refcount <= 1 THEN NoBlob ELSE Blob(row.key, row.refcount - 1)]
    /\ Goto(a, "releaseCommit")
    /\ UNCHANGED <<row, file, durable, temps, lock, refs, recorded, key, target, mode, made,
                   shard, losses>>

-----------------------------------------------------------------------------
\* The commit of the transaction put or release worked in.

CommitPut(a) ==
    /\ pc[a] = "putCommit"
    /\ Alive(a)
    /\ row' = draft[a]
    /\ refs' = refs \cup {target[a]}
    /\ found' = IF row.refcount = 0 THEN ~made[a] ELSE found
    /\ lock' = NoActor
    /\ IF mode[a] = "caller"
       THEN recorded' = recorded \cup {target[a]} /\ Goto(a, "idle") /\ Forget(a)
       ELSE /\ Goto(a, "inHand")
            /\ UNCHANGED <<recorded, key, target, draft, mode, made>>
    /\ UNCHANGED <<file, durable, temps, dir, lost, losses>>

\* After the last release the file is reaped.
CommitRelease(a) ==
    /\ pc[a] = "releaseCommit"
    /\ Alive(a)
    /\ row' = draft[a]
    /\ refs' = refs \ {target[a]}
    /\ recorded' = IF mode[a] = "caller" THEN recorded \ {target[a]} ELSE recorded
    /\ found' = (found /\ draft[a].refcount > 0)
    /\ lost' = (lost /\ draft[a].refcount > 0)
    /\ lock' = NoActor
    /\ Goto(a, IF draft[a].refcount = 0 THEN "reap" ELSE "idle")
    /\ Forget(a)
    /\ UNCHANGED <<file, durable, temps, dir, losses>>

\* Seeded fault of Record: released on success too.
RecordAndRelease(a) ==
    /\ pc[a] = "inHand"
    /\ recorded' = recorded \cup {target[a]}
    /\ Goto(a, "release")
    /\ UNCHANGED <<row, file, durable, temps, lock, refs, key, target, draft, mode, made,
                   shard, losses>>

\* A caller that put in a transaction of the store's own records the reference
\* (store.append commits a Message) or releases it (a failed APPEND).
Record(a) ==
    /\ pc[a] = "inHand"
    /\ recorded' = recorded \cup {target[a]}
    /\ \/ Goto(a, "idle") /\ Forget(a)
       \/ LostReply /\ Goto(a, "release") /\ UNCHANGED <<key, target, draft, mode, made>>
    /\ UNCHANGED <<row, file, durable, temps, lock, refs, shard, losses>>

GiveBack(a) ==
    /\ pc[a] = "inHand"
    /\ Goto(a, "release")
    /\ UNCHANGED <<row, file, durable, temps, lock, refs, recorded, key, target, draft,
                   mode, made, shard, losses>>

-----------------------------------------------------------------------------
\* reap, and gc for a file of this name (its age only delays it).

ReapLock(a) ==
    /\ pc[a] = "reap"
    /\ TakeLock(a)
    /\ Goto(a, "look")
    /\ UNCHANGED <<row, file, durable, temps, refs, recorded, key, target, draft, mode, made,
                   shard, losses>>

\* tryLockBlob: gc passes over a name that is locked.
GcLock(a) ==
    /\ pc[a] = "idle"
    /\ file # NoKey
    /\ TakeLock(a)
    /\ Goto(a, "look")
    /\ mode' = [mode EXCEPT ![a] = "gc"]
    /\ UNCHANGED <<row, file, durable, temps, refs, recorded, key, target, draft, made, shard, losses>>

\* Seeded fault of Look: the row is not looked at.
LookAway(a) ==
    /\ pc[a] = "look"
    /\ Alive(a)
    /\ Goto(a, "unlink")
    /\ UNCHANGED <<row, file, durable, temps, lock, refs, recorded, key, target, draft,
                   mode, made, shard, losses>>

Look(a) ==
    /\ pc[a] = "look"
    /\ Alive(a)
    /\ Goto(a, IF row.refcount > 0 THEN "end" ELSE "unlink")
    /\ UNCHANGED <<row, file, durable, temps, lock, refs, recorded, key, target, draft,
                   mode, made, shard, losses>>

\* gc syncs the directory after its transaction.
Unlink(a) ==
    /\ pc[a] = "unlink"
    /\ file' = NoKey
    /\ durable' = durable \cup {NoKey}
    /\ Goto(a, IF mode[a] = "gc" THEN "end" ELSE "unlinked")
    /\ UNCHANGED <<row, temps, lock, refs, recorded, key, target, draft, mode, made, shard, losses>>

ReapSync(a) ==
    /\ pc[a] = "unlinked"
    /\ durable' = {file}
    /\ Goto(a, "end")
    /\ UNCHANGED <<row, file, temps, lock, refs, recorded, key, target, draft, mode, made,
                   shard, losses>>

End(a) ==
    /\ pc[a] = "end"
    /\ Alive(a)
    /\ lock' = NoActor
    /\ Goto(a, IF mode[a] = "gc" THEN "gcSync" ELSE "idle")
    /\ Forget(a)
    /\ UNCHANGED <<row, file, durable, temps, refs, recorded, shard, losses>>

GcSync(a) ==
    /\ pc[a] = "gcSync"
    /\ durable' = {file}
    /\ Goto(a, "idle")
    /\ UNCHANGED <<row, file, temps, lock, refs, recorded, key, target, draft, mode, made,
                   shard, losses>>

\* A temporary file nobody works on any more is old in the end.
GcTemp(k) ==
    /\ k \in temps
    /\ \A a \in Actors : key[a] # k
    /\ temps' = temps \ {k}
    /\ UNCHANGED <<row, file, durable, lock, refs, recorded, actorVars, shard, losses>>

-----------------------------------------------------------------------------
\* A statement or a file operation fails, the caller rolls back, or the actor is
\* told that its transaction is gone: nothing is committed, finally removes the
\* temporary file, and a reference in hand is forgotten.
Abort(a) ==
    /\ pc[a] # "idle"
    /\ lock' = IF lock = a THEN NoActor ELSE lock
    /\ temps' = temps \ {key[a]}
    /\ Goto(a, "idle")
    /\ Forget(a)
    /\ UNCHANGED <<row, file, durable, refs, recorded, shard, losses>>

\* The process dies: its temporary file stays.
Crash(a) ==
    /\ pc[a] # "idle"
    /\ lock' = IF lock = a THEN NoActor ELSE lock
    /\ Goto(a, "idle")
    /\ Forget(a)
    /\ UNCHANGED <<row, file, durable, temps, refs, recorded, shard, losses>>

\* The machine dies: of the changes to the directory that were not synced, some
\* are lost; so is a directory whose own entry was not, with what it holds.
PowerLoss ==
    /\ losses < MaxLosses
    /\ losses' = losses + 1
    /\ \/ /\ dir = "made"
          /\ dir' = "absent"
          /\ file' = NoKey
          /\ lost' = (lost \/ row.refcount > 0)
       \/ /\ dir' = IF dir = "made" THEN "synced" ELSE dir
          /\ file' \in durable
          /\ UNCHANGED lost
    /\ durable' = {file'}
    /\ lock' = NoActor
    /\ pc' = [a \in Actors |-> "idle"]
    /\ key' = [a \in Actors |-> NoKey]
    /\ target' = [a \in Actors |-> NoRef]
    /\ draft' = [a \in Actors |-> NoBlob]
    /\ mode' = [a \in Actors |-> "own"]
    /\ made' = [a \in Actors |-> FALSE]
    /\ UNCHANGED <<row, temps, refs, recorded, found>>

\* The kernel writes the directory back by itself, sooner or later.
WriteBack ==
    /\ durable # {file}
    /\ durable' = {file}
    /\ UNCHANGED <<row, file, temps, lock, refs, recorded, actorVars, shard, losses>>

\* A put of another name makes the directory, and goes on to sync its parents, or
\* fails before it does; or the kernel writes them back.
OtherPut ==
    /\ dir \in {"absent", "made"}
    /\ dir' = IF dir = "absent" THEN "made" ELSE "synced"
    /\ UNCHANGED <<row, file, durable, temps, lock, refs, recorded, actorVars, found, lost,
                   losses>>

\* The transaction is rolled back while the actor is in it (its timeout, or the
\* connection is lost), and the actor is not told before its next statement.
LoseTx(a) ==
    /\ TxLoss
    /\ lock = a
    /\ lock' = NoActor
    /\ UNCHANGED <<row, file, durable, temps, refs, recorded, actorVars, shard, losses>>

-----------------------------------------------------------------------------
PutStep(a) ==
    \/ \E k \in Keys, r \in Refs, tx \in {"own", "caller"} : Put(a, k, r, tx)
    \/ PutLock(a)
    \/ PutCheck(a)
    \/ PutCount(a)
    \/ PutMkdir(a)
    \/ PutPlace(a)
    \/ PutSync(a)
    \/ PutParents(a)
    \/ PutCreate(a)
    \/ CommitPut(a)
    \/ Record(a)
    \/ GiveBack(a)

ReleaseStep(a) ==
    \/ \E r \in Refs : Release(a, r)
    \/ ReleaseLock(a)
    \/ ReleaseDrop(a)
    \/ CommitRelease(a)

RemoveStep(a) ==
    \/ ReapLock(a)
    \/ GcLock(a)
    \/ Look(a)
    \/ Unlink(a)
    \/ ReapSync(a)
    \/ End(a)
    \/ GcSync(a)

Next ==
    \/ \E a \in Actors : PutStep(a) \/ ReleaseStep(a) \/ RemoveStep(a)
    \/ \E a \in Actors : Abort(a) \/ Crash(a) \/ LoseTx(a)
    \/ \E k \in Keys : GcTemp(k)
    \/ PowerLoss
    \/ WriteBack
    \/ OtherPut

Spec == Init /\ [][Next]_vars

-----------------------------------------------------------------------------
\* The variables have their types, and a row that counts nothing is no row.
TypeOK ==
    /\ row \in [key : Keys \cup {NoKey}, refcount : Nat]
    /\ row.refcount = 0 <=> row.key = NoKey
    /\ file \in Keys \cup {NoKey}
    /\ durable \in SUBSET (Keys \cup {NoKey})
    /\ temps \in SUBSET Keys
    /\ lock \in Actors \cup {NoActor}
    /\ refs \in SUBSET Refs
    /\ recorded \in SUBSET Refs
    /\ pc \in [Actors -> Pcs]
    /\ key \in [Actors -> Keys \cup {NoKey}]
    /\ target \in [Actors -> Refs \cup {NoRef}]
    /\ draft \in [Actors -> [key : Keys \cup {NoKey}, refcount : Nat]]
    /\ mode \in [Actors -> {"own", "caller", "gc"}]
    /\ made \in [Actors -> BOOLEAN]
    /\ dir \in {"absent", "made", "synced"}
    /\ found \in BOOLEAN /\ lost \in BOOLEAN
    /\ losses \in Nat

\* A committed row has its file: the one written under the row's key, and in place
\* whatever a power loss leaves of the directory (PST-REQ-060; "nobody ever renames
\* over a file that a committed row points at").  One row may lose it: that of a put
\* which found the directory made by another, whose own entry was not durable yet, or
\* never was because that put failed, when a power loss takes the directory.
RowHasItsFile ==
    row.refcount > 0 => \/ file = row.key /\ durable = {row.key}
                        \/ lost /\ found

\* The refcount is the number of references put and not released, so a blob is
\* shredded with its last reference and never before (PST-REQ-130).
RefcountExact == row.refcount = Cardinality(refs)

\* The refcount is never too high, whatever transactions and replies are lost: a
\* blob is shredded at the latest with its last reference (PST-REQ-130).
NeverOvercounted == row.refcount <= Cardinality(refs)

\* Every Message or spool row that names the blob is counted.
RecordedIsCounted == recorded \subseteq refs

=============================================================================
