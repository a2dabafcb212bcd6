-------------------------- MODULE MailStoreProofs --------------------------
(***************************************************************************)
(* Proofs about MailStore.  The inductive invariant IInv has two parts.    *)
(*   SInv is about the tables alone: what the rows are (Tables), that only *)
(* the ordinary folder comes and goes (Standing), that UIDs and modseqs    *)
(* are below the counters of their mailbox and UIDs are not used twice     *)
(* (Numbered), and what a compose route has read (Drafted).                *)
(*   Session is about one session and its client: the shape of both        *)
(* (Shaped), what the client may have missed since the modseq it keeps     *)
(* (Memory), and what the view may have missed since the modseq it synced  *)
(* to, at each stage of a SELECT or a sync (Watching).                     *)
(* Between the two stands Contract, what a transaction owes to everybody   *)
(* who watches a mailbox.  Every writer is shown to keep SInv and the      *)
(* contract; whatever keeps the contract keeps the part of every session;  *)
(* and a session's own step, against the tables it reads, keeps its part.  *)
(***************************************************************************)
EXTENDS MailStore, FiniteSetTheorems, WellFoundedInduction, TLAPS
-----------------------------------------------------------------------------
(* The tables.                                                             *)

BoxRow == [live : BOOLEAN, val : Nat, next : Nat \ {0}, hm : Nat]
MsgRow == [box : Boxes \union {NoBox}, uid : Nat, modseq : Nat, flag : Flag]

(* A mailbox whose counters the code keeps: only the new mailbox of RENAME *)
(* INBOX may be given counters that are out of date.                       *)
Counted(b) == b # Folder \/ Sound(b)

Tables ==
    /\ box \in [Boxes -> BoxRow]
    /\ msg \in [Messages -> MsgRow]
    /\ expunged \in SUBSET (Boxes \X Nat \X Nat)
    /\ astray \in SUBSET ((Boxes \union {NoBox}) \X Nat)
    /\ source \in BoxRow

(* Only Folder comes and goes, and it leaves nothing behind.               *)
Standing ==
    /\ \A b \in Boxes : b # Folder => box[b].live
    /\ ~ box[Folder].live =>
          /\ In(Folder) = {}
          /\ \A r \in expunged : r[1] # Folder
          /\ \A a \in astray : a[1] # Folder
    /\ \A m \in Messages : msg[m].box = NoBox => msg[m] = Nowhere

(* A UID names one message of its mailbox, is below uidnext, and is not    *)
(* among the expunged; no modseq is above the mailbox's.                   *)
Numbered ==
    /\ \A b \in Boxes : \A m, k \in In(b) : msg[m].uid = msg[k].uid => m = k
    /\ \A b \in Boxes : Counted(b) => \A m \in In(b) :
          msg[m].uid > 0 /\ msg[m].uid < box[b].next /\ msg[m].modseq <= box[b].hm
    /\ \A b \in Boxes : Counted(b) => \A u, n \in Nat : <<b, u, n>> \in expunged =>
          u < box[b].next /\ \A m \in In(b) : msg[m].uid # u

(* What a compose route has read: its draft, wherever that is by now, and  *)
(* no other message of Drafts, has had the UID that it read.               *)
Drafted ==
    \/ draft = NoDraft
    \/ /\ draft.box = Drafts
       /\ draft = [of |-> draft.of, box |-> draft.box, uid |-> draft.uid]
       /\ draft.uid \in Nat /\ draft.uid < box[Drafts].next
       /\ draft.of # NoBox =>
             /\ draft.of \in Messages
             /\ msg[draft.of].box # NoBox
             /\ \A m \in In(Drafts) : msg[m].uid = draft.uid => m = draft.of

SInv == Tables /\ Standing /\ Numbered /\ Drafted

-----------------------------------------------------------------------------
(* What a session and its client hold, against the tables bx, ms, ex and   *)
(* as: those of the state before or of the state after a transaction.      *)

RowsOf(ms, b) == {m \in Messages : ms[m].box = b}
UidsOf(ms, b) == {ms[m].uid : m \in RowsOf(ms, b)}

(* The mailbox is still the one that had this UIDVALIDITY, and sound.      *)
Same(bx, as, b, val) == bx[b].live /\ bx[b].val = val /\ <<b, 0>> \notin as

(* A removal after modseq n that a client can still hear of, or that the   *)
(* code has lost.                                                          *)
Missed(ex, as, b, u, n) ==
    <<b, u>> \in as \/ \E k \in Nat : k > n /\ <<b, u, k>> \in ex

(* What the client keeps: of a message that is there, it knows which it is *)
(* and, up to the modseq it remembers, its flags; of one that has gone, the*)
(* removal is later than that modseq.                                      *)
Remembers(bx, ms, ex, as, c) ==
    /\ c.hm <= bx[c.box].hm
    /\ \A u \in DOMAIN c.told : u \in Nat /\ u < bx[c.box].next
    /\ \A m \in RowsOf(ms, c.box) : ms[m].uid \in DOMAIN c.told =>
          /\ c.told[ms[m].uid].m = m
          /\ ms[m].modseq <= c.hm => c.told[ms[m].uid].flag \in {"unknown", ms[m].flag}
    /\ \A u \in DOMAIN c.told : u \notin UidsOf(ms, c.box) =>
          Missed(ex, as, c.box, u, c.hm)

Memory(bx, ms, ex, as, c) ==
    c.box # NoBox /\ Same(bx, as, c.box, c.val) => Remembers(bx, ms, ex, as, c)

Phases == {"off", "opening", "vanishing", "changing", "idle", "sync", "probed", "changed"}
Opened == Phases \ {"off", "opening"}
Resynced == Opened \ {"vanishing"}
Settled == Resynced \ {"changing"}

(* Before the snapshot there is nothing in the view, and the client comes  *)
(* with what it remembers or with nothing.                                 *)
Opening(v, c) ==
    /\ v.phase = "opening" => v.uids = {} /\ (v.since = 0 => DOMAIN c.told = {})
    /\ v.phase \in {"opening", "vanishing", "changing"} => v.pending = {}
    /\ v.phase = "opening" /\ v.since # 0 => v.since = c.hm
    /\ v.phase \in {"vanishing", "changing"} => v.since = c.hm

(* The view: up to its modseq it has every message, and what it has that   *)
(* is gone went after that modseq; UIDs up to its largest only ever go.    *)
Seen(bx, ms, ex, as, v) ==
    v.phase \in Opened =>
        /\ DOMAIN v.known = v.uids
        /\ \A u \in v.uids : u \in Nat /\ u < bx[v.box].next
                             /\ v.known[u] \in Nat /\ v.known[u] <= bx[v.box].hm
        /\ v.pending \subseteq v.uids
        /\ \A m \in RowsOf(ms, v.box) :
              /\ ms[m].uid \notin v.pending
              /\ ms[m].modseq <= v.hm =>
                    ms[m].uid \in v.uids /\ v.known[ms[m].uid] >= ms[m].modseq
              /\ \A u \in v.uids : ms[m].uid <= u => ms[m].uid \in v.uids
        /\ \A u \in v.uids \ v.pending : u \notin UidsOf(ms, v.box) =>
              /\ bx[v.box].hm > v.hm
              /\ v.phase \in {"vanishing", "changing"} => Missed(ex, as, v.box, u, v.hm)

(* The client against the view: a message it was told of and that is there *)
(* is in the view, with the flags that it was told, up to the modseq the   *)
(* view has noted; and it was told of nothing else.                        *)
Told(ms, as, v, c) ==
    /\ v.phase \in Opened => \A m \in RowsOf(ms, v.box) :
          ms[m].uid \in DOMAIN c.told => ms[m].uid \in v.uids
    /\ v.phase \in Resynced => \A u \in DOMAIN c.told :
          u \in v.uids \/ <<v.box, u>> \in as
    /\ v.phase \in Settled => \A m \in RowsOf(ms, v.box) :
          ms[m].uid \in DOMAIN c.told /\ ms[m].modseq <= v.known[ms[m].uid] =>
              c.told[ms[m].uid].flag \in {"unknown", ms[m].flag}

(* The rows sync has read: all that changed up to the modseq it probed, as *)
(* they are still or as they were before a later change.                   *)
Read(bx, ms, v) ==
    /\ v.phase \in {"probed", "changed"} => v.hm <= v.probe /\ v.probe <= bx[v.box].hm
    /\ v.phase = "changed" =>
          /\ \A r \in v.changed : r.uid > 0 /\ r.uid < bx[v.box].next
                /\ r.modseq > v.hm /\ r.modseq <= bx[v.box].hm
          /\ \A r, q \in v.changed : r.uid = q.uid => r = q
          /\ \A r \in v.changed : r.uid \in v.uids \/ \A u \in v.uids : u < r.uid
          /\ \A r \in v.changed : r.uid \notin UidsOf(ms, v.box) => bx[v.box].hm > v.probe
          /\ \A r \in v.changed : \A m \in RowsOf(ms, v.box) :
                /\ ms[m].uid = r.uid =>
                      /\ r.m = m
                      /\ ms[m].modseq >= r.modseq
                      /\ ms[m].modseq = r.modseq => ms[m].flag = r.flag
                /\ ms[m].uid <= r.uid =>
                      ms[m].uid \in v.uids \/ \E q \in v.changed : q.uid = ms[m].uid
          /\ \A m \in RowsOf(ms, v.box) : v.hm < ms[m].modseq /\ ms[m].modseq <= v.probe =>
                \E r \in v.changed : r.uid = ms[m].uid /\ r.modseq = ms[m].modseq

Follows(bx, ms, ex, as, v, c) ==
    /\ c.hm <= v.hm /\ v.hm <= bx[v.box].hm
    /\ Opening(v, c)
    /\ Seen(bx, ms, ex, as, v)
    /\ Told(ms, as, v, c)
    /\ Read(bx, ms, v)

Watching(bx, ms, ex, as, v, c) ==
    v.phase # "off" /\ Same(bx, as, v.box, v.val) => Follows(bx, ms, ex, as, v, c)

RowRead == [m : Messages, uid : Nat, modseq : Nat, flag : Flag]

IsView(v) ==
    v = [phase |-> v.phase, box |-> v.box, val |-> v.val, uids |-> v.uids,
         known |-> v.known, pending |-> v.pending, hm |-> v.hm, since |-> v.since,
         allow |-> v.allow, probe |-> v.probe, changed |-> v.changed]
IsMemory(c) == c = [box |-> c.box, val |-> c.val, hm |-> c.hm, told |-> c.told]

(* The shape of views and memories, and that both are of one mailbox.      *)
Shaped(bx, v, c) ==
    /\ IsView(v) /\ IsMemory(c)
    /\ v.phase \in Phases /\ v.hm \in Nat /\ v.probe \in Nat /\ v.since \in Nat
    /\ c.hm \in Nat
    /\ v.changed \subseteq RowRead
    /\ v.phase # "off" => /\ v.box \in Boxes /\ v.val <= bx[v.box].val /\ v.val \in Nat
                          /\ c.box = v.box /\ c.val = v.val
    /\ c.box # NoBox => c.box \in Boxes /\ c.val <= bx[c.box].val /\ c.val \in Nat

Session(bx, ms, ex, as, v, c) ==
    /\ Shaped(bx, v, c)
    /\ Memory(bx, ms, ex, as, c)
    /\ Watching(bx, ms, ex, as, v, c)

IInv ==
    /\ SInv
    /\ view = [s \in Sessions |-> view[s]]
    /\ client = [s \in Sessions |-> client[s]]
    /\ \A s \in Sessions : Session(box, msg, expunged, astray, view[s], client[s])
-----------------------------------------------------------------------------
(* What every transaction owes to the sessions, of a mailbox that is there *)
(* before and after it: counters do not fall; a row that is new or changed *)
(* has a modseq the mailbox had not reached before, and keeps its UID or   *)
(* has one not yet used;                                                   *)
(* a row that has gone is recorded under a new modseq, or is lost track of.*)
Contract(b) ==
    /\ box'[b].val >= box[b].val
    /\ box[b].live /\ box'[b].live => box'[b].val = box[b].val
    /\ ~ box[b].live /\ box'[b].live => box'[b].val > box[b].val
    /\ box[b].live /\ box'[b].live /\ <<b, 0>> \notin astray' =>
        /\ <<b, 0>> \notin astray
        /\ box'[b].hm >= box[b].hm /\ box'[b].next >= box[b].next
        /\ \A u : <<b, u>> \in astray => <<b, u>> \in astray'
        /\ \A u, n : <<b, u, n>> \in expunged => <<b, u, n>> \in expunged'
        /\ \A m \in RowsOf(msg', b) :
              \/ msg'[m] = msg[m]
              \/ /\ box'[b].hm > box[b].hm
                 /\ msg'[m].modseq > box[b].hm /\ msg'[m].modseq <= box'[b].hm
                 /\ \/ msg[m].box = b /\ msg'[m].uid = msg[m].uid
                    \/ msg'[m].uid >= box[b].next
        /\ \A m \in RowsOf(msg, b) :
              \/ msg'[m].box = b /\ msg'[m].uid = msg[m].uid
              \/ /\ box'[b].hm > box[b].hm
                 /\ Missed(expunged', astray', b, msg[m].uid, box[b].hm)

Kept == SInv' /\ \A b \in Boxes : Contract(b)

(* The contract of a transaction that neither creates nor deletes mailboxes*)
(* and forgets nothing.                                                    *)
LEMMA ContractKept ==
    ASSUME NEW b \in Boxes, box'[b].live = box[b].live, box'[b].val = box[b].val,
           box[b].val \in Nat, box'[b].hm >= box[b].hm, box'[b].next >= box[b].next,
           astray \subseteq astray', expunged \subseteq expunged',
           <<b, 0>> \notin astray' => \A m \in RowsOf(msg', b) : msg'[m] # msg[m] =>
               /\ box'[b].hm > box[b].hm
               /\ msg'[m].modseq > box[b].hm /\ msg'[m].modseq <= box'[b].hm
               /\ \/ msg[m].box = b /\ msg'[m].uid = msg[m].uid
                  \/ msg'[m].uid >= box[b].next,
           <<b, 0>> \notin astray' => \A m \in RowsOf(msg, b) :
               \/ msg'[m].box = b /\ msg'[m].uid = msg[m].uid
               \/ /\ box'[b].hm > box[b].hm
                  /\ Missed(expunged', astray', b, msg[m].uid, box[b].hm)
    PROVE  Contract(b)
<1>1. ~ (~ box[b].live /\ box'[b].live)
  OBVIOUS
<1>2. box'[b].val >= box[b].val
  OBVIOUS
<1>3. QED  BY <1>1, <1>2 DEF Contract

(* A transaction that neither creates nor deletes a mailbox leaves nothing *)
(* under the name of one that is not there.                                *)
LEMMA StandingKept ==
    ASSUME SInv,
           \A b \in Boxes : box'[b].live = box[b].live,
           \A m \in Messages : \/ msg'[m].box = msg[m].box /\ msg'[m].box # NoBox
                               \/ msg'[m] = msg[m] \/ msg'[m] = Nowhere
                               \/ msg'[m].box \in Boxes /\ box[msg'[m].box].live,
           \A r \in expunged' : r \in expunged \/ box[r[1]].live,
           \A a \in astray' : a \in astray \/ box[a[1]].live
    PROVE  Standing'
<1>1. \A b \in Boxes : b # Folder => box'[b].live
  BY DEF SInv, Standing
<1>2. \A m \in Messages : msg'[m].box = NoBox => msg'[m] = Nowhere
  BY MailStoreAssumption DEF SInv, Standing
<1>3. ASSUME ~ box'[Folder].live
      PROVE  In(Folder)' = {} /\ (\A r \in expunged' : r[1] # Folder)
             /\ \A a \in astray' : a[1] # Folder
  <2>1. Nowhere.box = NoBox /\ Folder # NoBox
    BY MailStoreAssumption DEF Nowhere, Boxes
  <2>2. ~ box[Folder].live
    BY <1>3 DEF Boxes
  <2>3. QED  BY <2>1, <2>2 DEF SInv, Standing, In
<1>4. QED  BY <1>1, <1>2, <1>3 DEF Standing

(* A row of Drafts that a transaction adds has a UID that no compose route *)
(* can have read.                                                          *)
LEMMA DraftedKept ==
    ASSUME SInv,
           \A m \in Messages : msg'[m].box = Drafts =>
               \/ msg[m].box = Drafts /\ msg'[m].uid = msg[m].uid
               \/ msg'[m].uid >= box[Drafts].next,
           box'[Drafts].next \in Nat, box'[Drafts].next >= box[Drafts].next,
           draft' = draft \/ draft' = [draft EXCEPT !.of = NoBox],
           draft' = draft /\ draft.of \in Messages /\ msg[draft.of].box # NoBox =>
               msg'[draft.of].box # NoBox
    PROVE  Drafted'
<1>1. CASE draft = NoDraft
  <2>1. draft' = NoDraft
    BY <1>1 DEF NoDraft
  <2>2. QED  BY <2>1 DEF Drafted
<1>2. CASE draft # NoDraft
  <2>1. /\ draft.box = Drafts
        /\ draft = [of |-> draft.of, box |-> draft.box, uid |-> draft.uid]
        /\ draft.uid \in Nat /\ draft.uid < box[Drafts].next /\ box[Drafts].next \in Nat
    BY <1>2 DEF SInv, Drafted, Tables, BoxRow, Boxes
  <2>2. /\ draft'.box = Drafts /\ draft'.uid = draft.uid
        /\ draft' = [of |-> draft'.of, box |-> draft'.box, uid |-> draft'.uid]
        /\ draft' # draft => draft'.of = NoBox
    BY <2>1
  <2>3. CASE draft'.of = NoBox
    BY <2>1, <2>2, <2>3 DEF Drafted
  <2>4. CASE draft'.of # NoBox
    <3>1. draft' = draft /\ draft.of # NoBox
      BY <2>2, <2>4
    <3>2. /\ draft.of \in Messages /\ msg[draft.of].box # NoBox
          /\ \A m \in In(Drafts) : msg[m].uid = draft.uid => m = draft.of
      BY <1>2, <3>1 DEF SInv, Drafted
    <3>3. msg'[draft.of].box # NoBox
      BY <3>1, <3>2
    <3>4. \A m \in Messages : msg'[m].box = Drafts /\ msg'[m].uid = draft.uid => m = draft.of
      BY <2>1, <3>2 DEF In
    <3>5. QED  BY <2>1, <2>2, <3>1, <3>2, <3>3, <3>4 DEF Drafted, In
  <2>5. QED  BY <2>3, <2>4
<1>3. QED  BY <1>1, <1>2

-----------------------------------------------------------------------------
(* Filing a message of new mail.                                           *)
LEMMA FileKeeps ==
    ASSUME SInv, NEW b \in Boxes, NEW m \in Messages, NEW flag \in Flag, File(b, m, flag),
           UNCHANGED <<draft, source, astray>>
    PROVE  Kept
<1>1. /\ box[b].live /\ msg[m] = Nowhere
      /\ \A k \in In(b) : msg[k].uid # box[b].next
      /\ \A d \in Boxes : box'[d] =
            IF d = b THEN [live |-> box[b].live, val |-> box[b].val,
                           next |-> box[b].next + 1, hm |-> box[b].hm + 1] ELSE box[d]
      /\ \A k \in Messages : msg'[k] =
            IF k = m THEN [box |-> b, uid |-> box[b].next, modseq |-> box[b].hm + 1,
                           flag |-> flag] ELSE msg[k]
      /\ expunged' = expunged
  BY DEF SInv, Tables, BoxRow, MsgRow, File, MayFile, Filed, Exists, NextUid, Uids, In
<1>2. Tables'
  BY <1>1 DEF SInv, Tables, BoxRow, MsgRow, File, Filed, NextUid
<1>3. /\ \A d \in Boxes : box[d].val \in Nat /\ box[d].next \in Nat \ {0} /\ box[d].hm \in Nat
      /\ \A k \in Messages : msg[k].uid \in Nat /\ msg[k].modseq \in Nat
  BY DEF SInv, Tables, BoxRow, MsgRow
<1>4. \A d \in Boxes : /\ box'[d].live = box[d].live /\ box'[d].val = box[d].val
                        /\ box'[d].hm >= box[d].hm /\ box'[d].next >= box[d].next
  <2>1. \A d \in Boxes : box'[d] =
            IF d = b THEN [live |-> box[b].live, val |-> box[b].val,
                           next |-> box[b].next + 1, hm |-> box[b].hm + 1] ELSE box[d]
    BY <1>1
  <2>2. \A d \in Boxes : box'[d].live = box[d].live
    BY <2>1
  <2>3. \A d \in Boxes : box'[d].val = box[d].val
    BY <1>1
  <2>4. \A d \in Boxes : box'[d].hm >= box[d].hm /\ box'[d].next >= box[d].next
    BY <1>1, <1>3
  <2>5. QED  BY <2>2, <2>3, <2>4
<1>5. Standing'
  <2>1. \A k \in Messages : msg'[k] = msg[k] \/ (msg'[k].box \in Boxes /\ box[msg'[k].box].live)
    BY <1>1
  <2>2. QED
    BY <1>1, <1>4, <2>1, StandingKept
<1>6. Numbered'
  <2>1. ASSUME NEW d \in Boxes, NEW k \in In(d)', NEW j \in In(d)', msg'[k].uid = msg'[j].uid
        PROVE  k = j
    BY <1>1, <2>1 DEF SInv, Numbered, In
  <2>2. ASSUME NEW d \in Boxes, Counted(d)', NEW k \in In(d)'
        PROVE  msg'[k].uid > 0 /\ msg'[k].uid < box'[d].next /\ msg'[k].modseq <= box'[d].hm
    BY <1>1, <1>3, <2>2 DEF SInv, Numbered, Counted, Sound, In
  <2>3. ASSUME NEW d \in Boxes, Counted(d)', NEW u \in Nat, NEW n \in Nat,
               <<d, u, n>> \in expunged'
        PROVE  u < box'[d].next /\ \A k \in In(d)' : msg'[k].uid # u
    BY <1>1, <1>3, <2>3 DEF SInv, Numbered, Counted, Sound, In
  <2>4. QED  BY <2>1, <2>2, <2>3 DEF Numbered
<1>7. Drafted'
  <2>1. \A k \in Messages : msg'[k].box = Drafts =>
            (msg[k].box = Drafts /\ msg'[k].uid = msg[k].uid) \/ msg'[k].uid >= box[Drafts].next
    BY <1>1, <1>3 DEF Boxes
  <2>2. \A k \in Messages : msg[k].box # NoBox => msg'[k].box # NoBox
    BY <1>1, MailStoreAssumption
  <2>3. box'[Drafts].next >= box[Drafts].next /\ box'[Drafts].next \in Nat
    BY <1>1, <1>3 DEF Boxes
  <2>4. QED  BY <2>1, <2>2, <2>3, DraftedKept
<1>8. ASSUME NEW d \in Boxes PROVE Contract(d)
  <2>1. ASSUME NEW k \in RowsOf(msg', d), msg'[k] # msg[k]
        PROVE  /\ box'[d].hm > box[d].hm
               /\ msg'[k].modseq > box[d].hm /\ msg'[k].modseq <= box'[d].hm
               /\ msg'[k].uid >= box[d].next
    BY <1>1, <1>3, <2>1 DEF RowsOf
  <2>2. ASSUME NEW k \in RowsOf(msg, d) PROVE msg'[k] = msg[k] /\ msg'[k].box = d
    BY <1>1, <2>2, MailStoreAssumption DEF RowsOf, Nowhere
  <2>3. QED  BY <1>1, <1>3, <1>4, <2>1, <2>2, ContractKept
<1>9. QED  BY <1>2, <1>5, <1>6, <1>7, <1>8 DEF SInv, Kept

(* The highest_modseq of a mailbox advanced.                               *)
LEMMA Bumped ==
    ASSUME NEW bx \in [Boxes -> BoxRow], NEW b \in Boxes, NEW n \in Nat, NEW by,
           by = [bx EXCEPT ![b].hm = n]
    PROVE  /\ by \in [Boxes -> BoxRow]
           /\ \A d \in Boxes : by[d].val = bx[d].val /\ by[d].next = bx[d].next
                                /\ by[d].hm = IF d = b THEN n ELSE bx[d].hm
           /\ \A d \in Boxes : by[d].live = bx[d].live
<1>1. by \in [Boxes -> BoxRow]
  BY DEF BoxRow
<1>2. \A d \in Boxes : by[d] = IF d = b THEN [bx[b] EXCEPT !.hm = n] ELSE bx[d]
  OBVIOUS
<1>3. \A d \in Boxes : by[d].val = bx[d].val /\ by[d].next = bx[d].next
                        /\ by[d].hm = IF d = b THEN n ELSE bx[d].hm
  BY <1>2 DEF BoxRow
<1>4. \A d \in Boxes : by[d].live = bx[d].live
  BY <1>2 DEF BoxRow
<1>5. QED  BY <1>1, <1>3, <1>4

(* A change of flags: STORE and the webmail's.                             *)
LEMMA SetFlagKeeps ==
    ASSUME SInv, NEW b \in Boxes, NEW S \in SUBSET In(b), NEW flag \in Flag,
           SetFlag(b, S, flag), UNCHANGED <<draft, source, astray>>
    PROVE  Kept
<1> DEFINE ch == {m \in S : msg[m].flag # flag}
<1>1. box' = IF ch = {} THEN box ELSE [box EXCEPT ![b].hm = box[b].hm + 1]
  BY Zenon DEF SetFlag
<1>2. msg' = [k \in Messages |-> IF k \in ch
                THEN [msg[k] EXCEPT !.flag = flag, !.modseq = box[b].hm + 1] ELSE msg[k]]
  BY DEF SetFlag
<1>3. expunged' = expunged /\ (\A k \in ch : k \in Messages /\ msg[k].box = b) /\ b # NoBox
  BY MailStoreAssumption DEF SetFlag, In
<1> HIDE DEF ch
<1>4. /\ box \in [Boxes -> BoxRow] /\ box[b].hm + 1 \in Nat /\ msg \in [Messages -> MsgRow]
      /\ \A d \in Boxes : box[d].val \in Nat /\ box[d].next \in Nat \ {0} /\ box[d].hm \in Nat
      /\ \A k \in Messages : msg[k].uid \in Nat /\ msg[k].modseq \in Nat
  BY DEF SInv, Tables, BoxRow, MsgRow
<1>5. /\ box' \in [Boxes -> BoxRow]
      /\ \A d \in Boxes : /\ box'[d].val = box[d].val /\ box'[d].next = box[d].next
                           /\ box'[d].hm = (IF d = b /\ ch # {} THEN box[d].hm + 1 ELSE box[d].hm)
      /\ \A d \in Boxes : box'[d].live = box[d].live
  <2>1. CASE ch = {}
    BY <1>1, <1>4, <2>1
  <2>2. CASE ch # {}
    <3>1. box' = [box EXCEPT ![b].hm = box[b].hm + 1]
      BY <1>1, <2>2
    <3>2. QED  BY <1>4, <2>2, <3>1, Bumped
  <2>3. QED  BY <2>1, <2>2
<1>6. ASSUME NEW k \in Messages
      PROVE  /\ msg'[k] \in MsgRow /\ msg'[k].box = msg[k].box /\ msg'[k].uid = msg[k].uid
             /\ msg'[k] = msg[k] \/ (k \in ch /\ msg'[k].modseq = box[b].hm + 1)
  BY <1>2, <1>4, <1>6 DEF MsgRow
<1>7. Tables'
  BY <1>2, <1>3, <1>5, <1>6 DEF SInv, Tables
<1>8. Standing'
  <2>1. \A k \in Messages : (msg'[k].box = msg[k].box /\ msg'[k].box # NoBox) \/ msg'[k] = msg[k]
    BY <1>3, <1>6
  <2>2. QED  BY <1>3, <1>5, <2>1, StandingKept
<1>9. Numbered'
  <2>1. ASSUME NEW d \in Boxes, NEW k \in In(d)', NEW j \in In(d)', msg'[k].uid = msg'[j].uid
        PROVE  k = j
    BY <1>6, <2>1 DEF SInv, Numbered, In
  <2>2. ASSUME NEW d \in Boxes, Counted(d)', NEW k \in In(d)'
        PROVE  msg'[k].uid > 0 /\ msg'[k].uid < box'[d].next /\ msg'[k].modseq <= box'[d].hm
    <3>1. k \in In(d) /\ Counted(d)
      BY <1>6, <2>2 DEF In, Counted, Sound
    <3>2. msg[k].uid > 0 /\ msg[k].uid < box[d].next /\ msg[k].modseq <= box[d].hm
      BY <3>1 DEF SInv, Numbered
    <3>3. QED  BY <1>3, <1>4, <1>5, <1>6, <3>1, <3>2 DEF In
  <2>3. ASSUME NEW d \in Boxes, Counted(d)', NEW u \in Nat, NEW n \in Nat,
               <<d, u, n>> \in expunged'
        PROVE  u < box'[d].next /\ \A k \in In(d)' : msg'[k].uid # u
    BY <1>3, <1>5, <1>6, <2>3 DEF SInv, Numbered, Counted, Sound, In
  <2>4. QED  BY <2>1, <2>2, <2>3 DEF Numbered
<1>10. Drafted'
  <2>1. box'[Drafts].next >= box[Drafts].next /\ box'[Drafts].next \in Nat
    BY <1>4, <1>5 DEF Boxes
  <2>2. QED  BY <1>6, <2>1, DraftedKept
<1>11. ASSUME NEW d \in Boxes PROVE Contract(d)
  <2>1. ASSUME NEW k \in RowsOf(msg', d), msg'[k] # msg[k]
        PROVE  /\ box'[d].hm > box[d].hm
               /\ msg'[k].modseq > box[d].hm /\ msg'[k].modseq <= box'[d].hm
               /\ msg[k].box = d /\ msg'[k].uid = msg[k].uid
    BY <1>3, <1>4, <1>5, <1>6, <2>1 DEF RowsOf
  <2>2. ASSUME NEW k \in RowsOf(msg, d) PROVE msg'[k].uid = msg[k].uid /\ msg'[k].box = d
    BY <1>6, <2>2 DEF RowsOf
  <2>3. box'[d].hm >= box[d].hm
    BY <1>4, <1>5
  <2>4. box'[d].live = box[d].live
    BY <1>5
  <2>5. box'[d].val = box[d].val /\ box[d].val \in Nat /\ box'[d].next >= box[d].next
    BY <1>4, <1>5
  <2>6. astray \subseteq astray' /\ expunged \subseteq expunged'
    BY <1>3
  <2>7. QED  BY <2>1, <2>2, <2>3, <2>4, <2>5, <2>6, ContractKept
<1>12. QED  BY <1>7, <1>8, <1>9, <1>10, <1>11 DEF SInv, Kept

(* What recordExpunged adds, and what it leaves.                           *)
LEMMA Recorded ==
    ASSUME SInv, NEW b \in Boxes, NEW U \in SUBSET Nat, NEW n \in Nat
    PROVE  /\ Record(b, U, n) \in SUBSET (Boxes \X Nat \X Nat)
           /\ \A r \in Record(b, U, n) : r[1] = b /\ r[2] \in U
           /\ \A u \in U : (\A k \in Nat : <<b, u, k>> \notin expunged) =>
                 <<b, u, n>> \in Record(b, U, n)
<1>1. \A u \in U : (\A k \in Nat : <<b, u, k>> \notin expunged) =>
          ~ \E r \in expunged : r[1] = b /\ r[2] = u
  BY DEF SInv, Tables
<1>2. QED  BY <1>1 DEF Record

(* The removal of messages: EXPUNGE, CLOSE and expiry.                     *)
LEMMA DeleteKeeps ==
    ASSUME SInv, NEW b \in Boxes, box[b].live, NEW S \in SUBSET In(b), S # {},
           Delete(b, S), Lost(S), UNCHANGED <<source, astray>>
    PROVE  Kept
<1> DEFINE n == box[b].hm + 1
           U == {msg[k].uid : k \in S}
<1>1. /\ box' \in [Boxes -> BoxRow]
      /\ \A d \in Boxes : /\ box'[d].val = box[d].val /\ box'[d].next = box[d].next
                           /\ box'[d].hm = (IF d = b THEN n ELSE box[d].hm)
      /\ \A d \in Boxes : box'[d].live = box[d].live
  <2>1. box \in [Boxes -> BoxRow] /\ n \in Nat /\ box' = [box EXCEPT ![b].hm = n]
    BY DEF SInv, Tables, BoxRow, Delete
  <2>2. QED  BY <2>1, Bumped
<1>2. \A k \in Messages : msg'[k] = IF k \in S THEN Nowhere ELSE msg[k]
  BY DEF Delete
<1>3. /\ expunged' = expunged \union Record(b, U, n)
      /\ \A k \in S : k \in Messages /\ msg[k].box = b
      /\ b # NoBox /\ Nowhere.box = NoBox
  BY MailStoreAssumption DEF Delete, In, Nowhere
<1>4. /\ \A d \in Boxes : box[d].val \in Nat /\ box[d].next \in Nat \ {0} /\ box[d].hm \in Nat
      /\ \A k \in Messages : msg[k].uid \in Nat /\ msg[k].modseq \in Nat
  BY DEF SInv, Tables, BoxRow, MsgRow
<1>5. U \in SUBSET Nat /\ n \in Nat
  BY <1>3, <1>4
<1>6. Tables'
  <2>1. msg' \in [Messages -> MsgRow]
    BY <1>2 DEF SInv, Tables, MsgRow, BoxRow, Delete, Nowhere, Flag
  <2>2. QED  BY <1>1, <1>3, <1>5, <2>1, Recorded DEF SInv, Tables
<1> HIDE DEF n, U
<1>7. Standing'
  <2>1. \A r \in expunged' : r \in expunged \/ box[r[1]].live
    BY <1>3, <1>5, Recorded
  <2>2. QED  BY <1>2, <1>1, <2>1, StandingKept
<1>8. Numbered'
  <2>1. ASSUME NEW d \in Boxes, NEW k \in In(d)'
        PROVE  k \in In(d) /\ k \notin S /\ msg'[k] = msg[k]
    BY <1>2, <1>3, <2>1, MailStoreAssumption DEF In
  <2>2. ASSUME NEW d \in Boxes, NEW k \in In(d)', NEW j \in In(d)', msg'[k].uid = msg'[j].uid
        PROVE  k = j
    BY <2>1, <2>2 DEF SInv, Numbered
  <2>3. ASSUME NEW d \in Boxes, Counted(d)', NEW k \in In(d)'
        PROVE  msg'[k].uid > 0 /\ msg'[k].uid < box'[d].next /\ msg'[k].modseq <= box'[d].hm
    <3>1. msg[k].uid > 0 /\ msg[k].uid < box[d].next /\ msg[k].modseq <= box[d].hm
      BY <2>1, <2>3 DEF SInv, Numbered, Counted, Sound
    <3>2. QED  BY <1>4, <1>1, <2>1, <2>3, <3>1 DEF In, n
  <2>4. ASSUME NEW d \in Boxes, Counted(d)', NEW u \in Nat, NEW k \in Nat,
               <<d, u, k>> \in expunged'
        PROVE  u < box'[d].next /\ \A m \in In(d)' : msg'[m].uid # u
    <3>1. CASE <<d, u, k>> \in expunged
      BY <1>1, <2>1, <2>4, <3>1 DEF SInv, Numbered, Counted, Sound
    <3>2. CASE <<d, u, k>> \notin expunged
      <4>1. d = b /\ u \in U
        BY <1>3, <1>5, <2>4, <3>2, Recorded
      <4>2. PICK j \in S : u = msg[j].uid
        BY <4>1 DEF U
      <4>3. u < box[d].next
        BY <2>4, <4>1, <4>2 DEF SInv, Numbered, Counted, Sound
      <4>4. \A m \in In(d) : msg[m].uid = u => m = j
        BY <4>1, <4>2 DEF SInv, Numbered
      <4>5. QED  BY <1>1, <2>1, <4>2, <4>3, <4>4
    <3>3. QED  BY <3>1, <3>2
  <2>5. QED  BY <2>2, <2>3, <2>4 DEF Numbered
<1>9. Drafted'
  <2>1. box'[Drafts].next >= box[Drafts].next /\ box'[Drafts].next \in Nat
    BY <1>4, <1>1 DEF Boxes
  <2>2. \A k \in Messages : msg'[k].box = Drafts =>
            msg[k].box = Drafts /\ msg'[k].uid = msg[k].uid
    BY <1>2, <1>3, MailStoreAssumption DEF Boxes
  <2>3. draft' = draft \/ draft' = [draft EXCEPT !.of = NoBox]
    BY DEF Lost
  <2>4. draft' = draft /\ draft.of \in Messages /\ msg[draft.of].box # NoBox =>
            msg'[draft.of].box # NoBox
    <3>1. ASSUME draft' = draft, draft.of \in S PROVE FALSE
      <4>1. draft # NoDraft /\ draft.of # NoBox
        BY <1>3, <3>1, MailStoreAssumption DEF NoDraft
      <4>2. draft = [of |-> draft.of, box |-> draft.box, uid |-> draft.uid]
        BY <4>1 DEF SInv, Drafted
      <4>3. draft = [draft EXCEPT !.of = NoBox]
        BY <3>1 DEF Lost
      <4>4. QED  BY <4>1, <4>2, <4>3
    <3>2. QED  BY <1>2, <3>1
  <2>5. QED  BY <2>1, <2>2, <2>3, <2>4, DraftedKept
<1>10. ASSUME NEW d \in Boxes PROVE Contract(d)
  <2>1. ASSUME NEW k \in RowsOf(msg', d) PROVE msg'[k] = msg[k]
    BY <1>2, <1>3, <2>1, MailStoreAssumption DEF RowsOf
  <2>2. ASSUME <<d, 0>> \notin astray', NEW k \in RowsOf(msg, d)
        PROVE  \/ msg'[k].box = d /\ msg'[k].uid = msg[k].uid
               \/ /\ box'[d].hm > box[d].hm
                  /\ Missed(expunged', astray', d, msg[k].uid, box[d].hm)
    <3>1. CASE k \notin S
      BY <1>2, <2>2, <3>1 DEF RowsOf
    <3>2. CASE k \in S
      <4>1. d = b /\ k \in In(b) /\ msg[k].uid \in U
        BY <1>3, <2>2, <3>2 DEF RowsOf, In, U
      <4>2. \A j \in Nat : <<b, msg[k].uid, j>> \notin expunged
        BY <1>4, <2>2, <4>1 DEF SInv, Numbered, Counted, Sound, In
      <4>3. <<b, msg[k].uid, n>> \in expunged'
        BY <1>3, <1>5, <4>1, <4>2, Recorded
      <4>4. n > box[b].hm /\ n \in Nat
        BY <1>4 DEF n
      <4>5. QED  BY <1>1, <4>1, <4>3, <4>4 DEF Missed
    <3>3. QED  BY <3>1, <3>2
  <2>3. box'[d].hm >= box[d].hm
    BY <1>4, <1>1 DEF n
  <2>4. box'[d].live = box[d].live
    BY <1>1
  <2>5. box'[d].val = box[d].val /\ box[d].val \in Nat /\ box'[d].next >= box[d].next
    BY <1>4, <1>1
  <2>6. astray \subseteq astray' /\ expunged \subseteq expunged'
    BY <1>3
  <2>7. QED  BY <2>1, <2>2, <2>3, <2>4, <2>5, <2>6, ContractKept
<1>11. QED  BY <1>6, <1>7, <1>8, <1>9, <1>10 DEF SInv, Kept

(* The larger of two modseqs.                                              *)
LEMMA LargerOf ==
    ASSUME NEW i \in Nat, NEW j \in Nat
    PROVE  Max({i, j}) \in Nat /\ Max({i, j}) >= i /\ Max({i, j}) >= j
<1>1. \E x \in {i, j} : \A y \in {i, j} : x >= y
  <2>1. CASE i >= j
    BY <2>1
  <2>2. CASE j >= i
    BY <2>2
  <2>3. QED  BY <2>1, <2>2
<1>2. Max({i, j}) \in {i, j} /\ \A y \in {i, j} : Max({i, j}) >= y
  BY <1>1 DEF Max
<1>3. QED  BY <1>2

(* The UIDs that a move gives: each one once, from uidnext on.             *)
LEMMA MovedApart ==
    ASSUME SInv, NEW src \in Boxes, NEW dst \in Boxes, NEW S \in SUBSET In(src)
    PROVE  /\ Cardinality(S) \in Nat
           /\ \A m \in S : /\ Moved(S, dst)[m] \in Nat
                           /\ Moved(S, dst)[m] >= box[dst].next
                           /\ Moved(S, dst)[m] < box[dst].next + Cardinality(S)
           /\ \A m, k \in S : Moved(S, dst)[m] = Moved(S, dst)[k] => m = k
<1> DEFINE L(m) == {k \in S : msg[k].uid < msg[m].uid}
           next == box[dst].next
<1>1. IsFiniteSet(S) /\ Cardinality(S) \in Nat
  <2>1. S \subseteq Messages
    BY DEF In
  <2>2. QED  BY <2>1, MailStoreAssumption, FS_Subset, FS_CardinalityType
<1>2. \A m \in S : msg[m].uid \in Nat
  BY DEF SInv, Tables, MsgRow, In
<1>3. next \in Nat /\ \A m \in S : Moved(S, dst)[m] = next + Cardinality(L(m))
  BY DEF SInv, Tables, BoxRow, Moved
<1>4. ASSUME NEW m \in S
      PROVE  Cardinality(L(m)) \in Nat /\ Cardinality(L(m)) < Cardinality(S)
  <2>1. L(m) \subseteq S /\ m \notin L(m)
    BY <1>2
  <2>2. /\ IsFiniteSet(L(m)) /\ Cardinality(L(m)) <= Cardinality(S)
        /\ Cardinality(L(m)) = Cardinality(S) => L(m) = S
    BY <1>1, <2>1, FS_Subset
  <2>3. Cardinality(L(m)) \in Nat
    BY <2>2, FS_CardinalityType
  <2>4. QED  BY <1>1, <2>1, <2>2, <2>3
<1>5. ASSUME NEW m \in S, NEW k \in S, msg[m].uid < msg[k].uid
      PROVE  Cardinality(L(m)) # Cardinality(L(k))
  <2>1. L(m) \subseteq L(k) /\ m \in L(k) /\ m \notin L(m)
    BY <1>2, <1>5
  <2>2. IsFiniteSet(L(k))
    BY <1>1, FS_Subset
  <2>3. Cardinality(L(m)) = Cardinality(L(k)) => L(m) = L(k)
    BY <2>1, <2>2, FS_Subset
  <2>4. QED  BY <2>1, <2>3
<1>6. ASSUME NEW m \in S, NEW k \in S, m # k
      PROVE  msg[m].uid < msg[k].uid \/ msg[k].uid < msg[m].uid
  BY <1>2, <1>6 DEF SInv, Numbered
<1> HIDE DEF L, next
<1>7. ASSUME NEW m \in S, NEW k \in S, Moved(S, dst)[m] = Moved(S, dst)[k] PROVE m = k
  <2>1. Cardinality(L(m)) = Cardinality(L(k))
    BY <1>3, <1>4, <1>7
  <2>2. QED  BY <1>5, <1>6, <2>1
<1>8. ASSUME NEW m \in S
      PROVE  /\ Moved(S, dst)[m] \in Nat /\ Moved(S, dst)[m] >= next
             /\ Moved(S, dst)[m] < next + Cardinality(S)
  BY <1>1, <1>3, <1>4, <1>8
<1>9. QED  BY <1>1, <1>7, <1>8 DEF next

(* MOVE, and the batches of snoozing and retention.                        *)
LEMMA RehomeKeeps ==
    ASSUME SInv, NEW src \in Boxes, NEW dst \in Boxes, box[src].live, box[dst].live,
           NEW S \in SUBSET In(src), S # {}, Rehome(src, dst, S),
           UNCHANGED <<draft, source, astray>>
    PROVE  Kept
<1> DEFINE n == Max({box[src].hm, box[dst].hm}) + 1
           at == Moved(S, dst)
           U == {msg[k].uid : k \in S}
           N == Cardinality(S)
<1>1. /\ \A k \in S, j \in In(dst) : at[k] # msg[j].uid
      /\ msg' = [k \in Messages |-> IF k \in S
                   THEN [msg[k] EXCEPT !.box = dst, !.uid = at[k], !.modseq = n] ELSE msg[k]]
      /\ expunged' = expunged \union Record(src, U, n)
  BY DEF Rehome, Uids
<1>2. /\ box \in [Boxes -> BoxRow] /\ msg \in [Messages -> MsgRow]
      /\ \A d \in Boxes : box[d].val \in Nat /\ box[d].next \in Nat \ {0} /\ box[d].hm \in Nat
      /\ \A k \in Messages : msg[k].uid \in Nat /\ msg[k].modseq \in Nat
      /\ \A k \in S : k \in Messages /\ msg[k].box = src
      /\ src # NoBox /\ dst # NoBox
  BY MailStoreAssumption DEF SInv, Tables, BoxRow, MsgRow, In
<1>3. n \in Nat /\ n > box[src].hm /\ n > box[dst].hm
  BY <1>2, LargerOf
<1>4. /\ N \in Nat
      /\ \A k \in S : at[k] \in Nat /\ at[k] >= box[dst].next /\ at[k] < box[dst].next + N
      /\ \A k, j \in S : at[k] = at[j] => k = j
  BY MovedApart
<1>5. ASSUME NEW d \in Boxes
      PROVE  box'[d] = IF d = dst THEN [box[d] EXCEPT !.next = @ + N, !.hm = n]
                       ELSE IF d = src THEN [box[d] EXCEPT !.hm = n] ELSE box[d]
  BY <1>5 DEF Rehome
<1>6. box' = [d \in Boxes |-> box'[d]]
  BY DEF Rehome
<1> HIDE DEF n, at, U, N
<1>7. ASSUME NEW d \in Boxes
      PROVE  /\ box'[d] \in BoxRow /\ box'[d].val = box[d].val
             /\ box'[d].next = (IF d = dst THEN box[d].next + N ELSE box[d].next)
             /\ box'[d].hm = (IF d = dst \/ d = src THEN n ELSE box[d].hm)
  <2>1. CASE d = dst
    <3>1. box'[d] = [box[d] EXCEPT !.next = @ + N, !.hm = n] /\ box[d] \in BoxRow
      BY <1>2, <1>5, <2>1
    <3>2. box[d].next + N \in Nat \ {0}
      BY <1>2, <1>4
    <3>3. box'[d] \in BoxRow
      BY <1>3, <3>1, <3>2 DEF BoxRow
    <3>4. QED  BY <2>1, <3>1, <3>3 DEF BoxRow
  <2>2. CASE d # dst /\ d = src
    <3>1. box'[d] = [box[d] EXCEPT !.hm = n] /\ box[d] \in BoxRow
      BY <1>2, <1>5, <2>2
    <3>2. QED  BY <1>3, <2>2, <3>1 DEF BoxRow
  <2>3. CASE d # dst /\ d # src
    BY <1>2, <1>5, <2>3 DEF BoxRow
  <2>4. QED  BY <2>1, <2>2, <2>3
<1>8. ASSUME NEW d \in Boxes PROVE box'[d].live = box[d].live
  BY <1>2, <1>5 DEF BoxRow
<1>9. ASSUME NEW k \in Messages
      PROVE  /\ msg'[k] \in MsgRow
             /\ k \in S => msg'[k].box = dst /\ msg'[k].uid = at[k] /\ msg'[k].modseq = n
             /\ k \notin S => msg'[k] = msg[k]
  BY <1>1, <1>2, <1>3, <1>4 DEF MsgRow
<1>10. U \in SUBSET Nat /\ \A r \in expunged' : r \in expunged \/ (r[1] = src /\ r[2] \in U)
  <2>1. U \in SUBSET Nat
    BY <1>2 DEF U
  <2>2. \A r \in Record(src, U, n) : r[1] = src /\ r[2] \in U
    BY <1>3, <2>1, Recorded
  <2>3. QED  BY <1>1, <2>1, <2>2
<1>11. Tables'
  <2>1. box' \in [Boxes -> BoxRow]
    BY <1>6, <1>7
  <2>2. msg' \in [Messages -> MsgRow]
    BY <1>1, <1>9
  <2>3. expunged' \in SUBSET (Boxes \X Nat \X Nat)
    BY <1>1, <1>3, <1>10, Recorded DEF SInv, Tables
  <2>4. QED  BY <2>1, <2>2, <2>3 DEF SInv, Tables
<1>12. Standing'
  <2>1. \A r \in expunged' : r \in expunged \/ box[r[1]].live
    BY <1>10
  <2>2. \A k \in Messages : msg'[k] = msg[k] \/ (msg'[k].box \in Boxes /\ box[msg'[k].box].live)
    BY <1>9
  <2>3. QED  BY <1>8, <2>1, <2>2, StandingKept
<1>13. Numbered'
  <2>1. ASSUME NEW d \in Boxes, NEW k \in In(d)'
        PROVE  /\ k \in Messages /\ (k \in S => d = dst)
               /\ k \notin S => k \in In(d) /\ msg'[k] = msg[k]
    <3>1. k \in Messages /\ msg'[k].box = d
      BY <2>1 DEF In
    <3>2. QED  BY <1>9, <3>1 DEF In
  <2>2. ASSUME NEW d \in Boxes, NEW k \in In(d)', NEW j \in In(d)', msg'[k].uid = msg'[j].uid
        PROVE  k = j
    <3>1. CASE k \in S /\ j \in S
      BY <1>2, <1>4, <1>9, <2>2, <3>1
    <3>2. CASE k \notin S /\ j \notin S
      BY <2>1, <2>2, <3>2 DEF SInv, Numbered
    <3>3. CASE k \in S /\ j \notin S
      <4>1. d = dst /\ j \in In(dst) /\ msg'[j] = msg[j]
        BY <2>1, <2>2, <3>3
      <4>2. msg'[k].uid = at[k]
        BY <1>9, <2>1, <2>2, <3>3
      <4>3. QED  BY <1>1, <2>2, <3>3, <4>1, <4>2
    <3>4. CASE k \notin S /\ j \in S
      <4>1. d = dst /\ k \in In(dst) /\ msg'[k] = msg[k]
        BY <2>1, <2>2, <3>4
      <4>2. msg'[j].uid = at[j]
        BY <1>9, <2>1, <2>2, <3>4
      <4>3. QED  BY <1>1, <2>2, <3>4, <4>1, <4>2
    <3>5. QED  BY <3>1, <3>2, <3>3, <3>4
  <2>3. ASSUME NEW d \in Boxes, Counted(d)', NEW k \in In(d)'
        PROVE  msg'[k].uid > 0 /\ msg'[k].uid < box'[d].next /\ msg'[k].modseq <= box'[d].hm
    <3>1. CASE k \in S
      BY <1>2, <1>3, <1>4, <1>7, <1>9, <2>1, <3>1
    <3>2. CASE k \notin S
      <4>1. msg[k].uid > 0 /\ msg[k].uid < box[d].next /\ msg[k].modseq <= box[d].hm
        BY <2>1, <2>3, <3>2 DEF SInv, Numbered, Counted, Sound
      <4>2. QED  BY <1>2, <1>3, <1>4, <1>7, <2>1, <3>2, <4>1
    <3>3. QED  BY <3>1, <3>2
  <2>4. ASSUME NEW d \in Boxes, Counted(d)', NEW u \in Nat, NEW k \in Nat,
               <<d, u, k>> \in expunged'
        PROVE  u < box'[d].next /\ \A m \in In(d)' : msg'[m].uid # u
    <3>1. u < box[d].next /\ \A m \in In(d) : m \notin S => msg[m].uid # u
      <4>1. CASE <<d, u, k>> \in expunged
        BY <2>4, <4>1 DEF SInv, Numbered, Counted, Sound
      <4>2. CASE <<d, u, k>> \notin expunged
        <5>1. d = src /\ u \in U
          BY <1>10, <2>4, <4>2
        <5>2. PICK j \in S : u = msg[j].uid
          BY <5>1 DEF U
        <5>3. u < box[d].next
          BY <2>4, <5>1, <5>2 DEF SInv, Numbered, Counted, Sound
        <5>4. \A m \in In(d) : msg[m].uid = u => m = j
          BY <5>1, <5>2 DEF SInv, Numbered
        <5>5. QED  BY <5>2, <5>3, <5>4
      <4>3. QED  BY <4>1, <4>2
    <3>2. ASSUME NEW m \in In(d)' PROVE msg'[m].uid # u
      <4>1. CASE m \notin S
        BY <2>1, <3>1, <3>2, <4>1
      <4>2. CASE m \in S
        <5>1. d = dst /\ msg'[m].uid >= box[d].next /\ msg'[m].uid \in Nat
          BY <1>4, <1>9, <2>1, <3>2, <4>2
        <5>2. QED  BY <1>2, <3>1, <5>1
      <4>3. QED  BY <4>1, <4>2
    <3>3. QED  BY <1>2, <1>4, <1>7, <3>1, <3>2
  <2>5. QED  BY <2>2, <2>3, <2>4 DEF Numbered
<1>14. Drafted'
  <2>1. box'[Drafts].next >= box[Drafts].next /\ box'[Drafts].next \in Nat
    BY <1>2, <1>4, <1>7 DEF Boxes
  <2>2. \A k \in Messages : msg'[k].box = Drafts =>
            (msg[k].box = Drafts /\ msg'[k].uid = msg[k].uid) \/ msg'[k].uid >= box[Drafts].next
    BY <1>4, <1>9
  <2>3. \A k \in Messages : msg[k].box # NoBox => msg'[k].box # NoBox
    BY <1>2, <1>9
  <2>4. QED  BY <2>1, <2>2, <2>3, DraftedKept
<1>15. ASSUME NEW d \in Boxes PROVE Contract(d)
  <2>1. ASSUME NEW k \in RowsOf(msg', d), msg'[k] # msg[k]
        PROVE  /\ box'[d].hm > box[d].hm
               /\ msg'[k].modseq > box[d].hm /\ msg'[k].modseq <= box'[d].hm
               /\ msg'[k].uid >= box[d].next
    <3>1. k \in S /\ d = dst
      BY <1>9, <2>1 DEF RowsOf
    <3>2. QED  BY <1>3, <1>4, <1>7, <1>9, <3>1 DEF In
  <2>2. ASSUME <<d, 0>> \notin astray', NEW k \in RowsOf(msg, d)
        PROVE  \/ msg'[k].box = d /\ msg'[k].uid = msg[k].uid
               \/ /\ box'[d].hm > box[d].hm
                  /\ Missed(expunged', astray', d, msg[k].uid, box[d].hm)
    <3>1. CASE k \notin S
      BY <1>9, <2>2, <3>1 DEF RowsOf
    <3>2. CASE k \in S
      <4>1. d = src /\ k \in In(src) /\ msg[k].uid \in U
        BY <1>2, <2>2, <3>2 DEF RowsOf, In, U
      <4>2. \A j \in Nat : <<src, msg[k].uid, j>> \notin expunged
        BY <1>2, <2>2, <4>1 DEF SInv, Numbered, Counted, Sound, In
      <4>3. <<src, msg[k].uid, n>> \in expunged'
        BY <1>1, <1>3, <1>10, <4>1, <4>2, Recorded
      <4>4. box'[d].hm = n
        BY <1>7, <4>1
      <4>5. QED  BY <1>3, <4>1, <4>3, <4>4 DEF Missed
    <3>3. QED  BY <3>1, <3>2
  <2>3. box'[d].hm >= box[d].hm
    BY <1>2, <1>3, <1>7
  <2>4. box'[d].live = box[d].live
    BY <1>8
  <2>5. box'[d].val = box[d].val /\ box[d].val \in Nat /\ box'[d].next >= box[d].next
    BY <1>2, <1>4, <1>7
  <2>6. astray \subseteq astray' /\ expunged \subseteq expunged'
    BY <1>1
  <2>7. QED  BY <2>1, <2>2, <2>3, <2>4, <2>5, <2>6, ContractKept
<1>16. QED  BY <1>11, <1>12, <1>13, <1>14, <1>15 DEF SInv, Kept

(* COPY: the n-th copy has the n-th next UID and the n-th next modseq.     *)
LEMMA DuplicateKeeps ==
    ASSUME SInv, NEW src \in Boxes, NEW dst \in Boxes, box[dst].live,
           NEW S \in SUBSET In(src), S # {}, NEW N \in SUBSET (Messages \ Present),
           NEW of \in [N -> S], Duplicate(dst, S, N, of),
           UNCHANGED <<draft, source, astray>>
    PROVE  Kept
<1> DEFINE at == Moved(S, dst)
           C == Cardinality(S)
           nth(k) == at[of[k]] - box[dst].next
<1>1. /\ \A k, j \in N : of[k] = of[j] => k = j
      /\ \A k \in S, j \in In(dst) : at[k] # msg[j].uid
      /\ msg' = [k \in Messages |-> IF k \in N
                   THEN [box |-> dst, uid |-> at[of[k]], modseq |-> box[dst].hm + 1 + nth(k),
                         flag |-> msg[of[k]].flag]
                   ELSE msg[k]]
      /\ box' = [box EXCEPT ![dst].next = box[dst].next + C, ![dst].hm = box[dst].hm + C]
      /\ expunged' = expunged
  BY DEF Duplicate, Uids, SInv, Tables
<1>2. /\ box \in [Boxes -> BoxRow] /\ msg \in [Messages -> MsgRow]
      /\ \A d \in Boxes : box[d].val \in Nat /\ box[d].next \in Nat \ {0} /\ box[d].hm \in Nat
      /\ \A k \in Messages : msg[k].uid \in Nat /\ msg[k].modseq \in Nat
      /\ \A k \in N : k \in Messages /\ msg[k].box = NoBox
      /\ dst # NoBox
  BY MailStoreAssumption DEF SInv, Tables, BoxRow, MsgRow, Present
<1>3. /\ C \in Nat
      /\ \A k \in S : at[k] \in Nat /\ at[k] >= box[dst].next /\ at[k] < box[dst].next + C
      /\ \A k, j \in S : at[k] = at[j] => k = j
  BY MovedApart
<1>4. /\ \A k \in N : of[k] \in S /\ msg[of[k]].flag \in Flag
      /\ C > 0
  <2>1. \A k \in N : of[k] \in S /\ msg[of[k]].flag \in Flag
    BY <1>2 DEF In, MsgRow
  <2>2. PICK k \in S : TRUE
    OBVIOUS
  <2>3. at[k] \in Nat /\ at[k] >= box[dst].next /\ at[k] < box[dst].next + C
    BY <1>3
  <2>4. C > 0
    BY <1>2, <1>3, <2>3
  <2>5. QED  BY <2>1, <2>4
<1> HIDE DEF at, C
<1>5. ASSUME NEW k \in N PROVE nth(k) \in Nat /\ nth(k) < C
  <2>1. at[of[k]] \in Nat /\ at[of[k]] >= box[dst].next /\ at[of[k]] < box[dst].next + C
    BY <1>3, <1>4
  <2>2. QED  BY <1>2, <1>3, <2>1
<1>6. \A k \in Messages :
        /\ k \in N => /\ msg'[k] \in MsgRow /\ msg'[k].box = dst /\ msg'[k].uid = at[of[k]]
                      /\ msg'[k].modseq \in Nat
                      /\ msg'[k].modseq > box[dst].hm /\ msg'[k].modseq <= box[dst].hm + C
        /\ k \notin N => msg'[k] = msg[k]
  <2> HIDE DEF nth
  <2>1. ASSUME NEW k \in N
        PROVE  /\ msg'[k] \in MsgRow /\ msg'[k].box = dst /\ msg'[k].uid = at[of[k]]
               /\ msg'[k].modseq \in Nat
               /\ msg'[k].modseq > box[dst].hm /\ msg'[k].modseq <= box[dst].hm + C
    <3>1. msg'[k] = [box |-> dst, uid |-> at[of[k]], modseq |-> box[dst].hm + 1 + nth(k),
                     flag |-> msg[of[k]].flag]
      BY <1>1, <1>2, <2>1
    <3>2. /\ box[dst].hm + 1 + nth(k) \in Nat /\ box[dst].hm + 1 + nth(k) > box[dst].hm
          /\ box[dst].hm + 1 + nth(k) <= box[dst].hm + C
      BY <1>2, <1>3, <1>5
    <3>3. at[of[k]] \in Nat /\ msg[of[k]].flag \in Flag
      BY <1>3, <1>4
    <3>4. QED  BY <3>1, <3>2, <3>3 DEF MsgRow
  <2>2. QED  BY <1>1, <2>1
<1>7. /\ box' \in [Boxes -> BoxRow]
      /\ \A d \in Boxes : box'[d].val = box[d].val
                          /\ box'[d].next = (IF d = dst THEN box[d].next + C ELSE box[d].next)
                          /\ box'[d].hm = (IF d = dst THEN box[d].hm + C ELSE box[d].hm)
      /\ \A d \in Boxes : box'[d].live = box[d].live
  <2>0. box' = [d \in Boxes |-> IF d = dst
                  THEN [box[d] EXCEPT !.next = box[d].next + C, !.hm = box[d].hm + C]
                  ELSE box[d]]
    BY <1>1, <1>2
  <2>1. ASSUME NEW d \in Boxes
        PROVE  /\ box'[d] \in BoxRow /\ box'[d].val = box[d].val
               /\ box'[d].next = (IF d = dst THEN box[d].next + C ELSE box[d].next)
               /\ box'[d].hm = (IF d = dst THEN box[d].hm + C ELSE box[d].hm)
    <3>1. box[d] \in BoxRow /\ box[d].next + C \in Nat \ {0} /\ box[d].hm + C \in Nat
      BY <1>2, <1>3
    <3>2. CASE d = dst
      <4>1. box'[d] = [box[d] EXCEPT !.next = box[d].next + C, !.hm = box[d].hm + C]
        BY <2>0, <3>2
      <4>2. box'[d] \in BoxRow
        BY <3>1, <4>1 DEF BoxRow
      <4>3. QED  BY <3>1, <3>2, <4>1, <4>2 DEF BoxRow
    <3>3. CASE d # dst
      BY <2>0, <3>1, <3>3
    <3>4. QED  BY <3>2, <3>3
  <2>2. ASSUME NEW d \in Boxes PROVE box'[d].live = box[d].live
    BY <1>2, <2>0 DEF BoxRow
  <2>3. QED  BY <2>0, <2>1, <2>2
<1> HIDE DEF nth
<1>8. Tables'
  <2>1. \A k \in Messages : msg'[k] \in MsgRow
    BY <1>2, <1>6
  <2>2. msg' \in [Messages -> MsgRow]
    BY <1>1, <2>1
  <2>3. QED  BY <1>1, <1>7, <2>2 DEF SInv, Tables
<1>9. Standing'
  <2>1. \A k \in Messages : msg'[k] = msg[k] \/ (msg'[k].box \in Boxes /\ box[msg'[k].box].live)
    BY <1>6
  <2>2. \A d \in Boxes : box'[d].live = box[d].live
    BY <1>7
  <2>3. QED  BY <1>1, <2>1, <2>2, StandingKept
<1>10. Numbered'
  <2>1. ASSUME NEW d \in Boxes, NEW k \in In(d)'
        PROVE  /\ k \in Messages /\ (k \in N => d = dst)
               /\ k \notin N => k \in In(d) /\ msg'[k] = msg[k]
    <3>1. k \in Messages /\ msg'[k].box = d
      BY <2>1 DEF In
    <3>2. QED  BY <1>6, <3>1 DEF In
  <2>2. ASSUME NEW d \in Boxes, NEW k \in In(d)', NEW j \in In(d)', msg'[k].uid = msg'[j].uid
        PROVE  k = j
    <3>1. CASE k \in N /\ j \in N
      <4>1. at[of[k]] = at[of[j]] /\ of[k] \in S /\ of[j] \in S
        BY <1>4, <1>6, <2>1, <2>2, <3>1
      <4>2. QED  BY <1>1, <1>3, <3>1, <4>1
    <3>2. CASE k \notin N /\ j \notin N
      BY <2>1, <2>2, <3>2 DEF SInv, Numbered
    <3>3. CASE k \in N /\ j \notin N
      <4>1. d = dst /\ j \in In(dst) /\ msg'[j] = msg[j]
        BY <2>1, <2>2, <3>3
      <4>2. msg'[k].uid = at[of[k]] /\ of[k] \in S
        BY <1>4, <1>6, <2>1, <2>2, <3>3
      <4>3. QED  BY <1>1, <2>2, <3>3, <4>1, <4>2
    <3>4. CASE k \notin N /\ j \in N
      <4>1. d = dst /\ k \in In(dst) /\ msg'[k] = msg[k]
        BY <2>1, <2>2, <3>4
      <4>2. msg'[j].uid = at[of[j]] /\ of[j] \in S
        BY <1>4, <1>6, <2>1, <2>2, <3>4
      <4>3. QED  BY <1>1, <2>2, <3>4, <4>1, <4>2
    <3>5. QED  BY <3>1, <3>2, <3>3, <3>4
  <2>3. ASSUME NEW d \in Boxes, Counted(d)' PROVE Counted(d)
    BY <2>3 DEF Counted, Sound
  <2>4. ASSUME NEW d \in Boxes, Counted(d)', NEW k \in In(d)'
        PROVE  msg'[k].uid > 0 /\ msg'[k].uid < box'[d].next /\ msg'[k].modseq <= box'[d].hm
    <3>1. CASE k \in N
      <4>1. d = dst /\ msg'[k].uid = at[of[k]] /\ of[k] \in S
            /\ msg'[k].modseq <= box[dst].hm + C
        BY <1>4, <1>6, <2>1, <2>4, <3>1
      <4>2. QED  BY <1>2, <1>3, <1>7, <4>1
    <3>2. CASE k \notin N
      <4>1. k \in Messages /\ k \in In(d) /\ msg'[k] = msg[k]
        BY <2>1, <2>4, <3>2
      <4>2. msg[k].uid > 0 /\ msg[k].uid < box[d].next /\ msg[k].modseq <= box[d].hm
        BY <2>3, <2>4, <4>1 DEF SInv, Numbered
      <4>3. box'[d].next >= box[d].next /\ box'[d].hm >= box[d].hm
            /\ box'[d].next \in Nat /\ box'[d].hm \in Nat
        BY <1>2, <1>3, <1>7
      <4>4. QED  BY <1>2, <4>1, <4>2, <4>3
    <3>3. QED  BY <3>1, <3>2
  <2>5. ASSUME NEW d \in Boxes, Counted(d)', NEW u \in Nat, NEW j \in Nat,
               <<d, u, j>> \in expunged'
        PROVE  u < box'[d].next /\ \A k \in In(d)' : msg'[k].uid # u
    <3>1. u < box[d].next /\ \A k \in In(d) : msg[k].uid # u
      BY <1>1, <2>3, <2>5 DEF SInv, Numbered
    <3>2. ASSUME NEW k \in In(d)' PROVE msg'[k].uid # u
      <4>1. CASE k \notin N
        BY <2>1, <3>1, <3>2, <4>1
      <4>2. CASE k \in N
        <5>1. d = dst /\ msg'[k].uid = at[of[k]] /\ of[k] \in S
          BY <1>4, <1>6, <2>1, <3>2, <4>2
        <5>2. QED  BY <1>2, <1>3, <3>1, <5>1
      <4>3. QED  BY <4>1, <4>2
    <3>3. QED  BY <1>2, <1>3, <1>7, <3>1, <3>2
  <2>6. QED  BY <2>2, <2>4, <2>5 DEF Numbered
<1>11. Drafted'
  <2>1. box'[Drafts].next >= box[Drafts].next /\ box'[Drafts].next \in Nat
    BY <1>2, <1>3, <1>7 DEF Boxes
  <2>2. \A k \in Messages : msg'[k].box = Drafts =>
            (msg[k].box = Drafts /\ msg'[k].uid = msg[k].uid) \/ msg'[k].uid >= box[Drafts].next
    BY <1>3, <1>4, <1>6
  <2>3. \A k \in Messages : msg[k].box # NoBox => msg'[k].box # NoBox
    BY <1>2, <1>6
  <2>4. QED  BY <2>1, <2>2, <2>3, DraftedKept
<1>12. ASSUME NEW d \in Boxes PROVE Contract(d)
  <2>1. ASSUME NEW k \in RowsOf(msg', d), msg'[k] # msg[k]
        PROVE  /\ box'[d].hm > box[d].hm
               /\ msg'[k].modseq > box[d].hm /\ msg'[k].modseq <= box'[d].hm
               /\ msg'[k].uid >= box[d].next
    <3>1. k \in N /\ d = dst /\ k \in Messages
      BY <1>6, <2>1 DEF RowsOf
    <3>2. QED  BY <1>2, <1>3, <1>4, <1>6, <1>7, <3>1
  <2>2. ASSUME NEW k \in RowsOf(msg, d) PROVE msg'[k].box = d /\ msg'[k].uid = msg[k].uid
    <3>1. k \in Messages /\ msg[k].box = d /\ d # NoBox
      BY <2>2, MailStoreAssumption DEF RowsOf
    <3>2. QED  BY <1>2, <1>6, <3>1
  <2>3. box'[d].hm >= box[d].hm
    BY <1>2, <1>3, <1>7
  <2>4. box'[d].live = box[d].live
    BY <1>7
  <2>5. box'[d].val = box[d].val /\ box[d].val \in Nat /\ box'[d].next >= box[d].next
    BY <1>2, <1>3, <1>7
  <2>6. astray \subseteq astray' /\ expunged \subseteq expunged'
    BY <1>1
  <2>7. QED  BY <2>1, <2>2, <2>3, <2>4, <2>5, <2>6, ContractKept
<1>13. QED  BY <1>8, <1>9, <1>10, <1>11, <1>12 DEF SInv, Kept

(* The webmail's move: no removal is recorded, so the UID is astray.       *)
LEMMA WebMoveKeeps ==
    ASSUME SInv, NEW m \in Messages, NEW dst \in Boxes, NEW flag \in Flag,
           WebMove(m, dst, flag)
    PROVE  Kept
<1> DEFINE src == msg[m].box
<1>1. /\ msg[m] # Nowhere /\ src # dst /\ box[dst].live
      /\ \A k \in In(dst) : msg[k].uid # box[dst].next
      /\ astray' = astray \union {<<src, msg[m].uid>>}
      /\ expunged' = expunged /\ source' = source
      /\ msg' = [msg EXCEPT ![m] = [box |-> dst, uid |-> box[dst].next,
                                    modseq |-> box[dst].hm + 1, flag |-> flag]]
  BY DEF WebMove, Exists, Uids
<1>2. /\ box \in [Boxes -> BoxRow] /\ msg \in [Messages -> MsgRow]
      /\ \A d \in Boxes : box[d].val \in Nat /\ box[d].next \in Nat \ {0} /\ box[d].hm \in Nat
      /\ \A k \in Messages : msg[k].uid \in Nat /\ msg[k].modseq \in Nat
      /\ dst # NoBox /\ src # NoBox /\ src \in Boxes
  BY <1>1, MailStoreAssumption DEF SInv, Tables, Standing, BoxRow, MsgRow
<1>3. box[src].live
  BY <1>2 DEF SInv, Standing, In
<1>4. ASSUME NEW d \in Boxes
      PROVE  box'[d] = IF d = dst THEN [box[d] EXCEPT !.next = @ + 1, !.hm = @ + 1]
                       ELSE IF d = src THEN [box[d] EXCEPT !.hm = @ + 1] ELSE box[d]
  BY <1>1, <1>2, <1>4 DEF WebMove, WebBump
<1>5. box' = [d \in Boxes |-> box'[d]]
  BY <1>2 DEF WebMove
<1> HIDE DEF src
<1>6. ASSUME NEW d \in Boxes
      PROVE  /\ box'[d] \in BoxRow /\ box'[d].val = box[d].val
             /\ box'[d].next = (IF d = dst THEN box[d].next + 1 ELSE box[d].next)
             /\ box'[d].hm = (IF d = dst \/ d = src THEN box[d].hm + 1 ELSE box[d].hm)
  <2>1. box[d] \in BoxRow /\ box[d].next + 1 \in Nat \ {0} /\ box[d].hm + 1 \in Nat
    BY <1>2
  <2>2. CASE d = dst
    <3>1. box'[d] = [box[d] EXCEPT !.next = @ + 1, !.hm = @ + 1]
      BY <1>4, <2>2
    <3>2. box'[d] \in BoxRow
      BY <2>1, <3>1 DEF BoxRow
    <3>3. QED  BY <2>1, <2>2, <3>1, <3>2 DEF BoxRow
  <2>3. CASE d # dst /\ d = src
    <3>1. box'[d] = [box[d] EXCEPT !.hm = @ + 1]
      BY <1>4, <2>3
    <3>2. QED  BY <2>1, <2>3, <3>1 DEF BoxRow
  <2>4. CASE d # dst /\ d # src
    BY <1>4, <2>1, <2>4
  <2>5. QED  BY <2>2, <2>3, <2>4
<1>7. ASSUME NEW d \in Boxes PROVE box'[d].live = box[d].live
  BY <1>2, <1>4 DEF BoxRow
<1>8. /\ msg'[m].box = dst /\ msg'[m].uid = box[dst].next /\ msg'[m].modseq = box[dst].hm + 1
      /\ \A k \in Messages : k # m => msg'[k] = msg[k]
  BY <1>1, <1>2
<1>9. Tables'
  <2>1. box' \in [Boxes -> BoxRow]
    BY <1>5, <1>6
  <2>2. msg' \in [Messages -> MsgRow]
    BY <1>1, <1>2 DEF MsgRow
  <2>3. QED  BY <1>1, <1>2, <2>1, <2>2 DEF SInv, Tables
<1>10. Standing'
  <2>1. \A k \in Messages : msg'[k] = msg[k] \/ (msg'[k].box \in Boxes /\ box[msg'[k].box].live)
    BY <1>1, <1>8
  <2>2. \A a \in astray' : a \in astray \/ box[a[1]].live
    BY <1>1, <1>3
  <2>3. \A d \in Boxes : box'[d].live = box[d].live
    BY <1>7
  <2>4. QED  BY <1>1, <2>1, <2>2, <2>3, StandingKept
<1>11. Numbered'
  <2>1. ASSUME NEW d \in Boxes, NEW k \in In(d)'
        PROVE  /\ k \in Messages /\ (k = m => d = dst)
               /\ k # m => k \in In(d) /\ msg'[k] = msg[k]
    BY <1>8, <2>1 DEF In
  <2>2. ASSUME NEW d \in Boxes, NEW k \in In(d)', NEW j \in In(d)', msg'[k].uid = msg'[j].uid
        PROVE  k = j
    BY <1>1, <1>8, <2>1, <2>2 DEF SInv, Numbered
  <2>3. ASSUME NEW d \in Boxes, Counted(d)' PROVE Counted(d)
    BY <1>1, <2>3 DEF Counted, Sound
  <2>4. ASSUME NEW d \in Boxes, Counted(d)', NEW k \in In(d)'
        PROVE  msg'[k].uid > 0 /\ msg'[k].uid < box'[d].next /\ msg'[k].modseq <= box'[d].hm
    <3>1. CASE k = m
      BY <1>2, <1>6, <1>8, <2>1, <2>4, <3>1
    <3>2. CASE k # m
      <4>1. msg[k].uid > 0 /\ msg[k].uid < box[d].next /\ msg[k].modseq <= box[d].hm
        BY <2>1, <2>3, <2>4, <3>2 DEF SInv, Numbered
      <4>2. QED  BY <1>2, <1>6, <2>1, <2>4, <3>2, <4>1
    <3>3. QED  BY <3>1, <3>2
  <2>5. ASSUME NEW d \in Boxes, Counted(d)', NEW u \in Nat, NEW n \in Nat,
               <<d, u, n>> \in expunged'
        PROVE  u < box'[d].next /\ \A k \in In(d)' : msg'[k].uid # u
    <3>1. u < box[d].next /\ \A k \in In(d) : msg[k].uid # u
      BY <1>1, <2>3, <2>5 DEF SInv, Numbered
    <3>2. QED  BY <1>2, <1>6, <1>8, <2>1, <3>1
  <2>6. QED  BY <2>2, <2>4, <2>5 DEF Numbered
<1>12. Drafted'
  <2>1. box'[Drafts].next >= box[Drafts].next /\ box'[Drafts].next \in Nat
    BY <1>2, <1>6 DEF Boxes
  <2>2. \A k \in Messages : msg'[k].box = Drafts =>
            (msg[k].box = Drafts /\ msg'[k].uid = msg[k].uid) \/ msg'[k].uid >= box[Drafts].next
    BY <1>2, <1>8
  <2>3. \A k \in Messages : msg[k].box # NoBox => msg'[k].box # NoBox
    BY <1>2, <1>8
  <2>4. draft' = draft \/ draft' = [draft EXCEPT !.of = NoBox]
    BY DEF WebMove, Lost
  <2>5. QED  BY <2>1, <2>2, <2>3, <2>4, DraftedKept
<1>13. ASSUME NEW d \in Boxes PROVE Contract(d)
  <2>1. ASSUME NEW k \in RowsOf(msg', d), msg'[k] # msg[k]
        PROVE  /\ box'[d].hm > box[d].hm
               /\ msg'[k].modseq > box[d].hm /\ msg'[k].modseq <= box'[d].hm
               /\ msg'[k].uid >= box[d].next
    <3>1. k = m /\ d = dst
      BY <1>8, <2>1 DEF RowsOf
    <3>2. QED  BY <1>2, <1>6, <1>8, <3>1
  <2>2. ASSUME NEW k \in RowsOf(msg, d)
        PROVE  \/ msg'[k].box = d /\ msg'[k].uid = msg[k].uid
               \/ /\ box'[d].hm > box[d].hm
                  /\ Missed(expunged', astray', d, msg[k].uid, box[d].hm)
    <3>1. CASE k # m
      BY <1>8, <2>2, <3>1 DEF RowsOf
    <3>2. CASE k = m
      BY <1>1, <1>2, <1>6, <2>2, <3>2 DEF RowsOf, src, Missed
    <3>3. QED  BY <3>1, <3>2
  <2>3. box'[d].hm >= box[d].hm
    BY <1>2, <1>6
  <2>4. box'[d].live = box[d].live
    BY <1>7
  <2>5. box'[d].val = box[d].val /\ box[d].val \in Nat /\ box'[d].next >= box[d].next
    BY <1>2, <1>6
  <2>6. astray \subseteq astray' /\ expunged \subseteq expunged'
    BY <1>1
  <2>7. QED  BY <2>1, <2>2, <2>3, <2>4, <2>5, <2>6, ContractKept
<1>14. QED  BY <1>9, <1>10, <1>11, <1>12, <1>13 DEF SInv, Kept

(* A compose route removes the draft it read, and may have filed a copy in *)
(* its place (N), under a modseq of its own.                               *)
Taken(N, i, n) ==
    /\ draft # NoDraft /\ draft.of # NoBox /\ draft' = NoDraft /\ source' = source
    /\ n > box[Drafts].hm /\ (N # {} => i > 0)
    /\ \A k \in N : msg[k] = Nowhere
    /\ \A k, j \in N : k = j
    /\ N # {} => \A k \in In(Drafts) : msg[k].uid # box[Drafts].next
    /\ msg' = [k \in Messages |-> IF k = draft.of THEN Nowhere
                                  ELSE IF k \in N THEN Filed(Drafts, "clear") ELSE msg[k]]
    /\ box' = [d \in Boxes |-> IF d = Drafts
                 THEN [box[d] EXCEPT !.next = box[d].next + i, !.hm = n] ELSE box[d]]
    /\ expunged' = expunged \union Record(Drafts, {draft.uid}, n)
    /\ astray' = IF msg[draft.of].box = Drafts /\ msg[draft.of].uid = draft.uid
                 THEN astray ELSE astray \union {<<msg[draft.of].box, 0>>}

(* If the draft was moved in the meantime, the mailbox it is now in loses  *)
(* it without a word.                                                      *)
LEMMA DraftTaken ==
    ASSUME SInv, NEW N \in SUBSET Messages, NEW i \in Nat, NEW n \in Nat, Taken(N, i, n)
    PROVE  Kept
<1> DEFINE m == draft.of
<1>1. /\ draft # NoDraft /\ draft.of # NoBox /\ draft' = NoDraft /\ source' = source
      /\ n > box[Drafts].hm /\ (N # {} => i > 0)
      /\ \A k \in N : msg[k] = Nowhere
      /\ \A k, j \in N : k = j
      /\ N # {} => \A k \in In(Drafts) : msg[k].uid # box[Drafts].next
      /\ expunged' = expunged \union Record(Drafts, {draft.uid}, n)
      /\ astray' = IF msg[m].box = Drafts /\ msg[m].uid = draft.uid
                   THEN astray ELSE astray \union {<<msg[m].box, 0>>}
      /\ msg' = [k \in Messages |-> msg'[k]] /\ box' = [d \in Boxes |-> box'[d]]
  BY DEF Taken
<1>2. /\ box \in [Boxes -> BoxRow] /\ msg \in [Messages -> MsgRow]
      /\ \A d \in Boxes : box[d].val \in Nat /\ box[d].next \in Nat \ {0} /\ box[d].hm \in Nat
      /\ \A k \in Messages : msg[k].uid \in Nat /\ msg[k].modseq \in Nat
      /\ Drafts \in Boxes /\ Drafts # NoBox /\ Nowhere.box = NoBox
  BY MailStoreAssumption DEF SInv, Tables, BoxRow, MsgRow, Boxes, Nowhere
<1>3. /\ draft.uid \in Nat /\ draft.uid < box[Drafts].next
      /\ m \in Messages /\ msg[m].box # NoBox
      /\ \A k \in In(Drafts) : msg[k].uid = draft.uid => k = m
  BY <1>1 DEF SInv, Drafted
<1>4. msg[m].box \in Boxes /\ m \notin N
  BY <1>1, <1>2, <1>3 DEF MsgRow
<1>5. box[Drafts].live /\ box[msg[m].box].live
  <2>1. box[Drafts].live
    BY <1>2, MailStoreAssumption DEF SInv, Standing
  <2>2. box[msg[m].box].live
    BY <1>3, <1>4 DEF SInv, Standing, In
  <2>3. QED  BY <2>1, <2>2
<1> HIDE DEF m
<1>6. /\ box' \in [Boxes -> BoxRow]
      /\ \A d \in Boxes : box'[d].val = box[d].val
                          /\ box'[d].next = (IF d = Drafts THEN box[d].next + i ELSE box[d].next)
                          /\ box'[d].hm = (IF d = Drafts THEN n ELSE box[d].hm)
      /\ \A d \in Boxes : box'[d].live = box[d].live
  <2>1. ASSUME NEW d \in Boxes
        PROVE  /\ box'[d] \in BoxRow /\ box'[d].val = box[d].val
               /\ box'[d].next = (IF d = Drafts THEN box[d].next + i ELSE box[d].next)
               /\ box'[d].hm = (IF d = Drafts THEN n ELSE box[d].hm)
    <3>1. box[d] \in BoxRow /\ box[d].next + i \in Nat \ {0}
      BY <1>2
    <3>2. CASE d = Drafts
      <4>1. box'[d] = [box[d] EXCEPT !.next = box[d].next + i, !.hm = n]
        BY <3>2 DEF Taken
      <4>2. box'[d] \in BoxRow
        BY <3>1, <4>1 DEF BoxRow
      <4>3. QED  BY <3>1, <3>2, <4>1, <4>2 DEF BoxRow
    <3>3. CASE d # Drafts
      BY <3>1, <3>3 DEF Taken
    <3>4. QED  BY <3>2, <3>3
  <2>2. ASSUME NEW d \in Boxes PROVE box'[d].live = box[d].live
    BY <1>2 DEF BoxRow, Taken
  <2>3. QED  BY <1>1, <2>1, <2>2
<1>7. /\ Record(Drafts, {draft.uid}, n) \in SUBSET (Boxes \X Nat \X Nat)
      /\ \A r \in Record(Drafts, {draft.uid}, n) : r[1] = Drafts /\ r[2] = draft.uid
      /\ (\A k \in Nat : <<Drafts, draft.uid, k>> \notin expunged) =>
            <<Drafts, draft.uid, n>> \in Record(Drafts, {draft.uid}, n)
  <2>1. {draft.uid} \in SUBSET Nat
    BY <1>3
  <2>2. Drafts \in Boxes /\ n \in Nat
    BY <1>2
  <2>3. /\ Record(Drafts, {draft.uid}, n) \in SUBSET (Boxes \X Nat \X Nat)
        /\ \A r \in Record(Drafts, {draft.uid}, n) : r[1] = Drafts /\ r[2] \in {draft.uid}
        /\ \A u \in {draft.uid} : (\A k \in Nat : <<Drafts, u, k>> \notin expunged) =>
              <<Drafts, u, n>> \in Record(Drafts, {draft.uid}, n)
    BY <2>1, <2>2, Recorded
  <2>4. QED  BY <2>3
<1>8. \A k \in Messages :
        /\ k = m => msg'[k] = Nowhere
        /\ k \in N => /\ msg'[k] \in MsgRow /\ msg'[k].box = Drafts
                      /\ msg'[k].uid = box[Drafts].next /\ msg'[k].modseq = box[Drafts].hm + 1
        /\ k # m /\ k \notin N => msg'[k] = msg[k]
  <2>1. Filed(Drafts, "clear") = [box |-> Drafts, uid |-> box[Drafts].next,
                                  modseq |-> box[Drafts].hm + 1, flag |-> "clear"]
    BY DEF Filed, NextUid
  <2>2. Filed(Drafts, "clear") \in MsgRow
    BY <1>2, <2>1 DEF MsgRow, Flag
  <2>3. /\ Filed(Drafts, "clear").box = Drafts
        /\ Filed(Drafts, "clear").uid = box[Drafts].next
        /\ Filed(Drafts, "clear").modseq = box[Drafts].hm + 1
    BY <2>1
  <2>4. \A k \in Messages :
          msg'[k] = IF k = m THEN Nowhere
                    ELSE IF k \in N THEN Filed(Drafts, "clear") ELSE msg[k]
    BY DEF m, Taken
  <2>5. QED  BY <1>4, <2>2, <2>3, <2>4
<1>9. Tables'
  <2>1. msg' \in [Messages -> MsgRow]
    <3>1. Nowhere \in MsgRow
      BY DEF MsgRow, Nowhere, Flag
    <3>2. \A k \in Messages : msg'[k] \in MsgRow
      BY <1>2, <1>8, <3>1
    <3>3. QED  BY <1>1, <3>2
  <2>2. expunged' \in SUBSET (Boxes \X Nat \X Nat)
    BY <1>1, <1>7 DEF SInv, Tables
  <2>3. astray' \in SUBSET ((Boxes \union {NoBox}) \X Nat)
    BY <1>1, <1>4 DEF SInv, Tables
  <2>4. QED  BY <1>1, <1>6, <2>1, <2>2, <2>3 DEF SInv, Tables
<1>10. Standing'
  <2>1. \A r \in expunged' : r \in expunged \/ box[r[1]].live
    BY <1>1, <1>5, <1>7
  <2>2. \A a \in astray' : a \in astray \/ box[a[1]].live
    BY <1>1, <1>5
  <2>3. \A d \in Boxes : box'[d].live = box[d].live
    BY <1>6
  <2>4. \A k \in Messages : \/ msg'[k] = msg[k] \/ msg'[k] = Nowhere
                            \/ msg'[k].box \in Boxes /\ box[msg'[k].box].live
    BY <1>2, <1>5, <1>8
  <2>5. QED  BY <2>1, <2>2, <2>3, <2>4, StandingKept
<1>11. Numbered'
  <2>1. ASSUME NEW d \in Boxes, NEW k \in In(d)'
        PROVE  /\ k \in Messages /\ k # m
               /\ k \in N => /\ d = Drafts /\ msg'[k].uid = box[d].next
                             /\ msg'[k].modseq = box[d].hm + 1
               /\ k \notin N => k \in In(d) /\ msg'[k] = msg[k]
    <3>1. k \in Messages /\ msg'[k].box = d /\ d # NoBox
      BY <2>1, MailStoreAssumption DEF In
    <3>2. QED  BY <1>2, <1>8, <3>1 DEF In
  <2>2. ASSUME NEW d \in Boxes, NEW k \in In(d)', NEW j \in In(d)', msg'[k].uid = msg'[j].uid
        PROVE  k = j
    <3>1. CASE k \in N /\ j \in N
      BY <1>1, <3>1
    <3>2. CASE k \notin N /\ j \notin N
      BY <2>1, <2>2, <3>2 DEF SInv, Numbered
    <3>3. CASE k \in N /\ j \notin N
      BY <1>1, <2>1, <2>2, <3>3
    <3>4. CASE k \notin N /\ j \in N
      BY <1>1, <2>1, <2>2, <3>4
    <3>5. QED  BY <3>1, <3>2, <3>3, <3>4
  <2>3. ASSUME NEW d \in Boxes, Counted(d)' PROVE Counted(d)
    BY <1>1, <2>3 DEF Counted, Sound
  <2>4. ASSUME NEW d \in Boxes, Counted(d)', NEW k \in In(d)'
        PROVE  msg'[k].uid > 0 /\ msg'[k].uid < box'[d].next /\ msg'[k].modseq <= box'[d].hm
    <3>1. CASE k \in N
      <4>1. i > 0 /\ d = Drafts /\ msg'[k].uid = box[d].next /\ msg'[k].modseq = box[d].hm + 1
        BY <1>1, <2>1, <2>4, <3>1
      <4>2. box'[d].next = box[d].next + i /\ box'[d].hm = n
        BY <1>6, <4>1
      <4>3. QED  BY <1>1, <1>2, <4>1, <4>2
    <3>2. CASE k \notin N
      <4>1. k \in In(d) /\ msg'[k] = msg[k] /\ k \in Messages
        BY <2>1, <2>4, <3>2
      <4>2. msg[k].uid > 0 /\ msg[k].uid < box[d].next /\ msg[k].modseq <= box[d].hm
        BY <2>3, <2>4, <4>1 DEF SInv, Numbered
      <4>3. box'[d].next >= box[d].next /\ box'[d].hm >= box[d].hm
            /\ box'[d].next \in Nat /\ box'[d].hm \in Nat
        BY <1>1, <1>2, <1>6
      <4>4. QED  BY <1>2, <4>1, <4>2, <4>3
    <3>3. QED  BY <3>1, <3>2
  <2>5. ASSUME NEW d \in Boxes, Counted(d)', NEW u \in Nat, NEW j \in Nat,
               <<d, u, j>> \in expunged'
        PROVE  u < box'[d].next /\ \A k \in In(d)' : msg'[k].uid # u
    <3>1. u < box[d].next /\ \A k \in In(d) : k # m => msg[k].uid # u
      <4>1. CASE <<d, u, j>> \in expunged
        BY <2>3, <2>5, <4>1 DEF SInv, Numbered
      <4>2. CASE <<d, u, j>> \notin expunged
        <5>1. d = Drafts /\ u = draft.uid
          BY <1>1, <1>7, <2>5, <4>2
        <5>2. QED  BY <1>3, <5>1
      <4>3. QED  BY <4>1, <4>2
    <3>2. u < box'[d].next
      BY <1>2, <1>6, <3>1
    <3>3. ASSUME NEW k \in In(d)' PROVE msg'[k].uid # u
      BY <1>2, <2>1, <3>1, <3>3
    <3>4. QED  BY <3>2, <3>3
  <2>6. QED  BY <2>2, <2>4, <2>5 DEF Numbered
<1>12. Drafted'
  BY <1>1 DEF Drafted
<1>13. ASSUME NEW d \in Boxes PROVE Contract(d)
  <2>1. ASSUME NEW k \in RowsOf(msg', d), msg'[k] # msg[k]
        PROVE  /\ box'[d].hm > box[d].hm
               /\ msg'[k].modseq > box[d].hm /\ msg'[k].modseq <= box'[d].hm
               /\ msg'[k].uid >= box[d].next
    <3>1. k \in Messages /\ msg'[k].box = d /\ d # NoBox
      BY <2>1, MailStoreAssumption DEF RowsOf
    <3>2. k \in N /\ d = Drafts
      BY <1>2, <1>8, <2>1, <3>1
    <3>3. QED  BY <1>1, <1>2, <1>6, <1>8, <3>1, <3>2
  <2>2. ASSUME <<d, 0>> \notin astray', NEW k \in RowsOf(msg, d)
        PROVE  \/ msg'[k].box = d /\ msg'[k].uid = msg[k].uid
               \/ /\ box'[d].hm > box[d].hm
                  /\ Missed(expunged', astray', d, msg[k].uid, box[d].hm)
    <3>1. k \in Messages /\ msg[k].box = d /\ d # NoBox /\ k \notin N
      BY <1>1, <1>2, <2>2, MailStoreAssumption DEF RowsOf
    <3>2. CASE k # m
      BY <1>8, <3>1, <3>2
    <3>3. CASE k = m
      <4>1. d = Drafts /\ msg[k].uid = draft.uid /\ astray' = astray /\ k \in In(Drafts)
        BY <1>1, <2>2, <3>1, <3>3 DEF In
      <4>2. \A j \in Nat : <<Drafts, draft.uid, j>> \notin expunged
        BY <1>2, <1>3, <2>2, <4>1 DEF SInv, Numbered, Counted, Sound
      <4>3. <<d, msg[k].uid, n>> \in expunged'
        BY <1>1, <1>7, <4>1, <4>2
      <4>4. box'[d].hm = n
        BY <1>6, <4>1
      <4>5. QED  BY <1>1, <4>1, <4>3, <4>4 DEF Missed
    <3>4. QED  BY <3>2, <3>3
  <2>3. box'[d].hm >= box[d].hm
    BY <1>1, <1>2, <1>6
  <2>4. box'[d].live = box[d].live
    BY <1>6
  <2>5. box'[d].val = box[d].val /\ box[d].val \in Nat /\ box'[d].next >= box[d].next
    BY <1>2, <1>6
  <2>6. astray \subseteq astray' /\ expunged \subseteq expunged'
    BY <1>1
  <2>7. QED  BY <2>1, <2>2, <2>3, <2>4, <2>5, <2>6, ContractKept
<1>14. QED  BY <1>9, <1>10, <1>11, <1>12, <1>13 DEF SInv, Kept

(* The draft is discarded or sent.                                         *)
LEMMA RemoveDraftKeeps ==
    ASSUME SInv, RemoveDraft
    PROVE  Kept
<1> DEFINE n == box[Drafts].hm + 1
           i == 0
           N == {}
<1>1. /\ draft # NoDraft /\ draft.of # NoBox /\ draft' = NoDraft /\ source' = source
      /\ expunged' = expunged \union Record(Drafts, {draft.uid}, n)
      /\ astray' = IF msg[draft.of].box = Drafts /\ msg[draft.of].uid = draft.uid
                   THEN astray ELSE astray \union {<<msg[draft.of].box, 0>>}
      /\ msg' = [msg EXCEPT ![draft.of] = Nowhere]
      /\ box' = [box EXCEPT ![Drafts].hm = n]
  BY DEF RemoveDraft, RemoveMessage
<1>2. /\ box \in [Boxes -> BoxRow] /\ msg \in [Messages -> MsgRow] /\ Drafts \in Boxes
      /\ n \in Nat /\ n > box[Drafts].hm
  BY DEF SInv, Tables, BoxRow, Boxes
<1>3. msg' = [k \in Messages |-> IF k = draft.of THEN Nowhere
                                 ELSE IF k \in N THEN Filed(Drafts, "clear") ELSE msg[k]]
  BY <1>1, <1>2
<1>4. box' = [d \in Boxes |-> IF d = Drafts
                THEN [box[d] EXCEPT !.next = box[d].next + i, !.hm = n] ELSE box[d]]
  <2>1. ASSUME NEW r \in BoxRow
        PROVE  [r EXCEPT !.next = r.next + 0, !.hm = n] = [r EXCEPT !.hm = n]
    <3>1. r.next + 0 = r.next
      BY DEF BoxRow
    <3>2. [r EXCEPT !.next = r.next, !.hm = n] = [r EXCEPT !.hm = n]
      BY DEF BoxRow
    <3>3. QED  BY <3>1, <3>2
  <2>2. [box[Drafts] EXCEPT !.next = box[Drafts].next + i, !.hm = n]
          = [box[Drafts] EXCEPT !.hm = n]
    <3>1. box[Drafts] \in BoxRow
      BY <1>2
    <3>2. QED  BY <2>1, <3>1 DEF i
  <2>3. box' = [d \in Boxes |-> IF d = Drafts THEN [box[Drafts] EXCEPT !.hm = n] ELSE box[d]]
    BY <1>1, <1>2
  <2>4. QED  BY <2>2, <2>3
<1>5. N \in SUBSET Messages /\ i \in Nat /\ N = {}
  OBVIOUS
<1> HIDE DEF n, i, N
<1>6. Taken(N, i, n)
  BY <1>1, <1>2, <1>3, <1>4, <1>5 DEF Taken
<1>7. QED  BY <1>2, <1>5, <1>6, DraftTaken

(* The draft is replaced.                                                  *)
LEMMA SaveDraftKeeps ==
    ASSUME SInv, NEW m \in Messages, SaveDraft(m)
    PROVE  Kept
<1> DEFINE n == box[Drafts].hm + 2
           i == 1
           N == {m}
<1>1. /\ draft # NoDraft /\ draft.of # NoBox /\ draft' = NoDraft /\ source' = source
      /\ expunged' = expunged \union Record(Drafts, {draft.uid}, n)
      /\ astray' = IF msg[draft.of].box = Drafts /\ msg[draft.of].uid = draft.uid
                   THEN astray ELSE astray \union {<<msg[draft.of].box, 0>>}
      /\ msg' = [msg EXCEPT ![m] = Filed(Drafts, "clear"), ![draft.of] = Nowhere]
      /\ box' = [box EXCEPT ![Drafts].next = box[Drafts].next + i, ![Drafts].hm = n]
      /\ msg[m] = Nowhere
      /\ \A k \in In(Drafts) : msg[k].uid # box[Drafts].next
  BY DEF SaveDraft, RemoveMessage, MayFile, NextUid, Uids
<1>2. /\ box \in [Boxes -> BoxRow] /\ msg \in [Messages -> MsgRow] /\ Drafts \in Boxes
      /\ n \in Nat /\ n > box[Drafts].hm
  BY DEF SInv, Tables, BoxRow, Boxes
<1>3. draft.of # m
  BY <1>1 DEF SInv, Drafted, Nowhere
<1>4. msg' = [k \in Messages |-> IF k = draft.of THEN Nowhere
                                 ELSE IF k \in N THEN Filed(Drafts, "clear") ELSE msg[k]]
  BY <1>1, <1>2, <1>3
<1>5. box' = [d \in Boxes |-> IF d = Drafts
                THEN [box[d] EXCEPT !.next = box[d].next + i, !.hm = n] ELSE box[d]]
  BY <1>1, <1>2
<1>6. /\ N \in SUBSET Messages /\ i \in Nat /\ i > 0 /\ (\A k, j \in N : k = j)
      /\ \A k \in N : msg[k] = Nowhere
  BY <1>1
<1> HIDE DEF n, i, N
<1>7. Taken(N, i, n)
  BY <1>1, <1>2, <1>4, <1>5, <1>6 DEF Taken
<1>8. QED  BY <1>2, <1>6, <1>7, DraftTaken

(* The account's purge takes rows away without a word: the mailboxes they  *)
(* were in are astray.                                                     *)
LEMMA PurgeKeeps ==
    ASSUME SInv, NEW S \in SUBSET Present, Purge(S)
    PROVE  Kept
<1>1. /\ msg' = [k \in Messages |-> IF k \in S THEN Nowhere ELSE msg[k]]
      /\ astray' = astray \union {<<msg[k].box, 0>> : k \in S}
      /\ Lost(S) /\ box' = box /\ expunged' = expunged /\ source' = source
  BY DEF Purge
<1>2. /\ box \in [Boxes -> BoxRow] /\ msg \in [Messages -> MsgRow]
      /\ \A d \in Boxes : box[d].val \in Nat /\ box[d].next \in Nat \ {0} /\ box[d].hm \in Nat
      /\ Drafts \in Boxes /\ Nowhere.box = NoBox /\ Nowhere \in MsgRow
      /\ NoBox \notin Boxes /\ NoBox \notin Messages
  BY MailStoreAssumption DEF SInv, Tables, BoxRow, MsgRow, Boxes, Nowhere, Flag
<1>3. \A k \in S : k \in Messages /\ msg[k].box \in Boxes /\ box[msg[k].box].live
  <2>1. \A k \in S : k \in Messages /\ msg[k].box # NoBox
    BY DEF Present
  <2>2. \A k \in S : msg[k].box \in Boxes
    BY <1>2, <2>1 DEF MsgRow
  <2>3. QED  BY <2>1, <2>2 DEF SInv, Standing, In
<1>4. \A k \in Messages : /\ k \in S => msg'[k] = Nowhere
                          /\ k \notin S => msg'[k] = msg[k]
  BY <1>1
<1>5. Tables'
  <2>1. msg' \in [Messages -> MsgRow]
    BY <1>1, <1>2
  <2>2. astray' \in SUBSET ((Boxes \union {NoBox}) \X Nat)
    BY <1>1, <1>3 DEF SInv, Tables
  <2>3. QED  BY <1>1, <2>1, <2>2 DEF SInv, Tables
<1>6. Standing'
  <2>1. \A a \in astray' : a \in astray \/ box[a[1]].live
    BY <1>1, <1>3
  <2>2. \A k \in Messages : msg'[k] = msg[k] \/ msg'[k] = Nowhere
    BY <1>4
  <2>3. QED  BY <1>1, <2>1, <2>2, StandingKept
<1>7. Numbered'
  <2>1. ASSUME NEW d \in Boxes, NEW k \in In(d)'
        PROVE  k \in In(d) /\ msg'[k] = msg[k]
    BY <1>2, <1>4, <2>1 DEF In
  <2>2. ASSUME NEW d \in Boxes, Counted(d)' PROVE Counted(d)
    BY <1>1, <2>2 DEF Counted, Sound
  <2>3. ASSUME NEW d \in Boxes, NEW k \in In(d)', NEW j \in In(d)', msg'[k].uid = msg'[j].uid
        PROVE  k = j
    BY <2>1, <2>3 DEF SInv, Numbered
  <2>4. ASSUME NEW d \in Boxes, Counted(d)', NEW k \in In(d)'
        PROVE  msg'[k].uid > 0 /\ msg'[k].uid < box'[d].next /\ msg'[k].modseq <= box'[d].hm
    BY <1>1, <2>1, <2>2, <2>4 DEF SInv, Numbered
  <2>5. ASSUME NEW d \in Boxes, Counted(d)', NEW u \in Nat, NEW j \in Nat,
               <<d, u, j>> \in expunged'
        PROVE  u < box'[d].next /\ \A k \in In(d)' : msg'[k].uid # u
    BY <1>1, <2>1, <2>2, <2>5 DEF SInv, Numbered
  <2>6. QED  BY <2>3, <2>4, <2>5 DEF Numbered
<1>8. Drafted'
  <2>1. box'[Drafts].next >= box[Drafts].next /\ box'[Drafts].next \in Nat
    BY <1>1, <1>2
  <2>2. \A k \in Messages : msg'[k].box = Drafts =>
            msg[k].box = Drafts /\ msg'[k].uid = msg[k].uid
    BY <1>2, <1>4
  <2>3. draft' = draft \/ draft' = [draft EXCEPT !.of = NoBox]
    BY <1>1 DEF Lost
  <2>4. draft' = draft /\ draft.of \in Messages /\ msg[draft.of].box # NoBox =>
            msg'[draft.of].box # NoBox
    <3>1. ASSUME draft' = draft, draft.of \in S PROVE FALSE
      <4>1. draft # NoDraft /\ draft.of # NoBox
        BY <1>2, <1>3, <3>1 DEF NoDraft
      <4>2. draft = [of |-> draft.of, box |-> draft.box, uid |-> draft.uid]
        BY <4>1 DEF SInv, Drafted
      <4>3. draft = [draft EXCEPT !.of = NoBox]
        BY <1>1, <3>1 DEF Lost
      <4>4. QED  BY <4>1, <4>2, <4>3
    <3>2. QED  BY <1>4, <3>1
  <2>5. QED  BY <2>1, <2>2, <2>3, <2>4, DraftedKept
<1>9. ASSUME NEW d \in Boxes PROVE Contract(d)
  <2>1. ASSUME NEW k \in RowsOf(msg', d) PROVE msg'[k] = msg[k]
    BY <1>2, <1>4, <2>1 DEF RowsOf
  <2>2. ASSUME <<d, 0>> \notin astray', NEW k \in RowsOf(msg, d)
        PROVE  msg'[k].box = d /\ msg'[k].uid = msg[k].uid
    <3>1. k \notin S
      BY <1>1, <2>2 DEF RowsOf
    <3>2. QED  BY <1>4, <2>2, <3>1 DEF RowsOf
  <2>3. /\ box'[d].hm >= box[d].hm /\ box'[d].live = box[d].live
        /\ box'[d].val = box[d].val /\ box[d].val \in Nat /\ box'[d].next >= box[d].next
    BY <1>1, <1>2
  <2>4. astray \subseteq astray' /\ expunged \subseteq expunged'
    BY <1>1
  <2>5. QED  BY <2>1, <2>2, <2>3, <2>4, ContractKept
<1>10. QED  BY <1>5, <1>6, <1>7, <1>8, <1>9 DEF SInv, Kept

(* CREATE makes a mailbox where there was none, with a UIDVALIDITY of its  *)
(* own.                                                                    *)
LEMMA CreateKeeps ==
    ASSUME SInv, Create
    PROVE  Kept
<1>1. /\ ~ box[Folder].live
      /\ box' = [box EXCEPT ![Folder] = NewFolder(1, 0)]
      /\ UNCHANGED <<msg, expunged, draft, source, astray>>
  BY DEF Create, MayCreate, Exists
<1>2. /\ box \in [Boxes -> BoxRow] /\ Folder \in Boxes /\ Drafts \in Boxes /\ Drafts # Folder
      /\ NewFolder(1, 0) = [live |-> TRUE, val |-> box[Folder].val + 1, next |-> 1, hm |-> 0]
      /\ \A d \in Boxes : box[d].val \in Nat /\ box[d].next \in Nat \ {0} /\ box[d].hm \in Nat
  BY MailStoreAssumption DEF SInv, Tables, BoxRow, Boxes, NewFolder
<1>3. /\ \A d \in Boxes : d # Folder => box'[d] = box[d]
      /\ box'[Folder] = [live |-> TRUE, val |-> box[Folder].val + 1, next |-> 1, hm |-> 0]
  BY <1>1, <1>2
<1>4. /\ In(Folder) = {} /\ \A r \in expunged : r[1] # Folder
  BY <1>1 DEF SInv, Standing
<1>5. Tables'
  <2>1. box'[Folder] \in BoxRow
    BY <1>2, <1>3 DEF BoxRow
  <2>2. box' \in [Boxes -> BoxRow]
    BY <1>1, <1>2, <2>1
  <2>3. QED  BY <1>1, <2>2 DEF SInv, Tables
<1>6. Standing'
  BY <1>1, <1>3 DEF SInv, Standing
<1>7. Numbered'
  <2>1. ASSUME NEW d \in Boxes PROVE In(d)' = In(d) /\ (Counted(d)' <=> Counted(d))
    BY <1>1 DEF In, Counted, Sound
  <2>2. ASSUME NEW d \in Boxes, d # Folder PROVE box'[d] = box[d]
    BY <1>3, <2>2
  <2>3. ASSUME NEW d \in Boxes, Counted(d)', NEW k \in In(d)'
        PROVE  msg'[k].uid > 0 /\ msg'[k].uid < box'[d].next /\ msg'[k].modseq <= box'[d].hm
    BY <1>1, <1>4, <2>1, <2>2, <2>3 DEF SInv, Numbered
  <2>4. ASSUME NEW d \in Boxes, Counted(d)', NEW u \in Nat, NEW j \in Nat,
               <<d, u, j>> \in expunged'
        PROVE  u < box'[d].next /\ \A k \in In(d)' : msg'[k].uid # u
    BY <1>1, <1>4, <2>1, <2>2, <2>4 DEF SInv, Numbered
  <2>5. QED  BY <1>1, <2>1, <2>3, <2>4 DEF SInv, Numbered
<1>8. Drafted'
  BY <1>1, <1>2, <1>3 DEF SInv, Drafted, In
<1>9. ASSUME NEW d \in Boxes PROVE Contract(d)
  <2>1. CASE d = Folder
    BY <1>1, <1>2, <1>3, <2>1 DEF Contract
  <2>2. CASE d # Folder
    <3>1. box'[d] = box[d] /\ msg' = msg /\ expunged' = expunged /\ astray' = astray
      BY <1>1, <1>3, <2>2
    <3>2. /\ box'[d].val \in Nat /\ box'[d].hm >= box[d].hm /\ box'[d].next >= box[d].next
      BY <1>2, <3>1
    <3>3. QED  BY <3>1, <3>2, ContractKept DEF RowsOf
  <2>3. QED  BY <2>1, <2>2
<1>10. QED  BY <1>5, <1>6, <1>7, <1>8, <1>9 DEF SInv, Kept

(* DELETE takes the messages and the records of the mailbox with it.       *)
LEMMA DeleteMailboxKeeps ==
    ASSUME SInv, DeleteMailbox
    PROVE  Kept
<1>1. /\ box[Folder].live
      /\ box' = [box EXCEPT ![Folder].live = FALSE, ![Folder].next = 1, ![Folder].hm = 0]
      /\ msg' = [m \in Messages |-> IF m \in In(Folder) THEN Nowhere ELSE msg[m]]
      /\ expunged' = {r \in expunged : r[1] # Folder}
      /\ astray' = {a \in astray : a[1] # Folder}
      /\ Lost(In(Folder)) /\ source' = source
  BY DEF DeleteMailbox, Exists
<1>2. /\ box \in [Boxes -> BoxRow] /\ Folder \in Boxes /\ Drafts \in Boxes /\ Drafts # Folder
      /\ msg \in [Messages -> MsgRow] /\ Nowhere \in MsgRow
      /\ \A d \in Boxes : box[d].val \in Nat /\ box[d].next \in Nat \ {0} /\ box[d].hm \in Nat
      /\ Nowhere.box = NoBox /\ NoBox \notin Boxes /\ NoBox \notin Messages
  BY MailStoreAssumption DEF SInv, Tables, BoxRow, MsgRow, Boxes, Nowhere, Flag
<1>3. /\ \A d \in Boxes : d # Folder => box'[d] = box[d]
      /\ box'[Folder] = [box[Folder] EXCEPT !.live = FALSE, !.next = 1, !.hm = 0]
  BY <1>1, <1>2
<1>4. box'[Folder] \in BoxRow /\ ~ box'[Folder].live /\ box'[Folder].val = box[Folder].val
  <2>1. box[Folder] \in BoxRow
    BY <1>2
  <2>2. box'[Folder].val = box[Folder].val
    BY <1>3, <2>1 DEF BoxRow
  <2>3. box'[Folder].live = FALSE
    BY <1>3, <2>1 DEF BoxRow
  <2>4. box'[Folder] \in BoxRow
    <3>1. box'[Folder] = [live |-> FALSE, val |-> box[Folder].val, next |-> 1, hm |-> 0]
      BY <1>3, <2>1 DEF BoxRow
    <3>2. QED  BY <2>1, <3>1 DEF BoxRow
  <2>5. QED  BY <2>2, <2>3, <2>4
<1>5. \A m \in Messages : /\ msg[m].box = Folder => msg'[m] = Nowhere
                          /\ msg[m].box # Folder => msg'[m] = msg[m]
  BY <1>1 DEF In
<1>6. Tables'
  <2>1. box' \in [Boxes -> BoxRow]
    BY <1>1, <1>2, <1>4
  <2>2. msg' \in [Messages -> MsgRow]
    BY <1>1, <1>2
  <2>3. QED  BY <1>1, <2>1, <2>2 DEF SInv, Tables
<1>7. Standing'
  <2>1. \A d \in Boxes : d # Folder => box'[d].live
    BY <1>3 DEF SInv, Standing
  <2>2. In(Folder)' = {}
    BY <1>2, <1>5 DEF In
  <2>3. \A m \in Messages : msg'[m].box = NoBox => msg'[m] = Nowhere
    BY <1>5 DEF SInv, Standing
  <2>4. QED  BY <1>1, <2>1, <2>2, <2>3 DEF Standing
<1>8. Numbered'
  <2>1. ASSUME NEW d \in Boxes, NEW k \in In(d)'
        PROVE  k \in In(d) /\ d # Folder /\ msg'[k] = msg[k]
    BY <1>2, <1>5, <2>1 DEF In
  <2>2. ASSUME NEW d \in Boxes, NEW k \in In(d)', NEW j \in In(d)', msg'[k].uid = msg'[j].uid
        PROVE  k = j
    BY <2>1, <2>2 DEF SInv, Numbered
  <2>3. ASSUME NEW d \in Boxes, d # Folder PROVE box'[d] = box[d] /\ Counted(d)
    BY <1>3, <2>3 DEF Counted
  <2>4. ASSUME NEW d \in Boxes, Counted(d)', NEW k \in In(d)'
        PROVE  msg'[k].uid > 0 /\ msg'[k].uid < box'[d].next /\ msg'[k].modseq <= box'[d].hm
    BY <2>1, <2>3, <2>4 DEF SInv, Numbered
  <2>5. ASSUME NEW d \in Boxes, Counted(d)', NEW u \in Nat, NEW j \in Nat,
               <<d, u, j>> \in expunged'
        PROVE  u < box'[d].next /\ \A k \in In(d)' : msg'[k].uid # u
    <3>1. d # Folder /\ <<d, u, j>> \in expunged
      BY <1>1, <2>5
    <3>2. QED  BY <2>1, <2>3, <3>1 DEF SInv, Numbered
  <2>6. QED  BY <2>2, <2>4, <2>5 DEF Numbered
<1>9. Drafted'
  <2>1. box'[Drafts].next >= box[Drafts].next /\ box'[Drafts].next \in Nat
    BY <1>2, <1>3
  <2>2. \A k \in Messages : msg'[k].box = Drafts =>
            msg[k].box = Drafts /\ msg'[k].uid = msg[k].uid
    BY <1>2, <1>5
  <2>3. draft' = draft \/ draft' = [draft EXCEPT !.of = NoBox]
    BY <1>1 DEF Lost
  <2>4. draft' = draft /\ draft.of \in Messages /\ msg[draft.of].box # NoBox =>
            msg'[draft.of].box # NoBox
    <3>1. ASSUME draft' = draft, draft.of \in In(Folder) PROVE FALSE
      <4>1. draft # NoDraft /\ draft.of # NoBox
        BY <1>2, <3>1 DEF NoDraft, In
      <4>2. draft = [of |-> draft.of, box |-> draft.box, uid |-> draft.uid]
        BY <4>1 DEF SInv, Drafted
      <4>3. draft = [draft EXCEPT !.of = NoBox]
        BY <1>1, <3>1 DEF Lost
      <4>4. QED  BY <4>1, <4>2, <4>3
    <3>2. QED  BY <1>5, <3>1 DEF In
  <2>5. QED  BY <2>1, <2>2, <2>3, <2>4, DraftedKept
<1>10. ASSUME NEW d \in Boxes PROVE Contract(d)
  <2>1. CASE d = Folder
    BY <1>1, <1>2, <1>4, <2>1 DEF Contract
  <2>2. CASE d # Folder
    <3>1. box'[d] = box[d] /\ box[d].live
      BY <1>3, <2>2 DEF SInv, Standing
    <3>2. /\ \A m \in RowsOf(msg', d) : msg'[m] = msg[m]
          /\ \A m \in RowsOf(msg, d) : msg'[m] = msg[m]
      BY <1>2, <1>5, <2>2 DEF RowsOf
    <3>3. /\ \A u : <<d, u>> \in astray <=> <<d, u>> \in astray'
          /\ \A u, n : <<d, u, n>> \in expunged => <<d, u, n>> \in expunged'
      BY <1>1, <2>2
    <3>4. QED  BY <1>2, <3>1, <3>2, <3>3 DEF Contract, RowsOf
  <2>3. QED  BY <2>1, <2>2
<1>11. QED  BY <1>6, <1>7, <1>8, <1>9, <1>10 DEF SInv, Kept

(* RENAME of INBOX: the new mailbox has the counters of INBOX as they were *)
(* read, and is sound if they still are; INBOX records every message.      *)
LEMMA RenameInboxKeeps ==
    ASSUME SInv, RenameInbox, ~ box[Folder].live
    PROVE  Kept
<1> DEFINE n == box[Inbox].hm + 1
<1>1. /\ box' = [box EXCEPT ![Folder] = NewFolder(source.next, source.hm), ![Inbox].hm = n]
      /\ msg' = [m \in Messages |-> IF m \in In(Inbox)
                   THEN [msg[m] EXCEPT !.box = Folder] ELSE msg[m]]
      /\ expunged' = expunged \union Record(Inbox, Uids(Inbox), n)
      /\ astray' = IF source = box[Inbox] THEN astray ELSE astray \union {<<Folder, 0>>}
      /\ source' = NoSource /\ draft' = draft
  BY DEF RenameInbox, Exists
<1>2. /\ box \in [Boxes -> BoxRow] /\ Folder \in Boxes /\ Inbox \in Boxes /\ Drafts \in Boxes
      /\ Inbox # Folder /\ Drafts # Folder /\ Drafts # Inbox
      /\ msg \in [Messages -> MsgRow] /\ n \in Nat /\ n > box[Inbox].hm
      /\ \A d \in Boxes : box[d].val \in Nat /\ box[d].next \in Nat \ {0} /\ box[d].hm \in Nat
      /\ \A k \in Messages : msg[k].uid \in Nat /\ msg[k].modseq \in Nat
      /\ NoBox \notin Boxes
      /\ source \in BoxRow /\ source.next \in Nat \ {0} /\ source.hm \in Nat
  BY MailStoreAssumption DEF SInv, Tables, BoxRow, MsgRow, Boxes
<1>3. /\ \A d \in Boxes : d # Folder /\ d # Inbox => box'[d] = box[d]
      /\ box'[Inbox] = [box[Inbox] EXCEPT !.hm = n]
      /\ box'[Folder] = [live |-> TRUE, val |-> box[Folder].val + 1, next |-> source.next,
                         hm |-> source.hm]
  BY <1>1, <1>2 DEF NewFolder
<1>4. /\ In(Folder) = {} /\ \A r \in expunged : r[1] # Folder
  BY DEF SInv, Standing
<1>5. \A m \in Messages :
          /\ msg[m].box = Inbox => /\ msg'[m].box = Folder /\ msg'[m].uid = msg[m].uid
                                   /\ msg'[m].modseq = msg[m].modseq /\ msg'[m] \in MsgRow
          /\ msg[m].box # Inbox => msg'[m] = msg[m]
  BY <1>1, <1>2 DEF In, MsgRow
<1> HIDE DEF n
<1>6. /\ box'[Inbox] \in BoxRow /\ box'[Inbox].val = box[Inbox].val /\ box'[Inbox].hm = n
      /\ box'[Inbox].next = box[Inbox].next
  BY <1>2, <1>3 DEF BoxRow
<1>7. box'[Inbox].live = box[Inbox].live
  BY <1>2, <1>3 DEF BoxRow
<1>8. /\ Record(Inbox, Uids(Inbox), n) \in SUBSET (Boxes \X Nat \X Nat)
      /\ \A r \in Record(Inbox, Uids(Inbox), n) : r[1] = Inbox /\ r[2] \in Uids(Inbox)
      /\ \A u \in Uids(Inbox) : (\A k \in Nat : <<Inbox, u, k>> \notin expunged) =>
            <<Inbox, u, n>> \in Record(Inbox, Uids(Inbox), n)
  <2>1. Uids(Inbox) \in SUBSET Nat
    BY <1>2 DEF Uids, In
  <2>2. Inbox \in Boxes /\ n \in Nat
    BY <1>2
  <2>3. QED  BY <2>1, <2>2, Recorded
<1>9. Tables'
  <2>1. box'[Folder] \in BoxRow
    BY <1>2, <1>3 DEF BoxRow
  <2>2. box' \in [Boxes -> BoxRow]
    <3>1. \A d \in Boxes : box'[d] \in BoxRow
      BY <1>2, <1>3, <1>6, <2>1
    <3>2. box' = [d \in Boxes |-> box'[d]]
      BY <1>1, <1>2
    <3>3. QED  BY <3>1, <3>2
  <2>3. msg' \in [Messages -> MsgRow]
    <3>1. \A m \in Messages : msg'[m] \in MsgRow
      BY <1>2, <1>5
    <3>2. QED  BY <1>1, <3>1
  <2>4. expunged' \in SUBSET (Boxes \X Nat \X Nat)
    BY <1>1, <1>8 DEF SInv, Tables
  <2>5. astray' \in SUBSET ((Boxes \union {NoBox}) \X Nat)
    BY <1>1, <1>2 DEF SInv, Tables
  <2>6. NoSource \in BoxRow
    BY DEF NoSource, BoxRow
  <2>7. QED  BY <1>1, <2>2, <2>3, <2>4, <2>5, <2>6 DEF Tables
<1>10. Standing'
  <2>1. \A d \in Boxes : d # Folder => box'[d].live
    <3>1. box[Inbox].live
      BY <1>2 DEF SInv, Standing
    <3>2. box'[Inbox].live
      BY <1>7, <3>1
    <3>3. QED  BY <1>3, <3>2 DEF SInv, Standing
  <2>2. \A m \in Messages : msg'[m].box = NoBox => msg'[m] = Nowhere
    BY <1>2, <1>5 DEF SInv, Standing
  <2>3. box'[Folder].live
    BY <1>3
  <2>4. QED  BY <2>1, <2>2, <2>3 DEF Standing
<1>11. Numbered'
  <2>1. ASSUME NEW d \in Boxes, NEW k \in In(d)'
        PROVE  /\ d # Inbox /\ k \in Messages
               /\ d = Folder => /\ k \in In(Inbox) /\ msg'[k].uid = msg[k].uid
                                /\ msg'[k].modseq = msg[k].modseq
               /\ d # Folder => k \in In(d) /\ msg'[k] = msg[k]
    <3>1. k \in Messages /\ msg'[k].box = d
      BY <2>1 DEF In
    <3>2. QED  BY <1>2, <1>4, <1>5, <3>1 DEF In
  <2>2. ASSUME NEW d \in Boxes, NEW k \in In(d)', NEW j \in In(d)', msg'[k].uid = msg'[j].uid
        PROVE  k = j
    <3>1. CASE d = Folder
      BY <1>2, <2>1, <2>2, <3>1 DEF SInv, Numbered
    <3>2. CASE d # Folder
      BY <2>1, <2>2, <3>2 DEF SInv, Numbered
    <3>3. QED  BY <3>1, <3>2
  <2>3. ASSUME NEW d \in Boxes, Counted(d)', NEW k \in In(d)'
        PROVE  msg'[k].uid > 0 /\ msg'[k].uid < box'[d].next /\ msg'[k].modseq <= box'[d].hm
    <3>1. CASE d = Folder
      <4>1. source = box[Inbox]
        BY <1>1, <2>3, <3>1 DEF Counted, Sound
      <4>2. k \in In(Inbox) /\ msg'[k].uid = msg[k].uid /\ msg'[k].modseq = msg[k].modseq
        BY <2>1, <2>3, <3>1
      <4>3. msg[k].uid > 0 /\ msg[k].uid < box[Inbox].next /\ msg[k].modseq <= box[Inbox].hm
        BY <1>2, <4>2 DEF SInv, Numbered, Counted
      <4>4. QED  BY <1>3, <3>1, <4>1, <4>2, <4>3
    <3>2. CASE d # Folder
      <4>1. k \in In(d) /\ msg'[k] = msg[k] /\ box'[d] = box[d]
        BY <1>3, <2>1, <2>3, <3>2
      <4>2. QED  BY <3>2, <4>1 DEF SInv, Numbered, Counted
    <3>3. QED  BY <3>1, <3>2
  <2>4. ASSUME NEW d \in Boxes, Counted(d)', NEW u \in Nat, NEW j \in Nat,
               <<d, u, j>> \in expunged'
        PROVE  u < box'[d].next /\ \A k \in In(d)' : msg'[k].uid # u
    <3>1. d # Folder
      BY <1>1, <1>2, <1>4, <1>8, <2>4
    <3>2. box'[d].next = box[d].next /\ \A k \in In(d)' : k \in In(d) /\ msg'[k] = msg[k]
      BY <1>3, <1>6, <2>1, <3>1
    <3>3. CASE <<d, u, j>> \in expunged
      BY <3>1, <3>2, <3>3 DEF SInv, Numbered, Counted
    <3>4. CASE <<d, u, j>> \notin expunged
      <4>1. d = Inbox /\ u \in Uids(Inbox)
        BY <1>1, <1>8, <2>4, <3>4
      <4>2. u < box[Inbox].next
        BY <1>2, <4>1 DEF SInv, Numbered, Counted, Uids
      <4>3. QED  BY <2>1, <3>2, <4>1, <4>2
    <3>5. QED  BY <3>3, <3>4
  <2>5. QED  BY <2>2, <2>3, <2>4 DEF Numbered
<1>12. Drafted'
  <2>1. box'[Drafts].next >= box[Drafts].next /\ box'[Drafts].next \in Nat
    BY <1>2, <1>3
  <2>2. \A k \in Messages : msg'[k].box = Drafts =>
            msg[k].box = Drafts /\ msg'[k].uid = msg[k].uid
    BY <1>2, <1>5
  <2>3. \A k \in Messages : msg[k].box # NoBox => msg'[k].box # NoBox
    BY <1>2, <1>5
  <2>4. QED  BY <1>1, <2>1, <2>2, <2>3, DraftedKept
<1>13. ASSUME NEW d \in Boxes PROVE Contract(d)
  <2>1. CASE d = Folder
    BY <1>2, <1>3, <2>1 DEF Contract
  <2>2. CASE d # Folder
    <3>1. \A m \in RowsOf(msg', d) : msg'[m] = msg[m]
      BY <1>5, <2>2 DEF RowsOf
    <3>2. ASSUME <<d, 0>> \notin astray', NEW m \in RowsOf(msg, d)
          PROVE  \/ msg'[m].box = d /\ msg'[m].uid = msg[m].uid
                 \/ /\ box'[d].hm > box[d].hm
                    /\ Missed(expunged', astray', d, msg[m].uid, box[d].hm)
      <4>1. CASE d # Inbox
        BY <1>5, <3>2, <4>1 DEF RowsOf
      <4>2. CASE d = Inbox
        <5>1. m \in In(Inbox) /\ msg[m].uid \in Uids(Inbox) /\ msg[m].uid \in Nat
          BY <1>2, <3>2, <4>2 DEF RowsOf, In, Uids
        <5>2. \A j \in Nat : <<Inbox, msg[m].uid, j>> \notin expunged
          BY <1>2, <5>1 DEF SInv, Numbered, Counted
        <5>3. <<d, msg[m].uid, n>> \in expunged'
          BY <1>1, <1>8, <4>2, <5>1, <5>2
        <5>4. QED  BY <1>2, <1>6, <4>2, <5>3 DEF Missed
      <4>3. QED  BY <4>1, <4>2
    <3>3. /\ box'[d].val = box[d].val /\ box'[d].next = box[d].next
          /\ box'[d].hm = IF d = Inbox THEN n ELSE box[d].hm
      <4>1. CASE d = Inbox
        BY <1>6, <4>1
      <4>2. CASE d # Inbox
        BY <1>3, <2>2, <4>2
      <4>3. QED  BY <4>1, <4>2
    <3>4. box'[d].live = box[d].live
      BY <1>3, <1>7, <2>2
    <3>5. /\ box[d].val \in Nat /\ box'[d].next >= box[d].next /\ box'[d].hm >= box[d].hm
      BY <1>2, <3>3
    <3>6. astray \subseteq astray' /\ expunged \subseteq expunged'
      BY <1>1
    <3>7. QED  BY <3>1, <3>2, <3>3, <3>4, <3>5, <3>6, ContractKept
  <2>3. QED  BY <2>1, <2>2
<1>14. QED  BY <1>9, <1>10, <1>11, <1>12, <1>13 DEF SInv, Kept

-----------------------------------------------------------------------------
(* What a session may rely on of a mailbox that stays the one it knows,    *)
(* whatever transaction runs: the contract, seen from the state after it.  *)
Ledger(b) ==
    /\ box[b].hm \in Nat /\ box'[b].hm \in Nat /\ box'[b].hm >= box[b].hm
    /\ box[b].next \in Nat /\ box'[b].next \in Nat /\ box'[b].next >= box[b].next
    /\ \A m \in RowsOf(msg', b) : msg'[m].uid \in Nat /\ msg'[m].modseq \in Nat
    /\ \A m \in RowsOf(msg', b) : msg'[m].uid < box[b].next =>
          /\ m \in RowsOf(msg, b) /\ msg[m].uid = msg'[m].uid
          /\ msg'[m] = msg[m] \/ msg'[m].modseq > box[b].hm
    /\ \A m \in RowsOf(msg', b) : msg'[m].modseq <= box[b].hm =>
          m \in RowsOf(msg, b) /\ msg'[m] = msg[m]
    /\ \A u : u \notin UidsOf(msg', b) =>
          \/ u \notin UidsOf(msg, b)
          \/ box'[b].hm > box[b].hm /\ Missed(expunged', astray', b, u, box[b].hm)
    /\ \A u, n : Missed(expunged, astray, b, u, n) => Missed(expunged', astray', b, u, n)
    /\ \A u : <<b, u>> \in astray => <<b, u>> \in astray'

(* A mailbox that is still the same after a transaction was so before.     *)
LEMMA LedgerKept ==
    ASSUME SInv, Kept, NEW b \in Boxes, NEW val \in Nat, val <= box[b].val,
           Same(box', astray', b, val)
    PROVE  Same(box, astray, b, val) /\ Ledger(b)
<1>1. Contract(b)
  BY DEF Kept
<1>2. /\ box[b].val \in Nat /\ box'[b].val \in Nat
      /\ box[b].hm \in Nat /\ box'[b].hm \in Nat /\ box[b].next \in Nat /\ box'[b].next \in Nat
      /\ \A m \in Messages : /\ msg'[m].uid \in Nat /\ msg'[m].modseq \in Nat
  BY DEF Kept, SInv, Tables, BoxRow, MsgRow
<1>3. box'[b].live /\ box'[b].val = val /\ <<b, 0>> \notin astray'
  BY DEF Same
<1>4. box[b].live
  BY <1>1, <1>2, <1>3 DEF Contract
<1>5. /\ box'[b].val = box[b].val /\ <<b, 0>> \notin astray
      /\ box'[b].hm >= box[b].hm /\ box'[b].next >= box[b].next
      /\ \A u : <<b, u>> \in astray => <<b, u>> \in astray'
      /\ \A u, n : <<b, u, n>> \in expunged => <<b, u, n>> \in expunged'
  BY <1>1, <1>3, <1>4 DEF Contract
<1>6. \A m \in RowsOf(msg', b) :
          \/ msg'[m] = msg[m]
          \/ /\ msg'[m].modseq > box[b].hm
             /\ \/ msg[m].box = b /\ msg'[m].uid = msg[m].uid
                \/ msg'[m].uid >= box[b].next
  BY <1>1, <1>3, <1>4 DEF Contract
<1>7. \A m \in RowsOf(msg, b) :
          \/ msg'[m].box = b /\ msg'[m].uid = msg[m].uid
          \/ /\ box'[b].hm > box[b].hm
             /\ Missed(expunged', astray', b, msg[m].uid, box[b].hm)
  BY <1>1, <1>3, <1>4 DEF Contract
<1>8. \A m \in RowsOf(msg', b) : msg'[m].uid < box[b].next =>
          /\ m \in RowsOf(msg, b) /\ msg[m].uid = msg'[m].uid
          /\ msg'[m] = msg[m] \/ msg'[m].modseq > box[b].hm
  BY <1>2, <1>6 DEF RowsOf
<1>9. \A m \in RowsOf(msg', b) : msg'[m].modseq <= box[b].hm =>
          m \in RowsOf(msg, b) /\ msg'[m] = msg[m]
  BY <1>2, <1>6 DEF RowsOf
<1>10. \A u : u \notin UidsOf(msg', b) =>
          \/ u \notin UidsOf(msg, b)
          \/ box'[b].hm > box[b].hm /\ Missed(expunged', astray', b, u, box[b].hm)
  BY <1>7 DEF RowsOf, UidsOf
<1>11. \A u, n : Missed(expunged, astray, b, u, n) => Missed(expunged', astray', b, u, n)
  BY <1>5 DEF Missed
<1>12. \A m \in RowsOf(msg', b) : msg'[m].uid \in Nat /\ msg'[m].modseq \in Nat
  BY <1>2 DEF RowsOf
<1>13. Same(box, astray, b, val)
  BY <1>3, <1>4, <1>5 DEF Same
<1>14. QED  BY <1>2, <1>5, <1>8, <1>9, <1>10, <1>11, <1>12, <1>13 DEF Ledger

(* A removal that is later than a modseq is later than a smaller one.      *)
LEMMA MissedSince ==
    ASSUME NEW ex, NEW as, NEW b, NEW u, NEW n \in Nat, NEW j \in Nat, j <= n,
           Missed(ex, as, b, u, n)
    PROVE  Missed(ex, as, b, u, j)
<1>1. CASE <<b, u>> \in as
  BY <1>1 DEF Missed
<1>2. ASSUME NEW k \in Nat, k > n, <<b, u, k>> \in ex
      PROVE  \E i \in Nat : i > j /\ <<b, u, i>> \in ex
  <2>1. k > j
    BY <1>2
  <2>2. QED  BY <1>2, <2>1
<1>3. QED  BY <1>1, <1>2 DEF Missed

(* A client that is not told of a transaction keeps what it may keep.      *)
LEMMA MemoryKept ==
    ASSUME SInv, Kept, NEW v, NEW c, Session(box, msg, expunged, astray, v, c)
    PROVE  Memory(box', msg', expunged', astray', c)
<1> SUFFICES ASSUME c.box # NoBox, Same(box', astray', c.box, c.val)
             PROVE  /\ c.hm <= box'[c.box].hm
                    /\ \A u \in DOMAIN c.told : u \in Nat /\ u < box'[c.box].next
                    /\ \A m \in RowsOf(msg', c.box) : msg'[m].uid \in DOMAIN c.told =>
                          /\ c.told[msg'[m].uid].m = m
                          /\ msg'[m].modseq <= c.hm =>
                                c.told[msg'[m].uid].flag \in {"unknown", msg'[m].flag}
                    /\ \A u \in DOMAIN c.told : u \notin UidsOf(msg', c.box) =>
                          Missed(expunged', astray', c.box, u, c.hm)
  BY DEF Memory, Remembers
<1>1. c.box \in Boxes /\ c.val \in Nat /\ c.val <= box[c.box].val /\ c.hm \in Nat
  BY DEF Session, Shaped
<1>2. Same(box, astray, c.box, c.val) /\ Ledger(c.box)
  BY <1>1, LedgerKept
<1>3. /\ c.hm <= box[c.box].hm
      /\ \A u \in DOMAIN c.told : u \in Nat /\ u < box[c.box].next
      /\ \A m \in RowsOf(msg, c.box) : msg[m].uid \in DOMAIN c.told =>
            /\ c.told[msg[m].uid].m = m
            /\ msg[m].modseq <= c.hm =>
                  c.told[msg[m].uid].flag \in {"unknown", msg[m].flag}
      /\ \A u \in DOMAIN c.told : u \notin UidsOf(msg, c.box) =>
            Missed(expunged, astray, c.box, u, c.hm)
  BY <1>2 DEF Session, Memory, Remembers
<1>4. c.hm <= box'[c.box].hm /\ \A u \in DOMAIN c.told : u \in Nat /\ u < box'[c.box].next
  BY <1>1, <1>2, <1>3 DEF Ledger
<1>5. ASSUME NEW m \in RowsOf(msg', c.box), msg'[m].uid \in DOMAIN c.told
      PROVE  /\ c.told[msg'[m].uid].m = m
             /\ msg'[m].modseq <= c.hm =>
                   c.told[msg'[m].uid].flag \in {"unknown", msg'[m].flag}
  <2>1. /\ m \in RowsOf(msg, c.box) /\ msg[m].uid = msg'[m].uid
        /\ msg'[m] = msg[m] \/ msg'[m].modseq > box[c.box].hm
    BY <1>2, <1>3, <1>5 DEF Ledger
  <2>2. msg'[m].modseq <= c.hm => msg'[m] = msg[m]
    BY <1>1, <1>2, <1>3, <1>5, <2>1 DEF Ledger
  <2>3. QED  BY <1>3, <1>5, <2>1, <2>2
<1>6. ASSUME NEW u \in DOMAIN c.told, u \notin UidsOf(msg', c.box)
      PROVE  Missed(expunged', astray', c.box, u, c.hm)
  <2>1. CASE u \notin UidsOf(msg, c.box)
    BY <1>2, <1>3, <1>6, <2>1 DEF Ledger
  <2>2. CASE u \in UidsOf(msg, c.box)
    <3>1. Missed(expunged', astray', c.box, u, box[c.box].hm) /\ box[c.box].hm \in Nat
      BY <1>2, <1>6, <2>2 DEF Ledger
    <3>2. QED  BY <1>1, <1>3, <3>1, MissedSince
  <2>3. QED  BY <2>1, <2>2
<1>7. QED  BY <1>4, <1>5, <1>6

(* A view that is not told of a transaction has still seen all there is up *)
(* to its modseq.                                                          *)
LEMMA SeenKept ==
    ASSUME NEW v, NEW c, Shaped(box, v, c), Ledger(v.box), v.hm <= box[v.box].hm,
           Seen(box, msg, expunged, astray, v)
    PROVE  Seen(box', msg', expunged', astray', v)
<1> SUFFICES ASSUME v.phase \in Opened
             PROVE  Seen(box', msg', expunged', astray', v)
  BY DEF Seen
<1>1. v.hm \in Nat
  BY DEF Shaped
<1>2. /\ DOMAIN v.known = v.uids /\ v.pending \subseteq v.uids
      /\ \A u \in v.uids : u \in Nat /\ u < box[v.box].next /\ v.known[u] <= box[v.box].hm
                           /\ v.known[u] \in Nat
  BY DEF Seen
<1>3. \A u \in v.uids : u \in Nat /\ u < box'[v.box].next /\ v.known[u] <= box'[v.box].hm
  BY <1>2 DEF Ledger
<1>4. ASSUME NEW m \in RowsOf(msg', v.box)
      PROVE  /\ msg'[m].uid \notin v.pending
             /\ msg'[m].modseq <= v.hm =>
                   msg'[m].uid \in v.uids /\ v.known[msg'[m].uid] >= msg'[m].modseq
             /\ \A u \in v.uids : msg'[m].uid <= u => msg'[m].uid \in v.uids
  <2>1. msg'[m].uid < box[v.box].next => m \in RowsOf(msg, v.box) /\ msg[m].uid = msg'[m].uid
    BY <1>4 DEF Ledger
  <2>2. msg'[m].modseq <= v.hm => m \in RowsOf(msg, v.box) /\ msg'[m] = msg[m]
    BY <1>1, <1>4 DEF Ledger
  <2>3. ASSUME msg'[m].uid \in v.pending PROVE FALSE
    BY <1>2, <2>1, <2>3 DEF Seen
  <2>4. ASSUME msg'[m].modseq <= v.hm
        PROVE  msg'[m].uid \in v.uids /\ v.known[msg'[m].uid] >= msg'[m].modseq
    BY <2>2, <2>4 DEF Seen
  <2>5. ASSUME NEW u \in v.uids, msg'[m].uid <= u PROVE msg'[m].uid \in v.uids
    <3>1. msg'[m].uid < box[v.box].next
      BY <1>2, <1>4, <2>5 DEF Ledger
    <3>2. QED  BY <2>1, <2>5, <3>1 DEF Seen
  <2>6. QED  BY <2>3, <2>4, <2>5
<1>5. ASSUME NEW u \in v.uids \ v.pending, u \notin UidsOf(msg', v.box)
      PROVE  /\ box'[v.box].hm > v.hm
             /\ v.phase \in {"vanishing", "changing"} =>
                   Missed(expunged', astray', v.box, u, v.hm)
  <2>1. CASE u \notin UidsOf(msg, v.box)
    <3>1. /\ box[v.box].hm > v.hm
          /\ v.phase \in {"vanishing", "changing"} => Missed(expunged, astray, v.box, u, v.hm)
      BY <1>5, <2>1 DEF Seen
    <3>2. QED  BY <1>1, <3>1 DEF Ledger
  <2>2. CASE u \in UidsOf(msg, v.box)
    <3>1. /\ box'[v.box].hm > box[v.box].hm /\ box[v.box].hm \in Nat /\ box'[v.box].hm \in Nat
          /\ Missed(expunged', astray', v.box, u, box[v.box].hm)
      BY <1>5, <2>2 DEF Ledger
    <3>2. QED  BY <1>1, <3>1, MissedSince
  <2>3. QED  BY <2>1, <2>2
<1>6. QED  BY <1>2, <1>3, <1>4, <1>5 DEF Seen

(* Nor is its client told what is no longer so.                            *)
LEMMA ToldKept ==
    ASSUME NEW v, NEW c, Shaped(box, v, c), Ledger(v.box),
           Seen(box, msg, expunged, astray, v), Told(msg, astray, v, c),
           \A u \in DOMAIN c.told : u \in Nat /\ u < box[v.box].next
    PROVE  Told(msg', astray', v, c)
<1>1. ASSUME NEW m \in RowsOf(msg', v.box), msg'[m].uid \in DOMAIN c.told
      PROVE  /\ m \in RowsOf(msg, v.box) /\ msg[m].uid = msg'[m].uid
             /\ msg'[m] = msg[m] \/ msg'[m].modseq > box[v.box].hm
  BY <1>1 DEF Ledger
<1>2. v.phase \in Opened => \A m \in RowsOf(msg', v.box) :
          msg'[m].uid \in DOMAIN c.told => msg'[m].uid \in v.uids
  BY <1>1 DEF Told
<1>3. v.phase \in Resynced => \A u \in DOMAIN c.told :
          u \in v.uids \/ <<v.box, u>> \in astray'
  BY DEF Told, Ledger
<1>4. ASSUME v.phase \in Settled, NEW m \in RowsOf(msg', v.box),
             msg'[m].uid \in DOMAIN c.told, msg'[m].modseq <= v.known[msg'[m].uid]
      PROVE  c.told[msg'[m].uid].flag \in {"unknown", msg'[m].flag}
  <2>1. v.phase \in Opened
    BY <1>4 DEF Settled, Resynced
  <2>2. msg'[m].uid \in v.uids
    BY <1>2, <1>4, <2>1
  <2>3. v.known[msg'[m].uid] <= box[v.box].hm /\ v.known[msg'[m].uid] \in Nat
    BY <2>1, <2>2 DEF Seen
  <2>4. msg'[m].modseq \in Nat /\ box[v.box].hm \in Nat
    BY <1>4 DEF Ledger
  <2>5. m \in RowsOf(msg, v.box) /\ msg'[m] = msg[m]
    BY <1>1, <1>4, <2>3, <2>4
  <2>6. QED  BY <1>4, <2>5 DEF Told
<1>5. QED  BY <1>2, <1>3, <1>4 DEF Told

(* Nor is what sync has read: a later change has a later modseq.           *)
LEMMA ReadKept ==
    ASSUME NEW v, NEW c, Shaped(box, v, c), Ledger(v.box), v.hm <= box[v.box].hm,
           Read(box, msg, v)
    PROVE  Read(box', msg', v)
<1>1. v.hm \in Nat /\ v.probe \in Nat /\ v.changed \subseteq RowRead
  BY DEF Shaped
<1>2. v.phase \in {"probed", "changed"} => v.hm <= v.probe /\ v.probe <= box'[v.box].hm
  BY <1>1 DEF Read, Ledger
<1>3. ASSUME v.phase = "changed" PROVE Read(box', msg', v)
  <2>1. v.probe <= box[v.box].hm
    BY <1>3 DEF Read
  <2>2. ASSUME NEW r \in v.changed
        PROVE  /\ r.uid \in Nat /\ r.modseq \in Nat
               /\ r.uid > 0 /\ r.uid < box[v.box].next
               /\ r.modseq > v.hm /\ r.modseq <= box[v.box].hm
    BY <1>1, <1>3, <2>2 DEF Read, RowRead
  <2>3. ASSUME NEW r \in v.changed
        PROVE  /\ r.uid > 0 /\ r.uid < box'[v.box].next
               /\ r.modseq > v.hm /\ r.modseq <= box'[v.box].hm
    BY <2>2, <2>3 DEF Ledger
  <2>4. ASSUME NEW r \in v.changed, r.uid \notin UidsOf(msg', v.box)
        PROVE  box'[v.box].hm > v.probe
    <3>1. CASE r.uid \in UidsOf(msg, v.box)
      BY <1>1, <2>1, <2>4, <3>1 DEF Ledger
    <3>2. CASE r.uid \notin UidsOf(msg, v.box)
      <4>1. box[v.box].hm > v.probe
        BY <1>3, <2>4, <3>2 DEF Read
      <4>2. QED  BY <1>1, <4>1 DEF Ledger
    <3>3. QED  BY <3>1, <3>2
  <2>5. ASSUME NEW r \in v.changed, NEW m \in RowsOf(msg', v.box), msg'[m].uid <= r.uid
        PROVE  /\ m \in RowsOf(msg, v.box) /\ msg[m].uid = msg'[m].uid
               /\ msg'[m] = msg[m] \/ msg'[m].modseq > box[v.box].hm
               /\ msg'[m].modseq \in Nat
    <3>1. msg'[m].uid \in Nat /\ box[v.box].next \in Nat
      BY <2>5 DEF Ledger
    <3>2. msg'[m].uid < box[v.box].next
      BY <2>2, <2>5, <3>1
    <3>3. QED  BY <2>5, <3>2 DEF Ledger
  <2>6. ASSUME NEW r \in v.changed, NEW m \in RowsOf(msg', v.box)
        PROVE  /\ msg'[m].uid = r.uid =>
                     /\ r.m = m
                     /\ msg'[m].modseq >= r.modseq
                     /\ msg'[m].modseq = r.modseq => msg'[m].flag = r.flag
               /\ msg'[m].uid <= r.uid =>
                     msg'[m].uid \in v.uids \/ \E q \in v.changed : q.uid = msg'[m].uid
    <3>1. ASSUME msg'[m].uid = r.uid
          PROVE  /\ r.m = m /\ msg'[m].modseq >= r.modseq
                 /\ msg'[m].modseq = r.modseq => msg'[m].flag = r.flag
      <4>1. msg'[m].uid <= r.uid
        BY <2>2, <3>1
      <4>2. /\ m \in RowsOf(msg, v.box) /\ msg[m].uid = r.uid /\ msg'[m].modseq \in Nat
            /\ msg'[m] = msg[m] \/ msg'[m].modseq > box[v.box].hm
        BY <2>5, <3>1, <4>1
      <4>3. /\ r.m = m /\ msg[m].modseq >= r.modseq
            /\ msg[m].modseq = r.modseq => msg[m].flag = r.flag
        BY <1>3, <4>2 DEF Read
      <4>4. r.modseq \in Nat /\ r.modseq <= box[v.box].hm /\ box[v.box].hm \in Nat
        BY <2>2 DEF Ledger
      <4>5. QED  BY <4>2, <4>3, <4>4
    <3>2. ASSUME msg'[m].uid <= r.uid
          PROVE  msg'[m].uid \in v.uids \/ \E q \in v.changed : q.uid = msg'[m].uid
      <4>1. m \in RowsOf(msg, v.box) /\ msg[m].uid = msg'[m].uid
        BY <2>5, <3>2
      <4>2. QED  BY <1>3, <3>2, <4>1 DEF Read
    <3>3. QED  BY <3>1, <3>2
  <2>7. ASSUME NEW m \in RowsOf(msg', v.box), v.hm < msg'[m].modseq, msg'[m].modseq <= v.probe
        PROVE  \E r \in v.changed : r.uid = msg'[m].uid /\ r.modseq = msg'[m].modseq
    <3>1. m \in RowsOf(msg, v.box) /\ msg'[m] = msg[m]
      BY <1>1, <2>1, <2>7 DEF Ledger
    <3>2. QED  BY <1>3, <2>7, <3>1 DEF Read
  <2>8. /\ \A r, q \in v.changed : r.uid = q.uid => r = q
        /\ \A r \in v.changed : r.uid \in v.uids \/ \A u \in v.uids : u < r.uid
    BY <1>3 DEF Read
  <2>9. QED  BY <1>2, <2>3, <2>4, <2>6, <2>7, <2>8 DEF Read
<1>4. QED  BY <1>2, <1>3 DEF Read

(* A session that is not told of a transaction keeps its invariant.        *)
LEMMA SessionKept ==
    ASSUME SInv, Kept, NEW v, NEW c, Session(box, msg, expunged, astray, v, c)
    PROVE  Session(box', msg', expunged', astray', v, c)
<1>1. \A b \in Boxes : /\ box'[b].val >= box[b].val
                       /\ box'[b].val \in Nat /\ box[b].val \in Nat
  BY DEF Kept, Contract, SInv, Tables, BoxRow
<1>2. Shaped(box, v, c)
  BY DEF Session
<1>3. Shaped(box', v, c)
  BY <1>1, <1>2 DEF Shaped
<1>4. Memory(box', msg', expunged', astray', c)
  BY MemoryKept
<1>5. ASSUME v.phase # "off", Same(box', astray', v.box, v.val)
      PROVE  /\ c.hm <= v.hm /\ v.hm <= box'[v.box].hm /\ Opening(v, c)
             /\ Seen(box', msg', expunged', astray', v)
             /\ Told(msg', astray', v, c) /\ Read(box', msg', v)
  <2>1. /\ v.box \in Boxes /\ v.val \in Nat /\ v.val <= box[v.box].val /\ v.hm \in Nat
        /\ c.box = v.box /\ c.val = v.val
    BY <1>2, <1>5 DEF Shaped
  <2>2. Same(box, astray, v.box, v.val) /\ Ledger(v.box)
    BY <1>5, <2>1, LedgerKept
  <2>3. /\ c.hm <= v.hm /\ v.hm <= box[v.box].hm /\ Opening(v, c)
        /\ Seen(box, msg, expunged, astray, v)
        /\ Told(msg, astray, v, c) /\ Read(box, msg, v)
    BY <1>5, <2>2 DEF Session, Watching, Follows
  <2>4. v.hm <= box'[v.box].hm
    BY <2>1, <2>2, <2>3 DEF Ledger
  <2>5. c.box # NoBox
    BY <2>1, MailStoreAssumption
  <2>6. \A u \in DOMAIN c.told : u \in Nat /\ u < box[v.box].next
    BY <2>1, <2>2, <2>5 DEF Session, Memory, Remembers
  <2>7. QED  BY <1>2, <2>2, <2>3, <2>4, <2>6, SeenKept, ToldKept, ReadKept
<1>6. QED  BY <1>3, <1>4, <1>5 DEF Session, Watching, Follows

-----------------------------------------------------------------------------
(* The steps of a session, against the tables as they are when it reads    *)
(* them: the rows of a mailbox are numbered apart and below its counters.  *)
Orderly(bx, ms, b) ==
    /\ bx[b].hm \in Nat /\ bx[b].next \in Nat
    /\ \A m \in RowsOf(ms, b) :
          /\ m \in Messages /\ ms[m].uid \in Nat /\ ms[m].modseq \in Nat /\ ms[m].flag \in Flag
          /\ ms[m].uid > 0 /\ ms[m].uid < bx[b].next /\ ms[m].modseq <= bx[b].hm
    /\ \A m, k \in RowsOf(ms, b) : ms[m].uid = ms[k].uid => m = k

(* A session is in order when it is as long as its mailbox is the same.    *)
LEMMA Rebuilt ==
    ASSUME NEW bx, NEW ms, NEW ex, NEW as, NEW v, NEW c, Shaped(bx, v, c), v.phase # "off",
           Same(bx, as, v.box, v.val) =>
               Remembers(bx, ms, ex, as, c) /\ Follows(bx, ms, ex, as, v, c)
    PROVE  Session(bx, ms, ex, as, v, c)
<1>1. c.box = v.box /\ c.val = v.val
  BY DEF Shaped
<1>2. QED  BY <1>1 DEF Session, Memory, Watching

(* What the session of an open mailbox may start from.                     *)
LEMMA Held ==
    ASSUME NEW bx, NEW ms, NEW ex, NEW as, NEW v, NEW c, Session(bx, ms, ex, as, v, c),
           v.phase # "off", Same(bx, as, v.box, v.val)
    PROVE  /\ Shaped(bx, v, c)
           /\ v.hm \in Nat /\ c.hm \in Nat /\ v.probe \in Nat
           /\ Remembers(bx, ms, ex, as, c) /\ Follows(bx, ms, ex, as, v, c)
<1>1. /\ Shaped(bx, v, c) /\ c.box = v.box /\ c.val = v.val /\ v.box \in Boxes
      /\ v.hm \in Nat /\ c.hm \in Nat /\ v.probe \in Nat
  BY DEF Session, Shaped
<1>2. c.box # NoBox
  BY <1>1, MailStoreAssumption
<1>3. QED  BY <1>1, <1>2 DEF Session, Memory, Watching

(* Rows read just now, whatever is told of their flags.                    *)
Current(ms, b, R) ==
    \A r \in R : \E m \in RowsOf(ms, b) :
        /\ r.m = m /\ r.uid = ms[m].uid /\ r.modseq = ms[m].modseq
        /\ r.flag \in {"unknown", ms[m].flag}

RowsRead(ms, S) == {Row(m, ms[m]) : m \in S}
UidsRead(R) == {r.uid : r \in R}

(* The row with a given UID among those that were read.                    *)
LEMMA WithIs ==
    ASSUME NEW R, NEW u, u \in UidsRead(R)
    PROVE  With(R, u) \in R /\ With(R, u).uid = u
BY DEF With, UidsRead

(* What is noted of the rows that were read.                               *)
LEMMA NoteIs ==
    ASSUME NEW R, NEW known
    PROVE  /\ DOMAIN Note(R, known) = UidsRead(R) \union DOMAIN known
           /\ \A u \in UidsRead(R) : Note(R, known)[u] = With(R, u).modseq
           /\ \A u \in DOMAIN known \ UidsRead(R) : Note(R, known)[u] = known[u]
BY DEF Note, UidsRead

(* What is told of the rows that were read.                                *)
LEMMA TellIs ==
    ASSUME NEW R, NEW told
    PROVE  /\ DOMAIN Tell(R, told) = UidsRead(R) \union DOMAIN told
           /\ \A u \in UidsRead(R) : /\ Tell(R, told)[u].m = With(R, u).m
                                           /\ Tell(R, told)[u].flag = With(R, u).flag
           /\ \A u \in DOMAIN told \ UidsRead(R) : Tell(R, told)[u] = told[u]
BY DEF Tell, UidsRead

(* What is noted and told of current rows is what they are.                *)
LEMMA Truthful ==
    ASSUME NEW bx, NEW ms, NEW b, Orderly(bx, ms, b), NEW R, Current(ms, b, R),
           NEW m \in RowsOf(ms, b), ms[m].uid \in UidsRead(R), NEW known, NEW told
    PROVE  /\ Note(R, known)[ms[m].uid] = ms[m].modseq
           /\ Tell(R, told)[ms[m].uid].m = m
           /\ Tell(R, told)[ms[m].uid].flag \in {"unknown", ms[m].flag}
<1> DEFINE w == With(R, ms[m].uid)
<1>1. w \in R /\ w.uid = ms[m].uid
  BY WithIs
<1>2. PICK k \in RowsOf(ms, b) : /\ w.m = k /\ w.uid = ms[k].uid /\ w.modseq = ms[k].modseq
                                 /\ w.flag \in {"unknown", ms[k].flag}
  BY <1>1 DEF Current
<1>3. k = m
  BY <1>1, <1>2 DEF Orderly
<1>4. Note(R, known)[ms[m].uid] = w.modseq
  BY DEF Note, UidsRead
<1>5. Tell(R, told)[ms[m].uid].m = w.m /\ Tell(R, told)[ms[m].uid].flag = w.flag
  BY TellIs
<1>6. QED  BY <1>2, <1>3, <1>4, <1>5

(* Rows that are current are rows of the mailbox.                          *)
LEMMA CurrentUids ==
    ASSUME NEW ms, NEW b, NEW R, Current(ms, b, R)
    PROVE  UidsRead(R) \subseteq UidsOf(ms, b)
BY DEF Current, UidsOf, UidsRead

(* The rows that are read are current.                                     *)
LEMMA RowsCurrent ==
    ASSUME NEW ms, NEW b, NEW S \in SUBSET RowsOf(ms, b)
    PROVE  /\ Current(ms, b, RowsRead(ms, S))
           /\ UidsRead(RowsRead(ms, S)) = {ms[m].uid : m \in S}
<1>1. Current(ms, b, RowsRead(ms, S))
  BY DEF Current, Row, RowsRead
<1>2. UidsRead(RowsRead(ms, S)) = {ms[m].uid : m \in S}
  <2>1. \A m \in S : Row(m, ms[m]).uid = ms[m].uid
    BY DEF Row
  <2>2. QED  BY <2>1, Zenon DEF RowsRead, UidsRead
<1>3. QED  BY <1>1, <1>2

(* MailboxView.open: the rows are all there is, and are after the modseq.  *)
LEMMA SnapshotKeeps ==
    ASSUME NEW bx, NEW ms, NEW ex, NEW as, NEW v, NEW c, NEW w, NEW d,
           Session(bx, ms, ex, as, v, c), Shaped(bx, w, d),
           Same(bx, as, v.box, v.val) => Orderly(bx, ms, v.box),
           v.phase = "opening", w.box = v.box, w.val = v.val, w.hm = v.hm, w.since = v.since,
           w.pending = v.pending,
           w.phase = IF v.since = 0 THEN "idle" ELSE "vanishing",
           Same(bx, as, v.box, v.val) =>
               /\ w.uids = UidsOf(ms, v.box)
               /\ w.known = Note(RowsRead(ms, RowsOf(ms, v.box)), <<>>),
           d.box = c.box, d.told = c.told, d.hm = IF v.since = 0 THEN v.hm ELSE c.hm
    PROVE  Session(bx, ms, ex, as, w, d)
<1>1. w.phase # "off" /\ w.phase \in {"idle", "vanishing"} /\ (w.phase = "idle" <=> v.since = 0)
  OBVIOUS
<1> SUFFICES ASSUME Same(bx, as, v.box, v.val)
             PROVE  Remembers(bx, ms, ex, as, d) /\ Follows(bx, ms, ex, as, w, d)
  BY <1>1, Rebuilt
<1> DEFINE R == RowsRead(ms, RowsOf(ms, v.box))
<1>2. /\ c.box = v.box /\ v.hm \in Nat /\ c.hm \in Nat
      /\ Remembers(bx, ms, ex, as, c) /\ Follows(bx, ms, ex, as, v, c)
  <2>1. v.phase # "off"
    OBVIOUS
  <2>2. /\ Shaped(bx, v, c) /\ v.hm \in Nat /\ c.hm \in Nat
        /\ Remembers(bx, ms, ex, as, c) /\ Follows(bx, ms, ex, as, v, c)
    BY <2>1, Held
  <2>3. c.box = v.box
    BY <2>1, <2>2 DEF Shaped
  <2>4. QED  BY <2>2, <2>3
<1>3. /\ v.pending = {} /\ (v.since = 0 => DOMAIN c.told = {}) /\ (v.since # 0 => v.since = c.hm)
      /\ c.hm <= v.hm /\ v.hm <= bx[v.box].hm
  BY <1>2 DEF Follows, Opening
<1>4. /\ Current(ms, v.box, R)
      /\ UidsRead(R) = UidsOf(ms, v.box)
  <2>1. RowsOf(ms, v.box) \in SUBSET RowsOf(ms, v.box)
    OBVIOUS
  <2>2. /\ Current(ms, v.box, R)
        /\ UidsRead(R) = {ms[m].uid : m \in RowsOf(ms, v.box)}
    BY <2>1, RowsCurrent, Zenon
  <2>3. QED  BY <2>2, Zenon DEF UidsOf
<1>5. /\ DOMAIN w.known = w.uids
      /\ \A m \in RowsOf(ms, v.box) : /\ ms[m].uid \in w.uids
                                      /\ w.known[ms[m].uid] = ms[m].modseq
  <2>1. DOMAIN w.known = w.uids
    <3>1. DOMAIN Note(R, <<>>) = UidsRead(R) \union DOMAIN <<>>
      BY NoteIs, Zenon
    <3>2. DOMAIN <<>> = {}
      OBVIOUS
    <3>3. QED  BY <1>4, <3>1, <3>2
  <2>2. \A m \in RowsOf(ms, v.box) : ms[m].uid \in w.uids
    BY DEF UidsOf
  <2>3. \A m \in RowsOf(ms, v.box) : w.known[ms[m].uid] = ms[m].modseq
    <3>1. ASSUME NEW m \in RowsOf(ms, v.box)
          PROVE  Note(R, <<>>)[ms[m].uid] = ms[m].modseq
      <4>1. ms[m].uid \in UidsRead(R)
        BY <1>4, <2>2, <3>1, Zenon
      <4>2. Orderly(bx, ms, v.box)
        OBVIOUS
      <4>3. QED  BY <1>4, <3>1, <4>1, <4>2, Truthful
    <3>2. QED  BY <3>1
  <2>4. QED  BY <2>1, <2>2, <2>3
<1>6. Remembers(bx, ms, ex, as, d)
  <2>1. CASE v.since = 0
    <3>1. d.hm = v.hm /\ d.box = v.box /\ DOMAIN d.told = {}
      BY <1>2, <1>3, <2>1
    <3>2. QED  BY <1>3, <3>1 DEF Remembers
  <2>2. CASE v.since # 0
    <3>1. d.hm = c.hm /\ d.box = c.box /\ d.told = c.told
      BY <2>2
    <3>2. QED  BY <1>2, <3>1 DEF Remembers
  <2>3. QED  BY <2>1, <2>2
<1>7. Seen(bx, ms, ex, as, w)
  <2>1. \A u \in w.uids : u \in Nat /\ u < bx[w.box].next
                          /\ w.known[u] \in Nat /\ w.known[u] <= bx[w.box].hm
    BY <1>5 DEF Orderly, UidsOf
  <2>2. \A m \in RowsOf(ms, w.box) :
              /\ ms[m].uid \notin w.pending
              /\ ms[m].modseq <= w.hm =>
                    ms[m].uid \in w.uids /\ w.known[ms[m].uid] >= ms[m].modseq
              /\ \A u \in w.uids : ms[m].uid <= u => ms[m].uid \in w.uids
    BY <1>3, <1>5 DEF Orderly
  <2>3. QED  BY <1>3, <1>5, <2>1, <2>2 DEF Seen
<1>8. Told(ms, as, w, d)
  <2>1. \A m \in RowsOf(ms, w.box) : ms[m].uid \in w.uids
    BY <1>5
  <2>2. w.phase \in Resynced \union Settled => DOMAIN d.told = {}
    BY <1>1, <1>3 DEF Resynced, Settled, Opened
  <2>3. QED  BY <2>1, <2>2 DEF Told
<1>9. Opening(w, d) /\ Read(bx, ms, w)
  BY <1>1, <1>3 DEF Opening, Read
<1>10. d.hm <= w.hm /\ w.hm <= bx[w.box].hm
  BY <1>2, <1>3
<1>11. QED  BY <1>6, <1>7, <1>8, <1>9, <1>10 DEF Follows

(* VANISHED (EARLIER): what is left and gone is what the code has lost.    *)
LEMMA VanishKeeps ==
    ASSUME NEW bx, NEW ms, NEW ex, NEW as, NEW v, NEW c, NEW w, NEW d, NEW gone,
           Session(bx, ms, ex, as, v, c), Shaped(bx, w, d),
           v.phase = "vanishing", w.phase = "changing", w.box = v.box, w.val = v.val,
           w.hm = v.hm, w.since = v.since, w.pending = v.pending, w.uids = v.uids,
           w.known = v.known,
           Same(bx, as, v.box, v.val) =>
               \A u, k \in Nat : <<v.box, u, k>> \in ex /\ k > v.since => u \in gone,
           d.box = c.box, d.hm = c.hm, d.told = Keep(c.told, DOMAIN c.told \ gone)
    PROVE  Session(bx, ms, ex, as, w, d)
<1> SUFFICES ASSUME Same(bx, as, v.box, v.val)
             PROVE  Remembers(bx, ms, ex, as, d) /\ Follows(bx, ms, ex, as, w, d)
  BY Rebuilt
<1>1. /\ c.box = v.box /\ v.hm \in Nat /\ c.hm \in Nat
      /\ Remembers(bx, ms, ex, as, c) /\ Follows(bx, ms, ex, as, v, c)
  <2>1. v.phase # "off"
    OBVIOUS
  <2>2. /\ Shaped(bx, v, c) /\ v.hm \in Nat /\ c.hm \in Nat
        /\ Remembers(bx, ms, ex, as, c) /\ Follows(bx, ms, ex, as, v, c)
    BY <2>1, Held
  <2>3. c.box = v.box
    BY <2>1, <2>2 DEF Shaped
  <2>4. QED  BY <2>2, <2>3
<1>2. /\ v.pending = {} /\ v.since = c.hm /\ c.hm <= v.hm /\ v.hm <= bx[v.box].hm
      /\ Seen(bx, ms, ex, as, v) /\ Told(ms, as, v, c)
  BY <1>1 DEF Follows, Opening
<1>3. /\ DOMAIN d.told = DOMAIN c.told \ gone
      /\ \A u \in DOMAIN d.told : d.told[u] = c.told[u]
  BY DEF Keep
<1>4. Remembers(bx, ms, ex, as, d)
  BY <1>1, <1>3 DEF Remembers
<1>5. Seen(bx, ms, ex, as, w)
  BY <1>2 DEF Seen, Opened, Phases
<1>6. ASSUME NEW u \in DOMAIN d.told PROVE u \in w.uids \/ <<w.box, u>> \in as
  <2>1. CASE u \in UidsOf(ms, v.box)
    BY <1>2, <1>3, <1>6, <2>1 DEF UidsOf, Told, Opened, Phases
  <2>2. CASE u \notin UidsOf(ms, v.box)
    <3>1. u \in Nat /\ Missed(ex, as, v.box, u, c.hm)
      BY <1>1, <1>3, <1>6, <2>2 DEF Remembers
    <3>2. ~ \E k \in Nat : k > c.hm /\ <<v.box, u, k>> \in ex
      BY <1>2, <1>3, <1>6, <3>1
    <3>3. QED  BY <3>1, <3>2 DEF Missed
  <2>3. QED  BY <2>1, <2>2
<1>7. Told(ms, as, w, d)
  BY <1>2, <1>3, <1>6 DEF Told, Settled, Resynced, Opened, Phases
<1>8. Opening(w, d) /\ Read(bx, ms, w) /\ d.hm <= w.hm /\ w.hm <= bx[w.box].hm
  BY <1>2 DEF Opening, Read
<1>9. QED  BY <1>4, <1>5, <1>7, <1>8 DEF Follows

(* What changed, of the messages in the view: SELECT is done, and the      *)
(* client remembers the modseq that the view was opened at.                *)
LEMMA ChangesKeeps ==
    ASSUME NEW bx, NEW ms, NEW ex, NEW as, NEW v, NEW c, NEW w, NEW d, NEW R,
           Session(bx, ms, ex, as, v, c), Shaped(bx, w, d),
           Same(bx, as, v.box, v.val) => Orderly(bx, ms, v.box),
           v.phase = "changing", w.phase = "idle", w.box = v.box, w.val = v.val,
           w.hm = v.hm, w.pending = v.pending, w.uids = v.uids,
           w.known = Note(R, v.known),
           Same(bx, as, v.box, v.val) =>
               /\ Current(ms, v.box, R) /\ UidsRead(R) \subseteq v.uids
               /\ \A m \in RowsOf(ms, v.box) :
                     ms[m].modseq > v.since /\ ms[m].uid \in v.uids => ms[m].uid \in UidsRead(R),
           d.box = c.box, d.hm = v.hm, d.told = Tell(R, c.told)
    PROVE  Session(bx, ms, ex, as, w, d)
<1> SUFFICES ASSUME Same(bx, as, v.box, v.val)
             PROVE  Remembers(bx, ms, ex, as, d) /\ Follows(bx, ms, ex, as, w, d)
  BY Rebuilt
<1>1. /\ c.box = v.box /\ v.hm \in Nat /\ c.hm \in Nat
      /\ Remembers(bx, ms, ex, as, c) /\ Follows(bx, ms, ex, as, v, c)
  <2>1. v.phase # "off"
    OBVIOUS
  <2>2. /\ Shaped(bx, v, c) /\ v.hm \in Nat /\ c.hm \in Nat
        /\ Remembers(bx, ms, ex, as, c) /\ Follows(bx, ms, ex, as, v, c)
    BY <2>1, Held
  <2>3. c.box = v.box
    BY <2>1, <2>2 DEF Shaped
  <2>4. QED  BY <2>2, <2>3
<1>2. /\ v.pending = {} /\ v.since = c.hm /\ c.hm <= v.hm /\ v.hm <= bx[v.box].hm
      /\ Seen(bx, ms, ex, as, v) /\ Told(ms, as, v, c)
  BY <1>1 DEF Follows, Opening
<1>3. v.phase \in Opened /\ v.phase \in Resynced /\ w.phase \in Opened
  BY DEF Resynced, Opened, Phases
<1>4. /\ DOMAIN v.known = v.uids
      /\ \A u \in v.uids : u \in Nat /\ u < bx[v.box].next
                           /\ v.known[u] \in Nat /\ v.known[u] <= bx[v.box].hm
      /\ \A m \in RowsOf(ms, v.box) :
            /\ ms[m].uid \notin v.pending
            /\ ms[m].modseq <= v.hm =>
                  ms[m].uid \in v.uids /\ v.known[ms[m].uid] >= ms[m].modseq
            /\ \A u \in v.uids : ms[m].uid <= u => ms[m].uid \in v.uids
      /\ \A u \in v.uids : u \notin UidsOf(ms, v.box) =>
            bx[v.box].hm > v.hm /\ Missed(ex, as, v.box, u, v.hm)
  BY <1>2, <1>3 DEF Seen
<1>5. /\ Orderly(bx, ms, v.box) /\ Current(ms, v.box, R) /\ UidsRead(R) \subseteq v.uids
      /\ UidsRead(R) \subseteq UidsOf(ms, v.box)
  BY CurrentUids
<1>6. /\ DOMAIN d.told = UidsRead(R) \union DOMAIN c.told
      /\ \A u \in DOMAIN c.told \ UidsRead(R) : d.told[u] = c.told[u]
  <2>1. /\ DOMAIN Tell(R, c.told) = UidsRead(R) \union DOMAIN c.told
        /\ \A u \in DOMAIN c.told \ UidsRead(R) : Tell(R, c.told)[u] = c.told[u]
    BY DEF Tell, UidsRead
  <2>2. QED  BY <2>1
<1>7. /\ DOMAIN w.known = UidsRead(R) \union DOMAIN v.known
      /\ \A u \in DOMAIN v.known \ UidsRead(R) : w.known[u] = v.known[u]
  <2>1. /\ DOMAIN Note(R, v.known) = UidsRead(R) \union DOMAIN v.known
        /\ \A u \in DOMAIN v.known \ UidsRead(R) : Note(R, v.known)[u] = v.known[u]
    BY DEF Note, UidsRead
  <2>2. QED  BY <2>1
<1>8. ASSUME NEW m \in RowsOf(ms, v.box), ms[m].uid \in UidsRead(R)
      PROVE  /\ w.known[ms[m].uid] = ms[m].modseq
             /\ d.told[ms[m].uid].m = m
             /\ d.told[ms[m].uid].flag \in {"unknown", ms[m].flag}
  <2>1. /\ Note(R, v.known)[ms[m].uid] = ms[m].modseq
        /\ Tell(R, c.told)[ms[m].uid].m = m
        /\ Tell(R, c.told)[ms[m].uid].flag \in {"unknown", ms[m].flag}
    BY <1>5, <1>8, Truthful
  <2>2. QED  BY <2>1
<1>9. /\ \A m \in RowsOf(ms, v.box) : ms[m].uid \in DOMAIN c.told => ms[m].uid \in v.uids
      /\ \A u \in DOMAIN c.told : u \in v.uids \/ <<v.box, u>> \in as
  BY <1>2, <1>3 DEF Told
<1>10. ASSUME NEW m \in RowsOf(ms, v.box), ms[m].uid \in DOMAIN d.told
       PROVE  /\ d.told[ms[m].uid].m = m
              /\ d.told[ms[m].uid].flag \in {"unknown", ms[m].flag}
  <2>1. CASE ms[m].uid \in UidsRead(R)
    BY <1>8, <1>10, <2>1
  <2>2. CASE ms[m].uid \notin UidsRead(R)
    <3>1. ms[m].uid \in DOMAIN c.told /\ d.told[ms[m].uid] = c.told[ms[m].uid]
      BY <1>6, <1>10, <2>2
    <3>2. ms[m].uid \in v.uids /\ ms[m].modseq \in Nat
      BY <1>5, <1>9, <1>10, <3>1 DEF Orderly
    <3>3. ~ (ms[m].modseq > v.since)
      BY <1>10, <2>2, <3>2
    <3>4. ms[m].modseq <= c.hm
      BY <1>1, <1>2, <3>2, <3>3
    <3>5. QED  BY <1>1, <1>10, <3>1, <3>4 DEF Remembers
  <2>3. QED  BY <2>1, <2>2
<1>11. Remembers(bx, ms, ex, as, d)
  <2>1. ASSUME NEW u \in DOMAIN d.told PROVE u \in Nat /\ u < bx[v.box].next
    BY <1>1, <1>4, <1>5, <1>6, <2>1 DEF Remembers
  <2>2. ASSUME NEW u \in DOMAIN d.told, u \notin UidsOf(ms, v.box)
        PROVE  Missed(ex, as, v.box, u, v.hm)
    <3>1. u \in v.uids \/ <<v.box, u>> \in as
      BY <1>5, <1>6, <1>9, <2>2
    <3>2. CASE <<v.box, u>> \in as
      BY <3>2 DEF Missed
    <3>3. CASE u \in v.uids
      BY <1>4, <2>2, <3>3
    <3>4. QED  BY <3>1, <3>2, <3>3
  <2>3. d.hm = v.hm /\ d.box = v.box /\ d.hm <= bx[v.box].hm
    BY <1>1, <1>2
  <2>4. QED  BY <1>10, <2>1, <2>2, <2>3 DEF Remembers
<1>12. Seen(bx, ms, ex, as, w)
  <2>1. DOMAIN w.known = w.uids /\ w.pending \subseteq w.uids
    BY <1>2, <1>4, <1>5, <1>7
  <2>2. ASSUME NEW u \in w.uids
        PROVE  u \in Nat /\ u < bx[w.box].next /\ w.known[u] \in Nat /\ w.known[u] <= bx[w.box].hm
    <3>1. CASE u \in UidsRead(R)
      <4>1. PICK m \in RowsOf(ms, v.box) : u = ms[m].uid
        BY <1>5, <3>1 DEF UidsOf
      <4>2. w.known[u] = ms[m].modseq
        BY <1>8, <3>1, <4>1
      <4>3. QED  BY <1>5, <4>1, <4>2 DEF Orderly
    <3>2. CASE u \notin UidsRead(R)
      BY <1>4, <1>7, <2>2, <3>2
    <3>3. QED  BY <3>1, <3>2
  <2>3. ASSUME NEW m \in RowsOf(ms, v.box), ms[m].modseq <= v.hm
        PROVE  ms[m].uid \in v.uids /\ w.known[ms[m].uid] >= ms[m].modseq
    <3>1. ms[m].uid \in v.uids /\ v.known[ms[m].uid] >= ms[m].modseq
      BY <1>4, <2>3
    <3>2. ms[m].modseq \in Nat
      BY <1>5 DEF Orderly
    <3>3. QED  BY <1>4, <1>7, <1>8, <3>1, <3>2
  <2>4. QED  BY <1>2, <1>4, <2>1, <2>2, <2>3 DEF Seen
<1>13. Told(ms, as, w, d)
  <2>1. \A m \in RowsOf(ms, v.box) : ms[m].uid \in DOMAIN d.told => ms[m].uid \in v.uids
    BY <1>5, <1>6, <1>9
  <2>2. \A u \in DOMAIN d.told : u \in v.uids \/ <<v.box, u>> \in as
    BY <1>5, <1>6, <1>9
  <2>3. QED  BY <1>10, <2>1, <2>2 DEF Told
<1>14. Opening(w, d) /\ Read(bx, ms, w) /\ d.hm <= w.hm /\ w.hm <= bx[w.box].hm
  BY <1>1, <1>2 DEF Opening, Read
<1>15. QED  BY <1>11, <1>12, <1>13, <1>14 DEF Follows

(* FETCH and STORE: the rows N that are noted and T that are told are      *)
(* current, of the same messages, and all in the view.                     *)
LEMMA ShownKeeps ==
    ASSUME NEW bx, NEW ms, NEW ex, NEW as, NEW v, NEW c, NEW w, NEW d, NEW N, NEW T,
           Session(bx, ms, ex, as, v, c), Shaped(bx, w, d),
           Same(bx, as, v.box, v.val) => Orderly(bx, ms, v.box),
           v.phase = "idle", w.phase = "sync", w.box = v.box, w.val = v.val,
           w.hm = v.hm, w.pending = v.pending, w.uids = v.uids,
           w.known = Note(N, v.known),
           Same(bx, as, v.box, v.val) =>
               /\ Current(ms, v.box, N) /\ Current(ms, v.box, T)
               /\ UidsRead(N) = UidsRead(T) /\ UidsRead(N) \subseteq v.uids,
           d.box = c.box, d.hm = c.hm, d.told = Tell(T, c.told)
    PROVE  Session(bx, ms, ex, as, w, d)
<1> SUFFICES ASSUME Same(bx, as, v.box, v.val)
             PROVE  Remembers(bx, ms, ex, as, d) /\ Follows(bx, ms, ex, as, w, d)
  BY Rebuilt
<1>1. /\ c.box = v.box /\ v.hm \in Nat /\ c.hm \in Nat
      /\ Remembers(bx, ms, ex, as, c) /\ Follows(bx, ms, ex, as, v, c)
  <2>1. v.phase # "off"
    OBVIOUS
  <2>2. /\ Shaped(bx, v, c) /\ v.hm \in Nat /\ c.hm \in Nat
        /\ Remembers(bx, ms, ex, as, c) /\ Follows(bx, ms, ex, as, v, c)
    BY <2>1, Held
  <2>3. c.box = v.box
    BY <2>1, <2>2 DEF Shaped
  <2>4. QED  BY <2>2, <2>3
<1>2. /\ c.hm <= v.hm /\ v.hm <= bx[v.box].hm
      /\ Seen(bx, ms, ex, as, v) /\ Told(ms, as, v, c)
  BY <1>1 DEF Follows
<1>3. v.phase \in Settled /\ v.phase \in Opened /\ v.phase \in Resynced /\ w.phase \in Opened
  BY DEF Settled, Resynced, Opened, Phases
<1>4. /\ DOMAIN v.known = v.uids /\ v.pending \subseteq v.uids
      /\ \A u \in v.uids : u \in Nat /\ u < bx[v.box].next
                           /\ v.known[u] \in Nat /\ v.known[u] <= bx[v.box].hm
      /\ \A m \in RowsOf(ms, v.box) :
            /\ ms[m].uid \notin v.pending
            /\ ms[m].modseq <= v.hm =>
                  ms[m].uid \in v.uids /\ v.known[ms[m].uid] >= ms[m].modseq
            /\ \A u \in v.uids : ms[m].uid <= u => ms[m].uid \in v.uids
      /\ \A u \in v.uids \ v.pending : u \notin UidsOf(ms, v.box) => bx[v.box].hm > v.hm
  BY <1>2, <1>3 DEF Seen
<1>5. /\ Orderly(bx, ms, v.box) /\ Current(ms, v.box, N) /\ Current(ms, v.box, T)
      /\ UidsRead(N) = UidsRead(T) /\ UidsRead(N) \subseteq v.uids
      /\ UidsRead(T) \subseteq UidsOf(ms, v.box)
  BY CurrentUids
<1>6. /\ DOMAIN d.told = UidsRead(T) \union DOMAIN c.told
      /\ \A u \in DOMAIN c.told \ UidsRead(T) : d.told[u] = c.told[u]
  <2>1. /\ DOMAIN Tell(T, c.told) = UidsRead(T) \union DOMAIN c.told
        /\ \A u \in DOMAIN c.told \ UidsRead(T) : Tell(T, c.told)[u] = c.told[u]
    BY DEF Tell, UidsRead
  <2>2. QED  BY <2>1
<1>7. /\ DOMAIN w.known = UidsRead(N) \union DOMAIN v.known
      /\ \A u \in DOMAIN v.known \ UidsRead(N) : w.known[u] = v.known[u]
  <2>1. /\ DOMAIN Note(N, v.known) = UidsRead(N) \union DOMAIN v.known
        /\ \A u \in DOMAIN v.known \ UidsRead(N) : Note(N, v.known)[u] = v.known[u]
    BY DEF Note, UidsRead
  <2>2. QED  BY <2>1
<1>8. ASSUME NEW m \in RowsOf(ms, v.box), ms[m].uid \in UidsRead(T)
      PROVE  /\ w.known[ms[m].uid] = ms[m].modseq
             /\ d.told[ms[m].uid].m = m
             /\ d.told[ms[m].uid].flag \in {"unknown", ms[m].flag}
  <2>1. Note(N, v.known)[ms[m].uid] = ms[m].modseq
    BY <1>5, <1>8, Truthful
  <2>2. /\ Tell(T, c.told)[ms[m].uid].m = m
        /\ Tell(T, c.told)[ms[m].uid].flag \in {"unknown", ms[m].flag}
    BY <1>5, <1>8, Truthful
  <2>3. QED  BY <2>1, <2>2
<1>9. /\ \A m \in RowsOf(ms, v.box) : ms[m].uid \in DOMAIN c.told => ms[m].uid \in v.uids
      /\ \A u \in DOMAIN c.told : u \in v.uids \/ <<v.box, u>> \in as
      /\ \A m \in RowsOf(ms, v.box) :
            ms[m].uid \in DOMAIN c.told /\ ms[m].modseq <= v.known[ms[m].uid] =>
                c.told[ms[m].uid].flag \in {"unknown", ms[m].flag}
  BY <1>2, <1>3 DEF Told
<1>10. Remembers(bx, ms, ex, as, d)
  <2>1. ASSUME NEW u \in DOMAIN d.told PROVE u \in Nat /\ u < bx[v.box].next
    BY <1>1, <1>4, <1>5, <1>6, <2>1 DEF Remembers
  <2>2. ASSUME NEW u \in DOMAIN d.told, u \notin UidsOf(ms, v.box)
        PROVE  Missed(ex, as, v.box, u, c.hm)
    <3>1. u \in DOMAIN c.told
      BY <1>5, <1>6, <2>2
    <3>2. QED  BY <1>1, <2>2, <3>1 DEF Remembers
  <2>3. ASSUME NEW m \in RowsOf(ms, v.box), ms[m].uid \in DOMAIN d.told
        PROVE  /\ d.told[ms[m].uid].m = m
               /\ ms[m].modseq <= c.hm => d.told[ms[m].uid].flag \in {"unknown", ms[m].flag}
    <3>1. CASE ms[m].uid \in UidsRead(T)
      BY <1>8, <2>3, <3>1
    <3>2. CASE ms[m].uid \notin UidsRead(T)
      <4>1. ms[m].uid \in DOMAIN c.told /\ d.told[ms[m].uid] = c.told[ms[m].uid]
        BY <1>6, <2>3, <3>2
      <4>2. QED  BY <1>1, <2>3, <4>1 DEF Remembers
    <3>3. QED  BY <3>1, <3>2
  <2>4. d.hm = c.hm /\ d.box = v.box /\ c.hm <= bx[v.box].hm
    BY <1>1 DEF Remembers
  <2>5. QED  BY <2>1, <2>2, <2>3, <2>4 DEF Remembers
<1>11. Seen(bx, ms, ex, as, w)
  <2>1. DOMAIN w.known = w.uids /\ w.pending \subseteq w.uids
    BY <1>4, <1>5, <1>7
  <2>2. ASSUME NEW u \in w.uids
        PROVE  u \in Nat /\ u < bx[w.box].next /\ w.known[u] \in Nat /\ w.known[u] <= bx[w.box].hm
    <3>1. CASE u \in UidsRead(T)
      <4>1. PICK m \in RowsOf(ms, v.box) : u = ms[m].uid
        BY <1>5, <3>1 DEF UidsOf
      <4>2. w.known[u] = ms[m].modseq
        BY <1>8, <3>1, <4>1
      <4>3. QED  BY <1>5, <4>1, <4>2 DEF Orderly
    <3>2. CASE u \notin UidsRead(T)
      BY <1>4, <1>5, <1>7, <2>2, <3>2
    <3>3. QED  BY <3>1, <3>2
  <2>3. ASSUME NEW m \in RowsOf(ms, v.box), ms[m].modseq <= v.hm
        PROVE  ms[m].uid \in v.uids /\ w.known[ms[m].uid] >= ms[m].modseq
    <3>1. ms[m].uid \in v.uids /\ v.known[ms[m].uid] >= ms[m].modseq
      BY <1>4, <2>3
    <3>2. ms[m].modseq \in Nat
      BY <1>5 DEF Orderly
    <3>3. QED  BY <1>4, <1>5, <1>7, <1>8, <3>1, <3>2
  <2>4. w.phase \notin {"vanishing", "changing"}
    OBVIOUS
  <2>5. QED  BY <1>4, <2>1, <2>2, <2>3, <2>4 DEF Seen
<1>12. Told(ms, as, w, d)
  <2>1. \A m \in RowsOf(ms, v.box) : ms[m].uid \in DOMAIN d.told => ms[m].uid \in v.uids
    BY <1>5, <1>6, <1>9
  <2>2. \A u \in DOMAIN d.told : u \in v.uids \/ <<v.box, u>> \in as
    BY <1>5, <1>6, <1>9
  <2>3. ASSUME NEW m \in RowsOf(ms, v.box), ms[m].uid \in DOMAIN d.told,
               ms[m].modseq <= w.known[ms[m].uid]
        PROVE  d.told[ms[m].uid].flag \in {"unknown", ms[m].flag}
    <3>1. CASE ms[m].uid \in UidsRead(T)
      BY <1>8, <2>3, <3>1
    <3>2. CASE ms[m].uid \notin UidsRead(T)
      <4>1. ms[m].uid \in DOMAIN c.told /\ d.told[ms[m].uid] = c.told[ms[m].uid]
        BY <1>6, <2>3, <3>2
      <4>2. w.known[ms[m].uid] = v.known[ms[m].uid]
        BY <1>4, <1>5, <1>7, <1>9, <2>3, <3>2, <4>1
      <4>3. QED  BY <1>9, <2>3, <4>1, <4>2
    <3>3. QED  BY <3>1, <3>2
  <2>4. QED  BY <2>1, <2>2, <2>3 DEF Told
<1>13. Opening(w, d) /\ Read(bx, ms, w) /\ d.hm <= w.hm /\ w.hm <= bx[w.box].hm
  BY <1>2 DEF Opening, Read
<1>14. QED  BY <1>10, <1>11, <1>12, <1>13 DEF Follows

(* The start of a command's sync and what it forgets of messages that have *)
(* gone (none, or its own expunges, or those it announces at last).        *)
LEMMA ForgetKeeps ==
    ASSUME NEW bx, NEW ms, NEW ex, NEW as, NEW v, NEW c, NEW w, NEW d, NEW gone,
           Session(bx, ms, ex, as, v, c), Shaped(bx, w, d),
           v.phase \in {"idle", "sync"}, w.phase \in {"idle", "sync"},
           w.box = v.box, w.val = v.val, w.hm = v.hm,
           w.uids = v.uids \ gone, w.pending = v.pending \ gone,
           DOMAIN w.known = DOMAIN v.known \ gone,
           \A u \in DOMAIN w.known : w.known[u] = v.known[u],
           Same(bx, as, v.box, v.val) => gone \intersect UidsOf(ms, v.box) = {},
           d.box = c.box, d.hm = c.hm, DOMAIN d.told = DOMAIN c.told \ gone,
           \A u \in DOMAIN d.told : d.told[u] = c.told[u]
    PROVE  Session(bx, ms, ex, as, w, d)
<1>1. v.phase # "off" /\ w.phase # "off"
  OBVIOUS
<1> SUFFICES ASSUME Same(bx, as, v.box, v.val)
             PROVE  Remembers(bx, ms, ex, as, d) /\ Follows(bx, ms, ex, as, w, d)
  BY <1>1, Rebuilt
<1>2. /\ Shaped(bx, v, c) /\ v.hm \in Nat /\ c.hm \in Nat
      /\ Remembers(bx, ms, ex, as, c) /\ Follows(bx, ms, ex, as, v, c)
  BY <1>1, Held
<1>3. c.box = v.box
  BY <1>1, <1>2 DEF Shaped
<1>4. /\ c.hm <= v.hm /\ v.hm <= bx[v.box].hm
      /\ Seen(bx, ms, ex, as, v) /\ Told(ms, as, v, c)
  BY <1>2 DEF Follows
<1>5. v.phase \in Settled /\ v.phase \in Opened /\ v.phase \in Resynced
  BY DEF Settled, Resynced, Opened, Phases
<1>6. \A m \in RowsOf(ms, v.box) : ms[m].uid \notin gone
  BY DEF UidsOf
<1>7. Remembers(bx, ms, ex, as, d)
  BY <1>2, <1>3 DEF Remembers
<1>8. Seen(bx, ms, ex, as, w)
  <2>1. /\ DOMAIN v.known = v.uids /\ v.pending \subseteq v.uids
        /\ \A u \in v.uids : u \in Nat /\ u < bx[v.box].next
                             /\ v.known[u] \in Nat /\ v.known[u] <= bx[v.box].hm
        /\ \A m \in RowsOf(ms, v.box) :
              /\ ms[m].uid \notin v.pending
              /\ ms[m].modseq <= v.hm =>
                    ms[m].uid \in v.uids /\ v.known[ms[m].uid] >= ms[m].modseq
              /\ \A u \in v.uids : ms[m].uid <= u => ms[m].uid \in v.uids
        /\ \A u \in v.uids \ v.pending : u \notin UidsOf(ms, v.box) => bx[v.box].hm > v.hm
    BY <1>4, <1>5 DEF Seen
  <2>2. /\ DOMAIN w.known = w.uids /\ w.pending \subseteq w.uids
        /\ \A u \in w.uids : u \in v.uids /\ w.known[u] = v.known[u]
    BY <2>1
  <2>3. w.phase \notin {"vanishing", "changing"}
    OBVIOUS
  <2>4. \A m \in RowsOf(ms, v.box) :
              /\ ms[m].uid \notin w.pending
              /\ ms[m].modseq <= v.hm =>
                    ms[m].uid \in w.uids /\ w.known[ms[m].uid] >= ms[m].modseq
              /\ \A u \in w.uids : ms[m].uid <= u => ms[m].uid \in w.uids
    BY <1>6, <2>1, <2>2
  <2>5. \A u \in w.uids \ w.pending : u \notin UidsOf(ms, v.box) => bx[v.box].hm > v.hm
    BY <2>1
  <2>6. QED  BY <2>1, <2>2, <2>3, <2>4, <2>5 DEF Seen
<1>9. Told(ms, as, w, d)
  <2>1. /\ \A m \in RowsOf(ms, v.box) : ms[m].uid \in DOMAIN c.told => ms[m].uid \in v.uids
        /\ \A u \in DOMAIN c.told : u \in v.uids \/ <<v.box, u>> \in as
        /\ \A m \in RowsOf(ms, v.box) :
              ms[m].uid \in DOMAIN c.told /\ ms[m].modseq <= v.known[ms[m].uid] =>
                  c.told[ms[m].uid].flag \in {"unknown", ms[m].flag}
    BY <1>4, <1>5 DEF Told
  <2>2. \A m \in RowsOf(ms, v.box) : ms[m].uid \in DOMAIN d.told => ms[m].uid \in w.uids
    BY <1>6, <2>1
  <2>3. \A u \in DOMAIN d.told : u \in w.uids \/ <<v.box, u>> \in as
    BY <2>1
  <2>4. DOMAIN w.known = w.uids
    BY <1>4, <1>5 DEF Seen
  <2>5. \A m \in RowsOf(ms, v.box) :
              ms[m].uid \in DOMAIN d.told /\ ms[m].modseq <= w.known[ms[m].uid] =>
                  d.told[ms[m].uid].flag \in {"unknown", ms[m].flag}
    BY <2>1, <2>2, <2>4
  <2>6. QED  BY <2>2, <2>3, <2>5 DEF Told
<1>10. Opening(w, d) /\ Read(bx, ms, w) /\ d.hm <= w.hm /\ w.hm <= bx[w.box].hm
  BY <1>4 DEF Opening, Read
<1>11. QED  BY <1>7, <1>8, <1>9, <1>10 DEF Follows

(* sync has read the mailbox's modseq, and then the rows above its own:    *)
(* whatever else the view's steps change, its picture stays.               *)
LEMMA SyncKeeps ==
    ASSUME NEW bx, NEW ms, NEW ex, NEW as, NEW v, NEW c, NEW w,
           Session(bx, ms, ex, as, v, c), Shaped(bx, w, c),
           v.phase \in {"sync", "probed"}, w.phase \in {"probed", "changed"},
           w.box = v.box, w.val = v.val, w.hm = v.hm,
           w.uids = v.uids, w.pending = v.pending, w.known = v.known,
           Same(bx, as, v.box, v.val) => Read(bx, ms, w)
    PROVE  Session(bx, ms, ex, as, w, c)
<1>1. v.phase # "off" /\ w.phase # "off"
  OBVIOUS
<1> SUFFICES ASSUME Same(bx, as, v.box, v.val)
             PROVE  Remembers(bx, ms, ex, as, c) /\ Follows(bx, ms, ex, as, w, c)
  BY <1>1, Rebuilt
<1>2. Remembers(bx, ms, ex, as, c) /\ Follows(bx, ms, ex, as, v, c)
  BY <1>1, Held
<1>3. /\ c.hm <= v.hm /\ v.hm <= bx[v.box].hm
      /\ Seen(bx, ms, ex, as, v) /\ Told(ms, as, v, c)
  BY <1>2 DEF Follows
<1>4. v.phase \in Settled /\ v.phase \in Opened /\ v.phase \in Resynced
  BY DEF Settled, Resynced, Opened, Phases
<1>5. Seen(bx, ms, ex, as, w)
  BY <1>3, <1>4 DEF Seen
<1>6. Told(ms, as, w, c)
  BY <1>3, <1>4 DEF Told
<1>7. Opening(w, c)
  BY DEF Opening
<1>8. QED  BY <1>2, <1>3, <1>5, <1>6, <1>7 DEF Follows

(* The rows that sync reads are those that changed after the view's modseq.*)
LEMMA ReadingIsRead ==
    ASSUME NEW bx, NEW ms, NEW ex, NEW as, NEW v, NEW c, NEW w,
           Session(bx, ms, ex, as, v, c), Shaped(bx, w, c),
           Same(bx, as, v.box, v.val), Orderly(bx, ms, v.box),
           v.phase = "probed", w.phase = "changed", w.box = v.box, w.hm = v.hm,
           w.uids = v.uids, w.probe = v.probe,
           w.changed = {r \in RowsRead(ms, RowsOf(ms, v.box)) : r.modseq > v.hm}
    PROVE  Read(bx, ms, w)
<1>1. v.phase # "off" /\ v.phase \in Opened
  BY DEF Opened, Phases
<1>2. v.hm \in Nat /\ v.probe \in Nat /\ Follows(bx, ms, ex, as, v, c)
  BY <1>1, Held
<1>3. /\ \A m \in RowsOf(ms, v.box) :
            /\ ms[m].modseq <= v.hm => ms[m].uid \in v.uids
            /\ \A u \in v.uids : ms[m].uid <= u => ms[m].uid \in v.uids
      /\ \A u \in v.uids : u \in Nat
      /\ v.hm <= v.probe /\ v.probe <= bx[v.box].hm
  BY <1>1, <1>2 DEF Follows, Seen, Read
<1>4. \A m \in RowsOf(ms, v.box) : ms[m].modseq > v.hm =>
          \E r \in w.changed : r.uid = ms[m].uid /\ r.modseq = ms[m].modseq
  <2>1. ASSUME NEW m \in RowsOf(ms, v.box), ms[m].modseq > v.hm
        PROVE  /\ Row(m, ms[m]) \in w.changed
               /\ Row(m, ms[m]).uid = ms[m].uid /\ Row(m, ms[m]).modseq = ms[m].modseq
    BY <2>1 DEF Row, RowsRead
  <2>2. QED  BY <2>1
<1>5. ASSUME NEW r \in w.changed
      PROVE  \E m \in RowsOf(ms, v.box) : /\ r = Row(m, ms[m])
                /\ r.m = m /\ r.uid = ms[m].uid /\ r.modseq = ms[m].modseq /\ r.flag = ms[m].flag
                /\ r.modseq > v.hm
  BY <1>5 DEF Row, RowsRead
<1>6. ASSUME NEW r \in w.changed
      PROVE  /\ r.uid > 0 /\ r.uid < bx[v.box].next
             /\ r.modseq > v.hm /\ r.modseq <= bx[v.box].hm
             /\ r.uid \in v.uids \/ \A u \in v.uids : u < r.uid
             /\ r.uid \in UidsOf(ms, v.box)
             /\ \A q \in w.changed : r.uid = q.uid => r = q
             /\ \A m \in RowsOf(ms, v.box) : ms[m].uid = r.uid =>
                   r.m = m /\ ms[m].modseq >= r.modseq /\ ms[m].flag = r.flag
             /\ \A m \in RowsOf(ms, v.box) :
                   ms[m].uid \in v.uids \/ \E q \in w.changed : q.uid = ms[m].uid
  <2>1. PICK k \in RowsOf(ms, v.box) : /\ r = Row(k, ms[k])
            /\ r.m = k /\ r.uid = ms[k].uid /\ r.modseq = ms[k].modseq /\ r.flag = ms[k].flag
            /\ r.modseq > v.hm
    BY <1>5, <1>6
  <2>2. /\ ms[k].uid \in Nat /\ ms[k].modseq \in Nat
        /\ ms[k].uid > 0 /\ ms[k].uid < bx[v.box].next /\ ms[k].modseq <= bx[v.box].hm
        /\ \A m \in RowsOf(ms, v.box) : /\ ms[m].uid = ms[k].uid => m = k
                                        /\ ms[m].modseq \in Nat
    BY DEF Orderly
  <2>3. r.uid \in v.uids \/ \A u \in v.uids : u < r.uid
    BY <1>3, <2>1, <2>2
  <2>4. \A m \in RowsOf(ms, v.box) : ms[m].uid = r.uid =>
            r.m = m /\ ms[m].modseq >= r.modseq /\ ms[m].flag = r.flag
    BY <2>1, <2>2
  <2>5. ASSUME NEW q \in w.changed, r.uid = q.uid PROVE r = q
    <3>1. PICK j \in RowsOf(ms, v.box) : q = Row(j, ms[j]) /\ q.uid = ms[j].uid
      BY <1>5, <2>5
    <3>2. j = k
      BY <2>1, <2>2, <2>5, <3>1
    <3>3. QED  BY <2>1, <3>1, <3>2
  <2>6. \A m \in RowsOf(ms, v.box) :
            ms[m].uid \in v.uids \/ \E q \in w.changed : q.uid = ms[m].uid
    BY <1>2, <1>3, <1>4, <2>2
  <2>7. r.uid \in UidsOf(ms, v.box)
    BY <2>1 DEF UidsOf
  <2>8. /\ r.uid > 0 /\ r.uid < bx[v.box].next
        /\ r.modseq > v.hm /\ r.modseq <= bx[v.box].hm
    BY <2>1, <2>2
  <2>9. QED  BY <2>3, <2>4, <2>5, <2>6, <2>7, <2>8
<1>7. QED  BY <1>3, <1>4, <1>6 DEF Read

(* The largest of a bounded set of UIDs.                                   *)
LEMMA MaxOfIs ==
    ASSUME NEW S \in SUBSET Nat, NEW n \in Nat, \A u \in S : u < n
    PROVE  /\ MaxOf(S) \in Nat
           /\ \A u \in S : u <= MaxOf(S)
           /\ S # {} => MaxOf(S) \in S
           /\ S = {} => MaxOf(S) = 0
<1>1. CASE S = {}
  BY <1>1 DEF MaxOf
<1>2. CASE S # {}
  <2> DEFINE T == {k \in Nat : \E u \in S : k = n - u}
  <2>1. T \subseteq Nat /\ T # {}
    <3>1. PICK u \in S : TRUE
      BY <1>2
    <3>2. n - u \in T
      BY <3>1
    <3>3. QED  BY <3>2
  <2>2. PICK k \in T : \A j \in T : ~ (<<j, k>> \in OpToRel(<, Nat))
    BY <2>1, NatLessThanWellFounded, WFMin
  <2>3. PICK x \in S : k = n - x
    BY <2>2
  <2>4. ASSUME NEW y \in S PROVE x >= y
    <3>1. x \in Nat /\ y \in Nat /\ y < n
      BY <2>3, <2>4
    <3>2. n - y \in Nat /\ k \in Nat
      <4>1. k \in Nat
        BY <2>2
      <4>2. n - y \in Nat
        BY <3>1
      <4>3. QED  BY <4>1, <4>2
    <3>3. n - y \in T
      BY <2>4, <3>2
    <3>4. ~ (n - y < k)
      BY <2>2, <3>2, <3>3 DEF OpToRel
    <3>5. QED  BY <2>3, <3>1, <3>4
  <2>5. Max(S) \in S /\ \A y \in S : Max(S) >= y
    BY <2>3, <2>4 DEF Max
  <2>6. MaxOf(S) = Max(S)
    BY <1>2 DEF MaxOf
  <2>7. QED  BY <1>2, <2>5, <2>6
<1>3. QED  BY <1>1, <1>2

(* The count that sync compares finds out whether anything has gone: UIDs  *)
(* up to the largest in the view only ever go.                             *)
GoneFrom(ms, v) ==
    IF Cardinality({u \in UidsOf(ms, v.box) : u <= MaxOf(v.uids)}) # Cardinality(v.uids \ v.pending)
    THEN v.uids \ UidsOf(ms, v.box) ELSE {}

(* What the comparison of the two counts leaves undetected is nothing.     *)
LEMMA GoneIsFound ==
    ASSUME NEW bx, NEW ms, NEW ex, NEW as, NEW v, NEW gone,
           Orderly(bx, ms, v.box), Seen(bx, ms, ex, as, v), v.phase \in Opened,
           gone = GoneFrom(ms, v)
    PROVE  /\ gone \subseteq v.uids
           /\ (v.pending \union gone) \intersect UidsOf(ms, v.box) = {}
           /\ v.uids \ (v.pending \union gone) \subseteq UidsOf(ms, v.box)
<1> DEFINE A == {u \in UidsOf(ms, v.box) : u <= MaxOf(v.uids)}
           L == v.uids \ v.pending
<1>1. /\ v.pending \subseteq v.uids
      /\ \A u \in v.uids : u \in Nat /\ u < bx[v.box].next
      /\ \A m \in RowsOf(ms, v.box) :
            /\ ms[m].uid \notin v.pending
            /\ \A u \in v.uids : ms[m].uid <= u => ms[m].uid \in v.uids
  BY DEF Seen
<1>2. /\ bx[v.box].next \in Nat
      /\ \A m \in RowsOf(ms, v.box) : ms[m].uid \in Nat /\ ms[m].uid > 0
  BY DEF Orderly
<1>3. /\ MaxOf(v.uids) \in Nat
      /\ v.uids # {} => MaxOf(v.uids) \in v.uids
      /\ v.uids = {} => MaxOf(v.uids) = 0
  <2>1. v.uids \in SUBSET Nat
    BY <1>1
  <2>2. QED  BY <1>1, <1>2, <2>1, MaxOfIs
<1>4. A \subseteq L
  <2>1. ASSUME NEW m \in RowsOf(ms, v.box), ms[m].uid <= MaxOf(v.uids)
        PROVE  ms[m].uid \in L
    <3>1. v.uids # {}
      BY <1>2, <1>3, <2>1
    <3>2. ms[m].uid \in v.uids
      BY <1>1, <1>3, <2>1, <3>1
    <3>3. QED  BY <1>1, <2>1, <3>2
  <2>2. QED  BY <2>1 DEF UidsOf
<1>5. IsFiniteSet(L)
  <2>1. L \in SUBSET Nat
    BY <1>1
  <2>2. \A u \in L : u <= bx[v.box].next
    BY <1>1, <1>2
  <2>3. QED  BY <1>2, <2>1, <2>2, FS_BoundedSetOfNaturals
<1>6. Cardinality(A) = Cardinality(L) => L = A
  BY <1>4, <1>5, FS_Subset
<1>7. v.pending \intersect UidsOf(ms, v.box) = {}
  BY <1>1 DEF UidsOf
<1>8. CASE Cardinality(A) = Cardinality(L)
  <2>1. gone = {} /\ L \subseteq UidsOf(ms, v.box)
    BY <1>6, <1>8 DEF GoneFrom
  <2>2. QED  BY <1>7, <2>1
<1>9. CASE Cardinality(A) # Cardinality(L)
  <2>1. gone = v.uids \ UidsOf(ms, v.box)
    BY <1>9 DEF GoneFrom
  <2>2. QED  BY <1>7, <2>1
<1>10. QED  BY <1>8, <1>9

(* The end of sync.  ann is what it announces as gone, known and told are  *)
(* what is left of what the view and the client had.                       *)
Finished(v, c, w, d, gone, P, ann, known, told, fresh, new) ==
    /\ w.phase = "idle" /\ w.box = v.box /\ w.val = v.val /\ w.hm = v.probe
    /\ P = v.pending \union gone /\ (ann = {} \/ ann = P)
    /\ DOMAIN known = DOMAIN v.known \ ann /\ \A u \in DOMAIN known : known[u] = v.known[u]
    /\ DOMAIN told = DOMAIN c.told \ ann /\ \A u \in DOMAIN told : told[u] = c.told[u]
    /\ new = {r \in v.changed : r.uid > MaxOf(v.uids)}
    /\ fresh = {r \in v.changed \ new : r.uid \in v.uids \ P /\ r.modseq > known[r.uid]}
    /\ w.uids = (v.uids \ ann) \union UidsRead(new) /\ w.pending = P \ ann
    /\ w.known = Note(fresh \union new, known)
    /\ d.box = c.box /\ d.hm = c.hm /\ d.told = Tell(fresh, told)

(* The end of sync keeps the picture true.                                 *)
LEMMA FinishKeeps ==
    ASSUME NEW bx, NEW ms, NEW ex, NEW as, NEW v, NEW c, NEW w, NEW d,
           NEW gone, NEW P, NEW ann, NEW known, NEW told, NEW fresh, NEW new,
           Session(bx, ms, ex, as, v, c), Shaped(bx, w, d), v.phase = "changed",
           Same(bx, as, v.box, v.val) => Orderly(bx, ms, v.box),
           Same(bx, as, v.box, v.val) => gone = GoneFrom(ms, v),
           Finished(v, c, w, d, gone, P, ann, known, told, fresh, new)
    PROVE  Session(bx, ms, ex, as, w, d)
<1>1. /\ DOMAIN Tell(fresh, told) = UidsRead(fresh) \union DOMAIN told
      /\ \A u \in UidsRead(fresh) : /\ Tell(fresh, told)[u].m = With(fresh, u).m
                                    /\ Tell(fresh, told)[u].flag = With(fresh, u).flag
      /\ \A u \in DOMAIN told \ UidsRead(fresh) : Tell(fresh, told)[u] = told[u]
  BY DEF Tell, UidsRead
<1>2. /\ w.phase = "idle" /\ w.box = v.box /\ w.val = v.val /\ w.hm = v.probe
      /\ P = v.pending \union gone /\ (ann = {} \/ ann = P)
      /\ DOMAIN known = DOMAIN v.known \ ann /\ \A u \in DOMAIN known : known[u] = v.known[u]
      /\ DOMAIN told = DOMAIN c.told \ ann /\ \A u \in DOMAIN told : told[u] = c.told[u]
      /\ new = {r \in v.changed : r.uid > MaxOf(v.uids)}
      /\ fresh = {r \in v.changed \ new : r.uid \in v.uids \ P /\ r.modseq > known[r.uid]}
      /\ w.uids = (v.uids \ ann) \union UidsRead(new) /\ w.pending = P \ ann
      /\ w.known = Note(fresh \union new, known)
      /\ d.box = c.box /\ d.hm = c.hm /\ d.told = Tell(fresh, told)
  BY DEF Finished
<1> USE <1>2
<1>3. v.phase # "off" /\ w.phase # "off"
  OBVIOUS
<1> SUFFICES ASSUME Same(bx, as, v.box, v.val)
             PROVE  Remembers(bx, ms, ex, as, d) /\ Follows(bx, ms, ex, as, w, d)
  BY <1>3, Rebuilt
<1> DEFINE b == v.box
           N == fresh \union new
<1>4. /\ Shaped(bx, v, c) /\ v.hm \in Nat /\ c.hm \in Nat /\ v.probe \in Nat
      /\ Remembers(bx, ms, ex, as, c) /\ Follows(bx, ms, ex, as, v, c)
  BY <1>3, Held
<1>5. c.box = b /\ v.changed \subseteq RowRead
  BY <1>3, <1>4 DEF Shaped
<1>6. /\ c.hm <= v.hm /\ v.hm <= v.probe /\ v.probe <= bx[b].hm
      /\ Seen(bx, ms, ex, as, v) /\ Told(ms, as, v, c) /\ Read(bx, ms, v)
  BY <1>4 DEF Follows, Read
<1>7. v.phase \in Settled /\ v.phase \in Opened /\ v.phase \in Resynced
  BY DEF Settled, Resynced, Opened, Phases
<1>8. /\ DOMAIN v.known = v.uids /\ v.pending \subseteq v.uids
      /\ \A u \in v.uids : u \in Nat /\ u < bx[b].next
                           /\ v.known[u] \in Nat /\ v.known[u] <= bx[b].hm
      /\ \A m \in RowsOf(ms, b) :
            /\ ms[m].uid \notin v.pending
            /\ ms[m].modseq <= v.hm =>
                  ms[m].uid \in v.uids /\ v.known[ms[m].uid] >= ms[m].modseq
            /\ \A u \in v.uids : ms[m].uid <= u => ms[m].uid \in v.uids
  BY <1>6, <1>7 DEF Seen
<1>9. /\ Orderly(bx, ms, b) /\ bx[b].hm \in Nat /\ bx[b].next \in Nat
      /\ \A m \in RowsOf(ms, b) : ms[m].uid \in Nat /\ ms[m].modseq \in Nat
  BY DEF Orderly
<1>10. /\ \A r \in v.changed : r.uid > 0 /\ r.uid < bx[b].next
                               /\ r.modseq > v.hm /\ r.modseq <= bx[b].hm
                               /\ r.uid \in Nat /\ r.modseq \in Nat
       /\ \A r, q \in v.changed : r.uid = q.uid => r = q
       /\ \A r \in v.changed : r.uid \in v.uids \/ \A u \in v.uids : u < r.uid
       /\ \A r \in v.changed : r.uid \notin UidsOf(ms, b) => bx[b].hm > v.probe
  <2>1. \A r \in v.changed : r.uid \in Nat /\ r.modseq \in Nat
    BY <1>5 DEF RowRead
  <2>2. QED  BY <1>6, <2>1 DEF Read
<1>11. /\ \A r \in v.changed : \A m \in RowsOf(ms, b) :
             /\ ms[m].uid = r.uid =>
                   /\ r.m = m /\ ms[m].modseq >= r.modseq
                   /\ ms[m].modseq = r.modseq => ms[m].flag = r.flag
             /\ ms[m].uid <= r.uid =>
                   ms[m].uid \in v.uids \/ \E q \in v.changed : q.uid = ms[m].uid
       /\ \A m \in RowsOf(ms, b) : v.hm < ms[m].modseq /\ ms[m].modseq <= v.probe =>
             \E r \in v.changed : r.uid = ms[m].uid /\ r.modseq = ms[m].modseq
  BY <1>6 DEF Read
<1>12. /\ P \subseteq v.uids /\ P \intersect UidsOf(ms, b) = {}
       /\ v.uids \ P \subseteq UidsOf(ms, b)
  <2>1. gone = GoneFrom(ms, v)
    OBVIOUS
  <2>2. /\ gone \subseteq v.uids
        /\ (v.pending \union gone) \intersect UidsOf(ms, b) = {}
        /\ v.uids \ (v.pending \union gone) \subseteq UidsOf(ms, b)
    BY <1>6, <1>7, <1>9, <2>1, GoneIsFound
  <2>3. QED  BY <1>8, <2>2
<1>13. \A m \in RowsOf(ms, b) : ms[m].uid \notin P
  BY <1>12 DEF UidsOf
(* A row that was read has arrived when it is not in the view.             *)
<1>14. \A r \in v.changed : r \in new <=> r.uid \notin v.uids
  <2>1. v.uids \in SUBSET Nat
    BY <1>8
  <2>2. /\ MaxOf(v.uids) \in Nat /\ \A u \in v.uids : u <= MaxOf(v.uids)
        /\ v.uids # {} => MaxOf(v.uids) \in v.uids
        /\ v.uids = {} => MaxOf(v.uids) = 0
    BY <1>8, <1>9, <2>1, MaxOfIs
  <2>3. QED  BY <1>10, <2>2
<1>15. /\ fresh \subseteq v.changed /\ new \subseteq v.changed
       /\ \A r \in fresh : r.uid \in v.uids \ P /\ r.modseq > v.known[r.uid]
       /\ \A r \in v.changed : r.uid \in v.uids \ P /\ r.modseq > v.known[r.uid] => r \in fresh
  <2>1. \A u \in v.uids \ P : u \in DOMAIN known /\ known[u] = v.known[u]
    BY <1>8
  <2>2. QED  BY <1>14, <2>1
<1>16. /\ UidsRead(fresh) \subseteq v.uids \ P
       /\ UidsRead(new) \intersect v.uids = {}
       /\ \A u \in UidsRead(new) : u \in Nat /\ u < bx[b].next
  BY <1>10, <1>14, <1>15 DEF UidsRead
(* What the view has noted, and what the client is told, in the end.       *)
<1>17. /\ DOMAIN w.known = w.uids
       /\ \A u \in w.uids \ UidsRead(N) : u \in v.uids /\ w.known[u] = v.known[u]
       /\ \A r \in N : w.known[r.uid] = r.modseq
  <2>1. /\ DOMAIN Note(N, known) = UidsRead(N) \union DOMAIN known
        /\ \A u \in UidsRead(N) : Note(N, known)[u] = With(N, u).modseq
        /\ \A u \in DOMAIN known \ UidsRead(N) : Note(N, known)[u] = known[u]
    BY DEF Note, UidsRead
  <2>2. UidsRead(N) = UidsRead(fresh) \union UidsRead(new)
    BY DEF UidsRead
  <2>3. DOMAIN w.known = w.uids
    BY <1>8, <1>16, <2>1, <2>2
  <2>4. ASSUME NEW r \in N PROVE w.known[r.uid] = r.modseq
    <3>1. r.uid \in UidsRead(N)
      BY DEF UidsRead
    <3>2. With(N, r.uid) \in N /\ With(N, r.uid).uid = r.uid
      BY <3>1, WithIs
    <3>3. With(N, r.uid) = r
      BY <1>10, <1>15, <3>2
    <3>4. QED  BY <2>1, <3>1, <3>3
  <2>5. \A u \in w.uids \ UidsRead(N) : u \in v.uids /\ w.known[u] = v.known[u]
    BY <1>8, <2>1, <2>2
  <2>6. QED  BY <2>3, <2>4, <2>5
<1>18. /\ DOMAIN d.told = UidsRead(fresh) \union (DOMAIN c.told \ ann)
       /\ \A u \in DOMAIN d.told \ UidsRead(fresh) : d.told[u] = c.told[u]
       /\ \A r \in fresh : d.told[r.uid].m = r.m /\ d.told[r.uid].flag = r.flag
  <2>1. /\ DOMAIN d.told = UidsRead(fresh) \union DOMAIN told
        /\ \A u \in UidsRead(fresh) : /\ d.told[u].m = With(fresh, u).m
                                      /\ d.told[u].flag = With(fresh, u).flag
        /\ \A u \in DOMAIN told \ UidsRead(fresh) : d.told[u] = told[u]
    BY <1>1
  <2>2. ASSUME NEW r \in fresh PROVE d.told[r.uid].m = r.m /\ d.told[r.uid].flag = r.flag
    <3>1. r.uid \in UidsRead(fresh)
      BY DEF UidsRead
    <3>2. With(fresh, r.uid) \in fresh /\ With(fresh, r.uid).uid = r.uid
      BY <3>1, WithIs
    <3>3. With(fresh, r.uid) = r
      BY <1>10, <1>15, <3>2
    <3>4. QED  BY <2>1, <3>1, <3>3
  <2>3. QED  BY <2>1, <2>2
<1>19. \A u \in UidsRead(fresh) : \E r \in fresh : r.uid = u
  BY DEF UidsRead
<1>20. \A u \in UidsRead(N) : \E r \in N : r.uid = u
  BY DEF UidsRead
<1>21. Remembers(bx, ms, ex, as, d)
  <2>1. /\ c.hm <= bx[b].hm /\ \A u \in DOMAIN c.told : u \in Nat /\ u < bx[b].next
        /\ \A m \in RowsOf(ms, b) : ms[m].uid \in DOMAIN c.told =>
              /\ c.told[ms[m].uid].m = m
              /\ ms[m].modseq <= c.hm => c.told[ms[m].uid].flag \in {"unknown", ms[m].flag}
        /\ \A u \in DOMAIN c.told : u \notin UidsOf(ms, b) => Missed(ex, as, b, u, c.hm)
    BY <1>4, <1>5 DEF Remembers
  <2>2. ASSUME NEW u \in DOMAIN d.told
        PROVE  /\ u \in Nat /\ u < bx[b].next
               /\ u \notin UidsOf(ms, b) => Missed(ex, as, b, u, c.hm)
    <3>1. CASE u \in UidsRead(fresh)
      <4>1. u \in v.uids /\ u \in UidsOf(ms, b)
        BY <1>12, <1>16, <3>1
      <4>2. QED  BY <1>8, <4>1
    <3>2. CASE u \notin UidsRead(fresh)
      BY <1>18, <2>1, <2>2, <3>2
    <3>3. QED  BY <3>1, <3>2
  <2>3. ASSUME NEW m \in RowsOf(ms, b), ms[m].uid \in DOMAIN d.told
        PROVE  /\ d.told[ms[m].uid].m = m
               /\ ms[m].modseq <= c.hm => d.told[ms[m].uid].flag \in {"unknown", ms[m].flag}
    <3>1. CASE ms[m].uid \in UidsRead(fresh)
      <4>1. PICK r \in fresh : r.uid = ms[m].uid
        BY <1>19, <3>1
      <4>2. r.m = m /\ ms[m].modseq >= r.modseq /\ r.modseq > v.hm /\ r.modseq \in Nat
        BY <1>10, <1>11, <1>15, <4>1
      <4>3. ~ (ms[m].modseq <= c.hm)
        BY <1>4, <1>6, <1>9, <4>2
      <4>4. d.told[ms[m].uid].m = r.m
        BY <1>18, <4>1
      <4>5. QED  BY <4>2, <4>3, <4>4
    <3>2. CASE ms[m].uid \notin UidsRead(fresh)
      <4>1. ms[m].uid \in DOMAIN c.told /\ d.told[ms[m].uid] = c.told[ms[m].uid]
        BY <1>18, <2>3, <3>2
      <4>2. QED  BY <2>1, <4>1
    <3>3. QED  BY <3>1, <3>2
  <2>4. d.box = b /\ d.hm = c.hm
    BY <1>5
  <2>5. QED  BY <2>1, <2>2, <2>3, <2>4 DEF Remembers
<1>22. Seen(bx, ms, ex, as, w)
  <2>1. w.pending \subseteq w.uids
    BY <1>12
  <2>2. ASSUME NEW u \in w.uids
        PROVE  u \in Nat /\ u < bx[b].next /\ w.known[u] \in Nat /\ w.known[u] <= bx[b].hm
    <3>1. u \in Nat /\ u < bx[b].next
      BY <1>8, <1>16, <2>2
    <3>2. CASE u \in UidsRead(N)
      <4>1. PICK r \in N : r.uid = u
        BY <1>20, <3>2
      <4>2. QED  BY <1>10, <1>15, <1>17, <3>1, <4>1
    <3>3. CASE u \notin UidsRead(N)
      BY <1>8, <1>17, <2>2, <3>1, <3>3
    <3>4. QED  BY <3>2, <3>3
  <2>3. ASSUME NEW m \in RowsOf(ms, b), ms[m].uid \in v.uids PROVE ms[m].uid \in w.uids
    BY <1>13, <2>3
  <2>4. ASSUME NEW r \in v.changed, r.uid \in v.uids \/ r \in new, NEW m \in RowsOf(ms, b),
               ms[m].uid = r.uid
        PROVE  ms[m].uid \in w.uids /\ w.known[r.uid] >= r.modseq
    <3>1. CASE r \in new
      <4>1. r \in N /\ r.uid \in UidsRead(new)
        BY <3>1 DEF UidsRead
      <4>2. QED  BY <1>10, <1>17, <2>4, <4>1
    <3>2. CASE r \notin new
      <4>1. r.uid \in v.uids \ P /\ ms[m].uid \in w.uids
        BY <1>13, <2>3, <2>4, <3>2
      <4>2. CASE r \in fresh
        <5>1. r \in N
          BY <4>2
        <5>2. QED  BY <1>10, <1>17, <4>1, <5>1
      <4>3. CASE r \notin fresh
        <5>1. ~ (r.modseq > v.known[r.uid])
          BY <1>15, <4>1, <4>3
        <5>2. r.uid \notin UidsRead(N)
          BY <1>10, <1>15, <1>20, <3>2, <4>3
        <5>3. w.known[r.uid] = v.known[r.uid]
          BY <1>17, <2>4, <4>1, <5>2
        <5>4. QED  BY <1>8, <1>10, <4>1, <5>1, <5>3
      <4>4. QED  BY <4>2, <4>3
    <3>3. QED  BY <3>1, <3>2
  <2>5. ASSUME NEW m \in RowsOf(ms, b), ms[m].modseq <= v.probe
        PROVE  ms[m].uid \in w.uids /\ w.known[ms[m].uid] >= ms[m].modseq
    <3>1. CASE ms[m].modseq <= v.hm
      <4>1. ms[m].uid \in v.uids /\ v.known[ms[m].uid] >= ms[m].modseq /\ ms[m].uid \in w.uids
        BY <1>8, <2>3, <3>1
      <4>2. CASE ms[m].uid \in UidsRead(N)
        <5>1. PICK r \in N : r.uid = ms[m].uid
          BY <1>20, <4>2
        <5>2. r \in v.changed /\ w.known[r.uid] = r.modseq
          BY <1>15, <1>17, <5>1
        <5>3. QED  BY <1>4, <1>9, <1>10, <3>1, <4>1, <5>1, <5>2
      <4>3. CASE ms[m].uid \notin UidsRead(N)
        BY <1>17, <4>1, <4>3
      <4>4. QED  BY <4>2, <4>3
    <3>2. CASE ~ (ms[m].modseq <= v.hm)
      <4>1. v.hm < ms[m].modseq
        BY <1>4, <1>9, <3>2
      <4>2. PICK r \in v.changed : r.uid = ms[m].uid /\ r.modseq = ms[m].modseq
        BY <1>11, <2>5, <4>1
      <4>3. r.uid \in v.uids \/ r \in new
        BY <1>14
      <4>4. QED  BY <2>4, <4>2, <4>3
    <3>3. QED  BY <3>1, <3>2
  <2>6. ASSUME NEW m \in RowsOf(ms, b), NEW u \in w.uids, ms[m].uid <= u
        PROVE  ms[m].uid \in w.uids
    <3>1. CASE u \in v.uids
      BY <1>8, <2>3, <2>6, <3>1
    <3>2. CASE u \notin v.uids
      <4>1. PICK r \in new : r.uid = u
        BY <2>6, <3>2 DEF UidsRead
      <4>2. ms[m].uid \in v.uids \/ \E q \in v.changed : q.uid = ms[m].uid
        BY <1>11, <1>15, <2>6, <4>1
      <4>3. CASE ms[m].uid \in v.uids
        BY <2>3, <4>3
      <4>4. ASSUME NEW q \in v.changed, q.uid = ms[m].uid PROVE ms[m].uid \in w.uids
        <5>1. q.uid \in v.uids \/ q \in new
          BY <1>14
        <5>2. QED  BY <2>4, <4>4, <5>1
      <4>5. QED  BY <4>2, <4>3, <4>4
    <3>3. QED  BY <3>1, <3>2
  <2>7. ASSUME NEW u \in w.uids \ w.pending, u \notin UidsOf(ms, b) PROVE bx[b].hm > v.probe
    <3>1. u \notin v.uids
      BY <1>12, <1>16, <2>7
    <3>2. PICK r \in new : r.uid = u
      BY <2>7, <3>1 DEF UidsRead
    <3>3. QED  BY <1>10, <1>15, <2>7, <3>2
  <2>8. \A m \in RowsOf(ms, b) : ms[m].uid \notin w.pending
    BY <1>13
  <2>9. w.phase \notin {"vanishing", "changing"}
    OBVIOUS
  <2>10. QED  BY <1>17, <2>1, <2>2, <2>5, <2>6, <2>7, <2>8, <2>9 DEF Seen
<1>23. Told(ms, as, w, d)
  <2>1. /\ \A m \in RowsOf(ms, b) : ms[m].uid \in DOMAIN c.told => ms[m].uid \in v.uids
        /\ \A u \in DOMAIN c.told : u \in v.uids \/ <<b, u>> \in as
        /\ \A m \in RowsOf(ms, b) :
              ms[m].uid \in DOMAIN c.told /\ ms[m].modseq <= v.known[ms[m].uid] =>
                  c.told[ms[m].uid].flag \in {"unknown", ms[m].flag}
    BY <1>6, <1>7 DEF Told
  <2>2. \A m \in RowsOf(ms, b) : ms[m].uid \in DOMAIN d.told =>
            ms[m].uid \in v.uids /\ ms[m].uid \in w.uids
    BY <1>13, <1>16, <1>18, <2>1
  <2>3. \A u \in DOMAIN d.told : u \in w.uids \/ <<b, u>> \in as
    BY <1>16, <1>18, <2>1
  <2>4. ASSUME NEW m \in RowsOf(ms, b), ms[m].uid \in DOMAIN d.told,
               ms[m].modseq <= w.known[ms[m].uid]
        PROVE  d.told[ms[m].uid].flag \in {"unknown", ms[m].flag}
    <3>1. CASE ms[m].uid \in UidsRead(fresh)
      <4>1. PICK r \in fresh : r.uid = ms[m].uid
        BY <1>19, <3>1
      <4>2. /\ ms[m].modseq >= r.modseq /\ (ms[m].modseq = r.modseq => ms[m].flag = r.flag)
            /\ w.known[ms[m].uid] = r.modseq /\ r.modseq \in Nat
        BY <1>10, <1>11, <1>15, <1>17, <4>1
      <4>3. ms[m].flag = r.flag
        BY <1>9, <2>4, <4>2
      <4>4. QED  BY <1>18, <4>1, <4>3
    <3>2. CASE ms[m].uid \notin UidsRead(fresh)
      <4>1. ms[m].uid \in DOMAIN c.told /\ d.told[ms[m].uid] = c.told[ms[m].uid]
        BY <1>18, <2>4, <3>2
      <4>2. ms[m].uid \notin UidsRead(N)
        BY <1>16, <2>2, <2>4, <3>2 DEF UidsRead
      <4>3. w.known[ms[m].uid] = v.known[ms[m].uid]
        BY <1>17, <2>2, <2>4, <4>2
      <4>4. QED  BY <2>1, <2>4, <4>1, <4>3
    <3>3. QED  BY <3>1, <3>2
  <2>5. QED  BY <2>2, <2>3, <2>4 DEF Told
<1>24. Opening(w, d) /\ Read(bx, ms, w)
  BY DEF Opening, Read
<1>25. d.hm <= w.hm /\ w.hm <= bx[w.box].hm
  BY <1>4, <1>6
<1>26. QED  BY <1>21, <1>22, <1>23, <1>24, <1>25 DEF Follows

-----------------------------------------------------------------------------
(* The actions.                                                            *)

(* The rows of a mailbox that is the same are in order.                    *)
LEMMA OrderlyNow ==
    ASSUME SInv, NEW b \in Boxes, NEW val, Same(box, astray, b, val)
    PROVE  Orderly(box, msg, b)
<1>1. Counted(b) /\ In(b) = RowsOf(msg, b) /\ RowsOf(msg, b) \subseteq Messages
  BY DEF Counted, Sound, Same, In, RowsOf
<1>2. /\ box[b].hm \in Nat /\ box[b].next \in Nat
      /\ \A m \in Messages : msg[m].uid \in Nat /\ msg[m].modseq \in Nat /\ msg[m].flag \in Flag
  BY DEF SInv, Tables, BoxRow, MsgRow
<1>3. /\ \A m, k \in In(b) : msg[m].uid = msg[k].uid => m = k
      /\ \A m \in In(b) :
            msg[m].uid > 0 /\ msg[m].uid < box[b].next /\ msg[m].modseq <= box[b].hm
  BY <1>1 DEF SInv, Numbered
<1>4. QED  BY <1>1, <1>2, <1>3 DEF Orderly

(* So they are after the step.                                             *)
LEMMA OrderlyThen ==
    ASSUME SInv', NEW b \in Boxes, NEW val, Same(box', astray', b, val)
    PROVE  Orderly(box', msg', b)
<1>1. Counted(b)' /\ In(b)' = RowsOf(msg', b) /\ RowsOf(msg', b) \subseteq Messages
  BY DEF Counted, Sound, Same, In, RowsOf
<1>2. /\ box'[b].hm \in Nat /\ box'[b].next \in Nat
      /\ \A m \in Messages : msg'[m].uid \in Nat /\ msg'[m].modseq \in Nat /\ msg'[m].flag \in Flag
  BY DEF SInv, Tables, BoxRow, MsgRow
<1>3. /\ \A m, k \in In(b)' : msg'[m].uid = msg'[k].uid => m = k
      /\ \A m \in In(b)' :
            msg'[m].uid > 0 /\ msg'[m].uid < box'[b].next /\ msg'[m].modseq <= box'[b].hm
  BY <1>1 DEF SInv, Numbered
<1>4. QED  BY <1>1, <1>2, <1>3 DEF Orderly

(* A transaction, and a step that leaves the tables alone, keep what every *)
(* session has.                                                            *)
LEMMA AllKept ==
    ASSUME IInv, Kept
    PROVE  /\ SInv'
           /\ \A t \in Sessions : Session(box', msg', expunged', astray', view[t], client[t])
BY SessionKept DEF IInv, Kept

(* What leaves the tables alone leaves every session as it was.            *)
LEMMA AllSame ==
    ASSUME IInv, UNCHANGED <<store, draft, source, astray>>
    PROVE  /\ SInv'
           /\ \A t \in Sessions : Session(box', msg', expunged', astray', view[t], client[t])
<1>1. /\ box' = box /\ msg' = msg /\ expunged' = expunged
      /\ astray' = astray /\ draft' = draft /\ source' = source
  BY DEF store
<1>2. SInv'
  BY <1>1 DEF IInv, SInv, Tables, Standing, Numbered, Drafted, Counted, Sound, In
<1>3. QED  BY <1>1, <1>2 DEF IInv

(* A step of session s, to the view w and the client's memory d.           *)
LEMMA Stepped ==
    ASSUME IInv, NEW s \in Sessions, NEW w, NEW d, SInv',
           \A t \in Sessions : Session(box', msg', expunged', astray', view[t], client[t]),
           view' = [view EXCEPT ![s] = w], client' = [client EXCEPT ![s] = d],
           Session(box', msg', expunged', astray', w, d)
    PROVE  IInv'
<1>1. view = [t \in Sessions |-> view[t]] /\ client = [t \in Sessions |-> client[t]]
  BY DEF IInv
<1>2. \A t \in Sessions : /\ view'[t] = IF t = s THEN w ELSE view[t]
                          /\ client'[t] = IF t = s THEN d ELSE client[t]
  BY <1>1
<1>3. view' = [t \in Sessions |-> view'[t]]
  BY <1>1
<1>4. client' = [t \in Sessions |-> client'[t]]
  BY <1>1
<1>5. ASSUME NEW t \in Sessions
      PROVE  Session(box', msg', expunged', astray', view'[t], client'[t])
  BY <1>2
<1>6. QED  BY <1>3, <1>4, <1>5 DEF IInv

(* A step that no session hears of.                                        *)
LEMMA Unheard ==
    ASSUME IInv, SInv', UNCHANGED Watchers,
           \A t \in Sessions : Session(box', msg', expunged', astray', view[t], client[t])
    PROVE  IInv'
BY DEF IInv, Watchers

(* A client that is told nothing.                                          *)
LEMMA SameMemory ==
    ASSUME IInv, NEW s \in Sessions, UNCHANGED client
    PROVE  client' = [client EXCEPT ![s] = client[s]]
BY DEF IInv

(* The view of a session with no mailbox.                                  *)
LEMMA NoViewIs ==
    /\ IsView(NoView) /\ NoView.phase = "off" /\ NoView.hm = 0 /\ NoView.probe = 0
    /\ NoView.since = 0 /\ NoView.changed = {} /\ NoView.uids = {} /\ NoView.pending = {}
BY DEF NoView, IsView

(* No view at all goes with any memory.                                    *)
LEMMA ClosedKeeps ==
    ASSUME NEW bx, NEW ms, NEW ex, NEW as, NEW v, NEW c, Session(bx, ms, ex, as, v, c)
    PROVE  Session(bx, ms, ex, as, NoView, c)
<1>1. Shaped(bx, NoView, c)
  <2>1. Shaped(bx, v, c)
    BY DEF Session
  <2>2. QED  BY <2>1, NoViewIs DEF Shaped, Phases
<1>2. QED  BY <1>1, NoViewIs DEF Session, Watching

(* LOGOUT, or the connection drops: the client keeps what it has.          *)
LEMMA DisconnectKeeps ==
    ASSUME IInv, NEW s \in Sessions, Disconnect(s)
    PROVE  IInv'
<1>1. view' = [view EXCEPT ![s] = NoView] /\ client' = [client EXCEPT ![s] = client[s]]
  BY SameMemory DEF Disconnect
<1>2. /\ SInv'
      /\ \A t \in Sessions : Session(box', msg', expunged', astray', view[t], client[t])
  BY AllSame DEF Disconnect
<1>3. Session(box', msg', expunged', astray', NoView, client[s])
  BY <1>2, ClosedKeeps
<1>4. QED  BY <1>1, <1>2, <1>3, Stepped

OpenedAt(v, b, val, hm, since) ==
    [v EXCEPT !.phase = "opening", !.box = b, !.val = val, !.hm = hm, !.since = since]

(* The view of a mailbox about to be opened.                               *)
LEMMA OpeningView ==
    ASSUME NEW v, IsView(v), NEW b, NEW val, NEW hm, NEW since, NEW w,
           w = OpenedAt(v, b, val, hm, since)
    PROVE  /\ IsView(w) /\ w.phase = "opening" /\ w.box = b /\ w.val = val /\ w.hm = hm
           /\ w.since = since /\ w.uids = v.uids /\ w.pending = v.pending
           /\ w.probe = v.probe /\ w.changed = v.changed
BY DEF IsView, OpenedAt

(* SELECT: the view starts at the modseq of the mailbox.                   *)
LEMMA SelectKeeps ==
    ASSUME IInv, NEW s \in Sessions, NEW b \in Boxes, NEW q \in BOOLEAN, Select(s, b, q)
    PROVE  IInv'
<1> DEFINE c == client[s]
           resync == q /\ c.val = box[b].val
           w == [NoView EXCEPT !.phase = "opening", !.box = b, !.val = box[b].val,
                     !.hm = box[b].hm, !.since = IF resync THEN c.hm ELSE 0]
           d == IF resync THEN c ELSE [NoMemory EXCEPT !.box = b, !.val = box[b].val]
<1>1. /\ view' = [view EXCEPT ![s] = w] /\ UNCHANGED <<store, draft, source, astray>>
      /\ q => c.box = b /\ c.hm > 0
      /\ client' = IF resync THEN client ELSE
                   [client EXCEPT ![s] = [NoMemory EXCEPT !.box = b, !.val = box[b].val]]
  BY DEF Select
<1>2. client' = [client EXCEPT ![s] = d]
  <2>1. CASE resync
    BY <1>1, <2>1, SameMemory
  <2>2. CASE ~ resync
    BY <1>1, <2>2
  <2>3. QED  BY <2>1, <2>2
<1>3. /\ SInv'
      /\ \A t \in Sessions : Session(box', msg', expunged', astray', view[t], client[t])
  BY <1>1, AllSame
<1>4. box' = box /\ msg' = msg /\ expunged' = expunged /\ astray' = astray
  BY <1>1 DEF store
<1>5. Session(box, msg, expunged, astray, view[s], c) /\ SInv
  BY DEF IInv
<1>6. box[b].hm \in Nat /\ box[b].val \in Nat
  BY <1>5 DEF SInv, Tables, BoxRow
<1>7. /\ IsView(w) /\ w.phase = "opening" /\ w.box = b /\ w.val = box[b].val /\ w.hm = box[b].hm
      /\ w.uids = {} /\ w.pending = {} /\ w.probe = 0 /\ w.changed = {}
      /\ w.since = IF resync THEN c.hm ELSE 0
  <2>1. PICK z : z = IF resync THEN c.hm ELSE 0
    OBVIOUS
  <2>2. w = OpenedAt(NoView, b, box[b].val, box[b].hm, z)
    BY <2>1 DEF OpenedAt
  <2> HIDE DEF w
  <2>3. /\ IsView(w) /\ w.phase = "opening" /\ w.box = b /\ w.val = box[b].val
        /\ w.hm = box[b].hm /\ w.since = z /\ w.uids = NoView.uids
        /\ w.pending = NoView.pending /\ w.probe = NoView.probe /\ w.changed = NoView.changed
    BY <2>2, NoViewIs, OpeningView
  <2>4. QED  BY <2>1, <2>3, NoViewIs
<1>8. /\ c.hm \in Nat /\ IsMemory(c)
      /\ c.box # NoBox => c.box \in Boxes /\ c.val <= box[c.box].val /\ c.val \in Nat
  BY <1>5 DEF Session, Shaped
<1>9. /\ IsMemory(d) /\ d.box = b /\ d.val = box[b].val
      /\ resync => d = c
      /\ ~ resync => d.hm = 0 /\ DOMAIN d.told = {}
  <2>1. CASE resync
    BY <1>1, <1>8, <2>1
  <2>2. CASE ~ resync
    <3>1. d = [box |-> b, val |-> box[b].val, hm |-> 0, told |-> <<>>]
      BY <2>2 DEF NoMemory
    <3> HIDE DEF d
    <3>2. QED  BY <2>2, <3>1 DEF IsMemory
  <2>3. QED  BY <2>1, <2>2
<1>10. Shaped(box, w, d)
  BY <1>6, <1>7, <1>8, <1>9 DEF Shaped, Phases
<1>11. ASSUME Same(box, astray, b, box[b].val)
       PROVE  Remembers(box, msg, expunged, astray, d) /\ d.hm <= box[b].hm /\ Opening(w, d)
  <2>1. CASE resync
    <3>1. c.box # NoBox
      BY <1>1, <2>1, MailStoreAssumption
    <3>2. Remembers(box, msg, expunged, astray, c)
      BY <1>1, <1>5, <1>11, <2>1, <3>1 DEF Session, Memory
    <3>3. d = c /\ c.hm <= box[b].hm /\ c.hm # 0
      BY <1>1, <1>8, <1>9, <2>1, <3>2 DEF Remembers
    <3>4. w.since = c.hm /\ w.phase = "opening" /\ w.uids = {} /\ w.pending = {}
      BY <1>7, <2>1
    <3>5. QED  BY <3>2, <3>3, <3>4 DEF Opening
  <2>2. CASE ~ resync
    <3>1. d.hm = 0 /\ DOMAIN d.told = {} /\ w.since = 0
      BY <1>7, <1>9, <2>2
    <3>2. QED  BY <1>6, <1>7, <1>9, <3>1 DEF Remembers, Opening
  <2>3. QED  BY <2>1, <2>2
<1>12. Session(box, msg, expunged, astray, w, d)
  <2>1. w.phase \notin Opened /\ w.phase # "off" /\ w.phase \notin {"probed", "changed"}
        /\ w.phase \notin Resynced /\ w.phase \notin Settled
    BY <1>7 DEF Opened, Resynced, Settled
  <2>2. Seen(box, msg, expunged, astray, w) /\ Told(msg, astray, w, d) /\ Read(box, msg, w)
    BY <2>1 DEF Seen, Told, Read
  <2>3. Same(box, astray, w.box, w.val) =>
            Remembers(box, msg, expunged, astray, d) /\ Follows(box, msg, expunged, astray, w, d)
    BY <1>6, <1>7, <1>11, <2>2 DEF Follows
  <2>4. QED  BY <1>10, <2>1, <2>3, Rebuilt
<1>13. QED  BY <1>1, <1>2, <1>3, <1>4, <1>12, Stepped

(* What session s finds when it reads.                                     *)
LEMMA Finds ==
    ASSUME NEW s \in Sessions, Same(box, astray, view[s].box, view[s].val)
    PROVE  /\ Here(s) /\ Rows(s) = RowsOf(msg, view[s].box)
           /\ RowUids(s) = UidsOf(msg, view[s].box)
BY DEF Same, Here, Rows, RowUids, RowsOf, UidsOf, In

(* What the invariant says of one session.                                 *)
LEMMA SessionOf ==
    ASSUME IInv, NEW s \in Sessions
    PROVE  /\ Session(box, msg, expunged, astray, view[s], client[s])
           /\ Shaped(box, view[s], client[s])
           /\ IsView(view[s]) /\ IsMemory(client[s])
           /\ Same(box, astray, view[s].box, view[s].val) /\ view[s].phase # "off" =>
                 Orderly(box, msg, view[s].box)
<1>1. /\ Session(box, msg, expunged, astray, view[s], client[s])
      /\ Shaped(box, view[s], client[s]) /\ SInv
  BY DEF IInv, Session
<1>2. IsView(view[s]) /\ IsMemory(client[s]) /\ (view[s].phase # "off" => view[s].box \in Boxes)
  BY <1>1 DEF Shaped
<1>3. QED  BY <1>1, <1>2, OrderlyNow

Shows(v, uids, known, phase) == [v EXCEPT !.uids = uids, !.known = known, !.phase = phase]

(* The fields of a view that shows other rows.                             *)
LEMMA Reshown ==
    ASSUME NEW v, IsView(v), NEW uids, NEW known, NEW phase, NEW w, w = Shows(v, uids, known, phase)
    PROVE  /\ IsView(w) /\ w.box = v.box /\ w.val = v.val /\ w.hm = v.hm /\ w.since = v.since
           /\ w.pending = v.pending /\ w.probe = v.probe /\ w.changed = v.changed
           /\ w.phase = phase /\ w.uids = uids /\ w.known = known
BY DEF Shows, IsView

(* MailboxView.open reads the rows of the mailbox.                         *)
LEMMA SnapshotStep ==
    ASSUME IInv, NEW s \in Sessions, Snapshot(s)
    PROVE  IInv'
<1> DEFINE v == view[s]
           c == client[s]
           k == Note({Row(m, msg[m]) : m \in Rows(s)}, <<>>)
           p == IF v.since = 0 THEN "idle" ELSE "vanishing"
           w == [v EXCEPT !.uids = RowUids(s), !.known = k, !.phase = p]
           d == IF v.since = 0 THEN [c EXCEPT !.hm = v.hm] ELSE c
<1>1. /\ v.phase = "opening" /\ view' = [view EXCEPT ![s] = w]
      /\ client' = IF v.since = 0 THEN [client EXCEPT ![s].hm = v.hm] ELSE client
      /\ UNCHANGED <<store, draft, source, astray>>
  BY DEF Snapshot
<1>2. client' = [client EXCEPT ![s] = d]
  <2>1. CASE v.since = 0
    BY <1>1, <2>1 DEF IInv
  <2>2. CASE v.since # 0
    BY <1>1, <2>2, SameMemory
  <2>3. QED  BY <2>1, <2>2
<1>3. /\ Session(box, msg, expunged, astray, v, c) /\ Shaped(box, v, c)
      /\ IsView(v) /\ IsMemory(c)
      /\ Same(box, astray, v.box, v.val) => Orderly(box, msg, v.box)
  BY <1>1, SessionOf
<1>4. /\ IsView(w) /\ w.box = v.box /\ w.val = v.val /\ w.hm = v.hm /\ w.since = v.since
      /\ w.pending = v.pending /\ w.probe = v.probe /\ w.changed = v.changed
      /\ w.phase = p /\ w.uids = RowUids(s) /\ w.known = k
  <2>1. w = Shows(v, RowUids(s), k, p)
    BY DEF Shows
  <2> HIDE DEF v, w, k, p
  <2>2. QED  BY <1>3, <2>1, Reshown
<1>5. /\ IsMemory(d) /\ d.box = c.box /\ d.val = c.val /\ d.told = c.told
      /\ d.hm = IF v.since = 0 THEN v.hm ELSE c.hm
  <2>1. CASE v.since = 0
    BY <1>3, <2>1 DEF IsMemory
  <2>2. CASE v.since # 0
    BY <1>3, <2>2
  <2>3. QED  BY <2>1, <2>2
<1>6. Shaped(box, w, d)
  <2>1. /\ v.hm \in Nat /\ c.hm \in Nat /\ v.probe \in Nat /\ v.since \in Nat
        /\ v.changed \subseteq RowRead
        /\ v.box \in Boxes /\ v.val <= box[v.box].val /\ v.val \in Nat
        /\ c.box = v.box /\ c.val = v.val
    BY <1>1, <1>3 DEF Shaped
  <2>2. w.phase \in Phases /\ d.hm \in Nat
    BY <1>4, <1>5, <2>1 DEF Phases
  <2> HIDE DEF w, d, p, k
  <2>3. QED  BY <1>4, <1>5, <2>1, <2>2 DEF Shaped
<1>7. Session(box, msg, expunged, astray, w, d)
  <2>1. Same(box, astray, v.box, v.val) =>
            /\ w.uids = UidsOf(msg, v.box)
            /\ w.known = Note(RowsRead(msg, RowsOf(msg, v.box)), <<>>)
    BY <1>4, Finds DEF RowsRead
  <2>2. w.phase = IF v.since = 0 THEN "idle" ELSE "vanishing"
    BY <1>4
  <2> HIDE DEF v, c, w, d, p, k
  <2>3. QED  BY <1>1, <1>3, <1>4, <1>5, <1>6, <2>1, <2>2, SnapshotKeeps
<1>8. /\ SInv'
      /\ \A t \in Sessions : Session(box', msg', expunged', astray', view[t], client[t])
  BY <1>1, AllSame
<1>9. box' = box /\ msg' = msg /\ expunged' = expunged /\ astray' = astray
  BY <1>1 DEF store
<1>10. QED  BY <1>1, <1>2, <1>7, <1>8, <1>9, Stepped

(* VANISHED (EARLIER) reads the removals since the client's modseq.        *)
LEMMA VanishStep ==
    ASSUME IInv, NEW s \in Sessions, Vanish(s)
    PROVE  IInv'
<1> DEFINE v == view[s]
           c == client[s]
           gone == {r[2] : r \in {x \in expunged : Here(s) /\ x[1] = v.box /\ x[3] > v.since}}
           w == [v EXCEPT !.phase = "changing"]
           d == [c EXCEPT !.told = Keep(c.told, DOMAIN c.told \ gone)]
<1>1. v.phase = "vanishing" /\ UNCHANGED <<store, draft, source, astray>>
  BY DEF Vanish
<1>2. view' = [view EXCEPT ![s] = w]
  BY DEF Vanish, IInv
<1>3. client' = [client EXCEPT ![s] = d]
  BY DEF Vanish, IInv
<1>4. /\ Session(box, msg, expunged, astray, v, c) /\ Shaped(box, v, c)
      /\ IsView(v) /\ IsMemory(c)
  BY SessionOf
<1>5. /\ IsView(w) /\ w.box = v.box /\ w.val = v.val /\ w.hm = v.hm /\ w.since = v.since
      /\ w.pending = v.pending /\ w.probe = v.probe /\ w.changed = v.changed
      /\ w.phase = "changing" /\ w.uids = v.uids /\ w.known = v.known
  BY <1>4 DEF IsView
<1>6. /\ IsMemory(d) /\ d.box = c.box /\ d.val = c.val /\ d.hm = c.hm
      /\ d.told = Keep(c.told, DOMAIN c.told \ gone)
  <2> HIDE DEF gone
  <2>1. QED  BY <1>4 DEF IsMemory
<1>7. Shaped(box, w, d)
  <2> HIDE DEF w, d
  <2>1. QED  BY <1>1, <1>4, <1>5, <1>6 DEF Shaped, Phases
<1>8. Same(box, astray, v.box, v.val) =>
          \A u, k \in Nat : <<v.box, u, k>> \in expunged /\ k > v.since => u \in gone
  <2>1. ASSUME Here(s), NEW u \in Nat, NEW k \in Nat, <<v.box, u, k>> \in expunged, k > v.since
        PROVE  u \in gone
    <3>1. <<v.box, u, k>>[2] = u /\ <<v.box, u, k>>[1] = v.box /\ <<v.box, u, k>>[3] = k
      OBVIOUS
    <3>2. QED  BY <2>1, <3>1
  <2> HIDE DEF gone
  <2>2. QED  BY <2>1, Finds
<1>9. Session(box, msg, expunged, astray, w, d)
  <2> HIDE DEF v, c, w, d, gone
  <2>1. QED  BY <1>1, <1>4, <1>5, <1>6, <1>7, <1>8, VanishKeeps
<1>10. /\ SInv'
       /\ \A t \in Sessions : Session(box', msg', expunged', astray', view[t], client[t])
  BY <1>1, AllSame
<1>11. box' = box /\ msg' = msg /\ expunged' = expunged /\ astray' = astray
  BY <1>1 DEF store
<1>12. QED  BY <1>2, <1>3, <1>9, <1>10, <1>11, Stepped

-----------------------------------------------------------------------------
(* What the code's updates of a view or a memory leave of it.              *)

Noted(v, known) == [v EXCEPT !.known = known]
Tells(c, told) == [c EXCEPT !.told = told]

(* The fields of a view whose command is done.                             *)
LEMMA IdleIs ==
    ASSUME NEW v, IsView(v), NEW w, w = Idle(v)
    PROVE  /\ IsView(w) /\ w.box = v.box /\ w.val = v.val /\ w.hm = v.hm /\ w.since = 0
           /\ w.pending = v.pending /\ w.probe = 0 /\ w.changed = {}
           /\ w.phase = "idle" /\ w.uids = v.uids /\ w.known = v.known
BY DEF Idle, IsView

(* The fields of a view whose sync begins.                                 *)
LEMMA SyncingIs ==
    ASSUME NEW v, IsView(v), NEW a, NEW w, w = Syncing(v, a)
    PROVE  /\ IsView(w) /\ w.box = v.box /\ w.val = v.val /\ w.hm = v.hm /\ w.since = v.since
           /\ w.pending = v.pending /\ w.probe = v.probe /\ w.changed = v.changed
           /\ w.phase = "sync" /\ w.uids = v.uids /\ w.known = v.known
BY DEF Syncing, IsView

(* The fields of a view that has noted modseqs.                            *)
LEMMA NotedIs ==
    ASSUME NEW v, IsView(v), NEW known, NEW w, w = Noted(v, known)
    PROVE  /\ IsView(w) /\ w.box = v.box /\ w.val = v.val /\ w.hm = v.hm /\ w.since = v.since
           /\ w.pending = v.pending /\ w.probe = v.probe /\ w.changed = v.changed
           /\ w.phase = v.phase /\ w.uids = v.uids /\ w.known = known
BY DEF Noted, IsView

(* The fields of a view that has forgotten UIDs.                           *)
LEMMA ForgetIs ==
    ASSUME NEW v, IsView(v), NEW gone, NEW w, w = Forget(v, gone)
    PROVE  /\ IsView(w) /\ w.box = v.box /\ w.val = v.val /\ w.hm = v.hm /\ w.since = v.since
           /\ w.probe = v.probe /\ w.changed = v.changed /\ w.phase = v.phase
           /\ w.allow = v.allow /\ w.uids = v.uids \ gone /\ w.pending = v.pending \ gone
           /\ DOMAIN w.known = DOMAIN v.known \ gone
           /\ \A u \in DOMAIN w.known : w.known[u] = v.known[u]
<1>1. PICK k : k = Keep(v.known, DOMAIN v.known \ gone)
  OBVIOUS
<1>2. w = [v EXCEPT !.uids = v.uids \ gone, !.pending = v.pending \ gone, !.known = k]
  BY <1>1 DEF Forget, IsView
<1>3. w.known = k
  BY <1>2 DEF IsView
<1>4. /\ DOMAIN k = DOMAIN v.known \ gone
      /\ \A u \in DOMAIN k : k[u] = v.known[u]
  BY <1>1 DEF Keep
<1>5. /\ IsView(w) /\ w.box = v.box /\ w.val = v.val /\ w.hm = v.hm /\ w.since = v.since
      /\ w.probe = v.probe /\ w.changed = v.changed /\ w.phase = v.phase
      /\ w.allow = v.allow /\ w.uids = v.uids \ gone /\ w.pending = v.pending \ gone
  BY <1>2 DEF IsView
<1>6. QED  BY <1>3, <1>4, <1>5

(* The fields of a memory that was told something.                         *)
LEMMA TellsIs ==
    ASSUME NEW c, IsMemory(c), NEW told, NEW d, d = Tells(c, told)
    PROVE  IsMemory(d) /\ d.box = c.box /\ d.val = c.val /\ d.hm = c.hm /\ d.told = told
BY DEF Tells, IsMemory

(* A view and a memory of the same mailbox keep their shape.               *)
LEMMA Reshaped ==
    ASSUME NEW bx, NEW v, NEW c, NEW w, NEW d, Shaped(bx, v, c), v.phase # "off",
           IsView(w), IsMemory(d), w.phase \in Phases, w.hm \in Nat, w.probe \in Nat,
           w.since \in Nat, d.hm \in Nat, w.changed \subseteq RowRead,
           w.box = v.box, w.val = v.val, d.box = c.box, d.val = c.val
    PROVE  Shaped(bx, w, d)
BY DEF Shaped

(* The last part of a resynchronising SELECT.                              *)
LEMMA ChangesStep ==
    ASSUME IInv, NEW s \in Sessions, Changes(s)
    PROVE  IInv'
<1> DEFINE v == view[s]
           c == client[s]
           R == {r \in {Row(m, msg[m]) : m \in Rows(s)} : r.modseq > v.since /\ r.uid \in v.uids}
           w == Idle(Noted(v, Note(R, v.known)))
           d == [c EXCEPT !.told = Tell(R, c.told), !.hm = v.hm]
<1>1. v.phase = "changing" /\ v.phase # "off" /\ UNCHANGED <<store, draft, source, astray>>
  BY DEF Changes
<1>2. view' = [view EXCEPT ![s] = w]
  <2>1. \A x : Noting(x, R) = Noted(x, Note(R, x.known))
    BY Zenon DEF Noting, Noted
  <2>2. view' = [view EXCEPT ![s] = Idle(Noting(v, R))]
    BY Zenon DEF Changes
  <2>3. QED  BY <2>1, <2>2, Zenon
<1>3. client' = [client EXCEPT ![s] = d]
  BY DEF Changes, IInv
<1>4. /\ Session(box, msg, expunged, astray, v, c) /\ Shaped(box, v, c)
      /\ IsView(v) /\ IsMemory(c)
      /\ Same(box, astray, v.box, v.val) => Orderly(box, msg, v.box)
  BY <1>1, SessionOf
<1>5. /\ IsView(w) /\ w.box = v.box /\ w.val = v.val /\ w.hm = v.hm /\ w.since = 0
      /\ w.pending = v.pending /\ w.probe = 0 /\ w.changed = {}
      /\ w.phase = "idle" /\ w.uids = v.uids /\ w.known = Note(R, v.known)
  <2> HIDE DEF v, R
  <2>1. PICK x : x = Noted(v, Note(R, v.known))
    OBVIOUS
  <2>2. w = Idle(x)
    BY <2>1
  <2> HIDE DEF w
  <2>3. /\ IsView(x) /\ x.box = v.box /\ x.val = v.val /\ x.hm = v.hm
        /\ x.pending = v.pending /\ x.uids = v.uids /\ x.known = Note(R, v.known)
    BY <1>4, <2>1, NotedIs
  <2>4. QED  BY <2>2, <2>3, IdleIs
<1>6. /\ IsMemory(d) /\ d.box = c.box /\ d.val = c.val /\ d.hm = v.hm
      /\ d.told = Tell(R, c.told)
  <2>1. PICK t : t = Tell(R, c.told)
    OBVIOUS
  <2>2. d = [c EXCEPT !.told = t, !.hm = v.hm]
    BY <2>1
  <2> HIDE DEF d, R, v, c
  <2>3. IsMemory(d) /\ d.box = c.box /\ d.val = c.val /\ d.hm = v.hm /\ d.told = t
    BY <1>4, <2>2 DEF IsMemory
  <2>4. QED  BY <2>1, <2>3
<1>7. Shaped(box, w, d)
  <2> HIDE DEF w, d
  <2>1. v.hm \in Nat
    BY <1>4 DEF Shaped
  <2>2. w.phase \in Phases
    BY <1>5 DEF Phases
  <2> HIDE DEF v, c
  <2>3. QED  BY <1>1, <1>4, <1>5, <1>6, <2>1, <2>2, Reshaped
<1>8. ASSUME Same(box, astray, v.box, v.val)
      PROVE  /\ Current(msg, v.box, R) /\ UidsRead(R) \subseteq v.uids
             /\ \A m \in RowsOf(msg, v.box) :
                   msg[m].modseq > v.since /\ msg[m].uid \in v.uids => msg[m].uid \in UidsRead(R)
  <2>1. Rows(s) = RowsOf(msg, v.box)
    BY <1>8, Finds
  <2>2. Current(msg, v.box, R)
    BY <2>1 DEF Current, Row
  <2>3. UidsRead(R) \subseteq v.uids
    BY DEF UidsRead
  <2>4. ASSUME NEW m \in RowsOf(msg, v.box), msg[m].modseq > v.since, msg[m].uid \in v.uids
        PROVE  msg[m].uid \in UidsRead(R)
    <3>1. Row(m, msg[m]) \in R /\ Row(m, msg[m]).uid = msg[m].uid
      BY <2>1, <2>4 DEF Row
    <3> HIDE DEF R
    <3>2. QED  BY <3>1 DEF UidsRead
  <2>5. QED  BY <2>2, <2>3, <2>4
<1>9. Session(box, msg, expunged, astray, w, d)
  <2> HIDE DEF v, c, w, d, R
  <2>1. QED  BY <1>1, <1>4, <1>5, <1>6, <1>7, <1>8, ChangesKeeps
<1>10. /\ SInv'
       /\ \A t \in Sessions : Session(box', msg', expunged', astray', view[t], client[t])
  BY <1>1, AllSame
<1>11. box' = box /\ msg' = msg /\ expunged' = expunged /\ astray' = astray
  BY <1>1 DEF store
<1>12. QED  BY <1>2, <1>3, <1>9, <1>10, <1>11, Stepped

(* FETCH and STORE, against the tables after the step: the rows of S are   *)
(* the ones named, noted as N and told as T.                               *)
LEMMA ShownStep ==
    ASSUME IInv, SInv', NEW s \in Sessions,
           \A t \in Sessions : Session(box', msg', expunged', astray', view[t], client[t]),
           view[s].phase = "idle", NEW a, NEW N, NEW T,
           view' = [view EXCEPT ![s] = Syncing(Noted(view[s], Note(N, view[s].known)), a)],
           client' = [client EXCEPT ![s] = Tells(client[s], Tell(T, client[s].told))],
           Same(box', astray', view[s].box, view[s].val) =>
               /\ Current(msg', view[s].box, N) /\ Current(msg', view[s].box, T)
               /\ UidsRead(N) = UidsRead(T) /\ UidsRead(N) \subseteq view[s].uids
    PROVE  IInv'
<1> DEFINE v == view[s]
           c == client[s]
           w == Syncing(Noted(v, Note(N, v.known)), a)
           d == Tells(c, Tell(T, c.told))
<1>1. /\ Session(box', msg', expunged', astray', v, c) /\ Shaped(box', v, c)
      /\ v.phase # "off" /\ IsView(v) /\ IsMemory(c) /\ v.box \in Boxes
  BY DEF Session, Shaped
<1>2. Same(box', astray', v.box, v.val) => Orderly(box', msg', v.box)
  BY <1>1, OrderlyThen
<1>3. /\ IsView(w) /\ w.box = v.box /\ w.val = v.val /\ w.hm = v.hm /\ w.since = v.since
      /\ w.pending = v.pending /\ w.probe = v.probe /\ w.changed = v.changed
      /\ w.phase = "sync" /\ w.uids = v.uids /\ w.known = Note(N, v.known)
  <2> HIDE DEF v
  <2>1. PICK x : x = Noted(v, Note(N, v.known))
    OBVIOUS
  <2>2. w = Syncing(x, a)
    BY <2>1
  <2> HIDE DEF w
  <2>3. /\ IsView(x) /\ x.box = v.box /\ x.val = v.val /\ x.hm = v.hm /\ x.since = v.since
        /\ x.pending = v.pending /\ x.probe = v.probe /\ x.changed = v.changed
        /\ x.uids = v.uids /\ x.known = Note(N, v.known)
    BY <1>1, <2>1, NotedIs
  <2>4. QED  BY <2>2, <2>3, SyncingIs
<1>4. /\ IsMemory(d) /\ d.box = c.box /\ d.val = c.val /\ d.hm = c.hm
      /\ d.told = Tell(T, c.told)
  <2> HIDE DEF c
  <2>1. QED  BY <1>1, TellsIs
<1>5. Shaped(box', w, d)
  <2> HIDE DEF w, d
  <2>1. /\ v.hm \in Nat /\ v.probe \in Nat /\ v.since \in Nat /\ c.hm \in Nat
        /\ v.changed \subseteq RowRead
    BY <1>1 DEF Shaped
  <2>2. w.phase \in Phases
    BY <1>3 DEF Phases
  <2> HIDE DEF v, c
  <2>3. QED  BY <1>1, <1>3, <1>4, <2>1, <2>2, Reshaped
<1>6. Session(box', msg', expunged', astray', w, d)
  <2>1. v.phase = "idle" /\ (Same(box', astray', v.box, v.val) =>
               /\ Current(msg', v.box, N) /\ Current(msg', v.box, T)
               /\ UidsRead(N) = UidsRead(T) /\ UidsRead(N) \subseteq v.uids)
    OBVIOUS
  <2> HIDE DEF v, c, w, d
  <2>2. QED  BY <1>1, <1>2, <1>3, <1>4, <1>5, <2>1, ShownKeeps
<1>7. QED  BY <1>6, Stepped

(* A view that has forgotten the UIDs gone, and a memory that has.         *)
Forgot(v, w, gone) ==
    /\ IsView(w) /\ w.phase \in {"idle", "sync"}
    /\ w.since \in Nat /\ w.probe \in Nat /\ w.changed \subseteq RowRead
    /\ w.box = v.box /\ w.val = v.val /\ w.hm = v.hm
    /\ w.uids = v.uids \ gone /\ w.pending = v.pending \ gone
    /\ DOMAIN w.known = DOMAIN v.known \ gone
    /\ \A u \in DOMAIN w.known : w.known[u] = v.known[u]

Dropped(c, d, gone) ==
    /\ IsMemory(d) /\ d.box = c.box /\ d.val = c.val /\ d.hm = c.hm
    /\ DOMAIN d.told = DOMAIN c.told \ gone
    /\ \A u \in DOMAIN d.told : d.told[u] = c.told[u]

(* A command that announces its own expunges.                              *)
LEMMA ForgotAtSync ==
    ASSUME NEW bx, NEW v, NEW c, Shaped(bx, v, c), NEW gone, NEW w,
           w = Syncing(Forget(v, gone), TRUE)
    PROVE  Forgot(v, w, gone)
<1>1. IsView(v) /\ v.since \in Nat /\ v.probe \in Nat /\ v.changed \subseteq RowRead
  BY DEF Shaped
<1>2. PICK x : x = Forget(v, gone)
  OBVIOUS
<1>3. /\ IsView(x) /\ x.box = v.box /\ x.val = v.val /\ x.hm = v.hm /\ x.since = v.since
      /\ x.probe = v.probe /\ x.changed = v.changed
      /\ x.uids = v.uids \ gone /\ x.pending = v.pending \ gone
      /\ DOMAIN x.known = DOMAIN v.known \ gone
      /\ \A u \in DOMAIN x.known : x.known[u] = v.known[u]
  BY <1>1, <1>2, ForgetIs
<1>4. w = Syncing(x, TRUE)
  BY <1>2
<1>5. /\ IsView(w) /\ w.box = x.box /\ w.val = x.val /\ w.hm = x.hm /\ w.since = x.since
      /\ w.pending = x.pending /\ w.probe = x.probe /\ w.changed = x.changed
      /\ w.phase = "sync" /\ w.uids = x.uids /\ w.known = x.known
  BY <1>3, <1>4 DEF Syncing, IsView
<1>6. QED  BY <1>1, <1>3, <1>5 DEF Forgot

(* A command that announces none.                                          *)
LEMMA NoneForgot ==
    ASSUME NEW bx, NEW v, NEW c, Shaped(bx, v, c), NEW w, w = Syncing(v, TRUE)
    PROVE  Forgot(v, w, {})
<1>1. IsView(v) /\ v.since \in Nat /\ v.probe \in Nat /\ v.changed \subseteq RowRead
  BY DEF Shaped
<1>2. /\ IsView(w) /\ w.box = v.box /\ w.val = v.val /\ w.hm = v.hm /\ w.since = v.since
      /\ w.pending = v.pending /\ w.probe = v.probe /\ w.changed = v.changed
      /\ w.phase = "sync" /\ w.uids = v.uids /\ w.known = v.known
  BY <1>1 DEF Syncing, IsView
<1>3. QED  BY <1>1, <1>2 DEF Forgot

(* A client that is told that messages have gone.                          *)
LEMMA DropsTold ==
    ASSUME NEW c, IsMemory(c), NEW gone, NEW d,
           d = Tells(c, Keep(c.told, DOMAIN c.told \ gone))
    PROVE  Dropped(c, d, gone)
<1>1. PICK t : t = Keep(c.told, DOMAIN c.told \ gone)
  OBVIOUS
<1>2. DOMAIN t = DOMAIN c.told \ gone /\ \A u \in DOMAIN t : t[u] = c.told[u]
  BY <1>1 DEF Keep
<1>3. IsMemory(d) /\ d.box = c.box /\ d.val = c.val /\ d.hm = c.hm /\ d.told = t
  BY <1>1, TellsIs
<1>4. QED  BY <1>2, <1>3 DEF Dropped

(* The commands and the start of a sync, against the tables after the      *)
(* step: session s forgets the UIDs gone, which are no longer there.       *)
LEMMA ForgetStep ==
    ASSUME IInv, SInv', NEW s \in Sessions, NEW w, NEW d, NEW gone,
           \A t \in Sessions : Session(box', msg', expunged', astray', view[t], client[t]),
           view[s].phase \in {"idle", "sync"},
           view' = [view EXCEPT ![s] = w], client' = [client EXCEPT ![s] = d],
           Forgot(view[s], w, gone), Dropped(client[s], d, gone),
           Same(box', astray', view[s].box, view[s].val) =>
               gone \intersect UidsOf(msg', view[s].box) = {}
    PROVE  IInv'
<1> DEFINE v == view[s]
           c == client[s]
<1>1. /\ Session(box', msg', expunged', astray', v, c) /\ Shaped(box', v, c)
      /\ v.phase # "off" /\ v.hm \in Nat /\ c.hm \in Nat /\ v.phase \in {"idle", "sync"}
  BY DEF Session, Shaped
<1>2. w.phase \in Phases
  BY DEF Phases, Forgot
<1>3. /\ Forgot(v, w, gone) /\ Dropped(c, d, gone)
      /\ Same(box', astray', v.box, v.val) => gone \intersect UidsOf(msg', v.box) = {}
  OBVIOUS
<1> HIDE DEF v, c
<1>4. Shaped(box', w, d)
  BY <1>1, <1>2, <1>3, Reshaped DEF Forgot, Dropped
<1>5. Session(box', msg', expunged', astray', w, d)
  BY <1>1, <1>3, <1>4, ForgetKeeps DEF Forgot, Dropped
<1>6. QED  BY <1>5, Stepped

(* FETCH tells and notes the rows it reads.                                *)
LEMMA FetchStep ==
    ASSUME IInv, NEW s \in Sessions, NEW U, NEW a, Fetch(s, U, a)
    PROVE  IInv'
<1> DEFINE R == RowsRead(msg, Targets(s, U))
<1>1. /\ view[s].phase = "idle" /\ Here(s) /\ U \subseteq Live(s)
      /\ UNCHANGED <<store, draft, source, astray>>
  BY DEF Fetch, Command
<1>2. /\ SInv'
      /\ \A t \in Sessions : Session(box', msg', expunged', astray', view[t], client[t])
  BY <1>1, AllSame
<1>3. view' = [view EXCEPT ![s] = Syncing(Noted(view[s], Note(R, view[s].known)), a)]
  <2>1. \A x : Noting(x, R) = Noted(x, Note(R, x.known))
    BY Zenon DEF Noting, Noted
  <2>2. view' = [view EXCEPT ![s] = Syncing(Noting(view[s], R), a)]
    BY Zenon DEF Fetch, RowsRead
  <2>3. QED  BY <2>1, <2>2, Zenon
<1>4. client' = [client EXCEPT ![s] = Tells(client[s], Tell(R, client[s].told))]
  BY DEF Fetch, RowsRead, Tells, IInv
<1>5. Targets(s, U) \in SUBSET RowsOf(msg, view[s].box)
  BY DEF Targets, Rows, RowsOf, In
<1>6. Current(msg, view[s].box, R) /\ UidsRead(R) = {msg[m].uid : m \in Targets(s, U)}
  BY <1>5, RowsCurrent, Zenon
<1>7. UidsRead(R) \subseteq view[s].uids
  BY <1>1, <1>6 DEF Targets, Live
<1>8. Current(msg', view[s].box, R)
  BY <1>1, <1>6 DEF store
<1> HIDE DEF R
<1>9. QED  BY <1>1, <1>2, <1>3, <1>4, <1>7, <1>8, ShownStep

(* The UIDs of rows that were read.                                        *)
LEMMA UidsReadIn ==
    ASSUME NEW R, NEW T, \A r \in R : \E x \in T : r.uid = x.uid
    PROVE  UidsRead(R) \subseteq UidsRead(T)
BY DEF UidsRead

(* Rows told without their flags are no less current.                      *)
LEMMA SilentCurrent ==
    ASSUME NEW ms, NEW b, NEW S \in SUBSET RowsOf(ms, b), NEW T,
           T = {[r EXCEPT !.flag = "unknown"] : r \in RowsRead(ms, S)}
    PROVE  Current(ms, b, T) /\ UidsRead(T) = UidsRead(RowsRead(ms, S))
<1>1. ASSUME NEW r \in RowsRead(ms, S), NEW x, x = [r EXCEPT !.flag = "unknown"]
      PROVE  /\ x.uid = r.uid
             /\ \E m \in RowsOf(ms, b) : /\ x.m = m /\ x.uid = ms[m].uid
                                         /\ x.modseq = ms[m].modseq /\ x.flag = "unknown"
  <2>1. PICK m \in S : r = [m |-> m, uid |-> ms[m].uid, modseq |-> ms[m].modseq,
                            flag |-> ms[m].flag]
    BY <1>1 DEF RowsRead, Row
  <2>2. x = [m |-> m, uid |-> ms[m].uid, modseq |-> ms[m].modseq, flag |-> "unknown"]
    BY <1>1, <2>1
  <2>3. x.m = m /\ x.uid = ms[m].uid /\ x.modseq = ms[m].modseq /\ x.flag = "unknown"
    BY <2>2
  <2>4. r.uid = ms[m].uid
    BY <2>1
  <2>5. QED  BY <2>3, <2>4
<1>2. Current(ms, b, T)
  <2>1. ASSUME NEW x \in T
        PROVE  \E m \in RowsOf(ms, b) : /\ x.m = m /\ x.uid = ms[m].uid
                                        /\ x.modseq = ms[m].modseq /\ x.flag = "unknown"
    <3>1. PICK r \in RowsRead(ms, S) : x = [r EXCEPT !.flag = "unknown"]
      BY <2>1, Zenon
    <3>2. QED  BY <1>1, <3>1, Zenon
  <2>2. QED  BY <2>1 DEF Current
<1>3. UidsRead(T) \subseteq UidsRead(RowsRead(ms, S))
  <2>1. ASSUME NEW x \in T PROVE \E r \in RowsRead(ms, S) : x.uid = r.uid
    <3>1. PICK r \in RowsRead(ms, S) : x = [r EXCEPT !.flag = "unknown"]
      BY <2>1, Zenon
    <3>2. QED  BY <1>1, <3>1, Zenon
  <2>2. QED  BY <2>1, UidsReadIn
<1>4. UidsRead(RowsRead(ms, S)) \subseteq UidsRead(T)
  <2>1. ASSUME NEW r \in RowsRead(ms, S) PROVE \E x \in T : r.uid = x.uid
    <3>1. [r EXCEPT !.flag = "unknown"] \in T
      BY <2>1, Zenon
    <3>2. QED  BY <1>1, <2>1, <3>1, Zenon
  <2>2. QED  BY <2>1, UidsReadIn
<1>5. QED  BY <1>2, <1>3, <1>4

(* STORE changes flags, and tells and notes the rows it changed.           *)
LEMMA StoreStep ==
    ASSUME IInv, NEW s \in Sessions, NEW U, NEW flag \in Flag, NEW silent \in BOOLEAN, NEW a,
           Store(s, U, flag, silent, a)
    PROVE  Kept /\ IInv'
<1> DEFINE b == view[s].box
           S == Targets(s, U)
           R == RowsRead(msg', S)
           T == IF silent THEN {[r EXCEPT !.flag = "unknown"] : r \in R} ELSE R
<1>1. /\ view[s].phase = "idle" /\ Here(s) /\ U \subseteq Live(s) /\ SetFlag(b, S, flag)
      /\ UNCHANGED <<draft, source, astray>>
  BY DEF Store, Command
<1>2. SInv /\ b \in Boxes
  BY <1>1, SessionOf DEF IInv, Shaped
<1>3. S \in SUBSET In(b) /\ S \subseteq Messages
  BY DEF Targets, Rows, In
<1>4. Kept
  BY <1>1, <1>2, <1>3, SetFlagKeeps
<1>5. /\ SInv'
      /\ \A t \in Sessions : Session(box', msg', expunged', astray', view[t], client[t])
  BY <1>4, AllKept
<1>6. view' = [view EXCEPT ![s] = Syncing(Noted(view[s], Note(R, view[s].known)), a)]
  <2>1. \A x : Noting(x, R) = Noted(x, Note(R, x.known))
    BY Zenon DEF Noting, Noted
  <2>2. view' = [view EXCEPT ![s] = Syncing(Noting(view[s], R), a)]
    BY Zenon DEF Store, RowsRead
  <2>3. QED  BY <2>1, <2>2, Zenon
<1>7. client' = [client EXCEPT ![s] = Tells(client[s], Tell(T, client[s].told))]
  <2>1. client' = [client EXCEPT ![s].told = Tell(T, client[s].told)]
    BY Zenon DEF Store, RowsRead
  <2> HIDE DEF T
  <2>2. QED  BY <2>1 DEF Tells, IInv
<1>8. \A m \in Messages : msg'[m].box = msg[m].box /\ msg'[m].uid = msg[m].uid
  <2>1. msg \in [Messages -> MsgRow] /\ box[b].hm \in Nat
    BY <1>2 DEF SInv, Tables, BoxRow
  <2>2. \A m \in Messages : \/ msg'[m] = msg[m]
                            \/ msg'[m] = [msg[m] EXCEPT !.flag = flag, !.modseq = box[b].hm + 1]
    BY <1>1 DEF SetFlag
  <2>3. QED  BY <2>1, <2>2 DEF MsgRow
<1>9. S \in SUBSET RowsOf(msg', b)
  BY <1>3, <1>8 DEF RowsOf, In
<1>10. Current(msg', b, R) /\ UidsRead(R) = {msg'[m].uid : m \in S}
  BY <1>9, RowsCurrent, Zenon
<1>11. UidsRead(R) \subseteq view[s].uids
  <2>1. \A m \in S : msg'[m].uid \in view[s].uids
    BY <1>1, <1>3, <1>8 DEF Targets, Live
  <2>2. QED  BY <1>10, <2>1
<1>12. Current(msg', b, T) /\ UidsRead(R) = UidsRead(T)
  <2>1. CASE silent
    <3>1. T = {[r EXCEPT !.flag = "unknown"] : r \in R}
      BY <2>1
    <3> HIDE DEF T
    <3>2. QED  BY <1>9, <3>1, SilentCurrent
  <2>2. CASE ~ silent
    BY <1>10, <2>2
  <2>3. QED  BY <2>1, <2>2
<1> HIDE DEF R, T
<1>13. IInv'
  BY <1>1, <1>5, <1>6, <1>7, <1>10, <1>11, <1>12, ShownStep
<1>14. QED  BY <1>4, <1>13

(* EXPUNGE removes messages and announces them at once.                    *)
LEMMA ExpungeStep ==
    ASSUME IInv, NEW s \in Sessions, NEW all \in BOOLEAN, NEW U, Expunge(s, all, U)
    PROVE  Kept /\ IInv'
<1> DEFINE v == view[s]
           c == client[s]
           b == v.box
           S == {m \in Rows(s) : msg[m].flag = "deleted" /\ (all \/ msg[m].uid \in U)}
           gone == {msg[m].uid : m \in S}
           w == Syncing(Forget(v, gone), TRUE)
           t == Keep(c.told, DOMAIN c.told \ gone)
           d == Tells(c, t)
<1>1. /\ v.phase = "idle" /\ Here(s) /\ S # {} /\ Delete(b, S) /\ Lost(S)
      /\ UNCHANGED <<source, astray>>
      /\ view' = [view EXCEPT ![s] = w]
      /\ client' = [client EXCEPT ![s].told = t]
  BY Zenon DEF Expunge, Command
<1>2. SInv /\ b \in Boxes /\ box[b].live /\ Shaped(box, v, c) /\ IsView(v) /\ IsMemory(c)
  BY <1>1, SessionOf DEF IInv, Shaped, Here
<1>3. S \in SUBSET In(b)
  BY DEF Rows
<1>4. Kept
  <2> HIDE DEF S
  <2>1. QED  BY <1>1, <1>2, <1>3, DeleteKeeps
<1>5. /\ SInv'
      /\ \A z \in Sessions : Session(box', msg', expunged', astray', view[z], client[z])
  BY <1>4, AllKept
<1>6. client' = [client EXCEPT ![s] = d]
  <2> HIDE DEF t
  <2>1. QED  BY <1>1 DEF Tells, IInv
<1>7. gone \intersect UidsOf(msg', b) = {}
  <2> HIDE DEF S
  <2>1. \A m \in Messages : msg'[m] = IF m \in S THEN Nowhere ELSE msg[m]
    BY <1>1 DEF Delete
  <2>2. \A m \in RowsOf(msg', b) : m \in In(b) /\ m \notin S /\ msg'[m] = msg[m]
    BY <1>2, <2>1, MailStoreAssumption DEF RowsOf, In, Nowhere
  <2>3. \A m, k \in In(b) : msg[m].uid = msg[k].uid => m = k
    BY <1>2 DEF SInv, Numbered
  <2>4. QED  BY <1>3, <2>2, <2>3 DEF UidsOf
<1> HIDE DEF S, gone
<1>8. Forgot(v, w, gone) /\ Dropped(c, d, gone)
  BY <1>2, ForgotAtSync, DropsTold
<1> HIDE DEF w, d
<1>9. IInv'
  BY <1>1, <1>5, <1>6, <1>7, <1>8, ForgetStep
<1>10. QED  BY <1>4, <1>9

(* MOVE re-homes messages and announces them as gone at once.              *)
LEMMA MoveStep ==
    ASSUME IInv, NEW s \in Sessions, NEW U, NEW dst \in Boxes, Move(s, U, dst)
    PROVE  Kept /\ IInv'
<1> DEFINE v == view[s]
           c == client[s]
           b == v.box
           S == Targets(s, U)
           gone == {msg[m].uid : m \in S}
           w == Syncing(Forget(v, gone), TRUE)
           t == Keep(c.told, DOMAIN c.told \ gone)
           d == Tells(c, t)
<1>1. /\ v.phase = "idle" /\ Here(s) /\ S # {} /\ Rehome(b, dst, S) /\ box[dst].live
      /\ UNCHANGED <<draft, source, astray>>
      /\ view' = [view EXCEPT ![s] = w]
      /\ client' = [client EXCEPT ![s].told = t]
  BY Zenon DEF Move, Command, Exists
<1>2. SInv /\ b \in Boxes /\ box[b].live /\ Shaped(box, v, c) /\ IsView(v) /\ IsMemory(c)
  BY <1>1, SessionOf DEF IInv, Shaped, Here
<1>3. S \in SUBSET In(b) /\ S \subseteq Messages
  BY DEF Targets, Rows, In
<1>4. Kept
  <2> HIDE DEF S
  <2>1. QED  BY <1>1, <1>2, <1>3, RehomeKeeps
<1>5. /\ SInv'
      /\ \A z \in Sessions : Session(box', msg', expunged', astray', view[z], client[z])
  BY <1>4, AllKept
<1>6. client' = [client EXCEPT ![s] = d]
  <2> HIDE DEF t
  <2>1. QED  BY <1>1 DEF Tells, IInv
<1>7. Same(box', astray', b, v.val) => gone \intersect UidsOf(msg', b) = {}
  <2> HIDE DEF S
  <2>1. SUFFICES ASSUME Same(box', astray', b, v.val), NEW m \in RowsOf(msg', b), NEW k \in S,
                        msg'[m].uid = msg[k].uid
                 PROVE  FALSE
    BY DEF UidsOf
  <2>2. v.val \in Nat /\ v.val <= box[b].val
    BY <1>1, <1>2 DEF Shaped
  <2>3. Same(box, astray, b, v.val) /\ Ledger(b)
    BY <1>2, <1>4, <2>1, <2>2, LedgerKept
  <2>4. Orderly(box, msg, b)
    BY <1>2, <2>3, OrderlyNow
  <2>5. k \in RowsOf(msg, b)
    BY <1>3 DEF In, RowsOf
  <2>6. msg'[m].uid < box[b].next
    BY <2>1, <2>4, <2>5 DEF Orderly
  <2>7. m \in RowsOf(msg, b) /\ msg[m].uid = msg[k].uid
    BY <2>1, <2>3, <2>6 DEF Ledger
  <2>8. m = k
    BY <2>4, <2>5, <2>7 DEF Orderly
  <2>9. msg \in [Messages -> MsgRow]
    BY <1>2 DEF SInv, Tables
  <2>10. Moved(S, dst)[k] \in Nat /\ Moved(S, dst)[k] >= box[dst].next
    BY <1>2, <1>3, MovedApart
  <2>11. msg'[k] = [msg[k] EXCEPT !.box = dst, !.uid = Moved(S, dst)[k],
                                  !.modseq = Max({box[b].hm, box[dst].hm}) + 1]
    BY <1>1, <1>3 DEF Rehome
  <2>12. msg'[k].box = dst /\ msg'[k].uid = Moved(S, dst)[k]
    BY <1>3, <2>9, <2>11 DEF MsgRow
  <2>13. dst = b
    BY <2>1, <2>8, <2>12 DEF RowsOf
  <2>14. box[b].next \in Nat
    BY <2>4 DEF Orderly
  <2>15. QED  BY <2>6, <2>8, <2>10, <2>12, <2>13, <2>14
<1> HIDE DEF S, gone
<1>8. Forgot(v, w, gone) /\ Dropped(c, d, gone)
  BY <1>2, ForgotAtSync, DropsTold
<1> HIDE DEF w, d
<1>9. IInv'
  BY <1>1, <1>5, <1>6, <1>7, <1>8, ForgetStep
<1>10. QED  BY <1>4, <1>9

(* CLOSE expunges and leaves the mailbox.                                  *)
LEMMA CloseStep ==
    ASSUME IInv, NEW s \in Sessions, Close(s)
    PROVE  Kept /\ IInv'
<1> DEFINE b == view[s].box
           S == {m \in Rows(s) : msg[m].flag = "deleted"}
<1>1. /\ view[s].phase = "idle" /\ Here(s) /\ S # {} /\ Delete(b, S) /\ Lost(S)
      /\ UNCHANGED <<source, astray>> /\ view' = [view EXCEPT ![s] = NoView] /\ client' = client
  BY DEF Close, Command
<1>2. SInv /\ b \in Boxes /\ box[b].live
  BY <1>1, SessionOf DEF IInv, Shaped, Here
<1>3. S \in SUBSET In(b)
  BY DEF Rows
<1> HIDE DEF S
<1>4. Kept
  BY <1>1, <1>2, <1>3, DeleteKeeps
<1>5. /\ SInv'
      /\ \A t \in Sessions : Session(box', msg', expunged', astray', view[t], client[t])
  BY <1>4, AllKept
<1>6. client' = [client EXCEPT ![s] = client[s]]
  BY <1>1, SameMemory
<1>7. Session(box', msg', expunged', astray', NoView, client[s])
  BY <1>5, ClosedKeeps
<1>8. IInv'
  BY <1>1, <1>5, <1>6, <1>7, Stepped
<1>9. QED  BY <1>4, <1>8

(* A sync begins; nothing is forgotten.                                    *)
LEMMA SyncBegins ==
    ASSUME IInv, SInv', NEW s \in Sessions, view[s].phase = "idle",
           \A t \in Sessions : Session(box', msg', expunged', astray', view[t], client[t]),
           view' = [view EXCEPT ![s] = Syncing(view[s], TRUE)], client' = client
    PROVE  IInv'
<1> DEFINE w == Syncing(view[s], TRUE)
<1>1. Shaped(box, view[s], client[s]) /\ IsMemory(client[s])
  BY SessionOf
<1>2. client' = [client EXCEPT ![s] = client[s]] /\ view' = [view EXCEPT ![s] = w]
  BY SameMemory
<1>3. Forgot(view[s], w, {})
  BY <1>1, NoneForgot
<1>4. Dropped(client[s], client[s], {})
  BY <1>1 DEF Dropped
<1>5. {} \intersect UidsOf(msg', view[s].box) = {}
  OBVIOUS
<1> HIDE DEF w
<1>6. QED  BY <1>2, <1>3, <1>4, <1>5, ForgetStep

(* NOOP, or IDLE wakes.                                                    *)
LEMMA WakeStep ==
    ASSUME IInv, NEW s \in Sessions, Wake(s)
    PROVE  IInv'
<1>1. /\ UNCHANGED <<store, draft, source, astray>> /\ client' = client
      /\ view[s].phase = "idle" /\ view' = [view EXCEPT ![s] = Syncing(view[s], TRUE)]
  BY DEF Wake
<1>2. QED  BY <1>1, AllSame, SyncBegins

(* COPY files the messages in another mailbox, or in the same.             *)
LEMMA CopyStep ==
    ASSUME IInv, NEW s \in Sessions, NEW U, NEW dst \in Boxes, Copy(s, U, dst)
    PROVE  Kept /\ IInv'
<1> DEFINE b == view[s].box
           S == Targets(s, U)
<1>1. /\ view[s].phase = "idle" /\ view' = [view EXCEPT ![s] = Syncing(view[s], TRUE)]
      /\ client' = client /\ UNCHANGED <<draft, source, astray>>
      /\ S # {} /\ box[dst].live
      /\ \E N \in SUBSET (Messages \ Present) : \E of \in [N -> S] : Duplicate(dst, S, N, of)
  BY DEF Copy, Command, Exists
<1>2. SInv /\ b \in Boxes /\ S \in SUBSET In(b)
  <2>1. b \in Boxes
    BY <1>1, SessionOf DEF Shaped
  <2>2. QED  BY <2>1 DEF IInv, Targets, Rows
<1> HIDE DEF b, S
<1>3. Kept
  BY <1>1, <1>2, DuplicateKeeps
<1>4. IInv'
  BY <1>1, <1>3, AllKept, SyncBegins
<1>5. QED  BY <1>3, <1>4

(* What sync announces as gone, and what is left of the view.              *)
LEMMA FlushIs ==
    ASSUME NEW v, IsView(v), NEW f, f = Flush(v), NEW ann, ann = Announced(v)
    PROVE  /\ ann = {} \/ ann = v.pending
           /\ IsView(f) /\ f.box = v.box /\ f.val = v.val /\ f.hm = v.hm /\ f.since = v.since
           /\ f.probe = v.probe /\ f.changed = v.changed /\ f.phase = v.phase
           /\ f.uids = v.uids \ ann /\ f.pending = v.pending \ ann
           /\ DOMAIN f.known = DOMAIN v.known \ ann
           /\ \A u \in DOMAIN f.known : f.known[u] = v.known[u]
<1>1. CASE v.allow
  <2>1. f = Forget(v, v.pending) /\ ann = v.pending
    BY <1>1 DEF Flush, Announced
  <2>2. QED  BY <2>1, ForgetIs
<1>2. CASE ~ v.allow
  <2>1. f = v /\ ann = {}
    BY <1>2 DEF Flush, Announced
  <2>2. QED  BY <2>1
<1>3. QED  BY <1>1, <1>2

Probed(v, n) == [v EXCEPT !.phase = "probed", !.probe = n]
Reads(v, X) == [v EXCEPT !.phase = "changed", !.changed = X]

(* The fields of a view that has read the mailbox's modseq.                *)
LEMMA ProbedIs ==
    ASSUME NEW v, IsView(v), NEW n, NEW w, w = Probed(v, n)
    PROVE  /\ IsView(w) /\ w.box = v.box /\ w.val = v.val /\ w.hm = v.hm /\ w.since = v.since
           /\ w.pending = v.pending /\ w.probe = n /\ w.changed = v.changed
           /\ w.phase = "probed" /\ w.uids = v.uids /\ w.known = v.known
BY DEF Probed, IsView

(* The fields of a view that has read what changed.                        *)
LEMMA ReadsIs ==
    ASSUME NEW v, IsView(v), NEW X, NEW w, w = Reads(v, X)
    PROVE  /\ IsView(w) /\ w.box = v.box /\ w.val = v.val /\ w.hm = v.hm /\ w.since = v.since
           /\ w.pending = v.pending /\ w.probe = v.probe /\ w.changed = X
           /\ w.phase = "changed" /\ w.uids = v.uids /\ w.known = v.known
BY DEF Reads, IsView

(* sync reads the modseq of the mailbox, and stops if it has that one.     *)
LEMMA ProbeStep ==
    ASSUME IInv, NEW s \in Sessions, Probe(s)
    PROVE  IInv'
<1> DEFINE v == view[s]
           c == client[s]
<1>1. v.phase = "sync" /\ UNCHANGED <<store, draft, source, astray>>
  BY DEF Probe
<1>2. /\ SInv'
      /\ \A t \in Sessions : Session(box', msg', expunged', astray', view[t], client[t])
  BY <1>1, AllSame
<1>3. box' = box /\ msg' = msg /\ expunged' = expunged /\ astray' = astray
  BY <1>1 DEF store
<1>4. /\ Session(box, msg, expunged, astray, v, c) /\ Shaped(box, v, c) /\ SInv
      /\ IsView(v) /\ IsMemory(c) /\ v.phase # "off"
      /\ v.hm \in Nat /\ c.hm \in Nat /\ v.since \in Nat /\ v.box \in Boxes
      /\ v.changed \subseteq RowRead
  BY <1>1, SessionOf DEF IInv, Shaped
<1>5. CASE view' = [view EXCEPT ![s] = NoView] /\ client' = client
  <2>1. client' = [client EXCEPT ![s] = c]
    BY <1>5, SameMemory
  <2>2. Session(box', msg', expunged', astray', NoView, c)
    BY <1>2, ClosedKeeps
  <2>3. QED  BY <1>2, <1>5, <2>1, <2>2, Stepped
<1>6. CASE /\ view' = [view EXCEPT ![s] = Idle(Flush(v))]
           /\ client' = [client EXCEPT ![s].told = Keep(c.told, DOMAIN c.told \ Announced(v))]
  <2> DEFINE ann == Announced(v)
             f == Flush(v)
             w == Idle(f)
             t == Keep(c.told, DOMAIN c.told \ ann)
             d == Tells(c, t)
  <2>1. /\ ann = {} \/ ann = v.pending
        /\ IsView(f) /\ f.box = v.box /\ f.val = v.val /\ f.hm = v.hm
        /\ f.uids = v.uids \ ann /\ f.pending = v.pending \ ann
        /\ DOMAIN f.known = DOMAIN v.known \ ann
        /\ \A u \in DOMAIN f.known : f.known[u] = v.known[u]
    BY <1>4, FlushIs
  <2>2. client' = [client EXCEPT ![s] = d]
    <3> HIDE DEF t
    <3>1. client' = [client EXCEPT ![s].told = t]
      BY <1>6 DEF t
    <3>2. QED  BY <3>1 DEF Tells, IInv
  <2>3. Dropped(c, d, ann)
    BY <1>4, DropsTold
  <2> HIDE DEF d, t, f, ann
  <2>4. /\ IsView(w) /\ w.box = f.box /\ w.val = f.val /\ w.hm = f.hm /\ w.since = 0
        /\ w.pending = f.pending /\ w.probe = 0 /\ w.changed = {}
        /\ w.phase = "idle" /\ w.uids = f.uids /\ w.known = f.known
    BY <2>1, IdleIs
  <2>5. view' = [view EXCEPT ![s] = w]
    BY <1>6 DEF f
  <2> HIDE DEF w
  <2>6. Forgot(v, w, ann)
    BY <2>1, <2>4 DEF Forgot
  <2>7. ASSUME Same(box', astray', v.box, v.val)
        PROVE  ann \intersect UidsOf(msg', v.box) = {}
    <3>1. Follows(box, msg, expunged, astray, v, c)
      BY <1>3, <1>4, <2>7, Held
    <3>2. v.phase \in Opened
      BY <1>1 DEF Opened, Phases
    <3>3. \A m \in RowsOf(msg, v.box) : msg[m].uid \notin v.pending
      BY <3>1, <3>2 DEF Follows, Seen
    <3>4. \A m \in RowsOf(msg, v.box) : msg[m].uid \notin ann
      BY <2>1, <3>3
    <3>5. QED  BY <1>3, <3>4 DEF UidsOf
  <2>8. QED  BY <1>1, <1>2, <2>2, <2>3, <2>5, <2>6, <2>7, ForgetStep
<1>7. CASE /\ view' = [view EXCEPT ![s] = [v EXCEPT !.phase = "probed", !.probe = box[v.box].hm]]
           /\ client' = client
  <2> DEFINE n == box[v.box].hm
             w == Probed(v, n)
  <2>1. n \in Nat
    BY <1>4 DEF SInv, Tables, BoxRow
  <2> HIDE DEF n
  <2>2. /\ IsView(w) /\ w.box = v.box /\ w.val = v.val /\ w.hm = v.hm /\ w.since = v.since
        /\ w.pending = v.pending /\ w.probe = n /\ w.changed = v.changed
        /\ w.phase = "probed" /\ w.uids = v.uids /\ w.known = v.known
    <3> HIDE DEF v
    <3>1. QED  BY <1>4, ProbedIs
  <2>3. client' = [client EXCEPT ![s] = c] /\ view' = [view EXCEPT ![s] = w]
    BY <1>7, SameMemory DEF n, Probed
  <2> HIDE DEF w
  <2>4. w.phase \in Phases /\ w.phase \in {"probed", "changed"} /\ v.phase \in {"sync", "probed"}
    BY <1>1, <2>2 DEF Phases
  <2>5. Shaped(box, w, c)
    <3> HIDE DEF v, c
    <3>1. QED  BY <1>4, <2>1, <2>2, <2>4, Reshaped
  <2>6. ASSUME Same(box, astray, v.box, v.val) PROVE Read(box, msg, w)
    <3>1. v.hm <= n
      BY <1>4, <2>6, Held DEF Follows, n
    <3>2. w.phase # "changed" /\ w.hm <= w.probe /\ w.probe = box[w.box].hm
      BY <2>2, <3>1 DEF n
    <3>3. QED  BY <2>1, <2>2, <3>2 DEF Read
  <2>7. Session(box, msg, expunged, astray, w, c)
    <3> HIDE DEF v, c
    <3>1. QED  BY <1>4, <2>2, <2>4, <2>5, <2>6, SyncKeeps
  <2>8. QED  BY <1>2, <1>3, <2>3, <2>7, Stepped
<1>8. QED  BY <1>5, <1>6, <1>7, Zenon DEF Probe

(* sync reads the rows changed after its modseq.                           *)
LEMMA ReadStep ==
    ASSUME IInv, NEW s \in Sessions, ReadChanged(s)
    PROVE  IInv'
<1> DEFINE v == view[s]
           c == client[s]
           X == {r \in RowsRead(msg, Rows(s)) : r.modseq > v.hm}
           w == Reads(v, X)
<1>1. /\ v.phase = "probed" /\ v.phase # "off" /\ UNCHANGED <<store, draft, source, astray>>
      /\ client' = client
  BY DEF ReadChanged
<1>2. view' = [view EXCEPT ![s] = w]
  BY Zenon DEF ReadChanged, RowsRead, Reads
<1>3. /\ SInv'
      /\ \A t \in Sessions : Session(box', msg', expunged', astray', view[t], client[t])
  BY <1>1, AllSame
<1>4. box' = box /\ msg' = msg /\ expunged' = expunged /\ astray' = astray
  BY <1>1 DEF store
<1>5. /\ Session(box, msg, expunged, astray, v, c) /\ Shaped(box, v, c) /\ SInv
      /\ IsView(v) /\ IsMemory(c)
      /\ v.hm \in Nat /\ c.hm \in Nat /\ v.since \in Nat /\ v.probe \in Nat
      /\ Same(box, astray, v.box, v.val) => Orderly(box, msg, v.box)
  BY <1>1, SessionOf DEF IInv, Shaped
<1>6. X \subseteq RowRead
  <2>1. Rows(s) \subseteq Messages
    BY DEF Rows, In
  <2>2. \A m \in Messages : msg[m].uid \in Nat /\ msg[m].modseq \in Nat /\ msg[m].flag \in Flag
    BY <1>5 DEF SInv, Tables, MsgRow
  <2>3. \A m \in Messages : Row(m, msg[m]) \in RowRead
    BY <2>2 DEF Row, RowRead
  <2>4. QED  BY <2>1, <2>3 DEF RowsRead
<1>7. Same(box, astray, v.box, v.val) =>
          X = {r \in RowsRead(msg, RowsOf(msg, v.box)) : r.modseq > v.hm}
  BY Finds
<1> HIDE DEF X
<1>8. /\ IsView(w) /\ w.box = v.box /\ w.val = v.val /\ w.hm = v.hm /\ w.since = v.since
      /\ w.pending = v.pending /\ w.probe = v.probe /\ w.changed = X
      /\ w.phase = "changed" /\ w.uids = v.uids /\ w.known = v.known
  <2> HIDE DEF v
  <2>1. QED  BY <1>5, ReadsIs
<1>9. client' = [client EXCEPT ![s] = c]
  BY <1>1, SameMemory
<1> HIDE DEF w
<1>10. w.phase \in Phases /\ w.phase \in {"probed", "changed"} /\ v.phase \in {"sync", "probed"}
  BY <1>1, <1>8 DEF Phases
<1>11. Shaped(box, w, c)
  <2> HIDE DEF v, c
  <2>1. QED  BY <1>1, <1>5, <1>6, <1>8, <1>10, Reshaped
<1>12. ASSUME Same(box, astray, v.box, v.val) PROVE Read(box, msg, w)
  <2>1. w.changed = {r \in RowsRead(msg, RowsOf(msg, v.box)) : r.modseq > v.hm}
    BY <1>7, <1>8, <1>12
  <2> HIDE DEF v, c
  <2>2. QED  BY <1>1, <1>5, <1>8, <1>11, <1>12, <2>1, ReadingIsRead
<1>13. Session(box, msg, expunged, astray, w, c)
  <2> HIDE DEF v, c
  <2>1. QED  BY <1>5, <1>8, <1>10, <1>11, <1>12, SyncKeeps
<1>14. QED  BY <1>2, <1>3, <1>4, <1>9, <1>13, Stepped

(* sync finds what has gone, and tells what arrived and what changed.      *)
LEMMA FinishStep ==
    ASSUME IInv, NEW s \in Sessions, Finish(s)
    PROVE  IInv'
<1> DEFINE v == view[s]
           c == client[s]
           gone == IF Cardinality({u \in RowUids(s) : u <= MaxOf(v.uids)}) # Cardinality(Live(s))
                   THEN v.uids \ RowUids(s) ELSE {}
           x == [v EXCEPT !.pending = v.pending \union gone]
           f == Flush(x)
           ann == Announced(x)
           new == Arrivals(v)
           fresh == {r \in v.changed \ new : /\ r.uid \in f.uids \ f.pending
                                             /\ r.modseq > f.known[r.uid]}
           g == [f EXCEPT !.uids = f.uids \union UidsRead(new), !.hm = v.probe]
           k == Note(fresh \union new, g.known)
           w == Idle(Noted(g, k))
           told == Keep(c.told, DOMAIN c.told \ ann)
           d == Tells(c, Tell(fresh, told))
<1>1. v.phase = "changed" /\ v.phase # "off" /\ UNCHANGED <<store, draft, source, astray>>
  BY DEF Finish
<1>2. view' = [view EXCEPT ![s] = w]
  <2>1. \A y, R : Noting(y, R) = Noted(y, Note(R, y.known))
    BY Zenon DEF Noting, Noted
  <2>2. view' = [view EXCEPT ![s] = Idle(Noting(g, fresh \union new))]
    BY Zenon DEF Finish, SyncedTo, UidsRead
  <2>3. QED  BY <2>1, <2>2, Zenon
<1>3. client' = [client EXCEPT ![s].told = Tell(fresh, told)]
  BY Zenon DEF Finish
<1>4. /\ SInv'
      /\ \A t \in Sessions : Session(box', msg', expunged', astray', view[t], client[t])
  BY <1>1, AllSame
<1>5. box' = box /\ msg' = msg /\ expunged' = expunged /\ astray' = astray
  BY <1>1 DEF store
<1>6. /\ Session(box, msg, expunged, astray, v, c) /\ Shaped(box, v, c)
      /\ IsView(v) /\ IsMemory(c)
      /\ v.hm \in Nat /\ c.hm \in Nat /\ v.since \in Nat /\ v.probe \in Nat
      /\ Same(box, astray, v.box, v.val) => Orderly(box, msg, v.box)
  BY <1>1, SessionOf DEF Shaped
<1>7. Same(box, astray, v.box, v.val) => gone = GoneFrom(msg, v)
  BY Finds DEF GoneFrom, Live
<1>8. new = {r \in v.changed : r.uid > MaxOf(v.uids)}
  BY DEF Arrivals
<1>9. client' = [client EXCEPT ![s] = d]
  <2> DEFINE T == Tell(fresh, told)
  <2> HIDE DEF T
  <2>1. client' = [client EXCEPT ![s].told = T]
    BY <1>3 DEF T
  <2>2. client' = [client EXCEPT ![s] = Tells(c, T)]
    BY <2>1 DEF Tells, IInv
  <2>3. QED  BY <2>2 DEF T
<1> HIDE DEF gone, new
<1>10. /\ IsView(x) /\ x.box = v.box /\ x.val = v.val /\ x.hm = v.hm /\ x.since = v.since
       /\ x.uids = v.uids /\ x.pending = v.pending \union gone /\ x.known = v.known
  <2> HIDE DEF v
  <2>1. QED  BY <1>6 DEF IsView
<1> HIDE DEF x
<1>11. /\ ann = {} \/ ann = v.pending \union gone
       /\ IsView(f) /\ f.box = v.box /\ f.val = v.val
       /\ f.uids = v.uids \ ann /\ f.pending = (v.pending \union gone) \ ann
       /\ DOMAIN f.known = DOMAIN v.known \ ann
       /\ \A u \in DOMAIN f.known : f.known[u] = v.known[u]
  <2>1. /\ ann = {} \/ ann = x.pending
        /\ IsView(f) /\ f.box = x.box /\ f.val = x.val /\ f.hm = x.hm /\ f.since = x.since
        /\ f.uids = x.uids \ ann /\ f.pending = x.pending \ ann
        /\ DOMAIN f.known = DOMAIN x.known \ ann
        /\ \A u \in DOMAIN f.known : f.known[u] = x.known[u]
    BY <1>10, FlushIs
  <2>2. QED  BY <1>10, <2>1
<1>12. fresh = {r \in v.changed \ new : /\ r.uid \in v.uids \ (v.pending \union gone)
                                        /\ r.modseq > f.known[r.uid]}
  <2>1. f.uids \ f.pending = v.uids \ (v.pending \union gone)
    BY <1>11
  <2>2. QED  BY <2>1
<1>13. DOMAIN told = DOMAIN c.told \ ann /\ \A u \in DOMAIN told : told[u] = c.told[u]
  BY DEF Keep
<1> HIDE DEF f, ann, fresh, told
<1>14. /\ IsView(g) /\ g.box = f.box /\ g.val = f.val /\ g.hm = v.probe
       /\ g.uids = f.uids \union UidsRead(new) /\ g.pending = f.pending /\ g.known = f.known
  <2>1. PICK A, n : A = f.uids \union UidsRead(new) /\ n = v.probe
    OBVIOUS
  <2>2. g = [f EXCEPT !.uids = A, !.hm = n]
    BY <2>1
  <2> HIDE DEF g
  <2>3. /\ IsView(g) /\ g.box = f.box /\ g.val = f.val /\ g.hm = n
        /\ g.uids = A /\ g.pending = f.pending /\ g.known = f.known
    BY <1>11, <2>2 DEF IsView
  <2>4. QED  BY <2>1, <2>3
<1>15. k = Note(fresh \union new, f.known)
  BY <1>14
<1> HIDE DEF g, k
<1>16. /\ IsView(w) /\ w.box = v.box /\ w.val = v.val /\ w.hm = v.probe /\ w.since = 0
       /\ w.pending = (v.pending \union gone) \ ann /\ w.probe = 0 /\ w.changed = {}
       /\ w.phase = "idle" /\ w.uids = (v.uids \ ann) \union UidsRead(new) /\ w.known = k
  <2>1. PICK y : y = Noted(g, k)
    OBVIOUS
  <2>2. w = Idle(y)
    BY <2>1
  <2> HIDE DEF w
  <2>3. /\ IsView(y) /\ y.box = g.box /\ y.val = g.val /\ y.hm = g.hm
        /\ y.pending = g.pending /\ y.uids = g.uids /\ y.known = k
    BY <1>14, <2>1, NotedIs
  <2>4. /\ IsView(w) /\ w.box = y.box /\ w.val = y.val /\ w.hm = y.hm /\ w.since = 0
        /\ w.pending = y.pending /\ w.probe = 0 /\ w.changed = {}
        /\ w.phase = "idle" /\ w.uids = y.uids /\ w.known = y.known
    BY <2>2, <2>3, IdleIs
  <2>5. QED  BY <1>11, <1>14, <2>3, <2>4
<1>17. IsMemory(d) /\ d.box = c.box /\ d.val = c.val /\ d.hm = c.hm /\ d.told = Tell(fresh, told)
  <2> HIDE DEF c
  <2>1. QED  BY <1>6, TellsIs
<1> HIDE DEF w, d
<1>18. Shaped(box, w, d)
  <2>1. w.phase \in Phases
    BY <1>16 DEF Phases
  <2> HIDE DEF v, c
  <2>2. QED  BY <1>1, <1>6, <1>16, <1>17, <2>1, Reshaped
<1>19. Session(box, msg, expunged, astray, w, d)
  <2>1. PICK P, known : P = v.pending \union gone /\ known = f.known
    OBVIOUS
  <2>2. /\ ann = {} \/ ann = P
        /\ DOMAIN known = DOMAIN v.known \ ann /\ \A u \in DOMAIN known : known[u] = v.known[u]
        /\ fresh = {r \in v.changed \ new : r.uid \in v.uids \ P /\ r.modseq > known[r.uid]}
        /\ w.pending = P \ ann /\ w.known = Note(fresh \union new, known)
        /\ w.uids = (v.uids \ ann) \union UidsRead(new)
    BY <1>11, <1>12, <1>15, <1>16, <2>1
  <2> HIDE DEF v, c
  <2>3. Finished(v, c, w, d, gone, P, ann, known, told, fresh, new)
    BY <1>8, <1>13, <1>16, <1>17, <2>1, <2>2 DEF Finished
  <2>4. QED  BY <1>1, <1>6, <1>7, <1>18, <2>3, FinishKeeps
<1>20. QED  BY <1>2, <1>4, <1>5, <1>9, <1>19, Stepped

-----------------------------------------------------------------------------
(* The writers that are not sessions.                                      *)

(* A message that is somewhere is in a mailbox that is there.              *)
LEMMA Homed ==
    ASSUME SInv, NEW m \in Messages, msg[m].box # NoBox
    PROVE  msg[m].box \in Boxes /\ box[msg[m].box].live
<1>1. msg[m].box \in Boxes
  BY DEF SInv, Tables, MsgRow
<1>2. msg[m].box = Folder => box[Folder].live
  BY DEF SInv, Standing, In
<1>3. QED  BY <1>1, <1>2 DEF SInv, Standing

(* A transaction of which no session hears before its next read.           *)
LEMMA Unnoticed ==
    ASSUME IInv, Kept, UNCHANGED Watchers
    PROVE  IInv'
BY AllKept, Unheard

(* A request that only reads, or that is rolled back.                      *)
LEMMA Untouched ==
    ASSUME IInv, UNCHANGED <<store, astray>>, UNCHANGED Watchers, source' \in BoxRow, Drafted'
    PROVE  IInv'
<1>1. box' = box /\ msg' = msg /\ expunged' = expunged /\ astray' = astray
  BY DEF store
<1>2. SInv'
  BY <1>1 DEF IInv, SInv, Tables, Standing, Numbered, Counted, Sound, In
<1>3. \A t \in Sessions : Session(box', msg', expunged', astray', view[t], client[t])
  BY <1>1 DEF IInv
<1>4. QED  BY <1>2, <1>3, Unheard

(* RENAME of INBOX reads the row it will copy.                             *)
LEMMA FindInboxKeeps ==
    ASSUME IInv, FindInbox
    PROVE  IInv'
<1>1. /\ UNCHANGED <<store, astray>> /\ UNCHANGED Watchers /\ source' = box[Inbox]
      /\ draft' = draft
  BY DEF FindInbox
<1>2. box[Inbox] \in BoxRow
  BY DEF IInv, SInv, Tables, Boxes
<1>3. Drafted'
  BY <1>1 DEF IInv, SInv, Drafted, In, store
<1>4. QED  BY <1>1, <1>2, <1>3, Untouched

(* A compose route reads a draft: its UID names no other message.          *)
LEMMA ReadDraftKeeps ==
    ASSUME IInv, NEW m \in Messages, ReadDraft(m)
    PROVE  IInv'
<1>1. /\ UNCHANGED <<store, astray>> /\ UNCHANGED Watchers /\ source' = source
      /\ msg[m].box = Drafts /\ draft' = [of |-> m, box |-> Drafts, uid |-> msg[m].uid]
  BY DEF ReadDraft
<1>2. box' = box /\ msg' = msg
  BY <1>1 DEF store
<1>3. SInv /\ Drafts \in Boxes /\ Drafts # Folder /\ Drafts # NoBox /\ m # NoBox
  BY MailStoreAssumption DEF IInv, Boxes
<1>4. m \in In(Drafts) /\ msg[m].uid \in Nat /\ source \in BoxRow
  BY <1>1, <1>3 DEF In, SInv, Tables, MsgRow
<1>5. msg[m].uid < box[Drafts].next /\ \A k \in In(Drafts) : msg[k].uid = msg[m].uid => k = m
  BY <1>3, <1>4 DEF SInv, Numbered, Counted
<1>6. Drafted'
  BY <1>1, <1>2, <1>3, <1>4, <1>5 DEF Drafted, In
<1>7. QED  BY <1>1, <1>4, <1>6, Untouched

(* A compose route's transaction fails because the draft has gone.         *)
LEMMA DraftGoneKeeps ==
    ASSUME IInv, DraftGone
    PROVE  IInv'
<1>1. /\ UNCHANGED <<store, astray>> /\ UNCHANGED Watchers /\ draft' = NoDraft
      /\ source' = source /\ source \in BoxRow
  BY DEF DraftGone, IInv, SInv, Tables
<1>2. Drafted'
  BY <1>1 DEF Drafted
<1>3. QED  BY <1>1, <1>2, Untouched

(* A compose route's transaction, and the account's purge.                 *)
LEMMA RemoveDraftStep ==
    ASSUME IInv, RemoveDraft
    PROVE  Kept /\ IInv'
<1>1. Kept /\ UNCHANGED Watchers
  BY RemoveDraftKeeps DEF IInv, RemoveDraft, RemoveMessage
<1>2. QED  BY <1>1, Unnoticed

LEMMA SaveDraftStep ==
    ASSUME IInv, NEW m \in Messages, SaveDraft(m)
    PROVE  Kept /\ IInv'
<1>1. Kept /\ UNCHANGED Watchers
  BY SaveDraftKeeps DEF IInv, SaveDraft, RemoveMessage
<1>2. QED  BY <1>1, Unnoticed

LEMMA PurgeStep ==
    ASSUME IInv, NEW S \in SUBSET Present, Purge(S)
    PROVE  Kept /\ IInv'
<1>1. Kept /\ UNCHANGED Watchers
  BY PurgeKeeps DEF IInv, Purge
<1>2. QED  BY <1>1, Unnoticed

(* RENAME of INBOX, rolled back if the name is taken.                      *)
LEMMA RenameInboxStep ==
    ASSUME IInv, RenameInbox
    PROVE  IInv' /\ (Kept \/ UNCHANGED store)
<1>1. UNCHANGED Watchers /\ source' = NoSource /\ draft' = draft /\ SInv
  BY DEF RenameInbox, IInv
<1>2. CASE box[Folder].live
  <2>1. UNCHANGED <<store, astray>>
    BY <1>2 DEF RenameInbox, MayCreate, Exists
  <2>2. NoSource \in BoxRow
    BY DEF NoSource, BoxRow
  <2>3. Drafted'
    BY <1>1, <2>1 DEF SInv, Drafted, In, store
  <2>4. QED  BY <1>1, <2>1, <2>2, <2>3, Untouched
<1>3. CASE ~ box[Folder].live
  BY <1>1, <1>3, RenameInboxKeeps, Unnoticed
<1>4. QED  BY <1>2, <1>3

(* New mail is filed.                                                      *)
LEMMA ArriveStep ==
    ASSUME IInv, NEW b \in Boxes, NEW m \in Messages, Arrive(b, m)
    PROVE  Kept /\ IInv'
<1>1. /\ File(b, m, "clear") /\ UNCHANGED <<draft, source, astray>> /\ UNCHANGED Watchers
      /\ SInv /\ "clear" \in Flag
  BY DEF Arrive, IInv, Flag
<1>2. Kept
  BY <1>1, FileKeeps
<1>3. QED  BY <1>1, <1>2, Unnoticed

(* The webmail changes a flag.                                             *)
LEMMA WebFlagStep ==
    ASSUME IInv, NEW m \in Messages, NEW f \in Flag, WebFlag(m, f)
    PROVE  Kept /\ IInv'
<1> DEFINE b == msg[m].box
           S == {m}
<1>1. /\ msg[m] # Nowhere /\ SetFlag(b, S, f)
      /\ UNCHANGED <<draft, source, astray>> /\ UNCHANGED Watchers /\ SInv
  BY DEF WebFlag, IInv
<1>2. b \in Boxes /\ S \in SUBSET In(b)
  <2>1. b # NoBox
    BY <1>1 DEF SInv, Standing
  <2>2. QED  BY <1>1, <2>1, Homed DEF In
<1> HIDE DEF S, b
<1>3. Kept
  BY <1>1, <1>2, SetFlagKeeps
<1>4. QED  BY <1>1, <1>3, Unnoticed

(* A batch of snoozing or retention moves messages.                        *)
LEMMA BatchMoveStep ==
    ASSUME IInv, NEW src \in Boxes, NEW dst \in Boxes, NEW S \in SUBSET In(src),
           BatchMove(src, dst, S)
    PROVE  Kept /\ IInv'
<1>1. /\ S # {} /\ box[dst].live /\ Rehome(src, dst, S)
      /\ UNCHANGED <<draft, source, astray>> /\ UNCHANGED Watchers /\ SInv
  BY DEF BatchMove, Exists, IInv
<1>2. box[src].live
  <2>1. PICK m \in S : m \in Messages /\ msg[m].box = src
    BY <1>1 DEF In
  <2>2. src # NoBox
    BY MailStoreAssumption
  <2>3. QED  BY <1>1, <2>1, <2>2, Homed
<1>3. Kept
  BY <1>1, <1>2, RehomeKeeps
<1>4. QED  BY <1>1, <1>3, Unnoticed

(* Retention expunges messages of Trash.                                   *)
LEMMA ExpireStep ==
    ASSUME IInv, NEW S \in SUBSET In(Trash), Expire(S)
    PROVE  Kept /\ IInv'
<1>1. /\ S # {} /\ Delete(Trash, S) /\ Lost(S)
      /\ UNCHANGED <<source, astray>> /\ UNCHANGED Watchers /\ SInv
  BY DEF Expire, IInv
<1>2. Trash \in Boxes /\ box[Trash].live
  BY <1>1, MailStoreAssumption DEF SInv, Standing, Boxes
<1>3. Kept
  BY <1>1, <1>2, DeleteKeeps
<1>4. QED  BY <1>1, <1>3, Unnoticed

-----------------------------------------------------------------------------
(* The invariant.                                                          *)

(* The account as it is set up.                                            *)
LEMMA InitKeeps ==
    ASSUME Init
    PROVE  IInv
<1>1. PICK m \in Old, home \in {Inbox, Drafts, Folder} :
        /\ msg = [k \in Messages |->
              IF k = m THEN [box |-> home, uid |-> 1, modseq |-> 1, flag |-> "clear"] ELSE Nowhere]
        /\ box = [b \in Boxes |->
              LET row(n) == [live |-> TRUE, val |-> 1, next |-> n + 1, hm |-> n] IN
              IF b = home THEN row(1) ELSE IF b = Folder THEN NoSource ELSE row(0)]
  BY Zenon DEF Init
<1>2. /\ expunged = {} /\ draft = NoDraft /\ source = NoSource /\ astray = {}
      /\ view = [s \in Sessions |-> NoView] /\ client = [s \in Sessions |-> NoMemory]
  BY DEF Init
<1>3. /\ m \in Messages /\ home \in Boxes /\ Folder \in Boxes /\ home # NoBox
      /\ Folder # Inbox /\ Folder # Drafts /\ Folder # Trash
  BY MailStoreAssumption DEF Boxes
<1>4. \A k \in Messages : msg[k] = IF k = m
          THEN [box |-> home, uid |-> 1, modseq |-> 1, flag |-> "clear"]
          ELSE [box |-> NoBox, uid |-> 0, modseq |-> 0, flag |-> "clear"]
  BY <1>1, Zenon DEF Nowhere
<1>5. \A b \in Boxes : box[b] =
          IF b = home THEN [live |-> TRUE, val |-> 1, next |-> 2, hm |-> 1]
          ELSE IF b = Folder THEN [live |-> FALSE, val |-> 0, next |-> 1, hm |-> 0]
          ELSE [live |-> TRUE, val |-> 1, next |-> 1, hm |-> 0]
  BY <1>1 DEF NoSource
<1>6. Tables
  <2>1. ASSUME NEW b \in Boxes PROVE box[b] \in BoxRow
    <3>1. /\ [live |-> TRUE, val |-> 1, next |-> 2, hm |-> 1] \in BoxRow
          /\ [live |-> FALSE, val |-> 0, next |-> 1, hm |-> 0] \in BoxRow
          /\ [live |-> TRUE, val |-> 1, next |-> 1, hm |-> 0] \in BoxRow
      BY DEF BoxRow
    <3>2. QED  BY <1>5, <3>1, Zenon
  <2>2. \A k \in Messages : msg[k] \in MsgRow
    BY <1>3, <1>4 DEF MsgRow, Flag
  <2>3. NoSource \in BoxRow
    BY DEF NoSource, BoxRow
  <2>4. box \in [Boxes -> BoxRow]
    BY <1>1, <2>1
  <2>5. msg \in [Messages -> MsgRow]
    BY <1>1, <2>2
  <2>6. QED  BY <1>2, <2>3, <2>4, <2>5 DEF Tables
<1>7. Standing
  <2>1. \A b \in Boxes : b # Folder => box[b].live
    BY <1>5
  <2>2. ASSUME ~ box[Folder].live PROVE In(Folder) = {}
    <3>1. home # Folder
      BY <1>3, <1>5, <2>2
    <3>2. QED  BY <1>3, <1>4, <3>1, MailStoreAssumption DEF In
  <2>3. \A k \in Messages : msg[k].box = NoBox => msg[k] = Nowhere
    BY <1>3, <1>4 DEF Nowhere
  <2>4. QED  BY <1>2, <2>1, <2>2, <2>3 DEF Standing
<1>8. Numbered
  <2>1. \A b \in Boxes : \A k \in In(b) :
            k = m /\ b = home /\ msg[k].uid = 1 /\ msg[k].modseq = 1
    BY <1>3, <1>4, MailStoreAssumption DEF In
  <2>2. box[home].next = 2 /\ box[home].hm = 1
    BY <1>3, <1>5
  <2>3. QED  BY <1>2, <2>1, <2>2 DEF Numbered
<1>9. SInv
  BY <1>2, <1>6, <1>7, <1>8 DEF SInv, Drafted
<1>10. Session(box, msg, expunged, astray, NoView, NoMemory)
  <2>1. /\ IsMemory(NoMemory) /\ NoMemory.box = NoBox /\ NoMemory.hm = 0
    BY DEF NoMemory, IsMemory
  <2>2. Shaped(box, NoView, NoMemory)
    BY <2>1, NoViewIs DEF Shaped, Phases
  <2>3. QED  BY <2>1, <2>2, NoViewIs DEF Session, Memory, Watching
<1>11. QED  BY <1>2, <1>9, <1>10 DEF IInv

(* A transaction keeps the invariant, and what it changes of the tables it *)
(* changes as the contract says.                                           *)
LEMMA WriteKeeps ==
    ASSUME IInv, Write
    PROVE  IInv' /\ (Kept \/ UNCHANGED store)
<1>1. ASSUME NEW b \in Boxes, NEW m \in Messages, Arrive(b, m) PROVE Kept /\ IInv'
  BY <1>1, ArriveStep
<1>2. CASE Create
  <2>1. Kept /\ UNCHANGED Watchers
    BY <1>2, CreateKeeps DEF IInv, Create
  <2>2. QED  BY <2>1, Unnoticed
<1>3. CASE RemoveDraft
  BY <1>3, RemoveDraftStep
<1>4. CASE RenameInbox
  BY <1>4, RenameInboxStep
<1>5. CASE DeleteMailbox
  <2>1. Kept /\ UNCHANGED Watchers
    BY <1>5, DeleteMailboxKeeps DEF IInv, DeleteMailbox
  <2>2. QED  BY <2>1, Unnoticed
<1>6. ASSUME NEW m \in Messages, NEW f \in Flag, WebFlag(m, f) PROVE Kept /\ IInv'
  BY <1>6, WebFlagStep
<1>7. ASSUME NEW m \in Messages, NEW d \in Boxes, NEW f \in Flag, WebMove(m, d, f)
      PROVE  Kept /\ IInv'
  <2>1. Kept /\ UNCHANGED Watchers
    BY <1>7, WebMoveKeeps DEF IInv, WebMove
  <2>2. QED  BY <2>1, Unnoticed
<1>8. ASSUME NEW b \in Boxes, NEW d \in Boxes, NEW S \in SUBSET In(b), BatchMove(b, d, S)
      PROVE  Kept /\ IInv'
  BY <1>8, BatchMoveStep
<1>9. ASSUME NEW S \in SUBSET In(Trash), Expire(S) PROVE Kept /\ IInv'
  BY <1>9, ExpireStep
<1>10. ASSUME NEW s \in Sessions, Close(s) PROVE Kept /\ IInv'
  BY <1>10, CloseStep
<1>11. ASSUME NEW s \in Sessions, NEW U, NEW f \in Flag, NEW quiet \in BOOLEAN, NEW a,
              Store(s, U, f, quiet, a)
       PROVE  Kept /\ IInv'
  BY <1>11, StoreStep
<1>12. ASSUME NEW s \in Sessions, NEW U, NEW all \in BOOLEAN, Expunge(s, all, U)
       PROVE  Kept /\ IInv'
  BY <1>12, ExpungeStep
<1>13. ASSUME NEW s \in Sessions, NEW U, NEW d \in Boxes, Move(s, U, d) PROVE Kept /\ IInv'
  BY <1>13, MoveStep
<1>14. ASSUME NEW s \in Sessions, NEW U, NEW d \in Boxes, Copy(s, U, d) PROVE Kept /\ IInv'
  BY <1>14, CopyStep
<1>15. CASE \E s \in Sessions :
              \/ Close(s)
              \/ \E U \in SUBSET Live(s) :
                  \/ \E f \in Flag, quiet, a \in BOOLEAN : Store(s, U, f, quiet, a)
                  \/ \E all \in BOOLEAN : Expunge(s, all, U)
                  \/ \E d \in Boxes : Move(s, U, d) \/ Copy(s, U, d)
  BY <1>10, <1>11, <1>12, <1>13, <1>14, <1>15, Zenon
<1>16. ASSUME NEW m \in Messages, SaveDraft(m) PROVE Kept /\ IInv'
  BY <1>16, SaveDraftStep
<1>17. ASSUME NEW S \in SUBSET Present, Purge(S) PROVE Kept /\ IInv'
  BY <1>17, PurgeStep
<1>18. QED
  BY <1>1, <1>2, <1>3, <1>4, <1>5, <1>6, <1>7, <1>8, <1>9, <1>15, <1>16, <1>17, Zenon DEF Write

(* Every step keeps the invariant, and the contract if it writes.          *)
LEMMA NextKeeps ==
    ASSUME IInv, [Next]_vars
    PROVE  IInv' /\ (Kept \/ UNCHANGED store)
<1>1. CASE Write
  BY <1>1, WriteKeeps
<1>2. ASSUME NEW s \in Sessions, Step(s) PROVE IInv' /\ UNCHANGED store
  <2>1. CASE Snapshot(s)
    BY <2>1, SnapshotStep DEF Snapshot
  <2>2. CASE Vanish(s)
    BY <2>2, VanishStep DEF Vanish
  <2>3. CASE Changes(s)
    BY <2>3, ChangesStep DEF Changes
  <2>4. CASE Probe(s)
    BY <2>4, ProbeStep DEF Probe
  <2>5. CASE ReadChanged(s)
    BY <2>5, ReadStep DEF ReadChanged
  <2>6. CASE Finish(s)
    BY <2>6, FinishStep DEF Finish
  <2>7. QED  BY <1>2, <2>1, <2>2, <2>3, <2>4, <2>5, <2>6 DEF Step
<1>3. ASSUME NEW s \in Sessions, Awake(s) PROVE IInv' /\ UNCHANGED store
  BY <1>3, WakeStep DEF Awake, Wake
<1>4. CASE FindInbox
  BY <1>4, FindInboxKeeps DEF FindInbox
<1>5. ASSUME NEW m \in Messages, ReadDraft(m) PROVE IInv' /\ UNCHANGED store
  BY <1>5, ReadDraftKeeps DEF ReadDraft
<1>6. ASSUME NEW s \in Sessions, NEW b \in Watched, NEW q \in BOOLEAN, Select(s, b, q)
      PROVE  IInv' /\ UNCHANGED store
  <2>1. b \in Boxes
    BY MailStoreAssumption
  <2>2. QED  BY <1>6, <2>1, SelectKeeps DEF Select
<1>7. ASSUME NEW s \in Sessions, Disconnect(s) PROVE IInv' /\ UNCHANGED store
  BY <1>7, DisconnectKeeps DEF Disconnect
<1>8. ASSUME NEW s \in Sessions, NEW U, NEW a, Fetch(s, U, a) PROVE IInv' /\ UNCHANGED store
  BY <1>8, FetchStep DEF Fetch
<1>9. CASE UNCHANGED vars
  <2>1. UNCHANGED <<store, draft, source, astray>> /\ UNCHANGED Watchers
    BY <1>9 DEF vars, store, Watchers
  <2>2. QED  BY <2>1, AllSame, Unheard
<1>10. CASE DraftGone
  BY <1>10, DraftGoneKeeps DEF DraftGone
<1>11. QED
  BY <1>1, <1>2, <1>3, <1>4, <1>5, <1>6, <1>7, <1>8, <1>9, <1>10, Zenon DEF Next

(* IInv is an invariant of MailStore.                                      *)
THEOREM Invariant == Spec => []IInv
<1>1. Init => IInv
  BY InitKeeps
<1>2. IInv /\ [Next]_vars => IInv'
  BY NextKeeps
<1>3. QED  BY <1>1, <1>2, PTL DEF Spec

-----------------------------------------------------------------------------

(* A step that changes what a mailbox holds, by the contract.              *)
LEMMA ModseqStep ==
    ASSUME IInv, [Next]_vars, NEW b \in Boxes, box[b].live, box'[b].live, <<b, 0>> \notin astray',
           {<<m, msg'[m]>> : m \in In(b)'} # {<<m, msg[m]>> : m \in In(b)}
    PROVE  /\ box'[b].hm > box[b].hm
           /\ \A m \in In(b)' : msg'[m] # msg[m] =>
                 msg'[m].modseq > box[b].hm /\ msg'[m].modseq <= box'[b].hm
<1>1. Kept
  <2>1. UNCHANGED store => In(b)' = In(b) /\ msg' = msg
    BY DEF store, In
  <2>2. ~ UNCHANGED store
    BY <2>1
  <2>3. QED  BY <2>2, NextKeeps
<1>2. In(b) = RowsOf(msg, b) /\ In(b)' = RowsOf(msg', b)
  BY DEF In, RowsOf
<1>3. /\ \A m \in In(b)' : \/ msg'[m] = msg[m]
                           \/ /\ box'[b].hm > box[b].hm
                              /\ msg'[m].modseq > box[b].hm /\ msg'[m].modseq <= box'[b].hm
      /\ \A m \in In(b) : msg'[m].box = b \/ box'[b].hm > box[b].hm
  BY <1>1, <1>2 DEF Kept, Contract
<1>4. box'[b].hm > box[b].hm
  <2>1. SUFFICES ASSUME ~ (box'[b].hm > box[b].hm) PROVE FALSE
    OBVIOUS
  <2>2. \A m \in In(b)' : msg'[m] = msg[m]
    BY <1>3, <2>1
  <2>3. \A m \in In(b) : msg'[m].box = b
    BY <1>3, <2>1
  <2>4. In(b)' = In(b)
    BY <2>2, <2>3 DEF In
  <2>5. QED  BY <2>2, <2>4
<1>5. QED  BY <1>3, <1>4

(* ModseqGrows of MailStore: no writer of the tables changes what a sound  *)
(* mailbox holds without a larger highest_modseq, and what it changed gets *)
(* a modseq that no session has synced to: every client finds the change.  *)
THEOREM ModseqGrowsSafe == Spec => ModseqGrows
<1>1. IInv /\ [Next]_vars =>
        [\A b \in Boxes :
            (/\ box[b].live /\ box'[b].live /\ <<b, 0>> \notin astray'
             /\ {<<m, msg'[m]>> : m \in In(b)'} # {<<m, msg[m]>> : m \in In(b)}) =>
                /\ box'[b].hm > box[b].hm
                /\ \A m \in In(b)' : msg'[m] # msg[m] =>
                      msg'[m].modseq > box[b].hm /\ msg'[m].modseq <= box'[b].hm]_vars
  BY ModseqStep
<1>2. QED  BY <1>1, Invariant, PTL DEF Spec, ModseqGrows

(* UidNamesOne of MailStore: no UID a client has heard of comes to name    *)
(* another message while the mailbox keeps its UIDVALIDITY.                *)
THEOREM UidNamesOneSafe == Spec => []UidNamesOne
<1>1. ASSUME IInv PROVE UidNamesOne
  <2> SUFFICES ASSUME NEW s \in Sessions, client[s].box # NoBox, box[client[s].box].live,
                      client[s].val = box[client[s].box].val, Sound(client[s].box),
                      NEW m \in In(client[s].box), msg[m].uid \in DOMAIN client[s].told
               PROVE  client[s].told[msg[m].uid].m = m
    BY DEF UidNamesOne
  <2>1. Same(box, astray, client[s].box, client[s].val)
    BY DEF Same, Sound
  <2>2. Remembers(box, msg, expunged, astray, client[s])
    BY <1>1, <2>1, SessionOf DEF Session, Memory
  <2>3. m \in RowsOf(msg, client[s].box)
    BY DEF In, RowsOf
  <2>4. QED  BY <2>2, <2>3 DEF Remembers
<1>2. QED  BY <1>1, Invariant, PTL

(* What a session knows when it has nothing left to hear.                  *)
LEMMA SyncedKnows ==
    ASSUME IInv, NEW s \in Sessions, Synced(s), Sound(view[s].box)
    PROVE  /\ Rows(s) = RowsOf(msg, view[s].box)
           /\ RowUids(s) = UidsOf(msg, view[s].box)
           /\ Orderly(box, msg, view[s].box)
           /\ view[s].phase \in Settled /\ view[s].phase \in Opened /\ view[s].phase \in Resynced
           /\ Seen(box, msg, expunged, astray, view[s])
           /\ Told(msg, astray, view[s], client[s])
<1>1. view[s].phase = "idle" /\ Here(s)
  BY DEF Synced
<1>2. Same(box, astray, view[s].box, view[s].val)
  BY <1>1 DEF Same, Here, Sound
<1>3. view[s].phase \in Settled /\ view[s].phase \in Opened /\ view[s].phase \in Resynced
  BY <1>1 DEF Settled, Resynced, Opened, Phases
<1>4. Follows(box, msg, expunged, astray, view[s], client[s])
  BY <1>1, <1>2, SessionOf DEF Session, Watching
<1>5. Orderly(box, msg, view[s].box)
  BY <1>1, <1>2, SessionOf
<1>6. QED  BY <1>2, <1>3, <1>4, <1>5, Finds DEF Follows

(* PictureIsTrue of MailStore: a session that is level with its mailbox    *)
(* shows exactly its messages, and its client was told their flags.        *)
THEOREM PictureIsTrueSafe == Spec => []PictureIsTrue
<1>1. ASSUME IInv, NEW s \in Sessions, Synced(s), Sound(view[s].box)
      PROVE  /\ Live(s) = RowUids(s)
             /\ \A m \in Rows(s) : msg[m].uid \in DOMAIN client[s].told =>
                   client[s].told[msg[m].uid].flag \in {"unknown", msg[m].flag}
  <2> DEFINE v == view[s]
             b == v.box
  <2>1. /\ Rows(s) = RowsOf(msg, b) /\ RowUids(s) = UidsOf(msg, b) /\ Orderly(box, msg, b)
        /\ v.phase \in Settled /\ v.phase \in Opened
        /\ Seen(box, msg, expunged, astray, v) /\ Told(msg, astray, v, client[s])
    BY <1>1, SyncedKnows
  <2>2. v.hm = box[b].hm /\ box[b].hm \in Nat
    BY <1>1, <2>1 DEF Synced, Orderly
  <2>3. \A m \in RowsOf(msg, b) : msg[m].modseq <= v.hm
    BY <2>1, <2>2 DEF Orderly
  <2>4. /\ \A m \in RowsOf(msg, b) : /\ msg[m].uid \in v.uids /\ msg[m].uid \notin v.pending
                                     /\ v.known[msg[m].uid] >= msg[m].modseq
        /\ \A u \in v.uids : v.known[u] \in Nat
        /\ \A u \in v.uids \ v.pending : u \notin UidsOf(msg, b) => box[b].hm > v.hm
    BY <2>1, <2>3 DEF Seen
  <2>5. v.uids \ v.pending = UidsOf(msg, b)
    BY <2>2, <2>4 DEF UidsOf
  <2>6. \A m \in RowsOf(msg, b) : msg[m].modseq <= v.known[msg[m].uid]
    BY <2>1, <2>4 DEF Orderly
  <2>7. \A m \in RowsOf(msg, b) : msg[m].uid \in DOMAIN client[s].told =>
            client[s].told[msg[m].uid].flag \in {"unknown", msg[m].flag}
    BY <2>1, <2>6 DEF Told
  <2>8. QED  BY <2>1, <2>5, <2>7 DEF Live
<1>2. IInv => PictureIsTrue
  BY <1>1 DEF PictureIsTrue
<1>3. QED  BY <1>2, Invariant, PTL

(* NoGhosts of MailStore: what a client that is level with its mailbox     *)
(* still keeps is there, but for what a webmail move took away.            *)
THEOREM NoGhostsSafe == Spec => []NoGhosts
<1>1. ASSUME IInv, NEW s \in Sessions, Synced(s), Sound(view[s].box), NEW u \in Ghosts(s)
      PROVE  <<view[s].box, u>> \in astray
  <2> DEFINE v == view[s]
             b == v.box
  <2>1. /\ RowUids(s) = UidsOf(msg, b) /\ Orderly(box, msg, b)
        /\ v.phase \in Opened /\ v.phase \in Resynced
        /\ Seen(box, msg, expunged, astray, v) /\ Told(msg, astray, v, client[s])
    BY <1>1, SyncedKnows
  <2>2. v.hm = box[b].hm /\ box[b].hm \in Nat
    BY <1>1, <2>1 DEF Synced, Orderly
  <2>3. u \in DOMAIN client[s].told /\ u \notin UidsOf(msg, b) /\ u \notin v.pending
    BY <1>1, <2>1 DEF Ghosts
  <2>4. u \in v.uids \ v.pending => box[b].hm > v.hm
    BY <2>1, <2>3 DEF Seen
  <2>5. u \in v.uids \/ <<b, u>> \in astray
    BY <2>1, <2>3 DEF Told
  <2>6. QED  BY <2>2, <2>3, <2>4, <2>5
<1>2. IInv => NoGhosts
  BY <1>1 DEF NoGhosts
<1>3. QED  BY <1>2, Invariant, PTL

-----------------------------------------------------------------------------
(* Where the claim of qresync.ts holds, although VanishedIsExact does not. *)

(* The webmail's move of a single message.                                 *)
WebMoves == \E m \in Messages, d \in Boxes, f \in Flag : WebMove(m, d, f)

(* No removal is lost for itself: what is astray is whole mailboxes.       *)
NoneLost == \A a \in astray : a[2] = 0

(* Only the webmail's move loses a removal.                                *)
LEMMA NoneLostKept ==
    ASSUME NoneLost, [Next]_vars, ~WebMoves
    PROVE  NoneLost'
<1>1. CASE UNCHANGED astray
  BY <1>1 DEF NoneLost
<1>2. ASSUME RemoveDraft \/ (\E m \in Messages : SaveDraft(m)) PROVE NoneLost'
  <2>1. \/ astray' = astray
        \/ astray' = astray \union {<<msg[draft.of].box, 0>>}
    BY <1>2 DEF RemoveDraft, SaveDraft, RemoveMessage
  <2>2. QED  BY <2>1 DEF NoneLost
<1>3. CASE RenameInbox
  <2>1. astray' = astray \/ astray' = astray \union {<<Folder, 0>>}
    BY <1>3 DEF RenameInbox
  <2>2. QED  BY <2>1 DEF NoneLost
<1>4. CASE DeleteMailbox
  BY <1>4 DEF DeleteMailbox, NoneLost
<1>11. ASSUME NEW S \in SUBSET Present, Purge(S) PROVE NoneLost'
  BY <1>11 DEF Purge, NoneLost
<1>5. ASSUME Write, ~RemoveDraft, ~RenameInbox, ~DeleteMailbox,
             ~ \E m \in Messages : SaveDraft(m), ~ \E S \in SUBSET Present : Purge(S)
      PROVE  UNCHANGED astray
  <2>1. ASSUME NEW s \in Sessions,
               \/ Close(s)
               \/ \E U \in SUBSET Live(s) :
                   \/ \E f \in Flag, quiet, a \in BOOLEAN : Store(s, U, f, quiet, a)
                   \/ \E all \in BOOLEAN : Expunge(s, all, U)
                   \/ \E d \in Boxes : Move(s, U, d) \/ Copy(s, U, d)
        PROVE  UNCHANGED astray
    BY <2>1 DEF Close, Store, Expunge, Move, Copy
  <2>2. CASE \/ \E b \in Boxes, m \in Messages : Arrive(b, m)
             \/ Create
             \/ \E m \in Messages, f \in Flag : WebFlag(m, f)
             \/ \E b, d \in Boxes : \E S \in SUBSET In(b) : BatchMove(b, d, S)
             \/ \E S \in SUBSET In(Trash) : Expire(S)
    BY <2>2 DEF Arrive, Create, WebFlag, BatchMove, Expire
  <2>3. QED  BY <1>5, <2>1, <2>2 DEF Write, WebMoves
<1>6. ASSUME NEW s \in Sessions, Step(s) \/ Awake(s) PROVE UNCHANGED astray
  BY <1>6 DEF Step, Awake, Wake, Snapshot, Vanish, Changes, Probe, ReadChanged, Finish
<1>7. CASE FindInbox \/ DraftGone \/ \E m \in Messages : ReadDraft(m)
  BY <1>1, <1>7 DEF FindInbox, DraftGone, ReadDraft
<1>8. ASSUME NEW s \in Sessions,
             \/ \E b \in Watched, q \in BOOLEAN : Select(s, b, q)
             \/ Disconnect(s)
             \/ \E U \in SUBSET Live(s), a \in BOOLEAN : Fetch(s, U, a)
      PROVE  UNCHANGED astray
  BY <1>8 DEF Select, Disconnect, Fetch
<1>9. CASE UNCHANGED vars
  BY <1>1, <1>9 DEF vars
<1>10. QED  BY <1>1, <1>2, <1>3, <1>4, <1>5, <1>6, <1>7, <1>8, <1>9, <1>11 DEF Next

(* VanishedIsExact of MailStore in every behaviour without a webmail move  *)
(* (updateMessage): a client that resynchronised with a sound mailbox      *)
(* keeps no message that is gone, whatever was expunged, expired, moved by *)
(* IMAP or in batches, or renamed meanwhile.  So that move alone causes    *)
(* the violation of VanishedIsExact that TLC finds.                        *)
THEOREM ExactWithoutWebMoves == Spec /\ [][~WebMoves]_vars => []VanishedIsExact
<1>1. Init => NoneLost
  BY DEF Init, NoneLost
<1>2. NoneLost /\ [Next]_vars /\ [~WebMoves]_vars => NoneLost'
  <2>1. CASE UNCHANGED vars
    BY <2>1 DEF vars, NoneLost
  <2>2. QED  BY <2>1, NoneLostKept
<1>3. NoGhosts /\ NoneLost => VanishedIsExact
  <2> SUFFICES ASSUME NoGhosts, NoneLost,
                      NEW s \in Sessions, Synced(s), Sound(view[s].box), NEW u \in Ghosts(s)
               PROVE  FALSE
    BY DEF VanishedIsExact
  <2>1. <<view[s].box, u>> \in astray
    BY DEF NoGhosts
  <2>2. u = 0
    BY <2>1 DEF NoneLost
  <2>3. QED  BY <2>1, <2>2 DEF Sound
<1>4. QED  BY <1>1, <1>2, <1>3, NoGhostsSafe, PTL DEF Spec
=============================================================================
