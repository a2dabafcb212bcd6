------------------------ MODULE SubmissionCapsProofs ------------------------
(***************************************************************************)
(* The operator is told once (ToldOnce) and no hour and no day has more    *)
(* recipients than the caps allow (WithinPathCaps, WithinAccountCaps), for *)
(* any number of paths, sessions and daemons, any caps and windows, and    *)
(* through any number of thaws and crashes.  FreezesToldOnce is not        *)
(* inductive: an audit row or an alert takes one off a count, and Counts   *)
(* says that the count is there to take it off, because every session on   *)
(* its way to tell has its freeze in it; and a mail that keeps an alert    *)
(* quiet is recent enough for the freeze because the look at the key comes *)
(* after it (Mailed).  Nor are the caps: an insertion is within them       *)
(* because its session counted, at an earlier time, while it held the      *)
(* locks it still holds (CInv).                                            *)
(***************************************************************************)
EXTENDS SubmissionCaps, FiniteSetTheorems, TLAPS

\* The sessions that froze the password p and have still to write the audit row, to
\* alert the operator, or either.
Auditing(p) == {s \in Sessions : path[s] = p /\ pc[s] = "rcpt-audit"}
Alerting(p) == {s \in Sessions : path[s] = p /\ pc[s] = "alert"}
Telling(p) == {s \in Sessions : path[s] = p /\ pc[s] \in {"rcpt-audit", "alert"}}

Counts ==
    \A p \in Passwords :
        /\ Cardinality(Auditing(p)) <= unaudited[p]
        /\ Cardinality(Alerting(p)) <= unalerted[p] - unaudited[p]
        /\ unalerted[p] <= faults + Cardinality(Telling(p))

IInv == TypeOK /\ Counts /\ MarkedOncePerWindow

-----------------------------------------------------------------------------
\* The account's window that is met is one of three answers (enforceAccountCap).
LEMMA OverAccountType == \A n, now : OverAccount(n, now) \in {"none", "hourly", "daily"}
BY DEF OverAccount

\* Those without a window to tell of are typed by the reset of Rest.
LEMMA RestTypes ==
    ASSUME TypeOK, NEW s \in Sessions, Rest(s)
    PROVE  /\ pc' \in [Sessions -> Places] /\ path' \in [Sessions -> Paths]
           /\ size' \in [Sessions -> 0..MaxRecipients] /\ at' \in [Sessions -> Times]
           /\ window' \in [Sessions -> {"none", "hourly", "daily"}]
           /\ \A t \in Sessions :
                 /\ pc'[t] \in {"rcpt-freeze", "rcpt-audit", "freeze", "alert", "sending"}
                       => path'[t] \in Passwords
                 /\ pc'[t] = "account-alert" => window'[t] # "none"
BY CapsAssumption DEF TypeOK, Rest, Goto, Places, Paths, Times

\* A transaction that ends gives its locks back.
LEMMA UnlockTypes ==
    ASSUME TypeOK, NEW s \in Sessions, Unlock(s)
    PROVE  /\ pathLock' \in [Paths -> Sessions \cup {NoOne}]
           /\ accountLock' \in Sessions \cup {NoOne}
BY DEF TypeOK, Unlock

\* Two sets of sessions that differ in s at most differ in size by s.
LEMMA OneMore ==
    ASSUME NEW X, NEW Y, NEW s, IsFiniteSet(X), IsFiniteSet(Y), X \ {s} = Y \ {s}
    PROVE  /\ Cardinality(X) \in Nat /\ Cardinality(Y) \in Nat
           /\ (s \in X <=> s \in Y) => Cardinality(Y) = Cardinality(X)
           /\ s \in Y /\ s \notin X => Cardinality(Y) = Cardinality(X) + 1
           /\ s \in X /\ s \notin Y => Cardinality(Y) = Cardinality(X) - 1
<1>1. Cardinality(X) \in Nat /\ Cardinality(Y) \in Nat
  BY FS_CardinalityType
<1>2. (s \in X <=> s \in Y) => X = Y
  OBVIOUS
<1>3. /\ Cardinality(X \ {s}) = IF s \in X THEN Cardinality(X) - 1 ELSE Cardinality(X)
      /\ Cardinality(Y \ {s}) = IF s \in Y THEN Cardinality(Y) - 1 ELSE Cardinality(Y)
  BY FS_RemoveElement
<1>4. QED  BY <1>1, <1>2, <1>3

\* A step of session s moves no other session in or out of those that tell.
LEMMA OneMoves ==
    ASSUME NEW s \in Sessions, NEW p \in Passwords,
           \A t \in Sessions \ {s} : pc'[t] = pc[t] /\ path'[t] = path[t]
    PROVE  /\ IsFiniteSet(Auditing(p)) /\ IsFiniteSet(Auditing(p)')
           /\ IsFiniteSet(Alerting(p)) /\ IsFiniteSet(Alerting(p)')
           /\ IsFiniteSet(Telling(p)) /\ IsFiniteSet(Telling(p)')
           /\ Auditing(p) \ {s} = Auditing(p)' \ {s}
           /\ Alerting(p) \ {s} = Alerting(p)' \ {s}
           /\ Telling(p) \ {s} = Telling(p)' \ {s}
<1>1. /\ Auditing(p) \subseteq Sessions /\ Auditing(p)' \subseteq Sessions
      /\ Alerting(p) \subseteq Sessions /\ Alerting(p)' \subseteq Sessions
      /\ Telling(p) \subseteq Sessions /\ Telling(p)' \subseteq Sessions
  BY DEF Auditing, Alerting, Telling
<1>2. \A X \in SUBSET Sessions : IsFiniteSet(X)
  BY FS_Subset, CapsAssumption
<1>3. Auditing(p) \ {s} = Auditing(p)' \ {s}
  BY DEF Auditing
<1>4. Alerting(p) \ {s} = Alerting(p)' \ {s}
  BY DEF Alerting
<1>5. Telling(p) \ {s} = Telling(p)' \ {s}
  BY DEF Telling
<1>6. QED  BY <1>1, <1>2, <1>3, <1>4, <1>5

\* So each of the three sets gains or loses one, or stays as large.
LEMMA Shift ==
    ASSUME NEW s \in Sessions, NEW p \in Passwords,
           \A t \in Sessions \ {s} : pc'[t] = pc[t] /\ path'[t] = path[t]
    PROVE  /\ Cardinality(Auditing(p)) \in Nat /\ Cardinality(Auditing(p)') \in Nat
           /\ Cardinality(Alerting(p)) \in Nat /\ Cardinality(Alerting(p)') \in Nat
           /\ Cardinality(Telling(p)) \in Nat /\ Cardinality(Telling(p)') \in Nat
           /\ Cardinality(Auditing(p)') - Cardinality(Auditing(p))
                = (IF s \in Auditing(p)' THEN 1 ELSE 0) - (IF s \in Auditing(p) THEN 1 ELSE 0)
           /\ Cardinality(Alerting(p)') - Cardinality(Alerting(p))
                = (IF s \in Alerting(p)' THEN 1 ELSE 0) - (IF s \in Alerting(p) THEN 1 ELSE 0)
           /\ Cardinality(Telling(p)') - Cardinality(Telling(p))
                = (IF s \in Telling(p)' THEN 1 ELSE 0) - (IF s \in Telling(p) THEN 1 ELSE 0)
<1> DEFINE Differ(X, Y) ==
             /\ Cardinality(X) \in Nat /\ Cardinality(Y) \in Nat
             /\ Cardinality(Y) - Cardinality(X)
                  = (IF s \in Y THEN 1 ELSE 0) - (IF s \in X THEN 1 ELSE 0)
<1>1. ASSUME NEW X, NEW Y, IsFiniteSet(X), IsFiniteSet(Y), X \ {s} = Y \ {s}
      PROVE  Differ(X, Y)
  BY <1>1, OneMore
<1>2. Differ(Auditing(p), Auditing(p)')
  BY <1>1, OneMoves
<1>3. Differ(Alerting(p), Alerting(p)')
  BY <1>1, OneMoves
<1>4. Differ(Telling(p), Telling(p)')
  BY <1>1, OneMoves
<1>5. QED  BY <1>2, <1>3, <1>4

\* A step of session s that leaves the counts alone keeps them true, if s was not on
\* its way to tell and is not afterwards.
LEMMA Quietly ==
    ASSUME IInv, NEW s \in Sessions,
           \A t \in Sessions \ {s} : pc'[t] = pc[t] /\ path'[t] = path[t],
           pc[s] \notin {"rcpt-audit", "alert"}, pc'[s] \notin {"rcpt-audit", "alert"},
           UNCHANGED <<unaudited, unalerted, faults>>
    PROVE  Counts'
<1> SUFFICES ASSUME NEW p \in Passwords
             PROVE  /\ Cardinality(Auditing(p)') <= unaudited[p]
                    /\ Cardinality(Alerting(p)') <= unalerted[p] - unaudited[p]
                    /\ unalerted[p] <= faults + Cardinality(Telling(p)')
  BY DEF Counts
<1>1. /\ s \notin Auditing(p) /\ s \notin Auditing(p)'
      /\ s \notin Alerting(p) /\ s \notin Alerting(p)'
      /\ s \notin Telling(p) /\ s \notin Telling(p)'
  BY DEF Auditing, Alerting, Telling
<1>2. \A X, Y : s \notin X /\ s \notin Y /\ X \ {s} = Y \ {s} => Y = X
  OBVIOUS
<1>3. Auditing(p)' = Auditing(p)
  <2>1. Auditing(p) \ {s} = Auditing(p)' \ {s}  BY OneMoves
  <2>2. QED  BY <1>1, <1>2, <2>1
<1>4. Alerting(p)' = Alerting(p)
  <2>1. Alerting(p) \ {s} = Alerting(p)' \ {s}  BY OneMoves
  <2>2. QED  BY <1>1, <1>2, <2>1
<1>5. Telling(p)' = Telling(p)
  <2>1. Telling(p) \ {s} = Telling(p)' \ {s}  BY OneMoves
  <2>2. QED  BY <1>1, <1>2, <2>1
<1>6. QED  BY <1>3, <1>4, <1>5 DEF IInv, Counts

-----------------------------------------------------------------------------
\* The look at RCPT only reads (createCapsChecker).
LEMMA RcptKeeps ==
    ASSUME IInv, NEW s \in Sessions, NEW p \in Paths, NEW n \in 1..MaxRecipients, Rcpt(s, p, n)
    PROVE  IInv'
<1>1. TypeOK'
  BY CapsAssumption DEF IInv, TypeOK, Places, Paths, Times, Rcpt, Goto, Locks, counts
<1>2. Counts'
  BY Quietly DEF IInv, TypeOK, Rcpt, Goto, Locks, counts
<1>3. MarkedOncePerWindow'
  BY DEF IInv, MarkedOncePerWindow, Rcpt, Goto, Locks, counts
<1>4. QED  BY <1>1, <1>2, <1>3 DEF IInv

\* DATA reads the clock (acceptSubmission).
LEMMA BeginKeeps ==
    ASSUME IInv, NEW s \in Sessions, Begin(s)
    PROVE  IInv'
<1>1. TypeOK'
  BY CapsAssumption DEF IInv, TypeOK, Places, Paths, Times, Begin, Goto, Locks, counts
<1>2. Counts'
  BY Quietly DEF IInv, TypeOK, Begin, Goto, Locks, counts
<1>3. MarkedOncePerWindow'
  BY DEF IInv, MarkedOncePerWindow, Begin, Goto, Locks, counts
<1>4. QED  BY <1>1, <1>2, <1>3 DEF IInv

\* The path's lock is taken (createCapsEnforcer).
LEMMA LockKeeps ==
    ASSUME IInv, NEW s \in Sessions, Lock(s)
    PROVE  IInv'
<1>1. TypeOK'
  BY CapsAssumption DEF IInv, TypeOK, Places, Paths, Times, Lock, Goto, counts
<1>2. Counts'
  BY Quietly DEF IInv, TypeOK, Lock, Goto, counts
<1>3. MarkedOncePerWindow'
  BY DEF IInv, MarkedOncePerWindow, Lock, Goto, counts
<1>4. QED  BY <1>1, <1>2, <1>3 DEF IInv

\* The recount under the path's lock refuses, or goes on (createCapsEnforcer).
LEMMA EnforceKeeps ==
    ASSUME IInv, NEW s \in Sessions, Enforce(s)
    PROVE  IInv'
<1>1. TypeOK'
  <2>1. CASE Unlock(s) /\ Rest(s)
    BY <2>1, UnlockTypes, RestTypes DEF IInv, TypeOK, Enforce, counts
  <2>2. CASE /\ Goto(s, "freeze") \/ Goto(s, "account")
             /\ at' = at \/ at' = [at EXCEPT ![s] = clock]
             /\ UNCHANGED <<Locks, path, size, window>>
    <3>1. pc'[s] = "freeze" => path[s] \in Passwords
      BY <2>2, CapsAssumption DEF IInv, TypeOK, Enforce, Goto, Rest
    <3>2. QED  BY <2>2, <3>1 DEF IInv, TypeOK, Places, Enforce, Goto, Locks, counts
  <2>3. QED  BY <2>1, <2>2 DEF Enforce
<1>2. Counts'
  BY Quietly DEF IInv, TypeOK, Enforce, Rest, Goto, counts
<1>3. MarkedOncePerWindow'
  BY DEF IInv, MarkedOncePerWindow, Enforce
<1>4. QED  BY <1>1, <1>2, <1>3 DEF IInv

\* The account's lock is taken and its rows are counted (enforceAccountCap).
LEMMA LockAccountKeeps ==
    ASSUME IInv, NEW s \in Sessions, LockAccount(s)
    PROVE  IInv'
<1>1. TypeOK'
  BY CapsAssumption, OverAccountType DEF IInv, TypeOK, Places, Times, LockAccount, Goto, counts
<1>2. Counts'
  BY Quietly DEF IInv, TypeOK, LockAccount, Goto, counts
<1>3. MarkedOncePerWindow'
  BY DEF IInv, MarkedOncePerWindow, LockAccount
<1>4. QED  BY <1>1, <1>2, <1>3 DEF IInv

\* The recipients are inserted, or the account's refusal is to be told of.
LEMMA InsertKeeps ==
    ASSUME IInv, NEW s \in Sessions, Insert(s)
    PROVE  IInv'
<1>1. TypeOK'
  <2>1. CASE /\ rows' = [rows EXCEPT ![<<path[s], clock>>] = @ + size[s]]
             /\ Rest(s)
    <3>1. rows' \in [Paths \X Times -> Nat]
      BY <2>1, CapsAssumption DEF IInv, TypeOK
    <3>2. QED  BY <2>1, <3>1, UnlockTypes, RestTypes DEF IInv, TypeOK, Insert, counts
  <2>2. CASE /\ window[s] # "none"
             /\ at' = [at EXCEPT ![s] = clock]
             /\ Goto(s, "account-alert")
             /\ UNCHANGED <<rows, path, size, window>>
    BY <2>2, UnlockTypes DEF IInv, TypeOK, Places, Insert, Goto, counts
  <2>3. QED  BY <2>1, <2>2 DEF Insert
<1>2. Counts'
  BY Quietly DEF IInv, TypeOK, Insert, Rest, Goto, counts
<1>3. MarkedOncePerWindow'
  BY DEF IInv, MarkedOncePerWindow, Insert
<1>4. QED  BY <1>1, <1>2, <1>3 DEF IInv

\* A marker is written when no live one keeps it quiet (alertAccountCapOnce): it is a
\* window away from all of its kind.
LEMMA AlertAccountOnceKeeps ==
    ASSUME IInv, NEW s \in Sessions, AlertAccountOnce(s)
    PROVE  IInv'
<1> DEFINE new == <<window[s], at[s], Cardinality(markers) + 1>>
<1>0. /\ window[s] \in {"hourly", "daily"} /\ at[s] \in Times
  BY DEF IInv, TypeOK, AlertAccountOnce
<1>1. TypeOK'
  <2>1. Cardinality(markers) \in Nat /\ IsFiniteSet(markers')
    BY FS_CardinalityType, FS_AddElement DEF IInv, TypeOK, AlertAccountOnce, Mark
  <2>2. markers' \subseteq {"hourly", "daily"} \X Times \X Nat
    BY <1>0, <2>1 DEF IInv, TypeOK, AlertAccountOnce, Mark
  <2>3. QED  BY <2>1, <2>2, RestTypes DEF IInv, TypeOK, AlertAccountOnce, Locks, counts
<1>2. Counts'
  BY Quietly DEF IInv, TypeOK, AlertAccountOnce, Rest, Goto, counts
<1>3. MarkedOncePerWindow'
  <2>1. CASE Quiet(window[s], at[s])
    BY <2>1 DEF IInv, MarkedOncePerWindow, AlertAccountOnce
  <2>2. CASE ~Quiet(window[s], at[s])
    <3>1. markers' = markers \cup {new}
      BY <2>2 DEF AlertAccountOnce, Mark
    <3>2. ASSUME NEW m \in markers, m[1] = new[1]
          PROVE  m[2] + Length(m[1]) <= new[2]
      BY <2>2, <3>2, <1>0, CapsAssumption DEF Quiet, IInv, TypeOK, Times, Length
    <3>3. QED  BY <3>1, <3>2 DEF IInv, MarkedOncePerWindow
  <2>3. QED  BY <2>1, <2>2
<1>4. QED  BY <1>1, <1>2, <1>3 DEF IInv

-----------------------------------------------------------------------------
\* The first to freeze at RCPT is to write the audit row and to alert; the others,
\* who find it frozen, are done.
LEMMA RcptFreezesKeeps ==
    ASSUME IInv, NEW s \in Sessions, RcptFreezes(s)
    PROVE  IInv'
<1>1. CASE path[s] \in frozen /\ Rest(s) /\ UNCHANGED <<frozen, counts>>
  <2>1. TypeOK'
    BY <1>1, RestTypes DEF IInv, TypeOK, RcptFreezes, Locks, counts
  <2>2. Counts'
    BY <1>1, Quietly DEF IInv, TypeOK, RcptFreezes, Rest, Goto, counts
  <2>3. QED  BY <2>1, <2>2 DEF IInv, MarkedOncePerWindow, RcptFreezes
<1>2. CASE /\ Freeze(s)
           /\ unaudited' = [unaudited EXCEPT ![path[s]] = @ + 1]
           /\ Goto(s, "rcpt-audit") /\ UNCHANGED <<lastSent, told, path, size, at, window>>
  <2>0. path[s] \in Passwords
    BY DEF IInv, TypeOK, RcptFreezes
  <2>1. TypeOK'
    BY <1>2, <2>0 DEF IInv, TypeOK, Places, RcptFreezes, Freeze, Goto, Locks
  <2>2. ASSUME NEW p \in Passwords
        PROVE  /\ Cardinality(Auditing(p)') <= unaudited'[p]
               /\ Cardinality(Alerting(p)') <= unalerted'[p] - unaudited'[p]
               /\ unalerted'[p] <= faults' + Cardinality(Telling(p)')
    <3>1. /\ s \notin Auditing(p) /\ s \notin Alerting(p) /\ s \notin Telling(p)
          /\ s \notin Alerting(p)'
          /\ s \in Auditing(p)' <=> path[s] = p
          /\ s \in Telling(p)' <=> path[s] = p
      BY <1>2 DEF IInv, TypeOK, RcptFreezes, Goto, Auditing, Alerting, Telling
    <3>2. \A t \in Sessions \ {s} : pc'[t] = pc[t] /\ path'[t] = path[t]
      BY <1>2 DEF IInv, TypeOK, Goto
    <3>3. /\ unaudited[p] \in Int /\ unalerted[p] \in Int /\ faults \in Nat /\ faults' = faults
          /\ unaudited'[p] = unaudited[p] + (IF path[s] = p THEN 1 ELSE 0)
          /\ unalerted'[p] = unalerted[p] + (IF path[s] = p THEN 1 ELSE 0)
      BY <1>2, <2>0 DEF IInv, TypeOK, RcptFreezes, Freeze
    <3>4. QED  BY <3>1, <3>2, <3>3, Shift DEF IInv, Counts
  <2>3. QED  BY <2>1, <2>2 DEF IInv, Counts, MarkedOncePerWindow, RcptFreezes
<1>3. QED  BY <1>1, <1>2 DEF RcptFreezes

\* The audit row of checkCaps' freeze is written by the one that froze.
LEMMA RcptAuditsKeeps ==
    ASSUME IInv, NEW s \in Sessions, RcptAudits(s)
    PROVE  IInv'
<1>0. path[s] \in Passwords
  BY DEF IInv, TypeOK, RcptAudits
<1>1. TypeOK'
  BY <1>0 DEF IInv, TypeOK, Places, RcptAudits, Goto, Locks
<1>2. ASSUME NEW p \in Passwords
      PROVE  /\ Cardinality(Auditing(p)') <= unaudited'[p]
             /\ Cardinality(Alerting(p)') <= unalerted'[p] - unaudited'[p]
             /\ unalerted'[p] <= faults' + Cardinality(Telling(p)')
  <2>1. /\ s \in Auditing(p) <=> path[s] = p
        /\ s \in Telling(p) <=> path[s] = p
        /\ s \notin Alerting(p) /\ s \notin Auditing(p)'
        /\ s \in Alerting(p)' <=> path[s] = p
        /\ s \in Telling(p)' <=> path[s] = p
    BY DEF IInv, TypeOK, RcptAudits, Goto, Auditing, Alerting, Telling
  <2>2. \A t \in Sessions \ {s} : pc'[t] = pc[t] /\ path'[t] = path[t]
    BY DEF IInv, TypeOK, RcptAudits, Goto
  <2>3. /\ unaudited[p] \in Int /\ unalerted[p] \in Int /\ faults \in Nat
        /\ unaudited'[p] = unaudited[p] - (IF path[s] = p THEN 1 ELSE 0)
        /\ unalerted' = unalerted /\ faults' = faults
    BY <1>0 DEF IInv, TypeOK, RcptAudits
  <2>4. QED  BY <2>1, <2>2, <2>3, Shift DEF IInv, Counts
<1>3. QED  BY <1>1, <1>2 DEF IInv, Counts, MarkedOncePerWindow, RcptAudits

\* The freeze at DATA and its audit row are one transaction: only the alert is left.
LEMMA EnforceFreezesKeeps ==
    ASSUME IInv, NEW s \in Sessions, EnforceFreezes(s)
    PROVE  IInv'
<1>0. path[s] \in Passwords
  BY DEF IInv, TypeOK, EnforceFreezes
<1>1. CASE path[s] \in frozen /\ Rest(s) /\ UNCHANGED <<frozen, frozenAt, unalerted>>
  <2>1. TypeOK'
    BY <1>1, RestTypes, UnlockTypes DEF IInv, TypeOK, EnforceFreezes
  <2>2. Counts'
    BY <1>1, Quietly DEF IInv, TypeOK, EnforceFreezes, Rest, Goto
  <2>3. QED  BY <2>1, <2>2 DEF IInv, MarkedOncePerWindow, EnforceFreezes
<1>2. CASE Freeze(s) /\ Goto(s, "alert") /\ UNCHANGED <<path, size, at, window>>
  <2>1. TypeOK'
    BY <1>0, <1>2, UnlockTypes DEF IInv, TypeOK, Places, EnforceFreezes, Freeze, Goto
  <2>2. ASSUME NEW p \in Passwords
        PROVE  /\ Cardinality(Auditing(p)') <= unaudited'[p]
               /\ Cardinality(Alerting(p)') <= unalerted'[p] - unaudited'[p]
               /\ unalerted'[p] <= faults' + Cardinality(Telling(p)')
    <3>1. /\ s \notin Auditing(p) /\ s \notin Alerting(p) /\ s \notin Telling(p)
          /\ s \notin Auditing(p)'
          /\ s \in Alerting(p)' <=> path[s] = p
          /\ s \in Telling(p)' <=> path[s] = p
      BY <1>2 DEF IInv, TypeOK, EnforceFreezes, Goto, Auditing, Alerting, Telling
    <3>2. \A t \in Sessions \ {s} : pc'[t] = pc[t] /\ path'[t] = path[t]
      BY <1>2 DEF IInv, TypeOK, Goto
    <3>3. /\ unaudited[p] \in Int /\ unalerted[p] \in Int /\ faults \in Nat
          /\ unaudited' = unaudited /\ faults' = faults
          /\ unalerted'[p] = unalerted[p] + (IF path[s] = p THEN 1 ELSE 0)
      BY <1>0, <1>2 DEF IInv, TypeOK, EnforceFreezes, Freeze
    <3>4. QED  BY <3>1, <3>2, <3>3, Shift DEF IInv, Counts
  <2>3. QED  BY <2>1, <2>2 DEF IInv, Counts, MarkedOncePerWindow, EnforceFreezes
<1>3. QED  BY <1>1, <1>2 DEF EnforceFreezes

\* The alert takes one off what is to be told, once its audit row is written.
LEMMA AlertKeeps ==
    ASSUME IInv, NEW s \in Sessions, Alert(s)
    PROVE  IInv'
<1>0. path[s] \in Passwords
  BY DEF IInv, TypeOK, Alert
<1>1. TypeOK'
  <2>1. CASE Rest(s)
    BY <1>0, <2>1, RestTypes DEF IInv, TypeOK, Alert, Locks
  <2>2. CASE /\ at' = [at EXCEPT ![s] = clock]
             /\ Goto(s, "sending") /\ UNCHANGED <<path, size, window>>
    BY <1>0, <2>2 DEF IInv, TypeOK, Places, Alert, Goto, Locks
  <2>3. QED  BY <2>1, <2>2 DEF Alert
<1>2. ASSUME NEW p \in Passwords
      PROVE  /\ Cardinality(Auditing(p)') <= unaudited'[p]
             /\ Cardinality(Alerting(p)') <= unalerted'[p] - unaudited'[p]
             /\ unalerted'[p] <= faults' + Cardinality(Telling(p)')
  <2>1. /\ s \notin Auditing(p) /\ s \notin Auditing(p)'
        /\ s \notin Alerting(p)' /\ s \notin Telling(p)'
        /\ s \in Alerting(p) <=> path[s] = p
        /\ s \in Telling(p) <=> path[s] = p
    BY DEF IInv, TypeOK, Alert, Rest, Goto, Auditing, Alerting, Telling
  <2>2. \A t \in Sessions \ {s} : pc'[t] = pc[t] /\ path'[t] = path[t]
    BY DEF IInv, TypeOK, Alert, Rest, Goto
  <2>3. /\ unaudited[p] \in Int /\ unalerted[p] \in Int /\ faults \in Nat
        /\ unalerted'[p] = unalerted[p] - (IF path[s] = p THEN 1 ELSE 0)
        /\ unaudited' = unaudited /\ faults' = faults
    BY <1>0 DEF IInv, TypeOK, Alert
  <2>4. QED  BY <2>1, <2>2, <2>3, Shift DEF IInv, Counts
<1>3. QED  BY <1>1, <1>2 DEF IInv, Counts, MarkedOncePerWindow, Alert

\* The mail goes out, or not: nothing more is to be told by this session.
LEMMA RelayAnswersKeeps ==
    ASSUME IInv, NEW s \in Sessions, RelayAnswers(s)
    PROVE  IInv'
<1>0. path[s] \in Passwords /\ at[s] \in Times /\ faults' \in Nat /\ faults <= faults'
  BY DEF IInv, TypeOK, RelayAnswers
<1>1. TypeOK'
  <2>1. /\ lastSent' \in [Passwords -> Times \cup {Never}]
        /\ told' \in [Passwords -> Times \cup {Never}]
    BY <1>0 DEF IInv, TypeOK, RelayAnswers
  <2>2. QED  BY <1>0, <2>1, RestTypes DEF IInv, TypeOK, RelayAnswers, Locks
<1>2. ASSUME NEW p \in Passwords
      PROVE  /\ Cardinality(Auditing(p)') <= unaudited'[p]
             /\ Cardinality(Alerting(p)') <= unalerted'[p] - unaudited'[p]
             /\ unalerted'[p] <= faults' + Cardinality(Telling(p)')
  <2>1. /\ s \notin Auditing(p)' /\ s \notin Alerting(p)' /\ s \notin Telling(p)'
        /\ s \notin Auditing(p) /\ s \notin Alerting(p) /\ s \notin Telling(p)
    BY DEF IInv, TypeOK, RelayAnswers, Rest, Goto, Auditing, Alerting, Telling
  <2>2. \A t \in Sessions \ {s} : pc'[t] = pc[t] /\ path'[t] = path[t]
    BY DEF IInv, TypeOK, RelayAnswers, Rest, Goto
  <2>3. /\ unaudited[p] \in Int /\ unalerted[p] \in Int /\ faults \in Nat
        /\ unaudited' = unaudited /\ unalerted' = unalerted
    BY DEF IInv, TypeOK, RelayAnswers
  <2>4. QED  BY <1>0, <2>1, <2>2, <2>3, Shift DEF IInv, Counts
<1>3. QED  BY <1>1, <1>2 DEF IInv, Counts, MarkedOncePerWindow, RelayAnswers

\* A crash takes at most one session off those that tell, and counts as one.
LEMMA FailsKeeps ==
    ASSUME IInv, NEW s \in Sessions, Fails(s)
    PROVE  IInv'
<1>1. TypeOK'
  BY RestTypes, UnlockTypes DEF IInv, TypeOK, Fails, counts
<1>2. ASSUME NEW p \in Passwords
      PROVE  /\ Cardinality(Auditing(p)') <= unaudited'[p]
             /\ Cardinality(Alerting(p)') <= unalerted'[p] - unaudited'[p]
             /\ unalerted'[p] <= faults' + Cardinality(Telling(p)')
  <2>1. s \notin Auditing(p)' /\ s \notin Alerting(p)' /\ s \notin Telling(p)'
    BY DEF IInv, TypeOK, Fails, Rest, Goto, Auditing, Alerting, Telling
  <2>2. \A t \in Sessions \ {s} : pc'[t] = pc[t] /\ path'[t] = path[t]
    BY DEF IInv, TypeOK, Fails, Rest, Goto
  <2>3. /\ unaudited[p] \in Int /\ unalerted[p] \in Int /\ faults \in Nat
        /\ unaudited' = unaudited /\ unalerted' = unalerted /\ faults' = faults + 1
    BY DEF IInv, TypeOK, Fails, counts
  <2>4. QED  BY <2>1, <2>2, <2>3, Shift DEF IInv, Counts
<1>3. QED  BY <1>1, <1>2 DEF IInv, Counts, MarkedOncePerWindow, Fails

\* Thaws and the clock leave the sessions alone.
LEMMA OthersKeep ==
    ASSUME IInv, Tick \/ \E p \in Passwords : Thaw(p)
    PROVE  IInv'
<1>1. UNCHANGED <<session, unaudited, unalerted, lastSent, told, markers, faults>>
  BY DEF Tick, Thaw, counts
<1>2. TypeOK'
  <2>1. UNCHANGED <<rows, pathLock, accountLock, pc, path, size, at, window, unaudited, unalerted>>
    BY <1>1 DEF Tick, Thaw, Locks, session, counts
  <2>2. clock' \in Times /\ frozen' \subseteq Passwords /\ thaws' \in Nat
    BY CapsAssumption DEF IInv, TypeOK, Tick, Thaw, Times
  <2>3. frozenAt' \in [Passwords -> Times]
    BY CapsAssumption DEF IInv, TypeOK, Tick, Thaw, Times, counts
  <2>4. QED  BY <1>1, <2>1, <2>2, <2>3 DEF IInv, TypeOK
<1>3. Counts'
  BY <1>1 DEF IInv, Counts, Auditing, Alerting, Telling, session, counts
<1>4. QED  BY <1>1, <1>2, <1>3 DEF IInv, MarkedOncePerWindow

-----------------------------------------------------------------------------
\* At first there is nothing to tell.
LEMMA InitHolds == Init => IInv
<1> SUFFICES ASSUME Init PROVE IInv
  OBVIOUS
<1>1. TypeOK
  BY CapsAssumption, FS_EmptySet DEF Init, TypeOK, Paths, Times, Places
<1>2. ASSUME NEW p \in Passwords
      PROVE  /\ Cardinality(Auditing(p)) = 0 /\ Cardinality(Alerting(p)) = 0
             /\ Cardinality(Telling(p)) = 0
             /\ unaudited[p] = 0 /\ unalerted[p] = 0 /\ faults = 0
  <2>1. Auditing(p) = {} /\ Alerting(p) = {} /\ Telling(p) = {}
    BY DEF Init, Auditing, Alerting, Telling
  <2>2. QED  BY <2>1, FS_EmptySet DEF Init
<1>3. Counts
  BY <1>2 DEF Counts
<1>4. QED  BY <1>1, <1>3 DEF IInv, MarkedOncePerWindow, Init

\* Every step keeps the invariant.
LEMMA NextKeeps == IInv /\ [Next]_vars => IInv'
<1> SUFFICES ASSUME IInv, [Next]_vars PROVE IInv'
  OBVIOUS
<1>1. CASE UNCHANGED vars
  BY <1>1 DEF vars, session, counts, IInv, TypeOK, Counts, Auditing, Alerting, Telling,
              MarkedOncePerWindow
<1>2. CASE Next
  <2>1. ASSUME NEW s \in Sessions, NEW p \in Paths, NEW n \in 1..MaxRecipients, Rcpt(s, p, n)
        PROVE  IInv'
    BY <2>1, RcptKeeps
  <2>2. ASSUME NEW s \in Sessions, Step(s)
        PROVE  IInv'
    BY <2>2, RcptFreezesKeeps, RcptAuditsKeeps, BeginKeeps, LockKeeps, EnforceKeeps,
       EnforceFreezesKeeps, AlertKeeps, RelayAnswersKeeps, LockAccountKeeps, InsertKeeps, AlertAccountOnceKeeps
       DEF Step
  <2>3. ASSUME NEW s \in Sessions, Fails(s)
        PROVE  IInv'
    BY <2>3, FailsKeeps
  <2>4. QED  BY <1>2, <2>1, <2>2, <2>3, OthersKeep DEF Next
<1>3. QED  BY <1>1, <1>2

\* The variables of the submission caps keep their types.
THEOREM TypeCorrect == Spec => []TypeOK
<1>1. IInv => TypeOK
  BY DEF IInv
<1>2. QED  BY <1>1, InitHolds, NextKeeps, PTL DEF Spec

-----------------------------------------------------------------------------
\* The mails.  A frozen password has been mailed about less than an hour before its
\* freeze or since, or a session is on its way to mail about this freeze: the look at the
\* key comes after the freeze, so a mail that keeps it quiet is recent enough.

OnItsWay(p) ==
    \E s \in Sessions :
        /\ path[s] = p
        /\ \/ pc[s] \in {"rcpt-audit", "alert"}
           \/ pc[s] = "sending" /\ at[s] >= frozenAt[p]

Mailed ==
    /\ \A p \in Passwords : lastSent[p] <= told[p] /\ frozenAt[p] <= clock
    /\ \A s \in Sessions : at[s] <= clock
    /\ \A p \in frozen : faults = 0 => told[p] + Hour > frozenAt[p] \/ OnItsWay(p)

\* A step that freezes nothing, mails nothing and takes no session off its way.
LEMMA MailedAlone ==
    ASSUME TypeOK, TypeOK', Mailed, UNCHANGED <<told, faults>>, frozen' \subseteq frozen,
           clock <= clock',
           \A p \in Passwords : /\ lastSent'[p] = lastSent[p] /\ frozenAt'[p] <= clock
                                /\ p \in frozen' => frozenAt'[p] = frozenAt[p],
           \A s \in Sessions : at'[s] <= clock',
           \A s \in Sessions :
               pc[s] \in {"rcpt-audit", "alert", "sending"} =>
                   /\ path'[s] = path[s]
                   /\ \/ pc'[s] = pc[s] /\ at'[s] = at[s]
                      \/ pc'[s] \in {"rcpt-audit", "alert"}
    PROVE  Mailed'
<1>1. clock \in Int /\ clock' \in Int /\ \A p \in Passwords : frozenAt'[p] \in Int
  BY CapsAssumption DEF TypeOK, Times
<1>2. ASSUME NEW p \in frozen', OnItsWay(p) PROVE OnItsWay(p)'
  <2>1. PICK s \in Sessions : /\ path[s] = p
                             /\ \/ pc[s] \in {"rcpt-audit", "alert"}
                                \/ pc[s] = "sending" /\ at[s] >= frozenAt[p]
    BY <1>2 DEF OnItsWay
  <2>2. frozenAt'[p] = frozenAt[p]
    BY DEF TypeOK
  <2>3. QED  BY <2>1, <2>2 DEF OnItsWay
<1>3. \A p \in Passwords : lastSent'[p] <= told'[p] /\ frozenAt'[p] <= clock'
  BY <1>1 DEF Mailed
<1>4. \A p \in frozen' : faults' = 0 => told'[p] + Hour > frozenAt'[p] \/ OnItsWay(p)'
  BY <1>2 DEF Mailed, TypeOK
<1>5. QED  BY <1>3, <1>4 DEF Mailed

\* The freeze of s's password, which s is to mail about.
LEMMA MailedFrozen ==
    ASSUME TypeOK, TypeOK', Mailed, NEW s \in Sessions, path[s] \in Passwords, Freeze(s),
           pc[s] \notin {"rcpt-audit", "alert", "sending"},
           pc' = [pc EXCEPT ![s] = "rcpt-audit"] \/ pc' = [pc EXCEPT ![s] = "alert"],
           UNCHANGED <<clock, told, lastSent, faults, path, at>>
    PROVE  Mailed'
<1>1. OnItsWay(path[s])'
  BY DEF OnItsWay, TypeOK
<1>2. ASSUME NEW p \in frozen, p # path[s], OnItsWay(p) PROVE OnItsWay(p)'
  <2>1. p \in Passwords
    BY DEF TypeOK
  <2>2. PICK t \in Sessions : /\ path[t] = p
                             /\ \/ pc[t] \in {"rcpt-audit", "alert"}
                                \/ pc[t] = "sending" /\ at[t] >= frozenAt[p]
    BY <1>2 DEF OnItsWay
  <2>3. t # s /\ pc'[t] = pc[t] /\ frozenAt'[p] = frozenAt[p]
    BY <1>2, <2>1, <2>2 DEF Freeze, TypeOK
  <2>4. QED  BY <2>2, <2>3 DEF OnItsWay
<1>3. \A p \in Passwords : frozenAt'[p] <= clock
  BY DEF Mailed, Freeze, TypeOK
<1>4. \A p \in frozen' : p # path[s] => p \in frozen /\ frozenAt'[p] = frozenAt[p]
  BY DEF Freeze, TypeOK
<1>5. \A p \in frozen' : faults' = 0 => told'[p] + Hour > frozenAt'[p] \/ OnItsWay(p)'
  BY <1>1, <1>2, <1>4 DEF Mailed
<1>6. QED  BY <1>3, <1>5 DEF Mailed

\* sendAlert's look: quiet because of a mail of less than an hour ago, or on.
LEMMA MailedAlert ==
    ASSUME TypeOK, TypeOK', Mailed, NEW s \in Sessions, Alert(s)
    PROVE  Mailed'
<1>0. path[s] \in Passwords /\ UNCHANGED <<frozen, frozenAt, told, lastSent, faults, clock>>
  BY DEF TypeOK, Alert
<1>1. /\ clock \in Int /\ Hour \in Int
      /\ \A p \in Passwords : frozenAt[p] \in Int /\ told[p] \in Int /\ lastSent[p] \in Int
  BY CapsAssumption DEF TypeOK, Times, Never
<1>2. \A t \in Sessions : at'[t] <= clock'
  BY <1>0, <1>1, CapsAssumption DEF Mailed, Alert, Rest, Goto, TypeOK, Times
<1>3. ASSUME NEW p \in frozen, OnItsWay(p)
      PROVE  told[p] + Hour > frozenAt[p] \/ OnItsWay(p)'
  <2>1. p \in Passwords
    BY DEF TypeOK
  <2>2. PICK t \in Sessions : /\ path[t] = p
                             /\ \/ pc[t] \in {"rcpt-audit", "alert"}
                                \/ pc[t] = "sending" /\ at[t] >= frozenAt[p]
    BY <1>3 DEF OnItsWay
  <2>3. CASE t # s
    <3>1. pc'[t] = pc[t] /\ path'[t] = path[t] /\ at'[t] = at[t]
      BY <2>3 DEF Alert, Rest, Goto, TypeOK
    <3>2. QED  BY <1>0, <2>2, <3>1 DEF OnItsWay
  <2>4. CASE t = s /\ Deduped(path[s])
    BY <1>1, <2>1, <2>2, <2>4 DEF Deduped, Mailed
  <2>5. CASE t = s /\ ~Deduped(path[s])
    <3>1. pc'[s] = "sending" /\ path'[s] = p /\ at'[s] = clock
      BY <2>2, <2>5 DEF Alert, Goto, TypeOK
    <3>2. clock >= frozenAt[p]
      BY <1>1, <2>1 DEF Mailed
    <3>3. QED  BY <1>0, <3>1, <3>2 DEF OnItsWay
  <2>6. QED  BY <2>3, <2>4, <2>5
<1>4. QED  BY <1>0, <1>2, <1>3 DEF Mailed

\* The mail goes out: it is about every freeze up to the look at the key.
LEMMA MailedSent ==
    ASSUME TypeOK, TypeOK', Mailed, NEW s \in Sessions, RelayAnswers(s)
    PROVE  Mailed'
<1>0. path[s] \in Passwords /\ UNCHANGED <<frozen, frozenAt, clock>>
  BY DEF TypeOK, RelayAnswers
<1>1. /\ clock \in Int /\ Hour \in Int /\ Hour > 0 /\ at[s] \in Int
      /\ \A p \in Passwords : frozenAt[p] \in Int /\ told[p] \in Int /\ lastSent[p] \in Int
  BY CapsAssumption DEF TypeOK, Times, Never
<1>2. \A t \in Sessions : at'[t] <= clock'
  BY <1>0, <1>1, CapsAssumption DEF Mailed, RelayAnswers, Rest, Goto, TypeOK, Times
<1>3. CASE faults' = faults + 1 /\ UNCHANGED <<lastSent, told>>
  <2>1. faults' # 0
    BY <1>3 DEF TypeOK
  <2>2. QED  BY <1>0, <1>2, <1>3, <2>1 DEF Mailed
<1>4. CASE /\ lastSent' = [lastSent EXCEPT ![path[s]] = at[s]]
           /\ told' = [told EXCEPT ![path[s]] = IF at[s] > @ THEN at[s] ELSE @]
           /\ UNCHANGED faults
  <2>1. \A p \in Passwords : /\ told'[p] \in Int /\ told[p] <= told'[p] /\ lastSent'[p] <= told'[p]
                             /\ p = path[s] => at[s] <= told'[p]
    BY <1>0, <1>1, <1>4 DEF Mailed, TypeOK
  <2>2. ASSUME NEW p \in frozen, told[p] + Hour > frozenAt[p] \/ OnItsWay(p)
        PROVE  told'[p] + Hour > frozenAt[p] \/ OnItsWay(p)'
    <3>0. p \in Passwords
      BY DEF TypeOK
    <3>1. CASE told[p] + Hour > frozenAt[p]
      BY <1>1, <2>1, <3>0, <3>1
    <3>2. CASE OnItsWay(p)
      <4>1. PICK t \in Sessions : /\ path[t] = p
                                 /\ \/ pc[t] \in {"rcpt-audit", "alert"}
                                    \/ pc[t] = "sending" /\ at[t] >= frozenAt[p]
        BY <3>2 DEF OnItsWay
      <4>2. CASE t # s
        <5>1. pc'[t] = pc[t] /\ path'[t] = path[t] /\ at'[t] = at[t]
          BY <4>2 DEF RelayAnswers, Rest, Goto, TypeOK
        <5>2. QED  BY <1>0, <4>1, <5>1 DEF OnItsWay
      <4>3. CASE t = s
        <5>1. at[s] >= frozenAt[p] /\ path[s] = p
          BY <4>1, <4>3 DEF RelayAnswers
        <5>2. QED  BY <1>1, <2>1, <3>0, <5>1
      <4>4. QED  BY <4>2, <4>3
    <3>3. QED  BY <2>2, <3>1, <3>2
  <2>3. QED  BY <1>0, <1>2, <1>4, <2>1, <2>2 DEF Mailed
<1>5. QED  BY <1>3, <1>4 DEF RelayAnswers

\* A fault excuses.
LEMMA MailedFails ==
    ASSUME TypeOK, TypeOK', Mailed, NEW s \in Sessions, Fails(s)
    PROVE  Mailed'
<1>1. UNCHANGED <<frozen, frozenAt, told, clock>> /\ faults' # 0
  BY DEF TypeOK, Fails
<1>2. \A t \in Sessions : at'[t] <= clock'
  BY <1>1, CapsAssumption DEF Mailed, Fails, Rest, Goto, TypeOK, Times
<1>3. \A p \in Passwords : lastSent'[p] <= told[p]
  <2>1. \A p \in Passwords : Never <= told[p]
    BY CapsAssumption DEF TypeOK, Times, Never
  <2>2. QED  BY <2>1 DEF Mailed, Fails
<1>4. QED  BY <1>1, <1>2, <1>3 DEF Mailed

\* Every step keeps it.
LEMMA MailedStep ==
    ASSUME TypeOK, TypeOK', Mailed, [Next]_vars
    PROVE  Mailed'
<1>0. clock \in Int /\ 0 <= clock /\ \A p \in Passwords : 0 <= frozenAt[p]
  BY CapsAssumption DEF TypeOK, Times
<1>1. CASE Tick \/ UNCHANGED vars
  <2>1. /\ UNCHANGED <<told, faults, frozen, frozenAt, lastSent, pc, path, at>>
        /\ clock' = clock \/ clock' = clock + 1
    BY <1>1 DEF Tick, vars, session, counts
  <2>2. \A s \in Sessions : at'[s] <= clock'
    BY <1>0, <2>1, CapsAssumption DEF Mailed, TypeOK, Times
  <2>3. clock <= clock' /\ \A p \in Passwords : frozenAt'[p] <= clock
    BY <1>0, <2>1 DEF Mailed
  <2>4. QED  BY <2>1, <2>2, <2>3, MailedAlone
<1>2. ASSUME NEW p \in Passwords, Thaw(p) PROVE Mailed'
  <2>1. /\ UNCHANGED <<told, faults, lastSent, pc, path, at, clock>>
        /\ frozen' \subseteq frozen
        /\ \A q \in Passwords : /\ frozenAt'[q] = frozenAt[q] \/ frozenAt'[q] = 0
                                /\ q \in frozen' => frozenAt'[q] = frozenAt[q]
    BY <1>2 DEF Thaw, session, TypeOK
  <2>2. /\ \A q \in Passwords : frozenAt'[q] <= clock
        /\ \A s \in Sessions : at'[s] <= clock'
        /\ clock <= clock'
    BY <1>0, <2>1 DEF Mailed
  <2>3. QED  BY <2>1, <2>2, MailedAlone
<1>3. ASSUME NEW s \in Sessions,
             \/ \E p \in Paths, n \in 1..MaxRecipients : Rcpt(s, p, n)
             \/ RcptAudits(s) \/ Begin(s) \/ Lock(s) \/ Enforce(s) \/ LockAccount(s)
             \/ Insert(s) \/ AlertAccountOnce(s)
             \/ RcptFreezes(s) /\ Rest(s) /\ UNCHANGED <<frozen, counts>>
             \/ EnforceFreezes(s) /\ Rest(s) /\ UNCHANGED <<frozen, frozenAt>>
      PROVE  Mailed'
  <2>1. /\ UNCHANGED <<told, faults, frozen, frozenAt, lastSent, clock>>
    BY <1>3 DEF Rcpt, RcptAudits, Begin, Lock, Enforce, LockAccount, Insert, AlertAccountOnce,
       RcptFreezes, EnforceFreezes, counts
  <2>2. \A t \in Sessions \ {s} : pc'[t] = pc[t] /\ path'[t] = path[t] /\ at'[t] = at[t]
    BY <1>3 DEF Rcpt, RcptAudits, Begin, Lock, Enforce, LockAccount, Insert, AlertAccountOnce,
       RcptFreezes, EnforceFreezes, Rest, Goto, TypeOK
  <2>3. at'[s] = at[s] \/ at'[s] = clock \/ at'[s] = 0
    BY <1>3 DEF Rcpt, RcptAudits, Begin, Lock, Enforce, LockAccount, Insert, AlertAccountOnce,
       RcptFreezes, EnforceFreezes, Rest, Goto, TypeOK
  <2>4. pc[s] \in {"rcpt-audit", "alert", "sending"} => path'[s] = path[s] /\ pc'[s] = "alert"
    BY <1>3 DEF Rcpt, RcptAudits, Begin, Lock, Enforce, LockAccount, Insert, AlertAccountOnce,
       RcptFreezes, EnforceFreezes, Rest, Goto, TypeOK
  <2>5. /\ \A t \in Sessions : at'[t] <= clock'
        /\ \A p \in Passwords : frozenAt'[p] <= clock
        /\ clock <= clock'
    BY <1>0, <2>1, <2>2, <2>3 DEF Mailed
  <2>6. QED  BY <2>1, <2>2, <2>4, <2>5, MailedAlone
<1>4. ASSUME NEW s \in Sessions, RcptFreezes(s) \/ EnforceFreezes(s), Freeze(s) PROVE Mailed'
  <2>1. /\ path[s] \in Passwords /\ pc[s] \notin {"rcpt-audit", "alert", "sending"}
        /\ path[s] \notin frozen
    BY <1>4 DEF RcptFreezes, EnforceFreezes, TypeOK, Freeze
  <2>2. /\ pc' = [pc EXCEPT ![s] = "rcpt-audit"] \/ pc' = [pc EXCEPT ![s] = "alert"]
        /\ UNCHANGED <<clock, told, lastSent, faults, path, at>>
    BY <1>4, <2>1 DEF RcptFreezes, EnforceFreezes, Goto
  <2>3. QED  BY <1>4, <2>1, <2>2, MailedFrozen
<1>5. ASSUME NEW s \in Sessions, Step(s) \/ Fails(s) PROVE Mailed'
  <2>1. CASE RcptFreezes(s) \/ EnforceFreezes(s)
    <3>1. \/ Freeze(s)
          \/ RcptFreezes(s) /\ Rest(s) /\ UNCHANGED <<frozen, counts>>
          \/ EnforceFreezes(s) /\ Rest(s) /\ UNCHANGED <<frozen, frozenAt>>
      BY <2>1 DEF RcptFreezes, EnforceFreezes
    <3>2. QED  BY <1>3, <1>4, <2>1, <3>1
  <2>2. CASE Alert(s) \/ RelayAnswers(s) \/ Fails(s)
    BY <2>2, MailedAlert, MailedSent, MailedFails
  <2>3. QED  BY <1>3, <1>5, <2>1, <2>2 DEF Step
<1>6. QED  BY <1>1, <1>2, <1>3, <1>5 DEF Next

\* What is counted has happened: no count is below zero, none is above what crashes
\* and the sessions on their way to tell account for.
LEMMA InvToldOnce == IInv /\ Mailed => ToldOnce
<1> SUFFICES ASSUME IInv, Mailed PROVE ToldOnce
  OBVIOUS
<1>1. ASSUME NEW p \in Passwords
      PROVE  /\ Cardinality(Auditing(p)) \in Nat /\ Cardinality(Alerting(p)) \in Nat
             /\ unaudited[p] \in Int /\ unalerted[p] \in Int
  <2>1. Auditing(p) \subseteq Sessions /\ Alerting(p) \subseteq Sessions
    BY DEF Auditing, Alerting
  <2>2. QED  BY <2>1, FS_Subset, FS_CardinalityType, CapsAssumption DEF IInv, TypeOK
<1>2. ASSUME NEW p \in Passwords
      PROVE  \/ p \notin frozen \/ faults > 0
             \/ told[p] + Hour > frozenAt[p]
             \/ \E s \in Sessions :
                   path[s] = p /\ pc[s] \in {"rcpt-audit", "alert", "sending"}
  <2>1. faults = 0 \/ faults > 0
    BY DEF IInv, TypeOK
  <2>2. OnItsWay(p) => \E s \in Sessions :
                         path[s] = p /\ pc[s] \in {"rcpt-audit", "alert", "sending"}
    BY DEF OnItsWay
  <2>3. QED  BY <2>1, <2>2 DEF Mailed
<1>4. FreezesToldOnce
  BY <1>1, <1>2 DEF IInv, Counts, FreezesToldOnce, Telling
<1>5. QED  BY <1>4 DEF IInv, ToldOnce

\* Of each freeze the audit row and the alert are written once (freezeAndAudit's
\* conditional update), unless a fault intervenes the operator was mailed about the
\* frozen password less than an hour before its freeze or since (sendAlert), and of the
\* account's cap there is one marker per window (alertAccountCapOnce under its own lock).
THEOREM ToldOnceSafe == Spec => []ToldOnce
<1>1. ASSUME Init PROVE Mailed
  <2>1. \A p \in Passwords : lastSent[p] = told[p] /\ told[p] \in Int /\ frozenAt[p] = 0
    BY <1>1, CapsAssumption DEF Init, Never
  <2>2. clock = 0 /\ frozen = {} /\ \A s \in Sessions : at[s] = 0
    BY <1>1 DEF Init
  <2>3. QED  BY <2>1, <2>2 DEF Mailed
<1>2. IInv => TypeOK
  BY DEF IInv
<1>3. TypeOK /\ TypeOK' /\ Mailed /\ [Next]_vars => Mailed'
  BY MailedStep
<1>4. QED  BY <1>1, <1>2, <1>3, InitHolds, NextKeeps, InvToldOnce, PTL DEF Spec

-----------------------------------------------------------------------------
\* The caps.  A session that has been let through was counted, at a time that is past,
\* while it had the lock; it still has the lock, and only who has it inserts.

PathRoom(s) == \E t \in Times : t <= clock /\ ~OverPath(path[s], size[s], t)
AccountRoom(s) == \E t \in Times : t <= clock /\ OverAccount(size[s], t) = "none"

HoldsLocks(s) ==
    /\ pc[s] \in {"enforce", "freeze", "account", "insert"} => pathLock[path[s]] = s
    /\ pc[s] = "insert" => accountLock = s

HasRoom(s) ==
    /\ at[s] <= clock
    /\ pc[s] \in {"account", "insert"} => PathRoom(s)
    /\ pc[s] = "insert" /\ window[s] = "none" => AccountRoom(s)

Standing == \A s \in Sessions : HoldsLocks(s) /\ HasRoom(s)

CInv == Standing /\ WithinPathCaps /\ WithinAccountCaps

\* A count of rows is a number, and of fewer rows a smaller one.
LEMMA CreatedGrows ==
    ASSUME TypeOK, NEW P \in SUBSET Paths, NEW T, NEW U, T \cap Times \subseteq U
    PROVE  /\ IsFiniteSet(Rows(P, T))
           /\ Created(P, T) \in Nat /\ Created(P, U) \in Nat
           /\ Created(P, T) <= Created(P, U)
<1>1. ASSUME NEW V PROVE IsFiniteSet(Rows(P, V))
  <2> DEFINE X == P \X (V \cap Times)
             f == [x \in X |-> {<<x, k>> : k \in 1..rows[x]}]
             parts == {{<<x, k>> : k \in 1..rows[x]} : x \in X}
  <2>1. IsFiniteSet(Times)
    BY FS_Interval, CapsAssumption DEF Times
  <2>2. IsFiniteSet(Paths)
    BY FS_AddElement, CapsAssumption DEF Paths
  <2>3. IsFiniteSet(P) /\ IsFiniteSet(V \cap Times)
    BY <2>1, <2>2, FS_Subset
  <2>4. IsFiniteSet(X)
    BY <2>3, FS_Product
  <2>5. \A h : h = [x \in X |-> h[x]] => h \in Surjection(X, {h[x] : x \in X})
    BY DEF Surjection
  <2>6. IsFiniteSet(parts)
    <3>1. f = [x \in X |-> f[x]] /\ parts = {f[x] : x \in X}
      OBVIOUS
    <3> HIDE DEF f, parts, X
    <3>2. f \in Surjection(X, parts)
      BY <2>5, <3>1
    <3>3. QED  BY <2>4, <3>2, FS_Surjection
  <2>7. ASSUME NEW x \in X PROVE IsFiniteSet({<<x, k>> : k \in 1..rows[x]})
    <3> DEFINE g == [k \in 1..rows[x] |-> <<x, k>>]
    <3>1. rows[x] \in Nat
      BY DEF TypeOK
    <3>2. IsFiniteSet(1..rows[x])
      BY <3>1, FS_Interval
    <3>3. g \in Surjection(1..rows[x], {<<x, k>> : k \in 1..rows[x]})
      BY DEF Surjection
    <3>4. QED  BY <3>2, <3>3, FS_Surjection
  <2>8. IsFiniteSet(UNION parts)
    BY <2>6, <2>7, FS_UNION
  <2>9. QED  BY <2>8 DEF Rows
<1>2. Rows(P, T) \subseteq Rows(P, U)
  BY DEF Rows
<1>3. QED  BY <1>1, <1>2, FS_CardinalityType, FS_Subset DEF Created

\* n rows of path p are created at time c.
Adds(p, c, n) == rows' = [rows EXCEPT ![<<p, c>>] = @ + n]

\* An insertion adds its recipients to the counts it falls in.
LEMMA CreatedAdds ==
    ASSUME TypeOK, NEW p \in Paths, NEW c \in Times, NEW n \in Nat, Adds(p, c, n),
           NEW P \in SUBSET Paths, NEW T
    PROVE  Created(P, T)' = Created(P, T) + (IF p \in P /\ c \in T THEN n ELSE 0)
<1> DEFINE z == <<p, c>>
           m == rows[z]
           I == (m + 1)..(m + n)
           new == {<<z, k>> : k \in I}
           g == [k \in I |-> <<z, k>>]
<1>1. z \in Paths \X Times /\ m \in Nat
  BY DEF TypeOK
<1>2. \A x \in Paths \X Times : rows'[x] = IF x = z THEN m + n ELSE rows[x]
  BY <1>1 DEF TypeOK, Adds
<1>3. \A V \in SUBSET Paths : \A x \in V \X (T \cap Times) : x \in Paths \X Times
  OBVIOUS
<1>4. CASE ~(p \in P /\ c \in T)
  <2>1. z \notin P \X (T \cap Times)
    BY <1>4
  <2>2. \A x \in P \X (T \cap Times) : rows'[x] = rows[x]
    BY <1>2, <1>3, <2>1
  <2>3. Rows(P, T)' = Rows(P, T)
    BY <2>2 DEF Rows
  <2>4. Created(P, T) \in Nat
    BY CreatedGrows
  <2>5. QED  BY <1>4, <2>3, <2>4 DEF Created
<1>5. CASE p \in P /\ c \in T
  <2>1. z \in P \X (T \cap Times)
    BY <1>5
  <2>2. 1..(m + n) = (1..m) \cup I /\ (1..m) \cap I = {}
    BY <1>1
  <2>3. Rows(P, T)' = Rows(P, T) \cup new
    <3> DEFINE X == P \X (T \cap Times)
               R == Rows(P, T)
    <3>1. \A y : y \in R <=> \E x \in X : \E k \in 1..rows[x] : y = <<x, k>>
      BY DEF Rows
    <3>2. \A y : y \in R' <=> \E x \in X : \E k \in 1..rows'[x] : y = <<x, k>>
      BY DEF Rows
    <3>3. \A y : y \in new <=> \E k \in I : y = <<z, k>>
      OBVIOUS
    <3>4. \A x \in X : rows'[x] = IF x = z THEN m + n ELSE rows[x]
      BY <1>2, <1>3
    <3> HIDE DEF X, R, new
    <3>5. ASSUME NEW y \in R' PROVE y \in R \cup new
      <4>1. PICK x \in X : \E k \in 1..rows'[x] : y = <<x, k>>
        BY <3>2
      <4>2. CASE x = z
        BY <2>2, <3>1, <3>3, <3>4, <4>1, <4>2
      <4>3. CASE x # z
        BY <3>1, <3>4, <4>1, <4>3
      <4>4. QED  BY <4>2, <4>3
    <3>6. ASSUME NEW y \in R PROVE y \in R'
      <4>1. PICK x \in X : \E k \in 1..rows[x] : y = <<x, k>>
        BY <3>1
      <4>2. CASE x = z
        <5>1. 1..rows[x] \subseteq 1..rows'[x]
          BY <2>2, <3>4, <4>2
        <5>2. QED  BY <3>2, <4>1, <5>1
      <4>3. CASE x # z
        BY <3>2, <3>4, <4>1, <4>3
      <4>4. QED  BY <4>2, <4>3
    <3>7. ASSUME NEW y \in new PROVE y \in R'
      <4>1. z \in X
        BY <2>1 DEF X
      <4>2. PICK k \in I : y = <<z, k>>
        BY <3>3
      <4>3. k \in 1..rows'[z]
        BY <2>2, <3>4, <4>1, <4>2
      <4>4. QED  BY <3>2, <4>1, <4>2, <4>3
    <3>8. R' = R \cup new
      BY <3>5, <3>6, <3>7
    <3>9. QED  BY <3>8 DEF R
  <2>4. Rows(P, T) \cap new = {}
    BY <2>2 DEF Rows
  <2>5. IsFiniteSet(I) /\ Cardinality(I) = n
    <3>1. m + 1 \in Int /\ m + n \in Int
      BY <1>1
    <3>2. IsFiniteSet(I) /\ Cardinality(I) = IF m + 1 > m + n THEN 0 ELSE (m + n) - (m + 1) + 1
      BY <3>1, FS_Interval
    <3>3. QED  BY <1>1, <3>2
  <2>6. IsFiniteSet(new) /\ Cardinality(new) = n
    <3>1. g \in Bijection(I, new)
      BY DEF Bijection, Injection, Surjection, IsInjective
    <3>2. ExistsBijection(I, new)
      BY <3>1 DEF ExistsBijection
    <3>3. QED  BY <2>5, <3>2, FS_Bijection
  <2>7. IsFiniteSet(Rows(P, T)) /\ Created(P, T) \in Nat
    BY CreatedGrows
  <2> HIDE DEF new
  <2>8. Cardinality(Rows(P, T) \cup new)
          = Cardinality(Rows(P, T)) + Cardinality(new) - Cardinality(Rows(P, T) \cap new)
    BY <2>6, <2>7, FS_Union
  <2>9. Cardinality(Rows(P, T) \cap new) = 0
    BY <2>4, FS_EmptySet
  <2>10. Cardinality(Rows(P, T)') = Cardinality(Rows(P, T)) + n
    BY <2>3, <2>6, <2>7, <2>8, <2>9 DEF Created
  <2>11. QED  BY <1>5, <2>10 DEF Created
<1>6. QED  BY <1>4, <1>5

\* No more than what was counted since an earlier time is in a window that ends later.
LEMMA WindowFits ==
    ASSUME TypeOK, NEW P \in SUBSET Paths, NEW length \in Nat, NEW t0 \in Times,
           NEW t \in Times, t0 <= t
    PROVE  /\ Created(P, (t - length)..t) \in Nat /\ Recent(P, t0, length) \in Nat
           /\ Created(P, (t - length)..t) <= Recent(P, t0, length)
<1>1. ((t - length)..t) \cap Times \subseteq (t0 - length)..MaxTime
  BY CapsAssumption DEF Times
<1>2. QED  BY <1>1, CreatedGrows DEF Recent

\* The counts are of the rows alone.
LEMMA SameRows ==
    ASSUME rows' = rows
    PROVE  /\ \A P, T : Created(P, T)' = Created(P, T)
           /\ \A p, n, t : OverPath(p, n, t)' = OverPath(p, n, t)
           /\ \A n, t : OverAccount(n, t)' = OverAccount(n, t)
<1>1. \A P, T : Created(P, T)' = Created(P, T)
  BY DEF Created, Rows
<1>2. \A P, t, l : Recent(P, t, l)' = Recent(P, t, l)
  BY DEF Recent, Created, Rows
<1>3. QED  BY <1>1, <1>2 DEF OverPath, OverAccount

\* Steps that insert nothing keep the caps.
LEMMA CapsAlone ==
    ASSUME CInv, rows' = rows
    PROVE  WithinPathCaps' /\ WithinAccountCaps'
BY SameRows DEF CInv, WithinPathCaps, WithinAccountCaps

\* A session that does not move keeps what it relies on while nobody inserts and the
\* clock does not go back.
LEMMA StandsStill ==
    ASSUME TypeOK, Standing, NEW s \in Sessions, rows' = rows, clock' \in Nat, clock <= clock',
           pc'[s] = pc[s], path'[s] = path[s], size'[s] = size[s], at'[s] = at[s],
           window'[s] = window[s],
           pathLock[path[s]] = s => pathLock'[path[s]] = s,
           accountLock = s => accountLock' = s
    PROVE  HoldsLocks(s)' /\ HasRoom(s)'
<1>1. HoldsLocks(s)'
  BY DEF Standing, HoldsLocks
<1>2. at[s] \in Nat /\ clock \in Nat
  BY CapsAssumption DEF TypeOK, Times
<1>3. at'[s] <= clock'
  BY <1>2 DEF Standing, HasRoom
<1>4. ASSUME PathRoom(s) PROVE PathRoom(s)'
  <2>1. PICK t \in Times : t <= clock /\ ~OverPath(path[s], size[s], t)
    BY <1>4 DEF PathRoom
  <2>2. t <= clock'
    BY <1>2, <2>1, CapsAssumption DEF Times
  <2>3. QED  BY <2>1, <2>2, SameRows DEF PathRoom
<1>5. ASSUME AccountRoom(s) PROVE AccountRoom(s)'
  <2>1. PICK t \in Times : t <= clock /\ OverAccount(size[s], t) = "none"
    BY <1>5 DEF AccountRoom
  <2>2. t <= clock'
    BY <1>2, <2>1, CapsAssumption DEF Times
  <2>3. QED  BY <2>1, <2>2, SameRows DEF AccountRoom
<1>6. QED  BY <1>1, <1>3, <1>4, <1>5 DEF Standing, HasRoom

\* What the other sessions keep of theirs when session s moves.
Others(s) ==
    \A t \in Sessions \ {s} :
        /\ pc'[t] = pc[t] /\ path'[t] = path[t] /\ size'[t] = size[t]
        /\ at'[t] = at[t] /\ window'[t] = window[t]
        /\ \A q \in Paths : pathLock[q] = t => pathLock'[q] = t
        /\ accountLock = t => accountLock' = t

\* A session moves without inserting.
LEMMA OneSteps ==
    ASSUME TypeOK, CInv, NEW s \in Sessions, rows' = rows, clock' = clock, Others(s),
           HoldsLocks(s)', HasRoom(s)'
    PROVE  CInv'
<1>1. clock' \in Nat /\ clock <= clock'
  BY CapsAssumption DEF TypeOK, Times
<1>2. ASSUME NEW t \in Sessions \ {s} PROVE HoldsLocks(t)' /\ HasRoom(t)'
  <2>1. path[t] \in Paths
    BY DEF TypeOK
  <2>2. QED  BY <1>1, <2>1, StandsStill DEF CInv, Others
<1>3. Standing'
  BY <1>2 DEF Standing
<1>4. QED  BY <1>3, CapsAlone DEF CInv

\* A session outside the locks relies on nothing but its clock.
LEMMA Outside ==
    ASSUME NEW s \in Sessions, at'[s] <= clock',
           pc'[s] \notin {"enforce", "freeze", "account", "insert"}
    PROVE  HoldsLocks(s)' /\ HasRoom(s)'
BY DEF HoldsLocks, HasRoom

\* A session that ends, with or without locks.
LEMMA RestSteps ==
    ASSUME TypeOK, CInv, NEW s \in Sessions, rows' = rows, clock' = clock, Rest(s),
           Unlock(s) \/ UNCHANGED Locks
    PROVE  CInv'
<1>1. Others(s)
  BY DEF Others, Rest, Goto, Unlock, Locks, TypeOK
<1>2. at'[s] <= clock' /\ pc'[s] = "idle"
  BY CapsAssumption DEF Rest, Goto, TypeOK, Times
<1>3. QED  BY <1>1, <1>2, Outside, OneSteps

\* Steps that take no lock (checkCaps, the freezes, the alerts).
LEMMA OutsideSteps ==
    ASSUME TypeOK, CInv, NEW s \in Sessions,
           \/ \E p \in Paths, n \in 1..MaxRecipients : Rcpt(s, p, n)
           \/ RcptFreezes(s) \/ RcptAudits(s) \/ Begin(s) \/ EnforceFreezes(s) \/ Alert(s)
           \/ RelayAnswers(s) \/ AlertAccountOnce(s) \/ Fails(s)
    PROVE  CInv'
<1>1. CASE Rest(s)
  BY <1>1, RestSteps DEF Rcpt, RcptFreezes, RcptAudits, Begin, EnforceFreezes, Alert,
     RelayAnswers, AlertAccountOnce, Fails, Goto
<1>2. CASE ~Rest(s)
  <2>1. rows' = rows /\ clock' = clock
    BY DEF Rcpt, RcptFreezes, RcptAudits, Begin, EnforceFreezes, Alert, RelayAnswers,
       AlertAccountOnce, Fails
  <2>2. Others(s)
    BY <1>2 DEF Rcpt, RcptFreezes, RcptAudits, Begin, EnforceFreezes, Alert, RelayAnswers,
       AlertAccountOnce, Fails, Goto, Unlock, Locks, Others, TypeOK
  <2>3. pc'[s] \in {"rcpt-freeze", "data", "rcpt-audit", "lock", "alert", "sending"}
    BY <1>2 DEF Rcpt, RcptFreezes, RcptAudits, Begin, EnforceFreezes, Alert, RelayAnswers,
       AlertAccountOnce, Fails, Goto, TypeOK
  <2>4. at'[s] = at[s] \/ at'[s] = clock
    BY <1>2 DEF Rcpt, RcptFreezes, RcptAudits, Begin, EnforceFreezes, Alert, RelayAnswers,
       AlertAccountOnce, Fails, TypeOK
  <2>5. at'[s] <= clock'
    BY <2>1, <2>4, CapsAssumption DEF CInv, Standing, HasRoom, TypeOK, Times
  <2>6. QED  BY <2>1, <2>2, <2>3, <2>5, Outside, OneSteps
<1>3. QED  BY <1>1, <1>2

\* The path's lock goes to one session.
LEMMA LockSteps ==
    ASSUME TypeOK, CInv, NEW s \in Sessions, Lock(s)
    PROVE  CInv'
<1>1. Others(s)
  BY CapsAssumption DEF Lock, Goto, Others, TypeOK
<1>2. pc'[s] = "enforce" /\ path' = path /\ at' = at /\ clock' = clock /\ rows' = rows
  BY DEF Lock, Goto, TypeOK
<1>3. pathLock'[path[s]] = s
  BY DEF Lock, TypeOK
<1>4. HoldsLocks(s)' /\ HasRoom(s)'
  BY <1>2, <1>3 DEF HoldsLocks, HasRoom, CInv, Standing
<1>5. QED  BY <1>1, <1>2, <1>4, OneSteps

\* A session that is let through has been counted within the caps of its path.
LEMMA EnforceSteps ==
    ASSUME TypeOK, CInv, NEW s \in Sessions, Enforce(s)
    PROVE  CInv'
<1>1. rows' = rows /\ clock' = clock
  BY DEF Enforce
<1>2. CASE Unlock(s) /\ Rest(s)
  BY <1>1, <1>2, RestSteps
<1>3. CASE ~(Unlock(s) /\ Rest(s))
  <2>1. /\ UNCHANGED <<pathLock, accountLock, path, size, window>>
        /\ at' = at \/ at' = [at EXCEPT ![s] = clock]
        /\ \/ Goto(s, "freeze")
           \/ Goto(s, "account") /\ ~OverPath(path[s], size[s], at[s])
    BY <1>3 DEF Enforce, Locks
  <2>2. Others(s)
    BY <2>1 DEF Goto, Others, TypeOK
  <2>3. pc'[s] = "freeze" \/ (pc'[s] = "account" /\ ~OverPath(path[s], size[s], at[s]))
    BY <2>1 DEF Goto, TypeOK
  <2>4. HoldsLocks(s)'
    BY <2>1, <2>3 DEF HoldsLocks, CInv, Standing, Enforce
  <2>5. at[s] \in Times /\ at[s] <= clock /\ at'[s] <= clock
    BY <2>1, CapsAssumption DEF TypeOK, Times, CInv, Standing, HasRoom
  <2>6. pc'[s] = "account" => PathRoom(s)'
    <3> SUFFICES ASSUME pc'[s] = "account" PROVE PathRoom(s)'
      OBVIOUS
    <3>1. ~OverPath(path[s], size[s], at[s])
      BY <2>3
    <3>2. \E t \in Times : t <= clock /\ ~OverPath(path[s], size[s], t)
      BY <2>5, <3>1
    <3>3. QED  BY <1>1, <2>1, <3>2, SameRows DEF PathRoom
  <2>7. HasRoom(s)'
    BY <1>1, <2>1, <2>3, <2>5, <2>6 DEF HasRoom
  <2>8. QED  BY <1>1, <2>2, <2>4, <2>7, OneSteps
<1>4. QED  BY <1>2, <1>3

\* A session that is to insert has been counted within the account's caps.
LEMMA LockAccountSteps ==
    ASSUME TypeOK, CInv, NEW s \in Sessions, LockAccount(s)
    PROVE  CInv'
<1>1. /\ rows' = rows /\ clock' = clock /\ UNCHANGED <<pathLock, path, size>>
      /\ pc[s] = "account" /\ accountLock' = s
  BY DEF LockAccount
<1>2. Others(s)
  BY CapsAssumption DEF LockAccount, Goto, Others, TypeOK
<1>3. pc'[s] = "insert" /\ at'[s] = 0 /\ window'[s] = OverAccount(size[s], at[s])
  BY DEF LockAccount, Goto, TypeOK
<1>4. HoldsLocks(s)'
  BY <1>1, <1>3 DEF HoldsLocks, CInv, Standing
<1>5. at[s] \in Times /\ at[s] <= clock /\ 0 <= clock
  BY CapsAssumption DEF TypeOK, Times, CInv, Standing, HasRoom
<1>6. PathRoom(s)'
  <2>1. \E t \in Times : t <= clock /\ ~OverPath(path[s], size[s], t)
    BY <1>1 DEF CInv, Standing, HasRoom, PathRoom
  <2>2. QED  BY <1>1, <2>1, SameRows DEF PathRoom
<1>7. window'[s] = "none" => AccountRoom(s)'
  <2> SUFFICES ASSUME window'[s] = "none" PROVE AccountRoom(s)'
    OBVIOUS
  <2>1. \E t \in Times : t <= clock /\ OverAccount(size[s], t) = "none"
    BY <1>3, <1>5
  <2>2. QED  BY <1>1, <2>1, SameRows DEF AccountRoom
<1>8. HasRoom(s)'
  BY <1>1, <1>3, <1>5, <1>6, <1>7 DEF HasRoom
<1>9. QED  BY <1>1, <1>2, <1>4, <1>8, OneSteps

\* What room means.
LEMMA RoomMeans ==
    ASSUME TypeOK, NEW t0 \in Times, NEW t \in Times, t0 <= t, NEW n \in Nat, NEW p \in Paths
    PROVE  /\ ~OverPath(p, n, t0) =>
                 /\ Created({p}, (t - Day)..t) + n <= DailyCap
                 /\ Created({p}, (t - Hour)..t) + n <= Smaller(HourlyCap, DailyCap)
           /\ OverAccount(n, t0) = "none" =>
                 /\ Created(Paths, (t - Day)..t) + n <= AccountDaily
                 /\ Created(Paths, (t - Hour)..t) + n <= Smaller(AccountHourly, AccountDaily)
<1> DEFINE Fits(P, l) ==
             /\ Created(P, (t - l)..t) \in Nat /\ Recent(P, t0, l) \in Nat
             /\ Created(P, (t - l)..t) <= Recent(P, t0, l)
<1>1. Day \in Nat /\ Hour \in Nat /\ DailyCap \in Nat /\ AccountDaily \in Nat
      /\ Smaller(HourlyCap, DailyCap) \in Nat /\ Smaller(AccountHourly, AccountDaily) \in Nat
  BY CapsAssumption DEF Smaller
<1>2. Fits({p}, Day) /\ Fits({p}, Hour)
  BY <1>1, WindowFits
<1>3. Fits(Paths, Day) /\ Fits(Paths, Hour)
  BY <1>1, WindowFits
<1>4. ASSUME ~OverPath(p, n, t0)
      PROVE  /\ Recent({p}, t0, Day) + n <= DailyCap
             /\ Recent({p}, t0, Hour) + n <= Smaller(HourlyCap, DailyCap)
  BY <1>1, <1>2, <1>4 DEF OverPath
<1>5. ASSUME OverAccount(n, t0) = "none"
      PROVE  /\ Recent(Paths, t0, Day) + n <= AccountDaily
             /\ Recent(Paths, t0, Hour) + n <= Smaller(AccountHourly, AccountDaily)
  BY <1>1, <1>3, <1>5 DEF OverAccount
<1>6. ASSUME NEW P, NEW l, NEW cap \in Nat, Fits(P, l), Recent(P, t0, l) + n <= cap
      PROVE  Created(P, (t - l)..t) + n <= cap
  BY <1>6
<1>7. ASSUME ~OverPath(p, n, t0)
      PROVE  /\ Created({p}, (t - Day)..t) + n <= DailyCap
             /\ Created({p}, (t - Hour)..t) + n <= Smaller(HourlyCap, DailyCap)
  <2> HIDE DEF Fits
  <2>1. QED  BY <1>1, <1>2, <1>4, <1>6, <1>7
<1>8. ASSUME OverAccount(n, t0) = "none"
      PROVE  /\ Created(Paths, (t - Day)..t) + n <= AccountDaily
             /\ Created(Paths, (t - Hour)..t) + n <= Smaller(AccountHourly, AccountDaily)
  <2> HIDE DEF Fits
  <2>1. QED  BY <1>1, <1>3, <1>5, <1>6, <1>8
<1>9. QED  BY <1>7, <1>8

\* The insertion: who inserts has both locks and the room that was counted.
LEMMA InsertSteps ==
    ASSUME TypeOK, CInv, NEW s \in Sessions, Insert(s)
    PROVE  CInv'
<1> DEFINE p == path[s]
           n == size[s]
<1>1. /\ pc[s] = "insert" /\ clock' = clock /\ Unlock(s)
      /\ pathLock[p] = s /\ accountLock = s
      /\ p \in Paths /\ n \in Nat /\ clock \in Times
  BY CapsAssumption DEF Insert, CInv, Standing, HoldsLocks, TypeOK
<1>2. Others(s)
  BY DEF Insert, Rest, Goto, Unlock, Others, TypeOK
<1>3. at'[s] <= clock' /\ pc'[s] \in {"idle", "account-alert"}
  BY CapsAssumption DEF Insert, Rest, Goto, TypeOK, Times
<1>4. CASE rows' = rows
  BY <1>1, <1>2, <1>3, <1>4, Outside, OneSteps
<1>5. CASE window[s] = "none" /\ rows' = [rows EXCEPT ![<<p, clock>>] = @ + n]
  <2>1. PICK t0 \in Times : t0 <= clock /\ ~OverPath(p, n, t0)
    BY <1>1 DEF CInv, Standing, HasRoom, PathRoom
  <2>2. PICK t1 \in Times : t1 <= clock /\ OverAccount(n, t1) = "none"
    BY <1>1, <1>5 DEF CInv, Standing, HasRoom, AccountRoom
  <2>3. ASSUME NEW P \in SUBSET Paths, NEW T
        PROVE  Created(P, T)' = Created(P, T) + (IF p \in P /\ clock \in T THEN n ELSE 0)
    <3>1. PICK pp \in Paths, cc \in Times, nn \in Nat : pp = p /\ cc = clock /\ nn = n
      BY <1>1
    <3>2. Adds(pp, cc, nn)
      BY <1>5, <3>1 DEF Adds
    <3>3. Created(P, T)' = Created(P, T) + (IF pp \in P /\ cc \in T THEN nn ELSE 0)
      BY <3>2, CreatedAdds
    <3>4. QED  BY <3>1, <3>3
  <2>4. \A P \in SUBSET Paths : \A T : Created(P, T) \in Nat
    BY CreatedGrows
  <2>5. \A t \in Times : \A l : clock \in (t - l)..t => t0 <= t /\ t1 <= t
    BY <1>1, <2>1, <2>2, CapsAssumption DEF Times
  <2>6. WithinPathCaps'
    <3> SUFFICES ASSUME NEW q \in Paths, NEW t \in Times
                 PROVE  /\ Created({q}, (t - Day)..t)' <= DailyCap
                        /\ Created({q}, (t - Hour)..t)' <= Smaller(HourlyCap, DailyCap)
      BY DEF WithinPathCaps
    <3>1. /\ Created({q}, (t - Day)..t) <= DailyCap
          /\ Created({q}, (t - Hour)..t) <= Smaller(HourlyCap, DailyCap)
      BY DEF CInv, WithinPathCaps
    <3>2. t0 <= t => /\ Created({p}, (t - Day)..t) + n <= DailyCap
                     /\ Created({p}, (t - Hour)..t) + n <= Smaller(HourlyCap, DailyCap)
      BY <1>1, <2>1, RoomMeans
    <3>3. /\ Created({q}, (t - Day)..t)' = Created({q}, (t - Day)..t)
               + (IF p = q /\ clock \in (t - Day)..t THEN n ELSE 0)
          /\ Created({q}, (t - Hour)..t)' = Created({q}, (t - Hour)..t)
               + (IF p = q /\ clock \in (t - Hour)..t THEN n ELSE 0)
      BY <2>3
    <3>4. Created({q}, (t - Day)..t) \in Nat /\ Created({q}, (t - Hour)..t) \in Nat
      BY <2>4
    <3>5. Created({q}, (t - Day)..t)' <= DailyCap
      <4>1. CASE p = q /\ clock \in (t - Day)..t
        BY <2>5, <3>2, <3>3, <4>1
      <4>2. CASE ~(p = q /\ clock \in (t - Day)..t)
        BY <3>1, <3>3, <3>4, <4>2
      <4>3. QED  BY <4>1, <4>2
    <3>6. Created({q}, (t - Hour)..t)' <= Smaller(HourlyCap, DailyCap)
      <4>1. CASE p = q /\ clock \in (t - Hour)..t
        BY <2>5, <3>2, <3>3, <4>1
      <4>2. CASE ~(p = q /\ clock \in (t - Hour)..t)
        BY <3>1, <3>3, <3>4, <4>2
      <4>3. QED  BY <4>1, <4>2
    <3>7. QED  BY <3>5, <3>6
  <2>7. WithinAccountCaps'
    <3> SUFFICES ASSUME NEW t \in Times
                 PROVE  /\ Created(Paths, (t - Day)..t)' <= AccountDaily
                        /\ Created(Paths, (t - Hour)..t)' <= Smaller(AccountHourly, AccountDaily)
      BY DEF WithinAccountCaps
    <3>1. /\ Created(Paths, (t - Day)..t) <= AccountDaily
          /\ Created(Paths, (t - Hour)..t) <= Smaller(AccountHourly, AccountDaily)
      BY DEF CInv, WithinAccountCaps
    <3>2. t1 <= t => /\ Created(Paths, (t - Day)..t) + n <= AccountDaily
                     /\ Created(Paths, (t - Hour)..t) + n <= Smaller(AccountHourly, AccountDaily)
      BY <1>1, <2>2, RoomMeans
    <3>3. /\ Created(Paths, (t - Day)..t)' = Created(Paths, (t - Day)..t)
               + (IF clock \in (t - Day)..t THEN n ELSE 0)
          /\ Created(Paths, (t - Hour)..t)' = Created(Paths, (t - Hour)..t)
               + (IF clock \in (t - Hour)..t THEN n ELSE 0)
      BY <1>1, <2>3
    <3>4. Created(Paths, (t - Day)..t) \in Nat /\ Created(Paths, (t - Hour)..t) \in Nat
      BY <2>4
    <3>5. Created(Paths, (t - Day)..t)' <= AccountDaily
      <4>1. CASE clock \in (t - Day)..t
        BY <2>5, <3>2, <3>3, <4>1
      <4>2. CASE clock \notin (t - Day)..t
        BY <3>1, <3>3, <3>4, <4>2
      <4>3. QED  BY <4>1, <4>2
    <3>6. Created(Paths, (t - Hour)..t)' <= Smaller(AccountHourly, AccountDaily)
      <4>1. CASE clock \in (t - Hour)..t
        BY <2>5, <3>2, <3>3, <4>1
      <4>2. CASE clock \notin (t - Hour)..t
        BY <3>1, <3>3, <3>4, <4>2
      <4>3. QED  BY <4>1, <4>2
    <3>7. QED  BY <3>5, <3>6
  <2>8. ASSUME NEW t \in Sessions \ {s} PROVE HoldsLocks(t)' /\ HasRoom(t)'
    <3>1. /\ pc'[t] = pc[t] /\ path'[t] = path[t] /\ size'[t] = size[t]
          /\ at'[t] = at[t] /\ window'[t] = window[t] /\ path[t] \in Paths
          /\ \A q \in Paths : pathLock[q] = t => pathLock'[q] = t
          /\ accountLock # t
      BY <1>1, <1>2 DEF Others, TypeOK
    <3>2. HoldsLocks(t) /\ HasRoom(t)
      BY DEF CInv, Standing
    <3>3. HoldsLocks(t)'
      BY <3>1, <3>2 DEF HoldsLocks
    <3>4. pc[t] # "insert"
      BY <3>1, <3>2 DEF HoldsLocks
    <3>5. pc[t] = "account" => PathRoom(t)'
      <4> SUFFICES ASSUME pc[t] = "account" PROVE PathRoom(t)'
        OBVIOUS
      <4>1. path[t] # p
        BY <1>1, <3>2 DEF HoldsLocks
      <4>2. PICK u \in Times : u <= clock /\ ~OverPath(path[t], size[t], u)
        BY <3>2 DEF HasRoom, PathRoom
      <4>3. \A l : Recent({path[t]}, u, l)' = Recent({path[t]}, u, l)
        <5> SUFFICES ASSUME NEW l PROVE Recent({path[t]}, u, l)' = Recent({path[t]}, u, l)
          OBVIOUS
        <5> DEFINE T == (u - l)..MaxTime
                   o == path[t]
        <5>1. o \in Paths /\ o # p /\ path'[t] = o
          BY <3>1, <4>1
        <5>2. Created({o}, T) \in Nat
          BY <2>4, <5>1
        <5> HIDE DEF T
        <5>3. ASSUME NEW q \in Paths, q # p PROVE Created({q}, T)' = Created({q}, T)
          <6>1. Created({q}, T)' = Created({q}, T) + (IF p \in {q} /\ clock \in T THEN n ELSE 0)
            BY <2>3
          <6>2. Created({q}, T) \in Nat /\ p \notin {q}
            BY <2>4, <5>3
          <6>3. QED  BY <6>1, <6>2
        <5>4. QED  BY <5>1, <5>3 DEF Recent, T
      <4>4. QED  BY <1>1, <3>1, <4>2, <4>3 DEF PathRoom, OverPath
    <3>6. HasRoom(t)'
      BY <1>1, <3>1, <3>2, <3>4, <3>5 DEF HasRoom
    <3>7. QED  BY <3>3, <3>6
  <2>9. HoldsLocks(s)' /\ HasRoom(s)'
    BY <1>3, Outside
  <2>10. QED  BY <2>6, <2>7, <2>8, <2>9 DEF CInv, Standing
<1>6. QED  BY <1>4, <1>5 DEF Insert

\* Every step keeps the caps.
LEMMA CapsStep ==
    ASSUME TypeOK, TypeOK', CInv, [Next]_vars
    PROVE  CInv'
<1>1. CASE Tick \/ (\E p \in Passwords : Thaw(p)) \/ UNCHANGED vars
  <2>1. /\ UNCHANGED <<rows, pathLock, accountLock, pc, path, size, at, window>>
        /\ clock' = clock \/ clock' = clock + 1
    BY <1>1 DEF Tick, Thaw, vars, Locks, session
  <2>2. clock' \in Nat /\ clock <= clock'
    BY <2>1, CapsAssumption DEF TypeOK, Times
  <2>3. Standing'
    BY <2>1, <2>2, StandsStill DEF CInv, Standing
  <2>4. QED  BY <2>1, <2>3, CapsAlone DEF CInv
<1>2. ASSUME NEW s \in Sessions,
             \/ \E p \in Paths, n \in 1..MaxRecipients : Rcpt(s, p, n)
             \/ Step(s) \/ Fails(s)
      PROVE  CInv'
  BY <1>2, OutsideSteps, LockSteps, EnforceSteps, LockAccountSteps, InsertSteps DEF Step
<1>3. QED  BY <1>1, <1>2 DEF Next

\* The caps are never exceeded.
LEMMA CapsAlways == Spec => []CInv
<1>1. ASSUME Init, TypeOK PROVE CInv
  <2>1. Standing
    BY <1>1, CapsAssumption DEF Init, Standing, HoldsLocks, HasRoom
  <2>2. \A P \in SUBSET Paths : \A T : Created(P, T) = 0
    <3> SUFFICES ASSUME NEW P \in SUBSET Paths, NEW T PROVE Created(P, T) = 0
      OBVIOUS
    <3>1. \A x \in P \X (T \cap Times) : 1..rows[x] = {}
      BY <1>1 DEF Init
    <3>2. Rows(P, T) = {}
      BY <3>1 DEF Rows
    <3>3. QED  BY <3>2, FS_EmptySet DEF Created
  <2>3. WithinPathCaps /\ WithinAccountCaps
    BY <2>2, CapsAssumption DEF WithinPathCaps, WithinAccountCaps, Smaller
  <2>4. QED  BY <2>1, <2>3 DEF CInv
<1>2. TypeOK /\ TypeOK' /\ CInv /\ [Next]_vars => CInv'
  BY CapsStep
<1>3. QED  BY <1>1, <1>2, TypeCorrect, PTL DEF Spec

\* The recipients accepted from a path in any hour and any day are within its caps, for
\* any sessions that overlap, and however late they read the clock (enforceCaps under the
\* path's lock).
THEOREM PathCapsSafe == Spec => []WithinPathCaps
<1>1. CInv => WithinPathCaps
  BY DEF CInv
<1>2. QED  BY <1>1, CapsAlways, PTL

\* The same of the account across all its paths (enforceAccountCap under its lock).
THEOREM AccountCapsSafe == Spec => []WithinAccountCaps
<1>1. CInv => WithinAccountCaps
  BY DEF CInv
<1>2. QED  BY <1>1, CapsAlways, PTL

=============================================================================
