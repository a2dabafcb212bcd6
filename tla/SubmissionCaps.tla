--------------------------- MODULE SubmissionCaps ---------------------------
(***************************************************************************)
(* The recipient caps of one account (apps/submission/src/caps and         *)
(* accept.ts): sessions of its app passwords and of the webmail submit at  *)
(* once; the RCPT-time look freezes a password that goes over, and the     *)
(* accepting transaction recounts under two advisory locks, the path's and *)
(* then the account's.                                                     *)
(*                                                                         *)
(* Time is a count of ticks: an hour is Hour of them, a day Day.  A        *)
(* session reads the clock before it waits for each of its locks, as the   *)
(* code does; a row is created at the time of its insertion.  The          *)
(* message's headers, keys, spool and suppressed recipients are refused    *)
(* before any of this and left out.                                        *)
(*                                                                         *)
(* A mail to the operator (packages/alerts) is not sent when one with its  *)
(* key went out less than an hour before, or when the relay fails or is    *)
(* not configured; the caller only logs that.  The mails about frozen      *)
(* passwords are modelled.  Of the account's cap the marker row is, which  *)
(* comes before the mail and stays whatever becomes of it.                 *)
(***************************************************************************)
EXTENDS Integers, FiniteSets

CONSTANTS
    Passwords,      \* app passwords of the account
    Webmail,        \* its other path (no freeze; counted by account)
    Sessions,
    NoOne,
    HourlyCap, DailyCap,    \* of each path: capsFor
    AccountHourly, AccountDaily,
    Hour, Day,
    MaxRecipients,  \* bound on a message's recipients
    MaxTime,        \* bound on the clock
    MaxThaws,       \* bound on the operator's thaws
    MaxFaults       \* bound on lost connections, crashes and failures of the relay

Paths == Passwords \cup {Webmail}
Times == 0..MaxTime

\* No mail yet, as long ago as makes no difference.
Never == 0 - Hour

ASSUME CapsAssumption ==
    /\ Webmail \notin Passwords /\ NoOne \notin Sessions
    /\ IsFiniteSet(Sessions) /\ IsFiniteSet(Passwords)
    /\ {HourlyCap, DailyCap, AccountHourly, AccountDaily} \subseteq Nat
    /\ Hour \in Nat \ {0} /\ Day \in Nat /\ Hour <= Day
    /\ {MaxRecipients, MaxTime, MaxThaws, MaxFaults} \subseteq Nat

VARIABLES
    clock,
    rows,       \* outbound_recipient rows: path and createdAt -> how many
    frozen,     \* the passwords with a frozenAt
    frozenAt,   \* its value, 0 without one
    lastSent,   \* when the process last mailed about each password
    markers,    \* account.outbound_cap_reached rows: <<window, at, number>>
    pathLock, accountLock,
    pc,
    path,       \* of the session
    size,       \* recipients of its message
    at,         \* its reading of the clock
    window,     \* which account cap it has met
    \* not in the code
    unaudited, unalerted,       \* freezes of each password still to be told of
    told,       \* the latest time a mail about each password went out
    thaws, faults

session == <<pc, path, size, at, window>>
counts == <<unaudited, unalerted, frozenAt, lastSent, told>>
vars == <<clock, rows, frozen, markers, pathLock, accountLock, session, counts, thaws, faults>>

Init ==
    /\ clock = 0
    /\ rows = [x \in Paths \X Times |-> 0]
    /\ frozen = {} /\ markers = {}
    /\ pathLock = [p \in Paths |-> NoOne] /\ accountLock = NoOne
    /\ pc = [s \in Sessions |-> "idle"]
    /\ path = [s \in Sessions |-> Webmail]
    /\ size = [s \in Sessions |-> 0]
    /\ at = [s \in Sessions |-> 0]
    /\ window = [s \in Sessions |-> "none"]
    /\ unaudited = [p \in Passwords |-> 0] /\ unalerted = [p \in Passwords |-> 0]
    /\ frozenAt = [p \in Passwords |-> 0]
    /\ lastSent = [p \in Passwords |-> Never] /\ told = [p \in Passwords |-> Never]
    /\ thaws = 0 /\ faults = 0

-----------------------------------------------------------------------------
\* Counting.

\* The rows of the paths P created in the times T, and how many they are.
Rows(P, T) == UNION {{<<x, k>> : k \in 1..rows[x]} : x \in P \X (T \cap Times)}
Created(P, T) == Cardinality(Rows(P, T))

\* recentRecipientCount and accountRecipientCount: since the start of the window.
Recent(P, now, length) == Created(P, (now - length)..MaxTime)

Smaller(m, n) == IF m <= n THEN m ELSE n

\* Do n more recipients of path p go over its caps?
OverPath(p, n, now) ==
    \/ Recent({p}, now, Day) + n > DailyCap
    \/ Recent({p}, now, Hour) + n > Smaller(HourlyCap, DailyCap)

\* The account's window they go over, the daily one first.
OverAccount(n, now) ==
    CASE Recent(Paths, now, Day) + n > AccountDaily -> "daily"
      [] Recent(Paths, now, Day) + n <= AccountDaily
         /\ Recent(Paths, now, Hour) + n > Smaller(AccountHourly, AccountDaily) -> "hourly"
      [] OTHER -> "none"

-----------------------------------------------------------------------------
Goto(s, place) == pc' = [pc EXCEPT ![s] = place]

Rest(s) ==
    /\ Goto(s, "idle")
    /\ path' = [path EXCEPT ![s] = Webmail]
    /\ size' = [size EXCEPT ![s] = 0]
    /\ at' = [at EXCEPT ![s] = 0]
    /\ window' = [window EXCEPT ![s] = "none"]

Unlock(s) ==
    /\ pathLock' = [p \in Paths |-> IF pathLock[p] = s THEN NoOne ELSE pathLock[p]]
    /\ accountLock' = IF accountLock = s THEN NoOne ELSE accountLock

Locks == <<pathLock, accountLock>>

\* MAIL and the last RCPT of a message of n recipients: checkCaps, without a lock.
\* The webmail goes straight to acceptSubmission.
Rcpt(s, p, n) ==
    /\ pc[s] = "idle"
    /\ path' = [path EXCEPT ![s] = p]
    /\ size' = [size EXCEPT ![s] = n]
    /\ \/ /\ p \in Passwords \ frozen /\ OverPath(p, n, clock)
          /\ at' = [at EXCEPT ![s] = clock]
          /\ Goto(s, "rcpt-freeze")
       \/ /\ p \notin frozen /\ (p = Webmail \/ ~OverPath(p, n, clock))
          /\ Goto(s, "data") /\ UNCHANGED at
    /\ UNCHANGED <<clock, rows, frozen, markers, Locks, window, counts, thaws, faults>>

\* Seeded fault of Freeze: the update is not conditional.
FreezeAgain(s) ==
    /\ frozen' = frozen \cup {path[s]}
    /\ frozenAt' = [frozenAt EXCEPT ![path[s]] = at[s]]
    /\ unalerted' = [unalerted EXCEPT ![path[s]] = IF path[s] \in frozen THEN @ ELSE @ + 1]

\* freezeAndAudit's update, conditional on frozenAt: only one of those who race is
\* the one that froze.
Freeze(s) ==
    /\ path[s] \notin frozen
    /\ frozen' = frozen \cup {path[s]}
    /\ frozenAt' = [frozenAt EXCEPT ![path[s]] = at[s]]
    /\ unalerted' = [unalerted EXCEPT ![path[s]] = @ + 1]

\* checkCaps runs it outside a transaction: the audit row is a statement of its own.
RcptFreezes(s) ==
    /\ pc[s] = "rcpt-freeze"
    /\ \/ /\ Freeze(s)
          /\ unaudited' = [unaudited EXCEPT ![path[s]] = @ + 1]
          /\ Goto(s, "rcpt-audit") /\ UNCHANGED <<lastSent, told, path, size, at, window>>
       \/ path[s] \in frozen /\ Rest(s) /\ UNCHANGED <<frozen, counts>>
    /\ UNCHANGED <<clock, rows, markers, Locks, thaws, faults>>

RcptAudits(s) ==
    /\ pc[s] = "rcpt-audit"
    /\ unaudited' = [unaudited EXCEPT ![path[s]] = @ - 1]
    /\ Goto(s, "alert")
    /\ UNCHANGED <<clock, rows, frozen, markers, Locks, path, size, at, window, unalerted,
                   frozenAt, lastSent, told, thaws, faults>>

-----------------------------------------------------------------------------
\* acceptSubmission's transaction.

\* DATA: the session reads the clock and asks for its path's lock.
Begin(s) ==
    /\ pc[s] = "data"
    /\ at' = [at EXCEPT ![s] = clock]
    /\ Goto(s, "lock")
    /\ UNCHANGED <<clock, rows, frozen, markers, Locks, path, size, window, counts, thaws, faults>>

\* Seeded fault of Lock: no lock is taken.
LockNothing(s) ==
    /\ pc[s] = "lock"
    /\ Goto(s, "enforce")
    /\ UNCHANGED <<clock, rows, frozen, markers, Locks, path, size, at, window, counts,
                   thaws, faults>>

Lock(s) ==
    /\ pc[s] = "lock"
    /\ pathLock[path[s]] = NoOne
    /\ pathLock' = [pathLock EXCEPT ![path[s]] = s]
    /\ Goto(s, "enforce")
    /\ UNCHANGED <<clock, rows, frozen, markers, accountLock, path, size, at, window, counts,
                   thaws, faults>>

\* enforceCaps, and the webmail's: a frozen password and, for the webmail, one over
\* the caps are refused; the password that goes over is to be frozen.  Who passes reads
\* the clock again, for the account's cap.
Enforce(s) ==
    LET over == OverPath(path[s], size[s], at[s]) IN
    /\ pc[s] = "enforce"
    /\ \/ /\ path[s] \in frozen \/ (path[s] = Webmail /\ over)
          /\ Unlock(s) /\ Rest(s)
       \/ /\ path[s] \in Passwords \ frozen /\ over
          /\ Goto(s, "freeze") /\ UNCHANGED <<Locks, path, size, at, window>>
       \/ /\ path[s] \notin frozen /\ ~over
          /\ at' = [at EXCEPT ![s] = clock]
          /\ Goto(s, "account") /\ UNCHANGED <<Locks, path, size, window>>
    /\ UNCHANGED <<clock, rows, frozen, markers, counts, thaws, faults>>

\* The freeze and its audit row, in a transaction on another connection, and then
\* the roll back of this one; the alert comes after it.
EnforceFreezes(s) ==
    /\ pc[s] = "freeze"
    /\ \/ /\ Freeze(s)
          /\ Goto(s, "alert") /\ UNCHANGED <<path, size, at, window>>
       \/ path[s] \in frozen /\ Rest(s) /\ UNCHANGED <<frozen, frozenAt, unalerted>>
    /\ Unlock(s)
    /\ UNCHANGED <<clock, rows, markers, unaudited, lastSent, told, thaws, faults>>

\* Seeded fault of Deduped: one mail too few at the end of the hour.
DedupedFullHour(p) == clock - lastSent[p] <= Hour

\* sendAlert's look at the key: a mail about this password went out within the hour.
Deduped(p) == clock - lastSent[p] < Hour

\* The alert, holding no lock: not sent within an hour of the last, or on its way to the
\* relay.
Alert(s) ==
    /\ pc[s] = "alert"
    /\ unalerted' = [unalerted EXCEPT ![path[s]] = @ - 1]
    /\ \/ Deduped(path[s]) /\ Rest(s)
       \/ /\ ~Deduped(path[s])
          /\ at' = [at EXCEPT ![s] = clock]
          /\ Goto(s, "sending") /\ UNCHANGED <<path, size, window>>
    /\ UNCHANGED <<clock, rows, frozen, markers, Locks, unaudited, frozenAt, lastSent, told,
                   thaws, faults>>

\* The relay answers: the mail has gone; or it has not, which is only logged.
RelayAnswers(s) ==
    /\ pc[s] = "sending"
    /\ \/ /\ lastSent' = [lastSent EXCEPT ![path[s]] = at[s]]
          /\ told' = [told EXCEPT ![path[s]] = IF at[s] > @ THEN at[s] ELSE @]
          /\ UNCHANGED faults
       \/ /\ faults < MaxFaults /\ faults' = faults + 1
          /\ UNCHANGED <<lastSent, told>>
    /\ Rest(s)
    /\ UNCHANGED <<clock, rows, frozen, markers, Locks, unaudited, unalerted, frozenAt, thaws>>

\* Seeded fault of LockAccount: the account's rows are counted without its lock.
LockAccountNot(s) ==
    /\ pc[s] = "account"
    /\ Goto(s, "insert")
    /\ window' = [window EXCEPT ![s] = OverAccount(size[s], at[s])]
    /\ at' = [at EXCEPT ![s] = 0]
    /\ UNCHANGED <<clock, rows, frozen, markers, Locks, path, size, counts, thaws, faults>>

\* enforceAccountCap: its lock, after the path's.
LockAccount(s) ==
    /\ pc[s] = "account"
    /\ accountLock = NoOne
    /\ accountLock' = s
    /\ Goto(s, "insert")
    /\ window' = [window EXCEPT ![s] = OverAccount(size[s], at[s])]
    /\ at' = [at EXCEPT ![s] = 0]
    /\ UNCHANGED <<clock, rows, frozen, markers, pathLock, path, size, counts, thaws, faults>>

\* enqueueOutbound and the commit; or the refusal, whose alert follows the roll back.
Insert(s) ==
    /\ pc[s] = "insert"
    /\ \/ /\ window[s] = "none"
          /\ rows' = [rows EXCEPT ![<<path[s], clock>>] = @ + size[s]]
          /\ Rest(s)
       \/ /\ window[s] # "none"
          /\ at' = [at EXCEPT ![s] = clock]
          /\ Goto(s, "account-alert")
          /\ UNCHANGED <<rows, path, size, window>>
    /\ Unlock(s)
    /\ UNCHANGED <<clock, frozen, markers, counts, thaws, faults>>

\* The length of an account window.
Length(w) == IF w = "daily" THEN Day ELSE Hour

\* Is a marker live at time t that keeps a refusal by window w quiet?
Quiet(w, t) == \E m \in markers : (w = "hourly" \/ m[1] = "daily") /\ m[2] + Length(m[1]) > t

\* One more marker row; the rows are numbered.
Mark(s) == markers \cup {<<window[s], at[s], Cardinality(markers) + 1>>}

\* Seeded fault of AlertAccountOnce: the markers are not looked at.
AlertAccountEachTime(s) ==
    /\ pc[s] = "account-alert"
    /\ markers' = Mark(s)
    /\ Rest(s)
    /\ UNCHANGED <<clock, rows, frozen, Locks, counts, thaws, faults>>

\* alertAccountCapOnce: the marker, under a lock of its own.
AlertAccountOnce(s) ==
    /\ pc[s] = "account-alert"
    /\ markers' = IF Quiet(window[s], at[s]) THEN markers ELSE Mark(s)
    /\ Rest(s)
    /\ UNCHANGED <<clock, rows, frozen, Locks, counts, thaws, faults>>

-----------------------------------------------------------------------------
\* The operator, time and failures.

\* thawCredential (what it puts back in line is the module Outbound's).
Thaw(p) ==
    /\ thaws < MaxThaws /\ thaws' = thaws + 1
    /\ p \in frozen
    /\ frozen' = frozen \ {p}
    /\ frozenAt' = [frozenAt EXCEPT ![p] = 0]
    /\ UNCHANGED <<clock, rows, markers, Locks, session, unaudited, unalerted, lastSent, told,
                   faults>>

Tick ==
    /\ clock < MaxTime
    /\ clock' = clock + 1
    /\ UNCHANGED <<rows, frozen, markers, Locks, session, counts, thaws, faults>>

\* An exception or a crash; the freeze's own transaction may find no connection
\* while those who wait for the lock hold them all.  A crash forgets the mails sent.
Fails(s) ==
    /\ pc[s] # "idle"
    /\ faults < MaxFaults /\ faults' = faults + 1
    /\ lastSent' \in {lastSent, [p \in Passwords |-> Never]}
    /\ Unlock(s) /\ Rest(s)
    /\ UNCHANGED <<clock, rows, frozen, markers, unaudited, unalerted, frozenAt, told, thaws>>

-----------------------------------------------------------------------------
Step(s) ==
    \/ RcptFreezes(s) \/ RcptAudits(s) \/ Begin(s) \/ Lock(s) \/ Enforce(s) \/ EnforceFreezes(s)
    \/ Alert(s) \/ RelayAnswers(s) \/ LockAccount(s) \/ Insert(s) \/ AlertAccountOnce(s)

Next ==
    \/ \E s \in Sessions :
          \/ \E p \in Paths, n \in 1..MaxRecipients : Rcpt(s, p, n)
          \/ Step(s)
          \/ Fails(s)
    \/ \E p \in Passwords : Thaw(p)
    \/ Tick

Spec == Init /\ [][Next]_vars

-----------------------------------------------------------------------------
Places == {"idle", "rcpt-freeze", "rcpt-audit", "data", "lock", "enforce", "freeze", "alert",
           "sending", "account", "insert", "account-alert"}

\* The variables have their types; only passwords are frozen, and who is about to tell
\* of the account's cap has met one.
TypeOK ==
    /\ clock \in Times
    /\ rows \in [Paths \X Times -> Nat]
    /\ frozen \subseteq Passwords
    /\ markers \subseteq {"hourly", "daily"} \X Times \X Nat /\ IsFiniteSet(markers)
    /\ pathLock \in [Paths -> Sessions \cup {NoOne}]
    /\ accountLock \in Sessions \cup {NoOne}
    /\ pc \in [Sessions -> Places]
    /\ path \in [Sessions -> Paths]
    /\ size \in [Sessions -> 0..MaxRecipients]
    /\ at \in [Sessions -> Times]
    /\ window \in [Sessions -> {"none", "hourly", "daily"}]
    /\ unaudited \in [Passwords -> Int] /\ unalerted \in [Passwords -> Int]
    /\ frozenAt \in [Passwords -> Times]
    /\ lastSent \in [Passwords -> Times \cup {Never}]
    /\ told \in [Passwords -> Times \cup {Never}]
    /\ thaws \in Nat /\ faults \in Nat
    /\ \A s \in Sessions :
          /\ pc[s] \in {"rcpt-freeze", "rcpt-audit", "freeze", "alert", "sending"}
                => path[s] \in Passwords
          /\ pc[s] = "account-alert" => window[s] # "none"

\* However sessions overlap and however late they read the clock, the recipients
\* accepted from a path in any hour and in any day are within its caps.
WithinPathCaps ==
    \A p \in Paths, t \in Times :
        /\ Created({p}, (t - Day)..t) <= DailyCap
        /\ Created({p}, (t - Hour)..t) <= Smaller(HourlyCap, DailyCap)

\* The same for the account across all its paths, whose own locks do not exclude
\* each other.
WithinAccountCaps ==
    \A t \in Times :
        /\ Created(Paths, (t - Day)..t) <= AccountDaily
        /\ Created(Paths, (t - Hour)..t) <= Smaller(AccountHourly, AccountDaily)

\* Those who find the password frozen by another say nothing; only a crash leaves a
\* freeze without its audit row or an attempt at its alert; and while no fault has
\* happened, the relay's failures included, a password that is frozen, its alert over,
\* is one the operator was mailed about less than an hour before it was frozen, or
\* since. The second of two freezes within an hour has no mail of its own.
FreezesToldOnce ==
    \A p \in Passwords :
        /\ 0 <= unaudited[p] /\ unaudited[p] <= unalerted[p]
        /\ unalerted[p] <= faults + Cardinality({s \in Sessions :
                                path[s] = p /\ pc[s] \in {"rcpt-audit", "alert"}})
        /\ \/ p \notin frozen \/ faults > 0
           \/ told[p] + Hour > frozenAt[p]
           \/ \E s \in Sessions :
                 path[s] = p /\ pc[s] \in {"rcpt-audit", "alert", "sending"}

\* Two markers of one window are a window apart, whichever daemons refuse at once and
\* in whatever order they come to tell (of the mail that follows a marker this says
\* nothing).
MarkedOncePerWindow ==
    \A m, o \in markers :
        m # o /\ m[1] = o[1] =>
            m[2] + Length(m[1]) <= o[2] \/ o[2] + Length(o[1]) <= m[2]

\* What happens once is said once: of each freeze of a password the audit row and the
\* alert, unless one went out within the hour, and of the account's cap one marker in
\* each window.
ToldOnce == FreezesToldOnce /\ MarkedOncePerWindow

=============================================================================
