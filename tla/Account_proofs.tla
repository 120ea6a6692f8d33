---------------------------- MODULE Account_proofs -----------------------------
(***************************************************************************)
(* Proofs about Account, for every set of requests, limit, lockout and     *)
(* bound: the types, the counter of failed attempts, what a commit of a    *)
(* stale copy can do to a lock and to an administrator's role, and what    *)
(* has happened once a webhook is acknowledged.                            *)
(*                                                                         *)
(* The invariant IInv says of the copies the requests hold what is to be   *)
(* shown of the row itself: their counters are below the limit too, and a  *)
(* login or a webhook that loaded an administrator is not about to demote  *)
(* it, and a login has loaded no lock that had not run out.                *)
(***************************************************************************)
EXTENDS Account, TLAPS

BelowRow == {row \in Row : row.attempts < MaxAttempts}
BelowJob == [pc : {"idle", "verify", "commit"}, at : Nat, old : BelowRow, new : BelowRow]
BelowHook == [pc : {"idle", "commit", "count", "respond"}, msg : Nat,
              status : StripeStatus \cup {"free"}, old : BelowRow, new : BelowRow]

\* Every copy is below the limit.
Below ==
  /\ user \in BelowRow
  /\ job \in [Jobs -> BelowJob]
  /\ hook \in BelowHook

\* The rest of TypeOK.
Typed ==
  /\ now \in Nat
  /\ sub \in [status : StripeStatus \cup {"free"}, trialEnd : Nat]
  /\ stripe \in StripeStatus \cup {"none"}
  /\ sent \in Seq(Message)
  /\ pending \in SUBSET Nat
  /\ counted \in SUBSET Nat
  /\ crashes \in Nat

\* A login or a webhook writes back an administrator as an administrator, a login
\* has loaded no lock but one that had run out, a change of password does not touch
\* the role and a webhook not the lock.
Keeps(c) == c.pc = "commit" /\ c.old.role = "admin" => c.new.role = "admin"
Honest(p, j) == /\ p \in Logins => Keeps(j) /\ j.old.lockedUntil <= j.at
                /\ p \in Changers => j.new.role = j.old.role
Harmless ==
  /\ \A p \in Jobs : Honest(p, job[p])
  /\ Keeps(hook)
  /\ hook.new.lockedUntil = hook.old.lockedUntil

IInv == Below /\ Typed /\ Harmless

-------------------------------------------------------------------------------
\* A fresh row is below the limit, whatever its role (create_user).
LEMMA NewRowBelow == ASSUME NEW r \in Roles PROVE NewRow(r) \in BelowRow
BY SettingsAssumption DEF NewRow, BelowRow, Row, Roles

\* Nothing that idles holds a copy above the limit.
LEMMA IdleBelow == Idle \in BelowJob /\ NoHook \in BelowHook
<1>1. NewRow("trial_user") \in BelowRow
  BY NewRowBelow DEF Roles
<1> QED
  BY <1>1 DEF Idle, NoHook, BelowJob, BelowHook

\* Setting the counter and the lock gives a row again.
LEMMA RowExcept ==
  ASSUME NEW row \in Row, NEW n \in Nat, NEW t \in Nat
  PROVE /\ [row EXCEPT !.attempts = n, !.lockedUntil = t] \in Row
        /\ [row EXCEPT !.attempts = n, !.lockedUntil = t].attempts = n
BY DEF Row

\* Counting a failed attempt stays below the limit (authenticate_user).
LEMMA CountBelow ==
  ASSUME NEW row \in BelowRow, NEW at \in Nat PROVE Count(row, at) \in BelowRow
<1>1. CASE row.attempts + 1 >= MaxAttempts
  <2>1. Count(row, at) = [row EXCEPT !.attempts = 0, !.lockedUntil = at + Lockout]
    BY <1>1 DEF Count
  <2>2. at + Lockout \in Nat /\ 0 < MaxAttempts /\ row \in Row
    BY SettingsAssumption DEF BelowRow
  <2> DEFINE new == [row EXCEPT !.attempts = 0, !.lockedUntil = at + Lockout]
  <2>3. new \in Row /\ new.attempts = 0
    BY <2>2, RowExcept, 0 \in Nat
  <2> QED
    BY <2>1, <2>2, <2>3 DEF BelowRow
<1>2. CASE ~(row.attempts + 1 >= MaxAttempts)
  <2>1. Count(row, at) = [row EXCEPT !.attempts = row.attempts + 1]
    BY <1>2 DEF Count
  <2>2. row \in Row /\ row.attempts + 1 \in Nat /\ row.attempts + 1 < MaxAttempts
    BY <1>2, SettingsAssumption DEF BelowRow, Row
  <2> QED
    BY <2>1, <2>2 DEF BelowRow, Row
<1> QED
  BY <1>1, <1>2

\* Counting a failed attempt sets a lock or leaves it.
LEMMA CountLocks ==
  ASSUME NEW row \in BelowRow, NEW at \in Nat
  PROVE Count(row, at).lockedUntil = row.lockedUntil \/ Count(row, at).lockedUntil # 0
BY SettingsAssumption DEF Count, BelowRow, Row

\* Counting a failed attempt leaves the role.
LEMMA CountKeepsRole ==
  ASSUME NEW row \in BelowRow, NEW at \in Nat PROVE Count(row, at).role = row.role
BY DEF Count, BelowRow, Row

LEMMA UnlockedBelow == ASSUME NEW row \in BelowRow PROVE Unlocked(row) \in BelowRow
<1>1. row \in Row /\ 0 < MaxAttempts
  BY SettingsAssumption DEF BelowRow
<1>2. Unlocked(row) = [row EXCEPT !.attempts = 0, !.lockedUntil = 0]
  BY DEF Unlocked
<1> DEFINE new == [row EXCEPT !.attempts = 0, !.lockedUntil = 0]
<1>3. new \in Row /\ new.attempts = 0
  <2>1. 0 \in Nat
    OBVIOUS
  <2> QED
    BY <1>1, <2>1, RowExcept
<1> HIDE DEF new
<1> QED
  BY <1>1, <1>2, <1>3 DEF BelowRow, new

LEMMA UnlockedKeepsRole ==
  ASSUME NEW row \in BelowRow PROVE Unlocked(row).role = row.role
BY DEF Unlocked, BelowRow, Row

\* Syncing the role changes nothing else, and not an administrator
\* (sync_role_with_subscription).
LEMMA SyncedKeeps ==
  ASSUME NEW row \in BelowRow, NEW status
  PROVE /\ Synced(row, status) \in BelowRow
        /\ Synced(row, status).lockedUntil = row.lockedUntil
        /\ row.role = "admin" => Synced(row, status).role = "admin"
<1>1. CASE row.role = "admin"
  BY <1>1 DEF Synced
<1>2. CASE row.role # "admin"
  <2> DEFINE r == IF PaidAccess(row, status) THEN "subscriber" ELSE "trial_user"
  <2>1. Synced(row, status) = [row EXCEPT !.role = r]
    BY <1>2 DEF Synced
  <2>2. r \in Roles
    BY DEF Roles
  <2> HIDE DEF r
  <2> QED
    BY <1>2, <2>1, <2>2 DEF BelowRow, Row
<1> QED
  BY <1>1, <1>2

\* Writing some columns of one row below the limit over another is below it.
LEMMA FlushBelow ==
  ASSUME user \in BelowRow, NEW old \in BelowRow, NEW new \in BelowRow
  PROVE Flush(old, new) \in BelowRow
<1>1. /\ Column(old.role, new.role, user.role) \in Roles
      /\ Column(old.active, new.active, user.active) \in BOOLEAN
      /\ Column(old.attempts, new.attempts, user.attempts) \in Nat
      /\ Column(old.attempts, new.attempts, user.attempts) < MaxAttempts
      /\ Column(old.lockedUntil, new.lockedUntil, user.lockedUntil) \in Nat
  BY DEF Column, BelowRow, Row
<1> QED
  BY <1>1 DEF Flush, BelowRow, Row

-------------------------------------------------------------------------------
\* Sending leaves all but Stripe's variables alone.
LEMMA SendKeeps ==
  ASSUME IInv, NEW messages \in Seq(Message), Send(messages), stripe' \in StripeStatus
  PROVE IInv'
<1>1. Typed'
  <2>1. sent' \in Seq(Message)
    BY DEF Send, IInv, Typed
  <2>2. Len(sent) \in Nat /\ Len(messages) \in Nat
    BY DEF IInv, Typed
  <2>3. pending' \in SUBSET Nat
    <3>1. Len(sent) + 1 .. Len(sent) + Len(messages) \subseteq Nat
      BY <2>2
    <3> HIDE <2>2
    <3> QED
      BY <3>1 DEF Send, IInv, Typed
  <2> QED
    BY <2>1, <2>3 DEF Send, IInv, Typed
<1>2. Below' /\ Harmless'
  BY DEF Send, IInv, Below, Harmless, Honest, Keeps, requestVars
<1> QED
  BY <1>1, <1>2 DEF IInv

\* A request that takes up an honest copy below the limit keeps the invariant.
LEMMA SetKeeps ==
  ASSUME Below, Harmless, NEW p \in Jobs, NEW j \in BelowJob, Set(p, j),
         Honest(p, j)
  PROVE job' \in [Jobs -> BelowJob] /\ \A q \in Jobs : Honest(q, job'[q])
<1>1. job' = [job EXCEPT ![p] = j] /\ job \in [Jobs -> BelowJob]
  BY DEF Set, Below
<1>2. job' \in [Jobs -> BelowJob]
  BY <1>1
<1>3. ASSUME NEW q \in Jobs PROVE Honest(q, job'[q])
  <2>2. CASE q = p
    BY <1>1, <2>2
  <2>3. CASE q # p
    <3>1. job'[q] = job[q]
      BY <1>1, <2>3
    <3> QED
      BY <3>1 DEF Harmless
  <2> QED
    BY <2>2, <2>3
<1> QED
  BY <1>2, <1>3

-------------------------------------------------------------------------------
\* The inductive invariant, one step per action.
THEOREM Inductive == Spec => []IInv
<1>1. Init => IInv
  <2> SUFFICES ASSUME Init PROVE IInv
    OBVIOUS
  <2>1. user \in BelowRow
    BY NewRowBelow DEF Init
  <2>2. PICK r \in Roles : \E status \in FirstStatus(r) :
          sub = [status |-> status, trialEnd |-> IF r = "admin" THEN 0 ELSE TrialDays]
    BY DEF Init
  <2>3. FirstStatus(r) \subseteq StripeStatus \cup {"free"}
    BY DEF FirstStatus, StripeStatus, Roles
  <2>4. sub \in [status : StripeStatus \cup {"free"}, trialEnd : Nat]
    BY <2>2, <2>3, SettingsAssumption
  <2>5. Below
    BY <2>1, IdleBelow DEF Init, Below
  <2>6. Typed
    BY <2>4 DEF Init, Typed, StripeStatus, Message
  <2>7. Harmless
    BY DEF Init, Harmless, Honest, Keeps, Idle, NoHook, NewRow
  <2> QED
    BY <2>5, <2>6, <2>7 DEF IInv
<1>2. IInv /\ [Next]_vars => IInv'
  <2> SUFFICES ASSUME IInv, [Next]_vars PROVE IInv'
    OBVIOUS
  <2> USE DEF IInv
  <2>1. CASE Tick
    BY <2>1 DEF Tick, Below, Typed, Harmless, Honest, Keeps
  <2>2. ASSUME NEW p \in Logins, LoadUser(p) PROVE IInv'
    <3> DEFINE j == [Idle EXCEPT !.pc = "verify", !.at = now, !.old = user]
    <3>1. j \in BelowJob /\ Honest(p, j)
      BY <2>2, IdleBelow, KindsAssumption DEF LoadUser, BelowJob, Honest, Keeps, Below, Typed
    <3>2. Set(p, j)
      BY <2>2 DEF LoadUser
    <3> HIDE DEF j
    <3>3. job' \in [Jobs -> BelowJob] /\ \A q \in Jobs : Honest(q, job'[q])
      BY <3>1, <3>2, SetKeeps DEF Jobs
    <3> QED
      BY <2>2, <3>3 DEF LoadUser, Below, Typed, Harmless, Honest, Keeps, stripeVars
  <2>3. ASSUME NEW p \in Logins, FailLogin(p) PROVE IInv'
    <3>1. p \in Jobs /\ job[p] \in BelowJob
      BY DEF Jobs, Below
    <3>2. job[p].old \in BelowRow /\ job[p].at \in Nat
      BY <3>1 DEF BelowJob
    <3>3. user' \in BelowRow
      BY <2>3, <3>2, CountBelow, FlushBelow DEF FailLogin, Below
    <3>4. Honest(p, Idle)
      BY DEF Honest, Keeps, Idle, NewRow
    <3>5. job' \in [Jobs -> BelowJob] /\ \A q \in Jobs : Honest(q, job'[q])
      BY <2>3, <3>1, <3>4, IdleBelow, SetKeeps DEF FailLogin
    <3> QED
      BY <2>3, <3>3, <3>5 DEF FailLogin, Below, Typed, Harmless, Honest, Keeps, stripeVars
  <2>4. ASSUME NEW p \in Logins, PassLogin(p) PROVE IInv'
    <3>1. p \in Jobs /\ job[p] \in BelowJob /\ Honest(p, job[p])
      BY DEF Jobs, Below, Harmless
    <3>2. job[p].old \in BelowRow
      BY <3>1 DEF BelowJob
    <3> DEFINE new == Synced(Unlocked(job[p].old), sub.status)
               j == [job[p] EXCEPT !.pc = "commit", !.new = new]
    <3>3. new \in BelowRow /\ (job[p].old.role = "admin" => new.role = "admin")
      BY <3>2, UnlockedBelow, UnlockedKeepsRole, SyncedKeeps
    <3>4. Set(p, j)
      BY <2>4 DEF PassLogin
    <3> HIDE DEF new
    <3>5. j \in BelowJob /\ Honest(p, j)
      BY <3>1, <3>3, KindsAssumption DEF BelowJob, Honest, Keeps
    <3> HIDE DEF j
    <3>6. job' \in [Jobs -> BelowJob] /\ \A q \in Jobs : Honest(q, job'[q])
      BY <3>1, <3>4, <3>5, SetKeeps
    <3> QED
      BY <2>4, <3>6 DEF PassLogin, Below, Typed, Harmless, Honest, Keeps, stripeVars
  <2>5. ASSUME NEW p \in Changers, LoadChange(p) PROVE IInv'
    <3> DEFINE j == [Idle EXCEPT !.pc = "commit", !.old = user, !.new = Unlocked(user)]
    <3>1. p \in Jobs /\ p \notin Logins
      BY KindsAssumption DEF Jobs
    <3>2. j \in BelowJob /\ Honest(p, j)
      BY <3>1, IdleBelow, UnlockedBelow, UnlockedKeepsRole DEF BelowJob, Below, Honest
    <3>3. Set(p, j)
      BY <2>5 DEF LoadChange
    <3> HIDE DEF j
    <3>4. job' \in [Jobs -> BelowJob] /\ \A q \in Jobs : Honest(q, job'[q])
      BY <3>1, <3>2, <3>3, SetKeeps
    <3> QED
      BY <2>5, <3>4 DEF LoadChange, Below, Typed, Harmless, Honest, Keeps, stripeVars
  <2>6. ASSUME NEW p \in Admins, LoadUpdate(p) PROVE IInv'
    <3>1. p \in Jobs /\ p \notin Logins /\ p \notin Changers
      BY KindsAssumption DEF Jobs
    <3>2. PICK role \in Roles, active \in BOOLEAN, password \in BOOLEAN :
            Set(p, [Idle EXCEPT !.pc = "commit", !.old = user,
                      !.new = [(IF password THEN Unlocked(user) ELSE user)
                                 EXCEPT !.role = role, !.active = active]])
      BY <2>6 DEF LoadUpdate
    <3> DEFINE row == IF password THEN Unlocked(user) ELSE user
               new == [row EXCEPT !.role = role, !.active = active]
               j == [Idle EXCEPT !.pc = "commit", !.old = user, !.new = new]
    <3>3. row \in BelowRow
      BY UnlockedBelow DEF Below
    <3>4. Set(p, j)
      BY <3>2
    <3> HIDE DEF row
    <3>5. new \in BelowRow
      BY <3>3 DEF BelowRow, Row
    <3> HIDE DEF new
    <3>6. j \in BelowJob /\ Honest(p, j)
      BY <3>1, <3>5, IdleBelow DEF BelowJob, Below, Honest
    <3> HIDE DEF j
    <3>7. job' \in [Jobs -> BelowJob] /\ \A q \in Jobs : Honest(q, job'[q])
      BY <3>1, <3>4, <3>6, SetKeeps
    <3> QED
      BY <2>6, <3>7 DEF LoadUpdate, Below, Typed, Harmless, Honest, Keeps, stripeVars
  <2>7. ASSUME NEW p \in Jobs, Commit(p) PROVE IInv'
    <3>1. job[p] \in BelowJob
      BY DEF Below
    <3>2. user' \in BelowRow
      BY <2>7, <3>1, FlushBelow DEF Commit, BelowJob, Below
    <3>3. Honest(p, Idle)
      BY DEF Honest, Keeps, Idle, NewRow
    <3>4. job' \in [Jobs -> BelowJob] /\ \A q \in Jobs : Honest(q, job'[q])
      BY <2>7, <3>3, IdleBelow, SetKeeps DEF Commit
    <3> QED
      BY <2>7, <3>2, <3>4 DEF Commit, Below, Typed, Harmless, Honest, Keeps, stripeVars
  <2>8. ASSUME NEW p \in Jobs, CrashJob(p) PROVE IInv'
    <3>1. Honest(p, Idle)
      BY DEF Honest, Keeps, Idle, NewRow
    <3>2. job' \in [Jobs -> BelowJob] /\ \A q \in Jobs : Honest(q, job'[q])
      BY <2>8, <3>1, IdleBelow, SetKeeps DEF CrashJob
    <3> QED
      BY <2>8, <3>2 DEF CrashJob, Below, Typed, Harmless, Honest, Keeps, stripeVars
  <2>9. CASE Checkout
    <3> DEFINE a == [kind |-> "completed", status |-> "trialing"]
               b == [kind |-> "synced", status |-> "trialing"]
    <3>1. a \in Message /\ b \in Message
      BY DEF Message, StripeStatus
    <3>2. <<a, b>> \in Seq(Message) /\ <<b, a>> \in Seq(Message)
      BY <3>1
    <3>3. stripe' \in StripeStatus /\ (Send(<<a, b>>) \/ Send(<<b, a>>))
      BY <2>9 DEF Checkout, StripeStatus
    <3> HIDE DEF a, b
    <3> QED
      BY <3>2, <3>3, SendKeeps
  <2>10. CASE Charge
    <3>1. stripe' \in StripeStatus
      BY <2>10 DEF Charge, StripeStatus, Typed
    <3>2. <<[kind |-> "synced", status |-> stripe']>> \in Seq(Message)
      BY <3>1 DEF Message
    <3> QED
      BY <2>10, <3>1, <3>2, SendKeeps DEF Charge
  <2>11. CASE Cancel
    <3>1. stripe' \in StripeStatus
      BY <2>11 DEF Cancel, StripeStatus
    <3>2. <<[kind |-> "deleted", status |-> "canceled"]>> \in Seq(Message)
      BY DEF Message, StripeStatus
    <3> QED
      BY <2>11, <3>1, <3>2, SendKeeps DEF Cancel
  <2>12. CASE Redeliver
    <3>1. pending' \in SUBSET Nat
      <4>1. Len(sent) \in Nat
        BY DEF Typed
      <4> QED
        BY <2>12, <4>1 DEF Redeliver, Typed
    <3> QED
      BY <2>12, <3>1 DEF Redeliver, Below, Typed, Harmless, Honest, Keeps, requestVars, stripeVars
  <2>13. ASSUME NEW m \in 1 .. Len(sent), Deliver(m) PROVE IInv'
    <3> DEFINE status == NewStatus(sent[m])
    <3>1. sent[m] \in Message /\ m \in Nat
      BY DEF Typed
    <3>2. status \in StripeStatus
      BY <3>1 DEF NewStatus, Message, StripeStatus
    <3>3. hook' = [pc |-> "commit", msg |-> m, status |-> status,
                   old |-> user, new |-> Synced(user, status)]
      BY <2>13 DEF Deliver
    <3> HIDE DEF status
    <3>4. /\ user \in BelowRow
          /\ Synced(user, status) \in BelowRow
          /\ Synced(user, status).lockedUntil = user.lockedUntil
          /\ user.role = "admin" => Synced(user, status).role = "admin"
      BY SyncedKeeps DEF Below
    <3>5. hook' \in BelowHook
      BY <3>1, <3>2, <3>3, <3>4 DEF BelowHook
    <3>6. Keeps(hook') /\ hook'.new.lockedUntil = hook'.old.lockedUntil
      BY <3>3, <3>4 DEF Keeps
    <3> QED
      BY <2>13, <3>5, <3>6 DEF Deliver, Below, Typed, Harmless, Honest, Keeps, requestVars, stripeVars
  <2>14. CASE CommitHook
    <3>1. hook.old \in BelowRow /\ hook.new \in BelowRow /\ hook.status \in StripeStatus \cup {"free"}
          /\ hook.msg \in Nat
      BY DEF Below, BelowHook
    <3>2. user' \in BelowRow
      BY <2>14, <3>1, FlushBelow DEF CommitHook, Below
    <3>3. hook' \in BelowHook /\ Keeps(hook') /\ hook'.new.lockedUntil = hook'.old.lockedUntil
      BY <2>14, <3>1, IdleBelow DEF CommitHook, BelowHook, Keeps, NoHook
    <3>4. sub' \in [status : StripeStatus \cup {"free"}, trialEnd : Nat]
      BY <2>14, <3>1 DEF CommitHook, Typed
    <3> QED
      BY <2>14, <3>2, <3>3, <3>4 DEF CommitHook, Below, Typed, Harmless, Honest, Keeps, stripeVars
  <2>15. CASE CountHook
    <3>1. hook' \in BelowHook /\ Keeps(hook') /\ hook'.new.lockedUntil = hook'.old.lockedUntil
      BY <2>15 DEF CountHook, Below, BelowHook, Keeps, Harmless
    <3>2. counted' \in SUBSET Nat
      BY <2>15 DEF CountHook, Below, BelowHook, Typed
    <3> QED
      BY <2>15, <3>1, <3>2 DEF CountHook, Below, Typed, Harmless, Honest, Keeps, requestVars, stripeVars
  <2>16. CASE Respond \/ CrashHook
    <3>1. hook' = NoHook
      BY <2>16 DEF Respond, CrashHook
    <3>2. hook' \in BelowHook /\ Keeps(hook') /\ hook'.new.lockedUntil = hook'.old.lockedUntil
      BY <3>1, IdleBelow DEF Keeps, NoHook
    <3>3. CASE Respond
      BY <3>2, <3>3 DEF Respond, Below, Typed, Harmless, Honest, Keeps, requestVars, stripeVars
    <3>4. CASE CrashHook
      BY <3>2, <3>4 DEF CrashHook, Below, Typed, Harmless, Honest, Keeps, requestVars, stripeVars
    <3> QED
      BY <2>16, <3>3, <3>4
  <2>17. CASE UNCHANGED vars
    BY <2>17 DEF vars, requestVars, stripeVars, Below, Typed, Harmless, Honest, Keeps
  <2> QED
    BY <2>1, <2>2, <2>3, <2>4, <2>5, <2>6, <2>7, <2>8, <2>9, <2>10, <2>11, <2>12, <2>13,
       <2>14, <2>15, <2>16, <2>17 DEF Next, HandleMessage
<1> QED
  BY <1>1, <1>2, PTL DEF Spec

\* Every row, copy and message keeps its type.
THEOREM TypeCorrect == Spec => []TypeOK
<1>1. IInv => TypeOK
  <2>1. BelowRow \subseteq Row
    BY DEF BelowRow
  <2> QED
    BY <2>1 DEF IInv, Below, Typed, TypeOK, BelowJob, BelowHook
<1> QED
  BY <1>1, Inductive, PTL

\* The counter of failed attempts never reaches the limit, however logins, password
\* changes, updates and webhooks overwrite each other.
THEOREM AttemptsBounded == Spec => []AttemptsBelowLimit
<1>1. IInv => AttemptsBelowLimit
  BY DEF IInv, Below, BelowRow, AttemptsBelowLimit
<1> QED
  BY <1>1, Inductive, PTL

-------------------------------------------------------------------------------
\* Who may have written the user's row in a step.
LEMMA Writers ==
  ASSUME IInv, [Next]_vars, user' # user
  PROVE \/ \E p \in Logins : FailLogin(p)
        \/ \E p \in Jobs : Commit(p)
        \/ CommitHook
BY DEF Next, HandleMessage, vars, requestVars, Tick, LoadUser, PassLogin, LoadChange, LoadUpdate,
       CrashJob, Checkout, Charge, Cancel, Send, Redeliver, Deliver, CountHook, Respond, CrashHook

\* A commit sets its request back to idle.
LEMMA CommitFinishes ==
  ASSUME IInv, NEW p \in Jobs, Commit(p) PROVE Finishing(p)
BY DEF IInv, Below, Commit, Finishing, Set, Idle, At

\* A first lock is lifted by no login that was already verifying, by no failed login
\* and by no webhook: who lifts a lock had loaded one, and a login one that had run
\* out (authenticate_user, change_password, update_user).
THEOREM LockKept == Spec => LockLiftedKnowingly
<1> DEFINE A == user.lockedUntil # 0 /\ user'.lockedUntil = 0
                  => \E p \in Jobs : LiftsLock(p)
<1>1. IInv /\ [Next]_vars => [A]_user
  <2> SUFFICES ASSUME IInv, [Next]_vars, user' # user,
                      user.lockedUntil # 0, user'.lockedUntil = 0
               PROVE \E p \in Jobs : LiftsLock(p)
    OBVIOUS
  <2>1. ASSUME NEW p \in Logins, FailLogin(p) PROVE FALSE
    <3>1. job[p] \in BelowJob
      BY DEF IInv, Below, Jobs
    <3>2. job[p].old \in BelowRow /\ job[p].at \in Nat
      BY <3>1 DEF BelowJob
    <3> DEFINE new == Count(job[p].old, job[p].at)
    <3>3. new.lockedUntil = job[p].old.lockedUntil \/ new.lockedUntil # 0
      BY <3>2, CountLocks
    <3>4. user'.lockedUntil = Column(job[p].old.lockedUntil, new.lockedUntil, user.lockedUntil)
      BY <2>1 DEF FailLogin, Flush
    <3> HIDE DEF new
    <3> QED
      BY <3>3, <3>4 DEF Column
  <2>2. ASSUME NEW p \in Jobs, Commit(p) PROVE LiftsLock(p)
    <3>1. user'.lockedUntil
            = Column(job[p].old.lockedUntil, job[p].new.lockedUntil, user.lockedUntil)
      BY <2>2 DEF Commit, Flush
    <3>2. p \in Logins => job[p].old.lockedUntil <= job[p].at
      BY DEF IInv, Harmless, Honest
    <3> QED
      BY <2>2, <3>1, <3>2, CommitFinishes DEF Column, LiftsLock
  <2>3. CASE CommitHook
    <3>1. user'.lockedUntil
            = Column(hook.old.lockedUntil, hook.new.lockedUntil, user.lockedUntil)
      BY <2>3 DEF CommitHook, Flush
    <3> QED
      BY <3>1 DEF Column, IInv, Harmless
  <2> QED
    BY <2>1, <2>2, <2>3, Writers
<1> QED
  BY <1>1, Inductive, PTL DEF Spec, LockLiftedKnowingly

\* An administrator is demoted by an administrator's update or by a handler that
\* had loaded the row before the promotion.
THEOREM AdminStays == Spec => AdminKept
<1> DEFINE A == user.role = "admin" /\ user'.role # "admin"
                  => \/ \E p \in Admins : Finishing(p)
                     \/ \E p \in Logins : Finishing(p) /\ job[p].old.role # "admin"
                     \/ hook.pc = "commit" /\ hook'.pc = "count" /\ hook.old.role # "admin"
<1>1. IInv /\ [Next]_vars => [A]_user
  <2> SUFFICES ASSUME IInv, [Next]_vars, user' # user,
                      user.role = "admin", user'.role # "admin"
               PROVE A
    OBVIOUS
  <2>1. ASSUME NEW p \in Logins, FailLogin(p) PROVE FALSE
    <3>1. job[p] \in BelowJob
      BY DEF IInv, Below, Jobs
    <3>2. job[p].old \in BelowRow /\ job[p].at \in Nat
      BY <3>1 DEF BelowJob
    <3>3. Count(job[p].old, job[p].at).role = job[p].old.role
      BY <3>2, CountKeepsRole
    <3> QED
      BY <2>1, <3>3 DEF FailLogin, Flush, Column
  <2>2. ASSUME NEW p \in Logins, Commit(p) PROVE A
    <3>1. p \in Jobs /\ Keeps(job[p])
      BY DEF Jobs, IInv, Harmless, Honest
    <3>2. job[p].old.role # "admin"
      BY <2>2, <3>1 DEF Commit, At, Flush, Column, Keeps
    <3> QED
      BY <2>2, <3>1, <3>2, CommitFinishes
  <2>3. ASSUME NEW p \in Changers, Commit(p) PROVE A
    <3>1. job[p].new.role = job[p].old.role
      BY DEF IInv, Harmless, Honest, Jobs
    <3> QED
      BY <2>3, <3>1 DEF Commit, Flush, Column
  <2>4. ASSUME NEW p \in Admins, Commit(p) PROVE A
    BY <2>4, CommitFinishes DEF Jobs
  <2>5. CASE CommitHook
    <3>1. hook.old.role # "admin"
      BY <2>5 DEF CommitHook, Flush, Column, Keeps, IInv, Harmless
    <3> QED
      BY <2>5, <3>1 DEF CommitHook, NoHook
  <2> QED
    BY <2>1, <2>2, <2>3, <2>4, <2>5, Writers DEF Jobs
<1> QED
  BY <1>1, Inductive, PTL DEF Spec, AdminKept

-------------------------------------------------------------------------------
\* What is waiting was sent, and what is not waiting was counted; a message about
\* to be acknowledged was too.
Handled ==
  /\ pending \subseteq 1 .. Len(sent)
  /\ hook.pc = "respond" => hook.msg \in counted
  /\ \A m \in 1 .. Len(sent) : m \in pending \/ m \in counted

\* Messages are added at the end and wait.
LEMMA Sending ==
  ASSUME IInv, NEW messages \in Seq(Message), Send(messages)
  PROVE  /\ Len(sent') = Len(sent) + Len(messages)
         /\ \A m : m \in pending' <=>
              m \in pending \/ m \in Len(sent) + 1 .. Len(sent) + Len(messages)
         /\ UNCHANGED <<sub, hook, counted>>
<1>1. sent \in Seq(Message) /\ sent' = sent \o messages
  BY DEF Send, IInv, Typed
<1>2. Len(sent') = Len(sent) + Len(messages)
  BY <1>1
<1> QED BY <1>2 DEF Send

\* Stripe sends messages the handler understands.
LEMMA StripeSends ==
  ASSUME IInv, Checkout \/ Charge \/ Cancel
  PROVE  \E messages \in Seq(Message) : Send(messages)
<1> DEFINE completed == [kind |-> "completed", status |-> "trialing"]
           created == [kind |-> "synced", status |-> "trialing"]
           charged == <<[kind |-> "synced", status |-> stripe']>>
           deleted == <<[kind |-> "deleted", status |-> "canceled"]>>
<1>1. CASE Checkout
  <2>1. completed \in Message /\ created \in Message
    BY DEF Message, StripeStatus
  <2>2. Send(<<completed, created>>) \/ Send(<<created, completed>>)
    BY <1>1 DEF Checkout
  <2> HIDE DEF completed, created
  <2>3. <<completed, created>> \in Seq(Message) /\ <<created, completed>> \in Seq(Message)
    BY <2>1
  <2> QED BY <2>2, <2>3
<1>2. CASE Charge
  <2>1. stripe' \in {"active", "past_due", "unpaid"} /\ Send(charged)
    BY <1>2 DEF Charge
  <2>2. charged \in Seq(Message)
    BY <2>1 DEF Message, StripeStatus
  <2> HIDE DEF charged
  <2> QED BY <2>1, <2>2
<1>3. CASE Cancel
  <2>1. deleted \in Seq(Message) /\ Send(deleted)
    BY <1>3 DEF Cancel, Message, StripeStatus
  <2> HIDE DEF deleted
  <2> QED BY <2>1
<1> QED BY <1>1, <1>2, <1>3

\* The steps that neither send nor handle.
Apart ==
  \/ Tick
  \/ \E p \in Logins : LoadUser(p) \/ FailLogin(p) \/ PassLogin(p)
  \/ \E p \in Changers : LoadChange(p)
  \/ \E p \in Admins : LoadUpdate(p)
  \/ \E p \in Jobs : Commit(p) \/ CrashJob(p)
  \/ UNCHANGED vars

LEMMA ApartKeeps ==
  ASSUME Apart
  PROVE  UNCHANGED <<sub, stripe, sent, pending, hook, counted>>
BY DEF Apart, Tick, LoadUser, FailLogin, PassLogin, LoadChange, LoadUpdate, Commit, CrashJob,
       stripeVars, vars

LEMMA HandledStep ==
  ASSUME IInv, Handled, [Next]_vars
  PROVE  Handled'
<1> USE DEF Handled
<1>1. CASE Apart
  BY <1>1, ApartKeeps
<1>2. CASE Checkout \/ Charge \/ Cancel
  <2>1. PICK messages \in Seq(Message) : Send(messages)
    BY <1>2, StripeSends
  <2>2. /\ Len(sent') = Len(sent) + Len(messages)
        /\ \A m : m \in pending' <=>
             m \in pending \/ m \in Len(sent) + 1 .. Len(sent) + Len(messages)
        /\ UNCHANGED <<sub, hook, counted>>
    BY <2>1, Sending
  <2>3. Len(sent) \in Nat /\ Len(messages) \in Nat
    BY DEF IInv, Typed
  <2>4. \A m \in 1 .. Len(sent') :
          m \in 1 .. Len(sent) \/ m \in Len(sent) + 1 .. Len(sent) + Len(messages)
    BY <2>2, <2>3
  <2>5. ASSUME NEW m \in pending' PROVE m \in 1 .. Len(sent')
    <3>1. m \in 1 .. Len(sent) \/ m \in Len(sent) + 1 .. Len(sent) + Len(messages)
      BY <2>2
    <3>2. Len(sent') = Len(sent) + Len(messages)
      BY <2>2
    <3> QED BY <2>3, <3>1, <3>2
  <2> QED BY <2>2, <2>4, <2>5
<1>3. CASE Redeliver
  BY <1>3 DEF Redeliver, requestVars, stripeVars
<1>4. ASSUME NEW m \in 1 .. Len(sent), Deliver(m) PROVE Handled'
  BY <1>4 DEF Deliver, requestVars, stripeVars
<1>5. CASE CommitHook
  BY <1>5 DEF CommitHook, NoHook, stripeVars
<1>6. CASE CountHook
  <2>1. hook \in BelowHook
    BY DEF IInv, Below
  <2>2. hook'.msg = hook.msg
    BY <1>6, <2>1 DEF CountHook, BelowHook
  <2> QED BY <1>6, <2>2 DEF CountHook, requestVars, stripeVars
<1>7. CASE Respond
  BY <1>7 DEF Respond, NoHook, requestVars, stripeVars
<1>8. CASE CrashHook
  BY <1>8 DEF CrashHook, NoHook, requestVars, stripeVars
<1> QED BY <1>1, <1>2, <1>3, <1>4, <1>5, <1>6, <1>7, <1>8 DEF Next, HandleMessage, Apart

\* A message Stripe was told is handled has had its effects, whatever is sent again,
\* out of order or cut off by a crash (handle_webhook_event).
THEOREM AckedCounted == Spec => []AckedIsCounted
<1>1. Init => Handled
  BY DEF Init, Handled, NoHook
<1>2. IInv /\ Handled /\ [Next]_vars => Handled'
  BY HandledStep
<1>3. Handled => AckedIsCounted
  BY DEF Handled, AckedIsCounted
<1> QED BY <1>1, <1>2, <1>3, Inductive, PTL DEF Spec
===============================================================================
