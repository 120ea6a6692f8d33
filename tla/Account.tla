-------------------------------- MODULE Account --------------------------------
(***************************************************************************)
(* One user's account: the login attempts and the lockout, the role, and   *)
(* the subscription that Stripe's webhooks keep up to date.                *)
(*                                                                         *)
(* Requests run in threads with sessions of their own.  A handler loads    *)
(* the user's row, computes on its copy and commits; the commit writes the *)
(* columns whose value the handler changed and leaves the others, so two   *)
(* handlers overwrite each other column by column.  Webhooks are handled   *)
(* one at a time, on the event loop, and acknowledged last: one that is    *)
(* not acknowledged is sent again.  Stripe is external and is modelled by  *)
(* the messages the handler understands; it acknowledges all others        *)
(* without effect.  Passwords and tokens are left out: whether one is      *)
(* right is a choice.                                                      *)
(***************************************************************************)
EXTENDS Integers, Sequences

CONSTANTS
  Logins,         \* requests for login_api
  Changers,       \* requests that change or reset the password
  Admins,         \* requests for update_admin_user_api
  MaxAttempts,    \* max_login_attempts
  Lockout,        \* login_lockout_minutes
  TrialDays,      \* trial_days
  InOrder,        \* TRUE: Stripe delivers in order and never again once acknowledged
  MaxTime,        \* bound on the clock
  MaxMessages,    \* bound on Stripe's messages
  MaxCrashes      \* bound on the requests killed half-way

Jobs == Logins \cup Changers \cup Admins

ASSUME SettingsAssumption ==
  MaxAttempts \in Nat \ {0} /\ Lockout \in Nat \ {0} /\ TrialDays \in Nat \ {0}
ASSUME BoundsAssumption ==
  MaxTime \in Nat /\ MaxMessages \in Nat /\ MaxCrashes \in Nat /\ InOrder \in BOOLEAN
ASSUME KindsAssumption ==
  Logins \cap Changers = {} /\ Logins \cap Admins = {} /\ Changers \cap Admins = {}

VARIABLES
  now,
  user,       \* the user's row; lockedUntil 0 is no lock
  sub,        \* the subscription row
  job,        \* what each request has loaded and is to write
  stripe,     \* Stripe's status of the subscription, "none" before the checkout
  sent,       \* the messages Stripe has made, in order
  pending,    \* the numbers of those not acknowledged
  hook,       \* the webhook handler
  counted,    \* the numbers of the messages with an analytics event
  crashes
requestVars == <<user, job>>
stripeVars == <<stripe, sent>>
vars == <<now, user, sub, job, stripe, sent, pending, hook, counted, crashes>>

Roles == {"admin", "trial_user", "subscriber"}
\* The statuses of a Stripe subscription that has begun with a trial.
StripeStatus == {"trialing", "active", "past_due", "unpaid", "canceled"}

Row == [role : Roles, active : BOOLEAN, attempts : Nat, lockedUntil : Nat]
Message == [kind : {"completed", "synced", "deleted"}, status : StripeStatus]

NewRow(r) == [role |-> r, active |-> TRUE, attempts |-> 0, lockedUntil |-> 0]
Idle == [pc |-> "idle", at |-> 0, old |-> NewRow("trial_user"), new |-> NewRow("trial_user")]
NoHook == [pc |-> "idle", msg |-> 0, status |-> "free",
           old |-> NewRow("trial_user"), new |-> NewRow("trial_user")]

\* What create_user leaves behind for a role; the subscription of a subscriber
\* or of the bootstrap admin is activated by a second commit, which may be lost.
FirstStatus(r) == CASE r = "trial_user" -> {"trialing"}
                    [] r = "subscriber" -> {"active", "trialing"}
                    [] r = "admin"      -> {"active", "free"}

Init ==
  /\ now = 0
  /\ \E r \in Roles :
       /\ user = NewRow(r)
       /\ \E status \in FirstStatus(r) :
            sub = [status |-> status, trialEnd |-> IF r = "admin" THEN 0 ELSE TrialDays]
  /\ job = [p \in Jobs |-> Idle]
  /\ stripe = "none"
  /\ sent = <<>>
  /\ pending = {}
  /\ hook = NoHook
  /\ counted = {}
  /\ crashes = 0

Tick ==
  /\ now < MaxTime
  /\ now' = now + 1
  /\ UNCHANGED <<user, sub, job, stripe, sent, pending, hook, counted, crashes>>

-------------------------------------------------------------------------------
\* has_paid_access and sync_role_with_subscription, for a row and a status
PaidAccess(row, status) ==
  \/ row.role = "admin"
  \/ status = "active"
  \/ status = "trialing" /\ sub.trialEnd > now

SyncedAlways(row, status) ==          \* mutant: an administrator is synced like anyone
  [row EXCEPT !.role = IF status \in {"active", "trialing"} THEN "subscriber" ELSE "trial_user"]
Synced(row, status) ==
  IF row.role = "admin" THEN row
  ELSE [row EXCEPT !.role = IF PaidAccess(row, status) THEN "subscriber" ELSE "trial_user"]

\* The UPDATE of a commit sets the columns the handler changed.
FlushAll(old, new) == new             \* mutant: the whole row is written back
Column(old, new, current) == IF new = old THEN current ELSE new
Flush(old, new) ==
  [role        |-> Column(old.role, new.role, user.role),
   active      |-> Column(old.active, new.active, user.active),
   attempts    |-> Column(old.attempts, new.attempts, user.attempts),
   lockedUntil |-> Column(old.lockedUntil, new.lockedUntil, user.lockedUntil)]

At(p, label) == job[p].pc = label
Set(p, j) == job' = [job EXCEPT ![p] = j]
UnlockedByPast(row) ==                \* mutant: the lock is ended by a time before the first
  [row EXCEPT !.attempts = 0, !.lockedUntil = -1]
Unlocked(row) == [row EXCEPT !.attempts = 0, !.lockedUntil = 0]

\* authenticate_user loads the row and turns away the inactive and the locked.
LoadUser(p) ==
  /\ At(p, "idle")
  /\ user.active
  /\ user.lockedUntil <= now
  /\ Set(p, [Idle EXCEPT !.pc = "verify", !.at = now, !.old = user])
  /\ UNCHANGED <<now, user, sub, stripeVars, pending, hook, counted, crashes>>

\* A wrong password counts, and locks the account at the limit ...
CountNoReset(row, at) ==              \* mutant: the counter runs on when the lock is set
  [row EXCEPT !.attempts = @ + 1,
              !.lockedUntil = IF row.attempts + 1 >= MaxAttempts THEN at + Lockout ELSE @]
Count(row, at) ==
  IF row.attempts + 1 >= MaxAttempts
  THEN [row EXCEPT !.attempts = 0, !.lockedUntil = at + Lockout]
  ELSE [row EXCEPT !.attempts = @ + 1]

FailLogin(p) ==
  /\ At(p, "verify")
  /\ user' = Flush(job[p].old, Count(job[p].old, job[p].at))
  /\ Set(p, Idle)
  /\ UNCHANGED <<now, sub, stripeVars, pending, hook, counted, crashes>>

\* ... the right one unlocks it, and reads the subscription to set the role.
PassLogin(p) ==
  /\ At(p, "verify")
  /\ Set(p, [job[p] EXCEPT !.pc = "commit", !.new = Synced(Unlocked(job[p].old), sub.status)])
  /\ UNCHANGED <<now, user, sub, stripeVars, pending, hook, counted, crashes>>

\* change_password, reset_password_with_token
LoadChange(p) ==
  /\ At(p, "idle")
  /\ Set(p, [Idle EXCEPT !.pc = "commit", !.old = user, !.new = Unlocked(user)])
  /\ UNCHANGED <<now, user, sub, stripeVars, pending, hook, counted, crashes>>

\* update_user sets what the payload has: a role, an activation, a password.
LoadUpdate(p) ==
  /\ At(p, "idle")
  /\ \E role \in Roles, active, password \in BOOLEAN :
       LET row == IF password THEN Unlocked(user) ELSE user IN
       Set(p, [Idle EXCEPT !.pc = "commit", !.old = user,
                           !.new = [row EXCEPT !.role = role, !.active = active]])
  /\ UNCHANGED <<now, user, sub, stripeVars, pending, hook, counted, crashes>>

Commit(p) ==
  /\ At(p, "commit")
  /\ user' = Flush(job[p].old, job[p].new)
  /\ Set(p, Idle)
  /\ UNCHANGED <<now, sub, stripeVars, pending, hook, counted, crashes>>

\* A request is killed before its commit.
CrashJob(p) ==
  /\ ~At(p, "idle")
  /\ crashes < MaxCrashes
  /\ crashes' = crashes + 1
  /\ Set(p, Idle)
  /\ UNCHANGED <<now, user, sub, stripeVars, pending, hook, counted>>

-------------------------------------------------------------------------------
\* Stripe.

Send(messages) ==
  /\ Len(sent) + Len(messages) <= MaxMessages
  /\ sent' = sent \o messages
  /\ pending' = pending \cup (Len(sent) + 1 .. Len(sent) + Len(messages))
  /\ UNCHANGED <<now, requestVars, sub, hook, counted, crashes>>

\* create_checkout_session asks for a subscription that begins with a trial;
\* the two messages it causes come in either order.
Checkout ==
  LET completed == [kind |-> "completed", status |-> "trialing"]
      created == [kind |-> "synced", status |-> "trialing"] IN
  /\ stripe \in {"none", "canceled"}
  /\ stripe' = "trialing"
  /\ Send(<<completed, created>>) \/ Send(<<created, completed>>)

Charge ==
  /\ stripe' \in CASE stripe = "trialing" -> {"active", "past_due"}
                   [] stripe = "active"   -> {"past_due"}
                   [] stripe = "past_due" -> {"active", "unpaid"}
                   [] stripe = "unpaid"   -> {"active"}
                   [] OTHER               -> {}
  /\ Send(<<[kind |-> "synced", status |-> stripe']>>)

Cancel ==
  /\ stripe \notin {"none", "canceled"}
  /\ stripe' = "canceled"
  /\ Send(<<[kind |-> "deleted", status |-> "canceled"]>>)

\* An acknowledged message may come once more.
Redeliver ==
  /\ ~InOrder
  /\ \E m \in 1 .. Len(sent) : pending' = pending \cup {m}
  /\ UNCHANGED <<now, requestVars, sub, stripeVars, hook, counted, crashes>>

-------------------------------------------------------------------------------
\* handle_webhook_event: the status a message gives the subscription,
StatusKeptOnDelete(m) ==              \* mutant: a deletion only ends the period
  IF m.kind = "deleted" THEN sub.status ELSE m.status
NewStatus(m) == IF m.kind = "completed" THEN "active" ELSE m.status

\* loading the user and the subscription (which only this handler writes),
DeliverAcked(m) ==                    \* mutant: acknowledged before it is handled
  /\ hook.pc = "idle"
  /\ m \in pending
  /\ InOrder => \A k \in pending : m <= k
  /\ LET status == NewStatus(sent[m]) IN
     hook' = [pc |-> "commit", msg |-> m, status |-> status,
              old |-> user, new |-> Synced(user, status)]
  /\ pending' = pending \ {m}
  /\ UNCHANGED <<now, requestVars, sub, stripeVars, counted, crashes>>

Deliver(m) ==
  /\ hook.pc = "idle"
  /\ m \in pending
  /\ InOrder => \A k \in pending : m <= k
  /\ LET status == NewStatus(sent[m]) IN
     hook' = [pc |-> "commit", msg |-> m, status |-> status,
              old |-> user, new |-> Synced(user, status)]
  /\ UNCHANGED <<now, requestVars, sub, stripeVars, pending, counted, crashes>>

\* committing both rows,
CommitHook ==
  /\ hook.pc = "commit"
  /\ user' = Flush(hook.old, hook.new)
  /\ sub' = [sub EXCEPT !.status = hook.status]
  /\ hook' = [NoHook EXCEPT !.pc = "count", !.msg = hook.msg]
  /\ UNCHANGED <<now, job, stripeVars, pending, counted, crashes>>

\* record_analytics_event in a commit of its own, and the response.
CountHook ==
  /\ hook.pc = "count"
  /\ counted' = counted \cup {hook.msg}
  /\ hook' = [hook EXCEPT !.pc = "respond"]
  /\ UNCHANGED <<now, requestVars, sub, stripeVars, pending, crashes>>

Respond ==
  /\ hook.pc = "respond"
  /\ pending' = pending \ {hook.msg}
  /\ hook' = NoHook
  /\ UNCHANGED <<now, requestVars, sub, stripeVars, counted, crashes>>

CrashHook ==
  /\ hook.pc # "idle"
  /\ crashes < MaxCrashes
  /\ crashes' = crashes + 1
  /\ hook' = NoHook
  /\ UNCHANGED <<now, requestVars, sub, stripeVars, pending, counted>>

-------------------------------------------------------------------------------
HandleMessage == (\E m \in 1 .. Len(sent) : Deliver(m)) \/ CommitHook \/ CountHook \/ Respond

Next ==
  \/ Tick
  \/ \E p \in Logins : LoadUser(p) \/ FailLogin(p) \/ PassLogin(p)
  \/ \E p \in Changers : LoadChange(p)
  \/ \E p \in Admins : LoadUpdate(p)
  \/ \E p \in Jobs : Commit(p) \/ CrashJob(p)
  \/ Checkout \/ Charge \/ Cancel \/ Redeliver
  \/ HandleMessage \/ CrashHook

Spec == Init /\ [][Next]_vars

\* Stripe keeps delivering what is not acknowledged and the event loop runs
\* the handler; nothing makes a user log in or Stripe change a subscription.
FairSpec == Spec /\ WF_vars(HandleMessage)

-------------------------------------------------------------------------------
TypeOK ==
  /\ now \in Nat
  /\ user \in Row
  /\ sub \in [status : StripeStatus \cup {"free"}, trialEnd : Nat]
  /\ job \in [Jobs -> [pc : {"idle", "verify", "commit"}, at : Nat, old : Row, new : Row]]
  /\ stripe \in StripeStatus \cup {"none"}
  /\ sent \in Seq(Message)
  /\ pending \in SUBSET Nat
  /\ hook \in [pc : {"idle", "commit", "count", "respond"}, msg : Nat,
               status : StripeStatus \cup {"free"}, old : Row, new : Row]
  /\ counted \in SUBSET Nat
  /\ crashes \in Nat

\* The counter of failed attempts never reaches the limit, although concurrent
\* logins count from copies that are out of date and write back what they counted
\* (authenticate_user, change_password, update_user).
AttemptsBelowLimit == user.attempts < MaxAttempts

\* A lock is lifted by a request that had loaded a lock: by a login only if that lock
\* had run out when it was loaded, and otherwise by a new password.  So a login that
\* was verifying when the account was first locked leaves the lock alone, and so do
\* a failed login and a webhook; but a login that loaded a lock that had run out also
\* lifts the one set while it verified (authenticate_user, change_password,
\* reset_password_with_token, update_user).
Finishing(p) == At(p, "commit") /\ job'[p].pc = "idle"
LiftsLock(p) ==
  /\ Finishing(p)
  /\ job[p].old.lockedUntil # 0
  /\ p \in Logins => job[p].old.lockedUntil <= job[p].at
LockLiftedKnowingly ==
  [][user.lockedUntil # 0 /\ user'.lockedUntil = 0 => \E p \in Jobs : LiftsLock(p)]_user

\* An administrator is demoted by an administrator, or by a login or a webhook that
\* had loaded the row before the promotion (sync_role_with_subscription).
AdminKept ==
  [][user.role = "admin" /\ user'.role # "admin"
       => \/ \E p \in Admins : Finishing(p)
          \/ \E p \in Logins : Finishing(p) /\ job[p].old.role # "admin"
          \/ hook.pc = "commit" /\ hook'.pc = "count" /\ hook.old.role # "admin"]_user

\* What Stripe was told is handled has had all its effects, at least once, whatever
\* crashed on the way (handle_webhook_event).
AckedIsCounted == (1 .. Len(sent)) \ pending \subseteq counted

\* As long as messages come in order, a user whose subscription has ended or is
\* behind with its payments has no paid access once the messages are handled.
CanceledMeansNoAccess ==
  stripe \in {"canceled", "past_due", "unpaid"} /\ pending = {} /\ user.role # "admin"
    => ~PaidAccess(user, sub.status)

\* A cancellation reaches the subscription row, although the handler may die before
\* it acknowledges, unless the user subscribes again.
CancellationArrives == stripe = "canceled" ~> (sub.status = "canceled" \/ stripe # "canceled")

===============================================================================
