--------------------------------- MODULE Access ---------------------------------
(***************************************************************************)
(* Who a request acts for.  A browser's session is a signed cookie that    *)
(* holds a user and a CSRF token.  A request gets a copy of it, its        *)
(* handler changes the copy, and the response sends the copy back: the     *)
(* browser keeps what came last, whichever request was sent first.  The    *)
(* user's row is read again for each request; whether requests need a user *)
(* at all is decided once, when the process starts.                        *)
(*                                                                         *)
(* Sign-ups, password changes, resets and the administrator's updates      *)
(* write the rows; as in Account, a commit writes the columns its handler  *)
(* changed.  Here the columns are the activation and the password reset    *)
(* token.  Whether a password is right is a choice: a failed login leaves  *)
(* the session alone, as a View does.  One browser with several tabs is    *)
(* modelled; the session middleware and the mail service are external.     *)
(***************************************************************************)
EXTENDS Integers

CONSTANTS
  Users,        \* the names an account may have
  Admin,        \* the bootstrap administrator; nobody signs up by this name
  Forgetful,    \* those who ask for a new password
  Requests,     \* the requests a browser may have in flight
  MaxCsrf,      \* bound on the CSRF tokens, but for those of sign-ups on their way
  MaxResets,    \* bound on the password reset tokens
  MaxCrashes,   \* bound on killed requests and restarts
  None

ASSUME UsersAssumption == Admin \in Users /\ Forgetful \subseteq Users /\ None \notin Users
ASSUME BoundsAssumption == MaxCsrf \in Nat /\ MaxResets \in Nat /\ MaxCrashes \in Nat

VARIABLES
  authRequired, \* app.state.auth_required
  acct,         \* the rows of users; tokens are numbers, 0 is none
  cookie,       \* the browser's session
  form,         \* the page a tab shows: the session it was rendered from
  req,          \* the requests in flight
  csrfs,        \* the CSRF tokens generated so far
  resets,       \* the reset tokens generated so far
  mailed,       \* the reset tokens that were mailed
  lost,         \* those whose mail failed, or whose request died first
  spent,        \* those a request saw and replaced or removed
  gone,         \* the browser ended a session, with nothing in flight, and has begun none
  crashes
tokenVars == <<resets, mailed, lost, spent>>
browserVars == <<cookie, form, gone>>
vars == <<authRequired, acct, cookie, form, req, csrfs, resets, mailed, lost, spent, gone, crashes>>

Row == [known : BOOLEAN, active : BOOLEAN, reset : Nat]
NoRow == [known |-> FALSE, active |-> FALSE, reset |-> 0]
NewRow == [known |-> TRUE, active |-> TRUE, reset |-> 0]

Session == [user : Users \cup {None}, csrf : Nat]
Nobody == [user |-> None, csrf |-> 0]

\* What a request has in hand: the session it is to send back and whether it came
\* with one, the row it writes, the user it acts for and the user of its page.
Idle == [pc |-> "idle", kind |-> "none", sess |-> Nobody, had |-> FALSE, row |-> None,
         old |-> NoRow, new |-> NoRow, token |-> 0, acts |-> None, page |-> None]

Init ==
  /\ \E known \in SUBSET Users :
       /\ acct = [u \in Users |-> IF u \in known THEN NewRow ELSE NoRow]
       /\ authRequired = (known # {})
  /\ cookie = Nobody /\ form = Nobody
  /\ req = [r \in Requests |-> Idle]
  /\ csrfs = 0 /\ resets = 0
  /\ mailed = {} /\ lost = {} /\ spent = {}
  /\ gone = FALSE
  /\ crashes = 0

At(r, label) == req[r].pc = label
Set(r, q) == req' = [req EXCEPT ![r] = q]

-------------------------------------------------------------------------------
\* get_current_user: the row decides; a session of an inactive user is cleared.
Current(s) == IF authRequired /\ s.user # None /\ acct[s.user].active THEN s.user ELSE None
Checked(s) == IF authRequired /\ s.user # None /\ ~acct[s.user].active THEN Nobody ELSE s

\* ensure_csrf_token: a session keeps its token.
EnsureToken(s) == IF s.csrf = 0 THEN [s EXCEPT !.csrf = csrfs + 1] ELSE s
Generated(s) == csrfs' = IF s.csrf > csrfs THEN s.csrf ELSE csrfs

\* set_authenticated_user_session clears the session, so that its token is new.
SignedInKept(u) ==                    \* mutant: the session is not cleared first
  EnsureToken([cookie EXCEPT !.user = u])
SignedIn(u) == EnsureToken([Nobody EXCEPT !.user = u])

\* A request with a copy of the browser's session that is to send back s.
Came(kind, s) == [Idle EXCEPT !.pc = "respond", !.kind = kind, !.sess = s,
                              !.had = (cookie # Nobody)]

\* A request whose work is done, with s to send back.
Answer(q, s) == [Idle EXCEPT !.pc = "respond", !.had = q.had, !.sess = s,
                             !.kind = IF q.kind = "signup" THEN "login" ELSE "pass"]

\* A request that does not look at the session: a failed login, a health check.
Pass(r) ==
  /\ At(r, "idle")
  /\ Set(r, Came("pass", cookie))
  /\ UNCHANGED <<authRequired, acct, browserVars, csrfs, tokenVars, crashes>>

\* A page, or a read.  A page for somebody has a token.
View(r) ==
  /\ At(r, "idle")
  /\ LET s == Checked(cookie)
         t == IF authRequired /\ Current(cookie) = None THEN s ELSE EnsureToken(s) IN
       /\ t.csrf <= MaxCsrf
       /\ Set(r, Came("view", t))
       /\ Generated(t)
  /\ UNCHANGED <<authRequired, acct, browserVars, tokenVars, crashes>>

\* login_api, with the right password.
Login(r) ==
  /\ At(r, "idle")
  /\ \E u \in Users :
       /\ acct[u].known /\ acct[u].active
       /\ SignedIn(u).csrf <= MaxCsrf
       /\ Set(r, Came("login", SignedIn(u)))
       /\ Generated(SignedIn(u))
  /\ UNCHANGED <<authRequired, acct, browserVars, tokenVars, crashes>>

\* signup_api: create_user looks for the name ...
SignUp(r) ==
  /\ At(r, "idle")
  /\ csrfs < MaxCsrf
  /\ \E u \in Users \ {Admin} :
       /\ ~acct[u].known
       /\ Set(r, [Came("signup", cookie) EXCEPT !.pc = "create", !.row = u])
  /\ UNCHANGED <<authRequired, acct, browserVars, csrfs, tokenVars, crashes>>

\* The session of an answered sign-up; an administrator who made the account keeps theirs.
CreatedSession(q) == IF q.kind = "signup" THEN SignedIn(q.row) ELSE q.sess

CreateLater(r) ==                     \* mutant: the row is left to be committed later
  LET q == req[r] IN
  /\ At(r, "create")
  /\ Set(r, Answer(q, CreatedSession(q)))
  /\ Generated(CreatedSession(q))
  /\ UNCHANGED <<authRequired, acct, browserVars, tokenVars, crashes>>

\* ... and inserts it, unless another request has (uq_users_username): then it fails.
Create(r) ==
  LET q == req[r] IN
  /\ At(r, "create")
  /\ IF acct[q.row].known
     THEN Set(r, Idle) /\ UNCHANGED <<acct, csrfs>>
     ELSE /\ acct' = [acct EXCEPT ![q.row] = NewRow]
          /\ Set(r, Answer(q, CreatedSession(q)))
          /\ Generated(CreatedSession(q))
  /\ UNCHANGED <<authRequired, browserVars, tokenVars, crashes>>

-------------------------------------------------------------------------------
\* A POST from the page a tab shows: _require_csrf compares the page's token with
\* the session's.  Without auth_required nothing is compared.
Matches(s) == ~authRequired \/ (form.csrf # 0 /\ form.csrf = s.csrf)
Posted(kind, s) == [Came(kind, s) EXCEPT !.acts = Current(cookie), !.page = form.user]

Logout(r) ==
  /\ At(r, "idle")
  /\ Matches(Checked(cookie))
  /\ Set(r, Posted("logout", Nobody))
  /\ UNCHANGED <<authRequired, acct, browserVars, csrfs, tokenVars, crashes>>

\* What change_password, reset_password_with_token and update_user make of a row.
Rekeyed(row) == [row EXCEPT !.reset = 0]
Writing(q, u, new) == [q EXCEPT !.pc = "commit", !.row = u, !.old = acct[u], !.new = new]

ChangePassword(r) ==
  LET u == Current(cookie) IN
  /\ At(r, "idle")
  /\ u # None
  /\ Matches(Checked(cookie))
  /\ Set(r, Writing(Posted("password", Checked(cookie)), u, Rekeyed(acct[u])))
  /\ UNCHANGED <<authRequired, acct, browserVars, csrfs, tokenVars, crashes>>

\* update_admin_user_api: an activation, with or without a new password.
UpdateUser(r) ==
  /\ At(r, "idle")
  /\ Current(cookie) = Admin
  /\ Matches(Checked(cookie))
  /\ \E u \in Users, active, password \in BOOLEAN :
       /\ acct[u].known
       /\ LET row == IF password THEN Rekeyed(acct[u]) ELSE acct[u] IN
          Set(r, Writing(Posted("update", Checked(cookie)), u, [row EXCEPT !.active = active]))
  /\ UNCHANGED <<authRequired, acct, browserVars, csrfs, tokenVars, crashes>>

\* create_admin_user_api
CreateUser(r) ==
  /\ At(r, "idle")
  /\ Current(cookie) = Admin
  /\ Matches(Checked(cookie))
  /\ \E u \in Users :
       /\ ~acct[u].known
       /\ Set(r, [Posted("create", Checked(cookie)) EXCEPT !.pc = "create", !.row = u])
  /\ UNCHANGED <<authRequired, acct, browserVars, csrfs, tokenVars, crashes>>

\* forgot_password_api: issue_password_reset_token
Forgot(r) ==
  /\ At(r, "idle")
  /\ resets < MaxResets
  /\ resets' = resets + 1
  /\ \E u \in Forgetful :
       /\ acct[u].known
       /\ Set(r, [Writing(Came("forgot", cookie), u, [acct[u] EXCEPT !.reset = resets'])
                    EXCEPT !.token = resets'])
  /\ UNCHANGED <<authRequired, acct, browserVars, csrfs, mailed, lost, spent, crashes>>

\* reset_password_api, with a token that was mailed and is the row's
Reset(r) ==
  /\ At(r, "idle")
  /\ \E u \in Users :
       /\ acct[u].reset \in mailed
       /\ Set(r, Writing(Came("reset", cookie), u, Rekeyed(acct[u])))
  /\ UNCHANGED <<authRequired, acct, browserVars, csrfs, tokenVars, crashes>>

FlushAll(old, new, row) == new        \* mutant: the whole row is written back
Flush(old, new, row) ==
  [known  |-> row.known,
   active |-> IF new.active = old.active THEN row.active ELSE new.active,
   reset  |-> IF new.reset = old.reset THEN row.reset ELSE new.reset]

Commit(r) ==
  LET q == req[r] IN
  /\ At(r, "commit")
  /\ acct' = [acct EXCEPT ![q.row] = Flush(q.old, q.new, @)]
  /\ spent' = spent \cup ({q.old.reset} \ {q.new.reset, 0})
  /\ Set(r, IF q.kind = "forgot"
            THEN [Answer(q, q.sess) EXCEPT !.pc = "mail", !.row = q.row, !.token = q.token]
            ELSE Answer(q, q.sess))
  /\ UNCHANGED <<authRequired, browserVars, csrfs, resets, mailed, lost, crashes>>

MailedBefore(r) == req[r].old.reset   \* mutant: the link is made from the row as loaded
\* The row is read again after the commit, and its token mailed, if it still has one.
MailedToken(r) == acct[req[r].row].reset

Mail(r) ==
  /\ At(r, "mail")
  /\ mailed' = mailed \cup ({MailedToken(r)} \ {0})
  /\ Set(r, Answer(req[r], req[r].sess))
  /\ UNCHANGED <<authRequired, acct, browserVars, csrfs, resets, lost, spent, crashes>>

\* Delivery fails: the request is answered with 503 and the token stays.
MailFails(r) ==
  /\ At(r, "mail")
  /\ lost' = lost \cup {req[r].token}
  /\ Set(r, Answer(req[r], req[r].sess))
  /\ UNCHANGED <<authRequired, acct, browserVars, csrfs, resets, mailed, spent, crashes>>

-------------------------------------------------------------------------------
\* The session middleware: a session is sent, an emptied one deletes the cookie.
CookieKept(q) ==                      \* mutant: an emptied session is just not sent
  IF q.sess # Nobody THEN q.sess ELSE cookie
CookieAfter(q) == IF q.sess # Nobody THEN q.sess ELSE IF q.had THEN Nobody ELSE cookie

\* The page of a view: with the token, when there is somebody to have one.
Shown(q) ==
  [q.sess EXCEPT !.csrf = IF authRequired /\ q.sess.user = None THEN 0 ELSE @]

Respond(r) ==
  LET q == req[r] IN
  /\ At(r, "respond")
  /\ cookie' = CookieAfter(q)
  /\ form' \in IF q.kind = "view" THEN {form, Shown(q)} ELSE {form}
  /\ gone' = IF q.kind = "logout" /\ q.had /\ \A p \in Requests \ {r} : At(p, "idle") THEN TRUE
             ELSE IF q.kind = "login" THEN FALSE ELSE gone
  /\ Set(r, Idle)
  /\ UNCHANGED <<authRequired, acct, csrfs, tokenVars, crashes>>

\* A request is killed; its session is not sent.
Crash(r) ==
  /\ ~At(r, "idle")
  /\ crashes < MaxCrashes
  /\ crashes' = crashes + 1
  /\ lost' = IF At(r, "mail") THEN lost \cup {req[r].token} ELSE lost
  /\ Set(r, Idle)
  /\ UNCHANGED <<authRequired, acct, browserVars, csrfs, resets, mailed, spent>>

\* lifespan: the process starts again.  ensure_bootstrap_admin, where it is
\* configured, creates the administrator, and gives it the configured password, which
\* leaves its other columns alone.  Then it is settled whether there are users.
Restart ==
  /\ crashes < MaxCrashes
  /\ crashes' = crashes + 1
  /\ acct' \in {acct, [acct EXCEPT ![Admin] = IF @.known THEN @ ELSE NewRow]}
  /\ authRequired' = (\E u \in Users : acct'[u].known)
  /\ lost' = lost \cup {req[r].token : r \in {p \in Requests : At(p, "mail")}}
  /\ req' = [r \in Requests |-> Idle]
  /\ UNCHANGED <<browserVars, csrfs, resets, mailed, spent>>

-------------------------------------------------------------------------------
Arrive(r) == \/ Pass(r) \/ CreateUser(r) \/ View(r) \/ Login(r) \/ SignUp(r) \/ Logout(r)
             \/ ChangePassword(r) \/ UpdateUser(r) \/ Forgot(r) \/ Reset(r)
Handle(r) == Create(r) \/ Commit(r) \/ Mail(r) \/ MailFails(r) \/ Respond(r) \/ Crash(r)

Next == Restart \/ \E r \in Requests : Arrive(r) \/ Handle(r)

Spec == Init /\ [][Next]_vars

-------------------------------------------------------------------------------
Kinds == {"none", "pass", "view", "login", "signup", "create", "logout", "password", "update",
          "forgot", "reset"}
Request == [pc : {"idle", "create", "commit", "mail", "respond"}, kind : Kinds,
            sess : Session, had : BOOLEAN, row : Users \cup {None},
            old : Row, new : Row, token : Nat,
            acts : Users \cup {None}, page : Users \cup {None}]

\* The rows and the sessions are of the kinds the code stores, and a session names an
\* account that is there: it is set after the account's commit.
TypeOK ==
  /\ authRequired \in BOOLEAN /\ gone \in BOOLEAN
  /\ acct \in [Users -> Row]
  /\ cookie \in Session /\ form \in Session
  /\ req \in [Requests -> Request]
  /\ csrfs \in Nat /\ resets \in Nat /\ crashes \in Nat
  /\ mailed \subseteq Nat /\ lost \subseteq Nat /\ spent \subseteq Nat
  /\ cookie.user # None => acct[cookie.user].known
  /\ \A r \in Requests : req[r].sess.user # None => acct[req[r].sess.user].known

\* A POST acts for the user whose page it was sent from: when another tab has logged
\* in as somebody else, or a slow response has brought an older cookie back, the page's
\* CSRF token no longer is the session's (_require_csrf, set_authenticated_user_session).
ActsForItsPage ==
  \A r \in Requests : req[r].acts # None => req[r].acts = req[r].page

\* A reset token that a request has seen and replaced or removed never comes back,
\* whatever copies of the row other requests still have to commit: a password change,
\* a reset or a newer token ends it for good (change_password,
\* reset_password_with_token, issue_password_reset_token, update_user).
SpentStaysSpent == \A u \in Users : acct[u].reset \notin spent

\* The token of a row is in a mail, will be, or was lost with its request: when
\* requests for a new token overlap, the mails do not all name tokens that were
\* replaced (forgot_password_api).
LiveTokenMailed ==
  \A u \in Users : acct[u].reset # 0 =>
    \/ acct[u].reset \in mailed \cup lost
    \/ \E r \in Requests : At(r, "mail") /\ req[r].token = acct[u].reset

\* A browser that ended its session with no other request in flight stays logged out
\* until somebody logs in.  (With one in flight it may not: its response sends the old
\* session again, because every request with a user writes the session.)
LogoutHolds == gone => cookie.user = None
===============================================================================
