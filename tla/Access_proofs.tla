----------------------------- MODULE Access_proofs -----------------------------
(***************************************************************************)
(* What Access promises, for any users, requests and bounds.  Every step   *)
(* but a restart is one request's: it changes that request, and what it    *)
(* writes is described by a few facts about the request's new value, from  *)
(* which each part of the invariant follows.                               *)
(***************************************************************************)
EXTENDS Access, TLAPS

\* A request that is not in flight has nothing in hand, one that is to write a row
\* knows which, a logout has an empty session, and a login is soon answered.
Shape(q) ==
  /\ q.pc = "idle" => q = Idle
  /\ q.pc \in {"create", "commit", "mail"} => q.row \in Users
  /\ q.kind = "logout" => q.sess = Nobody
  /\ q.kind = "login" => q.pc = "respond"

\* A session names an account that is there, in a state whose rows are given by a.
Named(s, a) == s.user # None => a[s.user].known

TypeInv ==
  /\ TypeOK
  /\ \A r \in Requests : Shape(req[r])

LEMMA IdleOK == Idle \in Request /\ Shape(Idle) /\ Idle.sess = Nobody /\ Nobody \in Session
BY DEF Idle, Request, Shape, Nobody, Kinds, Row, NoRow, Session

\* The sessions that a handler makes of the browser's are sessions of known accounts.
LEMMA SessionsOK ==
  ASSUME TypeInv
  PROVE  /\ Checked(cookie) \in Session /\ Named(Checked(cookie), acct)
         /\ \A u \in Users : SignedIn(u) \in Session /\ SignedIn(u).user = u
         /\ \A s \in Session : /\ EnsureToken(s) \in Session
                               /\ EnsureToken(s).user = s.user
         /\ Current(cookie) \in Users \cup {None}
<1>1. cookie \in Session /\ Named(cookie, acct) /\ csrfs \in Nat /\ Nobody \in Session
  BY IdleOK DEF TypeInv, TypeOK, Named
<1>2. ASSUME NEW s \in Session
      PROVE  EnsureToken(s) \in Session /\ EnsureToken(s).user = s.user
  BY <1>1 DEF EnsureToken, Session
<1>3. Checked(cookie) \in Session /\ Named(Checked(cookie), acct)
  BY <1>1 DEF Checked, Named, Nobody
<1>4. ASSUME NEW u \in Users
      PROVE  SignedIn(u) \in Session /\ SignedIn(u).user = u
  <2>1. [Nobody EXCEPT !.user = u] \in Session /\ [Nobody EXCEPT !.user = u].user = u
    BY DEF Nobody, Session
  <2>. QED BY <2>1, <1>2 DEF SignedIn
<1>5. Current(cookie) \in Users \cup {None}
  BY <1>1 DEF Current, Session
<1>. QED BY <1>2, <1>3, <1>4, <1>5

\* A request that comes has the shape of one.
LEMMA CameOK ==
  ASSUME TypeInv, NEW k \in Kinds, NEW s \in Session, k = "logout" => s = Nobody
  PROVE  /\ Came(k, s) \in Request /\ Shape(Came(k, s))
         /\ Came(k, s).pc = "respond" /\ Came(k, s).kind = k /\ Came(k, s).sess = s
         /\ Posted(k, s) \in Request /\ Shape(Posted(k, s))
         /\ Posted(k, s).pc = "respond" /\ Posted(k, s).kind = k /\ Posted(k, s).sess = s
<1>1. /\ Came(k, s) \in Request /\ Shape(Came(k, s))
      /\ Came(k, s).pc = "respond" /\ Came(k, s).kind = k /\ Came(k, s).sess = s
  BY DEF Came, Shape, Idle, Request, Row, NoRow
<1>2. form.user \in Users \cup {None}
  BY DEF TypeInv, TypeOK, Session
<1>. DEFINE c == Came(k, s)
            a == Current(cookie)
            f == form.user
<1>3. a \in Users \cup {None}
  BY SessionsOK
<1>. HIDE DEF c, a, f
<1>4. LET p == [c EXCEPT !.acts = a, !.page = f] IN
        p \in Request /\ Shape(p) /\ p.pc = "respond" /\ p.kind = k /\ p.sess = s
  BY <1>1, <1>2, <1>3 DEF c, f, Request, Shape
<1>5. Posted(k, s) = [c EXCEPT !.acts = a, !.page = f]
  BY DEF Posted, c, a, f
<1>. QED BY <1>1, <1>4, <1>5

\* One that is to write a row
LEMMA WritingOK ==
  ASSUME TypeInv, NEW q \in Request, NEW u \in Users, NEW row \in Row,
         q.kind \notin {"logout", "login"}
  PROVE  LET w == Writing(q, u, row) IN
         /\ w \in Request /\ Shape(w) /\ w.sess = q.sess /\ w.kind = q.kind
         /\ w.pc = "commit" /\ w.row = u /\ w.old = acct[u] /\ w.new = row
<1>1. acct[u] \in Row
  BY DEF TypeInv, TypeOK
<1>. DEFINE a == acct[u]
<1>. HIDE DEF a
<1>2. LET w == [q EXCEPT !.pc = "commit", !.row = u, !.old = a, !.new = row] IN
         /\ w \in Request /\ Shape(w) /\ w.sess = q.sess /\ w.kind = q.kind
         /\ w.pc = "commit" /\ w.row = u /\ w.old = a /\ w.new = row
  BY <1>1 DEF Request, Shape, a
<1>. QED BY <1>2 DEF Writing, a

\* One that is answered
LEMMA AnswerOK ==
  ASSUME NEW q \in Request, NEW s \in Session
  PROVE  LET a == Answer(q, s) IN
         /\ a \in Request /\ Shape(a) /\ a.sess = s /\ a.pc = "respond"
         /\ a.kind = IF q.kind = "signup" THEN "login" ELSE "pass"
<1>. DEFINE k == IF q.kind = "signup" THEN "login" ELSE "pass"
            h == q.had
<1>1. k \in Kinds /\ k # "logout" /\ h \in BOOLEAN
  BY DEF Kinds, Request
<1>. HIDE DEF k, h
<1>. DEFINE a == [Idle EXCEPT !.pc = "respond", !.had = h, !.sess = s, !.kind = k]
<1>2. a \in Request /\ a.sess = s /\ a.pc = "respond" /\ a.kind = k
  BY <1>1 DEF Request, Idle, Row, NoRow
<1>. HIDE DEF a
<1>3. Shape(a)
  BY <1>1, <1>2 DEF Shape, Idle
<1>. QED BY <1>2, <1>3 DEF Answer, a, k, h
\* A step of one request leaves the others alone.
Changes(r) ==
  /\ req' \in [Requests -> Request]
  /\ \A p \in Requests \ {r} : req'[p] = req[p]
  /\ Shape(req'[r])

LEMMA ChangesOK ==
  ASSUME TypeInv, NEW r \in Requests, NEW q \in Request, Shape(q), Set(r, q)
  PROVE  Changes(r) /\ req'[r] = q
BY DEF Set, Changes, TypeInv, TypeOK

-------------------------------------------------------------------------------
\* The session a request comes with is the browser's, or one with no token, or with a
\* new one; it names somebody else than the browser's only when it logs in.
CameWith(q) ==
  /\ q.pc \in {"create", "commit", "respond"}
  /\ Named(q.sess, acct)
  /\ q.sess = cookie \/ q.sess.csrf = 0 \/ q.sess.csrf = csrfs + 1
  /\ csrfs' \in Nat /\ csrfs <= csrfs'
  /\ q.sess = cookie \/ q.sess.csrf <= csrfs'
  /\ q.kind # "login" => q.sess.user \in {None, cookie.user}

\* A POST that acts for somebody carries the token of that user's session.
ActsBy(q) ==
  q.acts # None =>
    /\ q.acts = cookie.user /\ q.page = form.user
    /\ form.csrf # 0 /\ form.csrf = cookie.csrf

\* A handler that is to write a row has loaded it; it is to leave the reset token, to
\* remove it, or to replace it by a new one.
Loaded(q) ==
  q.pc = "commit" =>
    /\ q.old = acct[q.row] /\ q.new.known = q.old.known
    /\ IF q.kind = "forgot"
       THEN q.new.reset = resets + 1 /\ q.token = resets + 1 /\ resets' = resets + 1
       ELSE q.new.reset \in {0, q.old.reset}

Arrived(r) ==
  /\ At(r, "idle")
  /\ Changes(r)
  /\ CameWith(req'[r]) /\ ActsBy(req'[r]) /\ Loaded(req'[r])
  /\ resets' \in {resets, resets + 1}
  /\ UNCHANGED <<authRequired, acct, browserVars, mailed, lost, spent, crashes>>

\* The browser's session suits CameWith, also when an inactive user's is emptied.
LEMMA CookieSuits ==
  ASSUME TypeInv, NEW s \in {cookie, Checked(cookie), Nobody}
  PROVE  /\ s \in Session /\ Named(s, acct)
         /\ s = cookie \/ (s.csrf = 0 /\ s.user = None)
BY SessionsOK, IdleOK DEF TypeInv, TypeOK, Checked, Nobody, Named

\* Requests that come with no more than the browser's session
LEMMA HandedArrives ==
  ASSUME TypeInv, NEW r \in Requests, NEW q \in Request, Shape(q),
         q.sess \in {cookie, Checked(cookie), Nobody},
         q.pc \in {"create", "commit", "respond"}, ActsBy(q), Loaded(q),
         At(r, "idle"), Set(r, q), csrfs' = csrfs, resets' \in {resets, resets + 1},
         UNCHANGED <<authRequired, acct, browserVars, mailed, lost, spent, crashes>>
  PROVE  Arrived(r)
<1>1. /\ Named(q.sess, acct)
      /\ q.sess = cookie \/ (q.sess.csrf = 0 /\ q.sess.user = None)
  BY CookieSuits
<1>2. Changes(r) /\ req'[r] = q
  BY ChangesOK
<1>3. csrfs \in Nat
  BY DEF TypeInv, TypeOK
<1>4. CameWith(q)
  BY <1>1, <1>3 DEF CameWith
<1>. QED BY <1>2, <1>4 DEF Arrived

\* One that only asks acts for nobody.
LEMMA CameActs ==
  ASSUME NEW k, NEW s
  PROVE  Came(k, s).acts = None
BY DEF Came, Idle

\* One whose token was compared acts by it.
LEMMA PostedActs ==
  ASSUME TypeInv, Matches(Checked(cookie)), NEW k \in Kinds, NEW s \in Session
  PROVE  Posted(k, s).acts = Current(cookie) /\ ActsBy(Posted(k, s))
<1>1. Posted(k, s).acts = Current(cookie) /\ Posted(k, s).page = form.user
  BY DEF Posted, Came, Idle
<1>2. CASE Current(cookie) = None
  BY <1>1, <1>2 DEF ActsBy
<1>3. CASE Current(cookie) # None
  <2>1. Current(cookie) = cookie.user /\ Checked(cookie) = cookie /\ authRequired
    BY <1>3 DEF Current, Checked
  <2>. QED BY <1>1, <2>1 DEF ActsBy, Matches
<1>. QED BY <1>2, <1>3

LEMMA ViewArrives ==
  ASSUME TypeInv, NEW r \in Requests, View(r)
  PROVE  Arrived(r)
<1>. DEFINE s == Checked(cookie)
<1>1. s \in Session /\ Named(s, acct) /\ (s = cookie \/ (s.csrf = 0 /\ s.user = None))
  BY CookieSuits
<1>2. PICK t \in {s, EnsureToken(s)} : Set(r, Came("view", t)) /\ Generated(t)
  BY DEF View
<1>. HIDE DEF s
<1>3. csrfs \in Nat
  BY DEF TypeInv, TypeOK
<1>4. t \in Session /\ t.user = s.user
  BY <1>1, <1>2, SessionsOK
<1>5. t = s \/ t.csrf = csrfs + 1
  BY <1>1, <1>2, <1>3 DEF EnsureToken, Session
<1>. DEFINE q == Came("view", t)
<1>6. q \in Request /\ Shape(q) /\ q.pc = "respond" /\ q.sess = t /\ q.kind = "view"
  BY <1>4, CameOK DEF Kinds
<1>7. q.acts = None
  BY DEF Came, Idle
<1>8. Set(r, q)
  BY <1>2
<1>. HIDE DEF q
<1>9. Changes(r) /\ req'[r] = q
  BY <1>6, <1>8, ChangesOK
<1>10. Named(t, acct)
  BY <1>1, <1>4 DEF Named
<1>11. csrfs' \in Nat /\ csrfs <= csrfs' /\ t.csrf <= csrfs'
  BY <1>2, <1>3, <1>4 DEF Generated, Session
<1>12. CameWith(q)
  BY <1>1, <1>4, <1>5, <1>6, <1>10, <1>11 DEF CameWith
<1>13. ActsBy(q) /\ Loaded(q)
  BY <1>6, <1>7 DEF ActsBy, Loaded
<1>. QED BY <1>9, <1>12, <1>13 DEF Arrived, View, tokenVars

LEMMA LoginArrives ==
  ASSUME TypeInv, NEW r \in Requests, Login(r)
  PROVE  Arrived(r)
<1>1. PICK u \in Users : /\ acct[u].known
                         /\ Set(r, Came("login", SignedIn(u))) /\ Generated(SignedIn(u))
  BY DEF Login
<1>. DEFINE t == SignedIn(u)
            q == Came("login", t)
<1>2. t \in Session /\ t.user = u
  BY SessionsOK
<1>3. csrfs \in Nat
  BY DEF TypeInv, TypeOK
<1>4. t.csrf = csrfs + 1
  BY <1>3 DEF SignedIn, EnsureToken, Nobody
<1>5. Set(r, q) /\ Generated(t)
  BY <1>1
<1>. HIDE DEF t
<1>6. q \in Request /\ Shape(q) /\ q.pc = "respond" /\ q.sess = t /\ q.kind = "login"
  BY <1>2, CameOK DEF Kinds
<1>7. q.acts = None
  BY DEF Came, Idle
<1>. HIDE DEF q
<1>8. Changes(r) /\ req'[r] = q
  BY <1>5, <1>6, ChangesOK
<1>9. Named(t, acct)
  BY <1>1, <1>2 DEF Named
<1>10. csrfs' = csrfs + 1
  BY <1>3, <1>4, <1>5 DEF Generated
<1>11. CameWith(q)
  BY <1>3, <1>4, <1>6, <1>9, <1>10 DEF CameWith
<1>12. ActsBy(q) /\ Loaded(q)
  BY <1>6, <1>7 DEF ActsBy, Loaded
<1>. QED BY <1>8, <1>11, <1>12 DEF Arrived, Login, tokenVars

LEMMA PassArrives ==
  ASSUME TypeInv, NEW r \in Requests, Pass(r)
  PROVE  Arrived(r)
<1>. DEFINE q == Came("pass", cookie)
<1>1. q \in Request /\ Shape(q) /\ q.pc = "respond" /\ q.sess = cookie
  BY CookieSuits, CameOK DEF Kinds
<1>2. q.acts = None
  BY CameActs
<1>3. Set(r, q)
  BY DEF Pass
<1>. HIDE DEF q
<1>4. ActsBy(q) /\ Loaded(q)
  BY <1>1, <1>2 DEF ActsBy, Loaded
<1>. QED BY <1>1, <1>3, <1>4, HandedArrives DEF Pass, tokenVars

LEMMA SignUpArrives ==
  ASSUME TypeInv, NEW r \in Requests, SignUp(r)
  PROVE  Arrived(r)
<1>. DEFINE c == Came("signup", cookie)
<1>1. c \in Request /\ c.kind = "signup" /\ c.sess = cookie
  BY CookieSuits, CameOK DEF Kinds
<1>2. c.acts = None
  BY CameActs
<1>3. PICK u \in Users : Set(r, [c EXCEPT !.pc = "create", !.row = u])
  BY DEF SignUp
<1>. HIDE DEF c
<1>. DEFINE q == [c EXCEPT !.pc = "create", !.row = u]
<1>4. q \in Request /\ Shape(q) /\ q.pc = "create" /\ q.sess = cookie /\ q.acts = None
  BY <1>1, <1>2 DEF Request, Shape
<1>5. Set(r, q)
  BY <1>3
<1>. HIDE DEF q
<1>6. ActsBy(q) /\ Loaded(q)
  BY <1>4 DEF ActsBy, Loaded
<1>. QED BY <1>4, <1>5, <1>6, HandedArrives DEF SignUp, tokenVars

LEMMA CreateUserArrives ==
  ASSUME TypeInv, NEW r \in Requests, CreateUser(r)
  PROVE  Arrived(r)
<1>. DEFINE c == Posted("create", Checked(cookie))
<1>1. c \in Request /\ c.kind = "create" /\ c.sess = Checked(cookie)
  BY CookieSuits, CameOK DEF Kinds
<1>2. ActsBy(c)
  BY CookieSuits, PostedActs DEF CreateUser, Kinds
<1>3. PICK u \in Users : Set(r, [c EXCEPT !.pc = "create", !.row = u])
  BY DEF CreateUser
<1>. HIDE DEF c
<1>. DEFINE q == [c EXCEPT !.pc = "create", !.row = u]
<1>4. /\ q \in Request /\ Shape(q) /\ q.pc = "create" /\ q.sess = Checked(cookie)
      /\ q.acts = c.acts /\ q.page = c.page
  BY <1>1 DEF Request, Shape
<1>5. Set(r, q)
  BY <1>3
<1>. HIDE DEF q
<1>6. ActsBy(q) /\ Loaded(q)
  BY <1>2, <1>4 DEF ActsBy, Loaded
<1>. QED BY <1>4, <1>5, <1>6, HandedArrives DEF CreateUser, tokenVars

LEMMA LogoutArrives ==
  ASSUME TypeInv, NEW r \in Requests, Logout(r)
  PROVE  Arrived(r)
<1>. DEFINE q == Posted("logout", Nobody)
<1>1. q \in Request /\ Shape(q) /\ q.pc = "respond" /\ q.sess = Nobody
  BY CookieSuits, CameOK DEF Kinds
<1>2. ActsBy(q)
  BY CookieSuits, PostedActs DEF Logout, Kinds
<1>3. Set(r, q)
  BY DEF Logout
<1>. HIDE DEF q
<1>4. Loaded(q)
  BY <1>1 DEF Loaded
<1>. QED BY <1>1, <1>2, <1>3, <1>4, HandedArrives DEF Logout, tokenVars

\* A handler that is to write a row keeps whom it acts for.
LEMMA WritingArrives ==
  ASSUME TypeInv, NEW r \in Requests, NEW c \in Request,
         c.kind \notin {"logout", "login", "forgot"}, ActsBy(c),
         c.sess \in {cookie, Checked(cookie)},
         NEW u \in Users, NEW row \in Row, row.known = acct[u].known,
         row.reset \in {0, acct[u].reset}, At(r, "idle"), Set(r, Writing(c, u, row)),
         UNCHANGED <<authRequired, acct, browserVars, csrfs, tokenVars, crashes>>
  PROVE  Arrived(r)
<1>. DEFINE q == Writing(c, u, row)
<1>1. /\ q \in Request /\ Shape(q) /\ q.sess = c.sess /\ q.pc = "commit"
      /\ q.kind # "forgot" /\ q.row = u /\ q.old = acct[u] /\ q.new = row
  BY WritingOK
<1>2. q.acts = c.acts /\ q.page = c.page
  BY DEF Writing, Request
<1>. HIDE DEF q
<1>3. ActsBy(q) /\ Loaded(q)
  BY <1>1, <1>2 DEF ActsBy, Loaded
<1>4. Set(r, q)
  BY DEF q
<1>. QED BY <1>1, <1>3, <1>4, HandedArrives DEF tokenVars

\* A row with the reset token removed
LEMMA RekeyedOK ==
  ASSUME NEW row \in Row
  PROVE  Rekeyed(row) \in Row /\ Rekeyed(row).known = row.known /\ Rekeyed(row).reset = 0
BY DEF Rekeyed, Row

LEMMA ChangePasswordArrives ==
  ASSUME TypeInv, NEW r \in Requests, ChangePassword(r)
  PROVE  Arrived(r)
<1>. DEFINE u == Current(cookie)
            c == Posted("password", Checked(cookie))
<1>1. u \in Users
  BY SessionsOK DEF ChangePassword
<1>2. acct[u] \in Row
  BY <1>1 DEF TypeInv, TypeOK
<1>3. c \in Request /\ c.kind = "password" /\ c.sess = Checked(cookie)
  BY CookieSuits, CameOK DEF Kinds
<1>4. ActsBy(c)
  BY CookieSuits, PostedActs DEF ChangePassword, Kinds
<1>5. Set(r, Writing(c, u, Rekeyed(acct[u])))
  BY DEF ChangePassword
<1>. HIDE DEF u, c
<1>. QED
  BY <1>1, <1>2, <1>3, <1>4, <1>5, RekeyedOK, WritingArrives DEF ChangePassword

LEMMA UpdateUserArrives ==
  ASSUME TypeInv, NEW r \in Requests, UpdateUser(r)
  PROVE  Arrived(r)
<1>. DEFINE c == Posted("update", Checked(cookie))
<1>1. c \in Request /\ c.kind = "update" /\ c.sess = Checked(cookie)
  BY CookieSuits, CameOK DEF Kinds
<1>2. ActsBy(c)
  BY CookieSuits, PostedActs DEF UpdateUser, Kinds
<1>3. PICK u \in Users, active \in BOOLEAN, password \in BOOLEAN :
         LET row == IF password THEN Rekeyed(acct[u]) ELSE acct[u] IN
         Set(r, Writing(c, u, [row EXCEPT !.active = active]))
  BY DEF UpdateUser
<1>. DEFINE row == IF password THEN Rekeyed(acct[u]) ELSE acct[u]
<1>4. acct[u] \in Row
  BY DEF TypeInv, TypeOK
<1>5. row \in Row /\ row.known = acct[u].known /\ row.reset \in {0, acct[u].reset}
  BY <1>4, RekeyedOK
<1>6. Set(r, Writing(c, u, [row EXCEPT !.active = active]))
  BY <1>3
<1>. HIDE DEF row
<1>. DEFINE w == [row EXCEPT !.active = active]
<1>7. w \in Row /\ w.known = acct[u].known /\ w.reset \in {0, acct[u].reset}
  BY <1>5 DEF Row
<1>8. Set(r, Writing(c, u, w))
  BY <1>6
<1>. HIDE DEF w
<1>. QED BY <1>1, <1>2, <1>7, <1>8, WritingArrives DEF UpdateUser

LEMMA ResetArrives ==
  ASSUME TypeInv, NEW r \in Requests, Reset(r)
  PROVE  Arrived(r)
<1>. DEFINE c == Came("reset", cookie)
<1>1. c \in Request /\ c.kind = "reset" /\ c.sess = cookie
  BY CookieSuits, CameOK DEF Kinds
<1>2. ActsBy(c)
  BY CameActs DEF ActsBy
<1>3. PICK u \in Users : Set(r, Writing(c, u, Rekeyed(acct[u])))
  BY DEF Reset
<1>. HIDE DEF c
<1>4. acct[u] \in Row
  BY DEF TypeInv, TypeOK
<1>. QED BY <1>1, <1>2, <1>3, <1>4, RekeyedOK, WritingArrives DEF Reset

LEMMA ForgotArrives ==
  ASSUME TypeInv, NEW r \in Requests, Forgot(r)
  PROVE  Arrived(r)
<1>. DEFINE c == Came("forgot", cookie)
            t == resets + 1
<1>1. c \in Request /\ c.kind = "forgot" /\ c.sess = cookie /\ c.acts = None
  BY CookieSuits, CameOK, CameActs DEF Kinds
<1>2. resets' = t /\ t \in Nat
  BY DEF Forgot, TypeInv, TypeOK
<1>3. PICK u \in Users :
         Set(r, [Writing(c, u, [acct[u] EXCEPT !.reset = t]) EXCEPT !.token = t])
  BY <1>2, UsersAssumption DEF Forgot
<1>. HIDE DEF c, t
<1>. DEFINE row == [acct[u] EXCEPT !.reset = t]
            w == Writing(c, u, row)
            q == [w EXCEPT !.token = t]
<1>4. Set(r, q)
  BY <1>3
<1>5. acct[u] \in Row
  BY DEF TypeInv, TypeOK
<1>6. row \in Row /\ row.known = acct[u].known /\ row.reset = t
  BY <1>2, <1>5 DEF Row
<1>. HIDE DEF row
<1>7. /\ w \in Request /\ Shape(w) /\ w.sess = cookie /\ w.kind = "forgot"
      /\ w.pc = "commit" /\ w.row = u /\ w.old = acct[u] /\ w.new = row
  BY <1>1, <1>6, WritingOK
<1>8. w.acts = None
  BY <1>1 DEF Writing, Request
<1>. HIDE DEF w
<1>9. /\ q \in Request /\ Shape(q) /\ q.sess = cookie /\ q.kind = "forgot"
      /\ q.pc = "commit" /\ q.row = u /\ q.old = acct[u] /\ q.new = row
      /\ q.token = t /\ q.acts = None
  BY <1>2, <1>7, <1>8 DEF Request, Shape
<1>. HIDE DEF q
<1>10. ActsBy(q) /\ Loaded(q)
  BY <1>2, <1>6, <1>9 DEF ActsBy, Loaded, t
<1>. QED BY <1>2, <1>4, <1>9, <1>10, HandedArrives DEF Forgot, t

LEMMA Arrivals ==
  ASSUME TypeInv, NEW r \in Requests, Arrive(r)
  PROVE  Arrived(r)
BY PassArrives, ViewArrives, LoginArrives, SignUpArrives, CreateUserArrives, LogoutArrives,
   ChangePasswordArrives, UpdateUserArrives, ForgotArrives, ResetArrives DEF Arrive
-------------------------------------------------------------------------------
\* What a request on its way does: its session becomes the browser's or is dropped, and
\* an account it has inserted may get a new one.  No account disappears.
Sends(r) ==
  LET q == req'[r] IN
  /\ csrfs' \in Nat /\ csrfs <= csrfs'
  /\ \/ q.sess \in {req[r].sess, Nobody}
     \/ q.sess.csrf = csrfs + 1 /\ csrfs' = csrfs + 1 /\ q.kind = "login"
  /\ Named(q.sess, acct')
  /\ cookie' \in {cookie, Nobody, req[r].sess}
  /\ form' \in Session
  /\ form' \in {form, req[r].sess} \/ form'.csrf = 0

Handled(r) ==
  /\ ~At(r, "idle")
  /\ Changes(r)
  /\ req'[r].pc \in {"idle", "mail", "respond"} /\ req'[r].acts = None
  /\ Sends(r)
  /\ acct' \in [Users -> Row]
  /\ \A u \in Users : acct[u].known => acct'[u].known
  /\ gone' \in BOOLEAN /\ crashes' \in Nat
  /\ mailed' \subseteq Nat /\ lost' \subseteq Nat /\ spent' \subseteq Nat
  /\ UNCHANGED <<authRequired, resets>>

\* An answered request acts for nobody any more.
LEMMA AnswerActs == ASSUME NEW q, NEW s PROVE Answer(q, s).acts = None
BY DEF Answer, Idle

\* What TypeInv says of one request and the variables around it
LEMMA RequestOK ==
  ASSUME TypeInv, NEW r \in Requests
  PROVE  /\ req[r] \in Request /\ Shape(req[r]) /\ Named(req[r].sess, acct)
         /\ req[r].sess \in Session /\ req[r].old \in Row /\ req[r].new \in Row
         /\ req[r].token \in Nat
         /\ acct \in [Users -> Row] /\ cookie \in Session /\ form \in Session
         /\ gone \in BOOLEAN /\ csrfs \in Nat /\ crashes \in Nat
         /\ mailed \subseteq Nat /\ lost \subseteq Nat /\ spent \subseteq Nat
BY DEF TypeInv, TypeOK, Named, Request

LEMMA CreateHandled ==
  ASSUME TypeInv, NEW r \in Requests, Create(r)
  PROVE  Handled(r) /\ req'[r].pc # "mail"
<1>. DEFINE q == req[r]
            u == q.row
            t == CreatedSession(q)
<1>1. At(r, "create") /\ u \in Users /\ req[r] \in Request
  BY RequestOK DEF Create, At, Shape
<1>2. CASE acct[u].known
  <2>1. Set(r, Idle) /\ UNCHANGED <<acct, csrfs>>
    BY <1>2 DEF Create
  <2>2. Changes(r) /\ req'[r] = Idle
    BY <2>1, IdleOK, ChangesOK
  <2>. QED
    BY <1>1, <2>1, <2>2, RequestOK
    DEF Handled, Sends, Named, Create, At, Idle, Nobody, browserVars, tokenVars
<1>3. CASE ~acct[u].known
  <2>1. acct' = [acct EXCEPT ![u] = NewRow] /\ Set(r, Answer(q, t)) /\ Generated(t)
    BY <1>3 DEF Create
  <2>2. t \in Session
    BY <1>1, SessionsOK, RequestOK DEF CreatedSession
  <2>3. Changes(r) /\ req'[r] = Answer(q, t) /\ req'[r].sess = t
        /\ req'[r].pc = "respond"
        /\ req'[r].kind = IF q.kind = "signup" THEN "login" ELSE "pass"
    BY <1>1, <2>1, <2>2, AnswerOK, ChangesOK
  <2>4. req'[r].acts = None
    BY <2>3, AnswerActs
  <2>5. acct' \in [Users -> Row] /\ acct'[u].known
        /\ \A v \in Users : acct[v].known => acct'[v].known
    BY <1>1, <2>1, RequestOK DEF NewRow, Row
  <2>6. Sends(r)
    <3>1. CASE q.kind = "signup"
      <4>1. t.user = u /\ t.csrf = csrfs + 1 /\ csrfs' = csrfs + 1
        <5>1. t = SignedIn(u)
          BY <3>1 DEF CreatedSession
        <5>2. t.csrf = csrfs + 1 /\ csrfs + 1 > csrfs
          BY <5>1, RequestOK DEF SignedIn, EnsureToken, Nobody
        <5>. QED BY <1>1, <2>1, <5>1, <5>2, SessionsOK DEF Generated
      <4>. QED
        BY <2>3, <2>5, <3>1, <4>1, RequestOK DEF Sends, Named, Create, browserVars
    <3>2. CASE q.kind # "signup"
      <4>1. t = q.sess
        BY <3>2 DEF CreatedSession
      <4>2. csrfs' \in Nat /\ csrfs <= csrfs'
        BY <2>1, <2>2, RequestOK DEF Generated, Session
      <4>3. UNCHANGED <<cookie, form>>
        BY DEF Create, browserVars
      <4>4. req'[r].sess = req[r].sess
        BY <2>3, <4>1
      <4>. QED BY <2>5, <4>2, <4>3, <4>4, RequestOK DEF Sends, Named, Session
    <3>. QED BY <3>1, <3>2
  <2>. QED
    BY <1>1, <2>3, <2>4, <2>5, <2>6, RequestOK
    DEF Handled, Create, At, browserVars, tokenVars
<1>. QED BY <1>2, <1>3
\* A commit writes a row again, and never un-makes an account.
LEMMA FlushOK ==
  ASSUME NEW old \in Row, NEW new \in Row, NEW row \in Row
  PROVE  /\ Flush(old, new, row) \in Row
         /\ Flush(old, new, row).known = row.known
         /\ Flush(old, new, row).reset = IF new.reset = old.reset THEN row.reset ELSE new.reset
BY DEF Flush, Row

LEMMA CommitHandled ==
  ASSUME TypeInv, NEW r \in Requests, Commit(r)
  PROVE  /\ Handled(r)
         /\ req'[r].pc = "mail" => req'[r].row = req[r].row /\ req'[r].token = req[r].token
         /\ req'[r].pc = IF req[r].kind = "forgot" THEN "mail" ELSE "respond"
<1>. DEFINE q == req[r]
            u == q.row
            c == Answer(q, q.sess)
            m == [c EXCEPT !.pc = "mail", !.row = u, !.token = q.token]
            n == IF q.kind = "forgot" THEN m ELSE c
<1>1. At(r, "commit") /\ u \in Users /\ q \in Request
  BY RequestOK DEF Commit, At, Shape
<1>2. /\ c \in Request /\ Shape(c) /\ c.sess = q.sess /\ c.pc = "respond"
      /\ c.kind # "logout" /\ (q.kind = "forgot" => c.kind # "login") /\ c.acts = None
  <2>1. q.sess \in Session
    BY RequestOK
  <2>. QED BY <1>1, <2>1, AnswerOK, AnswerActs
<1>3. Set(r, n)
  BY DEF Commit
<1>4. q.token \in Nat /\ q.sess \in Session
  BY RequestOK
<1>. HIDE DEF c
<1>5. q.kind = "forgot" =>
         /\ m \in Request /\ Shape(m) /\ m.sess = q.sess /\ m.acts = None
         /\ m.row = u /\ m.token = q.token /\ m.pc = "mail"
  BY <1>1, <1>2, <1>4 DEF Request, Shape
<1>. HIDE DEF m
<1>6. /\ n \in Request /\ Shape(n) /\ n.sess = q.sess /\ n.acts = None
      /\ n.pc = IF q.kind = "forgot" THEN "mail" ELSE "respond"
      /\ n.pc = "mail" => n.row = u /\ n.token = q.token
  BY <1>2, <1>5
<1>. HIDE DEF n
<1>7. Changes(r) /\ req'[r] = n
  BY <1>3, <1>6, ChangesOK
<1>8. /\ acct' \in [Users -> Row]
      /\ \A v \in Users : acct[v].known => acct'[v].known
  <2>1. acct[u] \in Row
    BY <1>1, RequestOK
  <2>2. acct' = [acct EXCEPT ![u] = Flush(q.old, q.new, acct[u])]
    BY <1>1, RequestOK DEF Commit
  <2>. QED BY <1>1, <2>1, <2>2, FlushOK, RequestOK
<1>9. Sends(r)
  BY <1>4, <1>6, <1>7, <1>8, RequestOK DEF Sends, Named, Commit, browserVars, Session
<1>10. spent' \subseteq Nat
  BY RequestOK DEF Commit, Row
<1>. QED
  BY <1>1, <1>6, <1>7, <1>8, <1>9, <1>10, RequestOK
  DEF Handled, Commit, At, browserVars

LEMMA MailHandled ==
  ASSUME TypeInv, NEW r \in Requests, Mail(r) \/ MailFails(r)
  PROVE  Handled(r) /\ req'[r].pc = "respond"
<1>. DEFINE q == req[r]
            c == Answer(q, q.sess)
<1>1. At(r, "mail") /\ q.row \in Users /\ q \in Request
  BY RequestOK DEF Mail, MailFails, At, Shape
<1>2. c \in Request /\ Shape(c) /\ c.sess = q.sess /\ c.pc = "respond" /\ c.acts = None
  BY <1>1, RequestOK, AnswerOK, AnswerActs
<1>3. Set(r, c)
  BY DEF Mail, MailFails
<1>. HIDE DEF c
<1>4. Changes(r) /\ req'[r] = c
  BY <1>2, <1>3, ChangesOK
<1>5. UNCHANGED <<authRequired, acct, browserVars, csrfs, resets, spent, crashes>>
  BY DEF Mail, MailFails
<1>6. Sends(r)
  BY <1>2, <1>4, <1>5, RequestOK DEF Sends, Named, browserVars
<1>7. mailed' \subseteq Nat /\ lost' \subseteq Nat
  <2>1. acct[q.row].reset \in Nat /\ q.token \in Nat
    BY <1>1, RequestOK DEF Row
  <2>. QED BY <2>1, RequestOK DEF Mail, MailFails, MailedToken
<1>. QED
  BY <1>1, <1>2, <1>4, <1>5, <1>6, <1>7, RequestOK DEF Handled, At, browserVars

LEMMA RespondHandled ==
  ASSUME TypeInv, NEW r \in Requests, Respond(r)
  PROVE  Handled(r) /\ req'[r] = Idle
<1>. DEFINE q == req[r]
<1>1. At(r, "respond") /\ q \in Request /\ q.sess \in Session
  BY RequestOK DEF Respond
<1>2. Changes(r) /\ req'[r] = Idle
  BY IdleOK, ChangesOK DEF Respond
<1>3. cookie' \in {cookie, Nobody, q.sess}
  BY DEF Respond, CookieAfter
<1>4. form' \in Session /\ (form' \in {form, q.sess} \/ form'.csrf = 0)
  <2>1. form' \in {form, Shown(q)}
    BY DEF Respond
  <2>2. Shown(q) \in Session /\ (Shown(q) = q.sess \/ Shown(q).csrf = 0)
    BY <1>1 DEF Shown, Session
  <2>. QED BY <2>1, <2>2, RequestOK
<1>5. Sends(r)
  BY <1>2, <1>3, <1>4, RequestOK DEF Sends, Named, Respond, Idle, Nobody
<1>6. gone' \in BOOLEAN
  BY RequestOK DEF Respond
<1>7. UNCHANGED <<authRequired, acct, csrfs, resets, mailed, lost, spent, crashes>>
  BY DEF Respond, tokenVars
<1>. QED
  BY <1>1, <1>2, <1>5, <1>6, <1>7, RequestOK DEF Handled, At, Idle

LEMMA CrashHandled ==
  ASSUME TypeInv, NEW r \in Requests, Crash(r)
  PROVE  Handled(r) /\ req'[r] = Idle
<1>2. Changes(r) /\ req'[r] = Idle
  BY IdleOK, ChangesOK DEF Crash
<1>3. Sends(r)
  BY <1>2, RequestOK DEF Sends, Named, Crash, browserVars, Idle, Nobody
<1>4. lost' \subseteq Nat /\ crashes' \in Nat
  BY RequestOK DEF Crash
<1>. QED
  BY <1>2, <1>3, <1>4, RequestOK DEF Handled, Crash, At, browserVars, Idle

LEMMA Handlings ==
  ASSUME TypeInv, NEW r \in Requests, Handle(r)
  PROVE  Handled(r)
BY CreateHandled, CommitHandled, MailHandled, RespondHandled, CrashHandled DEF Handle
\* A restart drops the requests; the administrator may be there afterwards.
LEMMA RestartFacts ==
  ASSUME TypeInv, Restart
  PROVE  /\ req' = [r \in Requests |-> Idle]
         /\ acct' \in [Users -> Row] /\ authRequired' \in BOOLEAN
         /\ \A u \in Users : /\ acct[u].known => acct'[u].known
                             /\ acct'[u].reset \in {0, acct[u].reset}
         /\ \A u \in Users : acct'[u].reset = acct[u].reset \/ acct'[u].reset = 0
         /\ lost' = lost \cup {req[r].token : r \in {p \in Requests : At(p, "mail")}}
         /\ lost' \subseteq Nat /\ crashes' \in Nat
         /\ UNCHANGED <<cookie, form, gone, csrfs, resets, mailed, spent>>
<1>1. acct' \in [Users -> Row]
      /\ \A u \in Users : /\ acct[u].known => acct'[u].known
                          /\ acct'[u].reset \in {0, acct[u].reset}
  <2>1. CASE acct' = acct
    BY <2>1 DEF TypeInv, TypeOK
  <2>2. CASE acct' = [acct EXCEPT ![Admin] = IF @.known THEN @ ELSE NewRow]
    BY <2>2 DEF TypeInv, TypeOK, NewRow, Row
  <2>. QED BY <2>1, <2>2 DEF Restart
<1>2. lost' \subseteq Nat
  BY RequestOK DEF Restart, TypeInv, TypeOK
<1>3. crashes' \in Nat /\ authRequired' \in BOOLEAN
  BY DEF Restart, TypeInv, TypeOK
<1>. QED BY <1>1, <1>2, <1>3 DEF Restart, browserVars

LEMMA TypeArrived ==
  ASSUME TypeInv, NEW r \in Requests, Arrived(r)
  PROVE  TypeInv'
<1>1. /\ authRequired' \in BOOLEAN /\ gone' \in BOOLEAN
      /\ acct' \in [Users -> Row] /\ cookie' \in Session /\ form' \in Session
      /\ csrfs' \in Nat /\ resets' \in Nat /\ crashes' \in Nat
      /\ mailed' \subseteq Nat /\ lost' \subseteq Nat /\ spent' \subseteq Nat
      /\ cookie'.user # None => acct'[cookie'.user].known
  BY DEF TypeInv, TypeOK, Arrived, CameWith, browserVars
<1>2. /\ req' \in [Requests -> Request]
      /\ \A p \in Requests : Shape(req'[p])
  BY DEF Arrived, Changes, TypeInv
<1>3. \A p \in Requests : req'[p].sess.user # None => acct'[req'[p].sess.user].known
  BY DEF Arrived, Changes, TypeInv, TypeOK, CameWith, Named
<1>. QED BY <1>1, <1>2, <1>3 DEF TypeInv, TypeOK, Shape

LEMMA TypeHandled ==
  ASSUME TypeInv, NEW r \in Requests, Handled(r)
  PROVE  TypeInv'
<1>1. /\ authRequired' \in BOOLEAN /\ gone' \in BOOLEAN
      /\ acct' \in [Users -> Row] /\ form' \in Session
      /\ csrfs' \in Nat /\ resets' \in Nat /\ crashes' \in Nat
      /\ mailed' \subseteq Nat /\ lost' \subseteq Nat /\ spent' \subseteq Nat
  BY DEF TypeInv, TypeOK, Handled, Sends
<1>2. /\ req' \in [Requests -> Request]
      /\ \A p \in Requests : Shape(req'[p])
  BY DEF Handled, Changes, TypeInv
<1>3. \A p \in Requests : req[p].sess.user # None => acct'[req[p].sess.user].known
  BY RequestOK DEF Handled, Named, Session
<1>4. \A p \in Requests : req'[p].sess.user # None => acct'[req'[p].sess.user].known
  BY <1>3 DEF Handled, Changes, Sends, Named
<1>5. cookie' \in Session /\ (cookie'.user # None => acct'[cookie'.user].known)
  <2>1. cookie.user # None => acct'[cookie.user].known
    BY DEF TypeInv, TypeOK, Handled, Session
  <2>2. cookie' \in {cookie, Nobody, req[r].sess}
    BY DEF Handled, Sends
  <2>. QED BY <1>3, <2>1, <2>2, RequestOK, IdleOK DEF Nobody
<1>. QED BY <1>1, <1>2, <1>4, <1>5 DEF TypeInv, TypeOK, Shape

LEMMA TypeInit == Init => TypeInv
<1>. SUFFICES ASSUME Init PROVE TypeInv
  OBVIOUS
<1>1. \A r \in Requests : req[r] = Idle
  BY DEF Init
<1>2. acct \in [Users -> Row] /\ authRequired \in BOOLEAN
  BY DEF Init, NewRow, NoRow, Row
<1>3. req \in [Requests -> Request] /\ \A r \in Requests : Shape(req[r])
  BY <1>1, IdleOK DEF Init
<1>4. /\ csrfs \in Nat /\ resets \in Nat /\ crashes \in Nat /\ gone \in BOOLEAN
      /\ mailed \subseteq Nat /\ lost \subseteq Nat /\ spent \subseteq Nat
      /\ cookie = Nobody /\ form = Nobody
  BY DEF Init
<1>. QED BY <1>1, <1>2, <1>3, <1>4, IdleOK DEF TypeInv, TypeOK, Nobody

LEMMA TypeNext == TypeInv /\ [Next]_vars => TypeInv'
<1>. SUFFICES ASSUME TypeInv, [Next]_vars PROVE TypeInv'
  OBVIOUS
<1>1. CASE UNCHANGED vars
  BY <1>1 DEF TypeInv, TypeOK, vars, Shape
<1>2. CASE Restart
  <2>1. req' \in [Requests -> Request] /\ \A r \in Requests : req'[r] = Idle
    BY <1>2, RestartFacts, IdleOK
  <2>2. \A u \in Users \cup {None} : u # None /\ acct[u].known => acct'[u].known
    BY <1>2, RestartFacts
  <2>3. cookie' = cookie /\ cookie.user \in Users \cup {None}
    BY <1>2, RestartFacts DEF TypeInv, TypeOK, Session
  <2>4. cookie'.user # None => acct'[cookie'.user].known
    BY <2>2, <2>3 DEF TypeInv, TypeOK
  <2>5. \A r \in Requests : Shape(req'[r]) /\ req'[r].sess.user = None
    BY <2>1, IdleOK DEF Nobody
  <2>6. TypeOK'
    BY <1>2, <2>1, <2>4, <2>5, RestartFacts DEF TypeInv, TypeOK
  <2>. QED BY <2>5, <2>6 DEF TypeInv, Shape
<1>3. ASSUME NEW r \in Requests, Arrive(r) \/ Handle(r)
      PROVE  TypeInv'
  BY <1>3, Arrivals, Handlings, TypeArrived, TypeHandled
<1>. QED BY <1>1, <1>2, <1>3 DEF Next

\* The rows, the sessions and the requests keep their types, and every session names an
\* account that is there (create_user's commit precedes set_authenticated_user_session).
THEOREM TypeCorrect == Spec => []TypeOK
<1>1. TypeInv => TypeOK
  BY DEF TypeInv
<1>. QED BY <1>1, TypeInit, TypeNext, PTL DEF Spec
-------------------------------------------------------------------------------
\* No two users' sessions share a token, wherever they are: in the browser, in a page,
\* on the way with a request.
OneOwner(S, n) ==
  /\ \A s \in S : s.csrf <= n
  /\ \A s, t \in S : s.csrf # 0 /\ s.csrf = t.csrf => s.user = t.user
Sessions == {cookie, form} \cup {req[r].sess : r \in Requests}

OwnerInv == OneOwner(Sessions, csrfs) /\ ActsForItsPage

\* It stays so when a session with no token, or a new one, joins them.
LEMMA OneMore ==
  ASSUME NEW S \in SUBSET Session, NEW n \in Nat, NEW m \in Nat, OneOwner(S, n),
         NEW T, NEW x \in Session, T \subseteq S \cup {x}, n <= m,
         x \in S \/ x.csrf = 0 \/ (x.csrf = n + 1 /\ x.csrf <= m)
  PROVE  OneOwner(T, m)
<1>1. \A s \in S : s.csrf \in Nat
  BY DEF Session
<1>2. x.csrf \in Nat
  BY DEF Session
<1>3. \A s \in T : s.csrf <= m
  BY <1>1, <1>2 DEF OneOwner
<1>4. ASSUME NEW s \in T, NEW t \in T, s.csrf # 0, s.csrf = t.csrf
      PROVE  s.user = t.user
  BY <1>1, <1>2, <1>4 DEF OneOwner
<1>. QED BY <1>3, <1>4 DEF OneOwner

LEMMA SessionsTyped ==
  ASSUME TypeInv
  PROVE  Sessions \in SUBSET Session /\ cookie \in Sessions /\ form \in Sessions
         /\ \A r \in Requests : req[r].sess \in Sessions
BY RequestOK DEF Sessions, TypeInv, TypeOK

LEMMA OwnerArrived ==
  ASSUME TypeInv, OwnerInv, NEW r \in Requests, Arrived(r)
  PROVE  OwnerInv'
<1>. DEFINE x == req'[r].sess
<1>1. x \in Session /\ csrfs \in Nat /\ csrfs' \in Nat /\ csrfs <= csrfs'
  BY DEF Arrived, Changes, CameWith, Request, TypeInv, TypeOK
<1>2. Sessions' \subseteq Sessions \cup {x}
  BY DEF Sessions, Arrived, Changes, browserVars
<1>3. x \in Sessions \/ x.csrf = 0 \/ (x.csrf = csrfs + 1 /\ x.csrf <= csrfs')
  <2>1. CASE x = cookie
    BY <2>1, SessionsTyped
  <2>2. CASE x # cookie
    BY <2>2 DEF Arrived, CameWith
  <2>. QED BY <2>1, <2>2
<1>4. OneOwner(Sessions', csrfs')
  BY <1>1, <1>2, <1>3, SessionsTyped, OneMore DEF OwnerInv
<1>5. req'[r].acts # None => req'[r].acts = req'[r].page
  BY SessionsTyped DEF Arrived, ActsBy, OwnerInv, OneOwner
<1>6. ActsForItsPage'
  BY <1>5 DEF Arrived, Changes, OwnerInv, ActsForItsPage
<1>. QED BY <1>4, <1>6 DEF OwnerInv

LEMMA OwnerHandled ==
  ASSUME TypeInv, OwnerInv, NEW r \in Requests, Handled(r)
  PROVE  OwnerInv'
<1>. DEFINE x == req'[r].sess
            S == Sessions \cup {x, Nobody}
<1>1. /\ x \in Session /\ csrfs \in Nat /\ csrfs' \in Nat /\ csrfs <= csrfs'
      /\ Nobody \in Session /\ form' \in Session
  BY IdleOK DEF Handled, Changes, Sends, Request, TypeInv, TypeOK
<1>2. x \in Sessions \/ x.csrf = 0 \/ (x.csrf = csrfs + 1 /\ x.csrf <= csrfs')
  BY <1>1, SessionsTyped DEF Handled, Sends, Nobody
<1>3. OneOwner(Sessions \cup {x}, csrfs')
  BY <1>1, <1>2, SessionsTyped, OneMore DEF OwnerInv
<1>4. OneOwner(S, csrfs')
  <2>1. Nobody.csrf = 0
    BY DEF Nobody
  <2>. QED BY <1>1, <1>3, <2>1, SessionsTyped, OneMore
<1>5. Sessions' \subseteq S \cup {form'}
  BY SessionsTyped DEF Sessions, Handled, Changes, Sends
<1>6. form' \in S \/ form'.csrf = 0
  BY SessionsTyped DEF Handled, Sends
<1>7. OneOwner(Sessions', csrfs')
  <2>1. S \in SUBSET Session /\ csrfs' <= csrfs'
    BY <1>1, SessionsTyped
  <2>. HIDE DEF S, x
  <2>. QED BY <1>1, <1>4, <1>5, <1>6, <2>1, OneMore
<1>8. ActsForItsPage'
  BY DEF Handled, Changes, OwnerInv, ActsForItsPage
<1>. QED BY <1>7, <1>8 DEF OwnerInv

LEMMA OwnerInit == Init => OwnerInv
<1>. SUFFICES ASSUME Init PROVE OwnerInv
  OBVIOUS
<1>1. \A r \in Requests : req[r] = Idle
  BY DEF Init
<1>2. Sessions \subseteq {Nobody}
  BY <1>1, IdleOK DEF Init, Sessions
<1>3. OneOwner(Sessions, csrfs)
  BY <1>2 DEF OneOwner, Nobody, Init
<1>4. ActsForItsPage
  BY <1>1 DEF ActsForItsPage, Idle
<1>. QED BY <1>3, <1>4 DEF OwnerInv

LEMMA OwnerNext == TypeInv /\ OwnerInv /\ [Next]_vars => OwnerInv'
<1>. SUFFICES ASSUME TypeInv, OwnerInv, [Next]_vars PROVE OwnerInv'
  OBVIOUS
<1>1. CASE UNCHANGED vars
  BY <1>1 DEF OwnerInv, ActsForItsPage, Sessions, OneOwner, vars
<1>2. CASE Restart
  <2>1. /\ \A r \in Requests : req'[r] = Idle
        /\ UNCHANGED <<cookie, form, csrfs>>
    BY <1>2, RestartFacts
  <2>2. Sessions' \subseteq Sessions \cup {Nobody}
    BY <2>1, IdleOK DEF Sessions
  <2>3. Nobody.csrf = 0 /\ csrfs \in Nat /\ csrfs' = csrfs
    BY <2>1 DEF Nobody, TypeInv, TypeOK
  <2>4. OneOwner(Sessions', csrfs')
    BY <2>2, <2>3, SessionsTyped, IdleOK, OneMore DEF OwnerInv
  <2>5. ActsForItsPage'
    BY <2>1 DEF ActsForItsPage, Idle
  <2>. QED BY <2>4, <2>5 DEF OwnerInv
<1>3. ASSUME NEW r \in Requests, Arrive(r) \/ Handle(r)
      PROVE  OwnerInv'
  BY <1>3, Arrivals, Handlings, OwnerArrived, OwnerHandled
<1>. QED BY <1>1, <1>2, <1>3 DEF Next

\* A POST acts for the user whose page it was sent from (_require_csrf), because no two
\* users' sessions ever share a token: signing in clears the session and its token
\* (set_authenticated_user_session).
THEOREM PageActs == Spec => []ActsForItsPage
<1>1. OwnerInv => ActsForItsPage
  BY DEF OwnerInv
<1>. QED BY <1>1, TypeInit, TypeNext, OwnerInit, OwnerNext, PTL DEF Spec
-------------------------------------------------------------------------------
\* A reset token belongs to one row, and a token that a request is about to write is
\* known to nobody else: it is in no row, in no copy of one, and not spent.
Fresh(q) == q.pc = "commit" /\ q.kind = "forgot"

TokenBound ==
  /\ \A u \in Users : acct[u].reset <= resets
  /\ \A r \in Requests : At(r, "commit") => /\ req[r].old.reset <= resets
                                            /\ req[r].new.reset <= resets
  /\ \A r \in Requests : At(r, "mail") => req[r].token <= resets
  /\ \A t \in spent : t # 0 /\ t <= resets

\* Request q's copy of its row: other rows, of the table a, have another token.
OwnCopy(q, a) ==
  q.pc = "commit" =>
    \A v \in Users \ {q.row} : q.old.reset # 0 => q.old.reset # a[v].reset

\* What request q is about to write or to mail, and the rows
OwnToken(q, a, ended) ==
  /\ Fresh(q) => /\ q.new.reset \notin ended
                 /\ \A u \in Users : a[u].reset # q.new.reset
                 /\ q.token = q.new.reset /\ q.token # 0
  /\ q.pc = "commit" /\ ~Fresh(q) => q.new.reset \in {0, q.old.reset}
  /\ q.pc = "mail" => /\ q.token # 0
                      /\ \A u \in Users : a[u].reset = q.token => u = q.row

\* What q is about to write, and another request
Apart(q, p) ==
  Fresh(q) => /\ p.pc = "commit" => p.old.reset # q.new.reset
              /\ p.pc = "mail" => p.token # q.new.reset
              /\ Fresh(p) => p.new.reset # q.new.reset

TokenInv ==
  /\ TokenBound
  /\ \A u, v \in Users : u # v /\ acct[u].reset # 0 => acct[u].reset # acct[v].reset
  /\ \A r \in Requests : OwnCopy(req[r], acct) /\ OwnToken(req[r], acct, spent)
  /\ \A r, p \in Requests : r # p => Apart(req[r], req[p])
  /\ SpentStaysSpent

LEMMA TokenArrived ==
  ASSUME TypeInv, TokenInv, NEW r \in Requests, Arrived(r)
  PROVE  TokenInv'
<1>. DEFINE q == req'[r]
<1>1. /\ q.pc \in {"create", "commit", "respond"} /\ q \in Request /\ Shape(q)
      /\ Loaded(q) /\ resets \in Nat /\ resets' \in {resets, resets + 1}
      /\ \A p \in Requests \ {r} : req'[p] = req[p]
      /\ UNCHANGED <<acct, spent>>
  BY DEF Arrived, Changes, CameWith, TypeInv, TypeOK
<1>2. /\ \A p \in Requests : Shape(req[p]) /\ req[p] \in Request
      /\ acct \in [Users -> Row]
  BY RequestOK
<1>. HIDE DEF q
<1>3. q.pc = "commit" =>
         /\ q.row \in Users /\ q.old = acct[q.row] /\ q.old.reset \in Nat
         /\ q.old.reset <= resets
         /\ Fresh(q) => q.new.reset = resets + 1 /\ resets' = resets + 1
                        /\ q.token = q.new.reset
         /\ ~Fresh(q) => q.new.reset \in {0, q.old.reset}
         /\ q.new.reset <= resets'
  BY <1>1, <1>2 DEF Loaded, Fresh, Shape, TokenInv, TokenBound, Row
<1>4. \A u \in Users : acct[u].reset \in Nat
  BY <1>2 DEF Row
<1>5. \A p \in Requests : /\ req[p].old.reset \in Nat /\ req[p].new.reset \in Nat
                          /\ req[p].token \in Nat
  BY <1>2 DEF Request, Row
<1>6. TokenBound'
  <2>1. \A u \in Users : acct'[u].reset <= resets'
    BY <1>1, <1>4 DEF TokenInv, TokenBound
  <2>2. \A p \in Requests \ {r} : /\ At(p, "commit")' => /\ req'[p].old.reset <= resets'
                                                         /\ req'[p].new.reset <= resets'
                                  /\ At(p, "mail")' => req'[p].token <= resets'
    BY <1>1, <1>5 DEF TokenInv, TokenBound, At
  <2>3. q.pc = "commit" => q.old.reset <= resets' /\ q.new.reset <= resets'
    BY <1>1, <1>3
  <2>4. \A t \in spent' : t # 0 /\ t <= resets'
    BY <1>1 DEF TokenInv, TokenBound, TypeInv, TypeOK
  <2>. QED BY <1>1, <2>1, <2>2, <2>3, <2>4 DEF TokenBound, At, q
<1>7. OwnCopy(q, acct) /\ OwnToken(q, acct, spent)
  <2>1. OwnCopy(q, acct)
    BY <1>3 DEF OwnCopy, TokenInv
  <2>2. OwnToken(q, acct, spent)
    <3>1. resets + 1 \notin spent /\ \A u \in Users : acct[u].reset # resets + 1
      BY <1>1, <1>4 DEF TokenInv, TokenBound, TypeInv, TypeOK
    <3>. QED BY <1>1, <1>3, <3>1 DEF OwnToken, Fresh
  <2>. QED BY <2>1, <2>2
<1>8. \A p \in Requests : OwnCopy(req'[p], acct') /\ OwnToken(req'[p], acct', spent')
  BY <1>1, <1>7 DEF TokenInv, q
<1>9. \A p \in Requests \ {r} : Apart(q, req[p]) /\ Apart(req[p], q)
  <2>. SUFFICES ASSUME NEW p \in Requests \ {r}
                PROVE  Apart(q, req[p]) /\ Apart(req[p], q)
    OBVIOUS
  <2>1. Apart(q, req[p])
    BY <1>1, <1>3, <1>5 DEF Apart, Fresh, TokenInv, TokenBound, At
  <2>2. Apart(req[p], q)
    BY <1>1, <1>3, <1>5 DEF Apart, Fresh, OwnToken, TokenInv, TokenBound, At
  <2>. QED BY <2>1, <2>2
<1>10. \A p, p2 \in Requests : p # p2 => Apart(req'[p], req'[p2])
  BY <1>1, <1>9 DEF TokenInv, q
<1>. QED
  BY <1>1, <1>6, <1>8, <1>10 DEF TokenInv, SpentStaysSpent
\* It holds on when rows keep their token or lose it, and requests are done with.
LEMMA TokenKept ==
  ASSUME TypeInv, TokenInv, resets' = resets, spent' = spent,
         \A u \in Users : acct'[u].reset \in {0, acct[u].reset},
         \A p \in Requests : req'[p] = req[p] \/ req'[p].pc \in {"idle", "respond"}
  PROVE  TokenInv'
<1>1. /\ \A p \in Requests : OwnCopy(req[p], acct) /\ OwnToken(req[p], acct, spent)
      /\ \A p, o \in Requests : p # o => Apart(req[p], req[o])
      /\ TokenBound /\ SpentStaysSpent
      /\ \A u, v \in Users : u # v /\ acct[u].reset # 0 => acct[u].reset # acct[v].reset
  BY DEF TokenInv
<1>2. TokenBound'
  BY <1>1 DEF TokenBound, At, TypeInv, TypeOK
<1>3. ASSUME NEW p \in Requests
      PROVE  OwnCopy(req'[p], acct') /\ OwnToken(req'[p], acct', spent')
  <2>1. CASE req'[p] = req[p]
    BY <1>1, <2>1 DEF OwnCopy, OwnToken, Fresh
  <2>2. CASE req'[p].pc \in {"idle", "respond"}
    BY <2>2 DEF OwnCopy, OwnToken, Fresh
  <2>. QED BY <2>1, <2>2
<1>4. ASSUME NEW p \in Requests, NEW o \in Requests, p # o
      PROVE  Apart(req'[p], req'[o])
  <2>1. CASE req'[p].pc \in {"idle", "respond"} \/ req'[o].pc \in {"idle", "respond"}
    BY <2>1 DEF Apart, Fresh
  <2>2. CASE req'[p] = req[p] /\ req'[o] = req[o]
    BY <1>1, <1>4, <2>2
  <2>. QED BY <2>1, <2>2
<1>5. \A u, v \in Users : u # v /\ acct'[u].reset # 0 => acct'[u].reset # acct'[v].reset
  BY <1>1
<1>6. SpentStaysSpent'
  BY <1>1 DEF SpentStaysSpent, TokenBound
<1>. QED BY <1>2, <1>3, <1>4, <1>5, <1>6 DEF TokenInv

LEMMA TokenCommitted ==
  ASSUME TypeInv, TokenInv, NEW r \in Requests, Commit(r)
  PROVE  TokenInv'
<1>. DEFINE q == req[r]
            n == req'[r]
            u == q.row
<1>1. /\ q.pc = "commit" /\ u \in Users /\ q \in Request /\ acct \in [Users -> Row]
      /\ q.old.reset \in Nat /\ q.new.reset \in Nat
  BY RequestOK DEF Commit, At, Shape, Row
<1>2. /\ n.pc = "mail" => n.row = u /\ n.token = q.token
      /\ n.pc = IF q.kind = "forgot" THEN "mail" ELSE "respond"
      /\ \A p \in Requests \ {r} : req'[p] = req[p]
      /\ resets' = resets
  BY CommitHandled DEF Handled, Changes
<1>3. spent' = spent \cup ({q.old.reset} \ {q.new.reset, 0})
  BY DEF Commit
<1>4. /\ \A v \in Users \ {u} : acct'[v] = acct[v]
      /\ acct'[u].reset = IF q.new.reset = q.old.reset THEN acct[u].reset ELSE q.new.reset
  <2>1. acct' = [acct EXCEPT ![u] = Flush(q.old, q.new, acct[u])]
    BY <1>1 DEF Commit
  <2>. QED BY <1>1, <2>1, RequestOK, FlushOK
<1>5. /\ \A p \in Requests : OwnCopy(req[p], acct) /\ OwnToken(req[p], acct, spent)
      /\ \A p, o \in Requests : p # o => Apart(req[p], req[o])
      /\ TokenBound /\ SpentStaysSpent
      /\ \A v, w \in Users : v # w /\ acct[v].reset # 0 => acct[v].reset # acct[w].reset
  BY DEF TokenInv
<1>. HIDE DEF n
<1>6. q.new.reset \in {0, q.old.reset} \/ Fresh(q)
  BY <1>1, <1>5 DEF OwnToken, q
<1>. HIDE DEF q, u
\* The row's token after the commit: its own, none, or the fresh one.
<1>7. \/ acct'[u].reset \in {0, acct[u].reset}
      \/ Fresh(q) /\ acct'[u].reset = q.new.reset
  BY <1>4, <1>6
<1>8. Fresh(q) => /\ \A v \in Users : acct[v].reset # q.new.reset
                  /\ q.new.reset \notin spent /\ q.new.reset # 0
                  /\ q.token = q.new.reset /\ q.new.reset <= resets
  BY <1>1, <1>5 DEF OwnToken, Fresh, TokenBound, At, q
<1>9. TokenBound'
  <2>1. \A v \in Users : acct'[v].reset <= resets'
    BY <1>2, <1>4, <1>5, <1>7, <1>8 DEF TokenBound, TypeInv, TypeOK
  <2>2. \A p \in Requests \ {r} : /\ req'[p].pc = "commit" => /\ req'[p].old.reset <= resets'
                                                              /\ req'[p].new.reset <= resets'
                                  /\ req'[p].pc = "mail" => req'[p].token <= resets'
    BY <1>2, <1>5 DEF TokenBound, At
  <2>3. n.pc # "commit" /\ (n.pc = "mail" => n.token <= resets')
    BY <1>1, <1>2, <1>8 DEF Fresh
  <2>4. \A t \in spent' : t # 0 /\ t <= resets'
    BY <1>1, <1>2, <1>3, <1>5 DEF TokenBound, At, q
  <2>. QED BY <2>1, <2>2, <2>3, <2>4 DEF TokenBound, At, n
<1>10. \A v, w \in Users : v # w /\ acct'[v].reset # 0 => acct'[v].reset # acct'[w].reset
  BY <1>4, <1>5, <1>7, <1>8
<1>11. ASSUME NEW p \in Requests \ {r}
       PROVE  OwnCopy(req[p], acct') /\ OwnToken(req[p], acct', spent')
  <2>1. OwnCopy(req[p], acct) /\ OwnToken(req[p], acct, spent) /\ Apart(q, req[p])
        /\ Apart(req[p], q)
    BY <1>5, <1>11 DEF q
  <2>2. OwnCopy(req[p], acct')
    BY <1>4, <1>7, <2>1 DEF OwnCopy, Apart
  <2>3. OwnToken(req[p], acct', spent')
    BY <1>1, <1>3, <1>4, <1>7, <2>1 DEF OwnToken, Apart, Fresh
  <2>. QED BY <2>2, <2>3
<1>12. OwnCopy(n, acct') /\ OwnToken(n, acct', spent')
  <2>1. n.pc = "mail" => Fresh(q) /\ n.token = q.new.reset /\ n.row = u
    BY <1>1, <1>2, <1>8 DEF Fresh
  <2>2. \A v \in Users : n.pc = "mail" /\ acct'[v].reset = n.token => v = u
    BY <1>4, <1>8, <2>1
  <2>. QED BY <1>2, <1>8, <2>1, <2>2 DEF OwnCopy, OwnToken, Fresh
<1>13. ASSUME NEW p \in Requests \ {r}
       PROVE  Apart(n, req[p]) /\ Apart(req[p], n)
  <2>1. Apart(q, req[p]) /\ Apart(req[p], q)
    BY <1>5, <1>13 DEF q
  <2>2. n.pc = "mail" => Fresh(q) /\ n.token = q.new.reset
    BY <1>1, <1>2, <1>8 DEF Fresh
  <2>. QED BY <1>2, <2>1, <2>2 DEF Apart, Fresh
<1>14. /\ \A p \in Requests : /\ OwnCopy(req'[p], acct')
                              /\ OwnToken(req'[p], acct', spent')
       /\ \A p, o \in Requests : p # o => Apart(req'[p], req'[o])
  BY <1>2, <1>5, <1>11, <1>12, <1>13 DEF n
<1>15. SpentStaysSpent'
  <2>. SUFFICES ASSUME NEW v \in Users PROVE acct'[v].reset \notin spent'
    BY DEF SpentStaysSpent
  <2>1. acct'[v].reset \notin spent
    BY <1>4, <1>5, <1>7, <1>8 DEF SpentStaysSpent, TokenBound
  <2>2. acct'[v].reset \notin {q.old.reset} \ {q.new.reset, 0}
    <3>1. CASE v = u
      BY <1>4, <1>6, <1>8, <3>1
    <3>2. CASE v # u
      BY <1>1, <1>4, <1>5, <3>2 DEF OwnCopy, q, u
    <3>. QED BY <3>1, <3>2
  <2>. QED BY <1>3, <2>1, <2>2
<1>. QED BY <1>9, <1>10, <1>14, <1>15 DEF TokenInv
\* Only a commit touches the tokens that are in use; the other steps of a request on its
\* way are done with it.
LEMMA OthersKeep ==
  ASSUME TypeInv, NEW r \in Requests, Create(r) \/ Mail(r) \/ MailFails(r) \/ Respond(r) \/ Crash(r)
  PROVE  /\ resets' = resets /\ spent' = spent
         /\ req'[r].pc \in {"idle", "respond"}
         /\ \A p \in Requests \ {r} : req'[p] = req[p]
         /\ \A u \in Users : acct'[u].reset \in {0, acct[u].reset}
         /\ \A u \in Users : acct'[u].reset = acct[u].reset \/ acct'[u].reset = 0
<1>1. Handled(r)
  BY Handlings DEF Handle
<1>2. CASE Create(r)
  <2>1. req'[r].pc # "mail"
    BY <1>2, CreateHandled
  <2>3. spent' = spent
    BY <1>2 DEF Create, tokenVars
  <2>2. acct' = acct \/ acct' = [acct EXCEPT ![req[r].row] = NewRow]
    BY <1>2 DEF Create
  <2>. QED BY <1>1, <2>1, <2>2, <2>3, RequestOK DEF Handled, Changes, NewRow, Row
<1>3. CASE Mail(r) \/ MailFails(r)
  BY <1>1, <1>3, MailHandled DEF Mail, MailFails, Handled, Changes
<1>4. CASE Respond(r)
  <2>1. UNCHANGED <<acct, resets, spent>>
    BY <1>4 DEF Respond, tokenVars
  <2>2. req'[r].pc = "idle"
    BY <1>4, RespondHandled DEF Idle
  <2>. QED BY <1>1, <2>1, <2>2 DEF Handled, Changes
<1>5. CASE Crash(r)
  <2>1. UNCHANGED <<acct, resets, spent>>
    BY <1>5 DEF Crash
  <2>2. req'[r].pc = "idle"
    BY <1>5, CrashHandled DEF Idle
  <2>. QED BY <1>1, <2>1, <2>2 DEF Handled, Changes
<1>. QED BY <1>2, <1>3, <1>4, <1>5

LEMMA TokenInit == Init => TokenInv
<1>. SUFFICES ASSUME Init PROVE TokenInv
  OBVIOUS
<1>1. \A r \in Requests : req[r] = Idle
  BY DEF Init
<1>2. \A u \in Users : acct[u].reset = 0
  <2>1. PICK known \in SUBSET Users : acct = [u \in Users |-> IF u \in known THEN NewRow ELSE NoRow]
    BY DEF Init
  <2>. QED BY <2>1 DEF NewRow, NoRow
<1>3. resets = 0 /\ spent = {}
  BY DEF Init
<1>4. \A r \in Requests : req[r].pc = "idle"
  BY <1>1 DEF Idle
<1>. QED
  BY <1>2, <1>3, <1>4
  DEF TokenInv, TokenBound, At, OwnCopy, OwnToken, Apart, Fresh, SpentStaysSpent

LEMMA TokenNext == TypeInv /\ TokenInv /\ [Next]_vars => TokenInv'
<1>. SUFFICES ASSUME TypeInv, TokenInv, [Next]_vars PROVE TokenInv'
  OBVIOUS
<1>1. CASE UNCHANGED vars
  <2>1. /\ resets' = resets /\ spent' = spent
        /\ \A u \in Users : acct'[u].reset \in {0, acct[u].reset}
        /\ \A p \in Requests : req'[p] = req[p] \/ req'[p].pc \in {"idle", "respond"}
    BY <1>1 DEF vars
  <2>. QED BY <2>1, TokenKept
<1>2. CASE Restart
  <2>1. \A p \in Requests : req'[p].pc = "idle"
    BY <1>2, RestartFacts DEF Idle
  <2>2. /\ resets' = resets /\ spent' = spent
        /\ \A u \in Users : acct'[u].reset \in {0, acct[u].reset}
        /\ \A p \in Requests : req'[p] = req[p] \/ req'[p].pc \in {"idle", "respond"}
    BY <1>2, <2>1, RestartFacts
  <2>. QED BY <2>2, TokenKept
<1>3. ASSUME NEW r \in Requests, Arrive(r)
      PROVE  TokenInv'
  BY <1>3, Arrivals, TokenArrived
<1>4. ASSUME NEW r \in Requests, Handle(r)
      PROVE  TokenInv'
  <2>1. CASE Commit(r)
    BY <2>1, TokenCommitted
  <2>2. CASE Create(r) \/ Mail(r) \/ MailFails(r) \/ Respond(r) \/ Crash(r)
    <3>1. /\ resets' = resets /\ spent' = spent
          /\ \A u \in Users : acct'[u].reset \in {0, acct[u].reset}
          /\ \A p \in Requests : req'[p] = req[p] \/ req'[p].pc \in {"idle", "respond"}
      BY <2>2, OthersKeep
    <3>. QED BY <3>1, TokenKept
  <2>. QED BY <1>4, <2>1, <2>2 DEF Handle
<1>. QED BY <1>1, <1>2, <1>3, <1>4 DEF Next

\* A reset token that was replaced or removed stays so, whatever copies of the row other
\* requests still have to commit (issue_password_reset_token, change_password).
THEOREM SpentStays == Spec => []SpentStaysSpent
<1>1. TokenInv => SpentStaysSpent
  BY DEF TokenInv
<1>. QED BY <1>1, TypeInit, TypeNext, TokenInit, TokenNext, PTL DEF Spec

-------------------------------------------------------------------------------
LEMMA LiveNext == TypeInv /\ TokenInv /\ LiveTokenMailed /\ [Next]_vars => LiveTokenMailed'
<1>. SUFFICES ASSUME TypeInv, TokenInv, LiveTokenMailed, [Next]_vars,
                     NEW u \in Users, acct'[u].reset # 0
              PROVE  \/ acct'[u].reset \in mailed' \cup lost'
                     \/ \E r \in Requests : At(r, "mail")' /\ req'[r].token = acct'[u].reset
  BY DEF LiveTokenMailed
\* Where the token was before, if it was the row's
<1>. DEFINE t == acct[u].reset
<1>1. t # 0 => t \in mailed \cup lost \/ \E p \in Requests : At(p, "mail") /\ req[p].token = t
  BY DEF LiveTokenMailed
<1>2. CASE UNCHANGED vars
  BY <1>1, <1>2 DEF vars, At
<1>3. CASE Restart
  <2>1. acct'[u].reset = t /\ mailed' = mailed
    BY <1>3, RestartFacts
  <2>. QED BY <1>1, <1>3, <2>1, RestartFacts
<1>4. ASSUME NEW r \in Requests, Arrive(r)
      PROVE  \/ acct'[u].reset \in mailed' \cup lost'
             \/ \E p \in Requests : At(p, "mail")' /\ req'[p].token = acct'[u].reset
  <2>1. /\ At(r, "idle") /\ acct' = acct /\ mailed' = mailed /\ lost' = lost
        /\ \A p \in Requests \ {r} : req'[p] = req[p]
    BY <1>4, Arrivals DEF Arrived, Changes
  <2>. QED BY <1>1, <2>1 DEF At
<1>5. ASSUME NEW r \in Requests, Handle(r)
      PROVE  \/ acct'[u].reset \in mailed' \cup lost'
             \/ \E p \in Requests : At(p, "mail")' /\ req'[p].token = acct'[u].reset
  <2>1. CASE Commit(r)
    <3>1. /\ ~At(r, "mail") /\ mailed' = mailed /\ lost' = lost
          /\ \A p \in Requests \ {r} : req'[p] = req[p]
          /\ At(r, "commit") /\ req[r].row \in Users
      BY <2>1, CommitHandled, RequestOK DEF Commit, At, Handled, Changes, Shape
    <3>2. CASE acct'[u].reset = t
      BY <1>1, <3>1, <3>2 DEF At
    <3>3. CASE acct'[u].reset # t
      <4>1. u = req[r].row /\ acct'[u].reset = req[r].new.reset
        <5>1. acct' = [acct EXCEPT ![req[r].row] =
                         Flush(req[r].old, req[r].new, acct[req[r].row])]
          BY <2>1, <3>1, RequestOK DEF Commit
        <5>. QED BY <3>1, <3>3, <5>1, RequestOK, FlushOK
      <4>2. Fresh(req[r]) /\ req[r].token = req[r].new.reset
        <5>1. req[r].new.reset # req[r].old.reset
          BY <2>1, <3>1, <3>3, <4>1, RequestOK, FlushOK DEF Commit
        <5>. QED BY <3>1, <4>1, <5>1 DEF TokenInv, OwnToken, At
      <4>. QED BY <2>1, <4>1, <4>2, CommitHandled DEF Fresh, At
    <3>. QED BY <3>2, <3>3
  <2>2. CASE Create(r) \/ Mail(r) \/ MailFails(r) \/ Respond(r) \/ Crash(r)
    <3>1. /\ acct'[u].reset = t
          /\ \A p \in Requests \ {r} : req'[p] = req[p]
      BY <2>2, OthersKeep
    <3>2. mailed \subseteq mailed' /\ lost \subseteq lost'
      BY <2>2 DEF Create, Mail, MailFails, Respond, Crash, tokenVars
    <3>3. At(r, "mail") /\ req[r].token = t => t \in mailed' \cup lost'
      <4>. SUFFICES ASSUME At(r, "mail"), req[r].token = t PROVE t \in mailed' \cup lost'
        OBVIOUS
      <4>1. CASE Mail(r)
        <5>1. u = req[r].row
          BY DEF TokenInv, OwnToken, At
        <5>. QED BY <3>1, <4>1, <5>1 DEF Mail, MailedToken
      <4>2. CASE MailFails(r) \/ Crash(r)
        BY <4>2 DEF MailFails, Crash
      <4>3. CASE Create(r) \/ Respond(r)
        BY <4>3 DEF Create, Respond, At
      <4>. QED BY <2>2, <4>1, <4>2, <4>3
    <3>. QED BY <1>1, <3>1, <3>2, <3>3 DEF At
  <2>. QED BY <1>5, <2>1, <2>2 DEF Handle
<1>. QED BY <1>2, <1>3, <1>4, <1>5 DEF Next

\* The token of a row is in a mail, will be, or was lost with its request
\* (forgot_password_api), however many requests for one overlap.
THEOREM LiveMailed == Spec => []LiveTokenMailed
<1>1. Init => LiveTokenMailed
  BY DEF Init, LiveTokenMailed, NewRow, NoRow
<1>. QED
  BY <1>1, TypeInit, TypeNext, TokenInit, TokenNext, LiveNext, PTL DEF Spec
-------------------------------------------------------------------------------
\* Once the browser is gone, only a login brings a session with somebody in it.
LogoutInv ==
  gone => /\ cookie.user = None
          /\ \A r \in Requests : req[r].sess.user # None => req[r].kind = "login"

LEMMA LogoutNext == TypeInv /\ LogoutInv /\ [Next]_vars => LogoutInv'
<1>. SUFFICES ASSUME TypeInv, LogoutInv, [Next]_vars, gone'
              PROVE  /\ cookie'.user = None
                     /\ \A p \in Requests : req'[p].sess.user # None => req'[p].kind = "login"
  BY DEF LogoutInv
<1>0. Nobody.user = None /\ Idle.sess = Nobody
  BY DEF Nobody, Idle
<1>1. CASE UNCHANGED vars
  BY <1>1 DEF LogoutInv, vars
<1>2. CASE Restart
  BY <1>0, <1>2, RestartFacts DEF LogoutInv
<1>3. ASSUME NEW r \in Requests, Arrive(r)
      PROVE  /\ cookie'.user = None
             /\ \A p \in Requests : req'[p].sess.user # None => req'[p].kind = "login"
  BY <1>3, Arrivals DEF Arrived, Changes, CameWith, LogoutInv, browserVars
<1>4. ASSUME NEW r \in Requests, Handle(r)
      PROVE  /\ cookie'.user = None
             /\ \A p \in Requests : req'[p].sess.user # None => req'[p].kind = "login"
  <2>1. CASE Respond(r)
    <3>1. req'[r] = Idle /\ \A p \in Requests \ {r} : req'[p] = req[p]
      BY <2>1, RespondHandled DEF Handled, Changes
    <3>2. CASE gone
      <4>1. req[r].kind # "login"
        BY <2>1 DEF Respond
      <4>2. cookie' \in {cookie, Nobody, req[r].sess}
        BY <2>1, RespondHandled DEF Handled, Sends
      <4>. QED BY <1>0, <3>1, <3>2, <4>1, <4>2 DEF LogoutInv
    <3>3. CASE ~gone
      <4>1. /\ req[r].kind = "logout" /\ req[r].had
            /\ \A p \in Requests \ {r} : At(p, "idle")
        BY <2>1, <3>3 DEF Respond
      <4>2. cookie' = Nobody
        BY <2>1, <4>1, RequestOK DEF Respond, CookieAfter, Shape
      <4>3. \A p \in Requests : req'[p] = Idle
        BY <3>1, <4>1, RequestOK DEF At, Shape
      <4>. QED BY <1>0, <4>2, <4>3
    <3>. QED BY <3>2, <3>3
  <2>2. CASE Crash(r)
    <3>1. /\ req'[r] = Idle /\ \A p \in Requests \ {r} : req'[p] = req[p]
          /\ UNCHANGED <<cookie, gone>>
      BY <2>2, CrashHandled DEF Crash, browserVars, Handled, Changes
    <3>. QED BY <1>0, <3>1 DEF LogoutInv
  <2>3. CASE Create(r) \/ Commit(r) \/ Mail(r) \/ MailFails(r)
    <3>1. UNCHANGED <<cookie, gone>> /\ req[r].pc \in {"create", "commit", "mail"}
      BY <2>3 DEF Create, Commit, Mail, MailFails, browserVars, At
    <3>2. req[r].sess.user = None
      BY <3>1, RequestOK DEF LogoutInv, Shape
    <3>3. /\ \A p \in Requests \ {r} : req'[p] = req[p]
          /\ req'[r].sess \in {req[r].sess, Nobody} \/ req'[r].kind = "login"
      BY <1>4, Handlings DEF Handled, Changes, Sends
    <3>. QED BY <1>0, <3>1, <3>2, <3>3 DEF LogoutInv
  <2>. QED BY <1>4, <2>1, <2>2, <2>3 DEF Handle
<1>. QED BY <1>1, <1>2, <1>3, <1>4 DEF Next

\* A browser that ended its session with no other request in flight stays logged out
\* until somebody logs in (clear_session, and the session middleware).
THEOREM LogoutStays == Spec => []LogoutHolds
<1>1. Init => LogoutInv
  BY DEF Init, LogoutInv
<1>2. LogoutInv => LogoutHolds
  BY DEF LogoutInv, LogoutHolds
<1>. QED BY <1>1, <1>2, TypeInit, TypeNext, LogoutNext, PTL DEF Spec
================================================================================
