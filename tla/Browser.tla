------------------------------ MODULE Browser ------------------------------
(***************************************************************************)
(* One browser tab of the account's owner: UserContext, httpRequest with   *)
(* its silent refresh, the guards, and the pages that sign in, register    *)
(* and edit the profile; and another device of his.  A call of httpRequest *)
(* is one slot: its first request, then after a 401 the refresh, and the   *)
(* retry or the logout.  A handler after an await, the render and the      *)
(* effects that follow it are one step.  localStorage is left out: every   *)
(* handler sets it with the user, and reads it only for missing fields.    *)
(***************************************************************************)
EXTENDS Sessions

VARIABLES
  user,         \* "none", or whether its access token is "good" or "old"
  loadingUser, page,
  payload,      \* location.state of the created page, a user
  form,         \* the profile page: profileData, loading, isSubmitting, values, isDirty
  signedOut     \* history: the user logged out, the server agreed, and he has not
                \* asked to sign in since

browserVars == <<user, loadingUser, page, payload, form, signedOut>>
vars == <<serverVars, cookie, browserVars>>

Pages == {"home", "login", "register", "created", "profile"}
Edited == -1
NewForm == [data |-> 0, loading |-> TRUE, submitting |-> FALSE, values |-> 0, dirty |-> FALSE]

(* The cookie has the path of /api/refresh-token: it comes with no other   *)
(* request.                                                                *)
BringsCookie(req) == req = "refresh"

Request(req) ==
  [NoCall EXCEPT !.req = req, !.at = "sent", !.token = IF BringsCookie(req) THEN cookie ELSE 0]

Idle(cs) == {c \in Calls : cs[c].op = "none"}

\* a request is sent: any idle slot
Send(cs, r) == \E c \in Idle(cs) : calls' = [cs EXCEPT ![c] = r]

Start == [Request("refresh") EXCEPT !.op = "init"]

Init ==
  /\ ServerInit
  /\ user = "none" /\ loadingUser = FALSE
  /\ page \in {"home", "register"}
  /\ payload = "none"
  /\ form = NewForm
  /\ signedOut = FALSE

---------------------------------------------------------------------------
(* What follows a handler: the created page signs a new user in, the       *)
(* guards redirect, and the profile page loads when it opens and whenever  *)
(* the user object has changed.                                            *)

Guard(p, u) ==
  CASE p \in {"login", "register"} /\ u # "none" -> "home"
    [] p = "profile" /\ u = "none" -> "login"
    [] p = "created" /\ u = "none" -> "register"
    [] OTHER -> p

Open(u, changed, p, state, cs, f) ==
  LET v == IF p = "created" /\ u = "none" THEN state ELSE u
      q == Guard(p, v)
      moved == q # page \/ loadingUser
      left == IF moved THEN [c \in Calls |-> [cs[c] EXCEPT !.here = FALSE]] ELSE cs
      load == [Request("profile") EXCEPT !.op = "load", !.auth = v = "good", !.here = TRUE]
  IN  /\ user' = v
      /\ page' = q
      /\ payload' = IF q = "created" THEN state ELSE "none"
      /\ form' = IF moved THEN NewForm ELSE f
      /\ IF q = "profile" /\ (moved \/ changed) THEN Send(left, load) ELSE calls' = left

Render(u, changed, p, cs, f) == Open(u, changed, p, payload, cs, f)
Stay(cs, f) == Render(user, FALSE, page, cs, f)

---------------------------------------------------------------------------
(* The user.                                                               *)

Visit ==
  /\ UNCHANGED <<account, sessions, cookie, loadingUser, signedOut>>
  /\ \E p \in Pages \ {page} :
       IF loadingUser
       THEN page' = p /\ payload' = "none" /\ UNCHANGED <<calls, user, form>>
       ELSE Render(user, FALSE, p, calls, form)

Submit(p, op, req) ==
  /\ page = p /\ ~loadingUser /\ ~form.submitting
  /\ Send(calls, [Request(req) EXCEPT !.op = op, !.arg = account, !.here = TRUE,
                    !.auth = op = "update" /\ user = "good", !.base = form.data])
  /\ form' = [form EXCEPT !.submitting = TRUE]
  /\ UNCHANGED <<account, sessions, user, cookie, loadingUser, page, payload>>

SubmitLogin == Submit("login", "login", "login") /\ signedOut' = FALSE
SubmitRegister == Submit("register", "register", "register") /\ signedOut' = FALSE
SubmitUpdate == form.dirty /\ Submit("profile", "update", "update") /\ UNCHANGED signedOut

handleChange ==
  /\ page = "profile" /\ ~form.loading /\ form.data # 0
  /\ form' = [form EXCEPT !.values = Edited, !.dirty = TRUE]
  /\ UNCHANGED <<serverVars, user, cookie, loadingUser, page, payload, signedOut>>

ClickLogout ==
  /\ user # "none"
  /\ Send(calls, [Request("revoke") EXCEPT !.op = "logout"])
  /\ UNCHANGED <<account, sessions, cookie, browserVars>>

AccessExpires ==
  /\ user = "good"
  /\ user' = "old"
  /\ payload' = IF payload = "good" THEN "old" ELSE payload
  /\ UNCHANGED <<serverVars, cookie, loadingUser, page, form, signedOut>>

Reload ==
  LET aborted == [c \in Calls |->
        IF calls[c].at = "answered" THEN NoCall
        ELSE IF calls[c].op = "none" THEN NoCall ELSE [calls[c] EXCEPT !.op = "other", !.stage = "first", !.here = FALSE, !.base = 0]]
  IN  /\ Send(aborted, Start)
      /\ user' = "none"
      /\ loadingUser' = TRUE
      /\ form' = NewForm
      /\ UNCHANGED <<account, sessions, cookie, page, payload, signedOut>>

(* Another device of the user updates the account.  It could sign in too;  *)
(* bound: the logins that race an update are those of the tab.             *)
OtherDevice ==
  /\ account # 0
  /\ Send(calls, [Request("update") EXCEPT !.op = "other", !.arg = account, !.auth = TRUE])
  /\ UNCHANGED <<account, sessions, cookie, browserVars>>

---------------------------------------------------------------------------
(* Answers.  "stage" is where the call of httpRequest has got to.          *)

Answered(c, op, stage) == calls[c].at = "answered" /\ calls[c].op = op /\ calls[c].stage = stage
Without(c) == [calls EXCEPT ![c] = NoCall]
Again(c, stage, req) ==
  [Request(req) EXCEPT !.op = calls[c].op, !.stage = stage, !.here = calls[c].here,
     !.base = calls[c].base, !.arg = calls[c].arg, !.auth = stage = "retry" /\ calls[c].op \notin {"login", "register"}]

\* Mutant: the retry does not know what was asked.
ReqOfOp(op) == op
ReqOf(op) == IF op \in {"load", "reload"} THEN "profile" ELSE op
HttpOps == {"login", "register", "update", "load", "reload"}

\* Mutant: the request that refreshes is refreshed as well.
InterceptsAll(c) == calls[c].status = "401" /\ calls[c].stage \in {"first", "refresh"}
Intercepts(c) == calls[c].status = "401" /\ calls[c].stage = "first"

Intercepted(c) ==
  /\ calls[c].at = "answered" /\ calls[c].op \in HttpOps /\ Intercepts(c)
  /\ calls' = [calls EXCEPT ![c] = Again(c, "refresh", "refresh")]
  /\ UNCHANGED <<account, sessions, cookie, browserVars>>

\* the silent refresh: the user object is replaced, or the user logged out
Refreshed(c) ==
  /\ calls[c].at = "answered" /\ calls[c].stage = "refresh" /\ ~Intercepts(c)
  /\ UNCHANGED <<account, sessions, cookie, loadingUser, signedOut>>
  /\ IF calls[c].status = "ok"
     THEN Render("good", TRUE, page, [calls EXCEPT ![c] = Again(c, "retry", ReqOf(calls[c].op))], form)
     ELSE Stay([calls EXCEPT ![c] = Again(c, "revoke", "revoke")], form)

AfterRevoke(c) == IF calls[c].status = "ok" THEN 0 ELSE cookie

LoggedOut(c) ==
  /\ Answered(c, "logout", "first")
  /\ cookie' = AfterRevoke(c)
  /\ signedOut' = (signedOut \/ calls[c].status = "ok")
  /\ UNCHANGED <<account, sessions, loadingUser>>
  /\ Render("none", TRUE, page, Without(c), form)

Initialized(c) ==
  /\ Answered(c, "init", "first")
  /\ loadingUser' = FALSE
  /\ UNCHANGED <<account, sessions, cookie, signedOut>>
  /\ Render(IF calls[c].status = "ok" THEN "good" ELSE "none", TRUE, page, Without(c), form)

(* httpRequest returns to the page that called it.  After a refresh that   *)
(* failed and the logout, it returns the 401.                              *)
Ends(c, op) ==
  /\ calls[c].at = "answered" /\ calls[c].op = op
  /\ calls[c].stage \in {"first", "retry", "revoke"} /\ ~Intercepts(c)
  /\ UNCHANGED <<account, sessions, loadingUser>>
Succeeds(c, op) == Ends(c, op) /\ calls[c].status = "ok" /\ calls[c].stage # "revoke"
Fails(c, op) == Ends(c, op) /\ (calls[c].stage = "revoke" \/ calls[c].status # "ok")

\* Mutant: a failure leaves the form submitting.
IdledNever(c) == form
Idled(c) == IF calls[c].here THEN [form EXCEPT !.submitting = FALSE] ELSE form

\* the user as a failed call leaves it
Falls(c, p, cs, f) ==
  IF calls[c].stage = "revoke"
  THEN cookie' = AfterRevoke(c) /\ Render("none", TRUE, p, cs, f)
  ELSE UNCHANGED cookie /\ Render(user, FALSE, p, cs, f)

LoginSucceeds(c) ==
  /\ Succeeds(c, "login")
  /\ cookie' = calls[c].token
  /\ UNCHANGED signedOut
  /\ Render("good", TRUE, "home", Without(c), Idled(c))

RegisterSucceeds(c) ==
  /\ Succeeds(c, "register")
  /\ cookie' = calls[c].token
  /\ UNCHANGED signedOut
  /\ Open(user, FALSE, "created", "good", Without(c), Idled(c))

\* login() replaces the user; loadProfile is called with the token of the page that
\* submitted
UpdateSucceeds(c) ==
  /\ Succeeds(c, "update")
  /\ cookie' = calls[c].token
  /\ UNCHANGED signedOut
  /\ Render("good", TRUE, page,
       [calls EXCEPT ![c] = [Again(c, "first", "profile") EXCEPT !.op = "reload", !.auth = calls[c].stage = "first"]],
       form)

SubmitFails(c) ==
  /\ \E op \in {"login", "register", "update"} : Fails(c, op)
  /\ UNCHANGED signedOut
  /\ Falls(c, page, Without(c), Idled(c))

(* setProfileData and the effect of useAuthForm on new initial values.     *)
\* Mutant: the effect does not look at isDirty.
FilledAlways(f, data) == IF data # f.data THEN data ELSE f.values
Filled(f, data) == IF data # f.data /\ ~f.dirty THEN data ELSE f.values

Loaded(f, data) == [f EXCEPT !.data = data, !.values = Filled(f, data), !.loading = FALSE]

LoadSucceeds(c) ==
  /\ Succeeds(c, "load")
  /\ UNCHANGED <<cookie, signedOut>>
  /\ Stay(Without(c), IF calls[c].here THEN Loaded(form, calls[c].data) ELSE form)

\* resetForm brings back the initial values of the page that submitted; the effect
\* then sees the new ones, if the data has changed
ReloadSucceeds(c) ==
  LET reset == [form EXCEPT !.dirty = FALSE, !.values = calls[c].base, !.submitting = FALSE] IN
  /\ Succeeds(c, "reload")
  /\ UNCHANGED <<cookie, signedOut>>
  /\ Stay(Without(c), IF calls[c].here THEN Loaded(reset, calls[c].data) ELSE form)

\* logout is called and not awaited; when the user is gone already, the guard and the
\* navigation to the home page compete
LoadFails(c) ==
  /\ \E op \in {"load", "reload"} : Fails(c, op)
  /\ UNCHANGED signedOut
  /\ \E p \in {"home", IF calls[c].stage = "revoke" THEN "login" ELSE "home"} :
       Falls(c, p, [calls EXCEPT ![c] = [Request("revoke") EXCEPT !.op = "logout"]], form)

OtherAnswered(c) ==
  /\ Answered(c, "other", "first")
  /\ calls' = Without(c)
  /\ UNCHANGED <<account, sessions, cookie, browserVars>>

Handle(c) ==
  \/ Intercepted(c) \/ Refreshed(c) \/ LoggedOut(c) \/ Initialized(c)
  \/ LoginSucceeds(c) \/ RegisterSucceeds(c) \/ UpdateSucceeds(c) \/ SubmitFails(c)
  \/ LoadSucceeds(c) \/ ReloadSucceeds(c) \/ LoadFails(c) \/ OtherAnswered(c)

Server(c) == (Serve(c) \/ Fail(c)) /\ UNCHANGED <<cookie, browserVars>>

Next ==
  \/ Visit \/ SubmitLogin \/ SubmitRegister \/ SubmitUpdate \/ handleChange
  \/ ClickLogout \/ AccessExpires \/ Reload \/ OtherDevice
  \/ \E c \in Calls : Server(c) \/ Handle(c)

Spec == Init /\ [][Next]_vars
=============================================================================
