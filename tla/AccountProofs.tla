---------------------------- MODULE AccountProofs ----------------------------
(***************************************************************************)
(* Theorems about Browser and Sessions, for every set of requests and of   *)
(* tokens and every number of versions.                                    *)
(***************************************************************************)
EXTENDS AccountProperties, TLAPS

(* Between its check and its last statement a request is the server's.     *)
Busy == {"checked", "written", "revoked"}

KeepsBusy(cs, ds) ==
  \A c \in Calls :
    cs[c].at \in Busy \/ ds[c].at \in Busy => ds[c].at = cs[c].at /\ ds[c].req = cs[c].req

(* A slot that no call uses is idle, and only calls of httpRequest have a  *)
(* second request.                                                         *)
Orderly(call) ==
  /\ call.op = "none" => call.at = "idle"
  /\ call.stage # "first" => call.op \in HttpOps

AllOrderly(cs) == \A c \in Calls : Orderly(cs[c])

(* What the tab may make of the requests.                                  *)
Sound(cs) == cs \in [Calls -> CallStates] /\ AllOrderly(cs) /\ KeepsBusy(calls, cs)

(* Before the registration there are no sessions, and no password that     *)
(* could be checked.                                                       *)
NobodyYet ==
  account = 0 => /\ \A t \in Tokens : ~Live(t)
                 /\ \A c \in Calls : calls[c].at \notin Busy

IInv == AccountsTypeOK /\ AllOrderly(calls) /\ NobodyYet /\ OldSessionsEnd

LEMMA VersionRange == 0 \in Versions /\ 1 \in Versions
  BY VersionAssumption DEF Versions

LEMMA NoCallTyped == NoCall \in CallStates
  BY VersionRange DEF NoCall, CallStates, Stages

LEMMA RequestTyped ==
  ASSUME AccountsTypeOK, NEW req \in Requests
  PROVE  /\ Request(req) \in CallStates
         /\ Request(req).at = "sent"
         /\ Request(req).stage = "first"
<1>1. (IF BringsCookie(req) THEN cookie ELSE 0) \in Tokens \cup {0}
  BY DEF AccountsTypeOK
<1> QED
  BY <1>1, VersionRange DEF Request, BringsCookie, NoCall, CallStates, Stages

---------------------------------------------------------------------------
(* The tab.                                                                *)

LEMMA CallsSound ==
  ASSUME IInv
  PROVE  Sound(calls)
  BY DEF IInv, AccountsTypeOK, Sound, KeepsBusy

LEMMA SlotSound ==
  ASSUME NEW cs, Sound(cs), NEW c \in Calls, NEW r \in CallStates,
         cs[c].at \notin Busy, r.at \notin Busy, Orderly(r)
  PROVE  Sound([cs EXCEPT ![c] = r])
  BY DEF Sound, AllOrderly, KeepsBusy

LEMMA SendSound ==
  ASSUME NEW cs, Sound(cs), NEW r \in CallStates, r.at = "sent", r.op # "none", r.stage = "first", Send(cs, r)
  PROVE  Sound(calls')
<1>1. PICK c \in Idle(cs) : calls' = [cs EXCEPT ![c] = r]
  BY DEF Send
<1>2. c \in Calls /\ cs[c].at = "idle" /\ Orderly(r)
  BY <1>1 DEF Idle, Sound, AllOrderly, Orderly
<1>3. "idle" \notin Busy /\ "sent" \notin Busy
  BY DEF Busy
<1>4. Sound([cs EXCEPT ![c] = r])
  BY <1>2, <1>3, SlotSound
<1> QED
  BY <1>1, <1>4 DEF Sound

LEMMA Left ==
  ASSUME NEW cs, Sound(cs)
  PROVE  Sound([c \in Calls |-> [cs[c] EXCEPT !.here = FALSE]])
<1> DEFINE ds == [c \in Calls |-> [cs[c] EXCEPT !.here = FALSE]]
<1>1. ASSUME NEW c \in Calls
      PROVE  /\ ds[c] \in CallStates
             /\ ds[c].op = cs[c].op /\ ds[c].stage = cs[c].stage /\ ds[c].at = cs[c].at /\ ds[c].req = cs[c].req
  <2>1. cs[c] \in CallStates
    BY DEF Sound
  <2> QED
    BY <2>1 DEF CallStates
<1>2. ds \in [Calls -> CallStates]
  BY <1>1
<1> QED
  BY <1>1, <1>2 DEF Sound, AllOrderly, Orderly, KeepsBusy

(* A render keeps the types, whatever effects it runs.                     *)
Rendered ==
  /\ user' \in UserStates /\ payload' \in UserStates
  /\ page' \in Pages
  /\ form' \in Forms
  /\ Sound(calls')

LEMMA NewFormTyped == NewForm \in Forms
  BY VersionRange DEF NewForm, Forms

LEMMA GuardTyped ==
  ASSUME NEW p \in Pages, NEW u
  PROVE  Guard(p, u) \in Pages
  BY DEF Guard, Pages

LEMMA OpenRenders ==
  ASSUME AccountsTypeOK, NEW u \in UserStates, NEW changed \in BOOLEAN, NEW p \in Pages,
         NEW state \in UserStates, NEW cs, Sound(cs), NEW f \in Forms,
         Open(u, changed, p, state, cs, f)
  PROVE  Rendered
<1> DEFINE v == IF p = "created" /\ u = "none" THEN state ELSE u
           q == Guard(p, v)
           moved == q # page \/ loadingUser
           left == IF moved THEN [c \in Calls |-> [cs[c] EXCEPT !.here = FALSE]] ELSE cs
           load == [Request("profile") EXCEPT !.op = "load", !.auth = v = "good", !.here = TRUE]
<1>1. /\ user' = v
      /\ page' = q
      /\ payload' = IF q = "created" THEN state ELSE "none"
      /\ form' = IF moved THEN NewForm ELSE f
      /\ IF q = "profile" /\ (moved \/ changed) THEN Send(left, load) ELSE calls' = left
  BY DEF Open
<1>2. v \in UserStates /\ payload' \in UserStates
  BY <1>1 DEF UserStates
<1>3. q \in Pages
  BY GuardTyped
<1>4. form' \in Forms
  BY <1>1, NewFormTyped
<1>5. Sound(left)
  BY Left
<1>6. load \in CallStates /\ load.at = "sent" /\ load.op # "none" /\ load.stage = "first"
  <2>1. Request("profile") \in CallStates /\ Request("profile").at = "sent" /\ Request("profile").stage = "first"
    BY RequestTyped DEF Requests
  <2>2. (v = "good") \in BOOLEAN
    OBVIOUS
  <2> QED
    BY <2>1, <2>2 DEF CallStates, HttpOps
<1>7. Sound(calls')
  <2> HIDE DEF left, load, v, q, moved
  <2>1. CASE calls' = left
    BY <2>1, <1>5
  <2>2. CASE Send(left, load)
    BY <2>2, <1>5, <1>6, SendSound
  <2> QED
    BY <1>1, <2>1, <2>2
<1> QED
  BY <1>1, <1>2, <1>3, <1>4, <1>7 DEF Rendered

LEMMA RenderRenders ==
  ASSUME AccountsTypeOK, NEW u \in UserStates, NEW changed \in BOOLEAN, NEW p \in Pages,
         NEW cs, Sound(cs), NEW f \in Forms, Render(u, changed, p, cs, f)
  PROVE  Rendered
<1>1. payload \in UserStates
  BY DEF AccountsTypeOK
<1> QED
  BY <1>1, OpenRenders DEF Render

LEMMA StayRenders ==
  ASSUME AccountsTypeOK, NEW cs, Sound(cs), NEW f \in Forms, Stay(cs, f)
  PROVE  Rendered
<1>1. user \in UserStates /\ page \in Pages
  BY DEF AccountsTypeOK
<1> QED
  BY <1>1, RenderRenders DEF Stay

(* A step of the tab leaves account and sessions alone.                    *)
LEMMA TabStep ==
  ASSUME IInv, UNCHANGED <<account, sessions>>, Rendered,
         cookie' \in Tokens \cup {0}, loadingUser' \in BOOLEAN, signedOut' \in BOOLEAN
  PROVE  IInv'
<1>1. AccountsTypeOK'
  BY DEF IInv, AccountsTypeOK, Rendered, Sound
<1>2. AllOrderly(calls')
  BY DEF Rendered, Sound
<1>3. KeepsBusy(calls, calls')
  BY DEF Rendered, Sound
<1>4. NobodyYet'
  BY <1>3 DEF IInv, NobodyYet, Live, KeepsBusy
<1>5. OldSessionsEnd'
  BY <1>3 DEF IInv, OldSessionsEnd, KeepsBusy, Busy, At
<1> QED
  BY <1>1, <1>2, <1>4, <1>5 DEF IInv, AllOrderly

---------------------------------------------------------------------------
(* What the user does.                                                     *)

LEMMA VisitKeeps ==
  ASSUME IInv, Visit
  PROVE  IInv'
<1> USE DEF Visit
<1>1. AccountsTypeOK /\ Sound(calls) /\ form \in Forms /\ user \in UserStates
  BY CallsSound DEF IInv, AccountsTypeOK
<1>2. PICK p \in Pages \ {page} :
        IF loadingUser
        THEN page' = p /\ payload' = "none" /\ UNCHANGED <<calls, user, form>>
        ELSE Render(user, FALSE, p, calls, form)
  OBVIOUS
<1>3. Rendered
  <2>1. CASE loadingUser
    BY <1>1, <1>2, <2>1 DEF Rendered, UserStates
  <2>2. CASE ~loadingUser
    BY <1>1, <1>2, <2>2, RenderRenders
  <2> QED
    BY <2>1, <2>2
<1>4. cookie' \in Tokens \cup {0} /\ loadingUser' \in BOOLEAN /\ signedOut' \in BOOLEAN
  BY <1>1 DEF AccountsTypeOK
<1> QED
  BY <1>3, <1>4, TabStep

(* Steps that only send one request and change the form.                   *)
LEMMA SubmitKeeps ==
  ASSUME IInv, NEW p, NEW op \in {"login", "register", "update"},
         Submit(p, op, op), signedOut' \in BOOLEAN
  PROVE  IInv'
<1> DEFINE r == [Request(op) EXCEPT !.op = op, !.arg = account, !.here = TRUE,
                    !.auth = op = "update" /\ user = "good", !.base = form.data]
<1>1. AccountsTypeOK /\ Sound(calls) /\ account \in Versions /\ form \in Forms
  BY CallsSound DEF IInv, AccountsTypeOK
<1>2. r \in CallStates /\ r.at = "sent" /\ r.op # "none" /\ r.stage = "first"
  <2>1. /\ Request(op) \in CallStates
        /\ Request(op).at = "sent" /\ Request(op).stage = "first"
    BY <1>1, RequestTyped DEF Requests
  <2>2. form.data \in Versions /\ (op = "update" /\ user = "good") \in BOOLEAN
    BY <1>1 DEF Forms
  <2> QED
    BY <1>1, <2>1, <2>2 DEF CallStates, HttpOps
<1>3. Send(calls, r)
  BY DEF Submit
<1>4. Sound(calls')
  <2> HIDE DEF r
  <2> QED
    BY <1>1, <1>2, <1>3, SendSound
<1>5. form' \in Forms
  BY <1>1 DEF Submit, Forms
<1>6. Rendered
  BY <1>1, <1>4, <1>5 DEF Rendered, Submit, AccountsTypeOK
<1>7. cookie' \in Tokens \cup {0} /\ loadingUser' \in BOOLEAN
  BY <1>1 DEF Submit, AccountsTypeOK
<1> QED
  BY <1>6, <1>7, TabStep DEF Submit

LEMMA ChangeKeeps ==
  ASSUME IInv, handleChange
  PROVE  IInv'
<1> USE DEF handleChange, serverVars
<1>1. AccountsTypeOK /\ Sound(calls)
  BY CallsSound DEF IInv
<1>2. form' \in Forms
  BY <1>1 DEF AccountsTypeOK, Forms
<1>3. Rendered
  BY <1>1, <1>2 DEF Rendered, AccountsTypeOK
<1> QED
  BY <1>1, <1>3, TabStep DEF AccountsTypeOK

(* The requests that are sent beside the pages.                            *)
LEMMA SendKeeps ==
  ASSUME IInv, UNCHANGED <<account, sessions, cookie, browserVars>>, Sound(calls')
  PROVE  IInv'
<1> USE DEF browserVars
<1>1. Rendered
  BY DEF Rendered, IInv, AccountsTypeOK
<1> QED
  BY <1>1, TabStep DEF IInv, AccountsTypeOK

LEMMA LogoutKeeps ==
  ASSUME IInv, ClickLogout
  PROVE  IInv'
<1> DEFINE r == [Request("revoke") EXCEPT !.op = "logout"]
<1>1. /\ Request("revoke") \in CallStates
      /\ Request("revoke").at = "sent" /\ Request("revoke").stage = "first"
  BY RequestTyped DEF Requests, IInv
<1>2. r \in CallStates /\ r.at = "sent" /\ r.op # "none" /\ r.stage = "first"
  BY <1>1 DEF CallStates
<1>3. Sound(calls')
  <2>1. Send(calls, r)
    BY DEF ClickLogout
  <2> HIDE DEF r
  <2> QED
    BY <2>1, <1>2, CallsSound, SendSound
<1> QED
  BY <1>3, SendKeeps DEF ClickLogout

LEMMA OtherDeviceKeeps ==
  ASSUME IInv, OtherDevice
  PROVE  IInv'
<1> DEFINE r == [Request("update") EXCEPT !.op = "other", !.arg = account, !.auth = TRUE]
<1>1. /\ Request("update") \in CallStates
      /\ Request("update").at = "sent" /\ Request("update").stage = "first"
  BY RequestTyped DEF Requests, IInv
<1>2. account \in Versions
  BY DEF IInv, AccountsTypeOK
<1>3. r \in CallStates /\ r.at = "sent" /\ r.op # "none" /\ r.stage = "first"
  BY <1>1, <1>2 DEF CallStates
<1>4. Sound(calls')
  <2>1. Send(calls, r)
    BY DEF OtherDevice
  <2> HIDE DEF r
  <2> QED
    BY <2>1, <1>3, CallsSound, SendSound
<1> QED
  BY <1>4, SendKeeps DEF OtherDevice

LEMMA ExpiryKeeps ==
  ASSUME IInv, AccessExpires
  PROVE  IInv'
<1> USE DEF AccessExpires, serverVars
<1>1. Rendered
  BY CallsSound DEF Rendered, IInv, AccountsTypeOK, UserStates
<1> QED
  BY <1>1, TabStep DEF IInv, AccountsTypeOK

LEMMA ReloadKeeps ==
  ASSUME IInv, Reload
  PROVE  IInv'
<1> DEFINE aborted == [c \in Calls |->
             IF calls[c].at = "answered" THEN NoCall
             ELSE IF calls[c].op = "none" THEN NoCall
             ELSE [calls[c] EXCEPT !.op = "other", !.stage = "first", !.here = FALSE, !.base = 0]]
<1>1. AccountsTypeOK /\ Sound(calls)
  BY CallsSound DEF IInv
<1>2. Sound(aborted)
  <2>1. ASSUME NEW c \in Calls
        PROVE  /\ aborted[c] \in CallStates /\ Orderly(aborted[c])
               /\ calls[c].at \in Busy \/ aborted[c].at \in Busy
                    => aborted[c].at = calls[c].at /\ aborted[c].req = calls[c].req
    <3>1. calls[c] \in CallStates /\ Orderly(calls[c])
      BY <1>1 DEF Sound, AllOrderly
    <3>2. CASE calls[c].at = "answered" \/ calls[c].op = "none"
      BY <3>1, <3>2, NoCallTyped DEF Orderly, NoCall, Busy
    <3>3. CASE ~(calls[c].at = "answered" \/ calls[c].op = "none")
      BY <3>1, <3>3, VersionRange DEF Orderly, CallStates, Stages
    <3> QED
      BY <3>2, <3>3
  <2>2. aborted \in [Calls -> CallStates]
    BY <2>1
  <2> HIDE DEF aborted
  <2> QED
    BY <2>1, <2>2 DEF Sound, AllOrderly, KeepsBusy
<1>3. Start \in CallStates /\ Start.at = "sent" /\ Start.op # "none" /\ Start.stage = "first"
  <2>1. /\ Request("refresh") \in CallStates
        /\ Request("refresh").at = "sent" /\ Request("refresh").stage = "first"
    BY <1>1, RequestTyped DEF Requests
  <2> QED
    BY <2>1 DEF Start, CallStates
<1>4. Sound(calls')
  <2>1. Send(aborted, Start)
    BY DEF Reload
  <2> HIDE DEF aborted
  <2> QED
    BY <2>1, <1>2, <1>3, SendSound
<1>5. Rendered
  BY <1>1, <1>4, NewFormTyped DEF Reload, Rendered, AccountsTypeOK, UserStates
<1> QED
  BY <1>1, <1>5, TabStep DEF Reload, AccountsTypeOK

---------------------------------------------------------------------------
(* The answers.                                                            *)

LEMMA AnswerTyped ==
  ASSUME IInv, NEW c \in Calls
  PROVE  calls[c] \in CallStates /\ Orderly(calls[c])
  BY DEF IInv, AccountsTypeOK, AllOrderly

LEMMA ReplaceSound ==
  ASSUME IInv, NEW c \in Calls, calls[c].at = "answered",
         NEW r \in CallStates, r.at = "sent", Orderly(r)
  PROVE  Sound([calls EXCEPT ![c] = r])
<1>1. "answered" \notin Busy /\ "sent" \notin Busy
  BY DEF Busy
<1> QED
  BY <1>1, CallsSound, SlotSound

LEMMA WithoutSound ==
  ASSUME IInv, NEW c \in Calls, calls[c].at = "answered"
  PROVE  Sound(Without(c))
<1>1. "answered" \notin Busy /\ NoCall.at \notin Busy /\ Orderly(NoCall)
  BY DEF Busy, NoCall, Orderly
<1> QED
  BY <1>1, CallsSound, NoCallTyped, SlotSound DEF Without

LEMMA AgainTyped ==
  ASSUME IInv, NEW c \in Calls, NEW stage \in Stages, NEW req \in Requests
  PROVE  /\ Again(c, stage, req) \in CallStates
         /\ Again(c, stage, req).at = "sent"
         /\ Again(c, stage, req).op = calls[c].op
         /\ Again(c, stage, req).stage = stage
<1>1. Request(req) \in CallStates /\ Request(req).at = "sent"
  BY RequestTyped DEF IInv
<1>2. calls[c] \in CallStates
  BY AnswerTyped
<1>3. (stage = "retry" /\ calls[c].op \notin {"login", "register"}) \in BOOLEAN
  OBVIOUS
<1> QED
  BY <1>1, <1>2, <1>3 DEF Again, CallStates

(* The next request of a call of httpRequest.                              *)
LEMMA AgainSound ==
  ASSUME IInv, NEW c \in Calls, calls[c].at = "answered", calls[c].op \in HttpOps,
         NEW stage \in Stages, NEW req \in Requests
  PROVE  Sound([calls EXCEPT ![c] = Again(c, stage, req)])
<1>1. Orderly(Again(c, stage, req))
  BY AgainTyped DEF Orderly, HttpOps
<1> QED
  BY <1>1, AgainTyped, ReplaceSound

LEMMA InterceptedKeeps ==
  ASSUME IInv, NEW c \in Calls, Intercepted(c)
  PROVE  IInv'
<1>1. Sound([calls EXCEPT ![c] = Again(c, "refresh", "refresh")])
  BY AgainSound DEF Intercepted, Stages, Requests
<1> QED
  BY <1>1, SendKeeps DEF Intercepted

LEMMA RefreshedKeeps ==
  ASSUME IInv, NEW c \in Calls, Refreshed(c)
  PROVE  IInv'
<1> DEFINE again == [calls EXCEPT ![c] = Again(c, "retry", ReqOf(calls[c].op))]
           ending == [calls EXCEPT ![c] = Again(c, "revoke", "revoke")]
<1>1. AccountsTypeOK /\ form \in Forms /\ page \in Pages
  BY DEF IInv, AccountsTypeOK
<1>2. calls[c].at = "answered" /\ calls[c].op \in HttpOps
  BY AnswerTyped DEF Refreshed, Orderly
<1>3. ReqOf(calls[c].op) \in Requests
  BY <1>2 DEF ReqOf, Requests, HttpOps
<1>4. Sound(again) /\ Sound(ending)
  BY <1>2, <1>3, AgainSound DEF Stages, Requests
<1>5. IF calls[c].status = "ok" THEN Render("good", TRUE, page, again, form) ELSE Stay(ending, form)
  BY DEF Refreshed
<1>6. Rendered
  <2> HIDE DEF again, ending
  <2>1. "good" \in UserStates
    BY DEF UserStates
  <2> QED
    BY <1>1, <1>4, <1>5, <2>1, RenderRenders, StayRenders
<1> QED
  BY <1>1, <1>6, TabStep DEF Refreshed, AccountsTypeOK

LEMMA LoggedOutKeeps ==
  ASSUME IInv, NEW c \in Calls, LoggedOut(c)
  PROVE  IInv'
<1> USE DEF LoggedOut, Answered
<1>1. AccountsTypeOK /\ form \in Forms /\ page \in Pages
  BY DEF IInv, AccountsTypeOK
<1>2. Rendered
  BY <1>1, WithoutSound, RenderRenders DEF UserStates
<1>3. cookie' \in Tokens \cup {0} /\ loadingUser' \in BOOLEAN
  BY <1>1 DEF AfterRevoke, AccountsTypeOK
<1>4. signedOut' \in BOOLEAN
  BY <1>1 DEF AccountsTypeOK
<1> QED
  BY <1>2, <1>3, <1>4, TabStep

LEMMA InitializedKeeps ==
  ASSUME IInv, NEW c \in Calls, Initialized(c)
  PROVE  IInv'
<1> USE DEF Initialized, Answered
<1>1. AccountsTypeOK /\ form \in Forms /\ page \in Pages
  BY DEF IInv, AccountsTypeOK
<1>2. Rendered
  BY <1>1, WithoutSound, RenderRenders DEF UserStates
<1> QED
  BY <1>1, <1>2, TabStep DEF AccountsTypeOK

LEMMA IdledTyped ==
  ASSUME IInv, NEW c \in Calls
  PROVE  Idled(c) \in Forms
<1>1. form \in Forms
  BY DEF IInv, AccountsTypeOK
<1>2. [form EXCEPT !.submitting = FALSE] \in Forms
  BY <1>1 DEF Forms
<1> QED
  BY <1>1, <1>2 DEF Idled

LEMMA LoadedTyped ==
  ASSUME NEW f \in Forms, NEW data \in Versions
  PROVE  Loaded(f, data) \in Forms
<1>1. Filled(f, data) \in Versions \cup {Edited}
  BY DEF Filled, Forms
<1> QED
  BY <1>1 DEF Loaded, Forms

LEMMA SignInKeeps ==
  ASSUME IInv, NEW c \in Calls, LoginSucceeds(c) \/ RegisterSucceeds(c)
  PROVE  IInv'
<1> USE DEF LoginSucceeds, RegisterSucceeds, Succeeds, Ends
<1>1. AccountsTypeOK /\ user \in UserStates /\ "good" \in UserStates /\ {"home", "created"} \subseteq Pages
  BY DEF IInv, AccountsTypeOK, UserStates, Pages
<1>2. Rendered
  BY <1>1, WithoutSound, IdledTyped, OpenRenders, RenderRenders
<1>3. cookie' \in Tokens \cup {0}
  BY AnswerTyped DEF CallStates
<1> QED
  BY <1>1, <1>2, <1>3, TabStep DEF AccountsTypeOK

LEMMA UpdateSucceedsKeeps ==
  ASSUME IInv, NEW c \in Calls, UpdateSucceeds(c)
  PROVE  IInv'
<1> USE DEF UpdateSucceeds, Succeeds, Ends
<1> DEFINE r == [Again(c, "first", "profile") EXCEPT !.op = "reload", !.auth = calls[c].stage = "first"]
<1>1. AccountsTypeOK /\ form \in Forms /\ page \in Pages /\ "good" \in UserStates
  BY DEF IInv, AccountsTypeOK, UserStates
<1>2. r \in CallStates /\ r.at = "sent" /\ Orderly(r)
  <2>1. /\ Again(c, "first", "profile") \in CallStates
        /\ Again(c, "first", "profile").at = "sent"
        /\ Again(c, "first", "profile").stage = "first"
    BY AgainTyped DEF Stages, Requests
  <2>2. (calls[c].stage = "first") \in BOOLEAN
    OBVIOUS
  <2> QED
    BY <2>1, <2>2 DEF CallStates, HttpOps, Orderly
<1>3. Render("good", TRUE, page, [calls EXCEPT ![c] = r], form)
  OBVIOUS
<1>4. Rendered
  <2> HIDE DEF r
  <2>1. Sound([calls EXCEPT ![c] = r])
    BY <1>2, ReplaceSound
  <2> QED
    BY <1>1, <1>3, <2>1, RenderRenders
<1>5. cookie' \in Tokens \cup {0}
  BY AnswerTyped DEF CallStates
<1> QED
  BY <1>1, <1>4, <1>5, TabStep DEF AccountsTypeOK

LEMMA FallsRenders ==
  ASSUME IInv, NEW c \in Calls, NEW p \in Pages, NEW cs, Sound(cs), NEW f \in Forms,
         Falls(c, p, cs, f)
  PROVE  Rendered /\ cookie' \in Tokens \cup {0}
<1>1. AccountsTypeOK /\ user \in UserStates /\ "none" \in UserStates /\ cookie \in Tokens \cup {0}
  BY DEF IInv, AccountsTypeOK, UserStates
<1> QED
  BY <1>1, RenderRenders DEF Falls, AfterRevoke

LEMMA SubmitFailsKeeps ==
  ASSUME IInv, NEW c \in Calls, SubmitFails(c)
  PROVE  IInv'
<1> USE DEF SubmitFails, Fails, Ends
<1>1. AccountsTypeOK /\ page \in Pages
  BY DEF IInv, AccountsTypeOK
<1>2. Rendered /\ cookie' \in Tokens \cup {0}
  BY <1>1, WithoutSound, IdledTyped, FallsRenders
<1> QED
  BY <1>1, <1>2, TabStep DEF AccountsTypeOK

LEMMA LoadSucceedsKeeps ==
  ASSUME IInv, NEW c \in Calls, LoadSucceeds(c)
  PROVE  IInv'
<1> USE DEF LoadSucceeds, Succeeds, Ends
<1>1. AccountsTypeOK /\ form \in Forms /\ calls[c].data \in Versions
  BY AnswerTyped DEF IInv, AccountsTypeOK, CallStates
<1>2. Rendered
  BY <1>1, LoadedTyped, WithoutSound, StayRenders
<1> QED
  BY <1>1, <1>2, TabStep DEF AccountsTypeOK

LEMMA ReloadSucceedsKeeps ==
  ASSUME IInv, NEW c \in Calls, ReloadSucceeds(c)
  PROVE  IInv'
<1> USE DEF ReloadSucceeds, Succeeds, Ends
<1> DEFINE reset == [form EXCEPT !.dirty = FALSE, !.values = calls[c].base, !.submitting = FALSE]
<1>1. AccountsTypeOK /\ form \in Forms /\ calls[c].data \in Versions /\ calls[c].base \in Versions
  BY AnswerTyped DEF IInv, AccountsTypeOK, CallStates
<1>2. reset \in Forms
  BY <1>1 DEF Forms
<1>3. Stay(Without(c), IF calls[c].here THEN Loaded(reset, calls[c].data) ELSE form)
  OBVIOUS
<1>4. Rendered
  <2> HIDE DEF reset
  <2> QED
    BY <1>1, <1>2, <1>3, LoadedTyped, WithoutSound, StayRenders
<1> QED
  BY <1>1, <1>4, TabStep DEF AccountsTypeOK

LEMMA LoadFailsKeeps ==
  ASSUME IInv, NEW c \in Calls, LoadFails(c)
  PROVE  IInv'
<1> USE DEF LoadFails, Fails, Ends
<1> DEFINE r == [Request("revoke") EXCEPT !.op = "logout"]
<1>1. AccountsTypeOK /\ form \in Forms
  BY DEF IInv, AccountsTypeOK
<1>2. /\ Request("revoke") \in CallStates
      /\ Request("revoke").at = "sent" /\ Request("revoke").stage = "first"
  BY <1>1, RequestTyped DEF Requests
<1>3. r \in CallStates /\ r.at = "sent" /\ Orderly(r)
  BY <1>2 DEF CallStates, Orderly
<1>4. \E p \in {"home", "login"} : Falls(c, p, [calls EXCEPT ![c] = r], form)
  OBVIOUS
<1>5. Rendered /\ cookie' \in Tokens \cup {0}
  <2> HIDE DEF r
  <2>1. Sound([calls EXCEPT ![c] = r])
    BY <1>3, ReplaceSound
  <2> QED
    BY <1>1, <1>4, <2>1, FallsRenders DEF Pages
<1> QED
  BY <1>1, <1>5, TabStep DEF AccountsTypeOK

LEMMA OtherAnsweredKeeps ==
  ASSUME IInv, NEW c \in Calls, OtherAnswered(c)
  PROVE  IInv'
  BY WithoutSound, SendKeeps DEF OtherAnswered, Answered

---------------------------------------------------------------------------
(* The server.                                                             *)

(* One request is answered or goes on to its next statement: whatever its  *)
(* slot becomes, the others stay as they are.                              *)
Slot(c, r) == calls' = [calls EXCEPT ![c] = r]

LEMMA SlotStep ==
  ASSUME IInv, NEW c \in Calls, NEW r, Slot(c, r), r \in CallStates,
         r.op = calls[c].op, r.stage = calls[c].stage, calls[c].at # "idle"
  PROVE  /\ calls' \in [Calls -> CallStates]
         /\ AllOrderly(calls')
         /\ \A d \in Calls : d # c => calls'[d] = calls[d]
         /\ calls'[c] = r
<1>1. calls \in [Calls -> CallStates]
  BY DEF IInv, AccountsTypeOK
<1>2. Orderly(r)
  BY AnswerTyped DEF Orderly
<1>3. \A d \in Calls : Orderly(calls[d])
  BY AnswerTyped
<1> QED
  BY <1>1, <1>2, <1>3 DEF Slot, AllOrderly

LEMMA AnswerStep ==
  ASSUME IInv, NEW c \in Calls, NEW status \in {"ok", "401", "failed"}, NEW data \in Versions,
         NEW token \in Tokens \cup {0}, Answer(c, status, data, token), calls[c].at # "idle"
  PROVE  /\ calls' \in [Calls -> CallStates]
         /\ AllOrderly(calls')
         /\ \A d \in Calls : d # c => calls'[d] = calls[d]
         /\ calls'[c].at = "answered"
<1> DEFINE r == [calls[c] EXCEPT !.at = "answered", !.status = status, !.auth = FALSE,
                                 !.data = data, !.token = token]
<1>1. calls \in [Calls -> CallStates] /\ calls[c] \in CallStates
  BY AnswerTyped DEF IInv, AccountsTypeOK
<1>2. /\ r \in CallStates
      /\ r.op = calls[c].op /\ r.stage = calls[c].stage /\ r.at = "answered"
  BY <1>1 DEF CallStates
<1>3. Slot(c, r)
  BY <1>1 DEF Slot, Answer
<1> HIDE DEF r
<1> QED
  BY <1>2, <1>3, SlotStep

LEMMA GoesStep ==
  ASSUME IInv, NEW c \in Calls, NEW at \in Busy, Goes(c, at), calls[c].at # "idle"
  PROVE  /\ calls' \in [Calls -> CallStates]
         /\ AllOrderly(calls')
         /\ \A d \in Calls : d # c => calls'[d] = calls[d]
         /\ calls'[c].at = at /\ calls'[c].req = calls[c].req
<1> DEFINE r == [calls[c] EXCEPT !.at = at]
<1>1. calls \in [Calls -> CallStates] /\ calls[c] \in CallStates
  BY AnswerTyped DEF IInv, AccountsTypeOK
<1>2. /\ r \in CallStates
      /\ r.op = calls[c].op /\ r.stage = calls[c].stage /\ r.at = at /\ r.req = calls[c].req
  BY <1>1 DEF CallStates, Busy
<1>3. Slot(c, r)
  BY <1>1 DEF Slot, Goes
<1> HIDE DEF r
<1> QED
  BY <1>2, <1>3, SlotStep

(* A step that changes requests only.                                      *)
LEMMA RequestStep ==
  ASSUME IInv, UNCHANGED <<account, sessions, cookie, browserVars>>, NEW c \in Calls,
         calls' \in [Calls -> CallStates], AllOrderly(calls'),
         \A d \in Calls : d # c => calls'[d] = calls[d],
         ~At(c, "update", "written"),
         calls'[c].at \in Busy => account # 0
  PROVE  IInv'
<1>1. AccountsTypeOK'
  BY DEF IInv, AccountsTypeOK, browserVars
<1>2. NobodyYet'
  BY DEF IInv, NobodyYet, Live
<1>3. OldSessionsEnd'
  BY DEF IInv, OldSessionsEnd, At
<1> QED
  BY <1>1, <1>2, <1>3 DEF IInv, AllOrderly

LEMMA RefuseKeeps ==
  ASSUME IInv, NEW c \in Calls, NEW status \in {"401", "failed"}, Refuse(c, status),
         calls[c].at # "idle", ~At(c, "update", "written"),
         UNCHANGED <<account, sessions, cookie, browserVars>>
  PROVE  IInv'
<1>1. /\ calls' \in [Calls -> CallStates] /\ AllOrderly(calls')
      /\ \A d \in Calls : d # c => calls'[d] = calls[d]
      /\ calls'[c].at = "answered"
  BY AnswerStep, VersionRange DEF Refuse
<1> QED
  BY <1>1, RequestStep DEF Busy

LEMMA NextTokenUnused ==
  ASSUME Unused # {}
  PROVE  NextToken \in Tokens /\ ~Live(NextToken)
  BY DEF NextToken, Unused

(* A session is issued to an account that exists.                          *)
LEMMA IssueKeeps ==
  ASSUME IInv, NEW c \in Calls, IssueRefreshToken(c),
         account' \in Versions, account' # 0,
         calls[c].at # "idle", ~At(c, "update", "written"),
         UNCHANGED <<cookie, browserVars>>
  PROVE  IInv'
<1>1. AccountsTypeOK /\ sessions \in [Tokens -> SessionStates]
  BY DEF IInv, AccountsTypeOK
<1>2. sessions' = [sessions EXCEPT ![NextToken] = "live"]
  BY DEF IssueRefreshToken
<1>3. sessions' \in [Tokens -> SessionStates]
  BY <1>1, <1>2, NextTokenUnused DEF SessionStates, IssueRefreshToken
<1>4. /\ calls' \in [Calls -> CallStates] /\ AllOrderly(calls')
      /\ \A d \in Calls : d # c => calls'[d] = calls[d]
  BY NextTokenUnused, AnswerStep, VersionRange DEF IssueRefreshToken
<1>5. AccountsTypeOK'
  BY <1>3, <1>4 DEF IInv, AccountsTypeOK, browserVars
<1>6. OldSessionsEnd'
  <2> SUFFICES ASSUME NEW t \in Tokens, sessions'[t] = "old"
               PROVE  \E d \in Calls : At(d, "update", "written")'
    BY DEF OldSessionsEnd
  <2>1. sessions[t] = "old"
    BY <1>1, <1>2
  <2>2. PICK d \in Calls : At(d, "update", "written")
    BY <2>1 DEF IInv, OldSessionsEnd
  <2> QED
    BY <1>4, <2>2 DEF At
<1> QED
  BY <1>4, <1>5, <1>6 DEF IInv, NobodyYet

LEMMA RegisterKeeps ==
  ASSUME IInv, NEW c \in Calls, Register(c), UNCHANGED <<cookie, browserVars>>
  PROVE  IInv'
<1>1. calls[c].at = "sent" /\ ~At(c, "update", "written")
  BY DEF Register, At
<1>2. CASE account = 0
  BY <1>1, <1>2, IssueKeeps, VersionRange DEF Register
<1>3. CASE account # 0
  BY <1>1, <1>3, RefuseKeeps DEF Register
<1> QED
  BY <1>2, <1>3

LEMMA LoginCheckKeeps ==
  ASSUME IInv, NEW c \in Calls, LoginCheck(c), UNCHANGED <<cookie, browserVars>>
  PROVE  IInv'
<1>1. calls[c].at = "sent" /\ ~At(c, "update", "written")
  BY DEF LoginCheck, At
<1>2. CASE account # 0 /\ calls[c].arg = account /\ Goes(c, "checked")
  <2>1. /\ calls' \in [Calls -> CallStates] /\ AllOrderly(calls')
        /\ \A d \in Calls : d # c => calls'[d] = calls[d]
    BY <1>1, <1>2, GoesStep DEF Busy
  <2> QED
    BY <1>1, <1>2, <2>1, RequestStep DEF LoginCheck
<1>3. CASE Refuse(c, "401")
  BY <1>1, <1>3, RefuseKeeps DEF LoginCheck
<1> QED
  BY <1>2, <1>3 DEF LoginCheck

(* After its check a request knows that the account exists.                *)
LEMMA BusyHasAccount ==
  ASSUME IInv, NEW c \in Calls, calls[c].at \in Busy
  PROVE  account \in Versions /\ account # 0
  BY DEF IInv, AccountsTypeOK, NobodyYet

LEMMA LoginIssueKeeps ==
  ASSUME IInv, NEW c \in Calls, LoginIssue(c), UNCHANGED <<cookie, browserVars>>
  PROVE  IInv'
<1>1. calls[c].at = "checked" /\ ~At(c, "update", "written")
  BY DEF LoginIssue, At
<1>2. account' = account /\ account \in Versions /\ account # 0
  BY <1>1, BusyHasAccount DEF LoginIssue, Busy
<1>3. CASE IssueRefreshToken(c)
  BY <1>1, <1>2, <1>3, IssueKeeps
<1>4. CASE Refuse(c, "401") /\ UNCHANGED sessions
  BY <1>1, <1>2, <1>4, RefuseKeeps
<1> QED
  BY <1>3, <1>4 DEF LoginIssue

LEMMA UpdateCheckKeeps ==
  ASSUME IInv, NEW c \in Calls, UpdateCheck(c), UNCHANGED <<cookie, browserVars>>
  PROVE  IInv'
<1>1. calls[c].at = "sent" /\ ~At(c, "update", "written")
  BY DEF UpdateCheck, At
<1>2. CASE account # 0 /\ Goes(c, "checked")
  <2>1. /\ calls' \in [Calls -> CallStates] /\ AllOrderly(calls')
        /\ \A d \in Calls : d # c => calls'[d] = calls[d]
    BY <1>1, <1>2, GoesStep DEF Busy
  <2> QED
    BY <1>1, <1>2, <2>1, RequestStep DEF UpdateCheck
<1>3. CASE Refuse(c, "401")
  BY <1>1, <1>3, RefuseKeeps DEF UpdateCheck
<1> QED
  BY <1>2, <1>3 DEF UpdateCheck

(* The new password is stored: until the revocation the request itself     *)
(* stands for the sessions of the old one.                                 *)
LEMMA UpdateWriteKeeps ==
  ASSUME IInv, NEW c \in Calls, UpdateWrite(c), UNCHANGED <<cookie, browserVars>>
  PROVE  IInv'
<1> USE DEF UpdateWrite
<1> DEFINE r == [calls[c] EXCEPT !.at = "written"]
<1>1. calls[c].at = "checked" /\ calls[c].req = "update" /\ calls[c] \in CallStates
  BY AnswerTyped DEF At
<1>2. account' \in Versions /\ account' # 0
  <2>1. account \in Versions /\ account # 0
    BY <1>1, BusyHasAccount DEF Busy
  <2> QED
    BY <2>1, VersionAssumption DEF Versions
<1>3. /\ r \in CallStates
      /\ r.op = calls[c].op /\ r.stage = calls[c].stage /\ r.at = "written" /\ r.req = "update"
  BY <1>1 DEF CallStates
<1>4. Slot(c, r)
  BY <1>1 DEF Slot, IInv, AccountsTypeOK
<1>5. /\ calls' \in [Calls -> CallStates] /\ AllOrderly(calls')
      /\ calls'[c].at = "written" /\ calls'[c].req = "update"
  <2> HIDE DEF r
  <2> QED
    BY <1>1, <1>3, <1>4, SlotStep
<1>6. sessions' \in [Tokens -> SessionStates]
  BY DEF Outdated, SessionStates
<1>7. AccountsTypeOK'
  BY <1>2, <1>5, <1>6 DEF IInv, AccountsTypeOK, browserVars
<1>8. OldSessionsEnd'
  BY <1>5 DEF OldSessionsEnd, At
<1> QED
  BY <1>2, <1>5, <1>7, <1>8 DEF IInv, NobodyYet

(* The request c is done with the sessions: all have ended, or another     *)
(* update stands for the old ones, or nobody does and none is old.         *)
LEMMA DoneKeeps ==
  ASSUME IInv, NEW c \in Calls,
         sessions' \in {RevokeAllRefreshTokensForUser(sessions), Unrevoked(c)},
         calls' \in [Calls -> CallStates], AllOrderly(calls'),
         \A d \in Calls : d # c => calls'[d] = calls[d],
         calls[c].at \in Busy,
         UNCHANGED <<account, cookie, browserVars>>
  PROVE  IInv'
<1>1. sessions \in [Tokens -> SessionStates]
  BY DEF IInv, AccountsTypeOK
<1>2. sessions' \in [Tokens -> SessionStates]
  BY <1>1 DEF RevokeAllRefreshTokensForUser, Unrevoked, SessionStates
<1>3. AccountsTypeOK'
  BY <1>2 DEF IInv, AccountsTypeOK, browserVars
<1>4. OldSessionsEnd'
  <2>1. CASE Overlaps(c)
    BY <2>1 DEF OldSessionsEnd, Overlaps, At
  <2>2. CASE ~Overlaps(c)
    BY <1>1, <2>2 DEF OldSessionsEnd, RevokeAllRefreshTokensForUser, Unrevoked
  <2> QED
    BY <2>1, <2>2
<1> QED
  BY <1>3, <1>4, BusyHasAccount DEF IInv, NobodyYet

LEMMA UpdateRevokeKeeps ==
  ASSUME IInv, NEW c \in Calls, UpdateRevoke(c), UNCHANGED <<cookie, browserVars>>
  PROVE  IInv'
<1>1. calls[c].at \in Busy /\ calls[c].at # "idle"
  BY DEF UpdateRevoke, At, Busy
<1>2. /\ calls' \in [Calls -> CallStates] /\ AllOrderly(calls')
      /\ \A d \in Calls : d # c => calls'[d] = calls[d]
  BY <1>1, GoesStep DEF UpdateRevoke, Busy
<1> QED
  BY <1>1, <1>2, DoneKeeps DEF UpdateRevoke

LEMMA UpdateIssueKeeps ==
  ASSUME IInv, NEW c \in Calls, UpdateIssue(c), UNCHANGED <<cookie, browserVars>>
  PROVE  IInv'
<1>1. calls[c].at = "revoked" /\ ~At(c, "update", "written")
  BY DEF UpdateIssue, At
<1>2. account' = account /\ account \in Versions /\ account # 0
  BY <1>1, BusyHasAccount DEF UpdateIssue, Busy
<1> QED
  BY <1>1, <1>2, IssueKeeps DEF UpdateIssue

(* The requests that only read.                                            *)
LEMMA ReadKeeps ==
  ASSUME IInv, NEW c \in Calls, RefreshToken(c) \/ GetProfile(c), UNCHANGED <<cookie, browserVars>>
  PROVE  IInv'
<1> USE DEF RefreshToken, GetProfile
<1>1. calls[c].at = "sent" /\ ~At(c, "update", "written") /\ UNCHANGED <<account, sessions>>
  BY DEF At
<1>2. account \in Versions
  BY DEF IInv, AccountsTypeOK
<1>3. Answer(c, "ok", 0, 0) \/ Answer(c, "ok", account, 0) \/ Refuse(c, "401")
  OBVIOUS
<1>4. /\ calls' \in [Calls -> CallStates] /\ AllOrderly(calls')
      /\ \A d \in Calls : d # c => calls'[d] = calls[d]
      /\ calls'[c].at = "answered"
  BY <1>1, <1>2, <1>3, AnswerStep, VersionRange DEF Refuse
<1> QED
  BY <1>1, <1>4, RequestStep DEF Busy

LEMMA RevokeKeeps ==
  ASSUME IInv, NEW c \in Calls, RevokeToken(c), UNCHANGED <<cookie, browserVars>>
  PROVE  IInv'
<1>1. calls[c].at = "sent" /\ Answer(c, "ok", 0, 0) /\ UNCHANGED account
  BY DEF RevokeToken, At
<1>2. /\ calls' \in [Calls -> CallStates] /\ AllOrderly(calls')
      /\ \A d \in Calls : d # c => calls'[d] = calls[d]
      /\ calls'[c].at = "answered"
  BY <1>1, AnswerStep, VersionRange
<1>3. /\ sessions' \in [Tokens -> SessionStates]
      /\ \A t \in Tokens : sessions'[t] \in {sessions[t], "none"}
  <2>1. sessions \in [Tokens -> SessionStates]
    BY DEF IInv, AccountsTypeOK
  <2> QED
    BY <2>1 DEF RevokeToken, SessionStates
<1>4. AccountsTypeOK'
  BY <1>1, <1>2, <1>3 DEF IInv, AccountsTypeOK, browserVars
<1>5. NobodyYet'
  BY <1>1, <1>2, <1>3 DEF IInv, NobodyYet, Live, Busy
<1>6. OldSessionsEnd'
  <2> SUFFICES ASSUME NEW t \in Tokens, sessions'[t] = "old"
               PROVE  \E d \in Calls : At(d, "update", "written")'
    BY DEF OldSessionsEnd
  <2>1. PICK d \in Calls : At(d, "update", "written")
    BY <1>3 DEF IInv, OldSessionsEnd
  <2> QED
    BY <1>1, <1>2, <2>1 DEF At
<1> QED
  BY <1>2, <1>4, <1>5, <1>6 DEF IInv

LEMMA FailKeeps ==
  ASSUME IInv, NEW c \in Calls, Fail(c), UNCHANGED <<cookie, browserVars>>
  PROVE  IInv'
<1>1. calls[c].at # "idle" /\ Refuse(c, "failed") /\ UNCHANGED account
  BY DEF Fail
<1>2. CASE calls[c].at = "written"
  <2>1. /\ calls' \in [Calls -> CallStates] /\ AllOrderly(calls')
        /\ \A d \in Calls : d # c => calls'[d] = calls[d]
    BY <1>1, AnswerStep, VersionRange DEF Refuse
  <2> QED
    BY <1>1, <1>2, <2>1, DoneKeeps DEF Fail, Busy
<1>3. CASE calls[c].at # "written"
  <2>1. sessions' = sessions
    BY <1>3 DEF Fail
  <2>2. ~At(c, "update", "written")
    BY <1>3 DEF At
  <2> QED
    BY <1>1, <2>1, <2>2, RefuseKeeps
<1> QED
  BY <1>2, <1>3

---------------------------------------------------------------------------

LEMMA ServerKeeps ==
  ASSUME IInv, NEW c \in Calls, Server(c)
  PROVE  IInv'
<1>1. UNCHANGED <<cookie, browserVars>>
  BY DEF Server
<1>2. CASE Fail(c)
  BY <1>1, <1>2, FailKeeps
<1>3. CASE Serve(c)
  BY <1>1, <1>3, RegisterKeeps, LoginCheckKeeps, LoginIssueKeeps, UpdateCheckKeeps,
     UpdateWriteKeeps, UpdateRevokeKeeps, UpdateIssueKeeps, ReadKeeps, RevokeKeeps DEF Serve
<1> QED
  BY <1>2, <1>3 DEF Server

LEMMA HandleKeeps ==
  ASSUME IInv, NEW c \in Calls, Handle(c)
  PROVE  IInv'
  BY InterceptedKeeps, RefreshedKeeps, LoggedOutKeeps, InitializedKeeps, SignInKeeps,
     UpdateSucceedsKeeps, SubmitFailsKeeps, LoadSucceedsKeeps, ReloadSucceedsKeeps,
     LoadFailsKeeps, OtherAnsweredKeeps DEF Handle

LEMMA UserKeeps ==
  ASSUME IInv,
         \/ Visit \/ SubmitLogin \/ SubmitRegister \/ SubmitUpdate \/ handleChange
         \/ ClickLogout \/ AccessExpires \/ Reload \/ OtherDevice
  PROVE  IInv'
<1>1. signedOut \in BOOLEAN
  BY DEF IInv, AccountsTypeOK
<1>2. CASE SubmitLogin \/ SubmitRegister \/ SubmitUpdate
  BY <1>1, <1>2, SubmitKeeps DEF SubmitLogin, SubmitRegister, SubmitUpdate
<1>3. CASE Visit \/ handleChange \/ AccessExpires
  BY <1>3, VisitKeeps, ChangeKeeps, ExpiryKeeps
<1>4. CASE ClickLogout \/ Reload \/ OtherDevice
  BY <1>4, LogoutKeeps, ReloadKeeps, OtherDeviceKeeps
<1> QED
  BY <1>2, <1>3, <1>4

LEMMA InitIInv ==
  ASSUME Init
  PROVE  IInv
<1> USE DEF Init, ServerInit
<1>1. AccountsTypeOK
  <2>1. sessions \in [Tokens -> SessionStates]
    BY DEF SessionStates
  <2>2. calls \in [Calls -> CallStates]
    BY NoCallTyped
  <2> QED
    BY <2>1, <2>2, NewFormTyped, VersionRange DEF AccountsTypeOK, UserStates, Pages
<1>2. AllOrderly(calls)
  BY DEF AllOrderly, Orderly, NoCall
<1>3. NobodyYet /\ OldSessionsEnd
  BY DEF NobodyYet, OldSessionsEnd, Live, NoCall, Busy
<1> QED
  BY <1>1, <1>2, <1>3 DEF IInv

LEMMA StepKeeps ==
  ASSUME IInv, [Next]_vars
  PROVE  IInv'
<1>1. CASE Next
  BY <1>1, UserKeeps, HandleKeeps, ServerKeeps DEF Next
<1>2. CASE UNCHANGED vars
  BY <1>2, CallsSound, SendKeeps DEF vars, serverVars
<1> QED
  BY <1>1, <1>2

(* Accounts, sessions, requests and pages keep their types, whatever is    *)
(* requested at the same time and whatever fails (service/auth.go,         *)
(* UserContext.js, http.js and the pages).                                 *)
THEOREM AccountsTypeCorrect == Spec => []AccountsTypeOK
<1>1. IInv /\ [Next]_vars => IInv'
  BY StepKeeps
<1>2. IInv => AccountsTypeOK
  BY DEF IInv
<1> QED
  BY InitIInv, <1>1, <1>2, PTL DEF Spec

(* A session that lives when a password is stored ends with the next       *)
(* revocation that succeeds, whichever of the updates that overlap it      *)
(* belongs to: it lives on only while one has yet to revoke, or because    *)
(* none of them did (service/auth.go:168-227, sessions.go:36-48).          *)
THEOREM PasswordChangeEndsSessions == Spec => []OldSessionsEnd
<1>1. IInv /\ [Next]_vars => IInv'
  BY StepKeeps
<1>2. IInv => OldSessionsEnd
  BY DEF IInv
<1> QED
  BY InitIInv, <1>1, <1>2, PTL DEF Spec
=============================================================================
