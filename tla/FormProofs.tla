----------------------------- MODULE FormProofs -----------------------------
(***************************************************************************)
(* Theorems about the forms of the tab and the calls they wait for, for    *)
(* every set of requests and of tokens and every number of versions.       *)
(***************************************************************************)
EXTENDS AccountProofs

Submits == {"login", "register", "update", "reload"}
Loads   == {"load", "reload"}

(* A form f on page p that is submitted, or a profile that is loading,     *)
(* waits for one of the calls cs, and that call still reaches the page;    *)
(* what reaches a page as a call of the profile was sent by it.            *)
Waits(cs, p, f) ==
  /\ f.submitting => \E c \in Calls : cs[c].here /\ cs[c].op \in Submits
  /\ p = "profile" /\ f.loading => \E c \in Calls : cs[c].here /\ cs[c].op \in Loads
  /\ \A c \in Calls : cs[c].here /\ cs[c].op \in {"update"} \cup Loads => p = "profile"

Kept(f) == f.dirty => f.values = Edited

(* NoFormWaitsForever is not inductive: the call a form waits for has to   *)
(* be named by its kind, and while the user is being loaded no page has a  *)
(* call or a form in use.                                                  *)
TabInv ==
  /\ loadingUser => form = NewForm /\ \A c \in Calls : calls[c].op \notin HttpOps
  /\ ~loadingUser => Waits(calls, page, form)
  /\ Kept(form)

FormInv == IInv /\ TabInv

(* What a step may do to the call in slot c, and to what is typed.         *)
Advances(c, cs) ==
  calls[c].op \in HttpOps /\ cs[c].op = calls[c].op /\ calls[c].at = "answered" /\ cs[c].at = "sent"
    => Rank[cs[c].stage] > Rank[calls[c].stage]

AllAdvance == \A c \in Calls : Advances(c, calls')

EditsStay ==
  form.dirty /\ page' = page /\ ~loadingUser' =>
    \/ form'.values = Edited
    \/ \E c \in Calls : Succeeds(c, "reload") /\ calls'[c].op = "none"

(* Where the page stays, the form is f and the calls of cs go on.          *)
Stays(cs, f) ==
  page' = page => form' = f /\ \A d \in Calls : cs[d].op # "none" => calls'[d] = cs[d]

Works == TabInv' /\ AllAdvance /\ EditsStay

LEMMA CallsTyped ==
  ASSUME IInv
  PROVE  /\ calls \in [Calls -> CallStates] /\ form \in Forms
         /\ \A c \in Calls : calls[c].op = "none" => calls[c].at = "idle"
         /\ \A c \in Calls : calls[c].stage # "first" => calls[c].op \in HttpOps
  BY DEF IInv, AccountsTypeOK, AllOrderly, Orderly

LEMMA NewFormKept == Kept(NewForm) /\ ~NewForm.dirty /\ NewForm.loading /\ ~NewForm.submitting
  BY DEF Kept, NewForm

---------------------------------------------------------------------------
(* A render: the page that is left loses its calls, and a profile that is  *)
(* opened sends a load of its own.                                         *)
LEMMA OpenEffect ==
  ASSUME NEW cs \in [Calls -> CallStates], NEW u, NEW changed \in BOOLEAN, NEW p, NEW state, NEW f,
         Open(u, changed, p, state, cs, f)
  PROVE  /\ page' # page \/ loadingUser =>
              /\ form' = NewForm
              /\ page' = "profile" => \E d \in Calls : calls'[d].here /\ calls'[d].op = "load"
              /\ \A d \in Calls : calls'[d].here => page' = "profile"
         /\ page' = page /\ ~loadingUser =>
              form' = f /\ \A d \in Calls : cs[d].op # "none" => calls'[d] = cs[d]
         /\ page' = "profile" => p = "profile" /\ u # "none"
         /\ \A d \in Calls :
              \/ /\ calls'[d].op = cs[d].op /\ calls'[d].stage = cs[d].stage
                 /\ calls'[d].at = cs[d].at
              \/ /\ cs[d].op = "none" /\ calls'[d].op = "load"
                 /\ page' = "profile" /\ (page' # page \/ loadingUser \/ changed)
<1> DEFINE v == IF p = "created" /\ u = "none" THEN state ELSE u
           q == Guard(p, v)
           moved == q # page \/ loadingUser
           left == IF moved THEN [c \in Calls |-> [cs[c] EXCEPT !.here = FALSE]] ELSE cs
           load == [Request("profile") EXCEPT !.op = "load", !.auth = v = "good", !.here = TRUE]
<1>1. /\ page' = q
      /\ form' = IF moved THEN NewForm ELSE f
      /\ IF q = "profile" /\ (moved \/ changed) THEN Send(left, load) ELSE calls' = left
  BY DEF Open
<1>2. q = "profile" => p = "profile" /\ u # "none"
  BY DEF Guard
<1>3. load.here = TRUE /\ load.op = "load"
  BY DEF Request, NoCall
<1>4. /\ left \in [Calls -> CallStates]
      /\ \A d \in Calls : left[d].op = cs[d].op /\ left[d].stage = cs[d].stage /\ left[d].at = cs[d].at
      /\ moved => \A d \in Calls : ~left[d].here
  <2>1. \A d \in Calls : cs[d] \in CallStates
    OBVIOUS
  <2>2. \A d \in Calls : /\ [cs[d] EXCEPT !.here = FALSE] \in CallStates
                         /\ ~[cs[d] EXCEPT !.here = FALSE].here
                         /\ [cs[d] EXCEPT !.here = FALSE].op = cs[d].op
                         /\ [cs[d] EXCEPT !.here = FALSE].stage = cs[d].stage
                         /\ [cs[d] EXCEPT !.here = FALSE].at = cs[d].at
    BY <2>1 DEF CallStates
  <2> QED
    BY <2>2
<1>5. ~moved => left = cs
  OBVIOUS
<1> HIDE DEF left, load, q
<1>6. CASE calls' = left /\ ~(q = "profile" /\ (moved \/ changed))
  BY <1>1, <1>2, <1>4, <1>5, <1>6
<1>7. CASE Send(left, load) /\ q = "profile" /\ (moved \/ changed)
  <2>1. PICK c \in Calls : left[c].op = "none" /\ calls' = [left EXCEPT ![c] = load]
    BY <1>7 DEF Send, Idle
  <2>2. calls'[c] = load /\ \A d \in Calls \ {c} : calls'[d] = left[d]
    BY <1>4, <2>1
  <2> QED
    BY <1>1, <1>2, <1>3, <1>4, <1>5, <1>7, <2>1, <2>2
<1> QED
  BY <1>1, <1>6, <1>7

(* A handler of the tab that makes cs of the calls and f of the form, then *)
(* renders.                                                                *)
LEMMA OpenWorks ==
  ASSUME FormInv, ~loadingUser, UNCHANGED loadingUser,
         NEW cs \in [Calls -> CallStates], NEW u, NEW changed \in BOOLEAN, NEW p, NEW state, NEW f,
         Open(u, changed, p, state, cs, f),
         page' = page => Waits(cs, page, f), Kept(f),
         \A d \in Calls : Advances(d, cs),
         \A d \in Calls : cs[d].op = "none" /\ calls[d].op = "load" => changed = FALSE /\ p = page
  PROVE  TabInv' /\ AllAdvance /\ Stays(cs, f)
<1>1. /\ page' # page => /\ form' = NewForm
                         /\ page' = "profile" => \E d \in Calls : calls'[d].here /\ calls'[d].op = "load"
                         /\ \A d \in Calls : calls'[d].here => page' = "profile"
      /\ page' = page => form' = f /\ \A d \in Calls : cs[d].op # "none" => calls'[d] = cs[d]
      /\ page' = "profile" => p = "profile"
  BY OpenEffect
<1>2. \A d \in Calls : \/ calls'[d].op = cs[d].op /\ calls'[d].stage = cs[d].stage /\ calls'[d].at = cs[d].at
                       \/ /\ cs[d].op = "none" /\ calls'[d].op = "load"
                          /\ page' = "profile" /\ (page' # page \/ changed)
  BY OpenEffect
<1>3. Waits(calls', page', form')
  <2>1. CASE page' = page
    <3>1. \A d \in Calls : cs[d].op # "none" => calls'[d] = cs[d]
      BY <1>1, <2>1
    <3>2. \A d \in Calls : calls'[d].op \in {"update"} \cup Loads => page' = "profile" \/ calls'[d] = cs[d]
      BY <1>2, <3>1 DEF Loads
    <3> QED
      BY <1>1, <2>1, <3>1, <3>2 DEF Waits, Submits, Loads
  <2>2. CASE page' # page
    BY <1>1, <2>2, NewFormKept DEF Waits, Loads
  <2> QED
    BY <2>1, <2>2
<1>4. Kept(form')
  BY <1>1, NewFormKept
<1>5. AllAdvance
  <2> SUFFICES ASSUME NEW d \in Calls PROVE Advances(d, calls')
    BY DEF AllAdvance
  <2>1. CASE calls'[d].op = cs[d].op /\ calls'[d].stage = cs[d].stage /\ calls'[d].at = cs[d].at
    BY <2>1 DEF Advances
  <2>2. CASE cs[d].op = "none" /\ calls'[d].op = "load" /\ page' = "profile" /\ (page' # page \/ changed)
    BY <1>1, <2>2 DEF Advances
  <2> QED
    BY <1>2, <2>1, <2>2
<1> QED
  BY <1>1, <1>3, <1>4, <1>5 DEF TabInv, Stays

(* A step that leaves the page as it is.                                   *)
LEMMA QuietWorks ==
  ASSUME FormInv, UNCHANGED <<loadingUser, page, form>>,
         \A c \in Calls : calls[c].op \in HttpOps \/ calls'[c].op \in HttpOps =>
           calls'[c].here = calls[c].here /\ calls'[c].op = calls[c].op,
         AllAdvance
  PROVE  Works
<1>1. Waits(calls, page, form) => Waits(calls', page, form)
  BY DEF Waits, Submits, Loads, HttpOps
<1>2. TabInv'
  BY <1>1 DEF FormInv, TabInv
<1> QED
  BY <1>2 DEF Works, EditsStay, FormInv, TabInv, Kept

(* One slot changes.                                                       *)
LEMMA SlotAdvances ==
  ASSUME IInv, NEW c \in Calls, NEW r, r.op = "none" \/ Advances(c, [calls EXCEPT ![c] = r])
  PROVE  \A d \in Calls : Advances(d, [calls EXCEPT ![c] = r])
<1>1. /\ [calls EXCEPT ![c] = r][c] = r
      /\ \A d \in Calls \ {c} : [calls EXCEPT ![c] = r][d] = calls[d]
  BY CallsTyped
<1>2. ASSUME NEW d \in Calls \ {c} PROVE Advances(d, [calls EXCEPT ![c] = r])
  BY <1>1, <1>2 DEF Advances
<1>3. r.op = "none" => Advances(c, [calls EXCEPT ![c] = r])
  BY <1>1 DEF Advances, HttpOps
<1> QED
  BY <1>2, <1>3

---------------------------------------------------------------------------
(* The user.                                                               *)

(* A request of r is sent from an idle slot.                               *)
LEMMA SendEffect ==
  ASSUME IInv, NEW r, Send(calls, r)
  PROVE  \E c \in Calls : /\ calls[c].op = "none" /\ calls'[c] = r
                          /\ \A d \in Calls \ {c} : calls'[d] = calls[d]
<1>1. PICK c \in Calls : calls[c].op = "none" /\ calls' = [calls EXCEPT ![c] = r]
  BY DEF Send, Idle
<1> QED
  BY <1>1, CallsTyped

LEMMA VisitWorks ==
  ASSUME FormInv, Visit
  PROVE  Works
<1>1. CASE loadingUser
  BY <1>1 DEF Visit, FormInv, TabInv, Works, AllAdvance, Advances, EditsStay, NewForm
<1>2. CASE ~loadingUser
  <2>1. PICK p \in Pages, no \in BOOLEAN : no = FALSE /\ Open(user, no, p, payload, calls, form)
    BY <1>2 DEF Visit, Render
  <2>2. calls \in [Calls -> CallStates] /\ UNCHANGED loadingUser
    BY CallsTyped DEF FormInv, Visit
  <2>3. \A d \in Calls : Advances(d, calls)
    BY DEF Advances
  <2>4. \A d \in Calls : ~(calls[d].op = "none" /\ calls[d].op = "load")
    OBVIOUS
  <2>5. Waits(calls, page, form) /\ Kept(form)
    BY <1>2 DEF FormInv, TabInv
  <2>6. TabInv' /\ AllAdvance /\ Stays(calls, form)
    BY <1>2, <2>1, <2>2, <2>3, <2>4, <2>5, OpenWorks
  <2> QED
    BY <2>6 DEF Works, EditsStay, FormInv, TabInv, Kept, Stays
<1> QED
  BY <1>1, <1>2

LEMMA SubmitWorks ==
  ASSUME FormInv, NEW p, NEW op \in {"login", "register", "update"}, Submit(p, op, op),
         op = "update" => p = "profile"
  PROVE  Works
<1> DEFINE r == [Request(op) EXCEPT !.op = op, !.arg = account, !.here = TRUE,
                    !.auth = op = "update" /\ user = "good", !.base = form.data]
<1>1. r.op = op /\ r.here = TRUE
  BY DEF Request, NoCall
<1>2. PICK c \in Calls : /\ calls[c].op = "none" /\ calls'[c] = r
                         /\ \A d \in Calls \ {c} : calls'[d] = calls[d]
  BY SendEffect DEF Submit, FormInv
<1> HIDE DEF r
<1>3. /\ ~loadingUser /\ UNCHANGED <<loadingUser, page>> /\ page = p
      /\ form' = [form EXCEPT !.submitting = TRUE] /\ form \in Forms
  BY CallsTyped DEF Submit, FormInv
<1>4. /\ form'.loading = form.loading /\ form'.dirty = form.dirty /\ form'.values = form.values
  BY <1>3 DEF Forms
<1>5. Waits(calls', page', form')
  BY <1>1, <1>2, <1>3, <1>4 DEF Waits, FormInv, TabInv, Submits, Loads
<1>6. AllAdvance
  BY <1>2 DEF AllAdvance, Advances, HttpOps
<1> QED
  BY <1>3, <1>4, <1>5, <1>6 DEF Works, TabInv, EditsStay, Kept, FormInv

LEMMA ChangeWorks ==
  ASSUME FormInv, handleChange
  PROVE  Works
<1>1. /\ form' = [form EXCEPT !.values = Edited, !.dirty = TRUE] /\ form \in Forms /\ ~form.loading
      /\ UNCHANGED <<calls, loadingUser, page>>
  BY CallsTyped DEF handleChange, serverVars, FormInv
<1>2. form'.values = Edited /\ form'.loading = form.loading /\ form'.submitting = form.submitting
  BY <1>1 DEF Forms
<1>3. ~loadingUser
  BY <1>1, NewFormKept DEF FormInv, TabInv
<1>4. Waits(calls', page', form')
  BY <1>1, <1>2, <1>3 DEF Waits, FormInv, TabInv
<1> QED
  BY <1>1, <1>2, <1>3, <1>4 DEF Works, TabInv, EditsStay, Kept, AllAdvance, Advances

LEMMA BesideWorks ==
  ASSUME FormInv, ClickLogout \/ OtherDevice
  PROVE  Works
<1>1. PICK r : Send(calls, r) /\ r.op \in {"logout", "other"}
  <2>1. ClickLogout => Send(calls, [Request("revoke") EXCEPT !.op = "logout"])
    BY DEF ClickLogout
  <2>2. OtherDevice => Send(calls, [Request("update") EXCEPT !.op = "other", !.arg = account, !.auth = TRUE])
    BY DEF OtherDevice
  <2>3. /\ [Request("revoke") EXCEPT !.op = "logout"].op = "logout"
        /\ [Request("update") EXCEPT !.op = "other", !.arg = account, !.auth = TRUE].op = "other"
    BY DEF Request, NoCall
  <2> QED
    BY <2>1, <2>2, <2>3
<1>2. PICK c \in Calls : /\ calls[c].op = "none" /\ calls'[c] = r
                         /\ \A d \in Calls \ {c} : calls'[d] = calls[d]
  BY <1>1, SendEffect DEF FormInv
<1>3. UNCHANGED <<loadingUser, page, form>>
  BY DEF ClickLogout, OtherDevice, browserVars
<1>4. AllAdvance
  BY <1>2 DEF AllAdvance, Advances, HttpOps
<1> QED
  BY <1>1, <1>2, <1>3, <1>4, QuietWorks DEF HttpOps

LEMMA ExpiryWorks ==
  ASSUME FormInv, AccessExpires
  PROVE  Works
<1>1. UNCHANGED <<calls, loadingUser, page, form>>
  BY DEF AccessExpires, serverVars
<1> QED
  BY <1>1, QuietWorks DEF AllAdvance, Advances

LEMMA ReloadWorks ==
  ASSUME FormInv, Reload
  PROVE  Works
<1> DEFINE aborted == [c \in Calls |->
             IF calls[c].at = "answered" THEN NoCall
             ELSE IF calls[c].op = "none" THEN NoCall
             ELSE [calls[c] EXCEPT !.op = "other", !.stage = "first", !.here = FALSE, !.base = 0]]
<1>1. \A c \in Calls : aborted[c].op \in {"none", "other"}
  BY CallsTyped DEF NoCall, CallStates, FormInv
<1>2. Start.op = "init"
  BY DEF Start, Request, NoCall
<1>3. Send(aborted, Start)
  BY DEF Reload
<1>4. DOMAIN aborted = Calls
  OBVIOUS
<1> HIDE DEF aborted
<1>5. \A c \in Calls : calls'[c].op \in {"none", "other", "init"}
  BY <1>1, <1>2, <1>3, <1>4 DEF Send, Idle
<1>6. AllAdvance
  BY <1>5 DEF AllAdvance, Advances, HttpOps
<1> QED
  BY <1>5, <1>6, NewFormKept DEF Works, TabInv, EditsStay, Reload, HttpOps

---------------------------------------------------------------------------
(* The answers.                                                            *)

(* A call goes on for the page that made it, or was not what the form f    *)
(* waits for.                                                              *)
LEMMA ReplacedWaits ==
  ASSUME FormInv, ~loadingUser, NEW c \in Calls, NEW r, NEW f,
         \/ r.here = calls[c].here /\ r.op = calls[c].op
         \/ r.here = calls[c].here /\ r.op = "reload" /\ calls[c].op = "update"
         \/ /\ r.op \notin HttpOps
            /\ calls[c].here /\ calls[c].op \in Submits => ~f.submitting
            /\ calls[c].here /\ calls[c].op \in Loads /\ page = "profile" => ~f.loading,
         f.submitting => form.submitting,
         f.loading => form.loading
  PROVE  Waits([calls EXCEPT ![c] = r], page, f)
<1>1. /\ [calls EXCEPT ![c] = r][c] = r
      /\ \A d \in Calls \ {c} : [calls EXCEPT ![c] = r][d] = calls[d]
  BY CallsTyped DEF FormInv
<1>2. Waits(calls, page, form)
  BY DEF FormInv, TabInv
<1> DEFINE cs == [calls EXCEPT ![c] = r]
<1> HIDE DEF cs
<1>3. CASE r.here = calls[c].here /\ r.op = calls[c].op
  BY <1>1, <1>2, <1>3 DEF Waits, cs
<1>4. CASE r.here = calls[c].here /\ r.op = "reload" /\ calls[c].op = "update"
  BY <1>1, <1>2, <1>4 DEF Waits, cs, Submits, Loads
<1>5. CASE /\ r.op \notin HttpOps
           /\ calls[c].here /\ calls[c].op \in Submits => ~f.submitting
           /\ calls[c].here /\ calls[c].op \in Loads /\ page = "profile" => ~f.loading
  BY <1>1, <1>2, <1>5 DEF Waits, cs, Submits, Loads, HttpOps
<1> QED
  BY <1>3, <1>4, <1>5

(* An answer is handled, and the tab rendered.                             *)
LEMMA AnswerWorks ==
  ASSUME FormInv, ~loadingUser, UNCHANGED loadingUser, NEW c \in Calls, NEW r \in CallStates,
         NEW u, NEW changed \in BOOLEAN, NEW p, NEW state, NEW f,
         Open(u, changed, p, state, [calls EXCEPT ![c] = r], f),
         page' = page => Waits([calls EXCEPT ![c] = r], page, f), Kept(f),
         r.op = "none" \/ Advances(c, [calls EXCEPT ![c] = r]),
         r.op = "none" /\ calls[c].op = "load" => changed = FALSE /\ p = page
  PROVE  TabInv' /\ AllAdvance /\ Stays([calls EXCEPT ![c] = r], f)
<1> DEFINE cs == [calls EXCEPT ![c] = r]
<1>1. cs \in [Calls -> CallStates] /\ cs[c] = r /\ \A d \in Calls \ {c} : cs[d] = calls[d]
  BY CallsTyped DEF FormInv
<1>2. \A d \in Calls : Advances(d, cs)
  BY SlotAdvances DEF FormInv
<1> HIDE DEF cs
<1>3. \A d \in Calls : cs[d].op = "none" /\ calls[d].op = "load" => changed = FALSE /\ p = page
  BY <1>1
<1>4. Open(u, changed, p, state, cs, f) /\ (page' = page => Waits(cs, page, f))
  BY DEF cs
<1>5. TabInv' /\ AllAdvance /\ Stays(cs, f)
  BY <1>1, <1>2, <1>3, <1>4, OpenWorks
<1> QED
  BY <1>5 DEF cs

LEMMA WorksIfStays ==
  ASSUME FormInv, NEW cs, NEW f, TabInv', AllAdvance, Stays(cs, f), form.dirty => f.values = Edited
  PROVE  Works
  BY DEF Works, EditsStay, Stays

LEMMA BusyTab ==
  ASSUME FormInv, NEW c \in Calls, calls[c].op \in HttpOps
  PROVE  ~loadingUser
  BY DEF FormInv, TabInv

LEMMA AgainFields ==
  ASSUME NEW c \in Calls, NEW stage, NEW req
  PROVE  /\ Again(c, stage, req).here = calls[c].here /\ Again(c, stage, req).op = calls[c].op
         /\ Again(c, stage, req).stage = stage
  BY DEF Again, Request, NoCall

LEMMA InterceptedWorks ==
  ASSUME FormInv, NEW c \in Calls, Intercepted(c)
  PROVE  Works
<1>1. /\ calls' = [calls EXCEPT ![c] = Again(c, "refresh", "refresh")]
      /\ UNCHANGED <<loadingUser, page, form>> /\ calls[c].stage = "first"
  BY DEF Intercepted, Intercepts, browserVars
<1>2. calls'[c] = Again(c, "refresh", "refresh") /\ \A d \in Calls \ {c} : calls'[d] = calls[d]
  BY <1>1, CallsTyped DEF FormInv
<1>3. calls'[c].here = calls[c].here /\ calls'[c].op = calls[c].op /\ calls'[c].stage = "refresh"
  BY <1>2, AgainFields
<1>4. AllAdvance
  BY <1>1, <1>2, <1>3 DEF AllAdvance, Advances, Rank
<1> QED
  BY <1>1, <1>2, <1>3, <1>4, QuietWorks

LEMMA RefreshedWorks ==
  ASSUME FormInv, NEW c \in Calls, Refreshed(c)
  PROVE  Works
<1>1. ~loadingUser /\ UNCHANGED loadingUser /\ calls[c].stage = "refresh" /\ calls[c].op \in HttpOps
  BY CallsTyped, BusyTab DEF Refreshed, FormInv
<1>2. Kept(form)
  BY DEF FormInv, TabInv
<1>3. ASSUME NEW stage \in {"retry", "revoke"}, NEW req \in Requests, NEW u, NEW changed \in BOOLEAN,
             Open(u, changed, page, payload, [calls EXCEPT ![c] = Again(c, stage, req)], form)
      PROVE  Works
  <2>1. /\ Again(c, stage, req) \in CallStates
        /\ Again(c, stage, req).here = calls[c].here /\ Again(c, stage, req).op = calls[c].op
        /\ Again(c, stage, req).stage = stage
    BY AgainTyped, AgainFields DEF FormInv, Stages
  <2> DEFINE r == Again(c, stage, req)
  <2> HIDE DEF r
  <2>2. /\ r \in CallStates /\ r.here = calls[c].here /\ r.op = calls[c].op /\ r.stage = stage
        /\ r.op # "none"
        /\ Open(u, changed, page, payload, [calls EXCEPT ![c] = r], form)
    BY <1>1, <1>3, <2>1 DEF r, HttpOps
  <2>3. [calls EXCEPT ![c] = r][c] = r
    BY CallsTyped DEF FormInv
  <2>4. Advances(c, [calls EXCEPT ![c] = r])
    BY <1>1, <1>3, <2>2, <2>3 DEF Advances, Rank
  <2>5. Waits([calls EXCEPT ![c] = r], page, form)
    BY <1>1, <2>2, ReplacedWaits
  <2>6. TabInv' /\ AllAdvance /\ Stays([calls EXCEPT ![c] = r], form)
    BY <1>1, <1>2, <2>2, <2>4, <2>5, AnswerWorks
  <2> QED
    BY <1>2, <2>6, WorksIfStays DEF Kept
<1>4. ReqOf(calls[c].op) \in Requests /\ "revoke" \in Requests
  BY <1>1 DEF ReqOf, HttpOps, Requests
<1>5. CASE calls[c].status = "ok"
  <2>1. PICK yes \in BOOLEAN :
          Open("good", yes, page, payload, [calls EXCEPT ![c] = Again(c, "retry", ReqOf(calls[c].op))], form)
    BY <1>5 DEF Refreshed, Render
  <2> QED
    BY <1>3, <1>4, <2>1
<1>6. CASE calls[c].status # "ok"
  <2>1. PICK no \in BOOLEAN :
          Open(user, no, page, payload, [calls EXCEPT ![c] = Again(c, "revoke", "revoke")], form)
    BY <1>6 DEF Refreshed, Stay, Render
  <2> QED
    BY <1>3, <1>4, <2>1
<1> QED
  BY <1>5, <1>6

LEMMA NoCallFields == NoCall.op = "none" /\ NoCall \in CallStates
  BY NoCallTyped DEF NoCall

(* A call ends whose answer only moves the user.                           *)
LEMMA LoggedOutWorks ==
  ASSUME FormInv, NEW c \in Calls, LoggedOut(c)
  PROVE  Works
<1>1. PICK yes \in BOOLEAN : yes = TRUE /\ Open("none", yes, page, payload, Without(c), form)
  BY DEF LoggedOut, Render
<1>2. /\ UNCHANGED loadingUser /\ calls[c].op = "logout" /\ Kept(form)
      /\ Without(c) = [calls EXCEPT ![c] = NoCall]
  BY DEF LoggedOut, Answered, FormInv, TabInv, Without
<1>3. CASE ~loadingUser
  <2>1. Waits([calls EXCEPT ![c] = NoCall], page, form)
    BY <1>2, <1>3, NoCallFields, ReplacedWaits DEF Submits, Loads, HttpOps
  <2>2. Open("none", yes, page, payload, [calls EXCEPT ![c] = NoCall], form)
    BY <1>1 DEF Without
  <2>3. TabInv' /\ AllAdvance /\ Stays([calls EXCEPT ![c] = NoCall], form)
    BY <1>2, <1>3, <2>1, <2>2, NoCallFields, AnswerWorks
  <2> QED
    BY <1>2, <2>3, WorksIfStays DEF Kept
<1>4. CASE loadingUser
  <2>1. /\ Without(c) \in [Calls -> CallStates]
        /\ \A d \in Calls : Without(c)[d].op \in {"none", calls[d].op}
    BY <1>2, CallsTyped, NoCallFields DEF FormInv
  <2>2. /\ form' = NewForm /\ (page' = "profile" => "none" # "none")
        /\ \A d \in Calls : calls'[d].op = Without(c)[d].op \/ page' = "profile"
    BY <1>1, <1>4, <2>1, OpenEffect
  <2>3. /\ form = NewForm /\ \A d \in Calls : calls[d].op \notin HttpOps
    BY <1>4 DEF FormInv, TabInv
  <2>4. \A d \in Calls : calls'[d].op \notin HttpOps
    BY <2>1, <2>2, <2>3 DEF HttpOps
  <2> QED
    BY <1>2, <1>4, <2>2, <2>3, <2>4, NewFormKept DEF Works, TabInv, AllAdvance, Advances, EditsStay
<1> QED
  BY <1>3, <1>4

LEMMA InitializedWorks ==
  ASSUME FormInv, NEW c \in Calls, Initialized(c)
  PROVE  Works
<1> DEFINE u == IF calls[c].status = "ok" THEN "good" ELSE "none"
<1>1. PICK yes \in BOOLEAN : yes = TRUE /\ Open(u, yes, page, payload, Without(c), form)
  BY DEF Initialized, Render
<1>2. /\ ~loadingUser' /\ calls[c].op = "init" /\ Kept(form)
      /\ Without(c) = [calls EXCEPT ![c] = NoCall]
  BY DEF Initialized, Answered, FormInv, TabInv, Without
<1> HIDE DEF u
<1>3. CASE ~loadingUser
  <2>1. Waits([calls EXCEPT ![c] = NoCall], page, form)
    BY <1>2, <1>3, NoCallFields, ReplacedWaits DEF Submits, Loads, HttpOps
  <2>2. UNCHANGED loadingUser /\ Open(u, yes, page, payload, [calls EXCEPT ![c] = NoCall], form)
    BY <1>1, <1>3 DEF Initialized, Without, FormInv, IInv, AccountsTypeOK
  <2>3. TabInv' /\ AllAdvance /\ Stays([calls EXCEPT ![c] = NoCall], form)
    BY <1>2, <1>3, <2>1, <2>2, NoCallFields, AnswerWorks
  <2> QED
    BY <1>2, <2>3, WorksIfStays DEF Kept
<1>4. CASE loadingUser
  <2>1. /\ Without(c) \in [Calls -> CallStates]
        /\ \A d \in Calls : Without(c)[d].op \in {"none", calls[d].op}
    BY <1>2, CallsTyped, NoCallFields DEF FormInv
  <2>2. /\ form' = NewForm
        /\ page' = "profile" => \E d \in Calls : calls'[d].here /\ calls'[d].op = "load"
        /\ \A d \in Calls : calls'[d].here => page' = "profile"
    BY <1>1, <1>4, <2>1, OpenEffect
  <2>3. /\ form = NewForm /\ \A d \in Calls : calls[d].op \notin HttpOps
    BY <1>4 DEF FormInv, TabInv
  <2>4. Waits(calls', page', form')
    BY <2>2, NewFormKept DEF Waits, Loads
  <2> QED
    BY <1>2, <2>2, <2>3, <2>4, NewFormKept DEF Works, TabInv, AllAdvance, Advances, EditsStay
<1> QED
  BY <1>3, <1>4

(* The form of a page whose submission ends.                               *)
LEMMA IdledWaits ==
  ASSUME FormInv, ~loadingUser, NEW c \in Calls, calls[c].op \in {"login", "register", "update"}
  PROVE  /\ Kept(Idled(c)) /\ (form.dirty => Idled(c).values = Edited)
         /\ Waits([calls EXCEPT ![c] = NoCall], page, Idled(c))
<1>1. form \in Forms
  BY CallsTyped DEF FormInv
<1>2. /\ Idled(c).loading = form.loading /\ Idled(c).dirty = form.dirty /\ Idled(c).values = form.values
      /\ Idled(c).submitting => form.submitting
      /\ calls[c].here => ~Idled(c).submitting
  BY <1>1 DEF Idled, Forms
<1>3. Waits([calls EXCEPT ![c] = NoCall], page, Idled(c))
  BY <1>2, NoCallFields, ReplacedWaits DEF Loads, HttpOps
<1> QED
  BY <1>2, <1>3 DEF Kept, FormInv, TabInv

(* A submission ends, and its page is rendered or left.                    *)
LEMMA SubmissionEnds ==
  ASSUME FormInv, NEW c \in Calls, calls[c].op \in {"login", "register", "update"}, UNCHANGED loadingUser,
         NEW u, NEW changed \in BOOLEAN, NEW p, NEW state,
         Open(u, changed, p, state, Without(c), Idled(c))
  PROVE  Works
<1>1. ~loadingUser
  BY BusyTab DEF HttpOps
<1> DEFINE f == Idled(c)
<1>2. /\ Kept(f) /\ (form.dirty => f.values = Edited)
      /\ Waits([calls EXCEPT ![c] = NoCall], page, f)
  BY <1>1, IdledWaits
<1>3. Open(u, changed, p, state, [calls EXCEPT ![c] = NoCall], f)
  BY DEF Without
<1> HIDE DEF f
<1>4. TabInv' /\ AllAdvance /\ Stays([calls EXCEPT ![c] = NoCall], f)
  BY <1>1, <1>2, <1>3, NoCallFields, AnswerWorks
<1> QED
  BY <1>2, <1>4, WorksIfStays

LEMMA SignInWorks ==
  ASSUME FormInv, NEW c \in Calls, LoginSucceeds(c) \/ RegisterSucceeds(c)
  PROVE  Works
<1>1. calls[c].op \in {"login", "register", "update"} /\ UNCHANGED loadingUser
  BY DEF LoginSucceeds, RegisterSucceeds, Succeeds, Ends
<1>2. CASE LoginSucceeds(c)
  <2>1. PICK yes \in BOOLEAN : Open("good", yes, "home", payload, Without(c), Idled(c))
    BY <1>2 DEF LoginSucceeds, Render
  <2> QED
    BY <1>1, <2>1, SubmissionEnds
<1>3. CASE RegisterSucceeds(c)
  <2>1. PICK no \in BOOLEAN : Open(user, no, "created", "good", Without(c), Idled(c))
    BY <1>3 DEF RegisterSucceeds
  <2> QED
    BY <1>1, <2>1, SubmissionEnds
<1> QED
  BY <1>2, <1>3

(* What a failed call makes of the user.                                   *)
LEMMA FallsOpens ==
  ASSUME NEW c \in Calls, NEW p, NEW cs, NEW f, Falls(c, p, cs, f)
  PROVE  \E u : \E changed \in BOOLEAN : Open(u, changed, p, payload, cs, f)
  BY DEF Falls, Render

LEMMA SubmitFailsWorks ==
  ASSUME FormInv, NEW c \in Calls, SubmitFails(c)
  PROVE  Works
<1>1. calls[c].op \in {"login", "register", "update"} /\ UNCHANGED loadingUser
  BY DEF SubmitFails, Fails, Ends
<1>2. PICK u : \E changed \in BOOLEAN : Open(u, changed, page, payload, Without(c), Idled(c))
  BY FallsOpens DEF SubmitFails
<1> QED
  BY <1>1, <1>2, SubmissionEnds

(* The update has been stored: its call goes on to load the profile.       *)
LEMMA UpdateSucceedsWorks ==
  ASSUME FormInv, NEW c \in Calls, UpdateSucceeds(c)
  PROVE  Works
<1> DEFINE r == [Again(c, "first", "profile") EXCEPT !.op = "reload", !.auth = calls[c].stage = "first"]
<1>1. calls[c].op = "update" /\ UNCHANGED loadingUser
  BY DEF UpdateSucceeds, Succeeds, Ends
<1>2. ~loadingUser /\ Kept(form)
  BY <1>1, BusyTab DEF HttpOps, FormInv, TabInv
<1>3. PICK yes \in BOOLEAN : Open("good", yes, page, payload, [calls EXCEPT ![c] = r], form)
  BY DEF UpdateSucceeds, Render
<1>4. r \in CallStates /\ r.here = calls[c].here /\ r.op = "reload"
  <2>1. Again(c, "first", "profile") \in CallStates /\ Again(c, "first", "profile").here = calls[c].here
    BY AgainTyped, AgainFields DEF FormInv, Stages, Requests
  <2>2. (calls[c].stage = "first") \in BOOLEAN
    OBVIOUS
  <2> QED
    BY <2>1, <2>2 DEF CallStates, HttpOps
<1> HIDE DEF r
<1>5. [calls EXCEPT ![c] = r][c] = r
  BY CallsTyped DEF FormInv
<1>6. Advances(c, [calls EXCEPT ![c] = r])
  BY <1>1, <1>4, <1>5 DEF Advances
<1>7. Waits([calls EXCEPT ![c] = r], page, form)
  BY <1>1, <1>2, <1>4, ReplacedWaits
<1>8. TabInv' /\ AllAdvance /\ Stays([calls EXCEPT ![c] = r], form)
  BY <1>1, <1>2, <1>3, <1>4, <1>6, <1>7, AnswerWorks
<1> QED
  BY <1>2, <1>8, WorksIfStays DEF Kept

LEMMA LoadSucceedsWorks ==
  ASSUME FormInv, NEW c \in Calls, LoadSucceeds(c)
  PROVE  Works
<1> DEFINE f == IF calls[c].here THEN Loaded(form, calls[c].data) ELSE form
<1>1. calls[c].op = "load" /\ UNCHANGED loadingUser
  BY DEF LoadSucceeds, Succeeds, Ends
<1>2. ~loadingUser /\ Kept(form) /\ form \in Forms
  BY <1>1, BusyTab, CallsTyped DEF HttpOps, FormInv, TabInv
<1>3. PICK no \in BOOLEAN : no = FALSE /\ Open(user, no, page, payload, [calls EXCEPT ![c] = NoCall], f)
  BY DEF LoadSucceeds, Stay, Render, Without
<1>4. /\ f.submitting = form.submitting /\ f.dirty = form.dirty
      /\ f.loading => form.loading /\ ~calls[c].here
      /\ form.dirty => f.values = form.values
  BY <1>2 DEF Loaded, Filled, Forms
<1> HIDE DEF f
<1>5. Kept(f) /\ (form.dirty => f.values = Edited)
  BY <1>2, <1>4 DEF Kept
<1>6. Waits([calls EXCEPT ![c] = NoCall], page, f)
  BY <1>1, <1>2, <1>4, NoCallFields, ReplacedWaits DEF Submits, HttpOps
<1>7. TabInv' /\ AllAdvance /\ Stays([calls EXCEPT ![c] = NoCall], f)
  BY <1>1, <1>2, <1>3, <1>5, <1>6, NoCallFields, AnswerWorks
<1> QED
  BY <1>5, <1>7, WorksIfStays

(* The profile after an update: the one step that may drop what was typed. *)
LEMMA ReloadSucceedsWorks ==
  ASSUME FormInv, NEW c \in Calls, ReloadSucceeds(c)
  PROVE  Works
<1> DEFINE reset == [form EXCEPT !.dirty = FALSE, !.values = calls[c].base, !.submitting = FALSE]
           f == IF calls[c].here THEN Loaded(reset, calls[c].data) ELSE form
<1>1. calls[c].op = "reload" /\ UNCHANGED loadingUser /\ Succeeds(c, "reload")
  BY DEF ReloadSucceeds, Succeeds, Ends
<1>2. ~loadingUser /\ Kept(form) /\ form \in Forms
  BY <1>1, BusyTab, CallsTyped DEF HttpOps, FormInv, TabInv
<1>3. PICK no \in BOOLEAN : no = FALSE /\ Open(user, no, page, payload, [calls EXCEPT ![c] = NoCall], f)
  BY DEF ReloadSucceeds, Stay, Render, Without
<1>4. /\ f.submitting => form.submitting /\ ~calls[c].here
      /\ f.loading => form.loading /\ ~calls[c].here
      /\ Kept(f)
  BY <1>2 DEF Loaded, Kept, Forms
<1> HIDE DEF f
<1>5. Waits([calls EXCEPT ![c] = NoCall], page, f)
  BY <1>1, <1>2, <1>4, NoCallFields, ReplacedWaits DEF HttpOps
<1>6. TabInv' /\ AllAdvance
  BY <1>1, <1>2, <1>3, <1>4, <1>5, NoCallFields, AnswerWorks
<1>7. page' = page => calls'[c].op = "none"
  <2>1. [calls EXCEPT ![c] = NoCall] \in [Calls -> CallStates] /\ [calls EXCEPT ![c] = NoCall][c] = NoCall
    BY CallsTyped, NoCallFields DEF FormInv
  <2>2. \/ calls'[c].op = NoCall.op
        \/ page' # page \/ loadingUser \/ no = TRUE
    BY <1>3, <2>1, OpenEffect
  <2> QED
    BY <1>2, <1>3, <2>2, NoCallFields
<1> QED
  BY <1>1, <1>6, <1>7 DEF Works, EditsStay

LEMMA LoadFailsWorks ==
  ASSUME FormInv, NEW c \in Calls, LoadFails(c)
  PROVE  Works
<1> DEFINE r == [Request("revoke") EXCEPT !.op = "logout"]
<1>1. calls[c].op \in Loads /\ UNCHANGED loadingUser
  BY DEF LoadFails, Fails, Ends, Loads
<1>2. ~loadingUser /\ Kept(form) /\ Waits(calls, page, form)
  BY <1>1, BusyTab DEF HttpOps, FormInv, TabInv, Loads
<1>3. r \in CallStates /\ r.op = "logout"
  <2>1. Request("revoke") \in CallStates
    BY RequestTyped DEF FormInv, IInv, Requests
  <2> QED
    BY <2>1 DEF CallStates
<1>4. PICK p \in {"home", "login"} : Falls(c, p, [calls EXCEPT ![c] = r], form)
  BY DEF LoadFails
<1>5. PICK u : \E changed \in BOOLEAN : Open(u, changed, p, payload, [calls EXCEPT ![c] = r], form)
  BY <1>4, FallsOpens
<1> HIDE DEF r
<1>6. [calls EXCEPT ![c] = r] \in [Calls -> CallStates] /\ [calls EXCEPT ![c] = r][c] = r
  BY <1>3, CallsTyped DEF FormInv
<1>7. page' # "profile"
  <2> DEFINE cs == [calls EXCEPT ![c] = r]
  <2>1. PICK changed \in BOOLEAN : Open(u, changed, p, payload, cs, form)
    BY <1>5
  <2>2. cs \in [Calls -> CallStates]
    BY <1>6
  <2> HIDE DEF cs
  <2>3. page' = "profile" => p = "profile"
    BY <2>1, <2>2, OpenEffect
  <2> QED
    BY <1>4, <2>3
<1>8. page' = page => ~calls[c].here
  BY <1>1, <1>2, <1>7 DEF Waits
<1>9. page' = page => Waits([calls EXCEPT ![c] = r], page, form)
  BY <1>2, <1>3, <1>8, ReplacedWaits DEF HttpOps
<1>10. Advances(c, [calls EXCEPT ![c] = r])
  BY <1>1, <1>3, <1>6 DEF Advances, Loads
<1>11. TabInv' /\ AllAdvance /\ Stays([calls EXCEPT ![c] = r], form)
  BY <1>1, <1>2, <1>3, <1>5, <1>9, <1>10, AnswerWorks
<1> QED
  BY <1>2, <1>11, WorksIfStays DEF Kept

LEMMA OtherAnsweredWorks ==
  ASSUME FormInv, NEW c \in Calls, OtherAnswered(c)
  PROVE  Works
<1>1. /\ calls' = [calls EXCEPT ![c] = NoCall] /\ calls[c].op = "other"
      /\ UNCHANGED <<loadingUser, page, form>>
  BY DEF OtherAnswered, Answered, Without, browserVars
<1>2. calls'[c] = NoCall /\ \A d \in Calls \ {c} : calls'[d] = calls[d]
  BY <1>1, CallsTyped DEF FormInv
<1>3. AllAdvance
  BY <1>1, <1>2 DEF AllAdvance, Advances, HttpOps
<1> QED
  BY <1>1, <1>2, <1>3, NoCallFields, QuietWorks DEF HttpOps

(* The server changes what a request has come to, never whose it is.       *)
LEMMA ServerWorks ==
  ASSUME FormInv, NEW c \in Calls, Server(c)
  PROVE  Works
<1>1. UNCHANGED <<loadingUser, page, form>>
  BY DEF Server, browserVars
<1>2. \A d \in Calls : /\ calls'[d].here = calls[d].here /\ calls'[d].op = calls[d].op
                       /\ calls[d].at = "answered" => calls'[d].at # "sent"
  <2>a. calls \in [Calls -> CallStates] /\ \A d \in Calls : calls[d] \in CallStates
    BY CallsTyped DEF FormInv
  <2>1. ASSUME NEW status, NEW data, NEW token, Answer(c, status, data, token)
        PROVE  \A d \in Calls : /\ calls'[d].here = calls[d].here /\ calls'[d].op = calls[d].op
                                /\ calls[d].at = "answered" => calls'[d].at # "sent"
    BY <2>a, <2>1 DEF Answer, CallStates
  <2>2. ASSUME NEW at \in {"checked", "revoked"}, Goes(c, at)
        PROVE  \A d \in Calls : /\ calls'[d].here = calls[d].here /\ calls'[d].op = calls[d].op
                                /\ calls[d].at = "answered" => calls'[d].at # "sent"
    BY <2>a, <2>2 DEF Goes, CallStates
  <2>3. CASE UpdateWrite(c)
    BY <2>a, <2>3 DEF UpdateWrite, CallStates
  <2>4. Register(c) \/ LoginIssue(c) \/ UpdateIssue(c) => \E status, data, token : Answer(c, status, data, token)
    BY DEF Register, LoginIssue, UpdateIssue, IssueRefreshToken, Refuse
  <2>5. LoginCheck(c) \/ UpdateCheck(c) \/ UpdateRevoke(c)
          => Goes(c, "checked") \/ Goes(c, "revoked") \/ \E status, data, token : Answer(c, status, data, token)
    BY DEF LoginCheck, UpdateCheck, UpdateRevoke, Refuse
  <2>6. RefreshToken(c) \/ RevokeToken(c) \/ GetProfile(c) \/ Fail(c)
          => \E status, data, token : Answer(c, status, data, token)
    BY DEF RefreshToken, RevokeToken, GetProfile, Fail, Refuse
  <2> QED
    BY <2>1, <2>2, <2>3, <2>4, <2>5, <2>6 DEF Server, Serve
<1> QED
  BY <1>1, <1>2, QuietWorks DEF AllAdvance, Advances

---------------------------------------------------------------------------
LEMMA NextWorks ==
  ASSUME FormInv, [Next]_vars
  PROVE  FormInv' /\ AllAdvance /\ EditsStay
<1>1. IInv'
  BY StepKeeps DEF FormInv
<1> SUFFICES Works
  BY <1>1 DEF Works, FormInv
<1>2. CASE \/ Visit \/ handleChange \/ ClickLogout \/ AccessExpires \/ Reload \/ OtherDevice
  BY <1>2, VisitWorks, ChangeWorks, BesideWorks, ExpiryWorks, ReloadWorks
<1>3. CASE SubmitLogin \/ SubmitRegister \/ SubmitUpdate
  BY <1>3, SubmitWorks DEF SubmitLogin, SubmitRegister, SubmitUpdate
<1>4. ASSUME NEW c \in Calls, Handle(c) PROVE Works
  BY <1>4, InterceptedWorks, RefreshedWorks, LoggedOutWorks, InitializedWorks, SignInWorks,
     UpdateSucceedsWorks, SubmitFailsWorks, LoadSucceedsWorks, ReloadSucceedsWorks,
     LoadFailsWorks, OtherAnsweredWorks DEF Handle
<1>5. CASE UNCHANGED vars
  BY <1>5, QuietWorks DEF vars, serverVars, browserVars, AllAdvance, Advances
<1> QED
  BY <1>2, <1>3, <1>4, <1>5, ServerWorks DEF Next

LEMMA InitForms == Init => FormInv
<1> SUFFICES ASSUME Init PROVE FormInv
  OBVIOUS
<1>1. Waits(calls, page, form) /\ Kept(form) /\ ~loadingUser
  BY NewFormKept, NoCallFields DEF Init, ServerInit, Waits, Loads
<1> QED
  BY <1>1, InitIInv DEF FormInv, TabInv

(* When no call of a page is on its way, no form waits for one, whatever   *)
(* failed and in whatever order the answers came (LoginPage.js:33-57,      *)
(* RegisterPage.js:26-59, UserProfilePage.js:20-108).                      *)
THEOREM FormsAreReleased == Spec => []NoFormWaitsForever
<1>1. FormInv /\ [Next]_vars => FormInv'
  BY NextWorks
<1>2. FormInv => NoFormWaitsForever
  BY DEF FormInv, TabInv, Waits, NoFormWaitsForever
<1> QED
  BY InitForms, <1>1, <1>2, PTL DEF Spec

(* What is typed into the profile stays until an update succeeds, however  *)
(* often the profile is loaded under it (useAuthForm.js:11-34,             *)
(* UserProfilePage.js:20-108).                                             *)
THEOREM TypingIsKept == Spec => EditsAreKept
<1>1. FormInv /\ [Next]_vars => FormInv'
  BY NextWorks
<1>2. FormInv /\ [Next]_vars => [EditsStay]_vars
  BY NextWorks
<1>3. Spec => [][EditsStay]_vars
  BY InitForms, <1>1, <1>2, PTL DEF Spec
<1> QED
  BY <1>3 DEF EditsAreKept, EditsStay

(* No call of httpRequest goes round: what it sends after an answer is     *)
(* nearer to its end (http.js:56-89, UserContext.js:24-50).                *)
THEOREM RefreshIsTriedOnce == Spec => CallsComeToAnEnd
<1>1. FormInv /\ [Next]_vars => FormInv'
  BY NextWorks
<1>2. FormInv /\ [Next]_vars => [AllAdvance]_calls
  BY NextWorks
<1>3. Spec => [][AllAdvance]_calls
  BY InitForms, <1>1, <1>2, PTL DEF Spec
<1> QED
  BY <1>3 DEF CallsComeToAnEnd, AllAdvance, Advances
==============================================================================
