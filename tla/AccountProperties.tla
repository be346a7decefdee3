------------------------- MODULE AccountProperties -------------------------
(***************************************************************************)
(* What accounts, sessions and the pages around them should guarantee,     *)
(* stated over Browser.                                                    *)
(***************************************************************************)
EXTENDS Browser

Versions == 0..MaxVersion
Stages == {"first", "refresh", "revoke", "retry"}
UserStates == {"none", "good", "old"}
Requests == {"login", "register", "update", "profile", "refresh", "revoke"}

CallStates ==
  [op : HttpOps \cup {"none", "init", "logout", "other"}, stage : Stages, here : BOOLEAN,
   base : Versions, req : Requests \cup {"none"},
   at : {"idle", "sent", "checked", "written", "revoked", "answered"},
   arg : Versions, auth : BOOLEAN, token : Tokens \cup {0},
   status : {"none", "ok", "401", "failed"}, data : Versions]
Forms ==
  [data : Versions, loading : BOOLEAN, submitting : BOOLEAN, values : Versions \cup {Edited},
   dirty : BOOLEAN]

(* The shape of the state.                                                 *)
AccountsTypeOK ==
  /\ account \in Versions
  /\ sessions \in [Tokens -> SessionStates]
  /\ cookie \in Tokens \cup {0}
  /\ calls \in [Calls -> CallStates]
  /\ user \in UserStates /\ payload \in UserStates
  /\ loadingUser \in BOOLEAN /\ signedOut \in BOOLEAN
  /\ page \in Pages
  /\ form \in Forms

(* A password change ends every session there is when the new password is  *)
(* stored: such a session lives on only while an update that stored one    *)
(* has yet to revoke, or after a revocation that failed or was cut off,    *)
(* however many updates overlap.  A session issued after the new password  *)
(* was stored is not meant, whatever password was checked for it           *)
(* (service/auth.go:168-227, sessions.go:36-48).                           *)
OldSessionsEnd ==
  \A t \in Tokens : sessions[t] = "old" => \E c \in Calls : At(c, "update", "written")

(* What the user has typed into the profile is kept until an update of his *)
(* succeeds, however often the profile is loaded again                     *)
(* (useAuthForm.js:11-34, UserProfilePage.js:20-108).                      *)
EditsAreKept ==
  [][form.dirty /\ page' = page /\ ~loadingUser' =>
       \/ form'.values = Edited
       \/ \E c \in Calls : Succeeds(c, "reload") /\ calls'[c].op = "none"]_vars

(* When no call of a page is on its way, no form waits for one: its button *)
(* and the page are usable again, whatever failed (LoginPage.js:33-57,     *)
(* RegisterPage.js:26-59, UserProfilePage.js:20-108).                      *)
NoFormWaitsForever ==
  ~loadingUser /\ (\A c \in Calls : ~calls[c].here) =>
    ~form.submitting /\ (page = "profile" => ~form.loading)

(* A call of httpRequest comes to its end: each request it sends after an  *)
(* answer is nearer to it, so that no 401 is refreshed for ever            *)
(* (http.js:56-89, UserContext.js:24-50).                                  *)
Rank == [first |-> 0, refresh |-> 1, retry |-> 2, revoke |-> 2]
CallsComeToAnEnd ==
  [][\A c \in Calls :
       calls[c].op \in HttpOps /\ calls'[c].op = calls[c].op /\ calls[c].at = "answered" /\ calls'[c].at = "sent" =>
         Rank[calls'[c].stage] > Rank[calls[c].stage]]_calls

(* "logout calls service and clears state" (UserContext.test.js:96): once  *)
(* it has, nobody is signed in until the user asks for it.                 *)
LogoutSticks == signedOut => user = "none"

(* Revoking the token of the refresh cookie succeeds (auth_test.go:186):   *)
(* when the answer to a logout clears the cookie, its session has ended.   *)
LogoutEndsSession ==
  [][\A c \in Calls :
       LoggedOut(c) /\ calls[c].status = "ok" /\ cookie # 0 => sessions'[cookie] = "none"]_vars
=============================================================================
