------------------------------ MODULE Sessions ------------------------------
(***************************************************************************)
(* Accounts and sessions of the server: service/auth.go with the handlers  *)
(* and the middleware around it, for one account.  A version of the        *)
(* account stands for its password and profile together, because an update *)
(* always replaces both.  Every statement is its own transaction but those *)
(* of Register, so requests interleave between them; a request may fail or *)
(* be cut off at any of them.                                              *)
(***************************************************************************)
EXTENDS Integers, FiniteSets

CONSTANTS
  Calls,        \* bound: requests on their way at the same time
  Tokens,       \* bound: refresh tokens that live or are held somewhere, at a time
  MaxVersion    \* bound: versions of the account

ASSUME TokenAssumption == Tokens \subseteq Nat \ {0}
ASSUME VersionAssumption == MaxVersion \in Nat \ {0}

VARIABLES
  account,      \* the version stored, 0 before the registration
  sessions,     \* refresh_tokens; one that is revoked is as good as never issued
  cookie,       \* the refresh token in the cookie jar of the tab, 0 for none
  calls         \* each request, where it has got to and its answer

serverVars == <<account, sessions, calls>>

(* "old" is history: the session lived when an update stored its password, *)
(* and that update has yet to revoke it.                                   *)
SessionStates == {"none", "live", "old"}
Live(t) == sessions[t] # "none"

(* op, stage, here and base are the sender's (Browser).                    *)
NoCall == [op |-> "none", stage |-> "first", here |-> FALSE, base |-> 0,
           req |-> "none", at |-> "idle", arg |-> 0, auth |-> FALSE, token |-> 0,
           status |-> "none", data |-> 0]

ServerInit ==
  /\ account = 0
  /\ sessions = [t \in Tokens |-> "none"]
  /\ cookie = 0
  /\ calls = [c \in Calls |-> NoCall]

At(c, req, at) == calls[c].req = req /\ calls[c].at = at
Goes(c, at) == calls' = [calls EXCEPT ![c].at = at]

Answer(c, status, data, token) ==
  calls' = [calls EXCEPT ![c].at = "answered", ![c].status = status, ![c].auth = FALSE,
                         ![c].data = data, ![c].token = token]
Refuse(c, status) == Answer(c, status, 0, 0)

Unused == {t \in Tokens : ~Live(t) /\ cookie # t /\ \A c \in Calls : calls[c].token # t}
NextToken == CHOOSE t \in Unused : TRUE

IssueRefreshToken(c) ==
  /\ Unused # {}
  /\ sessions' = [sessions EXCEPT ![NextToken] = "live"]
  /\ Answer(c, "ok", 0, NextToken)

---------------------------------------------------------------------------
(* Register: one transaction.                                              *)
Register(c) ==
  /\ At(c, "register", "sent")
  /\ IF account = 0
     THEN account' = 1 /\ IssueRefreshToken(c)
     ELSE Refuse(c, "failed") /\ UNCHANGED <<account, sessions>>

(* Login: the password is checked, then a session is issued.               *)
LoginCheck(c) ==
  /\ At(c, "login", "sent")
  /\ (account # 0 /\ calls[c].arg = account /\ Goes(c, "checked")) \/ Refuse(c, "401")
  /\ UNCHANGED <<account, sessions>>

LoginIssue(c) ==
  /\ At(c, "login", "checked")
  /\ UNCHANGED account
  /\ IssueRefreshToken(c) \/ (Refuse(c, "401") /\ UNCHANGED sessions)

(* AuthMiddleware lets a request through with a good access token.         *)
Authorized(c) == calls[c].auth

(* UpdateUser behind the middleware: check the old password, store the new *)
(* one, revoke all sessions, issue one.                                    *)
UpdateCheck(c) ==
  /\ At(c, "update", "sent")
  /\ (Authorized(c) /\ account # 0 /\ calls[c].arg = account /\ Goes(c, "checked")) \/ Refuse(c, "401")
  /\ UNCHANGED <<account, sessions>>

Outdated(all) == [t \in Tokens |-> IF all[t] = "none" THEN "none" ELSE "old"]

\* another update has stored its password, and has yet to revoke
Overlaps(c) == \E d \in Calls \ {c} : At(d, "update", "written")

\* bound: the same password and profile are stored again only by updates that overlap
UpdateWrite(c) ==
  /\ At(c, "update", "checked")
  /\ \/ account < MaxVersion /\ account' = account + 1
     \/ Overlaps(c) /\ account' = account
  /\ calls' = [calls EXCEPT ![c].at = "written"]
  /\ sessions' = Outdated(sessions)

\* Mutant: only one session is revoked.
RevokeOne(all) ==
  [t \in Tokens |-> IF all[t] # "none" /\ \A u \in Tokens : all[u] # "none" => t <= u
                    THEN "none" ELSE all[t]]
RevokeAllRefreshTokensForUser(all) == [t \in Tokens |-> "none"]

\* it comes to nothing: unless another update is about to revoke, what lives lives on
Unrevoked(c) ==
  IF Overlaps(c) THEN sessions
  ELSE [t \in Tokens |-> IF sessions[t] = "old" THEN "live" ELSE sessions[t]]

\* its error is ignored
UpdateRevoke(c) ==
  /\ At(c, "update", "written")
  /\ sessions' \in {RevokeAllRefreshTokensForUser(sessions), Unrevoked(c)}
  /\ Goes(c, "revoked")
  /\ UNCHANGED account

UpdateIssue(c) ==
  /\ At(c, "update", "revoked")
  /\ UNCHANGED account
  /\ IssueRefreshToken(c)

(* RefreshToken does not rotate the token.                                 *)
RefreshToken(c) ==
  LET t == calls[c].token IN
  /\ At(c, "refresh", "sent")
  /\ IF t # 0 /\ Live(t) THEN Answer(c, "ok", 0, 0) ELSE Refuse(c, "401")
  /\ UNCHANGED <<account, sessions>>

(* RevokeToken ends the session of the cookie, if one came, and clears it. *)
RevokeToken(c) ==
  LET t == calls[c].token IN
  /\ At(c, "revoke", "sent")
  /\ sessions' = IF t = 0 THEN sessions ELSE [sessions EXCEPT ![t] = "none"]
  /\ Answer(c, "ok", 0, 0)
  /\ UNCHANGED account

\* any error of GetUser is a 401
GetProfile(c) ==
  /\ At(c, "profile", "sent")
  /\ (Authorized(c) /\ Answer(c, "ok", account, 0)) \/ Refuse(c, "401")
  /\ UNCHANGED <<account, sessions>>

Serve(c) ==
  \/ Register(c) \/ LoginCheck(c) \/ LoginIssue(c)
  \/ UpdateCheck(c) \/ UpdateWrite(c) \/ UpdateRevoke(c) \/ UpdateIssue(c)
  \/ RefreshToken(c) \/ RevokeToken(c) \/ GetProfile(c)

(* A statement fails, a limit or a taken name refuses the request, the     *)
(* server stops, or the answer is lost, which matters when it brings a     *)
(* cookie: any other is as good as refused.                                *)
Fail(c) ==
  /\ calls[c].at \in {"sent", "checked", "written", "revoked", "answered"}
  /\ calls[c].at = "answered" => calls[c].token # 0
  /\ Refuse(c, "failed")
  /\ sessions' = IF calls[c].at = "written" THEN Unrevoked(c) ELSE sessions
  /\ UNCHANGED account
=============================================================================
