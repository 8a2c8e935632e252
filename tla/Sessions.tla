------------------------------ MODULE Sessions -------------------------------
(***************************************************************************)
(* Sessions: the refresh tokens of refreshToken.service.ts and every call  *)
(* that issues, rotates or revokes them, from auth.service.ts (login,      *)
(* OAuth login, password change and reset), admin.service.ts (ban, unban,  *)
(* delete) and the logout and verifyAuth handlers.                         *)
(*                                                                         *)
(* One call is an element of Requests; every awaited database, Redis or    *)
(* mail command is one action.  A call can fail before any of its commands *)
(* (an error of the command, or the process stopping), and what it wrote   *)
(* before stays: the transactions of changePassword and deleteUser are not *)
(* passed to the token updates inside them.                                *)
(***************************************************************************)
EXTENDS Integers, FiniteSets

CONSTANTS
    Users, Tokens, Requests,     \* bounds: accounts, tokens issued, calls
    Calls,                       \* bound: the kinds of calls made
    NoUser, NoToken, NoDoc

Kinds == {"login", "oauth", "rotate", "logout", "revokeOne", "revokeAll",
          "change", "forgot", "reset", "ban", "unban", "delete", "auth"}

ASSUME SessionsAssumption ==
    /\ NoUser \notin Users /\ NoToken \notin Tokens
    /\ Calls \subseteq Kinds

VARIABLES
    account,    \* users collection: password, isBanned, isDeleted, reset token
    token,      \* refreshtokens collection, by token
    req,        \* the progress of each call, and what it read
    access,     \* access tokens handed out, named by the refresh token they
                \*   were issued with
    blacklist,  \* Redis keys of invalidated access tokens
    reused      \* families on which reuse was detected

vars == <<account, token, req, access, blacklist, reused>>

------------------------------------------------------------------------------
(* Documents *)

\* pw numbers the passwords the account has had, so that a new one differs.
Accounts == [pw : Nat, banned : BOOLEAN, deleted : BOOLEAN, reset : BOOLEAN]

\* status is isRevoked, or the removal of the document by the TTL index.  For
\* the properties a token keeps the token it was exchanged for (parent), the
\* password in force when its family was opened (pw), and whether a revocation
\* that covers it ran between the call's check and its insert (straddled).
TokenDocs ==
    [status : {"live", "revoked", "removed"}, expired : BOOLEAN,
     user : Users, family : Tokens,
     parent : Tokens \cup {NoToken}, pw : Nat, straddled : BOOLEAN]

ASSUME NoDocAssumption ==
    NoDoc \notin TokenDocs /\ NoDoc \notin [user : Users, family : Tokens]

Stages == {"idle", "issue", "reuse", "revoke", "check", "blacklist", "save",
           "revokeAll", "mail", "ban", "unban", "delete", "commit", "user",
           "done"}

Answers == {"none", "access", "ok", "refused", "error"}

\* shut: the account was banned or deleted when the call began and has not been
\* unbanned since.
RequestStates ==
    [kind : Kinds \cup {"none"}, stage : Stages, answer : Answers,
     user : Users \cup {NoUser}, token : Tokens \cup {NoToken}, pw : Nat,
     shut : BOOLEAN, straddled : BOOLEAN]

Idle == [kind |-> "none", stage |-> "idle", answer |-> "none",
         user |-> NoUser, token |-> NoToken, pw |-> 0,
         shut |-> FALSE, straddled |-> FALSE]

Keys == [space : {"blacklist:at:", "blacklist:"}, token : Tokens]

Issued == {t \in Tokens : token[t] # NoDoc}

\* isValid: what findOne and the two checks after it accept.
Live(t) == t \in Issued /\ token[t].status = "live" /\ ~token[t].expired

Shut(u) == account[u].banned \/ account[u].deleted

FamilyOf(r) == token[req[r].token].family

Init ==
    /\ account = [u \in Users |-> [pw |-> 0, banned |-> FALSE,
                                   deleted |-> FALSE, reset |-> FALSE]]
    /\ token = [t \in Tokens |-> NoDoc]
    /\ req = [r \in Requests |-> Idle]
    /\ access = {}
    /\ blacklist = {}
    /\ reused = {}

\* A call of the given kind begins on behalf of user u and goes to its next
\* stage, or ends with an answer.
Begun(kind, u, t) ==
    [Idle EXCEPT !.kind = kind, !.user = u, !.token = t, !.shut = Shut(u),
                 !.pw = account[u].pw]

Begin(r, call, stage) ==
    /\ call.kind \in Calls
    /\ req[r].stage = "idle"
    /\ req' = [req EXCEPT ![r] = [call EXCEPT !.stage = stage]]

BeginAndEnd(r, call, answer) ==
    Begin(r, [call EXCEPT !.answer = answer], "done")

At(r, stage) == req[r].stage = stage

GoTo(r, stage) == req' = [req EXCEPT ![r].stage = stage]

End(r, answer) == req' = [req EXCEPT ![r].stage = "done", ![r].answer = answer]

Alone == UNCHANGED <<account, token, access, blacklist, reused>>

------------------------------------------------------------------------------
(* Issue *)

\* The calls between their check of the credentials and the insert.
Issuing == {r \in Requests : req[r].stage \in {"revoke", "issue"}}

\* issue: RefreshToken.create, in the family of the token exchanged or in a new
\* one.  The access token of a sign-in goes out with it.
NewDoc(r, t) ==
    [status |-> "live", expired |-> FALSE, user |-> req[r].user,
     family |-> IF req[r].kind = "rotate" THEN FamilyOf(r) ELSE t,
     parent |-> req[r].token, pw |-> req[r].pw,
     straddled |-> req[r].straddled]

IssueToken(r, t) ==
    /\ At(r, "issue")
    /\ t \notin Issued
    /\ token' = [token EXCEPT ![t] = NewDoc(r, t)]
    /\ IF req[r].kind = "rotate"
         THEN req' = [req EXCEPT ![r].stage = "check", ![r].token = t]
              /\ UNCHANGED access
         ELSE End(r, "access") /\ access' = access \cup {t}
    /\ UNCHANGED <<account, blacklist, reused>>

\* loginUser: findOne by e-mail (a deleted account has lost its own), the ban
\* check, and comparePassword on the hash that was read.
Login(r, u, p) ==
    /\ ~account[u].deleted
    /\ IF account[u].banned \/ account[u].pw # p
         THEN BeginAndEnd(r, Begun("login", u, NoToken), "refused")
         ELSE Begin(r, Begun("login", u, NoToken), "issue")
    /\ Alone

\* oauthLogin of a known account; deleteUser removes its providers.
OAuthLogin(r, u) ==
    /\ ~account[u].deleted
    /\ IF account[u].banned
         THEN BeginAndEnd(r, Begun("oauth", u, NoToken), "refused")
         ELSE Begin(r, Begun("oauth", u, NoToken), "issue")
    /\ Alone

------------------------------------------------------------------------------
(* rotate, and the handler around it *)

\* findOne by hash, then the revoked and the expired branch in that order.
Rotate(r, t) ==
    LET call == [Begun("rotate", token[t].user, t) EXCEPT !.pw = token[t].pw]
    IN
    /\ t \in Issued
    /\ CASE token[t].status = "removed" -> BeginAndEnd(r, call, "refused")
         [] token[t].status = "revoked" -> Begin(r, call, "reuse")
         [] Live(t) -> Begin(r, call, "revoke")
         [] OTHER -> BeginAndEnd(r, call, "refused")
    /\ Alone

\* revokeFamily: updateMany over the unrevoked tokens of the family.
RevokeTokens(S) ==
    token' = [t \in Tokens |->
                IF t \in S /\ t \in Issued /\ token[t].status = "live"
                  THEN [token[t] EXCEPT !.status = "revoked"] ELSE token[t]]

\* The calls in S will insert a token that a revocation has just missed.
Straddle(S) ==
    [r \in Requests |-> [req[r] EXCEPT !.straddled = @ \/ r \in S]]

InFamily(f) == {t \in Issued : token[t].family = f}

\* Mutant of RevokeFamily: only the presented token is revoked, once more.
RevokePresented(r) ==
    /\ At(r, "reuse")
    /\ reused' = reused \cup {FamilyOf(r)}
    /\ End(r, "refused")
    /\ UNCHANGED <<account, token, access, blacklist>>

RevokeFamily(r) ==
    LET f == FamilyOf(r)
        missed == {s \in Issuing : req[s].kind = "rotate" /\ FamilyOf(s) = f}
    IN
    /\ At(r, "reuse")
    /\ RevokeTokens(InFamily(f))
    /\ reused' = reused \cup {f}
    /\ req' = [Straddle(missed) EXCEPT ![r].stage = "done",
                                       ![r].answer = "refused"]
    /\ UNCHANGED <<account, access, blacklist>>

\* Mutant of RevokeOld: the old token is left as it is.
KeepOld(r) ==
    At(r, "revoke") /\ GoTo(r, "issue") /\ Alone

\* findByIdAndUpdate with no condition on isRevoked.
RevokeOld(r) ==
    /\ At(r, "revoke")
    /\ RevokeTokens({req[r].token})
    /\ GoTo(r, "issue")
    /\ UNCHANGED <<account, access, blacklist, reused>>

\* Mutant of CheckUser: the account is not looked at again.
SkipUser(r) ==
    /\ At(r, "check")
    /\ End(r, "access")
    /\ access' = access \cup {req[r].token}
    /\ UNCHANGED <<account, token, blacklist, reused>>

\* rotateRefreshToken looks at the account only now, with the new token stored.
CheckUser(r) ==
    /\ At(r, "check")
    /\ IF Shut(req[r].user)
         THEN End(r, "refused") /\ UNCHANGED access
         ELSE End(r, "access") /\ access' = access \cup {req[r].token}
    /\ UNCHANGED <<account, token, blacklist, reused>>
------------------------------------------------------------------------------
(* Revocation *)

\* revokeAllForUser: updateMany over the usable tokens of the user.
Usable(u) == {t \in Tokens : Live(t) /\ token[t].user = u}

\* after is the record of call r once the update is done.
RevokeAllForUser(r, u, after) ==
    /\ RevokeTokens(Usable(u))
    /\ req' = [Straddle({s \in Issuing : req[s].user = u}) EXCEPT ![r] = after]

\* logout: revokeByRaw of the refresh cookie, then the access cookie.
Logout(r, t) ==
    /\ t \in Issued
    /\ Begin(r, Begun("logout", token[t].user, t), "blacklist")
    /\ RevokeTokens({t})
    /\ UNCHANGED <<account, access, blacklist, reused>>

\* blacklistAccessToken, under the key that REDIS_KEYS.accessBlacklist gives.
Blacklist(r) ==
    /\ At(r, "blacklist")
    /\ blacklist' = blacklist \cup
                       {[space |-> "blacklist:at:", token |-> req[r].token]}
    /\ End(r, "ok")
    /\ UNCHANGED <<account, token, access, reused>>

\* revokeSessionById: updateOne by _id, owner and isRevoked: false.
RevokeSession(r, u, t) ==
    LET found == t \in Issued /\ token[t].user = u /\ token[t].status = "live"
    IN
    /\ BeginAndEnd(r, Begun("revokeOne", u, t), IF found THEN "ok" ELSE "refused")
    /\ IF found THEN RevokeTokens({t}) ELSE UNCHANGED token
    /\ UNCHANGED <<account, access, blacklist, reused>>

\* revokeAllSessions.
RevokeAllSessions(r, u) ==
    /\ "revokeAll" \in Calls
    /\ At(r, "idle")
    /\ RevokeAllForUser(r, u, [Begun("revokeAll", u, NoToken) EXCEPT
                                 !.stage = "done", !.answer = "ok"])
    /\ UNCHANGED <<account, access, blacklist, reused>>

\* The last await of changePassword, resetPassword and banUser.
RevokeAll(r) ==
    /\ At(r, "revokeAll")
    /\ RevokeAllForUser(r, req[r].user, [req[r] EXCEPT !.stage = "done",
                                                      !.answer = "ok"])
    /\ UNCHANGED <<account, access, blacklist, reused>>

------------------------------------------------------------------------------
(* Passwords *)

\* changePassword: findById and comparePassword on the hash that was read.
ChangePassword(r, u, p) ==
    /\ IF p = account[u].pw
         THEN Begin(r, Begun("change", u, NoToken), "save")
         ELSE BeginAndEnd(r, Begun("change", u, NoToken), "refused")
    /\ Alone

\* forgotPassword stores a reset token and mails it; when the mail cannot be
\* sent it removes whatever reset token the account then has.
ForgotPassword(r, u) ==
    /\ ~account[u].deleted
    /\ Begin(r, Begun("forgot", u, NoToken), "mail")
    /\ account' = [account EXCEPT ![u].reset = TRUE]
    /\ UNCHANGED <<token, access, blacklist, reused>>

MailSent(r) == At(r, "mail") /\ End(r, "ok") /\ Alone

MailRefused(r) ==
    /\ At(r, "mail")
    /\ End(r, "error")
    /\ account' = [account EXCEPT ![req[r].user].reset = FALSE]
    /\ UNCHANGED <<token, access, blacklist, reused>>

\* The ten minutes of a reset token pass.
ResetExpires(u) ==
    /\ account[u].reset
    /\ account' = [account EXCEPT ![u].reset = FALSE]
    /\ UNCHANGED <<token, req, access, blacklist, reused>>

\* resetPassword with the reset token the account has.
ResetPassword(r, u) ==
    /\ account[u].reset
    /\ Begin(r, Begun("reset", u, NoToken), "save")
    /\ Alone

\* Mutant of SavePassword: the sessions are revoked by a password change only.
SaveReset(r) ==
    LET u == req[r].user IN
    /\ At(r, "save")
    /\ account' = [account EXCEPT ![u].pw = @ + 1]
    /\ req' = [req EXCEPT
                 ![r].stage = IF req[r].kind = "reset" THEN "done" ELSE "revokeAll",
                 ![r].answer = IF req[r].kind = "reset" THEN "ok" ELSE "none",
                 ![r].pw = account[u].pw + 1]
    /\ UNCHANGED <<token, access, blacklist, reused>>

\* user.save with the new password, which resetPassword does together with
\* removing the reset token.
SavePassword(r) ==
    LET u == req[r].user IN
    /\ At(r, "save")
    /\ account' = [account EXCEPT
                     ![u].pw = @ + 1,
                     ![u].reset = IF req[r].kind = "reset" THEN FALSE ELSE @]
    /\ req' = [req EXCEPT ![r].stage = "revokeAll", ![r].pw = account[u].pw + 1]
    /\ UNCHANGED <<token, access, blacklist, reused>>

------------------------------------------------------------------------------
(* Administration *)

\* banUser and unbanUser: findOne, then save, then for a ban revokeAllForUser.
BanUser(r, u) ==
    /\ IF Shut(u) THEN BeginAndEnd(r, Begun("ban", u, NoToken), "refused")
                  ELSE Begin(r, Begun("ban", u, NoToken), "ban")
    /\ Alone

SaveBan(r) ==
    /\ At(r, "ban")
    /\ account' = [account EXCEPT ![req[r].user].banned = TRUE]
    /\ GoTo(r, "revokeAll")
    /\ UNCHANGED <<token, access, blacklist, reused>>

UnbanUser(r, u) ==
    /\ IF account[u].banned /\ ~account[u].deleted
         THEN Begin(r, Begun("unban", u, NoToken), "unban")
         ELSE BeginAndEnd(r, Begun("unban", u, NoToken), "refused")
    /\ Alone

SaveUnban(r) ==
    LET u == req[r].user IN
    /\ At(r, "unban")
    /\ account' = [account EXCEPT ![u].banned = FALSE]
    /\ req' = [s \in Requests |->
                 [req[s] EXCEPT
                    !.shut = @ /\ (req[s].user # u \/ account[u].deleted),
                    !.stage = IF s = r THEN "done" ELSE @,
                    !.answer = IF s = r THEN "ok" ELSE @]]
    /\ UNCHANGED <<token, access, blacklist, reused>>

\* deleteUser: findOne; user.save inside a transaction, which nobody sees yet;
\* revokeAllForUser outside it; then the commit, or an abort (Fail).
DeleteUser(r, u) ==
    /\ IF account[u].deleted
         THEN BeginAndEnd(r, Begun("delete", u, NoToken), "refused")
         ELSE Begin(r, Begun("delete", u, NoToken), "delete")
    /\ Alone

RevokeForDeletion(r) ==
    /\ At(r, "delete")
    /\ RevokeAllForUser(r, req[r].user, [req[r] EXCEPT !.stage = "commit"])
    /\ UNCHANGED <<account, access, blacklist, reused>>

CommitDeletion(r) ==
    /\ At(r, "commit")
    /\ account' = [account EXCEPT ![req[r].user].deleted = TRUE,
                                  ![req[r].user].banned = TRUE]
    /\ End(r, "ok")
    /\ UNCHANGED <<token, access, blacklist, reused>>

------------------------------------------------------------------------------
(* verifyAuth *)

\* The key the middleware reads is not the one blacklistAccessToken writes: the
\* check passes for a token that logout has blacklisted.
Authenticate(r, t) ==
    LET call == Begun("auth", token[t].user, t)
    IN
    /\ t \in access
    /\ IF [space |-> "blacklist:", token |-> t] \in blacklist
         THEN BeginAndEnd(r, call, "refused")
         ELSE Begin(r, call, "user")
    /\ Alone

LoadUser(r) ==
    /\ At(r, "user")
    /\ End(r, IF Shut(req[r].user) THEN "refused" ELSE "access")
    /\ Alone

------------------------------------------------------------------------------
(* Environment *)

\* expiresAt passes; some time later the TTL index removes the document.
Expire(t) ==
    /\ t \in Issued /\ ~token[t].expired
    /\ token' = [token EXCEPT ![t].expired = TRUE]
    /\ UNCHANGED <<account, req, access, blacklist, reused>>

Remove(t) ==
    /\ t \in Issued /\ token[t].expired /\ token[t].status # "removed"
    /\ token' = [token EXCEPT ![t].status = "removed"]
    /\ UNCHANGED <<account, req, access, blacklist, reused>>

\* A command fails, or the process stops: the call goes no further.
Fail(r) ==
    /\ req[r].stage \notin {"idle", "done"}
    /\ End(r, "error")
    /\ Alone

SignIn(r) ==
    \E u \in Users : \/ \E p \in 0..account[u].pw : Login(r, u, p)
                     \/ OAuthLogin(r, u)

RotateSteps(r) == \/ \E t \in Tokens : Rotate(r, t) \/ IssueToken(r, t)
                  \/ RevokeFamily(r) \/ RevokeOld(r) \/ CheckUser(r)

Revocation(r) ==
    \/ \E t \in Tokens : Logout(r, t)
    \/ \E u \in Users, t \in Tokens : RevokeSession(r, u, t)
    \/ \E u \in Users : RevokeAllSessions(r, u)
    \/ Blacklist(r) \/ RevokeAll(r)

Passwords(r) ==
    \/ \E u \in Users : \/ \E p \in 0..account[u].pw : ChangePassword(r, u, p)
                        \/ ForgotPassword(r, u) \/ ResetPassword(r, u)
    \/ MailSent(r) \/ MailRefused(r) \/ SavePassword(r)

Administration(r) ==
    \/ \E u \in Users : BanUser(r, u) \/ UnbanUser(r, u) \/ DeleteUser(r, u)
    \/ SaveBan(r) \/ SaveUnban(r) \/ RevokeForDeletion(r) \/ CommitDeletion(r)

Authentication(r) == (\E t \in Tokens : Authenticate(r, t)) \/ LoadUser(r)

Environment == \/ \E u \in Users : ResetExpires(u)
               \/ \E t \in Tokens : Expire(t) \/ Remove(t)

Next == \/ \E r \in Requests :
              \/ SignIn(r) \/ RotateSteps(r) \/ Revocation(r) \/ Passwords(r)
              \/ Administration(r) \/ Authentication(r) \/ Fail(r)
        \/ Environment

Spec == Init /\ [][Next]_vars

------------------------------------------------------------------------------
(* Properties *)

\* Every variable has its type.
TypeOK ==
    /\ account \in [Users -> Accounts]
    /\ token \in [Tokens -> TokenDocs \cup {NoDoc}]
    /\ req \in [Requests -> RequestStates]
    /\ access \in SUBSET Issued
    /\ blacklist \in SUBSET Keys
    /\ reused \in SUBSET Tokens

\* A banned or deleted account gets nothing: no sign-in, rotation or
\* authentication that began while the account was shut, and was not reopened
\* meanwhile, hands out or accepts an access token, whatever tokens a racing
\* login left behind (loginUser, rotateRefreshToken, verifyAuth).
NoAccessWhileShut ==
    \A r \in Requests : req[r].answer = "access" => ~req[r].shut

\* Before a family has two usable tokens, some token of it must have been
\* exchanged twice: one rotation after the other never leaves a second usable
\* token behind (rotate revokes before it issues).
ForksOnlyByDoubleExchange ==
    \A f \in Tokens :
        (\E s, t \in InFamily(f) : s # t /\ Live(s) /\ Live(t)) =>
            \E s, t \in InFamily(f) :
                s # t /\ token[s].parent = token[t].parent

Overtaken(f) == \E t \in InFamily(f) : token[t].straddled

\* When a password change or reset has been answered, the sessions opened with
\* an earlier password are unusable, except in families one of whose inserts
\* was in flight while a revocation ran (changePassword, resetPassword: save
\* first, revoke second).
OldSessionsEndUnlessOvertaken ==
    \A r \in Requests, t \in Tokens :
        /\ req[r].kind \in {"change", "reset"} /\ req[r].answer = "ok"
        /\ Live(t) /\ token[t].user = req[r].user
        /\ token[t].pw < req[r].pw
        => Overtaken(token[t].family)

\* After the reuse of a token of the family was detected, the family is dead,
\* with the same exception (rotate, the isRevoked branch).
ReusedFamilyDeadUnlessOvertaken ==
    \A t \in Tokens :
        Live(t) /\ token[t].family \in reused => Overtaken(token[t].family)

\* Refresh tokens implement the ledger.
Ledger == INSTANCE SessionLedger WITH
    NoOwner <- NoDoc,
    owner <- [t \in Tokens |->
                IF t \in Issued
                  THEN [user |-> token[t].user, family |-> token[t].family]
                  ELSE NoDoc],
    usable <- {t \in Tokens : Live(t)}

ImplementsLedger == Ledger!Spec
==============================================================================
