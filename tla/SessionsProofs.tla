--------------------------- MODULE SessionsProofs ---------------------------
(***************************************************************************)
(* The safety properties of Sessions and its refinement of SessionLedger,  *)
(* for any number of accounts, tokens and calls.                           *)
(*                                                                         *)
(* Every step either leaves the stored tokens as they are but for usable   *)
(* ones that end (TokensKept), or stores one new token (IssueToken).  What *)
(* a call may rely on between two of its commands is CallInv.              *)
(***************************************************************************)
EXTENDS Sessions, TLAPS

RotateStages == {"reuse", "revoke", "check"}

Rotating(r) == req[r].kind = "rotate" /\ req[r].stage = "issue"

\* A password change or reset that has been answered.
Answered(r) == req[r].kind \in {"change", "reset"} /\ req[r].answer = "ok"

\* What the handler of call r knows of its user and of its token.
CallInv(r) ==
    /\ req[r].stage # "idle" => req[r].user \in Users
    /\ req[r].stage \in RotateStages \cup {"blacklist"} \/ Rotating(r) =>
           req[r].token \in Issued /\ token[req[r].token].user = req[r].user
    /\ req[r].stage \in RotateStages => req[r].kind = "rotate"
    /\ Rotating(r) => ~Live(req[r].token)
    /\ req[r].stage = "issue" /\ req[r].kind # "rotate" =>
           req[r].token = NoToken /\ ~req[r].shut
    /\ req[r].shut => req[r].user \in Users /\ Shut(req[r].user)
    /\ req[r].answer = "access" => ~req[r].shut
    /\ req[r].stage # "done" => req[r].answer = "none"
    /\ req[r].stage = "idle" => ~req[r].shut
    /\ req[r].stage = "ban" => req[r].kind = "ban"
    /\ req[r].kind \in {"change", "reset"} =>
           req[r].stage \in {"save", "revokeAll", "done"}
    /\ req[r].stage = "revokeAll" \/ Answered(r) =>
           req[r].kind = "ban" \/ req[r].pw <= account[req[r].user].pw

\* A token belongs to a stored family, and to that of the used-up token it was
\* exchanged for.
TokenInv ==
    \A t \in Issued :
        /\ token[t].family \in Issued
        /\ token[t].parent # NoToken =>
               /\ token[t].parent \in InFamily(token[t].family)
               /\ ~Live(token[t].parent)

SessionInv == TypeOK /\ TokenInv /\ \A r \in Requests : CallInv(r)

\* No stored token changes, except that a usable one may end.
SameToken(t) ==
    /\ token'[t] \in TokenDocs
    /\ token'[t].user = token[t].user /\ token'[t].family = token[t].family
    /\ token'[t].parent = token[t].parent /\ token'[t].pw = token[t].pw
    /\ token'[t].straddled = token[t].straddled
    /\ Live(t)' => Live(t)

TokensKept ==
    /\ token' \in [Tokens -> TokenDocs \cup {NoDoc}]
    /\ Issued' = Issued
    /\ \A t \in Issued : SameToken(t)

LEMMA DocsAreTyped ==
    ASSUME TypeOK
    PROVE  \A t \in Issued : token[t] \in TokenDocs /\ t \in Tokens
  BY DEF TypeOK, Issued

LEMMA RevocationKeeps ==
    ASSUME TypeOK, NEW S, RevokeTokens(S)
    PROVE  TokensKept /\ \A t \in Tokens : t \in S => ~Live(t)'
<1>1. \A t \in Tokens :
        token'[t] = IF t \in S /\ t \in Issued /\ token[t].status = "live"
                      THEN [token[t] EXCEPT !.status = "revoked"] ELSE token[t]
  BY DEF RevokeTokens
<1>2. \A t \in Issued : token[t] \in TokenDocs /\ t \in Tokens
  BY DocsAreTyped
<1>3. ASSUME NEW t \in Issued
      PROVE  /\ SameToken(t) /\ token'[t] # NoDoc
             /\ t \in S => token'[t].status # "live"
  <2>1. token[t] \in TokenDocs /\ t \in Tokens
    BY <1>2
  <2>2. CASE t \in S /\ token[t].status = "live"
    <3>1. token'[t] = [token[t] EXCEPT !.status = "revoked"]
      BY <1>1, <1>3, <2>1, <2>2
    <3> QED
      BY <2>1, <3>1, NoDocAssumption DEF SameToken, Live, TokenDocs
  <2>3. CASE ~(t \in S /\ token[t].status = "live")
    <3>1. token'[t] = token[t]
      BY <1>1, <2>1, <2>3
    <3> QED
      BY <1>3, <2>1, <2>3, <3>1 DEF SameToken, Live, Issued
  <2> QED
    BY <2>2, <2>3
<1>4. \A t \in Tokens : t \notin Issued => token'[t] = NoDoc
  BY <1>1 DEF Issued
<1>5. Issued' = Issued
  BY <1>2, <1>3, <1>4 DEF Issued
<1>6. token' \in [Tokens -> TokenDocs \cup {NoDoc}]
  <2>1. token' = [t \in Tokens |-> token'[t]]
    BY DEF RevokeTokens
  <2>2. \A t \in Tokens : token'[t] \in TokenDocs \cup {NoDoc}
    BY <1>3, <1>4 DEF SameToken
  <2> QED
    BY <2>1, <2>2
<1> QED
  BY <1>3, <1>5, <1>6 DEF TokensKept, Live

LEMMA UnchangedKeeps ==
    ASSUME TypeOK, token' = token
    PROVE  TokensKept
  BY DocsAreTyped DEF TokensKept, SameToken, Live, Issued, TypeOK

\* The steps that are not an insert.
LEMMA AgeingKeeps ==
    ASSUME TypeOK, NEW t \in Tokens, Expire(t) \/ Remove(t)
    PROVE  TokensKept
<1>1. token[t] \in TokenDocs /\ t \in Issued
  BY DocsAreTyped DEF Expire, Remove
<1>2. /\ token' = [token EXCEPT ![t] = token'[t]]
      /\ \/ token'[t] = [token[t] EXCEPT !.expired = TRUE]
         \/ token'[t] = [token[t] EXCEPT !.status = "removed"]
  BY <1>1 DEF Expire, Remove, TypeOK, Issued
<1>3. SameToken(t)
  BY <1>1, <1>2 DEF TokenDocs, SameToken, Live
<1> QED
  BY <1>1, <1>2, <1>3, DocsAreTyped, NoDocAssumption
     DEF TokensKept, SameToken, Live, Issued, TypeOK

LEMMA InsertFacts ==
    ASSUME SessionInv, NEW r \in Requests, NEW t \in Tokens, IssueToken(r, t)
    PROVE  /\ NewDoc(r, t) \in TokenDocs
           /\ token' = [token EXCEPT ![t] = NewDoc(r, t)]
           /\ Issued' = Issued \cup {t}
<1>1. req[r] \in RequestStates /\ req[r].user \in Users
  BY DEF SessionInv, TypeOK, CallInv, IssueToken, At
<1>2. req[r].kind = "rotate" => FamilyOf(r) \in Tokens
  BY <1>1, DocsAreTyped
     DEF SessionInv, CallInv, IssueToken, At, FamilyOf, TokenDocs, Rotating
<1>3. NewDoc(r, t) \in TokenDocs
  BY <1>1, <1>2 DEF NewDoc, TokenDocs, RequestStates
<1>4. token' = [token EXCEPT ![t] = NewDoc(r, t)]
  BY DEF IssueToken
<1>5. Issued' = Issued \cup {t}
  BY <1>3, <1>4, NoDocAssumption DEF SessionInv, TypeOK, Issued
<1> QED
  BY <1>3, <1>4, <1>5

\* Every step keeps the tokens or inserts one.
LEMMA TokenSteps ==
    ASSUME SessionInv, [Next]_vars
    PROVE  \/ TokensKept
           \/ \E r \in Requests, t \in Tokens : IssueToken(r, t)
<1> USE DEF SessionInv
<1>1. CASE token' = token
  BY <1>1, UnchangedKeeps
<1>2. CASE \E S : RevokeTokens(S)
  BY <1>2, RevocationKeeps
<1>3. CASE \E t \in Tokens : Expire(t) \/ Remove(t)
  BY <1>3, AgeingKeeps
<1>4. ASSUME NEW r \in Requests, RotateSteps(r)
      PROVE  \/ token' = token \/ \E S : RevokeTokens(S)
             \/ \E t \in Tokens : IssueToken(r, t)
  BY <1>4 DEF RotateSteps, Rotate, RevokeFamily, RevokeOld, CheckUser, Alone
<1>5. ASSUME NEW r \in Requests, Revocation(r)
      PROVE  token' = token \/ \E S : RevokeTokens(S)
  BY <1>5 DEF Revocation, Logout, RevokeSession, RevokeAllSessions, Blacklist,
              RevokeAll, RevokeAllForUser
<1>6. ASSUME NEW r \in Requests, Administration(r)
      PROVE  token' = token \/ \E S : RevokeTokens(S)
  BY <1>6 DEF Administration, BanUser, UnbanUser, DeleteUser, SaveBan,
              SaveUnban, RevokeForDeletion, CommitDeletion, RevokeAllForUser,
              Alone
<1>7. ASSUME NEW r \in Requests, Passwords(r) PROVE token' = token
  BY <1>7 DEF Passwords, ChangePassword, ForgotPassword, ResetPassword,
              MailSent, MailRefused, SavePassword, Alone
<1>8. ASSUME NEW r \in Requests, SignIn(r) \/ Authentication(r) \/ Fail(r)
      PROVE  token' = token
  BY <1>8 DEF SignIn, Login, OAuthLogin, Authentication, Authenticate,
              LoadUser, Fail, Alone
<1>9. ASSUME NEW u \in Users, ResetExpires(u) PROVE token' = token
  BY <1>9 DEF ResetExpires
<1>10. ASSUME UNCHANGED vars PROVE token' = token
  BY <1>10 DEF vars
<1> QED
  BY <1>1, <1>2, <1>3, <1>4, <1>5, <1>6, <1>7, <1>8, <1>9, <1>10
     DEF Next, Environment

LEMMA CallsAreTyped ==
    ASSUME TypeOK, NEW k \in Kinds, NEW u \in Users, NEW t \in Tokens \cup {NoToken}
    PROVE  Begun(k, u, t) \in RequestStates
  BY DEF TypeOK, Accounts, Begun, Idle, RequestStates, Shut, Stages, Answers

LEMMA BegunIsTyped ==
    ASSUME req \in [Requests -> RequestStates],
           NEW r \in Requests, NEW call \in RequestStates
    PROVE  /\ \A stage \in Stages :
                  Begin(r, call, stage) => req' \in [Requests -> RequestStates]
           /\ \A answer \in Answers : BeginAndEnd(r, call, answer) =>
                  req' \in [Requests -> RequestStates]
<1>1. ASSUME NEW c \in RequestStates, NEW stage \in Stages, Begin(r, c, stage)
      PROVE  req' \in [Requests -> RequestStates]
  <2>1. [c EXCEPT !.stage = stage] \in RequestStates
    BY DEF RequestStates
  <2> QED
    BY <1>1, <2>1 DEF Begin
<1>2. ASSUME NEW answer \in Answers, BeginAndEnd(r, call, answer)
      PROVE  req' \in [Requests -> RequestStates]
  <2>1. [call EXCEPT !.answer = answer] \in RequestStates
    BY DEF RequestStates
  <2> QED
    BY <1>1, <1>2, <2>1 DEF BeginAndEnd, Stages
<1> QED
  BY <1>1, <1>2

LEMMA MovedIsTyped ==
    ASSUME req \in [Requests -> RequestStates], NEW r \in Requests
    PROVE  /\ \A stage \in Stages :
                  GoTo(r, stage) => req' \in [Requests -> RequestStates]
           /\ \A answer \in Answers :
                  End(r, answer) => req' \in [Requests -> RequestStates]
<1>1. ASSUME NEW stage \in Stages, GoTo(r, stage)
      PROVE  req' \in [Requests -> RequestStates]
  BY <1>1 DEF GoTo, RequestStates
<1>2. ASSUME NEW answer \in Answers, End(r, answer)
      PROVE  req' \in [Requests -> RequestStates]
  <2>1. "done" \in Stages
    BY DEF Stages
  <2> QED
    BY <1>2, <2>1 DEF End, RequestStates
<1> QED
  BY <1>1, <1>2

LEMMA TypeStep == SessionInv /\ [Next]_vars => TypeOK'
<1> SUFFICES ASSUME SessionInv, [Next]_vars PROVE TypeOK'
  OBVIOUS
<1>1. token' \in [Tokens -> TokenDocs \cup {NoDoc}] /\ Issued \subseteq Issued'
  BY TokenSteps, InsertFacts DEF TokensKept, SessionInv, TypeOK
<1> DEFINE Rest == /\ account' \in [Users -> Accounts]
                   /\ req' \in [Requests -> RequestStates]
                   /\ access' \in SUBSET Issued'
                   /\ blacklist' \in SUBSET Keys
                   /\ reused' \in SUBSET Tokens
<1> SUFFICES Rest
  BY <1>1 DEF TypeOK
<1>2. /\ account \in [Users -> Accounts] /\ req \in [Requests -> RequestStates]
      /\ access \subseteq Issued' /\ blacklist \in SUBSET Keys
      /\ reused \in SUBSET Tokens /\ TypeOK
  BY <1>1 DEF SessionInv, TypeOK
<1>3. \A t \in Issued : t \in Tokens /\ token[t].user \in Users
                       /\ token[t].family \in Tokens /\ token[t].pw \in Nat
  BY DocsAreTyped DEF SessionInv, TokenDocs
<1>4. ASSUME NEW r \in Requests, NEW call \in RequestStates
      PROVE  /\ \A stage \in Stages :
                    Begin(r, call, stage) => req' \in [Requests -> RequestStates]
             /\ \A answer \in Answers : BeginAndEnd(r, call, answer) =>
                    req' \in [Requests -> RequestStates]
  BY <1>2, BegunIsTyped
<1>5. ASSUME NEW r \in Requests
      PROVE  /\ \A stage \in Stages :
                    GoTo(r, stage) => req' \in [Requests -> RequestStates]
             /\ \A answer \in Answers :
                    End(r, answer) => req' \in [Requests -> RequestStates]
  BY <1>2, MovedIsTyped
<1>6. ASSUME NEW S PROVE Straddle(S) \in [Requests -> RequestStates]
  BY <1>2 DEF Straddle, RequestStates
<1>7. ASSUME NEW r \in Requests, SignIn(r) PROVE Rest
  <2>1. PICK u \in Users, k \in {"login", "oauth"} :
          /\ \/ Begin(r, Begun(k, u, NoToken), "issue")
             \/ BeginAndEnd(r, Begun(k, u, NoToken), "refused")
          /\ Alone
    BY <1>7 DEF SignIn, Login, OAuthLogin
  <2>2. Begun(k, u, NoToken) \in RequestStates
    BY <1>2, CallsAreTyped DEF Kinds
  <2>3. req' \in [Requests -> RequestStates]
    BY <1>4, <2>1, <2>2 DEF Stages, Answers
  <2> QED
    BY <1>2, <2>1, <2>3 DEF Alone
<1>8. ASSUME NEW r \in Requests, RotateSteps(r) PROVE Rest
  <2>1. ASSUME NEW t \in Tokens, Rotate(r, t) PROVE Rest
    <3> DEFINE call == [Begun("rotate", token[t].user, t)
                          EXCEPT !.pw = token[t].pw]
    <3>1. call \in RequestStates
      <4>1. Begun("rotate", token[t].user, t) \in RequestStates
        BY <1>2, <1>3, <2>1, CallsAreTyped DEF Kinds, Rotate
      <4> QED
        BY <1>3, <2>1, <4>1 DEF Rotate, RequestStates
    <3>2. \/ Begin(r, call, "reuse") \/ Begin(r, call, "revoke")
          \/ BeginAndEnd(r, call, "refused")
      BY <2>1 DEF Rotate
    <3>3. req' \in [Requests -> RequestStates]
      <4> HIDE DEF call
      <4> QED
        BY <1>4, <3>1, <3>2 DEF Stages, Answers
    <3> QED
      BY <1>2, <2>1, <3>3 DEF Rotate, Alone
  <2>2. ASSUME NEW t \in Tokens, IssueToken(r, t) PROVE Rest
    <3>1. access' \subseteq Issued'
      BY <1>2, <2>2, InsertFacts DEF IssueToken
    <3>2. req' \in [Requests -> RequestStates]
      <4>1. CASE req[r].kind = "rotate"
        BY <1>2, <2>2, <4>1 DEF IssueToken, RequestStates, Stages
      <4>2. CASE req[r].kind # "rotate"
        BY <1>5, <2>2, <4>2 DEF IssueToken, Answers
      <4> QED
        BY <4>1, <4>2
    <3> QED
      BY <1>2, <2>2, <3>1, <3>2 DEF IssueToken
  <2>3. ASSUME RevokeFamily(r) PROVE Rest
    <3>1. FamilyOf(r) \in Tokens
      BY <1>3, <2>3
         DEF RevokeFamily, SessionInv, CallInv, At, RotateStages, FamilyOf
    <3>2. \E S : req' = [Straddle(S) EXCEPT ![r].stage = "done",
                                           ![r].answer = "refused"]
      BY <2>3 DEF RevokeFamily
    <3>3. req' \in [Requests -> RequestStates]
      BY <1>6, <3>2 DEF RequestStates, Stages, Answers
    <3> QED
      BY <1>2, <2>3, <3>1, <3>3 DEF RevokeFamily
  <2>4. ASSUME RevokeOld(r) PROVE Rest
    BY <1>2, <1>5, <2>4 DEF RevokeOld, Stages
  <2>5. ASSUME CheckUser(r) PROVE Rest
    <3>1. req[r].token \in Issued
      BY <2>5 DEF CheckUser, SessionInv, CallInv, At, RotateStages
    <3>2. \E a \in Answers : End(r, a)
      BY <2>5 DEF CheckUser, Answers
    <3> QED
      BY <1>1, <1>2, <1>5, <2>5, <3>1, <3>2 DEF CheckUser
  <2> QED
    BY <1>8, <2>1, <2>2, <2>3, <2>4, <2>5 DEF RotateSteps
<1>9. ASSUME NEW r \in Requests, NEW u, NEW after \in RequestStates,
             RevokeAllForUser(r, u, after)
      PROVE  req' \in [Requests -> RequestStates]
  BY <1>6, <1>9 DEF RevokeAllForUser
<1>10. ASSUME NEW r \in Requests, Revocation(r) PROVE Rest
  <2>1. ASSUME NEW t \in Tokens, Logout(r, t) PROVE Rest
    <3>1. Begun("logout", token[t].user, t) \in RequestStates
      BY <1>2, <1>3, <2>1, CallsAreTyped DEF Kinds, Logout
    <3> QED
      BY <1>2, <1>4, <2>1, <3>1 DEF Logout, Stages
  <2>2. ASSUME NEW u \in Users, NEW t \in Tokens, RevokeSession(r, u, t)
        PROVE  Rest
    <3>1. Begun("revokeOne", u, t) \in RequestStates
      BY <1>2, CallsAreTyped DEF Kinds
    <3>2. \E a \in Answers : BeginAndEnd(r, Begun("revokeOne", u, t), a)
      BY <2>2 DEF RevokeSession, Answers
    <3> QED
      BY <1>2, <1>4, <2>2, <3>1, <3>2 DEF RevokeSession
  <2>3. ASSUME NEW u \in Users, RevokeAllSessions(r, u) PROVE Rest
    <3>1. Begun("revokeAll", u, NoToken) \in RequestStates
      BY <1>2, CallsAreTyped DEF Kinds
    <3>2. [Begun("revokeAll", u, NoToken) EXCEPT !.stage = "done",
                                               !.answer = "ok"] \in RequestStates
      BY <3>1 DEF RequestStates, Stages, Answers
    <3> QED
      BY <1>2, <1>9, <2>3, <3>2 DEF RevokeAllSessions
  <2>4. ASSUME Blacklist(r) PROVE Rest
    <3>1. req[r].token \in Tokens
      BY <1>3, <2>4 DEF Blacklist, SessionInv, CallInv, At
    <3> QED
      BY <1>2, <1>5, <2>4, <3>1 DEF Blacklist, Keys, Answers
  <2>5. ASSUME RevokeAll(r) PROVE Rest
    <3>1. [req[r] EXCEPT !.stage = "done", !.answer = "ok"] \in RequestStates
      BY <1>2 DEF RequestStates, Stages, Answers
    <3> QED
      BY <1>2, <1>9, <2>5, <3>1 DEF RevokeAll
  <2> QED
    BY <1>10, <2>1, <2>2, <2>3, <2>4, <2>5 DEF Revocation
<1>11. ASSUME NEW r \in Requests, Passwords(r) PROVE Rest
  <2>1. ASSUME NEW u \in Users, NEW p, ChangePassword(r, u, p) PROVE Rest
    <3>1. Begun("change", u, NoToken) \in RequestStates
      BY <1>2, CallsAreTyped DEF Kinds
    <3> QED
      BY <1>2, <1>4, <2>1, <3>1 DEF ChangePassword, Alone, Stages, Answers
  <2>2. ASSUME NEW u \in Users, ForgotPassword(r, u) PROVE Rest
    <3>1. Begun("forgot", u, NoToken) \in RequestStates
      BY <1>2, CallsAreTyped DEF Kinds
    <3> QED
      BY <1>2, <1>4, <2>2, <3>1 DEF ForgotPassword, Accounts, Stages
  <2>3. ASSUME NEW u \in Users, ResetPassword(r, u) PROVE Rest
    <3>1. Begun("reset", u, NoToken) \in RequestStates
      BY <1>2, CallsAreTyped DEF Kinds
    <3> QED
      BY <1>2, <1>4, <2>3, <3>1 DEF ResetPassword, Alone, Stages
  <2>4. ASSUME MailSent(r) \/ MailRefused(r) PROVE Rest
    BY <1>2, <1>5, <2>4 DEF MailSent, MailRefused, Alone, Accounts, Answers
  <2>5. ASSUME SavePassword(r) PROVE Rest
    <3>1. req[r].user \in Users
      BY <2>5 DEF SavePassword, SessionInv, CallInv, At
    <3> DEFINE u == req[r].user
               pw == account[u].pw + 1
               reset == IF req[r].kind = "reset" THEN FALSE ELSE account[u].reset
    <3>2. account[u] \in Accounts /\ req[r] \in RequestStates
      BY <1>2, <3>1
    <3>3. pw \in Nat /\ reset \in BOOLEAN
      <4>1. account[u].pw \in Nat /\ account[u].reset \in BOOLEAN
        BY <3>2 DEF Accounts
      <4>2. pw \in Nat
        BY <4>1
      <4>3. reset = FALSE \/ reset = account[u].reset
        BY Zenon
      <4> QED
        BY <4>1, <4>2, <4>3
    <3>4. /\ account' = [account EXCEPT
                           ![u] = [account[u] EXCEPT !.pw = pw, !.reset = reset]]
          /\ req' = [req EXCEPT
                       ![r] = [req[r] EXCEPT !.stage = "revokeAll", !.pw = pw]]
      BY <1>2, <2>5, <3>1 DEF SavePassword
    <3> HIDE DEF pw, reset, u
    <3>5. /\ [account[u] EXCEPT !.pw = pw, !.reset = reset] \in Accounts
          /\ [req[r] EXCEPT !.stage = "revokeAll", !.pw = pw] \in RequestStates
      BY <3>2, <3>3 DEF Accounts, RequestStates, Stages
    <3>6. account' \in [Users -> Accounts] /\ req' \in [Requests -> RequestStates]
      BY <1>2, <3>4, <3>5
    <3> QED
      BY <1>2, <2>5, <3>6 DEF SavePassword
  <2> QED
    BY <1>11, <2>1, <2>2, <2>3, <2>4, <2>5 DEF Passwords
<1>12. ASSUME NEW r \in Requests, Administration(r) PROVE Rest
  <2>1. ASSUME NEW u \in Users, NEW k \in {"ban", "unban", "delete"},
               \/ \E stage \in Stages : Begin(r, Begun(k, u, NoToken), stage)
               \/ BeginAndEnd(r, Begun(k, u, NoToken), "refused"),
               Alone
        PROVE  Rest
    <3>1. Begun(k, u, NoToken) \in RequestStates
      BY <1>2, CallsAreTyped DEF Kinds
    <3> QED
      BY <1>2, <1>4, <2>1, <3>1 DEF Alone, Answers
  <2>2. ASSUME NEW u \in Users, BanUser(r, u) \/ UnbanUser(r, u) \/ DeleteUser(r, u)
        PROVE  Rest
    BY <2>1, <2>2 DEF BanUser, UnbanUser, DeleteUser, Stages
  <2>3. ASSUME SaveBan(r) PROVE Rest
    BY <1>2, <1>5, <2>3 DEF SaveBan, Accounts, Stages
  <2>4. ASSUME SaveUnban(r) PROVE Rest
    <3>1. ASSUME NEW s \in Requests
          PROVE  [req[s] EXCEPT
                    !.shut = @ /\ (req[s].user # req[r].user
                                     \/ account[req[r].user].deleted),
                    !.stage = IF s = r THEN "done" ELSE @,
                    !.answer = IF s = r THEN "ok" ELSE @] \in RequestStates
      <4> DEFINE shut == req[s].shut /\ (req[s].user # req[r].user
                                           \/ account[req[r].user].deleted)
                 stage == IF s = r THEN "done" ELSE req[s].stage
                 answer == IF s = r THEN "ok" ELSE req[s].answer
      <4>1. shut \in BOOLEAN
        BY Zenon
      <4>2. req[s] \in RequestStates /\ stage \in Stages /\ answer \in Answers
        BY <1>2 DEF RequestStates, Stages, Answers
      <4> HIDE DEF shut, stage, answer
      <4>3. [req[s] EXCEPT !.shut = shut, !.stage = stage, !.answer = answer]
                \in RequestStates
        BY <4>1, <4>2 DEF RequestStates
      <4> QED
        BY <4>3 DEF shut, stage, answer
    <3>2. account' \in [Users -> Accounts]
      BY <1>2, <2>4 DEF SaveUnban, Accounts
    <3> QED
      BY <1>2, <2>4, <3>1, <3>2 DEF SaveUnban
  <2>5. ASSUME RevokeForDeletion(r) PROVE Rest
    <3>1. [req[r] EXCEPT !.stage = "commit"] \in RequestStates
      BY <1>2 DEF RequestStates, Stages
    <3> QED
      BY <1>2, <1>9, <2>5, <3>1 DEF RevokeForDeletion
  <2>6. ASSUME CommitDeletion(r) PROVE Rest
    BY <1>2, <1>5, <2>6 DEF CommitDeletion, Accounts, Answers
  <2> QED
    BY <1>12, <2>2, <2>3, <2>4, <2>5, <2>6 DEF Administration
<1>13. ASSUME NEW r \in Requests, Authentication(r) \/ Fail(r) PROVE Rest
  <2>1. ASSUME NEW t \in Tokens, Authenticate(r, t) PROVE Rest
    <3>1. t \in Issued
      BY <2>1 DEF Authenticate, SessionInv, TypeOK
    <3>2. Begun("auth", token[t].user, t) \in RequestStates
      BY <1>2, <1>3, <3>1, CallsAreTyped DEF Kinds
    <3> QED
      BY <1>2, <1>4, <2>1, <3>2 DEF Authenticate, Alone, Stages, Answers
  <2>2. ASSUME LoadUser(r) \/ Fail(r) PROVE Rest
    <3>1. \E a \in Answers : End(r, a)
      BY <2>2 DEF LoadUser, Fail, Answers
    <3> QED
      BY <1>2, <1>5, <2>2, <3>1 DEF LoadUser, Fail, Alone
  <2> QED
    BY <1>13, <2>1, <2>2 DEF Authentication
<1>14. ASSUME Environment \/ UNCHANGED vars PROVE Rest
  BY <1>2, <1>14 DEF Environment, ResetExpires, Expire, Remove, Accounts, vars
<1> QED
  BY <1>7, <1>8, <1>10, <1>11, <1>12, <1>13, <1>14 DEF Next

LEMMA TokensGrow ==
    ASSUME SessionInv, [Next]_vars
    PROVE  \A t \in Issued : SameToken(t) /\ t \in Issued'
<1>1. CASE TokensKept
  BY <1>1 DEF TokensKept
<1>2. ASSUME NEW r \in Requests, NEW n \in Tokens, IssueToken(r, n)
      PROVE  \A t \in Issued : SameToken(t) /\ t \in Issued'
  <2>1. /\ token' = [token EXCEPT ![n] = NewDoc(r, n)]
        /\ Issued' = Issued \cup {n} /\ n \notin Issued
    BY <1>2, InsertFacts DEF IssueToken
  <2>2. \A t \in Issued : token'[t] = token[t] /\ token[t] \in TokenDocs
    BY <2>1, DocsAreTyped DEF SessionInv, TypeOK
  <2> QED
    BY <2>1, <2>2 DEF SameToken, Live
<1> QED
  BY <1>1, <1>2, TokenSteps

LEMMA TokenInvStep == SessionInv /\ [Next]_vars => TokenInv'
<1> SUFFICES ASSUME SessionInv, [Next]_vars PROVE TokenInv'
  OBVIOUS
<1>0. \A t \in Issued : SameToken(t) /\ t \in Issued'
  BY TokensGrow
<1>1. ASSUME NEW t \in Issued
      PROVE  /\ token'[t].family \in Issued'
             /\ token'[t].parent # NoToken =>
                    /\ token'[t].parent \in InFamily(token[t].family)'
                    /\ ~Live(token[t].parent)'
  BY <1>0 DEF SessionInv, TokenInv, InFamily, SameToken
<1>2. CASE TokensKept
  BY <1>1, <1>2 DEF TokensKept, SameToken, TokenInv
<1>3. ASSUME NEW r \in Requests, NEW n \in Tokens, IssueToken(r, n)
      PROVE  TokenInv'
  <2>1. /\ token' = [token EXCEPT ![n] = NewDoc(r, n)]
        /\ Issued' = Issued \cup {n} /\ n \notin Issued
        /\ token'[n] = NewDoc(r, n)
    BY <1>3, InsertFacts DEF IssueToken, SessionInv, TypeOK
  <2>2. CASE req[r].kind = "rotate"
    <3>1. PICK o \in Issued : o = req[r].token /\ ~Live(o)
      BY <1>3, <2>2 DEF SessionInv, CallInv, IssueToken, At, Rotating
    <3>2. token'[n].family = token[o].family /\ token'[n].parent = o
      BY <2>1, <2>2, <3>1 DEF NewDoc, FamilyOf
    <3>3. SameToken(o) /\ o \in Issued'
      BY <1>0, <3>1
    <3>4. token[o].family \in Issued
      BY <3>1 DEF SessionInv, TokenInv
    <3>5. token'[n].family \in Issued'
      BY <1>0, <3>2, <3>4
    <3>6. token'[o].family = token[o].family /\ ~Live(o)'
      BY <3>1, <3>3 DEF SameToken
    <3>7. o \in InFamily(token[n].family)'
      BY <3>2, <3>3, <3>6 DEF InFamily
    <3>8. \A t \in Issued :
            /\ token'[t].family \in Issued'
            /\ token'[t].parent # NoToken =>
                   /\ token'[t].parent \in InFamily(token[t].family)'
                   /\ ~Live(token[t].parent)'
      BY <1>1
    <3>9. ~Live(token[n].parent)'
      BY <3>2, <3>6
    <3>10. token'[n].parent \in InFamily(token[n].family)'
      BY <3>2, <3>7
    <3> QED
      BY <2>1, <3>5, <3>8, <3>9, <3>10 DEF TokenInv
  <2>3. CASE req[r].kind # "rotate"
    <3>1. token'[n].family = n /\ token'[n].parent = NoToken
      BY <1>3, <2>1, <2>3 DEF NewDoc, SessionInv, CallInv, IssueToken, At
    <3> QED
      BY <1>0, <1>1, <2>1, <3>1 DEF TokenInv, SameToken
  <2> QED
    BY <2>2, <2>3
<1> QED
  BY <1>2, <1>3, TokenSteps

(* What one step does to the record of a call. *)

\* The call itself did not move; a revocation or an unban may have marked it.
SameCall(s) ==
    /\ req'[s].kind = req[s].kind /\ req'[s].stage = req[s].stage
    /\ req'[s].answer = req[s].answer /\ req'[s].user = req[s].user
    /\ req'[s].token = req[s].token /\ req'[s].pw = req[s].pw
    /\ req'[s].shut => req[s].shut
    /\ req[s].straddled => req'[s].straddled

\* It moved to a point where it has no token to insert and no password change
\* to report.
Quiet(s) == req'[s].stage \notin {"revoke", "issue"} /\ ~Answered(s)'

SignsIn(s) ==
    /\ req'[s].stage = "issue" /\ req'[s].kind # "rotate"
    /\ ~Answered(s)'
    /\ req'[s].pw = account[req'[s].user].pw

Presents(s) ==
    /\ req'[s].stage = "revoke" /\ ~Answered(s)'
    /\ req'[s].token \in Issued
    /\ \E t \in Issued : t = req'[s].token /\ Live(t)
                        /\ req'[s].user = token[t].user
                        /\ req'[s].pw = token[t].pw

Moves(s) ==
    \/ SameCall(s) \/ Quiet(s) \/ SignsIn(s) \/ Presents(s)
    \/ RevokeOld(s) \/ RevokeAll(s)

Others(r) == \A s \in Requests \ {r} : SameCall(s)

AccountsKept ==
    \A u \in Users : account[u].pw <= account'[u].pw /\ (Shut(u) => Shut(u)')

LEMMA BeginFacts ==
    ASSUME TypeOK, NEW r \in Requests, NEW k, NEW u, NEW t, NEW stage,
           Begin(r, Begun(k, u, t), stage)
    PROVE  /\ req'[r] = [kind |-> k, stage |-> stage, answer |-> "none",
                         user |-> u, token |-> t, pw |-> account[u].pw,
                         shut |-> Shut(u), straddled |-> FALSE]
           /\ Others(r)
  BY DEF TypeOK, Begun, Idle, Others, SameCall, Begin

LEMMA EndFacts ==
    ASSUME TypeOK, NEW r \in Requests, NEW k, NEW u, NEW t, NEW answer,
           BeginAndEnd(r, Begun(k, u, t), answer)
    PROVE  /\ req'[r] = [kind |-> k, stage |-> "done", answer |-> answer,
                         user |-> u, token |-> t, pw |-> account[u].pw,
                         shut |-> Shut(u), straddled |-> FALSE]
           /\ Others(r)
  BY DEF TypeOK, Begun, Idle, Others, SameCall, Begin, BeginAndEnd

LEMMA MovedFacts ==
    ASSUME TypeOK, NEW r \in Requests
    PROVE  /\ \A stage : GoTo(r, stage) =>
                  req'[r] = [req[r] EXCEPT !.stage = stage] /\ Others(r)
           /\ \A answer : End(r, answer) =>
                  /\ req'[r] = [req[r] EXCEPT !.stage = "done", !.answer = answer]
                  /\ Others(r)
  BY DEF TypeOK, GoTo, End, Others, SameCall

LEMMA FrameCall ==
    ASSUME SessionInv, [Next]_vars, NEW s \in Requests, SameCall(s),
           \A u \in Users : account[u].pw <= account'[u].pw,
           req'[s].shut => Shut(req[s].user)'
    PROVE  CallInv(s)'
<1>0. CallInv(s)
  BY DEF SessionInv
<1>1. \A t \in Issued : SameToken(t) /\ t \in Issued'
  BY TokensGrow
<1>2. /\ req'[s].kind = req[s].kind /\ req'[s].stage = req[s].stage
      /\ req'[s].answer = req[s].answer /\ req'[s].user = req[s].user
      /\ req'[s].token = req[s].token /\ req'[s].pw = req[s].pw
      /\ (req'[s].shut => req[s].shut)
  BY DEF SameCall
<1>3. /\ Rotating(s)' <=> Rotating(s)
      /\ Answered(s)' <=> Answered(s)
  BY <1>2 DEF Rotating, Answered
<1>4. req[s].stage \in RotateStages \cup {"blacklist"} \/ Rotating(s) =>
          req'[s].token \in Issued' /\ token'[req'[s].token].user = req[s].user
  BY <1>0, <1>1, <1>2 DEF CallInv, SameToken
<1>5. Rotating(s) => ~Live(req[s].token)'
  <2> SUFFICES ASSUME Rotating(s) PROVE ~Live(req[s].token)'
    OBVIOUS
  <2>1. PICK o \in Issued : o = req[s].token /\ ~Live(o)
    BY <1>0 DEF CallInv
  <2>2. ~Live(o)'
    BY <1>1, <2>1 DEF SameToken
  <2> QED
    BY <1>2, <2>1, <2>2
<1>6. req[s].stage = "revokeAll" \/ Answered(s) =>
          req[s].kind = "ban" \/ req[s].pw <= account'[req[s].user].pw
  <2> SUFFICES ASSUME req[s].stage = "revokeAll" \/ Answered(s),
                      req[s].kind # "ban"
               PROVE  req[s].pw <= account'[req[s].user].pw
    OBVIOUS
  <2>1. req[s].user \in Users /\ req[s].pw <= account[req[s].user].pw
    BY <1>0 DEF CallInv, Answered
  <2>2. /\ req[s].pw \in Nat
        /\ account[req[s].user].pw \in Nat /\ account'[req[s].user].pw \in Nat
    BY <2>1, TypeStep DEF SessionInv, TypeOK, Accounts, RequestStates
  <2> QED
    BY <2>1, <2>2
<1>7. Shut(req[s].user)' <=> (account'[req[s].user].banned
                                \/ account'[req[s].user].deleted)
  BY <1>2 DEF Shut
<1> QED
  BY <1>0, <1>2, <1>3, <1>4, <1>5, <1>6 DEF CallInv

\* Enough for a step of call r, which leaves accounts as they are or more shut.
LEMMA OneCallMoves ==
    ASSUME SessionInv, [Next]_vars, NEW r \in Requests,
           Others(r), AccountsKept, CallInv(r)', Moves(r)
    PROVE  \A s \in Requests : CallInv(s)' /\ Moves(s)
<1> SUFFICES ASSUME NEW s \in Requests, s # r PROVE CallInv(s)' /\ Moves(s)
  OBVIOUS
<1>1. SameCall(s) /\ CallInv(s)
  BY DEF Others, SessionInv
<1>2. \A u \in Users : account[u].pw <= account'[u].pw
  BY DEF AccountsKept
<1>3. req'[s].shut => Shut(req[s].user)'
  <2> SUFFICES ASSUME req'[s].shut PROVE Shut(req[s].user)'
    OBVIOUS
  <2>1. PICK u \in Users : u = req[s].user /\ Shut(u)
    BY <1>1 DEF CallInv, SameCall
  <2>2. Shut(u)' /\ u = req'[s].user
    BY <1>1, <2>1 DEF AccountsKept, SameCall
  <2> QED
    BY <2>2
<1> QED
  BY <1>1, <1>2, <1>3, FrameCall DEF Moves

LEMMA CallSteps ==
    ASSUME SessionInv, [Next]_vars
    PROVE  \A s \in Requests : CallInv(s)' /\ Moves(s)
<1> DEFINE Goal == \A s \in Requests : CallInv(s)' /\ Moves(s)
<1>0. /\ TypeOK /\ \A u \in Users : account[u].pw \in Nat
      /\ \A r \in Requests : req[r] \in RequestStates /\ CallInv(r)
      /\ \A t \in Issued : t \in Tokens /\ token[t].user \in Users
      /\ access \subseteq Issued
  BY DocsAreTyped DEF SessionInv, TypeOK, Accounts, TokenDocs
<1>1. ASSUME account' = account PROVE AccountsKept
  BY <1>0, <1>1 DEF AccountsKept, Shut
<1>2. \A t \in Issued : SameToken(t) /\ t \in Issued'
  BY TokensGrow
\* A call that only begins, with an existing user and perhaps a token of his.
<1>3. ASSUME NEW r \in Requests, NEW k \in Kinds, NEW u \in Users,
             NEW t \in Tokens \cup {NoToken},
             NEW stage \in Stages \ {"idle", "revoke", "issue", "revokeAll",
                                    "reuse", "check"},
             stage = "blacklist" => t \in Issued /\ token[t].user = u,
             k \in {"change", "reset"} => stage = "save",
             stage = "ban" => k = "ban",
             Begin(r, Begun(k, u, t), stage), AccountsKept, Shut(u)' <=> Shut(u)
      PROVE  Goal
  <2>1. /\ req'[r] = [kind |-> k, stage |-> stage, answer |-> "none",
                      user |-> u, token |-> t, pw |-> account[u].pw,
                      shut |-> Shut(u), straddled |-> FALSE]
        /\ Others(r)
    BY <1>0, <1>3, BeginFacts
  <2>2. stage = "blacklist" => t \in Issued' /\ token'[t].user = u
    BY <1>2, <1>3 DEF SameToken
  <2>3. CallInv(r)'
    <3>1. /\ req'[r].stage = stage /\ req'[r].user = u /\ req'[r].token = t
          /\ req'[r].kind = k /\ req'[r].answer = "none" /\ req'[r].shut = Shut(u)
          /\ ~Rotating(r)' /\ ~Answered(r)'
      BY <1>3, <2>1 DEF Rotating, Answered
    <3>2. req'[r].shut => Shut(req[r].user)'
      BY <1>3, <3>1 DEF Shut
    <3> QED
      BY <1>3, <2>2, <3>1, <3>2 DEF CallInv, RotateStages
  <2>4. Moves(r)
    BY <1>3, <2>1 DEF Moves, Quiet, Answered
  <2> QED
    BY <1>3, <2>1, <2>3, <2>4, OneCallMoves
<1>4. ASSUME NEW r \in Requests, NEW k \in Kinds, NEW u \in Users,
             NEW t \in Tokens \cup {NoToken}, NEW answer \in {"refused", "ok"},
             k \in {"change", "reset"} => answer = "refused",
             BeginAndEnd(r, Begun(k, u, t), answer), account' = account
      PROVE  Goal
  <2>1. /\ req'[r] = [kind |-> k, stage |-> "done", answer |-> answer,
                      user |-> u, token |-> t, pw |-> account[u].pw,
                      shut |-> Shut(u), straddled |-> FALSE]
        /\ Others(r)
    BY <1>0, <1>4, EndFacts
  <2>2. CallInv(r)'
    <3>1. /\ req'[r].stage = "done" /\ req'[r].user = u
          /\ req'[r].answer # "access" /\ req'[r].shut = Shut(u)
          /\ ~Rotating(r)' /\ ~Answered(r)'
      BY <1>4, <2>1 DEF Rotating, Answered
    <3>2. req'[r].shut => Shut(req[r].user)'
      BY <1>4, <3>1 DEF Shut
    <3> QED
      BY <3>1, <3>2 DEF CallInv, RotateStages
  <2>3. Moves(r)
    BY <1>4, <2>1 DEF Moves, Quiet, Answered
  <2> QED
    BY <1>1, <1>4, <2>1, <2>2, <2>3, OneCallMoves
<1>5. ASSUME NEW r \in Requests, NEW answer \in Answers,
             req[r].stage # "idle",
             req[r].kind \in {"change", "reset"} => answer = "error",
             answer = "access" => ~req[r].shut,
             End(r, answer), AccountsKept
      PROVE  Goal
  <2>1. /\ req'[r] = [req[r] EXCEPT !.stage = "done", !.answer = answer]
        /\ Others(r)
    BY <1>0, <1>5, MovedFacts
  <2>2. CallInv(r)'
    <3>1. /\ req'[r].stage = "done" /\ req'[r].user = req[r].user
          /\ req'[r].answer = answer /\ req'[r].shut = req[r].shut
          /\ ~Rotating(r)' /\ ~Answered(r)'
      BY <1>0, <1>5, <2>1 DEF Rotating, Answered, RequestStates
    <3>2. PICK u \in Users : u = req[r].user
      BY <1>0, <1>5 DEF CallInv
    <3>3. req'[r].shut => Shut(u)'
      BY <1>0, <1>5, <3>1, <3>2 DEF CallInv, AccountsKept
    <3> QED
      BY <1>5, <3>1, <3>2, <3>3 DEF CallInv, RotateStages
  <2>3. Moves(r)
    BY <1>0, <1>5, <2>1 DEF Moves, Quiet, Answered, RequestStates
  <2> QED
    BY <1>5, <2>1, <2>2, <2>3, OneCallMoves
<1>6. ASSUME NEW r \in Requests, SignIn(r) PROVE Goal
  <2>1. PICK u \in Users, k \in {"login", "oauth"} :
          /\ \/ Begin(r, Begun(k, u, NoToken), "issue") /\ ~Shut(u)
             \/ BeginAndEnd(r, Begun(k, u, NoToken), "refused")
          /\ account' = account
    BY <1>6 DEF SignIn, Login, OAuthLogin, Alone, Shut
  <2>2. CASE Begin(r, Begun(k, u, NoToken), "issue") /\ ~Shut(u)
    <3>1. /\ req'[r] = [kind |-> k, stage |-> "issue", answer |-> "none",
                        user |-> u, token |-> NoToken, pw |-> account[u].pw,
                        shut |-> Shut(u), straddled |-> FALSE]
          /\ Others(r)
      BY <1>0, <2>2, BeginFacts
    <3>2. /\ req'[r].stage = "issue" /\ req'[r].user = u
          /\ req'[r].kind = k /\ req'[r].token = NoToken
          /\ req'[r].answer = "none" /\ ~req'[r].shut
          /\ ~Rotating(r)' /\ ~Answered(r)'
      BY <2>2, <3>1 DEF Rotating, Answered
    <3>3. CallInv(r)'
      BY <3>2 DEF CallInv, RotateStages
    <3>4. Moves(r)
      BY <3>1, <3>2 DEF Moves, SignsIn
    <3> QED
      BY <1>1, <2>1, <3>1, <3>3, <3>4, OneCallMoves
  <2>3. CASE BeginAndEnd(r, Begun(k, u, NoToken), "refused")
    BY <1>4, <2>1, <2>3 DEF Kinds
  <2> QED
    BY <2>1, <2>2, <2>3
<1>7. ASSUME NEW r \in Requests, NEW t \in Tokens, Rotate(r, t) PROVE Goal
  <2> DEFINE call == [Begun("rotate", token[t].user, t) EXCEPT !.pw = token[t].pw]
  <2>1. PICK u \in Users : u = token[t].user
    BY <1>0, <1>7 DEF Rotate
  <2>2. /\ call \in RequestStates
        /\ call.kind = "rotate" /\ call.user = u /\ call.token = t
        /\ call.pw = token[t].pw /\ call.shut = Shut(u)
        /\ call.answer = "none"
    <3>1. /\ Begun("rotate", u, t) \in RequestStates /\ token[t].pw \in Nat
      BY <1>0, DocsAreTyped, CallsAreTyped, <1>7 DEF Kinds, Rotate, TokenDocs
    <3>2. LET c == Begun("rotate", u, t)
          IN  /\ c.kind = "rotate" /\ c.user = u /\ c.token = t
              /\ c.shut = Shut(u) /\ c.answer = "none"
      BY DEF Begun, Idle
    <3>3. call = [Begun("rotate", u, t) EXCEPT !.pw = token[t].pw]
      BY <2>1
    <3> QED
      BY <3>1, <3>2, <3>3 DEF RequestStates
  <2>3. /\ t \in Issued /\ account' = account /\ token' = token
        /\ \/ Begin(r, call, "reuse")
           \/ Begin(r, call, "revoke") /\ Live(t)
           \/ BeginAndEnd(r, call, "refused")
    <3>1. /\ t \in Issued /\ account' = account /\ token' = token
      BY <1>7 DEF Rotate, Alone
    <3>2. CASE token[t].status = "removed"
      BY <1>7, <3>1, <3>2 DEF Rotate
    <3>3. CASE token[t].status = "revoked"
      BY <1>7, <3>1, <3>3 DEF Rotate
    <3>4. CASE token[t].status \notin {"revoked", "removed"}
      BY <1>7, <3>1, <3>4 DEF Rotate
    <3> QED
      BY <3>2, <3>3, <3>4
  <2> HIDE DEF call
  <2>4. PICK stage \in {"reuse", "revoke", "done"}, answer \in {"none", "refused"} :
          /\ req'[r] = [call EXCEPT !.stage = stage, !.answer = answer]
          /\ stage = "revoke" => Live(t)
          /\ stage # "done" => answer = "none"
    <3>1. CASE BeginAndEnd(r, call, "refused")
      BY <1>0, <2>2, <3>1 DEF Begin, BeginAndEnd, TypeOK, RequestStates
    <3>2. CASE Begin(r, call, "reuse") \/ (Begin(r, call, "revoke") /\ Live(t))
      <4>1. PICK stage \in {"reuse", "revoke"} :
              Begin(r, call, stage) /\ (stage = "revoke" => Live(t))
        BY <3>2
      <4>2. req'[r] = [call EXCEPT !.stage = stage, !.answer = "none"]
        BY <1>0, <2>2, <4>1 DEF Begin, TypeOK, RequestStates
      <4> QED
        BY <4>1, <4>2
    <3> QED
      BY <2>3, <3>1, <3>2
  <2>5. /\ req'[r].stage = stage /\ req'[r].answer = answer
        /\ req'[r].kind = "rotate" /\ req'[r].user = u /\ req'[r].token = t
        /\ req'[r].pw = token[t].pw /\ req'[r].shut = Shut(u)
        /\ req'[r].stage # "done" => req'[r].answer = "none"
        /\ ~Rotating(r)' /\ ~Answered(r)'
    BY <2>2, <2>4 DEF Rotating, Answered, RequestStates
  <2>6. Others(r)
    BY <1>0, <2>3 DEF Begin, BeginAndEnd, Others, SameCall, TypeOK
  <2>7. CallInv(r)'
    <3>1. req'[r].shut => Shut(req[r].user)'
      BY <2>3, <2>5 DEF Shut
    <3>2. t \in Issued' /\ token'[t].user = u
      BY <2>1, <2>3 DEF Issued
    <3> QED
      BY <2>5, <3>1, <3>2 DEF CallInv, RotateStages
  <2>8. Moves(r)
    BY <2>1, <2>3, <2>4, <2>5 DEF Moves, Quiet, Presents
  <2> QED
    BY <1>1, <2>3, <2>6, <2>7, <2>8, OneCallMoves
<1>8. ASSUME NEW r \in Requests, NEW t \in Tokens, IssueToken(r, t) PROVE Goal
  <2>1. /\ req[r].stage = "issue" /\ account' = account /\ Issued' = Issued \cup {t}
        /\ token' = [token EXCEPT ![t] = NewDoc(r, t)]
    BY <1>8, InsertFacts DEF IssueToken, At
  <2>2. CASE req[r].kind = "rotate"
    <3>1. req' = [req EXCEPT ![r].stage = "check", ![r].token = t]
      BY <1>8, <2>2 DEF IssueToken
    <3>2. /\ req'[r].stage = "check" /\ req'[r].token = t
          /\ req'[r].user = req[r].user /\ req'[r].kind = "rotate"
          /\ req'[r].answer = req[r].answer /\ req'[r].shut = req[r].shut
          /\ ~Rotating(r)' /\ ~Answered(r)' /\ Others(r)
      BY <1>0, <2>2, <3>1
         DEF TypeOK, RequestStates, Rotating, Answered, Others, SameCall
    <3>3. t \in Issued' /\ token'[t].user = req[r].user
      BY <1>0, <2>1 DEF NewDoc, TypeOK
    <3>4. CallInv(r)'
      BY <1>0, <2>1, <3>2, <3>3 DEF CallInv, RotateStages, Shut
    <3>5. Moves(r)
      BY <3>2 DEF Moves, Quiet
    <3> QED
      BY <1>1, <2>1, <3>2, <3>4, <3>5, OneCallMoves
  <2>3. CASE req[r].kind # "rotate"
    <3>1. End(r, "access") /\ ~req[r].shut /\ req[r].kind \notin {"change", "reset"}
      BY <1>0, <1>8, <2>1, <2>3 DEF IssueToken, CallInv
    <3> QED
      BY <1>1, <1>5, <2>1, <3>1 DEF Answers
  <2> QED
    BY <2>2, <2>3
\* A revocation marks other calls and moves its own.
<1>9. ASSUME NEW r \in Requests, NEW S, NEW after,
             req' = [Straddle(S) EXCEPT ![r] = after]
      PROVE  req'[r] = after /\ Others(r)
  BY <1>0, <1>9 DEF TypeOK, RequestStates, Straddle, Others, SameCall
<1>10. ASSUME NEW r \in Requests, RevokeFamily(r) PROVE Goal
  <2>1. /\ req[r].stage = "reuse" /\ req[r].kind = "rotate" /\ account' = account
    BY <1>0, <1>10 DEF RevokeFamily, At, CallInv, RotateStages
  <2> PICK S : req' = [Straddle(S) EXCEPT ![r].stage = "done",
                                          ![r].answer = "refused"]
    BY <1>10 DEF RevokeFamily
  <2>4. \A s \in Requests : Straddle(S)[s] =
                             [req[s] EXCEPT !.straddled = @ \/ s \in S]
    BY DEF Straddle
  <2>5. Others(r)
    BY <1>0, <2>4 DEF Straddle, Others, SameCall, RequestStates
  <2>2. /\ req'[r].stage = "done" /\ req'[r].answer = "refused"
        /\ req'[r].kind = "rotate" /\ req'[r].user = req[r].user
        /\ req'[r].shut = req[r].shut
        /\ ~Rotating(r)' /\ ~Answered(r)'
    BY <1>0, <2>1, <2>4 DEF RequestStates, Straddle, Rotating, Answered
  <2>3. CallInv(r)'
    BY <1>0, <2>1, <2>2 DEF CallInv, RotateStages, Shut
  <2> QED
    BY <1>1, <2>1, <2>2, <2>3, <2>5, OneCallMoves DEF Moves, Quiet
<1>11. ASSUME NEW r \in Requests, RevokeOld(r) PROVE Goal
  <2>1. /\ req[r].stage = "revoke" /\ req[r].kind = "rotate" /\ account' = account
        /\ GoTo(r, "issue")
    BY <1>0, <1>11 DEF RevokeOld, At, CallInv, RotateStages
  <2>2. PICK o \in Issued : o = req[r].token /\ token[o].user = req[r].user
    BY <1>0, <2>1 DEF CallInv, RotateStages
  <2>3. /\ req'[r].stage = "issue" /\ req'[r].answer = req[r].answer
        /\ req'[r].kind = "rotate" /\ req'[r].user = req[r].user
        /\ req'[r].shut = req[r].shut /\ req'[r].token = o
        /\ ~Answered(r)' /\ Others(r)
    BY <1>0, <2>1, <2>2
       DEF GoTo, TypeOK, RequestStates, Answered, Others, SameCall
  <2>4. /\ o \in Issued' /\ token'[o].user = req[r].user /\ ~Live(o)'
    BY <1>0, <1>2, <1>11, <2>2, RevocationKeeps DEF RevokeOld, SameToken
  <2>5. CallInv(r)'
    <3>1. ~Live(req[r].token)'
      BY <2>3, <2>4
    <3> QED
      BY <1>0, <2>1, <2>3, <2>4, <3>1 DEF CallInv, RotateStages, Shut, Rotating
  <2> QED
    BY <1>1, <1>11, <2>1, <2>3, <2>5, OneCallMoves DEF Moves
<1>12. ASSUME NEW r \in Requests, CheckUser(r) PROVE Goal
  <2>1. /\ req[r].stage = "check" /\ req[r].kind = "rotate" /\ account' = account
        /\ \E a \in {"refused", "access"} :
              End(r, a) /\ (a = "access" => ~Shut(req[r].user))
    BY <1>0, <1>12 DEF CheckUser, At, CallInv, RotateStages
  <2> QED
    BY <1>0, <1>1, <1>5, <2>1 DEF CallInv, Answers
<1>13. ASSUME NEW r \in Requests, Revocation(r) PROVE Goal
  <2>1. ASSUME NEW t \in Tokens, Logout(r, t) PROVE Goal
    BY <1>0, <1>1, <1>3, <2>1 DEF Logout, Kinds, Stages, Shut
  <2>2. ASSUME NEW u \in Users, NEW t \in Tokens, RevokeSession(r, u, t)
        PROVE  Goal
    BY <1>4, <2>2 DEF RevokeSession, Kinds
  <2>3. ASSUME NEW u \in Users, RevokeAllSessions(r, u) PROVE Goal
    <3> DEFINE after == [Begun("revokeAll", u, NoToken) EXCEPT
                           !.stage = "done", !.answer = "ok"]
    <3>1. /\ after.kind = "revokeAll" /\ after.stage = "done" /\ after.user = u
          /\ after.answer = "ok" /\ after.shut = Shut(u)
      BY DEF Begun, Idle
    <3> HIDE DEF after
    <3>2. req'[r] = after /\ Others(r) /\ account' = account
      BY <1>9, <2>3 DEF RevokeAllSessions, RevokeAllForUser, after
    <3>3. /\ req'[r].shut => Shut(req[r].user)'
          /\ ~Rotating(r)' /\ ~Answered(r)'
      BY <3>1, <3>2 DEF Shut, Rotating, Answered
    <3>4. CallInv(r)'
      BY <3>1, <3>2, <3>3 DEF CallInv, RotateStages
    <3> QED
      BY <1>1, <3>1, <3>2, <3>3, <3>4, OneCallMoves DEF Moves, Quiet
  <2>4. ASSUME Blacklist(r) PROVE Goal
    BY <1>0, <1>1, <1>5, <2>4 DEF Blacklist, At, CallInv, Answers
  <2>5. ASSUME RevokeAll(r) PROVE Goal
    <3>1. /\ req'[r] = [req[r] EXCEPT !.stage = "done", !.answer = "ok"]
          /\ Others(r) /\ account' = account /\ req[r].stage = "revokeAll"
      BY <1>9, <2>5 DEF RevokeAll, RevokeAllForUser, At
    <3>2. /\ req'[r].stage = "done" /\ req'[r].answer = "ok"
          /\ req'[r].user = req[r].user /\ req'[r].kind = req[r].kind
          /\ req'[r].shut = req[r].shut /\ req'[r].pw = req[r].pw
          /\ ~Rotating(r)'
      BY <1>0, <3>1 DEF RequestStates, Rotating
    <3>3. CallInv(r)'
      BY <1>0, <3>1, <3>2 DEF CallInv, RotateStages, Shut
    <3> QED
      BY <1>1, <2>5, <3>1, <3>3, OneCallMoves DEF Moves
  <2> QED
    BY <1>13, <2>1, <2>2, <2>3, <2>4, <2>5 DEF Revocation
<1>14. ASSUME NEW r \in Requests, Passwords(r) PROVE Goal
  <2>1. ASSUME NEW u \in Users, NEW p, ChangePassword(r, u, p) PROVE Goal
    BY <1>1, <1>3, <1>4, <2>1 DEF ChangePassword, Alone, Kinds, Stages, Shut
  <2>2. ASSUME NEW u \in Users, ForgotPassword(r, u) PROVE Goal
    <3>1. AccountsKept /\ (Shut(u)' <=> Shut(u))
      BY <1>0, <2>2 DEF ForgotPassword, AccountsKept, Shut, TypeOK, Accounts
    <3> QED
      BY <1>3, <2>2, <3>1 DEF ForgotPassword, Kinds, Stages
  <2>3. ASSUME NEW u \in Users, ResetPassword(r, u) PROVE Goal
    BY <1>1, <1>3, <2>3 DEF ResetPassword, Alone, Kinds, Stages, Shut
  <2>4. ASSUME MailSent(r) \/ MailRefused(r) PROVE Goal
    <3>1. AccountsKept
      BY <1>0, <1>1, <2>4
         DEF MailSent, MailRefused, Alone, AccountsKept, Shut, TypeOK, Accounts
    <3>2. req[r].stage = "mail" /\ \E a \in {"ok", "error"} : End(r, a)
      BY <2>4 DEF MailSent, MailRefused, At
    <3> QED
      BY <1>0, <1>5, <3>1, <3>2 DEF CallInv, Answers
  <2>5. ASSUME SavePassword(r) PROVE Goal
    <3>1. PICK u \in Users : u = req[r].user
      BY <1>0, <2>5 DEF SavePassword, At, CallInv
    <3>2. /\ req'[r].stage = "revokeAll" /\ req'[r].pw = account[u].pw + 1
          /\ req'[r].user = u /\ req'[r].kind = req[r].kind
          /\ req'[r].answer = req[r].answer /\ req'[r].shut = req[r].shut
          /\ ~Rotating(r)' /\ Others(r)
      BY <1>0, <2>5, <3>1
         DEF SavePassword, TypeOK, RequestStates, Rotating, Others, SameCall
    <3>3. /\ AccountsKept /\ account'[u].pw = account[u].pw + 1
          /\ account'[u].banned = account[u].banned
          /\ account'[u].deleted = account[u].deleted
      BY <1>0, <2>5, <3>1 DEF SavePassword, AccountsKept, Shut, TypeOK, Accounts
    <3>4. req'[r].shut => Shut(req[r].user)'
      BY <1>0, <3>1, <3>2, <3>3 DEF CallInv, Shut
    <3>5. Answered(r)' => Answered(r) /\ req[r].stage = "save"
      BY <2>5, <3>2 DEF Answered, SavePassword, At
    <3>6. ~Answered(r)' /\ req'[r].answer = "none"
      BY <1>0, <2>5, <3>2, <3>5 DEF CallInv, Answered, SavePassword, At
    <3>7. req'[r].pw <= account'[u].pw
      BY <1>0, <3>2, <3>3
    <3>8. CallInv(r)'
      BY <1>0, <2>5, <3>2, <3>4, <3>6, <3>7 DEF CallInv, RotateStages
    <3> QED
      BY <3>2, <3>3, <3>6, <3>8, OneCallMoves DEF Moves, Quiet
  <2> QED
    BY <1>14, <2>1, <2>2, <2>3, <2>4, <2>5 DEF Passwords
<1>15. ASSUME NEW r \in Requests, SaveUnban(r) PROVE Goal
  <2>1. PICK u \in Users : u = req[r].user
    BY <1>0, <1>15 DEF SaveUnban, At, CallInv
  <2>2. /\ req[r].stage = "unban"
        /\ account' = [account EXCEPT ![u].banned = FALSE]
    BY <1>15, <2>1 DEF SaveUnban, At
  <2>3. \A v \in Users :
          /\ account'[v].pw = account[v].pw
          /\ account'[v].deleted = account[v].deleted
          /\ v # u => account'[v] = account[v]
    BY <1>0, <2>2 DEF TypeOK, Accounts
  <2>4. ASSUME NEW s \in Requests
        PROVE  /\ req'[s].shut <=>
                     req[s].shut /\ (req[s].user # u \/ account[u].deleted)
               /\ req'[s].kind = req[s].kind /\ req'[s].user = req[s].user
               /\ req'[s].token = req[s].token /\ req'[s].pw = req[s].pw
               /\ req'[s].straddled = req[s].straddled
               /\ req'[s].stage = IF s = r THEN "done" ELSE req[s].stage
               /\ req'[s].answer = IF s = r THEN "ok" ELSE req[s].answer
    <3>1. req'[s] = [req[s] EXCEPT
                       !.shut = @ /\ (req[s].user # u \/ account[u].deleted),
                       !.stage = IF s = r THEN "done" ELSE @,
                       !.answer = IF s = r THEN "ok" ELSE @]
      BY <1>15, <2>1 DEF SaveUnban
    <3> QED
      BY <1>0, <3>1 DEF RequestStates
  <2>5. ASSUME NEW s \in Requests PROVE req'[s].shut => Shut(req[s].user)'
    <3> SUFFICES ASSUME req'[s].shut PROVE Shut(req[s].user)'
      OBVIOUS
    <3>1. PICK v \in Users : v = req[s].user /\ Shut(v)
      BY <1>0, <2>4 DEF CallInv
    <3>2. account'[v].banned \/ account'[v].deleted
      <4>1. CASE v = u
        BY <2>3, <2>4, <3>1, <4>1
      <4>2. CASE v # u
        BY <2>3, <3>1, <4>2 DEF Shut
      <4> QED
        BY <4>1, <4>2
    <3> QED
      BY <2>4, <3>1, <3>2 DEF Shut
  <2>6. ASSUME NEW s \in Requests \ {r} PROVE SameCall(s)
    BY <2>4 DEF SameCall
  <2>7. CallInv(r)'
    <3>1. req[r].kind \notin {"change", "reset"}
      BY <1>0, <2>2 DEF CallInv
    <3>2. ~Rotating(r)' /\ ~Answered(r)'
      BY <2>4, <3>1 DEF Rotating, Answered
    <3> QED
      BY <1>0, <2>2, <2>4, <2>5, <3>2 DEF CallInv, RotateStages
  <2>8. Quiet(r)
    BY <1>0, <2>2, <2>4 DEF Quiet, Answered, CallInv
  <2>9. ASSUME NEW s \in Requests, s # r PROVE CallInv(s)' /\ Moves(s)
    <3>1. ASSUME NEW v \in Users PROVE account[v].pw <= account'[v].pw
      <4>1. account[v].pw \in Nat /\ account'[v].pw = account[v].pw
        BY <1>0, <2>3
      <4> QED
        BY <4>1
    <3> QED
      BY <2>5, <2>6, <2>9, <3>1, FrameCall DEF Moves
  <2> QED
    BY <2>7, <2>8, <2>9 DEF Moves
<1>16. ASSUME NEW r \in Requests, Administration(r) PROVE Goal
  <2>1. ASSUME NEW u \in Users, BanUser(r, u) \/ UnbanUser(r, u) \/ DeleteUser(r, u)
        PROVE  Goal
    <3>1. \E k \in {"ban", "unban", "delete"} :
            /\ \/ Begin(r, Begun(k, u, NoToken), k)
               \/ BeginAndEnd(r, Begun(k, u, NoToken), "refused")
            /\ account' = account
      BY <2>1 DEF BanUser, UnbanUser, DeleteUser, Alone
    <3> QED
      BY <1>1, <1>3, <1>4, <3>1 DEF Kinds, Stages, Shut
  <2>2. ASSUME SaveBan(r) PROVE Goal
    <3>1. PICK u \in Users : u = req[r].user
      BY <1>0, <2>2 DEF SaveBan, At, CallInv
    <3>2. /\ req[r].stage = "ban" /\ GoTo(r, "revokeAll")
          /\ account' = [account EXCEPT ![u].banned = TRUE]
      BY <2>2, <3>1 DEF SaveBan, At
    <3>3. AccountsKept
      BY <1>0, <3>2 DEF AccountsKept, Shut, TypeOK, Accounts
    <3>4. /\ req'[r].stage = "revokeAll" /\ req'[r].user = u
          /\ req'[r].kind = req[r].kind /\ req'[r].answer = "none"
          /\ Others(r)
      BY <1>0, <3>1, <3>2
         DEF GoTo, TypeOK, RequestStates, Others, SameCall, CallInv
    <3>5. Shut(u)' /\ req[r].kind = "ban"
      BY <1>0, <3>2 DEF Shut, TypeOK, Accounts, CallInv
    <3>6. Shut(req[r].user)' /\ ~Rotating(r)' /\ ~Answered(r)'
      BY <3>4, <3>5 DEF Rotating, Answered
    <3>7. CallInv(r)'
      BY <3>4, <3>5, <3>6 DEF CallInv, RotateStages
    <3> QED
      BY <3>3, <3>4, <3>6, <3>7, OneCallMoves DEF Moves, Quiet
  <2>3. ASSUME RevokeForDeletion(r) PROVE Goal
    <3>1. /\ req'[r] = [req[r] EXCEPT !.stage = "commit"]
          /\ Others(r) /\ account' = account /\ req[r].stage = "delete"
      BY <1>9, <2>3 DEF RevokeForDeletion, RevokeAllForUser, At
    <3>2. /\ req'[r].stage = "commit" /\ req'[r].answer = "none"
          /\ req'[r].user = req[r].user /\ req'[r].kind = req[r].kind
          /\ req'[r].shut = req[r].shut /\ ~Rotating(r)' /\ ~Answered(r)'
      BY <1>0, <3>1 DEF RequestStates, Rotating, Answered, CallInv
    <3>3. CallInv(r)'
      BY <1>0, <3>1, <3>2 DEF CallInv, RotateStages, Shut
    <3> QED
      BY <1>1, <3>1, <3>2, <3>3, OneCallMoves DEF Moves, Quiet
  <2>4. ASSUME CommitDeletion(r) PROVE Goal
    <3>1. PICK u \in Users : u = req[r].user
      BY <1>0, <2>4 DEF CommitDeletion, At, CallInv
    <3>2. AccountsKept
      BY <1>0, <2>4, <3>1 DEF CommitDeletion, AccountsKept, Shut, TypeOK, Accounts
    <3> QED
      BY <1>0, <1>5, <2>4, <3>2 DEF CommitDeletion, At, CallInv, Answers
  <2> QED
    BY <1>15, <1>16, <2>1, <2>2, <2>3, <2>4 DEF Administration
<1>17. ASSUME NEW r \in Requests, Authentication(r) \/ Fail(r) PROVE Goal
  <2>1. ASSUME NEW t \in Tokens, Authenticate(r, t) PROVE Goal
    <3>1. PICK u \in Users : u = token[t].user
      BY <1>0, <2>1 DEF Authenticate
    <3> QED
      BY <1>1, <1>3, <1>4, <2>1, <3>1 DEF Authenticate, Alone, Kinds, Stages, Shut
  <2>2. ASSUME LoadUser(r) PROVE Goal
    <3>1. /\ req[r].stage = "user" /\ account' = account
          /\ \E a \in {"refused", "access"} :
                End(r, a) /\ (a = "access" => ~Shut(req[r].user))
      BY <2>2 DEF LoadUser, At, Alone
    <3> QED
      BY <1>0, <1>1, <1>5, <3>1 DEF CallInv, Answers
  <2>3. ASSUME Fail(r) PROVE Goal
    BY <1>1, <1>5, <2>3 DEF Fail, Alone, Answers
  <2> QED
    BY <1>17, <2>1, <2>2, <2>3 DEF Authentication
<1>18. ASSUME Environment \/ UNCHANGED vars PROVE Goal
  <2>1. AccountsKept /\ req' = req
    BY <1>0, <1>1, <1>18
       DEF Environment, ResetExpires, Expire, Remove, vars, AccountsKept, Shut,
           TypeOK, Accounts
  <2>2. ASSUME NEW s \in Requests PROVE SameCall(s) /\ CallInv(s)'
    <3>1. SameCall(s)
      BY <2>1 DEF SameCall
    <3>2. req'[s].shut => Shut(req[s].user)'
      <4> SUFFICES ASSUME req'[s].shut PROVE Shut(req[s].user)'
        OBVIOUS
      <4>1. PICK u \in Users : u = req[s].user /\ Shut(u)
        BY <1>0, <2>1 DEF CallInv
      <4> QED
        BY <2>1, <4>1 DEF AccountsKept
    <3> QED
      BY <2>1, <3>1, <3>2, FrameCall DEF AccountsKept
  <2> QED
    BY <2>2 DEF Moves
<1> QED
  <2>1. ASSUME NEW r \in Requests, RotateSteps(r) PROVE Goal
    BY <1>7, <1>8, <1>10, <1>11, <1>12, <2>1 DEF RotateSteps
  <2> QED
    BY <1>6, <1>13, <1>14, <1>16, <1>17, <1>18, <2>1 DEF Next

LEMMA SessionInvHolds == Spec => []SessionInv
<1>1. Init => SessionInv
  <2> SUFFICES ASSUME Init PROVE SessionInv
    OBVIOUS
  <2>1. Issued = {} /\ \A r \in Requests : req[r] = Idle
    BY DEF Init, Issued
  <2>2. TypeOK
    BY <2>1 DEF Init, TypeOK, Accounts, RequestStates, Idle, Stages, Answers
  <2>3. \A r \in Requests : CallInv(r)
    BY <2>1 DEF CallInv, Idle, Rotating, RotateStages, Answered
  <2> QED
    BY <2>1, <2>2, <2>3 DEF SessionInv, TokenInv
<1>2. SessionInv /\ [Next]_vars => SessionInv'
  <2> SUFFICES ASSUME SessionInv, [Next]_vars PROVE SessionInv'
    OBVIOUS
  <2> QED
    BY TypeStep, TokenInvStep, CallSteps DEF SessionInv
<1> QED
  BY <1>1, <1>2, PTL DEF Spec

\* Every variable of Sessions has its type.
THEOREM SessionsTypeCorrect == Spec => []TypeOK
<1>1. SessionInv => TypeOK
  BY DEF SessionInv
<1> QED
  BY <1>1, SessionInvHolds, PTL

\* No call that began while its account was banned or deleted gets access,
\* unless the account was unbanned meanwhile.
THEOREM NoAccessWhileShutHolds == Spec => []NoAccessWhileShut
<1>1. SessionInv => NoAccessWhileShut
  BY DEF SessionInv, CallInv, NoAccessWhileShut
<1> QED
  BY <1>1, SessionInvHolds, PTL

------------------------------------------------------------------------------
(* Forks: without a double exchange a family is a chain, with one last token. *)

Last(t) == \A s \in Issued : token[s].parent # t

DoubleExchange(f) ==
    \E s, t \in InFamily(f) : s # t /\ token[s].parent = token[t].parent

Chain(f) ==
    DoubleExchange(f) \/ \A s, t \in InFamily(f) : Last(s) /\ Last(t) => s = t

ForkInv == \A f \in Tokens : Chain(f)

LEMMA ForkStep == SessionInv /\ ForkInv /\ [Next]_vars => ForkInv'
<1> SUFFICES ASSUME SessionInv, ForkInv, [Next]_vars, NEW f \in Tokens
             PROVE  Chain(f)'
  BY DEF ForkInv
<1>1. CASE TokensKept
  <2>1. /\ Issued' = Issued
        /\ \A t \in Issued : /\ token'[t].parent = token[t].parent
                            /\ token'[t].family = token[t].family
    BY <1>1 DEF TokensKept, SameToken
  <2>2. InFamily(f)' = InFamily(f) /\ \A t \in Issued : Last(t)' <=> Last(t)
    BY <2>1 DEF InFamily, Last
  <2>3. Chain(f)
    BY DEF ForkInv
  <2>4. InFamily(f) \subseteq Issued
    BY DEF InFamily
  <2>5. DoubleExchange(f)' <=> DoubleExchange(f)
    BY <2>1, <2>2, <2>4 DEF DoubleExchange
  <2> QED
    BY <2>2, <2>3, <2>4, <2>5 DEF Chain
<1>2. ASSUME NEW r \in Requests, NEW n \in Tokens, IssueToken(r, n)
      PROVE  Chain(f)'
  <2>1. /\ Issued' = Issued \cup {n} /\ n \notin Issued
        /\ token'[n] = NewDoc(r, n)
        /\ \A t \in Issued : token'[t] = token[t]
    BY <1>2, InsertFacts DEF IssueToken, SessionInv, TypeOK, Issued
  <2>2. \A t \in Issued : token[t].parent # n /\ token[t].family \in Issued
    BY <2>1, SessionsAssumption DEF SessionInv, TokenInv, InFamily
  <2>3. SUFFICES ASSUME ~DoubleExchange(f)'
                 PROVE  \A s, t \in InFamily(f)' : Last(s)' /\ Last(t)' => s = t
    BY DEF Chain
  <2>4. /\ InFamily(f) \subseteq InFamily(f)'
        /\ InFamily(f)' \subseteq InFamily(f) \cup {n}
    BY <2>1 DEF InFamily
  <2>5. \A s, t \in InFamily(f)' : token'[s].parent = token'[t].parent => s = t
    BY <2>3 DEF DoubleExchange
  <2>6. ~DoubleExchange(f)
    BY <2>1, <2>4, <2>5 DEF DoubleExchange, InFamily
  <2>7. \A s, t \in InFamily(f) : Last(s) /\ Last(t) => s = t
    BY <2>6 DEF ForkInv, Chain
  <2>8. \A t \in InFamily(f) : Last(t)' => Last(t)
    BY <2>1 DEF Last, InFamily
  <2>9. CASE n \notin InFamily(f)'
    BY <2>4, <2>7, <2>8, <2>9
  <2>10. CASE n \in InFamily(f)' /\ req[r].kind # "rotate"
    <3>1. f = n
      BY <2>1, <2>10 DEF InFamily, NewDoc
    <3>2. InFamily(f) = {}
      BY <2>1, <2>2, <3>1 DEF InFamily
    <3> QED
      BY <2>4, <3>2
  <2>11. CASE n \in InFamily(f)' /\ req[r].kind = "rotate"
    <3>1. PICK o \in Issued : o = req[r].token
      BY <1>2, <2>11 DEF SessionInv, CallInv, IssueToken, At, Rotating
    <3>2. o \in InFamily(f) /\ token'[n].parent = o
      BY <2>1, <2>11, <3>1 DEF InFamily, NewDoc, FamilyOf
    \* o was not exchanged before, or it would be a double exchange now.
    <3>3. Last(o)
      <4> SUFFICES ASSUME NEW s \in Issued, token[s].parent = o PROVE FALSE
        BY DEF Last
      <4>1. o # NoToken
        BY <3>1, SessionsAssumption DEF Issued
      <4>2. s \in InFamily(f)
        BY <3>2, <4>1 DEF SessionInv, TokenInv, InFamily
      <4> QED
        BY <2>1, <2>4, <2>5, <2>11, <3>2, <4>2
    <3>4. ~Last(o)'
      BY <2>1, <3>2 DEF Last
    <3>5. ASSUME NEW s \in InFamily(f)', Last(s)' PROVE s = n
      <4> SUFFICES ASSUME s # n PROVE FALSE
        OBVIOUS
      <4>1. s \in InFamily(f) /\ Last(s)
        BY <2>4, <2>8, <3>5
      <4> QED
        BY <2>7, <3>2, <3>3, <3>4, <3>5, <4>1
    <3> QED
      BY <3>5
  <2> QED
    BY <2>9, <2>10, <2>11
<1> QED
  BY <1>1, <1>2, TokenSteps

\* Two usable tokens of a family mean that one token was exchanged twice.
THEOREM ForksHolds == Spec => []ForksOnlyByDoubleExchange
<1>1. Init => ForkInv
  BY DEF Init, ForkInv, Chain, InFamily, Issued
<1>2. SessionInv /\ ForkInv => ForksOnlyByDoubleExchange
  <2> SUFFICES ASSUME SessionInv, ForkInv, NEW f \in Tokens,
                      NEW s \in InFamily(f), NEW t \in InFamily(f),
                      s # t, Live(s), Live(t)
               PROVE  DoubleExchange(f)
    BY DEF ForksOnlyByDoubleExchange, DoubleExchange
  <2>1. ASSUME NEW x \in Tokens, Live(x) PROVE Last(x)
    BY <2>1, SessionsAssumption DEF SessionInv, TokenInv, Last
  <2>2. s \in Tokens /\ t \in Tokens /\ Chain(f)
    BY DEF InFamily, Issued, ForkInv
  <2> QED
    BY <2>1, <2>2 DEF Chain
<1> QED
  BY <1>1, <1>2, ForkStep, SessionInvHolds, PTL DEF Spec

------------------------------------------------------------------------------
(* Reuse: what a rotation that is under way when its family is revoked may    *)
(* still insert was overtaken.                                                *)

MayInsert(r) == req[r].kind = "rotate" /\ r \in Issuing

ReuseInv ==
    /\ reused \subseteq Issued
    /\ ReusedFamilyDeadUnlessOvertaken
    /\ \A r \in Requests : MayInsert(r) /\ FamilyOf(r) \in reused =>
           req[r].straddled \/ Overtaken(FamilyOf(r))

LEMMA OvertakenStays ==
    ASSUME SessionInv, [Next]_vars, NEW f, Overtaken(f)
    PROVE  Overtaken(f)'
  BY TokensGrow DEF Overtaken, InFamily, SameToken

LEMMA ReuseStep == SessionInv /\ ReuseInv /\ [Next]_vars => ReuseInv'
<1> SUFFICES ASSUME SessionInv, ReuseInv, [Next]_vars PROVE ReuseInv'
  OBVIOUS
<1>1. \A t \in Issued : SameToken(t) /\ t \in Issued'
  BY TokensGrow
<1>2. ASSUME NEW r \in Requests, RevokeFamily(r) PROVE ReuseInv'
  <2>1. PICK f \in Issued : f = FamilyOf(r)
    BY <1>2 DEF SessionInv, CallInv, RevokeFamily, At, RotateStages, FamilyOf,
                TokenInv
  <2>2. /\ reused' = reused \cup {f} /\ RevokeTokens(InFamily(f))
        /\ Issued' = Issued
        /\ \A t \in InFamily(f) : ~Live(t)'
    BY <1>2, <2>1, RevocationKeeps
       DEF RevokeFamily, SessionInv, TokensKept, InFamily, Issued
  <2>3. ReusedFamilyDeadUnlessOvertaken'
    <3> SUFFICES ASSUME NEW t \in Tokens, Live(t)', token'[t].family \in reused'
                 PROVE  Overtaken(token[t].family)'
      BY DEF ReusedFamilyDeadUnlessOvertaken
    <3>1. t \in Issued /\ Live(t) /\ token'[t].family = token[t].family
      BY <1>1, <2>2 DEF Live, SameToken
    <3>2. token[t].family # f
      BY <2>2, <3>1 DEF InFamily
    <3>3. Overtaken(token[t].family)
      BY <2>2, <3>1, <3>2 DEF ReuseInv, ReusedFamilyDeadUnlessOvertaken, Issued
    <3>4. PICK g : g = token[t].family
      OBVIOUS
    <3>5. Overtaken(g)'
      BY <3>3, <3>4, OvertakenStays
    <3> QED
      BY <3>1, <3>4, <3>5
  <2>4. ASSUME NEW s \in Requests, MayInsert(s)', FamilyOf(s)' \in reused'
        PROVE  req'[s].straddled \/ Overtaken(FamilyOf(s))'
    <3>1. s # r
      BY <1>2, <2>4
         DEF RevokeFamily, MayInsert, Issuing, SessionInv, TypeOK, Straddle,
             RequestStates
    <3> DEFINE missed == {q \in Issuing : /\ req[q].kind = "rotate"
                                          /\ FamilyOf(q) = FamilyOf(r)}
    <3>2. req'[s] = [req[s] EXCEPT !.straddled = @ \/ s \in missed]
      BY <1>2, <3>1 DEF RevokeFamily, Straddle
    <3>3. /\ req'[s].stage = req[s].stage /\ req'[s].kind = req[s].kind
          /\ req'[s].token = req[s].token
          /\ req'[s].straddled <=> (req[s].straddled \/ s \in missed)
      BY <3>2 DEF SessionInv, TypeOK, RequestStates
    <3>4. MayInsert(s)
      BY <2>4, <3>3 DEF MayInsert, Issuing
    <3>5. PICK g \in Tokens : g = FamilyOf(s) /\ g = FamilyOf(s)'
      BY <1>1, <3>3, <3>4, DocsAreTyped
         DEF MayInsert, Issuing, SessionInv, CallInv, RotateStages, Rotating,
             FamilyOf, SameToken, TokenDocs
    <3>6. CASE g = f
      BY <2>1, <3>3, <3>4, <3>5, <3>6 DEF MayInsert
    <3>7. CASE g # f
      <4>1. req[s].straddled \/ Overtaken(g)
        BY <2>2, <2>4, <3>4, <3>5, <3>7 DEF ReuseInv
      <4> QED
        BY <3>3, <3>5, <4>1, OvertakenStays
    <3> QED
      BY <3>6, <3>7
  <2> QED
    BY <2>2, <2>3, <2>4 DEF ReuseInv
<1>3. ASSUME reused' = reused, NEW s \in Requests,
             MayInsert(s)', FamilyOf(s)' \in reused'
      PROVE  req'[s].straddled \/ Overtaken(FamilyOf(s))'
  <2>1. Moves(s)
    BY CallSteps
  <2>2. ~Quiet(s) /\ ~SignsIn(s) /\ ~RevokeAll(s)
    BY <1>3 DEF Quiet, SignsIn, MayInsert, Issuing, RevokeAll, RevokeAllForUser,
                SessionInv, TypeOK, Straddle, RequestStates
  <2>3. CASE Presents(s)
    <3>1. PICK o \in Issued : o = req'[s].token /\ Live(o)
      BY <2>3 DEF Presents
    <3>2. PICK g : g = token[o].family /\ g = FamilyOf(s)'
      BY <1>1, <3>1 DEF FamilyOf, SameToken
    <3>3. Overtaken(g)
      BY <1>3, <3>1, <3>2
         DEF ReuseInv, ReusedFamilyDeadUnlessOvertaken, Issued
    <3> QED
      BY <3>2, <3>3, OvertakenStays
  <2>4. CASE SameCall(s) \/ RevokeOld(s)
    <3>1. /\ MayInsert(s) /\ req'[s].token = req[s].token
          /\ req[s].straddled => req'[s].straddled
      BY <1>3, <2>4
         DEF SameCall, RevokeOld, At, GoTo, MayInsert, Issuing, SessionInv,
             TypeOK, RequestStates, CallInv, RotateStages
    <3>2. PICK g \in Tokens : g = FamilyOf(s) /\ g = FamilyOf(s)'
      BY <1>1, <3>1, DocsAreTyped
         DEF MayInsert, Issuing, SessionInv, CallInv, RotateStages, Rotating,
             FamilyOf, SameToken, TokenDocs
    <3>3. req[s].straddled \/ Overtaken(g)
      BY <1>3, <3>1, <3>2 DEF ReuseInv
    <3> QED
      BY <3>1, <3>2, <3>3, OvertakenStays
  <2> QED
    BY <2>1, <2>2, <2>3, <2>4 DEF Moves
<1>4. ASSUME reused' = reused,
             \A t \in Issued' \ Issued :
               Live(t)' /\ token'[t].family \in reused =>
                   Overtaken(token[t].family)'
      PROVE  ReuseInv'
  <2>1. ASSUME NEW t \in Issued, Live(t)', token'[t].family \in reused
        PROVE  Overtaken(token[t].family)'
    <3>1. Live(t) /\ token'[t].family = token[t].family
      BY <1>1, <2>1 DEF SameToken
    <3>2. PICK g : g = token[t].family
      OBVIOUS
    <3>3. Overtaken(g)
      BY <2>1, <3>1, <3>2 DEF ReuseInv, ReusedFamilyDeadUnlessOvertaken, Issued
    <3> QED
      BY <3>1, <3>2, <3>3, OvertakenStays
  <2>2. \A t \in Tokens : Live(t)' => t \in Issued'
    BY DEF Live
  <2>3. ReusedFamilyDeadUnlessOvertaken'
    BY <1>4, <2>1, <2>2 DEF ReusedFamilyDeadUnlessOvertaken
  <2> QED
    BY <1>1, <1>3, <1>4, <2>3 DEF ReuseInv
<1>5. ASSUME NEW r \in Requests, NEW n \in Tokens, IssueToken(r, n) PROVE ReuseInv'
  <2>1. /\ reused' = reused /\ Issued' = Issued \cup {n} /\ n \notin Issued
        /\ token'[n] = NewDoc(r, n)
    BY <1>5, InsertFacts DEF IssueToken, SessionInv, TypeOK
  <2>2. ASSUME token'[n].family \in reused PROVE Overtaken(token[n].family)'
    <3>1. token'[n].family # n
      BY <2>1, <2>2 DEF ReuseInv
    <3>2. PICK g : g = token'[n].family /\ g = FamilyOf(r) /\ MayInsert(r)
      BY <1>5, <2>1, <3>1 DEF NewDoc, MayInsert, Issuing, IssueToken, At
    <3>3. CASE req[r].straddled
      BY <2>1, <3>3 DEF Overtaken, InFamily, NewDoc
    <3>4. CASE Overtaken(g)
      BY <3>2, <3>4, OvertakenStays
    <3> QED
      BY <2>2, <3>2, <3>3, <3>4 DEF ReuseInv
  <2> QED
    BY <1>4, <2>1, <2>2
<1>6. CASE \E r \in Requests, n \in Tokens : IssueToken(r, n)
  BY <1>5, <1>6
<1>7. CASE TokensKept /\ reused' = reused
  BY <1>4, <1>7 DEF TokensKept
<1>8. reused' = reused \/ \E r \in Requests : RevokeFamily(r)
  <2>1. ASSUME NEW r \in Requests,
               RotateSteps(r) \/ SignIn(r) \/ Authentication(r)
        PROVE  reused' = reused \/ RevokeFamily(r)
    BY <2>1 DEF RotateSteps, Rotate, IssueToken, RevokeOld, CheckUser, SignIn,
                Login, OAuthLogin, Authentication, Authenticate, LoadUser, Alone
  <2>2. ASSUME NEW r \in Requests, Revocation(r) \/ Passwords(r) \/ Fail(r)
        PROVE  reused' = reused
    BY <2>2 DEF Revocation, Logout, RevokeSession, RevokeAllSessions, Blacklist,
                RevokeAll, Passwords, ChangePassword, ForgotPassword,
                ResetPassword, MailSent, MailRefused, SavePassword, Fail, Alone
  <2>3. ASSUME NEW r \in Requests, Administration(r) PROVE reused' = reused
    BY <2>3 DEF Administration, BanUser, UnbanUser, DeleteUser, SaveBan,
                SaveUnban, RevokeForDeletion, CommitDeletion, Alone
  <2>4. ASSUME Environment \/ UNCHANGED vars PROVE reused' = reused
    BY <2>4 DEF Environment, ResetExpires, Expire, Remove, vars
  <2> QED
    BY <2>1, <2>2, <2>3, <2>4 DEF Next
<1> QED
  BY <1>2, <1>6, <1>7, <1>8, TokenSteps

\* After reuse of a token was detected, a usable token of its family means that
\* a rotation had passed its check when the family was revoked.
THEOREM ReusedFamilyDeadHolds == Spec => []ReusedFamilyDeadUnlessOvertaken
<1>1. Init => ReuseInv
  BY DEF Init, ReuseInv, ReusedFamilyDeadUnlessOvertaken, Live, Issued, MayInsert,
         Issuing, Idle
<1>2. ReuseInv => ReusedFamilyDeadUnlessOvertaken
  BY DEF ReuseInv
<1> QED
  BY <1>1, <1>2, ReuseStep, SessionInvHolds, PTL DEF Spec

------------------------------------------------------------------------------
(* Passwords: the same for what a password change has missed.                *)

Outlives(s, r) == req[s].user = req[r].user /\ req[s].pw < req[r].pw

PasswordInv ==
    /\ OldSessionsEndUnlessOvertaken
    /\ \A r \in Requests, s \in Issuing :
           Answered(r) /\ Outlives(s, r) =>
               \/ req[s].straddled
               \/ MayInsert(s) /\ Overtaken(FamilyOf(s))

LEMMA PasswordStep == SessionInv /\ PasswordInv /\ [Next]_vars => PasswordInv'
<1> SUFFICES ASSUME SessionInv, PasswordInv, [Next]_vars PROVE PasswordInv'
  OBVIOUS
<1>1. \A t \in Issued : SameToken(t) /\ t \in Issued'
  BY TokensGrow
\* A token that a call sees answered did not change.
<1>2. ASSUME NEW a \in Requests, Answered(a), SameCall(a), NEW t \in Issued,
             Live(t)', token'[t].user = req'[a].user, token'[t].pw < req'[a].pw
      PROVE  Overtaken(token[t].family)'
  <2>1. /\ Live(t) /\ token'[t].family = token[t].family
        /\ token[t].user = req[a].user /\ token[t].pw < req[a].pw
    BY <1>1, <1>2 DEF SameToken, SameCall
  <2>2. PICK g : g = token[t].family
    OBVIOUS
  <2>3. Overtaken(g)
    BY <1>2, <2>1, <2>2
       DEF PasswordInv, OldSessionsEndUnlessOvertaken, Answered, Issued
  <2> QED
    BY <2>1, <2>2, <2>3, OvertakenStays
\* Nor did a call that is still between its check and its insert.
<1>3. ASSUME NEW a \in Requests, Answered(a), SameCall(a), NEW s \in Issuing,
             s \in Issuing', Outlives(s, a)', SameCall(s) \/ RevokeOld(s)
      PROVE  req'[s].straddled \/ (MayInsert(s)' /\ Overtaken(FamilyOf(s))')
  <2>1. /\ req'[s].token = req[s].token /\ req'[s].kind = req[s].kind
        /\ req'[s].user = req[s].user /\ req'[s].pw = req[s].pw
        /\ req[s].straddled => req'[s].straddled
    BY <1>3 DEF SameCall, RevokeOld, GoTo, Issuing, SessionInv, TypeOK,
                RequestStates
  <2>2. Outlives(s, a)
    BY <1>3, <2>1 DEF Outlives, SameCall
  <2>3. CASE req[s].straddled
    BY <2>1, <2>3
  <2>4. CASE MayInsert(s) /\ Overtaken(FamilyOf(s))
    <3>1. PICK g : g = FamilyOf(s) /\ g = FamilyOf(s)'
      BY <1>1, <2>1, <2>4
         DEF MayInsert, Issuing, SessionInv, CallInv, RotateStages, Rotating,
             FamilyOf, SameToken
    <3> QED
      BY <1>3, <2>1, <2>4, <3>1, OvertakenStays DEF MayInsert
  <2> QED
    BY <1>3, <2>2, <2>3, <2>4 DEF PasswordInv
<1>4. ASSUME NEW r \in Requests, RevokeAll(r) PROVE PasswordInv'
  <2>1. PICK u \in Users : u = req[r].user
    BY <1>4 DEF SessionInv, CallInv, RevokeAll, At
  <2>2. /\ RevokeTokens(Usable(u))
        /\ req' = [Straddle({s \in Issuing : req[s].user = u})
                     EXCEPT ![r] = [req[r] EXCEPT !.stage = "done",
                                                  !.answer = "ok"]]
    BY <1>4, <2>1 DEF RevokeAll, RevokeAllForUser
  <2>3. Issued' = Issued /\ \A t \in Tokens : Live(t)' => token'[t].user # u
    <3>1. TokensKept /\ \A t \in Tokens : t \in Usable(u) => ~Live(t)'
      BY <2>2, RevocationKeeps DEF SessionInv
    <3> QED
      BY <3>1 DEF TokensKept, SameToken, Usable, Live
  <2>4. /\ req'[r].stage = "done" /\ req'[r].user = u
        /\ \A s \in Requests \ {r} :
              req'[s] = [req[s] EXCEPT !.straddled =
                           @ \/ s \in {q \in Issuing : req[q].user = u}]
    BY <2>1, <2>2 DEF Straddle, SessionInv, TypeOK, RequestStates
  <2>5. ASSUME NEW s \in Requests, s # r
        PROVE  /\ SameCall(s)
               /\ s \in Issuing /\ req[s].user = u => req'[s].straddled
    <3>1. /\ req[s] \in RequestStates
          /\ req'[s] = [req[s] EXCEPT !.straddled =
                          @ \/ s \in {q \in Issuing : req[q].user = u}]
      BY <2>4, <2>5 DEF SessionInv, TypeOK
    <3>2. req'[s].straddled <=>
            (req[s].straddled \/ (s \in Issuing /\ req[s].user = u))
      BY <3>1 DEF RequestStates
    <3>3. SameCall(s)
      BY <3>1, <3>2 DEF SameCall, RequestStates
    <3> QED
      BY <3>2, <3>3
  <2>6. OldSessionsEndUnlessOvertaken'
    <3> SUFFICES ASSUME NEW a \in Requests, NEW t \in Tokens,
                        Answered(a)', Live(t)',
                        token'[t].user = req'[a].user, token'[t].pw < req'[a].pw
                 PROVE  Overtaken(token[t].family)'
      BY DEF OldSessionsEndUnlessOvertaken, Answered
    <3>1. a # r /\ t \in Issued
      BY <2>3, <2>4 DEF Live
    <3>2. Answered(a)
      BY <2>5, <3>1 DEF Answered, SameCall
    <3> QED
      BY <1>2, <2>5, <3>1, <3>2
  <2>7. ASSUME NEW a \in Requests, NEW s \in Issuing', Answered(a)', Outlives(s, a)'
        PROVE  req'[s].straddled \/ (MayInsert(s)' /\ Overtaken(FamilyOf(s))')
    <3>1. s # r /\ s \in Requests
      BY <2>4 DEF Issuing
    <3>2. s \in Issuing
      BY <2>5, <3>1 DEF Issuing, SameCall
    <3>3. CASE a = r
      BY <2>4, <2>5, <2>7, <3>1, <3>2, <3>3 DEF Outlives, SameCall
    <3>4. CASE a # r
      <4>1. Answered(a) /\ SameCall(a)
        BY <2>5, <2>7, <3>4 DEF Answered, SameCall
      <4> QED
        BY <1>3, <2>5, <2>7, <3>1, <3>2, <4>1
    <3> QED
      BY <3>3, <3>4
  <2> QED
    BY <2>6, <2>7 DEF PasswordInv
<1>5. ASSUME \A r \in Requests : ~RevokeAll(r) PROVE PasswordInv'
  <2>1. ASSUME NEW a \in Requests, Answered(a)' PROVE SameCall(a) /\ Answered(a)
    <3>1. ~RevokeOld(a)
      BY <2>1 DEF Answered, RevokeOld, At, GoTo, SessionInv, TypeOK, RequestStates,
                  CallInv
    <3>2. SameCall(a)
      BY <1>5, <2>1, <3>1, CallSteps DEF Moves, Quiet, SignsIn, Presents
    <3> QED
      BY <2>1, <3>2 DEF SameCall, Answered
  <2>2. OldSessionsEndUnlessOvertaken'
    <3> SUFFICES ASSUME NEW a \in Requests, NEW t \in Tokens,
                        Answered(a)', Live(t)',
                        token'[t].user = req'[a].user, token'[t].pw < req'[a].pw
                 PROVE  Overtaken(token[t].family)'
      BY DEF OldSessionsEndUnlessOvertaken, Answered
    <3>1. SameCall(a) /\ Answered(a) /\ t \in Issued'
      BY <2>1 DEF Live
    <3>2. CASE t \in Issued
      BY <1>2, <3>1, <3>2
    <3>3. ASSUME NEW r \in Requests, NEW n \in Tokens, IssueToken(r, n), t = n
          PROVE  Overtaken(token[t].family)'
      <4>1. /\ Issued' = Issued \cup {n} /\ token'[n] = NewDoc(r, n)
        BY <3>3, InsertFacts DEF SessionInv, TypeOK
      <4>2. /\ r \in Issuing /\ Outlives(r, a)
        BY <3>1, <3>3, <4>1
           DEF NewDoc, Outlives, SameCall, Issuing, IssueToken, At
      <4>3. CASE req[r].straddled
        <5>1. token'[n].straddled /\ n \in Issued'
          BY <4>1, <4>3 DEF NewDoc
        <5> QED
          BY <3>3, <5>1 DEF Overtaken, InFamily
      <4>4. CASE MayInsert(r) /\ Overtaken(FamilyOf(r))
        <5>1. PICK g : g = FamilyOf(r) /\ g = token'[n].family
          BY <4>1, <4>4 DEF NewDoc, MayInsert
        <5> QED
          BY <3>3, <4>4, <5>1, OvertakenStays
      <4> QED
        BY <3>1, <4>2, <4>3, <4>4 DEF PasswordInv
    <3>4. CASE TokensKept
      BY <3>1, <3>2, <3>4 DEF TokensKept
    <3>5. CASE \E r \in Requests, n \in Tokens : IssueToken(r, n)
      <4>1. PICK r \in Requests, n \in Tokens : IssueToken(r, n)
        BY <3>5
      <4>2. t \in Issued \/ t = n
        BY <3>1, <4>1, InsertFacts
      <4> QED
        BY <3>2, <3>3, <4>1, <4>2
    <3> QED
      BY <3>4, <3>5, TokenSteps
  <2>3. ASSUME NEW a \in Requests, NEW s \in Issuing', Answered(a)', Outlives(s, a)'
        PROVE  req'[s].straddled \/ (MayInsert(s)' /\ Overtaken(FamilyOf(s))')
    <3>1. SameCall(a) /\ Answered(a) /\ s \in Requests
      BY <2>1, <2>3 DEF Issuing
    <3>2. CASE SameCall(s) \/ RevokeOld(s)
      <4>1. s \in Issuing
        BY <3>1, <3>2 DEF Issuing, SameCall, RevokeOld, At
      <4> QED
        BY <1>3, <2>3, <3>1, <3>2, <4>1
    <3>3. ~Quiet(s)
      BY DEF Quiet, Issuing
    <3>4. ~SignsIn(s)
      <4> SUFFICES ASSUME SignsIn(s) PROVE FALSE
        OBVIOUS
      <4>1. req[a].user \in Users /\ req[a].pw <= account[req[a].user].pw
        BY <3>1 DEF SessionInv, CallInv, Answered
      <4>2. /\ req'[s].pw = account[req[a].user].pw /\ req'[s].pw < req[a].pw
        BY <2>3, <3>1 DEF SignsIn, Outlives, SameCall
      <4>3. account[req[a].user].pw \in Nat /\ req[a].pw \in Nat
        BY <4>1 DEF SessionInv, TypeOK, Accounts, RequestStates
      <4> QED
        BY <4>1, <4>2, <4>3
    <3>5. CASE Presents(s)
      <4>1. PICK o \in Issued : /\ o = req'[s].token /\ Live(o)
                                /\ req'[s].user = token[o].user
                                /\ req'[s].pw = token[o].pw
        BY <3>5 DEF Presents
      <4>2. PICK g : g = token[o].family /\ g = FamilyOf(s)'
        BY <1>1, <4>1 DEF FamilyOf, SameToken
      <4>3. token[o].user = req[a].user /\ token[o].pw < req[a].pw
        BY <2>3, <3>1, <4>1 DEF Outlives, SameCall
      <4>4. Overtaken(g)
        BY <3>1, <4>1, <4>2, <4>3
           DEF PasswordInv, OldSessionsEndUnlessOvertaken, Answered, Issued
      <4>5. Overtaken(FamilyOf(s))'
        BY <4>2, <4>4, OvertakenStays
      <4>6. req'[s].kind = "rotate"
        BY <3>1, <3>5, CallSteps DEF Presents, CallInv, RotateStages
      <4> QED
        BY <2>3, <4>5, <4>6 DEF MayInsert
    <3> QED
      BY <1>5, <3>1, <3>2, <3>3, <3>4, <3>5, CallSteps DEF Moves
  <2> QED
    BY <2>2, <2>3 DEF PasswordInv
<1> QED
  BY <1>4, <1>5

\* After a password change was answered, a usable session of an earlier password
\* means that a sign-in or rotation had passed its check when the change revoked.
THEOREM OldSessionsEndHolds == Spec => []OldSessionsEndUnlessOvertaken
<1>1. Init => PasswordInv
  BY DEF Init, PasswordInv, OldSessionsEndUnlessOvertaken, Issuing, Idle
<1>2. PasswordInv => OldSessionsEndUnlessOvertaken
  BY DEF PasswordInv
<1> QED
  BY <1>1, <1>2, PasswordStep, SessionInvHolds, PTL DEF Spec

------------------------------------------------------------------------------
(* Refinement: an insert opens or renews a family, anything else ends tokens. *)

OwnerOf(t) == IF t \in Issued
                THEN [user |-> token[t].user, family |-> token[t].family]
                ELSE NoDoc

LEMMA LedgerStep ==
    ASSUME SessionInv, [Next]_vars
    PROVE  [Ledger!Next]_Ledger!vars
<1> DEFINE owner == [t \in Tokens |-> OwnerOf(t)]
           usable == {t \in Tokens : Live(t)}
<1>1. ASSUME TokensKept PROVE Ledger!End
  <2>1. \A t \in Tokens : OwnerOf(t)' = OwnerOf(t) /\ (Live(t)' => Live(t))
    BY <1>1 DEF TokensKept, SameToken, OwnerOf, Live
  <2>2. owner' = owner /\ usable' \subseteq usable
    BY <2>1
  <2> QED
    BY <2>2 DEF Ledger!End, OwnerOf
<1>2. ASSUME NEW r \in Requests, NEW n \in Tokens, IssueToken(r, n)
      PROVE  Ledger!Next
  <2>1. /\ Issued' = Issued \cup {n} /\ n \notin Issued
        /\ token' = [token EXCEPT ![n] = NewDoc(r, n)]
        /\ token'[n] = NewDoc(r, n) /\ n \in Issued'
        /\ \A t \in Tokens \ {n} : token'[t] = token[t]
    BY <1>2, InsertFacts DEF IssueToken, SessionInv, TypeOK
  <2> PICK o : o = [user |-> req[r].user, family |-> token'[n].family]
    OBVIOUS
  <2>2. token'[n].user = req[r].user /\ Live(n)'
    BY <2>1 DEF NewDoc, Live
  <2>3. \A t \in Tokens \ {n} : OwnerOf(t)' = OwnerOf(t) /\ (Live(t)' <=> Live(t))
    BY <2>1 DEF OwnerOf, Live
  <2>4. OwnerOf(n)' = o /\ OwnerOf(n) = NoDoc
    BY <2>1, <2>2 DEF OwnerOf
  <2>5. owner' = [owner EXCEPT ![n] = o] /\ usable' = usable \cup {n}
    BY <2>2, <2>3, <2>4
  <2>6. Ledger!Issue(n, o)
    BY <2>4, <2>5 DEF Ledger!Issue, OwnerOf
  <2>7. req[r].user \in Users
    BY <1>2 DEF SessionInv, CallInv, IssueToken, At
  <2>8. CASE req[r].kind # "rotate"
    <3>1. o = [user |-> req[r].user, family |-> n]
      BY <2>1, <2>8 DEF NewDoc
    <3> QED
      BY <2>6, <2>7, <3>1 DEF Ledger!Next, Ledger!Open
  <2>9. CASE req[r].kind = "rotate"
    <3>1. PICK s \in Issued : /\ s = req[r].token /\ ~Live(s)
                              /\ token[s].user = req[r].user
      BY <1>2, <2>9 DEF SessionInv, CallInv, IssueToken, At, Rotating
    <3>2. s \in Tokens /\ o = OwnerOf(s)
      BY <2>1, <2>9, <3>1 DEF NewDoc, FamilyOf, OwnerOf, Issued
    <3>3. o \in [user : Users, family : Tokens]
      BY <2>1, <2>7, <2>9, <3>1, DocsAreTyped
         DEF SessionInv, NewDoc, FamilyOf, TokenDocs
    <3>4. Ledger!UsedUp(s)
      BY <3>1, <3>2, <3>3, NoDocAssumption DEF Ledger!UsedUp, OwnerOf
    <3>5. Ledger!Issue(n, owner[s])
      <4>1. o = owner[s]
        BY <3>2
      <4> QED
        BY <2>6, <4>1 DEF Ledger!Issue
    <3> QED
      BY <3>2, <3>4, <3>5 DEF Ledger!Next, Ledger!Renew, OwnerOf
  <2> QED
    BY <2>8, <2>9
<1> QED
  BY <1>1, <1>2, TokenSteps DEF Ledger!Next

\* A token has one owner, is usable for one stretch of time, and a family grows
\* only by a token that replaces a used-up member of it.
THEOREM SessionsImplementLedger == Spec => ImplementsLedger
<1>1. Init => Ledger!Init
  BY DEF Init, Ledger!Init, Issued, Live
<1> QED
  BY <1>1, LedgerStep, SessionInvHolds, PTL DEF Spec, ImplementsLedger, Ledger!Spec
==============================================================================
