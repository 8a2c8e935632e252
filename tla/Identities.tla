----------------------------- MODULE Identities -----------------------------
(***************************************************************************)
(* Whom an account belongs to: registration, sign-in with a provider and   *)
(* password changes of auth.service.ts, the new address of                 *)
(* user.service.ts, and createAdmin, banUser and deleteUser of             *)
(* admin.service.ts, as far as they find and write emails, identities of   *)
(* providers, passwords and pictures.  The tokens of these calls are in    *)
(* Sessions, the roles in Roles.                                           *)
(*                                                                         *)
(* Accounts and calls are numbered as they come.  A password is named by   *)
(* the call that set it, a picture by the registration that sent it.  All  *)
(* registrations send a file of one name.                                  *)
(***************************************************************************)
EXTENDS Integers, Sequences

CONSTANTS
    Emails,
    Ids,        \* accounts at a provider: provider and providerId
    MaxDocs,    \* bound: accounts in all
    MaxIdCalls, \* bound: calls in all
    Nothing     \* an email, password or document that is not there

ASSUME IdentitiesAssumption ==
    /\ Nothing \notin Emails
    /\ MaxDocs \in Nat \ {0} /\ MaxIdCalls \in Nat

VARIABLES
    doc,        \* the users collection
    temp,       \* the file that multer has stored under the name, 0 for none
    mailed,     \* accounts with a reset token that is valid
    idCall,     \* where each call stands
    \* History
    overlapped, \* identities that two sign-ins have looked up at once
    mixed,      \* registrations that were at the file at once
    crossed,    \* accounts that a call was at while another one deleted them
    disturbed   \* calls whose account another one wrote since they loaded it

idHistory == <<overlapped, mixed, crossed, disturbed>>
idVars == <<doc, temp, mailed, idCall, idHistory>>

Callers == 1..MaxIdCalls
Stored == 1..Len(doc)

\* local: the provider "local" is listed.  by is 0 for a password of the start.
\* version is __v.
UserDocs ==
    [email : Emails \cup {Nothing}, ids : SUBSET Ids, local : BOOLEAN,
     password : [by : {0} \cup Callers, hashed : BOOLEAN] \cup {Nothing},
     avatar : {0} \cup Callers, banned : BOOLEAN, deleted : BOOLEAN, version : Nat]

ASSUME NothingIsNoDocument == Nothing \notin UserDocs

Kinds == {"register", "signIn", "appoint", "rename", "change", "reset", "delete"}
Steps == {"received", "uploading", "uploaded", "creating", "unknown", "linking",
          "verified", "saving", "deleting", "accepted", "ended"}

IdCallStates ==
    [kind : Kinds, step : Steps, email : Emails \cup {Nothing}, id : Ids \cup {Nothing},
     picture : {0} \cup Callers, target : {0} \cup Stored, seen : UserDocs \cup {Nothing}]

IdentitiesTypeOK ==
    /\ doc \in Seq(UserDocs) /\ Len(doc) <= MaxDocs
    /\ temp \in {0} \cup Callers
    /\ mailed \subseteq Stored
    /\ idCall \in Seq(IdCallStates) /\ Len(idCall) <= MaxIdCalls
    /\ overlapped \subseteq Ids /\ crossed \subseteq Stored
    /\ mixed \cup disturbed \subseteq Callers

NewDoc(e, ids, password, avatar) ==
    [email |-> e, ids |-> ids, local |-> password # Nothing, password |-> password,
     avatar |-> avatar, banned |-> FALSE, deleted |-> FALSE, version |-> 0]

\* One account at most is there at the start, by registration or from a provider.
FirstDocs ==
    {NewDoc(e, ids, password, 0) :
        e \in Emails, ids \in SUBSET Ids, password \in {Nothing, [by |-> 0, hashed |-> TRUE]}}

IdentitiesInit ==
    /\ doc \in {<<>>} \cup {<<d>> : d \in {d \in FirstDocs : d.local \/ d.ids # {}}}
    /\ temp = 0 /\ mailed = {} /\ idCall = <<>>
    /\ overlapped = {} /\ mixed = {} /\ crossed = {} /\ disturbed = {}

-----------------------------------------------------------------------------
(* How a call goes on                                                       *)

WithEmail(e) == {a \in Stored : doc[a].email = e}
Shut(d) == d.banned \/ d.deleted
InFlight == {c \in 1..Len(idCall) : idCall[c].step \notin {"accepted", "ended"}}
Stands(c, kinds, step) == idCall[c].kind \in kinds /\ idCall[c].step = step

Begin(kind, step, e, i, a, seen) ==
    /\ Len(idCall) < MaxIdCalls
    /\ idCall' = Append(idCall,
            [kind |-> kind, step |-> step, email |-> e, id |-> i, picture |-> 0,
             target |-> a, seen |-> seen])

Step(c, step) == idCall' = [idCall EXCEPT ![c].step = step]
End(c) == Step(c, "ended")

\* The caller is told that the account with the address has the password.
Accept(c, e, a) ==
    idCall' = [idCall EXCEPT ![c].step = "accepted", ![c].email = e, ![c].target = a]

\* A call of the kind turns to account a: who else is at it, does one of them delete it?
Meet(kind, a) ==
    LET there == {d \in InFlight : idCall[d].target = a}
    IN  crossed' = IF there # {} /\ "delete" \in {kind} \cup {idCall[d].kind : d \in there}
                   THEN crossed \cup {a} ELSE crossed

\* Call c writes account a, whoever else has loaded it.
Write(c, a, d) ==
    /\ doc' = [doc EXCEPT ![a] = d]
    /\ disturbed' = disturbed \cup {b \in 1..Len(idCall) : b # c /\ idCall[b].target = a}

\* A command of the call fails.
FailIdCall(c) ==
    /\ c \in InFlight
    /\ End(c)
    /\ UNCHANGED <<doc, temp, mailed, idHistory>>

-----------------------------------------------------------------------------
(* Registration                                                             *)

\* Mutant of Received: a file that is there is kept.
ReceivedFirst(c) == IF temp = 0 THEN c ELSE temp

\* multer stores the file under the name it has at the client.
Received(c) == c

Register(e) ==
    /\ Begin("register", "received", e, Nothing, 0, Nothing)
    /\ temp' = Received(Len(idCall'))
    /\ LET at == {d \in InFlight : idCall[d].step \in {"received", "uploading", "uploaded"}}
       IN  mixed' = IF at = {} THEN mixed ELSE mixed \cup at \cup {Len(idCall')}
    /\ UNCHANGED <<doc, mailed, overlapped, crossed, disturbed>>

\* An account that has a password is not registered again, and the file stays.
FindToRegister(c) ==
    /\ Stands(c, {"register"}, "received")
    /\ LET e == idCall[c].email IN
       \/ WithEmail(e) = {} /\ Step(c, "uploading") /\ UNCHANGED crossed
       \/ \E a \in WithEmail(e) :
            IF doc[a].password # Nothing THEN End(c) /\ UNCHANGED crossed
            ELSE /\ idCall' = [idCall EXCEPT ![c].step = "linking", ![c].target = a,
                                             ![c].seen = doc[a]]
                 /\ Meet("register", a)
    /\ UNCHANGED <<doc, temp, mailed, overlapped, mixed, disturbed>>

\* Mutant of WithPassword: the provider is not listed.
WithPasswordOnly(d, seen, c) == [d EXCEPT !.password = [by |-> c, hashed |-> seen.local]]

\* The provider is pushed if it was missing, and so the hook hashes the password.
WithPassword(d, seen, c) ==
    [d EXCEPT !.password = [by |-> c, hashed |-> TRUE],
              !.local = @ \/ ~ seen.local,
              !.version = @ + (IF seen.local THEN 0 ELSE 1)]

LinkPassword(c) ==
    /\ Stands(c, {"register"}, "linking")
    /\ LET a == idCall[c].target IN
        /\ Write(c, a, WithPassword(doc[a], idCall[c].seen, c))
        /\ Accept(c, idCall[c].email, a)
    /\ UNCHANGED <<temp, mailed, overlapped, mixed, crossed>>

\* Read by uploadOnCloudinary, which may fail.
Upload(c) ==
    /\ Stands(c, {"register"}, "uploading")
    /\ \E picture \in {temp, 0} :
        idCall' = [idCall EXCEPT ![c].step = "uploaded", ![c].picture = picture]
    /\ UNCHANGED <<doc, temp, mailed, idHistory>>

\* unlinkSync, whether the upload has succeeded or not.
Unlink(c) ==
    /\ Stands(c, {"register"}, "uploaded")
    /\ temp' = 0
    /\ Step(c, IF idCall[c].picture = 0 THEN "ended" ELSE "creating")
    /\ UNCHANGED <<doc, mailed, idHistory>>

-----------------------------------------------------------------------------
(* Sign-in with a provider                                                  *)

\* Mutant of Known: an account that is banned is passed over.
KnownOpen(i) == {a \in Stored : i \in doc[a].ids /\ ~ Shut(doc[a])}

Known(i) == {a \in Stored : i \in doc[a].ids}

\* Signing in with an identity that is known changes nothing here.
SignInWith(i, e) ==
    /\ Known(i) = {}
    /\ Begin("signIn", "unknown", e, i, 0, Nothing)
    /\ overlapped' = IF \E d \in InFlight : idCall[d].id = i
                     THEN overlapped \cup {i} ELSE overlapped
    /\ UNCHANGED <<doc, temp, mailed, mixed, crossed, disturbed>>

FindByEmail(c) ==
    /\ Stands(c, {"signIn"}, "unknown")
    /\ LET k == idCall[c] IN
       \/ WithEmail(k.email) = {} /\ Step(c, "creating") /\ UNCHANGED crossed
       \/ \E a \in WithEmail(k.email) :
            IF Shut(doc[a]) \/ k.id \in doc[a].ids THEN End(c) /\ UNCHANGED crossed
            ELSE /\ idCall' = [idCall EXCEPT ![c].step = "linking", ![c].target = a,
                                             ![c].seen = doc[a]]
                 /\ Meet("signIn", a)
    /\ UNCHANGED <<doc, temp, mailed, overlapped, mixed, disturbed>>

\* A push, whatever became of the account since.
LinkIdentity(c) ==
    /\ Stands(c, {"signIn"}, "linking")
    /\ LET k == idCall[c] IN
        doc' = [doc EXCEPT ![k.target].ids = @ \cup {k.id}, ![k.target].version = @ + 1]
    /\ End(c)
    /\ UNCHANGED <<temp, mailed, idHistory>>

-----------------------------------------------------------------------------
(* New accounts                                                             *)

\* createAdmin.
Appoint(e) ==
    /\ WithEmail(e) = {}
    /\ Begin("appoint", "creating", e, Nothing, 0, Nothing)
    /\ UNCHANGED <<doc, temp, mailed, idHistory>>

\* User.create; the index on email refuses a second account.
Create(c) ==
    /\ Stands(c, {"register", "signIn", "appoint"}, "creating")
    /\ LET k == idCall[c] IN
       \/ WithEmail(k.email) # {} /\ End(c) /\ UNCHANGED doc
       \/ /\ WithEmail(k.email) = {} /\ Len(doc) < MaxDocs
          /\ IF k.kind = "signIn"
             THEN doc' = Append(doc, NewDoc(k.email, {k.id}, Nothing, 0)) /\ End(c)
             ELSE /\ doc' = Append(doc,
                        NewDoc(k.email, {}, [by |-> c, hashed |-> TRUE], k.picture))
                  /\ Accept(c, k.email, Len(doc'))
    /\ UNCHANGED <<temp, mailed, idHistory>>

-----------------------------------------------------------------------------
(* The owner of an account                                                  *)

\* verifyAuth, before a new address or password.
Authenticate(a, kind, e) ==
    /\ ~ Shut(doc[a])
    /\ Begin(kind, "verified", e, Nothing, a, Nothing)
    /\ Meet(kind, a)
    /\ UNCHANGED <<doc, temp, mailed, overlapped, mixed, disturbed>>

\* updateAccountDetails.  What its own look at the address misses, the index refuses.
Rename(c) ==
    /\ Stands(c, {"rename"}, "verified")
    /\ LET k == idCall[c] IN
        IF WithEmail(k.email) \subseteq {k.target}
        THEN Write(c, k.target, [doc[k.target] EXCEPT !.email = k.email])
        ELSE UNCHANGED <<doc, disturbed>>
    /\ End(c)
    /\ UNCHANGED <<temp, mailed, overlapped, mixed, crossed>>

\* comparePassword fails on what is not a hash.
LoadToChange(c) ==
    /\ Stands(c, {"change"}, "verified")
    /\ LET d == doc[idCall[c].target] IN
        IF d.password # Nothing /\ d.password.hashed
        THEN idCall' = [idCall EXCEPT ![c].step = "saving", ![c].seen = d]
        ELSE End(c)
    /\ UNCHANGED <<doc, temp, mailed, idHistory>>

\* forgotPassword; only the last token of an account is valid.
Forgot(a) ==
    /\ doc[a].email # Nothing
    /\ mailed' = mailed \cup {a}
    /\ UNCHANGED <<doc, temp, idCall, idHistory>>

\* After ten minutes, or when the mail could not be sent.
Lapse(a) ==
    /\ a \in mailed
    /\ mailed' = mailed \ {a}
    /\ UNCHANGED <<doc, temp, idCall, idHistory>>

LoadToReset(a) ==
    /\ a \in mailed
    /\ Begin("reset", "saving", doc[a].email, Nothing, a, doc[a])
    /\ Meet("reset", a)
    /\ UNCHANGED <<doc, temp, mailed, overlapped, mixed, disturbed>>

\* Mutant of Hashed.
HashedNever(seen) == FALSE

\* The hook of user.model.ts hashes the password of an account that lists "local".
Hashed(seen) == seen.local

\* changePassword and resetPassword; the tokens are revoked afterwards, which may fail.
SavePassword(c) ==
    /\ Stands(c, {"change", "reset"}, "saving")
    /\ LET k == idCall[c] IN
        /\ Write(c, k.target,
                 [doc[k.target] EXCEPT !.password = [by |-> c, hashed |-> Hashed(k.seen)]])
        /\ mailed' = IF k.kind = "reset" THEN mailed \ {k.target} ELSE mailed
        /\ Accept(c, k.seen.email, k.target) \/ End(c)
    /\ UNCHANGED <<temp, overlapped, mixed, crossed>>

-----------------------------------------------------------------------------
(* Administration                                                           *)

\* banUser and unbanUser load the account and set the one field.
Ban(a) ==
    /\ ~ doc[a].deleted
    /\ Write(0, a, [doc[a] EXCEPT !.banned = ~ @])
    /\ UNCHANGED <<temp, mailed, idCall, overlapped, mixed, crossed>>

LoadToDelete(a) ==
    /\ ~ doc[a].deleted
    /\ Begin("delete", "deleting", Nothing, Nothing, a, doc[a])
    /\ Meet("delete", a)
    /\ UNCHANGED <<doc, temp, mailed, overlapped, mixed, disturbed>>

\* Mutant of Forgotten: the providers stay.
ForgottenInPart(d) ==
    [d EXCEPT !.email = Nothing, !.avatar = 0, !.banned = TRUE, !.deleted = TRUE]

\* deleteUser; the password and the reset token stay.
Forgotten(d) ==
    [d EXCEPT !.email = Nothing, !.ids = {}, !.local = FALSE, !.avatar = 0,
              !.banned = TRUE, !.deleted = TRUE, !.version = @ + 1]

\* The list of providers is replaced, which names its version.
SaveDeletion(c) ==
    /\ Stands(c, {"delete"}, "deleting")
    /\ LET k == idCall[c] IN
        IF doc[k.target].version = k.seen.version
        THEN Write(c, k.target, Forgotten(doc[k.target]))
        ELSE UNCHANGED <<doc, disturbed>>
    /\ End(c)
    /\ UNCHANGED <<temp, mailed, overlapped, mixed, crossed>>

IdentitiesNext ==
    \/ \E c \in InFlight :
        \/ FindToRegister(c) \/ LinkPassword(c) \/ Upload(c) \/ Unlink(c)
        \/ FindByEmail(c) \/ LinkIdentity(c) \/ Create(c)
        \/ Rename(c) \/ LoadToChange(c) \/ SavePassword(c) \/ SaveDeletion(c)
        \/ FailIdCall(c)
    \/ \E e \in Emails :
        \/ Register(e) \/ Appoint(e)
        \/ \E i \in Ids : SignInWith(i, e)
        \/ \E a \in Stored : Authenticate(a, "rename", e)
    \/ \E a \in Stored :
        \/ Authenticate(a, "change", Nothing)
        \/ Forgot(a) \/ Lapse(a) \/ LoadToReset(a) \/ Ban(a) \/ LoadToDelete(a)

IdentitiesSpec == IdentitiesInit /\ [][IdentitiesNext]_idVars

-----------------------------------------------------------------------------
(* Properties                                                               *)

\* oauthLogin: although nothing but its look-up keeps two accounts from listing one
\* identity, they do so only when two sign-ins with it were under way at once.
IdentityIsOnes ==
    \A a, b \in Stored : a # b => doc[a].ids \cap doc[b].ids \subseteq overlapped

\* deleteUser: no address and no identity leads to a deleted account, so that its owner
\* can register again; unless a call was at the account while it was deleted.
DeletedLetsGo ==
    \A a \in Stored : doc[a].deleted /\ a \notin crossed =>
        doc[a].email = Nothing /\ doc[a].ids = {} /\ ~ doc[a].local

\* registerUser: although every file has the name it had at the client, and is left
\* behind when a registration is refused, an account gets the picture of another one
\* only when two registrations were at the file at once.
PictureIsOwn == \A c \in 1..Len(idCall) : idCall[c].picture \in {0, c} \/ c \in mixed

\* What the calls that look an account up and write it later keep true of all accounts.
IdentitiesConsistent ==
    /\ IdentitiesTypeOK
    /\ IdentityIsOnes
    /\ DeletedLetsGo
    /\ PictureIsOwn

\* loginUser.
CanSignIn(e, c) ==
    \E a \in WithEmail(e) :
        ~ Shut(doc[a]) /\ doc[a].password = [by |-> c, hashed |-> TRUE]

\* registerUser, createAdmin, changePassword, resetPassword: whoever is told that an
\* account has the password he gave can sign in with it, until another call writes the
\* account, even one that overlapped.  Unless the account was shut when it was loaded,
\* or is one of a provider whose password was reset: that is stored as it is.
PasswordsWork ==
    \A c \in 1..Len(idCall) : idCall[c].step = "accepted" /\ c \notin disturbed =>
        \/ CanSignIn(idCall[c].email, c)
        \/ /\ idCall[c].seen # Nothing
           /\ \/ Shut(idCall[c].seen)
              \/ idCall[c].kind = "reset" /\ ~ idCall[c].seen.local
=============================================================================
