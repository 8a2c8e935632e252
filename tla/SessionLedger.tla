--------------------------- MODULE SessionLedger ----------------------------
(***************************************************************************)
(* What refresh tokens promise, with no mention of requests or documents:  *)
(* a token belongs for good to one user and to one family, it is usable    *)
(* for one stretch of time and never again afterwards, and a family grows  *)
(* only by a token that replaces a used-up member of it.                   *)
(***************************************************************************)
EXTENDS Integers

CONSTANTS Users, Tokens, NoOwner

VARIABLES
    owner,      \* the user and the family of each token, NoOwner before issue
    usable      \* the tokens that can be exchanged

vars == <<owner, usable>>

Owners == [user : Users, family : Tokens]

UsedUp(t) == owner[t] # NoOwner /\ t \notin usable

Init == owner = [t \in Tokens |-> NoOwner] /\ usable = {}

Issue(t, o) ==
    /\ owner[t] = NoOwner
    /\ owner' = [owner EXCEPT ![t] = o]
    /\ usable' = usable \cup {t}

\* A sign-in opens a family named by its first token.
Open(t) == \E u \in Users : Issue(t, [user |-> u, family |-> t])

\* An exchange replaces a token that cannot be used any more.
Renew(s, t) == UsedUp(s) /\ Issue(t, owner[s])

\* Tokens end, by use, by expiry or because somebody revoked them.
End == usable' \subseteq usable /\ UNCHANGED owner

Next == \/ \E t \in Tokens : Open(t)
        \/ \E s, t \in Tokens : Renew(s, t)
        \/ End

Spec == Init /\ [][Next]_vars
==============================================================================
