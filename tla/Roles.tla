------------------------------- MODULE Roles --------------------------------
(***************************************************************************)
(* Administration of accounts: changeRole, revokeAdmin, createAdmin and    *)
(* deleteUser of admin.service.ts, behind the superadmin routes of         *)
(* admin.routes.ts.  A call reads its requester (verifyAuth), its target   *)
(* and the number of superadmins one after another, then saves the target. *)
(***************************************************************************)
EXTENDS Integers, FiniteSets

CONSTANTS
    Accounts,
    Seeded,     \* the superadmins at the start
    Registered, \* the users at the start
    RoleCalls,  \* slots of concurrent calls
    MaxCalls,   \* bound: calls in all
    None

ASSUME RolesAssumption ==
    /\ Seeded \subseteq Accounts
    /\ Registered \subseteq Accounts \ Seeded
    /\ None \notin Accounts
    /\ MaxCalls \in Nat

VARIABLES
    role,       \* the role of each account, "none" if it does not exist
    deleted,    \* accounts with isDeleted
    roleCall,
    calls,      \* how many were made
    late        \* history: a call saved after its requester had ceased to be a superadmin

accountVars == <<role, deleted, roleCall, late>>
roleVars == <<accountVars, calls>>

Granted == {"user", "admin", "superadmin"}

\* to is the new role, "none" for a deletion; was the role of the target as it was
\* loaded, "none" before.
RoleCallStates ==
    [step : {"verified", "counting", "saving"}, by : Accounts, target : Accounts,
     to : Granted \cup {"none"}, was : Granted \cup {"none"}, revoking : BOOLEAN]

RolesTypeOK ==
    /\ role \in [Accounts -> Granted \cup {"none"}]
    /\ deleted \subseteq Accounts
    /\ roleCall \in [RoleCalls -> RoleCallStates \cup {None}]
    /\ calls \in 0..MaxCalls
    /\ late \in BOOLEAN

Superadmins == {a \in Accounts : role[a] = "superadmin" /\ a \notin deleted}
Existing == {a \in Accounts : role[a] # "none" /\ a \notin deleted}

RolesInit ==
    /\ role = [a \in Accounts |-> IF a \in Seeded THEN "superadmin"
                                  ELSE IF a \in Registered THEN "user" ELSE "none"]
    /\ deleted = {}
    /\ roleCall = [c \in RoleCalls |-> None]
    /\ calls = 0
    /\ late = FALSE

-----------------------------------------------------------------------------

\* Mutant of MayTarget.
MayTargetAnyone(by, target) == by \in Superadmins

\* isSuperAdmin of the routes, and nobody targets themselves.
MayTarget(by, target) == by \in Superadmins /\ by # target

\* changeRole, revokeAdmin (to "user") and deleteUser (to "none") begin.
Request(c, by, target, to, revoking) ==
    /\ roleCall[c] = None
    /\ calls < MaxCalls
    /\ MayTarget(by, target)
    /\ revoking => to = "user"
    /\ calls' = calls + 1
    /\ roleCall' = [roleCall EXCEPT ![c] =
            [step |-> "verified", by |-> by, target |-> target, to |-> to,
             was |-> "none", revoking |-> revoking]]
    /\ UNCHANGED <<role, deleted, late>>

\* Only a superadmin who would lose the role is counted, and a deletion is not.
LoadTarget(c) ==
    /\ roleCall[c] # None /\ roleCall[c].step = "verified"
    /\ LET k == roleCall[c]
           found == /\ k.target \in Existing
                    /\ k.revoking => role[k.target] \in {"admin", "superadmin"}
           counted == role[k.target] = "superadmin" /\ k.to \notin {"superadmin", "none"}
       IN roleCall' = [roleCall EXCEPT ![c] =
              IF ~ found THEN None
              ELSE [k EXCEPT !.step = IF counted THEN "counting" ELSE "saving",
                             !.was = role[k.target]]]
    /\ UNCHANGED <<role, deleted, calls, late>>

CountSuperadmins(c) ==
    /\ roleCall[c] # None /\ roleCall[c].step = "counting"
    /\ roleCall' = [roleCall EXCEPT ![c] =
            IF Cardinality(Superadmins) <= 1 THEN None ELSE [@ EXCEPT !.step = "saving"]]
    /\ UNCHANGED <<role, deleted, calls, late>>

\* The save sends the one field that changed: no role that the copy had already.
SaveTarget(c) ==
    /\ roleCall[c] # None /\ roleCall[c].step = "saving"
    /\ LET k == roleCall[c] IN
       /\ role' = IF k.to \in {"none", k.was} THEN role ELSE [role EXCEPT ![k.target] = k.to]
       /\ deleted' = IF k.to = "none" THEN deleted \cup {k.target} ELSE deleted
       /\ late' = (late \/ k.by \notin Superadmins)
    /\ roleCall' = [roleCall EXCEPT ![c] = None]
    /\ UNCHANGED calls

CreateAdmin(by, a, r) ==
    /\ calls < MaxCalls
    /\ by \in Superadmins
    /\ role[a] = "none"
    /\ r \in {"admin", "superadmin"}
    /\ role' = [role EXCEPT ![a] = r]
    /\ calls' = calls + 1
    /\ UNCHANGED <<deleted, roleCall, late>>

RolesNext ==
    \/ \E c \in RoleCalls :
        \/ \E by, target \in Accounts, to \in Granted \cup {"none"} :
            \E revoking \in BOOLEAN : Request(c, by, target, to, revoking)
        \/ LoadTarget(c)
        \/ CountSuperadmins(c)
        \/ SaveTarget(c)
    \/ \E by, a \in Accounts, r \in Granted : CreateAdmin(by, a, r)

-----------------------------------------------------------------------------

\* The platform is left without a superadmin only when a call went on after its
\* requester had lost the role: two superadmins who remove each other.  Neither
\* the count, which is read before the save, nor the routes see that.
SuperadminsGoneOnlyLate == Superadmins = {} => late
=============================================================================
