------------------------------ MODULE Roster ------------------------------
(***************************************************************************)
(* What invitations promise of an organization, every request in one step: *)
(* a person is asked once at a time, and joins as they were asked, in time.*)
(***************************************************************************)
EXTENDS Roles

CONSTANTS People, Founder, InvitedRoles

VARIABLES
    open,   \* the organization exists
    team,   \* team[p]: the role of p, NoRole when not a member
    asked,  \* asked[p]: the role p has been asked to join at, NoRole if not asked
    late    \* those who let the time to answer pass

rvars == <<open, team, asked, late>>

NoRoles == [p \in People |-> NoRole]

Init ==
    /\ open = TRUE
    /\ team = [NoRoles EXCEPT ![Founder] = "owner"]
    /\ asked = NoRoles
    /\ late = {}

\* p, not asked yet, is asked to join.
Ask(p, role) ==
    /\ open
    /\ asked[p] = NoRole
    /\ asked' = [asked EXCEPT ![p] = role]
    /\ UNCHANGED <<open, team, late>>

\* p answers: a member stays what they are.
Join(p) ==
    /\ asked[p] # NoRole /\ p \notin late
    /\ team' = [team EXCEPT ![p] = IF @ = NoRole THEN asked[p] ELSE @]
    /\ asked' = [asked EXCEPT ![p] = NoRole]
    /\ UNCHANGED <<open, late>>

\* The time to answer passes ...
Expire(p) ==
    /\ asked[p] # NoRole
    /\ late' = late \cup {p}
    /\ UNCHANGED <<open, team, asked>>

\* ... and p, who answers after all, is turned down, and may be asked again.
TurnDown(p) ==
    /\ p \in late
    /\ asked' = [asked EXCEPT ![p] = NoRole]
    /\ late' = late \ {p}
    /\ UNCHANGED <<open, team>>

\* p, whoever it is, is a member no more.
Leave(p) ==
    /\ team[p] # NoRole
    /\ team' = [team EXCEPT ![p] = NoRole]
    /\ UNCHANGED <<open, asked, late>>

\* The organization is deleted, and everything with it.
Close ==
    /\ open
    /\ open' = FALSE
    /\ team' = NoRoles /\ asked' = NoRoles /\ late' = {}

Next ==
    \/ \E p \in People, role \in InvitedRoles : Ask(p, role)
    \/ \E p \in People : Join(p) \/ Expire(p) \/ TurnDown(p) \/ Leave(p)
    \/ Close

Spec == Init /\ [][Next]_rvars
=============================================================================
