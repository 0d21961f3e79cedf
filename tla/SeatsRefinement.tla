-------------------------- MODULE SeatsRefinement --------------------------
(***************************************************************************)
(* Seats implements Roster with the API's operations: the six statements   *)
(* of an invitation's transaction, among everything else that happens to   *)
(* the organization, come to one step.                                     *)
(***************************************************************************)
EXTENDS Seats

\* The role p is invited at according to the invitation table.
AskedRole(p) == IF PendingFor(p) = {}
                  THEN NoRole
                  ELSE invitation[CHOOSE i \in PendingFor(p) : TRUE].role

Invited == INSTANCE Roster WITH
             open  <- live,
             team  <- role,
             asked <- [p \in People |-> AskedRole(p)],
             late  <- {p \in People : PendingFor(p) \cap overdue # {}}

\* Invitations as a whole (organizations/views.py): a person has one open
\* invitation, joins by it, at its role and in time, or is turned down and can be
\* invited again; nothing else adds a member or an invitation.
RosterSpec == Invited!Spec
=============================================================================
