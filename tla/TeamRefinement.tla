--------------------------- MODULE TeamRefinement ---------------------------
(***************************************************************************)
(* Team implements OrgTeam as long as one worker serves the member and     *)
(* organization requests, while invitations are accepted at any moment.    *)
(* With two workers it does not: the violation runs of Team show how.      *)
(***************************************************************************)
EXTENDS Team

\* The role of u in o according to the membership table.
RoleIn(u, o) == IF RowsOf(u, o) = {}
                  THEN NoRole
                  ELSE member[CHOOSE r \in RowsOf(u, o) : TRUE].role

Matrix == INSTANCE OrgTeam WITH
            status <- org,
            team   <- [o \in Orgs |-> [u \in Users |-> RoleIn(u, o)]]

\* The statement-by-statement handlers implement the permission matrix: the
\* tables only change as somebody's rights allow at that moment, and the last
\* Owner stays.
MatrixSpec == Matrix!Spec

\* ... and that somebody is the caller of the request: what an API request
\* changes is something the matrix lets its caller do, to the organization of
\* its path.
MatrixBindsCaller ==
    [][\A w \in Workers :
          ApiStep(w) /\ tables' # tables
             => Matrix!ActBy(req[w].actor, req[w].org)]_vars
=============================================================================
