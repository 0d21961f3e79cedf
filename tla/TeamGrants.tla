----------------------------- MODULE TeamGrants -----------------------------
(***************************************************************************)
(* Team with the highest rank everybody ever had in every organization, to *)
(* follow a role back to the one who could give it.  The history only      *)
(* observes.                                                               *)
(***************************************************************************)
EXTENDS Team

VARIABLE peak  \* peak[o][u]: the highest rank u ever had in o, 0 for none

gvars == <<vars, peak>>

HigherOf(m, n) == IF m >= n THEN m ELSE n

\* The rank of u in o according to the membership table.
RankIn(u, o) == IF RowsOf(u, o) = {}
                  THEN 0
                  ELSE Rank(member[CHOOSE r \in RowsOf(u, o) : TRUE].role)

NoPeak   == peak = [o \in Orgs |-> [u \in Users |-> 0]]
Remember == peak' = [o \in Orgs |->
                      [u \in Users |-> HigherOf(peak[o][u], RankIn(u, o)')]]

GInit == Init /\ NoPeak
GNext == Next /\ Remember
GSpec == GInit /\ [][GNext]_gvars
-----------------------------------------------------------------------------
\* "No privilege escalation: you can never grant a role higher than your own"
\* (core/rbac.py): a role an API request writes is at most the highest its
\* caller has had in that same organization, though it may be lost since.
NoEscalation ==
    [][\A w \in Workers, r \in Rows :
          ApiStep(w) /\ member'[r] # member[r] /\ Exists(r)'
             => Rank(member'[r].role) <= peak[req[w].org][req[w].actor]]_gvars
=============================================================================
