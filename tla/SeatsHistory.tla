---------------------------- MODULE SeatsHistory ----------------------------
(***************************************************************************)
(* Seats with a count, for every invitation request, of the acceptances    *)
(* that commit between its two counts and that it therefore counts in      *)
(* neither: as a pending invitation no more, as a member not yet.          *)
(***************************************************************************)
EXTENDS Seats

VARIABLES
    slipped,  \* slipped[w]: acceptances between w's two counts
    joined    \* joined[w]: people who joined since w's membership check

hvars == <<vars, slipped, joined>>

HTypeOK ==
    /\ TypeOK
    /\ slipped \in [Workers -> Nat]
    /\ joined \in [Workers -> SUBSET People]

HInit ==
    /\ Init
    /\ slipped = [w \in Workers |-> 0]
    /\ joined = [w \in Workers |-> {}]

HNext ==
    /\ Next
    /\ slipped' = [w \in Workers |->
                     IF pc'[w] = "idle" THEN 0
                     ELSE IF pc[w] = "pending" THEN
                       slipped[w] + Cardinality(Members' \ Members)
                     ELSE slipped[w]]
    /\ joined' = [w \in Workers |->
                    IF pc[w] = "member" \/ pc'[w] = "idle" THEN {}
                    ELSE joined[w] \cup (Members' \ Members)]

HSpec == HInit /\ [][HNext]_hvars
-----------------------------------------------------------------------------
\* The cap is exceeded by no more than the acceptances that slipped between the
\* two counts: under the billing lock, a new invitation brings the seats to at
\* most the cap of the plan in force plus those.
CapSlack ==
    [][\A w \in Workers :
          Creates(w) /\ CapOf(plan) # Unlimited
             => Seats' <= CapOf(plan) + slipped[w]]_hvars

\* A member is invited only if they joined after the request looked for them: the
\* check and the insert are two statements (organizations/views.py), and nothing
\* else slips a member between them.
OnlyNewMembersInvited ==
    [][\A w \in Workers :
          Creates(w) /\ req[w].email \in Members => req[w].email \in joined[w]]_hvars
=============================================================================
