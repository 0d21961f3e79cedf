---------------------------- MODULE TeamHistory ----------------------------
(***************************************************************************)
(* Team with what it takes to say why an organization kept or lost its     *)
(* owner: which organizations ever had two, and which requests now act on  *)
(* owners read before someone else changed them.                           *)
(* The history only observes: every step of Next is a step of HNext.       *)
(***************************************************************************)
EXTENDS Team

VARIABLES
    shared,  \* organizations that have had two Owners at once
    stale    \* stale[w]: the owners of w's organization changed since it
             \* read its target

hvars == <<vars, shared, stale>>

HTypeOK ==
    /\ TypeOK
    /\ shared \subseteq Orgs
    /\ stale \in [Workers -> BOOLEAN]

HInit ==
    /\ Init
    /\ shared = {}
    /\ stale = [w \in Workers |-> FALSE]

\* Two rows of the organization are Owners.
TwoOwners(o) == \E r1, r2 \in Owners(o) : r1 # r2

HNext ==
    /\ Next
    /\ shared' = shared \cup {o \in Orgs : TwoOwners(o)'}
    /\ stale' = [w \in Workers |->
                   /\ pc'[w] # "idle"
                   /\ \/ stale[w]
                      \/ /\ target[w] # None
                         /\ Owners(target[w].org)' # Owners(target[w].org)]

HSpec == HInit /\ [][HNext]_hvars
-----------------------------------------------------------------------------
\* An organization that never had two Owners at once keeps the one it has,
\* whatever the workers interleave: the unlocked counts of is_last_owner and
\* Membership.delete can only be passed by an organization with two.
SoleOwnerKept ==
    \A o \in Orgs : org[o] = "live" /\ o \notin shared => Owners(o) # {}

\* A step that leaves live organization o without Owners.
Orphaning(o) == /\ org[o] = "live" /\ org'[o] = "live"
                /\ Owners(o) # {} /\ Owners(o)' = {}

\* Worker w runs the last statement of a request on a membership of o.
LastStatement(w, o) == /\ pc[w] = "write" /\ pc'[w] = "idle"
                       /\ req[w].row # None /\ target[w].org = o

OrphanedByStaleWrite ==
    \A o \in Orgs :
        Orphaning(o) => \E w \in Workers : stale[w] /\ LastStatement(w, o)

\* Only a request that acts on a stale read orphans an organization: a step
\* that leaves a live organization without Owners is the last statement of a
\* request during which somebody else changed that organization's Owners.
OnlyStaleWritesOrphan == [][OrphanedByStaleWrite]_hvars
-----------------------------------------------------------------------------
(* The inductive invariant behind the two properties above, for the        *)
(* operations of GuardedOps.                                               *)

\* Rows belong to live organizations, and two Owners are remembered.
TablesInv ==
    /\ \A r \in Rows : Exists(r) => org[member[r].org] = "live"
    /\ \A o \in Orgs : TwoOwners(o) => o \in shared

\* The row of the target a worker holds may have changed its role or be gone,
\* but never moves to another organization.
TargetsInv ==
    \A w \in Workers :
        Holding(w) =>
           /\ member[req[w].row] # Unissued
           /\ org[target[w].org] # "unissued"
           /\ Exists(req[w].row) => member[req[w].row].org = target[w].org
           /\ req[w].op # "adminDelete" => req[w].org = target[w].org
           /\ \A v \in Workers : Holding(v) /\ req[v].row = req[w].row
                                  => target[v].org = target[w].org

\* Worker w is about to take away the Owner role of its row, if it has it.
Unseating(w) == /\ pc[w] = "write"
                /\ req[w].row # None
                /\ req[w].role # "owner"

\* In an organization that never had two Owners, no such row has it.
UnseatingInv ==
    \A w \in Workers :
        Unseating(w) /\ target[w].org \notin shared
           => req[w].row \notin Owners(target[w].org)

\* While nobody changes the Owners, such a row is not the only one.
FreshInv ==
    \A w \in Workers :
        Unseating(w) /\ ~stale[w] /\ req[w].row \in Owners(target[w].org)
           => TwoOwners(target[w].org)

GuardInv ==
    /\ HTypeOK /\ Serving /\ TablesInv /\ TargetsInv
    /\ UnseatingInv /\ FreshInv /\ SoleOwnerKept
=============================================================================
