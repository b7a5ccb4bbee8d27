------------------------------ MODULE OrgTree ------------------------------
(***************************************************************************)
(* The organization page: the levels of a company, its tree of units, who  *)
(* leads a unit, who belongs to it, and what happens to all of that when a *)
(* unit is deleted or a person leaves.  A person's unit is written twice,  *)
(* in users.org_node_id (home) and as the primary row of user_org_nodes    *)
(* (row); the employee form and the organization page both write it.       *)
(***************************************************************************)
EXTENDS Naturals, FiniteSets, SequencesExt

CONSTANTS Levels, OrgNodes, Persons, Posts, Rules, NoLevel, NoOrgNode, NoPerson

ASSUME OrgAssumption ==
    /\ NoLevel \notin Levels /\ NoOrgNode \notin OrgNodes /\ NoPerson \notin Persons
    /\ IsFiniteSet(Levels)

VARIABLES number,   \* number[l]: the place of a level, 0 when it does not exist
          unit,     \* unit[u]: the row of org_nodes
          home,     \* home[p]: users.org_node_id
          row,      \* row[p][u]: the row of user_org_nodes
          present,  \* the people whose account is active
          rule      \* rule[r]: an approver rule or a policy rule scoped to units

orgVars == <<number, unit, home, row, present, rule>>

NoNode == [there |-> FALSE, level |-> NoLevel, parent |-> NoOrgNode,
           led |-> [q \in Posts |-> NoPerson]]

Node == [there : BOOLEAN, level : Levels \union {NoLevel}, parent : OrgNodes \union {NoOrgNode},
         led : [Posts -> Persons \union {NoPerson}]]

OrgTypeOK ==
    /\ number \in [Levels -> 0..Cardinality(Levels)]
    /\ unit \in [OrgNodes -> Node]
    /\ home \in [Persons -> OrgNodes \union {NoOrgNode}]
    /\ row \in [Persons -> [OrgNodes -> {"none", "primary", "secondary"}]]
    /\ present \subseteq Persons
    /\ rule \in [Rules -> [scope : SUBSET OrgNodes, on : BOOLEAN]]

Nodes == {u \in OrgNodes : unit[u].there}
Children(u) == {v \in Nodes : unit[v].parent = u}
Depth(u) == number[unit[u].level]

OrgInit ==
    /\ number = [l \in Levels |-> 0]
    /\ unit = [u \in OrgNodes |-> NoNode]
    /\ home = [p \in Persons |-> NoOrgNode]
    /\ row = [p \in Persons |-> [u \in OrgNodes |-> "none"]]
    /\ present = Persons
    /\ rule = [r \in Rules |-> [scope |-> {}, on |-> FALSE]]

\* The level a payload does not name goes, and only when no unit uses it; the
\* named ones are numbered in the payload's order, whatever they were before.
SetLevels ==
    \E wanted \in UNION {[1..n -> Levels] : n \in 1..Cardinality(Levels)} :
        /\ IsInjective(wanted)
        /\ \A u \in Nodes : unit[u].level \in ToSet(wanted)
        /\ number' = [l \in Levels |-> IF l \in ToSet(wanted)
                                       THEN CHOOSE i \in DOMAIN wanted : wanted[i] = l
                                       ELSE 0]
        /\ UNCHANGED <<unit, home, row, present, rule>>

\* _check_person: a head or a deputy is somebody who works here.
MayLead(led) == \A q \in Posts : led[q] \in present \union {NoPerson}

\* A unit sits under one of a higher level; only the first level stands alone.
Fits(level, parent) ==
    IF parent = NoOrgNode THEN number[level] = 1
                       ELSE parent \in Nodes /\ Depth(parent) < number[level]

CreateNode(u) ==
    /\ ~unit[u].there
    /\ \E l \in Levels, parent \in Nodes \union {NoOrgNode},
          led \in [Posts -> Persons \union {NoPerson}] :
        /\ number[l] > 0
        /\ Fits(l, parent)
        /\ MayLead(led)
        /\ unit' = [unit EXCEPT ![u] = [there |-> TRUE, level |-> l, parent |-> parent,
                                        led |-> led]]
    /\ UNCHANGED <<number, home, row, present, rule>>

\* Everything a walk from u towards the top meets: whatever is in every set that
\* has u and, with a unit, the one above it.
Above(u) ==
    {v \in OrgNodes : \A met \in SUBSET OrgNodes :
        (u \in met /\ \A w \in met : unit[w].parent \in met \union {NoOrgNode}) => v \in met}

\* A slip: the level rule is taken to keep units from being moved under
\* themselves.
MoveByLevel(u) ==
    /\ unit[u].there
    /\ \E parent \in Nodes \union {NoOrgNode} :
        /\ parent # unit[u].parent => Fits(unit[u].level, parent)
        /\ unit' = [unit EXCEPT ![u].parent = parent]
    /\ UNCHANGED <<number, home, row, present, rule>>

UpdateNode(u) ==
    /\ unit[u].there
    /\ \E parent \in Nodes \union {NoOrgNode}, led \in [Posts -> Persons \union {NoPerson}] :
        /\ parent # unit[u].parent => /\ parent # NoOrgNode => u \notin Above(parent)
                                      /\ Fits(unit[u].level, parent)
        /\ MayLead(led)
        /\ unit' = [unit EXCEPT ![u].parent = parent, ![u].led = led]
    /\ UNCHANGED <<number, home, row, present, rule>>

\* assign_members: the old primary row goes, a row of the new unit is promoted.
\* The employee form does the same through set_org_unit, for units that are not
\* closed only; choosing no unit there calls unassign_members without the unit,
\* an error that changes nothing.
Joined(rows, old, u) == [v \in OrgNodes |-> IF v = u THEN "primary"
                                         ELSE IF v = old /\ rows[v] = "primary" THEN "none"
                                         ELSE rows[v]]

AssignMember(p, u) ==
    /\ unit[u].there
    /\ home' = [home EXCEPT ![p] = u]
    /\ row' = [row EXCEPT ![p] = Joined(row[p], home[p], u)]
    /\ UNCHANGED <<number, unit, present, rule>>

Left(rows, u) == [rows EXCEPT ![u] = IF @ = "primary" THEN "none" ELSE @]

UnassignMember(p, u) ==
    /\ home[p] = u
    /\ home' = [home EXCEPT ![p] = NoOrgNode]
    /\ row' = [row EXCEPT ![p] = Left(row[p], u)]
    /\ UNCHANGED <<number, unit, present, rule>>

AssignSecondaryMember(p, u) ==
    /\ unit[u].there /\ home[p] # u /\ row[p][u] = "none"
    /\ row' = [row EXCEPT ![p][u] = "secondary"]
    /\ UNCHANGED <<number, unit, home, present, rule>>

RemoveSecondaryMember(p, u) ==
    /\ row[p][u] = "secondary"
    /\ row' = [row EXCEPT ![p][u] = "none"]
    /\ UNCHANGED <<number, unit, home, present, rule>>

\* What the deleted unit's parent inherits: a member's primary row, and a
\* secondary row unless the person has one there already.
Inherited(p, u, parent) ==
    LET moved == IF home[p] = u
                 THEN IF parent = NoOrgNode THEN Left(row[p], u) ELSE Joined(row[p], u, parent)
                 ELSE row[p]
    IN [v \in OrgNodes |-> IF v = u THEN "none"
                        ELSE IF v = parent /\ moved[v] = "none" THEN moved[u]
                        ELSE moved[v]]

DeleteNode(u) ==
    LET parent == unit[u].parent IN
    /\ unit[u].there
    /\ Children(u) # {} => parent # NoOrgNode
    /\ unit' = [v \in OrgNodes |-> IF v = u THEN NoNode
                                ELSE IF v \in Children(u) THEN [unit[v] EXCEPT !.parent = parent]
                                ELSE unit[v]]
    /\ home' = [p \in Persons |-> IF home[p] = u THEN parent ELSE home[p]]
    /\ row' = [p \in Persons |-> Inherited(p, u, parent)]
    /\ rule' = [r \in Rules |-> [scope |-> rule[r].scope \ {u},
                                 on |-> rule[r].on /\ rule[r].scope # {u}]]
    /\ UNCHANGED <<number, present>>

\* An approver rule names one unit, a policy rule any number of them.
WriteRule(r) ==
    /\ \E scope \in (SUBSET Nodes) \ {{}} : rule' = [rule EXCEPT ![r] = [scope |-> scope, on |-> TRUE]]
    /\ UNCHANGED <<number, unit, home, row, present>>

Separated(p) ==
    /\ p \in present
    /\ present' = present \ {p}
    /\ unit' = [u \in OrgNodes |-> [unit[u] EXCEPT !.led =
                   [q \in Posts |-> IF @[q] = p THEN NoPerson ELSE @[q]]]]
    /\ UNCHANGED <<number, home, row, rule>>

Reinstated(p) ==
    /\ p \notin present
    /\ present' = present \union {p}
    /\ UNCHANGED <<number, unit, home, row, rule>>

OrgNext ==
    \/ SetLevels
    \/ \E u \in OrgNodes : CreateNode(u) \/ UpdateNode(u) \/ DeleteNode(u)
    \/ \E p \in Persons, u \in OrgNodes : \/ AssignMember(p, u)
                                      \/ UnassignMember(p, u)
                                      \/ AssignSecondaryMember(p, u)
                                      \/ RemoveSecondaryMember(p, u)
    \/ \E r \in Rules : WriteRule(r)
    \/ \E p \in Persons : Separated(p) \/ Reinstated(p)

OrgSpec == OrgInit /\ [][OrgNext]_orgVars
-----------------------------------------------------------------------------
\* Every unit hangs from the top of the tree: following parents never goes in
\* a circle and never leaves the tree.  The level rule alone does not give
\* this, because saving the levels in another order checks no unit.
EveryUnitHangsFromTheTop ==
    \A u \in Nodes :
        /\ number[unit[u].level] > 0
        /\ Above(u) \subseteq Nodes
        /\ \E top \in Above(u) : unit[top].parent = NoOrgNode

\* set_org_unit's promise: users.org_node_id and the primary membership row
\* never disagree, and nobody is a member of a unit that is gone.
MembershipsAgree ==
    \A p \in Persons, u \in OrgNodes :
        /\ (row[p][u] = "primary") <=> (home[p] = u)
        /\ row[p][u] # "none" => u \in Nodes

\* A unit is led by people who work here: leaving empties the posts, and
\* coming back does not bring them back.
LeadersWorkHere ==
    \A u \in Nodes, q \in Posts : unit[u].led[q] \in present \union {NoPerson}

\* Deleting a unit loses nothing but the unit: its people and its sub-units
\* are its parent's, and a rule that is on still covers only what it covered.
DeletingLosesNothing ==
    [][\A u \in Nodes \ Nodes' :
          LET parent == unit[u].parent IN
          /\ Nodes' = Nodes \ {u}
          /\ \A v \in Children(u) : unit'[v].parent = parent
          /\ parent # NoOrgNode =>
                 \A p \in Persons : row[p][u] # "none" => row'[p][parent] # "none"
          /\ \A r \in Rules : rule'[r].on => rule'[r].scope # {}]_orgVars

\* Whatever is moved, renumbered, deleted or left, the chart stays a tree
\* of units that are led by and made of people who work here.
TheChartStaysWhole ==
    /\ [](OrgTypeOK /\ EveryUnitHangsFromTheTop /\ MembershipsAgree /\ LeadersWorkHere)
    /\ DeletingLosesNothing
=============================================================================
