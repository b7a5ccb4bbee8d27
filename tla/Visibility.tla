----------------------------- MODULE Visibility -----------------------------
(***************************************************************************)
(* Whose schedule somebody sees, and whose they may change.  Two walks of  *)
(* the same tree: get_visible_employee_ids gathers what the units somebody *)
(* belongs to, leads or was granted let them see; managed_employee_ids     *)
(* gathers the teams they lead.  The grid a planner has open was read      *)
(* before the company changed: clearing it is judged when it is sent.      *)
(***************************************************************************)
EXTENDS Naturals, FiniteSets

CONSTANTS Teams,    \* the units of the company
          Members,  \* the employees
          NoTeam, Nobody,
          MostChanges  \* bound on the changes of the company

ASSUME VisibilityAssumption ==
    /\ NoTeam \notin Teams /\ Nobody \notin Members
    /\ IsFiniteSet(Teams) /\ MostChanges \in Nat

VARIABLES under,    \* under[t]: the unit t is part of
          running,  \* the units that are active
          leads,    \* leads[t]: its head or deputy
          base,     \* base[e]: the unit of e, users.org_node_id
          also,     \* also[e]: the other units e belongs to, user_org_nodes
          hired,    \* the employees whose account is active
          sight,    \* sight[t]: the visibility mode of a unit, or "inherit"
          standard, \* the mode of the company
          grant,    \* grant[e][t]: "none", "alone", or "below": with the units under t
          asks,     \* asks[e]: who an approver rule in force names to approve e's leave
          planners, \* the employees with a role that schedules everyone
          page,     \* page[e]: the rows the grid e has open lets them change
          cleared,  \* who cleared whose shifts last
          changes   \* the changes of the company so far

visibilityVars == <<under, running, leads, base, also, hired, sight, standard, grant,
                    asks, planners, page, cleared, changes>>

Modes == {"own_node", "own_and_children", "own_and_parent", "all"}
Nothing == [by |-> Nobody, of |-> {}]

VisibilityTypeOK ==
    /\ under \in [Teams -> Teams \union {NoTeam}]
    /\ running \subseteq Teams
    /\ leads \in [Teams -> Members \union {Nobody}]
    /\ base \in [Members -> Teams \union {NoTeam}]
    /\ also \in [Members -> SUBSET Teams]
    /\ hired \subseteq Members
    /\ sight \in [Teams -> Modes \union {"inherit"}]
    /\ standard \in Modes
    /\ grant \in [Members -> [Teams -> {"none", "alone", "below"}]]
    /\ asks \in [Members -> Members \union {Nobody}]
    /\ planners \subseteq Members
    /\ page \in [Members -> SUBSET Members]
    /\ cleared \in [by : Members \union {Nobody}, of : SUBSET Members]
    /\ changes \in 0..MostChanges

\* _get_descendant_node_ids: layer by layer, into active units only.
Below(teams) ==
    LET reach[n \in Nat] == IF n = 0 THEN teams
                            ELSE reach[n - 1] \union
                                 {t \in running : under[t] \in reach[n - 1]}
    IN reach[Cardinality(Teams)]

\* A member belongs by the home unit or by any other row; a leaver by none.
MembersOf(teams) == {e \in hired : base[e] \in teams \/ also[e] \cap teams # {}}

TeamsOf(e) == also[e] \union ({base[e]} \ {NoTeam})
LedBy(e) == {t \in running : leads[t] = e}

\* _effective_node_visibility: the nearest unit above that sets a mode, else the
\* company's.
ModeOf(t) ==
    LET from[n \in 0..Cardinality(Teams), v \in Teams \union {NoTeam}] ==
            IF v = NoTeam \/ n = 0 THEN standard
            ELSE IF sight[v] # "inherit" THEN sight[v] ELSE from[n - 1, under[v]]
    IN from[Cardinality(Teams), t]

\* The units whose members belonging to t shows.
Around(t) == CASE ModeOf(t) = "own_and_children" -> Below({t})
               [] ModeOf(t) = "own_and_parent" -> {t, under[t]} \ {NoTeam}
               [] OTHER -> {t}

GrantedTo(e) == {t \in Teams : grant[e][t] # "none"}
                    \union Below({t \in Teams : grant[e][t] = "below"})

SeesEveryone(e) == e \in planners \/ \E t \in TeamsOf(e) : ModeOf(t) = "all"

Visible(e) ==
    IF SeesEveryone(e) THEN Members
    ELSE {e} \union {x \in Members : asks[x] = e}
             \union MembersOf(Below(LedBy(e)) \union GrantedTo(e)
                                   \union UNION {Around(t) : t \in TeamsOf(e)})

Managed(e) == IF e \in planners THEN Members ELSE {e} \union MembersOf(Below(LedBy(e)))

\* Every unit hangs from the top.
Hung(f) == \A loop \in (SUBSET Teams) \ {{}} : \E t \in loop : f[t] \notin loop

\* A company with its units in any order under each other, before anybody is
\* put in one.
VisibilityInit ==
    /\ under \in {f \in [Teams -> Teams \union {NoTeam}] : Hung(f)}
    /\ running = Teams
    /\ leads = [t \in Teams |-> Nobody]
    /\ base = [e \in Members |-> NoTeam]
    /\ also = [e \in Members |-> {}]
    /\ hired = Members
    /\ sight = [t \in Teams |-> "inherit"]
    /\ standard = "own_node"
    /\ grant = [e \in Members |-> [t \in Teams |-> "none"]]
    /\ asks = [e \in Members |-> Nobody]
    /\ planners = {}
    /\ page = [e \in Members |-> {}]
    /\ cleared = Nothing
    /\ changes = 0

\* The organization page and the employee forms, a change of one row each.
Reorganize ==
    /\ changes < MostChanges
    /\ changes' = changes + 1
    /\ \/ \E t \in Teams, v \in Teams \union {NoTeam} :
              /\ v # under[t] /\ Hung([under EXCEPT ![t] = v])
              /\ under' = [under EXCEPT ![t] = v]
              /\ UNCHANGED <<running, leads, base, also, hired, sight, standard, grant, planners>>
       \/ \E t \in Teams :
              /\ running' = IF t \in running THEN running \ {t} ELSE running \union {t}
              /\ UNCHANGED <<under, leads, base, also, hired, sight, standard, grant, planners>>
       \/ \E t \in Teams, e \in hired \union {Nobody} :
              /\ e # leads[t]
              /\ leads' = [leads EXCEPT ![t] = e]
              /\ UNCHANGED <<under, running, base, also, hired, sight, standard, grant, planners>>
       \/ \E e \in Members, t \in running \union {NoTeam} :
              /\ t # base[e]
              /\ base' = [base EXCEPT ![e] = t]
              /\ UNCHANGED <<under, running, leads, also, hired, sight, standard, grant, planners>>
       \/ \E e \in Members, t \in Teams :
              /\ also' = [also EXCEPT ![e] = IF t \in @ THEN @ \ {t} ELSE @ \union {t}]
              /\ UNCHANGED <<under, running, leads, base, hired, sight, standard, grant, planners>>
    /\ UNCHANGED <<asks, page, cleared>>

\* Somebody leaves, and leads no unit any more, or comes back, or is given or
\* loses a role that schedules everyone.
ChangeStaff ==
    /\ changes < MostChanges
    /\ changes' = changes + 1
    /\ \E e \in Members :
          \/ /\ hired' = IF e \in hired THEN hired \ {e} ELSE hired \union {e}
             /\ leads' = [t \in Teams |-> IF leads[t] \in hired' THEN leads[t] ELSE Nobody]
             /\ UNCHANGED planners
          \/ /\ planners' = IF e \in planners THEN planners \ {e} ELSE planners \union {e}
             /\ UNCHANGED <<hired, leads>>
    /\ UNCHANGED <<under, running, base, also, sight, standard, grant, asks, page, cleared>>

\* The visibility mode of a unit or of the company, and the grants: creating one
\* that exists sets its descendants flag.
SetSight ==
    /\ changes < MostChanges
    /\ changes' = changes + 1
    /\ \/ \E t \in Teams, mode \in Modes \union {"inherit"} :
              /\ mode # sight[t]
              /\ sight' = [sight EXCEPT ![t] = mode]
              /\ UNCHANGED <<standard, grant>>
       \/ \E mode \in Modes \ {standard} :
              /\ standard' = mode
              /\ UNCHANGED <<sight, grant>>
       \/ \E e \in Members, t \in Teams, reach \in {"none", "alone", "below"} :
              /\ reach # grant[e][t]
              /\ grant' = [grant EXCEPT ![e][t] = reach]
              /\ UNCHANGED <<sight, standard>>
    /\ UNCHANGED <<under, running, leads, base, also, hired, asks, planners, page, cleared>>

\* A rule that names an approver for one employee is written, or switched off.
NameApprover ==
    /\ changes < MostChanges
    /\ changes' = changes + 1
    /\ \E e \in Members, by \in hired \union {Nobody} :
          /\ by \notin {e, asks[e]}
          /\ asks' = [asks EXCEPT ![e] = by]
    /\ UNCHANGED <<under, running, leads, base, also, hired, sight, standard, grant,
                   planners, page, cleared>>

\* GET /grid for the company or a unit and those below it: the active employees
\* e sees, by the home unit only; can_manage marks the rows e may change.
ReadGrid(e) ==
    /\ e \in hired
    /\ \E t \in Teams \union {NoTeam} :
          LET rows == {x \in hired \cap Visible(e) : t # NoTeam => base[x] \in Below({t})}
          IN page' = [page EXCEPT ![e] = rows \cap Managed(e)]
    /\ UNCHANGED <<under, running, leads, base, also, hired, sight, standard, grant,
                   asks, planners, cleared, changes>>

\* A slip: a bulk operation covers whom its sender can see.
ScopeSeen(e, wanted) == wanted \subseteq Visible(e)

\* scope_employee_ids: one employee outside the teams e manages refuses it all.
InScope(e, wanted) == wanted \subseteq Managed(e)

\* bulk_delete_shifts of rows the page shows, as it was read, or of anybody the
\* sender names.
Clear(e) ==
    /\ e \in hired
    /\ \E wanted \in {page[e]} \union {{x} : x \in Members} :
          /\ wanted # {} /\ InScope(e, wanted)
          /\ cleared' = [by |-> e, of |-> wanted]
    /\ UNCHANGED <<under, running, leads, base, also, hired, sight, standard, grant,
                   asks, planners, page, changes>>

VisibilityNext ==
    \/ Reorganize
    \/ ChangeStaff
    \/ SetSight
    \/ NameApprover
    \/ \E e \in Members : ReadGrid(e) \/ Clear(e)

VisibilitySpec == VisibilityInit /\ [][VisibilityNext]_visibilityVars

-----------------------------------------------------------------------------
\* x works for e: every set of units that holds the ones e leads and, with a
\* unit, the active ones under it holds one of x's.
WorksFor(x, e) ==
    \/ x = e
    \/ e \in planners
    \/ /\ x \in hired
       /\ \A ruled \in SUBSET Teams :
             (/\ LedBy(e) \subseteq ruled
              /\ \A t \in running : under[t] \in ruled => t \in ruled)
                => TeamsOf(x) \cap ruled # {}

\* Whoever somebody may act on they can also see, so that no bulk operation
\* changes a row its sender was not shown, and nobody's shifts are cleared by
\* somebody they do not work for when it is done, whatever page was open.
OnlyOwnPeopleAreChanged ==
    /\ [](VisibilityTypeOK /\ \A e \in hired : Managed(e) \subseteq Visible(e))
    /\ [][cleared' # cleared => \A x \in cleared'.of : WorksFor(x, cleared'.by)]_visibilityVars
=============================================================================
