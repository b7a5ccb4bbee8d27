--------------------------- MODULE ApproverRules ---------------------------
(***************************************************************************)
(* The list of approval rules as administrators edit it: whom a rule is    *)
(* about, who approves under it and in which order, and how it is switched *)
(* off when its unit is deleted or one of its approvers leaves.  Which     *)
(* rule decides a request is the approval chain's matter.                  *)
(***************************************************************************)
EXTENDS Naturals, Sequences, FiniteSets, SequencesExt

CONSTANTS
    RuleIds,
    Staff,         \* employees; any of them may approve
    OrgUnits,
    RulePositions,     \* approvers by position in the unit: node_head, ...
    Everybody,     \* the scope of a rule about the whole company
    LongestChain,  \* bound on the steps of a rule
    LastPlace      \* bound on priority

ASSUME RuleAssumption ==
    /\ Everybody \notin Staff \union OrgUnits
    /\ Staff \cap OrgUnits = {} /\ Staff \cap RulePositions = {}
    /\ IsFiniteSet(RuleIds) /\ LongestChain \in Nat /\ LastPlace \in Nat /\ Cardinality(RuleIds) <= LastPlace

VARIABLES
    approverRule,   \* approverRule[r]: the row of leave_approver_assignments
    units,          \* the units there are
    employed,       \* the active accounts
    reviewers,      \* who holds a reviewer role
    chosen          \* history: the scope an administrator last gave a rule

ruleVars == <<approverRule, units, employed, reviewers, chosen>>

NoRule == [there |-> FALSE, scope |-> Everybody, steps |-> <<>>, place |-> 0,
           cascade |-> FALSE, exclude |-> FALSE, on |-> FALSE, reason |-> FALSE]

RuleRow == [there : BOOLEAN, scope : Staff \union OrgUnits \union {Everybody},
            steps : Seq(Staff \union RulePositions), place : 0..LastPlace,
            cascade : BOOLEAN, exclude : BOOLEAN, on : BOOLEAN, reason : BOOLEAN]

RuleTypeOK ==
    /\ approverRule \in [RuleIds -> RuleRow]
    /\ chosen \in [RuleIds -> Staff \union OrgUnits \union {Everybody}]
    /\ \A r \in RuleIds :
          /\ approverRule[r].scope \in Staff \union units \union {Everybody}
          /\ approverRule[r].cascade => approverRule[r].scope \in units
          /\ approverRule[r].exclude => approverRule[r].scope \in Staff
    /\ reviewers \subseteq Staff /\ employed \subseteq Staff /\ units \subseteq OrgUnits

RuleInit ==
    /\ approverRule = [r \in RuleIds |-> NoRule]
    /\ units = OrgUnits
    /\ employed = Staff
    /\ reviewers = {}
    /\ chosen = [r \in RuleIds |-> Everybody]

-----------------------------------------------------------------------------
Listed == {r \in RuleIds : approverRule[r].there}
Scopes == employed \union units \union {Everybody}
Chains == UNION {{s \in [1..n -> Staff \union RulePositions] : IsInjective(s)} : n \in 1..LongestChain}

\* _write_steps: people who work here, each once, and not about themselves.
Writable(steps, scope) ==
    \A i \in DOMAIN steps : steps[i] \in RulePositions \/ (steps[i] \in employed /\ steps[i] # scope)

\* Whoever a step names may review leave from now on.
Named(steps) == ToSet(steps) \cap Staff

\* New rules go to the bottom of the list.
Bottom == 1 + (IF Listed = {} THEN 0
               ELSE CHOOSE n \in 0..LastPlace : /\ \E r \in Listed : approverRule[r].place = n
                                                /\ \A r \in Listed : approverRule[r].place <= n)

CreateRule(r, scope, steps, cascade, exclude) ==
    LET excluded == exclude /\ scope \in Staff
    IN /\ ~approverRule[r].there
       /\ Bottom <= LastPlace
       /\ exclude \/ steps # <<>>
       /\ ~excluded => Writable(steps, scope)
       /\ approverRule' = [approverRule EXCEPT ![r] =
             [there |-> TRUE, scope |-> scope, steps |-> IF excluded THEN <<>> ELSE steps,
              place |-> Bottom, cascade |-> cascade /\ scope \in OrgUnits,
              exclude |-> excluded, on |-> TRUE, reason |-> FALSE]]
       /\ reviewers' = reviewers \union (IF excluded THEN {} ELSE Named(steps))
       /\ chosen' = [chosen EXCEPT ![r] = scope]
       /\ UNCHANGED <<units, employed>>

\* The rule as update_approver_assignment rescopes it, before its flags.
Rescoped(row, scope) ==
    [row EXCEPT !.scope = scope,
                !.cascade = @ /\ scope \in OrgUnits,
                !.exclude = @ /\ scope \in Staff]

\* A rule the system switched off, and that is about nobody in particular, is
\* switched on again only together with a choice of whom it is about.
MayBeSwitchedOn(row, rescoped) == row.reason => row.scope # Everybody \/ rescoped

\* A slip: the rule is saved without looking at what is left of it.
SavedAnyhow(row, sent, steps) == TRUE

\* Without new steps a rule needs the ones it has.
Saved(row, sent, steps) == row.exclude \/ (IF sent THEN steps # <<>> ELSE row.steps # <<>>)

\* A payload may name a scope, switch the rule, and replace its steps, each or
\* none of them.
UpdateRule(r, rescope, scope, exclude, cascade, switch, on, sent, steps) ==
    LET moved == IF rescope THEN Rescoped(approverRule[r], scope) ELSE approverRule[r]
        row == [moved EXCEPT !.exclude = exclude /\ moved.scope \in Staff,
                             !.cascade = cascade /\ moved.scope \in OrgUnits,
                             !.on = IF switch THEN on ELSE @,
                             !.reason = @ /\ ~(switch /\ on)]
    IN /\ approverRule[r].there
       /\ (switch /\ on) => MayBeSwitchedOn(moved, rescope)
       /\ Saved(row, sent, steps)
       /\ (sent /\ ~row.exclude) => Writable(steps, row.scope)
       /\ approverRule' = [approverRule EXCEPT ![r] =
             [row EXCEPT !.steps = IF row.exclude THEN <<>> ELSE IF sent THEN steps ELSE @]]
       /\ reviewers' = reviewers \union (IF sent /\ ~row.exclude THEN Named(steps) ELSE {})
       /\ chosen' = [chosen EXCEPT ![r] = IF rescope THEN scope ELSE @]
       /\ UNCHANGED <<units, employed>>

DeleteRule(r) ==
    /\ approverRule[r].there
    /\ approverRule' = [approverRule EXCEPT ![r] = NoRule]
    /\ chosen' = [chosen EXCEPT ![r] = Everybody]
    /\ UNCHANGED <<units, employed, reviewers>>

\* reorder_approver_assignments: a rule that is not in the list keeps its place.
Reorder(list) ==
    /\ approverRule' = [r \in RuleIds |->
          IF approverRule[r].there /\ r \in ToSet(list)
          THEN [approverRule[r] EXCEPT !.place = CHOOSE i \in DOMAIN list : list[i] = r]
          ELSE approverRule[r]]
    /\ UNCHANGED <<units, employed, reviewers, chosen>>

\* delete_node: left attached, the rule would be deleted with the unit.
UnitDeleted(u) ==
    /\ u \in units
    /\ units' = units \ {u}
    /\ approverRule' = [r \in RuleIds |->
          IF approverRule[r].there /\ approverRule[r].scope = u
          THEN [approverRule[r] EXCEPT !.scope = Everybody, !.cascade = FALSE,
                                       !.on = FALSE, !.reason = TRUE]
          ELSE approverRule[r]]
    /\ UNCHANGED <<employed, reviewers, chosen>>

\* handle_separation: the rules that name them and are on.
ApproverLeft(p) ==
    /\ p \in employed
    /\ employed' = employed \ {p}
    /\ approverRule' = [r \in RuleIds |->
          IF approverRule[r].on /\ p \in ToSet(approverRule[r].steps)
          THEN [approverRule[r] EXCEPT !.on = FALSE, !.reason = TRUE]
          ELSE approverRule[r]]
    /\ UNCHANGED <<units, reviewers, chosen>>

ApproverReturned(p) ==
    /\ p \notin employed
    /\ employed' = employed \union {p}
    /\ UNCHANGED <<approverRule, units, reviewers, chosen>>

-----------------------------------------------------------------------------
RuleNext ==
    \/ \E r \in RuleIds, scope \in Scopes, steps \in Chains \union {<<>>}, cascade, exclude \in BOOLEAN :
          CreateRule(r, scope, steps, cascade, exclude)
    \/ \E r \in RuleIds, rescope \in BOOLEAN, scope \in Scopes, exclude, cascade \in BOOLEAN,
          switch, on, sent \in BOOLEAN, steps \in Chains \union {<<>>} :
          UpdateRule(r, rescope, scope, exclude, cascade, switch, on, sent, steps)
    \/ \E r \in RuleIds : DeleteRule(r)
    \/ \E list \in {s \in [1..Cardinality(RuleIds) -> RuleIds] : IsInjective(s)} : Reorder(list)
    \/ \E u \in OrgUnits : UnitDeleted(u)
    \/ \E p \in Staff : ApproverLeft(p) \/ ApproverReturned(p)

RuleSpec == RuleInit /\ [][RuleNext]_ruleVars
-----------------------------------------------------------------------------
(* A rule in force is about exactly those an administrator last chose: a   *)
(* rule that lost its unit never comes to cover the whole company by being *)
(* switched on.                                                            *)
RulesCoverWhomTheyWereGiven ==
    \A r \in Listed : approverRule[r].on => approverRule[r].scope = chosen[r]

(* However a rule is rescoped, switched, exempted and emptied, one that     *)
(* exempted somebody or named an approver still does, and the people it    *)
(* names may review leave.  (A rule created with exclude for no employee   *)
(* names nobody from the start.)                                           *)
Decides(r) == approverRule[r].exclude \/ approverRule[r].steps # <<>>
RulesGoOnDeciding ==
    [][\A r \in RuleIds :
          (Decides(r) /\ approverRule'[r].there) =>
              /\ Decides(r)'
              /\ ToSet(approverRule'[r].steps) \cap Staff \subseteq reviewers']_ruleVars

(* An approver rule goes on deciding for those it was given, by whom it    *)
(* names.                                                                  *)
RulesStayMeant ==
    [](RuleTypeOK /\ RulesCoverWhomTheyWereGiven) /\ RulesGoOnDeciding
=============================================================================
