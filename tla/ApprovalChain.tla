--------------------------- MODULE ApprovalChain ---------------------------
(***************************************************************************)
(* How an approval chain is resolved                                       *)
(* (LeaveApprovalService.resolve_approval_chain and everything it calls).  *)
(* Pure: a policy, a company, an employee and a set of people to leave out *)
(* give a sequence of approvers.                                           *)
(***************************************************************************)
EXTENDS LeaveAccess, Lists, Sequences, FiniteSets, SequencesExt

CONSTANTS
  NoUnit,     \* NULL
  UnitOf,     \* users.org_node_id
  Parent,     \* org_nodes.parent_id
  OpenUnits,  \* the units whose is_active is set
  RuleBook    \* approver rules, see RuleShape

Positions == {"node_head", "node_deputy", "parent_head", "parent_deputy"}

(* A rule's scope is an employee, a unit (and with cascade its sub-units)  *)
(* or, with neither, everyone. Each step names a person or a position.     *)
RuleShape ==
  [id : Nat, priority : Nat, order : Nat, exclude : BOOLEAN, cascade : BOOLEAN,
   employee : People \cup {NoOne}, unit : Units \cup {NoUnit},
   steps : Seq([position : Positions \cup {"person"}, person : People \cup {NoOne}])]

ASSUME ChainAssumption ==
  /\ IsFiniteSet(Units) /\ IsFiniteSet(RuleBook)
  /\ UnitOf \in [People -> Units \cup {NoUnit}]
  /\ Parent \in [Units -> Units \cup {NoUnit}]
  /\ NoUnit \notin Units
  /\ OpenUnits \subseteq Units
  /\ RuleBook \subseteq RuleShape
  /\ \A r, s \in RuleBook : r.id = s.id => r = s

-----------------------------------------------------------------------------
(* The units from u upwards, nearest first. The walk stops at a unit it    *)
(* has already seen, so a cycle in parent_id ends it too.                  *)
UnitsUp(u) ==
  LET up[k \in 0 .. Cardinality(Units)] ==
        IF k = 0 THEN u
        ELSE IF up[k-1] = NoUnit THEN NoUnit ELSE Parent[up[k-1]]
      fresh(k) == up[k] # NoUnit /\ \A j \in 0 .. k-1 : up[j] # up[k]
      steps == {k \in 0 .. Cardinality(Units) : \A j \in 0 .. k : fresh(j)}
  IN [i \in 1 .. Cardinality(steps) |-> up[i-1]]

Ancestors(u) == ToSet(UnitsUp(u)) \ {u}

(* access_scope.managed_employee_ids: everyone for HR, else the members of *)
(* the units one heads or deputises and of their sub-units.                *)
Manages(org, p, e) ==
  \/ "hr" \in org.roles[p]
  \/ p = e
  \/ \E u \in OpenUnits \cap ToSet(UnitsUp(UnitOf[e])) :
       p \in {org.head[u], org.deputy[u]}

FirstFilled(ranked) ==
  LET filled == {k \in DOMAIN ranked : ranked[k] # {}}
  IN IF filled = {} THEN NoOne ELSE CHOOSE p \in ranked[Least(filled)] : TRUE

(* A slip: nobody looks who is away. *)
HeadOrDeputy(org, u, requester) ==
  FirstFilled(<<{org.head[u]} \cap org.active,
                ({org.deputy[u]} \ {requester}) \cap org.active>>)

(* _unit_approver: the head, or the deputy standing in for a head who is   *)
(* missing, inactive or away. The requester is never their own deputy.     *)
UnitApprover(org, u, requester) ==
  LET head   == {org.head[u]} \cap org.active
      deputy == ({org.deputy[u]} \ {requester}) \cap org.active
  IN FirstFilled(<<head \ org.away, deputy \ org.away, head, deputy>>)

Known(candidates) == Kept(candidates, {i \in DOMAIN candidates : candidates[i] # NoOne})

(* _resolve_auto. A unit the requester heads is passed over.               *)
PathApprover(org, u, e) ==
  IF u \in OpenUnits /\ org.head[u] # e THEN UnitApprover(org, u, e) ELSE NoOne

AutoCandidates(org, e) ==
  LET approvers(path) == [i \in DOMAIN path |-> PathApprover(org, path[i], e)]
  IN Known(approvers(UnitsUp(UnitOf[e])))

-----------------------------------------------------------------------------
(* match_rule: how specific a rule is for e; 4 when it does not apply.     *)
Specificity(rule, e) ==
  CASE rule.employee # NoOne -> IF rule.employee = e THEN 0 ELSE 4
    [] rule.employee = NoOne /\ rule.unit = NoUnit -> 3
    [] OTHER -> IF rule.unit = UnitOf[e] THEN 1
                ELSE IF rule.cascade /\ rule.unit \in Ancestors(UnitOf[e]) THEN 2
                ELSE 4

Matching(org, e) ==
  {r \in RuleBook : r.id \in org.rules /\ Specificity(r, e) < 4}

Beats(r, s, e) ==
  \/ r.priority < s.priority
  \/ r.priority = s.priority /\ Specificity(r, e) < Specificity(s, e)
  \/ /\ r.priority = s.priority
     /\ Specificity(r, e) = Specificity(s, e)
     /\ r.id <= s.id

Winner(org, e) ==
  CHOOSE r \in Matching(org, e) : \A s \in Matching(org, e) : Beats(r, s, e)

Scope(rule) ==
  <<rule.employee, rule.unit, rule.unit # NoUnit /\ rule.cascade>>

(* _resolve_approver_role. The unit a position refers to is the rule's,    *)
(* else the employee's.                                                    *)
Holder(org, rule, position, e) ==
  LET ref == IF rule.unit # NoUnit THEN rule.unit
             ELSE IF rule.employee # NoOne THEN UnitOf[rule.employee]
             ELSE UnitOf[e]
      target == IF position \in {"node_head", "node_deputy"} \/ ref = NoUnit
                THEN ref ELSE Parent[ref]
  IN IF target = NoUnit THEN NoOne
     ELSE IF position \in {"node_head", "parent_head"}
          THEN UnitApprover(org, target, e)
     ELSE IF org.deputy[target] \in org.active THEN org.deputy[target]
     ELSE NoOne

StepApprover(org, rule, step, e) ==
  IF step.position \in Positions THEN Holder(org, rule, step.position, e)
  ELSE IF step.person \in org.active THEN step.person ELSE NoOne

(* _resolve_manual: the winner's steps, with those of the rules of the     *)
(* same scope and priority merged in by (rule order, step order, rule id). *)
Group(org, e, top) ==
  {r \in Matching(org, e) :
     r.priority = top.priority /\ Scope(r) = Scope(top) /\ ~r.exclude}

Slots(group) == UNION {{[rule |-> r, at |-> i] : i \in DOMAIN r.steps} : r \in group}

SlotBefore(s, t) ==
  \/ s.rule.order < t.rule.order
  \/ s.rule.order = t.rule.order /\ s.at < t.at
  \/ s.rule.order = t.rule.order /\ s.at = t.at /\ s.rule.id < t.rule.id

SlotsInOrder(slots) ==
  CHOOSE q \in [1 .. Cardinality(slots) -> slots] :
    \A i, j \in DOMAIN q : i < j => SlotBefore(q[i], q[j])

SlotApprovers(org, e, slots) ==
  [k \in DOMAIN slots |->
     StepApprover(org, slots[k].rule, slots[k].rule.steps[slots[k].at], e)]

ManualCandidates(org, e) ==
  IF Matching(org, e) = {} \/ Winner(org, e).exclude THEN <<>>
  ELSE Known(SlotApprovers(org, e, SlotsInOrder(Slots(Group(org, e, Winner(org, e))))))

-----------------------------------------------------------------------------
(* A slip: whoever appears again is kept again. *)
CleanWithRepeats(org, candidates, exclude) ==
  Kept(candidates, {i \in DOMAIN candidates : candidates[i] \in org.active \ exclude})

(* _clean: active, not left out, first appearance only.                    *)
Clean(org, candidates, exclude) ==
  LET keeps(i) == /\ candidates[i] \in org.active \ exclude
                  /\ \A j \in 1 .. i-1 : candidates[j] # candidates[i]
  IN Kept(candidates, {i \in DOMAIN candidates : keeps(i)})

(* A policy is [mode, levels], or NoPolicy for an employee without one.    *)
NoPolicy == [mode |-> "none", levels |-> 1]

Candidates(policy, org, e) ==
  CASE policy.mode = "manual" -> ManualCandidates(org, e)
    [] policy.mode = "hybrid" -> ManualCandidates(org, e) \o AutoCandidates(org, e)
    [] OTHER                  -> AutoCandidates(org, e)

AtMost(s, n) == SubSeq(s, 1, IF Len(s) < n THEN Len(s) ELSE n)

(* Nobody left: the fallback, any other editor, the requester, nobody.     *)
LastResort(org, e, fallback, others) ==
  CASE fallback # NoOne -> <<fallback>>
    [] fallback = NoOne /\ others # {} -> <<FirstEditor(org, others)>>
    [] fallback = NoOne /\ others = {} /\ e \in Editors(org) -> <<e>>
    [] OTHER -> <<>>

OrLastResort(chain, org, e, banned) ==
  IF chain # <<>> THEN chain
  ELSE LastResort(org, e, Fallback(org, e, banned),
                  Editors(org) \ (banned \cup {e}))

(* resolve_approval_chain. *)
Chain(policy, org, e, banned) ==
  OrLastResort(
    AtMost(Clean(org, Candidates(policy, org, e), banned \cup {e}), policy.levels),
    org, e, banned)
=============================================================================
