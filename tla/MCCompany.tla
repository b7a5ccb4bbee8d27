----------------------------- MODULE MCCompany -----------------------------
(***************************************************************************)
(* The company behind a leave request: its organization chart, approver    *)
(* rules, what its people see of the roster, the approval chains that come *)
(* of it all, and the balances and rules of leave. The five share no       *)
(* variable here, so a behaviour is about one of them, `subject`, and the  *)
(* others stay as they began: but for its own chains the company is empty. *)
(*                                                                         *)
(* The chains are those of employee 1 in a company that changes step by    *)
(* step: people leave, go on leave, are appointed and given roles, and     *)
(* approver rules are switched on and off. Unit 1, the employee's, is      *)
(* inside unit 2.                                                          *)
(***************************************************************************)
EXTENDS Company, OrgTree, ApproverRules, Visibility, LeaveBalances

MCPeople == 1 .. 4
MCRoleCodes == {"hr", "leave_approver", "editor"}
MCReportsTo == <<2, 0, 0, 0>>
MCNothing == 0
MCUnits == {1, 2}
MCUnitOf == <<1, 1, 2, 2>>
MCParent == <<2, 0>>

MCStep(position, person) == [position |-> position, person |-> person]
MCRule(id, priority, scope, cascade, steps) ==
  [id |-> id, priority |-> priority, order |-> 1, exclude |-> FALSE,
   cascade |-> cascade, employee |-> 0, unit |-> scope, steps |-> steps]

(* A default rule that is more urgent than a rule of the parent unit with  *)
(* its sub-units, and a second default rule written the old way.           *)
MCRules ==
  {MCRule(1, 1, 0, FALSE, <<MCStep("person", 4), MCStep("parent_head", 0)>>),
   MCRule(2, 2, 2, TRUE, <<MCStep("node_deputy", 0), MCStep("person", 2)>>),
   MCRule(3, 1, 0, FALSE, <<MCStep("person", 3)>>)}

MCWays ==
  [mode : {"auto", "manual", "hybrid"}, levels : {1, 3}] \cup {NoPolicy}
MCLeftOut == {{}, {2}, {2, 4}}
MCAtFirst ==
  [active |-> MCPeople, roles |-> <<{}, {}, {}, {"hr"}>>, head |-> <<2, 3>>,
   deputy |-> <<3, 4>>, away |-> {}, rules |-> {1, 2, 3}]
MCChanges ==
  [leave |-> {2, 3, 4}, away |-> {2, 3}, head |-> {1} \X {0, 1, 2}, deputy |-> {1} \X {0, 1, 3},
   roles |-> {1, 3} \X {{}, {"editor"}}]

(* A leave policy that stops whatever breaks a rule and credits leave by   *)
(* the month, and a pooled one that only warns of overlaps.                *)
Strict == [check \in {"balance", "notice", "longest", "overlap", "documents"} |-> "block"]
MCTerms ==
  {[pool |-> "per_type", accrual |-> "monthly", pooled |-> 0, notice |-> 0, longest |-> 4,
    documents |-> FALSE, mode |-> Strict],
   [pool |-> "shared", accrual |-> "annual", pooled |-> 2, notice |-> 0, longest |-> 0,
    documents |-> FALSE, mode |-> [Strict EXCEPT !["overlap"] = "warn"]]}
MCSpells == {[from |-> 1, to |-> 1, half |-> TRUE], [from |-> 1, to |-> 3, half |-> FALSE]}

VARIABLES subject

Init ==
  /\ subject \in {"chains", "chart", "rules", "sight", "balances"}
  /\ org = IF subject = "chains" THEN AtFirst ELSE [AtFirst EXCEPT !.active = {}]
  /\ OrgInit /\ RuleInit /\ VisibilityInit /\ BalanceInit
  /\ subject # "sight" => under = [t \in Teams |-> NoTeam]

Next ==
  /\ UNCHANGED subject
  /\ \/ subject = "chains" /\ CompanyNext
        /\ UNCHANGED <<orgVars, ruleVars, visibilityVars, balanceVars>>
     \/ subject = "chart" /\ OrgNext
        /\ UNCHANGED <<org, ruleVars, visibilityVars, balanceVars>>
     \/ subject = "rules" /\ RuleNext
        /\ UNCHANGED <<org, orgVars, visibilityVars, balanceVars>>
     \/ subject = "sight" /\ VisibilityNext
        /\ UNCHANGED <<org, orgVars, ruleVars, balanceVars>>
     \/ subject = "balances" /\ BalanceNext
        /\ UNCHANGED <<org, orgVars, ruleVars, visibilityVars>>

Spec == Init /\ [][Next]_<<org, orgVars, ruleVars, visibilityVars, balanceVars, subject>>

(* Leave types are alike, and requests.                                    *)
Alike == Permutations(Types) \cup Permutations(Requests)
=============================================================================
