-------------------------- MODULE MCLeaveApproval --------------------------
(***************************************************************************)
(* A company of three in one unit: an employee (1), the head (2) and HR    *)
(* (3, also the deputy head), with the approval chain of ApprovalChain.    *)
(***************************************************************************)
EXTENDS LeaveApproval, ApprovalChain

MCPeople == 1 .. 3
MCRoleCodes == {"hr", "leave_approver"}
MCReportsTo == [p \in MCPeople |-> 0]

MCNothing == 0
MCUnits == {1}
MCUnitOf == [p \in MCPeople |-> 1]
MCParent == [u \in MCUnits |-> 0]

(* One rule for everybody: the head, then 3, then 1, less the requester.   *)
MCRules ==
  {[id |-> 1, priority |-> 1, order |-> 1, exclude |-> FALSE, cascade |-> FALSE,
    employee |-> 0, unit |-> 0,
    steps |-> <<[position |-> "node_head", person |-> 0],
                [position |-> "person", person |-> 3],
                [position |-> "person", person |-> 1]>>]}
MCRulesNaming == [p \in MCPeople |-> IF p = 2 THEN {} ELSE {1}]

MCPolicy == [mode |-> "hybrid", levels |-> 2]
MCChain(org, e, banned) == Chain(MCPolicy, org, e, banned)

(* A shorter policy for the run about liveness.                            *)
MCShortPolicy == [mode |-> "auto", levels |-> 1]
MCShortChain(org, e, banned) == Chain(MCShortPolicy, org, e, banned)

(* HR asks for leave, and 1 may become HR as well.                         *)
MCRolesForOfHR ==
  <<{{"leave_approver"}, {"hr"}}, {{}, {"leave_approver"}}, {{"leave_approver"}, {"hr"}}>>

MCFirstDays ==
  {[active |-> MCPeople, roles |-> <<{"leave_approver"}, {}, {"hr"}>>,
    head |-> [u \in MCUnits |-> 2], deputy |-> [u \in MCUnits |-> 3],
    away |-> {}, rules |-> {1}]}
MCFirstDaysOfHR ==
  {[org EXCEPT !.roles[2] = {"leave_approver"}] : org \in MCFirstDays}

MCOneDay == {<<1, 1>>}
MCTwoDays == {<<0, 0>>, <<0, 1>>}

MCOwnerHR == [r \in {"r1"} |-> 3]
=============================================================================
