---------------------------- MODULE MCLeaveRace ----------------------------
(***************************************************************************)
(* Person 1 asks for leave; 2 approves first and then 3, who is HR.        *)
(***************************************************************************)
EXTENDS LeaveApprovalRace

MCPeople == 1 .. 3
MCReportsTo == [p \in MCPeople |-> 0]
MCNothing == 0
MCOwner == [r \in {"r1"} |-> 1]
MCSpans == {<<0, 0>>, <<0, 1>>}
MCRolesFor == <<{{"leave_approver"}}, {{"leave_approver"}}, {{"hr"}}>>

MCCompany ==
  [active |-> MCPeople, roles |-> <<{"leave_approver"}, {"leave_approver"}, {"hr"}>>,
   head |-> <<>>, deputy |-> <<>>, away |-> {}, rules |-> {}]

(* Of 2 and 3, in this order, those who are there and not left out; else   *)
(* the requester as HR.                                                    *)
MCChain(org, e, banned) ==
  LET there == SelectSeq(<<2, 3>>, LAMBDA p : p \in org.active \ (banned \cup {e}))
  IN IF there = <<>> /\ e \in Editors(org) THEN <<e>> ELSE there

MCInScope(org, p, e) == TRUE
=============================================================================
