---------------------------- MODULE MCOverdrawn ----------------------------
(***************************************************************************)
(* Two requests for leave of two types, under a policy that refuses what   *)
(* the balance does not hold and credits leave by the month: what an edit  *)
(* does to a balance.                                                      *)
(***************************************************************************)
EXTENDS LeaveBalances

Strict == [check \in {"balance", "notice", "longest", "overlap", "documents"} |-> "block"]
MCTerms ==
  {[pool |-> "per_type", accrual |-> "monthly", pooled |-> 0, notice |-> 0, longest |-> 4,
    documents |-> FALSE, mode |-> Strict]}
MCSpells == {[from |-> 1, to |-> 1, half |-> TRUE], [from |-> 1, to |-> 3, half |-> FALSE]}
=============================================================================
