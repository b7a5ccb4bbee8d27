---------------------------- MODULE LeaveAccess ----------------------------
(***************************************************************************)
(* Who may act on leave (backend/app/services/leave_access.py), and the    *)
(* last-resort approver that several callers share.                        *)
(*                                                                         *)
(* The company is one record `org`, read and never written here:           *)
(*   active   the users whose account is active (users.is_active)          *)
(*   roles    user -> the codes of the roles the user holds                *)
(*   head, deputy   unit -> its head / deputy head, or NoOne               *)
(*   away     the users who are on approved leave today                    *)
(*   rules    the ids of the approver rules that are switched on           *)
(* User ids are the integers of the database, so "the first" is the least. *)
(***************************************************************************)
EXTENDS Integers, Sequences

CONSTANTS
  People,     \* user ids
  NoOne,      \* the NULL user id
  RoleCodes,  \* role codes: "hr", "leave_approver" and the tenant's others
  EditRoles,  \* the codes whose matrix row ticks leave:edit
  Units,      \* org_nodes.id
  ReportsTo   \* users.reports_to_id

ASSUME AccessAssumption ==
  /\ People \subseteq Nat
  /\ NoOne \notin People
  /\ {"hr", "leave_approver"} \subseteq RoleCodes
  /\ EditRoles \subseteq RoleCodes
  /\ ReportsTo \in [People -> People \cup {NoOne}]

(* REVIEWER_ROLE_CODES; "manager" is one more code of RoleCodes if used.   *)
ReviewerRoles == {"hr", "manager", "leave_approver"}

Editors(org) == {p \in org.active : org.roles[p] \cap EditRoles # {}}

(* leave_editors(full_scope_only=True): the rows kept are those of a full- *)
(* scope role that itself ticks leave:edit.                                *)
FullScopeEditors(org) ==
  {p \in org.active : "hr" \in org.roles[p] \cap EditRoles}

Least(S) == CHOOSE p \in S : \A q \in S : p <= q

(* The first row of leave_editors: HR before anyone else, then by id.      *)
FirstEditor(org, S) ==
  IF S \cap FullScopeEditors(org) # {}
  THEN Least(S \cap FullScopeEditors(org))
  ELSE Least(S)

(* Slips: the new approver is made HR; or given nothing.                   *)
WithRoleHR(roles, S) ==
  [p \in People |-> IF p \in S /\ roles[p] \cap ReviewerRoles = {}
                    THEN roles[p] \cup {"hr"} ELSE roles[p]]
WithNoRole(roles, S) == roles

(* ensure_reviewer_role for everyone in S.                                 *)
WithReviewerRole(roles, S) ==
  [p \in People |-> IF p \in S /\ roles[p] \cap ReviewerRoles = {}
                    THEN roles[p] \cup {"leave_approver"}
                    ELSE roles[p]]

(* _resolve_fallback: the line manager, else the first full-scope editor.  *)
Fallback(org, e, banned) ==
  LET manager == ReportsTo[e]
      others  == FullScopeEditors(org) \ (banned \cup {e})
  IN IF manager \in org.active \ (banned \cup {e}) THEN manager
     ELSE IF others # {} THEN FirstEditor(org, others)
     ELSE NoOne

(* What a resolved approval chain promises whoever asked for one: at most  *)
(* `levels` active people other than the requester and those left out, and *)
(* somebody as long as another editor is there; or the requester alone,    *)
(* when an editor too. It is only empty when neither is there.             *)
ChainFor(org, e, banned, levels, chain) ==
  /\ chain \in Seq(People) /\ Len(chain) <= levels
  /\ \/ \A i \in DOMAIN chain : chain[i] \in org.active \ (banned \cup {e})
     \/ chain = <<e>> /\ e \in Editors(org)
  /\ Editors(org) \ (banned \cup {e}) # {} => chain # <<>> /\ chain[1] # e
  /\ e \in Editors(org) => chain # <<>>
=============================================================================
