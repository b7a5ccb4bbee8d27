------------------------------ MODULE Company ------------------------------
(***************************************************************************)
(* The approval chains of a company that changes step by step: people      *)
(* leave and return, go on leave, are appointed and given roles, and       *)
(* approver rules are switched on and off. Whoever asks for a chain, in    *)
(* between any two of these, gets one that can be used.                    *)
(*                                                                         *)
(* The resolver only reads a company. What changes it is modelled with its *)
(* conditions in OrgTree, ApproverRules, Staff and LeaveApproval; here a   *)
(* step changes one thing the resolver reads, whatever the screens ask     *)
(* before, so that its defences (a head who has left, a rule that names    *)
(* somebody inactive) are put to the test as well.                         *)
(***************************************************************************)
EXTENDS ApprovalChain

CONSTANTS
  Requesters,  \* the employees chains are asked for
  LeftOut,     \* the people a caller may have left out
  Ways,        \* approval modes and numbers of levels
  AtFirst,     \* the company at first
  Changes      \* bound on the changes: who may leave, be away, lead what and get which roles

Companies ==
  [active : SUBSET People, roles : [People -> SUBSET RoleCodes],
   head : [Units -> People \cup {NoOne}], deputy : [Units -> People \cup {NoOne}],
   away : SUBSET People, rules : SUBSET {r.id : r \in RuleBook}]

ASSUME CompanyAssumption ==
  /\ Requesters \subseteq People /\ LeftOut \subseteq SUBSET People
  /\ \A way \in Ways : way.levels \in Nat \ {0}
  /\ AtFirst \in Companies
  /\ Changes \in [leave : SUBSET People, away : SUBSET People,
                  head : SUBSET (Units \X (People \cup {NoOne})),
                  deputy : SUBSET (Units \X (People \cup {NoOne})),
                  roles : SUBSET (People \X SUBSET RoleCodes)]

VARIABLE org

CompanyInit == org = AtFirst

Toggle(S, x) == IF x \in S THEN S \ {x} ELSE S \cup {x}

Departure == \E p \in Changes.leave : org' = [org EXCEPT !.active = Toggle(@, p)]
Absence == \E p \in Changes.away : org' = [org EXCEPT !.away = Toggle(@, p)]
Appoint == \E post \in Changes.head : org' = [org EXCEPT !.head[post[1]] = post[2]]
Deputise == \E post \in Changes.deputy : org' = [org EXCEPT !.deputy[post[1]] = post[2]]
Promote == \E role \in Changes.roles : org' = [org EXCEPT !.roles[role[1]] = role[2]]
Switch == \E r \in RuleBook : org' = [org EXCEPT !.rules = Toggle(@, r.id)]

CompanyNext == Departure \/ Absence \/ Appoint \/ Deputise \/ Promote \/ Switch

CompanySpec == CompanyInit /\ [][CompanyNext]_org

-----------------------------------------------------------------------------
(* Every chain is one that the callers can use (ChainFor), and nobody has  *)
(* to approve twice: it has no approver only when nobody in the company    *)
(* could be one.                                                           *)
Usable(way, e, banned, chain) ==
  /\ ChainFor(org, e, banned, way.levels, chain)
  /\ \A i, j \in DOMAIN chain : chain[i] = chain[j] => i = j

ChainsWork ==
  \A e \in Requesters \cap org.active, way \in Ways, banned \in LeftOut :
    Usable(way, e, banned, Chain(way, org, e, banned))

(* By the org chart, a head who is away is passed over for a deputy who is *)
(* there, in every unit on the way up: somebody away is asked only for a   *)
(* unit that has nobody else but the one who asks.                         *)
AbsentHeadsAreStoodInFor(e) ==
  LET chain == Clean(org, AutoCandidates(org, e), {e})
  IN \A i \in DOMAIN chain : chain[i] \in org.away =>
       \E u \in Units :
         /\ chain[i] \in {org.head[u], org.deputy[u]}
         /\ {org.head[u], org.deputy[u]} \cap org.active \subseteq org.away \cup {e}

(* In hybrid mode the rule's approvers come first and the org chart's      *)
(* after them, nobody twice, as far as the levels go.                      *)
RulesComeBeforeTheOrgChart(e) ==
  LET all(mode) == Clean(org, Candidates([mode |-> mode, levels |-> 9], org, e), {e})
      after(named, chart, chain) ==
        /\ SubSeq(chain, 1, Len(named)) = named
        /\ ToSet(chain) = ToSet(named) \cup ToSet(chart)
        /\ \A i, j \in Len(named) + 1 .. Len(chain) : i < j =>
             \E k, l \in DOMAIN chart : k < l /\ chart[k] = chain[i] /\ chart[l] = chain[j]
  IN after(all("manual"), all("auto"), all("hybrid"))

(* Only the rules of the most urgent priority that applies decide, however *)
(* specific the others are.                                                *)
MostUrgentRuleDecides(e) ==
  LET applicable == Matching(org, e)
      urgent == {r \in applicable : \A s \in applicable : r.priority <= s.priority}
      named(r) == {StepApprover(org, r, r.steps[i], e) : i \in DOMAIN r.steps}
  IN ToSet(ManualCandidates(org, e)) \subseteq UNION {named(r) : r \in urgent}

(* The right ones are asked, in the right order: those a rule names before *)
(* the org chart, by the most urgent rule, and deputies for absent heads.  *)
TheRightOnesDecide ==
  \A e \in Requesters \cap org.active :
    AbsentHeadsAreStoodInFor(e) /\ RulesComeBeforeTheOrgChart(e) /\ MostUrgentRuleDecides(e)
=============================================================================
