--------------------------- MODULE Company_proofs ---------------------------
(***************************************************************************)
(* Proofs about the company behind a leave request, for any people, units, *)
(* rules and policies: its approval chains, its approver rules, its        *)
(* organization chart, whose shifts its people may change, and what its    *)
(* leave costs.                                                            *)
(***************************************************************************)
EXTENDS Company, OrgTree, ApproverRules, Visibility, LeaveBalances, FiniteSetTheorems

(* Every non-empty set of naturals has a least member.                     *)
LEMMA LeastOfNaturals ==
  ASSUME NEW T, T \subseteq Nat, T # {}
  PROVE  Least(T) \in T /\ \A q \in T : Least(T) <= q
BY LeastExists DEF Least

-----------------------------------------------------------------------------
(* The slots of rules that were merged can be put in order, in one way.    *)
AllSlots == [rule : RuleBook, at : Nat]

LEMMA SlotsAreOrdered ==
  /\ \A s, t \in AllSlots : s # t => SlotBefore(s, t) \/ SlotBefore(t, s)
  /\ \A s, t, u \in AllSlots : SlotBefore(s, t) /\ SlotBefore(t, u) => SlotBefore(s, u)
  /\ \A s \in AllSlots : ~SlotBefore(s, s)
<1>1. \A s \in AllSlots : s.rule.order \in Nat /\ s.rule.id \in Nat /\ s.at \in Nat /\ s.rule \in RuleBook
  BY ChainAssumption DEF AllSlots, RuleShape
<1>2. \A s, t \in AllSlots : s.rule.id = t.rule.id /\ s.at = t.at => s = t
  <2>1. \A s, t \in AllSlots : s.rule = t.rule /\ s.at = t.at => s = t
    BY DEF AllSlots
  <2> QED BY <1>1, <2>1, ChainAssumption
<1>3. \A s, t \in AllSlots : s # t => SlotBefore(s, t) \/ SlotBefore(t, s)
  BY <1>1, <1>2 DEF SlotBefore
<1>4. \A s, t, u \in AllSlots : SlotBefore(s, t) /\ SlotBefore(t, u) => SlotBefore(s, u)
  BY <1>1 DEF SlotBefore
<1>5. \A s \in AllSlots : ~SlotBefore(s, s)
  BY <1>1 DEF SlotBefore
<1> QED BY <1>3, <1>4, <1>5

LEMMA FirstSlot ==
  ASSUME NEW S \in SUBSET AllSlots, IsFiniteSet(S), S # {}
  PROVE  \E m \in S : \A t \in S \ {m} : SlotBefore(m, t)
<1> DEFINE HasFirst(G) == \E m \in G : \A t \in G \ {m} : SlotBefore(m, t)
           T == {n \in Nat : \A G \in SUBSET AllSlots : IsFiniteSet(G) /\ Cardinality(G) = n + 1 => HasFirst(G)}
<1>1. 0 \in T
  <2>1. ASSUME NEW G \in SUBSET AllSlots, IsFiniteSet(G), Cardinality(G) = 0 + 1 PROVE HasFirst(G)
    <3>1. PICK x : G = {x}
      BY <2>1, FS_Singleton
    <3> QED BY <3>1
  <2> QED BY <2>1
<1>2. ASSUME NEW n \in Nat, n \in T PROVE n + 1 \in T
  <2>1. ASSUME NEW G \in SUBSET AllSlots, IsFiniteSet(G), Cardinality(G) = (n + 1) + 1 PROVE HasFirst(G)
    <3>1. PICK x : x \in G
      BY <2>1, FS_EmptySet
    <3>2. IsFiniteSet(G \ {x}) /\ Cardinality(G \ {x}) = n + 1 /\ G \ {x} \in SUBSET AllSlots
      BY <2>1, <3>1, FS_RemoveElement
    <3>3. HasFirst(G \ {x})
      BY <1>2, <3>2
    <3>4. PICK m \in G \ {x} : \A t \in (G \ {x}) \ {m} : SlotBefore(m, t)
      BY <3>3
    <3>5. CASE SlotBefore(m, x)
      <4>1. \A t \in G \ {m} : SlotBefore(m, t)
        BY <3>4, <3>5
      <4> QED BY <4>1
    <3>6. CASE SlotBefore(x, m)
      <4>1. \A t \in G \ {x} : SlotBefore(x, t)
        BY <3>1, <3>4, <3>6, SlotsAreOrdered
      <4> QED BY <3>1, <4>1
    <3> QED BY <3>1, <3>4, <3>5, <3>6, SlotsAreOrdered
  <2> HIDE DEF HasFirst
  <2> QED BY <2>1
<1>3. \A n \in Nat : n \in T
  <2> HIDE DEF T
  <2> QED BY <1>1, <1>2, Induction
<1>4. Cardinality(S) \in Nat /\ Cardinality(S) # 0
  BY FS_CardinalityType, FS_EmptySet
<1>5. PICK n \in Nat : Cardinality(S) = n + 1
  <2>1. Cardinality(S) - 1 \in Nat /\ Cardinality(S) = (Cardinality(S) - 1) + 1
    BY <1>4
  <2> QED BY <2>1
<1>6. n \in T
  BY <1>3
<1> QED BY <1>5, <1>6

BySlots(q) == \A i, j \in DOMAIN q : i < j => SlotBefore(q[i], q[j])

LEMMA OrderExists ==
  ASSUME NEW S \in SUBSET AllSlots, IsFiniteSet(S)
  PROVE  \E q \in [1 .. Cardinality(S) -> S] : BySlots(q)
<1> DEFINE Ordered(G, n) == \E q \in [1 .. n -> G] : BySlots(q)
           T == {n \in Nat : \A G \in SUBSET AllSlots : IsFiniteSet(G) /\ Cardinality(G) = n => Ordered(G, n)}
<1>1. 0 \in T
  <2>1. ASSUME NEW G \in SUBSET AllSlots PROVE Ordered(G, 0)
    <3>1. [i \in 1 .. 0 |-> 0] \in [1 .. 0 -> G] /\ BySlots([i \in 1 .. 0 |-> 0])
      BY DEF BySlots
    <3> QED BY <3>1
  <2> QED BY <2>1
<1>2. ASSUME NEW n \in Nat, n \in T PROVE n + 1 \in T
  <2>1. ASSUME NEW G \in SUBSET AllSlots, IsFiniteSet(G), Cardinality(G) = n + 1 PROVE Ordered(G, n + 1)
    <3>1. G # {}
      BY <2>1, FS_EmptySet
    <3>2. PICK m \in G : \A t \in G \ {m} : SlotBefore(m, t)
      BY <2>1, <3>1, FirstSlot
    <3>3. IsFiniteSet(G \ {m}) /\ Cardinality(G \ {m}) = n /\ G \ {m} \in SUBSET AllSlots
      <4>1. m \in G /\ (n + 1) - 1 = n
        OBVIOUS
      <4> QED BY <2>1, <4>1, FS_RemoveElement
    <3>4. PICK p \in [1 .. n -> G \ {m}] : BySlots(p)
      BY <1>2, <3>3
    <3> DEFINE q == [i \in 1 .. n + 1 |-> IF i = 1 THEN m ELSE p[i - 1]]
    <3>5. \A i \in 1 .. n + 1 : i # 1 => i - 1 \in 1 .. n
      OBVIOUS
    <3>6. \A i \in 1 .. n + 1 : q[i] = IF i = 1 THEN m ELSE p[i - 1]
      OBVIOUS
    <3>7. q \in [1 .. n + 1 -> G]
      BY <3>2, <3>4, <3>5
    <3> HIDE DEF q
    <3>8. ASSUME NEW i \in 1 .. n + 1, NEW j \in 1 .. n + 1, i < j PROVE SlotBefore(q[i], q[j])
      <4>1. j # 1 /\ j - 1 \in 1 .. n /\ q[j] = p[j - 1] /\ p[j - 1] \in G \ {m}
        BY <3>4, <3>5, <3>6, <3>8
      <4>2. CASE i = 1
        BY <3>2, <3>6, <4>1, <4>2
      <4>3. CASE i # 1
        <5>1. i - 1 \in 1 .. n /\ q[i] = p[i - 1] /\ i - 1 < j - 1 /\ DOMAIN p = 1 .. n
          BY <3>4, <3>5, <3>6, <3>8, <4>3
        <5> QED BY <3>4, <4>1, <5>1 DEF BySlots
      <4> QED BY <4>2, <4>3
    <3> QED BY <3>7, <3>8 DEF BySlots
  <2> HIDE DEF Ordered
  <2> QED BY <2>1
<1>3. \A n \in Nat : n \in T
  <2> HIDE DEF T
  <2> QED BY <1>1, <1>2, Induction
<1>4. Cardinality(S) \in Nat
  BY FS_CardinalityType
<1> HIDE DEF Ordered
<1>5. Ordered(S, Cardinality(S))
  BY <1>3, <1>4
<1> QED BY <1>5 DEF Ordered

LEMMA SlotsInOrderFacts ==
  ASSUME NEW S \in SUBSET AllSlots, IsFiniteSet(S)
  PROVE  /\ SlotsInOrder(S) \in [1 .. Cardinality(S) -> S] /\ BySlots(SlotsInOrder(S))
         /\ Cardinality(S) \in Nat
<1>1. \E q \in [1 .. Cardinality(S) -> S] : BySlots(q)
  BY OrderExists
<1> QED BY <1>1, FS_CardinalityType DEF SlotsInOrder, BySlots

(* The slots of some rules are finitely many.                              *)
LEMMA SlotsFinite ==
  ASSUME NEW G \in SUBSET RuleBook
  PROVE  IsFiniteSet(Slots(G)) /\ Slots(G) \in SUBSET AllSlots
<1> DEFINE Of(r) == {[rule |-> r, at |-> i] : i \in DOMAIN r.steps}
           T == {n \in Nat : \A H \in SUBSET RuleBook : IsFiniteSet(H) /\ Cardinality(H) = n => IsFiniteSet(Slots(H))}
<1>1. ASSUME NEW r \in RuleBook PROVE IsFiniteSet(Of(r)) /\ Of(r) \in SUBSET AllSlots
  <2>1. PICK n \in Nat : DOMAIN r.steps = 1 .. n
    <3>1. r.steps \in Seq([position : Positions \cup {"person"}, person : People \cup {NoOne}])
      BY ChainAssumption DEF RuleShape
    <3> QED BY <3>1
  <2> DEFINE f == [i \in 1 .. n |-> [rule |-> r, at |-> i]]
  <2>2. f \in Surjection(1 .. n, Of(r))
    BY <2>1 DEF Surjection
  <2>3. IsFiniteSet(1 .. n)
    BY FS_Interval
  <2>4. IsFiniteSet(Of(r))
    BY <2>2, <2>3, FS_Surjection
  <2> QED BY <2>1, <2>4 DEF AllSlots
<1>2. 0 \in T
  <2>1. ASSUME NEW H, H = {} PROVE IsFiniteSet(Slots(H))
    <3>1. Slots(H) = {}
      BY <2>1 DEF Slots
    <3> QED BY <3>1, FS_EmptySet
  <2> QED BY <2>1, FS_EmptySet
<1>3. ASSUME NEW n \in Nat, n \in T PROVE n + 1 \in T
  <2>1. ASSUME NEW H \in SUBSET RuleBook, IsFiniteSet(H), Cardinality(H) = n + 1 PROVE IsFiniteSet(Slots(H))
    <3>1. PICK r : r \in H
      BY <2>1, FS_EmptySet
    <3>2. IsFiniteSet(H \ {r}) /\ Cardinality(H \ {r}) = n /\ H \ {r} \in SUBSET RuleBook
      BY <2>1, <3>1, FS_RemoveElement
    <3>3. IsFiniteSet(Slots(H \ {r})) /\ IsFiniteSet(Of(r))
      BY <1>1, <1>3, <3>1, <3>2
    <3>4. Slots(H) = Slots(H \ {r}) \cup Of(r)
      BY <3>1 DEF Slots
    <3> HIDE DEF Of
    <3> QED BY <3>3, <3>4, FS_Union
  <2> QED BY <2>1
<1>4. \A n \in Nat : n \in T
  <2> HIDE DEF T
  <2> QED BY <1>2, <1>3, Induction
<1>5. IsFiniteSet(G) /\ Cardinality(G) \in Nat
  BY ChainAssumption, FS_Subset, FS_CardinalityType
<1>6. Slots(G) \in SUBSET AllSlots
  BY <1>1 DEF Slots
<1> QED BY <1>4, <1>5, <1>6

-----------------------------------------------------------------------------
(* The candidates, by the rules or by the org chart, are a list.           *)
IsList(s) == \E X : s \in Seq(X)

LEMMA ListOf ==
  ASSUME NEW n \in Nat, NEW s, s = [i \in 1 .. n |-> s[i]]
  PROVE  IsList(s)
<1> DEFINE X == {s[i] : i \in 1 .. n}
<1>1. s \in [1 .. n -> X]
  OBVIOUS
<1> HIDE DEF X
<1>2. s \in Seq(X)
  BY <1>1
<1> QED BY <1>2 DEF IsList

LEMMA KnownIsList ==
  ASSUME NEW s, IsList(s)
  PROVE  IsList(Known(s))
<1>1. PICK X : s \in Seq(X)
  BY DEF IsList
<1> DEFINE I == {i \in DOMAIN s : s[i] # NoOne}
<1>2. Known(s) \in Seq({s[i] : i \in I})
  BY <1>1, KeptFacts DEF Known
<1> QED BY <1>2 DEF IsList

LEMMA JoinedIsList ==
  ASSUME NEW s, NEW t, IsList(s), IsList(t)
  PROVE  IsList(s \o t)
<1>1. PICK X : s \in Seq(X)
  BY DEF IsList
<1>2. PICK Y : t \in Seq(Y)
  BY DEF IsList
<1>3. s \in Seq(X \cup Y) /\ t \in Seq(X \cup Y)
  BY <1>1, <1>2, WiderSeq
<1>4. s \o t \in Seq(X \cup Y)
  BY <1>3
<1> QED BY <1>4 DEF IsList

LEMMA UnitsUpIsList ==
  ASSUME NEW u
  PROVE  \E n \in Nat : DOMAIN UnitsUp(u) = 1 .. n
<1> DEFINE up == CHOOSE g : g = [k \in 0 .. Cardinality(Units) |->
                   IF k = 0 THEN u ELSE IF g[k-1] = NoUnit THEN NoUnit ELSE Parent[g[k-1]]]
           fresh(k) == up[k] # NoUnit /\ \A j \in 0 .. k-1 : up[j] # up[k]
           steps == {k \in 0 .. Cardinality(Units) : \A j \in 0 .. k : fresh(j)}
<1>1. UnitsUp(u) = [i \in 1 .. Cardinality(steps) |-> up[i-1]]
  BY DEF UnitsUp
<1>2. Cardinality(Units) \in Nat
  BY ChainAssumption, FS_CardinalityType
<1> HIDE DEF up
<1>3. IsFiniteSet(0 .. Cardinality(Units)) /\ steps \in SUBSET (0 .. Cardinality(Units))
  BY <1>2, FS_Interval
<1> HIDE DEF steps
<1>4. Cardinality(steps) \in Nat
  BY <1>3, FS_Subset, FS_CardinalityType
<1> QED BY <1>1, <1>4

LEMMA AutoIsList ==
  ASSUME NEW c, NEW e
  PROVE  IsList(AutoCandidates(c, e))
<1> DEFINE path == UnitsUp(UnitOf[e])
           found == [i \in DOMAIN path |-> PathApprover(c, path[i], e)]
<1>1. PICK n \in Nat : DOMAIN path = 1 .. n
  BY UnitsUpIsList
<1> HIDE DEF path
<1>2. IsList(found)
  BY <1>1, ListOf
<1>3. IsList(Known(found))
  BY <1>2, KnownIsList
<1> QED BY <1>3 DEF AutoCandidates, path

LEMMA ManualIsList ==
  ASSUME NEW c, NEW e
  PROVE  IsList(ManualCandidates(c, e))
<1> DEFINE G == Group(c, e, Winner(c, e))
           q == SlotsInOrder(Slots(G))
<1>1. G \in SUBSET RuleBook
  BY DEF Group, Matching
<1> HIDE DEF G
<1>2. PICK n \in Nat : DOMAIN q = 1 .. n
  BY <1>1, SlotsFinite, SlotsInOrderFacts
<1> HIDE DEF q
<1>3. IsList(SlotApprovers(c, e, q))
  BY <1>2, ListOf DEF SlotApprovers
<1>4. IsList(Known(SlotApprovers(c, e, q)))
  BY <1>3, KnownIsList
<1>5. IsList(<<>>)
  BY DEF IsList
<1> QED BY <1>4, <1>5 DEF ManualCandidates, q, G

LEMMA CandidatesAreList ==
  ASSUME NEW way, NEW c, NEW e
  PROVE  IsList(Candidates(way, c, e))
BY AutoIsList, ManualIsList, JoinedIsList DEF Candidates

(* Whom the cleaning leaves: active, not left out, each once.              *)
LEMMA CleanFacts ==
  ASSUME NEW c, NEW s, IsList(s), NEW left
  PROVE  Clean(c, s, left) \in Seq(c.active \ left) /\ NoRepeats(Clean(c, s, left))
<1>1. PICK X : s \in Seq(X)
  BY DEF IsList
<1> DEFINE I == {i \in DOMAIN s : s[i] \in c.active \ left /\ \A j \in 1 .. i-1 : s[j] # s[i]}
<1>2. Clean(c, s, left) = Kept(s, I)
  BY DEF Clean
<1>3. \A i, j \in I : s[i] = s[j] => i = j
  <2>1. DOMAIN s = 1 .. Len(s) /\ Len(s) \in Nat
    BY <1>1
  <2>2. ASSUME NEW i \in I, NEW j \in I, i < j PROVE s[i] # s[j]
    <3>1. i \in 1 .. j - 1
      BY <2>1, <2>2
    <3> QED BY <3>1
  <2>3. \A i, j \in I : i = j \/ i < j \/ j < i
    BY <2>1
  <2> QED BY <2>2, <2>3
<1>4. {s[i] : i \in I} \subseteq c.active \ left
  OBVIOUS
<1>5. I \subseteq DOMAIN s
  OBVIOUS
<1> HIDE DEF I
<1>6. Kept(s, I) \in Seq({s[i] : i \in I}) /\ NoRepeats(Kept(s, I))
  BY <1>1, <1>3, <1>5, KeptFacts
<1>7. Kept(s, I) \in Seq(c.active \ left)
  BY <1>4, <1>6, WiderSeq
<1> QED BY <1>2, <1>6, <1>7

LEMMA AtMostFacts ==
  ASSUME NEW A, NEW s \in Seq(A), NoRepeats(s), NEW n \in Nat
  PROVE  /\ AtMost(s, n) \in Seq(A) /\ NoRepeats(AtMost(s, n)) /\ Len(AtMost(s, n)) <= n
<1> DEFINE m == IF Len(s) < n THEN Len(s) ELSE n
<1>1. m \in Nat /\ m <= n /\ m <= Len(s) /\ AtMost(s, n) = SubSeq(s, 1, m)
  BY DEF AtMost
<1> HIDE DEF m
<1>2. SubSeq(s, 1, m) \in Seq(A) /\ Len(SubSeq(s, 1, m)) = m /\ \A i \in 1 .. m : SubSeq(s, 1, m)[i] = s[i]
  BY <1>1
<1>3. NoRepeats(SubSeq(s, 1, m))
  <2>1. \A i \in 1 .. m : i \in DOMAIN s
    BY <1>1
  <2>2. DOMAIN SubSeq(s, 1, m) = 1 .. m
    BY <1>2
  <2> QED BY <1>2, <2>1, <2>2 DEF NoRepeats
<1> QED BY <1>1, <1>2, <1>3

(* The last resort.                                                        *)
LEMMA FirstEditorFacts ==
  ASSUME NEW c \in Companies, NEW S, S \subseteq People, S # {}
  PROVE  FirstEditor(c, S) \in S
<1>1. S \subseteq Nat
  BY AccessAssumption
<1> QED BY <1>1, LeastOfNaturals DEF FirstEditor

LEMMA FallbackFacts ==
  ASSUME NEW c \in Companies, NEW e \in People, NEW banned
  PROVE  Fallback(c, e, banned) \in (c.active \ (banned \cup {e})) \cup {NoOne}
<1> DEFINE others == FullScopeEditors(c) \ (banned \cup {e})
<1>1. others \subseteq c.active \ (banned \cup {e}) /\ others \subseteq People
  BY DEF FullScopeEditors, Companies
<1>2. others # {} => FirstEditor(c, others) \in others
  BY <1>1, FirstEditorFacts
<1> HIDE DEF others
<1> QED BY <1>1, <1>2 DEF Fallback, others

(* The last resort is one person, and not the requester as long as another *)
(* editor is there.                                                        *)
LEMMA LastResortFacts ==
  ASSUME NEW c \in Companies, NEW e \in People, NEW banned, NEW levels \in Nat \ {0}
  PROVE  \A chain : chain = LastResort(c, e, Fallback(c, e, banned), Editors(c) \ (banned \cup {e}))
                     => ChainFor(c, e, banned, levels, chain) /\ NoRepeats(chain)
<1> DEFINE fallback == Fallback(c, e, banned)
           others == Editors(c) \ (banned \cup {e})
           able == c.active \ (banned \cup {e})
<1> SUFFICES ASSUME NEW chain, chain = LastResort(c, e, fallback, others)
             PROVE  ChainFor(c, e, banned, levels, chain) /\ NoRepeats(chain)
  OBVIOUS
<1>1. fallback \in able \cup {NoOne} /\ c.active \subseteq People
  BY FallbackFacts DEF Companies
<1>2. others \subseteq able /\ others \subseteq People /\ (others # {} => FirstEditor(c, others) \in others)
  <2>1. others \subseteq able /\ others \subseteq People
    BY <1>1 DEF Editors
  <2> QED BY <2>1, FirstEditorFacts
<1>3. able \subseteq People /\ e \notin able
  BY <1>1
<1> HIDE DEF fallback, others, able
<1>4. ASSUME NEW x \in People
      PROVE  /\ <<x>> \in Seq(People) /\ Len(<<x>>) <= levels /\ NoRepeats(<<x>>)
             /\ DOMAIN <<x>> = {1} /\ <<x>>[1] = x /\ <<x>> # <<>>
  <2>1. <<x>> \in Seq(People) /\ Len(<<x>>) = 1 /\ <<x>>[1] = x /\ <<x>> # <<>> /\ DOMAIN <<x>> = 1 .. 1
    OBVIOUS
  <2>2. DOMAIN <<x>> = {1}
    BY <2>1
  <2> QED BY <2>1, <2>2 DEF NoRepeats
<1>5. ASSUME NEW x \in able PROVE ChainFor(c, e, banned, levels, <<x>>) /\ NoRepeats(<<x>>)
  <2>1. \A i \in DOMAIN <<x>> : <<x>>[i] \in able
    BY <1>3, <1>4
  <2>2. <<x>>[1] # e /\ <<x>> # <<>>
    BY <1>3, <1>4
  <2> HIDE DEF able
  <2>3. ChainFor(c, e, banned, levels, <<x>>)
    <3>1. \A i \in DOMAIN <<x>> : <<x>>[i] \in c.active \ (banned \cup {e})
      BY <2>1 DEF able
    <3> QED BY <1>3, <1>4, <2>2, <3>1 DEF ChainFor
  <2> QED BY <1>3, <1>4, <2>3
<1>6. CASE fallback # NoOne
  <2>1. chain = <<fallback>> /\ fallback \in able
    BY <1>1, <1>6 DEF LastResort
  <2> QED BY <1>5, <2>1
<1>7. CASE fallback = NoOne /\ others # {}
  <2>1. PICK x \in able : chain = <<x>>
    BY <1>2, <1>7 DEF LastResort
  <2> QED BY <1>5, <2>1
<1>8. CASE fallback = NoOne /\ others = {} /\ e \in Editors(c)
  <2>1. chain = <<e>>
    BY <1>8 DEF LastResort
  <2>2. Editors(c) \ (banned \cup {e}) = {}
    BY <1>8 DEF others
  <2>3. ChainFor(c, e, banned, levels, <<e>>)
    BY <1>4, <1>8, <2>2 DEF ChainFor
  <2> QED BY <1>4, <2>1, <2>3
<1>9. CASE fallback = NoOne /\ others = {} /\ e \notin Editors(c)
  <2>1. chain = <<>>
    BY <1>9 DEF LastResort
  <2>2. <<>> \in Seq(People) /\ Len(<<>>) <= levels /\ NoRepeats(<<>>) /\ DOMAIN <<>> = {}
    BY DEF NoRepeats
  <2>3. Editors(c) \ (banned \cup {e}) = {}
    BY <1>9 DEF others
  <2>4. ChainFor(c, e, banned, levels, <<>>)
    BY <1>9, <2>2, <2>3 DEF ChainFor
  <2> QED BY <2>1, <2>2, <2>4
<1> QED BY <1>6, <1>7, <1>8, <1>9

(* The resolver keeps its promise: for every company, employee, policy and *)
(* set of people to leave out, the chain is one the callers can use, with  *)
(* nobody in it twice. This is what LeaveApproval assumes of it, as        *)
(* ChainContract.                                                          *)
THEOREM ResolverTheorem ==
  ASSUME NEW c \in Companies, NEW e \in People, NEW banned, NEW way, way.levels \in Nat \ {0}
  PROVE  /\ ChainFor(c, e, banned, way.levels, Chain(way, c, e, banned))
         /\ NoRepeats(Chain(way, c, e, banned))
<1> DEFINE n == way.levels
           left == banned \cup {e}
           cleaned == Clean(c, Candidates(way, c, e), left)
           chain == AtMost(cleaned, n)
<1>1. cleaned \in Seq(c.active \ left) /\ NoRepeats(cleaned)
  BY CandidatesAreList, CleanFacts
<1> HIDE DEF cleaned, left
<1>2. n \in Nat /\ n # 0
  OBVIOUS
<1> HIDE DEF n
<1>3. chain \in Seq(c.active \ left) /\ NoRepeats(chain) /\ Len(chain) <= n
  BY <1>1, <1>2, AtMostFacts
<1> HIDE DEF chain
<1>4. c.active \ left \subseteq People /\ e \notin c.active \ left
  BY DEF Companies, left
<1>5. chain \in Seq(People)
  BY <1>3, <1>4, WiderSeq
<1>6. Chain(way, c, e, banned) = OrLastResort(chain, c, e, banned)
  BY DEF Chain, chain, cleaned, left, n
<1>7. CASE chain # <<>>
  <2>1. Chain(way, c, e, banned) = chain
    BY <1>6, <1>7 DEF OrLastResort
  <2>2. \A i \in DOMAIN chain : chain[i] \in c.active \ left
    BY <1>3
  <2>3. chain[1] # e
    <3>1. 1 \in DOMAIN chain
      BY <1>3, <1>7
    <3> QED BY <1>4, <2>2, <3>1
  <2>4. ChainFor(c, e, banned, n, chain)
    BY <1>3, <1>5, <1>7, <2>2, <2>3 DEF ChainFor, left
  <2> QED BY <1>3, <2>1, <2>4 DEF n
<1>8. CASE chain = <<>>
  <2>1. Chain(way, c, e, banned) = LastResort(c, e, Fallback(c, e, banned), Editors(c) \ (banned \cup {e}))
    BY <1>6, <1>8 DEF OrLastResort
  <2> QED BY <1>2, <2>1, LastResortFacts DEF n
<1> QED BY <1>7, <1>8

(* The company stays a company.                                            *)
LEMMA ToggleFacts ==
  ASSUME NEW A, NEW S \in SUBSET A, NEW x \in A PROVE Toggle(S, x) \in SUBSET A
BY DEF Toggle

LEMMA CompanyStep ==
  ASSUME org \in Companies, [CompanyNext]_org PROVE org' \in Companies
<1> DEFINE RuleIdsOfBook == {r.id : r \in RuleBook}
<1>1. /\ org.active \in SUBSET People /\ org.roles \in [People -> SUBSET RoleCodes]
      /\ org.head \in [Units -> People \cup {NoOne}] /\ org.deputy \in [Units -> People \cup {NoOne}]
      /\ org.away \in SUBSET People /\ org.rules \in SUBSET RuleIdsOfBook
  BY DEF Companies
<1>2. /\ Changes.leave \subseteq People /\ Changes.away \subseteq People
      /\ Changes.head \subseteq Units \X (People \cup {NoOne})
      /\ Changes.deputy \subseteq Units \X (People \cup {NoOne})
      /\ Changes.roles \subseteq People \X SUBSET RoleCodes
  BY CompanyAssumption
<1>3. CASE Departure
  <2>1. PICK p \in People : org' = [org EXCEPT !.active = Toggle(org.active, p)]
    BY <1>2, <1>3 DEF Departure
  <2> QED BY <1>1, <2>1, ToggleFacts DEF Companies
<1>4. CASE Absence
  <2>1. PICK p \in People : org' = [org EXCEPT !.away = Toggle(org.away, p)]
    BY <1>2, <1>4 DEF Absence
  <2> QED BY <1>1, <2>1, ToggleFacts DEF Companies
<1>5. CASE Switch
  <2>1. PICK r \in RuleBook : org' = [org EXCEPT !.rules = Toggle(org.rules, r.id)]
    BY <1>5 DEF Switch
  <2>2. Toggle(org.rules, r.id) \in SUBSET RuleIdsOfBook
    BY <1>1, ToggleFacts
  <2> QED BY <1>1, <2>1, <2>2 DEF Companies
<1>6. CASE Appoint
  <2>1. PICK post \in Units \X (People \cup {NoOne}) : org' = [org EXCEPT !.head = [org.head EXCEPT ![post[1]] = post[2]]]
    BY <1>2, <1>6 DEF Appoint
  <2> QED BY <1>1, <2>1 DEF Companies
<1>7. CASE Deputise
  <2>1. PICK post \in Units \X (People \cup {NoOne}) : org' = [org EXCEPT !.deputy = [org.deputy EXCEPT ![post[1]] = post[2]]]
    BY <1>2, <1>7 DEF Deputise
  <2> QED BY <1>1, <2>1 DEF Companies
<1>8. CASE Promote
  <2>1. PICK role \in People \X SUBSET RoleCodes : org' = [org EXCEPT !.roles = [org.roles EXCEPT ![role[1]] = role[2]]]
    BY <1>2, <1>8 DEF Promote
  <2> QED BY <1>1, <2>1 DEF Companies
<1> QED BY <1>3, <1>4, <1>5, <1>6, <1>7, <1>8 DEF CompanyNext

LEMMA CompanyMeans == org \in Companies => ChainsWork
<1> SUFFICES ASSUME org \in Companies, NEW e \in Requesters \cap org.active, NEW way \in Ways, NEW banned \in LeftOut
             PROVE  Usable(way, e, banned, Chain(way, org, e, banned))
  BY DEF ChainsWork
<1>1. e \in People /\ way.levels \in Nat \ {0}
  BY CompanyAssumption
<1> QED BY <1>1, ResolverTheorem DEF Usable, NoRepeats

(* Whatever becomes of the company, the chains its requests are given can  *)
(* be used: they are empty only when nobody could approve.                 *)
THEOREM ChainsTheorem == CompanySpec => []ChainsWork
<1>1. CompanyInit => org \in Companies
  BY CompanyAssumption DEF CompanyInit
<1>2. org \in Companies /\ [CompanyNext]_org => (org \in Companies)'
  BY CompanyStep
<1> QED BY <1>1, <1>2, CompanyMeans, PTL DEF CompanySpec

-----------------------------------------------------------------------------
(* Adding to a list that was joined is adding to its end.                  *)
EndsAlike(s, t, x) == Append(s \o t, x) = s \o Append(t, x)

LEMMA AppendJoined ==
  ASSUME NEW X, NEW s \in Seq(X), NEW t \in Seq(X), NEW x \in X
  PROVE  EndsAlike(s, t, x)
<1> DEFINE u == Append(t, x)
<1>1. u \in Seq(X) /\ Len(u) = Len(t) + 1 /\ u[Len(t) + 1] = x /\ \A i \in 1 .. Len(t) : u[i] = t[i]
  OBVIOUS
<1>2. s \o t \in Seq(X) /\ Len(s \o t) = Len(s) + Len(t) /\ Len(s) \in Nat /\ Len(t) \in Nat
  OBVIOUS
<1> HIDE DEF u
<1>3. DOMAIN Append(s \o t, x) = DOMAIN (s \o u)
  BY <1>1, <1>2
<1>4. ASSUME NEW i \in DOMAIN (s \o u) PROVE Append(s \o t, x)[i] = (s \o u)[i]
  BY <1>1, <1>2
<1>5. Append(s \o t, x) \in Seq(X) /\ s \o u \in Seq(X)
  BY <1>1, <1>2
<1> QED BY <1>3, <1>4, <1>5 DEF u, EndsAlike

(* What is kept of one list after another.                                 *)
KeptApart(s, t, J) ==
  Kept(s \o t, J) = Kept(s, {i \in DOMAIN s : i \in J})
                      \o Kept(t, {i \in DOMAIN t : Len(s) + i \in J})

LEMMA KeptJoined ==
  ASSUME NEW X, NEW s \in Seq(X), NEW t \in Seq(X), NEW J, J \subseteq 1 .. Len(s) + Len(t)
  PROVE  KeptApart(s, t, J)
<1> DEFINE A == {i \in DOMAIN s : i \in J}
           B == {i \in DOMAIN t : Len(s) + i \in J}
<1>1. /\ s \o t \in Seq(X) /\ Len(s) \in Nat /\ Len(t) \in Nat /\ Len(s \o t) = Len(s) + Len(t)
      /\ DOMAIN s = 1 .. Len(s) /\ DOMAIN t = 1 .. Len(t) /\ DOMAIN (s \o t) = 1 .. Len(s) + Len(t)
      /\ \A i \in 1 .. Len(s) : (s \o t)[i] = s[i]
      /\ \A i \in 1 .. Len(t) : (s \o t)[Len(s) + i] = t[i]
  OBVIOUS
<1>2. PICK f \in [Nat -> Seq(X)] : Kept(s \o t, J) = f[Len(s \o t)] /\ KeepsAlong(f, s \o t, J)
  BY <1>1, KeptRuns
<1>3. PICK a \in [Nat -> Seq(X)] : Kept(s, A) = a[Len(s)] /\ KeepsAlong(a, s, A)
  BY KeptRuns
<1>4. PICK b \in [Nat -> Seq(X)] : Kept(t, B) = b[Len(t)] /\ KeepsAlong(b, t, B)
  BY KeptRuns
<1> DEFINE T == {n \in Nat : n <= Len(s) => f[n] = a[n]}
           U == {n \in Nat : n <= Len(t) => f[Len(s) + n] = a[Len(s)] \o b[n]}
<1>13. \A n, k \in Nat : n + 1 <= k => n <= k /\ n + 1 \in 1 .. k
  OBVIOUS
<1>14. \A n, k \in Nat : k + n \in Nat /\ k + (n + 1) = (k + n) + 1
  OBVIOUS
<1>5. 0 \in T
  BY <1>2, <1>3 DEF KeepsAlong
<1>6. ASSUME NEW n \in Nat, n \in T PROVE n + 1 \in T
  <2> SUFFICES ASSUME n + 1 <= Len(s) PROVE f[n + 1] = a[n + 1]
    OBVIOUS
  <2>3. n <= Len(s) /\ n + 1 \in 1 .. Len(s)
    BY <1>1, <1>13
  <2>1. n + 1 \in 1 .. Len(s) /\ f[n] = a[n]
    BY <1>6, <2>3
  <2>2. (s \o t)[n + 1] = s[n + 1] /\ (n + 1 \in J <=> n + 1 \in A)
    BY <1>1, <2>1
  <2> HIDE DEF A, T
  <2>4. f[n + 1] = IF n + 1 \in J THEN Append(f[n], (s \o t)[n + 1]) ELSE f[n]
    BY <1>2, Zenon DEF KeepsAlong
  <2>5. a[n + 1] = IF n + 1 \in A THEN Append(a[n], s[n + 1]) ELSE a[n]
    BY <1>3, Zenon DEF KeepsAlong
  <2> QED BY <2>1, <2>2, <2>4, <2>5, Zenon
<1>7. \A n \in Nat : n \in T
  <2> HIDE DEF T
  <2> QED BY <1>5, <1>6, Induction
<1>8. f[Len(s)] = a[Len(s)]
  BY <1>1, <1>7
<1>9. 0 \in U
  <2>1. b[0] = <<>> /\ Len(s) + 0 = Len(s) /\ a[Len(s)] \in Seq(X)
    BY <1>1, <1>3, <1>4 DEF KeepsAlong
  <2>2. a[Len(s)] \o <<>> = a[Len(s)]
    BY <2>1
  <2> QED BY <1>8, <2>1, <2>2
<1>10. ASSUME NEW n \in Nat, n \in U PROVE n + 1 \in U
  <2>8. n + 1 \in Nat
    OBVIOUS
  <2> SUFFICES ASSUME n + 1 <= Len(t) PROVE f[Len(s) + (n + 1)] = a[Len(s)] \o b[n + 1]
    BY <2>8, Zenon
  <2>7. n <= Len(t) /\ n + 1 \in 1 .. Len(t) /\ Len(s) + n \in Nat /\ Len(s) + (n + 1) = (Len(s) + n) + 1
    BY <1>1, <1>13, <1>14
  <2>1. n + 1 \in 1 .. Len(t) /\ f[Len(s) + n] = a[Len(s)] \o b[n] /\ Len(s) + n \in Nat
        /\ Len(s) + (n + 1) = (Len(s) + n) + 1
    BY <1>10, <2>7
  <2>2. (s \o t)[(Len(s) + n) + 1] = t[n + 1] /\ ((Len(s) + n) + 1 \in J <=> n + 1 \in B)
    <3>1. (s \o t)[Len(s) + (n + 1)] = t[n + 1] /\ (Len(s) + (n + 1) \in J <=> n + 1 \in B)
      BY <1>1, <2>1
    <3> QED BY <2>1, <3>1
  <2> HIDE DEF B, U, T
  <2>3. a[Len(s)] \in Seq(X) /\ b[n] \in Seq(X) /\ t[n + 1] \in X
    BY <1>1, <1>3, <1>4, <2>1
  <2>4. Append(a[Len(s)] \o b[n], t[n + 1]) = a[Len(s)] \o Append(b[n], t[n + 1])
    <3>1. EndsAlike(a[Len(s)], b[n], t[n + 1])
      BY <2>3, AppendJoined
    <3> QED BY <3>1 DEF EndsAlike
  <2>5. f[(Len(s) + n) + 1] = IF n + 1 \in B THEN Append(f[Len(s) + n], t[n + 1]) ELSE f[Len(s) + n]
    BY <1>2, <2>1, <2>2 DEF KeepsAlong
  <2>6. b[n + 1] = IF n + 1 \in B THEN Append(b[n], t[n + 1]) ELSE b[n]
    BY <1>4 DEF KeepsAlong
  <2> QED BY <2>1, <2>4, <2>5, <2>6, Zenon
<1>11. \A n \in Nat : n \in U
  <2> HIDE DEF U
  <2> QED BY <1>9, <1>10, Induction
<1>12. f[Len(s) + Len(t)] = a[Len(s)] \o b[Len(t)]
  <2>1. Len(t) \in U
    BY <1>1, <1>11
  <2>2. Len(t) <= Len(t)
    BY <1>1
  <2> QED BY <2>1, <2>2, Zenon
<1> QED BY <1>1, <1>2, <1>3, <1>4, <1>12 DEF KeptApart

-----------------------------------------------------------------------------
(* The places the cleaning keeps of a list.                                *)
Firsts(s, A) == {i \in DOMAIN s : s[i] \in A /\ \A j \in 1 .. i-1 : s[j] # s[i]}

LEMMA CleanIs ==
  ASSUME NEW c, NEW s, NEW left
  PROVE  Clean(c, s, left) = Kept(s, Firsts(s, c.active \ left))
BY DEF Clean, Firsts

(* Nobody is lost by being kept once only.                                 *)
LEMMA KeptOnce ==
  ASSUME NEW X, NEW s \in Seq(X), NEW A
  PROVE  ToSet(Kept(s, Firsts(s, A))) = {s[i] : i \in DOMAIN s} \cap A
<1> DEFINE J == Firsts(s, A)
           q == Kept(s, J)
<1>1. DOMAIN s = 1 .. Len(s) /\ Len(s) \in Nat
  OBVIOUS
<1>2. J \subseteq DOMAIN s /\ \A i \in J : s[i] \in A
  BY DEF Firsts
<1>3. ASSUME NEW k \in DOMAIN s, s[k] \in A PROVE \E i \in J : s[i] = s[k]
  <2> DEFINE same == {j \in DOMAIN s : s[j] = s[k]}
  <2>1. same \subseteq Nat /\ same # {}
    BY <1>1
  <2>2. PICK i \in same : \A j \in same : i <= j
    <3> HIDE DEF same
    <3> QED BY <2>1, LeastOfNaturals
  <2>3. \A j \in 1 .. i - 1 : j \in DOMAIN s /\ ~(i <= j)
    BY <1>1, <2>2
  <2>4. i \in J
    BY <1>3, <2>2, <2>3 DEF Firsts
  <2> QED BY <2>2, <2>4
<1> HIDE DEF J
<1>4. PICK m \in Nat : \E g \in [1 .. m -> J] : Picks(q, s, J, m, g)
  BY <1>2, KeptPlaces
<1>5. PICK g \in [1 .. m -> J] : Picks(q, s, J, m, g)
  BY <1>4
<1> HIDE DEF q
<1>6. q = [i \in 1 .. m |-> s[g[i]]] /\ \A k \in J : \E i \in 1 .. m : g[i] = k
  BY <1>5 DEF Picks
<1>7. ToSet(q) = {s[g[i]] : i \in 1 .. m}
  BY <1>6 DEF ToSet
<1>8. \A x \in ToSet(q) : x \in {s[i] : i \in DOMAIN s} \cap A
  BY <1>2, <1>7
<1>9. ASSUME NEW x \in {s[i] : i \in DOMAIN s} \cap A PROVE x \in ToSet(q)
  <2>1. PICK k \in DOMAIN s : x = s[k]
    BY <1>9
  <2>2. PICK i \in J : s[i] = x
    BY <1>3, <1>9, <2>1
  <2>3. PICK l \in 1 .. m : g[l] = i
    BY <1>6, <2>2
  <2> QED BY <1>7, <2>2, <2>3
<1> QED BY <1>8, <1>9 DEF q, J

(* Of a shorter selection, two that follow each other do so in the longer. *)
InTurn(p, q) ==
  \A i, j \in DOMAIN p : i < j => \E k, l \in DOMAIN q : k < l /\ q[k] = p[i] /\ q[l] = p[j]

LEMMA SelectionsAgree ==
  ASSUME NEW X, NEW t \in Seq(X), NEW J, J \subseteq DOMAIN t, NEW R, R \subseteq J
  PROVE  InTurn(Kept(t, R), Kept(t, J))
<1> SUFFICES ASSUME NEW i \in DOMAIN Kept(t, R), NEW j \in DOMAIN Kept(t, R), i < j
             PROVE  \E k, l \in DOMAIN Kept(t, J) :
                      k < l /\ Kept(t, J)[k] = Kept(t, R)[i] /\ Kept(t, J)[l] = Kept(t, R)[j]
  BY DEF InTurn
<1>1. PICK m \in Nat : \E g \in [1 .. m -> J] : Picks(Kept(t, J), t, J, m, g)
  BY KeptPlaces
<1>2. PICK g \in [1 .. m -> J] : Picks(Kept(t, J), t, J, m, g)
  BY <1>1
<1>3. PICK n \in Nat : \E h \in [1 .. n -> R] : Picks(Kept(t, R), t, R, n, h)
  BY KeptPlaces
<1>4. PICK h \in [1 .. n -> R] : Picks(Kept(t, R), t, R, n, h)
  BY <1>3
<1>5. /\ Kept(t, R) = [q \in 1 .. n |-> t[h[q]]]
      /\ \A p, q \in 1 .. n : p < q => h[p] < h[q]
  BY <1>4 DEF Picks
<1>6. /\ Kept(t, J) = [q \in 1 .. m |-> t[g[q]]]
      /\ \A p, q \in 1 .. m : p < q => g[p] < g[q]
      /\ \A k \in J : \E q \in 1 .. m : g[q] = k
  BY <1>2 DEF Picks
<1>7. i \in 1 .. n /\ j \in 1 .. n /\ h[i] \in J /\ h[j] \in J /\ h[i] < h[j]
  BY <1>5
<1>8. PICK k \in 1 .. m : g[k] = h[i]
  BY <1>6, <1>7
<1>9. PICK l \in 1 .. m : g[l] = h[j]
  BY <1>6, <1>7
<1>10. k < l
  <2>1. \A p \in J : p \in Nat
    <3>1. DOMAIN t = 1 .. Len(t) /\ Len(t) \in Nat
      OBVIOUS
    <3> QED BY <3>1
  <2>2. g[k] \in Nat /\ g[l] \in Nat /\ g[k] < g[l]
    BY <1>7, <1>8, <1>9, <2>1
  <2>3. l < k => g[l] < g[k]
    BY <1>6
  <2>4. k # l /\ ~(l < k)
    BY <2>2, <2>3
  <2> QED BY <2>4
<1>11. Kept(t, J)[k] = Kept(t, R)[i] /\ Kept(t, J)[l] = Kept(t, R)[j]
  BY <1>5, <1>6, <1>7, <1>8, <1>9
<1> QED BY <1>6, <1>10, <1>11

(* One list cleaned after another: the first as it is alone, then those of *)
(* the second that are new, in its order.                                  *)
Follows(named, chart, chain) ==
  /\ SubSeq(chain, 1, Len(named)) = named
  /\ ToSet(chain) = ToSet(named) \cup ToSet(chart)
  /\ \A i, j \in Len(named) + 1 .. Len(chain) : i < j =>
       \E k, l \in DOMAIN chart : k < l /\ chart[k] = chain[i] /\ chart[l] = chain[j]

CleanedInTurn(s, t, A) ==
  Follows(Kept(s, Firsts(s, A)), Kept(t, Firsts(t, A)), Kept(s \o t, Firsts(s \o t, A)))

LEMMA JoinedFollows ==
  ASSUME NEW X, NEW s \in Seq(X), NEW t \in Seq(X), NEW A
  PROVE  CleanedInTurn(s, t, A)
<1> DEFINE J == Firsts(s \o t, A)
           R == {i \in DOMAIN t : Len(s) + i \in J}
           named == Kept(s, Firsts(s, A))
           rest == Kept(t, R)
           chart == Kept(t, Firsts(t, A))
           chain == Kept(s \o t, J)
<1>1. /\ s \o t \in Seq(X) /\ Len(s) \in Nat /\ Len(t) \in Nat /\ Len(s \o t) = Len(s) + Len(t)
      /\ DOMAIN s = 1 .. Len(s) /\ DOMAIN t = 1 .. Len(t) /\ DOMAIN (s \o t) = 1 .. Len(s) + Len(t)
      /\ \A i \in 1 .. Len(s) : (s \o t)[i] = s[i]
      /\ \A i \in 1 .. Len(t) : (s \o t)[Len(s) + i] = t[i]
  OBVIOUS
<1>2. {i \in DOMAIN s : i \in J} = Firsts(s, A)
  <2>1. ASSUME NEW i \in 1 .. Len(s)
        PROVE  i \in 1 .. Len(s) + Len(t) /\ \A j \in 1 .. i - 1 : j \in 1 .. Len(s)
    BY <1>1
  <2> QED BY <1>1, <2>1 DEF Firsts
<1>3. R \subseteq Firsts(t, A)
  <2>1. ASSUME NEW i \in R PROVE i \in Firsts(t, A)
    <3>1. i \in 1 .. Len(t) /\ Len(s) + i \in J /\ (s \o t)[Len(s) + i] = t[i]
      BY <1>1
    <3>2. ASSUME NEW j \in 1 .. i - 1 PROVE t[j] # t[i]
      <4>1. j \in 1 .. Len(t) /\ Len(s) + j \in 1 .. (Len(s) + i) - 1
        BY <1>1, <3>1
      <4>2. (s \o t)[Len(s) + j] = t[j]
        BY <1>1, <4>1
      <4> QED BY <3>1, <4>1, <4>2 DEF Firsts
    <3>3. t[i] \in A
      BY <3>1 DEF Firsts
    <3> QED BY <1>1, <3>1, <3>2, <3>3 DEF Firsts
  <2> QED BY <2>1
<1>4. J \subseteq DOMAIN (s \o t) /\ Firsts(s, A) \subseteq DOMAIN s /\ Firsts(t, A) \subseteq DOMAIN t
  BY DEF Firsts
<1>5. chain = named \o rest
  <2> HIDE DEF J
  <2>1. KeptApart(s, t, J)
    BY <1>1, <1>4, KeptJoined
  <2> QED BY <1>2, <2>1 DEF KeptApart
<1>6. named \in Seq(X) /\ rest \in Seq(X)
  <2>1. {s[i] : i \in Firsts(s, A)} \subseteq X /\ {t[i] : i \in R} \subseteq X
    BY <1>1, <1>4
  <2>2. named \in Seq({s[i] : i \in Firsts(s, A)})
    BY <1>4, KeptFacts
  <2>3. R \subseteq DOMAIN t
    OBVIOUS
  <2> HIDE DEF R
  <2>4. rest \in Seq({t[i] : i \in R})
    BY <2>3, KeptFacts
  <2> QED BY <2>1, <2>2, <2>4, WiderSeq
<1>7. ToSet(chain) = ToSet(named) \cup ToSet(chart)
  <2>1. ToSet(chain) = {(s \o t)[i] : i \in DOMAIN (s \o t)} \cap A
    BY <1>1, KeptOnce
  <2>2. ToSet(named) = {s[i] : i \in DOMAIN s} \cap A
    BY KeptOnce
  <2>3. ToSet(chart) = {t[i] : i \in DOMAIN t} \cap A
    BY KeptOnce
  <2>4. {(s \o t)[i] : i \in DOMAIN (s \o t)} = {s[i] : i \in DOMAIN s} \cup {t[i] : i \in DOMAIN t}
    <3>1. ASSUME NEW i \in DOMAIN (s \o t)
          PROVE  (s \o t)[i] \in {s[k] : k \in DOMAIN s} \cup {t[k] : k \in DOMAIN t}
      <4>1. CASE i <= Len(s)
        <5>1. i \in 1 .. Len(s)
          BY <1>1, <4>1
        <5> QED BY <1>1, <5>1
      <4>2. CASE ~(i <= Len(s))
        <5>1. i - Len(s) \in 1 .. Len(t) /\ Len(s) + (i - Len(s)) = i
          BY <1>1, <4>2
        <5> QED BY <1>1, <5>1
      <4> QED BY <4>1, <4>2
    <3>2. ASSUME NEW i \in DOMAIN s PROVE s[i] \in {(s \o t)[k] : k \in DOMAIN (s \o t)}
      <4>1. i \in 1 .. Len(s) + Len(t) /\ i \in 1 .. Len(s)
        BY <1>1
      <4> QED BY <1>1, <4>1
    <3>3. ASSUME NEW i \in DOMAIN t PROVE t[i] \in {(s \o t)[k] : k \in DOMAIN (s \o t)}
      <4>1. Len(s) + i \in 1 .. Len(s) + Len(t) /\ i \in 1 .. Len(t)
        BY <1>1
      <4> QED BY <1>1, <4>1
    <3> QED BY <3>1, <3>2, <3>3
  <2> HIDE DEF chain, named, chart
  <2> QED BY <2>1, <2>2, <2>3, <2>4
<1> HIDE DEF J, R
<1>8. InTurn(rest, chart)
  BY <1>3, <1>4, SelectionsAgree
<1> HIDE DEF rest, named, chart, chain
<1>9. /\ Len(named) \in Nat /\ Len(rest) \in Nat /\ Len(chain) = Len(named) + Len(rest)
      /\ DOMAIN rest = 1 .. Len(rest)
      /\ \A i \in 1 .. Len(rest) : chain[Len(named) + i] = rest[i]
  BY <1>5, <1>6
<1>10. SubSeq(chain, 1, Len(named)) = named
  BY <1>5, <1>6
<1>11. ASSUME NEW i \in Len(named) + 1 .. Len(chain), NEW j \in Len(named) + 1 .. Len(chain), i < j
       PROVE  \E k, l \in DOMAIN chart : k < l /\ chart[k] = chain[i] /\ chart[l] = chain[j]
  <2> DEFINE p == i - Len(named)
             q == j - Len(named)
  <2>1. p \in 1 .. Len(rest) /\ q \in 1 .. Len(rest) /\ p < q /\ Len(named) + p = i /\ Len(named) + q = j
    BY <1>9, <1>11
  <2> HIDE DEF p, q
  <2>2. \E k, l \in DOMAIN chart : k < l /\ chart[k] = rest[p] /\ chart[l] = rest[q]
    <3>1. p \in DOMAIN rest /\ q \in DOMAIN rest
      BY <1>9, <2>1
    <3> QED BY <1>8, <2>1, <3>1, Zenon DEF InTurn
  <2> QED BY <1>9, <2>1, <2>2
<1>12. Follows(named, chart, chain)
  BY <1>7, <1>10, <1>11 DEF Follows
<1> QED BY <1>12 DEF named, chart, chain, J, CleanedInTurn

-----------------------------------------------------------------------------
LEMMA HybridFacts ==
  ASSUME NEW e
  PROVE  RulesComeBeforeTheOrgChart(e)
<1> DEFINE s == ManualCandidates(org, e)
           t == AutoCandidates(org, e)
           A == org.active \ {e}
<1>1. PICK X : s \in Seq(X)
  BY ManualIsList DEF IsList
<1>2. PICK Y : t \in Seq(Y)
  BY AutoIsList DEF IsList
<1>3. s \in Seq(X \cup Y) /\ t \in Seq(X \cup Y)
  BY <1>1, <1>2, WiderSeq
<1> HIDE DEF s, t, A
<1>4. CleanedInTurn(s, t, A)
  BY <1>3, JoinedFollows
<1>5. Follows(Kept(s, Firsts(s, A)), Kept(t, Firsts(t, A)), Kept(s \o t, Firsts(s \o t, A)))
  BY <1>4 DEF CleanedInTurn
<1>6. /\ Candidates([mode |-> "manual", levels |-> 9], org, e) = s
      /\ Candidates([mode |-> "auto", levels |-> 9], org, e) = t
      /\ Candidates([mode |-> "hybrid", levels |-> 9], org, e) = s \o t
  BY DEF Candidates, s, t
<1>7. /\ Clean(org, Candidates([mode |-> "manual", levels |-> 9], org, e), {e}) = Kept(s, Firsts(s, A))
      /\ Clean(org, Candidates([mode |-> "auto", levels |-> 9], org, e), {e}) = Kept(t, Firsts(t, A))
      /\ Clean(org, Candidates([mode |-> "hybrid", levels |-> 9], org, e), {e}) = Kept(s \o t, Firsts(s \o t, A))
  BY <1>6, CleanIs DEF A
<1>8. PICK named, chart, chain : /\ named = Kept(s, Firsts(s, A)) /\ chart = Kept(t, Firsts(t, A))
                                 /\ chain = Kept(s \o t, Firsts(s \o t, A))
  OBVIOUS
<1>9. Follows(named, chart, chain)
  BY <1>5, <1>8, Zenon
<1>10. /\ Clean(org, Candidates([mode |-> "manual", levels |-> 9], org, e), {e}) = named
       /\ Clean(org, Candidates([mode |-> "auto", levels |-> 9], org, e), {e}) = chart
       /\ Clean(org, Candidates([mode |-> "hybrid", levels |-> 9], org, e), {e}) = chain
  BY <1>7, <1>8, Zenon
<1>11. Follows(Clean(org, Candidates([mode |-> "manual", levels |-> 9], org, e), {e}),
               Clean(org, Candidates([mode |-> "auto", levels |-> 9], org, e), {e}),
               Clean(org, Candidates([mode |-> "hybrid", levels |-> 9], org, e), {e}))
  BY <1>9, <1>10, Zenon
<1> QED BY <1>11, Zenon DEF RulesComeBeforeTheOrgChart, Follows

(* Among the rules that apply one goes before all others.                  *)
LEMMA WinnerFacts ==
  ASSUME NEW c, NEW e, Matching(c, e) # {}
  PROVE  /\ Winner(c, e) \in Matching(c, e)
         /\ \A s \in Matching(c, e) : Winner(c, e).priority <= s.priority
<1> DEFINE M == Matching(c, e)
           scope(r) == Specificity(r, e)
<1>1. ASSUME NEW r \in M PROVE r.priority \in Nat /\ r.id \in Nat /\ scope(r) \in Nat
  <2>1. r.priority \in Nat /\ r.id \in Nat
    BY ChainAssumption DEF Matching, RuleShape
  <2> QED BY <2>1 DEF Specificity
<1> HIDE DEF scope, M
<1>2. PICK p \in {r.priority : r \in M} : \A n \in {r.priority : r \in M} : p <= n
  <2>1. {r.priority : r \in M} \subseteq Nat /\ {r.priority : r \in M} # {}
    BY <1>1 DEF M
  <2> HIDE DEF M
  <2> QED BY <2>1, LeastOfNaturals
<1> DEFINE first == {r \in M : r.priority = p}
<1>3. first # {} /\ first \subseteq M
  BY <1>2
<1> HIDE DEF first
<1>4. PICK q \in {scope(r) : r \in first} : \A n \in {scope(r) : r \in first} : q <= n
  <2>1. {scope(r) : r \in first} \subseteq Nat /\ {scope(r) : r \in first} # {}
    BY <1>1, <1>3
  <2> QED BY <2>1, LeastOfNaturals
<1> DEFINE narrow == {r \in first : scope(r) = q}
<1>5. narrow # {} /\ narrow \subseteq first
  BY <1>4
<1> HIDE DEF narrow
<1>6. PICK i \in {r.id : r \in narrow} : \A n \in {r.id : r \in narrow} : i <= n
  <2>1. {r.id : r \in narrow} \subseteq Nat /\ {r.id : r \in narrow} # {}
    BY <1>1, <1>3, <1>5
  <2> QED BY <2>1, LeastOfNaturals
<1>7. PICK r \in narrow : r.id = i
  BY <1>6
<1>8. r \in M /\ r \in first
  BY <1>3, <1>5
<1>9. ASSUME NEW s \in M PROVE Beats(r, s, e)
  <2>1. r.priority = p /\ scope(r) = q /\ r.id = i
    BY <1>7, <1>8 DEF first, narrow
  <2>2. p <= s.priority
    BY <1>2
  <2>3. s.priority = p => s \in first /\ q <= scope(s)
    BY <1>4 DEF first
  <2>4. s.priority = p /\ scope(s) = q => i <= s.id
    BY <1>6, <2>3 DEF narrow
  <2>5. p \in Nat /\ q \in Nat /\ s.priority \in Nat /\ scope(s) \in Nat
    BY <1>1, <1>8, <2>1
  <2> QED BY <2>1, <2>2, <2>3, <2>4, <2>5 DEF Beats, scope
<1>10. Winner(c, e) \in M /\ \A s \in M : Beats(Winner(c, e), s, e)
  BY <1>8, <1>9 DEF Winner, M
<1>11. ASSUME NEW s \in M PROVE Winner(c, e).priority <= s.priority
  BY <1>1, <1>10 DEF Beats
<1> QED BY <1>10, <1>11 DEF M

LEMMA UrgentFacts ==
  ASSUME NEW e
  PROVE  MostUrgentRuleDecides(e)
<1> DEFINE M == Matching(org, e)
           top == Winner(org, e)
           G == Group(org, e, top)
           q == SlotsInOrder(Slots(G))
           s == SlotApprovers(org, e, q)
           I == {i \in DOMAIN s : s[i] # NoOne}
           named(r) == {StepApprover(org, r, r.steps[i], e) : i \in DOMAIN r.steps}
           urgent == {r \in M : \A o \in M : r.priority <= o.priority}
<1> SUFFICES ASSUME NEW x \in ToSet(ManualCandidates(org, e)) PROVE \E r \in urgent : x \in named(r)
  BY DEF MostUrgentRuleDecides
<1>1. M # {} /\ ManualCandidates(org, e) = Kept(s, I)
  <2>1. ToSet(<<>>) = {}
    BY DEF ToSet
  <2> QED BY <2>1 DEF ManualCandidates, Known
<1>2. \A o \in M : top.priority <= o.priority
  BY <1>1, WinnerFacts
<1>3. G \in SUBSET RuleBook /\ \A r \in G : r \in M /\ r.priority = top.priority
  BY DEF Group, Matching
<1> HIDE DEF G, M, top
<1>4. \A r \in G : r \in urgent
  BY <1>2, <1>3
<1>5. Slots(G) \in SUBSET AllSlots /\ IsFiniteSet(Slots(G))
  BY <1>3, SlotsFinite
<1>6. q \in [1 .. Cardinality(Slots(G)) -> Slots(G)] /\ Cardinality(Slots(G)) \in Nat
  BY <1>5, SlotsInOrderFacts
<1> HIDE DEF q
<1>7. DOMAIN s = 1 .. Cardinality(Slots(G)) /\ s = [i \in 1 .. Cardinality(Slots(G)) |-> s[i]]
  BY <1>6 DEF SlotApprovers
<1>8. IsList(s)
  BY <1>6, <1>7, ListOf
<1>9. PICK X : s \in Seq(X)
  BY <1>8 DEF IsList
<1>10. Kept(s, I) \in Seq({s[i] : i \in I})
  <2>1. I \subseteq DOMAIN s
    OBVIOUS
  <2> HIDE DEF I, s
  <2> QED BY <1>9, <2>1, KeptFacts
<1>11. PICK k \in DOMAIN s : x = s[k]
  <2>1. PICK j \in DOMAIN Kept(s, I) : x = Kept(s, I)[j]
    BY <1>1 DEF ToSet
  <2>2. x \in {s[i] : i \in I}
    <3> HIDE DEF I, s
    <3> QED BY <1>10, <2>1
  <2> QED BY <2>2
<1>12. q[k] \in Slots(G) /\ x = StepApprover(org, q[k].rule, q[k].rule.steps[q[k].at], e)
  BY <1>6, <1>7, <1>11 DEF SlotApprovers
<1>13. q[k].rule \in G /\ q[k].at \in DOMAIN q[k].rule.steps
  BY <1>12 DEF Slots
<1> QED BY <1>4, <1>12, <1>13

(* A head who is away is asked only when nobody can stand in.              *)
LEMMA UnitApproverFacts ==
  ASSUME NEW c, NEW u, NEW e, NEW p, p = UnitApprover(c, u, e), p # NoOne
  PROVE  /\ p \in {c.head[u], c.deputy[u]} \cap c.active
         /\ p \in c.away => {c.head[u], c.deputy[u]} \cap c.active \subseteq c.away \cup {e}
<1> DEFINE head == {c.head[u]} \cap c.active
           deputy == ({c.deputy[u]} \ {e}) \cap c.active
           ranked == <<head \ c.away, deputy \ c.away, head, deputy>>
           filled == {k \in DOMAIN ranked : ranked[k] # {}}
<1>1. p = FirstFilled(ranked)
  BY DEF UnitApprover
<1>2. DOMAIN ranked = 1 .. 4 /\ ranked[1] = head \ c.away /\ ranked[2] = deputy \ c.away
      /\ ranked[3] = head /\ ranked[4] = deputy
  OBVIOUS
<1> HIDE DEF ranked, head, deputy
<1>3. filled # {} /\ p = CHOOSE x \in ranked[Least(filled)] : TRUE
  BY <1>1 DEF FirstFilled
<1>4. filled \subseteq Nat
  BY <1>2
<1>5. Least(filled) \in filled /\ \A k \in filled : Least(filled) <= k
  BY <1>3, <1>4, LeastOfNaturals
<1>6. PICK k \in 1 .. 4 : k = Least(filled) /\ ranked[k] # {} /\ p \in ranked[k]
  BY <1>2, <1>3, <1>5
<1>7. p \in {c.head[u], c.deputy[u]} \cap c.active
  BY <1>2, <1>6 DEF head, deputy
<1>8. ASSUME p \in c.away PROVE {c.head[u], c.deputy[u]} \cap c.active \subseteq c.away \cup {e}
  <2>1. k # 1 /\ k # 2
    BY <1>2, <1>6, <1>8
  <2>2. 1 \notin filled /\ 2 \notin filled
    BY <1>5, <1>6, <2>1
  <2>3. head \ c.away = {} /\ deputy \ c.away = {}
    BY <1>2, <2>2
  <2> QED BY <2>3 DEF head, deputy
<1> QED BY <1>7, <1>8

LEMMA StandInFacts ==
  ASSUME NEW e
  PROVE  AbsentHeadsAreStoodInFor(e)
<1> DEFINE path == UnitsUp(UnitOf[e])
           s == [i \in DOMAIN path |-> PathApprover(org, path[i], e)]
           I == {i \in DOMAIN s : s[i] # NoOne}
           auto == AutoCandidates(org, e)
           chain == Clean(org, auto, {e})
           J == Firsts(auto, org.active \ {e})
<1> SUFFICES ASSUME NEW i \in DOMAIN chain, chain[i] \in org.away
             PROVE  \E u \in Units :
                      /\ chain[i] \in {org.head[u], org.deputy[u]}
                      /\ {org.head[u], org.deputy[u]} \cap org.active \subseteq org.away \cup {e}
  BY DEF AbsentHeadsAreStoodInFor
<1>1. auto = Kept(s, I)
  BY DEF AutoCandidates, Known
<1>2. PICK n \in Nat : DOMAIN path = 1 .. n
  BY UnitsUpIsList
<1> HIDE DEF path
<1>3. PICK X : s \in Seq(X)
  <2>1. IsList(s)
    BY <1>2, ListOf
  <2> QED BY <2>1 DEF IsList
<1>4. I \subseteq DOMAIN s
  OBVIOUS
<1>5. auto \in Seq({s[k] : k \in I})
  <2> HIDE DEF I, s, auto
  <2> QED BY <1>1, <1>3, <1>4, KeptFacts
<1>6. chain = Kept(auto, J)
  BY CleanIs
<1>7. J \subseteq DOMAIN auto
  BY DEF Firsts
<1> HIDE DEF J, auto
<1>8. Kept(auto, J) \in Seq({auto[k] : k \in J})
  <2> HIDE DEF I, s
  <2> QED BY <1>5, <1>7, KeptFacts
<1> HIDE DEF chain
<1>9. chain[i] \in {auto[k] : k \in J}
  BY <1>6, <1>8
<1>10. chain[i] \in {s[k] : k \in I}
  <2> HIDE DEF I, s
  <2> QED BY <1>5, <1>7, <1>9
<1>11. PICK k \in DOMAIN path : chain[i] = PathApprover(org, path[k], e) /\ chain[i] # NoOne
  BY <1>10
<1>12. path[k] \in Units /\ chain[i] = UnitApprover(org, path[k], e)
  BY <1>11, ChainAssumption DEF PathApprover
<1> QED BY <1>11, <1>12, UnitApproverFacts

(* Whatever becomes of the company, the right ones are asked: by the most  *)
(* urgent rule, before the org chart, and deputies for absent heads.       *)
THEOREM DecidersTheorem == CompanySpec => []TheRightOnesDecide
<1>1. TheRightOnesDecide
  BY HybridFacts, UrgentFacts, StandInFacts DEF TheRightOnesDecide
<1> QED BY <1>1, PTL

-----------------------------------------------------------------------------
(* What the row of a rule keeps true, given the scope it was last given    *)
(* and the reviewers.                                                      *)
RowInv(entry, given, who) ==
  /\ entry.there \/ entry = NoRule
  /\ \/ entry.scope = given
     \/ entry.scope = Everybody /\ entry.reason /\ ~entry.on
  /\ Named(entry.steps) \subseteq who

RowTypeOK(entry, open) ==
  /\ entry \in RuleRow
  /\ entry.scope \in Staff \union open \union {Everybody}
  /\ entry.cascade => entry.scope \in open
  /\ entry.exclude => entry.scope \in Staff

(* The invariant of the rules: a rule that is not there is the empty one,  *)
(* one that is is about whom it was given, or waits switched off for       *)
(* somebody to say whom; and whoever a rule names may review leave.        *)
RulesInv ==
  /\ approverRule \in [RuleIds -> RuleRow]
  /\ chosen \in [RuleIds -> Staff \union OrgUnits \union {Everybody}]
  /\ reviewers \subseteq Staff /\ employed \subseteq Staff /\ units \subseteq OrgUnits
  /\ \A r \in RuleIds : /\ RowTypeOK(approverRule[r], units)
                        /\ RowInv(approverRule[r], chosen[r], reviewers)

LEMMA NoRuleIs ==
  /\ NoRule \in RuleRow /\ Named(NoRule.steps) = {}
  /\ ~NoRule.there /\ ~NoRule.exclude /\ NoRule.steps = <<>> /\ NoRule.scope = Everybody /\ ~NoRule.cascade
<1>1. <<>> \in Seq(Staff \union RulePositions) /\ 0 \in 0..LastPlace
  BY RuleAssumption
<1> QED BY <1>1 DEF NoRule, RuleRow, Named, ToSet

LEMMA RuleStart == RuleInit => RulesInv
BY NoRuleIs DEF RuleInit, RulesInv, RowTypeOK, RowInv

(* The steps a form sends are a list of employees and positions.           *)
LEMMA ChainsAreLists ==
  ASSUME NEW steps \in Chains \union {<<>>}
  PROVE  steps \in Seq(Staff \union RulePositions)
<1>1. CASE steps = <<>>
  BY <1>1
<1>2. CASE steps \in Chains
  <2>1. PICK n \in 1 .. LongestChain : steps \in [1 .. n -> Staff \union RulePositions]
    BY <1>2 DEF Chains
  <2>2. n \in Nat
    BY <2>1, RuleAssumption
  <2> QED BY <2>1, <2>2
<1> QED BY <1>1, <1>2

(* A rule that is written takes a place of the list.                       *)
LEMMA BottomIsAPlace ==
  ASSUME RulesInv, Bottom <= LastPlace PROVE Bottom \in 0 .. LastPlace
<1> DEFINE places == {approverRule[r].place : r \in Listed}
           bounds == {n \in Nat : \A m \in places : m <= n}
           last(n) == /\ \E r \in Listed : approverRule[r].place = n
                      /\ \A r \in Listed : approverRule[r].place <= n
<1>1. LastPlace \in Nat
  BY RuleAssumption
<1>2. CASE Listed = {}
  BY <1>1, <1>2 DEF Bottom
<1>3. CASE Listed # {}
  <2>1. places \subseteq 0 .. LastPlace /\ places # {}
    <3>1. \A r \in RuleIds : approverRule[r].place \in 0 .. LastPlace
      BY DEF RulesInv, RuleRow
    <3> QED BY <1>3, <3>1 DEF Listed
  <2>2. LastPlace \in bounds
    BY <1>1, <2>1
  <2>3. PICK n \in bounds : \A m \in bounds : n <= m
    <3>1. bounds \subseteq Nat /\ bounds # {}
      BY <2>2
    <3> QED BY <3>1, LeastOfNaturals
  <2>4. n \in places
    <3> SUFFICES ASSUME n \notin places PROVE FALSE
      OBVIOUS
    <3>5. n \in Nat /\ \A m \in places : m \in Nat /\ m <= n /\ m # n
      BY <1>1, <2>1, <2>3
    <3>1. \A m \in places : m \in Nat /\ m < n
      <4> HIDE DEF places
      <4> QED BY <3>5
    <3>2. n - 1 \in Nat
      BY <2>1, <2>3, <3>1
    <3>3. \A m \in places : m <= n - 1
      <4>1. n \in Nat
        BY <2>3
      <4> HIDE DEF places, bounds
      <4> QED BY <3>1, <4>1
    <3>4. n - 1 \in bounds
      BY <3>3, <3>2
    <3> QED BY <2>3, <3>4
  <2>5. n \in 0 .. LastPlace /\ last(n)
    BY <2>1, <2>3, <2>4
  <2>6. (CHOOSE m \in 0 .. LastPlace : last(m)) \in 0 .. LastPlace
    BY <2>5
  <2> HIDE DEF last
  <2>7. Bottom = 1 + (CHOOSE m \in 0 .. LastPlace : last(m))
    BY <1>3 DEF Bottom, last
  <2> QED BY <1>1, <2>6, <2>7
<1> QED BY <1>2, <1>3

(* One row is written: the others are as they were.                        *)
LEMMA OneRow ==
  ASSUME RulesInv, NEW r \in RuleIds, NEW entry, NEW given \in Staff \union OrgUnits \union {Everybody},
         NEW who, who \subseteq Staff,
         RowTypeOK(entry, units), RowInv(entry, given, reviewers \union who),
         approverRule' = [approverRule EXCEPT ![r] = entry],
         chosen' = [chosen EXCEPT ![r] = given], reviewers' = reviewers \union who,
         UNCHANGED <<units, employed>>
  PROVE  RulesInv'
<1>1. entry \in RuleRow
  BY DEF RowTypeOK
<1>2. approverRule' \in [RuleIds -> RuleRow] /\ chosen' \in [RuleIds -> Staff \union OrgUnits \union {Everybody}]
  BY <1>1 DEF RulesInv
<1>3. reviewers' \subseteq Staff /\ employed' \subseteq Staff /\ units' \subseteq OrgUnits
  BY DEF RulesInv
<1>4. ASSUME NEW s \in RuleIds PROVE RowTypeOK(approverRule'[s], units) /\ RowInv(approverRule'[s], chosen'[s], reviewers')
  <2>1. CASE s = r
    BY <2>1 DEF RulesInv
  <2>2. CASE s # r
    BY <2>2 DEF RulesInv, RowInv
  <2> QED BY <2>1, <2>2
<1> QED BY <1>2, <1>3, <1>4 DEF RulesInv

(* Rows change, and nobody is asked anew: what each keeps of the invariant *)
(* is enough.                                                              *)
LEMMA ManyRows ==
  ASSUME RulesInv, NEW open, open \subseteq OrgUnits, NEW rows,
         \A r \in RuleIds : /\ RowTypeOK(rows[r], open)
                            /\ RowInv(rows[r], chosen[r], reviewers),
         approverRule' = [r \in RuleIds |-> rows[r]],
         units' = open, employed' \subseteq Staff, UNCHANGED <<chosen, reviewers>>
  PROVE  RulesInv'
<1>1. approverRule' \in [RuleIds -> RuleRow]
  BY DEF RowTypeOK
<1>2. \A r \in RuleIds : approverRule'[r] = rows[r]
  OBVIOUS
<1> QED BY <1>1, <1>2 DEF RulesInv

LEMMA RuleStep == RulesInv /\ [RuleNext]_ruleVars => RulesInv'
<1> SUFFICES ASSUME RulesInv, [RuleNext]_ruleVars PROVE RulesInv'
  OBVIOUS
<1>1. ASSUME NEW r \in RuleIds, NEW scope \in Scopes, NEW steps \in Chains \union {<<>>},
             NEW cascade \in BOOLEAN, NEW exclude \in BOOLEAN,
             CreateRule(r, scope, steps, cascade, exclude)
      PROVE  RulesInv'
  <2> DEFINE excluded == exclude /\ scope \in Staff
             who == IF excluded THEN {} ELSE Named(steps)
             entry == [there |-> TRUE, scope |-> scope, steps |-> IF excluded THEN <<>> ELSE steps,
                     place |-> Bottom, cascade |-> cascade /\ scope \in OrgUnits,
                     exclude |-> excluded, on |-> TRUE, reason |-> FALSE]
  <2>1. scope \in Staff \union units \union {Everybody} /\ scope \in Staff \union OrgUnits \union {Everybody}
    BY DEF Scopes, RulesInv
  <2>2. Bottom \in 0 .. LastPlace
    BY <1>1, BottomIsAPlace DEF CreateRule
  <2>3. (IF excluded THEN <<>> ELSE steps) \in Seq(Staff \union RulePositions)
    BY ChainsAreLists
  <2>4. who \subseteq Staff
    BY DEF Named
  <2>5. entry \in RuleRow
    BY <2>1, <2>2, <2>3 DEF RuleRow
  <2>6. RowTypeOK(entry, units)
    BY <2>1, <2>5, RuleAssumption DEF RowTypeOK
  <2>7. RowInv(entry, scope, reviewers \union who)
    BY DEF RowInv, Named, ToSet
  <2>8. /\ approverRule' = [approverRule EXCEPT ![r] = entry] /\ reviewers' = reviewers \union who
        /\ chosen' = [chosen EXCEPT ![r] = scope] /\ UNCHANGED <<units, employed>>
    BY <1>1 DEF CreateRule
  <2> HIDE DEF entry, who
  <2> QED BY <2>1, <2>4, <2>6, <2>7, <2>8, OneRow
<1>2. ASSUME NEW r \in RuleIds, NEW rescope \in BOOLEAN, NEW scope \in Scopes,
             NEW exclude \in BOOLEAN, NEW cascade \in BOOLEAN, NEW switch \in BOOLEAN,
             NEW on \in BOOLEAN, NEW sent \in BOOLEAN, NEW steps \in Chains \union {<<>>},
             UpdateRule(r, rescope, scope, exclude, cascade, switch, on, sent, steps)
      PROVE  RulesInv'
  <2> DEFINE old == approverRule[r]
             moved == IF rescope THEN Rescoped(old, scope) ELSE old
             entry == [moved EXCEPT !.exclude = exclude /\ moved.scope \in Staff,
                                  !.cascade = cascade /\ moved.scope \in OrgUnits,
                                  !.on = IF switch THEN on ELSE @,
                                  !.reason = @ /\ ~(switch /\ on)]
             final == [entry EXCEPT !.steps = IF entry.exclude THEN <<>> ELSE IF sent THEN steps ELSE @]
             who == IF sent /\ ~entry.exclude THEN Named(steps) ELSE {}
             given == IF rescope THEN scope ELSE chosen[r]
  <2>1. /\ old.there /\ (switch /\ on => MayBeSwitchedOn(moved, rescope))
        /\ approverRule' = [approverRule EXCEPT ![r] = final] /\ reviewers' = reviewers \union who
        /\ chosen' = [chosen EXCEPT ![r] = IF rescope THEN scope ELSE @]
        /\ UNCHANGED <<units, employed>>
    BY <1>2 DEF UpdateRule
  <2>2. old \in RuleRow /\ RowTypeOK(old, units) /\ RowInv(old, chosen[r], reviewers)
    BY DEF RulesInv
  <2>3. scope \in Staff \union units \union {Everybody} /\ scope \in Staff \union OrgUnits \union {Everybody}
    BY DEF Scopes, RulesInv
  <2>4. /\ moved \in RuleRow /\ moved.there = old.there /\ moved.on = old.on /\ moved.reason = old.reason
        /\ moved.steps = old.steps /\ moved.scope = IF rescope THEN scope ELSE old.scope
    BY <2>2, <2>3 DEF RuleRow, Rescoped
  <2> HIDE DEF moved
  <2>5. /\ entry \in RuleRow /\ entry.there = moved.there /\ entry.scope = moved.scope
        /\ entry.steps = moved.steps
        /\ entry.exclude = (exclude /\ moved.scope \in Staff)
        /\ entry.cascade = (cascade /\ moved.scope \in OrgUnits)
        /\ entry.on = (IF switch THEN on ELSE moved.on)
        /\ entry.reason = (moved.reason /\ ~(switch /\ on))
    BY <2>4 DEF RuleRow
  <2> HIDE DEF entry
  <2>6. steps \in Seq(Staff \union RulePositions)
    BY ChainsAreLists
  <2> DEFINE kept == IF entry.exclude THEN <<>> ELSE IF sent THEN steps ELSE entry.steps
  <2>14. entry.steps \in Seq(Staff \union RulePositions) /\ <<>> \in Seq(Staff \union RulePositions)
    BY <2>5 DEF RuleRow
  <2>15. kept \in Seq(Staff \union RulePositions)
    BY <2>6, <2>14
  <2>16. final = [entry EXCEPT !.steps = kept]
    OBVIOUS
  <2> HIDE DEF kept
  <2>7. /\ final \in RuleRow /\ final.there = entry.there /\ final.scope = entry.scope
        /\ final.steps = kept /\ final.exclude = entry.exclude /\ final.cascade = entry.cascade
        /\ final.on = entry.on /\ final.reason = entry.reason
    BY <2>5, <2>15, <2>16 DEF RuleRow
  <2> USE DEF kept
  <2> HIDE DEF final
  <2>8. RowTypeOK(final, units)
    BY <2>2, <2>3, <2>4, <2>5, <2>7, RuleAssumption DEF RowTypeOK, RulesInv
  <2>9. given \in Staff \union OrgUnits \union {Everybody} /\ chosen' = [chosen EXCEPT ![r] = given]
    BY <2>1, <2>3 DEF RulesInv
  <2>10. \/ final.scope = given
         \/ final.scope = Everybody /\ final.reason /\ ~final.on
    <3>1. CASE rescope
      BY <3>1, <2>4, <2>5, <2>7
    <3>2. CASE ~rescope
      BY <3>2, <2>1, <2>2, <2>4, <2>5, <2>7 DEF MayBeSwitchedOn, RowInv
    <3> QED BY <3>1, <3>2
  <2>11. Named(final.steps) \subseteq reviewers \union who
    BY <2>2, <2>4, <2>5, <2>7 DEF RowInv, Named, ToSet
  <2>12. RowInv(final, given, reviewers \union who)
    BY <2>1, <2>4, <2>5, <2>7, <2>10, <2>11 DEF RowInv
  <2>13. who \subseteq Staff
    BY DEF Named
  <2> HIDE DEF who, given
  <2> QED BY <2>1, <2>8, <2>9, <2>12, <2>13, OneRow
<1>3. ASSUME NEW r \in RuleIds, DeleteRule(r) PROVE RulesInv'
  <2>3. PICK nobody : nobody = {}
    OBVIOUS
  <2>1. RowTypeOK(NoRule, units) /\ RowInv(NoRule, Everybody, reviewers \union nobody)
    BY <2>3, NoRuleIs DEF RowTypeOK, RowInv
  <2>2. /\ approverRule' = [approverRule EXCEPT ![r] = NoRule] /\ reviewers' = reviewers \union nobody
        /\ chosen' = [chosen EXCEPT ![r] = Everybody] /\ UNCHANGED <<units, employed>>
        /\ nobody \subseteq Staff
    BY <1>3, <2>3 DEF DeleteRule
  <2> QED BY <2>1, <2>2, OneRow
<1>4. ASSUME NEW list \in {s \in [1..Cardinality(RuleIds) -> RuleIds] : IsInjective(s)}, Reorder(list)
      PROVE  RulesInv'
  <2> DEFINE place(r) == CHOOSE i \in DOMAIN list : list[i] = r
             new == [r \in RuleIds |-> IF approverRule[r].there /\ r \in ToSet(list)
                       THEN [approverRule[r] EXCEPT !.place = place(r)] ELSE approverRule[r]]
  <2>1. ASSUME NEW r \in RuleIds PROVE RowTypeOK(new[r], units) /\ RowInv(new[r], chosen[r], reviewers)
    <3> DEFINE old == approverRule[r]
    <3>1. old \in RuleRow /\ RowTypeOK(old, units) /\ RowInv(old, chosen[r], reviewers)
      BY DEF RulesInv
    <3>2. CASE approverRule[r].there /\ r \in ToSet(list)
      <4>1. place(r) \in DOMAIN list
        BY <3>2 DEF ToSet
      <4>2. Cardinality(RuleIds) \in Nat
        BY RuleAssumption, FS_CardinalityType
      <4>3. place(r) \in 0 .. LastPlace
        BY <4>1, <4>2, RuleAssumption
      <4> HIDE DEF place
      <4>4. /\ new[r] \in RuleRow /\ new[r].there /\ new[r].scope = old.scope /\ new[r].steps = old.steps
            /\ new[r].cascade = old.cascade /\ new[r].exclude = old.exclude /\ new[r].on = old.on
            /\ new[r].reason = old.reason
        BY <3>1, <3>2, <4>3 DEF RuleRow
      <4> HIDE DEF new
      <4> QED BY <3>1, <4>4 DEF RowTypeOK, RowInv
    <3>3. CASE ~(approverRule[r].there /\ r \in ToSet(list))
      BY <3>1, <3>3
    <3> QED BY <3>2, <3>3
  <2>2. /\ approverRule' = [r \in RuleIds |-> new[r]] /\ units' = units /\ UNCHANGED <<chosen, reviewers>>
        /\ employed' \subseteq Staff /\ units \subseteq OrgUnits
    BY <1>4 DEF Reorder, RulesInv
  <2> HIDE DEF new
  <2> QED BY <2>1, <2>2, ManyRows
<1>5. ASSUME NEW u \in OrgUnits, UnitDeleted(u) PROVE RulesInv'
  <2> DEFINE new == [r \in RuleIds |-> IF approverRule[r].there /\ approverRule[r].scope = u
                       THEN [approverRule[r] EXCEPT !.scope = Everybody, !.cascade = FALSE,
                                                    !.on = FALSE, !.reason = TRUE]
                       ELSE approverRule[r]]
  <2>1. ASSUME NEW r \in RuleIds
        PROVE  RowTypeOK(new[r], units \ {u}) /\ RowInv(new[r], chosen[r], reviewers)
    <3> DEFINE old == approverRule[r]
    <3>1. old \in RuleRow /\ RowTypeOK(old, units) /\ RowInv(old, chosen[r], reviewers)
      BY DEF RulesInv
    <3>2. CASE old.there /\ old.scope = u
      <4>1. /\ new[r] \in RuleRow /\ new[r].there /\ new[r].scope = Everybody /\ new[r].steps = old.steps
            /\ ~new[r].cascade /\ new[r].exclude = old.exclude /\ ~new[r].on /\ new[r].reason
        BY <3>1, <3>2 DEF RuleRow
      <4> HIDE DEF new
      <4>2. ~old.exclude
        BY <3>1, <3>2, RuleAssumption DEF RowTypeOK
      <4> QED BY <3>1, <4>1, <4>2 DEF RowTypeOK, RowInv
    <3>3. CASE ~(old.there /\ old.scope = u)
      <4>1. old.scope # u
        BY <3>1, <3>3, NoRuleIs, RuleAssumption DEF RowInv
      <4> QED BY <3>1, <3>3, <4>1 DEF RowTypeOK
    <3> QED BY <3>2, <3>3
  <2>2. /\ approverRule' = [r \in RuleIds |-> new[r]] /\ units' = units \ {u} /\ UNCHANGED <<chosen, reviewers>>
        /\ employed' \subseteq Staff /\ units \ {u} \subseteq OrgUnits
    BY <1>5 DEF UnitDeleted, RulesInv
  <2> HIDE DEF new
  <2> QED BY <2>1, <2>2, ManyRows
<1>6. ASSUME NEW p \in Staff, ApproverLeft(p) PROVE RulesInv'
  <2> DEFINE new == [r \in RuleIds |-> IF approverRule[r].on /\ p \in ToSet(approverRule[r].steps)
                       THEN [approverRule[r] EXCEPT !.on = FALSE, !.reason = TRUE]
                       ELSE approverRule[r]]
  <2>1. ASSUME NEW r \in RuleIds
        PROVE  RowTypeOK(new[r], units) /\ RowInv(new[r], chosen[r], reviewers)
    <3> DEFINE old == approverRule[r]
    <3>1. old \in RuleRow /\ RowTypeOK(old, units) /\ RowInv(old, chosen[r], reviewers)
      BY DEF RulesInv
    <3>2. CASE old.on /\ p \in ToSet(old.steps)
      <4>1. /\ new[r] \in RuleRow /\ new[r].there = old.there /\ new[r].scope = old.scope
            /\ new[r].steps = old.steps /\ new[r].cascade = old.cascade /\ new[r].exclude = old.exclude
            /\ ~new[r].on /\ new[r].reason
        BY <3>1, <3>2 DEF RuleRow
      <4>2. old.there
        BY <3>1, <3>2 DEF RowInv, NoRule
      <4> HIDE DEF new
      <4> QED BY <3>1, <4>1, <4>2 DEF RowTypeOK, RowInv
    <3>3. CASE ~(old.on /\ p \in ToSet(old.steps))
      BY <3>1, <3>3
    <3> QED BY <3>2, <3>3
  <2>2. /\ approverRule' = [r \in RuleIds |-> new[r]] /\ units' = units /\ UNCHANGED <<chosen, reviewers>>
        /\ employed' \subseteq Staff /\ units \subseteq OrgUnits
    BY <1>6 DEF ApproverLeft, RulesInv
  <2> HIDE DEF new
  <2> QED BY <2>1, <2>2, ManyRows
<1>7. ASSUME NEW p \in Staff, ApproverReturned(p) PROVE RulesInv'
  BY <1>7 DEF ApproverReturned, RulesInv
<1>8. CASE UNCHANGED ruleVars
  BY <1>8 DEF ruleVars, RulesInv
<1>9. CASE \E r \in RuleIds, rescope \in BOOLEAN, scope \in Scopes, exclude, cascade \in BOOLEAN,
               switch, on, sent \in BOOLEAN, steps \in Chains \union {<<>>} :
               UpdateRule(r, rescope, scope, exclude, cascade, switch, on, sent, steps)
  <2>1. PICK r \in RuleIds, rescope \in BOOLEAN, scope \in Scopes, exclude \in BOOLEAN,
             cascade \in BOOLEAN, switch \in BOOLEAN, on \in BOOLEAN, sent \in BOOLEAN,
             steps \in Chains \union {<<>>} :
             UpdateRule(r, rescope, scope, exclude, cascade, switch, on, sent, steps)
    BY <1>9, Zenon
  <2> HIDE DEF RulesInv, UpdateRule
  <2> QED BY <1>2, <2>1, SMT
<1>10. CASE \E r \in RuleIds, scope \in Scopes, steps \in Chains \union {<<>>}, cascade, exclude \in BOOLEAN :
               CreateRule(r, scope, steps, cascade, exclude)
  BY <1>1, <1>10, Zenon
<1> QED BY <1>3, <1>4, <1>5, <1>6, <1>7, <1>8, <1>9, <1>10, Zenon DEF RuleNext

(* A written rule decides no less than the one it replaces.                *)
LEMMA RuleGoesOn ==
  ASSUME RulesInv, RulesInv', [RuleNext]_ruleVars, NEW q \in RuleIds,
         Decides(q), approverRule'[q].there
  PROVE  Decides(q)' /\ ToSet(approverRule'[q].steps) \cap Staff \subseteq reviewers'
<1>1. ToSet(approverRule'[q].steps) \cap Staff \subseteq reviewers'
  BY DEF RulesInv, RowInv, Named
<1> SUFFICES Decides(q)'
  BY <1>1
<1>2. approverRule \in [RuleIds -> RuleRow] /\ approverRule[q] \in RuleRow /\ approverRule[q].there
  <2>1. approverRule[q] # NoRule
    BY NoRuleIs DEF Decides
  <2> QED BY <2>1 DEF RulesInv, RowInv
<1>3. ASSUME NEW r \in RuleIds, NEW scope \in Scopes, NEW steps \in Chains \union {<<>>},
             NEW cascade \in BOOLEAN, NEW exclude \in BOOLEAN,
             CreateRule(r, scope, steps, cascade, exclude)
      PROVE  Decides(q)'
  BY <1>2, <1>3 DEF CreateRule, Decides
<1>4. ASSUME NEW r \in RuleIds, NEW rescope \in BOOLEAN, NEW scope \in Scopes,
             NEW exclude \in BOOLEAN, NEW cascade \in BOOLEAN, NEW switch \in BOOLEAN,
             NEW on \in BOOLEAN, NEW sent \in BOOLEAN, NEW steps \in Chains \union {<<>>},
             UpdateRule(r, rescope, scope, exclude, cascade, switch, on, sent, steps)
      PROVE  Decides(q)'
  <2> DEFINE old == approverRule[r]
             moved == IF rescope THEN Rescoped(old, scope) ELSE old
             entry == [moved EXCEPT !.exclude = exclude /\ moved.scope \in Staff,
                                  !.cascade = cascade /\ moved.scope \in OrgUnits,
                                  !.on = IF switch THEN on ELSE @,
                                  !.reason = @ /\ ~(switch /\ on)]
             kept == IF entry.exclude THEN <<>> ELSE IF sent THEN steps ELSE entry.steps
             final == [entry EXCEPT !.steps = kept]
  <2>1. approverRule' = [approverRule EXCEPT ![r] = final] /\ Saved(entry, sent, steps)
    BY <1>4 DEF UpdateRule
  <2>2. entry.exclude \/ kept # <<>>
    BY <2>1 DEF Saved
  <2>3. old \in RuleRow
    BY <1>2
  <2>4. DOMAIN moved = DOMAIN old
    BY <2>3 DEF RuleRow, Rescoped
  <2> HIDE DEF moved
  <2>5. DOMAIN entry = DOMAIN old
    BY <2>4
  <2> HIDE DEF entry, kept
  <2>6. final.exclude = entry.exclude /\ final.steps = kept
    BY <2>3, <2>5 DEF RuleRow
  <2> HIDE DEF final
  <2> QED BY <1>2, <2>1, <2>2, <2>6 DEF Decides
<1>5. ASSUME NEW r \in RuleIds, DeleteRule(r) PROVE Decides(q)'
  BY <1>2, <1>5, NoRuleIs DEF DeleteRule, Decides
<1>6. ASSUME NEW list \in {s \in [1..Cardinality(RuleIds) -> RuleIds] : IsInjective(s)}, Reorder(list)
      PROVE  Decides(q)'
  BY <1>2, <1>6 DEF Reorder, Decides, RuleRow
<1>7. ASSUME NEW u \in OrgUnits, UnitDeleted(u) PROVE Decides(q)'
  BY <1>2, <1>7 DEF UnitDeleted, Decides, RuleRow
<1>8. ASSUME NEW p \in Staff, ApproverLeft(p) PROVE Decides(q)'
  BY <1>2, <1>8 DEF ApproverLeft, Decides, RuleRow
<1>9. ASSUME NEW p \in Staff, ApproverReturned(p) PROVE Decides(q)'
  BY <1>9 DEF ApproverReturned, Decides
<1>10. CASE UNCHANGED ruleVars
  BY <1>10 DEF ruleVars, Decides
<1>11. CASE \E r \in RuleIds, rescope \in BOOLEAN, scope \in Scopes, exclude, cascade \in BOOLEAN,
               switch, on, sent \in BOOLEAN, steps \in Chains \union {<<>>} :
               UpdateRule(r, rescope, scope, exclude, cascade, switch, on, sent, steps)
  <2>1. PICK r \in RuleIds, rescope \in BOOLEAN, scope \in Scopes, exclude \in BOOLEAN,
             cascade \in BOOLEAN, switch \in BOOLEAN, on \in BOOLEAN, sent \in BOOLEAN,
             steps \in Chains \union {<<>>} :
             UpdateRule(r, rescope, scope, exclude, cascade, switch, on, sent, steps)
    BY <1>11, Zenon
  <2> QED BY <1>4, <2>1, SMT
<1>12. CASE \E r \in RuleIds, scope \in Scopes, steps \in Chains \union {<<>>}, cascade, exclude \in BOOLEAN :
               CreateRule(r, scope, steps, cascade, exclude)
  BY <1>3, <1>12, Zenon
<1> QED
  BY <1>5, <1>6, <1>7, <1>8, <1>9, <1>10, <1>11, <1>12, Zenon DEF RuleNext

LEMMA RuleMeans == RulesInv => RuleTypeOK /\ RulesCoverWhomTheyWereGiven
<1>1. RulesInv => RuleTypeOK
  BY DEF RulesInv, RuleTypeOK, RowTypeOK
<1>2. RulesInv => RulesCoverWhomTheyWereGiven
  BY DEF RulesInv, RulesCoverWhomTheyWereGiven, Listed, RowInv
<1> QED BY <1>1, <1>2

(* An approver rule goes on deciding for those it was given, by whom it    *)
(* names, whatever is edited, deleted or left.                             *)
THEOREM RulesTheorem == RuleSpec => RulesStayMeant
<1>1. RuleInit => RulesInv
  BY RuleStart
<1>2. RulesInv /\ [RuleNext]_ruleVars => RulesInv'
  BY RuleStep
<1>3. RulesInv => RuleTypeOK /\ RulesCoverWhomTheyWereGiven
  BY RuleMeans
<1>4. RulesInv /\ RulesInv' /\ [RuleNext]_ruleVars =>
        [\A r \in RuleIds :
          (Decides(r) /\ approverRule'[r].there) =>
              /\ Decides(r)'
              /\ ToSet(approverRule'[r].steps) \cap Staff \subseteq reviewers']_ruleVars
  BY RuleGoesOn
<1> QED BY <1>1, <1>2, <1>3, <1>4, PTL DEF RuleSpec, RulesStayMeant, RulesGoOnDeciding

-----------------------------------------------------------------------------
(* The parents of units: every unit that has one has one that is there,    *)
(* and no set of units keeps its parents to itself, so there is no circle. *)
Hangs(N, up) ==
  /\ \A u \in N : up[u] \in N \union {NoOrgNode}
  /\ \A S \in SUBSET N : S # {} => \E v \in S : up[v] \notin S

ClosedUnder(S, up) == \A w \in S : up[w] \in S \union {NoOrgNode}
Walk(u, up) == {v \in OrgNodes : \A met \in SUBSET OrgNodes : u \in met /\ ClosedUnder(met, up) => v \in met}

Ups == [OrgNodes -> OrgNodes \union {NoOrgNode}]

(* A walk meets where it starts and the parent of all it meets, and stays  *)
(* in every set that does.                                                 *)
LEMMA WalkFacts ==
  ASSUME NEW up \in Ups, NEW u \in OrgNodes
  PROVE  /\ u \in Walk(u, up) /\ Walk(u, up) \subseteq OrgNodes /\ ClosedUnder(Walk(u, up), up)
         /\ \A met \in SUBSET OrgNodes : u \in met /\ ClosedUnder(met, up) => Walk(u, up) \subseteq met
BY DEF Walk, ClosedUnder, Ups

(* Where units hang from the top, a walk from one stays among them and     *)
(* gets there.                                                             *)
LEMMA WalkToTheTop ==
  ASSUME NEW up \in Ups, NEW N \in SUBSET OrgNodes, Hangs(N, up), NEW u \in N
  PROVE  Walk(u, up) \subseteq N /\ \E top \in Walk(u, up) : up[top] = NoOrgNode
<1>1. ClosedUnder(N, up)
  BY DEF Hangs, ClosedUnder
<1>2. Walk(u, up) \subseteq N /\ u \in Walk(u, up) /\ ClosedUnder(Walk(u, up), up)
  BY <1>1, WalkFacts
<1>3. PICK v \in Walk(u, up) : up[v] \notin Walk(u, up)
  BY <1>2 DEF Hangs
<1> QED BY <1>2, <1>3 DEF ClosedUnder

(* A unit may be moved under one whose walk does not meet it.              *)
LEMMA Moved ==
  ASSUME NEW up \in Ups, NEW N \in SUBSET OrgNodes, Hangs(N, up), NEW u \in N,
         NEW p \in N \union {NoOrgNode}, p # NoOrgNode => u \notin Walk(p, up)
  PROVE  Hangs(N, [up EXCEPT ![u] = p])
<1> DEFINE new == [up EXCEPT ![u] = p]
<1>1. \A v \in OrgNodes : new[v] = IF v = u THEN p ELSE up[v]
  BY DEF Ups
<1>2. \A v \in N : new[v] \in N \union {NoOrgNode}
  BY <1>1 DEF Hangs
<1>3. ASSUME NEW S \in SUBSET N, S # {}, \A v \in S : new[v] \in S PROVE FALSE
  <2>1. PICK v \in S : up[v] \notin S
    BY <1>3 DEF Hangs
  <2>2. v = u /\ p \in S /\ p # NoOrgNode /\ p \in OrgNodes
    BY <1>1, <1>3, <2>1, OrgAssumption
  <2> DEFINE T == S \intersect Walk(p, up)
  <2>3. p \in T /\ T \in SUBSET N
    BY <2>2, WalkFacts
  <2>4. PICK w \in T : up[w] \notin T
    BY <2>3 DEF Hangs
  <2>5. w # u /\ up[w] \in S
    BY <1>1, <1>3, <2>2, <2>4
  <2>6. up[w] \in Walk(p, up) \union {NoOrgNode} /\ up[w] # NoOrgNode
    BY <2>2, <2>4, <2>5, WalkFacts, OrgAssumption DEF ClosedUnder
  <2> QED BY <2>4, <2>5, <2>6
<1> QED BY <1>2, <1>3 DEF Hangs

(* A unit is put under one that is there.                                  *)
LEMMA Put ==
  ASSUME NEW up \in Ups, NEW N \in SUBSET OrgNodes, Hangs(N, up), NEW u \in OrgNodes \ N,
         NEW p \in N \union {NoOrgNode}
  PROVE  Hangs(N \union {u}, [up EXCEPT ![u] = p])
<1> DEFINE new == [up EXCEPT ![u] = p]
<1>1. \A v \in OrgNodes : new[v] = IF v = u THEN p ELSE up[v]
  BY DEF Ups
<1>2. \A v \in N \union {u} : new[v] \in (N \union {u}) \union {NoOrgNode}
  BY <1>1 DEF Hangs
<1>3. ASSUME NEW S \in SUBSET (N \union {u}), S # {}, \A v \in S : new[v] \in S PROVE FALSE
  <2>1. S \ {u} \in SUBSET N
    OBVIOUS
  <2>2. CASE S \ {u} = {}
    BY <1>1, <1>3, <2>2, OrgAssumption
  <2>3. CASE S \ {u} # {}
    <3>1. PICK v \in S \ {u} : up[v] \notin S \ {u}
      BY <2>1, <2>3 DEF Hangs
    <3>2. up[v] = u
      BY <1>1, <1>3, <3>1
    <3> QED BY <2>1, <3>1, <3>2, OrgAssumption DEF Hangs
  <2> QED BY <2>2, <2>3
<1> QED BY <1>2, <1>3 DEF Hangs

(* A unit goes, and its parent takes what was under it.                    *)
LEMMA Gone ==
  ASSUME NEW up \in Ups, NEW N \in SUBSET OrgNodes, Hangs(N, up), NEW u \in N,
         NEW new \in Ups,
         \A v \in N \ {u} : new[v] = IF up[v] = u THEN up[u] ELSE up[v]
  PROVE  Hangs(N \ {u}, new) /\ up[u] # u
<1>1. up[u] # u
  <2>1. {u} \in SUBSET N /\ {u} # {}
    OBVIOUS
  <2>2. \E v \in {u} : up[v] \notin {u}
    BY <2>1 DEF Hangs
  <2> QED BY <2>2
<1>2. \A v \in N \ {u} : new[v] \in (N \ {u}) \union {NoOrgNode}
  BY <1>1, OrgAssumption DEF Hangs
<1>3. ASSUME NEW S \in SUBSET (N \ {u}), S # {}, \A v \in S : new[v] \in S PROVE FALSE
  <2>1. CASE \E v \in S : up[v] = u
    <3>1. up[u] \in S
      BY <1>3, <2>1
    <3>2. S \union {u} \in SUBSET N /\ S \union {u} # {}
      OBVIOUS
    <3>3. PICK v \in S \union {u} : up[v] \notin S \union {u}
      BY <3>2 DEF Hangs
    <3> QED BY <1>3, <3>1, <3>3
  <2>2. CASE \A v \in S : up[v] # u
    <3>1. S \in SUBSET N
      OBVIOUS
    <3>2. PICK v \in S : up[v] \notin S
      BY <1>3, <3>1 DEF Hangs
    <3> QED BY <1>3, <2>2, <3>2
  <2> QED BY <2>1, <2>2
<1> QED BY <1>1, <1>2, <1>3 DEF Hangs


Up == [u \in OrgNodes |-> unit[u].parent]
Rows == [OrgNodes -> {"none", "primary", "secondary"}]

(* One person's home and rows say the same, of units that are there.       *)
Agree(h, rows, N) ==
  \A u \in OrgNodes : (rows[u] = "primary" <=> h = u) /\ (rows[u] # "none" => u \in N)

(* The invariant in parts: the types, units under units that are there and *)
(* never in a circle, levels in use, people and rows that agree, heads who *)
(* work here, and rules that are about some unit.                          *)
LevelsInUse == \A u \in Nodes : number[unit[u].level] > 0
RulesAreAboutUnits == \A r \in Rules : rule[r].on => rule[r].scope # {}

OrgInv ==
  /\ OrgTypeOK /\ Hangs(Nodes, Up) /\ LevelsInUse
  /\ \A p \in Persons : Agree(home[p], row[p], Nodes)
  /\ LeadersWorkHere /\ RulesAreAboutUnits

LEMMA UpFacts ==
  ASSUME OrgTypeOK
  PROVE  Up \in Ups /\ Nodes \in SUBSET OrgNodes /\ \A u \in OrgNodes : Walk(u, Up) = Above(u)
<1>1. Up \in Ups
  BY DEF OrgTypeOK, Node, Ups, Up
<1>2. Nodes \in SUBSET OrgNodes
  BY DEF Nodes
<1>3. ASSUME NEW u \in OrgNodes PROVE Walk(u, Up) = Above(u)
  <2>1. \A w \in OrgNodes : Up[w] = unit[w].parent
    BY DEF Up
  <2>2. \A met \in SUBSET OrgNodes : ClosedUnder(met, Up) <=> \A w \in met : unit[w].parent \in met \union {NoOrgNode}
    BY <2>1 DEF ClosedUnder
  <2> QED BY <2>2 DEF Walk, Above
<1> QED BY <1>1, <1>2, <1>3

LEMMA OrgMeans ==
  ASSUME OrgInv PROVE EveryUnitHangsFromTheTop /\ MembershipsAgree /\ LeadersWorkHere /\ OrgTypeOK
<1>1. ASSUME NEW u \in Nodes
      PROVE  Above(u) \subseteq Nodes /\ \E top \in Above(u) : unit[top].parent = NoOrgNode
  <2>1. Above(u) = Walk(u, Up) /\ Nodes \in SUBSET OrgNodes /\ Up \in Ups
    BY UpFacts DEF OrgInv
  <2>2. Walk(u, Up) \subseteq Nodes
    BY <2>1, WalkToTheTop DEF OrgInv
  <2>3. PICK top \in Walk(u, Up) : Up[top] = NoOrgNode
    BY <2>1, WalkToTheTop DEF OrgInv
  <2>4. unit[top].parent = NoOrgNode
    BY <2>1, <2>2, <2>3 DEF Up
  <2> QED BY <2>1, <2>2, <2>4
<1>2. EveryUnitHangsFromTheTop
  BY <1>1 DEF OrgInv, LevelsInUse, EveryUnitHangsFromTheTop
<1>3. MembershipsAgree
  BY DEF OrgInv, Agree, MembershipsAgree
<1> QED BY <1>2, <1>3 DEF OrgInv

LEMMA OrgStart == OrgInit => OrgInv
<1> SUFFICES ASSUME OrgInit PROVE OrgInv
  OBVIOUS
<1>1. Nodes = {}
  BY DEF OrgInit, Nodes, NoNode
<1>2. OrgTypeOK
  <2>1. NoNode \in Node
    BY DEF NoNode, Node
  <2>2. Cardinality(Levels) \in Nat
    BY OrgAssumption, FS_CardinalityType
  <2>3. number \in [Levels -> 0..Cardinality(Levels)]
    BY <2>2 DEF OrgInit
  <2>4. rule \in [Rules -> [scope : SUBSET OrgNodes, on : BOOLEAN]]
    BY DEF OrgInit
  <2> QED BY <2>1, <2>3, <2>4 DEF OrgInit, OrgTypeOK
<1>3. \A p \in Persons : Agree(home[p], row[p], Nodes)
  BY OrgAssumption DEF OrgInit, Agree
<1>4. Hangs(Nodes, Up) /\ LevelsInUse /\ LeadersWorkHere /\ RulesAreAboutUnits
  BY <1>1 DEF OrgInit, Hangs, LevelsInUse, LeadersWorkHere, RulesAreAboutUnits
<1> QED BY <1>2, <1>3, <1>4 DEF OrgInv

(* A member's home and rows after joining, leaving and inheriting.         *)
LEMMA JoinedFacts ==
  ASSUME NEW h \in OrgNodes \union {NoOrgNode}, NEW rows \in Rows, NEW N \in SUBSET OrgNodes,
         Agree(h, rows, N), NEW u \in N
  PROVE  Joined(rows, h, u) \in Rows /\ Agree(u, Joined(rows, h, u), N)
BY DEF Joined, Agree, Rows

LEMMA LeftFacts ==
  ASSUME NEW h \in OrgNodes \union {NoOrgNode}, NEW rows \in Rows, NEW N \in SUBSET OrgNodes,
         Agree(h, rows, N)
  PROVE  Left(rows, h) \in Rows /\ Agree(NoOrgNode, Left(rows, h), N)
BY OrgAssumption DEF Left, Agree, Rows

(* OrgInv when units, levels and heads stay as they are.                   *)
LEMMA PeopleStep ==
  ASSUME OrgInv, UNCHANGED <<number, unit, present, rule>>,
         home' \in [Persons -> OrgNodes \union {NoOrgNode}], row' \in [Persons -> Rows],
         \A p \in Persons : Agree(home'[p], row'[p], Nodes)
  PROVE  OrgInv'
<1>1. Nodes' = Nodes /\ Up' = Up
  BY DEF Nodes, Up
<1>2. LevelsInUse' /\ LeadersWorkHere' /\ RulesAreAboutUnits' /\ Hangs(Nodes', Up')
  BY <1>1 DEF OrgInv, LevelsInUse, LeadersWorkHere, RulesAreAboutUnits
<1>3. OrgTypeOK'
  BY DEF OrgInv, OrgTypeOK, Rows
<1> QED BY <1>1, <1>2, <1>3 DEF OrgInv

(* One person's home and rows.                                             *)
LEMMA PersonStep ==
  ASSUME OrgInv, UNCHANGED <<number, unit, present, rule>>, NEW p \in Persons,
         NEW h \in OrgNodes \union {NoOrgNode}, NEW rows \in Rows, Agree(h, rows, Nodes),
         home' = [home EXCEPT ![p] = h], row' = [row EXCEPT ![p] = rows]
  PROVE  OrgInv'
<1>1. home \in [Persons -> OrgNodes \union {NoOrgNode}] /\ row \in [Persons -> Rows]
  BY DEF OrgInv, OrgTypeOK, Rows
<1>2. home' \in [Persons -> OrgNodes \union {NoOrgNode}] /\ row' \in [Persons -> Rows]
  BY <1>1
<1>3. ASSUME NEW q \in Persons PROVE Agree(home'[q], row'[q], Nodes)
  <2>1. CASE q = p
    BY <1>1, <2>1
  <2>2. CASE q # p
    BY <1>1, <2>2 DEF OrgInv
  <2> QED BY <2>1, <2>2
<1> QED BY <1>2, <1>3, PeopleStep

LEMMA MembersStep ==
  ASSUME OrgInv, NEW p \in Persons, NEW u \in OrgNodes,
         \/ AssignMember(p, u) \/ UnassignMember(p, u)
         \/ AssignSecondaryMember(p, u) \/ RemoveSecondaryMember(p, u)
  PROVE  OrgInv'
<1>1. home[p] \in OrgNodes \union {NoOrgNode} /\ row[p] \in Rows /\ Agree(home[p], row[p], Nodes)
      /\ home \in [Persons -> OrgNodes \union {NoOrgNode}] /\ row \in [Persons -> Rows]
  BY DEF OrgInv, OrgTypeOK, Rows
<1>2. Nodes \in SUBSET OrgNodes
  BY DEF Nodes
<1>3. CASE AssignMember(p, u)
  <2>1. u \in Nodes
    BY <1>3 DEF AssignMember, Nodes
  <2>2. Joined(row[p], home[p], u) \in Rows /\ Agree(u, Joined(row[p], home[p], u), Nodes)
    BY <1>1, <1>2, <2>1, JoinedFacts
  <2> QED BY <1>3, <2>2, PersonStep DEF AssignMember
<1>4. CASE UnassignMember(p, u)
  <2>1. Left(row[p], u) \in Rows /\ Agree(NoOrgNode, Left(row[p], u), Nodes)
    BY <1>1, <1>2, <1>4, LeftFacts DEF UnassignMember
  <2> QED BY <1>4, <2>1, PersonStep DEF UnassignMember
<1>5. CASE AssignSecondaryMember(p, u)
  <2> DEFINE rows == [row[p] EXCEPT ![u] = "secondary"]
  <2>1. rows \in Rows /\ Agree(home[p], rows, Nodes)
    BY <1>1, <1>5 DEF AssignSecondaryMember, Rows, Agree, Nodes
  <2>2. row' = [row EXCEPT ![p] = rows] /\ home' = [home EXCEPT ![p] = home[p]]
        /\ UNCHANGED <<number, unit, present, rule>>
    BY <1>1, <1>5 DEF AssignSecondaryMember
  <2> HIDE DEF rows
  <2> QED BY <1>1, <2>1, <2>2, PersonStep
<1>6. CASE RemoveSecondaryMember(p, u)
  <2> DEFINE rows == [row[p] EXCEPT ![u] = "none"]
  <2>1. rows \in Rows /\ Agree(home[p], rows, Nodes)
    BY <1>1, <1>6 DEF RemoveSecondaryMember, Rows, Agree, Nodes
  <2>2. row' = [row EXCEPT ![p] = rows] /\ home' = [home EXCEPT ![p] = home[p]]
        /\ UNCHANGED <<number, unit, present, rule>>
    BY <1>1, <1>6 DEF RemoveSecondaryMember
  <2> HIDE DEF rows
  <2> QED BY <1>1, <2>1, <2>2, PersonStep
<1> QED BY <1>3, <1>4, <1>5, <1>6

LEMMA LevelsStep == ASSUME OrgInv, SetLevels PROVE OrgInv'
<1>1. PICK wanted \in UNION {[1..n -> Levels] : n \in 1..Cardinality(Levels)} :
        /\ \A u \in Nodes : unit[u].level \in ToSet(wanted)
        /\ number' = [l \in Levels |-> IF l \in ToSet(wanted)
                                       THEN CHOOSE i \in DOMAIN wanted : wanted[i] = l
                                       ELSE 0]
  BY DEF SetLevels
<1>2. PICK n \in 1..Cardinality(Levels) : wanted \in [1..n -> Levels]
  BY <1>1
<1>3. Cardinality(Levels) \in Nat /\ n \in Nat
  BY OrgAssumption, FS_CardinalityType
<1>4. \A l \in Levels : l \in ToSet(wanted) => number'[l] \in 1..n
  BY <1>1, <1>2 DEF ToSet
<1>5. ASSUME NEW l \in Levels PROVE number'[l] \in 0..Cardinality(Levels)
  <2>1. CASE l \in ToSet(wanted)
    BY <1>3, <1>4, <2>1
  <2>2. CASE l \notin ToSet(wanted)
    <3>1. number'[l] = 0
      BY <1>1, <2>2
    <3> QED BY <1>3, <3>1
  <2> QED BY <2>1, <2>2
<1>6. ToSet(wanted) \subseteq Levels
  BY <1>2 DEF ToSet
<1>7. UNCHANGED <<unit, home, row, present, rule>> /\ Nodes' = Nodes /\ Up' = Up
  BY DEF SetLevels, Nodes, Up
<1>8. ASSUME NEW u \in Nodes PROVE number'[unit[u].level] > 0
  <2>1. number'[unit[u].level] \in 1..n
    BY <1>1, <1>4, <1>6
  <2> QED BY <1>3, <2>1
<1>11. LevelsInUse'
  BY <1>7, <1>8 DEF LevelsInUse
<1>9. number' \in [Levels -> 0..Cardinality(Levels)]
  BY <1>1, <1>5
<1>10. OrgTypeOK'
  BY <1>7, <1>9 DEF OrgInv, OrgTypeOK
<1> QED BY <1>7, <1>10, <1>11 DEF OrgInv, LeadersWorkHere, RulesAreAboutUnits

(* OrgInv when only units are written.                                     *)
LEMMA UnitsStep ==
  ASSUME OrgInv, UNCHANGED <<number, home, row, present, rule>>,
         unit' \in [OrgNodes -> Node], Nodes \subseteq Nodes', Hangs(Nodes', Up'),
         LevelsInUse', LeadersWorkHere'
  PROVE  OrgInv'
<1>1. \A p \in Persons : Agree(home'[p], row'[p], Nodes')
  BY DEF OrgInv, Agree
<1>2. OrgTypeOK'
  BY DEF OrgInv, OrgTypeOK
<1>3. RulesAreAboutUnits'
  BY DEF OrgInv, RulesAreAboutUnits
<1> QED BY <1>1, <1>2, <1>3 DEF OrgInv

LEMMA CreateStep == ASSUME OrgInv, NEW u \in OrgNodes, CreateNode(u) PROVE OrgInv'
<1>1. PICK l \in Levels, parent \in Nodes \union {NoOrgNode},
           led \in [Posts -> Persons \union {NoPerson}] :
        /\ number[l] > 0 /\ MayLead(led)
        /\ unit' = [unit EXCEPT ![u] = [there |-> TRUE, level |-> l, parent |-> parent, led |-> led]]
  BY DEF CreateNode
<1> DEFINE new == [there |-> TRUE, level |-> l, parent |-> parent, led |-> led]
<1>2. u \notin Nodes /\ UNCHANGED <<number, home, row, present, rule>>
  BY DEF CreateNode, Nodes
<1>3. unit \in [OrgNodes -> Node] /\ Up \in Ups /\ Nodes \in SUBSET OrgNodes
  BY UpFacts DEF OrgInv, OrgTypeOK
<1>4. new \in Node /\ new.there /\ new.level = l /\ new.parent = parent /\ new.led = led
  BY <1>1, <1>3 DEF Node
<1> HIDE DEF new
<1>5. unit' \in [OrgNodes -> Node] /\ \A v \in OrgNodes : unit'[v] = IF v = u THEN new ELSE unit[v]
  BY <1>1, <1>3, <1>4 DEF new
<1>6. Nodes' = Nodes \union {u}
  BY <1>4, <1>5 DEF Nodes
<1>7. Up' = [Up EXCEPT ![u] = parent]
  BY <1>4, <1>5 DEF Up
<1>8. Hangs(Nodes', Up')
  BY <1>1, <1>2, <1>3, <1>6, <1>7, Put DEF OrgInv
<1>9. LevelsInUse'
  BY <1>1, <1>2, <1>3, <1>4, <1>5, <1>6 DEF LevelsInUse, OrgInv
<1>10. LeadersWorkHere'
  BY <1>1, <1>2, <1>3, <1>4, <1>5, <1>6 DEF LeadersWorkHere, MayLead, OrgInv
<1> QED BY <1>2, <1>5, <1>6, <1>8, <1>9, <1>10, UnitsStep

LEMMA UpdateStep == ASSUME OrgInv, NEW u \in OrgNodes, UpdateNode(u) PROVE OrgInv'
<1>1. PICK parent \in Nodes \union {NoOrgNode}, led \in [Posts -> Persons \union {NoPerson}] :
        /\ parent # unit[u].parent => (parent # NoOrgNode => u \notin Above(parent))
        /\ MayLead(led)
        /\ unit' = [unit EXCEPT ![u].parent = parent, ![u].led = led]
  BY DEF UpdateNode
<1>2. u \in Nodes /\ UNCHANGED <<number, home, row, present, rule>>
  BY DEF UpdateNode, Nodes
<1>3. unit \in [OrgNodes -> Node] /\ Up \in Ups /\ Nodes \in SUBSET OrgNodes
      /\ \A v \in OrgNodes : Walk(v, Up) = Above(v)
  BY UpFacts DEF OrgInv, OrgTypeOK
<1> DEFINE new == [unit[u] EXCEPT !.parent = parent, !.led = led]
<1>4. /\ new \in Node /\ new.there = unit[u].there /\ new.level = unit[u].level
      /\ new.parent = parent /\ new.led = led
  BY <1>1, <1>3 DEF Node
<1>5. unit' = [unit EXCEPT ![u] = new]
  BY <1>1, <1>3 DEF Node
<1> HIDE DEF new
<1>6. unit' \in [OrgNodes -> Node] /\ \A v \in OrgNodes : unit'[v] = IF v = u THEN new ELSE unit[v]
  BY <1>3, <1>4, <1>5
<1>7. Nodes' = Nodes
  BY <1>4, <1>6 DEF Nodes
<1>8. Up' = [Up EXCEPT ![u] = parent]
  BY <1>4, <1>6 DEF Up
<1>9. Hangs(Nodes', Up')
  <2>1. CASE parent = unit[u].parent
    <3>1. Up' = Up
      BY <1>2, <1>3, <1>8, <2>1 DEF Up
    <3> QED BY <1>7, <3>1 DEF OrgInv
  <2>2. CASE parent # unit[u].parent
    <3>1. parent # NoOrgNode => u \notin Walk(parent, Up)
      BY <1>1, <1>3, <2>2
    <3> QED BY <1>1, <1>2, <1>3, <1>7, <1>8, <3>1, Moved DEF OrgInv
  <2> QED BY <2>1, <2>2
<1>10. LevelsInUse'
  BY <1>2, <1>3, <1>4, <1>6, <1>7 DEF LevelsInUse, OrgInv
<1>11. LeadersWorkHere'
  BY <1>1, <1>2, <1>3, <1>4, <1>6, <1>7 DEF LeadersWorkHere, MayLead, OrgInv
<1> QED BY <1>2, <1>6, <1>7, <1>9, <1>10, <1>11, UnitsStep

(* What a parent inherits from a unit that goes.                           *)
LEMMA InheritedFacts ==
  ASSUME OrgTypeOK, NEW p \in Persons, NEW u \in Nodes, NEW parent \in (Nodes \ {u}) \union {NoOrgNode},
         Agree(home[p], row[p], Nodes)
  PROVE  /\ Inherited(p, u, parent) \in Rows
         /\ Agree(IF home[p] = u THEN parent ELSE home[p], Inherited(p, u, parent), Nodes \ {u})
         /\ parent # NoOrgNode /\ row[p][u] # "none" => Inherited(p, u, parent)[parent] # "none"
<1> DEFINE moved == IF home[p] = u
                    THEN IF parent = NoOrgNode THEN Left(row[p], u) ELSE Joined(row[p], u, parent)
                    ELSE row[p]
           new == IF home[p] = u THEN parent ELSE home[p]
<1>1. home[p] \in OrgNodes \union {NoOrgNode} /\ row[p] \in Rows /\ Nodes \in SUBSET OrgNodes
  BY DEF OrgTypeOK, Rows, Nodes
<1>2. new \in OrgNodes \union {NoOrgNode} /\ new # u
  BY <1>1, OrgAssumption
<1>3. moved \in Rows /\ Agree(new, moved, Nodes)
  BY <1>1, JoinedFacts, LeftFacts
<1>4. parent # NoOrgNode /\ row[p][u] # "none" => moved[u] # "none" \/ moved[parent] # "none"
  <2>1. CASE home[p] = u /\ parent # NoOrgNode
    BY <1>1, <2>1 DEF Joined
  <2>2. CASE ~(home[p] = u /\ parent # NoOrgNode)
    BY <1>1, <2>2
  <2> QED BY <2>1, <2>2
<1>5. Inherited(p, u, parent) = [v \in OrgNodes |-> IF v = u THEN "none"
                        ELSE IF v = parent /\ moved[v] = "none" THEN moved[u]
                        ELSE moved[v]]
  BY DEF Inherited
<1> HIDE DEF moved, new
<1>6. Inherited(p, u, parent) \in Rows
  BY <1>1, <1>3, <1>5 DEF Rows
<1>7. Agree(new, Inherited(p, u, parent), Nodes \ {u})
  BY <1>1, <1>2, <1>3, <1>5, OrgAssumption DEF Agree, Rows
<1>8. parent # NoOrgNode /\ row[p][u] # "none" => Inherited(p, u, parent)[parent] # "none"
  BY <1>1, <1>3, <1>4, <1>5 DEF Agree, Rows
<1> QED BY <1>6, <1>7, <1>8 DEF new

(* What happens to the units when one goes.                                *)
LEMMA DeleteFacts ==
  ASSUME OrgInv, NEW u \in OrgNodes, DeleteNode(u)
  PROVE  /\ u \in Nodes /\ unit[u].parent \in (Nodes \ {u}) \union {NoOrgNode}
         /\ Nodes' = Nodes \ {u} /\ unit' \in [OrgNodes -> Node] /\ Hangs(Nodes', Up')
         /\ \A v \in Nodes' : /\ unit'[v].level = unit[v].level /\ unit'[v].led = unit[v].led
                              /\ v \in Children(u) => unit'[v].parent = unit[u].parent
<1> DEFINE parent == unit[u].parent
<1>1. /\ u \in Nodes
      /\ unit' = [v \in OrgNodes |-> IF v = u THEN NoNode
                                ELSE IF v \in Children(u) THEN [unit[v] EXCEPT !.parent = parent]
                                ELSE unit[v]]
  BY DEF DeleteNode, Nodes
<1>2. unit \in [OrgNodes -> Node] /\ Up \in Ups /\ Nodes \in SUBSET OrgNodes
  BY UpFacts DEF OrgInv, OrgTypeOK
<1>3. parent \in OrgNodes \union {NoOrgNode} /\ parent = Up[u]
  BY <1>1, <1>2 DEF Node, Up
<1>4. NoNode \in Node /\ ~NoNode.there
  BY DEF NoNode, Node
<1>5. ASSUME NEW v \in OrgNodes, v # u
      PROVE  /\ unit'[v] \in Node /\ unit'[v].there = unit[v].there
             /\ unit'[v].level = unit[v].level /\ unit'[v].led = unit[v].led
             /\ v \in Children(u) => unit'[v].parent = parent
             /\ v \notin Children(u) => unit'[v].parent = unit[v].parent
  <2>1. CASE v \in Children(u)
    <3>1. unit[v] \in Node /\ unit'[v] = [unit[v] EXCEPT !.parent = parent]
      BY <1>1, <1>2, <1>5, <2>1
    <3> QED BY <1>3, <2>1, <3>1 DEF Node
  <2>2. CASE v \notin Children(u)
    BY <1>1, <1>2, <1>5, <2>2
  <2> QED BY <2>1, <2>2
<1>6. unit'[u] = NoNode
  BY <1>1
<1>7. unit' \in [OrgNodes -> Node]
  BY <1>1, <1>4, <1>5, <1>6
<1>8. Nodes' = Nodes \ {u}
  BY <1>4, <1>5, <1>6 DEF Nodes
<1>9. Up' \in Ups
  BY <1>7 DEF Up, Ups, Node
<1>10. \A v \in Nodes \ {u} : Up'[v] = IF Up[v] = u THEN Up[u] ELSE Up[v]
  BY <1>2, <1>3, <1>5 DEF Up, Children
<1>11. Hangs(Nodes \ {u}, Up') /\ Up[u] # u
  BY <1>1, <1>2, <1>9, <1>10, Gone DEF OrgInv
<1>12. parent \in (Nodes \ {u}) \union {NoOrgNode}
  BY <1>1, <1>3, <1>11 DEF OrgInv, Hangs
<1> QED BY <1>1, <1>2, <1>5, <1>7, <1>8, <1>11, <1>12

LEMMA DeleteStep == ASSUME OrgInv, NEW u \in OrgNodes, DeleteNode(u) PROVE OrgInv'
<1> DEFINE parent == unit[u].parent
<1>1. /\ u \in Nodes /\ parent \in (Nodes \ {u}) \union {NoOrgNode} /\ Nodes' = Nodes \ {u}
      /\ unit' \in [OrgNodes -> Node] /\ Hangs(Nodes', Up')
      /\ \A v \in Nodes' : unit'[v].level = unit[v].level /\ unit'[v].led = unit[v].led
  BY DeleteFacts
<1>2. /\ home' = [p \in Persons |-> IF home[p] = u THEN parent ELSE home[p]]
      /\ row' = [p \in Persons |-> Inherited(p, u, parent)]
      /\ rule' = [r \in Rules |-> [scope |-> rule[r].scope \ {u},
                                   on |-> rule[r].on /\ rule[r].scope # {u}]]
      /\ UNCHANGED <<number, present>>
  BY DEF DeleteNode
<1> HIDE DEF parent
<1>3. ASSUME NEW p \in Persons
      PROVE  Inherited(p, u, parent) \in Rows /\ Agree(home'[p], Inherited(p, u, parent), Nodes')
  BY <1>1, <1>2, InheritedFacts DEF OrgInv
<1>4. \A p \in Persons : Agree(home'[p], row'[p], Nodes')
  BY <1>2, <1>3
<1>5. row' \in [Persons -> Rows] /\ home' \in [Persons -> OrgNodes \union {NoOrgNode}]
  BY <1>1, <1>2, <1>3 DEF OrgInv, OrgTypeOK, Nodes
<1>6. rule' \in [Rules -> [scope : SUBSET OrgNodes, on : BOOLEAN]]
  BY <1>2 DEF OrgInv, OrgTypeOK
<1>7. OrgTypeOK'
  BY <1>1, <1>2, <1>5, <1>6 DEF OrgInv, OrgTypeOK, Rows
<1>8. LevelsInUse' /\ LeadersWorkHere'
  BY <1>1, <1>2 DEF OrgInv, LevelsInUse, LeadersWorkHere
<1>9. RulesAreAboutUnits'
  BY <1>2 DEF OrgInv, RulesAreAboutUnits
<1> QED BY <1>1, <1>4, <1>7, <1>8, <1>9 DEF OrgInv

LEMMA LeaverStep == ASSUME OrgInv, NEW p \in Persons, Separated(p) PROVE OrgInv'
<1> DEFINE left(u) == [unit[u] EXCEPT !.led = [q \in Posts |-> IF @[q] = p THEN NoPerson ELSE @[q]]]
<1>1. unit \in [OrgNodes -> Node]
  BY DEF OrgInv, OrgTypeOK
<1>2. /\ present' = present \ {p} /\ unit' = [u \in OrgNodes |-> left(u)]
      /\ UNCHANGED <<number, home, row, rule>>
  BY DEF Separated
<1>3. ASSUME NEW u \in OrgNodes
      PROVE  /\ left(u) \in Node /\ left(u).there = unit[u].there /\ left(u).parent = unit[u].parent
             /\ left(u).level = unit[u].level
             /\ \A q \in Posts : left(u).led[q] = IF unit[u].led[q] = p THEN NoPerson ELSE unit[u].led[q]
  <2>1. unit[u] \in Node /\ unit[u].led \in [Posts -> Persons \union {NoPerson}]
    BY <1>1 DEF Node
  <2> DEFINE led == [q \in Posts |-> IF unit[u].led[q] = p THEN NoPerson ELSE unit[u].led[q]]
  <2>2. led \in [Posts -> Persons \union {NoPerson}]
    BY <2>1
  <2>3. left(u) = [unit[u] EXCEPT !.led = led]
    BY <2>1 DEF Node
  <2>4. \A q \in Posts : led[q] = IF unit[u].led[q] = p THEN NoPerson ELSE unit[u].led[q]
    OBVIOUS
  <2> HIDE DEF led, left
  <2>5. left(u) \in Node /\ left(u).led = led /\ left(u).there = unit[u].there
        /\ left(u).parent = unit[u].parent /\ left(u).level = unit[u].level
    BY <2>1, <2>2, <2>3 DEF Node
  <2> QED BY <2>4, <2>5
<1> HIDE DEF left
<1>4. \A u \in OrgNodes : unit'[u] = left(u)
  BY <1>2
<1>5. unit' \in [OrgNodes -> Node] /\ Nodes' = Nodes /\ Up' = Up
  BY <1>2, <1>3, <1>4 DEF Nodes, Up
<1>6. LevelsInUse'
  BY <1>2, <1>3, <1>4, <1>5 DEF OrgInv, LevelsInUse, Nodes
<1>7. LeadersWorkHere'
  BY <1>2, <1>3, <1>4, <1>5 DEF OrgInv, LeadersWorkHere, Nodes
<1>8. OrgTypeOK' /\ RulesAreAboutUnits'
  BY <1>2, <1>5 DEF OrgInv, OrgTypeOK, RulesAreAboutUnits
<1>9. \A q \in Persons : Agree(home'[q], row'[q], Nodes')
  BY <1>2, <1>5 DEF OrgInv
<1> QED BY <1>5, <1>6, <1>7, <1>8, <1>9 DEF OrgInv

LEMMA OrgStep == OrgInv /\ [OrgNext]_orgVars => OrgInv'
<1> SUFFICES ASSUME OrgInv, [OrgNext]_orgVars PROVE OrgInv'
  OBVIOUS
<1>1. ASSUME NEW r \in Rules, WriteRule(r) PROVE OrgInv'
  <2>1. PICK scope \in (SUBSET Nodes) \ {{}} : rule' = [rule EXCEPT ![r] = [scope |-> scope, on |-> TRUE]]
    BY <1>1 DEF WriteRule
  <2>2. UNCHANGED <<number, unit, home, row, present>> /\ Nodes' = Nodes /\ Up' = Up
    BY <1>1 DEF WriteRule, Nodes, Up
  <2>3. OrgTypeOK'
    BY <2>1, <2>2 DEF OrgInv, OrgTypeOK, Nodes
  <2>4. RulesAreAboutUnits'
    <3>1. rule \in [Rules -> [scope : SUBSET OrgNodes, on : BOOLEAN]] /\ RulesAreAboutUnits
      BY DEF OrgInv, OrgTypeOK
    <3>2. ASSUME NEW s \in Rules, rule'[s].on PROVE rule'[s].scope # {}
      <4>1. CASE s = r
        BY <2>1, <3>1, <4>1
      <4>2. CASE s # r
        BY <2>1, <3>1, <3>2, <4>2 DEF RulesAreAboutUnits
      <4> QED BY <4>1, <4>2
    <3> QED BY <3>2 DEF RulesAreAboutUnits
  <2> QED BY <2>2, <2>3, <2>4 DEF OrgInv, LevelsInUse, LeadersWorkHere
<1>2. ASSUME NEW p \in Persons, Reinstated(p) PROVE OrgInv'
  <2>1. present' = present \union {p} /\ UNCHANGED <<number, unit, home, row, rule>>
        /\ Nodes' = Nodes /\ Up' = Up
    BY <1>2 DEF Reinstated, Nodes, Up
  <2> QED BY <2>1 DEF OrgInv, OrgTypeOK, LevelsInUse, LeadersWorkHere, RulesAreAboutUnits
<1>3. CASE UNCHANGED orgVars
  <2>1. UNCHANGED <<number, unit, home, row, present, rule>> /\ Nodes' = Nodes /\ Up' = Up
    BY <1>3 DEF orgVars, Nodes, Up
  <2> QED BY <2>1 DEF OrgInv, OrgTypeOK, LevelsInUse, LeadersWorkHere, RulesAreAboutUnits
<1> HIDE DEF OrgInv
<1>4. CASE SetLevels
  BY <1>4, LevelsStep
<1>5. CASE \E u \in OrgNodes : CreateNode(u) \/ UpdateNode(u) \/ DeleteNode(u)
  BY <1>5, CreateStep, UpdateStep, DeleteStep
<1>6. CASE \E p \in Persons, u \in OrgNodes : \/ AssignMember(p, u)
                                      \/ UnassignMember(p, u)
                                      \/ AssignSecondaryMember(p, u)
                                      \/ RemoveSecondaryMember(p, u)
  BY <1>6, MembersStep
<1>7. CASE \E p \in Persons : Separated(p) \/ Reinstated(p)
  BY <1>2, <1>7, LeaverStep
<1> QED BY <1>1, <1>3, <1>4, <1>5, <1>6, <1>7 DEF OrgNext

(* Only a deletion takes a unit away, and what it leaves behind.           *)
LEMMA OnlyDeletionTakes ==
  ASSUME OrgInv, [OrgNext]_orgVars, NEW u \in Nodes, u \notin Nodes' PROVE DeleteNode(u)
<1>1. unit \in [OrgNodes -> Node] /\ u \in OrgNodes /\ unit[u].there
  BY DEF OrgInv, OrgTypeOK, Nodes
<1>2. ~unit'[u].there
  BY <1>1 DEF Nodes
<1>3. ASSUME NEW v \in OrgNodes, DeleteNode(v) PROVE v = u
  BY <1>3, DeleteFacts
<1>4. CASE unit' = unit
  BY <1>1, <1>2, <1>4
<1>5. ASSUME NEW v \in OrgNodes, CreateNode(v) PROVE unit'[u].there
  BY <1>1, <1>5 DEF CreateNode
<1>6. ASSUME NEW v \in OrgNodes, UpdateNode(v) PROVE unit'[u].there
  BY <1>1, <1>6 DEF UpdateNode, Node
<1>7. ASSUME NEW p \in Persons, Separated(p) PROVE unit'[u].there
  BY <1>1, <1>7 DEF Separated, Node
<1>8. CASE UNCHANGED orgVars \/ SetLevels \/ (\E r \in Rules : WriteRule(r))
           \/ (\E p \in Persons : Reinstated(p))
  BY <1>4, <1>8 DEF orgVars, SetLevels, WriteRule, Reinstated
<1>9. CASE \E p \in Persons, v \in OrgNodes : \/ AssignMember(p, v)
                                      \/ UnassignMember(p, v)
                                      \/ AssignSecondaryMember(p, v)
                                      \/ RemoveSecondaryMember(p, v)
  BY <1>4, <1>9 DEF AssignMember, UnassignMember, AssignSecondaryMember, RemoveSecondaryMember
<1> QED BY <1>2, <1>3, <1>5, <1>6, <1>7, <1>8, <1>9 DEF OrgNext

LEMMA DeletionLoses ==
  ASSUME OrgInv, [OrgNext]_orgVars, NEW u \in Nodes \ Nodes', NEW parent, parent = unit[u].parent
  PROVE  /\ Nodes' = Nodes \ {u}
         /\ \A v \in Children(u) : unit'[v].parent = parent
         /\ parent # NoOrgNode =>
                 \A p \in Persons : row[p][u] # "none" => row'[p][parent] # "none"
         /\ \A r \in Rules : rule'[r].on => rule'[r].scope # {}
<1>1. DeleteNode(u) /\ u \in OrgNodes
  BY OnlyDeletionTakes DEF Nodes
<1>2. /\ parent \in (Nodes \ {u}) \union {NoOrgNode} /\ Nodes' = Nodes \ {u}
      /\ \A v \in Nodes' : v \in Children(u) => unit'[v].parent = parent
  BY <1>1, DeleteFacts
<1>3. \A v \in Children(u) : v \in Nodes'
  BY <1>1, <1>2, OrgAssumption DEF Children
<1>4. parent # NoOrgNode => \A p \in Persons : row[p][u] # "none" => row'[p][parent] # "none"
  <2>1. row' = [p \in Persons |-> Inherited(p, u, parent)]
    BY <1>1 DEF DeleteNode
  <2>2. ASSUME NEW p \in Persons, parent # NoOrgNode, row[p][u] # "none"
        PROVE  Inherited(p, u, parent)[parent] # "none"
    BY <1>2, <2>2, InheritedFacts DEF OrgInv
  <2> QED BY <2>1, <2>2
<1>5. \A r \in Rules : rule'[r].on => rule'[r].scope # {}
  BY OrgStep DEF OrgInv, RulesAreAboutUnits
<1> QED BY <1>2, <1>3, <1>4, <1>5

(* The chart stays a tree of units led by and made of people who work      *)
(* here, and deleting a unit loses nothing but the unit.                   *)
THEOREM ChartTheorem == OrgSpec => TheChartStaysWhole
<1>1. OrgInit => OrgInv
  BY OrgStart
<1>2. OrgInv /\ [OrgNext]_orgVars => OrgInv'
  BY OrgStep
<1>3. OrgInv => OrgTypeOK /\ EveryUnitHangsFromTheTop /\ MembershipsAgree /\ LeadersWorkHere
  BY OrgMeans
<1>4. OrgInv /\ [OrgNext]_orgVars =>
        [\A u \in Nodes \ Nodes' :
          LET parent == unit[u].parent IN
          /\ Nodes' = Nodes \ {u}
          /\ \A v \in Children(u) : unit'[v].parent = parent
          /\ parent # NoOrgNode =>
                 \A p \in Persons : row[p][u] # "none" => row'[p][parent] # "none"
          /\ \A r \in Rules : rule'[r].on => rule'[r].scope # {}]_orgVars
  BY DeletionLoses
<1> QED BY <1>1, <1>2, <1>3, <1>4, PTL DEF OrgSpec, TheChartStaysWhole, DeletingLosesNothing

-----------------------------------------------------------------------------
(* The units under some are in every set that has those and, with a unit,  *)
(* the active ones under it.                                               *)
LEMMA BelowFacts ==
  ASSUME VisibilityTypeOK, NEW teams \in SUBSET Teams
  PROVE  /\ Below(teams) \in SUBSET Teams
         /\ \A ruled \in SUBSET Teams :
              teams \subseteq ruled /\ (\A t \in running : under[t] \in ruled => t \in ruled)
                => Below(teams) \subseteq ruled
<1> DEFINE next(S) == S \union {t \in running : under[t] \in S}
           F == [x \in Nat \X SUBSET Teams |-> next(x[2])]
           Layers(r) == r = [n \in Nat |-> IF n = 0 THEN teams
                                           ELSE r[n - 1] \union {t \in running : under[t] \in r[n - 1]}]
           reach == CHOOSE r : Layers(r)
<1>1. running \subseteq Teams
  BY DEF VisibilityTypeOK
<1>2. F \in [Nat \X SUBSET Teams -> SUBSET Teams]
  BY <1>1
<1>3. PICK f \in [Nat -> SUBSET Teams] : Leads(f, teams, F)
  BY <1>2, Recursion
<1>4. f[0] = teams /\ \A n \in Nat : f[n + 1] = next(f[n])
  BY <1>3 DEF Leads
<1>5. Layers(f)
  <2>1. ASSUME NEW n \in Nat PROVE f[n] = IF n = 0 THEN teams ELSE next(f[n - 1])
    <3>1. CASE n = 0
      BY <1>4, <3>1
    <3>2. CASE n # 0
      <4>1. n - 1 \in Nat /\ (n - 1) + 1 = n
        BY <3>2
      <4>2. f[(n - 1) + 1] = next(f[n - 1])
        BY <1>4, <4>1
      <4> QED BY <3>2, <4>1, <4>2
    <3> QED BY <3>1, <3>2
  <2> QED BY <2>1
<1> HIDE DEF Layers
<1>6. Layers(reach)
  BY <1>5
<1>7. Below(teams) = reach[Cardinality(Teams)]
  BY DEF Below, Layers
<1> HIDE DEF reach
<1>8. reach[0] = teams /\ \A n \in Nat : reach[n + 1] = next(reach[n])
  <2>1. reach = [n \in Nat |-> IF n = 0 THEN teams ELSE next(reach[n - 1])]
    BY <1>6 DEF Layers
  <2>2. ASSUME NEW n \in Nat PROVE reach[n + 1] = next(reach[n])
    <3>1. n + 1 \in Nat /\ n + 1 # 0 /\ (n + 1) - 1 = n
      OBVIOUS
    <3> HIDE DEF next
    <3>2. reach[n + 1] = next(reach[(n + 1) - 1])
      BY <2>1, <3>1
    <3> QED BY <3>1, <3>2
  <2>3. reach[0] = teams
    BY <2>1
  <2> QED BY <2>2, <2>3
<1>9. ASSUME NEW ruled \in SUBSET Teams, teams \subseteq ruled,
             \A t \in running : under[t] \in ruled => t \in ruled
      PROVE  Below(teams) \subseteq ruled
  <2> DEFINE T == {n \in Nat : reach[n] \subseteq ruled}
  <2>1. 0 \in T
    BY <1>8, <1>9
  <2>2. ASSUME NEW n \in Nat, n \in T PROVE n + 1 \in T
    BY <1>8, <1>9, <2>2
  <2> HIDE DEF T
  <2>3. \A n \in Nat : n \in T
    BY <2>1, <2>2, Induction
  <2>4. Cardinality(Teams) \in Nat
    BY VisibilityAssumption, FS_CardinalityType
  <2> QED BY <1>7, <2>3, <2>4 DEF T
<1>10. Below(teams) \in SUBSET Teams
  BY <1>1, <1>9
<1> QED BY <1>9, <1>10

(* Whoever a planner or a head manages works for them.                     *)
LEMMA ManagedFacts ==
  ASSUME VisibilityTypeOK, NEW e \in Members
  PROVE  /\ Managed(e) \subseteq Visible(e) /\ Managed(e) \subseteq Members
         /\ \A x \in Managed(e) : WorksFor(x, e)
<1>1. LedBy(e) \in SUBSET Teams
  BY DEF LedBy, VisibilityTypeOK
<1>2. hired \subseteq Members
  BY DEF VisibilityTypeOK
<1>3. Managed(e) \subseteq Members
  BY <1>2 DEF Managed, MembersOf
<1>4. Managed(e) \subseteq Visible(e)
  BY <1>3 DEF Managed, Visible, MembersOf, SeesEveryone
<1>5. ASSUME NEW x \in Managed(e), x # e, e \notin planners PROVE WorksFor(x, e)
  <2>1. x \in hired /\ x \in Members /\ (base[x] \in Below(LedBy(e)) \/ also[x] \intersect Below(LedBy(e)) # {})
    BY <1>2, <1>5 DEF Managed, MembersOf
  <2>2. ASSUME NEW ruled \in SUBSET Teams, LedBy(e) \subseteq ruled,
               \A t \in running : under[t] \in ruled => t \in ruled
        PROVE  TeamsOf(x) \intersect ruled # {}
    <3>1. Below(LedBy(e)) \subseteq ruled
      BY <1>1, <2>2, BelowFacts
    <3> QED BY <2>1, <3>1, VisibilityAssumption DEF TeamsOf
  <2> QED BY <2>1, <2>2 DEF WorksFor
<1>6. \A x \in Managed(e) : WorksFor(x, e)
  BY <1>5 DEF WorksFor
<1> QED BY <1>3, <1>4, <1>6

LEMMA VisibilityStart == VisibilityInit => VisibilityTypeOK
BY VisibilityAssumption DEF VisibilityInit, VisibilityTypeOK, Modes, Nothing

LEMMA ChangesStep ==
  ASSUME VisibilityTypeOK, changes < MostChanges, changes' = changes + 1
  PROVE  changes' \in 0..MostChanges
BY VisibilityAssumption DEF VisibilityTypeOK

LEMMA ReorganizeStep == ASSUME VisibilityTypeOK, Reorganize PROVE VisibilityTypeOK'
<1>1. changes' \in 0..MostChanges
  BY ChangesStep DEF Reorganize
<1>2. UNCHANGED <<asks, page, cleared>>
  BY DEF Reorganize
<1>3. CASE \E t \in Teams, v \in Teams \union {NoTeam} :
              /\ under' = [under EXCEPT ![t] = v]
              /\ UNCHANGED <<running, leads, base, also, hired, sight, standard, grant, planners>>
  BY <1>1, <1>2, <1>3 DEF VisibilityTypeOK
<1>4. CASE \E t \in Teams :
              /\ running' = IF t \in running THEN running \ {t} ELSE running \union {t}
              /\ UNCHANGED <<under, leads, base, also, hired, sight, standard, grant, planners>>
  BY <1>1, <1>2, <1>4 DEF VisibilityTypeOK
<1>5. CASE \E t \in Teams, e \in hired \union {Nobody} :
              /\ leads' = [leads EXCEPT ![t] = e]
              /\ UNCHANGED <<under, running, base, also, hired, sight, standard, grant, planners>>
  BY <1>1, <1>2, <1>5 DEF VisibilityTypeOK
<1>6. CASE \E e \in Members, t \in running \union {NoTeam} :
              /\ base' = [base EXCEPT ![e] = t]
              /\ UNCHANGED <<under, running, leads, also, hired, sight, standard, grant, planners>>
  BY <1>1, <1>2, <1>6 DEF VisibilityTypeOK
<1>7. CASE \E e \in Members, t \in Teams :
              /\ also' = [also EXCEPT ![e] = IF t \in @ THEN @ \ {t} ELSE @ \union {t}]
              /\ UNCHANGED <<under, running, leads, base, hired, sight, standard, grant, planners>>
  BY <1>1, <1>2, <1>7 DEF VisibilityTypeOK
<1> QED BY <1>3, <1>4, <1>5, <1>6, <1>7 DEF Reorganize

LEMMA StaffStep == ASSUME VisibilityTypeOK, ChangeStaff PROVE VisibilityTypeOK'
<1>1. changes' \in 0..MostChanges
  BY ChangesStep DEF ChangeStaff
<1>2. UNCHANGED <<under, running, base, also, sight, standard, grant, asks, page, cleared>>
  BY DEF ChangeStaff
<1>3. hired' \subseteq Members /\ planners' \subseteq Members /\ leads' \in [Teams -> Members \union {Nobody}]
  BY DEF ChangeStaff, VisibilityTypeOK
<1> QED BY <1>1, <1>2, <1>3 DEF VisibilityTypeOK

LEMMA SightStep == ASSUME VisibilityTypeOK, SetSight PROVE VisibilityTypeOK'
<1>1. changes' \in 0..MostChanges
  BY ChangesStep DEF SetSight
<1>2. UNCHANGED <<under, running, leads, base, also, hired, asks, planners, page, cleared>>
  BY DEF SetSight
<1>3. CASE \E t \in Teams, mode \in Modes \union {"inherit"} :
              sight' = [sight EXCEPT ![t] = mode] /\ UNCHANGED <<standard, grant>>
  BY <1>1, <1>2, <1>3 DEF VisibilityTypeOK
<1>4. CASE \E mode \in Modes \ {standard} : standard' = mode /\ UNCHANGED <<sight, grant>>
  BY <1>1, <1>2, <1>4 DEF VisibilityTypeOK
<1>5. CASE \E e \in Members, t \in Teams, reach \in {"none", "alone", "below"} :
              grant' = [grant EXCEPT ![e][t] = reach] /\ UNCHANGED <<sight, standard>>
  <2>1. PICK e \in Members, t \in Teams, reach \in {"none", "alone", "below"} :
              grant' = [grant EXCEPT ![e][t] = reach] /\ UNCHANGED <<sight, standard>>
    BY <1>5
  <2>2. grant' \in [Members -> [Teams -> {"none", "alone", "below"}]]
    BY <2>1 DEF VisibilityTypeOK
  <2> QED BY <1>1, <1>2, <2>1, <2>2 DEF VisibilityTypeOK
<1> QED BY <1>3, <1>4, <1>5 DEF SetSight

LEMMA VisibilityStep == VisibilityTypeOK /\ [VisibilityNext]_visibilityVars => VisibilityTypeOK'
<1> SUFFICES ASSUME VisibilityTypeOK, [VisibilityNext]_visibilityVars PROVE VisibilityTypeOK'
  OBVIOUS
<1>1. CASE NameApprover
  <2>1. changes' \in 0..MostChanges
    BY <1>1, ChangesStep DEF NameApprover
  <2> QED BY <1>1, <2>1 DEF NameApprover, VisibilityTypeOK
<1>2. ASSUME NEW e \in Members, ReadGrid(e) PROVE VisibilityTypeOK'
  <2>1. page' \in [Members -> SUBSET Members]
    BY <1>2, ManagedFacts DEF ReadGrid, VisibilityTypeOK
  <2> QED BY <1>2, <2>1 DEF ReadGrid, VisibilityTypeOK
<1>3. ASSUME NEW e \in Members, Clear(e) PROVE VisibilityTypeOK'
  <2>1. cleared' \in [by : Members \union {Nobody}, of : SUBSET Members]
    BY <1>3, ManagedFacts DEF Clear, InScope
  <2> QED BY <1>3, <2>1 DEF Clear, VisibilityTypeOK
<1>4. CASE UNCHANGED visibilityVars
  BY <1>4 DEF visibilityVars, VisibilityTypeOK
<1> QED BY <1>1, <1>2, <1>3, <1>4, ReorganizeStep, StaffStep, SightStep DEF VisibilityNext

LEMMA ClearedFacts ==
  ASSUME VisibilityTypeOK, [VisibilityNext]_visibilityVars, cleared' # cleared
  PROVE  \A x \in cleared'.of : WorksFor(x, cleared'.by)
<1>1. PICK e \in Members : Clear(e)
  BY DEF VisibilityNext, visibilityVars, Reorganize, ChangeStaff, SetSight, NameApprover, ReadGrid
<1>2. PICK wanted : InScope(e, wanted) /\ cleared' = [by |-> e, of |-> wanted]
  BY <1>1 DEF Clear
<1> QED BY <1>2, ManagedFacts DEF InScope

(* Only people are changed who work for whoever changes them, and a page   *)
(* never offers a row its reader may not see.                              *)
THEOREM SightTheorem == VisibilitySpec => OnlyOwnPeopleAreChanged
<1>1. VisibilityInit => VisibilityTypeOK
  BY VisibilityStart
<1>2. VisibilityTypeOK /\ [VisibilityNext]_visibilityVars => VisibilityTypeOK'
  BY VisibilityStep
<1>3. VisibilityTypeOK => \A e \in hired : Managed(e) \subseteq Visible(e)
  BY ManagedFacts DEF VisibilityTypeOK
<1>4. VisibilityTypeOK /\ [VisibilityNext]_visibilityVars =>
        [cleared' # cleared => \A x \in cleared'.of : WorksFor(x, cleared'.by)]_visibilityVars
  BY ClearedFacts
<1> QED BY <1>1, <1>2, <1>3, <1>4, PTL DEF VisibilitySpec, OnlyOwnPeopleAreChanged

-----------------------------------------------------------------------------
(* What requests cost, the rows of requests and of policies, in full.      *)
Costs == UNION {[S -> 0..2] : S \in {T \in SUBSET Dates : IsFiniteSet(T)}}
RequestRow ==
  [status : {"none", "pending", "approved", "closed"}, type : Types \union {General}, days : Costs]
PolicyRow ==
  [active : BOOLEAN, standard : BOOLEAN, covers : BOOLEAN, terms : Terms,
   grants : [Types -> Credits \union {NotEntitled}]]

(* Where no leave covers a date the roster shows none there, so that what  *)
(* an overlay hides is never itself a leave.                               *)
BalanceInv ==
  /\ BalanceTypeOK /\ OneStandardPolicy
  /\ request \in [Requests -> RequestRow]
  /\ policy \in [Policies -> PolicyRow \union {Unwritten}]
  /\ \A d \in Dates : cover[d] = NoRequest => shift[d] # "leave"

(* What days cost in a year, and what a count of days is.                  *)
LEMMA CostFacts ==
  ASSUME NEW days \in Costs
  PROVE  /\ DOMAIN days \subseteq Dates /\ IsFiniteSet(DOMAIN days)
         /\ \A d \in DOMAIN days : days[d] \in 0..2
         /\ \A y : DaysIn(days, y) \in Nat
         /\ \A d \in DOMAIN days : days[d] <= DaysIn(days, YearOf(d))
<1>1. PICK S \in SUBSET Dates : IsFiniteSet(S) /\ days \in [S -> 0..2]
  BY DEF Costs
<1>2. DOMAIN days = S /\ \A d \in S : days[d] \in 0..2 /\ days[d] \in Nat
  BY <1>1
<1>3. ASSUME NEW y
      PROVE  DaysIn(days, y) \in Nat /\ \A d \in S : YearOf(d) = y => days[d] <= DaysIn(days, y)
  <2> DEFINE T == {d \in DOMAIN days : YearOf(d) = y}
  <2>1. IsFiniteSet(T) /\ \A d \in T : days[d] \in Nat
    <3>1. T \in SUBSET S
      BY <1>2
    <3> QED BY <1>1, <1>2, <3>1, FS_Subset
  <2>2. DaysIn(days, y) = SumFunctionOnSet(days, T)
    BY DEF DaysIn
  <2>3. \A d \in S : YearOf(d) = y => d \in T
    BY <1>2
  <2> HIDE DEF T
  <2> QED BY <2>1, <2>2, <2>3, SumNat
<1> QED BY <1>1, <1>2, <1>3

(* Counting days gives what a request may cost.                            *)
LEMMA CountFacts ==
  ASSUME NEW from \in Dates, NEW to \in Dates, NEW half, NEW own
  PROVE  Count(from, to, half, own) \in Costs /\ DOMAIN Count(from, to, half, own) = from..to
<1>1. from \in Int /\ to \in Int /\ from..to \subseteq Dates
  BY BalanceAssumption
<1>2. IsFiniteSet(from..to)
  BY <1>1, FS_Interval
<1>3. Count(from, to, half, own) \in [from..to -> 0..2]
  BY DEF Count
<1> QED BY <1>1, <1>2, <1>3 DEF Costs

-----------------------------------------------------------------------------
(* The requests of a pool take a number of days, and one more adds its own.*)
Counted(types) == {q \in Requests : Alive(q) /\ request[q].type \in types}
Costing(types, y) == [r \in Counted(types) |-> DaysIn(request[r].days, y)]

(* What requests of some types take of a year is the sum of their days.    *)
LEMMA TakenFacts ==
  ASSUME request \in [Requests -> RequestRow], NEW types, NEW y
  PROVE  /\ IsFiniteSet(Counted(types))
         /\ \A r \in Counted(types) : Costing(types, y)[r] \in Nat
         /\ Taken(types, y) = SumFunctionOnSet(Costing(types, y), Counted(types))
         /\ Taken(types, y) \in Nat
<1>1. IsFiniteSet(Counted(types))
  <2>1. Counted(types) \in SUBSET Requests
    BY DEF Counted
  <2> QED BY <2>1, BalanceAssumption, FS_Subset
<1>2. ASSUME NEW r \in Counted(types) PROVE Costing(types, y)[r] \in Nat
  <2>1. r \in Requests /\ request[r].days \in Costs
    BY DEF Counted, RequestRow
  <2>2. DaysIn(request[r].days, y) \in Nat
    BY <2>1, CostFacts
  <2> QED BY <2>2 DEF Costing
<1>3. DOMAIN Costing(types, y) = Counted(types) /\ Taken(types, y) = SumFunction(Costing(types, y))
  BY DEF Costing, Taken, Counted
<1>4. Taken(types, y) = SumFunctionOnSet(Costing(types, y), Counted(types))
  BY <1>3 DEF SumFunction
<1> DEFINE f == Costing(types, y)
           A == Counted(types)
<1>5. IsFiniteSet(A) /\ (\A r \in A : f[r] \in Nat)
  BY <1>1, <1>2
<1> HIDE DEF f, A
<1>6. SumFunctionOnSet(f, A) \in Nat
  BY <1>5, SumNat
<1> QED BY <1>1, <1>2, <1>4, <1>6 DEF f, A

(* One request more takes its own days more.                               *)
LEMMA FiledTaken ==
  ASSUME request \in [Requests -> RequestRow], NEW r \in Requests, request[r].status = "none",
         NEW entry \in RequestRow, entry.status = "pending", request' = [request EXCEPT ![r] = entry],
         NEW types, entry.type \in types, NEW y
  PROVE  Taken(types, y)' = Taken(types, y) + DaysIn(entry.days, y)
<1>1. request' \in [Requests -> RequestRow]
  OBVIOUS
<1>2. request'[r] = entry /\ \A q \in Requests \ {r} : request'[q] = request[q]
  OBVIOUS
<1> DEFINE A == Counted(types)
           f == Costing(types, y)
           B == A \union {r}
           g == [q \in B |-> DaysIn(request'[q].days, y)]
<1>3. r \notin A
  BY DEF Counted, Alive
<1>4. Counted(types)' = B
  BY <1>2, <1>3 DEF Counted, Alive
<1>5. Costing(types, y)' = g
  BY <1>4 DEF Costing
<1>6. IsFiniteSet(A) /\ (\A q \in A : f[q] \in Nat) /\ Taken(types, y) = SumFunctionOnSet(f, A)
  BY TakenFacts
<1>7. Taken(types, y)' = SumFunctionOnSet(g, B)
  <2>1. DOMAIN Costing(types, y)' = Counted(types)' /\ Taken(types, y)' = SumFunction(Costing(types, y)')
    BY DEF Costing, Taken, Counted
  <2> QED BY <1>4, <1>5, <2>1 DEF SumFunction
<1>8. \A q \in A : g[q] = f[q]
  BY <1>2, <1>3 DEF Costing, Counted
<1>9. g[r] = DaysIn(entry.days, y) /\ g[r] \in Nat
  <2>1. entry.days \in Costs
    BY DEF RequestRow
  <2>2. DaysIn(entry.days, y) \in Nat
    BY <2>1, CostFacts
  <2> QED BY <1>2, <2>2
<1> HIDE DEF A, f, g
<1>10. IsFiniteSet(B) /\ r \in B /\ B \ {r} = A /\ \A q \in B : g[q] \in Int
  <2>1. IsFiniteSet(B)
    BY <1>6, FS_AddElement
  <2>2. \A q \in B : g[q] \in Int
    BY <1>6, <1>8, <1>9
  <2> QED BY <1>3, <2>1, <2>2
<1> HIDE DEF B
<1>11. SumFunctionOnSet(g, B) = g[r] + SumFunctionOnSet(g, B \ {r})
  BY <1>10, SumAny
<1>12. SumFunctionOnSet(g, A) = SumFunctionOnSet(f, A)
  <2>1. \A q \in A : f[q] \in Int /\ g[q] = f[q]
    BY <1>6, <1>8
  <2> QED BY <1>6, <2>1, SumSame
<1>13. SumFunctionOnSet(f, A) \in Nat
  BY <1>6, SumNat
<1>14. Taken(types, y)' = g[r] + Taken(types, y)
  BY <1>6, <1>7, <1>10, <1>11, <1>12
<1>15. Taken(types, y) \in Nat /\ g[r] \in Nat
  BY <1>6, <1>9, <1>13
<1>16. Taken(types, y)' = Taken(types, y) + g[r]
  BY <1>14, <1>15
<1> QED BY <1>9, <1>16

-----------------------------------------------------------------------------
(* Dates are numbers, and so are their years.                              *)
LEMMA DateFacts ==
  /\ Parts \in Nat /\ Parts > 0 /\ Hired \in Int
  /\ \A d \in Dates : d \in Nat /\ YearOf(d) \in Int /\ PartOf(d) \in Int /\ YearOf(d) \in Years
<1>1. Parts \in Nat /\ Parts > 0 /\ Hired \in Int /\ Dates \subseteq Nat
  BY BalanceAssumption
<1>2. \A d \in Int : (d - 1) \div Parts \in Int /\ (d - 1) % Parts \in Int
  BY <1>1
<1> QED BY <1>1, <1>2 DEF YearOf, PartOf, Years

(* The policy that governs is one that was written.                        *)
LEMMA GovernsOne ==
  ASSUME BalanceInv
  PROVE  Governing = Unwritten \/ (Governing \in Policies /\ policy[Governing] \in PolicyRow)
<1> DEFINE own == {p \in InForce : policy[p].covers}
           usual == {p \in InForce : policy[p].standard}
<1>1. ASSUME NEW T, T \subseteq Policies, T # {}
      PROVE  (CHOOSE p \in T : \A q \in T : p <= q) \in T
  <2>1. \E p \in T : \A q \in T : p <= q
    <3>1. T \subseteq Nat
      BY <1>1, BalanceAssumption
    <3> QED BY <1>1, <3>1, LeastExists
  <2> QED BY <2>1
<1>2. own \subseteq Policies /\ usual \subseteq Policies
  BY DEF InForce
<1>3. Governing = IF own # {} THEN CHOOSE p \in own : \A q \in own : p <= q
                  ELSE IF usual # {} THEN CHOOSE p \in usual : \A q \in usual : p <= q
                  ELSE Unwritten
  BY DEF Governing
<1>4. \A p \in InForce : p \in Policies /\ policy[p] \in PolicyRow
  BY DEF InForce, BalanceInv
<1>5. own \subseteq InForce /\ usual \subseteq InForce
  OBVIOUS
<1> HIDE DEF own, usual
<1> QED BY <1>1, <1>2, <1>3, <1>4, <1>5

(* The balance of a year is a number.                                      *)
LEMMA TotalsAreNumbers ==
  ASSUME BalanceInv, NEW t \in Types, NEW y \in Years
  PROVE  Total(t, y) \in Int
<1>1. \A u \in Types : credit[y][u] \in Nat
  BY DEF BalanceInv, BalanceTypeOK
<1>2. \A u : Debited(u, y) \in Int
  BY DEF Debited
<1>3. \A u \in Types : Adjusted(u, y) \in Int
  BY <1>1, <1>2 DEF Adjusted
<1>4. y \in Int /\ today \in Dates
  BY DateFacts DEF Years, YearOf, BalanceInv, BalanceTypeOK
<1>5. ASSUME NEW granted \in Nat, NEW method
      PROVE  Accrued(granted, method, y) \in Int
  <2> DEFINE first == IF y = YearOf(Hired) THEN PartOf(Hired) ELSE 1
             last == IF method = "monthly" /\ y = YearOf(today) THEN PartOf(today) ELSE Parts
  <2>1. first \in Int /\ last \in Int
    <3>1. PartOf(Hired) \in Int
      <4>1. Hired - 1 \in Int /\ (Hired - 1) % Parts \in Int
        BY DateFacts
      <4> QED BY <4>1 DEF PartOf
    <3>2. PartOf(today) \in Int /\ Parts \in Int
      BY <1>4, DateFacts
    <3> QED BY <3>1, <3>2
  <2>2. Accrued(granted, method, y) =
          IF y < YearOf(Hired) \/ y > YearOf(today) \/ last < first THEN 0
          ELSE (granted * (last - first + 1)) \div Parts
    BY DEF Accrued
  <2> HIDE DEF first, last
  <2> DEFINE amount == granted * (last - first + 1)
  <2>3. amount \in Int
    <3>1. last - first + 1 \in Int
      BY <2>1
    <3> QED BY <3>1
  <2> HIDE DEF amount
  <2>4. amount \div Parts \in Int
    BY <2>3, DateFacts
  <2> QED BY <2>2, <2>4 DEF amount
<1>6. SumFunction([u \in Types |-> Adjusted(u, y)]) \in Int
  <2> DEFINE f == [u \in Types |-> Adjusted(u, y)]
  <2>1. DOMAIN f = Types /\ IsFiniteSet(Types) /\ \A u \in Types : f[u] \in Int
    BY <1>3, BalanceAssumption
  <2> HIDE DEF f
  <2>2. SumFunctionOnSet(f, Types) \in Int
    BY <2>1, SumFirst
  <2>3. SumFunction(f) \in Int
    BY <2>1, <2>2 DEF SumFunction
  <2> QED BY <2>3 DEF f
<1> DEFINE pool == SumFunction([u \in Types |-> Adjusted(u, y)])
<1> HIDE DEF pool
<1>7. CASE Governing = Unwritten
  <2>1. Accrued(DefaultDays, "annual", y) \in Int
    BY <1>5, BalanceAssumption
  <2>2. Total(t, y) = IF t \in offered
                      THEN Accrued(DefaultDays, "annual", y) + Adjusted(t, y) - Debited(General, y)
                      ELSE Adjusted(t, y)
    BY <1>7 DEF Total
  <2> QED BY <1>2, <1>3, <2>1, <2>2
<1>8. CASE Governing # Unwritten
  <2>1. policy[Governing] \in PolicyRow
    BY <1>8, GovernsOne
  <2> DEFINE terms == policy[Governing].terms
             granted == policy[Governing].grants[t]
  <2>2. terms \in Terms /\ granted \in Credits \union {NotEntitled}
    BY <2>1 DEF PolicyRow
  <2>3. terms.pooled \in Nat /\ (granted # NotEntitled => granted \in Nat)
    BY <2>2, BalanceAssumption
  <2>4. Total(t, y) =
          IF terms.pool = "shared"
          THEN Accrued(terms.pooled, terms.accrual, y) - Debited(General, y) + pool
          ELSE IF granted # NotEntitled
          THEN Accrued(granted, terms.accrual, y) + Adjusted(t, y) - Debited(General, y)
          ELSE Adjusted(t, y)
    BY <1>8 DEF Total, pool
  <2> HIDE DEF terms, granted
  <2>5. Accrued(terms.pooled, terms.accrual, y) \in Int
    BY <1>5, <2>3
  <2>6. granted # NotEntitled => Accrued(granted, terms.accrual, y) \in Int
    BY <1>5, <2>3
  <2> QED BY <1>2, <1>3, <1>6, <2>4, <2>5, <2>6 DEF pool
<1> QED BY <1>7, <1>8

(* The balance does not depend on the request that is filed.               *)
LEMMA SameBalance ==
  ASSUME UNCHANGED <<today, credit, debit, offered, policy>>, NEW t, NEW y
  PROVE  /\ Total(t, y)' = Total(t, y) /\ (HasItem(t, y)' <=> HasItem(t, y))
         /\ Sharing(t)' = Sharing(t) /\ Governing' = Governing
<1>1. Governing' = Governing
  BY DEF Governing, InForce
<1>2. \A u : Adjusted(u, y)' = Adjusted(u, y) /\ Debited(u, y)' = Debited(u, y)
  BY DEF Adjusted, Debited
<1>3. HasItem(t, y)' <=> HasItem(t, y)
  BY <1>1, <1>2 DEF HasItem
<1>4. Sharing(t)' = Sharing(t)
  BY <1>1 DEF Sharing
<1>5. \A granted, method : Accrued(granted, method, y)' = Accrued(granted, method, y)
  BY DEF Accrued
<1>6. SumFunction([u \in Types |-> Adjusted(u, y)])' = SumFunction([u \in Types |-> Adjusted(u, y)])
  BY DEF Adjusted, Debited
<1>7. Total(t, y)' = Total(t, y)
  BY <1>1, <1>2, <1>5, <1>6 DEF Total
<1> QED BY <1>1, <1>3, <1>4, <1>7

-----------------------------------------------------------------------------
(* Writing a policy leaves one default at most.                            *)
LEMMA WritingKeepsTheInv ==
  ASSUME BalanceInv, NEW p \in Policies, NEW entry \in PolicyRow, WritePolicy(p, entry)
  PROVE  BalanceInv'
<1>1. UNCHANGED <<today, request, shift, cover, hidden, credit, debit, offered>> /\ amended' \in 0..MaxChanges
  <2>1. amended < MaxChanges /\ amended' = amended + 1 /\ amended \in 0..MaxChanges /\ MaxChanges \in Nat
    BY BalanceAssumption DEF WritePolicy, Change, BalanceInv, BalanceTypeOK
  <2> QED BY <2>1 DEF WritePolicy
<1>2. policy' = Written(p, entry)
  BY DEF WritePolicy
<1>3. ASSUME NEW q \in Policies
      PROVE  /\ policy'[q] \in PolicyRow \union {Unwritten}
             /\ q = p => policy'[q] = entry
             /\ q # p /\ entry.standard /\ policy[q] # Unwritten => ~policy'[q].standard
             /\ q # p /\ (~entry.standard \/ policy[q] = Unwritten) => policy'[q] = policy[q]
  <2>1. policy[q] \in PolicyRow \union {Unwritten}
    BY DEF BalanceInv
  <2>2. policy'[q] = IF q = p THEN entry
                     ELSE IF entry.standard /\ policy[q] # Unwritten THEN [policy[q] EXCEPT !.standard = FALSE]
                     ELSE policy[q]
    BY <1>2 DEF Written
  <2>3. policy[q] # Unwritten =>
          /\ [policy[q] EXCEPT !.standard = FALSE] \in PolicyRow
          /\ ~[policy[q] EXCEPT !.standard = FALSE].standard
    BY <2>1 DEF PolicyRow
  <2> QED BY <2>1, <2>2, <2>3
<1>4. DOMAIN policy' = Policies /\ policy' = [q \in Policies |-> policy'[q]]
  BY <1>2 DEF Written
<1>5. policy' \in [Policies -> PolicyRow \union {Unwritten}]
  BY <1>3, <1>4
<1>6. OneStandardPolicy'
  <2> SUFFICES ASSUME NEW q \in Policies, NEW s \in Policies, q # s,
                      policy'[q] # Unwritten, policy'[s] # Unwritten
               PROVE  ~(policy'[q].standard /\ policy'[s].standard)
    BY DEF OneStandardPolicy
  <2>1. CASE entry.standard
    BY <1>3, <2>1
  <2>2. CASE ~entry.standard
    <3>1. CASE q = p \/ s = p
      BY <1>3, <2>2, <3>1
    <3>2. CASE q # p /\ s # p
      BY <1>3, <2>2, <3>2 DEF BalanceInv, OneStandardPolicy
    <3> QED BY <3>1, <3>2
  <2> QED BY <2>1, <2>2
<1>7. BalanceTypeOK'
  <2>1. \A q \in Policies : policy'[q] # Unwritten =>
          policy'[q].grants \in [Types -> Credits \union {NotEntitled}]
    BY <1>5 DEF PolicyRow
  <2> QED BY <1>1, <2>1 DEF BalanceInv, BalanceTypeOK
<1> QED BY <1>1, <1>5, <1>6, <1>7 DEF BalanceInv

(* A request is written: only its row changes.                             *)
LEMMA RequestsKeepTheInv ==
  ASSUME BalanceInv, NEW r \in Requests, NEW entry \in RequestRow, request' = [request EXCEPT ![r] = entry],
         UNCHANGED <<today, credit, debit, offered, policy, amended>>,
         shift' \in [Dates -> {"none", "work", "rest", "leave"}],
         cover' \in [Dates -> Requests \union {NoRequest}],
         hidden' \in [Dates -> {"none", "work", "rest"}],
         \A d \in Dates : cover'[d] = NoRequest => shift'[d] # "leave"
  PROVE  BalanceInv'
<1>1. request' \in [Requests -> RequestRow]
  BY DEF BalanceInv
<1>2. ASSUME NEW q \in Requests
      PROVE  /\ request'[q].status \in {"none", "pending", "approved", "closed"}
             /\ request'[q].type \in Types \union {General}
             /\ DOMAIN request'[q].days \subseteq Dates
             /\ \A d \in DOMAIN request'[q].days : request'[q].days[d] \in 0..2
  <2>1. /\ request'[q].status \in {"none", "pending", "approved", "closed"}
        /\ request'[q].type \in Types \union {General}
        /\ request'[q].days \in Costs
    BY <1>1 DEF RequestRow
  <2> QED BY <2>1, CostFacts
<1>3. BalanceTypeOK'
  BY <1>2 DEF BalanceInv, BalanceTypeOK
<1> QED BY <1>1, <1>3 DEF BalanceInv, OneStandardPolicy

(* Everything else that happens leaves requests and policies alone.        *)
LEMMA SurroundingsKeepTheInv ==
  ASSUME BalanceInv, UNCHANGED <<request, cover, hidden, policy>>,
         today' \in Dates, amended' \in 0..MaxChanges,
         shift' \in [Dates -> {"none", "work", "rest", "leave"}],
         \A d \in Dates : cover[d] = NoRequest => shift'[d] # "leave",
         credit' \in [Years -> [Types -> Nat]], offered' \subseteq Types,
         debit' = NoDebit \/ debit' \in [year : Years, type : Types \union {General}]
  PROVE  BalanceInv'
<1>1. BalanceTypeOK'
  BY DEF BalanceInv, BalanceTypeOK
<1> QED BY <1>1 DEF BalanceInv, OneStandardPolicy

(* What administrators and planners change stays within its bound.         *)
LEMMA OneMoreChange ==
  ASSUME BalanceInv, Change
  PROVE  amended' \in 0..MaxChanges
<1>1. amended < MaxChanges /\ amended' = amended + 1 /\ amended \in 0..MaxChanges /\ MaxChanges \in Nat
  BY BalanceAssumption DEF Change, BalanceInv, BalanceTypeOK
<1> QED BY <1>1

(* What changes around the requests.                                       *)
LEMMA SurroundingsInv ==
  ASSUME BalanceInv,
         \/ \E d \in Dates, kind \in {"none", "work", "rest"} : Reschedule(d, kind)
         \/ \E t \in Types : Convert(t) \/ SwitchType(t)
         \/ \E t \in Types \union {General} : ResolveTardiness(t)
         \/ DayPasses
         \/ UNCHANGED balanceVars
  PROVE  BalanceInv' /\ UNCHANGED request
<1>1. /\ today \in Dates /\ amended \in 0..MaxChanges
      /\ shift \in [Dates -> {"none", "work", "rest", "leave"}]
      /\ \A d \in Dates : cover[d] = NoRequest => shift[d] # "leave"
      /\ credit \in [Years -> [Types -> Nat]] /\ offered \subseteq Types
      /\ debit = NoDebit \/ debit \in [year : Years, type : Types \union {General}]
  BY DEF BalanceInv, BalanceTypeOK
<1>2. YearOf(today) \in Years
  BY <1>1, DateFacts
<1>3. ASSUME NEW d \in Dates, NEW kind \in {"none", "work", "rest"}, Reschedule(d, kind)
      PROVE  BalanceInv' /\ UNCHANGED request
  <2>1. /\ UNCHANGED <<today, request, cover, hidden, credit, debit, offered, policy>> /\ Change
        /\ shift' = [shift EXCEPT ![d] = kind]
    BY <1>3 DEF Reschedule
  <2>2. /\ shift' \in [Dates -> {"none", "work", "rest", "leave"}]
        /\ \A e \in Dates : cover[e] = NoRequest => shift'[e] # "leave"
    BY <1>1, <2>1
  <2> QED BY <1>1, <2>1, <2>2, OneMoreChange, SurroundingsKeepTheInv
<1>4. ASSUME NEW t \in Types, Convert(t)
      PROVE  BalanceInv' /\ UNCHANGED request
  <2>1. /\ UNCHANGED <<today, request, shift, cover, hidden, debit, offered, policy>> /\ Change
        /\ credit' = [credit EXCEPT ![YearOf(today)][t] = @ + 2]
    BY <1>4 DEF Convert
  <2>2. credit[YearOf(today)] \in [Types -> Nat] /\ credit[YearOf(today)][t] + 2 \in Nat
    BY <1>1, <1>2
  <2>3. credit' = [credit EXCEPT ![YearOf(today)] = [credit[YearOf(today)] EXCEPT ![t] = credit[YearOf(today)][t] + 2]]
    BY <1>1, <1>2, <2>1
  <2>4. [credit[YearOf(today)] EXCEPT ![t] = credit[YearOf(today)][t] + 2] \in [Types -> Nat]
    BY <2>2
  <2>5. credit' \in [Years -> [Types -> Nat]]
    BY <1>1, <1>2, <2>3, <2>4
  <2> QED BY <1>1, <2>1, <2>5, OneMoreChange, SurroundingsKeepTheInv
<1>5. ASSUME NEW t \in Types, SwitchType(t)
      PROVE  BalanceInv' /\ UNCHANGED request
  <2>1. /\ UNCHANGED <<today, request, shift, cover, hidden, credit, debit, policy>> /\ Change
        /\ offered' \subseteq Types
    BY <1>1, <1>5 DEF SwitchType
  <2> QED BY <1>1, <2>1, OneMoreChange, SurroundingsKeepTheInv
<1>6. ASSUME NEW t \in Types \union {General}, ResolveTardiness(t)
      PROVE  BalanceInv' /\ UNCHANGED request
  <2>1. /\ UNCHANGED <<today, request, shift, cover, hidden, credit, offered, policy>> /\ Change
        /\ debit' = NoDebit \/ debit' \in [year : Years, type : Types \union {General}]
    BY <1>2, <1>6 DEF ResolveTardiness
  <2> QED BY <1>1, <2>1, OneMoreChange, SurroundingsKeepTheInv
<1>7. ASSUME DayPasses
      PROVE  BalanceInv' /\ UNCHANGED request
  <2>1. /\ UNCHANGED <<request, shift, cover, hidden, credit, debit, offered, policy, amended>>
        /\ today' \in Dates
    BY <1>7 DEF DayPasses
  <2> QED BY <1>1, <2>1, SurroundingsKeepTheInv
<1>8. ASSUME UNCHANGED balanceVars
      PROVE  BalanceInv' /\ UNCHANGED request
  <2>1. UNCHANGED <<today, request, shift, cover, hidden, credit, debit, offered, policy, amended>>
    BY <1>8 DEF balanceVars
  <2> QED BY <1>1, <2>1, SurroundingsKeepTheInv
<1> QED BY <1>3, <1>4, <1>5, <1>6, <1>7, <1>8

-----------------------------------------------------------------------------
(* A request that is let in shares no date with those before it.           *)
LEMMA LetIn ==
  ASSUME BalanceInv, NEW r \in Requests, NEW entry, request' = [request EXCEPT ![r] = entry],
         Mode("overlap") = "block" =>
           \A q \in Requests \ {r} : Alive(q) => DOMAIN request[q].days \cap DOMAIN entry.days = {}
  PROVE  OverlapStep
<1>1. request'[r] = entry /\ \A q \in Requests \ {r} : request'[q] = request[q]
  BY DEF BalanceInv
<1>2. \A q \in Requests \ {r} : Alive(q)' <=> Alive(q)
  BY <1>1 DEF Alive
<1> SUFFICES ASSUME NEW a \in Requests, NEW b \in Requests \ {a}, Mode("overlap") = "block", Shared(a, b)'
             PROVE  Shared(a, b)
  BY DEF OverlapStep
<1>3. CASE a = r
  BY <1>1, <1>2, <1>3 DEF Shared
<1>4. CASE b = r
  BY <1>1, <1>2, <1>4 DEF Shared
<1>5. CASE a # r /\ b # r
  BY <1>1, <1>2, <1>5 DEF Shared
<1> QED BY <1>3, <1>4, <1>5

(* A request that stays in what it was brings no overlap either.           *)
LEMMA StaysIn ==
  ASSUME BalanceInv, \A q \in Requests : Alive(q)' => Alive(q) /\ request'[q].days = request[q].days
  PROVE  OverlapStep
<1> SUFFICES ASSUME NEW a \in Requests, NEW b \in Requests \ {a}, Shared(a, b)'
             PROVE  Shared(a, b)
  BY DEF OverlapStep
<1> QED BY DEF Shared

(* A rule that blocks belongs to a policy, and is asked.                   *)
LEMMA AskedFor ==
  ASSUME NEW t, NEW days, NEW own, NEW documented, ~Refused(t, days, own, documented)
  PROVE  /\ Mode("balance") = "block" => ~Overdraws(t, days, own)
         /\ Mode("overlap") = "block" => ~Crossing(days, own)
<1>1. Governing = Unwritten => Mode("balance") = "off" /\ Mode("overlap") = "off"
  BY DEF Mode
<1> QED BY <1>1 DEF Refused

(* A filing: the days it takes were there, in every year it falls in.      *)
LEMMA FileInv ==
  ASSUME BalanceInv, NEW r \in Requests, NEW t \in Types, NEW s \in Spells, NEW documented \in BOOLEAN,
         File(r, t, s.from, s.to, s.half, documented)
  PROVE  BalanceInv' /\ FilingStep /\ OverlapStep /\ ApprovingStep
<1> DEFINE days == Count(s.from, s.to, s.half, NoRequest)
           entry == [status |-> "pending", type |-> t, days |-> days]
<1>1. s.from \in Dates /\ s.to \in Dates
  BY BalanceAssumption
<1>2. days \in Costs
  BY <1>1, CountFacts
<1>3. /\ request[r].status = "none" /\ request' = [request EXCEPT ![r] = entry]
      /\ ~Refused(t, days, NoRequest, documented)
      /\ UNCHANGED <<today, shift, cover, hidden, credit, debit, offered, policy, amended>>
  BY DEF File
<1> HIDE DEF days
<1>4. entry \in RequestRow /\ entry.status = "pending" /\ entry.type = t /\ entry.days = days
  BY <1>2 DEF RequestRow
<1> HIDE DEF entry
<1>5. request'[r] = entry /\ \A q \in Requests \ {r} : request'[q] = request[q]
  BY <1>3 DEF BalanceInv
<1>6. BalanceInv'
  <2>1. /\ shift' \in [Dates -> {"none", "work", "rest", "leave"}]
        /\ cover' \in [Dates -> Requests \union {NoRequest}]
        /\ hidden' \in [Dates -> {"none", "work", "rest"}]
        /\ \A d \in Dates : cover'[d] = NoRequest => shift'[d] # "leave"
    BY <1>3 DEF BalanceInv, BalanceTypeOK
  <2>2. UNCHANGED <<today, credit, debit, offered, policy, amended>>
    BY <1>3
  <2> QED BY <1>3, <1>4, <2>1, <2>2, RequestsKeepTheInv
<1>7. /\ Mode("balance") = "block" => ~Overdraws(t, days, NoRequest)
      /\ Mode("overlap") = "block" => ~Crossing(days, NoRequest)
  BY <1>3, AskedFor
<1>8. OverlapStep
  <2>1. Mode("overlap") = "block" =>
          \A q \in Requests \ {r} : Alive(q) => DOMAIN request[q].days \cap DOMAIN entry.days = {}
    BY <1>4, <1>7, BalanceAssumption DEF Crossing
  <2> QED BY <1>3, <2>1, LetIn
<1>9. ApprovingStep
  BY <1>4, <1>5 DEF ApprovingStep
<1>10. ASSUME Mode("balance") = "block", NEW d \in DOMAIN days, days[d] > 0
       PROVE  ~(Available(t, YearOf(d))' < 0)
  <2> DEFINE y == YearOf(d)
  <2>1. d \in Dates /\ y \in Years /\ days[d] \in Nat /\ DaysIn(days, y) \in Nat /\ days[d] <= DaysIn(days, y)
    <3>1. d \in Dates /\ days[d] \in 0..2 /\ DaysIn(days, YearOf(d)) \in Nat /\ days[d] <= DaysIn(days, YearOf(d))
      BY <1>2, CostFacts
    <3> QED BY <3>1, DateFacts
  <2> HIDE DEF y
  <2>2. DaysIn(days, y) > 0
    BY <1>10, <2>1
  <2>3. ~(DaysIn(days, y) > Available(t, y) + OwnDays(NoRequest, y)) /\ OwnDays(NoRequest, y) = 0
    BY <1>7, <1>10, <2>1, <2>2 DEF Overdraws, OwnDays
  <2>4. /\ Total(t, y)' = Total(t, y) /\ (HasItem(t, y)' <=> HasItem(t, y))
        /\ Sharing(t)' = Sharing(t)
    <3>1. UNCHANGED <<today, credit, debit, offered, policy>>
      BY <1>3
    <3> QED BY <3>1, SameBalance
  <2>5. PICK types : types = Sharing(t) /\ t \in types
    BY DEF Sharing
  <2>6. Taken(types, y)' = Taken(types, y) + DaysIn(days, y)
    <3>1. request \in [Requests -> RequestRow] /\ entry.type \in types
      BY <1>4, <2>5 DEF BalanceInv
    <3>2. Taken(types, y)' = Taken(types, y) + DaysIn(entry.days, y)
      BY <1>3, <1>4, <3>1, FiledTaken
    <3> QED BY <1>4, <3>2
  <2>7. Taken(types, y) \in Nat /\ Total(t, y) \in Int
    BY <2>1, TakenFacts, TotalsAreNumbers DEF BalanceInv
  <2>8. Taken(Sharing(t), y)' = Taken(types, y)'
    <3>1. Sharing(t)' = types
      BY <2>4, <2>5
    <3> QED BY <3>1 DEF Taken, Alive
  <2>9. CASE HasItem(t, y)
    <3>1. Available(t, y) = Total(t, y) - Taken(types, y)
      BY <2>5, <2>9 DEF Available
    <3>2. Available(t, y)' = Total(t, y) - (Taken(types, y) + DaysIn(days, y))
      BY <2>4, <2>6, <2>8, <2>9 DEF Available
    <3> QED BY <2>1, <2>3, <2>7, <3>1, <3>2 DEF y
  <2>10. CASE ~HasItem(t, y)
    BY <2>1, <2>2, <2>3, <2>10 DEF Available
  <2> QED BY <2>9, <2>10
<1>11. FilingStep
  <2> SUFFICES ASSUME NEW q \in Requests, request[q].status = "none", request'[q].status = "pending",
                      Mode("balance") = "block"
               PROVE  Overdrawn(q)' = {}
    BY DEF FilingStep
  <2>1. q = r
    BY <1>5
  <2>2. Overdrawn(q)' = {d \in DOMAIN days : days[d] > 0 /\ Available(t, YearOf(d))' < 0}
    <3>1. request'[q].days = days /\ request'[q].type = t
      BY <1>4, <1>5, <2>1
    <3> QED BY <3>1 DEF Overdrawn
  <2> QED BY <1>10, <2>2
<1> QED BY <1>6, <1>8, <1>9, <1>11

(* An edit asks the rules again.                                           *)
LEMMA UpdateInv ==
  ASSUME BalanceInv, NEW r \in Requests, NEW t \in Types, NEW s \in Spells, NEW documented \in BOOLEAN,
         Update(r, t, s.from, s.to, s.half, documented)
  PROVE  BalanceInv' /\ FilingStep /\ OverlapStep /\ ApprovingStep
<1> DEFINE days == Count(s.from, s.to, s.half, r)
           entry == [status |-> "pending", type |-> t, days |-> days]
<1>1. s.from \in Dates /\ s.to \in Dates
  BY BalanceAssumption
<1>2. days \in Costs
  BY <1>1, CountFacts
<1>3. /\ request[r].status = "pending" /\ request' = [request EXCEPT ![r] = entry]
      /\ ~Refused(t, days, r, documented)
      /\ UNCHANGED <<today, shift, cover, hidden, credit, debit, offered, policy, amended>>
  BY DEF Update
<1> HIDE DEF days
<1>4. entry \in RequestRow /\ entry.status = "pending" /\ entry.days = days
  BY <1>2 DEF RequestRow
<1> HIDE DEF entry
<1>5. request'[r] = entry /\ \A q \in Requests \ {r} : request'[q] = request[q]
  BY <1>3 DEF BalanceInv
<1>6. BalanceInv'
  <2>1. /\ shift' \in [Dates -> {"none", "work", "rest", "leave"}]
        /\ cover' \in [Dates -> Requests \union {NoRequest}]
        /\ hidden' \in [Dates -> {"none", "work", "rest"}]
        /\ \A d \in Dates : cover'[d] = NoRequest => shift'[d] # "leave"
    BY <1>3 DEF BalanceInv, BalanceTypeOK
  <2>2. UNCHANGED <<today, credit, debit, offered, policy, amended>>
    BY <1>3
  <2> QED BY <1>3, <1>4, <2>1, <2>2, RequestsKeepTheInv
<1>7. Mode("overlap") = "block" => ~Crossing(days, r)
  BY <1>3, AskedFor
<1>8. OverlapStep
  <2>1. Mode("overlap") = "block" =>
          \A q \in Requests \ {r} : Alive(q) => DOMAIN request[q].days \cap DOMAIN entry.days = {}
    BY <1>4, <1>7 DEF Crossing
  <2> QED BY <1>3, <2>1, LetIn
<1>9. ApprovingStep /\ FilingStep
  BY <1>3, <1>4, <1>5 DEF ApprovingStep, FilingStep
<1> QED BY <1>6, <1>8, <1>9

(* What a date costs when the roster, overlay aside, shows what is seen.   *)
Worth(d, seen) ==
  IF d \notin Holidays /\ (seen = "work" \/ (seen = "none" /\ d \in WorkWeek)) THEN 2 ELSE 0

(* Approving lays the leave over what the roster showed, and remembers it. *)
LEMMA ApproveInv ==
  ASSUME BalanceInv, NEW r \in Requests, Approve(r)
  PROVE  BalanceInv' /\ FilingStep /\ OverlapStep /\ ApprovingStep
<1> DEFINE days == request[r].days
           laid == {d \in DOMAIN days : days[d] > 0 /\ cover[d] = NoRequest}
           entry == [request[r] EXCEPT !.status = "approved"]
<1>1. /\ request[r].status = "pending" /\ request' = [request EXCEPT ![r] = entry]
      /\ shift' = [d \in Dates |-> IF d \in laid THEN "leave" ELSE shift[d]]
      /\ hidden' = [d \in Dates |-> IF d \in laid THEN shift[d] ELSE hidden[d]]
      /\ cover' = [d \in Dates |-> IF d \in laid THEN r ELSE cover[d]]
      /\ UNCHANGED <<today, credit, debit, offered, policy, amended>>
  BY DEF Approve, BalanceInv
<1>2. \A d \in laid : cover[d] = NoRequest
  OBVIOUS
<1>3. request[r] \in RequestRow
  BY DEF BalanceInv
<1>4. entry \in RequestRow /\ entry.status = "approved" /\ entry.days = days
  BY <1>3 DEF RequestRow
<1> HIDE DEF laid, entry
<1>5. request'[r] = entry /\ \A q \in Requests \ {r} : request'[q] = request[q]
  BY <1>1 DEF BalanceInv
<1>6. /\ shift \in [Dates -> {"none", "work", "rest", "leave"}]
      /\ cover \in [Dates -> Requests \union {NoRequest}]
      /\ hidden \in [Dates -> {"none", "work", "rest"}]
      /\ \A d \in Dates : cover[d] = NoRequest => shift[d] # "leave"
  BY DEF BalanceInv, BalanceTypeOK
<1>7. BalanceInv'
  <2>1. shift' \in [Dates -> {"none", "work", "rest", "leave"}]
    BY <1>1, <1>6
  <2>2. cover' \in [Dates -> Requests \union {NoRequest}]
    BY <1>1, <1>6
  <2>3. hidden' \in [Dates -> {"none", "work", "rest"}]
    <3>1. \A d \in Dates : (IF d \in laid THEN shift[d] ELSE hidden[d]) \in {"none", "work", "rest"}
      BY <1>2, <1>6
    <3> QED BY <1>1, <3>1
  <2>4. \A d \in Dates : cover'[d] = NoRequest => shift'[d] # "leave"
    BY <1>1, <1>6, BalanceAssumption
  <2> QED BY <1>1, <1>4, <2>1, <2>2, <2>3, <2>4, RequestsKeepTheInv
<1>8. OverlapStep
  <2>1. \A q \in Requests : Alive(q)' => Alive(q) /\ request'[q].days = request[q].days
    BY <1>1, <1>4, <1>5 DEF Alive
  <2> QED BY <2>1, StaysIn
<1>9. FilingStep
  BY <1>1, <1>4, <1>5 DEF FilingStep
<1>10. ASSUME NEW q \in Requests, request[q].status = "pending", request'[q].status = "approved"
       PROVE  Recounted(q)' = Recounted(q)
  <2>1. q = r /\ request'[q].days = request[q].days
    BY <1>4, <1>5, <1>10
  <2>2. DOMAIN days \subseteq Dates
    BY <2>1 DEF BalanceInv, BalanceTypeOK
  <2>3. \A d \in DOMAIN days : Seen(d, r)' = Seen(d, r)
    <3> SUFFICES ASSUME NEW d \in DOMAIN days PROVE Seen(d, r)' = Seen(d, r)
      OBVIOUS
    <3>1. d \in Dates
      BY <2>2
    <3>2. CASE d \in laid
      BY <1>1, <1>2, <3>1, <3>2, BalanceAssumption DEF Seen
    <3>3. CASE d \notin laid
      BY <1>1, <3>1, <3>3 DEF Seen
    <3> QED BY <3>2, <3>3
  <2>4. \A d \in DOMAIN days : d \in d..d
    BY <2>2, BalanceAssumption
  <2>5. Recounted(q) = [d \in DOMAIN days |-> Worth(d, Seen(d, r))]
    BY <2>1, <2>4 DEF Recounted, Count, Worth
  <2>6. Recounted(q)' = [d \in DOMAIN days |-> Worth(d, Seen(d, r)')]
    BY <2>1, <2>4 DEF Recounted, Count, Worth
  <2> QED BY <2>3, <2>5, <2>6
<1>11. ApprovingStep
  BY <1>10 DEF ApprovingStep
<1> QED BY <1>7, <1>8, <1>9, <1>11

(* A closed request holds no days.                                         *)
LEMMA ClosedRow == Closed \in RequestRow /\ Closed.status = "closed"
<1>1. NoDays \in [{} -> 0..2] /\ IsFiniteSet({})
  BY FS_EmptySet DEF NoDays
<1>2. NoDays \in Costs
  BY <1>1 DEF Costs
<1>3. Unfiled \in RequestRow
  BY <1>2 DEF Unfiled, RequestRow
<1> QED BY <1>3 DEF Closed, RequestRow

(* Closing takes nothing and gives the days back.                          *)
LEMMA CloseInv ==
  ASSUME BalanceInv, NEW r \in Requests, Close(r)
  PROVE  BalanceInv' /\ FilingStep /\ OverlapStep /\ ApprovingStep
<1>1. /\ request' = [request EXCEPT ![r] = Closed]
      /\ UNCHANGED <<today, shift, cover, hidden, credit, debit, offered, policy, amended>>
  BY DEF Close
<1>2. request'[r] = Closed /\ \A q \in Requests \ {r} : request'[q] = request[q]
  BY <1>1 DEF BalanceInv
<1>3. BalanceInv'
  <2>1. /\ shift' \in [Dates -> {"none", "work", "rest", "leave"}]
        /\ cover' \in [Dates -> Requests \union {NoRequest}]
        /\ hidden' \in [Dates -> {"none", "work", "rest"}]
        /\ \A d \in Dates : cover'[d] = NoRequest => shift'[d] # "leave"
    BY <1>1 DEF BalanceInv, BalanceTypeOK
  <2>2. UNCHANGED <<today, credit, debit, offered, policy, amended>>
    BY <1>1
  <2> QED BY <1>1, <2>1, <2>2, ClosedRow, RequestsKeepTheInv
<1>4. OverlapStep
  <2>1. \A q \in Requests : Alive(q)' => Alive(q) /\ request'[q].days = request[q].days
    BY <1>2, ClosedRow DEF Alive
  <2> QED BY <2>1, StaysIn
<1>5. FilingStep /\ ApprovingStep
  BY <1>2, ClosedRow DEF FilingStep, ApprovingStep
<1> QED BY <1>3, <1>4, <1>5

(* Revoking uncovers what was hidden, or hands the date to another leave.  *)
LEMMA RevokeInv ==
  ASSUME BalanceInv, NEW r \in Requests, RevokeRequest(r)
  PROVE  BalanceInv' /\ FilingStep /\ OverlapStep /\ ApprovingStep
<1> DEFINE freed == {d \in Dates : cover[d] = r}
           others(d) == {q \in Requests \ {r} : request[q].status = "approved" /\ d \in DOMAIN request[q].days}
           again == {d \in freed : others(d) # {}}
           one(d) == CHOOSE q \in others(d) : TRUE
<1>1. PICK entry \in {[request[r] EXCEPT !.status = "pending"], Closed} : request' = [request EXCEPT ![r] = entry]
  BY DEF RevokeRequest
<1>2. /\ request[r].status = "approved"
      /\ shift' = [d \in Dates |-> IF d \in freed \ again THEN hidden[d] ELSE shift[d]]
      /\ hidden' = [d \in Dates |-> IF d \in freed \ again THEN "none" ELSE hidden[d]]
      /\ cover' = [d \in Dates |-> IF d \in again THEN one(d)
                                   ELSE IF d \in freed THEN NoRequest ELSE cover[d]]
      /\ UNCHANGED <<today, credit, debit, offered, policy, amended>>
  BY DEF RevokeRequest
<1>3. \A d \in again : one(d) \in Requests
  OBVIOUS
<1>4. request[r] \in RequestRow
  BY DEF BalanceInv
<1>5. /\ entry \in RequestRow /\ entry.status \in {"pending", "closed"}
      /\ entry.status = "pending" => entry.days = request[r].days
  <2>1. CASE entry = Closed
    BY <2>1, ClosedRow
  <2>2. CASE entry = [request[r] EXCEPT !.status = "pending"]
    BY <1>4, <2>2 DEF RequestRow
  <2> QED BY <2>1, <2>2
<1>6. request'[r] = entry /\ \A q \in Requests \ {r} : request'[q] = request[q]
  BY <1>1 DEF BalanceInv
<1>7. again \subseteq freed
  OBVIOUS
<1> HIDE DEF one, again, freed
<1>8. /\ shift \in [Dates -> {"none", "work", "rest", "leave"}]
      /\ cover \in [Dates -> Requests \union {NoRequest}]
      /\ hidden \in [Dates -> {"none", "work", "rest"}]
      /\ \A d \in Dates : cover[d] = NoRequest => shift[d] # "leave"
  BY DEF BalanceInv, BalanceTypeOK
<1>9. BalanceInv'
  <2>1. shift' \in [Dates -> {"none", "work", "rest", "leave"}]
    BY <1>2, <1>8
  <2>2. cover' \in [Dates -> Requests \union {NoRequest}]
    <3>1. \A d \in Dates : (IF d \in again THEN one(d) ELSE IF d \in freed THEN NoRequest ELSE cover[d])
                             \in Requests \union {NoRequest}
      BY <1>3, <1>8
    <3> QED BY <1>2, <3>1
  <2>3. hidden' \in [Dates -> {"none", "work", "rest"}]
    BY <1>2, <1>8
  <2>4. \A d \in Dates : cover'[d] = NoRequest => shift'[d] # "leave"
    <3> SUFFICES ASSUME NEW d \in Dates, cover'[d] = NoRequest PROVE shift'[d] # "leave"
      OBVIOUS
    <3>1. d \notin again
      BY <1>2, <1>3, BalanceAssumption
    <3>2. CASE d \in freed
      BY <1>2, <1>8, <3>1, <3>2
    <3>3. CASE d \notin freed
      BY <1>2, <1>8, <3>1, <3>3
    <3> QED BY <3>2, <3>3
  <2> QED BY <1>1, <1>2, <1>5, <2>1, <2>2, <2>3, <2>4, RequestsKeepTheInv
<1>10. OverlapStep
  <2>1. \A q \in Requests : Alive(q)' => Alive(q) /\ request'[q].days = request[q].days
    BY <1>2, <1>5, <1>6 DEF Alive
  <2> QED BY <2>1, StaysIn
<1>11. FilingStep /\ ApprovingStep
  BY <1>2, <1>5, <1>6 DEF FilingStep, ApprovingStep
<1> QED BY <1>9, <1>10, <1>11

-----------------------------------------------------------------------------
(* What becomes of the policies.                                           *)
LEMMA PoliciesInv ==
  ASSUME BalanceInv,
         \/ \E p \in Policies : CreatePolicy(p) \/ UpdatePolicy(p) \/ DeletePolicy(p)
         \/ \E p, q \in Policies : ClonePolicy(p, q)
         \/ \E p \in Policies, t \in Types, granted \in Credits \union {NotEntitled} :
               SetEntitlement(p, t, granted)
         \/ \E p \in Policies, grants \in [Types -> Credits \union {NotEntitled}] :
               ReplaceEntitlements(p, grants)
  PROVE  BalanceInv' /\ UNCHANGED request
<1> DEFINE G == [Types -> Credits \union {NotEntitled}]
<1>1. \A p \in Policies : policy[p] # Unwritten => policy[p] \in PolicyRow
  BY DEF BalanceInv
<1>2. ASSUME NEW p \in Policies, NEW entry \in PolicyRow, WritePolicy(p, entry)
      PROVE  BalanceInv' /\ UNCHANGED request
  BY <1>2, WritingKeepsTheInv DEF WritePolicy
<1>3. ASSUME NEW p \in Policies, CreatePolicy(p)
      PROVE  BalanceInv' /\ UNCHANGED request
  <2>1. PICK terms \in Terms, covers \in BOOLEAN, usual \in BOOLEAN, grants \in G :
          WritePolicy(p, [active |-> TRUE, standard |-> usual, covers |-> covers,
                          terms |-> terms, grants |-> grants])
    BY <1>3, Zenon DEF CreatePolicy
  <2> DEFINE entry == [active |-> TRUE, standard |-> usual, covers |-> covers,
                     terms |-> terms, grants |-> grants]
  <2>2. entry \in PolicyRow
    BY DEF PolicyRow
  <2>3. WritePolicy(p, entry)
    BY <2>1
  <2> HIDE DEF entry
  <2> QED BY <1>2, <2>2, <2>3
<1>4. ASSUME NEW p \in Policies, UpdatePolicy(p)
      PROVE  BalanceInv' /\ UNCHANGED request
  <2>1. PICK terms \in Terms, covers \in BOOLEAN, usual \in BOOLEAN, active \in BOOLEAN :
          WritePolicy(p, [policy[p] EXCEPT !.terms = terms, !.covers = covers,
                                           !.standard = usual, !.active = active])
    BY <1>4, Zenon DEF UpdatePolicy
  <2> DEFINE entry == [policy[p] EXCEPT !.terms = terms, !.covers = covers,
                                      !.standard = usual, !.active = active]
  <2>2. entry \in PolicyRow
    <3>1. policy[p] \in PolicyRow
      BY <1>1, <1>4 DEF UpdatePolicy
    <3> QED BY <3>1 DEF PolicyRow
  <2>3. WritePolicy(p, entry)
    BY <2>1
  <2> HIDE DEF entry
  <2> QED BY <1>2, <2>2, <2>3
<1>5. ASSUME NEW p \in Policies, DeletePolicy(p)
      PROVE  BalanceInv' /\ UNCHANGED request
  <2>1. /\ UNCHANGED <<today, request, shift, cover, hidden, credit, debit, offered>> /\ Change
        /\ policy' = [policy EXCEPT ![p] = [policy[p] EXCEPT !.active = FALSE]]
    BY <1>5 DEF DeletePolicy, BalanceInv
  <2> DEFINE entry == [policy[p] EXCEPT !.active = FALSE]
  <2>2. entry \in PolicyRow /\ entry.standard = policy[p].standard
    <3>1. policy[p] \in PolicyRow
      BY <1>1, <1>5 DEF DeletePolicy
    <3> QED BY <3>1 DEF PolicyRow
  <2> HIDE DEF entry
  <2>3. /\ policy' \in [Policies -> PolicyRow \union {Unwritten}]
        /\ policy'[p] = entry /\ \A q \in Policies \ {p} : policy'[q] = policy[q]
    BY <2>1, <2>2 DEF BalanceInv, entry
  <2>4. OneStandardPolicy'
    <3>1. policy[p] # Unwritten
      BY <1>5 DEF DeletePolicy
    <3> SUFFICES ASSUME NEW q \in Policies, NEW s \in Policies, q # s,
                        policy'[q] # Unwritten, policy'[s] # Unwritten
                 PROVE  ~(policy'[q].standard /\ policy'[s].standard)
      BY DEF OneStandardPolicy
    <3>2. \A x \in {q, s} : policy[x] # Unwritten /\ policy'[x].standard = policy[x].standard
      BY <2>2, <2>3, <3>1
    <3> QED BY <3>2 DEF BalanceInv, OneStandardPolicy
  <2>5. BalanceTypeOK'
    <3>1. \A q \in Policies : policy'[q] # Unwritten =>
            policy'[q].grants \in [Types -> Credits \union {NotEntitled}]
      BY <2>3 DEF PolicyRow
    <3>2. amended' \in 0..MaxChanges
      BY <2>1, OneMoreChange
    <3> QED BY <2>1, <3>1, <3>2 DEF BalanceInv, BalanceTypeOK
  <2> QED BY <2>1, <2>3, <2>4, <2>5 DEF BalanceInv
<1>6. ASSUME NEW p \in Policies, NEW q \in Policies, ClonePolicy(p, q)
      PROVE  BalanceInv' /\ UNCHANGED request
  <2> DEFINE entry == [policy[p] EXCEPT !.active = FALSE, !.standard = FALSE]
  <2>1. entry \in PolicyRow
    <3>1. policy[p] \in PolicyRow
      BY <1>1, <1>6 DEF ClonePolicy
    <3> QED BY <3>1 DEF PolicyRow
  <2>2. WritePolicy(q, entry)
    BY <1>6 DEF ClonePolicy
  <2> HIDE DEF entry
  <2> QED BY <1>2, <2>1, <2>2
<1>7. ASSUME NEW p \in Policies, NEW t \in Types, NEW granted \in Credits \union {NotEntitled},
             SetEntitlement(p, t, granted)
      PROVE  BalanceInv' /\ UNCHANGED request
  <2> DEFINE entry == [policy[p] EXCEPT !.grants = [policy[p].grants EXCEPT ![t] = granted]]
  <2>1. entry \in PolicyRow
    <3>1. policy[p] \in PolicyRow
      BY <1>1, <1>7 DEF SetEntitlement
    <3>2. [policy[p].grants EXCEPT ![t] = granted] \in G
      BY <3>1 DEF PolicyRow
    <3> QED BY <3>1, <3>2 DEF PolicyRow
  <2>2. WritePolicy(p, entry)
    BY <1>7 DEF SetEntitlement
  <2> HIDE DEF entry
  <2> QED BY <1>2, <2>1, <2>2
<1>8. ASSUME NEW p \in Policies, NEW grants \in G, ReplaceEntitlements(p, grants)
      PROVE  BalanceInv' /\ UNCHANGED request
  <2> DEFINE entry == [policy[p] EXCEPT !.grants = grants]
  <2>1. entry \in PolicyRow
    <3>1. policy[p] \in PolicyRow
      BY <1>1, <1>8 DEF ReplaceEntitlements
    <3> QED BY <3>1 DEF PolicyRow
  <2>2. WritePolicy(p, entry)
    BY <1>8 DEF ReplaceEntitlements
  <2> HIDE DEF entry
  <2> QED BY <1>2, <2>1, <2>2
<1> QED BY <1>3, <1>4, <1>5, <1>6, <1>7, <1>8

(* The invariant holds at first, and every step keeps it.                  *)
LEMMA BalanceInitInv == BalanceInit => BalanceInv
<1> SUFFICES ASSUME BalanceInit PROVE BalanceInv
  OBVIOUS
<1>1. NoDays \in [{} -> 0..2] /\ IsFiniteSet({})
  BY FS_EmptySet DEF NoDays
<1>2. NoDays \in Costs /\ DOMAIN NoDays = {}
  BY <1>1 DEF Costs
<1>3. Unfiled \in RequestRow /\ Unfiled.status = "none" /\ Unfiled.type = General /\ Unfiled.days = NoDays
  BY <1>2 DEF Unfiled, RequestRow
<1>4. BalanceTypeOK
  BY <1>2, <1>3, BalanceAssumption DEF BalanceInit, BalanceTypeOK
<1> QED BY <1>3, <1>4 DEF BalanceInit, BalanceInv, OneStandardPolicy

LEMMA BalanceStep ==
  BalanceInv /\ [BalanceNext]_balanceVars => BalanceInv' /\ FilingStep /\ OverlapStep /\ ApprovingStep
<1> SUFFICES ASSUME BalanceInv, [BalanceNext]_balanceVars
             PROVE  BalanceInv' /\ FilingStep /\ OverlapStep /\ ApprovingStep
  OBVIOUS
<1>1. ASSUME BalanceInv', UNCHANGED request
      PROVE  BalanceInv' /\ FilingStep /\ OverlapStep /\ ApprovingStep
  <2>1. FilingStep /\ ApprovingStep
    BY <1>1 DEF FilingStep, ApprovingStep
  <2>2. \A q \in Requests : Alive(q)' => Alive(q) /\ request'[q].days = request[q].days
    BY <1>1 DEF Alive
  <2>3. OverlapStep
    BY <2>2, StaysIn
  <2> QED BY <1>1, <2>1, <2>3
<1>2. CASE \/ \E p \in Policies : CreatePolicy(p) \/ UpdatePolicy(p) \/ DeletePolicy(p)
           \/ \E p, q \in Policies : ClonePolicy(p, q)
           \/ \E p \in Policies, t \in Types, granted \in Credits \union {NotEntitled} :
                 SetEntitlement(p, t, granted)
           \/ \E p \in Policies, grants \in [Types -> Credits \union {NotEntitled}] :
                 ReplaceEntitlements(p, grants)
  BY <1>1, <1>2, PoliciesInv
<1>3. CASE \/ \E d \in Dates, kind \in {"none", "work", "rest"} : Reschedule(d, kind)
           \/ \E t \in Types : Convert(t) \/ SwitchType(t)
           \/ \E t \in Types \union {General} : ResolveTardiness(t)
           \/ DayPasses
           \/ UNCHANGED balanceVars
  BY <1>1, <1>3, SurroundingsInv
<1>4. CASE \E r \in Requests, t \in Types, s \in Spells, documented \in BOOLEAN :
             \/ File(r, t, s.from, s.to, s.half, documented)
             \/ Update(r, t, s.from, s.to, s.half, documented)
  BY <1>4, FileInv, UpdateInv
<1>5. CASE \E r \in Requests : Approve(r) \/ Close(r) \/ RevokeRequest(r)
  BY <1>5, ApproveInv, CloseInv, RevokeInv
<1> QED BY <1>2, <1>3, <1>4, <1>5 DEF BalanceNext

(* The leave rules hold: one policy at most is the default, no filing      *)
(* overdraws a balance or lets an overlap in where that is enforced, and   *)
(* laying a leave on the roster does not change what it costs: whatever    *)
(* policies, entitlements, credits, rosters and other requests change.     *)
THEOREM BalancesTheorem == BalanceSpec => LeaveRulesHold
<1>1. BalanceInv => BalanceTypeOK /\ OneStandardPolicy
  BY DEF BalanceInv
<1>2. BalanceInv /\ [BalanceNext]_balanceVars =>
        [FilingStep]_balanceVars /\ [OverlapStep]_balanceVars /\ [ApprovingStep]_balanceVars
  BY BalanceStep
<1>3. BalanceInv /\ [BalanceNext]_balanceVars => BalanceInv'
  BY BalanceStep
<1> QED BY <1>1, <1>2, <1>3, BalanceInitInv, PTL
  DEF BalanceSpec, LeaveRulesHold, FilingKeepsWithinTheBalance, NoOverlapIsLetIn, ApprovingChangesNoCount
=============================================================================
