------------------------------- MODULE Lists -------------------------------
(***************************************************************************)
(* What loops over data return, and what is true of it whatever the data:  *)
(* a list from which a loop keeps some items - what it holds, in which     *)
(* order, and that these make it the only one - and a sum. The lemmas are  *)
(* used wherever a list is filtered or amounts are added up.               *)
(***************************************************************************)
EXTENDS Integers, Sequences, FiniteSets, Functions, FiniteSetTheorems, WellFoundedInduction, TLAPS

(* What a loop over a list returns that keeps the items at the places I.   *)
Kept(s, I) ==
  LET upTo[n \in Nat] == IF n = 0 THEN <<>>
                         ELSE IF n \in I THEN Append(upTo[n-1], s[n])
                         ELSE upTo[n-1]
  IN upTo[Len(s)]

(* The items in the order R: the item behind none, then the one behind    *)
(* one, and so on - what sorting by a key returns.                         *)
InOrder(S, R) ==
  LET place == [x \in S |-> Cardinality({y \in S : <<y, x>> \in R})]
  IN [n \in 1 .. Cardinality(S) |-> CHOOSE x \in S : place[x] = n - 1]

-----------------------------------------------------------------------------
(* Every non-empty set of naturals has a least member.                     *)
LEMMA LeastExists ==
  ASSUME NEW T, T \subseteq Nat, T # {}
  PROVE  \E x \in T : \A q \in T : x <= q
<1> DEFINE R == {ss \in Nat \X Nat : ss[1] < ss[2]}
<1>1. IsWellFoundedOn(R, Nat)
  BY NatLessThanWellFounded, Zenon DEF OpToRel
<1>2. \E x \in T : \A y \in T : ~(<<y, x>> \in R)
  BY <1>1, WFMin
<1>3. PICK x \in T : \A y \in T : ~(<<y, x>> \in R)
  BY <1>2
<1>4. ASSUME NEW y \in T PROVE x <= y
  <2>1. x \in Nat /\ y \in Nat /\ ~(<<y, x>> \in R)
    BY <1>3
  <2>2. <<y, x>> \in Nat \X Nat /\ <<y, x>>[1] = y /\ <<y, x>>[2] = x
    BY <2>1
  <2>3. ~(y < x)
    BY <2>1, <2>2
  <2> QED BY <2>1, <2>3
<1> QED BY <1>4

(* Hence induction: a set of naturals that has 0, and with a number the    *)
(* next one, has them all.                                                 *)
LEMMA Induction ==
  ASSUME NEW T, 0 \in T, \A n \in Nat : n \in T => n + 1 \in T
  PROVE  \A n \in Nat : n \in T
<1> SUFFICES ASSUME Nat \ T # {} PROVE FALSE
  OBVIOUS
<1>1. PICK m \in Nat \ T : \A q \in Nat \ T : m <= q
  BY LeastExists
<1>2. m # 0 /\ m - 1 \in Nat
  BY <1>1
<1>3. m - 1 \in T
  BY <1>1, <1>2
<1>4. (m - 1) + 1 \in T
  BY <1>2, <1>3
<1> QED BY <1>1, <1>4

(* A step for every place leads from a start along one sequence of values. *)
Leads(f, a, F) == f[0] = a /\ \A n \in Nat : f[n + 1] = F[<<n, f[n]>>]

LEMMA Recursion ==
  ASSUME NEW S, NEW a \in S, NEW F \in [Nat \X S -> S]
  PROVE  \E f \in [Nat -> S] : Leads(f, a, F)
<1> DEFINE Trail(n, h) == h[0] = a /\ \A k \in 0 .. n - 1 : h[k + 1] = F[<<k, h[k]>>]
           Way(n) == {h \in [0 .. n -> S] : Trail(n, h)}
<1>1. \A n \in Nat : Way(n) # {}
  <2> DEFINE T == {n \in Nat : Way(n) # {}}
  <2>1. 0 \in T
    <3>1. [k \in 0 .. 0 |-> a] \in Way(0)
      OBVIOUS
    <3> QED BY <3>1
  <2>2. ASSUME NEW n \in Nat, n \in T PROVE n + 1 \in T
    <3>1. PICK h \in [0 .. n -> S] : Trail(n, h)
      BY <2>2
    <3> DEFINE g == [k \in 0 .. n + 1 |-> IF k = n + 1 THEN F[<<n, h[n]>>] ELSE h[k]]
    <3>2. h[n] \in S /\ <<n, h[n]>> \in Nat \X S
      BY <2>2
    <3>3. F[<<n, h[n]>>] \in S
      BY <3>2
    <3>4. g \in [0 .. n + 1 -> S]
      BY <2>2, <3>3
    <3>5. g[0] = a
      BY <2>2, <3>1
    <3>6. ASSUME NEW k \in 0 .. (n + 1) - 1 PROVE g[k + 1] = F[<<k, g[k]>>]
      <4>1. k \in 0 .. n /\ k \in Nat /\ g[k] = h[k] /\ k + 1 \in 0 .. n + 1
        BY <2>2, <3>6
      <4>2. CASE k = n
        BY <2>2, <4>1, <4>2
      <4>3. CASE k # n
        <5>1. k \in 0 .. n - 1 /\ g[k + 1] = h[k + 1]
          BY <2>2, <4>1, <4>3
        <5> QED BY <3>1, <4>1, <5>1
      <4> QED BY <4>2, <4>3
    <3>7. g \in Way(n + 1)
      BY <3>4, <3>5, <3>6
    <3> HIDE DEF Way
    <3> QED BY <2>2, <3>7
  <2> HIDE DEF T
  <2>3. \A n \in Nat : n \in T
    BY <2>1, <2>2, Induction
  <2> QED BY <2>3 DEF T
<1>2. \A n \in Nat : \A h \in Way(n) : \A g \in Way(n + 1) : h[n] = g[n]
  <2> SUFFICES ASSUME NEW n \in Nat, NEW h \in Way(n), NEW g \in Way(n + 1) PROVE h[n] = g[n]
    OBVIOUS
  <2> DEFINE T == {k \in Nat : k <= n => h[k] = g[k]}
  <2>1. 0 \in T
    OBVIOUS
  <2>2. ASSUME NEW k \in Nat, k \in T PROVE k + 1 \in T
    <3>1. ASSUME k + 1 <= n PROVE h[k + 1] = g[k + 1]
      <4>1. k \in 0 .. n - 1 /\ k \in 0 .. (n + 1) - 1 /\ h[k] = g[k]
        BY <2>2, <3>1
      <4> QED BY <4>1
    <3> QED BY <3>1
  <2> HIDE DEF T
  <2>3. n \in T
    BY <2>1, <2>2, Induction
  <2> QED BY <2>3 DEF T
<1> DEFINE pick(n) == CHOOSE h \in Way(n) : TRUE
           f == [n \in Nat |-> pick(n)[n]]
<1>3. \A n \in Nat : pick(n) \in Way(n)
  BY <1>1
<1> HIDE DEF pick
<1>4. f \in [Nat -> S]
  <2>1. ASSUME NEW n \in Nat PROVE pick(n)[n] \in S
    BY <1>3
  <2> QED BY <2>1
<1>5. f[0] = a
  BY <1>3
<1>6. ASSUME NEW n \in Nat PROVE f[n + 1] = F[<<n, f[n]>>]
  <2>1. pick(n + 1) \in Way(n + 1) /\ pick(n) \in Way(n)
    BY <1>3
  <2>2. n \in 0 .. (n + 1) - 1
    OBVIOUS
  <2>3. pick(n + 1)[n + 1] = F[<<n, pick(n + 1)[n]>>]
    BY <2>1, <2>2
  <2>4. pick(n)[n] = pick(n + 1)[n]
    BY <1>2, <2>1
  <2>5. f[n + 1] = pick(n + 1)[n + 1] /\ f[n] = pick(n)[n]
    OBVIOUS
  <2> QED BY <2>3, <2>4, <2>5
<1> QED BY <1>4, <1>5, <1>6 DEF Leads

(* So there is what a loop of some rounds computes, each from what the one *)
(* before it left.                                                         *)
Stays(F, N, S) == \A n \in 1 .. N : \A x \in S : F[<<n, x>>] \in S

LEMMA Rounds ==
  ASSUME NEW S, NEW a \in S, NEW N \in Nat, NEW F, Stays(F, N, S)
  PROVE  \E g \in [0 .. N -> S] : g[0] = a /\ \A n \in 1 .. N : g[n] = F[<<n, g[n - 1]>>]
<1> DEFINE G == [z \in Nat \X S |-> IF z[1] + 1 \in 1 .. N THEN F[<<z[1] + 1, z[2]>>] ELSE z[2]]
<1>1. G \in [Nat \X S -> S]
  <2> SUFFICES ASSUME NEW n \in Nat, NEW x \in S PROVE G[<<n, x>>] \in S
    OBVIOUS
  <2> QED BY DEF Stays
<1>2. PICK f \in [Nat -> S] : Leads(f, a, G)
  <2> HIDE DEF G
  <2> QED BY <1>1, Recursion
<1>3. ASSUME NEW n \in 1 .. N PROVE f[n] = F[<<n, f[n - 1]>>]
  <2>1. n - 1 \in Nat /\ (n - 1) + 1 = n /\ f[n - 1] \in S
    OBVIOUS
  <2>2. f[(n - 1) + 1] = G[<<n - 1, f[n - 1]>>]
    <3> HIDE DEF G
    <3> QED BY <1>2, <2>1 DEF Leads
  <2> QED BY <2>1, <2>2
<1> DEFINE g == [n \in 0 .. N |-> f[n]]
<1>4. g \in [0 .. N -> S] /\ g[0] = a
  BY <1>2 DEF Leads
<1>5. \A n \in 1 .. N : g[n] = F[<<n, g[n - 1]>>]
  <2>1. \A n \in 1 .. N : n \in 0 .. N /\ n - 1 \in 0 .. N
    OBVIOUS
  <2> QED BY <1>3, <2>1
<1> QED BY <1>4, <1>5

-----------------------------------------------------------------------------
(* What a loop keeps of a list: items of the list, each from a place that  *)
(* is to be kept, in the order of the places.                              *)
KeepsAlong(f, s, I) ==
  f[0] = <<>> /\ \A n \in Nat : f[n + 1] = IF n + 1 \in I THEN Append(f[n], s[n + 1]) ELSE f[n]

LEMMA KeptRuns ==
  ASSUME NEW X, NEW s \in Seq(X), NEW J, J \subseteq DOMAIN s
  PROVE  \E f \in [Nat -> Seq(X)] : Kept(s, J) = f[Len(s)] /\ KeepsAlong(f, s, J)
<1> DEFINE body(g) == [n \in Nat |-> IF n = 0 THEN <<>>
                                     ELSE IF n \in J THEN Append(g[n-1], s[n]) ELSE g[n-1]]
           upTo == CHOOSE g : g = body(g)
           F == [p \in Nat \X Seq(X) |-> IF p[1] + 1 \in J THEN Append(p[2], s[p[1] + 1]) ELSE p[2]]
<1>1. Kept(s, J) = upTo[Len(s)]
  BY DEF Kept
<1>2. \A i \in J : s[i] \in X
  OBVIOUS
<1>3. F \in [Nat \X Seq(X) -> Seq(X)]
  <2>1. ASSUME NEW p \in Nat \X Seq(X)
        PROVE  (IF p[1] + 1 \in J THEN Append(p[2], s[p[1] + 1]) ELSE p[2]) \in Seq(X)
    <3>1. p[2] \in Seq(X)
      OBVIOUS
    <3> QED BY <1>2, <3>1
  <2> QED BY <2>1
<1>4. <<>> \in Seq(X)
  OBVIOUS
<1>5. PICK f \in [Nat -> Seq(X)] : f[0] = <<>> /\ \A n \in Nat : f[n + 1] = F[<<n, f[n]>>]
  <2> HIDE DEF F
  <2>1. \E f \in [Nat -> Seq(X)] : Leads(f, <<>>, F)
    BY <1>3, <1>4, Recursion
  <2> QED BY <2>1 DEF Leads
<1>6. \A n \in Nat : f[n + 1] = IF n + 1 \in J THEN Append(f[n], s[n + 1]) ELSE f[n]
  <2> SUFFICES ASSUME NEW n \in Nat PROVE f[n + 1] = IF n + 1 \in J THEN Append(f[n], s[n + 1]) ELSE f[n]
    OBVIOUS
  <2>1. <<n, f[n]>> \in Nat \X Seq(X) /\ <<n, f[n]>>[1] = n /\ <<n, f[n]>>[2] = f[n]
    BY <1>5
  <2> QED BY <1>5, <2>1
<1>7. f = body(f)
  <2>1. ASSUME NEW n \in Nat
        PROVE  f[n] = IF n = 0 THEN <<>> ELSE IF n \in J THEN Append(f[n-1], s[n]) ELSE f[n-1]
    <3>1. CASE n = 0
      BY <1>5, <3>1
    <3>2. CASE n # 0
      <4>1. n - 1 \in Nat /\ (n - 1) + 1 = n
        BY <3>2
      <4> QED BY <1>6, <3>2, <4>1
    <3> QED BY <3>1, <3>2
  <2> QED BY <1>5, <2>1
<1>8. upTo = body(upTo)
  <2> HIDE DEF body
  <2> QED BY <1>7
<1>9. upTo[0] = <<>> /\ \A n \in Nat : upTo[n + 1] = IF n + 1 \in J THEN Append(upTo[n], s[n + 1]) ELSE upTo[n]
  <2> HIDE DEF upTo
  <2>1. \A n \in Nat : upTo[n] = IF n = 0 THEN <<>> ELSE IF n \in J THEN Append(upTo[n-1], s[n]) ELSE upTo[n-1]
    BY <1>8
  <2>2. \A n \in Nat : n + 1 \in Nat /\ n + 1 # 0 /\ (n + 1) - 1 = n
    OBVIOUS
  <2> QED BY <2>1, <2>2
<1> DEFINE T == {n \in Nat : upTo[n] = f[n]}
<1> HIDE DEF upTo
<1>10. 0 \in T
  BY <1>5, <1>9
<1>11. ASSUME NEW n \in Nat, n \in T PROVE n + 1 \in T
  <2>1. n + 1 \in Nat /\ upTo[n] = f[n]
    BY <1>11
  <2> QED BY <1>6, <1>9, <2>1
<1> HIDE DEF T
<1>12. \A n \in Nat : n \in T
  BY <1>10, <1>11, Induction
<1>13. upTo[Len(s)] = f[Len(s)]
  <2>1. Len(s) \in Nat
    OBVIOUS
  <2> QED BY <1>12, <2>1 DEF T
<1> QED BY <1>1, <1>5, <1>6, <1>13 DEF KeepsAlong

NoRepeats(s) == \A i, j \in DOMAIN s : s[i] = s[j] => i = j

LEMMA WiderSeq ==
  ASSUME NEW A, NEW B, A \subseteq B, NEW s \in Seq(A)
  PROVE  s \in Seq(B)
<1>1. s \in [1 .. Len(s) -> B] /\ Len(s) \in Nat
  OBVIOUS
<1> QED BY <1>1

LEMMA AppendFacts ==
  ASSUME NEW A, NEW s \in Seq(A), NEW x \in A
  PROVE  /\ Append(s, x) \in Seq(A) /\ Len(s) \in Nat /\ Append(s, x)[Len(s) + 1] = x
         /\ DOMAIN Append(s, x) = 1 .. Len(s) + 1 /\ DOMAIN s = 1 .. Len(s)
         /\ \A i \in 1 .. Len(s) : Append(s, x)[i] = s[i] /\ s[i] \in A
OBVIOUS

LEMMA KeptFacts ==
  ASSUME NEW X, NEW s \in Seq(X), NEW I, I \subseteq DOMAIN s
  PROVE  /\ Kept(s, I) \in Seq({s[i] : i \in I})
         /\ (\A i, j \in I : s[i] = s[j] => i = j) => NoRepeats(Kept(s, I))
<1>1. DOMAIN s = 1 .. Len(s) /\ Len(s) \in Nat
  OBVIOUS
<1>2. PICK f \in [Nat -> Seq(X)] : Kept(s, I) = f[Len(s)] /\ KeepsAlong(f, s, I)
  BY KeptRuns
<1> DEFINE Early(n) == {s[i] : i \in {j \in I : j <= n}}
           T == {n \in Nat : f[n] \in Seq(Early(n)) /\ ((\A i, j \in I : s[i] = s[j] => i = j) => NoRepeats(f[n]))}
<1>3. 0 \in T
  <2>1. <<>> \in Seq(Early(0)) /\ NoRepeats(<<>>)
    BY DEF NoRepeats
  <2> QED BY <1>2, <2>1 DEF KeepsAlong
<1>4. ASSUME NEW n \in Nat, n \in T PROVE n + 1 \in T
  <2>1. /\ f[n] \in Seq(Early(n))
        /\ (\A i, j \in I : s[i] = s[j] => i = j) => NoRepeats(f[n])
        /\ n + 1 \in Nat
    BY <1>4
  <2>2. Early(n) \subseteq Early(n + 1)
    <3>1. \A j \in I : j <= n => j <= n + 1
      BY <1>1
    <3> QED BY <3>1
  <2>3. f[n] \in Seq(Early(n + 1))
    BY <2>1, <2>2, WiderSeq
  <2>4. CASE n + 1 \notin I
    <3>1. f[n + 1] = f[n]
      BY <1>2, <2>4 DEF KeepsAlong
    <3> QED BY <2>1, <2>3, <3>1
  <2>5. CASE n + 1 \in I
    <3>1. f[n + 1] = Append(f[n], s[n + 1])
      BY <1>2, <2>5 DEF KeepsAlong
    <3>2. s[n + 1] \in Early(n + 1)
      <4>1. n + 1 \in {j \in I : j <= n + 1}
        BY <2>1, <2>5
      <4> QED BY <4>1
    <3>3. ASSUME \A i, j \in I : s[i] = s[j] => i = j PROVE s[n + 1] \notin Early(n)
      <4>1. \A i \in I : i <= n => i # n + 1
        BY <1>1
      <4> QED BY <2>5, <3>3, <4>1
    <3> HIDE DEF Early
    <3>4. /\ f[n + 1] \in Seq(Early(n + 1)) /\ Len(f[n]) \in Nat /\ f[n + 1][Len(f[n]) + 1] = s[n + 1]
          /\ DOMAIN f[n + 1] = 1 .. Len(f[n]) + 1 /\ DOMAIN f[n] = 1 .. Len(f[n])
          /\ \A i \in 1 .. Len(f[n]) : f[n + 1][i] = f[n][i]
      BY <2>3, <3>1, <3>2, AppendFacts
    <3>5. \A i \in 1 .. Len(f[n]) : f[n][i] \in Early(n)
      BY <2>1
    <3>6. ASSUME \A i, j \in I : s[i] = s[j] => i = j PROVE NoRepeats(f[n + 1])
      <4>1. s[n + 1] \notin Early(n) /\ NoRepeats(f[n])
        BY <2>1, <3>3, <3>6
      <4>2. \A m \in Nat : \A i \in 1 .. m + 1 : i \in 1 .. m \/ i = m + 1
        OBVIOUS
      <4> QED BY <3>4, <3>5, <4>1, <4>2 DEF NoRepeats
    <3> QED BY <2>1, <3>4, <3>6
  <2> QED BY <2>4, <2>5
<1>5. \A n \in Nat : n \in T
  <2> HIDE DEF T
  <2> QED BY <1>3, <1>4, Induction
<1>6. /\ Kept(s, I) \in Seq(Early(Len(s)))
      /\ (\A i, j \in I : s[i] = s[j] => i = j) => NoRepeats(Kept(s, I))
  BY <1>1, <1>2, <1>5
<1>7. Early(Len(s)) \subseteq {s[i] : i \in I}
  OBVIOUS
<1> HIDE DEF Early
<1> QED BY <1>6, <1>7, WiderSeq

(* What a loop keeps, place by place: the items at the kept places, in     *)
(* their order, none of them left out.                                     *)
Picks(q, s, J, m, g) ==
  /\ q = [i \in 1 .. m |-> s[g[i]]]
  /\ \A i, j \in 1 .. m : i < j => g[i] < g[j]
  /\ \A k \in J : \E i \in 1 .. m : g[i] = k

LEMMA KeptPlaces ==
  ASSUME NEW X, NEW s \in Seq(X), NEW J, J \subseteq DOMAIN s
  PROVE  \E m \in Nat : \E g \in [1 .. m -> J] : Picks(Kept(s, J), s, J, m, g)
<1>1. DOMAIN s = 1 .. Len(s) /\ Len(s) \in Nat
  OBVIOUS
<1>8. \A k \in J : k \in Nat
  BY <1>1
<1>9. \A k, n \in Nat : (k <= n + 1 <=> k <= n \/ k = n + 1) /\ (k <= n => k < n + 1)
  OBVIOUS
<1>2. PICK f \in [Nat -> Seq(X)] : Kept(s, J) = f[Len(s)] /\ KeepsAlong(f, s, J)
  BY KeptRuns
<1> DEFINE Early(n) == {j \in J : j <= n}
           Has(n) == \E m \in Nat : \E g \in [1 .. m -> Early(n)] : Picks(f[n], s, Early(n), m, g)
           T == {n \in Nat : Has(n)}
<1>3. 0 \in T
  <2>1. Early(0) = {}
    BY <1>1
  <2>2. [i \in 1 .. 0 |-> 0] \in [1 .. 0 -> Early(0)] /\ 1 .. 0 = {}
    OBVIOUS
  <2> HIDE DEF Early
  <2>3. f[0] = <<>>
    BY <1>2 DEF KeepsAlong
  <2>4. Picks(f[0], s, Early(0), 0, [i \in 1 .. 0 |-> 0])
    BY <2>1, <2>2, <2>3 DEF Picks
  <2> QED BY <2>2, <2>4
<1>4. ASSUME NEW n \in Nat, n \in T PROVE n + 1 \in T
  <2>1. PICK m \in Nat : \E g \in [1 .. m -> Early(n)] : Picks(f[n], s, Early(n), m, g)
    BY <1>4
  <2>2. PICK g \in [1 .. m -> Early(n)] : Picks(f[n], s, Early(n), m, g)
    BY <2>1
  <2>3. CASE n + 1 \notin J
    <3>1. f[n + 1] = f[n]
      BY <1>2, <2>3 DEF KeepsAlong
    <3>2. Early(n + 1) = Early(n)
      <4>1. \A k \in J : k <= n + 1 <=> k <= n
        BY <1>8, <1>9, <2>3
      <4> QED BY <4>1
    <3> HIDE DEF Early
    <3> QED BY <2>2, <3>1, <3>2
  <2>4. CASE n + 1 \in J
    <3> DEFINE h == [i \in 1 .. m + 1 |-> IF i = m + 1 THEN n + 1 ELSE g[i]]
    <3>1. Early(n + 1) = Early(n) \cup {n + 1} /\ \A k \in Early(n) : k \in Nat /\ k < n + 1
      <4>1. \A k \in J : k \in Nat /\ (k <= n + 1 <=> k <= n \/ k = n + 1) /\ (k <= n => k < n + 1)
        BY <1>8, <1>9
      <4> QED BY <2>4, <4>1
    <3> HIDE DEF Early
    <3>2. h \in [1 .. m + 1 -> Early(n + 1)]
      BY <3>1
    <3>3. f[n + 1] = Append(f[n], s[n + 1])
      BY <1>2, <2>4 DEF KeepsAlong
    <3>4. \A i \in 1 .. m + 1 : h[i] = IF i = m + 1 THEN n + 1 ELSE g[i]
      OBVIOUS
    <3>5. \A i \in 1 .. m + 1 : i = m + 1 \/ i \in 1 .. m
      OBVIOUS
    <3> HIDE DEF h
    <3>6. ASSUME NEW i \in 1 .. m + 1, NEW j \in 1 .. m + 1, i < j PROVE h[i] < h[j]
      <4>1. i \in 1 .. m /\ i # m + 1
        BY <3>6
      <4>2. CASE j = m + 1
        BY <3>1, <3>4, <4>1, <4>2
      <4>3. CASE j # m + 1
        BY <2>2, <3>4, <3>5, <3>6, <4>1, <4>3 DEF Picks
      <4> QED BY <4>2, <4>3
    <3>7. ASSUME NEW k \in Early(n + 1) PROVE \E i \in 1 .. m + 1 : h[i] = k
      <4>1. CASE k = n + 1
        <5>1. m + 1 \in 1 .. m + 1
          OBVIOUS
        <5> QED BY <3>4, <4>1, <5>1
      <4>2. CASE k # n + 1
        <5>4. k \in Early(n)
          BY <3>1, <3>7, <4>2
        <5>1. PICK i \in 1 .. m : g[i] = k
          BY <2>2, <5>4 DEF Picks
        <5>2. i \in 1 .. m + 1 /\ i # m + 1
          BY <5>1
        <5>3. h[i] = g[i]
          BY <3>4, <5>2
        <5> QED BY <5>1, <5>2, <5>3, Zenon
      <4> QED BY <4>1, <4>2
    <3>8. f[n + 1] = [i \in 1 .. m + 1 |-> s[h[i]]]
      <4>1. f[n] = [i \in 1 .. m |-> s[g[i]]] /\ f[n] \in Seq(X)
        BY <1>2, <2>2 DEF Picks
      <4>2. Len(f[n]) = m
        BY <4>1
      <4>3. Append(f[n], s[n + 1]) = [i \in 1 .. m + 1 |-> IF i = m + 1 THEN s[n + 1] ELSE f[n][i]]
        BY <4>1, <4>2
      <4>4. \A i \in 1 .. m + 1 : s[h[i]] = IF i = m + 1 THEN s[n + 1] ELSE f[n][i]
        BY <3>4, <3>5, <4>1
      <4> QED BY <3>3, <4>3, <4>4
    <3>9. Picks(f[n + 1], s, Early(n + 1), m + 1, h)
      BY <3>6, <3>7, <3>8 DEF Picks
    <3> QED BY <3>2, <3>9
  <2> QED BY <2>3, <2>4
<1>5. \A n \in Nat : n \in T
  <2> HIDE DEF T
  <2> QED BY <1>3, <1>4, Induction
<1>6. Has(Len(s))
  BY <1>1, <1>5
<1>7. Early(Len(s)) = J
  BY <1>1
<1> HIDE DEF Early
<1> QED BY <1>2, <1>6, <1>7

(* The places are the only ones: two selections of the same places are the *)
(* same selection.                                                         *)
Ascends(J, m, g) ==
  /\ \A i, j \in 1 .. m : i < j => g[i] < g[j]
  /\ \A k \in J : \E i \in 1 .. m : g[i] = k

LEMMA NoPlaceIsSkipped ==
  ASSUME NEW J, J \subseteq Nat, NEW m \in Nat, NEW n \in Nat,
         NEW g \in [1 .. m -> J], NEW h \in [1 .. n -> J], Ascends(J, m, g), Ascends(J, n, h),
         NEW i \in 1 .. m, i \in 1 .. n, \A k \in 1 .. i - 1 : g[k] = h[k]
  PROVE  ~(g[i] < h[i])
<1> SUFFICES ASSUME g[i] < h[i] PROVE FALSE
  OBVIOUS
<1>1. PICK j \in 1 .. n : h[j] = g[i]
  BY DEF Ascends
<1>2. g[i] \in Nat /\ h[i] \in Nat /\ h[j] \in Nat
  BY <1>1
<1>3. j < i
  <2>1. ~(i < j) /\ i # j
    <3>1. i < j => h[i] < h[j]
      BY DEF Ascends
    <3> QED BY <1>1, <1>2, <3>1
  <2> QED BY <2>1
<1>4. j \in 1 .. i - 1 /\ j \in 1 .. m
  BY <1>3
<1>5. g[j] < g[i]
  BY <1>3, <1>4 DEF Ascends
<1> QED BY <1>1, <1>2, <1>4, <1>5

LEMMA PlacesAreTheSame ==
  ASSUME NEW J, J \subseteq Nat, NEW m \in Nat, NEW n \in Nat,
         NEW g \in [1 .. m -> J], NEW h \in [1 .. n -> J], Ascends(J, m, g), Ascends(J, n, h)
  PROVE  m = n /\ g = h
<1>1. \A i \in 1 .. m : i <= n => g[i] = h[i]
  <2> SUFFICES ASSUME {i \in 1 .. m : i <= n /\ g[i] # h[i]} # {} PROVE FALSE
    OBVIOUS
  <2>1. PICK i \in {k \in 1 .. m : k <= n /\ g[k] # h[k]} :
          \A q \in {k \in 1 .. m : k <= n /\ g[k] # h[k]} : i <= q
    <3> DEFINE S == {k \in 1 .. m : k <= n /\ g[k] # h[k]}
    <3>1. S \subseteq Nat /\ S # {}
      OBVIOUS
    <3> HIDE DEF S
    <3>2. \E i \in S : \A q \in S : i <= q
      BY <3>1, LeastExists
    <3> QED BY <3>2 DEF S
  <2>2. \A k \in 1 .. i - 1 : k \in 1 .. m /\ k <= n /\ ~(i <= k)
    BY <2>1
  <2>3. \A k \in 1 .. i - 1 : g[k] = h[k] /\ h[k] = g[k]
    BY <2>1, <2>2
  <2>4. i \in 1 .. n /\ g[i] \in Nat /\ h[i] \in Nat
    <3>1. i \in 1 .. m /\ i <= n
      BY <2>1
    <3>2. i \in 1 .. n
      BY <3>1
    <3>3. g[i] \in J /\ h[i] \in J
      BY <3>1, <3>2
    <3> QED BY <3>2, <3>3
  <2>5. ~(g[i] < h[i])
    BY <2>3, <2>4, NoPlaceIsSkipped
  <2>6. ~(h[i] < g[i])
    BY <2>3, <2>4, NoPlaceIsSkipped
  <2> QED BY <2>1, <2>4, <2>5, <2>6
<1>2. ~(m < n)
  <2> SUFFICES ASSUME m < n PROVE FALSE
    OBVIOUS
  <2>1. n \in 1 .. n /\ h[n] \in J /\ h[n] \in Nat
    <3>1. n \in 1 .. n
      OBVIOUS
    <3>2. h[n] \in J
      BY <3>1
    <3> QED BY <3>1, <3>2
  <2>2. PICK j \in 1 .. m : g[j] = h[n]
    BY <2>1 DEF Ascends
  <2>3. j \in 1 .. n /\ j < n /\ h[j] = h[n]
    BY <1>1, <2>2
  <2>4. h[j] < h[n]
    BY <2>1, <2>3 DEF Ascends
  <2> QED BY <2>1, <2>3, <2>4
<1>3. ~(n < m)
  <2> SUFFICES ASSUME n < m PROVE FALSE
    OBVIOUS
  <2>1. m \in 1 .. m /\ g[m] \in J /\ g[m] \in Nat
    <3>1. m \in 1 .. m
      OBVIOUS
    <3>2. g[m] \in J
      BY <3>1
    <3> QED BY <3>1, <3>2
  <2>2. PICK j \in 1 .. n : h[j] = g[m]
    BY <2>1 DEF Ascends
  <2>3. j \in 1 .. m /\ j < m /\ g[j] = g[m]
    BY <1>1, <2>2
  <2>4. g[j] < g[m]
    BY <2>1, <2>3 DEF Ascends
  <2> QED BY <2>1, <2>3, <2>4
<1> QED BY <1>1, <1>2, <1>3
-----------------------------------------------------------------------------
(* Sums. SumFunctionOnSet takes the items one after the other, in some     *)
(* order that its definition chooses; the order does not matter.           *)
Adds(f, S, g) ==
  g = [s \in SUBSET S |-> IF s = {} THEN 0
                          ELSE f[CHOOSE x \in s : TRUE] + g[s \ {CHOOSE x \in s : TRUE}]]

LEMMA OneLess ==
  ASSUME NEW S, IsFiniteSet(S), NEW x \in S, NEW n \in Nat, Cardinality(S) = n + 1
  PROVE  IsFiniteSet(S \ {x}) /\ Cardinality(S \ {x}) = n
<1>1. IsFiniteSet(S \ {x}) /\ Cardinality(S \ {x}) = Cardinality(S) - 1
  BY FS_RemoveElement
<1> QED BY <1>1

LEMMA SumsExist ==
  ASSUME NEW S, IsFiniteSet(S), NEW f, \A x \in S : f[x] \in Int
  PROVE  \E g \in [SUBSET S -> Int] : Adds(f, S, g)
<1> DEFINE pick(s) == CHOOSE x \in s : TRUE
           H == [SUBSET S -> Int]
           next(h) == [s \in SUBSET S |-> IF s = {} THEN 0 ELSE f[pick(s)] + h[s \ {pick(s)}]]
           F == [z \in Nat \X H |-> next(z[2])]
           empty == [s \in SUBSET S |-> 0]
<1>1. \A s \in SUBSET S : s # {} => pick(s) \in s /\ f[pick(s)] \in Int /\ s \ {pick(s)} \in SUBSET S
  OBVIOUS
<1> HIDE DEF pick
<1>2. F \in [Nat \X H -> H]
  <2>1. \A h \in H : next(h) \in H
    BY <1>1
  <2>2. \A z \in Nat \X H : z[2] \in H
    OBVIOUS
  <2> HIDE DEF next, H
  <2> QED BY <2>1, <2>2
<1>3. empty \in H
  OBVIOUS
<1>4. PICK h \in [Nat -> H] : Leads(h, empty, F)
  <2> HIDE DEF F, H, empty
  <2> QED BY <1>2, <1>3, Recursion
<1>5. \A n \in Nat : h[n] \in H /\ h[n + 1] = next(h[n])
  <2> SUFFICES ASSUME NEW n \in Nat PROVE h[n] \in H /\ h[n + 1] = next(h[n])
    OBVIOUS
  <2>1. h[n] \in H
    OBVIOUS
  <2>2. <<n, h[n]>> \in Nat \X H /\ <<n, h[n]>>[2] = h[n]
    BY <2>1
  <2> HIDE DEF next, H
  <2> QED BY <1>4, <2>1, <2>2 DEF Leads
<1> DEFINE g == [s \in SUBSET S |-> h[Cardinality(s)][s]]
<1>6. \A s \in SUBSET S : IsFiniteSet(s) /\ Cardinality(s) \in Nat
  BY FS_Subset, FS_CardinalityType
<1>7. g \in [SUBSET S -> Int]
  BY <1>5, <1>6
<1>8. ASSUME NEW s \in SUBSET S
      PROVE  g[s] = IF s = {} THEN 0 ELSE f[pick(s)] + g[s \ {pick(s)}]
  <2>1. CASE s = {}
    <3>1. Cardinality(s) = 0
      BY <2>1, FS_EmptySet
    <3>2. h[0] = empty
      BY <1>4 DEF Leads
    <3> QED BY <2>1, <3>1, <3>2
  <2>2. CASE s # {}
    <3>1. pick(s) \in s /\ s \ {pick(s)} \in SUBSET S
      BY <1>1, <2>2
    <3>2. Cardinality(s \ {pick(s)}) \in Nat /\ Cardinality(s) = Cardinality(s \ {pick(s)}) + 1
      <4>1. Cardinality(s \ {pick(s)}) = Cardinality(s) - 1
        BY <1>6, <3>1, FS_RemoveElement
      <4> QED BY <1>6, <3>1, <4>1
    <3> DEFINE n == Cardinality(s \ {pick(s)})
    <3>3. g[s] = h[n + 1][s] /\ g[s \ {pick(s)}] = h[n][s \ {pick(s)}] /\ n \in Nat
      BY <3>1, <3>2
    <3> HIDE DEF n, g
    <3>4. h[n + 1][s] = f[pick(s)] + h[n][s \ {pick(s)}]
      BY <1>5, <2>2, <3>3
    <3> QED BY <2>2, <3>3, <3>4
  <2> QED BY <2>1, <2>2
<1>9. Adds(f, S, g)
  <2>1. g = [s \in SUBSET S |-> g[s]]
    OBVIOUS
  <2> HIDE DEF g
  <2>2. g = [s \in SUBSET S |-> IF s = {} THEN 0 ELSE f[pick(s)] + g[s \ {pick(s)}]]
    BY <1>8, <2>1
  <2> QED BY <2>2 DEF Adds, pick
<1> QED BY <1>7, <1>9

LEMMA SumsAgree ==
  ASSUME NEW S, IsFiniteSet(S), NEW R \in SUBSET S, NEW f, NEW g, NEW h,
         Adds(f, S, g), Adds(f, R, h)
  PROVE  \A s \in SUBSET R : g[s] = h[s]
<1> DEFINE pick(s) == CHOOSE x \in s : TRUE
           T == {n \in Nat : \A s \in SUBSET R : Cardinality(s) = n => g[s] = h[s]}
<1>1. \A s \in SUBSET R : IsFiniteSet(s) /\ Cardinality(s) \in Nat /\ s \in SUBSET S
  BY FS_Subset, FS_CardinalityType
<1>2. \A s \in SUBSET R :
        /\ g[s] = IF s = {} THEN 0 ELSE f[pick(s)] + g[s \ {pick(s)}]
        /\ h[s] = IF s = {} THEN 0 ELSE f[pick(s)] + h[s \ {pick(s)}]
        /\ s # {} => pick(s) \in s /\ s \ {pick(s)} \in SUBSET R
  BY DEF Adds
<1> HIDE DEF pick
<1>3. 0 \in T
  <2>1. \A s \in SUBSET R : Cardinality(s) = 0 => s = {}
    BY <1>1, FS_EmptySet
  <2> QED BY <1>2, <2>1
<1>4. ASSUME NEW n \in Nat, n \in T PROVE n + 1 \in T
  <2> SUFFICES ASSUME NEW s \in SUBSET R, Cardinality(s) = n + 1 PROVE g[s] = h[s]
    OBVIOUS
  <2>1. s # {}
    BY FS_EmptySet
  <2>2. pick(s) \in s /\ s \ {pick(s)} \in SUBSET R
    BY <1>2, <2>1
  <2>3. Cardinality(s \ {pick(s)}) = n
    BY <1>1, <2>2, OneLess
  <2>4. g[s \ {pick(s)}] = h[s \ {pick(s)}]
    BY <1>4, <2>2, <2>3
  <2> QED BY <1>2, <2>1, <2>4
<1> HIDE DEF T
<1>5. \A n \in Nat : n \in T
  BY <1>3, <1>4, Induction
<1> QED BY <1>1, <1>5 DEF T

LEMMA SumFirst ==
  ASSUME NEW S, IsFiniteSet(S), NEW f, \A x \in S : f[x] \in Int
  PROVE  /\ SumFunctionOnSet(f, S) \in Int
         /\ S = {} => SumFunctionOnSet(f, S) = 0
         /\ S # {} => LET x == CHOOSE x \in S : TRUE
                      IN SumFunctionOnSet(f, S) = f[x] + SumFunctionOnSet(f, S \ {x})
<1> DEFINE it(R) == CHOOSE g : Adds(f, R, g)
<1>1. \A R \in SUBSET S : SumFunctionOnSet(f, R) = it(R)[R]
  BY DEF SumFunctionOnSet, FoldFunctionOnSet, MapThenFoldSet, Adds
<1>2. ASSUME NEW R \in SUBSET S PROVE Adds(f, R, it(R))
  <2>1. IsFiniteSet(R) /\ \A x \in R : f[x] \in Int
    BY FS_Subset
  <2>2. \E g : Adds(f, R, g)
    BY <2>1, SumsExist
  <2> QED BY <2>2
<1>3. it(S)[S] \in Int
  <2>1. PICK g \in [SUBSET S -> Int] : Adds(f, S, g)
    BY SumsExist
  <2>2. S \in SUBSET S /\ Adds(f, S, it(S))
    BY <1>2
  <2> HIDE DEF it
  <2>3. g[S] = it(S)[S]
    BY <2>1, <2>2, SumsAgree
  <2> QED BY <2>1, <2>2, <2>3
<1> HIDE DEF it
<1>4. S = {} => it(S)[S] = 0
  BY <1>2 DEF Adds
<1>5. ASSUME S # {}
      PROVE LET x == CHOOSE x \in S : TRUE IN SumFunctionOnSet(f, S) = f[x] + SumFunctionOnSet(f, S \ {x})
  <2> DEFINE x == CHOOSE x \in S : TRUE
             R == S \ {x}
  <2>1. S \in SUBSET S /\ R \in SUBSET S /\ R \in SUBSET R
    OBVIOUS
  <2>2. Adds(f, S, it(S)) /\ Adds(f, R, it(R))
    BY <1>2, <2>1
  <2>3. it(S)[S] = f[x] + it(S)[R]
    BY <1>5, <2>1, <2>2 DEF Adds
  <2>4. it(S)[R] = it(R)[R]
    <3> HIDE DEF R
    <3> QED BY <2>1, <2>2, SumsAgree
  <2> QED BY <1>1, <2>1, <2>3, <2>4
<1> QED BY <1>1, <1>3, <1>4, <1>5

(* In particular any item may be taken first.                              *)
LEMMA SumAny ==
  ASSUME NEW S, IsFiniteSet(S), NEW f, \A x \in S : f[x] \in Int
  PROVE  \A y \in S : SumFunctionOnSet(f, S) = f[y] + SumFunctionOnSet(f, S \ {y})
<1> DEFINE sum(R) == SumFunctionOnSet(f, R)
           T == {n \in Nat : \A R \in SUBSET S : Cardinality(R) = n =>
                               \A y \in R : sum(R) = f[y] + sum(R \ {y})}
<1>1. \A R \in SUBSET S : /\ IsFiniteSet(R) /\ Cardinality(R) \in Nat /\ sum(R) \in Int
                          /\ R # {} => \E x \in R : sum(R) = f[x] + sum(R \ {x})
  <2> SUFFICES ASSUME NEW R \in SUBSET S
               PROVE  /\ IsFiniteSet(R) /\ Cardinality(R) \in Nat /\ sum(R) \in Int
                      /\ R # {} => \E x \in R : sum(R) = f[x] + sum(R \ {x})
    OBVIOUS
  <2>1. IsFiniteSet(R) /\ Cardinality(R) \in Nat
    BY FS_Subset, FS_CardinalityType
  <2>2. \A x \in R : f[x] \in Int
    OBVIOUS
  <2> QED BY <2>1, <2>2, SumFirst
<1> HIDE DEF sum
<1>2. 0 \in T
  <2>1. \A R \in SUBSET S : Cardinality(R) = 0 => R = {}
    BY <1>1, FS_EmptySet
  <2> QED BY <2>1
<1>3. ASSUME NEW n \in Nat, n \in T PROVE n + 1 \in T
  <2> SUFFICES ASSUME NEW R \in SUBSET S, Cardinality(R) = n + 1, NEW y \in R
               PROVE sum(R) = f[y] + sum(R \ {y})
    OBVIOUS
  <2>1. PICK x \in R : sum(R) = f[x] + sum(R \ {x})
    BY <1>1
  <2>2. CASE x = y
    BY <2>1, <2>2
  <2>3. CASE x # y
    <3>1. R \ {x} \in SUBSET S /\ R \ {y} \in SUBSET S /\ (R \ {x}) \ {y} \in SUBSET S
          /\ (R \ {x}) \ {y} = (R \ {y}) \ {x} /\ y \in R \ {x} /\ x \in R \ {y}
      BY <2>3
    <3>2. Cardinality(R \ {x}) = n /\ Cardinality(R \ {y}) = n
      BY <1>1, OneLess
    <3>3. sum(R \ {x}) = f[y] + sum((R \ {x}) \ {y})
      BY <1>3, <3>1, <3>2
    <3>4. sum(R \ {y}) = f[x] + sum((R \ {y}) \ {x})
      BY <1>3, <3>1, <3>2
    <3>5. f[x] \in Int /\ f[y] \in Int /\ sum((R \ {y}) \ {x}) \in Int
      BY <1>1, <3>1
    <3> DEFINE a == f[x]
               b == f[y]
               c == sum((R \ {y}) \ {x})
    <3>6. sum(R) = a + (b + c) /\ sum(R \ {y}) = a + c
      BY <2>1, <3>1, <3>3, <3>4, Zenon
    <3>7. a \in Int /\ b \in Int /\ c \in Int
      BY <3>5
    <3> HIDE DEF a, b, c
    <3>8. a + (b + c) = b + (a + c)
      BY <3>7
    <3> QED BY <3>6, <3>8 DEF b
  <2> QED BY <2>2, <2>3
<1> HIDE DEF T
<1>4. \A n \in Nat : n \in T
  BY <1>2, <1>3, Induction
<1> QED BY <1>1, <1>4 DEF T, sum

(* Two functions that agree on the items have one sum.                     *)
LEMMA SumSame ==
  ASSUME NEW S, IsFiniteSet(S), NEW f, NEW g, \A x \in S : f[x] \in Int /\ g[x] = f[x]
  PROVE  SumFunctionOnSet(g, S) = SumFunctionOnSet(f, S)
<1> DEFINE sum(h, R) == SumFunctionOnSet(h, R)
           T == {n \in Nat : \A R \in SUBSET S : Cardinality(R) = n => sum(g, R) = sum(f, R)}
<1>1. \A R \in SUBSET S : IsFiniteSet(R) /\ Cardinality(R) \in Nat
  BY FS_Subset, FS_CardinalityType
<1>2. \A R \in SUBSET S : \A h : (\A x \in R : h[x] \in Int) =>
         (R = {} => sum(h, R) = 0) /\ \A y \in R : sum(h, R) = h[y] + sum(h, R \ {y})
  BY <1>1, SumFirst, SumAny
<1> HIDE DEF sum
<1>3. 0 \in T
  <2>1. \A R \in SUBSET S : Cardinality(R) = 0 => R = {}
    BY <1>1, FS_EmptySet
  <2> QED BY <1>2, <2>1
<1>4. ASSUME NEW n \in Nat, n \in T PROVE n + 1 \in T
  <2> SUFFICES ASSUME NEW R \in SUBSET S, Cardinality(R) = n + 1 PROVE sum(g, R) = sum(f, R)
    OBVIOUS
  <2>1. PICK y \in R : TRUE
    BY FS_EmptySet
  <2>2. Cardinality(R \ {y}) = n
    BY <1>1, <2>1, OneLess
  <2>3. sum(g, R \ {y}) = sum(f, R \ {y}) /\ f[y] = g[y]
    BY <1>4, <2>2
  <2>4. sum(g, R) = g[y] + sum(g, R \ {y}) /\ sum(f, R) = f[y] + sum(f, R \ {y})
    BY <1>2
  <2> QED BY <2>3, <2>4
<1> HIDE DEF T
<1>5. \A n \in Nat : n \in T
  BY <1>3, <1>4, Induction
<1>6. sum(g, S) = sum(f, S)
  BY <1>1, <1>5 DEF T
<1> QED BY <1>6 DEF sum

(* A sum of naturals is one, no smaller than any item.                     *)
LEMMA SumNat ==
  ASSUME NEW S, IsFiniteSet(S), NEW f, \A x \in S : f[x] \in Nat
  PROVE  SumFunctionOnSet(f, S) \in Nat /\ \A y \in S : f[y] <= SumFunctionOnSet(f, S)
<1> DEFINE sum(R) == SumFunctionOnSet(f, R)
           T == {n \in Nat : \A R \in SUBSET S : Cardinality(R) = n => sum(R) \in Nat}
<1>1. \A R \in SUBSET S : IsFiniteSet(R) /\ Cardinality(R) \in Nat
  BY FS_Subset, FS_CardinalityType
<1>2. \A R \in SUBSET S : (R = {} => sum(R) = 0) /\ \A y \in R : sum(R) = f[y] + sum(R \ {y})
  <2> SUFFICES ASSUME NEW R \in SUBSET S
               PROVE  (R = {} => sum(R) = 0) /\ \A y \in R : sum(R) = f[y] + sum(R \ {y})
    OBVIOUS
  <2>1. \A x \in R : f[x] \in Int
    OBVIOUS
  <2>2. IsFiniteSet(R)
    BY <1>1
  <2>3. R = {} => sum(R) = 0
    BY <2>1, <2>2, SumFirst
  <2>4. \A y \in R : sum(R) = f[y] + sum(R \ {y})
    BY <2>1, <2>2, SumAny
  <2> QED BY <2>3, <2>4
<1> HIDE DEF sum
<1>3. 0 \in T
  <2>1. \A R \in SUBSET S : Cardinality(R) = 0 => R = {}
    BY <1>1, FS_EmptySet
  <2> QED BY <1>2, <2>1
<1>4. ASSUME NEW n \in Nat, n \in T PROVE n + 1 \in T
  <2> SUFFICES ASSUME NEW R \in SUBSET S, Cardinality(R) = n + 1 PROVE sum(R) \in Nat
    OBVIOUS
  <2>1. PICK y \in R : TRUE
    BY FS_EmptySet
  <2>2. Cardinality(R \ {y}) = n
    BY <1>1, <2>1, OneLess
  <2>3. sum(R \ {y}) \in Nat /\ f[y] \in Nat
    BY <1>4, <2>2
  <2> QED BY <1>2, <2>3
<1> HIDE DEF T
<1>5. \A R \in SUBSET S : sum(R) \in Nat
  <2>1. \A n \in Nat : n \in T
    BY <1>3, <1>4, Induction
  <2> QED BY <1>1, <2>1 DEF T
<1>6. \A y \in S : f[y] <= sum(S)
  <2> SUFFICES ASSUME NEW y \in S PROVE f[y] <= sum(S)
    OBVIOUS
  <2>1. sum(S) = f[y] + sum(S \ {y}) /\ sum(S \ {y}) \in Nat /\ f[y] \in Nat
    BY <1>2, <1>5
  <2> QED BY <2>1
<1>7. sum(S) \in Nat
  BY <1>5
<1> QED BY <1>6, <1>7 DEF sum

(* Whatever is made of finitely many things is finite.                     *)
LEMMA FiniteImage ==
  ASSUME NEW S, IsFiniteSet(S), NEW f
  PROVE  IsFiniteSet({f[x] : x \in S})
<1> DEFINE T == {f[x] : x \in S}
           g == [x \in S |-> f[x]]
<1>1. g \in Surjection(S, T)
  BY DEF Surjection
<1> HIDE DEF T, g
<1>2. IsFiniteSet(T)
  BY <1>1, FS_Surjection
<1> QED BY <1>2 DEF T

(* The items may be other ones, as long as each stands for one.            *)
LEMMA SumMapped ==
  ASSUME NEW S, IsFiniteSet(S), NEW f, NEW g, NEW m, \A x \in S : f[x] \in Int /\ g[m[x]] = f[x],
         \A x, y \in S : m[x] = m[y] => x = y
  PROVE  IsFiniteSet({m[x] : x \in S}) /\ SumFunctionOnSet(g, {m[x] : x \in S}) = SumFunctionOnSet(f, S)
<1> DEFINE sum(h, R) == SumFunctionOnSet(h, R)
           image(R) == {m[x] : x \in R}
           T == {n \in Nat : \A R \in SUBSET S : Cardinality(R) = n =>
                               IsFiniteSet(image(R)) /\ sum(g, image(R)) = sum(f, R)}
<1>1. \A R \in SUBSET S : IsFiniteSet(R) /\ Cardinality(R) \in Nat
  BY FS_Subset, FS_CardinalityType
<1>2. \A R, h : IsFiniteSet(R) /\ (\A x \in R : h[x] \in Int) =>
         (R = {} => sum(h, R) = 0) /\ \A y \in R : sum(h, R) = h[y] + sum(h, R \ {y})
  BY SumFirst, SumAny
<1> HIDE DEF sum
<1>3. 0 \in T
  <2>1. \A R \in SUBSET S : Cardinality(R) = 0 => R = {}
    BY <1>1, FS_EmptySet
  <2>2. image({}) = {} /\ IsFiniteSet({})
    BY FS_EmptySet
  <2>3. \A h : sum(h, {}) = 0
    BY <1>2, <2>2
  <2> QED BY <2>1, <2>2, <2>3
<1>4. ASSUME NEW n \in Nat, n \in T PROVE n + 1 \in T
  <2> SUFFICES ASSUME NEW R \in SUBSET S, Cardinality(R) = n + 1
               PROVE  IsFiniteSet(image(R)) /\ sum(g, image(R)) = sum(f, R)
    OBVIOUS
  <2>1. PICK y \in R : TRUE
    BY FS_EmptySet
  <2>2. Cardinality(R \ {y}) = n /\ R \ {y} \in SUBSET S
    BY <1>1, <2>1, OneLess
  <2>3. IsFiniteSet(image(R \ {y})) /\ sum(g, image(R \ {y})) = sum(f, R \ {y})
    BY <1>4, <2>2
  <2>4. image(R) = image(R \ {y}) \cup {m[y]} /\ m[y] \notin image(R \ {y})
    OBVIOUS
  <2>5. IsFiniteSet(image(R)) /\ m[y] \in image(R) /\ image(R) \ {m[y]} = image(R \ {y})
    <3> DEFINE A == image(R \ {y})
    <3>1. IsFiniteSet(A) /\ image(R) = A \cup {m[y]} /\ m[y] \notin A
      BY <2>3, <2>4
    <3> HIDE DEF A, image
    <3>2. IsFiniteSet(A \cup {m[y]})
      BY <3>1, FS_AddElement
    <3>3. image(R) \ {m[y]} = A
      BY <3>1
    <3> QED BY <3>1, <3>2, <3>3 DEF A
  <2>6. \A z \in image(R) : g[z] \in Int
    OBVIOUS
  <2> HIDE DEF image
  <2>7. sum(g, image(R)) = g[m[y]] + sum(g, image(R \ {y}))
    <3> DEFINE B == image(R)
    <3>1. IsFiniteSet(B) /\ m[y] \in B /\ \A z \in B : g[z] \in Int
      BY <2>5, <2>6
    <3> HIDE DEF B
    <3>2. sum(g, B) = g[m[y]] + sum(g, B \ {m[y]})
      BY <3>1, SumAny DEF sum
    <3> QED BY <2>5, <3>2 DEF B
  <2>8. sum(f, R) = f[y] + sum(f, R \ {y})
    BY <1>1, <1>2
  <2> QED BY <2>3, <2>5, <2>7, <2>8
<1> HIDE DEF T
<1>5. \A n \in Nat : n \in T
  BY <1>3, <1>4, Induction
<1>6. IsFiniteSet(image(S)) /\ sum(g, image(S)) = sum(f, S)
  BY <1>1, <1>5 DEF T
<1> QED BY <1>6 DEF sum

(* Induction over the subsets of a finite set: what holds of the empty set *)
(* and of a set with one item more, holds of the whole.                    *)
LEMMA SetsInduction ==
  ASSUME NEW S, IsFiniteSet(S), NEW T, {} \in T,
         \A R \in SUBSET S : \A x \in S \ R : R \in T => R \cup {x} \in T
  PROVE  S \in T
<1> DEFINE N == {n \in Nat : \A R \in SUBSET S : Cardinality(R) = n => R \in T}
<1>1. \A R \in SUBSET S : IsFiniteSet(R) /\ Cardinality(R) \in Nat
  BY FS_Subset, FS_CardinalityType
<1>2. 0 \in N
  <2>1. \A R \in SUBSET S : Cardinality(R) = 0 => R = {}
    BY <1>1, FS_EmptySet
  <2> QED BY <2>1
<1>3. ASSUME NEW n \in Nat, n \in N PROVE n + 1 \in N
  <2> SUFFICES ASSUME NEW R \in SUBSET S, Cardinality(R) = n + 1 PROVE R \in T
    OBVIOUS
  <2>0. R # {}
    <3>1. Cardinality(R) # 0
      OBVIOUS
    <3> QED BY <3>1, FS_EmptySet
  <2>1. PICK x \in R : TRUE
    BY <2>0
  <2>2. Cardinality(R \ {x}) = n /\ R \ {x} \in SUBSET S
    BY <1>1, <2>1, OneLess
  <2>3. R \ {x} \in T /\ x \in S \ (R \ {x}) /\ (R \ {x}) \cup {x} = R
    BY <1>3, <2>1, <2>2
  <2> QED BY <2>2, <2>3
<1> HIDE DEF N
<1>4. \A n \in Nat : n \in N
  BY <1>2, <1>3, Induction
<1> QED BY <1>1, <1>4 DEF N

(* What a sum is: nothing of no items, and one more with each.             *)
LEMMA SumFacts ==
  ASSUME NEW S, IsFiniteSet(S), NEW f, \A x \in S : f[x] \in Int
  PROVE  /\ SumFunctionOnSet(f, {}) = 0
         /\ \A R \in SUBSET S : /\ IsFiniteSet(R) /\ SumFunctionOnSet(f, R) \in Int
                                /\ \A x \in S \ R : SumFunctionOnSet(f, R \cup {x}) = f[x] + SumFunctionOnSet(f, R)
<1>1. SumFunctionOnSet(f, {}) = 0
  BY FS_EmptySet, SumFirst
<1>2. ASSUME NEW R \in SUBSET S PROVE IsFiniteSet(R) /\ \A x \in R : f[x] \in Int
  BY FS_Subset
<1>3. ASSUME NEW R \in SUBSET S PROVE IsFiniteSet(R) /\ SumFunctionOnSet(f, R) \in Int
  BY <1>2, SumFirst
<1>4. ASSUME NEW R \in SUBSET S, NEW x \in S \ R
      PROVE  SumFunctionOnSet(f, R \cup {x}) = f[x] + SumFunctionOnSet(f, R)
  <2> DEFINE Q == R \cup {x}
  <2>1. IsFiniteSet(Q) /\ (\A y \in Q : f[y] \in Int) /\ x \in Q /\ Q \ {x} = R
    BY <1>2
  <2> HIDE DEF Q
  <2>2. SumFunctionOnSet(f, Q) = f[x] + SumFunctionOnSet(f, Q \ {x})
    BY <2>1, SumAny
  <2> QED BY <2>1, <2>2 DEF Q
<1> QED BY <1>1, <1>3, <1>4

LEMMA SumZero ==
  ASSUME NEW S, IsFiniteSet(S), NEW f, \A x \in S : f[x] = 0
  PROVE  SumFunctionOnSet(f, S) = 0
<1> DEFINE sum(Q) == SumFunctionOnSet(f, Q)
           T == {Q \in SUBSET S : sum(Q) = 0}
<1>1. /\ sum({}) = 0
      /\ \A Q \in SUBSET S : \A x \in S \ Q : sum(Q \cup {x}) = f[x] + sum(Q)
  BY SumFacts
<1> HIDE DEF sum
<1>2. ASSUME NEW Q \in SUBSET S, NEW x \in S \ Q, Q \in T PROVE Q \cup {x} \in T
  BY <1>1, <1>2
<1>3. {} \in T
  BY <1>1
<1> HIDE DEF T
<1>4. S \in T
  BY <1>2, <1>3, SetsInduction
<1> QED BY <1>4 DEF T, sum

(* A sum may be taken in two parts.                                        *)
LEMMA SumUnion ==
  ASSUME NEW S, NEW R, IsFiniteSet(S), IsFiniteSet(R), S \cap R = {}, NEW f, \A x \in S \cup R : f[x] \in Int
  PROVE  SumFunctionOnSet(f, S \cup R) = SumFunctionOnSet(f, S) + SumFunctionOnSet(f, R)
<1> DEFINE sum(Q) == SumFunctionOnSet(f, Q)
           T == {Q \in SUBSET R : sum(S \cup Q) = sum(S) + sum(Q)}
<1>1. IsFiniteSet(S \cup R)
  BY FS_Union
<1>2. /\ sum({}) = 0
      /\ \A Q \in SUBSET (S \cup R) : /\ sum(Q) \in Int
                                      /\ \A x \in (S \cup R) \ Q : sum(Q \cup {x}) = f[x] + sum(Q)
  BY <1>1, SumFacts
<1> HIDE DEF sum
<1>3. {} \in T
  <2>1. S \cup {} = S /\ sum(S) \in Int
    BY <1>2
  <2> QED BY <1>2, <2>1
<1>4. ASSUME NEW Q \in SUBSET R, NEW x \in R \ Q, Q \in T PROVE Q \cup {x} \in T
  <2>1. S \cup Q \in SUBSET (S \cup R) /\ x \in (S \cup R) \ (S \cup Q) /\ x \in (S \cup R) \ Q
        /\ S \cup (Q \cup {x}) = (S \cup Q) \cup {x} /\ Q \in SUBSET (S \cup R) /\ S \in SUBSET (S \cup R)
    OBVIOUS
  <2>2. sum(S \cup (Q \cup {x})) = f[x] + sum(S \cup Q) /\ sum(Q \cup {x}) = f[x] + sum(Q)
    BY <1>2, <2>1
  <2>3. sum(S) \in Int /\ sum(Q) \in Int /\ f[x] \in Int /\ sum(S \cup Q) = sum(S) + sum(Q)
    BY <1>2, <1>4, <2>1
  <2>4. sum(S \cup (Q \cup {x})) = sum(S) + sum(Q \cup {x})
    BY <2>2, <2>3
  <2> QED BY <2>4
<1> HIDE DEF T
<1>5. R \in T
  BY <1>3, <1>4, SetsInduction
<1> QED BY <1>5 DEF T, sum

(* A sum is no larger than one of larger amounts, or of more of them.      *)
LEMMA SumAtMost ==
  ASSUME NEW S, IsFiniteSet(S), NEW f, NEW g, \A x \in S : f[x] \in Int /\ g[x] \in Int /\ f[x] <= g[x]
  PROVE  SumFunctionOnSet(f, S) <= SumFunctionOnSet(g, S)
<1> DEFINE sum(h, Q) == SumFunctionOnSet(h, Q)
           T == {Q \in SUBSET S : sum(f, Q) <= sum(g, Q)}
<1>1. /\ sum(f, {}) = 0 /\ sum(g, {}) = 0
      /\ \A Q \in SUBSET S : /\ sum(f, Q) \in Int /\ sum(g, Q) \in Int
                             /\ \A x \in S \ Q : /\ sum(f, Q \cup {x}) = f[x] + sum(f, Q)
                                                 /\ sum(g, Q \cup {x}) = g[x] + sum(g, Q)
  BY SumFacts
<1> HIDE DEF sum
<1>2. {} \in T
  BY <1>1
<1>3. ASSUME NEW Q \in SUBSET S, NEW x \in S \ Q, Q \in T PROVE Q \cup {x} \in T
  <2>1. sum(f, Q) \in Int /\ sum(g, Q) \in Int /\ f[x] \in Int /\ g[x] \in Int /\ f[x] <= g[x]
        /\ sum(f, Q) <= sum(g, Q)
    BY <1>1, <1>3
  <2>2. sum(f, Q \cup {x}) = f[x] + sum(f, Q) /\ sum(g, Q \cup {x}) = g[x] + sum(g, Q)
    BY <1>1
  <2>3. sum(f, Q \cup {x}) <= sum(g, Q \cup {x})
    BY <2>1, <2>2
  <2> QED BY <2>3
<1> HIDE DEF T
<1>4. S \in T
  BY <1>2, <1>3, SetsInduction
<1> QED BY <1>4 DEF T, sum

LEMMA SumOfMore ==
  ASSUME NEW S, IsFiniteSet(S), NEW R \in SUBSET S, NEW f, \A x \in S : f[x] \in Nat
  PROVE  SumFunctionOnSet(f, R) <= SumFunctionOnSet(f, S)
<1>1. IsFiniteSet(R) /\ IsFiniteSet(S \ R) /\ R \cap (S \ R) = {} /\ R \cup (S \ R) = S
  BY FS_Subset
<1>2. SumFunctionOnSet(f, R \cup (S \ R)) = SumFunctionOnSet(f, R) + SumFunctionOnSet(f, S \ R)
  <2>1. \A x \in R \cup (S \ R) : f[x] \in Int
    OBVIOUS
  <2> QED BY <1>1, <2>1, SumUnion
<1>3. SumFunctionOnSet(f, R) \in Nat /\ SumFunctionOnSet(f, S \ R) \in Nat
  BY <1>1, SumNat
<1> DEFINE a == SumFunctionOnSet(f, R)
           b == SumFunctionOnSet(f, S \ R)
<1>4. a \in Nat /\ b \in Nat /\ SumFunctionOnSet(f, S) = a + b
  BY <1>1, <1>2, <1>3, Zenon
<1> HIDE DEF a, b
<1>5. a <= a + b
  BY <1>4
<1> QED BY <1>4, <1>5 DEF a

(* What lies in parts that have nothing in common is as much as they are   *)
(* together.                                                               *)
LEMMA PartsAddUp ==
  ASSUME NEW S, IsFiniteSet(S), NEW A, \A x \in S : IsFiniteSet(A[x]),
         \A x, y \in S : x # y => A[x] \cap A[y] = {},
         NEW f, \A x \in S : f[x] = Cardinality(A[x])
  PROVE  /\ IsFiniteSet(UNION {A[x] : x \in S})
         /\ Cardinality(UNION {A[x] : x \in S}) = SumFunctionOnSet(f, S)
<1> DEFINE sum(Q) == SumFunctionOnSet(f, Q)
           whole(Q) == UNION {A[x] : x \in Q}
           T == {Q \in SUBSET S : IsFiniteSet(whole(Q)) /\ Cardinality(whole(Q)) = sum(Q)}
<1>1. \A x \in S : f[x] \in Nat
  BY FS_CardinalityType
<1>2. /\ sum({}) = 0
      /\ \A Q \in SUBSET S : /\ sum(Q) \in Int
                             /\ \A x \in S \ Q : sum(Q \cup {x}) = f[x] + sum(Q)
  <2>1. \A x \in S : f[x] \in Int
    BY <1>1
  <2> QED BY <2>1, SumFacts
<1> HIDE DEF sum
<1>3. {} \in T
  <2>1. whole({}) = {}
    OBVIOUS
  <2> QED BY <1>2, <2>1, FS_EmptySet
<1>4. ASSUME NEW Q \in SUBSET S, NEW x \in S \ Q, Q \in T PROVE Q \cup {x} \in T
  <2>1. whole(Q \cup {x}) = whole(Q) \cup A[x]
    OBVIOUS
  <2>2. whole(Q) \cap A[x] = {}
    OBVIOUS
  <2>3. IsFiniteSet(whole(Q)) /\ IsFiniteSet(A[x]) /\ Cardinality(whole(Q)) = sum(Q) /\ sum(Q) \in Int
    BY <1>2, <1>4
  <2> HIDE DEF whole
  <2>4. /\ IsFiniteSet(whole(Q) \cup A[x])
        /\ Cardinality(whole(Q) \cup A[x]) = Cardinality(whole(Q)) + Cardinality(A[x]) - Cardinality({})
    BY <2>2, <2>3, FS_Union
  <2>5. Cardinality(A[x]) = f[x] /\ f[x] \in Nat /\ sum(Q \cup {x}) = f[x] + sum(Q)
    BY <1>1, <1>2
  <2> DEFINE a == Cardinality(whole(Q))
             b == Cardinality(A[x])
  <2>6. /\ Cardinality(whole(Q \cup {x})) = a + b - 0 /\ a = sum(Q) /\ a \in Int
        /\ b = f[x] /\ b \in Nat /\ sum(Q \cup {x}) = f[x] + sum(Q)
    BY <2>1, <2>3, <2>4, <2>5, FS_EmptySet
  <2> HIDE DEF a, b
  <2>7. Cardinality(whole(Q \cup {x})) = sum(Q \cup {x})
    BY <2>6
  <2> QED BY <2>1, <2>4, <2>7
<1> HIDE DEF T
<1>5. S \in T
  BY <1>3, <1>4, SetsInduction
<1> QED BY <1>5 DEF T, sum

(* The amounts of a list may stand some places further on.                 *)
LEMMA SumMoved ==
  ASSUME NEW m \in Nat, NEW n \in Nat, NEW f, NEW g, \A i \in 1 .. n : f[i] \in Int /\ g[i + m] = f[i]
  PROVE  /\ IsFiniteSet({i + m : i \in 1 .. n})
         /\ SumFunctionOnSet(g, {i + m : i \in 1 .. n}) = SumFunctionOnSet(f, 1 .. n)
<1> DEFINE D == 1 .. n
           move == [i \in D |-> i + m]
<1>1. IsFiniteSet(D)
  BY FS_Interval
<1>2. /\ \A i \in D : f[i] \in Int /\ g[move[i]] = f[i]
      /\ \A i, j \in D : move[i] = move[j] => i = j
  OBVIOUS
<1>3. {move[i] : i \in D} = {i + m : i \in D}
  OBVIOUS
<1> HIDE DEF move, D
<1>4. SumFunctionOnSet(g, {move[i] : i \in D}) = SumFunctionOnSet(f, D)
  BY <1>1, <1>2, SumMapped
<1>5. IsFiniteSet({i + m : i \in 1 .. n})
  <2>1. {i + m : i \in 1 .. n} \in SUBSET (0 .. m + n)
    OBVIOUS
  <2> QED BY <2>1, FS_Interval, FS_Subset
<1> QED BY <1>3, <1>4, <1>5 DEF D

(* The amounts of two lists, one behind the other.                         *)
LEMMA SumJoined ==
  ASSUME NEW s \in Seq(Int), NEW t \in Seq(Int)
  PROVE  SumFunction(s \o t) = SumFunction(s) + SumFunction(t)
<1> DEFINE m == Len(s)
           n == Len(t)
           w == s \o t
           A == 1 .. m
           B == {i + m : i \in 1 .. n}
<1>1. /\ m \in Nat /\ n \in Nat /\ DOMAIN s = A /\ DOMAIN t = 1 .. n /\ DOMAIN w = 1 .. m + n
      /\ \A i \in 1 .. m : w[i] = s[i] /\ s[i] \in Int
      /\ \A i \in 1 .. n : w[i + m] = t[i] /\ t[i] \in Int
  OBVIOUS
<1> HIDE DEF m, n, w
<1>2. IsFiniteSet(A) /\ IsFiniteSet(1 .. n)
  BY <1>1, FS_Interval
<1>3. IsFiniteSet(B) /\ SumFunctionOnSet(w, B) = SumFunctionOnSet(t, 1 .. n)
  <2>1. \A i \in 1 .. n : t[i] \in Int /\ w[i + m] = t[i]
    BY <1>1
  <2>2. m \in Nat /\ n \in Nat
    BY <1>1
  <2> HIDE DEF A
  <2> QED BY <2>1, <2>2, SumMoved
<1>4. A \cap B = {} /\ A \cup B = 1 .. m + n
  <2>0. m \in Nat /\ n \in Nat
    BY <1>1
  <2>1. ASSUME NEW i \in 1 .. m + n, i \notin A PROVE i \in B
    <3>1. i - m \in 1 .. n /\ i = (i - m) + m
      BY <2>0, <2>1
    <3> QED BY <3>1
  <2>2. \A i \in B : i \in 1 .. m + n /\ i \notin A
    BY <2>0
  <2>3. \A i \in A : i \in 1 .. m + n
    BY <2>0
  <2> HIDE DEF A, B
  <2> QED BY <2>1, <2>2, <2>3
<1>5. \A i \in A \cup B : w[i] \in Int
  BY <1>1
<1> HIDE DEF A, B
<1>6. SumFunctionOnSet(w, A \cup B) = SumFunctionOnSet(w, A) + SumFunctionOnSet(w, B)
  BY <1>2, <1>3, <1>4, <1>5, SumUnion
<1>7. SumFunctionOnSet(w, A) = SumFunctionOnSet(s, A)
  <2>1. \A i \in A : s[i] \in Int /\ w[i] = s[i]
    BY <1>1 DEF A
  <2> QED BY <1>2, <2>1, SumSame
<1> QED BY <1>1, <1>3, <1>4, <1>6, <1>7 DEF SumFunction, w

-----------------------------------------------------------------------------
(* Order.                                                                  *)

(* What comes before what leaves no two items even.                        *)
Orders(R, S) ==
  /\ \A x \in S : <<x, x>> \notin R
  /\ \A x, y \in S : x # y => <<x, y>> \in R \/ <<y, x>> \in R
  /\ \A x, y, z \in S : <<x, y>> \in R /\ <<y, z>> \in R => <<x, z>> \in R

LEMMA Placed ==
  ASSUME NEW S, IsFiniteSet(S), NEW R, Orders(R, S),
         NEW place, place = [x \in S |-> Cardinality({y \in S : <<y, x>> \in R})]
  PROVE  /\ \A x, y \in S : <<x, y>> \in R => place[x] < place[y]
         /\ \A n \in 0 .. Cardinality(S) - 1 : \E x \in S : place[x] = n
         /\ \A x \in S : place[x] \in 0 .. Cardinality(S) - 1
<1> DEFINE before(x) == {y \in S : <<y, x>> \in R}
           N == 0 .. Cardinality(S) - 1
<1>1. Cardinality(S) \in Nat /\ \A x \in S : IsFiniteSet(before(x)) /\ Cardinality(before(x)) \in Nat
  BY FS_Subset, FS_CardinalityType
<1>2. \A x \in S : place[x] = Cardinality(before(x))
  OBVIOUS
<1>3. ASSUME NEW x \in S PROVE place[x] \in N
  <2>1. before(x) \in SUBSET S /\ x \notin before(x)
    BY DEF Orders
  <2> HIDE DEF before
  <2>2. Cardinality(before(x)) <= Cardinality(S) /\ Cardinality(before(x)) # Cardinality(S)
    BY <2>1, FS_Subset
  <2> DEFINE a == Cardinality(before(x))
             n == Cardinality(S)
  <2>3. a \in Nat /\ n \in Nat /\ a <= n /\ a # n /\ place[x] = a
    BY <1>1, <1>2, <2>2, Zenon
  <2> HIDE DEF a
  <2> QED BY <2>3
<1>4. ASSUME NEW x \in S, NEW y \in S, <<x, y>> \in R PROVE place[x] < place[y]
  <2>1. before(x) \in SUBSET before(y) /\ x \in before(y) /\ x \notin before(x)
    BY <1>4 DEF Orders
  <2>2. IsFiniteSet(before(y)) /\ Cardinality(before(x)) \in Nat /\ Cardinality(before(y)) \in Nat
    BY <1>1
  <2> HIDE DEF before
  <2>3. Cardinality(before(x)) <= Cardinality(before(y)) /\ Cardinality(before(x)) # Cardinality(before(y))
    BY <2>1, <2>2, FS_Subset
  <2> QED BY <1>2, <2>2, <2>3
<1>5. place \in [S -> N]
  BY <1>3
<1>6. \A x, y \in S : place[x] = place[y] => x = y
  <2> SUFFICES ASSUME NEW x \in S, NEW y \in S, x # y PROVE place[x] # place[y]
    OBVIOUS
  <2>1. place[x] \in Int /\ place[y] \in Int
    BY <1>3
  <2>2. place[x] < place[y] \/ place[y] < place[x]
    BY <1>4 DEF Orders
  <2> QED BY <2>1, <2>2
<1> HIDE DEF N
<1>7. place \in Injection(S, N)
  BY <1>5, <1>6 DEF Injection, IsInjective
<1>8. IsFiniteSet(N) /\ Cardinality(N) = Cardinality(S)
  <2>1. Cardinality(S) - 1 \in Int
    BY <1>1
  <2> QED BY <1>1, <2>1, FS_Interval DEF N
<1>9. place \in Surjection(S, N)
  BY <1>7, <1>8, FS_Injection
<1>10. \A n \in N : \E x \in S : place[x] = n
  BY <1>9 DEF Surjection
<1> QED BY <1>3, <1>4, <1>10 DEF N

LEMMA InOrderFacts ==
  ASSUME NEW S, IsFiniteSet(S), NEW R, Orders(R, S)
  PROVE  /\ InOrder(S, R) \in [1 .. Cardinality(S) -> S]
         /\ \A x \in S : \E n \in 1 .. Cardinality(S) : InOrder(S, R)[n] = x
         /\ \A i, j \in 1 .. Cardinality(S) : i < j => <<InOrder(S, R)[i], InOrder(S, R)[j]>> \in R
<1> DEFINE place == [x \in S |-> Cardinality({y \in S : <<y, x>> \in R})]
           s == InOrder(S, R)
<1>1. /\ \A x, y \in S : <<x, y>> \in R => place[x] < place[y]
      /\ \A n \in 0 .. Cardinality(S) - 1 : \E x \in S : place[x] = n
      /\ \A x \in S : place[x] \in 0 .. Cardinality(S) - 1
  <2>1. place = [x \in S |-> Cardinality({y \in S : <<y, x>> \in R})]
    OBVIOUS
  <2> HIDE DEF place
  <2> QED BY <2>1, Placed
<1>2. s = [n \in 1 .. Cardinality(S) |-> CHOOSE x \in S : place[x] = n - 1]
  BY DEF InOrder
<1>3. Cardinality(S) \in Nat
  BY FS_CardinalityType
<1> HIDE DEF place, s
<1>4. ASSUME NEW n \in 1 .. Cardinality(S) PROVE s[n] \in S /\ place[s[n]] = n - 1
  <2>1. n - 1 \in 0 .. Cardinality(S) - 1
    BY <1>3
  <2>2. s[n] = CHOOSE x \in S : place[x] = n - 1
    BY <1>2
  <2> QED BY <1>1, <2>1, <2>2
<1>5. \A x, y \in S : place[x] = place[y] => x = y
  <2> SUFFICES ASSUME NEW x \in S, NEW y \in S, x # y PROVE place[x] # place[y]
    OBVIOUS
  <2>1. place[x] \in Int /\ place[y] \in Int
    BY <1>1, <1>3
  <2>2. place[x] < place[y] \/ place[y] < place[x]
    BY <1>1 DEF Orders
  <2> QED BY <2>1, <2>2
<1>6. ASSUME NEW x \in S PROVE \E n \in 1 .. Cardinality(S) : s[n] = x
  <2>1. place[x] + 1 \in 1 .. Cardinality(S) /\ place[x] = (place[x] + 1) - 1
    BY <1>1, <1>3
  <2>2. place[s[place[x] + 1]] = place[x] /\ s[place[x] + 1] \in S
    BY <1>4, <2>1
  <2> QED BY <1>5, <2>1, <2>2
<1>7. ASSUME NEW i \in 1 .. Cardinality(S), NEW j \in 1 .. Cardinality(S), i < j PROVE <<s[i], s[j]>> \in R
  <2>1. s[i] \in S /\ s[j] \in S /\ place[s[i]] = i - 1 /\ place[s[j]] = j - 1
    BY <1>4
  <2>2. place[s[i]] < place[s[j]] /\ ~(place[s[j]] < place[s[i]]) /\ place[s[i]] # place[s[j]]
    BY <1>7, <2>1
  <2> QED BY <1>1, <2>1, <2>2 DEF Orders
<1>8. s \in [1 .. Cardinality(S) -> S]
  BY <1>2, <1>4
<1> QED BY <1>6, <1>7, <1>8 DEF s

(* One of finitely many items has the most.                                *)
LEMMA MostExists ==
  ASSUME NEW S, IsFiniteSet(S), S # {}, NEW f, \A x \in S : f[x] \in Int
  PROVE  \E x \in S : \A y \in S : f[y] <= f[x]
<1> DEFINE Led(Q) == Q = {} \/ \E x \in Q : \A y \in Q : f[y] <= f[x]
           T == {Q \in SUBSET S : Led(Q)}
<1>1. {} \in T
  OBVIOUS
<1>2. ASSUME NEW Q \in SUBSET S, NEW x \in S \ Q, Q \in T PROVE Q \cup {x} \in T
  <2>1. CASE Q = {}
    <3>1. Q \cup {x} = {x} /\ f[x] <= f[x]
      BY <2>1
    <3>2. Led(Q \cup {x})
      BY <3>1
    <3> QED BY <3>2
  <2>2. CASE Q # {}
    <3>1. PICK z \in Q : \A y \in Q : f[y] <= f[z]
      BY <1>2, <2>2
    <3>2. f[z] \in Int /\ f[x] \in Int /\ \A y \in Q : f[y] \in Int
      OBVIOUS
    <3>3. CASE f[x] <= f[z]
      <4>1. \A y \in Q \cup {x} : f[y] <= f[z]
        BY <3>1, <3>3
      <4> QED BY <4>1
    <3>4. CASE f[z] <= f[x]
      <4>1. \A y \in Q \cup {x} : f[y] <= f[x]
        BY <3>1, <3>2, <3>4
      <4> QED BY <4>1
    <3> QED BY <3>2, <3>3, <3>4
  <2> QED BY <2>1, <2>2
<1> HIDE DEF T
<1>3. S \in T
  BY <1>1, <1>2, SetsInduction
<1> QED BY <1>3 DEF T

(* A list keeps what is at the places, and nothing else.                   *)
LEMMA KeptItems ==
  ASSUME NEW X, NEW s \in Seq(X), NEW I, I \subseteq DOMAIN s
  PROVE  /\ Kept(s, I) \in Seq(X)
         /\ \A k \in DOMAIN Kept(s, I) : \E i \in I : Kept(s, I)[k] = s[i]
         /\ \A i \in I : \E k \in DOMAIN Kept(s, I) : Kept(s, I)[k] = s[i]
<1>1. PICK m \in Nat : \E g \in [1 .. m -> I] : Picks(Kept(s, I), s, I, m, g)
  BY KeptPlaces
<1>2. PICK g \in [1 .. m -> I] : Picks(Kept(s, I), s, I, m, g)
  BY <1>1
<1>3. /\ Kept(s, I) = [i \in 1 .. m |-> s[g[i]]]
      /\ \A k \in I : \E i \in 1 .. m : g[i] = k
  BY <1>2 DEF Picks
<1>4. \A i \in I : s[i] \in X
  OBVIOUS
<1>5. \A k \in 1 .. m : g[k] \in I
  BY <1>2
<1> QED BY <1>3, <1>4, <1>5

(* Each of the places is picked once.                                      *)
PicksAt(q, s, J, m, g) == J \subseteq Nat /\ m \in Nat /\ g \in [1 .. m -> J] /\ Picks(q, s, J, m, g)

LEMMA PickedFacts ==
  ASSUME NEW q, NEW s, NEW J, NEW m, NEW g, PicksAt(q, s, J, m, g)
  PROVE  /\ IsFiniteSet(J) /\ Cardinality(J) = m
         /\ \A i, j \in 1 .. m : g[i] = g[j] => i = j
         /\ \A k \in J : \E i \in 1 .. m : g[i] = k
         /\ DOMAIN q = 1 .. m /\ \A i \in 1 .. m : q[i] = s[g[i]]
<1>0. J \subseteq Nat /\ m \in Nat /\ g \in [1 .. m -> J]
  BY DEF PicksAt
<1>1. /\ q = [i \in 1 .. m |-> s[g[i]]]
      /\ \A i, j \in 1 .. m : i < j => g[i] < g[j]
      /\ \A k \in J : \E i \in 1 .. m : g[i] = k
  BY DEF Picks, PicksAt
<1>2. \A i \in 1 .. m : g[i] \in Nat
  BY <1>0
<1>3. \A i, j \in 1 .. m : g[i] = g[j] => i = j
  BY <1>0, <1>1, <1>2
<1>5. g \in Bijection(1 .. m, J)
  BY <1>0, <1>1, <1>3 DEF Bijection, Injection, Surjection, IsInjective
<1> DEFINE D == 1 .. m
<1>6. IsFiniteSet(D) /\ Cardinality(D) = m
  BY <1>0, FS_Interval
<1>8. ExistsBijection(D, J)
  BY <1>5 DEF ExistsBijection
<1>7. IsFiniteSet(J) /\ Cardinality(J) = m
  <2> HIDE DEF D
  <2>1. IsFiniteSet(J) /\ Cardinality(J) = Cardinality(D)
    BY <1>6, <1>8, FS_Bijection, Zenon
  <2> QED BY <1>6, <2>1
<1> QED BY <1>1, <1>3, <1>7

(* The sums of parts add up to the sum of the whole.                       *)
SumsUp(S, A, v, f) ==
  /\ IsFiniteSet(S) /\ \A x \in S : IsFiniteSet(A[x])
  /\ \A x, y \in S : x # y => A[x] \cap A[y] = {}
  /\ \A x \in S : \A i \in A[x] : v[i] \in Int
  /\ \A x \in S : f[x] = SumFunctionOnSet(v, A[x])

LEMMA SumsOfParts ==
  ASSUME NEW S, NEW A, NEW v, NEW f, SumsUp(S, A, v, f)
  PROVE  /\ IsFiniteSet(UNION {A[x] : x \in S})
         /\ SumFunctionOnSet(v, UNION {A[x] : x \in S}) = SumFunctionOnSet(f, S)
<1>0. /\ IsFiniteSet(S) /\ \A x \in S : IsFiniteSet(A[x])
      /\ \A x, y \in S : x # y => A[x] \cap A[y] = {}
      /\ \A x \in S : \A i \in A[x] : v[i] \in Int
      /\ \A x \in S : f[x] = SumFunctionOnSet(v, A[x])
  BY DEF SumsUp
<1> DEFINE whole(Q) == UNION {A[x] : x \in Q}
           sum(Q) == SumFunctionOnSet(f, Q)
           T == {Q \in SUBSET S : IsFiniteSet(whole(Q)) /\ SumFunctionOnSet(v, whole(Q)) = sum(Q)}
<1>1. \A x \in S : f[x] \in Int
  <2> SUFFICES ASSUME NEW x \in S PROVE f[x] \in Int
    OBVIOUS
  <2>1. IsFiniteSet(A[x]) /\ \A i \in A[x] : v[i] \in Int
    BY <1>0
  <2>2. SumFunctionOnSet(v, A[x]) \in Int
    BY <2>1, SumFirst
  <2> QED BY <1>0, <2>2
<1>2. /\ sum({}) = 0
      /\ \A Q \in SUBSET S : \A x \in S \ Q : sum(Q \cup {x}) = f[x] + sum(Q)
  BY <1>0, <1>1, SumFacts
<1> HIDE DEF sum
<1>3. {} \in T
  <2>1. whole({}) = {}
    OBVIOUS
  <2>2. IsFiniteSet({}) /\ SumFunctionOnSet(v, {}) = 0
    <3>1. IsFiniteSet({})
      BY FS_EmptySet
    <3> QED BY <3>1, SumFirst
  <2> QED BY <1>2, <2>1, <2>2
<1>4. ASSUME NEW Q \in SUBSET S, NEW x \in S \ Q, Q \in T PROVE Q \cup {x} \in T
  <2> DEFINE B == whole(Q)
             C == A[x]
  <2>1. whole(Q \cup {x}) = B \cup C
    OBVIOUS
  <2>2. IsFiniteSet(B) /\ IsFiniteSet(C) /\ SumFunctionOnSet(v, B) = sum(Q)
    BY <1>0, <1>4
  <2>3. B \cap C = {}
    BY <1>0
  <2>4. \A i \in B \cup C : v[i] \in Int
    BY <1>0
  <2>5. f[x] = SumFunctionOnSet(v, C)
    BY <1>0
  <2> HIDE DEF B, C
  <2>6. SumFunctionOnSet(v, B \cup C) = SumFunctionOnSet(v, B) + SumFunctionOnSet(v, C)
    BY <2>2, <2>3, <2>4, SumUnion
  <2>7. IsFiniteSet(B \cup C)
    BY <2>2, FS_Union
  <2>8. SumFunctionOnSet(v, C) \in Int /\ SumFunctionOnSet(v, B) \in Int
    BY <2>2, <2>4, SumFirst
  <2>9. sum(Q \cup {x}) = f[x] + sum(Q)
    BY <1>2
  <2>10. SumFunctionOnSet(v, B \cup C) = sum(Q \cup {x})
    BY <2>2, <2>5, <2>6, <2>8, <2>9
  <2> HIDE DEF whole
  <2> QED BY <2>1, <2>7, <2>10
<1> HIDE DEF T
<1>5. S \in T
  BY <1>0, <1>3, <1>4, SetsInduction
<1> QED BY <1>5 DEF T, sum

(* The sum over what was picked is the one over the places it is from.     *)
PickedIn(J, m, g) == {x \in 1 .. m : g[x] \in J}

PickedValues(I, m, g, J, v, w) ==
  /\ J \subseteq I
  /\ \A i \in J : v[i] \in Int
  /\ \A x \in 1 .. m : w[x] = v[g[x]]

LEMMA SumPicked ==
  ASSUME NEW q, NEW s, NEW I, NEW m, NEW g, PicksAt(q, s, I, m, g),
         NEW J, NEW v, NEW w, PickedValues(I, m, g, J, v, w)
  PROVE  /\ IsFiniteSet(J)
         /\ SumFunctionOnSet(w, PickedIn(J, m, g)) = SumFunctionOnSet(v, J)
<1> DEFINE S == {x \in 1 .. m : g[x] \in J}
<1>1. /\ \A i, j \in 1 .. m : g[i] = g[j] => i = j
      /\ \A k \in I : \E i \in 1 .. m : g[i] = k
      /\ IsFiniteSet(I)
  BY PickedFacts
<1>8. /\ m \in Nat /\ g \in [1 .. m -> I]
      /\ J \subseteq I /\ (\A i \in J : v[i] \in Int) /\ \A x \in 1 .. m : w[x] = v[g[x]]
  BY DEF PicksAt, PickedValues
<1>7. IsFiniteSet(J)
  BY <1>1, <1>8, FS_Subset
<1>2. IsFiniteSet(S)
  <2>1. IsFiniteSet(1 .. m) /\ S \subseteq 1 .. m
    BY <1>8, FS_Interval
  <2> HIDE DEF S
  <2> QED BY <2>1, FS_Subset
<1>3. \A x \in S : w[x] \in Int /\ v[g[x]] = w[x]
  BY <1>8
<1>4. \A x, y \in S : g[x] = g[y] => x = y
  BY <1>1
<1>5. {g[x] : x \in S} = J
  <2>1. \A k \in J : \E x \in S : k = g[x]
    BY <1>1, <1>8
  <2>2. \A x \in S : g[x] \in J
    OBVIOUS
  <2> HIDE DEF S
  <2> QED BY <2>1, <2>2
<1> HIDE DEF S
<1>6. SumFunctionOnSet(v, {g[x] : x \in S}) = SumFunctionOnSet(w, S)
  BY <1>2, <1>3, <1>4, SumMapped
<1> QED BY <1>5, <1>6, <1>7 DEF S, PickedIn

(* Whoever ascends onto all the items stands in their order.               *)
Stand(D, S, R, u) ==
  /\ u \in [D -> S]
  /\ \A x \in S : \E i \in D : u[i] = x
  /\ \A i, j \in D : i < j => <<u[i], u[j]>> \in R

LEMMA AscendingIsInOrder ==
  ASSUME NEW S, IsFiniteSet(S), NEW R, Orders(R, S), NEW u, Stand(1 .. Cardinality(S), S, R, u)
  PROVE  u = InOrder(S, R)
<1> DEFINE N == Cardinality(S)
           place == [x \in S |-> Cardinality({y \in S : <<y, x>> \in R})]
           J == 0 .. N - 1
           g == [i \in 1 .. N |-> place[u[i]]]
           h == [i \in 1 .. N |-> i - 1]
<1>1. /\ \A x, y \in S : <<x, y>> \in R => place[x] < place[y]
      /\ \A n \in J : \E x \in S : place[x] = n
      /\ \A x \in S : place[x] \in J
  <2>1. place = [x \in S |-> Cardinality({y \in S : <<y, x>> \in R})]
    OBVIOUS
  <2> HIDE DEF place
  <2>2. \A x, y \in S : <<x, y>> \in R => place[x] < place[y]
    BY <2>1, Placed
  <2>3. \A n \in 0 .. Cardinality(S) - 1 : \E x \in S : place[x] = n
    BY <2>1, Placed
  <2>4. \A x \in S : place[x] \in 0 .. Cardinality(S) - 1
    BY <2>1, Placed
  <2> QED BY <2>2, <2>3, <2>4
<1>2. InOrder(S, R) = [n \in 1 .. N |-> CHOOSE x \in S : place[x] = n - 1]
  BY DEF InOrder
<1>3. N \in Nat
  BY FS_CardinalityType
<1> HIDE DEF N
<1>13. /\ u \in [1 .. N -> S]
       /\ \A x \in S : \E i \in 1 .. N : u[i] = x
       /\ \A i, j \in 1 .. N : i < j => <<u[i], u[j]>> \in R
  BY DEF Stand, N
<1> HIDE DEF place
<1>4. g \in [1 .. N -> J] /\ h \in [1 .. N -> J] /\ J \subseteq Nat
  BY <1>1, <1>3, <1>13
<1>5. Ascends(J, N, g)
  <2>1. \A i, j \in 1 .. N : i < j => g[i] < g[j]
    BY <1>1, <1>13
  <2>2. ASSUME NEW k \in J PROVE \E i \in 1 .. N : g[i] = k
    <3>1. PICK x \in S : place[x] = k
      BY <1>1
    <3>2. PICK i \in 1 .. N : u[i] = x
      BY <1>13
    <3> QED BY <3>1, <3>2
  <2> HIDE DEF J, g
  <2> QED BY <2>1, <2>2 DEF Ascends
<1>6. Ascends(J, N, h)
  <2>1. \A i, j \in 1 .. N : i < j => h[i] < h[j]
    BY <1>3
  <2>2. ASSUME NEW k \in J PROVE \E i \in 1 .. N : h[i] = k
    <3>1. k + 1 \in 1 .. N /\ h[k + 1] = k
      BY <1>3
    <3> QED BY <3>1
  <2> HIDE DEF J, h
  <2> QED BY <2>1, <2>2 DEF Ascends
<1>7. g = h
  <2> HIDE DEF J, g, h
  <2> QED BY <1>3, <1>4, <1>5, <1>6, PlacesAreTheSame
<1>8. \A i \in 1 .. N : place[u[i]] = i - 1
  <2> SUFFICES ASSUME NEW i \in 1 .. N PROVE place[u[i]] = i - 1
    OBVIOUS
  <2>1. g[i] = place[u[i]] /\ h[i] = i - 1
    OBVIOUS
  <2> HIDE DEF g, h
  <2> QED BY <1>7, <2>1
<1>9. \A x, y \in S : place[x] = place[y] => x = y
  <2> SUFFICES ASSUME NEW x \in S, NEW y \in S, x # y PROVE place[x] # place[y]
    OBVIOUS
  <2>1. place[x] \in Int /\ place[y] \in Int
    BY <1>1
  <2>2. place[x] < place[y] \/ place[y] < place[x]
    BY <1>1 DEF Orders
  <2> QED BY <2>1, <2>2
<1>10. ASSUME NEW i \in 1 .. N PROVE u[i] = InOrder(S, R)[i]
  <2>1. u[i] \in S /\ place[u[i]] = i - 1
    BY <1>8, <1>13
  <2>2. (CHOOSE x \in S : place[x] = i - 1) = u[i]
    BY <1>9, <2>1
  <2> QED BY <1>2, <2>2
<1>11. DOMAIN InOrder(S, R) = 1 .. N
  BY <1>2
<1>12. InOrder(S, R) = [n \in 1 .. N |-> InOrder(S, R)[n]]
  BY <1>2
<1> QED BY <1>10, <1>12, <1>13

LEMMA InOrderStands ==
  ASSUME NEW S, IsFiniteSet(S), NEW R, Orders(R, S)
  PROVE  Stand(1 .. Cardinality(S), S, R, InOrder(S, R))
BY InOrderFacts DEF Stand

(* The places of a list, put in an order: one way to do it, and one only.  *)
LEMMA InPlaceOrder ==
  ASSUME NEW N \in Nat, NEW P, P = 1 .. N, NEW R, Orders(R, P)
  PROVE  /\ Stand(P, P, R, InOrder(P, R))
         /\ \A u : Stand(P, P, R, u) => u = InOrder(P, R)
<1>1. IsFiniteSet(1 .. N) /\ Cardinality(1 .. N) = N
  BY FS_Interval
<1> DEFINE D == 1 .. Cardinality(P)
<1>2. IsFiniteSet(P) /\ D = P
  BY <1>1
<1>3. Stand(D, P, R, InOrder(P, R))
  <2>1. Stand(1 .. Cardinality(P), P, R, InOrder(P, R))
    BY <1>2, InOrderStands
  <2> QED BY <2>1
<1>4. ASSUME NEW u, Stand(P, P, R, u) PROVE u = InOrder(P, R)
  <2>1. Stand(1 .. Cardinality(P), P, R, u)
    <3>1. Stand(D, P, R, u)
      <4> HIDE DEF D
      <4> QED BY <1>2, <1>4, Zenon
    <3> QED BY <3>1
  <2> QED BY <1>2, <2>1, AscendingIsInOrder
<1> HIDE DEF D
<1>5. Stand(P, P, R, InOrder(P, R))
  BY <1>2, <1>3, Zenon
<1> QED BY <1>4, <1>5
=============================================================================
