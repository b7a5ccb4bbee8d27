------------------------------ MODULE Formulas ------------------------------
(***************************************************************************)
(* The formulas of calculated report columns: the recursive-descent parser *)
(* over the tokens of a formula, and what a parsed formula is worth on a   *)
(* row. Reading characters into tokens is left out.                        *)
(***************************************************************************)
EXTENDS Integers, Sequences, FiniteSetsExt, TLC

CONSTANTS
  Atoms,          \* column references and literals
  Calls,          \* the functions
  Operators,      \* the operators, some of each level below
  LongestFormula, \* bound on the tokens of a formula
  Worth           \* what each atom is worth on the row: a number, or a text,
                  \* given as the sequence of its pieces: [is : {"number", "text"}, of]

VARIABLE formula   \* the tokens somebody has typed

FormulaTokens == Atoms \cup Calls \cup Operators \cup {"(", ")", ","}

FormulaTypeOK == formula \in Seq(FormulaTokens)

\* What binds least comes first.
Binding == <<{">", "<", ">=", "<=", "==", "!="}, {"+", "-"}, {"*", "/"}>>

-----------------------------------------------------------------------------
(* The parser: a tree and the place after it, or a failure.                *)

Failed == [tree |-> <<"error">>, at |-> 0]
Leaf(token) == <<"leaf", token>>

RECURSIVE Level(_, _, _), Operands(_, _, _), Arguments(_, _, _, _)

\* parse_function_call, from the first argument on.
Arguments(ts, name, at, args) ==
  LET next == Level(ts, 1, at)
  IN IF next.at = 0 THEN Failed
     ELSE CASE ts[next.at] = "," -> Arguments(ts, name, next.at + 1, Append(args, next.tree))
            [] ts[next.at] = ")" -> [tree |-> <<"call", name, Append(args, next.tree)>>, at |-> next.at + 1]
            [] OTHER -> Failed

Call(ts, at) ==
  IF ts[at + 1] # "(" THEN Failed
  ELSE IF ts[at + 2] = ")" THEN [tree |-> <<"call", ts[at], <<>>>>, at |-> at + 3]
  ELSE Arguments(ts, ts[at], at + 2, <<>>)

PrimaryTerm(ts, at) ==
  LET inside == Level(ts, 1, at + 1)
  IN CASE ts[at] \in Atoms -> [tree |-> Leaf(ts[at]), at |-> at + 1]
       [] ts[at] \in Calls -> Call(ts, at)
       [] ts[at] = "(" -> IF inside.at # 0 /\ ts[inside.at] = ")"
                          THEN [inside EXCEPT !.at = @ + 1] ELSE Failed
       [] OTHER -> Failed

\* A slip: the right operand takes all that follows.
OperandsToTheRight(ts, k, left) ==
  IF left.at = 0 \/ ts[left.at] \notin Binding[k] THEN left
  ELSE LET right == Level(ts, k, left.at + 1)
       IN IF right.at = 0 THEN Failed
          ELSE [tree |-> <<ts[left.at], left.tree, right.tree>>, at |-> right.at]

Operands(ts, k, left) ==
  IF left.at = 0 \/ ts[left.at] \notin Binding[k] THEN left
  ELSE LET right == Level(ts, k + 1, left.at + 1)
       IN IF right.at = 0 THEN Failed
          ELSE Operands(ts, k, [tree |-> <<ts[left.at], left.tree, right.tree>>, at |-> right.at])

Level(ts, k, at) == IF k > Len(Binding) THEN PrimaryTerm(ts, at) ELSE Operands(ts, k, Level(ts, k + 1, at))

Parsed(ts) ==
  LET whole == Level(Append(ts, "end"), 1, 1)
  IN IF whole.at = Len(ts) + 1 THEN whole.tree ELSE Failed.tree

-----------------------------------------------------------------------------
(* What a tree is worth: numbers, and texts that are no numbers.           *)

Number(n) == [is |-> "number", of |-> n]
Truth(b) == Number(IF b THEN 1 ELSE 0)
AsNumber(v) == IF v.is = "number" THEN v.of ELSE 0
AsText(v) == IF v.is = "text" THEN v.of ELSE <<ToString(v.of)>>
NoText == [is |-> "text", of |-> <<>>]
Holds(v) == IF v.is = "number" THEN v.of # 0 ELSE v.of # <<>>

\* Both sides as numbers, which a text never fails to become.
Compared(op, l, r) ==
  CASE op = ">" -> l > r [] op = "<" -> l < r [] op = ">=" -> l >= r
    [] op = "<=" -> l <= r [] op = "==" -> l = r [] op = "!=" -> l # r

Computed(op, l, r) ==
  CASE op \in Binding[1] -> Truth(Compared(op, AsNumber(l), AsNumber(r)))
    [] op = "+" /\ "text" \in {l.is, r.is} -> [is |-> "text", of |-> AsText(l) \o AsText(r)]
    [] op = "+" /\ "text" \notin {l.is, r.is} -> Number(l.of + r.of)
    [] op = "-" -> Number(AsNumber(l) - AsNumber(r))
    [] op = "*" -> Number(AsNumber(l) * AsNumber(r))
    [] op = "/" -> Number(IF AsNumber(r) = 0 THEN 0 ELSE AsNumber(l) \div AsNumber(r))

Applied(name, args) ==
  CASE name = "IF" -> (LET chosen == IF args # <<>> /\ Holds(args[1]) THEN 2 ELSE 3
                       IN IF chosen <= Len(args) THEN args[chosen] ELSE NoText)
    [] name = "MAX" -> Number(IF args = <<>> THEN 0 ELSE Max({AsNumber(args[i]) : i \in DOMAIN args}))

RECURSIVE Value(_)
Value(tree) ==
  CASE tree[1] = "leaf" -> Worth[tree[2]]
    [] tree[1] = "call" -> Applied(tree[2], [i \in DOMAIN tree[3] |-> Value(tree[3][i])])
    [] OTHER -> Computed(tree[1], Value(tree[2]), Value(tree[3]))

-----------------------------------------------------------------------------
FormulaInit == formula = <<>>
FormulaNext == \E t \in FormulaTokens : Len(formula) < LongestFormula /\ formula' = Append(formula, t)
FormulaSpec == FormulaInit /\ [][FormulaNext]_formula

-----------------------------------------------------------------------------
(* What a formula means, said without a parser: it is split at the last of *)
(* its loosest operators that stand outside every bracket.                 *)

Depth(ts, i) == Cardinality({j \in 1..i : ts[j] = "("}) - Cardinality({j \in 1..i : ts[j] = ")"})
Balanced(ts) == (\A i \in DOMAIN ts : Depth(ts, i) >= 0) /\ Depth(ts, Len(ts)) = 0
Outside(ts, S) == {i \in DOMAIN ts : ts[i] \in S /\ Depth(ts, i) = 0}
Part(ts, i, j) == SubSeq(ts, i, j)

RECURSIVE Meant(_), Listed(_)
Listed(ts) ==
  IF Outside(ts, {","}) = {} THEN <<Meant(ts)>>
  ELSE LET i == Max(Outside(ts, {","}))
       IN Append(Listed(Part(ts, 1, i - 1)), Meant(Part(ts, i + 1, Len(ts))))

Meant(ts) ==
  LET n == Len(ts)
      split(S) == LET i == Max(Outside(ts, S))
                      l == Meant(Part(ts, 1, i - 1))
                      r == Meant(Part(ts, i + 1, n))
                  IN IF Failed.tree \in {l, r} THEN Failed.tree ELSE <<ts[i], l, r>>
      inner == Part(ts, 2, n - 1)
      args == Listed(Part(ts, 3, n - 1))
  IN IF n = 0 \/ ~Balanced(ts) THEN Failed.tree
     ELSE IF Outside(ts, Binding[1]) # {} THEN split(Binding[1])
     ELSE IF Outside(ts, Binding[2]) # {} THEN split(Binding[2])
     ELSE IF Outside(ts, Binding[3]) # {} THEN split(Binding[3])
     ELSE IF n = 1 THEN (IF ts[1] \in Atoms THEN Leaf(ts[1]) ELSE Failed.tree)
     ELSE IF ts[1] = "(" /\ ts[n] = ")" /\ Balanced(inner) THEN Meant(inner)
     ELSE IF ts[1] \in Calls /\ ts[2] = "(" /\ ts[n] = ")" /\ Balanced(Part(ts, 3, n - 1))
     THEN (IF n = 3 THEN <<"call", ts[1], <<>>>>
           ELSE IF \E i \in DOMAIN args : args[i] = Failed.tree THEN Failed.tree
           ELSE <<"call", ts[1], args>>)
     ELSE Failed.tree

(* The parser reads every formula as it is meant, refuses what means       *)
(* nothing, and never takes operands for those of another operator.        *)
FormulasMeanWhatTheySay == Parsed(formula) = Meant(formula)

(* Every formula that parses has a value on every row, a number or a text, *)
(* whatever it mixes, divides by or leaves out; and it equals itself.      *)
FormulasHaveValues ==
  LET tree == Parsed(formula)
      value == Value(tree)
      same == <<"call", "IF", <<<<"==", tree, tree>>, tree>>>>
  IN tree # Failed.tree =>
       /\ value.is = "text" \/ (value.is = "number" /\ value.of \in Int)
       /\ Value(same) = value
=============================================================================
