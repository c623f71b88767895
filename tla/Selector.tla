------------------------------- MODULE Selector -------------------------------
(***************************************************************************)
(* Selectors (internal/policy/selector.go): how an expression is parsed,    *)
(* written back in its canonical form and matched against labels.           *)
(*                                                                         *)
(* An expression is the sequence of its clauses as they are written.  Keys  *)
(* and values are one byte long; Rank is the order of bytes, in which upper *)
(* case comes before lower case.                                           *)
(***************************************************************************)
EXTENDS Integers, FiniteSetsExt, SequencesExt

CONSTANTS
  Text,        \* keys and values
  Fold,        \* strings.ToLower
  Rank,        \* byte order
  Value,       \* what labelValuePattern accepts
  MaxLength,   \* 1024 bytes
  MaxClauses   \* 32

ASSUME TextAssumption ==
  /\ Fold \in [Text -> Text] /\ Rank \in [Text -> Nat]
  /\ \A a, b \in Text : Rank[a] = Rank[b] => a = b
  /\ \A t \in Text : Fold[Fold[t]] = Fold[t]
ASSUME BoundAssumption == MaxLength \in Nat /\ MaxClauses \in Nat

(* "other" is a clause that none of the three patterns matches; a comparison *)
(* has one value.                                                          *)
Written ==
  {c \in [key : Text, op : {"exists", "=", "==", "!=", "in", "notin", "other"},
          values : Seq(Text), spaces : Nat] :
     c.op \in {"=", "==", "!="} => Len(c.values) = 1}

SetOps == {"in", "notin"}

(* The bytes of a clause; of an expression, with its commas.               *)
ClauseLength(c) ==
  LET values == IF c.values = << >> THEN 0 ELSE 2 * Len(c.values) - 1
      op == CASE c.op = "in" -> 4 [] c.op = "notin" -> 7 [] c.op \in {"==", "!="} -> 2
              [] c.op = "=" -> 1 [] OTHER -> 0
  IN 1 + op + values + c.spaces

Length(expression) ==
  IF expression = << >> THEN 0
  ELSE FoldSeq(LAMBDA c, sum : ClauseLength(c) + 1 + sum, 0, expression) - 1

(* sort.Strings: a permutation in which no byte order is inverted.          *)
Sorts(order, values) ==
  \A i, j \in DOMAIN values : i < j => Rank[values[order[i]]] <= Rank[values[order[j]]]

Sorted(values) ==
  LET order == CHOOSE order \in Bijection(DOMAIN values, DOMAIN values) : Sorts(order, values)
  IN [i \in DOMAIN values |-> values[order[i]]]

Folded(values) == [i \in DOMAIN values |-> Fold[values[i]]]

\* Mutant of Clause: values are sorted before they are lowered.
ClauseSortedFirst(c) ==
  [key |-> Fold[c.key], op |-> IF c.op = "==" THEN "=" ELSE c.op,
   values |-> Folded(Sorted(c.values))]

(* parseSelectorClause.                                                    *)
Clause(c) ==
  [key |-> Fold[c.key], op |-> IF c.op = "==" THEN "=" ELSE c.op,
   values |-> Sorted(Folded(c.values))]

ClauseAccepted(c) ==
  /\ c.op # "other"
  /\ \A i \in DOMAIN c.values : Fold[c.values[i]] \in Value
  /\ IsInjective(Folded(c.values))

(* parseSelector; clauses are sorted, and so are a set.                    *)
Accepted(expression) ==
  /\ expression # << >> /\ Length(expression) <= MaxLength
  /\ Len(expression) <= MaxClauses
  /\ \A i \in DOMAIN expression : ClauseAccepted(expression[i])
  /\ \A i, j \in DOMAIN expression :
       Clause(expression[i]) = Clause(expression[j]) => i = j

Parse(expression) == {Clause(expression[i]) : i \in DOMAIN expression}

(* canonicalClause: a space on both sides of in and notin, none elsewhere.  *)
Canonical(expression) ==
  SetToSeq({[key |-> c.key, op |-> c.op, values |-> c.values,
             spaces |-> IF c.op \in SetOps THEN 2 ELSE 0] : c \in Parse(expression)})

(* sort.SearchStrings: the binary search between r[1] and r[2].             *)
SearchStrings(values, target) ==
  LET search[r \in (0..Len(values)) \X (0..Len(values))] ==
        IF r[1] >= r[2] THEN r[1]
        ELSE LET h == (r[1] + r[2]) \div 2
             IN IF Rank[values[h + 1]] < Rank[target] THEN search[<<h + 1, r[2]>>]
                ELSE search[<<r[1], h>>]
  IN search[<<0, Len(values)>>]

ContainsString(values, target) ==
  LET index == SearchStrings(values, target)
  IN IF index < Len(values) THEN values[index + 1] = target ELSE FALSE

(* parsedSelector.matches, for labels as sets of pairs of a key and a value. *)
Holds(c, value) ==
  CASE c.op = "exists" -> TRUE
    [] c.op = "=" -> value = c.values[1]
    [] c.op = "!=" -> value # c.values[1]
    [] c.op = "in" -> ContainsString(c.values, value)
    [] c.op = "notin" -> ~ContainsString(c.values, value)

Matches(clauses, labels) ==
  \A c \in clauses : \E l \in labels : l[1] = c.key /\ Holds(c, l[2])

(* What the caller is left with when the error is not looked at, as in      *)
(* plan.go:219: no clause at all.                                          *)
ParseOrNil(expression) == IF Accepted(expression) THEN Parse(expression) ELSE {}
=============================================================================
