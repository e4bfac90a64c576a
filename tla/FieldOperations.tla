-------------------------- MODULE FieldOperations --------------------------
(* Every operation on every pair of elements with limbs of LimbValues.     *)
EXTENDS FieldElements

CONSTANT LimbValues \* limbs of the operands, negative and wide ones included

VARIABLES f, g, op, h \* the operands, the operation done and its result

vars == <<f, g, op, h>>

Elements == [Limbs -> LimbValues]

Init ==
  /\ f \in Elements /\ g \in Elements
  /\ op = "none" /\ h = fe_0

Does(name, result) ==
  op = "none" /\ op' = name /\ h' = result /\ UNCHANGED <<f, g>>

Next ==
  \/ Does("add", fe_add(f, g))
  \/ Does("sub", fe_sub(f, g))
  \/ Does("mul", fe_mul(f, g))
  \/ Does("sq", fe_sq(f))
  \/ Does("mul121666", fe_mul121666(f))

Spec == Init /\ [][Next]_vars

\* The limbs of an operation's result stand for the result: negative limbs,
\* limbs wider than the radix and the folded carries included.
ArithmeticIsModP ==
  Value(h) = CASE op = "none"      -> 0
               [] op = "add"       -> (Value(f) + Value(g)) % P
               [] op = "sub"       -> (Value(f) - Value(g)) % P
               [] op = "mul"       -> (Value(f) * Value(g)) % P
               [] op = "sq"        -> (Value(f) * Value(f)) % P
               [] op = "mul121666" -> ((121666 % P) * Value(f)) % P

\* A product leaves every limb but limb 1 inside the radix, whatever the signs
\* of its operands: the next product starts from reduced limbs.
ProductsAreReduced ==
  op \in {"mul", "sq", "mul121666"} =>
    \A i \in Limbs \ {1} : h[i] \in 0 .. Radix - 1
=============================================================================
