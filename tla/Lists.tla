--------------------------------- MODULE Lists ---------------------------------
(* What the code does with lists again and again: leave members out, add them   *)
(* up, put them in an order.  Recursive functions and counts, to reason by.     *)
EXTENDS Naturals, Sequences, FiniteSets

\* A comprehension with an if: what is in T of a list, in its order.
Within(s, T) ==
    LET upto[i \in 0..Len(s)] ==
          IF i = 0 THEN <<>>
          ELSE IF s[i] \in T THEN Append(upto[i - 1], s[i]) ELSE upto[i - 1]
    IN  upto[Len(s)]

Sum(s) ==
    LET upto[i \in 0..Len(s)] == IF i = 0 THEN 0 ELSE upto[i - 1] + s[i]
    IN  upto[Len(s)]

\* s[:k]
First(k, s) == SubSeq(s, 1, IF Len(s) < k THEN Len(s) ELSE k)

\* sorted: of the places 1..n, where <<i, j>> \in before puts i ahead of j, in that order.
ByOrder(n, before) ==
    [p \in 1..n |-> CHOOSE i \in 1..n : 1 + Cardinality({j \in 1..n : <<j, i>> \in before}) = p]
=============================================================================
