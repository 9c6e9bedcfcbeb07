------------------------------ MODULE PQueue -------------------------------
(***************************************************************************)
(* pqueue.c: a binary heap in an array, here of numbers.  The code swaps   *)
(* an element along a path from the end or from the root; the definitions  *)
(* name the path and say what is then found on it.                         *)
(***************************************************************************)
EXTENDS Naturals, Sequences, FiniteSetsExt

\* pqueue_put: x goes up from the end past every greater parent.
Put(q, x) ==
    LET n == Len(q) + 1
        up[i \in 1..n] == IF i > 1 /\ q[i \div 2] > x THEN {i} \cup up[i \div 2] ELSE {i}
    IN  [i \in 1..n |-> IF i = Min(up[n]) THEN x
                        ELSE IF i \in up[n] THEN q[i \div 2] ELSE q[i]]

\* Mutant: the greater child comes up.
GetGreater(q) ==
    LET n == Len(q) - 1
        x == q[n + 1]
        child(i) == IF 2 * i < n /\ q[2 * i] <= q[2 * i + 1] THEN 2 * i + 1 ELSE 2 * i
        down[i \in 1..n] == IF 2 * i <= n /\ q[child(i)] < x THEN {i} \cup down[child(i)] ELSE {i}
    IN  IF n = 0 THEN <<>>
        ELSE [i \in 1..n |-> IF i = Max(down[1]) THEN x
                             ELSE IF i \in down[1] THEN q[child(i)] ELSE q[i]]

\* What pqueue_get leaves when it has taken q[1]: the last element goes down
\* from the root while a child is less, the lesser child coming up.
Get(q) ==
    LET n == Len(q) - 1
        x == q[n + 1]
        child(i) == IF 2 * i < n /\ q[2 * i] >= q[2 * i + 1] THEN 2 * i + 1 ELSE 2 * i
        down[i \in 1..n] == IF 2 * i <= n /\ q[child(i)] < x THEN {i} \cup down[child(i)] ELSE {i}
    IN  IF n = 0 THEN <<>>
        ELSE [i \in 1..n |-> IF i = Max(down[1]) THEN x
                             ELSE IF i \in down[1] THEN q[child(i)] ELSE q[i]]
=============================================================================
