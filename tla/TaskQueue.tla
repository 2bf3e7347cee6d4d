----------------------------- MODULE TaskQueue -----------------------------
(***************************************************************************)
(* An asyncio.Lock as the queue of the tasks that called acquire(): its    *)
(* holder, then its waiters in the order of their calls.                   *)
(***************************************************************************)
EXTENDS Integers, Sequences

InQ(s, x) == \E i \in 1..Len(s) : s[i] = x
Distinct(s) == \A i, j \in 1..Len(s) : s[i] = s[j] => i = j

\* s without x: a cancelled task leaves the waiters of the lock, or
\* hands it on if it held it.
Without(s, x) ==
  IF InQ(s, x)
  THEN LET i == CHOOSE i \in 1..Len(s) : s[i] = x
       IN [j \in 1..(Len(s)-1) |-> IF j < i THEN s[j] ELSE s[j+1]]
  ELSE s
=============================================================================
