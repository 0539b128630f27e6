------------------------------- MODULE Lists -------------------------------
(* Queues and lists, seen as the sequences they link.                       *)
EXTENDS Integers, Sequences

Members(q) == {q[i] : i \in DOMAIN q}

InjectiveSeq(q) == \A i, j \in DOMAIN q : q[i] = q[j] => i = j

\* The elements of q that are in T, in their order.
Kept(q, T) ==
  LET kept[i \in 0 .. Len(q)] ==
        IF i = 0 THEN <<>>
        ELSE IF q[i] \in T THEN Append(kept[i - 1], q[i]) ELSE kept[i - 1]
  IN  kept[Len(q)]

Without(q, T) == Kept(q, Members(q) \ T)
=============================================================================
