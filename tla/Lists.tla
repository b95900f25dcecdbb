------------------------------- MODULE Lists -------------------------------
(***************************************************************************)
(* The list operations of the models.  SequencesExt has most of them, but  *)
(* its folds cannot be unfolded in a proof, and every obligation of a      *)
(* proof would carry the modules that it extends.                          *)
(***************************************************************************)
EXTENDS Naturals, Sequences, FiniteSets

ToSet(q) == {q[i] : i \in DOMAIN q}
Last(q) == q[Len(q)]
Front(q) == SubSeq(q, 1, Len(q) - 1)
Distinct(q) == \A i, j \in DOMAIN q : q[i] = q[j] => i = j
Reverse(q) == [i \in 1..Len(q) |-> q[(Len(q) - i) + 1]]

\* The lists of the items of a finite set, each once.
SetToSeqs(S) == {q \in [1..Cardinality(S) -> S] : Distinct(q)}
SetToSeq(S) == CHOOSE q \in SetToSeqs(S) : TRUE

\* for x in q: acc = Op(acc, x)
FoldLeft(Op(_, _), base, q) ==
    LET F[i \in 0..Len(q)] == IF i = 0 THEN base ELSE Op(F[i - 1], q[i])
    IN F[Len(q)]

\* sum(f[x] for x in q)
SumOf(f, q) == FoldLeft(LAMBDA n, x : n + f[x], 0, q)

\* [x for x in q if x in S]: the items of q that are in S, in their order.
Keep(q, S) ==
    LET K[i \in 0..Len(q)] ==
            IF i = 0 THEN <<>>
            ELSE IF q[i] \in S THEN Append(K[i - 1], q[i]) ELSE K[i - 1]
    IN K[Len(q)]
=============================================================================
