------------------------------ MODULE MCLogStore ------------------------------
EXTENDS LogStore, TLC

CONSTANTS s1, s2, r1, r2

\* Two lines of each step are two batches that may list the steps in opposite
\* orders.  The last line of s1 is shorter than the one before; that of s2 is as
\* large as the two before it, of which the second is internal state.
MCLength == s1 :> 2 @@ s2 :> 3
MCBytes == s1 :> <<2, 1>> @@ s2 :> <<1, 1, 3>>
MCMeta == {<<s2, 2>>}
MCOrder == <<s1, s2>>

\* Pick keeps what a loop that tests every element keeps.
ASSUME PickSelects ==
    \A q \in UNION {[1..n -> 1..3] : n \in 0..4} : \A kept \in SUBSET (1..3) :
        Pick(q, {i \in DOMAIN q : q[i] \in kept}) = SelectSeq(q, LAMBDA x : x \in kept)
===============================================================================
