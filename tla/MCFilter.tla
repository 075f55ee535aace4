------------------------------ MODULE MCFilter ------------------------------
(* Instances of Filter for TLC: every configuration of a bounded shape. *)
EXTENDS Filter, TLC

CONSTANTS chainA, chainB, default, r1, r2, t1, t2, unset

R(kind, chain, priority, match) ==
    [kind |-> kind, chain |-> chain, priority |-> priority, match |-> match]

Final   == {R("accept", Default, unset, Requests),
            R("accept", Default, 5, {r1}),
            R("reject", Default, unset, {r2})}
Through(c) == {R("call", c, unset, Requests), R("call", c, 7, Requests),
               R("goto", c, 7, {r1})}

\* The default chain has two rules, the others at most two and at most one;
\* they may call each other and themselves.
MCPrograms ==
    {(default :> d) @@ (chainA :> x) @@ (chainB :> y) :
        d \in {<<f, g>> : f \in Through(chainA),
                          g \in Final \cup Through(chainB)},
        x \in {<<>>} \cup {<<f>> : f \in Final \cup Through(chainA)}
              \cup {<<f, g>> : f \in Through(chainB), g \in Final},
        y \in {<<>>, <<R("accept", Default, 5, {r1})>>}
              \cup {<<f>> : f \in Through(chainA)
                                \ {R("call", chainA, unset, Requests)}}}
=============================================================================
