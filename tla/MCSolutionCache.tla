--------------------------- MODULE MCSolutionCache ---------------------------
(* Instance of SolutionCache for TLC. *)
EXTENDS SolutionCache

(* Four configurations, each a mutation away from the next better one *)
FourPoints == 1..4
Steps == [p \in FourPoints |-> {q \in FourPoints : q = p + 1 \/ q + 1 = p}]
Rising == [p \in FourPoints |-> 10 * p]
=============================================================================
