-------------------------------- MODULE Sums --------------------------------
(***************************************************************************)
(* Finite sums, as recursive functions. Sums_proofs proves what a proof    *)
(* about them needs.                                                       *)
(***************************************************************************)
EXTENDS Integers, FiniteSets

\* g[1] + ... + g[n]
SumTo(g, n) == LET sum[k \in Nat] == IF k = 0 THEN 0 ELSE sum[k - 1] + g[k]
               IN  sum[n]

\* The values of g, over its whole domain.
SumOver(g) == LET sum[S \in SUBSET DOMAIN g] ==
                    IF S = {} THEN 0
                    ELSE LET x == CHOOSE x \in S : TRUE
                         IN  g[x] + sum[S \ {x}]
              IN  sum[DOMAIN g]
=============================================================================
