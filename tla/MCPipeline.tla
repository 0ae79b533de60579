----------------------------- MODULE MCPipeline -----------------------------
(* The flash sale on small instances.                                      *)
EXTENDS FlashSalePipeline, TLC

CONSTANTS u1, u2, k1, k2, h1, h2, w1, w2

Symmetry == Permutations(Users) \cup Permutations(Keys)
              \cup Permutations(Http) \cup Permutations(Workers)

=============================================================================
