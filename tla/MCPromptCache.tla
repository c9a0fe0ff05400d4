---------------------------- MODULE MCPromptCache ----------------------------
EXTENDS PromptCache, TLC

CONSTANTS a, b, c, d, e

\* Three prefixes fit together, the fourth evicts two of them, the fifth never fits.
MCSize == a :> 1 @@ b :> 1 @@ c :> 1 @@ d :> 2 @@ e :> 4

Symmetry == Permutations(Nodes) \cup Permutations(Threads)
=============================================================================
