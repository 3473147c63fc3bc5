------------------------- MODULE MCLLMProviderConfig -------------------------
(* LLMProviderConfig with a few threads. *)
EXTENDS LLMProviderConfig, TLC

CONSTANTS t1, t2

TwoThreads == {t1, t2}
Symmetry == Permutations(TwoThreads)
=============================================================================
