---------------------------- MODULE MCGPUEngines ----------------------------
EXTENDS GPUEngines, TLC
Symmetry == Permutations(Events) \cup Permutations(Cards)
=============================================================================
