-------------------------------- MODULE MCPacking --------------------------------
EXTENDS Packing, TLC

AnyCaller == Permutations(Callers)
================================================================================
