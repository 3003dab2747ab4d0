------------------------------ MODULE MCWavePicking ------------------------------
EXTENDS WavePicking, TLC

MCLineOf == <<1, 2>>
MCQuantity == <<3, 1>>

TwoActors == Permutations(Releasers) \cup Permutations(Pickers)
================================================================================
