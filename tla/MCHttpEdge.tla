-------------------------------- MODULE MCHttpEdge --------------------------------
EXTENDS HttpEdge, TLC

CONSTANTS r1, r2, r3, r4, r5, k1, k2

MCKeyOf == r1 :> k1 @@ r2 :> k1 @@ r3 :> k1 @@ r4 :> k2 @@ r5 :> NoKey
================================================================================
