------------------------------ MODULE MCRandom ------------------------------
EXTENDS Random, TLC
CONSTANTS a, b, c
MCSize == (a :> 32) @@ (b :> 8) @@ (c :> 64)
=============================================================================
