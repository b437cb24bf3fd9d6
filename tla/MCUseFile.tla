---------------------------- MODULE MCUseFile ----------------------------
(* Three files: x and y use each other, z is used by y; another z, in a     *)
(* directory of its own, shares z's basename.                              *)
EXTENDS UseFile

CONSTANTS x, y, z, dirz

MCBaseOf  == [r \in Request |-> CASE r = x -> "x" [] r = y -> "y"
                                  [] r \in {z, dirz} -> "z"]
MCProgram == [r \in Request |-> CASE r = x    -> <<Plain, y, Plain>>
                                  [] r = y    -> <<x, z, Plain>>
                                  [] r = z    -> <<Plain>>
                                  [] r = dirz -> <<Plain, y>>]
=============================================================================
