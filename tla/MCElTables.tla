----------------------------- MODULE MCElTables ----------------------------
EXTENDS ElTables, TLC

MCHash == ("a" :> 3) @@ ("b" :> 3) @@ ("c" :> 7) @@ ("d" :> 4)

MCCapacities == {4, 8}
============================================================================
