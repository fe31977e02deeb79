--------------------------- MODULE MCH8Debugger -----------------------------
EXTENDS H8Debugger, TLC
(* A loop with a conditional branch, one that branches to itself, and a    *)
(* call into ROM.                                                          *)
MCCode == {<<2, 2>>, <<3, 1>>, <<3, 3>>, <<4, 3>>, <<1, 1>>}
MCPatches == {<<2, <<3, 3>>>>}
MCProgram == (1 :> <<2, 2>> @@ 2 :> <<3, 1>> @@ 3 :> <<4, 3>> @@ 4 :> <<1, 1>>)
=============================================================================
