----------------------------- MODULE BuildAllMC -----------------------------
(* Instances of BuildAll for TLC: the recipes named after those of bil/    *)
(* whose shape they have.                                                  *)
EXTENDS BuildAll

CONSTANTS libm, perl, limine, sdl2, cjson, lua, u1, u2

(* perl is linked statically and nobody calls what is in u2 (mathoms.c);   *)
(* the others make shared libraries.                                       *)
Referred == [c \in Fanout |-> IF c = perl THEN {u1} ELSE {}]
=============================================================================
