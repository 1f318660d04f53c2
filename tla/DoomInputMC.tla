---------------------------- MODULE DoomInputMC ----------------------------
(* Both shift keys, one of which repeats, a letter that repeats and a key  *)
(* that Doom has no use for; as many codes as the ring can just hold.      *)
EXTENDS DoomInput, TLC

MCKeyOf == ("left shift" :> "RSHIFT") @@ ("right shift" :> "RSHIFT")
           @@ ("a" :> "a") @@ ("num lock" :> "none")
=============================================================================
