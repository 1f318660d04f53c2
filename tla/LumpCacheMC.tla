---------------------------- MODULE LumpCacheMC ----------------------------
(* Seven holders: the face that the status bar and the intermission share, *)
(* the music, the reject matrix, a texture, and two patches at a glance.   *)
EXTENDS LumpCache, TLC

MCLump == ("status bar" :> "STFST01") @@ ("intermission" :> "STFST01")
          @@ ("music" :> "D_E1M1") @@ ("reject" :> "REJECT")
          @@ ("texture" :> "composite") @@ ("column" :> "patch") @@ ("sprite" :> "patch")
MCKind == ("status bar" :> "kept") @@ ("intermission" :> "kept")
          @@ ("music" :> "loan") @@ ("reject" :> "level")
          @@ ("texture" :> "composite") @@ ("column" :> "glance") @@ ("sprite" :> "glance")
=============================================================================
