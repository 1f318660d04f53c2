---------------------------- MODULE BuildContract ----------------------------
(***************************************************************************)
(* What build_all.sh can promise to the job that runs it: while a build is *)
(* going on build/ only grows, and exit status 0 comes over everything     *)
(* that is made by commands whose failures end the script.  How much that  *)
(* is depends on the mode: the copies of the script itself are only looked *)
(* at in a careful build.  Nothing is said of the order of the recipes,    *)
(* nor of how many of them run at the same time.                           *)
(***************************************************************************)
CONSTANTS
  Products,            \* everything a complete release holds
  Watched,             \* what a successful build holds in any case
  Careful              \* what a successful careful build holds

VARIABLES
  status,              \* "none" while the script runs, then its exit status
  careful,             \* this build looks at its copies
  build                \* the products that are in build/

vars == <<status, careful, build>>

Init == status = "none" /\ careful \in BOOLEAN /\ build = {}

(* rm -rf profanOS build: a new build starts from an empty directory.      *)
Begin ==
  /\ status # "none" /\ status' = "none"
  /\ careful' \in BOOLEAN
  /\ build' = {}

Deliver ==
  /\ status = "none"
  /\ build \subseteq build' /\ build' \subseteq Products
  /\ UNCHANGED <<status, careful>>

Succeed ==
  /\ status = "none"
  /\ Watched \subseteq build /\ (careful => Careful \subseteq build)
  /\ status' = "ok"
  /\ UNCHANGED <<careful, build>>

Fail == status = "none" /\ status' = "error" /\ UNCHANGED <<careful, build>>

Next == Begin \/ Deliver \/ Succeed \/ Fail

Spec == Init /\ [][Next]_vars
=============================================================================
