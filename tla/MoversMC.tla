------------------------------ MODULE MoversMC ------------------------------
(* Two sectors, each with a tag of its own; the second is the ring of the  *)
(* first, and behind a door that is opened by hand and stays open.         *)
EXTENDS Movers

MCTag  == <<1, 2>>
MCRing == <<2, 2>>
Line(special, type, n) == [special |-> special, type |-> type, tag |-> n, sector |-> n]
MCLines ==
  {Line("plat", "perpetualRaise", 1), Line("stopPlat", "", 1),
   Line("ceiling", "crushAndRaise", 1), Line("stopCrush", "", 1),
   Line("ceiling", "lowerToFloor", 1), Line("ceiling", "lowerToFloor", 2),
   Line("door", "close30", 1), Line("manual", "raise", 1), Line("donut", "", 1),
   Line("plat", "downWaitUpStay", 2), Line("manual", "open", 2)}
=============================================================================
