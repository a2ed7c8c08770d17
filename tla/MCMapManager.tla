--------------------------- MODULE MCMapManager ---------------------------
(***************************************************************************)
(* Instances of MapManager for TLC.  The runs that must find no error take *)
(* the keys as interchangeable: nothing in MapManager orders or chooses    *)
(* among keys, and no property of these runs needs fairness.               *)
(***************************************************************************)
EXTENDS MapMaintenance

KeySymmetry == Permutations(Key)
============================================================================
