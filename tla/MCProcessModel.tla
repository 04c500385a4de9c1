--------------------------- MODULE MCProcessModel ---------------------------
(* Two products of a diamond-shaped process model, whose nodes are listed   *)
(* last first.                                                              *)
EXTENDS ProcessModel

CONSTANTS a, b

TwoProducts == {a, b}

(* Cutting is followed by drilling and milling in any order, then packing.  *)
(* Polishing repairs drilling and milling and does not block; milling also  *)
(* has a blocking rework, and nothing repairs a failed packing.             *)
DiamondProcesses == {"cut", "drill", "mill", "pack", "polish", "redo"}
DiamondBefore == <<{2, 3}, {4}, {4}, {}>>
DiamondProcessOf == <<"pack", "drill", "mill", "cut">>
DiamondReworks == [q \in DiamondProcesses |->
    CASE q = "drill" -> {"polish"}
      [] q = "mill" -> {"polish", "redo"}
      [] OTHER -> {}]
DiamondBlocking == {"redo"}
DiamondFailing == {"drill", "mill", "pack"}
=============================================================================
