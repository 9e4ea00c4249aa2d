---------------------------- MODULE MC_Artifacts ----------------------------
(***************************************************************************)
(* Archive "s" is small, "l" and "m" are large.  Files -1 and 1 of a large *)
(* archive are walked before and after the marker.                         *)
(***************************************************************************)
EXTENDS Artifacts, TLC

MCPath == {-1, 1}
MCContents == [x \in Sha |-> IF x = "s" THEN {1} ELSE MCPath]

Of(x) == [sha |-> x, known |-> TRUE, vcs |-> FALSE]
Unrecorded(x) == [sha |-> x, known |-> FALSE, vcs |-> FALSE]
Archived(x) == [sha |-> x, known |-> TRUE, vcs |-> TRUE]

MCLocks == {1 :> Of("s") @@ 2 :> Of("l"), 1 :> Of("l") @@ 2 :> Archived("l"), 1 :> Unrecorded("l")}

Projects == Permutations(Process)
==============================================================================
