---------------------------- MODULE MC_Metadata ----------------------------
(***************************************************************************)
(* The manifest requires "a", which requires "v", a package of the git     *)
(* repository, which requires "a" again, and "b".  "b" is in the last      *)
(* lock, so the pool begins with "a" and "b" and learns of "v"; the        *)
(* registry does not know "b" any more.                                    *)
(***************************************************************************)
EXTENDS Metadata

MCNeeds == [n \in Name |-> CASE n = "a" -> {"v"} [] n = "v" -> {"a", "b"} [] OTHER -> {}]
MCMissing == {<<"b", "stable">>, <<"b", "dev">>}
MCChanging == {<<"a", "stable">>}
==============================================================================
