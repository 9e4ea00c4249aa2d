--------------------------- MODULE MC_ResolverTwice ---------------------------
(***************************************************************************)
(* A require cycle c -> b -> a -> {b, c} whose versions disagree: a map of *)
(* two entries whose visiting order decides what is derived first.         *)
(***************************************************************************)
EXTENDS ResolverTwice, TLC

a == 1
b == 2
c == 3

MCPackage == {a, b, c}
MCVersion == {1, 2}
MCConstraint == {"*", "^1", "^2", "=1", "=2"}
MCAdmits == ("*" :> {1, 2}) @@ ("^1" :> {1}) @@ ("^2" :> {2}) @@ ("=1" :> {1}) @@ ("=2" :> {2})
MCExact == <<"=1", "=2">>

none == [p \in {} |-> "*"]
Pairs == {b :> x @@ c :> y : x, y \in {"*", "^1", "^2"}}

MCTwice ==
  {[known |-> MCPackage, published |-> <<{1}, {1, 2}, {1}>>,
    requires |-> <<<<ra, none>>, <<rb1, rb2>>, <<rc, none>>>>,
    require |-> c :> "*", requireDev |-> none, includeDev |-> FALSE] :
      ra \in Pairs, rb1 \in {none, a :> "*"}, rb2 \in {none, a :> "*"},
      rc \in {b :> "*", b :> "^1", b :> "^2"}}
================================================================================
