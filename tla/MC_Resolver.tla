----------------------------- MODULE MC_Resolver -----------------------------
(***************************************************************************)
(* Small registries for TLC: three packages a < b < c, two versions each.  *)
(* "^1" and "=1" admit the same versions and are different strings.        *)
(***************************************************************************)
EXTENDS Resolver, TLC

a == 1
b == 2
c == 3

MCPackage == {a, b, c}
MCVersion == {1, 2}
MCConstraint == {"*", "^1", "^2", "=1", "=2"}
MCAdmits == ("*" :> {1, 2}) @@ ("^1" :> {1}) @@ ("^2" :> {2}) @@ ("=1" :> {1}) @@ ("=2" :> {2})
MCExact == <<"=1", "=2">>

none == [p \in {} |-> "*"]

\* Require maps with at most one entry, on a package of S.
AtMostOne(S) == {none} \cup {p :> k : p \in S, k \in {"*", "^1", "^2"}}

\* What version 1 and version 2 of a package require.
PerVersion(R) == {<<r1, r2>> : r1 \in R, r2 \in R}

Inputs(knowns, pubs, A, B, C, roots, devs) ==
  {[known |-> k, published |-> pub, requires |-> <<ra, rb, rc>>,
    require |-> r, requireDev |-> d, includeDev |-> TRUE] :
      k \in knowns, pub \in pubs, ra \in A, rb \in B, rc \in C, r \in roots, d \in devs}

Nothing == {<<none, none>>}

\* Chains and cycles: a requires b or c, b requires a or c.
MCSearch ==
  Inputs({MCPackage}, {<<{1, 2}, {1, 2}, {1, 2}>>}, PerVersion(AtMostOne({b, c})),
         PerVersion(AtMostOne({a, c})), Nothing, {a :> "*" @@ b :> "*", a :> "*" @@ c :> "^1"}, {none})

\* c unknown to the registry, or without versions, and a root without requires.
MCMissing ==
  Inputs({{a, b}, MCPackage}, {<<{1, 2}, {1, 2}, {}>>, <<{1, 2}, {1, 2}, {1}>>},
         PerVersion({none, b :> "*", c :> "*", b :> "^2" @@ c :> "^1"}), PerVersion(AtMostOne({c})),
         Nothing, {none, a :> "*"}, {none, a :> "^1"})

\* One version of each package: nothing to choose.
MCSingle ==
  Inputs({MCPackage}, {<<{1}, {1}, {1}>>},
         {<<r, none>> : r \in AtMostOne({b, c}) \cup {b :> "*" @@ c :> "^1", b :> "^1" @@ c :> "^2"}},
         {<<r, none>> : r \in AtMostOne({a, c})}, {<<r, none>> : r \in AtMostOne({a, b})},
         {a :> "*", b :> "*" @@ c :> "^1"}, {none})

\* a@2 requires two packages, one of them in vain.
MCAbandoned ==
  Inputs({MCPackage}, {<<{1, 2}, {1, 2}, {1, 2}>>}, {<<r, b :> k @@ c :> "^2">> : r \in AtMostOne({b, c}), k \in {"*", "^1"}},
         PerVersion(AtMostOne({c})), Nothing, {a :> "*" @@ c :> "^1"}, {none})

MCProblem == MCSearch \cup MCMissing \cup MCSingle \cup MCAbandoned

\* For the liveness run: cycles between a and b, backtracking over c.
MCLive ==
  MCSingle \cup
  Inputs({MCPackage}, {<<{1, 2}, {1, 2}, {1, 2}>>}, PerVersion(AtMostOne({b})),
         PerVersion(AtMostOne({a, c})), Nothing, {a :> "*" @@ c :> "^1"}, {none})

\* Requires of the root split between require and require-dev.
MCDev ==
  Inputs({MCPackage}, {<<{1, 2}, {1, 2}, {1}>>}, PerVersion(AtMostOne({b, c})),
         PerVersion(AtMostOne({c})), Nothing, {a :> "*"}, {b :> "*", b :> "^1", b :> "*" @@ c :> "*"})
==============================================================================
