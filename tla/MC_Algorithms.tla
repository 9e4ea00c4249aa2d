---------------------------- MODULE MC_Algorithms ----------------------------
(***************************************************************************)
(* The algorithms without state of their own, over small sets of inputs:   *)
(* one step chooses an input of one of them.                               *)
(***************************************************************************)
EXTENDS VersionCases, ManifestEdits, Autoload, Scripts, Explanations, Journeys, TLC

-----------------------------------------------------------------------------
(* Literals, texts and platforms *)

Num(segs) == [form |-> "num", segs |-> segs, text |-> "", tag |-> "", num |-> 0, dots |-> 0, flag |-> ""]
Pre(segs, tag, n) == [Num(segs) EXCEPT !.tag = tag, !.num = n]
Alias(segs, text) == [Num(segs) EXCEPT !.form = "alias", !.text = text]
Dotted(l, n) == [l EXCEPT !.dots = n]
OnBranch(text) == [Num(<<>>) EXCEPT !.form = "dev", !.text = text]
Flagged(l, f) == [l EXCEPT !.flag = f]

MCBranch == {"", "1.2.x-dev", "10.x-dev", "2.x-dev", "main", "main#f00"}
MCTextRank ==
  ("" :> 0) @@ ("1.2.x-dev" :> 1) @@ ("10.x-dev" :> 2) @@ ("2.x-dev" :> 3) @@ ("main" :> 4) @@ ("main#f00" :> 5)
MCUnpinned == [b \in MCBranch |-> IF b = "main#f00" THEN "main" ELSE b]

MCReleases == {Num(<<0, 3>>), Num(<<1>>), Num(<<1, 2>>), Num(<<1, 2, 3>>), Num(<<1, 3>>), Num(<<2, 0>>),
             Num(<<3>>), Num(<<1, 2, 3, 4>>)}
PreReleases == {Pre(<<1, 3, 0>>, "rc", 1), Pre(<<2, 0, 0>>, "beta", 2), Pre(<<2, 0>>, "rc", 1),
                Pre(<<2>>, "dev", 0), Pre(<<1, 2>>, "a", 1), Pre(<<1, 2>>, "patch", 1)}
Branches == {OnBranch("main"), OnBranch("main#f00"), Alias(<<2>>, "2.x-dev"), Alias(<<10>>, "10.x-dev")}
MCLiterals == MCReleases \cup PreReleases \cup Branches
MCLockedVersions == {Num(<<1, 2>>), Pre(<<2, 0>>, "rc", 1)}

Op(o, l) == [op |-> o, lit |-> l]
Wild(prefix) == [op |-> "*", prefix |-> prefix]
Or == Word("|")

MCTexts ==
  {<<Wild(<<>>)>>, <<Wild(<<1>>)>>, <<Op("^", Num(<<1>>))>>, <<Op("^", Num(<<1, 2>>))>>,
   <<Op("~", Num(<<1, 2, 3>>))>>, <<Word(">="), Op("", Num(<<1, 2>>))>>,
   <<Op(">=", Num(<<1>>)), Op("<", Num(<<2, 0>>))>>, <<Op("^", Flagged(Num(<<2>>), "RC"))>>,
   <<Op("^", Num(<<1>>)), Or, Op("^", Num(<<2>>))>>, <<Op("", OnBranch("main"))>>,
   <<Op("", OnBranch("main#f00"))>>, <<Op("", OnBranch("main")), Word("as"), Op("", Num(<<2>>))>>,
   <<Op("", Num(<<1>>)), Word("-"), Op("", Num(<<2>>))>>, <<Op("!=", Num(<<1, 2>>))>>,
   <<Op("", Num(<<1>>)), Word("-"), Op("", Dotted(Pre(<<2, 0>>, "beta", 1), 1))>>,
   <<Op("~", Alias(<<1, 2>>, "1.2.x-dev"))>>,
   <<Op("", Alias(<<2>>, "2.x-dev"))>>, <<Word("^"), Op("", OnBranch("main"))>>, <<>>}

External(ts) == [workspace |-> FALSE, tokens |-> ts]
Internal(ts) == [workspace |-> TRUE, tokens |-> ts]

Php == [kind |-> "php", name |-> "php"]
Ext(n) == [kind |-> "ext", name |-> n]
Lib == [kind |-> "lib", name |-> "lib-curl"]
Package == [kind |-> "package", name |-> "acme/lib"]

\* php 1.2, two extensions of which one reports no version.
MCPlatform == [php |-> ParseVersion(Num(<<1, 2>>)), ext |-> ("json" :> NoVersion) @@ ("zip" :> ParseVersion(Num(<<1, 3>>)))]
OldPlatform == [php |-> NoVersion, ext |-> <<>>]
MCPlatforms == {MCPlatform, OldPlatform}
MCIgnoredSets == {{}, {Php}, {AllReqs}}

\* What the versions of a package require of the platform.
Needs == {<<>>, (Php :> <<Op("^", Num(<<1>>))>>) @@ (Package :> <<Op("^", Num(<<1>>))>>),
          Php :> <<Op(">=", Num(<<2, 0>>))>>, (Ext("json") :> <<Op("^", Num(<<1>>))>>) @@ (Lib :> <<Wild(<<>>)>>),
          (Ext("json") :> <<Wild(<<>>)>>) @@ (Ext("zip") :> <<Op("~", Num(<<1, 2>>))>>), Ext("gd") :> <<Wild(<<>>)>>,
          Ext("json") :> <<Op(">=", Num(<<0>>))>>, Php :> <<>>}

\* Registries of one package: three versions, one of which needs something.
MCRegistries ==
  {{Row(a, <<>>), Row(b, n), Row(c, <<>>)} :
     a \in {Num(<<1, 2>>), OnBranch("main")}, b \in {Pre(<<2, 0>>, "rc", 1), Num(<<2, 0>>), Alias(<<2>>, "2.x-dev")},
     c \in {Num(<<1, 3>>), Pre(<<1, 3, 0>>, "rc", 1)}, n \in Needs}
  \cup {{}, {Row(Num(<<1, 2, 3, 4, 5>>), <<>>)}}
  \cup {{Row(Num(<<1, 2>>), n), Row(Num(<<2, 0>>), o)} : n, o \in Needs}

Dir(name, version, requires) ==
  [isDir |-> TRUE, hasManifest |-> TRUE, loads |-> TRUE, name |-> name, version |-> version,
   require |-> requires, requireDev |-> <<>>]

\* The requires and the development requires of a member.
MemberRequires ==
  ({<<>>, "acme/a" :> Internal(<<Wild(<<>>)>>), "acme/a" :> Internal(<<Op("^", Num(<<1>>))>>),
    "acme/b" :> Internal(<<Op("^", Num(<<1>>))>>)} \X {<<>>})
  \cup ({<<>>} \X {"acme/lib" :> External(<<Op("^", Num(<<1>>))>>), "acme/a" :> Internal(<<Op("^", Num(<<2>>))>>)})

Globbed ==
  {<<Dir("acme/a", v, "acme/lib" :> External(t)), [Dir("acme/b", NoVersion, r[1]) EXCEPT !.requireDev = r[2]]>> :
     v \in {NoVersion, Num(<<1, 2>>)}, t \in Texts, r \in MemberRequires}
  \cup {<<Dir("acme/a", NoVersion, <<>>), [Dir("acme/a", NoVersion, <<>>) EXCEPT !.isDir = d, !.hasManifest = h, !.loads = l]>> :
          d, h, l \in BOOLEAN}

-----------------------------------------------------------------------------
(* PHP files and what owners load *)

MCIdentifier == {"A", "B", "N", "M", "f", "x"}
MCGlobs == ("p" :> {"p"}) @@ ("tests" :> {"tests"}) @@ ("*" :> {"p", "q", "src", "tests", "a", "ATest"}) @@ ("*Test" :> {"ATest"})

Piece(ts, names) == [tokens |-> ts, declares |-> names]
Pieces ==
  {Piece(<<"class", "A", "{", "other", "f", "other", "{", "}", "}">>, <<"A">>),
   Piece(<<"final", "class", "B", "x", "A", "{", "use", "M", ";", "}">>, <<"B">>),
   Piece(<<"interface", "A", "{", "}">>, <<"A">>),
   Piece(<<"x", "other", "new", "class", "{", "f", "{", "}", "}", ";">>, <<>>),
   Piece(<<"A", "other", "class", ";">>, <<>>),
   Piece(<<"use", "N", "\\", "{", "A", "other", "B", "}", ";">>, <<>>),
   Piece(<<"x", "other", "f", "other", "use", "other", "{", "x", ";", "}", ";">>, <<>>),
   Piece(<<"x", "{", "class", "B", "{", "}", "}">>, <<"B">>),
   Piece(<<"?>", "class", "A", "{", "<?">>, <<>>),
   Piece(<<"class", "A", "{", "use", "M", "{", "x", ";", "}", "}">>, <<"A">>),
   Piece(<<"$", "class", "x", "A", ";">>, <<>>), Piece(<<"$", "namespace", "other", ";">>, <<>>),
   Piece(<<"$", "x", "other", "new", "final", "class", "x", "A", "{", "}", ";">>, <<>>)}

Bodies2 == {<<>>} \cup {<<p>> : p \in Pieces} \cup {<<p, q>> : p, q \in Pieces}
Section(form, ns, pieces) == [form |-> form, ns |-> ns, pieces |-> pieces]
PhpFiles ==
  {<<Section("none", <<>>, b)>> : b \in Bodies2}
  \cup {<<Section(f, <<"N">>, b), Section(f, <<"N", "M">>, c)>> :
          f \in {"statement", "braces"}, b \in Bodies2, c \in {<<>>} \cup {<<p>> : p \in Pieces}}

File(path, ts) == [path |-> path, isDir |-> FALSE, tokens |-> <<"<?">> \o ts]
Directory(path) == [path |-> path, isDir |-> TRUE, tokens |-> <<>>]
ClassA == <<"class", "A", "{", "}">>
ClassB == <<"namespace", "N", ";", "class", "B", "{", "}">>
Broken == <<"namespace", "other">>

Trees ==
  {<<File(<<"src", "a">>, t), File(<<"vendor", "p", "src", "a">>, u), File(<<"vendor", "p", "tests", "ATest">>, v),
     File(<<"vendor", "q", "src", "a">>, w)>> \o e : e \in {<<>>, <<Directory(<<"vendor", "p", "lib">>)>>},
     t \in {ClassA}, u \in {ClassA \o ClassB, Broken}, v \in {ClassA, Broken}, w \in {ClassA, ClassB}}

\* A pattern for a directory, and one for files.
Pattern(segs, dirOnly) == [segs |-> segs, dirOnly |-> dirOnly]
Patterns ==
  {Pattern(<<"tests">>, TRUE), Pattern(<<"**", "tests">>, TRUE), Pattern(<<"**", "*Test">>, FALSE),
   Pattern(<<"**">>, FALSE), Pattern(<<"tests", "**">>, FALSE), Pattern(<<"p", "*">>, FALSE),
   Pattern(<<"**", "tests", "*">>, FALSE), Pattern(<<"**", "p", "**", "*Test">>, FALSE)}
Paths == UNION {[1..n -> {"p", "tests", "ATest"}] : n \in 1..3}

Owner(name, dir, psr4, classmap, files, exclude) ==
  [name |-> name, version |-> "1", aliases |-> {}, dir |-> dir, psr4 |-> psr4, classmap |-> classmap,
   files |-> files, exclude |-> exclude]

Roots == {Owner(n, <<>>, p, c, <<<<"src", "a">>>>, {}) :
            n \in {1, 3}, p \in {<<>>, "N" :> <<<<"src">>>>}, c \in {<<<<"src">>>>}}
DevRoots == {Owner(0, <<>>, p, c, f, {}) :
               p \in {"M" :> <<<<"tests">>>>, "N" :> <<<<"tests">>>>}, c \in {<<>>, <<<<"src", "a">>>>}, f \in {<<>>, <<<<"src", "a">>, <<"src", "b">>>>}}
OwnersP == {Owner(2, <<"vendor", "p">>, "N" :> d, c, <<<<"a">>, <<"a">>>>, e) :
              d \in {<<<<"src">>>>, <<<<"src">>, <<"lib">>, <<"src">>>>}, c \in {<<<<"src">>, <<"tests">>>>, <<<<"tests">>>>, <<<<"lib">>>>},
              e \in {{}, {Pattern(<<"**", "tests">>, TRUE)}}}
OwnersQ == {Owner(n, <<"vendor", "q">>, "N" :> <<<<"src">>>>, <<<<"src">>>>, <<<<"a">>>>, {}) : n \in {1, 2}}

-----------------------------------------------------------------------------
(* Scripts, locks *)

Shell(ok) == [form |-> "shell", name |-> "", ok |-> ok]
Ref(n) == [form |-> "ref", name |-> n, ok |-> TRUE]
EmptyBody == [form |-> "empty", name |-> "", ok |-> TRUE]
ScriptBodies == {Shell(TRUE), Shell(FALSE), EmptyBody, Ref("a"), Ref("b"), Ref("c"), Ref("d")}
OneBody == {<<>>} \cup {<<b>> : b \in ScriptBodies}
TwoBodies == OneBody \cup {<<b, c>> : b, c \in ScriptBodies}
ScriptMaps == {("a" :> a) @@ ("b" :> b) @@ ("c" :> c) : a, b \in TwoBodies, c \in OneBody}

Star == External(<<Wild(<<>>)>>)
Requiring(names) == [n \in names |-> Star]
Names == {"a", "b", "c"}

\* The packages some packages need, themselves included.
Closure(deps, names) ==
  LET needs[k \in 0..3] == IF k = 0 THEN names
                     ELSE LET n == needs[k - 1] IN n \cup UNION {deps[p] : p \in n}
  IN needs[3]

LockOf(deps, prod, dev, members) ==
  LET Records(s) == [p \in s |-> [version |-> Num(<<1>>), require |-> Requiring(deps[p]), workspace |-> FALSE]]
  IN [of |-> "root", packages |-> Merged(Records(Closure(deps, prod)), WorkspacePackages(members)),
      packagesDev |-> Records(Closure(deps, prod \cup dev) \ Closure(deps, prod))]

Dependencies == [a : SUBSET {"b", "c"}, b : SUBSET {"a", "c"}, c : SUBSET {"a", "b"}]
Project(name, prod, dev) == [name |-> name, version |-> NoVersion, require |-> Requiring(prod), requireDev |-> Requiring(dev)]

FewRegistries ==
  {{Row(Num(<<1, 2>>), <<>>), Row(Pre(<<2, 0>>, "rc", 1), <<>>), Row(Num(<<3>>), <<>>)},
   {Row(OnBranch("main"), <<>>), Row(Num(<<1, 2, 3>>), <<>>)}, {Row(Alias(<<2>>, "2.x-dev"), <<>>), Row(Num(<<1>>), <<>>)}}

Vendored == [kind |-> "package", name |-> "acme/lib"]
Sibling == [kind |-> "package", name |-> "acme/member"]
RootName == [kind |-> "package", name |-> "root"]

\* A manifest that requires one package in one of its sections, and perhaps a
\* workspace.
OneRequire(name, version, ts, dev, internal) ==
  LET lib == Vendored :> External(ts)
  IN [name |-> name, version |-> version,
      require |-> (IF dev THEN <<>> ELSE lib) @@ internal.require,
      requireDev |-> (IF dev THEN lib ELSE <<>>) @@ internal.requireDev]

NoInternal == [require |-> <<>>, requireDev |-> <<>>]
Internals ==
  {NoInternal} \cup {[NoInternal EXCEPT ![section] = Sibling :> Internal(ts)] :
                    section \in DOMAIN NoInternal, ts \in {<<Wild(<<>>)>>, <<Op("^", Num(<<1>>))>>, <<Op("^", Num(<<2>>))>>}}
              \cup {[NoInternal EXCEPT !.require = Vendored :> Internal(<<Wild(<<>>)>>)]}
MemberTexts == {<<Op("^", Num(<<1>>))>>, <<Op("", OnBranch("main"))>>, <<Op("^", Num(<<1>>)), Or, Op("^", Num(<<2>>))>>,
                <<Word("^"), Op("", OnBranch("main"))>>, <<>>}

\* Edits of a manifest: a command with up to two arguments, then one more.
NoName == [kind |-> "invalid", name |-> "Acme"]
Arg(n, given, ts) == [name |-> n, given |-> given, text |-> External(ts)]
Args == {Arg(Vendored, FALSE, <<>>), Arg(Php, TRUE, <<Op("^", Num(<<1>>))>>), Arg(Vendored, TRUE, <<Word("^"), Op("", OnBranch("main"))>>),
         Arg(NoName, FALSE, <<>>), Arg(Vendored, TRUE, <<>>),
         [Arg(Vendored, TRUE, <<Wild(<<>>)>>) EXCEPT !.text = Internal(<<Wild(<<>>)>>)]}
Commands(n) == [of : {"require", "remove"}, dev : BOOLEAN, args : [1..n -> Args]]
Sections2 == {<<>>, Vendored :> Star, (Php :> Star) @@ (Ext("json") :> Star), Failed}
Manifests == {[name |-> "root", require |-> r, requireDev |-> d] : r, d \in Sections2}

-----------------------------------------------------------------------------
(* Conflicts *)

Leaf(cause) == [cause |-> cause, left |-> 0, right |-> 0]
Derived(i) == {[cause |-> "conflict", left |-> l, right |-> r] : l, r \in 1..(i - 1)}

\* A leaf alone, two leaves and four conflicts, or three leaves and three conflicts.
Conflicts ==
  {<<Leaf("root")>>, <<Leaf("no versions")>>} \cup
  {<<Leaf("dependency"), Leaf("dependency"), c, d, e, f>> :
     c \in Derived(3), d \in Derived(4), e \in Derived(5), f \in Derived(6)}
  \cup {<<Leaf("root"), Leaf("dependency"), Leaf("no versions"), d, e, f>> :
          d \in Derived(4), e \in Derived(5), f \in Derived(6)}

-----------------------------------------------------------------------------
(* Journeys *)

\* The orders in which the resolver makes m calls and the two workers i and k.
OrderOf ==
  [m \in 1..2, i \in {0, 2}, k \in {0, 2} |->
     {o \in [1..(m + i + k) -> {"main", "p", "q"}] :
        /\ Cardinality({x \in DOMAIN o : o[x] = "main"}) = m
        /\ Cardinality({x \in DOMAIN o : o[x] = "p"}) = i}]

Fare == [{"p", "q"} -> {"cached", "downloaded", "failed"}]
NumberOfCalls(outcome) == IF outcome = "failed" THEN 0 ELSE 2

JourneysFailing(fails, prefetch, early) ==
  {[prefetch |-> prefetch, early |-> early, late |-> late, names |-> <<"p", "q">>, order |-> order, fails |-> fails] :
     late \in {f \in Fare : fails = "download" <=> \E p \in DOMAIN f : f[p] = "failed"},
     order \in OrderOf[IF fails = "resolve" THEN 1 ELSE 2, NumberOfCalls(early["p"]), NumberOfCalls(early["q"])]}

-----------------------------------------------------------------------------

Init == input \in [of : {"nothing yet"}, next : {"order", "match", "aggregate", "list", "outdated", "scan", "exclude",
                                              "dump", "script", "why", "validate", "edit", "conflict", "journey"}]

Aggregating == Choosing("aggregate") /\ \E dirs \in Globbed, t \in Texts, w \in ParsedVersions :
                 input' = [of |-> "aggregate", dirs |-> dirs, w |-> w,
                           root |-> [require |-> "acme/lib" :> External(t), requireDev |-> "acme/lib" :> External(t)]]
Scanning == Choosing("scan") /\ \E f \in PhpFiles : input' = [of |-> "scan", sections |-> f]
Excluding == Choosing("exclude") /\ \E p \in Patterns, d \in Paths, f \in Paths : input' = [of |-> "exclude", pattern |-> p, dir |-> d, path |-> f]
Dumping == Choosing("dump") /\ \E t \in Trees, r \in Roots, d \in DevRoots, p \in OwnersP, q \in OwnersQ, dev \in BOOLEAN :
             input' = [of |-> "dump", tree |-> t, root |-> r, rootDev |-> d, packages |-> <<p>>, packagesDev |-> <<q>>, dev |-> dev]
Running == Choosing("script") /\ \E s \in ScriptMaps, limit \in {0, 1, 9} : input' = [of |-> "script", scripts |-> s, limit |-> limit]
Explaining == Choosing("why") /\ \E deps \in Dependencies, prod, dev, own \in SUBSET Names, noDev \in BOOLEAN :
                /\ prod \cap dev = {} /\ prod # {} /\ own \in {{}, {"a"}, {"b", "c"}}
                /\ input' = [of |-> "why", root |-> Project("root", prod, dev), members |-> <<Project("member", own, {})>>,
                             file |-> LockOf(deps, prod \cup own, dev, <<Project("member", own, {})>>),
                             single |-> LockOf(deps, prod, dev, <<>>), noDev |-> noDev]
Validating == Choosing("validate") /\ \E rows \in FewRegistries, s \in {"stable", "dev"}, t \in Texts, u \in MemberTexts,
                                       d, e \in BOOLEAN, i \in Internals, v \in {NoVersion, Num(<<1, 2>>)} :
                input' = [of |-> "validate", m |-> OneRequire(RootName, NoVersion, t, d, i),
                          member |-> OneRequire(Sibling, v, u, e, NoInternal), rows |-> rows, minStab |-> s]
Editing == Choosing("edit") /\ \E m \in Manifests, c \in Commands(1) \cup Commands(2), d \in Commands(1) : input' = [of |-> "edit", m |-> m, commands |-> <<c, d>>]
Conflicting == Choosing("conflict") /\ \E g \in Conflicts : input' = [of |-> "conflict", conflict |-> g]
Travelling == Choosing("journey") /\ \E fails \in {"nowhere", "prepare", "resolve", "platform", "download", "install", "prune", "autoload", "finalize"},
                         prefetch \in BOOLEAN, early \in Fare :
                /\ prefetch \/ \A p \in DOMAIN early : early[p] = "failed"
                /\ \E j \in JourneysFailing(fails, prefetch, early) : input' = [of |-> "journey", journey |-> j]

Next == Asking \/ Aggregating
        \/ Scanning \/ Excluding \/ Dumping \/ Running \/ Explaining \/ Validating \/ Editing \/ Conflicting \/ Travelling

Spec == Init /\ [][Next]_input

-----------------------------------------------------------------------------

(* What several manifests require of one package is required of it         *)
(* together (orchestrator/workspace_aggregate.go).                         *)
AggregateKeepsEveryOwner ==
  input.of = "aggregate" =>
    LET members == DiscoverWorkspaces(input.dirs)
    IN members # Failed => AggregateIsIntersection(input.root, members, input.w)


(* Exclusion patterns that begin with a double star exclude wherever the    *)
(* package is installed (autoload/exclude.go).                              *)
ExclusionFloats == input.of = "exclude" => FloatingPatternsFloat(input.pattern, input.dir, input.path)

Generated == Generate(input.tree, input.root, input.rootDev, input.packages, input.packagesDev, input.dev)

(* The class map names the first declaration of every class, in a file of   *)
(* an installed owner (autoload/classmap.go).                               *)
ClassmapIsTrue ==
  input.of = "dump" /\ Generated.ok =>
    ClassmapIsFirstDeclaration(input.tree,
      input.packages \o (IF input.dev THEN input.packagesDev \o <<mergeRootAutoload(input.root, input.rootDev)>> ELSE <<input.root>>),
      [c \in DOMAIN Generated.classmap \ {InstalledVersions} |-> Generated.classmap[c]])

(* What the owners declare is loaded and nothing else, of the development   *)
(* ones and of autoload-dev only with dev.  The exception: of the root's    *)
(* prefixes those that autoload-dev declares again are not loaded from      *)
(* where autoload says (autoload/psr4.go, files.go, orchestrator/           *)
(* pipeline.go).                                                            *)
AutoloadIsComplete ==
  input.of = "dump" /\ Generated.ok =>
    LoadsWhatIsInstalled(Generated,
      IF input.dev
      THEN <<WithoutRedeclared(input.root, input.rootDev), input.rootDev>> \o input.packages \o input.packagesDev
      ELSE <<input.root>> \o input.packages)

(* A script runs all it stands for, or stops (scripts/scripts.go).          *)
ScriptsRunAsWritten == input.of = "script" => RunsWhatIsWritten(input.scripts, "a", input.limit)

(* show names every locked package when there are no workspaces, and what   *)
(* the selected manifest needs when there are; why gives a reason for every *)
(* locked package, with or without them (cli/show.go, why.go).              *)
EveryPackageIsExplained ==
  input.of = "why" =>
    /\ ShowIsComplete(input.root, input.single, input.noDev)
    /\ \A m \in {input.root} \cup ToSet(input.members) : ShowsWhatIsNeeded(m, input.file, input.noDev)
    /\ WhyExplains(input.root, input.members, input.file, input.noDev)
    /\ MemberSeesItsOwn(input.root, input.members, 1, input.file)

(* validate accepts the lock update wrote, whatever the sections and the    *)
(* owners that require the package (cli/validate.go, orchestrator/          *)
(* pipeline.go).                                                            *)
ValidateAcceptsUpdate ==
  input.of = "validate" =>
    \A members \in {<<>>, <<input.member>>} :
      FreshLockIsValid(input.m, members, Vendored, input.rows, parseStabilityName(input.minStab))

(* The explanation of a conflict proves it (resolver/render.go).            *)
ExplanationHolds == input.of = "conflict" => ExplanationIsProof(input.conflict)

(* What is printed of a run is what it did (cli/progress.go).               *)
ReportedAsItWent == input.of = "journey" => JourneyIsTold(input.journey)

(* Edits keep composer.json sound (cli/require.go, remove.go).              *)
EditsAreSound == input.of = "edit" => EditsKeepManifestSound(input.m, input.commands)
===============================================================================
