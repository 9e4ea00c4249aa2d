----------------------------- MODULE LockReports -----------------------------
(***************************************************************************)
(* What the commands say about a lock: show and why (internal/cli/show.go, *)
(* why.go) and validate (validate.go).                                     *)
(*                                                                         *)
(* A manifest is [name, version, require, requireDev] and a lock [of,      *)
(* packages, packagesDev] where `of` is the content hash of the manifest.  *)
(* packages gives every locked name [version, require, workspace]; a       *)
(* require gives every name its text.                                      *)
(***************************************************************************)
EXTENDS Candidates

Merged(f, g) == [x \in DOMAIN f \cup DOMAIN g |-> IF x \in DOMAIN g THEN g[x] ELSE f[x]]

Listed(file, noDev) == IF noDev THEN file.packages ELSE Merged(file.packages, file.packagesDev)

-----------------------------------------------------------------------------
(* show --tree *)

Direct(m, noDev) == DOMAIN m.require \cup (IF noDev THEN {} ELSE DOMAIN m.requireDev)

\* The direct requires, or else what nothing requires, or else all packages.
ShowRoots(pkgs, direct) ==
  LET incoming == UNION {DOMAIN pkgs[p].require : p \in DOMAIN pkgs}
      sources == DOMAIN pkgs \ incoming
  IN IF DOMAIN pkgs \cap direct # {} THEN DOMAIN pkgs \cap direct
     ELSE IF sources # {} THEN sources ELSE DOMAIN pkgs

RECURSIVE buildShowTreeNode(_, _, _)
buildShowTreeNode(p, pkgs, ancestors) ==
  [name |-> p, cycle |-> p \in ancestors,
   children |-> IF p \in ancestors THEN {}
                ELSE {buildShowTreeNode(q, pkgs, ancestors \cup {p}) : q \in DOMAIN pkgs[p].require \cap DOMAIN pkgs}]

buildShowTree(m, file, noDev) ==
  LET pkgs == Listed(file, noDev)
  IN {buildShowTreeNode(p, pkgs, {}) : p \in ShowRoots(pkgs, Direct(m, noDev))}

-----------------------------------------------------------------------------
(* why *)

Edge(from, target, text, dev) == [name |-> from, target |-> target, text |-> text, dev |-> dev]

\* addWhyRequirements: what a dev package requires is for development only.
Requirements(from, requires, dev) == {Edge(from, t, requires[t], dev) : t \in DOMAIN requires}

\* Fault: the require-dev of a manifest is not looked at.
ManifestEdgesProd(m, noDev) == Requirements(m.name, m.require, FALSE)

ManifestEdges(m, noDev) ==
  Requirements(m.name, m.require, FALSE)
    \cup IF noDev THEN {} ELSE Requirements(m.name, m.requireDev, TRUE)

restrictWhyGraph(edges, root) ==
  LET n == Cardinality(edges)
      reachable[k \in 0..n] ==
        IF k = 0 THEN {root}
        ELSE LET r == reachable[k - 1] IN r \cup {e.target : e \in {d \in edges : d.name \in r}}
  IN {e \in edges : e.name \in reachable[n]}

\* loadWhyGraph: from the root every manifest counts, from a member only what the
\* member reaches, and never the root.  The lock knows no requires of a workspace.
loadWhyGraph(root, members, selected, file, noDev) ==
  LET pkgs == Listed(file, noDev)
      manifests == {members[i] : i \in DOMAIN members} \cup IF selected = root THEN {root} ELSE {}
      names == {m.name : m \in {members[i] : i \in DOMAIN members}}
      edges == UNION {ManifestEdges(m, noDev) : m \in manifests}
               \cup UNION {Requirements(p, pkgs[p].require, ~noDev /\ p \in DOMAIN file.packagesDev) :
                             p \in DOMAIN pkgs \ names}
  IN IF selected = root THEN edges ELSE restrictWhyGraph(edges, selected.name)

\* A breadth-first search along the reverse edges: a target is queued once.
RECURSIVE WhySearch(_, _, _, _)
WhySearch(queue, seen, out, edges) ==
  IF queue = <<>> THEN out
  ELSE LET found == {e \in edges : e.target = Head(queue)}
           next == {e.name : e \in found} \ seen
       IN WhySearch(Tail(queue) \o SetToSeq(next), seen \cup next, out \cup found, edges)

recursiveWhy(target, edges) == WhySearch(<<target>>, {target}, {}, edges)

RECURSIVE buildWhyTree(_, _, _)
buildWhyTree(p, edges, ancestors) ==
  [name |-> p, cycle |-> p \in ancestors,
   requiredBy |-> IF p \in ancestors THEN {}
                  ELSE {[edge |-> e, node |-> buildWhyTree(e.name, edges, ancestors \cup {p})] :
                          e \in {d \in edges : d.target = p}}]

-----------------------------------------------------------------------------
(* validate *)

IsPackageName(name) == name.kind = "package"

\* validRequirementName; a platform name has a kind of its own.
validRequirementName(name) == name.kind \in {"package", "php", "ext", "lib"}

\* validateRequirementMaps for one map: the errors, not the warnings.
validateRequirements(requires) ==
  UNION {(CASE ~validRequirementName(n) -> {[name |-> n, issue |-> "name"]}
            [] validRequirementName(n) /\ requires[n].tokens = <<>> -> {[name |-> n, issue |-> "empty"]}
            [] OTHER -> IF Parse(requires[n].tokens) = ParseError THEN {[name |-> n, issue |-> "constraint"]} ELSE {}) :
         n \in DOMAIN requires}

\* Fault: only the packages of the require side are looked up.
checkLockedProd(requires, file) ==
  LET Checked == {n \in DOMAIN requires : IsPackageName(n) /\ ~requires[n].workspace}
  IN {[name |-> n, issue |-> "missing"] : n \in Checked \ DOMAIN file.packages}

checkLocked(requires, file) ==
  LET pkgs == Merged(file.packages, file.packagesDev)
      Checked == {n \in DOMAIN requires : IsPackageName(n) /\ ~requires[n].workspace}
      Compared(clauses, v) ==
        IF v = ParseError THEN {"version"} ELSE IF AdmittedBy(clauses, v) THEN {} ELSE {"unsatisfied"}
      Issues(n, clauses) ==
        IF clauses = ParseError THEN {}
        ELSE IF n \notin DOMAIN pkgs THEN {"missing"}
        ELSE Compared(clauses, ParseVersion(pkgs[n].version))
  IN UNION {{[name |-> n, issue |-> i] : i \in Issues(n, Parse(requires[n].tokens))} : n \in Checked}

\* validateLock for a lock that decodes; present are the workspaces on disk.  The
\* requires for development are only looked at when the lock has dev packages.
validateLock(m, members, file, present) ==
  LET owners == {m} \cup ToSet(members)
      IncludeDev == file.packagesDev # <<>>
      sections == {o.require : o \in owners} \cup IF IncludeDev THEN {o.requireDev : o \in owners} ELSE {}
  IN (IF file.of = m THEN {} ELSE {[name |-> m.name, issue |-> "stale"]})
     \cup UNION {checkLocked(requires, file) : requires \in sections}
     \cup {[name |-> n, issue |-> "workspace"] : n \in {p \in DOMAIN file.packages : file.packages[p].workspace} \ present}

\* workspaceLockPackages: a member is a record without requires.
WorkspacePackages(members) ==
  LET Record(w) == [version |-> w.version, require |-> <<>>, workspace |-> TRUE]
  IN [n \in {w.name : w \in ToSet(members)} |-> Record(CHOOSE w \in ToSet(members) : w.name = n)]

\* The locks update may write when the registry has one package, which requires
\* nothing (buildLockFile): the require side wins over require-dev.
UpdatedLocks(m, members, name, rows, minStab) ==
  LET agg == ManifestOfRun(m, members, TRUE)
      sections == {s \in {"require", "requireDev"} : name \in DOMAIN agg[s]}
      texts == {agg[s][name].tokens : s \in sections}
      Unreadable == ParseError \in {Parse(t) : t \in texts}
      picks == Newest({r \in versions(rows, minStab, texts, FALSE, NoPlatform, {}) :
                         \A t \in texts : AdmittedBy(Parse(t), ParseVersion(r.version))})
      Record(r) == [x \in {name} |-> [version |-> r.version, require |-> <<>>, workspace |-> FALSE]]
      Lock(prod, dev) == [of |-> m, packages |-> Merged(prod, WorkspacePackages(members)), packagesDev |-> dev]
  IN IF agg = Failed \/ Unreadable THEN {}
     ELSE IF ~(DOMAIN agg.require \cup DOMAIN agg.requireDev \subseteq {name}) THEN {}
     ELSE IF sections = {} THEN {Lock(<<>>, <<>>)}
     ELSE {IF "require" \in sections THEN Lock(Record(r), <<>>) ELSE Lock(<<>>, Record(r)) : r \in picks}

-----------------------------------------------------------------------------
(* Properties *)

(* validate has no complaint about a lock that update has just written.  It *)
(* holds for texts of one alternative when there are several owners (see    *)
(* Candidates).  The reverse does not: validate accepts a "workspace:"      *)
(* require that no member satisfies, on which update fails.                 *)
FreshLockIsValid(m, members, name, rows, minStab) ==
  LET texts == UNION {{o.require[n] : n \in DOMAIN o.require} \cup {o.requireDev[n] : n \in DOMAIN o.requireDev} :
                      o \in {m} \cup ToSet(members)}
  IN (members = <<>> \/ \A t \in texts : PlainText(t)) =>
       \A file \in UpdatedLocks(m, members, name, rows, minStab) :
         validateLock(m, members, file, {w.name : w \in ToSet(members)}) = {}

RECURSIVE NamesIn(_)
NamesIn(tree) == {tree.name} \cup UNION {NamesIn(c) : c \in tree.children}

RECURSIVE EdgesIn(_)
EdgesIn(tree) == {r.edge : r \in tree.requiredBy} \cup UNION {EdgesIn(r.node) : r \in tree.requiredBy}

(* show --tree names every package of the lock of a project without         *)
(* workspaces, once it has a require.  With workspaces it names what the    *)
(* selected manifest's own requires reach and no more: the lock's record of *)
(* a member has no requires, so what only another member needs is missing.  *)
ShownNames(m, file, noDev) == UNION {NamesIn(t) : t \in buildShowTree(m, file, noDev)}

ShowIsComplete(m, file, noDev) == ShownNames(m, file, noDev) = DOMAIN Listed(file, noDev)

NeededBy(names, pkgs) ==
  LET n == Cardinality(DOMAIN pkgs)
      needed[k \in 0..n] ==
        IF k = 0 THEN names
        ELSE LET s == needed[k - 1] IN s \cup UNION {DOMAIN pkgs[p].require \cap DOMAIN pkgs : p \in s}
  IN needed[n]

ShowsWhatIsNeeded(m, file, noDev) ==
  LET pkgs == Listed(file, noDev)
      direct == Direct(m, noDev) \cap DOMAIN pkgs
  IN direct # {} => ShownNames(m, file, noDev) = NeededBy(direct, pkgs)

(* why gives the same answer as a list and as a tree, and every package of  *)
(* the lock, whichever manifest needs it, has a reason that goes back to a  *)
(* manifest.  A package of the require side has one without a require-dev.  *)
WhyTreeAgrees(p, edges) == EdgesIn(buildWhyTree(p, edges, {})) = recursiveWhy(p, edges)

HasReason(p, edges, root) == \E e \in recursiveWhy(p, edges) : e.name = root

WhyExplains(root, members, file, noDev) ==
  LET edges == loadWhyGraph(root, members, root, file, noDev)
      origins == {root.name} \cup {members[i].name : i \in DOMAIN members}
      External == {p \in DOMAIN Listed(file, noDev) : ~Listed(file, noDev)[p].workspace}
  IN \A p \in External :
       /\ WhyTreeAgrees(p, edges)
       /\ \E o \in origins : HasReason(p, edges, o)
       /\ (p \in DOMAIN file.packages) = (\E o \in origins : HasReason(p, {e \in edges : ~e.dev}, o))

(* Seen from a member, why names the packages the member needs and nothing  *)
(* that only the root or another member needs.                              *)
MemberSeesItsOwn(root, members, i, file) ==
  LET edges == loadWhyGraph(root, members, members[i], file, FALSE)
  IN \A e \in edges : e.name = members[i].name \/ HasReason(e.name, edges, members[i].name)
===============================================================================
