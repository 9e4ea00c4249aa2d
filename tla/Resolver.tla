------------------------------- MODULE Resolver -------------------------------
(***************************************************************************)
(* The PubGrub solver of internal/resolver: Solve and everything it calls  *)
(* (propagate, conflictResolution, decide, PartialSolution, buildResult).  *)
(*                                                                         *)
(* One step of the model is one call of propagateOnce, one iteration of    *)
(* the loop of conflictResolution, or one call of decide.  The solver is   *)
(* sequential; what is nondeterministic is the problem it is given, Go's   *)
(* map iteration order in decide, and whether a registry lookup fails.     *)
(*                                                                         *)
(* Packages are positive naturals ordered like their names, "$root" is 0.  *)
(* A constraint stands for a constraint string: RelationOf compares the    *)
(* strings, so two constraints may admit the same versions and differ.     *)
(***************************************************************************)
EXTENDS Integers, Sequences, FiniteSets, OrderedSets

CONSTANTS
  Package,     \* the package names
  Version,     \* the versions, ordered as constraint.Version.Compare does
  Constraint,  \* the constraint strings
  Star,         \* the constraint "*"
  Exact,       \* Exact[v]: the constraint "=v"
  Admits,      \* Admits[c]: the versions c.Satisfies accepts
  Problem      \* the inputs: manifest, IncludeDev and what the source publishes

Root == 0
NoVersion == 0

\* A require map: a partial function from package names to constraints.
RequireMap == UNION {[D -> Constraint] : D \in SUBSET Package}

ASSUME PackageAssumption == Package \subseteq Nat \ {0} /\ IsFiniteSet(Package)
ASSUME VersionAssumption == Version \subseteq Nat \ {0} /\ IsFiniteSet(Version)
ASSUME ConstraintAssumption ==
  /\ Star \in Constraint
  /\ Exact \in [Version -> Constraint]
  /\ Admits \in [Constraint -> SUBSET Version]
  /\ \A v \in Version : Admits[Exact[v]] = {v}
ASSUME ProblemAssumption ==
  \A p \in Problem :
    /\ p.known \subseteq Package
    /\ p.published \in [Package -> SUBSET Version]
    /\ \A q \in Package : \A v \in Version : p.requires[q][v] \in RequireMap
    /\ p.require \in RequireMap
    /\ p.requireDev \in RequireMap

VARIABLES
  problem,      \* the Input of this Solve call
  ics,          \* the incompatibilities, in slice order, without repetitions
  assignments,  \* PartialSolution.Assignments
  level,        \* PartialSolution.level
  cur,          \* the package propagateOnce is being called for
  queue, seen,  \* propagate's worklist and the packages ever put on it
  conflict,     \* the terms of `current` in conflictResolution
  listed,       \* the packages versionLister has cached, found or not
  pc

vars == <<problem, ics, assignments, level, cur, queue, seen, conflict, listed, pc>>
search == <<problem, listed>>
worklist == <<cur, queue, seen>>

Term == [pkg : Package \cup {Root}, con : Constraint, pos : BOOLEAN]
Incompatibility == [terms : Seq(Term), dep : Seq(Package)]
\* ver is NoVersion for a derivation; cause is an index into ics, 0 for a decision.
Assignment == [term : Term, ver : Version \cup {NoVersion}, level : Nat, cause : Nat]

TypeOK ==
  /\ ics \in Seq(Incompatibility)
  /\ assignments \in Seq(Assignment)
  /\ \A i \in DOMAIN assignments :
       \/ assignments[i].ver = NoVersion /\ assignments[i].cause \in DOMAIN ics
       \/ assignments[i].ver # NoVersion /\ assignments[i].level >= 1
  /\ level \in Nat
  /\ cur \in Package \cup {Root}
  /\ queue \in Seq(Package \cup {Root})
  /\ seen \subseteq Package \cup {Root}
  /\ conflict \in Seq(Term)
  /\ listed \subseteq Package \cup {Root}
  /\ pc \in {"propagate", "resolve", "decide", "solved", "conflict", "error"}

ElementsOf(s) == {s[i] : i \in DOMAIN s}

(***************************************************************************)
(* Terms (term.go) and the partial solution (assignment.go).               *)
(***************************************************************************)
Inverted(t) == [pkg |-> t.pkg, con |-> t.con, pos |-> ~ t.pos]

\* Term.Satisfies.  "$root" has no version, so no term about it is asked.
Satisfies(t, v) == (v \in Admits[t.con]) <=> t.pos

IsDecision(a) == a.ver # NoVersion

Decisions == {a \in ElementsOf(assignments) : IsDecision(a)}
Decided == {a.term.pkg : a \in Decisions}
DecisionOf(p) == (CHOOSE a \in Decisions : a.term.pkg = p).ver

\* The derivations that speak of t's package with t's constraint string.
SameString(t) ==
  {i \in DOMAIN assignments : /\ ~ IsDecision(assignments[i])
                              /\ assignments[i].term.pkg = t.pkg
                              /\ assignments[i].term.con = t.con}

\* RelationOf: exact for a decided package, by the first textual match otherwise.
RelationOf(t) ==
  IF t.pkg \in Decided
  THEN IF Satisfies(t, DecisionOf(t.pkg)) THEN "subset" ELSE "disjoint"
  ELSE IF SameString(t) = {} THEN "overlapping"
  ELSE IF assignments[Least(SameString(t))].term.pos = t.pos THEN "subset" ELSE "disjoint"

Derive(t, cause) ==
  assignments' = Append(assignments,
                        [term |-> t, ver |-> NoVersion, level |-> level, cause |-> cause])

\* Decide: a decision is read back as the positive term "=v" (PositiveDerivations).
Decide(p, v) ==
  /\ level' = level + 1
  /\ assignments' = Append(assignments,
                           [term |-> [pkg |-> p, con |-> Exact[v], pos |-> TRUE],
                            ver |-> v, level |-> level + 1, cause |-> 0])

\* Fault: the level backtracked to is dropped as well.
BacktrackTooFar(target) ==
  /\ level' = target
  /\ assignments' = Pick(assignments, {i \in DOMAIN assignments : assignments[i].level < target})

\* Fault: only the decisions are undone, as if clearing the decisions map were all.
BacktrackDecisionsOnly(target) ==
  /\ level' = target
  /\ assignments' = Pick(assignments, {i \in DOMAIN assignments :
                                         \/ assignments[i].level <= target
                                         \/ ~ IsDecision(assignments[i])})

\* The longest prefix all of whose assignments are at most at level target.
Backtrack(target) ==
  /\ level' = target
  /\ \E keep \in 0 .. Len(assignments) :
       /\ \A i \in 1 .. keep : assignments[i].level <= target
       /\ keep < Len(assignments) => assignments[keep + 1].level > target
       /\ assignments' = SubSeq(assignments, 1, keep)

(***************************************************************************)
(* Unit propagation (propagate.go).                                        *)
(***************************************************************************)
Mentions(ic, p) == \E i \in DOMAIN ic.terms : ic.terms[i].pkg = p

Satisfied(ic) == \A i \in DOMAIN ic.terms : RelationOf(ic.terms[i]) = "subset"

\* The i-th term is the one unresolved term of ic.
AlmostSatisfied(ic, i) ==
  /\ RelationOf(ic.terms[i]) = "overlapping"
  /\ \A j \in DOMAIN ic.terms \ {i} : RelationOf(ic.terms[j]) = "subset"

Productive(ic) == Satisfied(ic) \/ \E i \in DOMAIN ic.terms : AlmostSatisfied(ic, i)

\* The positions propagateOnce(cur) would stop at; it stops at the first.
Stops == {k \in DOMAIN ics : Mentions(ics[k], cur) /\ Productive(ics[k])}

\* The packages of ts that propagate has not queued yet, in term order.
Fresh(ts) ==
  LET names == [i \in DOMAIN ts |-> ts[i].pkg] IN
  Pick(names, {i \in DOMAIN ts : names[i] \notin seen /\ \A j \in 1 .. i - 1 : names[j] # names[i]})

PropagateConflict ==
  /\ pc = "propagate" /\ Stops # {}
  /\ LET ic == ics[Least(Stops)] IN
       /\ Satisfied(ic)
       /\ conflict' = ic.terms
  /\ pc' = "resolve"
  /\ UNCHANGED <<search, worklist, ics, assignments, level>>

PropagateDerive ==
  /\ pc = "propagate" /\ Stops # {}
  /\ LET ic == ics[Least(Stops)] IN
       /\ ~ Satisfied(ic)
       /\ \E i \in DOMAIN ic.terms :
            /\ AlmostSatisfied(ic, i)
            /\ Derive(Inverted(ic.terms[i]), Least(Stops))
       /\ queue' = queue \o Fresh(ic.terms)
       /\ seen' = seen \cup {ic.terms[i].pkg : i \in DOMAIN ic.terms}
  /\ UNCHANGED <<search, ics, level, cur, conflict, pc>>

PropagateNext ==
  /\ pc = "propagate" /\ Stops = {} /\ queue # << >>
  /\ cur' = Head(queue)
  /\ queue' = Tail(queue)
  /\ UNCHANGED <<search, ics, assignments, level, seen, conflict, pc>>

PropagateDone ==
  /\ pc = "propagate" /\ Stops = {} /\ queue = << >>
  /\ pc' = "decide"
  /\ UNCHANGED <<search, worklist, ics, assignments, level, conflict>>

\* propagate(ps, ics, seed) is about to be called.
Seed(p) == cur' = p /\ queue' = << >> /\ seen' = {p} /\ pc' = "propagate"

(***************************************************************************)
(* Conflict resolution (conflict.go) and Solve's reaction to it.           *)
(***************************************************************************)
\* assignmentSatisfiesAnyTerm: for a derivation the same package is enough.
SatisfiesAnyTerm(a, ts) ==
  \E i \in DOMAIN ts : /\ ts[i].pkg = a.term.pkg
                       /\ IsDecision(a) => Satisfies(ts[i], a.ver)

Satisfiers == {i \in DOMAIN assignments : SatisfiesAnyTerm(assignments[i], conflict)}
Satisfier == assignments[Greatest(Satisfiers)]

\* resolveIncompatibilities: both term lists without the terms about p, deduplicated.
ResolveTerms(current, cause, p) ==
  LET all == current \o cause IN
  Pick(all, {i \in DOMAIN all : all[i].pkg # p /\ \A j \in 1 .. i - 1 : all[j] # all[i]})

\* Fault: what was learned is not kept.
ForgetIncompatibility(ic) == ics' = ics

AddIncompatibility(ic) == ics' = IF ic \in ElementsOf(ics) THEN ics ELSE Append(ics, ic)

Resolve ==
  /\ pc = "resolve" /\ conflict # << >> /\ Satisfiers # {}
  /\ ~ IsDecision(Satisfier)
  /\ conflict' = ResolveTerms(conflict, ics[Satisfier.cause].terms, Satisfier.term.pkg)
  /\ UNCHANGED <<search, worklist, ics, assignments, level, pc>>

\* Fault: one level too many is undone.
BacktrackLevelOffByOne == IF Satisfiers = {} THEN 0 ELSE Satisfier.level - 2

\* The level conflictResolution returns: just below the satisfying decision,
\* or 0 when nothing in the partial solution satisfies a term.
BacktrackLevel == IF Satisfiers = {} THEN 0 ELSE Satisfier.level - 1

Learn ==
  /\ pc = "resolve" /\ conflict # << >>
  /\ Satisfiers # {} => IsDecision(Satisfier)
  /\ AddIncompatibility([terms |-> conflict, dep |-> << >>])
  /\ Backtrack(BacktrackLevel)
  /\ Seed(conflict[1].pkg)
  /\ conflict' = << >>
  /\ UNCHANGED search

FailConflict ==
  /\ pc = "resolve" /\ conflict = << >>
  /\ pc' = "conflict"
  /\ UNCHANGED <<search, worklist, ics, assignments, level, conflict>>

(***************************************************************************)
(* Decisions (decide.go).                                                  *)
(***************************************************************************)
Undecided ==
  {a.term.pkg : a \in {b \in ElementsOf(assignments) : ~ IsDecision(b) /\ b.term.pos}} \ Decided

\* Fault: negative derivations are not asked.
CandidatesPositiveOnly(p) ==
  {v \in problem.published[p] :
     \A i \in DOMAIN assignments :
       assignments[i].term.pkg = p /\ assignments[i].term.pos => Satisfies(assignments[i].term, v)}

\* Fault: only the newest assignment about the package is asked.
CandidatesNewestOnly(p) ==
  LET about == {i \in DOMAIN assignments : assignments[i].term.pkg = p}
  IN  {v \in problem.published[p] : Satisfies(assignments[Greatest(about)].term, v)}

\* filterByActiveConstraints over what versionLister.versions returns.
Candidates(p) ==
  {v \in problem.published[p] :
     \A i \in DOMAIN assignments : assignments[i].term.pkg = p => Satisfies(assignments[i].term, v)}

\* The packages decide looks up: in name order, up to the first unknown one.
Probed == {p \in Undecided : \A q \in Undecided : q < p => q \in problem.known}

\* Fewest candidates first, then by name.
Chosen(p) ==
  /\ p \in Undecided
  /\ \A q \in Undecided \ {p} :
       LET m == Cardinality(Candidates(p))
           n == Cardinality(Candidates(q))
       IN  m < n \/ (m = n /\ p < q)

\* PositiveDerivations of an undecided package.
PositiveDerivations(p) ==
  LET S == {i \in DOMAIN assignments : assignments[i].term.pkg = p /\ assignments[i].term.pos}
  IN  Pick([i \in DOMAIN assignments |-> assignments[i].term], S)

\* Fault: the sign of the dependee is lost.
DependencyUnsigned(p, v, q) ==
  [terms |-> << [pkg |-> p, con |-> Exact[v], pos |-> TRUE],
                [pkg |-> q, con |-> problem.requires[p][v][q], pos |-> TRUE] >>,
   dep   |-> <<p, q>>]

\* {p at v, not q within c}: who decides p at v needs q within c.
Dependency(p, v, q) ==
  [terms |-> << [pkg |-> p, con |-> Exact[v], pos |-> TRUE],
                [pkg |-> q, con |-> problem.requires[p][v][q], pos |-> FALSE] >>,
   dep   |-> <<p, q>>]

\* The orders in which Go's map iteration may visit a set.
Orders(S) == {f \in [1 .. Cardinality(S) -> S] : \A s \in S : \E i \in DOMAIN f : f[i] = s}

LookupFails ==
  /\ pc = "decide" /\ Probed \ listed # {}
  /\ pc' = "error"
  /\ UNCHANGED <<search, worklist, ics, assignments, level, conflict>>

UnknownPackage ==
  /\ pc = "decide"
  /\ \E p \in Probed \ problem.known :
       /\ AddIncompatibility([terms |-> PositiveDerivations(p), dep |-> << >>])
       /\ Seed(p)
  /\ listed' = listed \cup Probed
  /\ UNCHANGED <<problem, assignments, level, conflict>>

NoVersions ==
  /\ pc = "decide" /\ Undecided \subseteq problem.known
  /\ \E p \in Undecided :
       /\ Chosen(p) /\ Candidates(p) = {}
       /\ AddIncompatibility([terms |-> PositiveDerivations(p), dep |-> << >>])
       /\ Seed(p)
  /\ listed' = listed \cup Probed
  /\ UNCHANGED <<problem, assignments, level, conflict>>

DecideVersion ==
  /\ pc = "decide" /\ Undecided \subseteq problem.known
  /\ \E p \in Undecided :
       /\ Chosen(p) /\ Candidates(p) # {}
       /\ LET v   == Greatest(Candidates(p))
              new == {Dependency(p, v, q) : q \in DOMAIN problem.requires[p][v]} \ ElementsOf(ics)
          IN  /\ \E order \in Orders(new) : ics' = ics \o order
              /\ Decide(p, v)
       /\ Seed(p)
  /\ listed' = listed \cup Probed
  /\ UNCHANGED <<problem, conflict>>

AllDone ==
  /\ pc = "decide" /\ Undecided = {}
  /\ pc' = "solved"
  /\ UNCHANGED <<search, worklist, ics, assignments, level, conflict>>

(***************************************************************************)
(* Solve.                                                                  *)
(***************************************************************************)
RootIncompatibility(p, c) ==
  [terms |-> << [pkg |-> Root, con |-> Star, pos |-> TRUE],
                [pkg |-> p, con |-> c, pos |-> FALSE] >>,
   dep   |-> << >>]

\* buildRootIncompatibilities, one require map.
RootIncompatibilities(reqs) ==
  LET names == Sorted(DOMAIN reqs) IN
  [i \in 1 .. Cardinality(DOMAIN reqs) |-> RootIncompatibility(names[i], reqs[names[i]])]

DevRequires == IF problem.includeDev THEN problem.requireDev ELSE [p \in {} |-> Star]

Init ==
  /\ problem \in Problem
  /\ ics = RootIncompatibilities(problem.require) \o RootIncompatibilities(DevRequires)
  /\ assignments = [i \in 1 .. Len(ics) |-> [term |-> Inverted(ics[i].terms[2]), ver |-> NoVersion,
                                             level |-> 0, cause |-> i]]
  /\ level = 0
  \* pickAnyMentionedPackage: the first require, or no propagation at all.
  /\ cur = IF ics = << >> THEN Root ELSE ics[1].terms[2].pkg
  /\ pc = IF ics = << >> THEN "decide" ELSE "propagate"
  /\ queue = << >>
  /\ seen = {cur}
  /\ conflict = << >>
  /\ listed = {}

Next ==
  \/ PropagateConflict \/ PropagateDerive \/ PropagateNext \/ PropagateDone
  \/ Resolve \/ Learn \/ FailConflict
  \/ LookupFails \/ UnknownPackage \/ NoVersions \/ DecideVersion \/ AllDone

Spec == Init /\ [][Next]_vars

\* Solve is a loop in one goroutine: it keeps running until it returns.
FairSpec == Spec /\ WF_vars(Next)

(***************************************************************************)
(* buildResult: Packages are the decided packages outside DevOnly,         *)
(* PackagesDev those inside it.                                            *)
(***************************************************************************)
\* The packages reachable from `from` along edges (a breadth-first search).
Reachable(from, edges) ==
  {p \in Package : \A S \in SUBSET Package :
     (from \subseteq S /\ \A e \in edges : e[1] \in S => e[2] \in S) => p \in S}

\* The edges computeDevOnlySet follows: the causes of the derivations made so far.
CauseEdges ==
  {ics[a.cause].dep : a \in {d \in ElementsOf(assignments) :
                               ~ IsDecision(d) /\ ics[d.cause].dep # << >>}}

DevOnly ==
  IF problem.includeDev
  THEN Decided \ Reachable(DOMAIN problem.require, {e \in CauseEdges : e[1] \in Decided})
  ELSE {}

-------------------------------------------------------------------------------
(***************************************************************************)
(* What Solve promises.                                                    *)
(***************************************************************************)
Solution == [p \in Decided |-> DecisionOf(p)]

MeetsRequires(sel, reqs) == \A q \in DOMAIN reqs : q \in DOMAIN sel /\ sel[q] \in Admits[reqs[q]]

\* A choice of published versions that meets every require of the root and of itself.
Valid(sel) ==
  /\ \A p \in DOMAIN sel : /\ p \in problem.known
                           /\ sel[p] \in problem.published[p]
                           /\ MeetsRequires(sel, problem.requires[p][sel[p]])
  /\ MeetsRequires(sel, problem.require)
  /\ MeetsRequires(sel, DevRequires)

\* When Solve returns a Result, the decisions are a valid choice of versions:
\* every require, direct or transitive, is decided at an admitted version.
\* Backtracking truncates derivations together with decisions and propagate
\* never requeues a package, so a forgotten require would show up here.
SolvedIsValid == pc = "solved" => Valid(Solution)

Solvable == \E D \in SUBSET Package : \E sel \in [D -> Version] : Valid(sel)

\* A *ConflictError is a "genuine package conflict" (solve.go:71).
ConflictIsGenuine == pc = "conflict" => ~ Solvable

\* The same where no package publishes two versions, so that no decision is a
\* choice: what conflict resolution drops from a learned incompatibility then
\* never hides a solution.
ConflictIsGenuineWithoutChoice ==
  pc = "conflict" /\ (\A p \in Package : Cardinality(problem.published[p]) <= 1) => ~ Solvable

\* The loop of Solve ends by itself, not by its safety limit of 100000 steps:
\* learned incompatibilities keep the search from coming back to a state.
Terminates == <>(pc \in {"solved", "conflict", "error"})

\* The requires of the decided versions.
SolutionEdges == {e \in Decided \X Package : e[2] \in DOMAIN problem.requires[e[1]][DecisionOf(e[1])]}

\* The incompatibilities Solve starts from.
FromManifest(ic) ==
  \/ \E q \in DOMAIN problem.require : ic = RootIncompatibility(q, problem.require[q])
  \/ \E q \in DOMAIN DevRequires : ic = RootIncompatibility(q, DevRequires[q])

\* The packages derived from what conflicts have taught and nothing requires:
\* resolving two incompatibilities keeps their negative terms about others.
AskedByConflicts ==
  {a.term.pkg : a \in {d \in ElementsOf(assignments) :
                         /\ ~ IsDecision(d) /\ d.term.pos
                         /\ ics[d.cause].dep = << >> /\ ~ FromManifest(ics[d.cause])}}

\* Nothing is installed that nobody asks for: every decided package is
\* reachable, through the requires of the decided versions, from the manifest
\* or from a package an incompatibility learned from a conflict asks for, so no
\* package that only an abandoned decision required survives backtracking.
NothingUnasked ==
  pc = "solved" =>
    Decided \subseteq Reachable(DOMAIN problem.require \cup DOMAIN DevRequires \cup AskedByConflicts,
                               SolutionEdges)

\* The decisions, one for each level (PartialSolution.Decide raises the level).
Stack ==
  [l \in 1 .. level |->
     LET d == CHOOSE b \in Decisions : b.level = l IN [pkg |-> d.term.pkg, ver |-> d.ver]]

Verdict == IF pc \in {"solved", "conflict", "error"} THEN pc ELSE "none"

DepthFirst == INSTANCE Backtracking WITH stack <- Stack, verdict <- Verdict

\* To its caller Solve is a depth-first search: it decides one package after
\* another, each at a published version that every require in force admits,
\* takes decisions back newest first, and returns only what meets every
\* require.  Propagation, learning and truncation do no more than steer it.
SearchRefined == DepthFirst!Spec

(***************************************************************************)
(* Why a Result is valid: the inductive invariant of the search.           *)
(***************************************************************************)
\* Assignments are in order of their levels, none above the current one.
LevelsOrdered ==
  /\ \A i, j \in DOMAIN assignments : i <= j => assignments[i].level <= assignments[j].level
  /\ \A i \in DOMAIN assignments : assignments[i].level <= level

\* A decision is a published version, and agrees with every assignment, older
\* or newer, about its package.
DecisionsConsistent ==
  \A i \in DOMAIN assignments : IsDecision(assignments[i]) =>
    LET d == assignments[i] IN
    /\ d.term = [pkg |-> d.term.pkg, con |-> Exact[d.ver], pos |-> TRUE]
    /\ d.term.pkg \in problem.known
    /\ d.ver \in problem.published[d.term.pkg]
    /\ \A j \in DOMAIN assignments :
         assignments[j].term.pkg = d.term.pkg => Satisfies(assignments[j].term, d.ver)

\* Some assignment at level l or below asks for q within c.
Held(q, c, l) ==
  \E j \in DOMAIN assignments :
    /\ assignments[j].level <= l
    /\ assignments[j].term.pkg = q
    /\ \/ assignments[j].term = [pkg |-> q, con |-> c, pos |-> TRUE]
       \/ IsDecision(assignments[j]) /\ assignments[j].ver \in Admits[c]

RootsHeld ==
  /\ \A q \in DOMAIN problem.require : Held(q, problem.require[q], 0)
  /\ \A q \in DOMAIN DevRequires : Held(q, DevRequires[q], 0)

\* The decision whose requires propagation has not turned into derivations yet.
Pending(d) == pc \in {"propagate", "resolve", "conflict"} /\ d.term.pkg = cur /\ d.level = level

\* What decision d requires of q is recorded as an incompatibility and, unless
\* d is still pending, held at the level of d or below.
RequireHeld(d, q) ==
  /\ Dependency(d.term.pkg, d.ver, q) \in ElementsOf(ics)
  /\ Pending(d) \/ Held(q, problem.requires[d.term.pkg][d.ver][q], d.level)

\* So backtracking never forgets a require without forgetting who made it.
RequiresHeld ==
  \A i \in DOMAIN assignments : IsDecision(assignments[i]) =>
    \A q \in DOMAIN problem.requires[assignments[i].term.pkg][assignments[i].ver] :
      RequireHeld(assignments[i], q)

SearchInv ==
  /\ LevelsOrdered
  /\ DecisionsConsistent
  /\ RootsHeld
  /\ RequiresHeld
  /\ pc = "solved" => Undecided = {}

\* PackagesDev holds the "packages that are reachable only via require-dev"
\* (solve.go:274), all of them and no other.
DevOnlyIsExact ==
  pc = "solved" /\ problem.includeDev =>
    DevOnly = Decided \ Reachable(DOMAIN problem.require, SolutionEdges)
===============================================================================
