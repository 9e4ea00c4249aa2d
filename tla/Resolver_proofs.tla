--------------------------- MODULE Resolver_proofs ---------------------------
(***************************************************************************)
(* Theorems about the solver, for every finite set of packages, versions   *)
(* and constraints, every constraint semantics and every set of problems:  *)
(* the type invariant; the search invariant, and that a Result is valid;   *)
(* that nothing is decided unasked; that a ConflictError is genuine when   *)
(* no package leaves a choice; that Solve implements the depth-first       *)
(* search of Backtracking.                                                 *)
(***************************************************************************)
EXTENDS Resolver, OrderedSets_proofs

TypeInv == problem \in Problem /\ TypeOK

(***************************************************************************)
(* Typing of the operators.                                                *)
(***************************************************************************)
LEMMA ProblemType ==
  ASSUME problem \in Problem
  PROVE  /\ problem.known \subseteq Package
         /\ \A q \in Package : problem.published[q] \subseteq Version
         /\ \A q \in Package : \A v \in Version : problem.requires[q][v] \in RequireMap
         /\ problem.require \in RequireMap
         /\ DevRequires \in RequireMap
<1>1. [p \in {} |-> Star] \in RequireMap
  <2>1. [p \in {} |-> Star] \in [{} -> Constraint] OBVIOUS
  <2>2. {} \in SUBSET Package OBVIOUS
  <2>3. QED BY <2>1, <2>2 DEF RequireMap
<1>2. QED BY <1>1, ProblemAssumption DEF DevRequires

\* The requires of a version are a map from packages to constraints.
LEMMA RequireMapType ==
  ASSUME NEW r \in RequireMap
  PROVE  /\ DOMAIN r \subseteq Package
         /\ IsFiniteSet(DOMAIN r)
         /\ \A q \in DOMAIN r : r[q] \in Constraint
<1>1. PICK D \in SUBSET Package : r \in [D -> Constraint]
  BY DEF RequireMap
<1>2. IsFiniteSet(D) BY PackageAssumption, FS_Subset
<1>3. QED BY <1>1, <1>2

\* A root incompatibility per require, in some order.
LEMMA RootIncompatibilitiesType ==
  ASSUME NEW r \in RequireMap
  PROVE  /\ RootIncompatibilities(r) \in Seq(Incompatibility)
         /\ \A k \in DOMAIN RootIncompatibilities(r) :
              \E q \in DOMAIN r : RootIncompatibilities(r)[k] = RootIncompatibility(q, r[q])
         /\ \A q \in DOMAIN r : \E k \in DOMAIN RootIncompatibilities(r) :
              RootIncompatibilities(r)[k] = RootIncompatibility(q, r[q])
<1> DEFINE D == DOMAIN r
           n == Cardinality(D)
           s == Sorted(D)
<1>1. D \subseteq Package /\ IsFiniteSet(D) /\ \A q \in D : r[q] \in Constraint
  BY RequireMapType
<1>2. s \in [1 .. n -> D] /\ \A q \in D : \E k \in 1 .. n : s[k] = q
  BY <1>1, PackageAssumption, SortedType
<1>3. n \in Nat BY <1>1, FS_CardinalityType
<1>4. RootIncompatibilities(r) = [k \in 1 .. n |-> RootIncompatibility(s[k], r[s[k]])]
  BY DEF RootIncompatibilities
<1>5. \A q \in D : RootIncompatibility(q, r[q]) \in Incompatibility
  BY <1>1, ConstraintAssumption DEF RootIncompatibility, Incompatibility, Term
<1> HIDE DEF D, n, s
<1>6. \A k \in 1 .. n : RootIncompatibility(s[k], r[s[k]]) \in Incompatibility
  BY <1>2, <1>5
<1>7. RootIncompatibilities(r) \in Seq(Incompatibility)
  BY <1>3, <1>4, <1>6
<1>8. DOMAIN RootIncompatibilities(r) = 1 .. n
  BY <1>4
<1>9. \A k \in 1 .. n : RootIncompatibilities(r)[k] = RootIncompatibility(s[k], r[s[k]])
  BY <1>4
<1>10. QED BY <1>2, <1>7, <1>8, <1>9 DEF D

\* A term is made of a package, a constraint and a sign.
LEMMA TermType ==
  ASSUME NEW t \in Term
  PROVE  t.pkg \in Package \cup {Root} /\ t.con \in Constraint /\ t.pos \in BOOLEAN
BY DEF Term

\* Negating terms yields terms.
LEMMA InvertedType ==
  ASSUME NEW t \in Term
  PROVE  /\ Inverted(t) \in Term
         /\ Inverted(t).pkg = t.pkg
         /\ Inverted(t).con = t.con
BY DEF Inverted, Term

\* The fields of an assignment.
LEMMA AssignmentType ==
  ASSUME TypeOK, NEW i \in DOMAIN assignments
  PROVE  /\ assignments[i] \in Assignment
         /\ assignments[i].term \in Term
         /\ assignments[i].term.pkg \in Package \cup {Root}
         /\ assignments[i].term.con \in Constraint
         /\ assignments[i].term.pos \in BOOLEAN
         /\ assignments[i].ver \in Version \cup {NoVersion}
         /\ assignments[i].level \in Nat
<1>1. assignments[i] \in Assignment BY DEF TypeOK
<1>2. assignments[i].term \in Term BY <1>1 DEF Assignment
<1>3. QED BY <1>1, <1>2 DEF Assignment, Term

\* The negation of a negative term is the positive one.
LEMMA InvertedNegative ==
  ASSUME NEW q, NEW c
  PROVE  Inverted([pkg |-> q, con |-> c, pos |-> FALSE]) = [pkg |-> q, con |-> c, pos |-> TRUE]
BY DEF Inverted

\* What propagation adds to the worklist are names of packages.
LEMMA FreshType ==
  ASSUME NEW ts \in Seq(Term)
  PROVE  Fresh(ts) \in Seq(Package \cup {Root})
<1> DEFINE names == [i \in DOMAIN ts |-> ts[i].pkg]
           K == {i \in DOMAIN ts : names[i] \notin seen /\ \A j \in 1 .. i - 1 : names[j] # names[i]}
<1>1. names \in Seq(Package \cup {Root})
  <2>1. \A i \in DOMAIN ts : ts[i].pkg \in Package \cup {Root}
    <3>1. \A i \in DOMAIN ts : ts[i] \in Term OBVIOUS
    <3> HIDE DEF names, K
    <3>2. QED BY <3>1, TermType
  <2>2. Len(ts) \in Nat /\ DOMAIN ts = 1 .. Len(ts)
    OBVIOUS
  <2>3. QED BY <2>1, <2>2
<1>2. K \subseteq DOMAIN names OBVIOUS
<1>3. Fresh(ts) = Pick(names, K) BY DEF Fresh
<1> HIDE DEF names, K
<1>4. QED BY <1>1, <1>2, <1>3, PickType

\* A resolvent is made of terms.
LEMMA ResolveTermsType ==
  ASSUME NEW s \in Seq(Term), NEW t \in Seq(Term), NEW p
  PROVE  ResolveTerms(s, t, p) \in Seq(Term)
<1> DEFINE all == s \o t
           K == {i \in DOMAIN all : all[i].pkg # p /\ \A j \in 1 .. i - 1 : all[j] # all[i]}
<1>1. all \in Seq(Term) OBVIOUS
<1>2. K \subseteq DOMAIN all OBVIOUS
<1>3. ResolveTerms(s, t, p) = Pick(all, K) BY DEF ResolveTerms
<1> HIDE DEF all, K
<1>4. QED BY <1>1, <1>2, <1>3, PickType

\* The derivations makeNoVersionsIncompat collects are terms.
LEMMA PositiveDerivationsType ==
  ASSUME TypeOK, NEW p
  PROVE  PositiveDerivations(p) \in Seq(Term)
<1> DEFINE terms == [i \in DOMAIN assignments |-> assignments[i].term]
           K == {i \in DOMAIN assignments : assignments[i].term.pkg = p /\ assignments[i].term.pos}
<1>1. terms \in Seq(Term)
  <2>1. Len(assignments) \in Nat /\ DOMAIN assignments = 1 .. Len(assignments)
    BY DEF TypeOK
  <2>2. \A i \in DOMAIN assignments : assignments[i].term \in Term
    BY AssignmentType
  <2>3. QED BY <2>1, <2>2
<1>2. K \subseteq DOMAIN terms OBVIOUS
<1>3. PositiveDerivations(p) = Pick(terms, K) BY DEF PositiveDerivations
<1> HIDE DEF terms, K
<1>4. QED BY <1>1, <1>2, <1>3, PickType

\* The incompatibility propagateOnce stops at.
LEMMA StopsType ==
  ASSUME TypeOK, Stops # {}
  PROVE  Least(Stops) \in Stops /\ Least(Stops) \in DOMAIN ics /\ ics[Least(Stops)] \in Incompatibility
<1>1. Stops \subseteq DOMAIN ics /\ DOMAIN ics \subseteq Nat
  BY DEF Stops, TypeOK
<1>2. Least(Stops) \in Stops BY <1>1, LeastExists
<1>3. QED BY <1>1, <1>2 DEF TypeOK

\* The assignment the backward walk of conflictResolution finds.
LEMMA SatisfierType ==
  ASSUME TypeOK, Satisfiers # {}
  PROVE  /\ Greatest(Satisfiers) \in Satisfiers
         /\ Greatest(Satisfiers) \in DOMAIN assignments
         /\ Satisfier \in Assignment
         /\ ~ IsDecision(Satisfier) => Satisfier.cause \in DOMAIN ics
<1>1. Satisfiers \subseteq DOMAIN assignments /\ DOMAIN assignments \subseteq Nat
  BY DEF Satisfiers, TypeOK
<1>2. IsFiniteSet(Satisfiers)
  <2>1. Satisfiers \subseteq 1 .. Len(assignments) /\ Len(assignments) \in Nat
    BY <1>1 DEF TypeOK
  <2>2. IsFiniteSet(1 .. Len(assignments))
    BY <2>1, FS_Interval
  <2>3. QED BY <2>1, <2>2, FS_Subset
<1>3. Greatest(Satisfiers) \in Satisfiers BY <1>1, <1>2, GreatestExists
<1>4. QED BY <1>1, <1>3 DEF TypeOK, Satisfier, IsDecision

\* An undecided name is that of a package or the root.
LEMMA UndecidedType ==
  ASSUME TypeOK
  PROVE  Undecided \subseteq Package \cup {Root}
BY AssignmentType DEF Undecided, ElementsOf

\* What one require adds is an incompatibility about a package.
LEMMA DependencyType ==
  ASSUME problem \in Problem, NEW p \in Package, NEW v \in Version,
         NEW q \in DOMAIN problem.requires[p][v]
  PROVE  /\ Dependency(p, v, q) \in Incompatibility
         /\ q \in Package
         /\ problem.requires[p][v][q] \in Constraint
<1>1. problem.requires[p][v] \in RequireMap BY ProblemType
<1>2. q \in Package /\ problem.requires[p][v][q] \in Constraint BY <1>1, RequireMapType
<1>3. QED BY <1>2, ConstraintAssumption DEF Dependency, Incompatibility, Term

\* A visiting order of a finite set is a sequence of its elements, all of them.
LEMMA OrdersType ==
  ASSUME NEW S, IsFiniteSet(S), NEW f \in Orders(S)
  PROVE  f \in Seq(S) /\ ElementsOf(f) = S
<1>1. Cardinality(S) \in Nat BY FS_CardinalityType
<1>2. QED BY <1>1 DEF Orders, ElementsOf

(***************************************************************************)
(* The type invariant.                                                     *)
(***************************************************************************)
LEMMA InitType == Init => TypeInv
<1> SUFFICES ASSUME Init PROVE TypeInv
  OBVIOUS
<1> DEFINE r1 == RootIncompatibilities(problem.require)
           r2 == RootIncompatibilities(DevRequires)
<1>1. problem \in Problem /\ ics = r1 \o r2
  BY DEF Init
<1>2. r1 \in Seq(Incompatibility) /\ r2 \in Seq(Incompatibility)
  BY <1>1, ProblemType, RootIncompatibilitiesType
<1>3. \A k \in DOMAIN r1 : \E q \in Package : \E c \in Constraint : r1[k] = RootIncompatibility(q, c)
  BY <1>1, ProblemType, RootIncompatibilitiesType, RequireMapType
<1>4. \A k \in DOMAIN r2 : \E q \in Package : \E c \in Constraint : r2[k] = RootIncompatibility(q, c)
  BY <1>1, ProblemType, RootIncompatibilitiesType, RequireMapType
<1>5. ics \in Seq(Incompatibility)
  BY <1>1, <1>2
<1>6. \A k \in DOMAIN ics : \E q \in Package : \E c \in Constraint : ics[k] = RootIncompatibility(q, c)
  <2> HIDE DEF r1, r2
  <2> TAKE k \in DOMAIN ics
  <2>1. CASE k <= Len(r1)
    <3>1. k \in DOMAIN r1 /\ ics[k] = r1[k] BY <2>1, <1>1, <1>2
    <3>2. QED BY <3>1, <1>3
  <2>2. CASE k > Len(r1)
    <3>1. k - Len(r1) \in DOMAIN r2 /\ ics[k] = r2[k - Len(r1)] BY <2>2, <1>1, <1>2
    <3>2. QED BY <3>1, <1>4
  <2>3. k \in Nat /\ Len(r1) \in Nat BY <1>2, <1>5
  <2>4. QED BY <2>1, <2>2, <2>3
<1>7. \A k \in DOMAIN ics : ics[k].terms[2] \in Term /\ ics[k].terms[2].pkg \in Package
  <2> TAKE k \in DOMAIN ics
  <2>1. PICK q \in Package, c \in Constraint : ics[k] = RootIncompatibility(q, c)
    BY <1>6
  <2>2. ics[k].terms[2] = [pkg |-> q, con |-> c, pos |-> FALSE]
    BY <2>1 DEF RootIncompatibility
  <2>3. QED BY <2>2 DEF Term
<1>8. Len(ics) \in Nat /\ DOMAIN ics = 1 .. Len(ics)
  BY <1>5
<1>9. assignments = [i \in 1 .. Len(ics) |-> [term |-> Inverted(ics[i].terms[2]), ver |-> NoVersion,
                                              level |-> 0, cause |-> i]]
  BY DEF Init
<1>10. \A i \in 1 .. Len(ics) : /\ assignments[i] \in Assignment
                                /\ assignments[i].ver = NoVersion
                                /\ assignments[i].cause \in DOMAIN ics
  <2> TAKE i \in 1 .. Len(ics)
  <2>1. Inverted(ics[i].terms[2]) \in Term BY <1>7, <1>8, InvertedType
  <2>2. i \in Nat BY <1>8
  <2>3. QED BY <2>1, <2>2, <1>8, <1>9 DEF Assignment
<1>11. assignments \in Seq(Assignment) /\ DOMAIN assignments = 1 .. Len(ics)
  BY <1>8, <1>9, <1>10
<1>12. cur \in Package \cup {Root}
  <2>1. CASE ics = << >> BY <2>1 DEF Init
  <2>2. CASE ics # << >>
    <3>1. 1 \in DOMAIN ics BY <2>2, <1>5
    <3>2. QED BY <3>1, <2>2, <1>7 DEF Init
  <2>3. QED BY <2>1, <2>2
<1>13. pc \in {"propagate", "decide"} BY DEF Init
<1>14. queue = << >> /\ seen = {cur} /\ conflict = << >> /\ listed = {} /\ level = 0
  BY DEF Init
<1> HIDE DEF r1, r2
<1>15. QED BY <1>1, <1>5, <1>10, <1>11, <1>12, <1>13, <1>14 DEF TypeInv, TypeOK

\* Recording an incompatibility keeps the recorded ones where they are.
LEMMA AddIncompatibilityType ==
  ASSUME TypeOK, NEW ic \in Incompatibility, AddIncompatibility(ic)
  PROVE  /\ ics' \in Seq(Incompatibility)
         /\ \A k \in DOMAIN ics : k \in DOMAIN ics' /\ ics'[k] = ics[k]
BY DEF AddIncompatibility, TypeOK

\* Backtracking keeps a prefix of the assignments.
LEMMA BacktrackType ==
  ASSUME TypeOK, NEW target, Backtrack(target)
  PROVE  \E keep \in 0 .. Len(assignments) :
           /\ \A i \in 1 .. keep : assignments[i].level <= target
           /\ keep < Len(assignments) => assignments[keep + 1].level > target
           /\ assignments' \in Seq(Assignment)
           /\ DOMAIN assignments' = 1 .. keep
           /\ 1 .. keep \subseteq DOMAIN assignments
           /\ \A i \in 1 .. keep : assignments'[i] = assignments[i]
<1>1. assignments \in Seq(Assignment) /\ Len(assignments) \in Nat BY DEF TypeOK
<1>2. PICK keep \in 0 .. Len(assignments) :
        /\ \A i \in 1 .. keep : assignments[i].level <= target
        /\ keep < Len(assignments) => assignments[keep + 1].level > target
        /\ assignments' = SubSeq(assignments, 1, keep)
  BY DEF Backtrack
<1>3. /\ assignments' \in Seq(Assignment)
      /\ Len(assignments') = keep
      /\ \A i \in 1 .. keep : assignments'[i] = assignments[i]
  BY <1>1, <1>2
<1>4. QED BY <1>1, <1>2, <1>3

\* The level backtracked to is below the current one, unless it is 0.
LEMMA BacktrackLevelType ==
  ASSUME TypeOK, Satisfiers # {} => IsDecision(Satisfier)
  PROVE  /\ BacktrackLevel \in Nat
         /\ LevelsOrdered => BacktrackLevel = 0 \/ BacktrackLevel < level
<1>1. CASE Satisfiers = {} BY <1>1 DEF BacktrackLevel
<1>2. CASE Satisfiers # {}
  <2>1. Greatest(Satisfiers) \in DOMAIN assignments BY <1>2, SatisfierType
  <2>2. Satisfier.level >= 1 /\ Satisfier.level \in Nat /\ level \in Nat
    BY <1>2, <2>1, AssignmentType DEF IsDecision, Satisfier, TypeOK
  <2>4. LevelsOrdered => Satisfier.level <= level
    BY <2>1 DEF LevelsOrdered, Satisfier
  <2>3. QED BY <1>2, <2>2, <2>4 DEF BacktrackLevel
<1>3. QED BY <1>1, <1>2

\* A package decide can reach, at a version it can pick.
LEMMA CandidateType ==
  ASSUME TypeInv, Undecided \subseteq problem.known, NEW p \in Undecided
  PROVE  /\ p \in Package
         /\ p \in problem.known
         /\ Candidates(p) \subseteq problem.published[p]
         /\ Candidates(p) \subseteq Version
         /\ Candidates(p) # {} => Greatest(Candidates(p)) \in Candidates(p)
<1>1. p \in Package /\ p \in problem.known BY ProblemType DEF TypeInv
<1>2. Candidates(p) \subseteq problem.published[p] BY DEF Candidates
<1>3. Candidates(p) \subseteq Version BY <1>1, <1>2, ProblemType DEF TypeInv
<1>4. Candidates(p) \subseteq Nat /\ IsFiniteSet(Candidates(p))
  BY <1>3, VersionAssumption, FS_Subset
<1>5. QED BY <1>1, <1>2, <1>3, <1>4, GreatestExists

\* What DecideVersion does, with its choices named.
LEMMA DecideVersionStep ==
  ASSUME TypeInv, DecideVersion
  PROVE  \E p \in Undecided : \E v \in Candidates(p) :
           /\ p \in problem.known /\ p \in Package
           /\ v \in problem.published[p] /\ v \in Version
           /\ ics' \in Seq(Incompatibility)
           /\ \A k \in DOMAIN ics : k \in DOMAIN ics' /\ ics'[k] = ics[k]
           /\ \A q \in DOMAIN problem.requires[p][v] : Dependency(p, v, q) \in ElementsOf(ics')
           /\ \A k \in DOMAIN ics' :
                k \in DOMAIN ics \/ \E q \in DOMAIN problem.requires[p][v] : ics'[k] = Dependency(p, v, q)
           /\ Decide(p, v)
           /\ cur' = p
<1>1. PICK p \in Undecided :
        /\ Candidates(p) # {}
        /\ LET v   == Greatest(Candidates(p))
               new == {Dependency(p, v, q) : q \in DOMAIN problem.requires[p][v]} \ ElementsOf(ics)
           IN  /\ \E order \in Orders(new) : ics' = ics \o order
               /\ Decide(p, v)
        /\ Seed(p)
  BY DEF DecideVersion
<1> DEFINE v   == Greatest(Candidates(p))
           req == DOMAIN problem.requires[p][v]
           all == {Dependency(p, v, q) : q \in req}
           new == all \ ElementsOf(ics)
<1>2. Undecided \subseteq problem.known BY DEF DecideVersion
<1>3. p \in Package /\ p \in problem.known /\ v \in Candidates(p) /\ v \in problem.published[p] /\ v \in Version
  BY <1>1, <1>2, CandidateType
<1>4. problem.requires[p][v] \in RequireMap BY <1>3, ProblemType DEF TypeInv
<1>5. IsFiniteSet(req) BY <1>4, RequireMapType
<1>6. all \subseteq Incompatibility
  <2> HIDE DEF v
  <2>1. QED BY <1>3, DependencyType DEF TypeInv
<1>7. IsFiniteSet(new)
  <2>1. IsFiniteSet(all)
    <3> DEFINE f == [q \in req |-> Dependency(p, v, q)]
    <3>1. f \in Surjection(req, all) BY DEF Surjection
    <3> HIDE DEF req, v, all, f
    <3>2. QED BY <1>5, <3>1, FS_Surjection
  <2> HIDE DEF all
  <2>2. new \subseteq all OBVIOUS
  <2>3. QED BY <2>1, <2>2, FS_Subset
<1>8. PICK order \in Orders(new) : ics' = ics \o order
  BY <1>1
<1>9. order \in Seq(new) /\ ElementsOf(order) = new
  BY <1>7, <1>8, OrdersType
<1>10. ics \in Seq(Incompatibility) /\ order \in Seq(Incompatibility)
  <2>1. new \subseteq Incompatibility BY <1>6
  <2> HIDE DEF new
  <2>2. QED BY <2>1, <1>9 DEF TypeInv, TypeOK
<1> HIDE DEF v, req, all, new
<1>11. ics' \in Seq(Incompatibility) BY <1>8, <1>10
<1>12. \A k \in DOMAIN ics : k \in DOMAIN ics' /\ ics'[k] = ics[k]
  BY <1>8, <1>10
<1>13. ElementsOf(ics) \cup ElementsOf(order) \subseteq ElementsOf(ics')
  <2>1. \A k \in DOMAIN order : Len(ics) + k \in DOMAIN ics' /\ ics'[Len(ics) + k] = order[k]
    BY <1>8, <1>10
  <2>2. QED BY <1>12, <2>1 DEF ElementsOf
<1>14. all \subseteq ElementsOf(ics')
  BY <1>9, <1>13 DEF new
<1>15. \A q \in req : Dependency(p, v, q) \in ElementsOf(ics')
  BY <1>14 DEF all
<1>16. Decide(p, v) /\ cur' = p
  BY <1>1 DEF v, Seed
<1>17. \A k \in DOMAIN ics' : k \in DOMAIN ics \/ \E q \in req : ics'[k] = Dependency(p, v, q)
  <2> TAKE k \in DOMAIN ics'
  <2>1. k \in DOMAIN ics \/ ics'[k] \in ElementsOf(order)
    BY <1>8, <1>10 DEF ElementsOf
  <2>2. ElementsOf(order) \subseteq all BY <1>9 DEF new
  <2>3. QED BY <2>1, <2>2 DEF all
<1>18. QED BY <1>3, <1>11, <1>12, <1>15, <1>16, <1>17 DEF req

\* Appending a well-typed assignment, while incompatibilities are only added.
LEMMA AppendType ==
  ASSUME TypeOK, NEW a \in Assignment, assignments' = Append(assignments, a),
         \/ a.ver = NoVersion /\ a.cause \in DOMAIN ics'
         \/ a.ver # NoVersion /\ a.level >= 1,
         \A k \in DOMAIN ics : k \in DOMAIN ics'
  PROVE  /\ assignments' \in Seq(Assignment)
         /\ \A i \in DOMAIN assignments' :
              \/ assignments'[i].ver = NoVersion /\ assignments'[i].cause \in DOMAIN ics'
              \/ assignments'[i].ver # NoVersion /\ assignments'[i].level >= 1
         /\ DOMAIN assignments' = 1 .. Len(assignments) + 1
         /\ Len(assignments) + 1 \in DOMAIN assignments'
         /\ assignments'[Len(assignments) + 1] = a
         /\ \A i \in DOMAIN assignments : i \in DOMAIN assignments' /\ assignments'[i] = assignments[i]
         /\ \A i \in DOMAIN assignments' : i \in DOMAIN assignments \/ i = Len(assignments) + 1
<1>1. assignments \in Seq(Assignment) BY DEF TypeOK
<1>2. /\ assignments' \in Seq(Assignment)
      /\ Len(assignments') = Len(assignments) + 1
      /\ assignments'[Len(assignments) + 1] = a
      /\ \A i \in DOMAIN assignments : i \in DOMAIN assignments' /\ assignments'[i] = assignments[i]
      /\ \A i \in DOMAIN assignments' : i \in DOMAIN assignments \/ i = Len(assignments) + 1
  BY <1>1
<1>3. \A i \in DOMAIN assignments :
        \/ assignments[i].ver = NoVersion /\ assignments[i].cause \in DOMAIN ics
        \/ assignments[i].ver # NoVersion /\ assignments[i].level >= 1
  BY DEF TypeOK
<1>4. \A i \in DOMAIN assignments' :
        \/ assignments'[i].ver = NoVersion /\ assignments'[i].cause \in DOMAIN ics'
        \/ assignments'[i].ver # NoVersion /\ assignments'[i].level >= 1
  BY <1>2, <1>3
<1>5. Len(assignments') = Len(assignments) + 1 /\ Len(assignments) \in Nat
  BY <1>1, <1>2
<1>6. DOMAIN assignments' = 1 .. Len(assignments) + 1 /\ Len(assignments) + 1 \in DOMAIN assignments'
  BY <1>2, <1>5
<1>7. QED BY <1>2, <1>4, <1>6

\* A derivation is appended at the current level; it inverts the unresolved
\* term of the incompatibility that propagateOnce stopped at.
LEMMA PropagateDeriveStep ==
  ASSUME TypeOK, PropagateDerive
  PROVE  \E t \in Term :
           /\ RelationOf(t) = "overlapping"
           /\ Derive(Inverted(t), Least(Stops))
           /\ [term |-> Inverted(t), ver |-> NoVersion, level |-> level, cause |-> Least(Stops)] \in Assignment
<1>1. Stops # {} BY DEF PropagateDerive
<1>2. Least(Stops) \in DOMAIN ics /\ ics[Least(Stops)] \in Incompatibility
  BY <1>1, StopsType
<1>3. PICK i \in DOMAIN ics[Least(Stops)].terms :
        /\ AlmostSatisfied(ics[Least(Stops)], i)
        /\ Derive(Inverted(ics[Least(Stops)].terms[i]), Least(Stops))
  BY DEF PropagateDerive
<1> DEFINE t == ics[Least(Stops)].terms[i]
<1>4. t \in Term BY <1>2 DEF Incompatibility
<1>5. RelationOf(t) = "overlapping" BY <1>3 DEF AlmostSatisfied
<1>6. Least(Stops) \in Nat /\ level \in Nat BY <1>2 DEF TypeOK
<1>7. Inverted(t) \in Term BY <1>4, InvertedType
<1> HIDE DEF t
<1>8. [term |-> Inverted(t), ver |-> NoVersion, level |-> level, cause |-> Least(Stops)] \in Assignment
  BY <1>6, <1>7 DEF Assignment
<1>9. QED BY <1>3, <1>4, <1>5, <1>8 DEF t

\* Every step of the search keeps the types.
LEMMA TypeStep ==
  ASSUME TypeInv, [Next]_vars
  PROVE  TypeInv'
<1> USE DEF TypeInv
<1>0. problem' = problem
  BY DEF Next, vars, search, PropagateConflict, PropagateDerive, PropagateNext, PropagateDone,
         Resolve, Learn, FailConflict, LookupFails, UnknownPackage, NoVersions, DecideVersion, AllDone
<1>1. CASE PropagateConflict
  <2>1. Stops # {} /\ conflict' = ics[Least(Stops)].terms BY <1>1 DEF PropagateConflict
  <2>2. conflict' \in Seq(Term) BY <2>1, StopsType DEF Incompatibility
  <2>3. QED BY <1>0, <1>1, <2>2 DEF PropagateConflict, TypeOK, search, worklist
<1>2. CASE PropagateDerive
  <2>1. PICK t \in Term :
          /\ Derive(Inverted(t), Least(Stops))
          /\ [term |-> Inverted(t), ver |-> NoVersion, level |-> level, cause |-> Least(Stops)] \in Assignment
    BY <1>2, PropagateDeriveStep
  <2>2. Least(Stops) \in DOMAIN ics /\ ics[Least(Stops)] \in Incompatibility
    BY <1>2, StopsType DEF PropagateDerive
  <2>3. UNCHANGED <<ics, level, cur, conflict, pc, listed>>
    BY <1>2 DEF PropagateDerive, search
  <2>4. /\ assignments' \in Seq(Assignment)
        /\ \A i \in DOMAIN assignments' :
             \/ assignments'[i].ver = NoVersion /\ assignments'[i].cause \in DOMAIN ics'
             \/ assignments'[i].ver # NoVersion /\ assignments'[i].level >= 1
    BY <2>1, <2>2, <2>3, AppendType DEF Derive
  <2>5. ics[Least(Stops)].terms \in Seq(Term) BY <2>2 DEF Incompatibility
  <2>6. queue' \in Seq(Package \cup {Root})
    <3>1. Fresh(ics[Least(Stops)].terms) \in Seq(Package \cup {Root}) BY <2>5, FreshType
    <3>2. queue \in Seq(Package \cup {Root}) BY DEF TypeOK
    <3>3. queue' = queue \o Fresh(ics[Least(Stops)].terms) BY <1>2 DEF PropagateDerive
    <3>4. QED BY <3>1, <3>2, <3>3
  <2>7. seen' \subseteq Package \cup {Root}
    <3>1. \A i \in DOMAIN ics[Least(Stops)].terms : ics[Least(Stops)].terms[i].pkg \in Package \cup {Root}
      BY <2>5, TermType
    <3>2. seen' = seen \cup {ics[Least(Stops)].terms[i].pkg : i \in DOMAIN ics[Least(Stops)].terms}
      BY <1>2 DEF PropagateDerive
    <3>3. QED BY <3>1, <3>2 DEF TypeOK
  <2>8. QED BY <1>0, <2>3, <2>4, <2>6, <2>7 DEF TypeOK
<1>3. CASE PropagateNext
  BY <1>0, <1>3 DEF PropagateNext, TypeOK, search
<1>4. CASE PropagateDone
  BY <1>0, <1>4 DEF PropagateDone, TypeOK, search, worklist
<1>5. CASE Resolve
  <2>1. Satisfiers # {} /\ ~ IsDecision(Satisfier)
    BY <1>5 DEF Resolve
  <2>2. ics[Satisfier.cause] \in Incompatibility /\ conflict \in Seq(Term)
    BY <2>1, SatisfierType DEF TypeOK
  <2>3. ics[Satisfier.cause].terms \in Seq(Term) BY <2>2 DEF Incompatibility
  <2>4. conflict' \in Seq(Term)
    BY <1>5, <2>2, <2>3, ResolveTermsType DEF Resolve
  <2>5. QED BY <1>0, <1>5, <2>4 DEF Resolve, TypeOK, search, worklist
<1>6. CASE Learn
  <2>1. BacktrackLevel \in Nat BY <1>6, BacktrackLevelType DEF Learn
  <2>2. conflict \in Seq(Term) /\ conflict # << >> BY <1>6 DEF Learn, TypeOK
  <2>3. conflict[1] \in Term BY <2>2
  <2>4. conflict[1].pkg \in Package \cup {Root} BY <2>3, TermType
  <2>5. [terms |-> conflict, dep |-> << >>] \in Incompatibility BY <2>2 DEF Incompatibility
  <2>6. /\ ics' \in Seq(Incompatibility)
        /\ \A k \in DOMAIN ics : k \in DOMAIN ics'
    BY <1>6, <2>5, AddIncompatibilityType DEF Learn
  <2>7. /\ assignments' \in Seq(Assignment)
        /\ \A i \in DOMAIN assignments' : i \in DOMAIN assignments /\ assignments'[i] = assignments[i]
    BY <1>6, BacktrackType DEF Learn
  <2>8. \A i \in DOMAIN assignments' :
          \/ assignments'[i].ver = NoVersion /\ assignments'[i].cause \in DOMAIN ics'
          \/ assignments'[i].ver # NoVersion /\ assignments'[i].level >= 1
    BY <2>6, <2>7 DEF TypeOK
  <2>9. /\ level' = BacktrackLevel /\ cur' = conflict[1].pkg /\ queue' = << >> /\ seen' = {cur'}
        /\ conflict' = << >> /\ listed' = listed /\ pc' = "propagate"
    BY <1>6 DEF Learn, Backtrack, Seed, search
  <2>10. QED BY <1>0, <2>1, <2>4, <2>6, <2>7, <2>8, <2>9 DEF TypeOK
<1>7. CASE FailConflict
  BY <1>0, <1>7 DEF FailConflict, TypeOK, search, worklist
<1>8. CASE LookupFails
  BY <1>0, <1>8 DEF LookupFails, TypeOK, search, worklist
<1>9. CASE UnknownPackage \/ NoVersions
  <2>1. PICK p \in Undecided :
          /\ AddIncompatibility([terms |-> PositiveDerivations(p), dep |-> << >>])
          /\ Seed(p)
    BY <1>9 DEF UnknownPackage, NoVersions, Probed
  <2>2. p \in Package \cup {Root} /\ Probed \subseteq Package \cup {Root}
    BY UndecidedType DEF Probed
  <2>3. [terms |-> PositiveDerivations(p), dep |-> << >>] \in Incompatibility
    BY PositiveDerivationsType DEF Incompatibility
  <2>4. /\ ics' \in Seq(Incompatibility)
        /\ \A k \in DOMAIN ics : k \in DOMAIN ics'
    BY <2>1, <2>3, AddIncompatibilityType
  <2>5. UNCHANGED <<assignments, level, conflict>> /\ listed' = listed \cup Probed
    BY <1>9 DEF UnknownPackage, NoVersions
  <2>6. \A i \in DOMAIN assignments' :
          \/ assignments'[i].ver = NoVersion /\ assignments'[i].cause \in DOMAIN ics'
          \/ assignments'[i].ver # NoVersion /\ assignments'[i].level >= 1
    BY <2>4, <2>5 DEF TypeOK
  <2>7. QED BY <1>0, <2>1, <2>2, <2>4, <2>5, <2>6 DEF TypeOK, Seed
<1>10. CASE DecideVersion
  <2>1. PICK p \in Undecided : \E v \in Candidates(p) :
           /\ p \in Package
           /\ v \in Version
           /\ ics' \in Seq(Incompatibility)
           /\ \A k \in DOMAIN ics : k \in DOMAIN ics'
           /\ Decide(p, v)
           /\ cur' = p
    BY <1>10, DecideVersionStep
  <2>2. PICK v \in Version : Decide(p, v) BY <2>1
  <2> DEFINE a == [term |-> [pkg |-> p, con |-> Exact[v], pos |-> TRUE],
                   ver |-> v, level |-> level + 1, cause |-> 0]
  <2>3. Exact[v] \in Constraint /\ p \in Package BY <2>1, <2>2, ConstraintAssumption
  <2>4. [pkg |-> p, con |-> Exact[v], pos |-> TRUE] \in Term BY <2>3 DEF Term
  <2>5. level \in Nat BY DEF TypeOK
  <2>6. a \in Assignment BY <2>2, <2>4, <2>5 DEF Assignment
  <2>7. a.ver # NoVersion /\ a.level >= 1 BY <2>2, <2>5, VersionAssumption DEF NoVersion
  <2>8. assignments' = Append(assignments, a) /\ level' = level + 1 BY <2>2 DEF Decide
  <2> HIDE DEF a
  <2>9. /\ assignments' \in Seq(Assignment)
        /\ \A i \in DOMAIN assignments' :
             \/ assignments'[i].ver = NoVersion /\ assignments'[i].cause \in DOMAIN ics'
             \/ assignments'[i].ver # NoVersion /\ assignments'[i].level >= 1
    BY <2>1, <2>6, <2>7, <2>8, AppendType
  <2>10. queue' = << >> /\ seen' = {cur'} /\ pc' = "propagate" /\ conflict' = conflict
         /\ listed' = listed \cup Probed
    BY <1>10, <2>1 DEF DecideVersion, Seed
  <2>11. Probed \subseteq Package \cup {Root} BY UndecidedType DEF Probed
  <2>12. QED BY <1>0, <2>1, <2>3, <2>5, <2>8, <2>9, <2>10, <2>11 DEF TypeOK
<1>11. CASE AllDone
  BY <1>0, <1>11 DEF AllDone, TypeOK, search, worklist
<1>12. CASE UNCHANGED vars
  BY <1>12 DEF vars, TypeOK
<1>13. QED
  BY <1>1, <1>2, <1>3, <1>4, <1>5, <1>6, <1>7, <1>8, <1>9, <1>10, <1>11, <1>12 DEF Next

(***************************************************************************)
(* Every value stays in its type: no position read in a slice is outside   *)
(* it, and the level never becomes negative.                               *)
(***************************************************************************)
THEOREM TypeCorrect == Spec => []TypeInv
<1>1. Init => TypeInv BY InitType
<1>2. TypeInv /\ [Next]_vars => TypeInv' BY TypeStep
<1>3. QED BY <1>1, <1>2, PTL DEF Spec

\* The same, as Solve's run states it: the solver's variables have their types.
THEOREM ResolverTypeCorrect == Spec => []TypeOK
BY TypeCorrect, PTL DEF TypeInv

(***************************************************************************)
(* The search invariant.                                                   *)
(***************************************************************************)
LEMMA InitSearch == Init => SearchInv
<1> SUFFICES ASSUME Init PROVE SearchInv
  OBVIOUS
<1> DEFINE r1 == RootIncompatibilities(problem.require)
           r2 == RootIncompatibilities(DevRequires)
<1>1. problem \in Problem /\ ics = r1 \o r2
  BY DEF Init
<1>2. r1 \in Seq(Incompatibility) /\ r2 \in Seq(Incompatibility)
  BY <1>1, ProblemType, RootIncompatibilitiesType
<1>3. \A q \in DOMAIN problem.require :
        \E k \in DOMAIN r1 : r1[k] = RootIncompatibility(q, problem.require[q])
  BY <1>1, ProblemType, RootIncompatibilitiesType
<1>4. \A q \in DOMAIN DevRequires :
        \E k \in DOMAIN r2 : r2[k] = RootIncompatibility(q, DevRequires[q])
  BY <1>1, ProblemType, RootIncompatibilitiesType
<1> HIDE DEF r1, r2
<1>5. /\ \A k \in DOMAIN r1 : k \in DOMAIN ics /\ ics[k] = r1[k]
      /\ \A k \in DOMAIN r2 : Len(r1) + k \in DOMAIN ics /\ ics[Len(r1) + k] = r2[k]
  BY <1>1, <1>2
<1>6. assignments = [i \in 1 .. Len(ics) |-> [term |-> Inverted(ics[i].terms[2]), ver |-> NoVersion,
                                              level |-> 0, cause |-> i]]
  BY DEF Init
<1>7. DOMAIN assignments = 1 .. Len(ics) /\ DOMAIN ics = 1 .. Len(ics)
  BY <1>1, <1>2, <1>6
<1>8. \A i \in DOMAIN assignments : /\ assignments[i].ver = NoVersion
                                   /\ assignments[i].level = 0
                                   /\ assignments[i].term = Inverted(ics[i].terms[2])
  BY <1>6, <1>7
<1>9. level = 0 /\ pc # "solved" BY DEF Init
<1>10. ASSUME NEW q, NEW c, NEW k \in DOMAIN ics, ics[k] = RootIncompatibility(q, c)
       PROVE  Held(q, c, 0)
  <2>0. ics[k].terms[2] = [pkg |-> q, con |-> c, pos |-> FALSE]
    BY <1>10 DEF RootIncompatibility
  <2>1. assignments[k].term = [pkg |-> q, con |-> c, pos |-> TRUE]
    BY <2>0, <1>7, <1>8, <1>10, InvertedNegative
  <2>2. QED BY <2>1, <1>7, <1>8, <1>10 DEF Held
<1>11. RootsHeld
  BY <1>3, <1>4, <1>5, <1>10 DEF RootsHeld
<1>12. LevelsOrdered BY <1>8, <1>9 DEF LevelsOrdered
<1>13. DecisionsConsistent /\ RequiresHeld
  BY <1>8 DEF DecisionsConsistent, RequiresHeld, IsDecision
<1>14. QED BY <1>9, <1>11, <1>12, <1>13 DEF SearchInv

\* What is held stays held while the assignments at its level or below stay.
LEMMA HeldMonotone ==
  ASSUME NEW q, NEW c, NEW l, Held(q, c, l),
         \A i \in DOMAIN assignments : assignments[i].level <= l =>
           i \in DOMAIN assignments' /\ assignments'[i] = assignments[i]
  PROVE  Held(q, c, l)'
BY DEF Held, IsDecision

\* A require stays held with its decision.
LEMMA RequireHeldMonotone ==
  ASSUME problem' = problem, NEW d, NEW q, RequireHeld(d, q),
         ElementsOf(ics) \subseteq ElementsOf(ics'),
         \A i \in DOMAIN assignments : assignments[i].level <= d.level =>
           i \in DOMAIN assignments' /\ assignments'[i] = assignments[i],
         Pending(d) => Pending(d)' \/ Held(q, problem.requires[d.term.pkg][d.ver][q], d.level)
  PROVE  RequireHeld(d, q)'
<1> DEFINE c == problem.requires[d.term.pkg][d.ver][q]
<1>1. Dependency(d.term.pkg, d.ver, q)' = Dependency(d.term.pkg, d.ver, q)
  BY DEF Dependency
<1>2. Dependency(d.term.pkg, d.ver, q)' \in ElementsOf(ics)'
  BY <1>1 DEF RequireHeld, ElementsOf
<1>3. Pending(d)' \/ Held(q, c, d.level) BY DEF RequireHeld
<1>4. \A k : Held(q, k, d.level) => Held(q, k, d.level)'
  BY HeldMonotone
<1>5. c' = c OBVIOUS
<1>6. Held(q, c, d.level) => Held(q, c, d.level)'
  BY <1>4, <1>5 DEF Held, IsDecision
<1>7. QED BY <1>2, <1>3, <1>6 DEF RequireHeld

\* The decision about a package is unique and read back by DecisionOf.
LEMMA DecisionOfUnique ==
  ASSUME TypeInv, DecisionsConsistent, NEW i \in DOMAIN assignments, IsDecision(assignments[i])
  PROVE  /\ assignments[i].term.pkg \in Decided
         /\ DecisionOf(assignments[i].term.pkg) = assignments[i].ver
         /\ assignments[i].term.pkg \in Package
         /\ assignments[i].ver \in Version
<1> DEFINE p == assignments[i].term.pkg
           v == assignments[i].ver
<1>1. p \in Package /\ v \in Version
  BY ProblemType DEF TypeInv, DecisionsConsistent
<1>2. p \in Decided BY DEF Decided, Decisions, ElementsOf
<1>3. \A a \in Decisions : a.term.pkg = p => a.ver = v
  <2> TAKE a \in Decisions
  <2> HAVE a.term.pkg = p
  <2>1. PICK j \in DOMAIN assignments : a = assignments[j] /\ IsDecision(a)
    BY DEF Decisions, ElementsOf
  <2>2. Satisfies(a.term, v) BY <2>1 DEF DecisionsConsistent
  <2>3. a.ver \in Version BY <2>1, AssignmentType DEF IsDecision, TypeInv
  <2>4. a.term.con = Exact[a.ver] /\ a.term.pos
    <3>1. a.term = [pkg |-> a.term.pkg, con |-> Exact[a.ver], pos |-> TRUE]
      BY <2>1 DEF DecisionsConsistent
    <3>2. QED BY ONLY <3>1
  <2>5. v \in Admits[Exact[a.ver]] BY <2>2, <2>4 DEF Satisfies
  <2>6. QED BY <2>3, <2>5, ConstraintAssumption
<1>4. \E a \in Decisions : a.term.pkg = p BY <1>2 DEF Decided
<1> HIDE DEF p, v
<1>5. DecisionOf(p) = v BY <1>3, <1>4 DEF DecisionOf
<1>6. QED BY <1>1, <1>2, <1>5 DEF p, v

\* Once propagateOnce finds nothing to do for the package just decided, what
\* the decision requires is held: its dependency incompatibilities are
\* neither satisfied nor almost satisfied.
LEMMA PropagationFinished ==
  ASSUME TypeInv, SearchInv, Stops = {}, NEW i \in DOMAIN assignments, IsDecision(assignments[i]),
         Pending(assignments[i]),
         NEW q \in DOMAIN problem.requires[assignments[i].term.pkg][assignments[i].ver]
  PROVE  Held(q, problem.requires[assignments[i].term.pkg][assignments[i].ver][q], assignments[i].level)
<1> DEFINE d == assignments[i]
           p == d.term.pkg
           v == d.ver
           c == problem.requires[p][v][q]
           ic == Dependency(p, v, q)
           t1 == [pkg |-> p, con |-> Exact[v], pos |-> TRUE]
           t2 == [pkg |-> q, con |-> c, pos |-> FALSE]
<1>1. p \in Decided /\ DecisionOf(p) = v /\ p \in Package /\ v \in Version
  BY DecisionOfUnique DEF SearchInv
<1>2. c \in Constraint /\ q \in Package
  <2> HIDE DEF p, v
  <2>1. QED BY <1>1, DependencyType DEF TypeInv, p, v
<1>3. ic \in ElementsOf(ics)
  BY DEF SearchInv, RequiresHeld, RequireHeld
<1>4. PICK k \in DOMAIN ics : ics[k] = ic
  BY <1>3 DEF ElementsOf
<1>5. p = cur /\ d.level = level BY DEF Pending
<1>6. ic.terms = << t1, t2 >> BY DEF Dependency
<1> HIDE DEF d, p, v, c, ic
<1>7. DOMAIN ic.terms = {1, 2} /\ ic.terms[1] = t1 /\ ic.terms[2] = t2
  BY <1>6
<1>8. Mentions(ic, cur) BY <1>5, <1>7 DEF Mentions
<1>9. ~ Productive(ic) BY <1>4, <1>8 DEF Stops
<1>10. RelationOf(t1) = "subset"
  <2>1. v \in Admits[Exact[v]] BY <1>1, ConstraintAssumption
  <2>2. Satisfies(t1, v) BY <2>1 DEF Satisfies
  <2>3. QED BY <1>1, <2>2 DEF RelationOf
<1>11. RelationOf(t2) # "subset" /\ RelationOf(t2) # "overlapping"
  BY <1>7, <1>9, <1>10 DEF Productive, Satisfied, AlmostSatisfied
<1>12. \A j \in DOMAIN assignments : assignments[j].level <= level
  BY DEF SearchInv, LevelsOrdered
<1>13. CASE q \in Decided
  <2>1. ~ Satisfies(t2, DecisionOf(q)) BY <1>11, <1>13 DEF RelationOf
  <2>2. DecisionOf(q) \in Admits[c] BY <2>1 DEF Satisfies
  <2>3. PICK j \in DOMAIN assignments : IsDecision(assignments[j]) /\ assignments[j].term.pkg = q
    BY <1>13 DEF Decided, Decisions, ElementsOf
  <2>4. assignments[j].ver = DecisionOf(q) BY <2>3, DecisionOfUnique DEF SearchInv
  <2>5. Held(q, c, level) BY <2>2, <2>3, <2>4, <1>12 DEF Held
  <2>6. QED BY <2>5, <1>5 DEF c, p, v, d
<1>14. CASE q \notin Decided
  <2>1. SameString(t2) # {} /\ assignments[Least(SameString(t2))].term.pos # FALSE
    BY <1>11, <1>14 DEF RelationOf
  <2>2. PICK j \in SameString(t2) : assignments[j].term.pos # FALSE
    <3>1. SameString(t2) \subseteq Nat BY DEF SameString, TypeInv, TypeOK
    <3>2. QED BY <2>1, <3>1, LeastExists
  <2>3. j \in DOMAIN assignments /\ assignments[j].term.pkg = q /\ assignments[j].term.con = c
    BY <2>2 DEF SameString
  <2>4. assignments[j].term \in Term BY <2>3, AssignmentType DEF TypeInv
  <2>5. assignments[j].term.pos = TRUE
    BY <2>2, <2>3, AssignmentType, Zenon DEF TypeInv
  <2>6. assignments[j].term = [pkg |-> q, con |-> c, pos |-> TRUE]
    BY <2>3, <2>4, <2>5 DEF Term
  <2>7. Held(q, c, level) BY <2>3, <2>6, <1>12 DEF Held
  <2>8. QED BY <2>7, <1>5 DEF c, p, v, d
<1>15. QED BY <1>13, <1>14

\* The steps that leave the partial solution alone.
LEMMA StillStep ==
  ASSUME TypeInv, SearchInv, UNCHANGED <<problem, assignments, level>>,
         ElementsOf(ics) \subseteq ElementsOf(ics'),
         \/ UNCHANGED cur /\ pc \in {"propagate", "resolve", "conflict"}
                          /\ pc' \in {"propagate", "resolve", "conflict"}
         \/ Stops = {}
         \/ pc \notin {"propagate", "resolve", "conflict"},
         pc' = "solved" => Undecided = {}
  PROVE  SearchInv'
<1>1. LevelsOrdered' BY DEF SearchInv, LevelsOrdered
<1>2. DecisionsConsistent' BY DEF SearchInv, DecisionsConsistent, IsDecision, Satisfies
<1>3. RootsHeld' BY DEF SearchInv, RootsHeld, DevRequires, Held, IsDecision
<1>4. RequiresHeld'
  <2> SUFFICES ASSUME NEW i \in DOMAIN assignments, IsDecision(assignments[i]),
                      NEW q \in DOMAIN problem.requires[assignments[i].term.pkg][assignments[i].ver]
               PROVE  RequireHeld(assignments[i], q)'
    BY DEF RequiresHeld, IsDecision
  <2> DEFINE d == assignments[i]
  <2>1. RequireHeld(d, q) BY DEF SearchInv, RequiresHeld
  <2>2. Pending(d) => Pending(d)' \/ Held(q, problem.requires[d.term.pkg][d.ver][q], d.level)
    <3>1. CASE UNCHANGED cur /\ pc \in {"propagate", "resolve", "conflict"}
                             /\ pc' \in {"propagate", "resolve", "conflict"}
      BY <3>1 DEF Pending
    <3>2. CASE Stops = {} BY <3>2, PropagationFinished
    <3>3. CASE pc \notin {"propagate", "resolve", "conflict"} BY <3>3 DEF Pending
    <3>4. QED BY <3>1, <3>2, <3>3
  <2>3. d' = d OBVIOUS
  <2>4. PICK e : e = d OBVIOUS
  <2>5. RequireHeld(e, q) /\ (Pending(e) => Pending(e)' \/ Held(q, problem.requires[e.term.pkg][e.ver][q], e.level))
    BY <2>1, <2>2, <2>3, <2>4 DEF Pending
  <2> HIDE DEF d
  <2>6. RequireHeld(e, q)' BY <2>5, RequireHeldMonotone
  <2>7. e = assignments[i]' BY <2>3, <2>4 DEF d
  <2>8. QED BY <2>6, <2>7 DEF RequireHeld, Dependency, Pending, Held, IsDecision, ElementsOf
<1>5. (pc = "solved" => Undecided = {})' BY DEF Undecided, Decided, Decisions, ElementsOf, IsDecision
<1>6. QED BY <1>1, <1>2, <1>3, <1>4, <1>5 DEF SearchInv

\* RequiresHeld in the next state, with the decision as a constant.
LEMMA RequiresHeldNext ==
  ASSUME problem' = problem,
         \A i \in DOMAIN assignments' : assignments'[i].ver # NoVersion =>
           \A q \in DOMAIN problem.requires[assignments'[i].term.pkg][assignments'[i].ver] :
             \E d : d = assignments'[i] /\ RequireHeld(d, q)'
  PROVE  RequiresHeld'
<1> SUFFICES ASSUME NEW i \in DOMAIN assignments', assignments'[i].ver # NoVersion,
                    NEW q \in DOMAIN problem.requires[assignments'[i].term.pkg][assignments'[i].ver]
             PROVE  RequireHeld(assignments[i], q)'
  BY DEF RequiresHeld, IsDecision
<1>1. PICK d : d = assignments'[i] /\ RequireHeld(d, q)' OBVIOUS
<1>2. QED BY <1>1 DEF RequireHeld, Dependency, Pending, Held, IsDecision, ElementsOf

\* Deriving a term keeps the search invariant.
LEMMA DeriveStep ==
  ASSUME TypeInv, SearchInv, PropagateDerive
  PROVE  SearchInv'
<1>1. PICK t \in Term :
        /\ RelationOf(t) = "overlapping"
        /\ Derive(Inverted(t), Least(Stops))
        /\ [term |-> Inverted(t), ver |-> NoVersion, level |-> level, cause |-> Least(Stops)] \in Assignment
  BY PropagateDeriveStep DEF TypeInv
<1> DEFINE a == [term |-> Inverted(t), ver |-> NoVersion, level |-> level, cause |-> Least(Stops)]
           n == Len(assignments) + 1
<1>2. UNCHANGED <<problem, ics, level, cur, pc>> /\ pc = "propagate"
  BY DEF PropagateDerive, search
<1>3. a.ver = NoVersion /\ a.level = level /\ a.term.pkg = t.pkg /\ a.cause \in DOMAIN ics'
  BY <1>2, StopsType DEF PropagateDerive, Inverted, TypeInv
<1>4. assignments' = Append(assignments, a) /\ a \in Assignment BY <1>1 DEF Derive
<1> HIDE DEF a
<1>5. /\ \A i \in DOMAIN assignments : i \in DOMAIN assignments' /\ assignments'[i] = assignments[i]
      /\ \A i \in DOMAIN assignments' : i \in DOMAIN assignments \/ i = n
      /\ assignments'[n] = a
      /\ DOMAIN assignments' = 1 .. n
  BY <1>2, <1>3, <1>4, AppendType DEF TypeInv
<1>6. Len(assignments) \in Nat /\ DOMAIN assignments = 1 .. Len(assignments) /\ level \in Nat
  BY DEF TypeInv, TypeOK
<1>7. t.pkg \notin Decided BY <1>1 DEF RelationOf
<1>8. LevelsOrdered'
  <2>1. \A i \in DOMAIN assignments' : assignments'[i].level <= level
    BY <1>3, <1>5, <1>6 DEF SearchInv, LevelsOrdered
  <2>2. \A i, j \in DOMAIN assignments' : i <= j => assignments'[i].level <= assignments'[j].level
    <3> SUFFICES ASSUME NEW i \in DOMAIN assignments', NEW j \in DOMAIN assignments', i <= j
                 PROVE  assignments'[i].level <= assignments'[j].level
      OBVIOUS
    <3>1. CASE j = n BY <3>1, <2>1, <1>3, <1>5
    <3>2. CASE j # n
      <4>1. i \in DOMAIN assignments /\ j \in DOMAIN assignments BY <3>2, <1>5, <1>6
      <4>2. QED BY <4>1, <1>5 DEF SearchInv, LevelsOrdered
    <3>3. QED BY <3>1, <3>2
  <2>3. QED BY <2>1, <2>2, <1>2 DEF LevelsOrdered
<1>9. DecisionsConsistent'
  <2> SUFFICES ASSUME NEW i \in DOMAIN assignments', assignments'[i].ver # NoVersion
               PROVE  LET d == assignments'[i] IN
                      /\ d.term = [pkg |-> d.term.pkg, con |-> Exact[d.ver], pos |-> TRUE]
                      /\ d.term.pkg \in problem.known
                      /\ d.ver \in problem.published[d.term.pkg]
                      /\ \A j \in DOMAIN assignments' :
                           assignments'[j].term.pkg = d.term.pkg => Satisfies(assignments'[j].term, d.ver)
    BY <1>2 DEF DecisionsConsistent, IsDecision, Satisfies
  <2>1. i \in DOMAIN assignments /\ assignments'[i] = assignments[i] BY <1>3, <1>5
  <2>2. IsDecision(assignments[i]) BY <2>1 DEF IsDecision
  <2>3. assignments[i].term.pkg \in Decided BY <2>1, <2>2 DEF Decided, Decisions, ElementsOf
  <2>4. assignments'[n].term.pkg # assignments[i].term.pkg BY <2>3, <1>3, <1>5, <1>7
  <2>5. QED BY <2>1, <2>2, <2>4, <1>5 DEF SearchInv, DecisionsConsistent
<1>10. RootsHeld'
  <2>1. \A q, c : Held(q, c, 0) => Held(q, c, 0)' BY <1>5, HeldMonotone
  <2>2. DevRequires' = DevRequires BY <1>2 DEF DevRequires
  <2>3. RootsHeld BY DEF SearchInv
  <2>4. QED BY <2>1, <2>2, <2>3, <1>2 DEF RootsHeld, Held, IsDecision
<1>11. RequiresHeld'
  <2>1. \A d, q : RequireHeld(d, q) => RequireHeld(d, q)'
    <3> SUFFICES ASSUME NEW d, NEW q, RequireHeld(d, q) PROVE RequireHeld(d, q)'
      OBVIOUS
    <3>1. Pending(d) => Pending(d)' BY <1>2 DEF Pending
    <3>2. QED BY <3>1, <1>2, <1>5, RequireHeldMonotone DEF ElementsOf
  <2> SUFFICES ASSUME NEW i \in DOMAIN assignments', assignments'[i].ver # NoVersion,
                      NEW q \in DOMAIN problem.requires[assignments'[i].term.pkg][assignments'[i].ver]
               PROVE  \E d : d = assignments'[i] /\ RequireHeld(d, q)'
    BY <1>2, RequiresHeldNext
  <2>2. i \in DOMAIN assignments /\ assignments'[i] = assignments[i] BY <1>3, <1>5
  <2>3. RequireHeld(assignments[i], q) BY <2>2 DEF SearchInv, RequiresHeld, IsDecision
  <2>4. PICK d : d = assignments[i] OBVIOUS
  <2>5. RequireHeld(d, q) BY <2>3, <2>4
  <2>6. QED BY <2>1, <2>2, <2>4, <2>5
<1>12. QED BY <1>2, <1>8, <1>9, <1>10, <1>11 DEF SearchInv

\* Deciding a version keeps the search invariant.
LEMMA DecideStep ==
  ASSUME TypeInv, SearchInv, DecideVersion
  PROVE  SearchInv'
<1>1. PICK p \in Undecided : \E v \in Candidates(p) :
        /\ p \in problem.known /\ p \in Package
        /\ v \in problem.published[p] /\ v \in Version
        /\ ics' \in Seq(Incompatibility)
        /\ \A k \in DOMAIN ics : k \in DOMAIN ics' /\ ics'[k] = ics[k]
        /\ \A q \in DOMAIN problem.requires[p][v] : Dependency(p, v, q) \in ElementsOf(ics')
        /\ Decide(p, v)
        /\ cur' = p
  BY DecideVersionStep
<1>2. PICK v \in Candidates(p) :
        /\ p \in problem.known /\ p \in Package
        /\ v \in problem.published[p] /\ v \in Version
        /\ ics' \in Seq(Incompatibility)
        /\ \A k \in DOMAIN ics : k \in DOMAIN ics' /\ ics'[k] = ics[k]
        /\ \A q \in DOMAIN problem.requires[p][v] : Dependency(p, v, q) \in ElementsOf(ics')
        /\ Decide(p, v)
        /\ cur' = p
  BY <1>1
<1> DEFINE t == [pkg |-> p, con |-> Exact[v], pos |-> TRUE]
           a == [term |-> t, ver |-> v, level |-> level + 1, cause |-> 0]
           n == Len(assignments) + 1
<1>3. problem' = problem /\ pc = "decide" /\ pc' = "propagate" /\ level' = level + 1
  BY <1>2 DEF DecideVersion, Seed, Decide
<1>4. Len(assignments) \in Nat /\ DOMAIN assignments = 1 .. Len(assignments) /\ level \in Nat
  BY DEF TypeInv, TypeOK
<1>5. t \in Term BY <1>2, ConstraintAssumption DEF Term
<1>6. a \in Assignment BY <1>2, <1>4, <1>5 DEF Assignment
<1>7. a.ver = v /\ v # NoVersion /\ a.level = level + 1 /\ a.term = t /\ a.term.pkg = p
  BY <1>2, VersionAssumption DEF NoVersion
<1>8. assignments' = Append(assignments, a) BY <1>2 DEF Decide
<1>9. Satisfies(t, v) BY <1>2, ConstraintAssumption DEF Satisfies
<1> HIDE DEF a, t
<1>10. /\ \A i \in DOMAIN assignments : i \in DOMAIN assignments' /\ assignments'[i] = assignments[i]
       /\ \A i \in DOMAIN assignments' : i \in DOMAIN assignments \/ i = n
       /\ assignments'[n] = a
       /\ DOMAIN assignments' = 1 .. n
  BY <1>2, <1>4, <1>6, <1>7, <1>8, AppendType DEF TypeInv
<1>11. p \notin Decided BY DEF Undecided
<1>12. LevelsOrdered'
  <2>1. \A i \in DOMAIN assignments : assignments[i].level <= level /\ assignments[i].level \in Nat
    BY AssignmentType DEF SearchInv, LevelsOrdered, TypeInv
  <2>2. \A i \in DOMAIN assignments' : assignments'[i].level <= level + 1
    BY <2>1, <1>4, <1>7, <1>10
  <2>3. \A i, j \in DOMAIN assignments' : i <= j => assignments'[i].level <= assignments'[j].level
    <3> SUFFICES ASSUME NEW i \in DOMAIN assignments', NEW j \in DOMAIN assignments', i <= j
                 PROVE  assignments'[i].level <= assignments'[j].level
      OBVIOUS
    <3>1. CASE j = n BY <3>1, <2>2, <1>7, <1>10
    <3>2. CASE j # n
      <4>1. i \in DOMAIN assignments /\ j \in DOMAIN assignments BY <3>2, <1>4, <1>10
      <4>2. QED BY <4>1, <1>10 DEF SearchInv, LevelsOrdered
    <3>3. QED BY <3>1, <3>2
  <2>4. QED BY <2>2, <2>3, <1>3 DEF LevelsOrdered
<1>13. DecisionsConsistent'
  <2> SUFFICES ASSUME NEW i \in DOMAIN assignments', assignments'[i].ver # NoVersion
               PROVE  LET d == assignments'[i] IN
                      /\ d.term = [pkg |-> d.term.pkg, con |-> Exact[d.ver], pos |-> TRUE]
                      /\ d.term.pkg \in problem.known
                      /\ d.ver \in problem.published[d.term.pkg]
                      /\ \A j \in DOMAIN assignments' :
                           assignments'[j].term.pkg = d.term.pkg => Satisfies(assignments'[j].term, d.ver)
    BY <1>3 DEF DecisionsConsistent, IsDecision, Satisfies
  <2>1. CASE i \in DOMAIN assignments
    <3>1. assignments'[i] = assignments[i] /\ IsDecision(assignments[i]) BY <2>1, <1>10 DEF IsDecision
    <3>2. assignments[i].term.pkg \in Decided BY <2>1, <3>1 DEF Decided, Decisions, ElementsOf
    <3>3. assignments'[n].term.pkg # assignments[i].term.pkg BY <3>2, <1>7, <1>10, <1>11
    <3>4. QED BY <2>1, <3>1, <3>3, <1>10 DEF SearchInv, DecisionsConsistent
  <2>2. CASE i = n
    <3>1. assignments'[i] = a BY <2>2, <1>10
    <3>2. a.term = [pkg |-> a.term.pkg, con |-> Exact[a.ver], pos |-> TRUE]
      BY <1>7 DEF t
    <3>3. \A j \in DOMAIN assignments' :
            assignments'[j].term.pkg = p => Satisfies(assignments'[j].term, v)
      BY <1>7, <1>9, <1>10 DEF Candidates
    <3>4. QED BY <3>1, <3>2, <3>3, <1>2, <1>7
  <2>3. QED BY <2>1, <2>2, <1>10
<1>14. RootsHeld'
  <2>1. \A q, c : Held(q, c, 0) => Held(q, c, 0)' BY <1>10, HeldMonotone
  <2>2. DevRequires' = DevRequires BY <1>3 DEF DevRequires
  <2>3. RootsHeld BY DEF SearchInv
  <2>4. QED BY <2>1, <2>2, <2>3, <1>3 DEF RootsHeld, Held, IsDecision
<1>15. RequiresHeld'
  <2>1. \A d, q : RequireHeld(d, q) => RequireHeld(d, q)'
    <3> SUFFICES ASSUME NEW d, NEW q, RequireHeld(d, q) PROVE RequireHeld(d, q)'
      OBVIOUS
    <3>1. ~ Pending(d) BY <1>3 DEF Pending
    <3>2. ElementsOf(ics) \subseteq ElementsOf(ics') BY <1>2 DEF ElementsOf
    <3>3. QED BY <3>1, <3>2, <1>3, <1>10, RequireHeldMonotone
  <2> SUFFICES ASSUME NEW i \in DOMAIN assignments', assignments'[i].ver # NoVersion,
                      NEW q \in DOMAIN problem.requires[assignments'[i].term.pkg][assignments'[i].ver]
               PROVE  \E d : d = assignments'[i] /\ RequireHeld(d, q)'
    BY <1>3, RequiresHeldNext
  <2>2. CASE i \in DOMAIN assignments
    <3>1. assignments'[i] = assignments[i] BY <2>2, <1>10
    <3>2. RequireHeld(assignments[i], q) BY <2>2, <3>1 DEF SearchInv, RequiresHeld, IsDecision
    <3>3. PICK d : d = assignments[i] OBVIOUS
    <3>4. RequireHeld(d, q) BY <3>2, <3>3
    <3>5. QED BY <2>1, <3>1, <3>3, <3>4
  <2>3. CASE i = n
    <3>1. PICK d : d = a OBVIOUS
    <3>2. assignments'[i] = d /\ d.term.pkg = p /\ d.ver = v /\ d.level = level + 1
      BY <2>3, <3>1, <1>7, <1>10
    <3>3. Pending(d)' BY <3>2, <1>2, <1>3 DEF Pending
    <3>4. Dependency(p, v, q) \in ElementsOf(ics') BY <3>2, <1>2
    <3>5. Dependency(d.term.pkg, d.ver, q)' \in ElementsOf(ics)'
      BY <3>2, <3>4, <1>3 DEF Dependency, ElementsOf
    <3>6. QED BY <3>2, <3>3, <3>5 DEF RequireHeld
  <2>4. QED BY <2>2, <2>3, <1>10
<1>16. QED BY <1>3, <1>12, <1>13, <1>14, <1>15 DEF SearchInv

\* Backtracking with a learned incompatibility keeps the search invariant.
LEMMA LearnStep ==
  ASSUME TypeInv, SearchInv, Learn
  PROVE  SearchInv'
<1> DEFINE target == BacktrackLevel
<1>1. target \in Nat /\ (target = 0 \/ target < level) /\ level' = target
  BY BacktrackLevelType DEF Learn, Backtrack, TypeInv, SearchInv
<1>2. problem' = problem /\ pc' = "propagate" BY DEF Learn, search, Seed
<1>3. PICK keep \in 0 .. Len(assignments) :
        /\ \A i \in 1 .. keep : assignments[i].level <= target
        /\ keep < Len(assignments) => assignments[keep + 1].level > target
        /\ assignments' \in Seq(Assignment)
        /\ DOMAIN assignments' = 1 .. keep
        /\ 1 .. keep \subseteq DOMAIN assignments
        /\ \A i \in 1 .. keep : assignments'[i] = assignments[i]
  BY BacktrackType DEF Learn, TypeInv
<1> HIDE DEF target
<1>4. Len(assignments) \in Nat /\ DOMAIN assignments = 1 .. Len(assignments)
  BY DEF TypeInv, TypeOK
<1>5. \A i \in DOMAIN assignments : assignments[i].level <= target => i \in 1 .. keep
  <2> SUFFICES ASSUME NEW i \in DOMAIN assignments, assignments[i].level <= target, i > keep
               PROVE  FALSE
    BY <1>4
  <2>1. keep + 1 \in DOMAIN assignments /\ keep + 1 <= i BY <1>4
  <2>2. assignments[keep + 1].level > target BY <2>1, <1>3, <1>4
  <2>3. assignments[keep + 1].level <= assignments[i].level BY <2>1 DEF SearchInv, LevelsOrdered
  <2>4. assignments[keep + 1].level \in Nat /\ assignments[i].level \in Nat
    BY <2>1, AssignmentType DEF TypeInv
  <2>5. QED BY <2>2, <2>3, <2>4, <1>1
<1>6. \A l \in Nat : l <= target =>
        \A i \in DOMAIN assignments : assignments[i].level <= l =>
          i \in DOMAIN assignments' /\ assignments'[i] = assignments[i]
  <2> TAKE l \in Nat
  <2> HAVE l <= target
  <2> TAKE i \in DOMAIN assignments
  <2> HAVE assignments[i].level <= l
  <2>1. assignments[i].level <= target BY AssignmentType, <1>1 DEF TypeInv
  <2>2. QED BY <2>1, <1>3, <1>5
<1>7. LevelsOrdered'
  BY <1>1, <1>3 DEF SearchInv, LevelsOrdered
<1>8. DecisionsConsistent'
  BY <1>2, <1>3 DEF SearchInv, DecisionsConsistent, IsDecision, Satisfies
<1>9. RootsHeld'
  <2>1. \A q, c : Held(q, c, 0) => Held(q, c, 0)' BY <1>1, <1>6, HeldMonotone
  <2>2. DevRequires' = DevRequires BY <1>2 DEF DevRequires
  <2>3. RootsHeld BY DEF SearchInv
  <2>4. QED BY <2>1, <2>2, <2>3, <1>2 DEF RootsHeld, Held, IsDecision
<1>10. RequiresHeld'
  <2> SUFFICES ASSUME NEW i \in DOMAIN assignments', assignments'[i].ver # NoVersion,
                      NEW q \in DOMAIN problem.requires[assignments'[i].term.pkg][assignments'[i].ver]
               PROVE  \E d : d = assignments'[i] /\ RequireHeld(d, q)'
    BY <1>2, RequiresHeldNext
  <2>1. i \in DOMAIN assignments /\ i \in 1 .. keep /\ assignments'[i] = assignments[i] BY <1>3
  <2>2. RequireHeld(assignments[i], q) BY <2>1 DEF SearchInv, RequiresHeld, IsDecision
  <2>3. PICK d : d = assignments[i] OBVIOUS
  <2>4. d.level \in Nat /\ d.level >= 1 /\ d.level <= target
    <3>1. d.level \in Nat /\ d.level >= 1 BY <2>1, <2>3, AssignmentType DEF TypeInv, TypeOK
    <3>2. d.level <= target BY <2>1, <2>3, <1>3
    <3>3. QED BY <3>1, <3>2
  <2>5. ~ Pending(d) BY <2>4, <1>1 DEF Pending, TypeInv, TypeOK
  <2>6. RequireHeld(d, q) BY <2>2, <2>3
  <2>7. ElementsOf(ics) \subseteq ElementsOf(ics')
    <3>1. AddIncompatibility([terms |-> conflict, dep |-> << >>]) BY DEF Learn
    <3>2. [terms |-> conflict, dep |-> << >>] \in Incompatibility
      BY DEF TypeInv, TypeOK, Incompatibility
    <3>3. \A k \in DOMAIN ics : k \in DOMAIN ics' /\ ics'[k] = ics[k]
      BY <3>1, <3>2, AddIncompatibilityType DEF TypeInv
    <3>4. QED BY <3>3 DEF ElementsOf
  <2>8. \A j \in DOMAIN assignments : assignments[j].level <= d.level =>
          j \in DOMAIN assignments' /\ assignments'[j] = assignments[j]
    BY <2>4, <1>6
  <2>9. RequireHeld(d, q)' BY <2>5, <2>6, <2>7, <2>8, <1>2, RequireHeldMonotone
  <2>10. QED BY <2>1, <2>3, <2>9
<1>11. QED BY <1>2, <1>7, <1>8, <1>9, <1>10 DEF SearchInv

\* Every step of the search keeps the search invariant.
LEMMA SearchStep ==
  ASSUME TypeInv, SearchInv, [Next]_vars
  PROVE  SearchInv'
<1>1. CASE PropagateConflict \/ Resolve \/ FailConflict
  BY <1>1, StillStep
     DEF PropagateConflict, Resolve, FailConflict, search, worklist, ElementsOf
<1>2. CASE PropagateDerive BY <1>2, DeriveStep
<1>3. CASE PropagateNext \/ PropagateDone
  BY <1>3, StillStep DEF PropagateNext, PropagateDone, search, worklist, ElementsOf
<1>4. CASE Learn BY <1>4, LearnStep
<1>5. CASE LookupFails
  BY <1>5, StillStep DEF LookupFails, search, worklist, ElementsOf
<1>6. CASE UnknownPackage \/ NoVersions
  <2>1. PICK p \in Undecided :
          /\ AddIncompatibility([terms |-> PositiveDerivations(p), dep |-> << >>])
          /\ Seed(p)
    BY <1>6 DEF UnknownPackage, NoVersions, Probed
  <2>2. ElementsOf(ics) \subseteq ElementsOf(ics')
    BY <2>1 DEF AddIncompatibility, ElementsOf, TypeInv, TypeOK
  <2>3. UNCHANGED <<problem, assignments, level>> /\ pc = "decide" /\ pc' = "propagate"
    BY <1>6, <2>1 DEF UnknownPackage, NoVersions, Seed
  <2>4. QED BY <2>2, <2>3, StillStep
<1>7. CASE DecideVersion BY <1>7, DecideStep
<1>8. CASE AllDone
  BY <1>8, StillStep DEF AllDone, search, worklist, ElementsOf
<1>9. CASE UNCHANGED vars
  BY <1>9, StillStep DEF vars, SearchInv, ElementsOf
<1>10. QED
  BY <1>1, <1>2, <1>3, <1>4, <1>5, <1>6, <1>7, <1>8, <1>9 DEF Next

(***************************************************************************)
(* The search invariant holds throughout Solve: assignments are ordered by *)
(* level, decisions agree with every assignment about their package, and   *)
(* every require of the root or of a decided version stays held at the     *)
(* level of whoever made it.                                               *)
(***************************************************************************)
THEOREM SearchCorrect == Spec => []SearchInv
<1>1. Init => TypeInv /\ SearchInv BY InitType, InitSearch
<1>2. TypeInv /\ SearchInv /\ [Next]_vars => (TypeInv /\ SearchInv)'
  BY TypeStep, SearchStep
<1>3. QED BY <1>1, <1>2, PTL DEF Spec

\* What is held is decided accordingly once nothing is left undecided.
LEMMA HeldIsMet ==
  ASSUME TypeInv, SearchInv, Undecided = {}, NEW q, NEW c, NEW l, Held(q, c, l)
  PROVE  q \in Decided /\ DecisionOf(q) \in Admits[c]
<1>1. PICK j \in DOMAIN assignments :
        /\ assignments[j].term.pkg = q
        /\ \/ assignments[j].term = [pkg |-> q, con |-> c, pos |-> TRUE]
           \/ IsDecision(assignments[j]) /\ assignments[j].ver \in Admits[c]
  BY DEF Held
<1>2. CASE IsDecision(assignments[j]) /\ assignments[j].ver \in Admits[c]
  BY <1>1, <1>2, DecisionOfUnique DEF SearchInv
<1>3. CASE assignments[j].term = [pkg |-> q, con |-> c, pos |-> TRUE]
  <2>1. q \in Decided
    BY <1>1, <1>3 DEF Undecided, Decided, Decisions, ElementsOf
  <2>2. PICK i \in DOMAIN assignments : IsDecision(assignments[i]) /\ assignments[i].term.pkg = q
    BY <2>1 DEF Decided, Decisions, ElementsOf
  <2>3. DecisionOf(q) = assignments[i].ver BY <2>2, DecisionOfUnique DEF SearchInv
  <2>4. Satisfies(assignments[j].term, assignments[i].ver)
    BY <1>1, <2>2 DEF SearchInv, DecisionsConsistent
  <2>5. assignments[i].ver \in Admits[c] BY <1>3, <2>4 DEF Satisfies
  <2>6. QED BY <2>1, <2>3, <2>5
<1>4. QED BY <1>1, <1>2, <1>3

\* At the end of the search the invariant says that the Result is valid.
LEMMA SearchImpliesValid ==
  ASSUME TypeInv, SearchInv
  PROVE  SolvedIsValid
<1> SUFFICES ASSUME pc = "solved" PROVE Valid(Solution)
  BY DEF SolvedIsValid
<1>1. Undecided = {} BY DEF SearchInv
<1>2. DOMAIN Solution = Decided /\ \A q \in Decided : Solution[q] = DecisionOf(q)
  BY DEF Solution
<1>3. MeetsRequires(Solution, problem.require) /\ MeetsRequires(Solution, DevRequires)
  BY <1>1, <1>2, HeldIsMet DEF MeetsRequires, SearchInv, RootsHeld
<1>4. ASSUME NEW p \in Decided
      PROVE  /\ p \in problem.known
             /\ DecisionOf(p) \in problem.published[p]
             /\ MeetsRequires(Solution, problem.requires[p][DecisionOf(p)])
  <2>1. PICK i \in DOMAIN assignments : IsDecision(assignments[i]) /\ assignments[i].term.pkg = p
    BY DEF Decided, Decisions, ElementsOf
  <2>2. DecisionOf(p) = assignments[i].ver BY <2>1, DecisionOfUnique DEF SearchInv
  <2>3. p \in problem.known /\ DecisionOf(p) \in problem.published[p]
    BY <2>1, <2>2 DEF SearchInv, DecisionsConsistent
  <2>4. \A q \in DOMAIN problem.requires[p][DecisionOf(p)] :
          Held(q, problem.requires[p][DecisionOf(p)][q], assignments[i].level)
    BY <2>1, <2>2 DEF SearchInv, RequiresHeld, RequireHeld, Pending
  <2>5. MeetsRequires(Solution, problem.requires[p][DecisionOf(p)])
    BY <1>1, <1>2, <2>4, HeldIsMet DEF MeetsRequires
  <2>6. QED BY <2>3, <2>5
<1>5. QED BY <1>2, <1>3, <1>4 DEF Valid

(***************************************************************************)
(* The answer of Solve is right: whenever it returns a Result, the decided *)
(* versions are published, and every require of the manifest and of every  *)
(* decided version is decided at a version it admits.                      *)
(***************************************************************************)
THEOREM ResultIsValid == Spec => []SolvedIsValid
<1>1. TypeInv /\ SearchInv => SolvedIsValid BY SearchImpliesValid
<1>2. QED BY <1>1, TypeCorrect, SearchCorrect, PTL

(***************************************************************************)
(* Why nothing unasked is installed.  A learned incompatibility can ask    *)
(* for a package; whatever else is derived positively is required by the   *)
(* manifest, or by a version some assignment made before it has fixed.     *)
(***************************************************************************)
RootsAsked == DOMAIN problem.require \cup DOMAIN DevRequires

FromConflict(ic) == ic.dep = << >> /\ ~ FromManifest(ic)

\* Assignment d fixes its package at a version that requires q.
Asks(d, q) ==
  \E v \in Version :
    /\ d.term.pkg \in Package
    /\ d.term = [pkg |-> d.term.pkg, con |-> Exact[v], pos |-> TRUE]
    /\ q \in DOMAIN problem.requires[d.term.pkg][v]

AskedAt(i) ==
  \/ assignments[i].term.pkg \in RootsAsked
  \/ FromConflict(ics[assignments[i].cause])
  \/ \E j \in 1 .. i - 1 : Asks(assignments[j], assignments[i].term.pkg)

DerivedBefore(i) ==
  \E j \in 1 .. i - 1 : /\ ~ IsDecision(assignments[j])
                        /\ assignments[j].term.pos
                        /\ assignments[j].term.pkg = assignments[i].term.pkg

\* Only the requires of a version carry a Dep.
DependenciesKnown ==
  \A k \in DOMAIN ics :
    ics[k].dep = << >> \/ \E p \in Package, v \in Version :
                           \E q \in DOMAIN problem.requires[p][v] : ics[k] = Dependency(p, v, q)

AskInv ==
  /\ DependenciesKnown
  /\ \A i \in DOMAIN assignments : ~ IsDecision(assignments[i]) /\ assignments[i].term.pos => AskedAt(i)
  /\ \A i \in DOMAIN assignments : IsDecision(assignments[i]) => DerivedBefore(i)

\* These speak of the problem, which never changes, and of their parameters.
LEMMA AskIsRigid ==
  ASSUME problem' = problem
  PROVE  /\ RootsAsked' = RootsAsked
         /\ \A ic : FromConflict(ic)' <=> FromConflict(ic)
         /\ \A d, q : Asks(d, q)' <=> Asks(d, q)
         /\ \A p, v, q : Dependency(p, v, q)' = Dependency(p, v, q)
<1>1. DevRequires' = DevRequires BY DEF DevRequires
<1>2. RootsAsked' = RootsAsked BY <1>1 DEF RootsAsked
<1>3. \A ic : FromConflict(ic)' <=> FromConflict(ic)
  BY <1>1 DEF FromConflict, FromManifest, RootIncompatibility
<1>4. \A d, q : Asks(d, q)' <=> Asks(d, q) BY DEF Asks
<1>5. \A p, v, q : Dependency(p, v, q)' = Dependency(p, v, q) BY DEF Dependency
<1>6. QED BY <1>2, <1>3, <1>4, <1>5

\* Dependencies stay known while what is added is learned or a require.
LEMMA DependenciesNext ==
  ASSUME TypeInv, DependenciesKnown, problem' = problem,
         \A k \in DOMAIN ics : ics'[k] = ics[k],
         \A k \in DOMAIN ics' :
           \/ k \in DOMAIN ics
           \/ ics'[k].dep = << >>
           \/ \E p \in Package, v \in Version :
                \E q \in DOMAIN problem.requires[p][v] : ics'[k] = Dependency(p, v, q)
  PROVE  DependenciesKnown'
<1> SUFFICES ASSUME NEW k \in DOMAIN ics', ics'[k].dep # << >>
             PROVE  \E p \in Package, v \in Version :
                      \E q \in DOMAIN problem.requires[p][v] : ics'[k] = Dependency(p, v, q)
  BY DEF DependenciesKnown, Dependency
<1>1. CASE k \in DOMAIN ics BY <1>1 DEF DependenciesKnown
<1>2. QED BY <1>1

\* What is asked stays asked while assignments are kept from the first on, and
\* a new one is asked for.
LEMMA AskNext ==
  ASSUME TypeInv, TypeInv', AskInv, DependenciesKnown', problem' = problem,
         \A k \in DOMAIN ics : ics'[k] = ics[k],
         \A i \in DOMAIN assignments' : i \in DOMAIN assignments => assignments'[i] = assignments[i],
         \A i \in DOMAIN assignments' : i \notin DOMAIN assignments =>
           /\ ~ IsDecision(assignments'[i]) /\ assignments'[i].term.pos => AskedAt(i)'
           /\ IsDecision(assignments'[i]) => DerivedBefore(i)'
  PROVE  AskInv'
<1>1. \A i \in DOMAIN assignments : \A j \in 1 .. i - 1 : j \in DOMAIN assignments
  BY DEF TypeInv, TypeOK
<1>2. \A i \in DOMAIN assignments' : \A j \in 1 .. i - 1 : j \in DOMAIN assignments'
  BY DEF TypeInv, TypeOK
<1>3. ASSUME NEW i \in DOMAIN assignments', i \in DOMAIN assignments,
             ~ IsDecision(assignments'[i]), assignments'[i].term.pos
      PROVE  AskedAt(i)'
  <2>1. assignments'[i] = assignments[i] BY <1>3
  <2>2. AskedAt(i) BY <1>3, <2>1 DEF AskInv
  <2>3. CASE assignments[i].term.pkg \in RootsAsked
    BY <2>1, <2>3, AskIsRigid DEF AskedAt
  <2>4. CASE FromConflict(ics[assignments[i].cause])
    <3>1. assignments[i].cause \in DOMAIN ics BY <1>3, <2>1 DEF TypeInv, TypeOK, IsDecision
    <3>2. ics'[assignments'[i].cause] = ics[assignments[i].cause] BY <2>1, <3>1
    <3>3. PICK ic : ic = ics[assignments[i].cause] OBVIOUS
    <3>4. FromConflict(ic)' BY <2>4, <3>3, AskIsRigid
    <3>5. FromConflict(ics[assignments[i].cause])'
      BY <3>2, <3>3, <3>4 DEF FromConflict, FromManifest, RootIncompatibility
    <3>6. QED BY <3>5 DEF AskedAt
  <2>5. CASE \E j \in 1 .. i - 1 : Asks(assignments[j], assignments[i].term.pkg)
    <3>1. PICK j \in 1 .. i - 1 : Asks(assignments[j], assignments[i].term.pkg) BY <2>5
    <3>2. assignments'[j] = assignments[j] BY <1>1, <1>2, <1>3
    <3>3. Asks(assignments[j], assignments[i].term.pkg)' BY <2>1, <3>1, <3>2 DEF Asks
    <3>4. QED BY <3>3 DEF AskedAt
  <2>6. QED BY <2>2, <2>3, <2>4, <2>5 DEF AskedAt
<1>4. ASSUME NEW i \in DOMAIN assignments', i \in DOMAIN assignments, IsDecision(assignments'[i])
      PROVE  DerivedBefore(i)'
  <2>1. assignments'[i] = assignments[i] BY <1>4
  <2>2. DerivedBefore(i) BY <1>4, <2>1 DEF AskInv
  <2>3. PICK j \in 1 .. i - 1 : /\ ~ IsDecision(assignments[j])
                                /\ assignments[j].term.pos
                                /\ assignments[j].term.pkg = assignments[i].term.pkg
    BY <2>2 DEF DerivedBefore
  <2>4. assignments'[j] = assignments[j] BY <1>1, <1>2, <1>4
  <2>5. QED BY <2>1, <2>3, <2>4 DEF DerivedBefore, IsDecision
<1>5. QED BY <1>3, <1>4 DEF AskInv, IsDecision

LEMMA InitAsk == Init => AskInv
<1> SUFFICES ASSUME Init PROVE AskInv
  OBVIOUS
<1> DEFINE r1 == RootIncompatibilities(problem.require)
           r2 == RootIncompatibilities(DevRequires)
<1>1. problem \in Problem /\ ics = r1 \o r2
  BY DEF Init
<1>2. r1 \in Seq(Incompatibility) /\ r2 \in Seq(Incompatibility)
  BY <1>1, ProblemType, RootIncompatibilitiesType
<1>3. \A k \in DOMAIN r1 : \E q \in RootsAsked : \E c : r1[k] = RootIncompatibility(q, c)
  BY <1>1, ProblemType, RootIncompatibilitiesType DEF RootsAsked
<1>4. \A k \in DOMAIN r2 : \E q \in RootsAsked : \E c : r2[k] = RootIncompatibility(q, c)
  BY <1>1, ProblemType, RootIncompatibilitiesType DEF RootsAsked
<1> HIDE DEF r1, r2
<1>5. \A k \in DOMAIN ics : \E q \in RootsAsked : \E c : ics[k] = RootIncompatibility(q, c)
  <2> TAKE k \in DOMAIN ics
  <2>1. \/ k \in DOMAIN r1 /\ ics[k] = r1[k]
        \/ k - Len(r1) \in DOMAIN r2 /\ ics[k] = r2[k - Len(r1)]
    BY <1>1, <1>2
  <2>2. QED BY <2>1, <1>3, <1>4
<1>6. DependenciesKnown BY <1>5 DEF DependenciesKnown, RootIncompatibility
<1>7. /\ DOMAIN assignments = DOMAIN ics
      /\ \A i \in DOMAIN assignments : /\ ~ IsDecision(assignments[i])
                                       /\ assignments[i].term = Inverted(ics[i].terms[2])
  <2>1. assignments = [i \in 1 .. Len(ics) |-> [term |-> Inverted(ics[i].terms[2]), ver |-> NoVersion,
                                                level |-> 0, cause |-> i]]
    BY DEF Init
  <2>2. DOMAIN ics = 1 .. Len(ics) BY <1>1, <1>2
  <2>3. QED BY <2>1, <2>2 DEF IsDecision
<1>8. \A i \in DOMAIN assignments : AskedAt(i)
  <2> TAKE i \in DOMAIN assignments
  <2>1. PICK q, c : q \in RootsAsked /\ ics[i] = RootIncompatibility(q, c) BY <1>5, <1>7
  <2>2. ics[i].terms[2].pkg = q BY <2>1 DEF RootIncompatibility
  <2>3. Inverted(ics[i].terms[2]).pkg = ics[i].terms[2].pkg BY DEF Inverted
  <2>4. assignments[i].term.pkg = q BY <1>7, <2>2, <2>3
  <2>5. QED BY <2>1, <2>4 DEF AskedAt
<1>9. QED BY <1>6, <1>7, <1>8 DEF AskInv

\* A package derived positively is asked for: the incompatibility propagation
\* stopped at has a negative term, so it is a require of the manifest, the
\* require of a version fixed before, or one learned from a conflict.
LEMMA DerivedIsAsked ==
  ASSUME TypeInv, SearchInv, AskInv, NEW k \in DOMAIN ics,
         NEW x \in DOMAIN ics[k].terms, AlmostSatisfied(ics[k], x), ics[k].terms[x].pos = FALSE
  PROVE  \/ ics[k].terms[x].pkg \in RootsAsked
         \/ FromConflict(ics[k])
         \/ \E j \in DOMAIN assignments : Asks(assignments[j], ics[k].terms[x].pkg)
<1>1. CASE FromManifest(ics[k])
  <2>1. PICK q, c : q \in RootsAsked /\ ics[k] = RootIncompatibility(q, c)
    BY <1>1 DEF FromManifest, RootsAsked
  <2>2. DOMAIN ics[k].terms = {1, 2} /\ ics[k].terms[1].pos = TRUE /\ ics[k].terms[2].pkg = q
    BY <2>1 DEF RootIncompatibility
  <2>3. QED BY <2>1, <2>2
<1>2. CASE ics[k].dep # << >>
  <2>1. PICK p \in Package, v \in Version : \E q \in DOMAIN problem.requires[p][v] : ics[k] = Dependency(p, v, q)
    BY <1>2 DEF AskInv, DependenciesKnown
  <2>2. PICK q \in DOMAIN problem.requires[p][v] : ics[k] = Dependency(p, v, q)
    BY <2>1
  <2> DEFINE t == [pkg |-> p, con |-> Exact[v], pos |-> TRUE]
  <2>3. DOMAIN ics[k].terms = {1, 2} /\ ics[k].terms[1] = t /\ ics[k].terms[2].pkg = q
    BY <2>2 DEF Dependency
  <2>4. x = 2 /\ RelationOf(t) = "subset" BY <2>3 DEF AlmostSatisfied
  <2>5. PICK j \in DOMAIN assignments : assignments[j].term = t
    <3>1. CASE p \in Decided
      <4>1. PICK j \in DOMAIN assignments : IsDecision(assignments[j]) /\ assignments[j].term.pkg = p
        BY <3>1 DEF Decided, Decisions, ElementsOf
      <4>2. DecisionOf(p) = assignments[j].ver /\ assignments[j].ver \in Version
        BY <4>1, DecisionOfUnique DEF SearchInv
      <4>3. Satisfies(t, DecisionOf(p)) BY <2>4, <3>1 DEF RelationOf
      <4>4. DecisionOf(p) \in Admits[Exact[v]] BY <4>3 DEF Satisfies
      <4>5. assignments[j].ver = v BY <4>2, <4>4, ConstraintAssumption
      <4>6. assignments[j].term = t BY <4>1, <4>5 DEF SearchInv, DecisionsConsistent
      <4>7. QED BY <4>6
    <3>2. CASE p \notin Decided
      <4>1. SameString(t) # {} /\ assignments[Least(SameString(t))].term.pos = TRUE
        BY <2>4, <3>2 DEF RelationOf
      <4>2. Least(SameString(t)) \in SameString(t)
        <5>1. SameString(t) \subseteq Nat BY DEF SameString, TypeInv, TypeOK
        <5>2. QED BY <4>1, <5>1, LeastExists
      <4>3. PICK j \in DOMAIN assignments : /\ assignments[j].term.pkg = p
                                            /\ assignments[j].term.con = Exact[v]
                                            /\ assignments[j].term.pos = TRUE
        BY <4>1, <4>2 DEF SameString
      <4>4. assignments[j].term \in Term BY AssignmentType DEF TypeInv
      <4>5. assignments[j].term = t BY <4>3, <4>4 DEF Term
      <4>6. QED BY <4>5
    <3>3. QED BY <3>1, <3>2
  <2>6. assignments[j].term.pkg = p BY <2>5
  <2>7. Asks(assignments[j], q) BY <2>2, <2>5, <2>6 DEF Asks
  <2>8. QED BY <2>3, <2>4, <2>7
<1>3. QED BY <1>1, <1>2 DEF FromConflict

\* Deriving a term keeps AskInv.
LEMMA DeriveAsk ==
  ASSUME TypeInv, TypeInv', SearchInv, AskInv, problem' = problem, PropagateDerive
  PROVE  AskInv'
<1> DEFINE k == Least(Stops)
<1>0. PICK n : n = Len(assignments) + 1 OBVIOUS
<1>1. Stops # {} /\ ics' = ics BY DEF PropagateDerive
<1>2. k \in DOMAIN ics /\ ics[k] \in Incompatibility BY <1>1, StopsType DEF TypeInv
<1>3. PICK x \in DOMAIN ics[k].terms : AlmostSatisfied(ics[k], x) /\ Derive(Inverted(ics[k].terms[x]), k)
  BY DEF PropagateDerive
<1> HIDE DEF k
<1> DEFINE t == ics[k].terms[x]
           a == [term |-> Inverted(t), ver |-> NoVersion, level |-> level, cause |-> k]
<1>4. t \in Term BY <1>2 DEF Incompatibility
<1>5. a \in Assignment
  <2>1. k \in Nat /\ level \in Nat BY <1>2 DEF TypeInv, TypeOK
  <2>2. Inverted(t) \in Term BY <1>4, InvertedType
  <2> HIDE DEF t
  <2>3. QED BY <2>1, <2>2 DEF Assignment
<1>6. assignments' = Append(assignments, a) BY <1>3 DEF Derive
<1>7. a.ver = NoVersion /\ a.cause = k /\ a.term = Inverted(t) OBVIOUS
<1>8. a.term.pkg = t.pkg /\ (a.term.pos => t.pos = FALSE)
  <2>1. t.pos \in BOOLEAN BY <1>4 DEF Term
  <2>2. Inverted(t).pkg = t.pkg /\ Inverted(t).pos = ~ t.pos BY DEF Inverted
  <2> HIDE DEF t
  <2>3. QED BY <2>1, <2>2, <1>7
<1> HIDE DEF a, t
<1>9. /\ \A i \in DOMAIN assignments : i \in DOMAIN assignments' /\ assignments'[i] = assignments[i]
      /\ \A i \in DOMAIN assignments' : i \in DOMAIN assignments \/ i = n
      /\ assignments'[n] = a
  BY <1>0, <1>1, <1>2, <1>5, <1>6, <1>7, AppendType DEF TypeInv
<1>10. DependenciesKnown'
  BY <1>1, DependenciesNext DEF AskInv
<1>11. ASSUME a.term.pos PROVE AskedAt(n)'
  <2>1. t.pos = FALSE BY <1>8, <1>11
  <2>2. \/ t.pkg \in RootsAsked
        \/ FromConflict(ics[k])
        \/ \E j \in DOMAIN assignments : Asks(assignments[j], t.pkg)
    BY <2>1, <1>2, <1>3, DerivedIsAsked DEF t
  <2>3. CASE t.pkg \in RootsAsked
    BY <2>3, <1>8, <1>9, AskIsRigid DEF AskedAt
  <2>4. CASE FromConflict(ics[k])
    <3>1. ics'[assignments'[n].cause] = ics[k] BY <1>1, <1>7, <1>9
    <3>2. PICK ic : ic = ics[k] OBVIOUS
    <3>3. FromConflict(ic)' BY <2>4, <3>2, AskIsRigid
    <3>4. FromConflict(ics[assignments[n].cause])'
      BY <3>1, <3>2, <3>3 DEF FromConflict, FromManifest, RootIncompatibility
    <3>5. QED BY <3>4 DEF AskedAt
  <2>5. CASE \E j \in DOMAIN assignments : Asks(assignments[j], t.pkg)
    <3>1. PICK j \in DOMAIN assignments : Asks(assignments[j], t.pkg) BY <2>5
    <3>2. j \in 1 .. n - 1 BY <1>0 DEF TypeInv, TypeOK
    <3>3. Asks(assignments[j], assignments[n].term.pkg)' BY <3>1, <1>8, <1>9 DEF Asks
    <3>4. QED BY <3>2, <3>3 DEF AskedAt
  <2>6. QED BY <2>2, <2>3, <2>4, <2>5
<1>12. ~ IsDecision(assignments'[n]) BY <1>7, <1>9 DEF IsDecision
<1>13. \A i \in DOMAIN assignments' : i \notin DOMAIN assignments => i = n BY <1>9
<1>14. \A i \in DOMAIN assignments' : i \notin DOMAIN assignments =>
         /\ ~ IsDecision(assignments'[i]) /\ assignments'[i].term.pos => AskedAt(i)'
         /\ IsDecision(assignments'[i]) => DerivedBefore(i)'
  <2> SUFFICES ASSUME NEW i \in DOMAIN assignments', i \notin DOMAIN assignments
               PROVE  /\ assignments'[i].term.pos => AskedAt(i)'
                      /\ ~ IsDecision(assignments'[i])
    OBVIOUS
  <2>1. i = n BY <1>13
  <2>2. QED BY <2>1, <1>9, <1>11, <1>12 DEF AskedAt
<1>15. QED BY <1>1, <1>9, <1>10, <1>14, AskNext

\* Deciding a version keeps AskInv: only what is derived is ever decided.
LEMMA DecideAsk ==
  ASSUME TypeInv, TypeInv', AskInv, problem' = problem, DecideVersion
  PROVE  AskInv'
<1>1. PICK p \in Undecided : \E v \in Candidates(p) :
        /\ p \in Package /\ v \in Version
        /\ \A k \in DOMAIN ics : k \in DOMAIN ics' /\ ics'[k] = ics[k]
        /\ \A k \in DOMAIN ics' :
             k \in DOMAIN ics \/ \E q \in DOMAIN problem.requires[p][v] : ics'[k] = Dependency(p, v, q)
        /\ Decide(p, v)
  BY DecideVersionStep
<1>2. PICK v \in Version :
        /\ p \in Package
        /\ \A k \in DOMAIN ics : k \in DOMAIN ics' /\ ics'[k] = ics[k]
        /\ \A k \in DOMAIN ics' :
             k \in DOMAIN ics \/ \E q \in DOMAIN problem.requires[p][v] : ics'[k] = Dependency(p, v, q)
        /\ Decide(p, v)
  BY <1>1
<1> DEFINE t == [pkg |-> p, con |-> Exact[v], pos |-> TRUE]
           a == [term |-> t, ver |-> v, level |-> level + 1, cause |-> 0]
<1>0. PICK n : n = Len(assignments) + 1 OBVIOUS
<1>3. t \in Term BY <1>2, ConstraintAssumption DEF Term
<1>4. a \in Assignment /\ a.level >= 1
  <2>1. level + 1 \in Nat /\ level + 1 >= 1 BY DEF TypeInv, TypeOK
  <2> HIDE DEF t
  <2>2. QED BY <2>1, <1>2, <1>3 DEF Assignment
<1>5. a.ver = v /\ v # NoVersion /\ a.term.pkg = p
  BY <1>2, VersionAssumption DEF NoVersion
<1>6. assignments' = Append(assignments, a) BY <1>2 DEF Decide
<1> HIDE DEF a, t
<1>7. /\ \A i \in DOMAIN assignments : i \in DOMAIN assignments' /\ assignments'[i] = assignments[i]
      /\ \A i \in DOMAIN assignments' : i \in DOMAIN assignments \/ i = n
      /\ assignments'[n] = a
  BY <1>0, <1>2, <1>4, <1>5, <1>6, AppendType DEF TypeInv
<1>8. DependenciesKnown'
  BY <1>2, DependenciesNext DEF AskInv
<1>9. PICK j \in DOMAIN assignments :
        ~ IsDecision(assignments[j]) /\ assignments[j].term.pos /\ assignments[j].term.pkg = p
  BY DEF Undecided, ElementsOf
<1>10. j \in 1 .. n - 1 BY <1>0 DEF TypeInv, TypeOK
<1>11. DerivedBefore(n)' BY <1>5, <1>7, <1>9, <1>10 DEF DerivedBefore, IsDecision
<1>12. IsDecision(assignments'[n]) BY <1>5, <1>7 DEF IsDecision
<1>13. \A i \in DOMAIN assignments' : i \notin DOMAIN assignments => i = n BY <1>7
<1>14. \A i \in DOMAIN assignments' : i \notin DOMAIN assignments =>
         /\ ~ IsDecision(assignments'[i]) /\ assignments'[i].term.pos => AskedAt(i)'
         /\ IsDecision(assignments'[i]) => DerivedBefore(i)'
  <2> SUFFICES ASSUME NEW i \in DOMAIN assignments', i \notin DOMAIN assignments
               PROVE  IsDecision(assignments'[i]) /\ DerivedBefore(i)'
    OBVIOUS
  <2>1. i = n BY <1>13
  <2>2. QED BY <2>1, <1>11, <1>12 DEF DerivedBefore
<1>15. QED BY <1>2, <1>7, <1>8, <1>14, AskNext

\* Every step of the search keeps AskInv.
LEMMA AskStep ==
  ASSUME TypeInv, SearchInv, AskInv, [Next]_vars
  PROVE  AskInv'
<1>0. TypeInv' BY TypeStep
<1>1. problem' = problem
  BY DEF Next, vars, search, PropagateConflict, PropagateDerive, PropagateNext, PropagateDone,
         Resolve, Learn, FailConflict, LookupFails, UnknownPackage, NoVersions, DecideVersion, AllDone
<1>2. CASE PropagateDerive BY <1>0, <1>1, <1>2, DeriveAsk
<1>3. CASE DecideVersion BY <1>0, <1>1, <1>3, DecideAsk
<1>4. ASSUME NEW ic \in Incompatibility, ic.dep = << >>, AddIncompatibility(ic),
             \A i \in DOMAIN assignments' : i \in DOMAIN assignments /\ assignments'[i] = assignments[i]
      PROVE  AskInv'
  <2>1. \A k \in DOMAIN ics : ics'[k] = ics[k]
    BY <1>4, AddIncompatibilityType DEF TypeInv
  <2>2. \A k \in DOMAIN ics' : k \in DOMAIN ics \/ ics'[k] = ic
    BY <1>4 DEF AddIncompatibility, TypeInv, TypeOK
  <2>3. DependenciesKnown' BY <2>1, <2>2, <1>1, <1>4, DependenciesNext DEF AskInv
  <2>4. QED BY <2>1, <2>3, <1>0, <1>1, <1>4, AskNext
<1>5. CASE Learn
  <2>1. [terms |-> conflict, dep |-> << >>] \in Incompatibility
    BY DEF TypeInv, TypeOK, Incompatibility
  <2>2. \A i \in DOMAIN assignments' : i \in DOMAIN assignments /\ assignments'[i] = assignments[i]
    BY <1>5, BacktrackType DEF Learn, TypeInv
  <2>3. QED BY <2>1, <2>2, <1>4, <1>5 DEF Learn
<1>6. CASE UnknownPackage \/ NoVersions
  <2>1. PICK p \in Undecided : AddIncompatibility([terms |-> PositiveDerivations(p), dep |-> << >>])
    BY <1>6 DEF UnknownPackage, NoVersions, Probed
  <2>2. [terms |-> PositiveDerivations(p), dep |-> << >>] \in Incompatibility
    BY PositiveDerivationsType DEF Incompatibility, TypeInv
  <2>3. assignments' = assignments BY <1>6 DEF UnknownPackage, NoVersions
  <2>4. QED BY <2>1, <2>2, <2>3, <1>4
<1>7. CASE PropagateConflict \/ PropagateNext \/ PropagateDone \/ Resolve \/ FailConflict
           \/ LookupFails \/ AllDone \/ UNCHANGED vars
  <2>1. UNCHANGED <<ics, assignments>>
    BY <1>7 DEF PropagateConflict, PropagateNext, PropagateDone, Resolve, FailConflict, LookupFails,
                AllDone, vars
  <2>2. DependenciesKnown' BY <2>1, <1>1, DependenciesNext DEF AskInv
  <2>3. QED BY <2>1, <2>2, <1>0, <1>1, AskNext
<1>8. QED BY <1>2, <1>3, <1>5, <1>6, <1>7 DEF Next

\* From the positions of the assignments to the graph of the requires: the
\* first positive assignment about a package outside a set that contains what
\* is asked for and is closed under requires would have no asker.
LEMMA AskedImpliesReachable ==
  ASSUME TypeInv, SearchInv, AskInv
  PROVE  NothingUnasked
<1> SUFFICES ASSUME pc = "solved",
                    NEW p \in Decided, NEW S \in SUBSET Package,
                    RootsAsked \cup AskedByConflicts \subseteq S,
                    \A e \in SolutionEdges : e[1] \in S => e[2] \in S
             PROVE  p \in S
  <2>1. Decided \subseteq Package
    BY DecisionOfUnique DEF SearchInv, Decided, Decisions, ElementsOf
  <2>2. QED BY <2>1 DEF NothingUnasked, Reachable, RootsAsked
<1> DEFINE Outside == {i \in DOMAIN assignments : /\ assignments[i].term.pos
                                                  /\ assignments[i].term.pkg \in Package \ S}
<1>1. Undecided = {} BY DEF SearchInv
<1>2. Outside = {}
  <2> SUFFICES ASSUME Outside # {} PROVE FALSE
    OBVIOUS
  <2>1. Outside \subseteq Nat BY DEF TypeInv, TypeOK
  <2>2. PICK i \in Outside : \A j \in Outside : i <= j
    <3> HIDE DEF Outside
    <3>1. QED BY <2>1, LeastExists
  <2> DEFINE q == assignments[i].term.pkg
  <2>3. i \in DOMAIN assignments /\ i \in Nat /\ assignments[i].term.pos /\ q \in Package /\ q \notin S
    BY <2>1, <2>2
  <2>4. \A j \in 1 .. i - 1 : j \in DOMAIN assignments /\ j \notin Outside
    <3> TAKE j \in 1 .. i - 1
    <3>1. j \in DOMAIN assignments /\ j < i BY <2>3 DEF TypeInv, TypeOK
    <3> HIDE DEF Outside
    <3>2. QED BY <2>1, <2>2, <2>3, <3>1
  <2>5. CASE IsDecision(assignments[i])
    <3>1. DerivedBefore(i) BY <2>3, <2>5 DEF AskInv
    <3>2. PICK j \in 1 .. i - 1 : assignments[j].term.pos /\ assignments[j].term.pkg = q
      BY <3>1 DEF DerivedBefore
    <3>3. QED BY <3>2, <2>3, <2>4
  <2>6. CASE ~ IsDecision(assignments[i])
    <3>1. AskedAt(i) BY <2>3, <2>6 DEF AskInv
    <3>2. q \notin RootsAsked BY <2>3
    <3>3. ~ FromConflict(ics[assignments[i].cause])
      <4> SUFFICES ASSUME FromConflict(ics[assignments[i].cause]) PROVE q \in AskedByConflicts
        BY <2>3
      <4>1. assignments[i] \in ElementsOf(assignments) BY <2>3 DEF ElementsOf
      <4>2. QED BY <4>1, <2>3, <2>6 DEF AskedByConflicts, FromConflict
    <3>4. PICK j \in 1 .. i - 1 : Asks(assignments[j], q) BY <3>1, <3>2, <3>3 DEF AskedAt
    <3> DEFINE r == assignments[j].term.pkg
    <3>5. PICK v \in Version : /\ r \in Package
                               /\ assignments[j].term = [pkg |-> r, con |-> Exact[v], pos |-> TRUE]
                               /\ q \in DOMAIN problem.requires[r][v]
      BY <3>4 DEF Asks
    <3>6. assignments[j].term.pos = TRUE /\ assignments[j].term.con = Exact[v]
      <4>1. assignments[j].term = [pkg |-> r, con |-> Exact[v], pos |-> TRUE] BY <3>5
      <4> HIDE DEF r
      <4>2. QED BY <4>1
    <3>7. r \in S BY <3>5, <3>6, <2>4
    <3>8. r \in Decided
      <4>1. j \in DOMAIN assignments BY <2>4
      <4>2. QED BY <4>1, <3>6, <1>1 DEF Undecided, Decided, Decisions, ElementsOf
    <3>9. PICK d \in DOMAIN assignments : IsDecision(assignments[d]) /\ assignments[d].term.pkg = r
      BY <3>8 DEF Decided, Decisions, ElementsOf
    <3>10. DecisionOf(r) = assignments[d].ver BY <3>9, DecisionOfUnique DEF SearchInv
    <3>11. Satisfies(assignments[j].term, assignments[d].ver)
      BY <2>4, <3>9 DEF SearchInv, DecisionsConsistent
    <3>12. assignments[d].ver \in Admits[Exact[v]] BY <3>6, <3>11 DEF Satisfies
    <3>13. DecisionOf(r) = v BY <3>10, <3>12, ConstraintAssumption
    <3>14. <<r, q>> \in SolutionEdges BY <3>5, <3>8, <3>13, <2>3 DEF SolutionEdges
    <3>15. QED BY <3>7, <3>14, <2>3
  <2>7. QED BY <2>5, <2>6
<1>3. PICK d \in DOMAIN assignments : IsDecision(assignments[d]) /\ assignments[d].term.pkg = p
  BY DEF Decided, Decisions, ElementsOf
<1>4. p \in Package BY <1>3, DecisionOfUnique DEF SearchInv
<1>5. assignments[d].term.pos
  <2>1. assignments[d].term = [pkg |-> assignments[d].term.pkg, con |-> Exact[assignments[d].ver], pos |-> TRUE]
    BY <1>3 DEF SearchInv, DecisionsConsistent
  <2>2. QED BY ONLY <2>1
<1>6. QED BY <1>2, <1>3, <1>4, <1>5

(***************************************************************************)
(* Solve installs nothing unasked: a decided package is reached, through   *)
(* the requires of the decided versions, from the manifest or from a       *)
(* package that an incompatibility learned from a conflict asks for.       *)
(***************************************************************************)
THEOREM NothingIsUnasked == Spec => []NothingUnasked
<1>1. Init => TypeInv /\ SearchInv /\ AskInv BY InitType, InitSearch, InitAsk
<1>2. TypeInv /\ SearchInv /\ AskInv /\ [Next]_vars => (TypeInv /\ SearchInv /\ AskInv)'
  BY TypeStep, SearchStep, AskStep
<1>3. TypeInv /\ SearchInv /\ AskInv => NothingUnasked BY AskedImpliesReachable
<1>4. QED BY <1>1, <1>2, <1>3, PTL DEF Spec

(***************************************************************************)
(* Why a conflict without choices is genuine.  Take any valid choice of    *)
(* versions.  While no package publishes two, the search can only say what *)
(* is true of that choice, so no incompatibility is ever satisfied.        *)
(***************************************************************************)
NoChoice == \A p \in Package : Cardinality(problem.published[p]) <= 1

\* Term t, about a package, is true of the choice sel.
TrueOf(t, sel) == (t.pkg \in DOMAIN sel /\ sel[t.pkg] \in Admits[t.con]) <=> t.pos

IsRequire(ic) ==
  \/ FromManifest(ic)
  \/ \E p \in Package, v \in Version : \E q \in DOMAIN problem.requires[p][v] : ic = Dependency(p, v, q)

Unharmed(sel) ==
  /\ pc \notin {"resolve", "conflict"}
  /\ \A k \in DOMAIN ics : IsRequire(ics[k])
  /\ \A i \in DOMAIN assignments : assignments[i].term.pkg \in Package /\ TrueOf(assignments[i].term, sel)

GenuineInv ==
  NoChoice => \A D \in SUBSET Package : \A sel \in [D -> Version] : Valid(sel) => Unharmed(sel)

LEMMA GenuineIsRigid ==
  ASSUME problem' = problem
  PROVE  /\ NoChoice' <=> NoChoice
         /\ \A sel : Valid(sel)' <=> Valid(sel)
         /\ \A ic : IsRequire(ic)' <=> IsRequire(ic)
<1>1. DevRequires' = DevRequires BY DEF DevRequires
<1>2. NoChoice' <=> NoChoice BY DEF NoChoice
<1>3. \A sel : Valid(sel)' <=> Valid(sel) BY <1>1 DEF Valid, MeetsRequires
<1>4. \A ic : IsRequire(ic)' <=> IsRequire(ic)
  BY <1>1 DEF IsRequire, FromManifest, RootIncompatibility, Dependency
<1>5. QED BY <1>2, <1>3, <1>4

\* What RelationOf calls a subset is true of the choice.
LEMMA SubsetIsTrue ==
  ASSUME TypeInv, SearchInv, NEW sel, Unharmed(sel),
         NEW t \in Term, RelationOf(t) = "subset"
  PROVE  t.pkg \in Package /\ TrueOf(t, sel)
<1>1. CASE t.pkg \in Decided
  <2>1. PICK j \in DOMAIN assignments : IsDecision(assignments[j]) /\ assignments[j].term.pkg = t.pkg
    BY <1>1 DEF Decided, Decisions, ElementsOf
  <2> DEFINE w == assignments[j].ver
  <2>2. DecisionOf(t.pkg) = w /\ w \in Version /\ t.pkg \in Package
    BY <2>1, DecisionOfUnique DEF SearchInv
  <2>3. Satisfies(t, w) BY <1>1, <2>2 DEF RelationOf
  <2>4. assignments[j].term = [pkg |-> t.pkg, con |-> Exact[w], pos |-> TRUE]
    BY <2>1 DEF SearchInv, DecisionsConsistent
  <2>5. TrueOf(assignments[j].term, sel) BY DEF Unharmed
  <2> HIDE DEF w
  <2>6. t.pkg \in DOMAIN sel /\ sel[t.pkg] \in Admits[Exact[w]] BY <2>4, <2>5 DEF TrueOf
  <2>7. sel[t.pkg] = w BY <2>2, <2>6, ConstraintAssumption
  <2>8. QED BY <2>2, <2>3, <2>6, <2>7 DEF TrueOf, Satisfies
<1>2. CASE t.pkg \notin Decided
  <2>1. SameString(t) # {} /\ assignments[Least(SameString(t))].term.pos = t.pos
    BY <1>2 DEF RelationOf
  <2>2. Least(SameString(t)) \in SameString(t)
    <3>1. SameString(t) \subseteq Nat BY DEF SameString, TypeInv, TypeOK
    <3>2. QED BY <2>1, <3>1, LeastExists
  <2>3. PICK j \in DOMAIN assignments : /\ assignments[j].term.pkg = t.pkg
                                        /\ assignments[j].term.con = t.con
                                        /\ assignments[j].term.pos = t.pos
    BY <2>1, <2>2 DEF SameString
  <2>4. QED BY <2>3 DEF Unharmed, TrueOf
<1>3. QED BY <1>1, <1>2

\* No term about the root is ever known: the root has no assignment.
LEMMA RootIsOverlapping ==
  ASSUME TypeInv, SearchInv, NEW sel, Unharmed(sel), NEW t, t.pkg = Root
  PROVE  RelationOf(t) = "overlapping"
<1>1. Root \notin Package BY PackageAssumption DEF Root
<1>2. \A i \in DOMAIN assignments : assignments[i].term.pkg # Root BY <1>1 DEF Unharmed
<1>3. Root \notin Decided BY <1>2 DEF Decided, Decisions, ElementsOf
<1>4. SameString(t) = {} BY <1>2 DEF SameString
<1>5. QED BY <1>3, <1>4 DEF RelationOf

\* A valid choice does not make all terms of a require true.
LEMMA RequireNotSatisfied ==
  ASSUME TypeInv, SearchInv, NEW D \in SUBSET Package, NEW sel \in [D -> Version],
         Valid(sel), Unharmed(sel), NEW k \in DOMAIN ics
  PROVE  /\ ~ Satisfied(ics[k])
         /\ \A x \in DOMAIN ics[k].terms : AlmostSatisfied(ics[k], x) =>
              /\ ics[k].terms[x].pkg \in Package
              /\ ~ TrueOf(ics[k].terms[x], sel)
<1>1. CASE FromManifest(ics[k])
  <2>1. PICK q, c : ics[k] = RootIncompatibility(q, c) /\ q \in D /\ sel[q] \in Admits[c]
    <3>1. \A q \in DOMAIN problem.require : q \in D /\ sel[q] \in Admits[problem.require[q]]
      BY DEF Valid, MeetsRequires
    <3>2. \A q \in DOMAIN DevRequires : q \in D /\ sel[q] \in Admits[DevRequires[q]]
      BY DEF Valid, MeetsRequires
    <3>3. QED BY <3>1, <3>2, <1>1 DEF FromManifest, RootsAsked
  <2> DEFINE t1 == [pkg |-> Root, con |-> Star, pos |-> TRUE]
             t2 == [pkg |-> q, con |-> c, pos |-> FALSE]
  <2>2. DOMAIN ics[k].terms = {1, 2} /\ ics[k].terms[1] = t1 /\ ics[k].terms[2] = t2
    BY <2>1 DEF RootIncompatibility
  <2>3. RelationOf(t1) = "overlapping" BY RootIsOverlapping
  <2>4. t2 \in Term
    <3>1. ics[k] \in Incompatibility BY DEF TypeInv, TypeOK
    <3>2. QED BY <2>2, <3>1 DEF Incompatibility
  <2>5. ~ TrueOf(t2, sel) BY <2>1 DEF TrueOf
  <2>6. RelationOf(t2) # "subset" BY <2>4, <2>5, SubsetIsTrue
  <2> HIDE DEF t1, t2
  <2>7. QED BY <2>2, <2>3, <2>6 DEF Satisfied, AlmostSatisfied
<1>2. CASE ~ FromManifest(ics[k])
  <2>1. PICK p \in Package, v \in Version : \E q \in DOMAIN problem.requires[p][v] : ics[k] = Dependency(p, v, q)
    BY <1>2 DEF Unharmed, IsRequire
  <2>2. PICK q \in DOMAIN problem.requires[p][v] : ics[k] = Dependency(p, v, q)
    BY <2>1
  <2> DEFINE c == problem.requires[p][v][q]
             t1 == [pkg |-> p, con |-> Exact[v], pos |-> TRUE]
             t2 == [pkg |-> q, con |-> c, pos |-> FALSE]
  <2>3. q \in Package BY DependencyType DEF TypeInv
  <2>4. DOMAIN ics[k].terms = {1, 2} /\ ics[k].terms[1] = t1 /\ ics[k].terms[2] = t2
    BY <2>2 DEF Dependency
  <2>5. t1 \in Term /\ t2 \in Term
    <3>1. ics[k] \in Incompatibility BY DEF TypeInv, TypeOK
    <3>2. QED BY <2>4, <3>1 DEF Incompatibility
  <2>6. ~ (TrueOf(t1, sel) /\ TrueOf(t2, sel))
    <3> SUFFICES ASSUME TrueOf(t1, sel) PROVE ~ TrueOf(t2, sel)
      OBVIOUS
    <3>1. p \in D /\ sel[p] \in Admits[Exact[v]] BY DEF TrueOf
    <3>2. sel[p] = v BY <3>1, ConstraintAssumption
    <3>3. q \in D /\ sel[q] \in Admits[c] BY <3>1, <3>2 DEF Valid, MeetsRequires
    <3>4. QED BY <3>3 DEF TrueOf
  <2>7. t1.pkg \in Package /\ t2.pkg \in Package BY <2>3
  <2> HIDE DEF t1, t2, c
  <2>8. /\ RelationOf(t1) = "subset" => TrueOf(t1, sel)
        /\ RelationOf(t2) = "subset" => TrueOf(t2, sel)
    BY <2>5, SubsetIsTrue
  <2>9. QED BY <2>4, <2>6, <2>7, <2>8 DEF Satisfied, AlmostSatisfied
<1>3. QED BY <1>1, <1>2

\* What is asked for positively is part of the choice, at a candidate version.
LEMMA ChoiceIsCandidate ==
  ASSUME TypeInv, NEW D \in SUBSET Package, NEW sel \in [D -> Version],
         Valid(sel), Unharmed(sel), NEW p \in Undecided
  PROVE  p \in D /\ p \in problem.known /\ sel[p] \in Candidates(p)
<1>1. PICK i \in DOMAIN assignments : assignments[i].term.pos /\ assignments[i].term.pkg = p
  BY DEF Undecided, ElementsOf
<1>2. p \in D BY <1>1 DEF Unharmed, TrueOf
<1>3. p \in problem.known /\ sel[p] \in problem.published[p] BY <1>2 DEF Valid
<1>4. \A j \in DOMAIN assignments :
        assignments[j].term.pkg = p => Satisfies(assignments[j].term, sel[p])
  BY <1>2 DEF Unharmed, TrueOf, Satisfies
<1>5. QED BY <1>2, <1>3, <1>4 DEF Candidates

LEMMA InitUnharmed ==
  ASSUME Init, NEW D \in SUBSET Package, NEW sel \in [D -> Version], Valid(sel)
  PROVE  Unharmed(sel)
<1> DEFINE r1 == RootIncompatibilities(problem.require)
           r2 == RootIncompatibilities(DevRequires)
<1>1. problem \in Problem /\ ics = r1 \o r2
  BY DEF Init
<1>2. r1 \in Seq(Incompatibility) /\ r2 \in Seq(Incompatibility)
  BY <1>1, ProblemType, RootIncompatibilitiesType
<1>3. /\ \A q \in DOMAIN problem.require : q \in D /\ sel[q] \in Admits[problem.require[q]]
      /\ \A q \in DOMAIN DevRequires : q \in D /\ sel[q] \in Admits[DevRequires[q]]
  BY DEF Valid, MeetsRequires
<1>4. \A k \in DOMAIN r1 : FromManifest(r1[k]) /\ \E q \in D : \E c :
        r1[k] = RootIncompatibility(q, c) /\ sel[q] \in Admits[c]
  <2> TAKE k \in DOMAIN r1
  <2>1. PICK q \in DOMAIN problem.require : r1[k] = RootIncompatibility(q, problem.require[q])
    BY <1>1, ProblemType, RootIncompatibilitiesType
  <2> HIDE DEF r1
  <2>2. FromManifest(r1[k]) BY <2>1 DEF FromManifest
  <2>3. QED BY <2>1, <2>2, <1>3
<1>5. \A k \in DOMAIN r2 : FromManifest(r2[k]) /\ \E q \in D : \E c :
        r2[k] = RootIncompatibility(q, c) /\ sel[q] \in Admits[c]
  <2> TAKE k \in DOMAIN r2
  <2>1. PICK q \in DOMAIN DevRequires : r2[k] = RootIncompatibility(q, DevRequires[q])
    BY <1>1, ProblemType, RootIncompatibilitiesType
  <2> HIDE DEF r2
  <2>2. FromManifest(r2[k]) BY <2>1 DEF FromManifest
  <2>3. QED BY <2>1, <2>2, <1>3
<1> HIDE DEF r1, r2
<1>6. \A k \in DOMAIN ics : FromManifest(ics[k]) /\ \E q \in D : \E c :
        ics[k] = RootIncompatibility(q, c) /\ sel[q] \in Admits[c]
  <2> TAKE k \in DOMAIN ics
  <2>1. \/ k \in DOMAIN r1 /\ ics[k] = r1[k]
        \/ k - Len(r1) \in DOMAIN r2 /\ ics[k] = r2[k - Len(r1)]
    BY <1>1, <1>2
  <2>2. QED BY <2>1, <1>4, <1>5
<1>7. /\ DOMAIN assignments = DOMAIN ics
      /\ \A i \in DOMAIN assignments : assignments[i].term = Inverted(ics[i].terms[2])
  <2>1. assignments = [i \in 1 .. Len(ics) |-> [term |-> Inverted(ics[i].terms[2]), ver |-> NoVersion,
                                                level |-> 0, cause |-> i]]
    BY DEF Init
  <2>2. DOMAIN ics = 1 .. Len(ics) BY <1>1, <1>2
  <2>3. QED BY <2>1, <2>2
<1>8. \A i \in DOMAIN assignments : assignments[i].term.pkg \in Package /\ TrueOf(assignments[i].term, sel)
  <2> TAKE i \in DOMAIN assignments
  <2>1. PICK q, c : q \in D /\ ics[i] = RootIncompatibility(q, c) /\ sel[q] \in Admits[c]
    BY <1>6, <1>7
  <2>2. ics[i].terms[2] = [pkg |-> q, con |-> c, pos |-> FALSE] BY <2>1 DEF RootIncompatibility
  <2>3. assignments[i].term = [pkg |-> q, con |-> c, pos |-> TRUE] BY <2>2, <1>7, InvertedNegative
  <2>4. QED BY <2>1, <2>3 DEF TrueOf
<1>9. pc \in {"propagate", "decide"} BY DEF Init
<1>10. QED BY <1>6, <1>8, <1>9 DEF Unharmed, IsRequire

\* Without choices the search never contradicts a valid choice.
LEMMA UnharmedStep ==
  ASSUME TypeInv, SearchInv, [Next]_vars, NoChoice,
         NEW D \in SUBSET Package, NEW sel \in [D -> Version], Valid(sel), Unharmed(sel)
  PROVE  Unharmed(sel)'
<1>0. problem' = problem
  BY DEF Next, vars, search, PropagateConflict, PropagateDerive, PropagateNext, PropagateDone,
         Resolve, Learn, FailConflict, LookupFails, UnknownPackage, NoVersions, DecideVersion, AllDone
<1>1. \A ic : IsRequire(ic) => IsRequire(ic)' BY <1>0, GenuineIsRigid
<1>2. CASE PropagateConflict
  <2>1. Stops # {} /\ Satisfied(ics[Least(Stops)]) BY <1>2 DEF PropagateConflict
  <2>2. Least(Stops) \in DOMAIN ics BY <2>1, StopsType DEF TypeInv
  <2>3. QED BY <2>1, <2>2, RequireNotSatisfied
<1>3. CASE PropagateDerive
  <2> DEFINE k == Least(Stops)
  <2>1. Stops # {} /\ ics' = ics /\ pc' = pc BY <1>3 DEF PropagateDerive
  <2>2. k \in DOMAIN ics /\ ics[k] \in Incompatibility BY <2>1, StopsType DEF TypeInv
  <2>3. PICK x \in DOMAIN ics[k].terms : AlmostSatisfied(ics[k], x) /\ Derive(Inverted(ics[k].terms[x]), k)
    BY <1>3 DEF PropagateDerive
  <2> HIDE DEF k
  <2> DEFINE t == ics[k].terms[x]
             a == [term |-> Inverted(t), ver |-> NoVersion, level |-> level, cause |-> k]
  <2>4. t.pkg \in Package /\ ~ TrueOf(t, sel) BY <2>2, <2>3, RequireNotSatisfied
  <2>5. t.pos \in BOOLEAN
    <3>1. t \in Term BY <2>2 DEF Incompatibility
    <3> HIDE DEF t
    <3>2. QED BY <3>1 DEF Term
  <2>6. /\ Inverted(t).pkg = t.pkg
        /\ Inverted(t).con = t.con
        /\ Inverted(t).pos = ~ t.pos
    BY DEF Inverted
  <2>7. \A i \in DOMAIN assignments' :
          \/ i \in DOMAIN assignments /\ assignments'[i] = assignments[i]
          \/ assignments'[i].term = Inverted(t)
    <3>1. assignments' = Append(assignments, a) /\ assignments \in Seq(Assignment)
      BY <2>3 DEF Derive, TypeInv, TypeOK
    <3>2. a.term = Inverted(t) OBVIOUS
    <3> HIDE DEF a, t
    <3>3. QED BY <3>1, <3>2
  <2> HIDE DEF t
  <2>8. Inverted(t).pkg \in Package /\ TrueOf(Inverted(t), sel) BY <2>4, <2>5, <2>6 DEF TrueOf
  <2>9. \A i \in DOMAIN assignments' : assignments'[i].term.pkg \in Package /\ TrueOf(assignments'[i].term, sel)
    BY <2>7, <2>8 DEF Unharmed
  <2>10. \A i \in DOMAIN ics' : IsRequire(ics[i])'
    BY <1>1, <2>1 DEF Unharmed, IsRequire, FromManifest, RootIncompatibility, Dependency
  <2>11. QED BY <2>1, <2>9, <2>10 DEF Unharmed, TrueOf
<1>4. CASE Learn \/ Resolve \/ FailConflict
  BY <1>4 DEF Unharmed, Learn, Resolve, FailConflict
<1>5. CASE UnknownPackage
  <2>1. PICK p \in Undecided : p \notin problem.known BY <1>5 DEF UnknownPackage, Probed
  <2>2. QED BY <2>1, ChoiceIsCandidate
<1>6. CASE NoVersions
  <2>1. PICK p \in Undecided : Candidates(p) = {} BY <1>6 DEF NoVersions
  <2>2. QED BY <2>1, ChoiceIsCandidate
<1>7. CASE DecideVersion
  <2>1. PICK p \in Undecided : \E v \in Candidates(p) :
          /\ p \in Package /\ v \in problem.published[p] /\ v \in Version
          /\ \A k \in DOMAIN ics : k \in DOMAIN ics' /\ ics'[k] = ics[k]
          /\ \A k \in DOMAIN ics' :
               k \in DOMAIN ics \/ \E q \in DOMAIN problem.requires[p][v] : ics'[k] = Dependency(p, v, q)
          /\ Decide(p, v)
    BY <1>7, DecideVersionStep
  <2>2. PICK v \in Version :
          /\ p \in Package /\ v \in problem.published[p]
          /\ \A k \in DOMAIN ics : k \in DOMAIN ics' /\ ics'[k] = ics[k]
          /\ \A k \in DOMAIN ics' :
               k \in DOMAIN ics \/ \E q \in DOMAIN problem.requires[p][v] : ics'[k] = Dependency(p, v, q)
          /\ Decide(p, v)
    BY <2>1
  <2>3. sel[p] = v
    <3>1. sel[p] \in problem.published[p] BY ChoiceIsCandidate DEF Candidates
    <3>2. problem.published[p] \subseteq Version BY <2>2, ProblemType DEF TypeInv
    <3>3. IsFiniteSet(problem.published[p]) BY <3>2, VersionAssumption, FS_Subset
    <3>4. Cardinality(problem.published[p]) <= 1 BY <2>2 DEF NoChoice
    <3>5. {sel[p], v} \subseteq problem.published[p] BY <2>2, <3>1
    <3>6. Cardinality({sel[p], v}) <= 1
      <4>1. Cardinality({sel[p], v}) <= Cardinality(problem.published[p]) BY <3>3, <3>5, FS_Subset
      <4>2. Cardinality({sel[p], v}) \in Nat /\ Cardinality(problem.published[p]) \in Nat
        BY <3>3, <3>5, FS_Subset, FS_CardinalityType
      <4>3. QED BY <4>1, <4>2, <3>4
    <3>7. sel[p] # v => Cardinality({sel[p], v}) = 2
      <4>1. Cardinality({v}) = 1 /\ IsFiniteSet({v}) BY FS_Singleton
      <4>2. {sel[p], v} = {v} \cup {sel[p]} OBVIOUS
      <4>3. QED BY <4>1, <4>2, FS_AddElement
    <3>8. QED BY <3>6, <3>7
  <2> DEFINE t == [pkg |-> p, con |-> Exact[v], pos |-> TRUE]
             a == [term |-> t, ver |-> v, level |-> level + 1, cause |-> 0]
  <2>4. TrueOf(t, sel) /\ t.pkg \in Package
    BY <2>2, <2>3, ChoiceIsCandidate, ConstraintAssumption DEF TrueOf
  <2>5. \A i \in DOMAIN assignments' :
          \/ i \in DOMAIN assignments /\ assignments'[i] = assignments[i]
          \/ assignments'[i].term = t
    <3>1. assignments' = Append(assignments, a) /\ assignments \in Seq(Assignment)
      BY <2>2 DEF Decide, TypeInv, TypeOK
    <3>2. a.term = t OBVIOUS
    <3> HIDE DEF a, t
    <3>3. QED BY <3>1, <3>2
  <2> HIDE DEF t
  <2>6. \A i \in DOMAIN assignments' : assignments'[i].term.pkg \in Package /\ TrueOf(assignments'[i].term, sel)
    BY <2>4, <2>5 DEF Unharmed
  <2>7. \A i \in DOMAIN ics' : IsRequire(ics'[i]) BY <2>2 DEF Unharmed, IsRequire
  <2>8. \A i \in DOMAIN ics' : IsRequire(ics[i])'
    <3> TAKE i \in DOMAIN ics'
    <3>1. PICK ic : ic = ics'[i] OBVIOUS
    <3>2. IsRequire(ic)' BY <1>1, <2>7, <3>1
    <3>3. QED BY <3>1, <3>2 DEF IsRequire, FromManifest, RootIncompatibility, Dependency
  <2>9. pc' = "propagate" BY <1>7 DEF DecideVersion, Seed
  <2>10. QED BY <2>6, <2>8, <2>9 DEF Unharmed, TrueOf
<1>8. CASE PropagateNext \/ PropagateDone \/ LookupFails \/ AllDone \/ UNCHANGED vars
  <2>1. UNCHANGED <<ics, assignments>>
    BY <1>8 DEF PropagateNext, PropagateDone, LookupFails, AllDone, vars
  <2>2. pc' \notin {"resolve", "conflict"}
    BY <1>8 DEF PropagateNext, PropagateDone, LookupFails, AllDone, vars, Unharmed
  <2>3. \A i \in DOMAIN ics' : IsRequire(ics[i])'
    <3> TAKE i \in DOMAIN ics'
    <3>1. PICK ic : ic = ics'[i] OBVIOUS
    <3>2. IsRequire(ic)' BY <1>1, <2>1, <3>1 DEF Unharmed
    <3>3. QED BY <3>1, <3>2 DEF IsRequire, FromManifest, RootIncompatibility, Dependency
  <2>4. QED BY <2>1, <2>2, <2>3 DEF Unharmed, TrueOf
<1>9. QED BY <1>2, <1>3, <1>4, <1>5, <1>6, <1>7, <1>8 DEF Next

(***************************************************************************)
(* Where no package publishes two versions, a ConflictError is genuine: no *)
(* choice of published versions would have met every require.              *)
(***************************************************************************)
THEOREM ConflictIsGenuineUnlessChosen == Spec => []ConflictIsGenuineWithoutChoice
<1>1. Init => GenuineInv BY InitUnharmed DEF GenuineInv
<1>2. TypeInv /\ SearchInv /\ GenuineInv /\ [Next]_vars => GenuineInv'
  <2> SUFFICES ASSUME TypeInv, SearchInv, GenuineInv, [Next]_vars, NoChoice',
                      NEW D \in SUBSET Package, NEW sel \in [D -> Version], Valid(sel)'
               PROVE  Unharmed(sel)'
    BY DEF GenuineInv
  <2>1. problem' = problem
    BY DEF Next, vars, search, PropagateConflict, PropagateDerive, PropagateNext, PropagateDone,
           Resolve, Learn, FailConflict, LookupFails, UnknownPackage, NoVersions, DecideVersion, AllDone
  <2>2. NoChoice /\ Valid(sel) BY <2>1, GenuineIsRigid
  <2>3. Unharmed(sel) BY <2>2 DEF GenuineInv
  <2>4. QED BY <2>2, <2>3, UnharmedStep
<1>3. GenuineInv => ConflictIsGenuineWithoutChoice
  BY DEF GenuineInv, NoChoice, ConflictIsGenuineWithoutChoice, Solvable, Unharmed
<1>4. QED BY <1>1, <1>2, <1>3, TypeCorrect, SearchCorrect, PTL DEF Spec

(***************************************************************************)
(* Solve is a depth-first search: the refinement of Backtracking.          *)
(***************************************************************************)
\* xs holds one decision for each of the levels 1 .. n, and no other.
OnePerLevel(xs, n) ==
  /\ n \in Nat
  /\ \A l \in 1 .. n : \E i \in DOMAIN xs : IsDecision(xs[i]) /\ xs[i].level = l
  /\ \A i, j \in DOMAIN xs :
       IsDecision(xs[i]) /\ IsDecision(xs[j]) /\ xs[i].level = xs[j].level => i = j
  /\ \A i \in DOMAIN xs : IsDecision(xs[i]) => xs[i].level \in 1 .. n

StackInv == OnePerLevel(assignments, level)

Choice(a) == [pkg |-> a.term.pkg, ver |-> a.ver]

\* Stack, of any assignments.
StackOf(xs, n) ==
  [l \in 1 .. n |->
     LET d == CHOOSE b \in {a \in ElementsOf(xs) : IsDecision(a)} : b.level = l
     IN  [pkg |-> d.term.pkg, ver |-> d.ver]]

\* The stack lists the decisions by their levels.
LEMMA StackHolds ==
  ASSUME NEW xs, NEW n, OnePerLevel(xs, n), NEW i \in DOMAIN xs, IsDecision(xs[i])
  PROVE  xs[i].level \in 1 .. n /\ StackOf(xs, n)[xs[i].level] = Choice(xs[i])
<1> DEFINE D == {a \in ElementsOf(xs) : IsDecision(a)}
           d(l) == CHOOSE b \in D : b.level = l
<1>1. StackOf(xs, n) = [l \in 1 .. n |-> Choice(d(l))]
  BY DEF StackOf, Choice
<1>2. xs[i].level \in 1 .. n BY DEF OnePerLevel
<1>3. d(xs[i].level) = xs[i]
  <2>1. xs[i] \in D BY DEF ElementsOf
  <2>2. ASSUME NEW b \in D, b.level = xs[i].level
        PROVE  b = xs[i]
    <3>1. PICK j \in DOMAIN xs : b = xs[j] /\ IsDecision(xs[j]) BY DEF ElementsOf
    <3>2. i = j BY <2>2, <3>1 DEF OnePerLevel
    <3>3. QED BY <3>1, <3>2
  <2>3. d(xs[i].level) \in D /\ d(xs[i].level).level = xs[i].level
    <3> HIDE DEF D
    <3>1. QED BY <2>1
  <2> HIDE DEF D, d
  <2>4. QED BY <2>2, <2>3
<1> HIDE DEF D, d
<1>4. QED BY <1>1, <1>2, <1>3

\* And each of its entries is a decision.
LEMMA StackListed ==
  ASSUME NEW xs, NEW n, OnePerLevel(xs, n)
  PROVE  \A l \in 1 .. n : \E i \in DOMAIN xs :
           IsDecision(xs[i]) /\ xs[i].level = l /\ StackOf(xs, n)[l] = Choice(xs[i])
<1> TAKE l \in 1 .. n
<1>1. PICK i \in DOMAIN xs : IsDecision(xs[i]) /\ xs[i].level = l BY DEF OnePerLevel
<1>2. StackOf(xs, n)[xs[i].level] = Choice(xs[i]) BY <1>1, StackHolds
<1>3. QED BY <1>1, <1>2

\* It has a choice for each level.
LEMMA StackDomain ==
  ASSUME NEW xs, NEW n
  PROVE  /\ DOMAIN StackOf(xs, n) = 1 .. n
         /\ StackOf(xs, n) = [l \in 1 .. n |-> StackOf(xs, n)[l]]
BY DEF StackOf

\* The stack is a sequence of choices.
LEMMA StackType ==
  ASSUME NEW xs, NEW n, OnePerLevel(xs, n),
         NEW C, \A i \in DOMAIN xs : IsDecision(xs[i]) => Choice(xs[i]) \in C
  PROVE  StackOf(xs, n) \in Seq(C) /\ Len(StackOf(xs, n)) = n
<1> DEFINE s == StackOf(xs, n)
<1>1. ASSUME NEW l \in 1 .. n PROVE s[l] \in C
  <2>1. PICK i \in DOMAIN xs : IsDecision(xs[i]) /\ xs[i].level = l /\ s[l] = Choice(xs[i])
    BY StackListed
  <2>2. QED BY <2>1
<1>2. n \in Nat BY DEF OnePerLevel
<1>3. s = [l \in 1 .. n |-> s[l]] BY StackDomain
<1> HIDE DEF s
<1>4. s \in [1 .. n -> C] BY <1>1, <1>3
<1>5. s \in Seq(C) /\ Len(s) = n BY <1>2, <1>4
<1>6. QED BY <1>5 DEF s

\* Two stacks agree on the levels whose decisions both have.
LEMMA StacksAgree ==
  ASSUME NEW xs, NEW n, OnePerLevel(xs, n), NEW ys, NEW m, OnePerLevel(ys, m), NEW l \in 1 .. n,
         \A i \in DOMAIN xs : IsDecision(xs[i]) /\ xs[i].level = l =>
           \E j \in DOMAIN ys : ys[j] = xs[i]
  PROVE  l \in 1 .. m /\ StackOf(ys, m)[l] = StackOf(xs, n)[l]
<1>1. PICK i \in DOMAIN xs : IsDecision(xs[i]) /\ xs[i].level = l /\ StackOf(xs, n)[l] = Choice(xs[i])
  BY StackListed
<1>2. PICK j \in DOMAIN ys : ys[j] = xs[i] BY <1>1
<1>3. IsDecision(ys[j]) /\ ys[j].level = l BY <1>1, <1>2
<1>4. l \in 1 .. m /\ StackOf(ys, m)[ys[j].level] = Choice(ys[j]) BY <1>3, StackHolds
<1>5. QED BY <1>1, <1>2, <1>3, <1>4

\* The stack of Resolver is that of its assignments, before and after a step.
LEMMA StackIsOf == Stack = StackOf(assignments, level) /\ Stack' = StackOf(assignments', level')
BY DEF Stack, StackOf, Decisions, ElementsOf, IsDecision

\* A search without decisions has an empty stack.
LEMMA InitStack == Init => StackInv /\ Stack = << >> /\ Verdict = "none"
<1> SUFFICES ASSUME Init PROVE StackInv /\ Stack = << >> /\ Verdict = "none"
  OBVIOUS
<1>1. level = 0 BY DEF Init
<1>2. \A i \in DOMAIN assignments : ~ IsDecision(assignments[i])
  BY DEF Init, IsDecision
<1>3. StackInv BY <1>1, <1>2 DEF StackInv, OnePerLevel
<1>4. Stack \in Seq({}) /\ Len(Stack) = 0
  BY <1>1, <1>2, <1>3, StackType, StackIsOf DEF StackInv
<1>5. Stack = << >> BY <1>4
<1>6. Verdict = "none" BY DEF Init, Verdict
<1>7. QED BY <1>3, <1>5, <1>6

\* The decisions are choices of packages and versions, in the range of levels.
LEMMA ChoiceType ==
  ASSUME TypeInv, SearchInv, NEW i \in DOMAIN assignments, IsDecision(assignments[i])
  PROVE  /\ Choice(assignments[i]) \in [pkg : Package, ver : Version]
         /\ assignments[i].level \in 1 .. level
<1>1. assignments[i].term.pkg \in Package /\ assignments[i].ver \in Version
  BY DecisionOfUnique DEF SearchInv
<1>2. assignments[i].level \in Nat /\ assignments[i].level >= 1 /\ level \in Nat
  BY AssignmentType DEF TypeInv, TypeOK, IsDecision
<1>3. assignments[i].level <= level BY DEF SearchInv, LevelsOrdered
<1>4. QED BY <1>1, <1>2, <1>3 DEF Choice

\* The stack as a sequence, with its entries.
LEMMA StackIsSequence ==
  ASSUME TypeInv, SearchInv, StackInv
  PROVE  /\ Stack \in Seq([pkg : Package, ver : Version])
         /\ Len(Stack) = level
         /\ DOMAIN Stack = 1 .. level
         /\ \A i \in DOMAIN assignments : IsDecision(assignments[i]) =>
              /\ assignments[i].level \in DOMAIN Stack
              /\ Stack[assignments[i].level] = Choice(assignments[i])
         /\ \A l \in DOMAIN Stack : \E i \in DOMAIN assignments :
              IsDecision(assignments[i]) /\ assignments[i].level = l /\ Stack[l] = Choice(assignments[i])
<1>1. Stack = StackOf(assignments, level) BY StackIsOf
<1>2. OnePerLevel(assignments, level) BY DEF StackInv
<1>3. Stack \in Seq([pkg : Package, ver : Version]) /\ Len(Stack) = level
  BY <1>1, <1>2, ChoiceType, StackType
<1>4. DOMAIN Stack = 1 .. level BY <1>1, StackDomain
<1>5. \A i \in DOMAIN assignments : IsDecision(assignments[i]) =>
        /\ assignments[i].level \in DOMAIN Stack
        /\ Stack[assignments[i].level] = Choice(assignments[i])
  BY <1>1, <1>2, <1>4, StackHolds
<1>6. \A l \in 1 .. level : \E i \in DOMAIN assignments :
        IsDecision(assignments[i]) /\ assignments[i].level = l /\ Stack[l] = Choice(assignments[i])
  BY <1>1, <1>2, StackListed
<1>7. QED BY <1>3, <1>4, <1>5, <1>6

\* A derivation adds no decision.
LEMMA DeriveStack ==
  ASSUME TypeInv, SearchInv, StackInv, PropagateDerive
  PROVE  StackInv' /\ Stack' = Stack /\ problem' = problem /\ pc' = pc
<1>1. PICK t \in Term :
        /\ Derive(Inverted(t), Least(Stops))
        /\ [term |-> Inverted(t), ver |-> NoVersion, level |-> level, cause |-> Least(Stops)] \in Assignment
  BY PropagateDeriveStep DEF TypeInv
<1> DEFINE a == [term |-> Inverted(t), ver |-> NoVersion, level |-> level, cause |-> Least(Stops)]
           xs == assignments
           ys == assignments'
           n == Len(assignments) + 1
<1>2. UNCHANGED <<problem, ics, level, pc>> BY DEF PropagateDerive, search
<1>3. a.ver = NoVersion /\ a.cause \in DOMAIN ics'
  BY <1>2, StopsType DEF PropagateDerive, TypeInv
<1>4. ys = Append(xs, a) /\ a \in Assignment BY <1>1 DEF Derive
<1> HIDE DEF a
<1>5. /\ \A i \in DOMAIN xs : i \in DOMAIN ys /\ ys[i] = xs[i]
      /\ \A i \in DOMAIN ys : i \in DOMAIN xs \/ i = n
      /\ ys[n] = a
  BY <1>2, <1>3, <1>4, AppendType DEF TypeInv
<1>6. \A i \in DOMAIN ys : IsDecision(ys[i]) => i \in DOMAIN xs /\ ys[i] = xs[i]
  BY <1>3, <1>5 DEF IsDecision
<1>7. OnePerLevel(xs, level) BY DEF StackInv
<1> HIDE DEF xs, ys
<1>8. OnePerLevel(ys, level) BY <1>5, <1>6, <1>7 DEF OnePerLevel
<1>9. \A l \in 1 .. level : StackOf(ys, level)[l] = StackOf(xs, level)[l]
  <2> TAKE l \in 1 .. level
  <2>1. \A i \in DOMAIN xs : IsDecision(xs[i]) /\ xs[i].level = l => \E j \in DOMAIN ys : ys[j] = xs[i]
    BY <1>5
  <2>2. QED BY <2>1, <1>7, <1>8, StacksAgree
<1>10. StackOf(ys, level) = StackOf(xs, level)
  <2>1. /\ StackOf(ys, level) = [l \in 1 .. level |-> StackOf(ys, level)[l]]
        /\ StackOf(xs, level) = [l \in 1 .. level |-> StackOf(xs, level)[l]]
    BY StackDomain
  <2>2. QED BY <2>1, <1>9
<1>11. StackInv'
  BY <1>2, <1>8 DEF ys, StackInv, OnePerLevel, IsDecision
<1>12. QED BY <1>2, <1>10, <1>11, StackIsOf DEF xs, ys

\* A decision opens the next level.
LEMMA DecideStack ==
  ASSUME TypeInv, SearchInv, StackInv,
         NEW p \in Undecided, NEW v \in Version, p \in Package, Decide(p, v)
  PROVE  StackInv' /\ Stack' = Append(Stack, [pkg |-> p, ver |-> v])
<1> DEFINE t == [pkg |-> p, con |-> Exact[v], pos |-> TRUE]
           a == [term |-> t, ver |-> v, level |-> level + 1, cause |-> 0]
           xs == assignments
           ys == assignments'
           n == Len(assignments) + 1
           m == level + 1
<1>1. level' = m /\ ys = Append(xs, a) BY DEF Decide
<1>2. level \in Nat /\ xs \in Seq(Assignment) BY DEF TypeInv, TypeOK
<1>3. t \in Term BY ConstraintAssumption DEF Term
<1>4. a \in Assignment /\ IsDecision(a) /\ a.level = m /\ Choice(a) = [pkg |-> p, ver |-> v]
  BY <1>2, <1>3, VersionAssumption DEF Assignment, IsDecision, NoVersion, Choice
<1> HIDE DEF a
<1>5. /\ \A i \in DOMAIN xs : i \in DOMAIN ys /\ ys[i] = xs[i]
      /\ \A i \in DOMAIN ys : i \in DOMAIN xs \/ i = n
      /\ n \in DOMAIN ys /\ ys[n] = a
  BY <1>1, <1>2
<1>6. OnePerLevel(xs, level) BY DEF StackInv
<1> HIDE DEF xs, ys, n
<1>7. OnePerLevel(ys, m)
  <2>1. m \in Nat BY <1>2
  <2>2. \A l \in 1 .. m : \E i \in DOMAIN ys : IsDecision(ys[i]) /\ ys[i].level = l
    <3> TAKE l \in 1 .. m
    <3>1. CASE l = m BY <3>1, <1>4, <1>5
    <3>2. CASE l # m
      <4>1. l \in 1 .. level BY <3>2, <1>2
      <4>2. QED BY <4>1, <1>5, <1>6 DEF OnePerLevel
    <3>3. QED BY <3>1, <3>2
  <2>3. \A i \in DOMAIN xs : IsDecision(ys[i]) => ys[i].level \in 1 .. level /\ ys[i].level # m
    <3>1. \A i \in DOMAIN xs : IsDecision(xs[i]) => xs[i].level \in 1 .. level
      BY <1>6 DEF OnePerLevel
    <3>2. QED BY <3>1, <1>2, <1>5
  <2>4. \A i, j \in DOMAIN ys :
          IsDecision(ys[i]) /\ IsDecision(ys[j]) /\ ys[i].level = ys[j].level => i = j
    <3> SUFFICES ASSUME NEW i \in DOMAIN ys, NEW j \in DOMAIN ys,
                        IsDecision(ys[i]), IsDecision(ys[j]), ys[i].level = ys[j].level
                 PROVE  i = j
      OBVIOUS
    <3>1. CASE i \in DOMAIN xs /\ j \in DOMAIN xs
      BY <3>1, <1>5, <1>6 DEF OnePerLevel
    <3>2. CASE i = n \/ j = n BY <3>2, <2>3, <1>4, <1>5
    <3>3. QED BY <3>1, <3>2, <1>5
  <2>5. \A i \in DOMAIN ys : IsDecision(ys[i]) => ys[i].level \in 1 .. m
    <3>1. \A k \in 1 .. level : k \in 1 .. m BY <1>2
    <3>2. m \in 1 .. m BY <1>2
    <3>3. QED BY <3>1, <3>2, <2>3, <1>4, <1>5
  <2> HIDE DEF m
  <2>6. QED BY <2>1, <2>2, <2>4, <2>5 DEF OnePerLevel
<1>8. \A l \in 1 .. level : StackOf(ys, m)[l] = StackOf(xs, level)[l]
  <2> TAKE l \in 1 .. level
  <2>1. \A i \in DOMAIN xs : IsDecision(xs[i]) /\ xs[i].level = l => \E j \in DOMAIN ys : ys[j] = xs[i]
    BY <1>5
  <2> HIDE DEF m
  <2>2. QED BY <2>1, <1>6, <1>7, StacksAgree
<1>9. StackOf(ys, m)[m] = [pkg |-> p, ver |-> v]
  <2> HIDE DEF m
  <2>1. QED BY <1>4, <1>5, <1>7, StackHolds
<1>10. Stack' = StackOf(ys, m) /\ Stack = StackOf(xs, level)
  BY <1>1, StackIsOf DEF xs, ys
<1>11. StackOf(ys, m) = [l \in 1 .. m |-> StackOf(ys, m)[l]]
  <2> HIDE DEF m
  <2>1. QED BY StackDomain
<1>12. Stack \in Seq([pkg : Package, ver : Version]) /\ Len(Stack) = level
  BY StackIsSequence
<1>13. Append(Stack, [pkg |-> p, ver |-> v])
         = [l \in 1 .. m |-> IF l = m THEN [pkg |-> p, ver |-> v] ELSE Stack[l]]
  BY <1>2, <1>12
<1>14. \A l \in 1 .. m : l = m \/ l \in 1 .. level BY <1>2
<1>15. \A l \in 1 .. m :
         StackOf(ys, m)[l] = IF l = m THEN [pkg |-> p, ver |-> v] ELSE Stack[l]
  <2> HIDE DEF m
  <2>1. QED BY <1>8, <1>9, <1>10, <1>14
<1>16. Stack' = Append(Stack, [pkg |-> p, ver |-> v])
  <2> HIDE DEF m
  <2>1. QED BY <1>10, <1>11, <1>13, <1>15
<1>17. StackInv'
  <2> HIDE DEF m
  <2>1. QED BY <1>1, <1>7 DEF ys, StackInv, OnePerLevel, IsDecision
<1>18. QED BY <1>16, <1>17

\* Backtracking takes the newest decisions back.
LEMMA LearnStack ==
  ASSUME TypeInv, SearchInv, StackInv, Learn
  PROVE  /\ StackInv'
         /\ level' \in 0 .. level
         /\ Stack' = SubSeq(Stack, 1, level')
<1> DEFINE target == BacktrackLevel
           xs == assignments
           ys == assignments'
<1>1. target \in Nat /\ (target = 0 \/ target < level) /\ level' = target
  BY BacktrackLevelType DEF Learn, Backtrack, TypeInv, SearchInv
<1>2. level \in Nat BY DEF TypeInv, TypeOK
<1>3. PICK keep \in 0 .. Len(xs) :
        /\ \A i \in 1 .. keep : xs[i].level <= target
        /\ keep < Len(xs) => xs[keep + 1].level > target
        /\ ys \in Seq(Assignment)
        /\ DOMAIN ys = 1 .. keep
        /\ 1 .. keep \subseteq DOMAIN xs
        /\ \A i \in 1 .. keep : ys[i] = xs[i]
  BY BacktrackType DEF Learn, TypeInv
<1> HIDE DEF target
<1>4. Len(xs) \in Nat /\ DOMAIN xs = 1 .. Len(xs) BY DEF TypeInv, TypeOK
<1>5. \A i \in DOMAIN xs : xs[i].level <= target => i \in DOMAIN ys
  <2> SUFFICES ASSUME NEW i \in DOMAIN xs, xs[i].level <= target, i > keep
               PROVE  FALSE
    BY <1>3, <1>4
  <2>1. keep + 1 \in DOMAIN xs /\ keep + 1 <= i BY <1>4
  <2>2. xs[keep + 1].level > target BY <2>1, <1>3, <1>4
  <2>3. xs[keep + 1].level <= xs[i].level BY <2>1 DEF SearchInv, LevelsOrdered
  <2>4. xs[keep + 1].level \in Nat /\ xs[i].level \in Nat
    BY <2>1, AssignmentType DEF TypeInv
  <2>5. QED BY <2>2, <2>3, <2>4, <1>1
<1>6. \A i \in DOMAIN ys : i \in DOMAIN xs /\ ys[i] = xs[i] /\ xs[i].level <= target
  BY <1>3
<1>7. OnePerLevel(xs, level) BY DEF StackInv
<1>8. target \in 0 .. level BY <1>1, <1>2
<1> HIDE DEF xs, ys
<1>9. OnePerLevel(ys, target)
  <2>1. \A l \in 1 .. target : \E i \in DOMAIN ys : IsDecision(ys[i]) /\ ys[i].level = l
    <3> TAKE l \in 1 .. target
    <3>1. l \in 1 .. level /\ l <= target BY <1>8, <1>1, <1>2
    <3>2. PICK i \in DOMAIN xs : IsDecision(xs[i]) /\ xs[i].level = l
      BY <3>1, <1>7 DEF OnePerLevel
    <3>3. QED BY <3>1, <3>2, <1>5, <1>6
  <2>2. \A i \in DOMAIN ys : IsDecision(ys[i]) => ys[i].level \in 1 .. target
    <3> TAKE i \in DOMAIN ys
    <3> HAVE IsDecision(ys[i])
    <3>1. i \in DOMAIN xs /\ ys[i] = xs[i] /\ xs[i].level <= target BY <1>6
    <3>2. xs[i].level \in 1 .. level BY <3>1, <1>7 DEF OnePerLevel
    <3>3. QED BY <3>1, <3>2, <1>1, <1>2
  <2>3. QED BY <2>1, <2>2, <1>1, <1>6, <1>7 DEF OnePerLevel
<1>10. \A l \in 1 .. target : StackOf(ys, target)[l] = StackOf(xs, level)[l]
  <2> TAKE l \in 1 .. target
  <2>1. l \in 1 .. level BY <1>8, <1>2
  <2>2. \A i \in DOMAIN ys : IsDecision(ys[i]) /\ ys[i].level = l => \E j \in DOMAIN xs : xs[j] = ys[i]
    BY <1>6
  <2>3. StackOf(xs, level)[l] = StackOf(ys, target)[l]
    BY <2>2, <1>7, <1>9, StacksAgree
  <2>4. QED BY <2>3
<1>11. Stack' = StackOf(ys, target) /\ Stack = StackOf(xs, level)
  BY <1>1, StackIsOf DEF xs, ys
<1>12. StackOf(ys, target) = [l \in 1 .. target |-> StackOf(ys, target)[l]]
  BY StackDomain
<1>13. Stack \in Seq([pkg : Package, ver : Version]) /\ Len(Stack) = level
  BY StackIsSequence
<1>14. SubSeq(Stack, 1, target) = [l \in 1 .. target |-> Stack[l]]
  BY <1>8, <1>13
<1>15. Stack' = SubSeq(Stack, 1, target)
  BY <1>10, <1>11, <1>12, <1>14
<1>16. StackInv'
  BY <1>1, <1>9 DEF ys, StackInv, OnePerLevel, IsDecision
<1>17. QED BY <1>1, <1>8, <1>15, <1>16

\* What is held of an undecided package binds its candidates.
LEMMA HeldIsAdmitted ==
  ASSUME TypeInv, NEW p \in Undecided, NEW v \in Candidates(p), NEW c, NEW l, Held(p, c, l)
  PROVE  v \in Admits[c]
<1>1. PICK j \in DOMAIN assignments :
        /\ assignments[j].term.pkg = p
        /\ \/ assignments[j].term = [pkg |-> p, con |-> c, pos |-> TRUE]
           \/ IsDecision(assignments[j])
  BY DEF Held
<1>2. ~ IsDecision(assignments[j])
  BY <1>1 DEF Undecided, Decided, Decisions, ElementsOf
<1>3. assignments[j].term.con = c /\ assignments[j].term.pos = TRUE
  BY <1>1, <1>2
<1>4. Satisfies(assignments[j].term, v) BY <1>1 DEF Candidates
<1>5. QED BY <1>3, <1>4 DEF Satisfies

\* What is held is on the stack once nothing is left undecided.
LEMMA HeldIsStacked ==
  ASSUME TypeInv, SearchInv, StackInv, Undecided = {}, NEW q, NEW c, NEW l, Held(q, c, l)
  PROVE  \E i \in DOMAIN Stack : Stack[i].pkg = q /\ Stack[i].ver \in Admits[c]
<1>1. q \in Decided /\ DecisionOf(q) \in Admits[c] BY HeldIsMet
<1>2. PICK j \in DOMAIN assignments : IsDecision(assignments[j]) /\ assignments[j].term.pkg = q
  BY <1>1 DEF Decided, Decisions, ElementsOf
<1>3. DecisionOf(q) = assignments[j].ver BY <1>2, DecisionOfUnique DEF SearchInv
<1>4. assignments[j].level \in DOMAIN Stack /\ Stack[assignments[j].level] = Choice(assignments[j])
  BY <1>2, StackIsSequence
<1>5. Choice(assignments[j]).pkg = q /\ Choice(assignments[j]).ver = DecisionOf(q)
  BY <1>2, <1>3 DEF Choice
<1>6. QED BY <1>1, <1>4, <1>5

\* A decision is a step that Backtracking allows.
LEMMA DecidePushes ==
  ASSUME TypeInv, SearchInv, StackInv, DecideVersion
  PROVE  StackInv' /\ \E q \in Package, v \in Version : DepthFirst!Push(q, v)
<1>1. PICK p \in Undecided : \E v \in Candidates(p) :
        /\ p \in problem.known /\ p \in Package
        /\ v \in problem.published[p] /\ v \in Version
        /\ Decide(p, v)
  BY DecideVersionStep
<1>2. PICK v \in Candidates(p) :
        /\ p \in problem.known /\ p \in Package
        /\ v \in problem.published[p] /\ v \in Version
        /\ Decide(p, v)
  BY <1>1
<1>3. pc = "decide" /\ pc' = "propagate" /\ problem' = problem
  BY DEF DecideVersion, Seed
<1>4. StackInv' /\ Stack' = Append(Stack, [pkg |-> p, ver |-> v])
  BY <1>2, DecideStack
<1>5. Verdict = "none" /\ Verdict' = "none" BY <1>3 DEF Verdict
<1>6. \A l \in DOMAIN Stack : \E i \in DOMAIN assignments :
        IsDecision(assignments[i]) /\ Stack[l].pkg = assignments[i].term.pkg
                                   /\ Stack[l].ver = assignments[i].ver
  BY StackIsSequence DEF Choice
<1>7. ~ DepthFirst!Chosen(p)
  BY <1>6 DEF DepthFirst!Chosen, Undecided, Decided, Decisions, ElementsOf
<1>8. DepthFirst!Allows(problem.require, p, v) /\ DepthFirst!Allows(DevRequires, p, v)
  BY <1>2, HeldIsAdmitted DEF DepthFirst!Allows, SearchInv, RootsHeld
<1>9. \A l \in DOMAIN Stack : DepthFirst!Allows(DepthFirst!RequiresOf(l), p, v)
  <2> TAKE l \in DOMAIN Stack
  <2>1. PICK i \in DOMAIN assignments :
          IsDecision(assignments[i]) /\ Stack[l].pkg = assignments[i].term.pkg
                                     /\ Stack[l].ver = assignments[i].ver
    BY <1>6
  <2> DEFINE reqs == problem.requires[assignments[i].term.pkg][assignments[i].ver]
  <2>2. DepthFirst!RequiresOf(l) = reqs BY <2>1 DEF DepthFirst!RequiresOf
  <2>3. \A q \in DOMAIN reqs : Held(q, reqs[q], assignments[i].level)
    BY <2>1, <1>3 DEF SearchInv, RequiresHeld, RequireHeld, Pending
  <2>4. p \in DOMAIN reqs => v \in Admits[reqs[p]]
    BY <2>3, <1>2, HeldIsAdmitted
  <2> HIDE DEF reqs
  <2>5. QED BY <2>2, <2>4 DEF DepthFirst!Allows
<1>10. DepthFirst!DevRequires = DevRequires
  BY DEF DepthFirst!DevRequires, DevRequires
<1>11. DepthFirst!Push(p, v)
  BY <1>2, <1>3, <1>4, <1>5, <1>7, <1>8, <1>9, <1>10 DEF DepthFirst!Push
<1>12. QED BY <1>2, <1>4, <1>11

\* A Result is a selection that Backtracking may return.
LEMMA DoneReturns ==
  ASSUME TypeInv, SearchInv, StackInv, AllDone
  PROVE  DepthFirst!Return
<1>1. pc = "decide" /\ pc' = "solved" /\ Undecided = {} /\ UNCHANGED <<problem, assignments, level>>
  BY DEF AllDone, search
<1>2. Verdict = "none" /\ Verdict' = "solved" BY <1>1 DEF Verdict
<1>3. Stack' = Stack BY <1>1, StackIsOf
<1>4. DepthFirst!Met(problem.require) /\ DepthFirst!Met(DevRequires)
  BY <1>1, HeldIsStacked DEF DepthFirst!Met, SearchInv, RootsHeld
<1>5. \A l \in DOMAIN Stack : DepthFirst!Met(DepthFirst!RequiresOf(l))
  <2> TAKE l \in DOMAIN Stack
  <2>1. PICK i \in DOMAIN assignments : IsDecision(assignments[i]) /\ Stack[l] = Choice(assignments[i])
    BY StackIsSequence
  <2> DEFINE reqs == problem.requires[assignments[i].term.pkg][assignments[i].ver]
  <2>2. DepthFirst!RequiresOf(l) = reqs BY <2>1 DEF DepthFirst!RequiresOf, Choice
  <2>3. \A q \in DOMAIN reqs : Held(q, reqs[q], assignments[i].level)
    BY <2>1, <1>1 DEF SearchInv, RequiresHeld, RequireHeld, Pending
  <2> HIDE DEF reqs
  <2>4. \A q \in DOMAIN reqs : \E k \in DOMAIN Stack :
          Stack[k].pkg = q /\ Stack[k].ver \in Admits[reqs[q]]
    BY <2>3, <1>1, HeldIsStacked
  <2>5. QED BY <2>2, <2>4 DEF DepthFirst!Met
<1>6. DepthFirst!DevRequires = DevRequires
  BY DEF DepthFirst!DevRequires, DevRequires
<1>7. QED BY <1>1, <1>2, <1>3, <1>4, <1>5, <1>6 DEF DepthFirst!Return

\* Every step of the solver is a step of the depth-first search or hides in it.
LEMMA RefinementStep ==
  ASSUME TypeInv, SearchInv, StackInv, [Next]_vars
  PROVE  StackInv' /\ [DepthFirst!Next]_<<problem, Stack, Verdict>>
<1>0. ASSUME UNCHANGED <<problem, assignments, level>>
      PROVE  StackInv' /\ Stack' = Stack
  BY <1>0, StackIsOf DEF StackInv, OnePerLevel, IsDecision
<1>1. CASE PropagateConflict \/ PropagateNext \/ PropagateDone \/ Resolve \/ UnknownPackage \/ NoVersions
  <2>1. UNCHANGED <<problem, assignments, level>>
    BY <1>1 DEF PropagateConflict, PropagateNext, PropagateDone, Resolve, UnknownPackage, NoVersions,
                search, worklist
  <2>2. pc \in {"propagate", "resolve", "decide"} /\ pc' \in {"propagate", "resolve", "decide"}
    BY <1>1 DEF PropagateConflict, PropagateNext, PropagateDone, Resolve, UnknownPackage, NoVersions,
                Seed
  <2>3. Verdict' = Verdict BY <2>2 DEF Verdict
  <2>4. QED BY <2>1, <2>3, <1>0
<1>2. CASE PropagateDerive
  <2>1. StackInv' /\ Stack' = Stack /\ problem' = problem /\ pc' = pc
    BY <1>2, DeriveStack
  <2>2. QED BY <2>1 DEF Verdict
<1>3. CASE Learn
  <2>1. StackInv' /\ level' \in 0 .. level /\ Stack' = SubSeq(Stack, 1, level')
    BY <1>3, LearnStack
  <2>2. Verdict = "none" /\ Verdict' = "none" /\ problem' = problem
    BY <1>3 DEF Learn, Seed, search, Verdict
  <2>3. level \in Nat /\ Stack \in Seq([pkg : Package, ver : Version]) /\ Len(Stack) = level
    BY StackIsSequence DEF TypeInv, TypeOK
  <2>4. CASE level' < level
    <3>1. DepthFirst!Pop(level') BY <2>1, <2>2, <2>3, <2>4 DEF DepthFirst!Pop
    <3>2. level' \in 0 .. Len(Stack) BY <2>1, <2>3
    <3>3. QED BY <2>1, <3>1, <3>2 DEF DepthFirst!Next
  <2>5. CASE level' = level
    <3>1. SubSeq(Stack, 1, level) = Stack BY <2>3
    <3>2. QED BY <2>1, <2>2, <2>5, <3>1
  <2>6. QED BY <2>1, <2>3, <2>4, <2>5
<1>4. CASE DecideVersion
  BY <1>4, DecidePushes DEF DepthFirst!Next
<1>5. CASE AllDone
  <2>1. UNCHANGED <<problem, assignments, level>> BY <1>5 DEF AllDone, search
  <2>2. QED BY <2>1, <1>0, <1>5, DoneReturns DEF DepthFirst!Next
<1>6. CASE FailConflict \/ LookupFails
  <2>1. /\ UNCHANGED <<problem, assignments, level>>
        /\ pc \in {"resolve", "decide"} /\ pc' \in {"conflict", "error"}
    BY <1>6 DEF FailConflict, LookupFails, search
  <2>2. Verdict = "none" /\ Verdict' \in {"conflict", "error"} BY <2>1 DEF Verdict
  <2>3. DepthFirst!GiveUp BY <2>1, <2>2, <1>0 DEF DepthFirst!GiveUp
  <2>4. QED BY <2>1, <2>3, <1>0 DEF DepthFirst!Next
<1>7. CASE UNCHANGED vars
  BY <1>7, <1>0 DEF vars, Verdict
<1>8. QED BY <1>1, <1>2, <1>3, <1>4, <1>5, <1>6, <1>7 DEF Next

(***************************************************************************)
(* Solve implements the depth-first search: what its caller can tell of    *)
(* it, for every set of problems, is that it chooses admitted versions one *)
(* by one, undoes the newest, and returns only what meets every require.   *)
(***************************************************************************)
THEOREM ImplementsSearch == Spec => SearchRefined
<1>1. Init => TypeInv /\ SearchInv /\ StackInv BY InitType, InitSearch, InitStack
<1>2. TypeInv /\ SearchInv /\ StackInv /\ [Next]_vars => (TypeInv /\ SearchInv /\ StackInv)'
  BY TypeStep, SearchStep, RefinementStep
<1>3. Init => DepthFirst!Init BY InitStack DEF DepthFirst!Init
<1>4. TypeInv /\ SearchInv /\ StackInv /\ [Next]_vars => [DepthFirst!Next]_<<problem, Stack, Verdict>>
  BY RefinementStep
<1>5. QED BY <1>1, <1>2, <1>3, <1>4, PTL DEF Spec, SearchRefined, DepthFirst!Spec
===============================================================================
