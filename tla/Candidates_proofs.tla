-------------------------- MODULE Candidates_proofs --------------------------
(***************************************************************************)
(* Facts about the candidates of a package, for every registry, platform   *)
(* and stability: there is a newest one, a required branch is found, and   *)
(* the outdated report promises what update does, or less.                 *)
(***************************************************************************)
EXTENDS VersionCases, Constraints_proofs, OrderedSets_proofs

\* Rows whose versions parse, which is what AdmittedRows keeps.
Parsed(rows) ==
  /\ IsFiniteSet(rows)
  /\ \A r \in rows : r.version \in Literal /\ ParseVersion(r.version) # ParseError

LEMMA RowsAreOrdered ==
  ASSUME NEW rows, Parsed(rows), NEW r \in rows, NEW s \in rows, NEW t \in rows
  PROVE  /\ IsOrdered(ParseVersion(r.version), ParseVersion(s.version), ParseVersion(t.version))
         /\ Compare(ParseVersion(r.version), ParseVersion(s.version)) \in Int
<1> DEFINE V(x) == ParseVersion(x.version)
<1>1. \A x \in rows : Comparable(V(x)) BY ParsedType DEF Parsed
<1> HIDE DEF V
<1>2. IsOrdered(V(r), V(s), V(t)) BY <1>1, ComparablesAreOrdered
<1>3. Compare(V(r), V(s)) \in Int
  <2>1. PureDev(V(r)) \/ PureDev(V(s)) => Compare(V(r), V(s)) \in Int
    BY <1>1, BranchSign DEF cmpInt
  <2>2. ~ PureDev(V(r)) /\ ~ PureDev(V(s)) => Compare(V(r), V(s)) \in Int
    BY <1>1, ReleaseSign
  <2>3. QED BY <2>1, <2>2
<1>4. QED BY <1>2, <1>3 DEF V

(***************************************************************************)
(* A package has a newest candidate whenever it has one (resolver/         *)
(* decide.go takes the first of the sorted list): Compare is a total       *)
(* preorder, so a version with the most others below it is above them all, *)
(* and two that are newest are equal to Compare.                           *)
(***************************************************************************)
THEOREM NewestExists ==
  ASSUME NEW rows, Parsed(rows), rows # {}
  PROVE  /\ Newest(rows) # {}
         /\ \A r, s \in Newest(rows) : Compare(ParseVersion(r.version), ParseVersion(s.version)) = 0
<1> DEFINE C(r, s)  == Compare(ParseVersion(r.version), ParseVersion(s.version))
           Below(r) == {s \in rows : C(s, r) <= 0}
           N        == {Cardinality(Below(r)) : r \in rows}
<1>1. \A r, s, t \in rows : /\ C(r, s) \in Int
                            /\ C(r, s) = - C(s, r)
                            /\ C(r, s) <= 0 /\ C(s, t) <= 0 => C(r, t) <= 0
  BY RowsAreOrdered DEF IsOrdered
<1>2. Newest(rows) = {r \in rows : \A s \in rows : C(r, s) >= 0} BY DEF Newest
<1> HIDE DEF C
<1>3. \A r \in rows : /\ IsFiniteSet(Below(r))
                      /\ Cardinality(Below(r)) \in Nat
                      /\ Cardinality(Below(r)) <= Cardinality(rows)
                      /\ Cardinality(rows) \in Nat
  <2> TAKE r \in rows
  <2>1. Below(r) \subseteq rows OBVIOUS
  <2> HIDE DEF Below
  <2>2. QED BY <2>1, FS_Subset, FS_CardinalityType DEF Parsed
<1> HIDE DEF Below
<1>4. N \subseteq Nat /\ N # {} BY <1>3
<1>5. IsFiniteSet(N)
  <2>1. Cardinality(rows) \in Nat BY FS_CardinalityType DEF Parsed
  <2>2. N \subseteq 0 .. Cardinality(rows) BY <1>3
  <2>3. IsFiniteSet(0 .. Cardinality(rows)) BY <2>1, FS_Interval
  <2> HIDE DEF N
  <2>4. QED BY <2>2, <2>3, FS_Subset
<1>6. PICK r \in rows : \A s \in rows : Cardinality(Below(r)) >= Cardinality(Below(s))
  <2>1. Greatest(N) \in N /\ \A n \in N : Greatest(N) >= n
    <3> HIDE DEF N
    <3>1. QED BY <1>4, <1>5, GreatestExists
  <2>2. QED BY <2>1
<1>7. ASSUME NEW s \in rows, C(r, s) < 0 PROVE FALSE
  <2>1. Below(r) \subseteq Below(s) BY <1>1, <1>7 DEF Below
  <2>2. s \in Below(s) BY <1>1 DEF Below
  <2>3. s \notin Below(r)
    <3>1. C(s, r) = - C(r, s) /\ C(s, r) \in Int /\ C(r, s) \in Int BY <1>1
    <3>2. QED BY <3>1, <1>7 DEF Below
  <2>4. Cardinality(Below(r)) <= Cardinality(Below(s)) /\ Cardinality(Below(r)) # Cardinality(Below(s))
    BY <2>1, <2>2, <2>3, <1>3, FS_Subset
  <2>5. QED BY <2>4, <1>3, <1>6
<1>8. Newest(rows) # {} BY <1>1, <1>2, <1>6, <1>7
<1>9. \A s, t \in Newest(rows) : C(s, t) = 0
  <2> TAKE s, t \in Newest(rows)
  <2>1. s \in rows /\ t \in rows /\ C(s, t) >= 0 /\ C(t, s) >= 0 BY <1>2
  <2>2. C(s, t) = - C(t, s) /\ C(s, t) \in Int /\ C(t, s) \in Int BY <1>1, <2>1
  <2>3. QED BY <2>1, <2>2
<1>10. QED BY <1>8, <1>9 DEF C

LEMMA StabilityOfName == ASSUME NEW s PROVE parseStabilityName(s) \in 0 .. 4
BY DEF parseStabilityName, Dev, Alpha, Beta, RC, Stable

\* Without a flag the floor is the minimum stability.
LEMMA FloorWithoutFlags ==
  ASSUME NEW m \in 0 .. 4, NEW texts, FlagsOf(texts) = {}
  PROVE  stabilityFloor(m, texts) = m
<1>1. {m} \cup {parseStabilityName(f) : f \in FlagsOf(texts)} = {m} OBVIOUS
<1>2. \A s \in {m} : s <= m OBVIOUS
<1>3. QED BY <1>1, <1>2 DEF stabilityFloor

\* A flag only lowers the floor.
LEMMA FloorIsLow ==
  ASSUME NEW m \in 0 .. 4, NEW texts
  PROVE  stabilityFloor(m, texts) \in 0 .. 4 /\ stabilityFloor(m, texts) <= m
<1> DEFINE floors == {m} \cup {parseStabilityName(f) : f \in FlagsOf(texts)}
<1>1. floors \subseteq Nat /\ floors # {} /\ \A s \in floors : s \in 0 .. 4
  BY StabilityOfName
<1> HIDE DEF floors
<1>2. \E s \in floors : \A t \in floors : s <= t
  BY <1>1, LeastExists
<1>3. stabilityFloor(m, texts) = CHOOSE s \in floors : \A t \in floors : s <= t
  BY DEF stabilityFloor, floors
<1>4. stabilityFloor(m, texts) \in floors /\ \A t \in floors : stabilityFloor(m, texts) <= t
  BY <1>2, <1>3
<1>5. m \in floors
  BY DEF floors
<1> QED
  BY <1>1, <1>4, <1>5

(***************************************************************************)
(* outdated and update agree on the version they want: they list the       *)
(* candidates of a package in two places (cli/outdated.go, resolver/       *)
(* versions.go) and read the minimum stability with two functions.  This   *)
(* is so when the two functions read the name alike (not "Rc"), when the   *)
(* require has no "@" flag and names no single branch, and when some       *)
(* candidate satisfies it; with a flag or a branch they do differ.         *)
(***************************************************************************)
THEOREM OutdatedWantsWhatUpdatePicks ==
  ASSUME NEW rows, NEW current, NEW minStab, NEW text,
         parseStabilityName(minStab) = outdatedFloor(minStab),
         FlagsOf({text}) = {}, AllowedBranches({text}) = {},
         UpdatePicks(rows, minStab, text) # {}
  PROVE  Wanted(rows, current, {text}, outdatedFloor(minStab)) \in {{}, UpdatePicks(rows, minStab, text)}
<1> DEFINE floor  == parseStabilityName(minStab)
           listed == versions(rows, floor, {text}, FALSE, NoPlatform, {})
           picks  == Picks(listed, Parse(text))
<1>0. picks = UpdatePicks(rows, minStab, text) BY DEF UpdatePicks
<1>1. floor \in 0 .. 4 BY StabilityOfName
<1> HIDE DEF floor
<1>2. stabilityFloor(floor, {text}) = floor BY <1>1, FloorWithoutFlags
<1>3. listed = OutdatedRows(rows, floor)
  <2>1. listed = AdmittedRows(rows, floor, {text}) BY DEF versions
  <2>2. AdmittedRows(rows, floor, {text}) = OutdatedRows(rows, floor)
    BY <1>2 DEF AdmittedRows, OutdatedRows
  <2>3. QED BY <2>1, <2>2
<1> HIDE DEF listed
<1> DEFINE matching == {r \in listed : \A t \in {text} : AdmittedBy(Parse(t), ParseVersion(r.version))}
<1>4. matching = {r \in listed : AdmittedBy(Parse(text), ParseVersion(r.version))} OBVIOUS
<1>5. Newest(matching) = picks BY <1>4 DEF Picks
<1>6. Wanted(rows, current, {text}, floor) \in {{}, OrElse(Newest(matching), {current})}
  BY <1>3 DEF Wanted
<1>7. OrElse(Newest(matching), {current}) = picks BY <1>0, <1>5 DEF OrElse
<1>8. QED BY <1>0, <1>6, <1>7 DEF floor

(***************************************************************************)
(* Whatever the require says, flags and branches included, outdated calls  *)
(* no version wanted that is above the ones update picks: what it lists of *)
(* a package, update lists too, and perhaps more.  The registry lists      *)
(* finitely many versions, and the two read the minimum stability alike.   *)
(***************************************************************************)
THEOREM OutdatedPromisesNoMore ==
  ASSUME NEW rows, NEW current, NEW minStab, NEW text,
         IsFiniteSet(rows), \A r \in rows : r.version \in Literal,
         parseStabilityName(minStab) = outdatedFloor(minStab)
  PROVE  OutdatedNeverPromisesMore(rows, current, minStab, text)
<1> DEFINE V(r)   == ParseVersion(r.version)
           floor  == parseStabilityName(minStab)
           listed == versions(rows, floor, {text}, FALSE, NoPlatform, {})
           matching == {r \in listed : AdmittedBy(Parse(text), V(r))}
           reported == {r \in OutdatedRows(rows, floor) : \A t \in {text} : AdmittedBy(Parse(t), V(r))}
<1>1. UpdatePicks(rows, minStab, text) = Newest(matching) BY DEF UpdatePicks, Picks
<1>2. Wanted(rows, current, {text}, outdatedFloor(minStab)) \ {current} \subseteq Newest(reported)
  BY DEF Wanted, OrElse
<1>3. floor \in 0 .. 4 BY StabilityOfName
<1> HIDE DEF floor
<1>4. stabilityFloor(floor, {text}) \in 0 .. 4 /\ stabilityFloor(floor, {text}) <= floor
  BY <1>3, FloorIsLow
<1>5. ASSUME NEW r \in rows, V(r) # ParseError PROVE V(r).stability \in Int
  BY <1>5, ParsedType, ComparableType
<1>6. reported \subseteq matching
  <2> SUFFICES ASSUME NEW r \in reported PROVE r \in matching OBVIOUS
  <2>1. r \in rows /\ V(r) # ParseError /\ V(r).stability >= floor /\ AdmittedBy(Parse(text), V(r))
    BY DEF OutdatedRows
  <2>2. V(r).stability >= stabilityFloor(floor, {text}) BY <1>3, <1>4, <1>5, <2>1
  <2>3. r \in AdmittedRows(rows, floor, {text}) BY <2>1, <2>2 DEF AdmittedRows
  <2>4. r \in listed BY <2>3 DEF versions
  <2> QED BY <2>1, <2>4
<1>7. Parsed(matching)
  <2>1. matching \subseteq rows /\ \A r \in matching : V(r) # ParseError
    BY DEF versions, AdmittedRows
  <2> HIDE DEF matching
  <2> QED BY <2>1, FS_Subset DEF Parsed
<1> HIDE DEF matching, reported, listed
<1> SUFFICES ASSUME NEW r \in Newest(reported)
             PROVE  /\ Newest(matching) # {}
                    /\ \A s \in Newest(matching) : Compare(V(s), V(r)) >= 0
  BY <1>1, <1>2 DEF OutdatedNeverPromisesMore
<1>8. r \in matching BY <1>6 DEF Newest
<1>9. Newest(matching) # {} BY <1>7, <1>8, NewestExists
<1>10. \A s \in Newest(matching) : Compare(V(s), V(r)) >= 0 BY <1>8 DEF Newest
<1> QED BY <1>9, <1>10

-----------------------------------------------------------------------------
(***************************************************************************)
(* The cases of VersionCases: the properties hold of every case, for all   *)
(* sets of literals, texts, registries and platforms.                      *)
(***************************************************************************)
CaseInv ==
  /\ input.of = "order" => input.u \in ParsedVersions /\ input.v \in ParsedVersions /\ input.w \in ParsedVersions
  /\ input.of = "match" => input.l \in Releases /\ input.r \in Releases /\ input.w \in ParsedVersions
  /\ input.of = "list" => input.rows \in Registries /\ input.text \in Texts
  /\ input.of = "outdated" => input.rows \in Registries /\ input.minStab \in MinimumStabilities

LEMMA CasesAreTyped == Cases => []CaseInv
<1>1. Unasked => CaseInv
  BY DEF Unasked, CaseInv
<1>2. CaseInv /\ [Asking]_input => CaseInv'
  <2> SUFFICES ASSUME CaseInv, [Asking]_input PROVE CaseInv'
    OBVIOUS
  <2>1. CASE Ordering BY <2>1 DEF Ordering, CaseInv
  <2>2. CASE Matching BY <2>2 DEF Matching, CaseInv
  <2>3. CASE Listing BY <2>3 DEF Listing, CaseInv
  <2>4. CASE Reporting BY <2>4 DEF Reporting, CaseInv
  <2>5. CASE UNCHANGED input BY <2>5 DEF CaseInv
  <2> QED BY <2>1, <2>2, <2>3, <2>4, <2>5 DEF Asking
<1> QED
  BY <1>1, <1>2, PTL DEF Cases

\* Compare orders any three versions that some literals are parsed to.
THEOREM EveryCaseIsOrdered == Cases => []VersionsAreOrdered
<1>1. ASSUME NEW v \in ParsedVersions PROVE Comparable(v)
  BY <1>1, LiteralsAssumption, ParsedType DEF ParsedVersions
<1>2. CaseInv => VersionsAreOrdered
  BY <1>1, ComparablesAreOrdered DEF CaseInv, VersionsAreOrdered
<1> QED
  BY <1>2, CasesAreTyped, PTL

\* What outdated calls wanted is what update picks for a require without a flag
\* that names no branch and that some candidate satisfies, and never above it for
\* the others; for the names of stabilities both read alike, whatever the registry
\* and the version in the lock.
THEOREM EveryReportIsTrue == Cases => []ReportIsTrue
<1>1. ASSUME NEW s \in MinimumStabilities PROVE parseStabilityName(s) = outdatedFloor(s)
  BY <1>1 DEF MinimumStabilities, parseStabilityName, outdatedFloor
<1>2. CaseInv => ReportIsTrue
  <2> SUFFICES ASSUME input.rows \in Registries, input.minStab \in MinimumStabilities
               PROVE  /\ OutdatedAgreesWithUpdate(input.rows, input.current, input.minStab, input.text)
                      /\ OutdatedNeverPromisesMore(input.rows, input.current, input.minStab, input.text)
    BY DEF CaseInv, ReportIsTrue
  <2>1. OutdatedAgreesWithUpdate(input.rows, input.current, input.minStab, input.text)
    BY <1>1, OutdatedWantsWhatUpdatePicks DEF OutdatedAgreesWithUpdate
  <2>2. OutdatedNeverPromisesMore(input.rows, input.current, input.minStab, input.text)
    BY <1>1, RegistriesAssumption, OutdatedPromisesNoMore
  <2> QED BY <2>1, <2>2
<1> QED
  BY <1>2, CasesAreTyped, PTL

LEMMA FromIntsIsVersion ==
  ASSUME NEW segs \in Seq(Int), NEW s \in Stability
  PROVE  FromInts(segs, s) \in Version
<1>1. Segment(segs, 1) \in Int /\ Segment(segs, 2) \in Int /\ Segment(segs, 3) \in Int
  BY DEF Segment
<1>2. "" \in Branch
  BY BranchAssumption
<1>3. "" \in Flags
  BY DEF Flags
<1> HIDE DEF Segment
<1> QED
  BY <1>1, <1>2, <1>3 DEF FromInts, Version

\* A version stays one when its branch, or its number, and its flag are set.
LEMMA VersionWith ==
  ASSUME NEW v \in Version, NEW b \in Branch, NEW n \in Nat, NEW f \in Flags
  PROVE  /\ [v EXCEPT !.branch = b, !.flag = f] \in Version
         /\ [v EXCEPT !.preNum = n, !.flag = f] \in Version
BY DEF Version

LEMMA ParsedIsVersion ==
  ASSUME NEW l \in Literal, ParseVersion(l) # ParseError
  PROVE  ParseVersion(l) \in Version
<1>1. l.segs \in Seq(Int) /\ l.text \in Branch /\ l.num \in Nat /\ l.flag \in Flags /\ l.form \in {"num", "alias", "dev"}
  BY LiteralType
<1>2. <<>> \in Seq(Int)
  OBVIOUS
<1>3. CASE l.form = "dev"
  <2>1. ParseVersion(l) = [FromInts(<<>>, Dev) EXCEPT !.branch = l.text, !.flag = l.flag]
    BY <1>3 DEF ParseVersion
  <2>2. PICK v \in Version : v = FromInts(<<>>, Dev)
    BY <1>2, FromIntsIsVersion, StabilityType
  <2>3. [v EXCEPT !.branch = l.text, !.flag = l.flag] \in Version
    BY <1>1, VersionWith
  <2> QED
    BY <2>1, <2>2, <2>3
<1>4. CASE l.form = "alias"
  <2>1. ParseVersion(l) = [FromInts(l.segs, Dev) EXCEPT !.branch = l.text, !.flag = l.flag]
    BY <1>4 DEF ParseVersion
  <2>2. PICK v \in Version : v = FromInts(l.segs, Dev)
    BY <1>1, FromIntsIsVersion, StabilityType
  <2>3. [v EXCEPT !.branch = l.text, !.flag = l.flag] \in Version
    BY <1>1, VersionWith
  <2> QED
    BY <2>1, <2>2, <2>3
<1>5. CASE l.form = "num"
  <2>1. ParseVersion(l) = [FromInts(l.segs, TagStability(l.tag)) EXCEPT !.preNum = TagNumber(l.tag, l.num), !.flag = l.flag]
    BY <1>5 DEF ParseVersion
  <2>2. TagNumber(l.tag, l.num) \in Nat
    BY <1>1 DEF TagNumber
  <2>3. PICK v \in Version : v = FromInts(l.segs, TagStability(l.tag))
    BY <1>1, FromIntsIsVersion, StabilityType
  <2>4. [v EXCEPT !.preNum = TagNumber(l.tag, l.num), !.flag = l.flag] \in Version
    BY <1>1, <2>2, VersionWith
  <2> QED
    BY <2>1, <2>3, <2>4
<1> QED
  BY <1>1, <1>3, <1>4, <1>5

\* The lists of terms that are joined are no errors, and neither is the result.
LEMMA JoinedTerms ==
  ASSUME NEW a \in Seq(Term), NEW b \in Seq(Term)
  PROVE  Joined(a, b) # ParseError
<1>1. a \o b \in Seq(Term)
  OBVIOUS
<1>2. a # ParseError /\ b # ParseError /\ a \o b # ParseError
  BY <1>1, ParseErrorAssumption
<1> QED
  BY <1>2 DEF Joined

LEMMA SingleTerm ==
  ASSUME NEW op \in {"<", "<=", ">="}, NEW v \in Version
  PROVE  <<[op |-> op, v |-> v]>> \in Seq(Term)
BY DEF Term

\* What is needed of the literals that ranges are written with.
LEMMA ReleaseType ==
  ASSUME NEW l \in Releases
  PROVE  /\ l \in Literal /\ ParseVersion(l) # ParseError /\ PlainNumber(l)
         /\ l.segs \in Seq(Nat) /\ Len(l.segs) \in 1 .. 4 /\ l.flag = ""
         /\ \A i \in 1 .. Len(l.segs) : l.segs[i] < MaxInt
         /\ ParseVersion(l).major # MaxInt /\ ParseVersion(l).minor # MaxInt
<1>1. l \in Literal /\ ParseVersion(l) # ParseError /\ PlainNumber(l) /\ l.flag = ""
  BY LiteralsAssumption, ReleasesAssumption DEF PlainNumber
<1>2. l.segs \in Seq(Nat) /\ Len(l.segs) >= 1 /\ \A i \in 1 .. Len(l.segs) : l.segs[i] < MaxInt
  <2>1. l.segs \in Seq(Nat)
    BY <1>1, LiteralType
  <2>2. DOMAIN l.segs = 1 .. Len(l.segs)
    BY <2>1
  <2> QED
    BY <2>1, <2>2, ReleasesAssumption
<1>3. Len(l.segs) \in 1 .. 4
  BY <1>1 DEF ParseVersion, PlainNumber
<1>4. ParseVersion(l).major = Segment(l.segs, 1) /\ ParseVersion(l).minor = Segment(l.segs, 2)
  BY <1>1, ParsedType DEF PlainNumber
<1>5. Segment(l.segs, 1) < MaxInt /\ Segment(l.segs, 2) < MaxInt
  BY <1>2, <1>3, MaxIntAssumption DEF Segment
<1>6. Segment(l.segs, 1) \in Nat /\ Segment(l.segs, 2) \in Nat
  BY <1>2, SegmentsAreNatural
<1>7. ParseVersion(l).major # MaxInt /\ ParseVersion(l).minor # MaxInt
  BY <1>4, <1>5, <1>6, MaxIntAssumption
<1> QED
  BY <1>1, <1>2, <1>3, <1>7

LEMMA LastIsBelow ==
  ASSUME NEW l \in Releases
  PROVE  l.segs[Len(l.segs)] # MaxInt
<1>1. l.segs \in Seq(Nat) /\ Len(l.segs) \in 1 .. 4 /\ \A i \in 1 .. Len(l.segs) : l.segs[i] < MaxInt
  BY ReleaseType
<1> DEFINE segs == l.segs
<1> HIDE DEF segs
<1>2. segs \in Seq(Nat) /\ Len(segs) \in 1 .. 4 /\ \A i \in 1 .. Len(segs) : segs[i] < MaxInt
  BY <1>1 DEF segs
<1>3. Len(segs) \in 1 .. Len(segs)
  BY <1>2
<1>4. segs[Len(segs)] < MaxInt
  BY <1>2, <1>3
<1>5. segs[Len(segs)] \in Nat
  BY <1>2, <1>3
<1> QED
  BY <1>4, <1>5, MaxIntAssumption DEF segs

LEMMA BumpedType ==
  ASSUME NEW segs \in Seq(Nat), Len(segs) \in 1 .. 4, segs[Len(segs)] # MaxInt
  PROVE  Bump(segs) \in Seq(Int)
<1> DEFINE n == Len(segs)
<1>1. segs \in Seq(Int) /\ n \in 1 .. 4
  OBVIOUS
<1>2. Inc(segs[n]) = segs[n] + 1
  BY DEF Inc
<1>3. segs[n] + 1 \in Int
  <2>1. n \in 1 .. Len(segs)
    <3>1. \A k \in 1 .. 4 : k \in 1 .. k
      OBVIOUS
    <3> QED
      BY <1>1, <3>1
  <2>2. segs[n] \in Int
    BY <1>1, <2>1
  <2> QED
    BY <2>2
<1> QED
  BY <1>1, <1>2, <1>3 DEF Bump

LEMMA HyphenParses ==
  ASSUME NEW l \in Releases, NEW r \in Releases
  PROVE  hyphenRangeTerms(l, r) # ParseError
<1>1. ParseVersion(l) \in Version /\ ParseVersion(r) \in Version
  BY ReleaseType, ParsedIsVersion
<1>2. Single(">=", l) \in Seq(Term) /\ Single("<=", r) \in Seq(Term)
  <2>1. /\ Single(">=", l) = <<[op |-> ">=", v |-> ParseVersion(l)]>>
        /\ Single("<=", r) = <<[op |-> "<=", v |-> ParseVersion(r)]>>
    BY ReleaseType DEF Single, IfParsed
  <2> QED
    BY <1>1, <2>1, SingleTerm
<1>0. TextParts(r) = Len(r.segs)
  BY ReleaseType, PlainParts
<1>3. CASE Len(r.segs) >= 3
  BY <1>0, <1>2, <1>3, JoinedTerms DEF hyphenRangeTerms
<1>4. CASE Len(r.segs) < 3
  <2>1. r.segs \in Seq(Nat) /\ Len(r.segs) \in 1 .. 4 /\ \A i \in 1 .. Len(r.segs) : r.segs[i] < MaxInt
    BY ReleaseType
  <2>2. Bump(r.segs) \in Seq(Int)
    BY <2>1, LastIsBelow, BumpedType
  <2>3. <<[op |-> "<", v |-> versionFromInts(Bump(r.segs))]>> \in Seq(Term)
    BY <2>2, FromIntsIsVersion, StabilityType, SingleTerm DEF versionFromInts
  <2>4. r.segs # <<>> /\ ~ Len(r.segs) >= 3
    <3> DEFINE segs == r.segs
    <3>1. segs \in Seq(Nat) /\ Len(segs) \in 1 .. 4 /\ Len(segs) < 3
      BY <1>4, <2>1
    <3> HIDE DEF segs
    <3>2. segs # <<>> /\ ~ Len(segs) >= 3
      BY <3>1
    <3> QED
      BY <3>2 DEF segs
  <2>5. \A i \in DOMAIN r.segs : r.segs[i] <= MaxInt
    <3> DEFINE segs == r.segs
    <3>1. segs \in Seq(Nat) /\ \A i \in 1 .. Len(segs) : segs[i] < MaxInt
      BY <2>1
    <3> HIDE DEF segs
    <3>2. ASSUME NEW i \in DOMAIN segs PROVE segs[i] <= MaxInt
      <4>1. i \in 1 .. Len(segs) /\ segs[i] \in Nat
        BY <3>1
      <4>2. segs[i] < MaxInt
        BY <3>1, <4>1
      <4> QED
        BY <4>1, <4>2, MaxIntAssumption
    <3> QED
      BY <3>2 DEF segs
  <2>6. r.form = "num" /\ r.tag = "" /\ r.flag = ""
    BY ReleaseType DEF PlainNumber
  <2>7. hyphenRangeTerms(l, r) = Joined(Single(">=", l), <<[op |-> "<", v |-> versionFromInts(Bump(r.segs))]>>)
    BY <1>0, <2>4, <2>5, <2>6, Zenon DEF hyphenRangeTerms
  <2> QED
    BY <1>2, <2>3, <2>7, JoinedTerms
<1> QED
  <2>1. Len(r.segs) \in 1 .. 4
    BY ReleaseType
  <2> QED
    BY <1>3, <1>4, <2>1

\* Every caret, tilde, wildcard and hyphen range written with a release admits the
\* versions of its series and no others.
THEOREM EveryRangeMeansItsSeries == Cases => []RangesMeanTheirSeries
<1>1. ASSUME NEW l \in Releases, NEW r \in Releases, NEW w \in ParsedVersions
      PROVE  /\ CaretIsSeries(l, w)
             /\ TildeIsSeries(l, w)
             /\ Len(l.segs) <= 3 => WildcardIsSeries(l.segs, w)
             /\ HyphenIsInterval(l, r, w)
  <2>1. PICK k \in Literal : w = ParseVersion(k) /\ w # ParseError
    BY LiteralsAssumption DEF ParsedVersions
  <2>2. CaretIsSeries(l, w)
    BY <2>1, ReleaseType, CaretMeansItsSeries DEF PlainNumber
  <2>3. TildeIsSeries(l, w)
    BY <2>1, ReleaseType, TildeMeansItsSeries DEF PlainNumber
  <2>4. ASSUME Len(l.segs) <= 3 PROVE WildcardIsSeries(l.segs, w)
    <3>1. l.segs \in Seq(Nat) /\ Len(l.segs) \in 1 .. 3
      <4>1. l.segs \in Seq(Nat) /\ Len(l.segs) \in 1 .. 4
        BY ReleaseType
      <4>2. \A n \in 1 .. 4 : n <= 3 => n \in 1 .. 3
        OBVIOUS
      <4>3. Len(l.segs) \in 1 .. 3
        BY <2>4, <4>1, <4>2
      <4> QED
        BY <4>1, <4>3
    <3>2. l.segs[Len(l.segs)] # MaxInt
      BY LastIsBelow
    <3> QED
      BY <2>1, <3>1, <3>2, WildcardMeansItsSeries
  <2>5. HyphenIsInterval(l, r, w)
    <3>1. Len(r.segs) < 3 => r.segs[Len(r.segs)] # MaxInt
      BY LastIsBelow
    <3>2. hyphenRangeTerms(l, r) # ParseError
      BY HyphenParses
    <3> QED
      BY <2>1, <3>1, <3>2, ReleaseType, HyphenMeansItsInterval
  <2> QED
    BY <2>2, <2>3, <2>4, <2>5
<1>2. CaseInv => RangesMeanTheirSeries
  BY <1>1 DEF CaseInv, RangesMeanTheirSeries
<1> QED
  BY <1>2, CasesAreTyped, PTL

-----------------------------------------------------------------------------
(***************************************************************************)
(* A text of one version literal, and the branch it may name.              *)
(***************************************************************************)
LEMMA GluedOne == ASSUME NEW t PROVE glueOperatorSpaces(<<t>>) = <<t>>
<1> DEFINE ts == <<t>>
           Glued(i) == i \in 1..(Len(ts) - 1) /\ ts[i].op \in Operators /\ ~IsTerm(ts[i])
                       /\ IsPlain(ts[i + 1]) /\ ts[i + 1].lit.form # "dev"
           Kept == {i \in DOMAIN ts : ~Glued(i)}
           Whole(i) == IF Glued(i - 1) THEN [op |-> ts[i - 1].op, lit |-> ts[i].lit] ELSE ts[i]
           s == [i \in DOMAIN ts |-> Whole(i)]
<1>1. Len(ts) = 1 /\ DOMAIN ts = {1} /\ ts[1] = t
  OBVIOUS
<1>2. \A i : ~ Glued(i)
  <2>1. 1 .. (Len(ts) - 1) = {}
    BY <1>1
  <2> QED
    BY <2>1
<1> HIDE DEF Glued
<1>3. Kept = {1}
  BY <1>1, <1>2
<1>4. s = [i \in {1} |-> t]
  BY <1>1, <1>2
<1>5. Pick(s, {1}) = <<t>>
  <2>1. Cardinality({1}) = 1 /\ IsFiniteSet({1})
    BY FS_Singleton
  <2>2. Nth({1}, 1) = 1
    BY <2>1, NthInSet
  <2>3. Pick(s, {1}) = [k \in 1 .. 1 |-> t]
    BY <1>4, <2>1, <2>2 DEF Pick
  <2> QED
    BY <2>3
<1>6. glueOperatorSpaces(ts) = Pick(s, Kept)
  BY DEF glueOperatorSpaces, Glued
<1> QED
  BY <1>3, <1>5, <1>6

LEMMA NotAliased == ASSUME NEW t, t.op # "as" PROVE stripInlineAlias(<<t>>) = <<t>>
<1>1. {i \in 1 .. Len(<<t>>) : <<t>>[i].op = "as"} = {}
  OBVIOUS
<1> QED
  BY <1>1 DEF stripInlineAlias, SelectInSeq

LEMMA MaxOne == Max({1}) = 1
BY DEF Max

\* A text without "|" is one alternative; FoldLeft applies its step once.
LEMMA OneAlternative == ASSUME NEW t, t.op # "|" PROVE Alternatives(<<t>>) = <<<<t>>>>
<1> DEFINE ts == <<t>>
           step(acc, u) == IF u.op = "|" THEN Append(acc, <<>>) ELSE [acc EXCEPT ![Len(acc)] = Append(@, u)]
           body(f) == [s \in SUBSET (DOMAIN ts) |->
                         IF s = {} THEN <<<<>>>> ELSE step(f[s \ {Max(s)}], ts[Max(s)])]
           iter == CHOOSE f : f = body(f)
           g == [s \in SUBSET (DOMAIN ts) |-> IF s = {} THEN <<<<>>>> ELSE step(<<<<>>>>, t)]
<1>1. Alternatives(ts) = iter[DOMAIN ts]
  BY DEF Alternatives, FoldLeft, MapThenFoldSet
<1>2. DOMAIN ts = {1} /\ ts[1] = t
  OBVIOUS
<1>3. g = body(g)
  <2> HIDE DEF step
  <2>1. ASSUME NEW s \in SUBSET (DOMAIN ts), s # {}
        PROVE  s \ {Max(s)} = {} /\ ts[Max(s)] = t
    <3>1. s = {1}
      BY <1>2, <2>1
    <3> QED
      BY <1>2, <3>1, MaxOne
  <2>2. g[{}] = <<<<>>>>
    OBVIOUS
  <2> QED
    BY <2>1, <2>2
<1>4. iter = body(iter)
  <2> HIDE DEF body, g
  <2> QED
    BY <1>3
<1>5. iter[DOMAIN ts] = step(<<<<>>>>, t)
  <2> HIDE DEF step, iter
  <2>1. {1} \in SUBSET (DOMAIN ts) /\ {} \in SUBSET (DOMAIN ts)
    BY <1>2
  <2>2. \A s \in SUBSET (DOMAIN ts) :
          iter[s] = IF s = {} THEN <<<<>>>> ELSE step(iter[s \ {Max(s)}], ts[Max(s)])
    BY <1>4, Zenon
  <2>3. iter[{}] = <<<<>>>>
    BY <2>1, <2>2, Zenon
  <2>4. {1} # {} /\ {1} \ {1} = {}
    OBVIOUS
  <2>5. iter[{1}] = step(iter[{1} \ {Max({1})}], ts[Max({1})])
    BY <2>1, <2>2, <2>4, Zenon
  <2>6. iter[{1}] = step(iter[{}], t)
    BY <1>2, <2>4, <2>5, MaxOne, Zenon
  <2> QED
    BY <1>2, <2>3, <2>6
<1>6. step(<<<<>>>>, t) = <<<<t>>>>
  OBVIOUS
<1> QED
  BY <1>1, <1>5, <1>6

\* A text of one alternative has the clause of that alternative.
LEMMA OneClause ==
  ASSUME NEW alt, NEW ts, Alternatives(ts) = <<alt>>
  PROVE  Parse(ts) = Joined(<<>>, IfParsed(parseAndClause(glueOperatorSpaces(stripInlineAlias(alt))), LAMBDA c : <<c>>))
<1> DEFINE as == <<alt>>
           step(acc, u) == Joined(acc, IfParsed(parseAndClause(glueOperatorSpaces(stripInlineAlias(u))), LAMBDA c : <<c>>))
           body(f) == [s \in SUBSET (DOMAIN as) |->
                         IF s = {} THEN <<>> ELSE step(f[s \ {Max(s)}], as[Max(s)])]
           iter == CHOOSE f : f = body(f)
           g == [s \in SUBSET (DOMAIN as) |-> IF s = {} THEN <<>> ELSE step(<<>>, alt)]
<1>1. Parse(ts) = iter[DOMAIN as]
  BY DEF Parse, FoldLeft, MapThenFoldSet
<1>2. DOMAIN as = {1} /\ as[1] = alt
  OBVIOUS
<1>3. g = body(g)
  <2> HIDE DEF step
  <2>1. ASSUME NEW s \in SUBSET (DOMAIN as), s # {}
        PROVE  s \ {Max(s)} = {} /\ as[Max(s)] = alt
    <3>1. s = {1}
      BY <1>2, <2>1
    <3> QED
      BY <1>2, <3>1, MaxOne
  <2>2. g[{}] = <<>>
    OBVIOUS
  <2> QED
    BY <2>1, <2>2
<1>4. iter = body(iter)
  <2> HIDE DEF body, g
  <2> QED
    BY <1>3
<1> HIDE DEF step, iter
<1>5. {1} \in SUBSET (DOMAIN as) /\ {} \in SUBSET (DOMAIN as)
  BY <1>2
<1>6. \A s \in SUBSET (DOMAIN as) :
        iter[s] = IF s = {} THEN <<>> ELSE step(iter[s \ {Max(s)}], as[Max(s)])
  BY <1>4, Zenon
<1>7. iter[{}] = <<>>
  BY <1>5, <1>6, Zenon
<1>8. {1} # {} /\ {1} \ {1} = {}
  OBVIOUS
<1>9. iter[{1}] = step(iter[{1} \ {Max({1})}], as[Max({1})])
  BY <1>5, <1>6, <1>8, Zenon
<1>10. iter[{1}] = step(iter[{}], alt)
  BY <1>2, <1>8, <1>9, MaxOne, Zenon
<1>11. Parse(ts) = step(<<>>, alt)
  BY <1>1, <1>2, <1>7, <1>10
<1> QED
  BY <1>11 DEF step

\* A clause of one token has the term of that token.
LEMMA OneTerm ==
  ASSUME NEW t, NEW term \in Term, parseTerm(t) = <<term>>
  PROVE  parseAndClause(<<t>>) = <<term>>
<1> DEFINE ts == <<t>>
           n == Len(ts)
           IsRange(i) == i + 2 <= n /\ ts[i + 1].op = "-"
           HyphenRange(l, r) == IF IsPlain(l) /\ IsPlain(r) THEN hyphenRangeTerms(l.lit, r.lit) ELSE ParseError
           body(f) == [i \in 1..(n + 1) |->
                         IF i > n THEN <<>>
                         ELSE IF IsRange(i) THEN Joined(HyphenRange(ts[i], ts[i + 2]), f[i + 3])
                         ELSE Joined(parseTerm(ts[i]), f[i + 1])]
           terms == CHOOSE f : f = body(f)
           g == [i \in 1..2 |-> IF i = 2 THEN <<>> ELSE Joined(<<term>>, <<>>)]
<1>1. n = 1 /\ ts[1] = t
  OBVIOUS
<1>2. parseAndClause(ts) = terms[1]
  BY <1>1 DEF parseAndClause
<1>3. ~ IsRange(1)
  BY <1>1
<1>4. g = body(g)
  <2> HIDE DEF IsRange, HyphenRange, n, ts
  <2>1. 1 .. (n + 1) = 1 .. 2 /\ \A i \in 1 .. 2 : (i > n <=> i = 2) /\ (i # 2 => i = 1)
    BY <1>1
  <2>2. g[2] = <<>> /\ g[1 + 1] = <<>>
    OBVIOUS
  <2> QED
    BY <1>1, <1>3, <2>1, <2>2
<1>5. terms = body(terms)
  <2> HIDE DEF body, g
  <2> QED
    BY <1>4
<1> HIDE DEF terms, IsRange, HyphenRange, n, ts
<1>6. \A i \in 1 .. 2 : terms[i] = IF i > n THEN <<>>
                         ELSE IF IsRange(i) THEN Joined(HyphenRange(ts[i], ts[i + 2]), terms[i + 3])
                         ELSE Joined(parseTerm(ts[i]), terms[i + 1])
  <2>1. 1 .. (n + 1) = 1 .. 2
    BY <1>1
  <2> QED
    BY <1>5, <2>1, Zenon
<1>7. terms[2] = <<>>
  BY <1>1, <1>6
<1>8. terms[1] = Joined(<<term>>, terms[2])
  BY <1>1, <1>3, <1>6
<1>9. Joined(<<term>>, <<>>) = <<term>>
  <2>1. <<term>> \in Seq(Term) /\ <<>> \in Seq(Term) /\ <<term>> \o <<>> = <<term>>
    OBVIOUS
  <2> QED
    BY <2>1, ParseErrorAssumption DEF Joined
<1> QED
  BY <1>2, <1>7, <1>8, <1>9 DEF ts

\* Neither the term nor the clause is an error.
LEMMA NotErrors ==
  ASSUME NEW term \in Term
  PROVE  /\ <<term>> # ParseError
         /\ Joined(<<>>, <<<<term>>>>) = <<<<term>>>>
<1> DEFINE terms == <<term>>
<1>1. terms \in Seq(Term)
  OBVIOUS
<1> HIDE DEF terms
<1>2. <<terms>> \in Seq(Seq(Term)) /\ <<>> \in Seq(Seq(Term)) /\ <<>> \o <<terms>> = <<terms>>
  BY <1>1
<1> QED
  BY <1>1, <1>2, ParseErrorAssumption DEF Joined, terms

\* A literal alone parses to "equal to it".
LEMMA BranchParses ==
  ASSUME NEW t, IsPlain(t), t.lit \in Literal, ParseVersion(t.lit) # ParseError
  PROVE  Parse(<<t>>) = <<<<[op |-> "=", v |-> ParseVersion(t.lit)]>>>>
<1> DEFINE term == [op |-> "=", v |-> ParseVersion(t.lit)]
<1>1. term \in Term
  BY ParsedIsVersion DEF Term
<1>2. t.op = "" /\ IsTerm(t)
  BY DEF IsPlain
<1>3. parseTerm(t) = <<term>>
  <2>1. parseTerm(t) = Single("=", t.lit)
    BY <1>2 DEF parseTerm
  <2> QED
    BY <2>1 DEF Single, IfParsed
<1> HIDE DEF term
<1>4. stripInlineAlias(<<t>>) = <<t>> /\ glueOperatorSpaces(<<t>>) = <<t>>
  BY <1>2, NotAliased, GluedOne
<1>5. parseAndClause(<<t>>) = <<term>>
  BY <1>1, <1>3, OneTerm
<1>6. Alternatives(<<t>>) = <<<<t>>>>
  BY <1>2, OneAlternative
<1>7. <<term>> # ParseError /\ Joined(<<>>, <<<<term>>>>) = <<<<term>>>>
  BY <1>1, NotErrors
<1>8. Parse(<<t>>) = Joined(<<>>, IfParsed(<<term>>, LAMBDA c : <<c>>))
  BY <1>4, <1>5, <1>6, OneClause
<1>9. IfParsed(<<term>>, LAMBDA c : <<c>>) = <<<<term>>>>
  BY <1>7 DEF IfParsed
<1> QED
  BY <1>7, <1>8, <1>9 DEF term

LEMMA NoSegments == <<>> \in Seq(Int) /\ Segment(<<>>, 1) = 0
BY DEF Segment

\* What a branch parses to.
LEMMA BranchType ==
  ASSUME NEW l \in Literal, l.form = "dev", l.text # "", NEW v, v = ParseVersion(l)
  PROVE  /\ v \in Version /\ v # ParseError /\ Comparable(v)
         /\ v.branch = l.text /\ v.stability = Dev /\ v.major = 0 /\ PureDev(v)
<1>1. /\ v = [FromInts(<<>>, Dev) EXCEPT !.branch = l.text, !.flag = l.flag]
      /\ l.text \in Branch /\ l.flag \in Flags
  BY LiteralType DEF ParseVersion
<1>2. v.branch = l.text /\ v.stability = Dev /\ v.major = 0
  BY <1>1, NoSegments DEF FromInts
<1>3. v \in Version
  <2>1. PICK u \in Version : u = FromInts(<<>>, Dev)
    BY NoSegments, FromIntsIsVersion, StabilityType
  <2>2. [u EXCEPT !.branch = l.text, !.flag = l.flag] \in Version
    BY <1>1, VersionWith
  <2> QED
    BY <1>1, <2>1, <2>2
<1> QED
  BY <1>2, <1>3, VersionIsComparable, ParseErrorAssumption DEF PureDev

\* A branch of a version is the text of its literal.
LEMMA BranchOfText ==
  ASSUME NEW k \in Literal, ParseVersion(k) # ParseError, ParseVersion(k).branch # ""
  PROVE  ParseVersion(k).branch = k.text
<1>1. k.form \in {"num", "alias", "dev"}
  BY LiteralType
<1>2. k.form # "num"
  BY ParsedType DEF NoBranch
<1>3. CASE k.form = "dev"
  BY <1>3 DEF ParseVersion, FromInts
<1>4. CASE k.form = "alias"
  BY <1>4 DEF ParseVersion, FromInts
<1> QED
  BY <1>1, <1>2, <1>3, <1>4

\* What one "=" admits: by number for an alias, by Compare for the others.
LEMMA EqualTerm ==
  ASSUME NEW v, NEW w
  PROVE  AdmittedBy(<<<<[op |-> "=", v |-> v]>>>>, w)
           <=> IF w.stability = Dev /\ w.major # 0 THEN compareNumeric(w, v) = 0 ELSE Compare(w, v) = 0
<1> DEFINE term == [op |-> "=", v |-> v]
           terms == <<term>>
<1>1. DOMAIN <<terms>> = {1} /\ <<terms>>[1] = terms
  OBVIOUS
<1>2. DOMAIN terms = {1} /\ terms[1] = term
  OBVIOUS
<1>3. AdmittedBy(<<terms>>, w) <=> Satisfies(term, w)
  <2> HIDE DEF terms, term
  <2> QED
    BY <1>1, <1>2 DEF AdmittedBy
<1>4. term.op = "=" /\ term.v = v
  OBVIOUS
<1> HIDE DEF term
<1>5. Satisfies(term, w) <=> IF w.stability = Dev /\ w.major # 0 THEN compareNumeric(w, v) = 0 ELSE Compare(w, v) = 0
  BY <1>4 DEF Satisfies
<1> QED
  BY <1>3, <1>5 DEF term

LEMMA BranchIsItself ==
  ASSUME NEW v, Comparable(v), PureDev(v)
  PROVE  Compare(v, v) = 0
<1>1. Compare(v, v) = cmpInt(TextRank[v.branch], TextRank[v.branch])
  BY BranchSign
<1> QED
  BY <1>1, ComparableType DEF cmpInt

\* Only a branch with the same name is equal to a branch.
LEMMA EqualToBranch ==
  ASSUME NEW v, NEW w, Comparable(v), Comparable(w), PureDev(v), v.major = 0,
         IF w.stability = Dev /\ w.major # 0 THEN compareNumeric(w, v) = 0 ELSE Compare(w, v) = 0
  PROVE  PureDev(w) /\ w.branch = v.branch
<1>1. compareNumeric(w, v) = 0 => w.major = v.major
  BY NumericSign DEF SameNumbers
<1>2. Compare(w, v) = 0
  BY <1>1
<1>3. PureDev(w)
  BY <1>2, BranchSign
<1>4. cmpInt(TextRank[w.branch], TextRank[v.branch]) = 0
  BY <1>2, <1>3, BranchSign
<1>5. TextRank[w.branch] = TextRank[v.branch]
  BY <1>4, ComparableType DEF cmpInt
<1> QED
  BY <1>3, <1>5, BranchAssumption DEF Comparable

\* What a branch admits: itself, and nothing with another name.
LEMMA BranchAdmits ==
  ASSUME NEW l \in Literal, l.form = "dev", l.text # "",
         NEW k \in Literal, ParseVersion(k) # ParseError,
         AdmittedBy(<<<<[op |-> "=", v |-> ParseVersion(l)]>>>>, ParseVersion(k))
  PROVE  k.text = l.text
<1> DEFINE v == ParseVersion(l)
           w == ParseVersion(k)
<1>1. Comparable(v) /\ v.branch = l.text /\ v.major = 0 /\ PureDev(v)
  BY BranchType
<1>2. Comparable(w)
  BY ParsedType
<1>3. w.branch # "" => w.branch = k.text
  BY BranchOfText
<1>4. IF w.stability = Dev /\ w.major # 0 THEN compareNumeric(w, v) = 0 ELSE Compare(w, v) = 0
  BY EqualTerm
<1> HIDE DEF v, w
<1>5. PureDev(w) /\ w.branch = v.branch
  BY <1>1, <1>2, <1>4, EqualToBranch
<1> QED
  BY <1>1, <1>3, <1>5 DEF PureDev

LEMMA BranchAdmitsItself ==
  ASSUME NEW l \in Literal, l.form = "dev", l.text # "", NEW v, v = ParseVersion(l)
  PROVE  Compare(v, v) = 0 /\ AdmittedBy(<<<<[op |-> "=", v |-> v]>>>>, v)
<1>1. Comparable(v) /\ v.major = 0 /\ PureDev(v)
  BY BranchType
<1>2. Compare(v, v) = 0
  BY <1>1, BranchIsItself
<1> QED
  BY <1>1, <1>2, EqualTerm

\* A require of one branch is met by that branch, whatever the registry, the
\* platform and the minimum stability.
THEOREM EveryBranchIsFound == Cases => []BranchIsFound
<1>1. ASSUME NEW rows \in Registries, NEW minStab, NEW text \in Texts, NEW p, NEW ignored
      PROVE  ExplicitBranchIsPicked(rows, minStab, text, p, ignored)
  <2>0. SUFFICES ASSUME NEW r \in rows,
                        /\ Len(text) = 1 /\ IsPlain(text[1]) /\ text[1].lit = r.version
                        /\ r.version.form = "dev" /\ r.version.text # ""
                        /\ Unpinned[r.version.text] = r.version.text
                        /\ versionInstallable(r, p, ignored)
                 PROVE  Picks(versions(rows, minStab, {text}, TRUE, p, ignored), Parse(text)) = {r}
    BY Zenon DEF ExplicitBranchIsPicked
  <2> DEFINE t == text[1]
             v == ParseVersion(r.version)
             raw == AdmittedRows(rows, minStab, {text})
             listed == versions(rows, minStab, {text}, TRUE, p, ignored)
             matching == {s \in listed : AdmittedBy(Parse(text), ParseVersion(s.version))}
  <2>1. text = <<t>>
    <3>1. text \in Seq(Token)
      BY TextsAssumption
    <3>2. Len(text) = 1
      BY <2>0
    <3> QED
      BY <3>1, <3>2
  <2>2. r.version \in Literal /\ r.version.flag = ""
    BY RegistriesAssumption
  <2>3. /\ v # ParseError /\ v.stability = Dev /\ v.branch = r.version.text
        /\ Compare(v, v) = 0
        /\ AdmittedBy(<<<<[op |-> "=", v |-> v]>>>>, v)
    BY <2>0, <2>2, BranchType, BranchAdmitsItself
  <2>4. Parse(text) = <<<<[op |-> "=", v |-> v]>>>>
    BY <2>0, <2>1, <2>2, <2>3, BranchParses
  <2>5. ExplicitDevBranch(text) = r.version.text
    BY <2>0, <2>2 DEF ExplicitDevBranch
  <2> HIDE DEF v
  <2>6. r \in raw
    <3>1. r.version.text \in AllowedBranches({text})
      BY <2>0, <2>5 DEF AllowedBranches
    <3> QED
      BY <2>3, <3>1 DEF AdmittedRows, v
  <2>7. listed \subseteq raw /\ r \in listed
    BY <2>0, <2>6 DEF versions, OrElse
  <2> HIDE DEF listed
  <2>8. r \in matching
    BY <2>3, <2>4, <2>7 DEF v
  <2>9. ASSUME NEW s \in matching PROVE s = r
    <3>1. s \in rows /\ ParseVersion(s.version) # ParseError
      BY <2>7 DEF AdmittedRows
    <3>2. s.version \in Literal
      BY <3>1, RegistriesAssumption
    <3>3. s.version.text = r.version.text
      BY <2>0, <2>2, <2>4, <3>1, <3>2, BranchAdmits DEF v
    <3> QED
      BY <2>0, <3>1, <3>3, RegistriesAssumption
  <2>10. matching = {r}
    BY <2>8, <2>9
  <2> HIDE DEF matching
  <2>11. Newest({r}) = {r}
    BY <2>3 DEF Newest, v
  <2> QED
    BY <2>10, <2>11 DEF Picks, matching, listed
<1>2. CaseInv => BranchIsFound
  BY <1>1, Zenon DEF CaseInv, BranchIsFound
<1> QED
  BY <1>2, CasesAreTyped, PTL
==============================================================================
