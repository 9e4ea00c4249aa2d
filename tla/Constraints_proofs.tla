-------------------------- MODULE Constraints_proofs --------------------------
(***************************************************************************)
(* Facts about versions and constraints that hold for all of them, however *)
(* large their numbers: versions are totally ordered, and the four forms   *)
(* of a range admit the versions they stand for.                           *)
(***************************************************************************)
EXTENDS Constraints, SequenceTheorems, TLAPS

-------------------------------------------------------------------------------
(***************************************************************************)
(* The order.                                                              *)
(***************************************************************************)
LowerNumbers(v, w) ==
  \/ v.major < w.major
  \/ v.major = w.major /\ v.minor < w.minor
  \/ v.major = w.major /\ v.minor = w.minor /\ v.patch < w.patch

SameNumbers(v, w) == v.major = w.major /\ v.minor = w.minor /\ v.patch = w.patch

\* A version without a branch is below another by its numbers, then its
\* stability, then the number of its pre-release.
Lower(v, w) ==
  \/ LowerNumbers(v, w)
  \/ SameNumbers(v, w) /\ v.stability < w.stability
  \/ SameNumbers(v, w) /\ v.stability = w.stability /\ v.preNum < w.preNum

Same(v, w) == SameNumbers(v, w) /\ v.stability = w.stability /\ v.preNum = w.preNum

\* What Compare looks at.
Comparable(v) ==
  /\ v.major \in Int /\ v.minor \in Int /\ v.patch \in Int
  /\ v.stability \in Stability /\ v.preNum \in Nat /\ v.branch \in Branch

LEMMA VersionIsComparable == ASSUME NEW v \in Version PROVE Comparable(v)
BY DEF Version, Comparable

LEMMA ComparableType ==
  ASSUME NEW v, Comparable(v)
  PROVE  /\ v.major \in Int /\ v.minor \in Int /\ v.patch \in Int
         /\ v.stability \in Int /\ 0 <= v.stability /\ v.stability <= 4
         /\ v.preNum \in Nat /\ TextRank[v.branch] \in Int
<1>1. v.stability \in 0 .. 4
  BY DEF Comparable, Stability, Dev, Stable
<1>2. TextRank[v.branch] \in Nat
  BY BranchAssumption DEF Comparable
<1> QED
  BY <1>1, <1>2 DEF Comparable

\* cmpInt tells less, equal and greater, and Then takes the first difference.
LEMMA NumericSign ==
  ASSUME NEW v, NEW w, Comparable(v), Comparable(w)
  PROVE  compareNumeric(v, w) = IF LowerNumbers(v, w) THEN -1 ELSE IF SameNumbers(v, w) THEN 0 ELSE 1
BY ComparableType DEF compareNumeric, Then, cmpInt, LowerNumbers, SameNumbers

LEMMA NumbersAreOrdered ==
  ASSUME NEW v, NEW w, Comparable(v), Comparable(w)
  PROVE  LowerNumbers(v, w) \/ SameNumbers(v, w) <=> ~ LowerNumbers(w, v)
BY ComparableType DEF LowerNumbers, SameNumbers

LEMMA NotAbove ==
  ASSUME NEW v, NEW w, NEW b, Comparable(v), Comparable(w), Comparable(b), SameNumbers(b, v)
  PROVE  compareNumeric(v, w) <= 0 <=> ~ LowerNumbers(w, b)
<1>1. compareNumeric(v, w) <= 0 <=> LowerNumbers(v, w) \/ SameNumbers(v, w)
  BY NumericSign
<1>2. LowerNumbers(v, w) \/ SameNumbers(v, w) <=> ~ LowerNumbers(w, b)
  BY ComparableType DEF LowerNumbers, SameNumbers
<1> QED
  BY <1>1, <1>2

LEMMA ReleaseSign ==
  ASSUME NEW v, NEW w, Comparable(v), Comparable(w), ~ PureDev(v), ~ PureDev(w)
  PROVE  Compare(v, w) = IF Lower(v, w) THEN -1 ELSE IF Same(v, w) THEN 0 ELSE 1
<1>1. Compare(v, w) = Then(compareNumeric(v, w),
                           Then(cmpInt(v.stability, w.stability), cmpInt(v.preNum, w.preNum)))
  BY DEF Compare
<1>2. CASE SameNumbers(v, w)
  <2>1. compareNumeric(v, w) = 0
    BY <1>2, NumericSign, ComparableType DEF SameNumbers, LowerNumbers
  <2> QED
    BY <1>1, <1>2, <2>1, ComparableType DEF Then, cmpInt, Lower, Same, SameNumbers, LowerNumbers
<1>3. CASE ~ SameNumbers(v, w)
  BY <1>1, <1>3, NumericSign DEF Then, Lower, Same
<1> QED
  BY <1>2, <1>3

\* Exactly one of lower, same and higher, and both are transitive.
LEMMA LowerIsOrder ==
  ASSUME NEW u, NEW v, NEW w, Comparable(u), Comparable(v), Comparable(w)
  PROVE  /\ Lower(u, v) => ~ Lower(v, u) /\ ~ Same(u, v)
         /\ Same(u, v) <=> Same(v, u)
         /\ Lower(u, v) \/ Same(u, v) \/ Lower(v, u)
         /\ Lower(u, v) /\ Lower(v, w) => Lower(u, w)
         /\ Lower(u, v) /\ Same(v, w) => Lower(u, w)
         /\ Same(u, v) /\ Lower(v, w) => Lower(u, w)
         /\ Same(u, v) /\ Same(v, w) => Same(u, w)
BY ComparableType DEF Lower, Same, LowerNumbers, SameNumbers

\* Branches compare as their texts do, and are below everything else.
LEMMA BranchSign ==
  ASSUME NEW v, NEW w, Comparable(v), Comparable(w)
  PROVE  /\ PureDev(v) /\ PureDev(w) => Compare(v, w) = cmpInt(TextRank[v.branch], TextRank[w.branch])
         /\ PureDev(v) /\ ~ PureDev(w) => Compare(v, w) = -1
         /\ ~ PureDev(v) /\ PureDev(w) => Compare(v, w) = 1
BY DEF Compare

LEMMA ComparablesAreOrdered ==
  ASSUME NEW u, NEW v, NEW w, Comparable(u), Comparable(v), Comparable(w)
  PROVE  IsOrdered(u, v, w)
<1>1. Compare(u, v) = - Compare(v, u)
  <2>1. CASE PureDev(u) /\ PureDev(v)
    BY <2>1, BranchSign, ComparableType DEF cmpInt
  <2>2. CASE (PureDev(u) /\ ~ PureDev(v)) \/ (~ PureDev(u) /\ PureDev(v))
    BY <2>2, BranchSign
  <2>3. CASE ~ PureDev(u) /\ ~ PureDev(v)
    BY <2>3, ReleaseSign, LowerIsOrder
  <2> QED
    BY <2>1, <2>2, <2>3
<1>2. /\ Compare(u, v) <= 0 /\ Compare(v, w) <= 0 => Compare(u, w) <= 0
      /\ Compare(u, v) = 0 /\ Compare(v, w) = 0 => Compare(u, w) = 0
  <2>1. CASE PureDev(u) /\ PureDev(v) /\ PureDev(w)
    BY <2>1, BranchSign, ComparableType DEF cmpInt
  <2>2. CASE PureDev(u) /\ ~ PureDev(w)
    BY <2>2, BranchSign, ComparableType
  <2>3. CASE PureDev(u) /\ ~ PureDev(v) /\ PureDev(w)
    BY <2>3, BranchSign
  <2>4. CASE ~ PureDev(u) /\ PureDev(v)
    BY <2>4, BranchSign
  <2>5. CASE ~ PureDev(u) /\ ~ PureDev(v) /\ PureDev(w)
    BY <2>5, BranchSign
  <2>6. CASE ~ PureDev(u) /\ ~ PureDev(v) /\ ~ PureDev(w)
    BY <2>6, ReleaseSign, LowerIsOrder
  <2> QED
    BY <2>1, <2>2, <2>3, <2>4, <2>5, <2>6
<1> QED
  BY <1>1, <1>2 DEF IsOrdered

\* Compare is a total preorder on all versions (constraint/version.go), as
\* sort.Slice over the candidates of a package needs it to be.
THEOREM VersionsAreTotallyOrdered ==
  \A u, v, w \in Version : IsOrdered(u, v, w)
BY VersionIsComparable, ComparablesAreOrdered

-------------------------------------------------------------------------------
(***************************************************************************)
(* What literals parse to.                                                 *)
(***************************************************************************)
NoBranch(v) == v.branch = ""

\* A number without a pre-release tag.
PlainNumber(l) == l.form = "num" /\ l.tag = ""

LEMMA LiteralType ==
  ASSUME NEW l \in Literal
  PROVE  /\ l.form \in {"num", "alias", "dev"} /\ l.segs \in Seq(Nat) /\ Len(l.segs) \in Nat
         /\ l.text \in Branch /\ l.num \in Nat /\ l.dots \in Nat /\ l.flag \in Flags
         /\ PlainNumber(l) => l.dots = 0
<1>1. l \in Spelling /\ (l.form = "num" /\ l.tag = "" => l.dots = 0)
  BY DEF Literal
<1>2. l.segs \in Seq(Nat)
  BY <1>1 DEF Spelling
<1>3. Len(l.segs) \in Nat
  BY <1>2
<1> QED
  BY <1>1, <1>2, <1>3 DEF Spelling, PlainNumber

\* A number without a tag has a part for every segment.
LEMMA PlainParts ==
  ASSUME NEW l \in Literal, PlainNumber(l)
  PROVE  BaseParts(l) = Len(l.segs) /\ TextParts(l) = Len(l.segs)
<1>1. l.form = "num" /\ l.dots = 0 /\ Len(l.segs) \in Nat
  BY LiteralType DEF PlainNumber
<1> QED
  BY <1>1 DEF TextParts, BaseParts

LEMMA NoBranchType ==
  ASSUME NEW v, NoBranch(v)
  PROVE  v.branch \in Branch /\ ~ PureDev(v)
<1>1. "" \in Branch
  BY BranchAssumption
<1> QED
  BY <1>1 DEF NoBranch, PureDev

LEMMA PureDevIsDev ==
  ASSUME NEW v, PureDev(v)
  PROVE  v.stability = Dev
BY DEF PureDev

LEMMA FromIntsType ==
  ASSUME NEW segs \in Seq(Int), NEW s \in Stability
  PROVE  /\ Comparable(FromInts(segs, s))
         /\ FromInts(segs, s).major = Segment(segs, 1) /\ FromInts(segs, s).minor = Segment(segs, 2)
         /\ FromInts(segs, s).patch = Segment(segs, 3) /\ FromInts(segs, s).stability = s
         /\ FromInts(segs, s).preNum = 0 /\ NoBranch(FromInts(segs, s))
<1>1. Segment(segs, 1) \in Int /\ Segment(segs, 2) \in Int /\ Segment(segs, 3) \in Int
  BY DEF Segment
<1>2. NoBranch(FromInts(segs, s))
  BY DEF NoBranch, FromInts
<1>3. FromInts(segs, s).branch \in Branch
  BY <1>2, NoBranchType
<1> QED
  BY <1>1, <1>2, <1>3 DEF FromInts, Comparable

LEMMA SegmentsAreNatural ==
  ASSUME NEW segs \in Seq(Nat), NEW i \in Nat \ {0}
  PROVE  Segment(segs, i) \in Nat
BY DEF Segment

LEMMA StabilityType == Dev \in Stability /\ Stable \in Stability /\ Dev # Stable /\ \A t : TagStability(t) \in Stability
BY DEF TagStability, Stability, Dev, Alpha, Beta, RC, Stable

\* A literal that parses has no negative number, and a stable one no pre-release.
LEMMA ParsedType ==
  ASSUME NEW l \in Literal, NEW v, v = ParseVersion(l), v # ParseError
  PROVE  /\ Comparable(v)
         /\ v.major >= 0 /\ v.minor >= 0 /\ v.patch >= 0
         /\ v.stability = Stable => v.preNum = 0
         /\ l.form = "num" =>
              /\ v.major = Segment(l.segs, 1) /\ v.minor = Segment(l.segs, 2) /\ v.patch = Segment(l.segs, 3)
              /\ NoBranch(v)
              /\ PlainNumber(l) => v.stability = Stable
<1>1. /\ l.form \in {"num", "alias", "dev"} /\ l.segs \in Seq(Nat) /\ l.segs \in Seq(Int)
      /\ l.text \in Branch /\ l.num \in Nat
  BY LiteralType
<1>2. /\ Segment(l.segs, 1) \in Nat /\ Segment(l.segs, 2) \in Nat /\ Segment(l.segs, 3) \in Nat
  BY <1>1, SegmentsAreNatural
<1>3. CASE l.form = "dev"
  <2>1. Segment(<<>>, 1) = 0 /\ Segment(<<>>, 2) = 0 /\ Segment(<<>>, 3) = 0
    BY DEF Segment
  <2>2. v = [FromInts(<<>>, Dev) EXCEPT !.branch = l.text, !.flag = l.flag]
    BY <1>3 DEF ParseVersion
  <2>3. /\ v.major = 0 /\ v.minor = 0 /\ v.patch = 0 /\ v.stability = Dev /\ v.preNum = 0 /\ v.branch = l.text
    BY <2>1, <2>2 DEF FromInts
  <2> QED
    BY <1>1, <1>3, <2>3, StabilityType DEF Comparable
<1>4. CASE l.form = "alias"
  <2>1. v = [FromInts(l.segs, Dev) EXCEPT !.branch = l.text, !.flag = l.flag]
    BY <1>4 DEF ParseVersion
  <2>2. /\ v.major = Segment(l.segs, 1) /\ v.minor = Segment(l.segs, 2) /\ v.patch = Segment(l.segs, 3)
        /\ v.stability = Dev /\ v.preNum = 0 /\ v.branch = l.text
    BY <2>1 DEF FromInts
  <2> QED
    BY <1>1, <1>2, <1>4, <2>2, StabilityType DEF Comparable
<1>5. CASE l.form = "num"
  <2> DEFINE s == TagStability(l.tag)
             n == TagNumber(l.tag, l.num)
  <2>1. v = [FromInts(l.segs, s) EXCEPT !.preNum = n, !.flag = l.flag]
    BY <1>5 DEF ParseVersion
  <2> HIDE DEF s, n
  <2>2. /\ v.major = Segment(l.segs, 1) /\ v.minor = Segment(l.segs, 2) /\ v.patch = Segment(l.segs, 3)
        /\ v.stability = s /\ v.preNum = n
    BY <2>1 DEF FromInts
  <2>3. n \in Nat /\ (s = Stable => n = 0)
    BY <1>1 DEF n, s, TagNumber, Alpha, RC, Stable
  <2>4. s \in Stability
    BY StabilityType DEF s
  <2>5. NoBranch(v)
    BY <2>1 DEF FromInts, NoBranch
  <2>6. v.branch \in Branch
    BY <2>5, NoBranchType
  <2>7. Comparable(v) /\ v.major >= 0 /\ v.minor >= 0 /\ v.patch >= 0
    BY <1>2, <2>2, <2>3, <2>4, <2>6 DEF Comparable
  <2>8. v.stability = Stable => v.preNum = 0
    BY <2>2, <2>3
  <2>9. PlainNumber(l) => v.stability = Stable
    BY <2>2 DEF PlainNumber, s, TagStability
  <2> QED
    BY <2>2, <2>5, <2>7, <2>8, <2>9
<1> QED
  BY <1>1, <1>3, <1>4, <1>5

\* A bound made of a few numbers has no branch.
LEMMA BoundType ==
  ASSUME NEW segs \in Seq(Int), NEW s \in Stability
  PROVE  ~ PureDev(FromInts(segs, s))
BY FromIntsType, NoBranchType

LEMMA OneNumber ==
  ASSUME NEW n \in Int, NEW s \in Stability, NEW b, b = FromInts(<<n>>, s)
  PROVE  /\ Comparable(b) /\ ~ PureDev(b) /\ b.stability = s /\ b.preNum = 0
         /\ b.major = n /\ b.minor = 0 /\ b.patch = 0
<1>1. <<n>> \in Seq(Int) /\ Segment(<<n>>, 1) = n /\ Segment(<<n>>, 2) = 0 /\ Segment(<<n>>, 3) = 0
  BY DEF Segment
<1> QED
  BY <1>1, FromIntsType, BoundType

LEMMA TwoNumbers ==
  ASSUME NEW n \in Int, NEW k \in Int, NEW s \in Stability, NEW b, b = FromInts(<<n, k>>, s)
  PROVE  /\ Comparable(b) /\ ~ PureDev(b) /\ b.stability = s /\ b.preNum = 0
         /\ b.major = n /\ b.minor = k /\ b.patch = 0
<1>1. /\ <<n, k>> \in Seq(Int)
      /\ Segment(<<n, k>>, 1) = n /\ Segment(<<n, k>>, 2) = k /\ Segment(<<n, k>>, 3) = 0
  BY DEF Segment
<1> QED
  BY <1>1, FromIntsType, BoundType

\* The lower bound of a caret or a tilde is the version itself, at dev stability.
LEMMA LowerBoundType ==
  ASSUME NEW l \in Literal, NEW v, v = ParseVersion(l), v # ParseError, PlainNumber(l)
  PROVE  LET lower == [v EXCEPT !.stability = Dev]
         IN /\ Comparable(lower) /\ ~ PureDev(lower) /\ lower.stability = Dev /\ lower.preNum = 0
            /\ lower.major = v.major /\ lower.minor = v.minor /\ lower.patch = v.patch
<1> DEFINE lower == [v EXCEPT !.stability = Dev]
           s == TagStability(l.tag)
           n == TagNumber(l.tag, l.num)
<1>0. l.form = "num"
  BY DEF PlainNumber
<1>1. v = [FromInts(l.segs, s) EXCEPT !.preNum = n, !.flag = l.flag]
  BY <1>0 DEF ParseVersion
<1>2. Comparable(v) /\ v.preNum = 0 /\ NoBranch(v)
  BY <1>0, ParsedType
<1> HIDE DEF s, n
<1>3. /\ lower.major = v.major /\ lower.minor = v.minor /\ lower.patch = v.patch
      /\ lower.stability = Dev /\ lower.preNum = v.preNum /\ lower.branch = v.branch
  BY <1>1 DEF FromInts
<1>4. NoBranch(lower)
  BY <1>2, <1>3 DEF NoBranch
<1>5. lower.branch \in Branch /\ ~ PureDev(lower)
  BY <1>4, NoBranchType
<1> QED
  BY <1>2, <1>3, <1>5, StabilityType DEF Comparable

-------------------------------------------------------------------------------
(***************************************************************************)
(* What a half-open range admits.                                          *)
(***************************************************************************)
\* Two terms, both to be satisfied.
LEMMA PairAdmits ==
  ASSUME NEW a, NEW b, NEW w
  PROVE  AdmittedBy(<<<<a, b>>>>, w) <=> Satisfies(a, w) /\ Satisfies(b, w)
<1>1. DOMAIN <<<<a, b>>>> = {1} /\ <<<<a, b>>>>[1] = <<a, b>>
  OBVIOUS
<1>2. DOMAIN <<a, b>> = {1, 2} /\ <<a, b>>[1] = a /\ <<a, b>>[2] = b
  OBVIOUS
<1> QED
  BY <1>1, <1>2 DEF AdmittedBy

\* Two parts, neither of them an error.
LEMMA JoinedPair ==
  ASSUME NEW a, NEW b, Joined(<<a>>, <<b>>) # ParseError
  PROVE  Joined(<<a>>, <<b>>) = <<a, b>>
<1> DEFINE s == <<a>>
           t == <<b>>
           st == s \o t
<1>1. s \in Seq({a, b}) /\ t \in Seq({a, b}) /\ Len(s) = 1 /\ Len(t) = 1 /\ s[1] = a /\ t[1] = b
  OBVIOUS
<1>2. st \in Seq({a, b}) /\ Len(st) = 2 /\ st[1] = a /\ st[2] = b
  BY <1>1
<1>3. <<a, b>> \in Seq({a, b}) /\ Len(<<a, b>>) = 2 /\ <<a, b>>[1] = a /\ <<a, b>>[2] = b
  OBVIOUS
<1>4. \A i \in 1 .. Len(st) : st[i] = <<a, b>>[i]
  <2> HIDE DEF st
  <2> SUFFICES ASSUME NEW i \in 1 .. 2
               PROVE  st[i] = <<a, b>>[i]
    BY <1>2
  <2> i = 1 \/ i = 2
    OBVIOUS
  <2> QED
    BY <1>2, <1>3
<1> HIDE DEF st
<1>5. st = <<a, b>>
  BY <1>2, <1>3, <1>4, SeqEqual
<1> QED
  BY <1>5 DEF Joined, st

LEMMA JoinedError == \A a : Joined(a, ParseError) = ParseError
BY DEF Joined

LEMMA BetweenAdmits ==
  ASSUME NEW a, NEW b, NEW w
  PROVE  AdmittedBy(<<Between(a, b)>>, w) <=>
           Satisfies([op |-> ">=", v |-> a], w) /\ Satisfies([op |-> "<", v |-> b], w)
BY PairAdmits DEF Between

\* Between dev-stability bounds a version is judged by its numbers alone, a branch
\* alias of a version other than 0 like all others.
LEMMA DevBound ==
  ASSUME NEW b, NEW w, Comparable(b), Comparable(w), ~ PureDev(b), b.stability = Dev, b.preNum = 0
  PROVE  /\ Satisfies([op |-> ">=", v |-> b], w) <=> HasNumbers(w) /\ ~ LowerNumbers(w, b)
         /\ Satisfies([op |-> "<", v |-> b], w) <=> ~ HasNumbers(w) \/ LowerNumbers(w, b)
<1> DEFINE c == IF w.stability = Dev /\ w.major # 0 THEN compareNumeric(w, b) ELSE Compare(w, b)
<1>2. CASE ~ HasNumbers(w)
  <2>1. PureDev(w) /\ w.major = 0
    BY <1>2 DEF HasNumbers
  <2>2. c = -1
    BY <2>1, BranchSign
  <2> QED
    BY <1>2, <2>2 DEF Satisfies
<1>3. CASE HasNumbers(w)
  <2>1. CASE w.stability = Dev /\ w.major # 0
    <3>1. c = compareNumeric(w, b)
      BY <2>1
    <3>2. c = IF LowerNumbers(w, b) THEN -1 ELSE IF SameNumbers(w, b) THEN 0 ELSE 1
      BY <3>1, NumericSign
    <3> QED
      BY <1>3, <3>2 DEF Satisfies
  <2>2. CASE ~ (w.stability = Dev /\ w.major # 0)
    <3>1. ~ PureDev(w) /\ c = Compare(w, b)
      BY <1>3, <2>2, PureDevIsDev DEF HasNumbers
    <3>2. c = IF Lower(w, b) THEN -1 ELSE IF Same(w, b) THEN 0 ELSE 1
      BY <3>1, ReleaseSign
    <3>3. ~ (w.stability < b.stability)
      BY ComparableType DEF Dev
    <3>4. ~ (w.preNum < b.preNum)
      BY ComparableType
    <3>5. Lower(w, b) <=> LowerNumbers(w, b)
      BY <3>3, <3>4 DEF Lower
    <3> QED
      BY <1>3, <3>2, <3>5 DEF Satisfies
  <2> QED
    BY <2>1, <2>2
<1> QED
  BY <1>2, <1>3

\* Between stable bounds, a stable version is judged by its numbers alone.
LEMMA StableBound ==
  ASSUME NEW b, NEW w, Comparable(b), Comparable(w), ~ PureDev(b), b.stability = Stable, b.preNum = 0,
         w.stability = Stable, w.preNum = 0
  PROVE  /\ Compare(w, b) = IF LowerNumbers(w, b) THEN -1 ELSE IF SameNumbers(w, b) THEN 0 ELSE 1
         /\ Satisfies([op |-> ">=", v |-> b], w) <=> ~ LowerNumbers(w, b)
         /\ Satisfies([op |-> "<", v |-> b], w) <=> LowerNumbers(w, b)
         /\ Satisfies([op |-> "<=", v |-> b], w) <=> LowerNumbers(w, b) \/ SameNumbers(w, b)
<1>1. ~ PureDev(w) /\ w.stability # Dev
  BY PureDevIsDev, StabilityType
<1>2. Compare(w, b) = IF Lower(w, b) THEN -1 ELSE IF Same(w, b) THEN 0 ELSE 1
  BY <1>1, ReleaseSign
<1>3. (Lower(w, b) <=> LowerNumbers(w, b)) /\ (Same(w, b) <=> SameNumbers(w, b))
  BY ComparableType DEF Lower, Same
<1>4. LowerNumbers(w, b) => ~ SameNumbers(w, b)
  BY ComparableType DEF LowerNumbers, SameNumbers
<1> QED
  BY <1>1, <1>2, <1>3, <1>4 DEF Satisfies

-------------------------------------------------------------------------------
(***************************************************************************)
(* The ranges.  The number that is bumped must not be the largest int,     *)
(* which ++ wraps around (Inc).                                            *)
(***************************************************************************)
\* "^1.2" admits the versions of its major version from 1.2 on, "^0.3" those of
\* its minor version (caretTerms and nextCaretUpper).
THEOREM CaretMeansItsSeries ==
  \A l, k \in Literal :
    LET v == ParseVersion(l)
    IN /\ l.form = "num" /\ v # ParseError /\ ParseVersion(k) # ParseError
       /\ (IF v.major > 0 THEN v.major ELSE v.minor) # MaxInt
       => CaretIsSeries(l, ParseVersion(k))
<1> SUFFICES ASSUME NEW l \in Literal, NEW k \in Literal, NEW v, NEW w,
                    v = ParseVersion(l), w = ParseVersion(k),
                    PlainNumber(l), v # ParseError, w # ParseError,
                    (IF v.major > 0 THEN v.major ELSE v.minor) # MaxInt
             PROVE  AdmittedBy(<<caretTerms(l)>>, w) <=>
                      HasNumbers(w) /\ compareNumeric(v, w) <= 0
                      /\ SameSegments(v, w, IF v.major > 0 THEN 1 ELSE 2)
  BY DEF CaretIsSeries, PlainNumber
<1> DEFINE lower == [v EXCEPT !.stability = Dev]
           upper == nextCaretUpper(v)
<1>1. /\ Comparable(v) /\ v.major >= 0 /\ v.minor >= 0 /\ v.patch >= 0
      /\ Comparable(w) /\ w.major >= 0 /\ w.minor >= 0 /\ w.patch >= 0
  BY ParsedType
<1>2. caretTerms(l) = Between(lower, upper)
  BY DEF caretTerms, IfParsed
<1>3. /\ Comparable(lower) /\ ~ PureDev(lower) /\ lower.stability = Dev /\ lower.preNum = 0
      /\ lower.major = v.major /\ lower.minor = v.minor /\ lower.patch = v.patch
  BY LowerBoundType
<1>4. /\ Comparable(upper) /\ ~ PureDev(upper) /\ upper.stability = Dev /\ upper.preNum = 0 /\ upper.patch = 0
      /\ v.major > 0 => upper.major = v.major + 1 /\ upper.minor = 0
      /\ v.major = 0 => upper.major = 0 /\ upper.minor = v.minor + 1
  <2>1. CASE v.major > 0
    <3>1. Inc(v.major) = v.major + 1
      BY <2>1 DEF Inc
    <3>2. upper = FromInts(<<v.major + 1>>, Dev) /\ v.major + 1 \in Int
      BY <1>1, <2>1, <3>1 DEF nextCaretUpper, Comparable
    <3> HIDE DEF upper
    <3> QED
      BY <2>1, <3>2, OneNumber, StabilityType
  <2>2. CASE v.major = 0
    <3>1. Inc(v.minor) = v.minor + 1
      BY <2>2 DEF Inc
    <3>2. upper = FromInts(<<0, v.minor + 1>>, Dev) /\ v.minor + 1 \in Int
      BY <1>1, <2>2, <3>1 DEF nextCaretUpper, Comparable
    <3> HIDE DEF upper
    <3> QED
      BY <2>2, <3>2, TwoNumbers, StabilityType
  <2>3. v.major > 0 \/ v.major = 0
    BY <1>1 DEF Comparable
  <2> QED
    BY <2>1, <2>2, <2>3
<1> HIDE DEF lower, upper
<1>5. AdmittedBy(<<caretTerms(l)>>, w) <=>
        HasNumbers(w) /\ ~ LowerNumbers(w, lower) /\ LowerNumbers(w, upper)
  BY <1>1, <1>2, <1>3, <1>4, BetweenAdmits, DevBound
<1>6. compareNumeric(v, w) <= 0 <=> ~ LowerNumbers(w, lower)
  BY <1>1, <1>3, NotAbove DEF SameNumbers
<1>7. ~ LowerNumbers(w, lower) =>
        (LowerNumbers(w, upper) <=> SameSegments(v, w, IF v.major > 0 THEN 1 ELSE 2))
  BY <1>1, <1>3, <1>4, ComparableType DEF LowerNumbers, SameSegments
<1> QED
  BY <1>5, <1>6, <1>7

\* "~1.2" admits the versions of its major version from 1.2 on, "~1.2.3" those of
\* its minor version (tildeTerms and nextTildeUpper).
THEOREM TildeMeansItsSeries ==
  \A l, k \in Literal :
    LET v == ParseVersion(l)
    IN /\ v # ParseError /\ ParseVersion(k) # ParseError
       /\ (IF Len(l.segs) >= 3 THEN v.minor ELSE v.major) # MaxInt
       => TildeIsSeries(l, ParseVersion(k))
<1> SUFFICES ASSUME NEW l \in Literal, NEW k \in Literal, NEW v, NEW w,
                    v = ParseVersion(l), w = ParseVersion(k),
                    PlainNumber(l), v # ParseError, w # ParseError,
                    (IF Len(l.segs) >= 3 THEN v.minor ELSE v.major) # MaxInt
             PROVE  AdmittedBy(<<tildeTerms(l)>>, w) <=>
                      HasNumbers(w) /\ compareNumeric(v, w) <= 0
                      /\ SameSegments(v, w, IF Len(l.segs) >= 3 THEN 2 ELSE 1)
  BY DEF TildeIsSeries, PlainNumber
<1> DEFINE lower == [v EXCEPT !.stability = Dev]
           upper == nextTildeUpper(l, v)
<1>0. BaseParts(l) = Len(l.segs)
  BY PlainParts
<1>1. /\ Comparable(v) /\ v.major >= 0 /\ v.minor >= 0 /\ v.patch >= 0
      /\ Comparable(w) /\ w.major >= 0 /\ w.minor >= 0 /\ w.patch >= 0
  BY ParsedType
<1>2. tildeTerms(l) = Between(lower, upper)
  BY DEF tildeTerms, IfParsed
<1>3. /\ Comparable(lower) /\ ~ PureDev(lower) /\ lower.stability = Dev /\ lower.preNum = 0
      /\ lower.major = v.major /\ lower.minor = v.minor /\ lower.patch = v.patch
  BY LowerBoundType
<1>4. /\ Comparable(upper) /\ ~ PureDev(upper) /\ upper.stability = Dev /\ upper.preNum = 0 /\ upper.patch = 0
      /\ Len(l.segs) >= 3 => upper.major = v.major /\ upper.minor = v.minor + 1
      /\ ~ (Len(l.segs) >= 3) => upper.major = v.major + 1 /\ upper.minor = 0
  <2>1. CASE Len(l.segs) >= 3
    <3>1. Inc(v.minor) = v.minor + 1
      BY <2>1 DEF Inc
    <3>2. upper = FromInts(<<v.major, v.minor + 1>>, Dev) /\ v.major \in Int /\ v.minor + 1 \in Int
      BY <1>0, <1>1, <2>1, <3>1 DEF nextTildeUpper, Comparable
    <3> HIDE DEF upper
    <3> QED
      BY <2>1, <3>2, TwoNumbers, StabilityType
  <2>2. CASE ~ (Len(l.segs) >= 3)
    <3>1. Inc(v.major) = v.major + 1
      BY <2>2 DEF Inc
    <3>2. upper = FromInts(<<v.major + 1>>, Dev) /\ v.major + 1 \in Int
      BY <1>0, <1>1, <2>2, <3>1 DEF nextTildeUpper, Comparable
    <3> HIDE DEF upper
    <3> QED
      BY <2>2, <3>2, OneNumber, StabilityType
  <2> QED
    BY <2>1, <2>2
<1> HIDE DEF lower, upper
<1>5. AdmittedBy(<<tildeTerms(l)>>, w) <=>
        HasNumbers(w) /\ ~ LowerNumbers(w, lower) /\ LowerNumbers(w, upper)
  BY <1>1, <1>2, <1>3, <1>4, BetweenAdmits, DevBound
<1>6. compareNumeric(v, w) <= 0 <=> ~ LowerNumbers(w, lower)
  BY <1>1, <1>3, NotAbove DEF SameNumbers
<1>7. ~ LowerNumbers(w, lower) =>
        (LowerNumbers(w, upper) <=> SameSegments(v, w, IF Len(l.segs) >= 3 THEN 2 ELSE 1))
  BY <1>1, <1>3, <1>4, ComparableType DEF LowerNumbers, SameSegments
<1> QED
  BY <1>5, <1>6, <1>7

\* The upper bound of a prefix: its last number is one more.
LEMMA Bumped ==
  ASSUME NEW segs \in Seq(Nat), Len(segs) \in 1 .. 3, segs[Len(segs)] # MaxInt,
         NEW b, NEW t, b = versionFromInts(segs), t = versionFromInts(Bump(segs))
  PROVE  /\ Comparable(b) /\ ~ PureDev(b) /\ b.stability = Stable /\ b.preNum = 0
         /\ Comparable(t) /\ ~ PureDev(t) /\ t.stability = Stable /\ t.preNum = 0
         /\ b.major >= 0 /\ b.minor >= 0 /\ b.patch >= 0
         /\ Len(segs) = 1 => t.major = b.major + 1 /\ t.minor = 0 /\ t.patch = 0 /\ b.minor = 0 /\ b.patch = 0
         /\ Len(segs) = 2 => t.major = b.major /\ t.minor = b.minor + 1 /\ t.patch = 0 /\ b.patch = 0
         /\ Len(segs) = 3 => t.major = b.major /\ t.minor = b.minor /\ t.patch = b.patch + 1
<1> DEFINE n == Len(segs)
           up == Bump(segs)
<1>1. segs \in Seq(Int) /\ n \in 1 .. 3
  OBVIOUS
<1>2. Inc(segs[n]) = segs[n] + 1
  BY DEF Inc
<1>3. up \in Seq(Int) /\ Len(up) = n /\ \A i \in 1 .. n : up[i] = IF i = n THEN segs[n] + 1 ELSE segs[i]
  BY <1>1, <1>2 DEF Bump
<1>4. /\ Segment(segs, 1) \in Nat /\ Segment(segs, 2) \in Nat /\ Segment(segs, 3) \in Nat
  BY SegmentsAreNatural
<1>5. /\ n = 1 => /\ Segment(up, 1) = Segment(segs, 1) + 1 /\ Segment(up, 2) = 0 /\ Segment(up, 3) = 0
                  /\ Segment(segs, 2) = 0 /\ Segment(segs, 3) = 0
      /\ n = 2 => /\ Segment(up, 1) = Segment(segs, 1) /\ Segment(up, 2) = Segment(segs, 2) + 1
                  /\ Segment(up, 3) = 0 /\ Segment(segs, 3) = 0
      /\ n = 3 => /\ Segment(up, 1) = Segment(segs, 1) /\ Segment(up, 2) = Segment(segs, 2)
                  /\ Segment(up, 3) = Segment(segs, 3) + 1
  <2> HIDE DEF up
  <2>1. CASE n = 1
    BY <1>1, <1>3, <2>1 DEF Segment
  <2>2. CASE n = 2
    BY <1>1, <1>3, <2>2 DEF Segment
  <2>3. CASE n = 3
    BY <1>1, <1>3, <2>3 DEF Segment
  <2> QED
    BY <1>1, <2>1, <2>2, <2>3
<1> HIDE DEF up
<1>6. /\ Comparable(b) /\ ~ PureDev(b) /\ b.stability = Stable /\ b.preNum = 0
      /\ b.major = Segment(segs, 1) /\ b.minor = Segment(segs, 2) /\ b.patch = Segment(segs, 3)
  BY <1>1, FromIntsType, BoundType, StabilityType DEF versionFromInts
<1>7. /\ Comparable(t) /\ ~ PureDev(t) /\ t.stability = Stable /\ t.preNum = 0
      /\ t.major = Segment(up, 1) /\ t.minor = Segment(up, 2) /\ t.patch = Segment(up, 3)
  BY <1>3, FromIntsType, BoundType, StabilityType DEF versionFromInts, up
<1> QED
  BY <1>4, <1>5, <1>6, <1>7

\* The versions from one with n numbers up to the one whose n-th number is one
\* greater are those that begin with the same n numbers.
LEMMA BoundedSegments ==
  ASSUME NEW b, NEW t, NEW w, NEW n \in 1 .. 3, Comparable(b), Comparable(t), Comparable(w),
         w.minor >= 0, w.patch >= 0,
         n = 1 => t.major = b.major + 1 /\ t.minor = 0 /\ t.patch = 0 /\ b.minor = 0 /\ b.patch = 0,
         n = 2 => t.major = b.major /\ t.minor = b.minor + 1 /\ t.patch = 0 /\ b.patch = 0,
         n = 3 => t.major = b.major /\ t.minor = b.minor /\ t.patch = b.patch + 1
  PROVE  ~ LowerNumbers(w, b) /\ LowerNumbers(w, t) <=> SameSegments(b, w, n)
<1> /\ b.major \in Int /\ b.minor \in Int /\ b.patch \in Int
    /\ t.major \in Int /\ t.minor \in Int /\ t.patch \in Int
    /\ w.major \in Int /\ w.minor \in Int /\ w.patch \in Int
  BY ComparableType
<1>1. CASE n = 1
  BY <1>1 DEF LowerNumbers, SameSegments
<1>2. CASE n = 2
  BY <1>2 DEF LowerNumbers, SameSegments
<1>3. CASE n = 3
  BY <1>3 DEF LowerNumbers, SameSegments
<1> QED
  BY <1>1, <1>2, <1>3

\* "1.2.*" admits the stable versions that begin with 1.2 (wildcardTerms).
THEOREM WildcardMeansItsSeries ==
  \A prefix \in Seq(Nat), k \in Literal :
    /\ Len(prefix) \in 1 .. 3 /\ prefix[Len(prefix)] # MaxInt
    /\ ParseVersion(k) # ParseError
    => WildcardIsSeries(prefix, ParseVersion(k))
<1> SUFFICES ASSUME NEW prefix \in Seq(Nat), NEW k \in Literal, NEW w, w = ParseVersion(k),
                    Len(prefix) \in 1 .. 3, prefix[Len(prefix)] # MaxInt,
                    w # ParseError, w.stability = Stable, prefix # <<>>
             PROVE  AdmittedBy(<<wildcardTerms(prefix)>>, w) <=>
                      SameSegments(versionFromInts(prefix), w, Len(prefix))
  BY DEF WildcardIsSeries
<1> DEFINE b == versionFromInts(prefix)
           t == versionFromInts(Bump(prefix))
<1>1. Comparable(w) /\ w.major >= 0 /\ w.minor >= 0 /\ w.patch >= 0 /\ w.preNum = 0
  BY ParsedType
<1>2. wildcardTerms(prefix) = Between(b, t)
  BY DEF wildcardTerms
<1>3. /\ Comparable(b) /\ ~ PureDev(b) /\ b.stability = Stable /\ b.preNum = 0
      /\ Comparable(t) /\ ~ PureDev(t) /\ t.stability = Stable /\ t.preNum = 0
      /\ b.major >= 0 /\ b.minor >= 0 /\ b.patch >= 0
      /\ Len(prefix) = 1 => t.major = b.major + 1 /\ t.minor = 0 /\ t.patch = 0 /\ b.minor = 0 /\ b.patch = 0
      /\ Len(prefix) = 2 => t.major = b.major /\ t.minor = b.minor + 1 /\ t.patch = 0 /\ b.patch = 0
      /\ Len(prefix) = 3 => t.major = b.major /\ t.minor = b.minor /\ t.patch = b.patch + 1
  BY Bumped
<1> HIDE DEF b, t
<1>4. AdmittedBy(<<wildcardTerms(prefix)>>, w) <=> ~ LowerNumbers(w, b) /\ LowerNumbers(w, t)
  BY <1>1, <1>2, <1>3, BetweenAdmits, StableBound
<1>5. ~ LowerNumbers(w, b) /\ LowerNumbers(w, t) <=> SameSegments(b, w, Len(prefix))
  BY <1>1, <1>3, BoundedSegments
<1> QED
  BY <1>4, <1>5 DEF b

\* "1.2 - 1.4" admits the stable versions between its ends, and those that begin
\* with a partial upper end (hyphenRangeTerms).
THEOREM HyphenMeansItsInterval ==
  \A l, r, k \in Literal :
    /\ PlainNumber(l) /\ PlainNumber(r)
    /\ ParseVersion(l) # ParseError /\ ParseVersion(r) # ParseError
    /\ hyphenRangeTerms(l, r) # ParseError /\ ParseVersion(k) # ParseError
    /\ Len(r.segs) < 3 => r.segs[Len(r.segs)] # MaxInt
    => HyphenIsInterval(l, r, ParseVersion(k))
<1> SUFFICES ASSUME NEW l \in Literal, NEW r \in Literal, NEW k \in Literal, NEW v, NEW x, NEW w,
                    v = ParseVersion(l), x = ParseVersion(r), w = ParseVersion(k),
                    PlainNumber(l), PlainNumber(r), v # ParseError, x # ParseError, w # ParseError,
                    hyphenRangeTerms(l, r) # ParseError,
                    Len(r.segs) < 3 => r.segs[Len(r.segs)] # MaxInt,
                    w.stability = Stable
             PROVE  AdmittedBy(<<hyphenRangeTerms(l, r)>>, w) <=>
                      /\ Compare(v, w) <= 0
                      /\ \/ Compare(w, x) <= 0
                         \/ Len(r.segs) < 3 /\ SameSegments(x, w, Len(r.segs))
  BY DEF HyphenIsInterval
<1> DEFINE t == versionFromInts(Bump(r.segs))
           upper == IF Len(r.segs) >= 3 THEN [op |-> "<=", v |-> x] ELSE [op |-> "<", v |-> t]
<1>1. l.form = "num" /\ r.form = "num" /\ r.segs \in Seq(Nat)
  BY LiteralType DEF PlainNumber
<1>0. TextParts(r) = Len(r.segs)
  BY PlainParts
<1>2. /\ Comparable(v) /\ ~ PureDev(v) /\ v.stability = Stable /\ v.preNum = 0
      /\ Comparable(x) /\ ~ PureDev(x) /\ x.stability = Stable /\ x.preNum = 0
      /\ x.major = Segment(r.segs, 1) /\ x.minor = Segment(r.segs, 2) /\ x.patch = Segment(r.segs, 3)
      /\ Comparable(w) /\ ~ PureDev(w) /\ w.preNum = 0
      /\ w.major >= 0 /\ w.minor >= 0 /\ w.patch >= 0
  BY <1>1, ParsedType, NoBranchType, PureDevIsDev, StabilityType
<1>3. Len(r.segs) \in 1 .. 4
  BY <1>1 DEF ParseVersion
<1>4. hyphenRangeTerms(l, r) = <<[op |-> ">=", v |-> v], upper>>
  <2>1. Single(">=", l) = <<[op |-> ">=", v |-> v]>>
    BY DEF Single, IfParsed
  <2>2. CASE Len(r.segs) >= 3
    <3>1. Single("<=", r) = <<[op |-> "<=", v |-> x]>>
      BY DEF Single, IfParsed
    <3>2. hyphenRangeTerms(l, r) = Joined(<<[op |-> ">=", v |-> v]>>, <<[op |-> "<=", v |-> x]>>)
      BY <1>0, <2>1, <2>2, <3>1 DEF hyphenRangeTerms
    <3> QED
      BY <2>2, <3>2, JoinedPair
  <2>3. CASE ~ (Len(r.segs) >= 3)
    <3>1. hyphenRangeTerms(l, r) = Joined(<<[op |-> ">=", v |-> v]>>, <<[op |-> "<", v |-> t]>>)
      BY <1>0, <2>1, <2>3, JoinedError DEF hyphenRangeTerms
    <3> QED
      BY <2>3, <3>1, JoinedPair
  <2> QED
    BY <2>2, <2>3
<1> HIDE DEF t, upper
<1>5. AdmittedBy(<<hyphenRangeTerms(l, r)>>, w) <=>
        Satisfies([op |-> ">=", v |-> v], w) /\ Satisfies(upper, w)
  BY <1>4, PairAdmits
<1>6. Satisfies([op |-> ">=", v |-> v], w) <=> ~ LowerNumbers(w, v)
  BY <1>2, StableBound
<1>7. Compare(v, w) <= 0 <=> ~ LowerNumbers(w, v)
  <2>1. Compare(v, w) = IF LowerNumbers(v, w) THEN -1 ELSE IF SameNumbers(v, w) THEN 0 ELSE 1
    BY <1>2, StableBound
  <2>2. LowerNumbers(v, w) \/ SameNumbers(v, w) <=> ~ LowerNumbers(w, v)
    BY <1>2, NumbersAreOrdered
  <2> QED
    BY <2>1, <2>2
<1>8. Compare(w, x) <= 0 <=> LowerNumbers(w, x) \/ SameNumbers(w, x)
  <2>1. Compare(w, x) = IF LowerNumbers(w, x) THEN -1 ELSE IF SameNumbers(w, x) THEN 0 ELSE 1
    BY <1>2, StableBound
  <2> QED
    BY <2>1
<1>9. Satisfies(upper, w) <=> \/ LowerNumbers(w, x) \/ SameNumbers(w, x)
                              \/ Len(r.segs) < 3 /\ SameSegments(x, w, Len(r.segs))
  <2>1. CASE Len(r.segs) >= 3
    <3>1. Satisfies(upper, w) <=> LowerNumbers(w, x) \/ SameNumbers(w, x)
      BY <1>2, <2>1, StableBound DEF upper
    <3>2. ~ (Len(r.segs) < 3)
      BY <1>3, <2>1
    <3> QED
      BY <3>1, <3>2
  <2>2. CASE ~ (Len(r.segs) >= 3)
    <3>1. Len(r.segs) = 1 \/ Len(r.segs) = 2
      <4>1. \A n \in 1 .. 4 : n >= 3 \/ n = 1 \/ n = 2
        OBVIOUS
      <4> QED
        BY <1>3, <2>2, <4>1, Zenon
    <3>2. /\ Comparable(t) /\ ~ PureDev(t) /\ t.stability = Stable /\ t.preNum = 0
          /\ Len(r.segs) = 1 => t.major = x.major + 1 /\ t.minor = 0 /\ t.patch = 0 /\ x.minor = 0 /\ x.patch = 0
          /\ Len(r.segs) = 2 => t.major = x.major /\ t.minor = x.minor + 1 /\ t.patch = 0 /\ x.patch = 0
      <4> DEFINE b == versionFromInts(r.segs)
      <4>1. b.major = x.major /\ b.minor = x.minor /\ b.patch = x.patch
        BY <1>2 DEF versionFromInts, FromInts
      <4>2. r.segs[Len(r.segs)] # MaxInt /\ Len(r.segs) \in 1 .. 3
        BY <3>1
      <4> HIDE DEF b
      <4> QED
        BY <1>1, <4>1, <4>2, Bumped DEF b, t
    <3>3. Satisfies(upper, w) <=> LowerNumbers(w, t)
      BY <1>2, <2>2, <3>2, StableBound DEF upper
    <3>4. CASE Len(r.segs) = 1
      BY <1>2, <3>2, <3>3, <3>4, ComparableType DEF LowerNumbers, SameNumbers, SameSegments
    <3>5. CASE Len(r.segs) = 2
      BY <1>2, <3>2, <3>3, <3>5, ComparableType DEF LowerNumbers, SameNumbers, SameSegments
    <3> QED
      BY <3>1, <3>4, <3>5
  <2> QED
    BY <2>1, <2>2
<1> QED
  BY <1>5, <1>6, <1>7, <1>8, <1>9
===============================================================================
