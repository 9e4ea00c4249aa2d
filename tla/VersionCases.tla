---------------------------- MODULE VersionCases -----------------------------
(***************************************************************************)
(* What is asked of versions, constraints and candidates: one step chooses *)
(* a case from sets of literals, texts, registries and platforms, which    *)
(* are constants; the properties say what the answer must be.              *)
(***************************************************************************)
EXTENDS Candidates

CONSTANTS
  Literals,        \* version literals
  Releases,        \* those of them that ranges are written with
  LockedVersions,  \* those a lock may name
  Texts,           \* constraint texts
  Registries,      \* what a registry may list of one package: sets of rows
  Platforms,       \* what `php` reports
  IgnoredSets      \* --ignore-platform-req

ASSUME LiteralsAssumption ==
  \A l \in Literals : l \in Literal /\ ParseVersion(l) # ParseError

\* The numbers can be bumped without overflow.
ASSUME ReleasesAssumption ==
  /\ Releases \subseteq Literals
  /\ \A l \in Releases :
       /\ l.form = "num" /\ l.tag = "" /\ l.flag = ""
       /\ Len(l.segs) >= 1 /\ \A i \in DOMAIN l.segs : l.segs[i] < MaxInt

ASSUME TextsAssumption == Texts \subseteq Seq(Token)

\* A registry lists finitely many versions, none of which has a flag, and a
\* branch once.
ASSUME RegistriesAssumption ==
  \A rows \in Registries :
    /\ IsFiniteSet(rows)
    /\ \A r, s \in rows :
         /\ r.version \in Literal /\ r.version.flag = ""
         /\ r.version.text = s.version.text /\ r.version.text # "" => r = s

VARIABLE input

Row(l, needs) == [version |-> l, requires |-> needs]

-----------------------------------------------------------------------------
Choosing(algorithm) == input.of = "nothing yet" /\ input.next = algorithm

ParsedVersions == {ParseVersion(l) : l \in Literals}

\* Names of stabilities that every command reads alike ("Rc" is not one).
MinimumStabilities == {"stable", "RC", "dev"}

Ordering ==
  /\ Choosing("order")
  /\ \E u, v, w \in ParsedVersions : input' = [of |-> "order", u |-> u, v |-> v, w |-> w]

Matching ==
  /\ Choosing("match")
  /\ \E l, r \in Releases, w \in ParsedVersions : input' = [of |-> "match", l |-> l, r |-> r, w |-> w]

Listing ==
  /\ Choosing("list")
  /\ \E rows \in Registries, s \in MinimumStabilities, t \in Texts, p \in Platforms, ignored \in IgnoredSets :
       input' = [of |-> "list", rows |-> rows, minStab |-> s, text |-> t,
                 platform |-> platformOf(p, ignored), ignored |-> ignored]

Reporting ==
  /\ Choosing("outdated")
  /\ \E rows \in Registries, c \in LockedVersions, s \in MinimumStabilities, t \in Texts :
       input' = [of |-> "outdated", rows |-> rows, current |-> Row(c, <<>>), minStab |-> s, text |-> t]

Asking == Ordering \/ Matching \/ Listing \/ Reporting

Unasked == input \in [of : {"nothing yet"}, next : {"order", "match", "list", "outdated"}]

Cases == Unasked /\ [][Asking]_input

-----------------------------------------------------------------------------
(* Versions are totally ordered (constraint/version.go, Compare). *)
VersionsAreOrdered == input.of = "order" => IsOrdered(input.u, input.v, input.w)

(* Every range operator admits the versions it stands for                  *)
(* (constraint/constraint.go, caretTerms, tildeTerms, wildcardTerms and    *)
(* hyphenRangeTerms).                                                      *)
RangesMeanTheirSeries ==
  input.of = "match" =>
    /\ CaretIsSeries(input.l, input.w)
    /\ TildeIsSeries(input.l, input.w)
    /\ Len(input.l.segs) <= 3 => WildcardIsSeries(input.l.segs, input.w)
    /\ HyphenIsInterval(input.l, input.r, input.w)

(* An explicitly required branch is found (resolver/versions.go).          *)
BranchIsFound ==
  input.of = "list" =>
    ExplicitBranchIsPicked(input.rows, parseStabilityName(input.minStab), input.text,
                           input.platform, input.ignored)


(* The outdated report says what update does when the require has no flag   *)
(* and names no branch, and never promises more than that (cli/outdated.go).*)
ReportIsTrue ==
  input.of = "outdated" /\ Parse(input.text) # ParseError =>
    /\ OutdatedAgreesWithUpdate(input.rows, input.current, input.minStab, input.text)
    /\ OutdatedNeverPromisesMore(input.rows, input.current, input.minStab, input.text)
===============================================================================
