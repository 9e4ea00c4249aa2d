----------------------------- MODULE Constraints -----------------------------
(***************************************************************************)
(* Versions and constraints (internal/constraint): what a version literal  *)
(* parses to, how versions are ordered, which terms a constraint text is   *)
(* expanded into and which versions satisfy them.                          *)
(*                                                                         *)
(* A literal is what the lexer can tell apart: its form, its numeric       *)
(* segments, its pre-release tag, its "@" flag.  A constraint text is the  *)
(* sequence of its tokens, spaces and commas dropped.                      *)
(***************************************************************************)
EXTENDS Integers, Sequences, SequencesExt, OrderedSets

CONSTANTS
  Branch,      \* what may follow "dev-", and the branch aliases ("1.x-dev")
  TextRank,    \* the byte order of Branch: strings.Compare
  Unpinned,    \* a branch without its "#<ref>"
  MaxInt,      \* the largest int
  ParseError

ASSUME BranchAssumption ==
  /\ "" \in Branch
  /\ TextRank \in [Branch -> Nat]
  /\ \A b, c \in Branch : TextRank[b] = TextRank[c] => b = c
  /\ Unpinned \in [Branch -> Branch]
ASSUME MaxIntAssumption == MaxInt \in Nat

-----------------------------------------------------------------------------
(* Versions *)

Dev == 0
Alpha == 1
Beta == 2
RC == 3
Stable == 4
Stability == Dev..Stable

\* What may follow "@"; another text is read as "stable" is.
Flags == {"", "dev", "alpha", "beta", "RC", "rc", "Rc", "stable"}

Version == [major : Int, minor : Int, patch : Int, stability : Stability,
            preNum : Nat, branch : Branch, flag : Flags]

\* A term of a constraint: an operator and a version.
Term == [op : {"=", "!=", "<", "<=", ">", ">="}, v : Version]

\* An error is neither a version nor a list of terms or of clauses.
ASSUME ParseErrorAssumption ==
  ParseError \notin Version /\ ParseError \notin Seq(Term) /\ ParseError \notin Seq(Seq(Term))

Tags == {"", "rc", "beta", "b", "alpha", "a", "patch", "p", "dev", "build"}

\* dots counts those behind the numbers: "2.0-beta.1" has one.  Without a tag
\* there is no place for any.
Spelling == [form : {"num", "alias", "dev"}, segs : Seq(Nat), text : Branch,
             tag : Tags, num : Nat, dots : Nat, flag : Flags]

Literal == {l \in Spelling : l.form = "num" /\ l.tag = "" => l.dots = 0}

Segment(segs, i) == IF i <= Len(segs) THEN segs[i] ELSE 0

FromInts(segs, stability) ==
  [major |-> Segment(segs, 1), minor |-> Segment(segs, 2), patch |-> Segment(segs, 3),
   stability |-> stability, preNum |-> 0, branch |-> "", flag |-> ""]

versionFromInts(segs) == FromInts(segs, Stable)

\* A patch tag is stable, a tag that is not known is dev; no tag is no pre-release.
TagStability(tag) ==
  CASE tag = "rc" -> RC
    [] tag \in {"beta", "b"} -> Beta
    [] tag \in {"alpha", "a"} -> Alpha
    [] tag \in {"", "patch", "p"} -> Stable
    [] OTHER -> Dev

TagNumber(tag, num) == IF TagStability(tag) \in Alpha..RC THEN num ELSE 0

\* The fourth segment is read and dropped, of an alias it is not even read.
ParseVersion(l) ==
  CASE l.form = "dev" ->
         IF l.text = "" THEN ParseError
         ELSE [FromInts(<<>>, Dev) EXCEPT !.branch = l.text, !.flag = l.flag]
    [] l.form = "alias" ->
         IF l.segs = <<>> \/ \E i \in DOMAIN l.segs \cap 1..3 : l.segs[i] > MaxInt THEN ParseError
         ELSE [FromInts(l.segs, Dev) EXCEPT !.branch = l.text, !.flag = l.flag]
    [] l.form = "num" ->
         IF Len(l.segs) \notin 1..4 \/ \E i \in DOMAIN l.segs : l.segs[i] > MaxInt THEN ParseError
         ELSE [FromInts(l.segs, TagStability(l.tag))
                 EXCEPT !.preNum = TagNumber(l.tag, l.num), !.flag = l.flag]

cmpInt(a, b) == IF a < b THEN -1 ELSE IF a > b THEN 1 ELSE 0

\* The first difference decides.
Then(c, d) == IF c # 0 THEN c ELSE d

compareNumeric(v, w) ==
  Then(cmpInt(v.major, w.major), Then(cmpInt(v.minor, w.minor), cmpInt(v.patch, w.patch)))

\* A dev version with a branch, aliases included, is below all the others.
PureDev(v) == v.stability = Dev /\ v.branch # ""

\* Fault: a branch alias is compared with a release by its numbers.
CompareAliasByNumber(v, w) ==
  IF PureDev(v) /\ PureDev(w) THEN cmpInt(TextRank[v.branch], TextRank[w.branch])
  ELSE Then(compareNumeric(v, w),
            Then(cmpInt(v.stability, w.stability), cmpInt(v.preNum, w.preNum)))

Compare(v, w) ==
  IF PureDev(v) /\ PureDev(w) THEN cmpInt(TextRank[v.branch], TextRank[w.branch])
  ELSE IF PureDev(v) THEN -1
  ELSE IF PureDev(w) THEN 1
  ELSE Then(compareNumeric(v, w),
            Then(cmpInt(v.stability, w.stability), cmpInt(v.preNum, w.preNum)))

-----------------------------------------------------------------------------
(* Terms *)

\* An alias of a major version other than 0 is compared by its numbers.
Satisfies(t, v) ==
  LET c == IF v.stability = Dev /\ v.major # 0 THEN compareNumeric(v, t.v) ELSE Compare(v, t.v)
  IN CASE t.op = "="  -> c = 0
       [] t.op = "!=" -> c # 0
       [] t.op = "<"  -> c < 0
       [] t.op = "<=" -> c <= 0
       [] t.op = ">"  -> c > 0
       [] t.op = ">=" -> c >= 0

AdmittedBy(clauses, v) == \E i \in DOMAIN clauses : \A j \in DOMAIN clauses[i] : Satisfies(clauses[i][j], v)

\* ++ on an int wraps around.
Inc(n) == IF n = MaxInt THEN -MaxInt - 1 ELSE n + 1

Bump(segs) == [segs EXCEPT ![Len(segs)] = Inc(@)]

Between(lower, upper) == <<[op |-> ">=", v |-> lower], [op |-> "<", v |-> upper]>>

IfParsed(v, terms(_)) == IF v = ParseError THEN ParseError ELSE terms(v)

Single(op, l) == IfParsed(ParseVersion(l), LAMBDA v : <<[op |-> op, v |-> v]>>)

nextCaretUpper(v) ==
  IF v.major > 0 THEN FromInts(<<Inc(v.major)>>, Dev) ELSE FromInts(<<0, Inc(v.minor)>>, Dev)

caretTerms(l) ==
  IfParsed(ParseVersion(l), LAMBDA v : Between([v EXCEPT !.stability = Dev], nextCaretUpper(v)))

\* The parts between the dots of a text, up to its first "-" or "+" and in all.
BaseParts(l) ==
  CASE l.form = "num" -> Len(l.segs) [] l.form = "alias" -> Len(l.segs) + 1 [] l.form = "dev" -> 1

TextParts(l) == BaseParts(l) + l.dots

\* Fault: "~1.2" stops at 1.3.
nextTildeUpperMinor(l, v) ==
  IF BaseParts(l) >= 2 THEN FromInts(<<v.major, Inc(v.minor)>>, Dev) ELSE FromInts(<<Inc(v.major)>>, Dev)

\* The "x" of "~1.2.x-dev" counts as its third part.
nextTildeUpper(l, v) ==
  IF BaseParts(l) >= 3 THEN FromInts(<<v.major, Inc(v.minor)>>, Dev) ELSE FromInts(<<Inc(v.major)>>, Dev)

tildeTerms(l) ==
  IfParsed(ParseVersion(l), LAMBDA v : Between([v EXCEPT !.stability = Dev], nextTildeUpper(l, v)))

\* "*" admits all; "1.2.*" and "1.2.x" a half-open range between stable bounds.
wildcardTerms(prefix) ==
  IF prefix = <<>> THEN <<>> ELSE Between(versionFromInts(prefix), versionFromInts(Bump(prefix)))

Joined(a, b) == IF a = ParseError \/ b = ParseError THEN ParseError ELSE a \o b

\* An upper end of three parts is a version, with its tag and whatever is in it;
\* a partial one is numbers and nothing else.
hyphenRangeTerms(l, r) ==
  Joined(Single(">=", l),
         IF TextParts(r) >= 3 THEN Single("<=", r)
         ELSE IF r.form = "num" /\ r.tag = "" /\ r.flag = "" /\ r.segs # <<>> /\ \A i \in DOMAIN r.segs : r.segs[i] <= MaxInt
         THEN <<[op |-> "<", v |-> versionFromInts(Bump(r.segs))]>>
         ELSE ParseError)

-----------------------------------------------------------------------------
(* Texts *)

\* Tokens: an operator and its literal, an operator alone (">= 1.0"), a
\* wildcard, and the words "-", "|" and "as".
Operators == {"^", "~", ">=", "<=", "!=", ">", "<", "="}
Word(w) == [op |-> w]
Token == [op : Operators \cup {""}, lit : Literal] \cup [op : {"*"}, prefix : Seq(Nat)]
           \cup [op : Operators \cup {"-", "|", "as"}]
IsTerm(t) == "lit" \in DOMAIN t
IsPlain(t) == IsTerm(t) /\ t.op = ""

parseTerm(t) ==
  CASE t.op = "*" -> wildcardTerms(t.prefix)
    [] IsTerm(t) /\ t.op = "^" -> caretTerms(t.lit)
    [] IsTerm(t) /\ t.op = "~" -> tildeTerms(t.lit)
    [] IsTerm(t) /\ t.op \notin {"^", "~"} -> Single(IF t.op = "" THEN "=" ELSE t.op, t.lit)
    [] OTHER -> ParseError

\* An operator alone takes the version after it, unless that is a branch.
glueOperatorSpaces(ts) ==
  LET Glued(i) == i \in 1..(Len(ts) - 1) /\ ts[i].op \in Operators /\ ~IsTerm(ts[i])
                  /\ IsPlain(ts[i + 1]) /\ ts[i + 1].lit.form # "dev"
      Kept == {i \in DOMAIN ts : ~Glued(i)}
      Whole(i) == IF Glued(i - 1) THEN [op |-> ts[i - 1].op, lit |-> ts[i].lit] ELSE ts[i]
  IN Pick([i \in DOMAIN ts |-> Whole(i)], Kept)

parseAndClause(ts) ==
  LET n == Len(ts)
      IsRange(i) == i + 2 <= n /\ ts[i + 1].op = "-"
      HyphenRange(l, r) == IF IsPlain(l) /\ IsPlain(r) THEN hyphenRangeTerms(l.lit, r.lit) ELSE ParseError
      terms[i \in 1..(n + 1)] ==
        IF i > n THEN <<>>
        ELSE IF IsRange(i) THEN Joined(HyphenRange(ts[i], ts[i + 2]), terms[i + 3])
        ELSE Joined(parseTerm(ts[i]), terms[i + 1])
  IN IF n = 0 THEN ParseError ELSE terms[1]

\* What follows "as" is dropped, to the end of the alternative.
stripInlineAlias(ts) ==
  LET as == SelectInSeq(ts, LAMBDA t : t.op = "as")
  IN IF as = 0 THEN ts ELSE SubSeq(ts, 1, as - 1)

Alternatives(ts) ==
  FoldLeft(LAMBDA acc, t : IF t.op = "|" THEN Append(acc, <<>>)
                           ELSE [acc EXCEPT ![Len(acc)] = Append(@, t)], <<<<>>>>, ts)

\* Parse: the clauses of a text, or ParseError when one of them has an error.
Parse(ts) ==
  FoldLeft(LAMBDA clauses, alt :
             Joined(clauses, IfParsed(parseAndClause(glueOperatorSpaces(stripInlineAlias(alt))), LAMBDA c : <<c>>)),
           <<>>, Alternatives(ts))

\* The first flag of the text counts, for the whole text.
StabilityFlag(clauses) ==
  LET flags == SelectSeq([i \in DOMAIN FlattenSeq(clauses) |-> FlattenSeq(clauses)[i].v.flag],
                         LAMBDA f : f # "")
  IN IF flags = <<>> THEN "" ELSE flags[1]

\* One "dev-<branch>" and nothing else; its reference is not part of the branch.
ExplicitDevBranch(ts) ==
  IF Len(ts) = 1 /\ IsPlain(ts[1]) /\ ts[1].lit.form = "dev" /\ ts[1].lit.flag = ""
  THEN Unpinned[ts[1].lit.text] ELSE ""

-----------------------------------------------------------------------------
(* Properties: u, v, w are versions, l and r literals. *)

(* Compare is a total preorder: sort.Slice over the candidates of a package *)
(* and the search for the newest one are only defined when it is.           *)
IsOrdered(u, v, w) ==
  /\ Compare(u, v) = -Compare(v, u)
  /\ Compare(u, v) <= 0 /\ Compare(v, w) <= 0 => Compare(u, w) <= 0
  /\ Compare(u, v) = 0 /\ Compare(v, w) = 0 => Compare(u, w) = 0

SameSegments(v, w, n) ==
  /\ n >= 1 => v.major = w.major
  /\ n >= 2 => v.minor = w.minor
  /\ n >= 3 => v.patch = w.patch

(* A caret, tilde or wildcard admits exactly the versions of its series:    *)
(* those from its lower bound that agree with it on the leading segments.   *)
(* Pre-releases of the first version of the next series are outside, under  *)
(* a caret or a tilde, which is what the dev-stability bounds are for.      *)
(* Dev branches are in no series, aliases of a version 0 neither.           *)
HasNumbers(w) == ~PureDev(w) \/ w.major # 0

CaretIsSeries(l, w) ==
  LET v == ParseVersion(l)
  IN l.tag = "" => (AdmittedBy(<<caretTerms(l)>>, w)
       <=> HasNumbers(w) /\ compareNumeric(v, w) <= 0 /\ SameSegments(v, w, IF v.major > 0 THEN 1 ELSE 2))

TildeIsSeries(l, w) ==
  LET v == ParseVersion(l)
  IN l.form = "num" /\ l.tag = "" => (AdmittedBy(<<tildeTerms(l)>>, w)
       <=> HasNumbers(w) /\ compareNumeric(v, w) <= 0 /\ SameSegments(v, w, IF Len(l.segs) >= 3 THEN 2 ELSE 1))

WildcardIsSeries(prefix, w) ==
  w.stability = Stable /\ prefix # <<>> =>
    (AdmittedBy(<<wildcardTerms(prefix)>>, w) <=> SameSegments(versionFromInts(prefix), w, Len(prefix)))

(* A hyphen range admits what lies between its ends; a partial upper end    *)
(* stands for every version that begins with it.                            *)
HyphenIsInterval(l, r, w) ==
  w.stability = Stable =>
    (AdmittedBy(<<hyphenRangeTerms(l, r)>>, w)
       <=> /\ Compare(ParseVersion(l), w) <= 0
           /\ \/ Compare(w, ParseVersion(r)) <= 0
              \/ Len(r.segs) < 3 /\ SameSegments(ParseVersion(r), w, Len(r.segs)))
===============================================================================
