----------------------------- MODULE Candidates ------------------------------
(***************************************************************************)
(* From the requires of the manifests to the versions the resolver may     *)
(* pick: the aggregate of the workspaces (orchestrator/                    *)
(* workspace_aggregate.go, manifest/workspaces.go), the candidate listing  *)
(* of the resolver (resolver/versions.go), the platform checks             *)
(* (internal/platform) and the report of the outdated command, which       *)
(* compares the lock with the same candidates (cli/outdated.go).           *)
(*                                                                         *)
(* A require is a text of Constraints, or a "workspace:" one.  Requires    *)
(* are partial functions from names to texts; a manifest has two of them.  *)
(***************************************************************************)
EXTENDS Constraints, FiniteSets

CONSTANTS
  Failed,      \* an error was returned
  NoVersion,   \* the zero Version: not reported, or not parsed
  NoPlatform   \* the nil *Platform: `php` was not asked

-----------------------------------------------------------------------------
(* Workspaces *)

\* DiscoverWorkspaces over the directories the patterns match, in order.  A
\* directory two patterns match is a duplicate of itself.
DiscoverWorkspaces(dirs) ==
  LET members == SelectSeq(dirs, LAMBDA d : d.isDir /\ d.hasManifest)
  IN IF \/ \E i \in DOMAIN members : ~members[i].loads \/ members[i].name = ""
        \/ \E i, j \in DOMAIN members : i # j /\ members[i].name = members[j].name
     THEN Failed ELSE members

IsAny(tokens) == tokens # <<>> /\ tokens[1] = [op |-> "*", prefix |-> <<>>] /\ Len(tokens) = 1

\* A workspace require names a workspace whose version satisfies its tail.
WorkspaceRequireHolds(tokens, clauses, target) ==
  \/ IsAny(tokens)
  \/ /\ target.version # NoVersion
     /\ ParseVersion(target.version) # ParseError
     /\ AdmittedBy(clauses, ParseVersion(target.version))

MayMerge(name, text, clauses, members) ==
  /\ clauses # ParseError
  /\ text.workspace => \E i \in DOMAIN members :
                          members[i].name = name /\ WorkspaceRequireHolds(text.tokens, clauses, members[i])

\* Fault: the last owner's text replaces the others.
ConjoinLast(a, b) == b

\* Two texts become one with a space in between.
Conjoin(a, b) == IF a = b THEN a ELSE [workspace |-> FALSE, tokens |-> a.tokens \o b.tokens]

mergeRequires(dst, src, members) ==
  LET external == {n \in DOMAIN src : ~src[n].workspace}
  IN IF dst = Failed \/ \E n \in DOMAIN src : ~MayMerge(n, src[n], Parse(src[n].tokens), members) THEN Failed
     ELSE [n \in DOMAIN dst \cup external |->
             IF n \notin external THEN dst[n]
             ELSE IF n \notin DOMAIN dst THEN src[n]
             ELSE Conjoin(dst[n], src[n])]

\* The manifest the resolver sees, both of its sections or none.
BuildAggregate(root, members, includeDev) ==
  LET owners == <<root>> \o members
      All(requires) == FoldLeft(LAMBDA dst, src : mergeRequires(dst, src, members), <<>>, requires)
      require == All([i \in DOMAIN owners |-> owners[i].require])
      requireDev == IF includeDev THEN All([i \in DOMAIN owners |-> owners[i].requireDev]) ELSE <<>>
  IN IF Failed \in {require, requireDev} THEN Failed ELSE [require |-> require, requireDev |-> requireDev]

\* newPipelineState: without workspaces it is the root's own, as it stands.
ManifestOfRun(root, members, includeDev) ==
  IF members = <<>> THEN [require |-> root.require, requireDev |-> root.requireDev]
  ELSE BuildAggregate(root, members, includeDev)

-----------------------------------------------------------------------------
(* Platform requirements: keys of kind "php", "ext" or "lib", or the "*" that *)
(* stands for all of them.                                                    *)

AllReqs == [kind |-> "all", name |-> "*"]


\* newPipelineState: the platform of a run, given what `php` would report.
platformOf(php, ignored) == IF AllReqs \in ignored THEN NoPlatform ELSE php

IsAtLeastZero(text) ==
  /\ Len(text) = 1 /\ IsTerm(text[1]) /\ text[1].op = ">="
  /\ text[1].lit.form = "num" /\ text[1].lit.tag = "" /\ text[1].lit.flag = ""
  /\ text[1].lit.segs \in {<<0>>, <<0, 0>>, <<0, 0, 0>>}

\* The texts isWildcardConstraint knows.
AlwaysHolds(text) == text = <<>> \/ IsAny(text) \/ IsAtLeastZero(text)

IsPlatformReq(req) == req.kind \in {"php", "ext", "lib"}

Unless(holds) == IF holds THEN {} ELSE {"version"}

\* The clauses are those of the text.
checkPHP(clauses, p) ==
  IF clauses = ParseError THEN {"unparseable"}
  ELSE IF p.php = NoVersion THEN {"missing"}
  ELSE Unless(AdmittedBy(clauses, p.php))

checkExt(name, text, clauses, p) ==
  IF clauses = ParseError THEN {"unparseable"}
  ELSE IF name \notin DOMAIN p.ext THEN {"missing"}
  ELSE Unless(IF p.ext[name] = NoVersion THEN AlwaysHolds(text) ELSE AdmittedBy(clauses, p.ext[name]))

checkOne(req, text, clauses, p) ==
  CASE req.kind = "php" -> checkPHP(clauses, p)
    [] req.kind = "ext" -> checkExt(req.name, text, clauses, p)
    [] req.kind = "lib" -> {"libIgnored"}

\* The violations of a require map; ignored is compared with the whole key.
Check(requires, p, ignored) ==
  UNION {{[req |-> r, kind |-> k] : k \in checkOne(r, requires[r], Parse(requires[r]), p)} :
         r \in {q \in DOMAIN requires : IsPlatformReq(q) /\ q \notin ignored}}

HardViolations(requires, p, ignored) ==
  {v \in Check(requires, p, ignored) : v.kind # "libIgnored"}

\* evaluatePlatformWarnings: whether an install with --no-dev goes on.
PlatformAllows(records, p, ignored, noDev) ==
  p # NoPlatform /\ noDev => \A r \in records : HardViolations(r.requires, p, ignored) = {}

\* What the resolver asks of a version under --no-dev.
versionInstallable(r, p, ignored) ==
  p = NoPlatform \/ AllReqs \in ignored \/ HardViolations(r.requires, p, ignored) = {}

-----------------------------------------------------------------------------
(* The candidates of a package *)

parseStabilityName(s) ==
  CASE s = "dev" -> Dev [] s = "alpha" -> Alpha [] s = "beta" -> Beta
    [] s \in {"RC", "rc"} -> RC [] OTHER -> Stable

\* registerFlags: what the texts that require the package say about it.
AllowedBranches(texts) == {ExplicitDevBranch(t) : t \in texts} \ {""}

FlagsOf(texts) == {StabilityFlag(c) : c \in {Parse(t) : t \in texts} \ {ParseError}} \ {""}

stabilityFloor(minStab, texts) ==
  LET floors == {minStab} \cup {parseStabilityName(f) : f \in FlagsOf(texts)}
  IN CHOOSE s \in floors : \A t \in floors : s <= t

\* Fault: a required branch does not count against the minimum stability.
AdmittedByFloor(rows, minStab, texts) ==
  {r \in rows : LET v == ParseVersion(r.version) IN v # ParseError /\ v.stability >= stabilityFloor(minStab, texts)}

\* The versions are listed newest first; a row that does not parse is skipped.
AdmittedRows(rows, minStab, texts) ==
  {r \in rows :
     LET v == ParseVersion(r.version)
     IN /\ v # ParseError
        /\ \/ v.stability >= stabilityFloor(minStab, texts)
           \/ v.stability = Dev /\ v.branch \in AllowedBranches(texts)}

OrElse(rows, others) == IF rows # {} THEN rows ELSE others

\* Under --no-dev what the platform cannot run is dropped, unless that is all.
versions(rows, minStab, texts, strict, p, ignored) ==
  LET raw == AdmittedRows(rows, minStab, texts)
  IN IF strict THEN OrElse({r \in raw : versionInstallable(r, p, ignored)}, raw) ELSE raw

Newest(rows) ==
  {r \in rows : \A s \in rows : Compare(ParseVersion(r.version), ParseVersion(s.version)) >= 0}

\* What decide picks for a package with that one constraint.
Picks(rows, clauses) == Newest({r \in rows : AdmittedBy(clauses, ParseVersion(r.version))})

-----------------------------------------------------------------------------
(* The outdated report for one locked package *)

\* strings.ToLower first, unlike parseStabilityName.
outdatedFloor(s) ==
  CASE s = "dev" -> Dev [] s = "alpha" -> Alpha [] s = "beta" -> Beta
    [] s \in {"RC", "rc", "Rc"} -> RC [] OTHER -> Stable

\* Fault: the floor itself is left out.
OutdatedRowsAbove(rows, floor) ==
  {r \in rows : ParseVersion(r.version) # ParseError /\ ParseVersion(r.version).stability > floor}

OutdatedRows(rows, floor) ==
  {r \in rows : ParseVersion(r.version) # ParseError /\ ParseVersion(r.version).stability >= floor}

\* compareOutdated: the versions it may call wanted; {} when there is no report.
Wanted(rows, current, texts, floor) ==
  LET candidates == OutdatedRows(rows, floor)
      matching == {r \in candidates : \A t \in texts : AdmittedBy(Parse(t), ParseVersion(r.version))}
  IN IF candidates = {} \/ \E r \in Newest(candidates) :
            Compare(ParseVersion(r.version), ParseVersion(current.version)) <= 0
     THEN {}
     ELSE OrElse(Newest(matching), {current})

-----------------------------------------------------------------------------
(* Properties *)

(* The aggregate of the workspaces admits a version of an external package  *)
(* exactly when every owner's own require does.  It holds for texts of one  *)
(* alternative without an inline alias; see the README for the others.      *)
PlainText(text) == \A i \in DOMAIN text.tokens : text.tokens[i].op \notin {"|", "as"}

IsIntersection(texts, merged, w) ==
  (\A t \in texts : PlainText(t)) =>
    (AdmittedBy(Parse(merged.tokens), w) <=> \A t \in texts : AdmittedBy(Parse(t.tokens), w))

AggregateIsIntersection(root, members, w) ==
  LET agg == BuildAggregate(root, members, TRUE)
      owners == {root} \cup ToSet(members)
      Of(section) == {o[section] : o \in owners}
  IN agg # Failed =>
       \A section \in {"require", "requireDev"} : \A n \in DOMAIN agg[section] :
         IsIntersection({r[n] : r \in {q \in Of(section) : n \in DOMAIN q}}, agg[section][n], w)

(* A require of one dev branch is met by that branch whatever the minimum   *)
(* stability, when the registry has the branch and the platform runs it.    *)
ExplicitBranchIsPicked(rows, minStab, text, p, ignored) ==
  \A r \in rows :
    (/\ Len(text) = 1 /\ IsPlain(text[1]) /\ text[1].lit = r.version
     /\ r.version.form = "dev" /\ r.version.text # ""
     /\ Unpinned[r.version.text] = r.version.text
     /\ versionInstallable(r, p, ignored))
    => Picks(versions(rows, minStab, {text}, TRUE, p, ignored), Parse(text)) = {r}

(* Under --no-dev the resolver and the installer judge a version alike: what *)
(* the one takes for installable the other does not refuse, and the reverse. *)
(* They skip the check for different reasons, the resolver for a platform    *)
(* that was not asked and for "*", the installer for the first alone.        *)
JudgedAlike(rows, p, ignored) ==
  \A r \in rows : versionInstallable(r, p, ignored) <=> PlatformAllows({r}, p, ignored, TRUE)

\* What update picks for a package that one text requires.
UpdatePicks(rows, minStab, text) ==
  Picks(versions(rows, parseStabilityName(minStab), {text}, FALSE, NoPlatform, {}), Parse(text))

(* outdated and update agree: the version called wanted is one that update  *)
(* would pick, when the require has no flag, names no branch, and some      *)
(* candidate satisfies it.                                                  *)
OutdatedAgreesWithUpdate(rows, current, minStab, text) ==
  (FlagsOf({text}) = {} /\ AllowedBranches({text}) = {} /\ UpdatePicks(rows, minStab, text) # {})
    => Wanted(rows, current, {text}, outdatedFloor(minStab)) \in {{}, UpdatePicks(rows, minStab, text)}

(* With a flag or a branch in the require they may differ, but in one        *)
(* direction only: outdated promises no version above those update picks.    *)
OutdatedNeverPromisesMore(rows, current, minStab, text) ==
  \A r \in Wanted(rows, current, {text}, outdatedFloor(minStab)) \ {current} :
    /\ UpdatePicks(rows, minStab, text) # {}
    /\ \A s \in UpdatePicks(rows, minStab, text) : Compare(ParseVersion(s.version), ParseVersion(r.version)) >= 0
===============================================================================
