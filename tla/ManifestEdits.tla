---------------------------- MODULE ManifestEdits ----------------------------
(***************************************************************************)
(* What require and remove write into composer.json (internal/cli/         *)
(* require.go and remove.go); Pipeline has the transaction around them.  A *)
(* manifest is as in LockReports, or it has a require or requireDev that   *)
(* does not decode, which is Failed.  An argument is [name, given, text].  *)
(***************************************************************************)
EXTENDS LockReports

AnyText == [workspace |-> FALSE, tokens |-> <<[op |-> "*", prefix |-> <<>>]>>]

\* Fault: the constraint is taken as it is.
parseRequirementUnchecked(arg) ==
  IF validRequirementName(arg.name) THEN [name |-> arg.name, text |-> arg.text] ELSE Failed

\* A name alone requires any version.
parseRequirement(arg) ==
  LET text == IF arg.given THEN arg.text ELSE AnyText
  IN IF ~validRequirementName(arg.name) \/ Parse(text.tokens) = ParseError
     THEN Failed ELSE [name |-> arg.name, text |-> text]

Decodes(m) == m.require # Failed /\ m.requireDev # Failed

Sections(m, dev, target, other) ==
  [m EXCEPT !.require = IF dev THEN other ELSE target, !.requireDev = IF dev THEN target ELSE other]

Target(m, dev) == IF dev THEN m.requireDev ELSE m.require
Other(m, dev) == IF dev THEN m.require ELSE m.requireDev

Without(requires, names) == [n \in DOMAIN requires \ names |-> requires[n]]

\* A package that is required in the other section moves; the last text of a name counts.
updateManifestRequirements(m, specs, dev) ==
  IF ~Decodes(m) THEN Failed
  ELSE Sections(m, dev, FoldLeft(LAMBDA t, s : Merged(t, s.name :> s.text), Target(m, dev), specs),
                Without(Other(m, dev), {s.name : s \in ToSet(specs)}))

\* All or nothing: a name of the other section, or of none, fails them all.
updateManifestRemovals(m, names, dev) ==
  IF ~Decodes(m) \/ ~(names \subseteq DOMAIN Target(m, dev)) THEN Failed
  ELSE Sections(m, dev, Without(Target(m, dev), names), Other(m, dev))

\* The manifest after the command: as it was when the command refuses.
Edited(m, c) ==
  LET specs == [i \in DOMAIN c.args |-> parseRequirement(c.args[i])]
      names == {a.name : a \in ToSet(c.args)}
      refused == IF c.of = "require" THEN Failed \in ToSet(specs) ELSE \E n \in names : ~validRequirementName(n)
      edited == IF refused THEN Failed
                ELSE IF c.of = "require" THEN updateManifestRequirements(m, specs, c.dev)
                ELSE updateManifestRemovals(m, names, c.dev)
  IN IF edited = Failed THEN m ELSE edited

-----------------------------------------------------------------------------
(* Property *)

RequiredOnce(m) == DOMAIN m.require \cap DOMAIN m.requireDev = {}

Accepted(m) == validateRequirements(m.require) \cup validateRequirements(m.requireDev) = {}

(* Whatever require and remove commands follow each other, composer.json    *)
(* stays one that validate accepts, in which no name is required twice; the *)
(* names no command gave keep their requires, and a command that is refused *)
(* or that removes what another one added leaves it as it was.              *)
EditsKeepManifestSound(m, commands) ==
  LET after == FoldLeft(Edited, m, commands)
      given == UNION {{a.name : a \in ToSet(c.args)} : c \in ToSet(commands)}
      Undo(c) == [c EXCEPT !.of = "remove"]
      Adds(c) == c.of = "require" /\ \A a \in ToSet(c.args) : a.name \notin DOMAIN m.require \cup DOMAIN m.requireDev
  IN IF ~Decodes(m) THEN after = m
     ELSE /\ RequiredOnce(m) => RequiredOnce(after)
          /\ Accepted(m) => Accepted(after)
          /\ Without(after.require, given) = Without(m.require, given)
          /\ Without(after.requireDev, given) = Without(m.requireDev, given)
          /\ \A c \in ToSet(commands) : Adds(c) => Edited(Edited(m, c), Undo(c)) = m
===============================================================================
