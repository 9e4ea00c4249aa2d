------------------------------- MODULE Scripts -------------------------------
(***************************************************************************)
(* The scripts of composer.json (internal/scripts, and RunScript of        *)
(* orchestrator/run.go).  A scripts map gives every name the sequence of   *)
(* its bodies: [form, name, ok], where form is "ref" (to name), "empty",   *)
(* "shell" or "php", and ok tells how the process of the last two exits.   *)
(* Time is counted in processes: the one after the first `limit` is killed *)
(* by the timeout or the cancelled context.                                *)
(***************************************************************************)
EXTENDS Integers, Sequences, SequencesExt

CONSTANT MaxRefDepth   \* maxRefDepth: 32 in the code

Started == [err |-> "", ran |-> <<>>, visited |-> {}]

\* runShell and runPHPCallable.
RunProcess(s, body, limit) ==
  CASE Len(s.ran) >= limit -> [s EXCEPT !.err = "timeout", !.ran = Append(@, body)]
    [] Len(s.ran) < limit /\ ~body.ok -> [s EXCEPT !.err = "failed", !.ran = Append(@, body)]
    [] OTHER -> [s EXCEPT !.ran = Append(@, body)]

\* Fault: it stays marked.
LeaveMarked(s, name) == s

\* A reference that has run may be run again, in another branch.
Leave(s, name) == IF s.err # "" THEN s ELSE [s EXCEPT !.visited = @ \ {name}]

\* runOne, and the loop over the bodies of a script around it.
RECURSIVE runOne(_, _, _, _, _)
runAll(scripts, s, bodies, depth, limit) ==
  FoldLeft(LAMBDA t, body : IF t.err # "" THEN t ELSE runOne(scripts, t, body, depth, limit), s, bodies)

runOne(scripts, s, body, depth, limit) ==
  IF depth > MaxRefDepth THEN [s EXCEPT !.err = "depth"]
  ELSE CASE body.form = "empty" -> [s EXCEPT !.err = "empty"]
         [] body.form = "ref" /\ body.name \in s.visited -> [s EXCEPT !.err = "cycle"]
         [] body.form = "ref" /\ body.name \notin s.visited /\ body.name \notin DOMAIN scripts -> [s EXCEPT !.err = "unknown"]
         [] body.form = "ref" /\ body.name \in DOMAIN scripts \ s.visited ->
              Leave(runAll(scripts, [s EXCEPT !.visited = @ \cup {body.name}], scripts[body.name], depth + 1, limit),
                    body.name)
         [] OTHER -> RunProcess(s, body, limit)

\* Run and RunNamed: only for the latter must the script exist.
runBodies(scripts, name, required, limit) ==
  IF name \notin DOMAIN scripts THEN [Started EXCEPT !.err = IF required THEN "not found" ELSE ""]
  ELSE runAll(scripts, Started, scripts[name], 0, limit)

\* resolveScriptProject: of the directories from the selected one upwards the
\* first with a composer.json, 0 if there is none or it does not load.
resolveScriptProject(dirs) ==
  LET i == SelectInSeq(dirs, LAMBDA d : d.hasManifest)
  IN IF i = 0 THEN 0 ELSE IF dirs[i].loads THEN i ELSE 0

-----------------------------------------------------------------------------
(* Properties *)

RefsOf(scripts, name) ==
  IF name \notin DOMAIN scripts THEN {} ELSE {b.name : b \in {c \in ToSet(scripts[name]) : c.form = "ref"}}

\* The scripts that are reached from a script by exactly k references.
Level(scripts, name) ==
  LET N == Cardinality(DOMAIN scripts) + 1
      level[k \in 0..N] == IF k = 0 THEN {name} ELSE UNION {RefsOf(scripts, x) : x \in level[k - 1]}
  IN level

Bodies(scripts, name) == IF name \in DOMAIN scripts THEN ToSet(scripts[name]) ELSE {}

(* A script succeeds exactly if all it stands for can run: every reference  *)
(* is known, none comes back to itself, none is nested too deep, and no     *)
(* body is empty or fails.                                                  *)
Runnable(scripts, name) ==
  LET level == Level(scripts, name)
      N == Cardinality(DOMAIN scripts) + 1
  IN /\ level[N] = {}
     /\ \A k \in 0..N : \A x \in level[k] :
          /\ x \in DOMAIN scripts
          /\ k > MaxRefDepth => scripts[x] = <<>>
          /\ \A b \in Bodies(scripts, x) : b.form # "empty" /\ (b.form \in {"shell", "php"} => b.ok)

(* The run of a script without a timeout succeeds exactly if it is          *)
(* runnable, and then has run every process it stands for; one that fails   *)
(* stops at once: nothing runs after the first failure or timeout, and the  *)
(* deadline is never exceeded by more than the process it kills.            *)
RunsWhatIsWritten(scripts, name, limit) ==
  LET r == runBodies(scripts, name, TRUE, limit)
      level == Level(scripts, name)
      All == UNION {Bodies(scripts, x) : x \in UNION {level[k] : k \in DOMAIN level}}
      Failing == {i \in DOMAIN r.ran : ~r.ran[i].ok \/ i > limit}
  IN /\ r.err = "" => Runnable(scripts, name)
     /\ Runnable(scripts, name) => r.err \in {"", "timeout"}
     /\ r.err = "" => ToSet(r.ran) = {b \in All : b.form \in {"shell", "php"}} /\ r.visited = {}
     /\ Failing \subseteq {Len(r.ran)}
     /\ Len(r.ran) <= limit + 1
     /\ (r.err \in {"failed", "timeout"}) = (Failing # {})
===============================================================================
