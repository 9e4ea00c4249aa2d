---------------------------- MODULE Backtracking -----------------------------
(***************************************************************************)
(* What Solve (internal/resolver) is to its caller: a depth-first search   *)
(* for a selection of versions.  It extends the selection one package at a *)
(* time, by a version that all requires known so far admit, undoes its     *)
(* newest choices, and returns a selection only when every require is met. *)
(* Why it chooses and undoes what it does is left to Resolver.             *)
(***************************************************************************)
EXTENDS Integers, Sequences

CONSTANTS Package, Version, Admits  \* as in Resolver

VARIABLES
  problem,  \* the Input of this Solve call, any
  stack,    \* the versions chosen so far, oldest first
  verdict   \* "none" while the search goes on, or how it ended

\* The require maps that count: the manifest's, and one for each choice.
DevRequires == IF problem.includeDev THEN problem.requireDev ELSE << >>
RequiresOf(i) == problem.requires[stack[i].pkg][stack[i].ver]

Chosen(q) == \E i \in DOMAIN stack : stack[i].pkg = q

\* A require map has nothing against q at version v.
Allows(reqs, q, v) == q \in DOMAIN reqs => v \in Admits[reqs[q]]

\* A require map is met by the choices made.
Met(reqs) == \A q \in DOMAIN reqs : \E i \in DOMAIN stack :
               stack[i].pkg = q /\ stack[i].ver \in Admits[reqs[q]]

Init == stack = << >> /\ verdict = "none"

Push(q, v) ==
  /\ verdict = "none" /\ ~ Chosen(q)
  /\ q \in problem.known /\ v \in problem.published[q]
  /\ Allows(problem.require, q, v) /\ Allows(DevRequires, q, v)
  /\ \A i \in DOMAIN stack : Allows(RequiresOf(i), q, v)
  /\ stack' = Append(stack, [pkg |-> q, ver |-> v])
  /\ UNCHANGED <<problem, verdict>>

\* The newest choices are undone, down to n of them.
Pop(n) ==
  /\ verdict = "none" /\ n < Len(stack)
  /\ stack' = SubSeq(stack, 1, n)
  /\ UNCHANGED <<problem, verdict>>

Return ==
  /\ verdict = "none"
  /\ Met(problem.require) /\ Met(DevRequires) /\ \A i \in DOMAIN stack : Met(RequiresOf(i))
  /\ verdict' = "solved"
  /\ UNCHANGED <<problem, stack>>

GiveUp ==
  /\ verdict = "none"
  /\ verdict' \in {"conflict", "error"}
  /\ UNCHANGED <<problem, stack>>

Next ==
  \/ \E q \in Package, v \in Version : Push(q, v)
  \/ \E n \in 0 .. Len(stack) : Pop(n)
  \/ Return \/ GiveUp

Spec == Init /\ [][Next]_<<problem, stack, verdict>>
==============================================================================
