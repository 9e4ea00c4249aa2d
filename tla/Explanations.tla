---------------------------- MODULE Explanations -----------------------------
(***************************************************************************)
(* The message of a ConflictError (resolver/render.go, and                 *)
(* collectLeafCauses of resolver/error.go).  A conflict is a sequence of   *)
(* incompatibilities of which the last is the failure: [cause, left,       *)
(* right], where the cause is "conflict" for one that was resolved from    *)
(* two earlier ones, given by their places, and else tells the leaf from   *)
(* others ("root" for a require of the manifest).                          *)
(*                                                                         *)
(* A sentence is [above, premises, concludes, number]: it concludes an     *)
(* incompatibility (0 for a line "(N)" alone) from the premises it spells  *)
(* out and from as many derivations above it; number is its label or 0.  A *)
(* premise is [node, number]; node is 0 for a mere reference "(N)".        *)
(***************************************************************************)
EXTENDS Integers, Sequences, SequencesExt, FiniteSets, TLC

IsLeaf(g, i) == g[i].cause # "conflict"

Parents(g, i) == IF IsLeaf(g, i) THEN <<>> ELSE <<g[i].left, g[i].right>>

\* What the explanation of the failure goes through.
Involved(g) ==
  LET from[i \in DOMAIN g] == {i} \cup UNION {from[p] : p \in ToSet(Parents(g, i))}
  IN from[Len(g)]

\* collectLeafCauses: the walk in order, every headline at its first place.
Headlines(g) ==
  LET walk[i \in DOMAIN g] ==
        IF IsLeaf(g, i) THEN IF g[i].cause = "root" THEN <<>> ELSE <<g[i].cause>>
        ELSE walk[g[i].left] \o walk[g[i].right]
  IN FoldLeft(LAMBDA out, h : IF h \in ToSet(out) THEN out ELSE Append(out, h), <<>>, walk[Len(g)])

\* The pre-pass: the parents of an incompatibility are counted when it is first met.
Visits(g, i) ==
  Cardinality({u \in Involved(g) \X {1, 2} : ~IsLeaf(g, u[1]) /\ Parents(g, u[1])[u[2]] = i})
    + IF i = Len(g) THEN 1 ELSE 0

-----------------------------------------------------------------------------
(* The text so far and the labels given out so far *)

NextNumber(s, g, i) == IF Visits(g, i) >= 2 THEN Cardinality(DOMAIN s.labels) + 1 ELSE 0

Labelled(s, i, n) == [s EXCEPT !.labels = IF n = 0 THEN @ ELSE @ @@ (i :> n)]

Reference(n) == [node |-> 0, number |-> n]

Sentence(above, premises, concludes, number) ==
  [above |-> above, premises |-> premises, concludes |-> concludes, number |-> number]

\* Fault: a leaf has no label.
clauseForUnlabelled(g, s, i) == [s EXCEPT !.clauses = Append(@, [node |-> i, number |-> 0])]

\* A leaf is spelled out once, with a label if it comes again.
clauseFor(g, s, i) ==
  IF i \in DOMAIN s.labels THEN [s EXCEPT !.clauses = Append(@, Reference(s.labels[i]))]
  ELSE LET n == NextNumber(s, g, i)
       IN [Labelled(s, i, n) EXCEPT !.clauses = Append(@, [node |-> i, number |-> n])]

\* The derived parents come first, then the sentence with the leaves among them.
\* Only the failure itself is a leaf here, and then all there is to say.
RECURSIVE write(_, _, _)
write(g, s, i) ==
  IF i \in DOMAIN s.labels
  THEN [s EXCEPT !.text = Append(@, Sentence(0, <<Reference(s.labels[i])>>, 0, 0))]
  ELSE IF IsLeaf(g, i) THEN [s EXCEPT !.text = Append(@, Sentence(0, <<>>, i, 0))]
  ELSE LET n == NextNumber(s, g, i)
           derived == SelectSeq(Parents(g, i), LAMBDA p : ~IsLeaf(g, p))
           leaves == SelectSeq(Parents(g, i), LAMBDA p : IsLeaf(g, p))
           told == FoldLeft(LAMBDA t, p : write(g, t, p), Labelled(s, i, n), derived)
           clauses == FoldLeft(LAMBDA t, p : clauseFor(g, t, p), [told EXCEPT !.clauses = <<>>], leaves)
       IN [clauses EXCEPT !.text = Append(@, Sentence(Len(derived), clauses.clauses, i, n))]

RenderConflict(g) == write(g, [text |-> <<>>, labels |-> <<>>, clauses |-> <<>>], Len(g)).text

-----------------------------------------------------------------------------
(* Properties *)

\* What the reader takes "(N)" in sentence j for: what was labelled so before.
Denoted(text, j, n) ==
  {p.node : p \in {q \in UNION {ToSet(text[k].premises) : k \in 1..j} : q.node # 0 /\ q.number = n}}
    \cup {text[k].concludes : k \in {h \in 1..(j - 1) : text[h].number = n}}

Meant(text, j, premise) == IF premise.node # 0 THEN {premise.node} ELSE Denoted(text, j, premise.number)

\* What a sentence leaves the reader with.
LastSaid(text, j) ==
  IF text[j].concludes # 0 THEN {text[j].concludes} ELSE Meant(text, j, text[j].premises[1])

(* The explanation of a conflict is a proof: every sentence follows from    *)
(* what it names and from the sentence just above, and from one further up  *)
(* when it rests on two derivations; every label has one meaning, given     *)
(* before it is used; every incompatibility involved is stated once, though *)
(* the failure may rest on it in many ways; the last sentence is the        *)
(* failure.  The headlines are the leaves that are not requires of the      *)
(* manifest, each once.                                                     *)
ExplanationIsProof(g) ==
  LET text == RenderConflict(g)
      Concluding(i) == {j \in DOMAIN text : text[j].concludes = i}
      Telling(i) == {<<j, k>> \in (DOMAIN text) \X {1, 2} : k <= Len(text[j].premises) /\ text[j].premises[k].node = i}
      Follows(j) ==
        LET named == UNION {Meant(text, j, p) : p \in ToSet(text[j].premises)}
            above == CASE text[j].above = 0 -> {}
                       [] text[j].above = 1 -> LastSaid(text, j - 1)
                       [] text[j].above = 2 -> LastSaid(text, j - 1) \cup
                            {i \in ToSet(Parents(g, text[j].concludes)) : \E k \in 1..(j - 2) : LastSaid(text, k) = {i}}
        IN named \cup above = ToSet(Parents(g, text[j].concludes))
  IN /\ \A i \in Involved(g) : Cardinality(Telling(i)) + Cardinality(Concluding(i)) = 1
     /\ \A j \in DOMAIN text : text[j].concludes # 0 => Follows(j)
     /\ \A j \in DOMAIN text : \A p \in ToSet(text[j].premises) : Cardinality(Meant(text, j, p)) = 1
     /\ text[Len(text)].concludes = Len(g)
     /\ IsInjective(Headlines(g))
     /\ ToSet(Headlines(g)) = {g[i].cause : i \in Involved(g)} \ {"conflict", "root"}
===============================================================================
