------------------------------ MODULE Journeys -------------------------------
(***************************************************************************)
(* What install and update report while they run: the renderers of         *)
(* cli/progress.go, the ticker of orchestrator/fetchticker.go, and the     *)
(* calls runFullPipeline and its workers make to them.  Every call holds   *)
(* the renderer's mutex, so a journey is a sequence of calls.              *)
(*                                                                         *)
(* A journey is given by [prefetch, early, late, names, order, fails]:     *)
(* whether the lock is prefetched; how the prefetch and fetchAll fare with *)
(* every package ("cached", "downloaded" or "failed"); the sequence of the *)
(* packages; the order in which the prefetch workers (their package) and   *)
(* the resolver ("main") make their calls; and where the run fails, or     *)
(* "nowhere".                                                              *)
(***************************************************************************)
EXTENDS Integers, Sequences, SequencesExt, FiniteSets

stageOrder == <<"prepare", "resolve", "download", "install", "autoload", "finalize">>

Place(stage) == CHOOSE i \in DOMAIN stageOrder : stageOrder[i] = stage

-----------------------------------------------------------------------------
(* The renderers *)

\* outcomes: the packages RecordFetch has told of, and whether the store had
\* them.  ticked: fetchTicker's seen.
NewProgress(tty) ==
  [tty |-> tty, started |-> {}, ended |-> {}, lines |-> <<>>, current |-> 0, cacheHits |-> 0,
   outcomes |-> [p \in {} |-> TRUE], ticked |-> {}]

BeginStage(s, stage) == [s EXCEPT !.started = @ \cup {stage}]

\* Fault: the stage begun last.
activeStageLast(s) ==
  IF s.started \ s.ended = {} THEN ""
  ELSE CHOOSE a \in s.started \ s.ended : \A b \in s.started \ s.ended : Place(a) >= Place(b)

activeStage(s) ==
  IF s.started \ s.ended = {} THEN ""
  ELSE CHOOSE a \in s.started \ s.ended : \A b \in s.started \ s.ended : Place(a) <= Place(b)

\* A line, with the two numbers of the download stage.
phaseDetail(s, stage) ==
  [kind |-> "ended", stage |-> stage,
   downloaded |-> IF stage = "download" /\ s.current > s.cacheHits THEN s.current - s.cacheHits ELSE 0,
   cached |-> IF stage = "download" THEN s.cacheHits ELSE 0]

HasLine(s, stage) == \E i \in DOMAIN s.lines : s.lines[i].stage = stage

\* A terminal prints the stages that ended in their order, up to the first that
\* has not; plain output prints the stage that ended.
printLines(s, stage) ==
  LET open == s.started \ s.ended
      due == IF s.tty THEN SelectSeq(stageOrder, LAMBDA a : a \in s.ended /\ ~HasLine(s, a)
                                                     /\ \A b \in open : Place(a) < Place(b))
             ELSE <<stage>>
  IN [s EXCEPT !.lines = @ \o [i \in DOMAIN due |-> phaseDetail(s, due[i])]]

EndStage(s, stage) ==
  IF stage \notin s.started \ s.ended THEN s
  ELSE printLines([s EXCEPT !.ended = @ \cup {stage}], stage)

\* Fault: every report of a package counts.
recordEveryFetch(s, p, fromCache) ==
  [s EXCEPT !.cacheHits = IF fromCache THEN @ + 1 ELSE @]

\* A download that is verified in the warm store is still one download.
recordFetch(s, p, fromCache) ==
  LET seen == p \in DOMAIN s.outcomes
      prior == s.outcomes[p]
      told == [q \in DOMAIN s.outcomes \cup {p} |-> IF q = p THEN fromCache ELSE s.outcomes[q]]
  IN IF ~seen THEN [s EXCEPT !.outcomes = told, !.cacheHits = IF fromCache THEN @ + 1 ELSE @]
     ELSE IF ~prior \/ fromCache THEN s
     ELSE [s EXCEPT !.outcomes = told, !.cacheHits = @ - 1]

\* advance, through the ticker.
tick(s, p) ==
  IF p \in s.ticked THEN s
  ELSE [s EXCEPT !.ticked = @ \cup {p}, !.started = @ \cup {"download"}, !.current = @ + 1]

Told(s, kind, stage) ==
  [s EXCEPT !.lines = Append(@, [kind |-> kind, stage |-> stage, downloaded |-> 0, cached |-> 0])]

Done(s) == Told(s, "done", "")
Fail(s) == Told(s, "failed", activeStage(s))

-----------------------------------------------------------------------------
(* The calls of a run *)

Call(of, arg, cached) == [of |-> of, arg |-> arg, cached |-> cached]
Begin(stage) == Call("begin", stage, FALSE)
End(stage) == Call("end", stage, FALSE)

\* What one Fetch, and the worker after it, report of a package.
Fetches(p, outcome) ==
  IF outcome = "failed" THEN <<>> ELSE <<Call("record", p, outcome = "cached"), Call("tick", p, FALSE)>>

\* The k-th call of an actor.
Script(j, actor) ==
  IF actor = "main" THEN (IF j.fails = "resolve" THEN <<Begin("resolve")>> ELSE <<Begin("resolve"), End("resolve")>>)
  ELSE Fetches(actor, j.early[actor])

\* The calls between the start of the prefetch and its join, in the given
\* order; BeginResolve of the first lookup begins a stage that has begun.
Meanwhile(j) ==
  [i \in DOMAIN j.order |->
     Script(j, j.order[i])[Cardinality({k \in 1..i : j.order[k] = j.order[i]})]]

Packages(j) == DOMAIN j.late

FetchAll(j) ==
  LET calls == FoldLeftDomain(LAMBDA acc, i : acc \o Fetches(j.names[i], j.late[j.names[i]]), <<>>, j.names)
  IN (IF j.prefetch THEN <<>> ELSE <<Begin("download")>>) \o calls
     \o IF j.fails = "download" THEN <<>> ELSE <<End("download")>>

Stage(j, stage) == IF j.fails = stage THEN <<Begin(stage)>> ELSE <<Begin(stage), End(stage)>>

\* runFullPipeline, and the commands around it: the parts in order, each with the
\* failures that end the run in it or right after it.
Parts(j) ==
  <<[calls |-> Stage(j, "prepare"), ends |-> {"prepare"}],
    [calls |-> <<Begin("resolve")>> \o (IF j.prefetch THEN <<Begin("download")>> ELSE <<>>) \o Meanwhile(j),
     ends |-> {"resolve", "platform"}],
    [calls |-> FetchAll(j), ends |-> {"download"}],
    [calls |-> Stage(j, "install"), ends |-> {"install", "prune"}],
    [calls |-> Stage(j, "autoload"), ends |-> {"autoload"}],
    [calls |-> Stage(j, "finalize"), ends |-> {"finalize"}]>>

Calls(j) ==
  FoldLeft(LAMBDA acc, part : IF acc.over THEN acc
                              ELSE [calls |-> acc.calls \o part.calls, over |-> j.fails \in part.ends],
           [calls |-> <<>>, over |-> FALSE], Parts(j)).calls

Shown(j, tty) ==
  LET Answer(s, c) ==
        CASE c.of = "begin" -> BeginStage(s, c.arg)
          [] c.of = "end" -> EndStage(s, c.arg)
          [] c.of = "record" -> recordFetch(s, c.arg, c.cached)
          [] OTHER -> tick(s, c.arg)
      s == FoldLeft(Answer, NewProgress(tty), Calls(j))
  IN IF j.fails = "nowhere" THEN Done(s) ELSE Fail(s)

-----------------------------------------------------------------------------
(* What is expected *)

\* The packages the run downloaded, as soon as or as late as it may be.
Downloaded(j) ==
  {p \in Packages(j) : j.late[p] = "downloaded" \/ (j.prefetch /\ j.early[p] = "downloaded")}

\* The stages that end before the run does.
Before(j) ==
  CASE j.fails = "nowhere" -> stageOrder
    [] j.fails = "platform" -> SubSeq(stageOrder, 1, 2)
    [] j.fails = "prune" -> SubSeq(stageOrder, 1, 4)
    [] OTHER -> SubSeq(stageOrder, 1, Place(j.fails) - 1)

\* Both renderers show each stage that ended once, in the order of the stages,
\* also when the download began before the resolution ended; the last line says
\* how the run ended, and names the stage it failed in although another is open;
\* the numbers of the download line are those of the packages, however often and
\* by whomever they were fetched (cli/progress.go, "A speculative download
\* followed by an authoritative warm-store verification is still one download").
JourneyIsTold(j) ==
  \A tty \in BOOLEAN :
    LET lines == Shown(j, tty).lines
        last == lines[Len(lines)]
    IN /\ [i \in 1..(Len(lines) - 1) |-> lines[i].stage] = Before(j)
       /\ last.kind = IF j.fails = "nowhere" THEN "done" ELSE "failed"
       /\ j.fails \in ToSet(stageOrder) => last.stage = j.fails
       /\ \A i \in DOMAIN lines :
            lines[i].stage = "download" /\ lines[i].kind = "ended" =>
              /\ lines[i].downloaded = Cardinality(Downloaded(j))
              /\ lines[i].cached = Cardinality(Packages(j) \ Downloaded(j))
===============================================================================
