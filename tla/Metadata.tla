------------------------------ MODULE Metadata ------------------------------
(***************************************************************************)
(* How the resolver learns of packages: MetadataPrefetcher of              *)
(* internal/orchestrator, and under it the sources it shares with the      *)
(* resolver: multisource, the VCS client, the Packagist client with its    *)
(* singleflight, and the HTTP cache.                                       *)
(*                                                                         *)
(* One process runs at a time and may be interrupted (Ctrl-C cancels its   *)
(* context) or killed; the files it wrote stay for the next one.  Its main *)
(* goroutine resolves, and the workers of the pool look names up beside    *)
(* it, with a context of their own.  The registry answers a conditional    *)
(* request by its revision, and may publish a new one at any time.  git is *)
(* modelled by what its commands leave on disk.                            *)
(***************************************************************************)
EXTENDS Integers, FiniteSets

CONSTANTS
  Name,      \* package names, VcsName among them
  VcsName,   \* the name the repository of the VCS client declares
  Root,      \* what the manifest requires
  Locked,    \* what the last lock holds
  Needs,     \* Needs[n]: what a version of n requires
  Missing,   \* the registry files that do not exist
  Changing,  \* the registry files a new revision may be published of
  Workers,   \* limit of the pool
  MaxRev, MaxRuns  \* bounds: revisions of a file, and runs

\* The two files of a package: its tagged releases and its branches.
Part == {"stable", "dev"}
URL == (Name \ {VcsName}) \X Part

ASSUME NameAssumption == IsFiniteSet(Name) /\ VcsName \in Name
ASSUME RootAssumption == Root \subseteq Name /\ Locked \subseteq Name /\ Needs \in [Name -> SUBSET Name]
ASSUME ServerAssumption == Missing \subseteq URL /\ Changing \subseteq URL \ Missing
ASSUME WorkersAssumption == Workers \in Nat \ {0} /\ MaxRev \in Nat \ {0} /\ MaxRuns \in Nat

VARIABLES
  server,  \* server[u]: the revision of u the registry serves
  hdr, body,  \* the files of the HTTP cache: whose ETag and whose bytes, 0 for none
  mirror,  \* the directory of the bare clone
  known,   \* whether cachedPkg of the VCS client is set
  phase,   \* of runFullPipeline
  lockHit, \* whether resolveOrCache returns without resolving
  parent,  \* whether the context of the process is cancelled
  pool,    \* the MetadataPrefetcher: on, queue, seen, owed (its wg), cancelled
  solver,  \* the resolver: pc, the name it waits for, needed, listed, missing, decided, adding
  look,    \* look[c][n]: how far the Lookup of n by c is
  leader,  \* leader[n]: whose context the singleflight of n runs under
  req,     \* req[u]: the Get of u that is under way
  since,   \* the revision the registry served when that Get began
  runs

files == <<hdr, body>>
flights == <<leader, req, since>>
vars == <<server, files, mirror, known, phase, lockHit, parent, pool, solver, look, flights, runs>>

Caller == {"main", "pool"}
Rev == 1 .. MaxRev
Failure == {"notfound", "broken", "cancelled"}
Outcome == {"ok"} \cup Failure
Returned == {"solved", "conflict", "broken", "cancelled"}  \* how Solve ends
Running == {"resolve", "rest", "drain"}

NoPool == [on |-> FALSE, queue |-> {}, seen |-> {}, owed |-> {}, cancelled |-> FALSE]
NoSolver == [pc |-> "off", name |-> VcsName, needed |-> {}, listed |-> {}, missing |-> {},
             decided |-> {}, adding |-> {}]
NoLook == [c \in Caller |-> [n \in Name |-> "none"]]
NoReq == [pc |-> "off", etag |-> 0, cached |-> 0, got |-> 0]

TypeOK ==
  /\ server \in [URL -> Rev]
  /\ hdr \in [URL -> 0 .. MaxRev] /\ body \in [URL -> 0 .. MaxRev]
  /\ mirror \in {"none", "partial", "whole"}
  /\ known \in BOOLEAN /\ lockHit \in BOOLEAN /\ parent \in BOOLEAN
  /\ phase \in Running \cup {"off", "end"}
  /\ pool \in [on : BOOLEAN, queue : SUBSET Name, seen : SUBSET Name, owed : SUBSET Name, cancelled : BOOLEAN]
  /\ solver \in [pc : {"off", "pick", "wait", "add", "dispatch"} \cup Returned, name : Name,
                 needed : SUBSET Name, listed : SUBSET Name, missing : SUBSET Name,
                 decided : SUBSET Name, adding : SUBSET Name]
  /\ look \in [Caller -> [Name -> {"none", "vcs", "clone", "fetch", "http"} \cup Outcome]]
  /\ leader \in [Name -> Caller \cup {"none"}]
  /\ req \in [URL -> [pc : {"off", "sent", "body", "hdr"} \cup Outcome, etag : 0 .. MaxRev,
                      cached : 0 .. MaxRev, got : 0 .. MaxRev]]
  /\ since \in [URL -> 0 .. MaxRev]
  /\ pool.queue \subseteq pool.owed /\ pool.owed \subseteq pool.seen
  /\ \A u \in URL : req[u].pc = "off" <=> leader[u[1]] = "none"
  /\ runs \in 0 .. MaxRuns

\* A cache that is cold, or was filled by an earlier run; the clone was made by
\* that run, or was not.
Init ==
  /\ server = [u \in URL |-> 1]
  /\ \E warm \in BOOLEAN :
       /\ hdr = [u \in URL |-> IF warm /\ u \notin Missing THEN 1 ELSE 0]
       /\ body = hdr
  /\ mirror \in {"none", "whole"}
  /\ known = FALSE /\ phase = "off" /\ lockHit = FALSE /\ parent = FALSE
  /\ pool = NoPool /\ solver = NoSolver /\ look = NoLook
  /\ leader = [n \in Name |-> "none"]
  /\ req = [u \in URL |-> NoReq]
  /\ since = [u \in URL |-> 0]
  /\ runs = 0

(***************************************************************************)
(* The run.                                                                *)
(***************************************************************************)
collectMetadataPrefetchNames == Root \cup Locked

\* The initial batch is counted on the WaitGroup before anybody can wait.
maybeStartMetadataPrefetch(names) ==
  [on |-> TRUE, queue |-> names, seen |-> names, owed |-> names, cancelled |-> FALSE]

Start ==
  /\ phase \notin Running /\ runs < MaxRuns
  /\ phase' = "resolve" /\ runs' = runs + 1
  /\ pool' \in {NoPool, maybeStartMetadataPrefetch(collectMetadataPrefetchNames)}
  /\ lockHit' \in BOOLEAN
  /\ solver' = IF lockHit' THEN NoSolver ELSE [NoSolver EXCEPT !.pc = "pick", !.needed = Root]
  /\ UNCHANGED <<server, files, mirror, known, parent, look, flights>>

\* The lock, or a cached resolution, is used as it is: what the pool does is of
\* no use to this run.
CacheHit ==
  /\ phase = "resolve" /\ lockHit
  /\ phase' = "rest" /\ lockHit' = FALSE
  /\ pool' = [pool EXCEPT !.cancelled = TRUE]
  /\ UNCHANGED <<server, files, mirror, known, parent, solver, look, flights, runs>>

\* A resolve that failed goes to the deferred Wait without a Cancel.
ResolveReturns ==
  /\ phase = "resolve" /\ solver.pc \in Returned
  /\ phase' = IF solver.pc = "solved" THEN "rest" ELSE "drain"
  /\ solver' = NoSolver
  /\ UNCHANGED <<server, files, mirror, known, lockHit, parent, pool, look, flights, runs>>

\* fetchViaGitArchive brings the mirror up to date under the process's context.
Archive ==
  /\ phase = "rest" /\ look["main"][VcsName] = "none"
  /\ look' = [look EXCEPT !["main"][VcsName] = "vcs"]
  /\ UNCHANGED <<server, files, mirror, known, phase, lockHit, parent, pool, solver, flights, runs>>

\* The rest of the pipeline ended, well or not.
RestReturns ==
  /\ phase = "rest" /\ look["main"][VcsName] \in {"none"} \cup Outcome
  /\ phase' = "drain"
  /\ look' = [look EXCEPT !["main"][VcsName] = "none"]
  /\ UNCHANGED <<server, files, mirror, known, lockHit, parent, pool, solver, flights, runs>>

\* Fault: only what was handed to a worker is waited for.
DrainedOfDispatched == \A n \in Name : look["pool"][n] = "none"

\* wg.Wait: nothing that was counted is left.
Drained == pool.owed = {}

Wait ==
  /\ phase = "drain" /\ Drained
  /\ phase' = "end" /\ known' = FALSE /\ parent' = FALSE
  /\ pool' = [NoPool EXCEPT !.queue = pool.queue]
  /\ UNCHANGED <<server, files, mirror, lockHit, solver, look, flights, runs>>

Interrupt ==
  /\ phase \in Running /\ ~ parent
  /\ parent' = TRUE
  /\ UNCHANGED <<server, files, mirror, known, phase, lockHit, pool, solver, look, flights, runs>>

Cancelled(c) == parent \/ (c = "pool" /\ pool.cancelled)

Kill ==
  /\ phase \in Running
  /\ phase' = "off" /\ known' = FALSE /\ lockHit' = FALSE /\ parent' = FALSE
  /\ pool' = NoPool /\ solver' = NoSolver /\ look' = NoLook
  /\ leader' = [n \in Name |-> "none"]
  /\ req' = [u \in URL |-> NoReq]
  /\ since' = [u \in URL |-> 0]
  /\ UNCHANGED <<server, files, mirror, runs>>

(***************************************************************************)
(* The resolver, on the main goroutine.                                    *)
(***************************************************************************)
Resolving(pc) == phase = "resolve" /\ ~ lockHit /\ solver.pc = pc

\* versionLister: one Lookup for each name in a Solve.
versions(n) ==
  /\ Resolving("pick") /\ n \in solver.needed \ (solver.listed \cup solver.missing)
  /\ solver' = [solver EXCEPT !.pc = "wait", !.name = n]
  /\ look' = [look EXCEPT !["main"][n] = "vcs"]
  /\ UNCHANGED <<server, files, mirror, known, phase, lockHit, parent, pool, flights, runs>>

\* The resolver goes on with what it was told: a package nobody knows is one with
\* no versions, which it remembers, and any other error ends the Solve.
Listed ==
  /\ Resolving("wait")
  /\ LET n == solver.name
         told == look["main"][n]
     IN /\ told \in Outcome
        /\ solver' = CASE told = "ok" -> [solver EXCEPT !.pc = "pick", !.listed = @ \cup {n}]
                       [] told = "notfound" -> [solver EXCEPT !.pc = "pick", !.missing = @ \cup {n}]
                       [] OTHER -> [solver EXCEPT !.pc = told]
        /\ look' = [look EXCEPT !["main"][n] = "none"]
  /\ UNCHANGED <<server, files, mirror, known, phase, lockHit, parent, pool, flights, runs>>

\* decide: the version's requirements are needed, and are given to the pool.
OnVersionDecided(n) ==
  /\ Resolving("pick") /\ n \in solver.listed \ solver.decided
  /\ solver' = [solver EXCEPT !.pc = IF pool.on /\ Needs[n] # {} THEN "add" ELSE "pick",
                              !.needed = @ \cup Needs[n], !.decided = @ \cup {n},
                              !.adding = IF pool.on THEN Needs[n] ELSE {}]
  /\ UNCHANGED <<server, files, mirror, known, phase, lockHit, parent, pool, look, flights, runs>>

\* Fault: the name is not remembered.
CountOnly(n) == [pool EXCEPT !.owed = @ \cup {n}]

Count(n) == [pool EXCEPT !.seen = @ \cup {n}, !.owed = @ \cup {n}]

\* Add: a name not seen yet is counted, then waits for a worker.
Add(n) ==
  /\ Resolving("add") /\ n \in solver.adding
  /\ LET dup == n \in pool.seen
         left == solver.adding \ {n}
     IN /\ pool' = IF dup THEN pool ELSE Count(n)
        /\ solver' = [solver EXCEPT !.adding = left, !.name = n,
                                    !.pc = IF ~ dup THEN "dispatch" ELSE IF left = {} THEN "pick" ELSE "add"]
  /\ UNCHANGED <<server, files, mirror, known, phase, lockHit, parent, look, flights, runs>>

\* The search, which Resolver models, may do without a package that only versions
\* it has undone require.
Solved ==
  /\ Resolving("pick")
  /\ Root \subseteq solver.decided /\ solver.needed \subseteq solver.decided \cup solver.missing
  /\ solver' = [solver EXCEPT !.pc = "solved"]
  /\ UNCHANGED <<server, files, mirror, known, phase, lockHit, parent, pool, look, flights, runs>>

\* What it knows of the packages may leave no solution.
Unsatisfiable ==
  /\ Resolving("pick") /\ solver.listed \cup solver.missing # {}
  /\ solver' = [solver EXCEPT !.pc = "conflict"]
  /\ UNCHANGED <<server, files, mirror, known, phase, lockHit, parent, pool, look, flights, runs>>

(***************************************************************************)
(* The pool.                                                               *)
(***************************************************************************)
\* g.Go blocks while the limit is reached.
FreeSlot == Cardinality({n \in Name : look["pool"][n] # "none"}) < Workers

\* Fault: the rest of a batch is dropped once the pool is cancelled.
dispatchUntilCancelled(n) ==
  /\ phase \in Running /\ n \in pool.queue /\ FreeSlot /\ ~ Cancelled("pool")
  /\ pool' = [pool EXCEPT !.queue = @ \ {n}]
  /\ look' = [look EXCEPT !["pool"][n] = "vcs"]
  /\ UNCHANGED <<server, files, mirror, known, phase, lockHit, parent, solver, flights, runs>>

\* The goroutine that hands out the initial batch, all of it.
dispatchInitial(n) ==
  /\ phase \in Running /\ n \in pool.queue /\ FreeSlot
  /\ pool' = [pool EXCEPT !.queue = @ \ {n}]
  /\ look' = [look EXCEPT !["pool"][n] = "vcs"]
  /\ UNCHANGED <<server, files, mirror, known, phase, lockHit, parent, solver, flights, runs>>

dispatchAdded ==
  /\ Resolving("dispatch") /\ FreeSlot
  /\ look' = [look EXCEPT !["pool"][solver.name] = "vcs"]
  /\ solver' = [solver EXCEPT !.pc = IF solver.adding = {} THEN "pick" ELSE "add"]
  /\ UNCHANGED <<server, files, mirror, known, phase, lockHit, parent, pool, flights, runs>>

\* Fault: the worker returns the error, and the errgroup cancels its context.
AfterError(n) == [pool EXCEPT !.owed = @ \ {n}, !.cancelled = @ \/ look["pool"][n] # "ok"]

\* defer wg.Done(); an error is left to the resolver's own Lookup.
AfterLookup(n) == [pool EXCEPT !.owed = @ \ {n}]

Warmed(n) ==
  /\ look["pool"][n] \in Outcome
  /\ look' = [look EXCEPT !["pool"][n] = "none"]
  /\ pool' = AfterLookup(n)
  /\ UNCHANGED <<server, files, mirror, known, phase, lockHit, parent, solver, flights, runs>>

(***************************************************************************)
(* A Lookup: the VCS repository is asked first.                            *)
(***************************************************************************)
\* What the client answers once it knows the repository's name: another name
\* is left to Packagist.  Reading the refs of its own package may fail, and does
\* so under a cancelled context unless they were read before.
Answers(c, n) ==
  IF n # VcsName THEN {"http"}
  ELSE {"ok", "broken"} \cup (IF Cancelled(c) THEN {"cancelled"} ELSE {})

\* cachedPkg is read without the mutex; a torn read crashes the process, as Kill
\* does.
PackageNameKnown(c, n) ==
  /\ look[c][n] = "vcs" /\ known
  /\ \E answer \in Answers(c, n) : look' = [look EXCEPT ![c][n] = answer]
  /\ UNCHANGED <<server, files, mirror, known, phase, lockHit, parent, pool, solver, flights, runs>>

\* Fault: the mutex is not taken.
MutexIgnored == TRUE

\* c.mu is held while git writes to the mirror.
MutexFree == \A d \in Caller, m \in Name : look[d][m] \notin {"clone", "fetch"}

\* ensureMirror clones if there is no directory, and fetches into one that is
\* there, whatever left it.  It runs for a lookup that does not know the name yet
\* and for every archive; a fetch less than FetchTTL after the last is skipped,
\* which one that changes nothing stands for.
Archiving(c) == phase = "rest" /\ c = "main"

ensureMirror(c, n) ==
  /\ look[c][n] = "vcs" /\ (known => Archiving(c))
  /\ MutexFree /\ ~ Cancelled(c)
  /\ look' = [look EXCEPT ![c][n] = IF mirror = "none" THEN "clone" ELSE "fetch"]
  /\ mirror' = IF mirror = "none" THEN "partial" ELSE mirror
  /\ UNCHANGED <<server, files, known, phase, lockHit, parent, pool, solver, flights, runs>>

\* The command ended well, and a lookup reads the name from the default branch,
\* if it can be read.  A fetch may complete what an interrupted clone left, or not:
\* nobody looks.  The branches are the last thing git writes of a clone, so of what
\* is still partial no name can be read.
MirrorReady(c, n) ==
  /\ look[c][n] \in {"clone", "fetch"} /\ ~ Cancelled(c)
  /\ mirror' \in IF look[c][n] = "fetch" THEN {mirror, "whole"} ELSE {"whole"}
  /\ \/ mirror' = "whole" /\ known' = (known \/ ~ Archiving(c))
        /\ \E answer \in Answers(c, n) : look' = [look EXCEPT ![c][n] = answer]
     \/ known' = known /\ look' = [look EXCEPT ![c][n] = "broken"]
  /\ UNCHANGED <<server, files, phase, lockHit, parent, pool, solver, flights, runs>>

\* git removes the directory of a clone that fails; the end of its context kills
\* it, and then the directory stays.
MirrorFails(c, n) ==
  /\ look[c][n] \in {"clone", "fetch"}
  /\ mirror' = IF look[c][n] = "clone" /\ ~ Cancelled(c) THEN "none" ELSE mirror
  /\ look' = [look EXCEPT ![c][n] = IF Cancelled(c) THEN "cancelled" ELSE "broken"]
  /\ UNCHANGED <<server, files, known, phase, lockHit, parent, pool, solver, flights, runs>>

\* No git command starts under a cancelled context.
VcsCancelled(c, n) ==
  /\ look[c][n] = "vcs" /\ ~ known /\ Cancelled(c) /\ MutexFree
  /\ look' = [look EXCEPT ![c][n] = "cancelled"]
  /\ UNCHANGED <<server, files, mirror, known, phase, lockHit, parent, pool, solver, flights, runs>>

(***************************************************************************)
(* Packagist: one flight for a name, whoever asks.                         *)
(***************************************************************************)
\* Get reads the cache and sends what it has as a condition.  No request is
\* sent under a cancelled context.
Get(c, u) ==
  LET hasCache == hdr[u] # 0 /\ body[u] # 0
      have(rev) == IF hasCache THEN rev ELSE 0
  IN [pc |-> IF Cancelled(c) THEN "cancelled" ELSE "sent",
      etag |-> have(hdr[u]), cached |-> have(body[u]), got |-> 0]

\* The first caller leads, with its own context; the others, whenever they come,
\* wait for it and are given what it is answered.
Lead(c, n) ==
  /\ look[c][n] = "http" /\ leader[n] = "none"
  /\ leader' = [leader EXCEPT ![n] = c]
  /\ req' = [u \in URL |-> IF u[1] = n THEN Get(c, u) ELSE req[u]]
  /\ since' = [u \in URL |-> IF u[1] = n THEN server[u] ELSE since[u]]
  /\ UNCHANGED <<server, files, mirror, known, phase, lockHit, parent, pool, solver, look, runs>>

Goes(u, how, got) == req' = [req EXCEPT ![u].pc = how, ![u].got = got]

\* 404, 304 with the body the cache had, or 200 with a body to be written.
Answer(u) ==
  /\ req[u].pc = "sent"
  /\ IF u \in Missing THEN Goes(u, "notfound", 0)
     ELSE IF req[u].etag = server[u] THEN Goes(u, "ok", req[u].cached)
     ELSE Goes(u, "body", server[u])
  /\ UNCHANGED <<server, files, mirror, known, phase, lockHit, parent, pool, solver, look, leader, since, runs>>

\* Any other status, a lost connection, the end of the leader's context.
Break(u) ==
  /\ req[u].pc = "sent"
  /\ Goes(u, IF Cancelled(leader[u[1]]) THEN "cancelled" ELSE "broken", 0)
  /\ UNCHANGED <<server, files, mirror, known, phase, lockHit, parent, pool, solver, look, leader, since, runs>>

\* Fault: the header is renamed into place first.
WriteHeaderFirst(u) ==
  /\ \/ /\ req[u].pc = "body"
        /\ hdr' = [hdr EXCEPT ![u] = req[u].got] /\ body' = body
        /\ Goes(u, "hdr", req[u].got)
     \/ /\ req[u].pc = "hdr"
        /\ body' = [body EXCEPT ![u] = req[u].got] /\ hdr' = hdr
        /\ Goes(u, "ok", req[u].got)
  /\ UNCHANGED <<server, mirror, known, phase, lockHit, parent, pool, solver, look, leader, since, runs>>

\* writeCache: two renames, the body's first.
writeCache(u) ==
  /\ \/ /\ req[u].pc = "body"
        /\ body' = [body EXCEPT ![u] = req[u].got] /\ hdr' = hdr
        /\ Goes(u, "hdr", req[u].got)
     \/ /\ req[u].pc = "hdr"
        /\ hdr' = [hdr EXCEPT ![u] = req[u].got] /\ body' = body
        /\ Goes(u, "ok", req[u].got)
  /\ UNCHANGED <<server, mirror, known, phase, lockHit, parent, pool, solver, look, leader, since, runs>>

WriteFails(u) ==
  /\ req[u].pc \in {"body", "hdr"}
  /\ Goes(u, "broken", 0)
  /\ UNCHANGED <<server, files, mirror, known, phase, lockHit, parent, pool, solver, look, leader, since, runs>>

\* The releases decide; the file of the branches may be missing, but no more.
Merge(stable, dev) ==
  IF stable \in Failure THEN stable
  ELSE IF dev \in Failure \ {"notfound"} THEN dev
  ELSE "ok"

\* The flight is over, and everybody who waited for it is told the same.
Finish(n) ==
  /\ leader[n] # "none" /\ \A part \in Part : req[<<n, part>>].pc \in Outcome
  /\ LET told == Merge(req[<<n, "stable">>].pc, req[<<n, "dev">>].pc)
     IN look' = [c \in Caller |-> IF look[c][n] = "http" THEN [look[c] EXCEPT ![n] = told] ELSE look[c]]
  /\ leader' = [leader EXCEPT ![n] = "none"]
  /\ req' = [u \in URL |-> IF u[1] = n THEN NoReq ELSE req[u]]
  /\ since' = [u \in URL |-> IF u[1] = n THEN 0 ELSE since[u]]
  /\ UNCHANGED <<server, files, mirror, known, phase, lockHit, parent, pool, solver, runs>>

\* The registry, external.
Publish(u) ==
  /\ u \in Changing /\ server[u] < MaxRev
  /\ server' = [server EXCEPT ![u] = @ + 1]
  /\ UNCHANGED <<files, mirror, known, phase, lockHit, parent, pool, solver, look, flights, runs>>

(***************************************************************************)
(* The specification.                                                      *)
(***************************************************************************)
Main ==
  \/ CacheHit \/ ResolveReturns \/ Archive \/ RestReturns \/ Wait
  \/ \E n \in Name : versions(n)
  \/ Listed
  \/ \E n \in Name : OnVersionDecided(n)
  \/ \E n \in Name : Add(n)
  \/ Solved \/ Unsatisfiable \/ dispatchAdded

Workings ==
  \/ \E n \in Name : dispatchInitial(n)
  \/ \E n \in Name : Warmed(n)
  \/ \E c \in Caller, n \in Name : PackageNameKnown(c, n)
  \/ \E c \in Caller, n \in Name : ensureMirror(c, n)
  \/ \E c \in Caller, n \in Name : MirrorReady(c, n)
  \/ \E c \in Caller, n \in Name : MirrorFails(c, n)
  \/ \E c \in Caller, n \in Name : VcsCancelled(c, n)
  \/ \E c \in Caller, n \in Name : Lead(c, n)
  \/ \E u \in URL : Answer(u)
  \/ \E u \in URL : Break(u)
  \/ \E u \in URL : writeCache(u)
  \/ \E u \in URL : WriteFails(u)
  \/ \E n \in Name : Finish(n)

Environment == Start \/ Interrupt \/ Kill \/ \E u \in URL : Publish(u)

Next == Main \/ Workings \/ Environment

\* The goroutines of a process that is not killed go on, git ends, and a request
\* is answered or fails: the HTTP client has no timeout of its own, so that is
\* the registry's or the kernel's part.  No fairness is assumed of the faults.
Spec == Init /\ [][Next]_vars /\ WF_vars(Main \/ Workings)

(***************************************************************************)
(* Properties.                                                             *)
(***************************************************************************)
\* Cancellation is contagious: whoever waits for a flight is told that its
\* leader's context ended (packagist.go, Lookup).  The resolver, which follows
\* flights the pool leads, is told so only if the process itself was cancelled.
NoBorrowedCancellation == solver.pc = "cancelled" => parent

\* What a Lookup of a registry package returns is, for each of its two files, no
\* older than what the registry served when the flight began that answers it, or
\* that there is no such file: also when a process died between the two renames of
\* an entry.  A caller that joins a flight is told what its leader is, and so may
\* miss what was published since the flight began (packagist.go, Lookup).
AnswersAreFresh ==
  [][\A c \in Caller, n \in Name, part \in Part :
       look[c][n] = "http" /\ look'[c][n] = "ok" =>
         LET u == <<n, part>>
         IN IF u \in Missing THEN req[u].pc = "notfound"
            ELSE req[u].pc = "ok" /\ req[u].got >= since[u]]_vars

\* When runFullPipeline returns, no worker of the pool is left, and none can
\* start any more (the deferred Wait).
PoolIsDrained == phase = "end" => pool.queue = {} /\ \A n \in Name : look["pool"][n] = "none"

\* While the client answers by the repository's name, the clone it read it from
\* is there and complete: no other lookup is still cloning it, and none whose
\* clone failed has taken it away.
NamedRepositoryIsWhole == known => mirror = "whole"

\* A run that is not killed ends: the resolver, blocked in Add or in a flight of
\* the pool's, the workers and the deferred Wait do not wait for one another.
PipelineEnds == phase \in Running ~> phase \notin Running
==============================================================================
