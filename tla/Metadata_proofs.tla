---------------------------- MODULE Metadata_proofs ----------------------------
(***************************************************************************)
(* What holds of the pool, the resolver, the flights, the clone and the    *)
(* HTTP cache of Metadata: for any packages and requirements, any limit of *)
(* the pool, any number of revisions and of runs.                          *)
(***************************************************************************)
EXTENDS Metadata, TLAPS

\* The main goroutine looks up the name the resolver waits for, or the one whose
\* archive it makes; who leads a flight waits for it.
RunInv ==
  /\ solver.pc # "off" => phase = "resolve" /\ ~ lockHit
  /\ \A n \in Name : look["main"][n] # "none" =>
       \/ phase = "resolve" /\ solver.pc = "wait" /\ n = solver.name
       \/ phase = "rest" /\ n = VcsName
  /\ \A n \in Name : leader[n] # "none" => look[leader[n]][n] = "http"
  /\ \A c \in Caller : look[c][VcsName] # "http"

\* Whatever is queued, handed over or looked up is still owed to the WaitGroup,
\* once.
PoolInv ==
  /\ phase \notin Running => pool.owed = {}
  /\ \A n \in Name : look["pool"][n] # "none" => n \in pool.owed \ pool.queue
  /\ solver.pc = "dispatch" =>
       solver.name \in pool.owed \ pool.queue /\ look["pool"][solver.name] = "none"

\* In a resolve only the process's own context can have ended.
CancelInv ==
  /\ phase = "resolve" => ~ pool.cancelled
  /\ \A u \in URL : req[u].pc = "cancelled" => parent \/ pool.cancelled
  /\ phase = "resolve" => \A n \in Name : look["main"][n] = "cancelled" => parent
  /\ solver.pc = "cancelled" => parent

InGit(c, n) == look[c][n] \in {"clone", "fetch"}

\* git runs under the mutex, and clones only for who does not know the name yet.
MirrorInv ==
  /\ \A c, d \in Caller, n, k \in Name : InGit(c, n) /\ InGit(d, k) => c = d /\ n = k
  /\ \A c \in Caller, n \in Name : look[c][n] = "clone" => mirror = "partial" /\ ~ known
  /\ known => mirror = "whole"

\* Of an entry of the HTTP cache the ETag is never newer than the bytes, nor is a
\* flight's answer older than what the registry served when it began.
FreshInv ==
  \A u \in URL :
    /\ hdr[u] <= body[u] /\ hdr[u] <= server[u]
    /\ since[u] <= server[u]
    /\ req[u].pc = "sent" => req[u].etag <= req[u].cached
    /\ req[u].pc \in {"body", "hdr"} =>
         /\ u \notin Missing
         /\ hdr[u] <= req[u].got /\ since[u] <= req[u].got /\ req[u].got <= server[u]
    /\ req[u].pc = "hdr" => body[u] = req[u].got
    /\ req[u].pc = "ok" => u \notin Missing /\ since[u] <= req[u].got
    /\ req[u].pc = "notfound" => u \in Missing

MetadataInv == TypeOK /\ RunInv /\ PoolInv /\ CancelInv /\ MirrorInv /\ FreshInv

-------------------------------------------------------------------------------
(***************************************************************************)
(* Steps of a look-up and of a request.                                    *)
(***************************************************************************)
LookUp == {"none", "vcs", "clone", "fetch", "http"} \cup Outcome
Request == [pc : {"off", "sent", "body", "hdr"} \cup Outcome, etag : 0 .. MaxRev,
            cached : 0 .. MaxRev, got : 0 .. MaxRev]

\* One look-up is taken to another point, and no other.
LEMMA LookOf ==
  ASSUME TypeOK, NEW c \in Caller, NEW n \in Name, NEW v \in LookUp,
         look' = [look EXCEPT ![c][n] = v]
  PROVE  /\ look' \in [Caller -> [Name -> LookUp]]
         /\ \A d \in Caller, k \in Name : look'[d][k] = IF d = c /\ k = n THEN v ELSE look[d][k]
<1>1. look \in [Caller -> [Name -> LookUp]]
  BY DEF TypeOK, LookUp
<1> QED
  BY <1>1

\* One request is taken to another point, and no other.
LEMMA GoesOf ==
  ASSUME TypeOK, NEW u \in URL, NEW how \in {"sent", "body", "hdr"} \cup Outcome, NEW got \in 0 .. MaxRev,
         Goes(u, how, got)
  PROVE  /\ req' \in [URL -> Request]
         /\ req'[u].pc = how /\ req'[u].got = got
         /\ req'[u].etag = req[u].etag /\ req'[u].cached = req[u].cached
         /\ \A v \in URL \ {u} : req'[v] = req[v]
<1>1. req \in [URL -> Request]
  BY DEF TypeOK, Request
<1>2. req' = [req EXCEPT ![u] = [req[u] EXCEPT !.pc = how, !.got = got]]
  BY DEF Goes
<1>3. [req[u] EXCEPT !.pc = how, !.got = got] \in Request
  BY <1>1 DEF Request
<1>4. req[u] \in Request
  BY <1>1
<1>5. req' \in [URL -> Request] /\ req'[u] = [req[u] EXCEPT !.pc = how, !.got = got]
  BY <1>1, <1>2, <1>3
<1>6. \A v \in URL \ {u} : req'[v] = req[v]
  BY <1>1, <1>2
<1> QED
  BY <1>4, <1>5, <1>6 DEF Request

\* A request under way is a flight's, and stays one at every step but the last.
LEMMA GoesType ==
  ASSUME TypeOK, NEW u \in URL, NEW how \in {"sent", "body", "hdr"} \cup Outcome, NEW got \in 0 .. MaxRev,
         Goes(u, how, got), req[u].pc # "off", UNCHANGED leader
  PROVE  /\ req' \in [URL -> Request]
         /\ \A v \in URL : req'[v].pc = "off" <=> leader'[v[1]] = "none"
<1>1. how # "off"
  BY DEF Outcome, Failure
<1>2. \A v \in URL : req'[v].pc = "off" <=> req[v].pc = "off"
  BY <1>1, GoesOf
<1> QED
  BY <1>2, GoesOf DEF TypeOK

\* Nothing is under way when there is no process, nor when the last Wait has returned.
LEMMA Quiet ==
  ASSUME TypeOK, RunInv, PoolInv, phase \notin {"resolve", "rest"}, pool.owed = {}
  PROVE  /\ \A c \in Caller, n \in Name : look[c][n] = "none"
         /\ \A u \in URL : req[u].pc = "off"
<1>1. \A c \in Caller, n \in Name : look[c][n] = "none"
  BY DEF RunInv, PoolInv, Caller
<1>2. \A n \in Name : leader[n] = "none"
  BY <1>1 DEF TypeOK, RunInv
<1>3. \A u \in URL : u[1] \in Name
  BY DEF URL
<1> QED
  BY <1>1, <1>2, <1>3 DEF TypeOK

-------------------------------------------------------------------------------
LEMMA StartInv ==
  ASSUME MetadataInv, Start
  PROVE  MetadataInv'
<1>1. TypeOK'
  <2> DEFINE names == collectMetadataPrefetchNames
  <2>1. names \in SUBSET Name
    BY RootAssumption DEF collectMetadataPrefetchNames
  <2>2. pool' \in {[on |-> FALSE, queue |-> {}, seen |-> {}, owed |-> {}, cancelled |-> FALSE],
                   [on |-> TRUE, queue |-> names, seen |-> names, owed |-> names, cancelled |-> FALSE]}
    BY DEF Start, NoPool, maybeStartMetadataPrefetch
  <2>3. /\ pool' \in [on : BOOLEAN, queue : SUBSET Name, seen : SUBSET Name, owed : SUBSET Name, cancelled : BOOLEAN]
        /\ pool'.queue \subseteq pool'.owed /\ pool'.owed \subseteq pool'.seen
    <3>1. CASE pool' = [on |-> FALSE, queue |-> {}, seen |-> {}, owed |-> {}, cancelled |-> FALSE]
      BY <3>1
    <3>2. CASE pool' = [on |-> TRUE, queue |-> names, seen |-> names, owed |-> names, cancelled |-> FALSE]
      <4> HIDE DEF names
      <4> QED
        BY <2>1, <3>2
    <3> QED
      BY <2>2, <3>1, <3>2
  <2>4. solver' \in [pc : {"off", "pick", "wait", "add", "dispatch"} \cup Returned, name : Name,
                     needed : SUBSET Name, listed : SUBSET Name, missing : SUBSET Name,
                     decided : SUBSET Name, adding : SUBSET Name]
    BY NameAssumption, RootAssumption DEF Start, NoSolver
  <2>5. runs' \in 0 .. MaxRuns
    BY WorkersAssumption DEF MetadataInv, TypeOK, Start
  <2> QED
    BY <2>3, <2>4, <2>5 DEF MetadataInv, TypeOK, Start, files, flights, Running
<1>2. RunInv'
  BY DEF MetadataInv, Start, NoSolver, flights, TypeOK, RunInv
<1>3. PoolInv'
  BY DEF MetadataInv, Start, NoSolver, PoolInv, Running
<1>4. CancelInv'
  <2>1. \A c \in Caller, n \in Name : look[c][n] = "none"
    BY Quiet DEF MetadataInv, PoolInv, Start, Running
  <2>2. \A u \in URL : req[u].pc = "off"
    BY Quiet DEF MetadataInv, PoolInv, Start, Running
  <2>3. ~ pool'.cancelled
    BY DEF Start, NoPool, maybeStartMetadataPrefetch
  <2>4. solver'.pc # "cancelled"
    BY DEF Start, NoSolver
  <2> QED
    BY <2>1, <2>2, <2>3, <2>4 DEF CancelInv, Start, flights, Caller
<1>5. MirrorInv'
  BY DEF MetadataInv, Start, MirrorInv, InGit
<1>6. FreshInv'
  BY DEF MetadataInv, Start, files, flights, FreshInv
<1> QED
  BY <1>1, <1>2, <1>3, <1>4, <1>5, <1>6 DEF MetadataInv

LEMMA CacheHitInv ==
  ASSUME MetadataInv, CacheHit
  PROVE  MetadataInv'
<1>1. TypeOK'
  BY NameAssumption, RootAssumption, WorkersAssumption, ServerAssumption DEF MetadataInv, CacheHit, files, flights, TypeOK, Running, Failure, Outcome, Returned, Rev, Caller, PoolInv
<1>2. RunInv'
  BY DEF MetadataInv, CacheHit, flights, RunInv
<1>3. PoolInv'
  BY DEF MetadataInv, CacheHit, PoolInv, Running
<1>4. CancelInv'
  BY DEF MetadataInv, CacheHit, CancelInv
<1>5. MirrorInv'
  BY DEF MetadataInv, CacheHit, MirrorInv, InGit
<1>6. FreshInv'
  BY DEF MetadataInv, CacheHit, files, flights, FreshInv
<1> QED
  BY <1>1, <1>2, <1>3, <1>4, <1>5, <1>6 DEF MetadataInv

LEMMA ResolveReturnsInv ==
  ASSUME MetadataInv, ResolveReturns
  PROVE  MetadataInv'
<1>1. TypeOK'
  BY NameAssumption DEF MetadataInv, ResolveReturns, NoSolver, files, flights, TypeOK, Running
<1>2. RunInv'
  BY DEF MetadataInv, ResolveReturns, NoSolver, Returned, flights, RunInv
<1>3. PoolInv'
  BY DEF MetadataInv, ResolveReturns, NoSolver, PoolInv, Running
<1>4. CancelInv'
  BY DEF MetadataInv, ResolveReturns, NoSolver, flights, CancelInv
<1>5. MirrorInv'
  BY DEF MetadataInv, ResolveReturns, MirrorInv, InGit
<1>6. FreshInv'
  BY DEF MetadataInv, ResolveReturns, files, flights, FreshInv
<1> QED
  BY <1>1, <1>2, <1>3, <1>4, <1>5, <1>6 DEF MetadataInv

LEMMA ArchiveInv ==
  ASSUME MetadataInv, Archive
  PROVE  MetadataInv'
<1>1. TypeOK'
  BY NameAssumption DEF MetadataInv, Archive, files, flights, TypeOK, Caller
<1>2. RunInv'
  BY DEF MetadataInv, Archive, flights, RunInv
<1>3. PoolInv'
  BY DEF MetadataInv, Archive, PoolInv
<1>4. CancelInv'
  BY DEF MetadataInv, Archive, flights, CancelInv
<1>5. MirrorInv'
  BY DEF MetadataInv, Archive, MirrorInv, InGit
<1>6. FreshInv'
  BY DEF MetadataInv, Archive, files, flights, FreshInv
<1> QED
  BY <1>1, <1>2, <1>3, <1>4, <1>5, <1>6 DEF MetadataInv

LEMMA RestReturnsInv ==
  ASSUME MetadataInv, RestReturns
  PROVE  MetadataInv'
<1>1. TypeOK'
  BY NameAssumption DEF MetadataInv, RestReturns, files, flights, TypeOK, Running, Caller
<1>2. RunInv'
  BY DEF MetadataInv, RestReturns, flights, TypeOK, RunInv, Caller
<1>3. PoolInv'
  BY DEF MetadataInv, RestReturns, PoolInv, Running
<1>4. CancelInv'
  BY DEF MetadataInv, RestReturns, flights, CancelInv
<1>5. MirrorInv'
  BY DEF MetadataInv, RestReturns, MirrorInv, InGit
<1>6. FreshInv'
  BY DEF MetadataInv, RestReturns, files, flights, FreshInv
<1> QED
  BY <1>1, <1>2, <1>3, <1>4, <1>5, <1>6 DEF MetadataInv

LEMMA WaitInv ==
  ASSUME MetadataInv, Wait
  PROVE  MetadataInv'
<1>1. TypeOK'
  BY NameAssumption, RootAssumption, WorkersAssumption, ServerAssumption DEF MetadataInv, Wait, Drained, NoPool, files, flights, TypeOK, Running, Failure, Outcome, Returned, Rev, Caller, PoolInv
<1>2. RunInv'
  BY DEF MetadataInv, Wait, flights, RunInv
<1>3. PoolInv'
  BY DEF MetadataInv, Wait, Drained, NoPool, PoolInv
<1>4. CancelInv'
  <2>1. \A u \in URL : req[u].pc = "off"
    BY Quiet DEF MetadataInv, Wait, Drained
  <2>2. solver.pc = "off"
    BY DEF MetadataInv, RunInv, Wait
  <2> QED
    BY <2>1, <2>2 DEF CancelInv, Wait, flights
<1>5. MirrorInv'
  BY DEF MetadataInv, Wait, MirrorInv, InGit
<1>6. FreshInv'
  BY DEF MetadataInv, Wait, files, flights, FreshInv
<1> QED
  BY <1>1, <1>2, <1>3, <1>4, <1>5, <1>6 DEF MetadataInv

LEMMA InterruptInv ==
  ASSUME MetadataInv, Interrupt
  PROVE  MetadataInv'
<1>1. TypeOK'
  BY DEF MetadataInv, Interrupt, files, flights, TypeOK
<1>2. RunInv'
  BY DEF MetadataInv, Interrupt, flights, RunInv
<1>3. PoolInv'
  BY DEF MetadataInv, Interrupt, PoolInv
<1>4. CancelInv'
  BY DEF MetadataInv, Interrupt, CancelInv
<1>5. MirrorInv'
  BY DEF MetadataInv, Interrupt, MirrorInv, InGit
<1>6. FreshInv'
  BY DEF MetadataInv, Interrupt, files, flights, FreshInv
<1> QED
  BY <1>1, <1>2, <1>3, <1>4, <1>5, <1>6 DEF MetadataInv

LEMMA KillInv ==
  ASSUME MetadataInv, Kill
  PROVE  MetadataInv'
<1>1. TypeOK'
  <2>1. /\ pool' \in [on : BOOLEAN, queue : SUBSET Name, seen : SUBSET Name, owed : SUBSET Name, cancelled : BOOLEAN]
        /\ pool'.queue \subseteq pool'.owed /\ pool'.owed \subseteq pool'.seen
    BY DEF Kill, NoPool
  <2>2. solver' \in [pc : {"off", "pick", "wait", "add", "dispatch"} \cup Returned, name : Name,
                     needed : SUBSET Name, listed : SUBSET Name, missing : SUBSET Name,
                     decided : SUBSET Name, adding : SUBSET Name]
    BY NameAssumption DEF Kill, NoSolver
  <2>3. look' \in [Caller -> [Name -> {"none", "vcs", "clone", "fetch", "http"} \cup Outcome]]
    BY DEF Kill, NoLook
  <2>4. leader' \in [Name -> Caller \cup {"none"}] /\ since' \in [URL -> 0 .. MaxRev]
    BY WorkersAssumption DEF Kill
  <2>5. NoReq \in Request /\ NoReq.pc = "off"
    BY WorkersAssumption DEF NoReq, Request
  <2>6. req' \in [URL -> Request]
    BY <2>5 DEF Kill
  <2>7. \A u \in URL : req'[u].pc = "off" <=> leader'[u[1]] = "none"
    BY <2>5 DEF Kill, URL
  <2> QED
    BY <2>1, <2>2, <2>3, <2>4, <2>6, <2>7 DEF MetadataInv, TypeOK, Kill, files, Request
<1>2. RunInv'
  BY NameAssumption DEF Kill, NoSolver, NoLook, RunInv, Caller
<1>3. PoolInv'
  BY DEF Kill, NoPool, NoSolver, NoLook, PoolInv, Caller
<1>4. CancelInv'
  BY DEF Kill, NoSolver, NoReq, CancelInv
<1>5. MirrorInv'
  BY DEF Kill, NoLook, MirrorInv, InGit
<1>6. FreshInv'
  <2>1. \A u \in URL : req'[u].pc = "off" /\ since'[u] = 0
    BY DEF Kill, NoReq
  <2>2. \A u \in URL : 0 <= server[u]
    BY DEF MetadataInv, TypeOK, Rev
  <2> QED
    BY <2>1, <2>2 DEF MetadataInv, FreshInv, Kill, files
<1> QED
  BY <1>1, <1>2, <1>3, <1>4, <1>5, <1>6 DEF MetadataInv

LEMMA VersionsInv ==
  ASSUME MetadataInv, NEW n \in Name, versions(n)
  PROVE  MetadataInv'
<1>1. TypeOK'
  BY NameAssumption, RootAssumption, WorkersAssumption, ServerAssumption DEF MetadataInv, versions, Resolving, files, flights, TypeOK, Running, Failure, Outcome, Returned, Rev, Caller, PoolInv
<1>2. RunInv'
  BY DEF MetadataInv, versions, Resolving, flights, RunInv
<1>3. PoolInv'
  BY DEF MetadataInv, versions, PoolInv
<1>4. CancelInv'
  BY DEF MetadataInv, versions, flights, CancelInv
<1>5. MirrorInv'
  BY DEF MetadataInv, versions, MirrorInv, InGit
<1>6. FreshInv'
  BY DEF MetadataInv, versions, files, flights, FreshInv
<1> QED
  BY <1>1, <1>2, <1>3, <1>4, <1>5, <1>6 DEF MetadataInv

LEMMA ListedInv ==
  ASSUME MetadataInv, Listed
  PROVE  MetadataInv'
<1>1. TypeOK'
  BY NameAssumption, RootAssumption, WorkersAssumption, ServerAssumption DEF MetadataInv, Listed, Resolving, Outcome, Failure, Returned, files, flights, TypeOK, Running, Rev, Caller, PoolInv
<1>2. RunInv'
  BY DEF MetadataInv, Listed, Resolving, Outcome, Failure, flights, TypeOK, RunInv, Caller
<1>3. PoolInv'
  BY DEF MetadataInv, Listed, Outcome, Failure, PoolInv
<1>4. CancelInv'
  BY DEF MetadataInv, Listed, Resolving, flights, TypeOK, CancelInv
<1>5. MirrorInv'
  BY DEF MetadataInv, Listed, MirrorInv, InGit
<1>6. FreshInv'
  BY DEF MetadataInv, Listed, files, flights, FreshInv
<1> QED
  BY <1>1, <1>2, <1>3, <1>4, <1>5, <1>6 DEF MetadataInv

LEMMA OnVersionDecidedInv ==
  ASSUME MetadataInv, NEW n \in Name, OnVersionDecided(n)
  PROVE  MetadataInv'
<1>1. TypeOK'
  BY NameAssumption, RootAssumption, WorkersAssumption, ServerAssumption DEF MetadataInv, OnVersionDecided, Resolving, files, flights, TypeOK, Running, Failure, Outcome, Returned, Rev, Caller, PoolInv
<1>2. RunInv'
  BY DEF MetadataInv, OnVersionDecided, Resolving, flights, RunInv
<1>3. PoolInv'
  BY DEF MetadataInv, OnVersionDecided, PoolInv
<1>4. CancelInv'
  BY DEF MetadataInv, OnVersionDecided, flights, CancelInv
<1>5. MirrorInv'
  BY DEF MetadataInv, OnVersionDecided, MirrorInv, InGit
<1>6. FreshInv'
  BY DEF MetadataInv, OnVersionDecided, files, flights, FreshInv
<1> QED
  BY <1>1, <1>2, <1>3, <1>4, <1>5, <1>6 DEF MetadataInv

LEMMA AddInv ==
  ASSUME MetadataInv, NEW n \in Name, Add(n)
  PROVE  MetadataInv'
<1>1. TypeOK'
  BY NameAssumption, RootAssumption, WorkersAssumption, ServerAssumption DEF MetadataInv, Add, Count, Resolving, files, flights, TypeOK, Running, Failure, Outcome, Returned, Rev, Caller, PoolInv
<1>2. RunInv'
  BY DEF MetadataInv, Add, Resolving, flights, RunInv
<1>3. PoolInv'
  BY DEF MetadataInv, Add, Count, Resolving, TypeOK, PoolInv
<1>4. CancelInv'
  BY DEF MetadataInv, Add, Count, flights, CancelInv
<1>5. MirrorInv'
  BY DEF MetadataInv, Add, MirrorInv, InGit
<1>6. FreshInv'
  BY DEF MetadataInv, Add, files, flights, FreshInv
<1> QED
  BY <1>1, <1>2, <1>3, <1>4, <1>5, <1>6 DEF MetadataInv

LEMMA UnsatisfiableInv ==
  ASSUME MetadataInv, Unsatisfiable
  PROVE  MetadataInv'
<1>1. TypeOK'
  BY DEF MetadataInv, Unsatisfiable, Resolving, files, flights, TypeOK, Returned
<1>2. RunInv'
  BY DEF MetadataInv, Unsatisfiable, Resolving, flights, RunInv
<1>3. PoolInv'
  BY DEF MetadataInv, Unsatisfiable, PoolInv
<1>4. CancelInv'
  BY DEF MetadataInv, Unsatisfiable, flights, CancelInv
<1>5. MirrorInv'
  BY DEF MetadataInv, Unsatisfiable, MirrorInv, InGit
<1>6. FreshInv'
  BY DEF MetadataInv, Unsatisfiable, files, flights, FreshInv
<1> QED
  BY <1>1, <1>2, <1>3, <1>4, <1>5, <1>6 DEF MetadataInv

LEMMA SolvedInv ==
  ASSUME MetadataInv, Solved
  PROVE  MetadataInv'
<1>1. TypeOK'
  BY NameAssumption, RootAssumption, WorkersAssumption, ServerAssumption DEF MetadataInv, Solved, Resolving, files, flights, TypeOK, Running, Failure, Outcome, Returned, Rev, Caller, PoolInv
<1>2. RunInv'
  BY DEF MetadataInv, Solved, Resolving, flights, RunInv
<1>3. PoolInv'
  BY DEF MetadataInv, Solved, PoolInv
<1>4. CancelInv'
  BY DEF MetadataInv, Solved, flights, CancelInv
<1>5. MirrorInv'
  BY DEF MetadataInv, Solved, MirrorInv, InGit
<1>6. FreshInv'
  BY DEF MetadataInv, Solved, files, flights, FreshInv
<1> QED
  BY <1>1, <1>2, <1>3, <1>4, <1>5, <1>6 DEF MetadataInv

LEMMA DispatchInitialInv ==
  ASSUME MetadataInv, NEW n \in Name, dispatchInitial(n)
  PROVE  MetadataInv'
<1>1. TypeOK'
  BY NameAssumption DEF MetadataInv, dispatchInitial, files, flights, TypeOK, Caller
<1>2. RunInv'
  BY DEF MetadataInv, dispatchInitial, PoolInv, flights, RunInv
<1>3. PoolInv'
  BY DEF MetadataInv, dispatchInitial, PoolInv, TypeOK
<1>4. CancelInv'
  BY DEF MetadataInv, dispatchInitial, flights, CancelInv
<1>5. MirrorInv'
  BY DEF MetadataInv, dispatchInitial, MirrorInv, InGit
<1>6. FreshInv'
  BY DEF MetadataInv, dispatchInitial, files, flights, FreshInv
<1> QED
  BY <1>1, <1>2, <1>3, <1>4, <1>5, <1>6 DEF MetadataInv

LEMMA DispatchAddedInv ==
  ASSUME MetadataInv, dispatchAdded
  PROVE  MetadataInv'
<1>1. TypeOK'
  BY NameAssumption, RootAssumption, WorkersAssumption, ServerAssumption DEF MetadataInv, dispatchAdded, Resolving, PoolInv, files, flights, TypeOK, Running, Failure, Outcome, Rev, Caller
<1>2. RunInv'
  BY DEF MetadataInv, dispatchAdded, Resolving, PoolInv, flights, RunInv
<1>3. PoolInv'
  BY DEF MetadataInv, dispatchAdded, Resolving, PoolInv
<1>4. CancelInv'
  BY DEF MetadataInv, dispatchAdded, flights, CancelInv
<1>5. MirrorInv'
  BY DEF MetadataInv, dispatchAdded, MirrorInv, InGit
<1>6. FreshInv'
  BY DEF MetadataInv, dispatchAdded, files, flights, FreshInv
<1> QED
  BY <1>1, <1>2, <1>3, <1>4, <1>5, <1>6 DEF MetadataInv

LEMMA WarmedInv ==
  ASSUME MetadataInv, NEW n \in Name, Warmed(n)
  PROVE  MetadataInv'
<1>1. TypeOK'
  <2>1. pool' = [pool EXCEPT !.owed = @ \ {n}] /\ n \notin pool.queue
    BY DEF MetadataInv, PoolInv, Warmed, AfterLookup, Outcome, Failure
  <2>2. /\ pool' \in [on : BOOLEAN, queue : SUBSET Name, seen : SUBSET Name, owed : SUBSET Name, cancelled : BOOLEAN]
        /\ pool'.queue \subseteq pool'.owed /\ pool'.owed \subseteq pool'.seen
    BY <2>1 DEF MetadataInv, TypeOK
  <2>3. look' \in [Caller -> [Name -> LookUp]]
    BY LookOf DEF MetadataInv, Warmed, Caller, LookUp
  <2> QED
    BY <2>2, <2>3 DEF MetadataInv, TypeOK, Warmed, files, flights
<1>2. RunInv'
  BY DEF MetadataInv, Warmed, Outcome, Failure, flights, RunInv
<1>3. PoolInv'
  BY DEF MetadataInv, Warmed, AfterLookup, Outcome, Failure, TypeOK, PoolInv, Caller
<1>4. CancelInv'
  BY DEF MetadataInv, Warmed, AfterLookup, flights, CancelInv
<1>5. MirrorInv'
  BY DEF MetadataInv, Warmed, MirrorInv, InGit
<1>6. FreshInv'
  BY DEF MetadataInv, Warmed, files, flights, FreshInv
<1> QED
  BY <1>1, <1>2, <1>3, <1>4, <1>5, <1>6 DEF MetadataInv

LEMMA PackageNameKnownInv ==
  ASSUME MetadataInv, NEW c \in Caller, NEW n \in Name, PackageNameKnown(c, n)
  PROVE  MetadataInv'
<1>1. TypeOK'
  BY DEF MetadataInv, PackageNameKnown, Answers, files, flights, TypeOK, Failure, Outcome
<1>2. RunInv'
  BY DEF MetadataInv, PackageNameKnown, Answers, flights, RunInv
<1>3. PoolInv'
  BY DEF MetadataInv, PackageNameKnown, PoolInv
<1>4. CancelInv'
  BY DEF MetadataInv, PackageNameKnown, Answers, Cancelled, flights, CancelInv
<1>5. MirrorInv'
  BY DEF MetadataInv, PackageNameKnown, Answers, MirrorInv, InGit
<1>6. FreshInv'
  BY DEF MetadataInv, PackageNameKnown, files, flights, FreshInv
<1> QED
  BY <1>1, <1>2, <1>3, <1>4, <1>5, <1>6 DEF MetadataInv

LEMMA EnsureMirrorInv ==
  ASSUME MetadataInv, NEW c \in Caller, NEW n \in Name, ensureMirror(c, n)
  PROVE  MetadataInv'
<1>1. TypeOK'
  BY DEF MetadataInv, ensureMirror, files, flights, TypeOK
<1>2. RunInv'
  BY DEF MetadataInv, ensureMirror, flights, RunInv
<1>3. PoolInv'
  BY DEF MetadataInv, ensureMirror, PoolInv
<1>4. CancelInv'
  BY DEF MetadataInv, ensureMirror, flights, CancelInv
<1>5. MirrorInv'
  BY DEF MetadataInv, ensureMirror, MutexFree, MirrorInv, InGit
<1>6. FreshInv'
  BY DEF MetadataInv, ensureMirror, files, flights, FreshInv
<1> QED
  BY <1>1, <1>2, <1>3, <1>4, <1>5, <1>6 DEF MetadataInv

LEMMA MirrorReadyInv ==
  ASSUME MetadataInv, NEW c \in Caller, NEW n \in Name, MirrorReady(c, n)
  PROVE  MetadataInv'
<1>0. PICK v \in {"http"} \cup Outcome :
        /\ look' = [look EXCEPT ![c][n] = v]
        /\ v = "http" => n # VcsName
  BY DEF MirrorReady, Answers, Outcome, Failure
<1>a. /\ look' \in [Caller -> [Name -> LookUp]]
      /\ \A d \in Caller, k \in Name : look'[d][k] = IF d = c /\ k = n THEN v ELSE look[d][k]
  BY <1>0, LookOf DEF MetadataInv, LookUp
<1>b. mirror' \in {"none", "partial", "whole"} /\ known' \in BOOLEAN
  BY DEF MetadataInv, TypeOK, MirrorReady, Archiving
<1>c. known' => mirror' = "whole"
  BY DEF MetadataInv, MirrorInv, MirrorReady
<1>1. TypeOK'
  BY <1>a, <1>b DEF MetadataInv, TypeOK, MirrorReady, files, flights, LookUp
<1>2. RunInv'
  BY <1>0, <1>a DEF MetadataInv, RunInv, MirrorReady, flights
<1>3. PoolInv'
  BY <1>a DEF MetadataInv, TypeOK, PoolInv, MirrorReady, Caller
<1>4. CancelInv'
  BY DEF MetadataInv, MirrorReady, Answers, flights, TypeOK, CancelInv, Caller
<1>5. MirrorInv'
  <2>1. v \notin {"clone", "fetch"}
    BY <1>0 DEF Outcome, Failure
  <2>2. \A d \in Caller, k \in Name : ~ InGit(d, k)'
    BY <1>a, <2>1 DEF MetadataInv, MirrorInv, InGit, MirrorReady
  <2> QED
    BY <1>c, <2>2 DEF MirrorInv, InGit
<1>6. FreshInv'
  BY DEF MetadataInv, MirrorReady, files, flights, FreshInv
<1> QED
  BY <1>1, <1>2, <1>3, <1>4, <1>5, <1>6 DEF MetadataInv

LEMMA MirrorFailsInv ==
  ASSUME MetadataInv, NEW c \in Caller, NEW n \in Name, MirrorFails(c, n)
  PROVE  MetadataInv'
<1>1. TypeOK'
  BY DEF MetadataInv, MirrorFails, files, flights, TypeOK, Failure, Outcome
<1>2. RunInv'
  BY DEF MetadataInv, MirrorFails, flights, RunInv
<1>3. PoolInv'
  BY DEF MetadataInv, MirrorFails, PoolInv
<1>4. CancelInv'
  BY DEF MetadataInv, MirrorFails, Cancelled, flights, CancelInv
<1>5. MirrorInv'
  BY DEF MetadataInv, MirrorFails, TypeOK, MirrorInv, InGit
<1>6. FreshInv'
  BY DEF MetadataInv, MirrorFails, files, flights, FreshInv
<1> QED
  BY <1>1, <1>2, <1>3, <1>4, <1>5, <1>6 DEF MetadataInv

LEMMA VcsCancelledInv ==
  ASSUME MetadataInv, NEW c \in Caller, NEW n \in Name, VcsCancelled(c, n)
  PROVE  MetadataInv'
<1>1. TypeOK'
  BY DEF MetadataInv, VcsCancelled, files, flights, TypeOK, Failure, Outcome
<1>2. RunInv'
  BY DEF MetadataInv, VcsCancelled, flights, RunInv
<1>3. PoolInv'
  BY DEF MetadataInv, VcsCancelled, PoolInv
<1>4. CancelInv'
  BY DEF MetadataInv, VcsCancelled, Cancelled, CancelInv
<1>5. MirrorInv'
  BY DEF MetadataInv, VcsCancelled, MirrorInv, InGit
<1>6. FreshInv'
  BY DEF MetadataInv, VcsCancelled, files, flights, FreshInv
<1> QED
  BY <1>1, <1>2, <1>3, <1>4, <1>5, <1>6 DEF MetadataInv

LEMMA LeadInv ==
  ASSUME MetadataInv, NEW c \in Caller, NEW n \in Name, Lead(c, n)
  PROVE  MetadataInv'
<1>1. TypeOK'
  BY WorkersAssumption DEF MetadataInv, Lead, Get, files, TypeOK, Failure, Outcome, Rev, Caller
<1>2. RunInv'
  BY DEF MetadataInv, Lead, RunInv
<1>3. PoolInv'
  BY DEF MetadataInv, Lead, PoolInv
<1>4. CancelInv'
  BY DEF MetadataInv, Lead, Get, Cancelled, CancelInv
<1>5. MirrorInv'
  BY DEF MetadataInv, Lead, MirrorInv, InGit
<1>6. FreshInv'
  <2>1. \A v \in URL : server'[v] = server[v] /\ hdr'[v] = hdr[v] /\ body'[v] = body[v]
    BY DEF Lead, files
  <2>2. ASSUME NEW v \in URL, v[1] = n
        PROVE  /\ since'[v] = server[v]
               /\ req'[v].pc \in {"sent", "cancelled"} /\ req'[v].etag <= req'[v].cached
    <3>1. req'[v] = Get(c, v) /\ since'[v] = server[v]
      BY <2>2 DEF Lead
    <3>2. hdr[v] <= body[v] /\ hdr[v] \in Int /\ body[v] \in Int
      BY DEF MetadataInv, TypeOK, FreshInv
    <3> QED
      BY <3>1, <3>2 DEF Get
  <2>3. ASSUME NEW v \in URL, v[1] # n PROVE req'[v] = req[v] /\ since'[v] = since[v]
    BY <2>3 DEF Lead
  <2>4. \A v \in URL : server[v] <= server[v]
    BY DEF MetadataInv, TypeOK, Rev
  <2> QED
    BY <2>1, <2>2, <2>3, <2>4 DEF MetadataInv, FreshInv
<1> QED
  BY <1>1, <1>2, <1>3, <1>4, <1>5, <1>6 DEF MetadataInv

LEMMA AnswerInv ==
  ASSUME MetadataInv, NEW u \in URL, Answer(u)
  PROVE  MetadataInv'
<1>1. TypeOK'
  <2>1. PICK how \in {"sent", "body", "hdr"} \cup Outcome, got \in 0 .. MaxRev :
          Goes(u, how, got) /\ req[u].pc # "off"
    BY WorkersAssumption DEF MetadataInv, TypeOK, Answer, Rev, Outcome, Failure
  <2>2. UNCHANGED leader
    BY DEF Answer
  <2>3. /\ req' \in [URL -> Request]
        /\ \A v \in URL : req'[v].pc = "off" <=> leader'[v[1]] = "none"
    BY <2>1, <2>2, GoesType DEF MetadataInv
  <2> QED
    BY <2>3 DEF MetadataInv, TypeOK, Answer, files, Request
<1>2. RunInv'
  BY DEF MetadataInv, Answer, RunInv
<1>3. PoolInv'
  BY DEF MetadataInv, Answer, PoolInv
<1>4. CancelInv'
  <2>1. req'[u].pc # "cancelled" /\ \A v \in URL \ {u} : req'[v].pc = req[v].pc
    BY DEF MetadataInv, TypeOK, Answer, Goes
  <2> QED
    BY <2>1 DEF MetadataInv, CancelInv, Answer
<1>5. MirrorInv'
  BY DEF MetadataInv, Answer, MirrorInv, InGit
<1>6. FreshInv'
  <2>1. server[u] \in 0 .. MaxRev /\ req[u].cached \in 0 .. MaxRev /\ req[u].pc = "sent"
    BY DEF MetadataInv, TypeOK, Answer, Rev
  <2>2. \A v \in URL \ {u} : req'[v] = req[v]
    BY DEF MetadataInv, TypeOK, Answer, Goes
  <2>3. CASE u \in Missing
    <3>1. req'[u].pc = "notfound"
      BY <2>3 DEF MetadataInv, TypeOK, Answer, Goes
    <3> QED
      BY <2>2, <2>3, <3>1 DEF MetadataInv, FreshInv, Answer, files
  <2>4. CASE u \notin Missing /\ req[u].etag = server[u]
    <3>1. req'[u].pc = "ok" /\ req'[u].got = req[u].cached
      BY <2>4 DEF MetadataInv, TypeOK, Answer, Goes
    <3>2. since[u] <= req[u].cached
      BY <2>1, <2>4 DEF MetadataInv, TypeOK, FreshInv
    <3> QED
      BY <2>2, <2>4, <3>1, <3>2 DEF MetadataInv, FreshInv, Answer, files
  <2>5. CASE u \notin Missing /\ req[u].etag # server[u]
    <3>1. req'[u].pc = "body" /\ req'[u].got = server[u]
      BY <2>5 DEF MetadataInv, TypeOK, Answer, Goes
    <3> QED
      BY <2>1, <2>2, <2>5, <3>1 DEF MetadataInv, FreshInv, Answer, files
  <2> QED
    BY <2>3, <2>4, <2>5
<1> QED
  BY <1>1, <1>2, <1>3, <1>4, <1>5, <1>6 DEF MetadataInv

LEMMA BreakInv ==
  ASSUME MetadataInv, NEW u \in URL, Break(u)
  PROVE  MetadataInv'
<1>1. TypeOK'
  <2>1. PICK how \in {"sent", "body", "hdr"} \cup Outcome, got \in 0 .. MaxRev :
          Goes(u, how, got) /\ req[u].pc # "off"
    BY WorkersAssumption DEF Break, Outcome, Failure
  <2>2. UNCHANGED leader
    BY DEF Break
  <2>3. /\ req' \in [URL -> Request]
        /\ \A v \in URL : req'[v].pc = "off" <=> leader'[v[1]] = "none"
    BY <2>1, <2>2, GoesType DEF MetadataInv
  <2> QED
    BY <2>3 DEF MetadataInv, TypeOK, Break, files, Request
<1>2. RunInv'
  BY DEF MetadataInv, Break, RunInv
<1>3. PoolInv'
  BY DEF MetadataInv, Break, PoolInv
<1>4. CancelInv'
  BY DEF MetadataInv, Break, Goes, Cancelled, TypeOK, CancelInv
<1>5. MirrorInv'
  BY DEF MetadataInv, Break, MirrorInv, InGit
<1>6. FreshInv'
  BY DEF MetadataInv, Break, Goes, files, TypeOK, FreshInv
<1> QED
  BY <1>1, <1>2, <1>3, <1>4, <1>5, <1>6 DEF MetadataInv

LEMMA WriteCacheInv ==
  ASSUME MetadataInv, NEW u \in URL, writeCache(u)
  PROVE  MetadataInv'
<1>1. TypeOK'
  <2>1. PICK how \in {"sent", "body", "hdr"} \cup Outcome, got \in 0 .. MaxRev :
          Goes(u, how, got) /\ req[u].pc # "off"
    BY DEF MetadataInv, TypeOK, writeCache, Outcome
  <2>2. UNCHANGED leader
    BY DEF writeCache
  <2>3. /\ req' \in [URL -> Request]
        /\ \A v \in URL : req'[v].pc = "off" <=> leader'[v[1]] = "none"
    BY <2>1, <2>2, GoesType DEF MetadataInv
  <2>4. hdr' \in [URL -> 0 .. MaxRev] /\ body' \in [URL -> 0 .. MaxRev]
    <3>1. hdr \in [URL -> 0 .. MaxRev] /\ body \in [URL -> 0 .. MaxRev] /\ req[u].got \in 0 .. MaxRev
      BY DEF MetadataInv, TypeOK
    <3> QED
      BY <3>1 DEF writeCache
  <2> QED
    BY <2>3, <2>4 DEF MetadataInv, TypeOK, writeCache, Request
<1>2. RunInv'
  BY DEF MetadataInv, writeCache, RunInv
<1>3. PoolInv'
  BY DEF MetadataInv, writeCache, PoolInv
<1>4. CancelInv'
  BY DEF MetadataInv, writeCache, Goes, TypeOK, CancelInv
<1>5. MirrorInv'
  BY DEF MetadataInv, writeCache, MirrorInv, InGit
<1>6. FreshInv'
  BY DEF MetadataInv, writeCache, Goes, TypeOK, FreshInv
<1> QED
  BY <1>1, <1>2, <1>3, <1>4, <1>5, <1>6 DEF MetadataInv

LEMMA WriteFailsInv ==
  ASSUME MetadataInv, NEW u \in URL, WriteFails(u)
  PROVE  MetadataInv'
<1>1. TypeOK'
  <2>1. PICK how \in {"sent", "body", "hdr"} \cup Outcome, got \in 0 .. MaxRev :
          Goes(u, how, got) /\ req[u].pc # "off"
    BY WorkersAssumption DEF WriteFails, Outcome, Failure
  <2>2. UNCHANGED leader
    BY DEF WriteFails
  <2>3. /\ req' \in [URL -> Request]
        /\ \A v \in URL : req'[v].pc = "off" <=> leader'[v[1]] = "none"
    BY <2>1, <2>2, GoesType DEF MetadataInv
  <2> QED
    BY <2>3 DEF MetadataInv, TypeOK, WriteFails, files, Request
<1>2. RunInv'
  BY DEF MetadataInv, WriteFails, RunInv
<1>3. PoolInv'
  BY DEF MetadataInv, WriteFails, PoolInv
<1>4. CancelInv'
  BY DEF MetadataInv, WriteFails, Goes, TypeOK, CancelInv
<1>5. MirrorInv'
  BY DEF MetadataInv, WriteFails, MirrorInv, InGit
<1>6. FreshInv'
  BY DEF MetadataInv, WriteFails, Goes, files, TypeOK, FreshInv
<1> QED
  BY <1>1, <1>2, <1>3, <1>4, <1>5, <1>6 DEF MetadataInv

LEMMA FinishInv ==
  ASSUME MetadataInv, NEW n \in Name, Finish(n)
  PROVE  MetadataInv'
<1> DEFINE told == Merge(req[<<n, "stable">>].pc, req[<<n, "dev">>].pc)
<1>0. n # VcsName /\ <<n, "stable">> \in URL /\ <<n, "dev">> \in URL
  BY DEF MetadataInv, TypeOK, RunInv, Finish, URL, Part
<1>a. told \in Outcome
  BY DEF Merge, Outcome
<1>b. /\ look' \in [Caller -> [Name -> LookUp]]
      /\ \A d \in Caller, k \in Name :
           look'[d][k] = IF look[d][n] = "http" /\ k = n THEN told ELSE look[d][k]
  <2>1. look \in [Caller -> [Name -> LookUp]] /\ told \in LookUp
    BY <1>a DEF MetadataInv, TypeOK, LookUp
  <2>2. look' = [d \in Caller |-> IF look[d][n] = "http" THEN [look[d] EXCEPT ![n] = told] ELSE look[d]]
    BY DEF Finish
  <2> HIDE DEF told
  <2> QED
    BY <2>1, <2>2
<1>c. \A v \in URL : req'[v] = IF v[1] = n THEN NoReq ELSE req[v]
  BY DEF Finish
<1>1. TypeOK'
  BY WorkersAssumption DEF MetadataInv, Finish, Merge, Outcome, NoReq, files, TypeOK
<1>2. RunInv'
  BY DEF MetadataInv, Finish, TypeOK, RunInv, Caller
<1>3. PoolInv'
  BY <1>b DEF MetadataInv, PoolInv, Finish, Caller
<1>4. CancelInv'
  <2>1. told = "cancelled" => parent \/ pool.cancelled
    BY <1>0 DEF MetadataInv, CancelInv, Merge
  <2>2. phase = "resolve" => \A k \in Name : look'["main"][k] = "cancelled" => parent
    BY <1>b, <2>1 DEF MetadataInv, CancelInv, Caller
  <2>3. \A v \in URL : req'[v].pc = "cancelled" => req[v].pc = "cancelled"
    BY <1>c DEF NoReq
  <2> QED
    BY <2>2, <2>3 DEF MetadataInv, CancelInv, Finish
<1>5. MirrorInv'
  BY DEF MetadataInv, Finish, Merge, Failure, files, MirrorInv, InGit
<1>6. FreshInv'
  <2>1. \A v \in URL : since'[v] = IF v[1] = n THEN 0 ELSE since[v]
    BY DEF Finish
  <2>2. \A v \in URL : 0 <= server[v]
    BY DEF MetadataInv, TypeOK, Rev
  <2> QED
    BY <1>c, <2>1, <2>2 DEF MetadataInv, FreshInv, Finish, files, NoReq
<1> QED
  BY <1>1, <1>2, <1>3, <1>4, <1>5, <1>6 DEF MetadataInv

LEMMA PublishInv ==
  ASSUME MetadataInv, NEW u \in URL, Publish(u)
  PROVE  MetadataInv'
<1>1. TypeOK'
  BY WorkersAssumption DEF MetadataInv, Publish, Rev, files, flights, TypeOK
<1>2. RunInv'
  BY DEF MetadataInv, Publish, flights, RunInv
<1>3. PoolInv'
  BY DEF MetadataInv, Publish, PoolInv
<1>4. CancelInv'
  BY DEF MetadataInv, Publish, flights, CancelInv
<1>5. MirrorInv'
  BY DEF MetadataInv, Publish, MirrorInv, InGit
<1>6. FreshInv'
  BY DEF MetadataInv, Publish, Rev, files, flights, TypeOK, FreshInv
<1> QED
  BY <1>1, <1>2, <1>3, <1>4, <1>5, <1>6 DEF MetadataInv

LEMMA NextMetadataInv == MetadataInv /\ [Next]_vars => MetadataInv'
<1> SUFFICES ASSUME MetadataInv, [Next]_vars PROVE MetadataInv'
  OBVIOUS
<1>1. CASE Main
  <2>1. CASE CacheHit \/ ResolveReturns \/ Archive \/ RestReturns \/ Wait
    BY <2>1, CacheHitInv, ResolveReturnsInv, ArchiveInv, RestReturnsInv, WaitInv
  <2>2. CASE Listed \/ Solved \/ Unsatisfiable \/ dispatchAdded
    BY <2>2, ListedInv, SolvedInv, UnsatisfiableInv, DispatchAddedInv
  <2>3. CASE \E n \in Name : versions(n) \/ OnVersionDecided(n) \/ Add(n)
    BY <2>3, VersionsInv, OnVersionDecidedInv, AddInv
  <2> QED
    BY <1>1, <2>1, <2>2, <2>3 DEF Main
<1>2. CASE Workings
  <2>1. CASE \E n \in Name : dispatchInitial(n) \/ Warmed(n) \/ Finish(n)
    BY <2>1, DispatchInitialInv, WarmedInv, FinishInv
  <2>2. CASE \E c \in Caller, n \in Name :
               PackageNameKnown(c, n) \/ ensureMirror(c, n) \/ MirrorReady(c, n)
    BY <2>2, PackageNameKnownInv, EnsureMirrorInv, MirrorReadyInv
  <2>3. CASE \E c \in Caller, n \in Name : MirrorFails(c, n) \/ VcsCancelled(c, n) \/ Lead(c, n)
    BY <2>3, MirrorFailsInv, VcsCancelledInv, LeadInv
  <2>4. CASE \E u \in URL : Answer(u) \/ Break(u) \/ writeCache(u) \/ WriteFails(u)
    BY <2>4, AnswerInv, BreakInv, WriteCacheInv, WriteFailsInv
  <2> QED
    BY <1>2, <2>1, <2>2, <2>3, <2>4 DEF Workings
<1>3. CASE Environment
  BY <1>3, StartInv, InterruptInv, KillInv, PublishInv DEF Environment
<1>4. CASE UNCHANGED vars
  <2>1. TypeOK' /\ RunInv' /\ PoolInv'
    BY <1>4 DEF MetadataInv, TypeOK, RunInv, PoolInv, vars, files, flights
  <2>2. CancelInv' /\ MirrorInv' /\ FreshInv'
    BY <1>4 DEF MetadataInv, CancelInv, MirrorInv, FreshInv, InGit, vars, files, flights
  <2> QED
    BY <2>1, <2>2 DEF MetadataInv
<1> QED
  BY <1>1, <1>2, <1>3, <1>4 DEF Next

LEMMA InitMetadataInv == Init => MetadataInv
<1> SUFFICES ASSUME Init PROVE MetadataInv
  OBVIOUS
<1>1. /\ phase = "off" /\ known = FALSE /\ parent = FALSE
      /\ pool = NoPool /\ solver = NoSolver /\ look = NoLook
      /\ \A u \in URL : req[u].pc = "off" /\ since[u] = 0 /\ server[u] = 1
      /\ \A n \in Name : leader[n] = "none"
  BY DEF Init, NoReq
<1>2. \A c \in Caller, n \in Name : look[c][n] = "none"
  BY <1>1 DEF NoLook
<1>3. \A u \in URL : hdr[u] = body[u] /\ hdr[u] \in {0, 1}
  BY DEF Init
<1>4. TypeOK
  <2>1. server \in [URL -> Rev] /\ since \in [URL -> 0 .. MaxRev]
    BY WorkersAssumption DEF Init, Rev
  <2>2. hdr \in [URL -> 0 .. MaxRev] /\ body \in [URL -> 0 .. MaxRev]
    BY WorkersAssumption DEF Init
  <2>3. mirror \in {"none", "whole"} /\ lockHit = FALSE /\ runs = 0
    BY DEF Init
  <2>4. /\ pool \in [on : BOOLEAN, queue : SUBSET Name, seen : SUBSET Name, owed : SUBSET Name, cancelled : BOOLEAN]
        /\ pool.queue \subseteq pool.owed /\ pool.owed \subseteq pool.seen
    BY <1>1 DEF NoPool
  <2>5. solver \in [pc : {"off", "pick", "wait", "add", "dispatch"} \cup Returned, name : Name,
                    needed : SUBSET Name, listed : SUBSET Name, missing : SUBSET Name,
                    decided : SUBSET Name, adding : SUBSET Name]
    BY <1>1, NameAssumption DEF NoSolver
  <2>6. look \in [Caller -> [Name -> {"none", "vcs", "clone", "fetch", "http"} \cup Outcome]]
    BY <1>1 DEF NoLook
  <2>7. leader \in [Name -> Caller \cup {"none"}]
    BY DEF Init
  <2>8. NoReq \in Request
    BY WorkersAssumption DEF NoReq, Request
  <2>9. req \in [URL -> Request]
    BY <2>8 DEF Init
  <2>10. \A u \in URL : req[u].pc = "off" <=> leader[u[1]] = "none"
    BY <1>1 DEF URL
  <2>11. known \in BOOLEAN /\ lockHit \in BOOLEAN /\ parent \in BOOLEAN
    BY <1>1, <2>3
  <2>12. mirror \in {"none", "partial", "whole"} /\ phase \in Running \cup {"off", "end"}
    BY <1>1, <2>3
  <2>13. runs \in 0 .. MaxRuns
    BY <2>3, WorkersAssumption
  <2> QED
    BY <2>1, <2>2, <2>4, <2>5, <2>6, <2>7, <2>9, <2>10, <2>11, <2>12, <2>13 DEF TypeOK, Request
<1>5. RunInv
  BY <1>1, <1>2, NameAssumption DEF RunInv, Caller, NoSolver
<1>6. PoolInv
  BY <1>1, <1>2 DEF PoolInv, Caller, NoPool, NoSolver
<1>7. CancelInv
  BY <1>1, <1>2 DEF CancelInv, NoSolver
<1>8. MirrorInv
  BY <1>1, <1>2 DEF MirrorInv, InGit
<1>9. FreshInv
  BY <1>1, <1>3 DEF FreshInv
<1> QED
  BY <1>4, <1>5, <1>6, <1>7, <1>8, <1>9 DEF MetadataInv

LEMMA MetadataCorrect == Spec => []MetadataInv
<1> QED
  BY InitMetadataInv, NextMetadataInv, PTL DEF Spec

-------------------------------------------------------------------------------
(***************************************************************************)
(* What it says.                                                           *)
(***************************************************************************)
\* The pool, the resolver, the look-ups and the flights keep their types
\* (metadata_prefetch.go, packagist.go, vcs.go, httpcache).
THEOREM MetadataTypeCorrect == Spec => []TypeOK
<1>1. MetadataInv => TypeOK
  BY DEF MetadataInv
<1> QED
  BY <1>1, MetadataCorrect, PTL

\* The resolver is never told that a context ended which is not its own, although
\* the flights it follows may run under the pool's (packagist.go, Lookup).
THEOREM CancellationIsOnesOwn == Spec => []NoBorrowedCancellation
<1>1. MetadataInv => NoBorrowedCancellation
  BY DEF MetadataInv, CancelInv, NoBorrowedCancellation
<1> QED
  BY <1>1, MetadataCorrect, PTL

\* No worker of the pool outlives the run (the deferred Wait of runFullPipeline).
THEOREM NoWorkerOutlivesTheRun == Spec => []PoolIsDrained
<1>1. MetadataInv => PoolIsDrained
  BY DEF MetadataInv, TypeOK, PoolInv, PoolIsDrained, Running
<1> QED
  BY <1>1, MetadataCorrect, PTL

\* While the VCS client knows the name of its repository, its clone is complete
\* (vcs.go, ensureMirror and PackageName).
THEOREM KnownRepositoryStaysWhole == Spec => []NamedRepositoryIsWhole
<1>1. MetadataInv => NamedRepositoryIsWhole
  BY DEF MetadataInv, MirrorInv, NamedRepositoryIsWhole
<1> QED
  BY <1>1, MetadataCorrect, PTL

\* No step but the end of its flight tells a look-up of a registry package that
\* all went well.
LEMMA ToldByFinish ==
  ASSUME MetadataInv, [Next]_vars, NEW c \in Caller, NEW n \in Name,
         look[c][n] = "http", look'[c][n] = "ok"
  PROVE  Finish(n)
<1>1. look' # look
  OBVIOUS
<1>2. look \in [Caller -> [Name -> LookUp]]
  BY DEF MetadataInv, TypeOK, LookUp
<1>3. \/ Archive \/ RestReturns \/ Listed \/ dispatchAdded \/ Kill
      \/ \E k \in Name : versions(k) \/ dispatchInitial(k) \/ Warmed(k) \/ Finish(k)
      \/ \E d \in Caller, k \in Name :
           PackageNameKnown(d, k) \/ ensureMirror(d, k) \/ MirrorReady(d, k) \/ MirrorFails(d, k) \/ VcsCancelled(d, k)
  <2>1. CASE Main
    BY <1>1, <2>1 DEF Main, CacheHit, ResolveReturns, Wait, OnVersionDecided, Add, Solved, Unsatisfiable
  <2>2. CASE Workings
    BY <1>1, <2>2 DEF Workings, Lead, Answer, Break, writeCache, WriteFails
  <2>3. CASE Environment
    BY <1>1, <2>3 DEF Environment, Start, Interrupt, Publish
  <2>4. CASE UNCHANGED vars
    BY <1>1, <2>4 DEF vars
  <2> QED
    BY <2>1, <2>2, <2>3, <2>4 DEF Next
<1>4. ~ (Archive \/ RestReturns)
  BY <1>2 DEF Archive, RestReturns
<1>5. ~ (Listed \/ dispatchAdded \/ Kill)
  BY <1>2 DEF Listed, dispatchAdded, Kill, NoLook, Caller
<1>6. ASSUME NEW k \in Name, versions(k) \/ dispatchInitial(k) \/ Warmed(k) PROVE FALSE
  BY <1>2, <1>6 DEF versions, dispatchInitial, Warmed
<1>7. ASSUME NEW d \in Caller, NEW k \in Name,
             PackageNameKnown(d, k) \/ ensureMirror(d, k) \/ VcsCancelled(d, k)
      PROVE  FALSE
  BY <1>2, <1>7 DEF PackageNameKnown, ensureMirror, VcsCancelled
<1>8. ASSUME NEW d \in Caller, NEW k \in Name, MirrorReady(d, k) \/ MirrorFails(d, k) PROVE FALSE
  BY <1>2, <1>8 DEF MirrorReady, MirrorFails
<1>9. ASSUME NEW k \in Name, Finish(k) PROVE Finish(n)
  BY <1>2, <1>9 DEF Finish
<1> QED
  BY <1>3, <1>4, <1>5, <1>6, <1>7, <1>8, <1>9

\* A look-up of a registry package is never told anything older than what the
\* registry served when the flight that answers it began, whatever an earlier
\* process left in the HTTP cache (httpcache/cache.go, Get and writeCache;
\* packagist.go, Lookup).
THEOREM NothingStaleIsTold == Spec => AnswersAreFresh
<1>1. ASSUME MetadataInv, [Next]_vars, NEW c \in Caller, NEW n \in Name, NEW part \in Part,
             look[c][n] = "http", look'[c][n] = "ok"
      PROVE  LET u == <<n, part>>
             IN IF u \in Missing THEN req[u].pc = "notfound"
                ELSE req[u].pc = "ok" /\ req[u].got >= since[u]
  <2> DEFINE stable == req[<<n, "stable">>].pc
             dev == req[<<n, "dev">>].pc
  <2>1. Finish(n)
    BY <1>1, ToldByFinish
  <2>2. <<n, "stable">> \in URL /\ <<n, "dev">> \in URL
    BY <1>1 DEF MetadataInv, RunInv, URL, Part
  <2>3. stable \in Outcome /\ dev \in Outcome
    BY <2>1 DEF Finish, Part
  <2>4. Merge(stable, dev) = "ok"
    BY <1>1, <2>1 DEF Finish
  <2>5. stable = "ok" /\ dev \in {"ok", "notfound"}
    BY <2>3, <2>4 DEF Merge, Outcome, Failure
  <2>6. \A u \in URL : /\ req[u].pc = "ok" => u \notin Missing /\ req[u].got >= since[u]
                       /\ req[u].pc = "notfound" => u \in Missing
    BY <1>1 DEF MetadataInv, FreshInv
  <2> QED
    BY <2>2, <2>5, <2>6 DEF Part
<1>2. MetadataInv /\ [Next]_vars =>
        [\A c \in Caller, n \in Name, part \in Part :
           look[c][n] = "http" /\ look'[c][n] = "ok" =>
             LET u == <<n, part>>
             IN IF u \in Missing THEN req[u].pc = "notfound" ELSE req[u].pc = "ok" /\ req[u].got >= since[u]]_vars
  BY <1>1
<1> QED
  BY <1>2, MetadataCorrect, PTL DEF Spec, AnswersAreFresh
===============================================================================
