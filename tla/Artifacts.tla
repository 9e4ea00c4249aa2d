------------------------------ MODULE Artifacts ------------------------------
(***************************************************************************)
(* From the packages of a lock to the files in vendor/: the speculative    *)
(* prefetch, fetchAll and materializeAll of internal/orchestrator over     *)
(* internal/fetcher and internal/store.                                    *)
(*                                                                         *)
(* Several gomposer processes, each in a project of its own, share one     *)
(* store.  A process runs one phase at a time; in a phase its packages are *)
(* jobs of an errgroup with a limit.  A job takes one step per file-system *)
(* change that others, or a later run, can see.  A process may be asked to *)
(* stop (Ctrl-C cancels the context) or be killed at any step.             *)
(***************************************************************************)
EXTENDS Integers, FiniteSets

CONSTANTS
  Process,   \* gomposer processes, one project each
  Package,   \* package names, numbered in the order of the lock
  Sha, Path, Contents, Absent,  \* see ContentStore
  Big,       \* the archives with at least minExpandedEntries files
  Locks,     \* the locks a project may have: functions from packages to Dist
  Workers,   \* limit of an errgroup
  MaxRuns    \* bound: how many runs are started, by all processes together

\* What the lock says of a package's archive: its sha, whether the lock records
\* it (Packagist may omit it), and whether it is a `git archive` of a VCS ref.
Dist == [sha : Sha, known : BOOLEAN, vcs : BOOLEAN]

ASSUME PackageAssumption == Package \subseteq Nat /\ IsFiniteSet(Package)
ASSUME BigAssumption == Big \subseteq Sha
ASSUME LocksAssumption == \A lk \in Locks : DOMAIN lk \subseteq Package /\ \A q \in DOMAIN lk : lk[q] \in Dist
ASSUME WorkersAssumption == Workers \in Nat \ {0}

VARIABLES
  zips, expanded,  \* the shared store, see ContentStore
  vendor,     \* vendor[p][q]: the tree of package q in p's project
  phase,      \* where the run of p is
  wanted,     \* the packages of p's lock
  job,        \* job[p][q]: what the worker of package q is doing
  bytes,      \* bytes[p][q]: whose bytes were downloaded to the dl-*.zip file
  key,        \* key[p][q]: the store key fetchAll returned
  temp,       \* temp[p][q]: the tree being extracted next to expanded/
  cancelled,  \* whether the context the jobs of p look at is cancelled
  ticked,     \* fetchTicker.seen
  incs,       \* how often IncFetch was called since BeginFetch
  torn,       \* the packages whose tree was incomplete under a marker when p's run began
  runs

store == <<zips, expanded>>
work == <<job, bytes, key, temp>>
progress == <<ticked, incs>>
vars == <<store, vendor, phase, wanted, work, cancelled, progress, torn, runs>>

Store == INSTANCE ContentStore

ASSUME PathAssumption == Path \subseteq Int \ {Store!Marker}
ASSUME ContentsAssumption == Contents \in [Sha -> SUBSET Path] /\ \A s \in Sha : IsFiniteSet(Contents[s])
ASSUME AbsentAssumption == Absent \notin Sha

Running == {"prefetch", "fetch", "extract"}
Finished == {"ok", "failed"}
Writing == {"expand", "publish", "clearUnzip", "unzip", "clearClone", "clone"}
Busy == {"start", "got"} \cup Writing

TypeOK ==
  /\ zips \in [Sha -> Sha \cup {Absent}]
  /\ \A s \in Sha : expanded[s] \in Store!Tree
  /\ \A p \in Process, q \in Package : vendor[p][q] \in Store!Tree /\ temp[p][q] \in Store!Tree
  /\ phase \in [Process -> Running \cup {"idle", "done", "failed", "killed"}]
  /\ \A p \in Process : DOMAIN wanted[p] \subseteq Package /\ \A q \in DOMAIN wanted[p] : wanted[p][q] \in Dist
  /\ job \in [Process -> [Package -> {"none", "queued"} \cup Busy \cup Finished]]
  /\ bytes \in [Process -> [Package -> Sha \cup {Absent}]]
  /\ key \in [Process -> [Package -> Sha \cup {Absent}]]
  /\ cancelled \in [Process -> BOOLEAN]
  /\ ticked \in [Process -> SUBSET Package]
  /\ torn \in [Process -> SUBSET Package]
  /\ incs \in [Process -> Nat]
  /\ \A p \in Process : phase[p] \in {"extract", "done"} => \A q \in DOMAIN wanted[p] : key[p][q] \in Sha

\* The packages an errgroup of p was given.
Jobs(p) == DOMAIN wanted[p]

Idle(lk) == [q \in Package |-> IF q \in DOMAIN lk THEN "queued" ELSE "none"]
AllQueued(p) == job' = [job EXCEPT ![p] = Idle(wanted[p])]

\* Fault: a job that failed is waited for.
AllFinishedWell(p) == \A q \in Jobs(p) : job[p][q] = "ok"

AllFinished(p) == \A q \in Jobs(p) : job[p][q] \in Finished
SomeFailed(p) == \E q \in Jobs(p) : job[p][q] = "failed"

\* Nothing of a run that ended is left but what it wrote to disk.
Dropped(p) ==
  /\ job' = [job EXCEPT ![p] = [q \in Package |-> "none"]]
  /\ bytes' = [bytes EXCEPT ![p] = [q \in Package |-> Absent]]
  /\ temp' = [temp EXCEPT ![p] = [q \in Package |-> Store!EmptyTree]]

(***************************************************************************)
(* A run.                                                                  *)
(***************************************************************************)
\* A tree that carries the marker of an archive without being its tree.
Torn(t) == Store!Marker \in DOMAIN t /\ t # Store!Complete(t[Store!Marker])

\* install with any lock, this project's last one included; the prefetch runs
\* unless --no-prefetch or update was asked for.
Start(p) ==
  /\ phase[p] \notin Running /\ runs < MaxRuns
  /\ \E lk \in Locks \cup {wanted[p]}, speculative \in BOOLEAN :
       /\ lk # [q \in {} |-> Absent]
       /\ wanted' = [wanted EXCEPT ![p] = lk]
       /\ phase' = [phase EXCEPT ![p] = IF speculative THEN "prefetch" ELSE "fetch"]
       /\ job' = [job EXCEPT ![p] = Idle(lk)]
  /\ key' = [key EXCEPT ![p] = [q \in Package |-> Absent]]
  /\ cancelled' = [cancelled EXCEPT ![p] = FALSE]
  /\ ticked' = [ticked EXCEPT ![p] = {}]
  /\ incs' = [incs EXCEPT ![p] = 0]
  /\ torn' = [torn EXCEPT ![p] = {q \in Package : Torn(vendor[p][q])}]
  /\ runs' = runs + 1
  /\ UNCHANGED <<store, vendor, bytes, temp>>

FreeSlot(p) == Cardinality({q \in Package : job[p][q] \in Busy}) < Workers

\* g.Go in the order of the lock; it blocks while the limit is reached.
NextInLine(p, q) ==
  /\ q \in Jobs(p) /\ job[p][q] = "queued"
  /\ \A r \in Jobs(p) : r < q => job[p][r] # "queued"
  /\ FreeSlot(p)

Dispatch(p, q) ==
  /\ NextInLine(p, q)
  /\ job' = [job EXCEPT ![p][q] = "start"]
  /\ UNCHANGED <<store, vendor, phase, wanted, bytes, key, temp, cancelled, progress, torn, runs>>

\* Prefetcher.Wait: whatever failed is left to fetchAll.
JoinPrefetch(p) ==
  /\ phase[p] = "prefetch" /\ AllFinished(p)
  /\ phase' = [phase EXCEPT ![p] = "fetch"]
  /\ AllQueued(p)
  /\ key' = [key EXCEPT ![p] = [q \in Package |-> Absent]]
  /\ UNCHANGED <<store, vendor, wanted, bytes, temp, cancelled, progress, torn, runs>>

FetchAllDone(p) ==
  /\ phase[p] = "fetch" /\ AllFinished(p) /\ ~ SomeFailed(p)
  /\ phase' = [phase EXCEPT ![p] = "extract"]
  /\ AllQueued(p)
  /\ UNCHANGED <<store, vendor, wanted, bytes, key, temp, cancelled, progress, torn, runs>>

\* backfillSha, and writeLock at the end of the pipeline.
Backfilled(p) ==
  [q \in Jobs(p) |-> IF wanted[p][q].known THEN wanted[p][q]
                     ELSE [wanted[p][q] EXCEPT !.sha = key[p][q], !.known = TRUE]]

MaterializeAllDone(p) ==
  /\ phase[p] = "extract" /\ AllFinished(p) /\ ~ SomeFailed(p)
  /\ phase' = [phase EXCEPT ![p] = "done"]
  /\ wanted' = [wanted EXCEPT ![p] = Backfilled(p)]
  /\ Dropped(p)
  /\ UNCHANGED <<store, vendor, key, cancelled, progress, torn, runs>>

Fail(p) ==
  /\ phase[p] \in {"fetch", "extract"} /\ AllFinished(p) /\ SomeFailed(p)
  /\ phase' = [phase EXCEPT ![p] = "failed"]
  /\ Dropped(p)
  /\ UNCHANGED <<store, vendor, wanted, key, cancelled, progress, torn, runs>>

Cancel(p) ==
  /\ phase[p] \in Running /\ ~ cancelled[p]
  /\ cancelled' = [cancelled EXCEPT ![p] = TRUE]
  /\ UNCHANGED <<store, vendor, phase, wanted, work, progress, torn, runs>>

Kill(p) ==
  /\ phase[p] \in Running
  /\ phase' = [phase EXCEPT ![p] = "killed"]
  /\ Dropped(p)
  /\ UNCHANGED <<store, vendor, wanted, key, cancelled, progress, torn, runs>>

\* The first error of fetchAll or materializeAll cancels their context.
JobFails(p, q) ==
  /\ job' = [job EXCEPT ![p][q] = "failed"]
  /\ bytes' = [bytes EXCEPT ![p][q] = Absent]
  /\ temp' = [temp EXCEPT ![p][q] = Store!EmptyTree]
  /\ cancelled' = [cancelled EXCEPT ![p] = @ \/ phase[p] # "prefetch"]
  /\ UNCHANGED <<store, vendor, phase, wanted, key, progress, torn, runs>>

(***************************************************************************)
(* Fetch (fetcher.go; fetchViaGitArchive for a vcs package).               *)
(***************************************************************************)
Fetching(p, q) == phase[p] \in {"prefetch", "fetch"} /\ job[p][q] = "start"

Hit(p, q) == wanted[p][q].known /\ zips[wanted[p][q].sha] # Absent

\* Fault: fetchAll counts what the prefetch counted.
TickAlways(p, q) ==
  /\ ticked' = [ticked EXCEPT ![p] = @ \cup {q}]
  /\ incs' = [incs EXCEPT ![p] = @ + 1]

\* fetchTicker.tick: once per name.
Tick(p, q) ==
  /\ ticked' = [ticked EXCEPT ![p] = @ \cup {q}]
  /\ incs' = [incs EXCEPT ![p] = IF q \in ticked[p] THEN @ ELSE @ + 1]

\* Fault: the key of an archive that was in the store is not returned.
FetchedWithoutKey(p, q, s) ==
  /\ job' = [job EXCEPT ![p][q] = "ok"]
  /\ bytes' = [bytes EXCEPT ![p][q] = Absent]
  /\ key' = [key EXCEPT ![p][q] = IF job[p][q] = "got" THEN s ELSE @]
  /\ Tick(p, q)

\* The job of q returns the store key s.
Fetched(p, q, s) ==
  /\ job' = [job EXCEPT ![p][q] = "ok"]
  /\ bytes' = [bytes EXCEPT ![p][q] = Absent]
  /\ key' = [key EXCEPT ![p][q] = s]
  /\ Tick(p, q)

FetchHit(p, q) ==
  /\ Fetching(p, q) /\ Hit(p, q)
  /\ Fetched(p, q, wanted[p][q].sha)
  /\ UNCHANGED <<store, vendor, phase, wanted, temp, cancelled, torn, runs>>

\* The server sends the archive, or some other bytes.
Download(p, q) ==
  /\ Fetching(p, q) /\ ~ Hit(p, q) /\ ~ cancelled[p]
  /\ \E s \in Sha : bytes' = [bytes EXCEPT ![p][q] = s]
  /\ job' = [job EXCEPT ![p][q] = "got"]
  /\ UNCHANGED <<store, vendor, phase, wanted, key, temp, cancelled, progress, torn, runs>>

DownloadFails(p, q) == Fetching(p, q) /\ ~ Hit(p, q) /\ JobFails(p, q)

\* Fault: the hash is computed and not compared.
AcceptedUnchecked(d, s) == TRUE

\* A sha the lock records must be the one of the bytes; a git archive is stored
\* under the sha it has.
Accepted(d, s) == d.known /\ ~ d.vcs => s = d.sha

StoredAs(d, s) == IF d.known /\ ~ d.vcs THEN d.sha ELSE s

PublishZip(p, q) ==
  /\ job[p][q] = "got" /\ Accepted(wanted[p][q], bytes[p][q])
  /\ LET s == StoredAs(wanted[p][q], bytes[p][q]) IN
       /\ zips' = [zips EXCEPT ![s] = bytes[p][q]]
       /\ Fetched(p, q, s)
  /\ UNCHANGED <<expanded, vendor, phase, wanted, temp, cancelled, torn, runs>>

RejectZip(p, q) ==
  /\ job[p][q] = "got" /\ ~ Accepted(wanted[p][q], bytes[p][q])
  /\ JobFails(p, q)

(***************************************************************************)
(* Materialize (materialize.go).                                           *)
(***************************************************************************)
Materializing(p, q) == phase[p] = "extract" /\ job[p][q] = "start"

\* Fault: any marker will do.
HasMarker(t, s) == Store!Marker \in DOMAIN t

UpToDate(t, s) == Store!Marked(t, s)

HasExpanded(s) == Store!Marked(expanded[s], s)

SkipWarm(p, q) ==
  /\ Materializing(p, q) /\ UpToDate(vendor[p][q], key[p][q])
  /\ job' = [job EXCEPT ![p][q] = "ok"]
  /\ UNCHANGED <<store, vendor, phase, wanted, bytes, key, temp, cancelled, progress, torn, runs>>

\* A small archive is unzipped over the cleared target, a large one is expanded
\* into the store once and cloned from there.
ChooseStrategy(p, q) ==
  /\ Materializing(p, q) /\ ~ UpToDate(vendor[p][q], key[p][q])
  /\ job' = [job EXCEPT ![p][q] = IF HasExpanded(key[p][q]) THEN "clearClone"
                                  ELSE IF key[p][q] \in Big THEN "expand"
                                  ELSE "clearUnzip"]
  /\ UNCHANGED <<store, vendor, phase, wanted, bytes, key, temp, cancelled, progress, torn, runs>>

\* The entry extractZip writes next: a file of s, or the marker when all are there.
ToExtract(t, s) == IF Contents[s] \subseteq DOMAIN t THEN {Store!Marker} ELSE Contents[s] \ DOMAIN t

\* cloneTree walks the expanded tree in lexical order, the marker in its place.
ToClone(t, src) == {e \in DOMAIN src \ DOMAIN t : \A f \in DOMAIN src \ DOMAIN t : e <= f}

With(t, e, s) == [f \in DOMAIN t \cup {e} |-> IF f = e THEN s ELSE t[f]]

\* extractZip into the temporary tree; the context is looked at before each file.
Expand(p, q) ==
  /\ job[p][q] = "expand"
  /\ \E e \in ToExtract(temp[p][q], key[p][q]) :
       /\ e # Store!Marker => ~ cancelled[p]
       /\ temp' = [temp EXCEPT ![p][q] = With(@, e, key[p][q])]
       /\ job' = [job EXCEPT ![p][q] = IF e = Store!Marker THEN "publish" ELSE @]
  /\ UNCHANGED <<store, vendor, phase, wanted, bytes, key, cancelled, progress, torn, runs>>

\* Renaming onto a tree that another worker or process published meanwhile
\* fails, and is no error because HasExpanded holds by then.
PublishTree(p, q) ==
  /\ job[p][q] = "publish"
  /\ IF expanded[key[p][q]] = Store!EmptyTree
     THEN expanded' = [expanded EXCEPT ![key[p][q]] = temp[p][q]]
     ELSE HasExpanded(key[p][q]) /\ UNCHANGED expanded
  /\ temp' = [temp EXCEPT ![p][q] = Store!EmptyTree]
  /\ job' = [job EXCEPT ![p][q] = "clearClone"]
  /\ UNCHANGED <<zips, vendor, phase, wanted, bytes, key, cancelled, progress, torn, runs>>

\* os.RemoveAll, one entry at a time in the order the directory lists them.
Clear(p, q) ==
  /\ job[p][q] \in {"clearUnzip", "clearClone"}
  /\ \/ /\ vendor[p][q] # Store!EmptyTree
        /\ \E e \in DOMAIN vendor[p][q] :
             vendor' = [vendor EXCEPT ![p][q] = [f \in DOMAIN @ \ {e} |-> @[f]]]
        /\ UNCHANGED job
     \/ /\ vendor[p][q] = Store!EmptyTree
        /\ job' = [job EXCEPT ![p][q] = IF @ = "clearUnzip" THEN "unzip" ELSE "clone"]
        /\ UNCHANGED vendor
  /\ UNCHANGED <<store, phase, wanted, bytes, key, temp, cancelled, progress, torn, runs>>

Unzip(p, q) ==
  /\ job[p][q] = "unzip"
  /\ \E e \in ToExtract(vendor[p][q], key[p][q]) :
       /\ e # Store!Marker => ~ cancelled[p]
       /\ vendor' = [vendor EXCEPT ![p][q] = With(@, e, key[p][q])]
       /\ job' = [job EXCEPT ![p][q] = IF e = Store!Marker THEN "ok" ELSE @]
  /\ UNCHANGED <<store, phase, wanted, bytes, key, temp, cancelled, progress, torn, runs>>

Clone(p, q) ==
  /\ job[p][q] = "clone" /\ ~ cancelled[p]
  /\ LET src == expanded[key[p][q]] IN
       \E e \in ToClone(vendor[p][q], src) :
         /\ vendor' = [vendor EXCEPT ![p][q] = With(@, e, src[e])]
         /\ job' = [job EXCEPT ![p][q] = IF DOMAIN src = DOMAIN vendor[p][q] \cup {e} THEN "ok" ELSE @]
  /\ UNCHANGED <<store, phase, wanted, bytes, key, temp, cancelled, progress, torn, runs>>

\* A full disk, a permission, or the cancelled context.
WriteFails(p, q) == job[p][q] \in Writing /\ JobFails(p, q)

-------------------------------------------------------------------------------
Init ==
  /\ Store!Init
  /\ vendor = [p \in Process |-> [q \in Package |-> Store!EmptyTree]]
  /\ phase = [p \in Process |-> "idle"]
  /\ wanted = [p \in Process |-> [q \in {} |-> Absent]]
  /\ job = [p \in Process |-> [q \in Package |-> "none"]]
  /\ bytes = [p \in Process |-> [q \in Package |-> Absent]]
  /\ key = [p \in Process |-> [q \in Package |-> Absent]]
  /\ temp = [p \in Process |-> [q \in Package |-> Store!EmptyTree]]
  /\ cancelled = [p \in Process |-> FALSE]
  /\ ticked = [p \in Process |-> {}]
  /\ incs = [p \in Process |-> 0]
  /\ torn = [p \in Process |-> {}]
  /\ runs = 0

FetchStep(p, q) ==
  \/ FetchHit(p, q) \/ Download(p, q) \/ DownloadFails(p, q)
  \/ PublishZip(p, q) \/ RejectZip(p, q)

MaterializeStep(p, q) ==
  \/ SkipWarm(p, q) \/ ChooseStrategy(p, q)
  \/ Expand(p, q) \/ PublishTree(p, q)
  \/ Clear(p, q) \/ Unzip(p, q) \/ Clone(p, q) \/ WriteFails(p, q)

\* What the goroutines of p do by themselves.
Step(p) ==
  \/ \E q \in Package : Dispatch(p, q) \/ FetchStep(p, q) \/ MaterializeStep(p, q)
  \/ JoinPrefetch(p) \/ FetchAllDone(p) \/ MaterializeAllDone(p) \/ Fail(p)

Next == \E p \in Process : Start(p) \/ Step(p) \/ Cancel(p) \/ Kill(p)

Spec == Init /\ [][Next]_vars

-------------------------------------------------------------------------------
\* To everyone else the shared cache is a store of whole entries, whatever the
\* processes do: no archive under the sha of another, no expanded tree that is
\* half there, also when a process is killed while it extracts or two of them
\* publish the same tree.
StoreRefined == Store!Spec

\* What a finished install leaves behind, exactly: every package is the archive
\* its lock records, no file of an older archive among its files.  The one
\* exception are trees an earlier, interrupted run left torn under a marker.
InstalledIsLocked ==
  \A p \in Process : phase[p] = "done" =>
    \A q \in Jobs(p) :
      /\ q \in torn[p] \/ vendor[p][q] = Store!Complete(key[p][q])
      /\ ~ wanted[p][q].vcs => key[p][q] = wanted[p][q].sha

\* The marker lets the next install skip a package "when the target already
\* matches the locked SHA" (handbook/book/cache.md:49).
InstallRepairs ==
  \A p \in Process : phase[p] = "done" =>
    \A q \in Jobs(p) : vendor[p][q] = Store!Complete(key[p][q])

\* The announced total is exact (prefetch.go:60): however the prefetch and
\* fetchAll share the work, every package is counted once, none twice.
FetchCountIsExact ==
  \A p \in Process :
    /\ incs[p] <= Cardinality(Jobs(p))
    /\ phase[p] \in {"extract", "done"} => incs[p] = Cardinality(Jobs(p))

\* A worker that holds q has a next step which waits for nobody: an archive to
\* look up, store or reject, an entry to write or to remove, a tree to publish.
CanGoOn(p, q) ==
  \/ Fetching(p, q) \/ Materializing(p, q)
  \/ job[p][q] \in {"got", "clearUnzip", "clearClone"}
  \/ job[p][q] = "expand" /\ ToExtract(temp[p][q], key[p][q]) # {}
  \/ job[p][q] = "publish" /\ (expanded[key[p][q]] = Store!EmptyTree \/ HasExpanded(key[p][q]))
  \/ job[p][q] = "unzip" /\ ToExtract(vendor[p][q], key[p][q]) # {}
  \/ job[p][q] = "clone" /\ ToClone(vendor[p][q], expanded[key[p][q]]) # {}

\* A run is never stuck: whatever failed, was cancelled or was done meanwhile by
\* others, every worker can go on, and where no worker is left either all jobs
\* have finished or the next one in line gets a slot.  So no errgroup waits for
\* ever, no job waits for an entry or a tree that is not coming, and no phase
\* starts without the jobs of the one before it having been joined.
NeverStuck ==
  \A p \in Process : phase[p] \in Running =>
    /\ \A q \in Package : job[p][q] \in Busy => CanGoOn(p, q)
    /\ AllFinished(p) \/ \E q \in Package : job[p][q] \in Busy \/ NextInLine(p, q)
==============================================================================
