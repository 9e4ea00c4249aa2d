--------------------------- MODULE Installed_proofs ---------------------------
(***************************************************************************)
(* What a finished install of Artifacts leaves in vendor/, and what its    *)
(* fetch counter says, for any number of processes, packages, archives and *)
(* runs.                                                                   *)
(***************************************************************************)
EXTENDS Artifacts_proofs, OrderedSets_proofs

\* A part of the complete tree of archive s, the marker possibly included.
SubTree(t, s) == DOMAIN t \subseteq DOMAIN Store!Complete(s) /\ \A e \in DOMAIN t : t[e] = s

\* The run of p has not changed the target of q.
Untouched(p, q) ==
  \/ phase[p] \in {"prefetch", "fetch"}
  \/ phase[p] = "extract" /\ job[p][q] \in {"none", "queued", "start"}

\* The run of p is done with the target of q.
Settled(p, q) ==
  /\ q \in Jobs(p)
  /\ phase[p] = "done" \/ (phase[p] = "extract" /\ job[p][q] = "ok")

\* The key the run goes by is the one in the lock, if the lock has one.
LockedKey(p, q) == wanted[p][q].known /\ ~ wanted[p][q].vcs => key[p][q] = wanted[p][q].sha

\* The job of q is one its phase has.
PhaseInv(p, q) ==
  /\ job[p][q] = "got" => phase[p] \in {"prefetch", "fetch"}
  /\ job[p][q] \in Writing => phase[p] = "extract"
  /\ q \in Jobs(p) /\ phase[p] \in Running => job[p][q] # "none"

\* A tree is cloned from a whole one, only into an emptied target, and only
\* while something is left to clone.
SourceInv(p, q) ==
  /\ job[p][q] \in {"clearClone", "clone"} => expanded[key[p][q]] = Store!Complete(key[p][q])
  /\ job[p][q] = "unzip" => Part(vendor[p][q], key[p][q])
  /\ job[p][q] = "clone" => SubTree(vendor[p][q], key[p][q]) /\ vendor[p][q] # Store!Complete(key[p][q])

\* What this run left is whole; a torn tree was there when it began.
ResultInv(p, q) ==
  /\ Untouched(p, q) => q \in torn[p] \/ ~ Torn(vendor[p][q])
  /\ Settled(p, q) => q \in torn[p] \/ vendor[p][q] = Store!Complete(key[p][q])
  /\ q \in Jobs(p) /\ (job[p][q] = "ok" \/ phase[p] \in {"extract", "done"}) => LockedKey(p, q)
  /\ q \in Jobs(p) /\ phase[p] = "done" => wanted[p][q].known

TargetInv(p, q) == PhaseInv(p, q) /\ SourceInv(p, q) /\ ResultInv(p, q)

InstallInv ==
  /\ StoreInv
  /\ vendor \in [Process -> [Package -> Store!Tree]]
  /\ torn \in [Process -> SUBSET Package]
  /\ \A p \in Process, q \in Package : TargetInv(p, q)

-------------------------------------------------------------------------------
(***************************************************************************)
(* Trees.                                                                  *)
(***************************************************************************)
LEMMA RemoveInTree ==
  ASSUME NEW t \in Store!Tree, NEW e
  PROVE  [f \in DOMAIN t \ {e} |-> t[f]] \in Store!Tree
<1>1. PICK D \in SUBSET (Path \cup {Store!Marker}) : t \in [D -> Sha]
  BY DEF Store!Tree
<1>2. [f \in DOMAIN t \ {e} |-> t[f]] \in [D \ {e} -> Sha]
  BY <1>1
<1> QED
  BY <1>1, <1>2 DEF Store!Tree

\* A tree that is not torn and carries the marker of s is the tree of s.
LEMMA MarkedIsComplete ==
  ASSUME NEW t, NEW s, Store!Marked(t, s), ~ Torn(t)
  PROVE  t = Store!Complete(s)
  BY DEF Store!Marked, Torn

\* The entries cloneTree copies come from a complete tree; the last one
\* completes the target.
LEMMA CloneGrows ==
  ASSUME NEW t \in Store!Tree, NEW s \in Sha, SubTree(t, s), NEW e \in ToClone(t, Store!Complete(s))
  PROVE  /\ e \in Path \cup {Store!Marker}
         /\ Store!Complete(s)[e] = s
         /\ SubTree(With(t, e, s), s)
         /\ DOMAIN Store!Complete(s) = DOMAIN t \cup {e} <=> With(t, e, s) = Store!Complete(s)
<1>1. DOMAIN Store!Complete(s) = Contents[s] \cup {Store!Marker} /\ Contents[s] \subseteq Path
  BY ContentsAssumption DEF Store!Complete
<1>2. e \in DOMAIN Store!Complete(s)
  BY DEF ToClone
<1>3. Store!Complete(s)[e] = s
  BY <1>2 DEF Store!Complete
<1>4. DOMAIN With(t, e, s) = DOMAIN t \cup {e} /\ \A f \in DOMAIN With(t, e, s) : With(t, e, s)[f] = s
  BY DEF With, SubTree
<1>5. SubTree(With(t, e, s), s)
  BY <1>2, <1>4 DEF SubTree
<1>6. ASSUME DOMAIN Store!Complete(s) = DOMAIN t \cup {e} PROVE With(t, e, s) = Store!Complete(s)
  BY <1>6 DEF With, SubTree, Store!Complete
<1> QED
  BY <1>1, <1>2, <1>3, <1>4, <1>5, <1>6

\* Complete trees stay in the store.
ExpandedStays == \A s \in Sha : expanded[s] = Store!Complete(s) => expanded'[s] = Store!Complete(s)

\* No step of the store takes a complete tree away.
LEMMA StoreKeeps ==
  ASSUME StoreInv, [Store!Next]_<<zips, expanded>>
  PROVE  ExpandedStays
<1>1. CASE UNCHANGED expanded
  BY <1>1 DEF ExpandedStays
<1>2. ASSUME NEW s \in Sha, Store!AddTree(s) PROVE ExpandedStays
  BY <1>2 DEF ExpandedStays, Store!AddTree, StoreInv, WorkOK
<1> QED
  BY <1>1, <1>2 DEF Store!Next, Store!AddZip

-------------------------------------------------------------------------------
(***************************************************************************)
(* The invariant.                                                          *)
(***************************************************************************)
LEMMA InitInstallInv == Init => InstallInv
<1> SUFFICES ASSUME Init PROVE InstallInv
  OBVIOUS
<1>1. vendor \in [Process -> [Package -> Store!Tree]]
  BY EmptyInTree DEF Init
<1>2. ASSUME NEW p \in Process, NEW q \in Package PROVE TargetInv(p, q)
  BY DEF Init, TargetInv, PhaseInv, SourceInv, ResultInv, Untouched, Settled, Jobs, Writing
<1> QED
  BY <1>1, <1>2, InitStoreInv DEF InstallInv, Init

\* A target keeps its invariant while its job, its key and its run stay.
LEMMA Frame ==
  ASSUME InstallInv, ExpandedStays, NEW r \in Process, NEW x \in Package,
         phase'[r] = phase[r], wanted'[r] = wanted[r], torn'[r] = torn[r],
         job'[r][x] = job[r][x], key'[r][x] = key[r][x], vendor'[r][x] = vendor[r][x]
  PROVE  TargetInv(r, x)'
<1>1. TargetInv(r, x) /\ (job[r][x] \in Writing => key[r][x] \in Sha)
  BY DEF InstallInv, StoreInv, KeyInv, Keyed
<1>2. PhaseInv(r, x)'
  BY <1>1 DEF TargetInv, PhaseInv, Jobs
<1>3. SourceInv(r, x)'
  BY <1>1 DEF TargetInv, SourceInv, ExpandedStays, Part, SubTree, Writing
<1>4. ResultInv(r, x)'
  BY <1>1 DEF TargetInv, ResultInv, Untouched, Settled, LockedKey, Torn, Jobs
<1> QED
  BY <1>2, <1>3, <1>4 DEF TargetInv

\* A step of the job of q disturbs no other target.
LEMMA OneTarget ==
  ASSUME InstallInv, StoreInv', ExpandedStays, NEW p \in Process, NEW q \in Package,
         UNCHANGED <<phase, wanted, torn>>, vendor' \in [Process -> [Package -> Store!Tree]],
         Agree(job, job', p, q), Agree(key, key', p, q), Agree(vendor, vendor', p, q),
         TargetInv(p, q)'
  PROVE  InstallInv'
<1>1. ASSUME NEW r \in Process, NEW x \in Package, r # p \/ x # q PROVE TargetInv(r, x)'
  BY <1>1, Frame DEF Agree
<1> QED
  BY <1>1 DEF InstallInv

\* A step that starts or ends a phase or a run disturbs no other project.
LEMMA OneProject ==
  ASSUME InstallInv, StoreInv', ExpandedStays, NEW p \in Process, UNCHANGED vendor,
         torn' \in [Process -> SUBSET Package],
         \A r \in Process \ {p} :
           /\ phase'[r] = phase[r] /\ wanted'[r] = wanted[r] /\ torn'[r] = torn[r]
           /\ job'[r] = job[r] /\ key'[r] = key[r],
         \A q \in Package : TargetInv(p, q)'
  PROVE  InstallInv'
<1>1. ASSUME NEW r \in Process \ {p}, NEW x \in Package PROVE TargetInv(r, x)'
  BY <1>1, Frame
<1> QED
  BY <1>1 DEF InstallInv

-------------------------------------------------------------------------------
(***************************************************************************)
(* Steps of a whole process.                                               *)
(***************************************************************************)
LEMMA StartTargets ==
  ASSUME InstallInv, StoreInv', ExpandedStays, NEW p \in Process, Start(p)
  PROVE  InstallInv'
<1>1. PICK lk \in Locks \cup {wanted[p]} : wanted' = [wanted EXCEPT ![p] = lk] /\ job' = [job EXCEPT ![p] = Idle(lk)]
  BY DEF Start
<1>2. /\ torn' = [torn EXCEPT ![p] = {q \in Package : Torn(vendor[p][q])}]
      /\ vendor' = vendor
  BY DEF Start
<1>3. torn' \in [Process -> SUBSET Package]
  BY <1>2 DEF InstallInv
<1>4. ASSUME NEW q \in Package PROVE TargetInv(p, q)'
  <2>1. /\ job'[p][q] \in {"queued", "none"} /\ phase'[p] \in {"prefetch", "fetch"}
        /\ q \in Jobs(p)' => job'[p][q] = "queued"
    BY <1>1 DEF Start, Idle, Jobs, InstallInv, StoreInv, WorkOK
  <2>2. q \in torn'[p] \/ ~ Torn(vendor'[p][q])
    BY <1>2 DEF InstallInv
  <2>3. (q \in torn[p] \/ ~ Torn(vendor[p][q]))'
    BY <2>2 DEF Torn
  <2> QED
    BY <2>1, <2>3 DEF TargetInv, PhaseInv, SourceInv, ResultInv, Settled, Writing
<1> QED
  BY <1>1, <1>2, <1>3, <1>4, OneProject DEF Start, InstallInv, StoreInv, WorkOK

\* fetchAll and materializeAll begin with targets nobody has touched.
LEMMA JoinTargets ==
  ASSUME InstallInv, StoreInv', ExpandedStays, NEW p \in Process, JoinPrefetch(p) \/ FetchAllDone(p)
  PROVE  InstallInv'
<1>1. /\ phase[p] \in {"prefetch", "fetch"} /\ phase'[p] \in {"fetch", "extract"}
      /\ phase'[p] = "extract" => key' = key /\ \A q \in Jobs(p) : job[p][q] = "ok"
      /\ UNCHANGED <<vendor, wanted, torn>>
      /\ AllQueued(p)
  BY DEF JoinPrefetch, FetchAllDone, AllFinished, SomeFailed, Finished, InstallInv, StoreInv, WorkOK
<1>2. ASSUME NEW q \in Package PROVE TargetInv(p, q)'
  <2>1. job'[p][q] \in {"queued", "none"} /\ (q \in Jobs(p)' => job'[p][q] = "queued")
    BY <1>1 DEF AllQueued, Idle, Jobs, InstallInv, StoreInv, WorkOK
  <2>2. q \in torn[p] \/ ~ Torn(vendor[p][q])
    BY <1>1 DEF InstallInv, TargetInv, ResultInv, Untouched
  <2>3. phase'[p] = "extract" /\ q \in Jobs(p) => LockedKey(p, q)
    BY <1>1 DEF InstallInv, TargetInv, ResultInv
  <2>4. ResultInv(p, q)'
    BY <1>1, <2>1, <2>2, <2>3 DEF ResultInv, Settled, Torn, LockedKey, Jobs
  <2> QED
    BY <2>1, <2>4 DEF TargetInv, PhaseInv, SourceInv, Writing
<1> QED
  BY <1>1, <1>2, OneProject DEF JoinPrefetch, FetchAllDone, AllQueued, InstallInv, StoreInv, WorkOK

\* When every job of materializeAll went well, every target is settled.
LEMMA DoneTargets ==
  ASSUME InstallInv, StoreInv', ExpandedStays, NEW p \in Process, MaterializeAllDone(p)
  PROVE  InstallInv'
<1>1. /\ phase[p] = "extract" /\ phase'[p] = "done"
      /\ wanted'[p] = Backfilled(p)
      /\ UNCHANGED <<vendor, torn, key>>
      /\ \A q \in Jobs(p) : job[p][q] = "ok"
      /\ \A q \in Package : job'[p][q] = "none"
  BY DEF MaterializeAllDone, AllFinished, SomeFailed, Finished, Dropped, InstallInv, StoreInv, WorkOK
<1>2. ASSUME NEW q \in Package PROVE TargetInv(p, q)'
  <2>1. Jobs(p)' = Jobs(p)
    BY <1>1 DEF Jobs, Backfilled
  <2>2. CASE q \in Jobs(p)
    <3>1. /\ q \in torn[p] \/ vendor[p][q] = Store!Complete(key[p][q])
          /\ LockedKey(p, q)
          /\ wanted[p][q] \in Dist
      BY <1>1, <2>2 DEF InstallInv, TargetInv, ResultInv, Settled, StoreInv, WorkOK
    <3>2. wanted'[p][q] = IF wanted[p][q].known THEN wanted[p][q]
                          ELSE [wanted[p][q] EXCEPT !.sha = key[p][q], !.known = TRUE]
      BY <1>1, <2>2 DEF Backfilled
    <3>3. wanted'[p][q].known /\ LockedKey(p, q)'
      BY <1>1, <3>1, <3>2 DEF LockedKey, Dist
    <3>4. ResultInv(p, q)'
      BY <1>1, <3>1, <3>3 DEF ResultInv, Untouched
    <3> QED
      BY <1>1, <3>4 DEF TargetInv, PhaseInv, SourceInv, Writing, Running
  <2>3. CASE q \notin Jobs(p)
    BY <1>1, <2>1, <2>3 DEF TargetInv, PhaseInv, SourceInv, ResultInv, Untouched, Settled, Writing
  <2> QED
    BY <2>2, <2>3
<1>3. \A r \in Process \ {p} :
        /\ phase'[r] = phase[r] /\ wanted'[r] = wanted[r] /\ torn'[r] = torn[r]
        /\ job'[r] = job[r] /\ key'[r] = key[r]
  BY DEF MaterializeAllDone, Dropped, InstallInv, StoreInv, WorkOK
<1>4. torn' \in [Process -> SUBSET Package]
  BY <1>1 DEF InstallInv
<1> QED
  BY <1>1, <1>2, <1>3, <1>4, OneProject

\* A run that failed or was killed promises nothing.
LEMMA EndTargets ==
  ASSUME InstallInv, StoreInv', ExpandedStays, NEW p \in Process, Fail(p) \/ Kill(p)
  PROVE  InstallInv'
<1>1. /\ phase'[p] \in {"failed", "killed"}
      /\ UNCHANGED <<vendor, torn, wanted, key>>
      /\ \A q \in Package : job'[p][q] = "none"
  BY DEF Fail, Kill, Dropped, InstallInv, StoreInv, WorkOK
<1>2. ASSUME NEW q \in Package PROVE TargetInv(p, q)'
  BY <1>1 DEF TargetInv, PhaseInv, SourceInv, ResultInv, Untouched, Settled, Writing, Running
<1> QED
  BY <1>1, <1>2, OneProject DEF Fail, Kill, Dropped, InstallInv, StoreInv, WorkOK

\* The invariant is about targets, jobs and keys only.
LEMMA SameTargets ==
  ASSUME InstallInv, StoreInv', ExpandedStays, UNCHANGED <<vendor, phase, wanted, job, key, torn>>
  PROVE  InstallInv'
<1>1. ASSUME NEW p \in Process, NEW q \in Package PROVE TargetInv(p, q)'
  BY Frame
<1> QED
  BY <1>1 DEF InstallInv

-------------------------------------------------------------------------------
(***************************************************************************)
(* Steps of one job.                                                       *)
(***************************************************************************)
\* A step of the job of q that leaves its target and its key as they are.
LEMMA JobTarget ==
  ASSUME InstallInv, StoreInv', ExpandedStays, NEW p \in Process, NEW q \in Package, NEW v,
         job' = [job EXCEPT ![p][q] = v], UNCHANGED <<phase, wanted, torn, vendor, key>>,
         v # "none", v = "got" => phase[p] \in {"prefetch", "fetch"},
         v \in Writing => phase[p] = "extract",
         v \in {"clearClone", "clone"} => expanded'[key[p][q]] = Store!Complete(key[p][q]),
         v \in {"unzip", "clone"} => vendor[p][q] = Store!EmptyTree,
         phase[p] = "extract" /\ v \in {"queued", "start"} => Untouched(p, q),
         v = "ok" => phase[p] = "extract" /\ (q \in torn[p] \/ vendor[p][q] = Store!Complete(key[p][q]))
  PROVE  InstallInv'
<1>1. TargetInv(p, q) /\ job'[p][q] = v
  BY DEF InstallInv, StoreInv, WorkOK
<1>2. PhaseInv(p, q)'
  BY <1>1 DEF PhaseInv
<1>3. SourceInv(p, q)'
  BY <1>1 DEF SourceInv, Part, SubTree, Store!EmptyTree, Store!Complete
<1>4. ResultInv(p, q)'
  <2>1. Untouched(p, q)' => Untouched(p, q)
    BY <1>1 DEF Untouched
  <2>2. Settled(p, q)' => Settled(p, q) \/ q \in torn[p] \/ vendor[p][q] = Store!Complete(key[p][q])
    BY <1>1 DEF Settled, Jobs
  <2> QED
    BY <1>1, <2>1, <2>2 DEF TargetInv, ResultInv, LockedKey, Torn, Jobs
<1>5. /\ Agree(job, job', p, q) /\ Agree(key, key', p, q) /\ Agree(vendor, vendor', p, q)
  BY OneCell, SameTable DEF InstallInv, StoreInv, WorkOK
<1> QED
  BY <1>1, <1>2, <1>3, <1>4, <1>5, OneTarget DEF TargetInv, InstallInv

\* The job of q returns a key that is the locked one, if there is one.
LEMMA FetchedTarget ==
  ASSUME InstallInv, StoreInv', ExpandedStays, NEW p \in Process, NEW q \in Package, NEW s \in Sha,
         phase[p] \in {"prefetch", "fetch"}, Fetched(p, q, s),
         wanted[p][q].known /\ ~ wanted[p][q].vcs => s = wanted[p][q].sha,
         UNCHANGED <<phase, wanted, torn, vendor>>
  PROVE  InstallInv'
<1>1. job'[p][q] = "ok" /\ key'[p][q] = s
  BY DEF Fetched, InstallInv, StoreInv, WorkOK
<1>2. PhaseInv(p, q)' /\ SourceInv(p, q)'
  BY <1>1 DEF PhaseInv, SourceInv, Writing
<1>3. q \in torn[p] \/ ~ Torn(vendor[p][q])
  BY DEF InstallInv, TargetInv, ResultInv, Untouched
<1>4. ResultInv(p, q)'
  BY <1>1, <1>3 DEF ResultInv, Settled, LockedKey, Torn
<1>5. /\ Agree(job, job', p, q) /\ Agree(key, key', p, q) /\ Agree(vendor, vendor', p, q)
  BY OneCell, SameTable DEF Fetched, InstallInv, StoreInv, WorkOK
<1> QED
  BY <1>2, <1>4, <1>5, OneTarget DEF TargetInv, InstallInv

\* A job that fails promises nothing about its target.
LEMMA FailedTarget ==
  ASSUME InstallInv, StoreInv', ExpandedStays, NEW p \in Process, NEW q \in Package, JobFails(p, q)
  PROVE  InstallInv'
  BY JobTarget DEF JobFails, Writing

\* Every step of Fetch keeps the invariant.
LEMMA FetchTargets ==
  ASSUME InstallInv, StoreInv', ExpandedStays, NEW p \in Process, NEW q \in Package, FetchStep(p, q)
  PROVE  InstallInv'
<1>1. CASE FetchHit(p, q)
  <2> DEFINE s == wanted[p][q].sha
  <2>1. s \in Sha
    BY <1>1 DEF FetchHit, Fetching, InstallInv, StoreInv, WorkOK, KeyInv, Dist
  <2> QED
    BY <1>1, <2>1, FetchedTarget DEF FetchHit, Fetching
<1>2. CASE Download(p, q)
  BY <1>2, JobTarget DEF Download, Fetching, Writing
<1>3. CASE DownloadFails(p, q) \/ RejectZip(p, q)
  BY <1>3, FailedTarget DEF DownloadFails, RejectZip
<1>4. CASE PublishZip(p, q)
  <2> DEFINE s == bytes[p][q]
  <2>1. job[p][q] = "got" /\ s \in Sha /\ phase[p] \in {"prefetch", "fetch"}
    BY <1>4 DEF PublishZip, InstallInv, TargetInv, PhaseInv, StoreInv, KeyInv
  <2>2. StoredAs(wanted[p][q], s) = s /\ (wanted[p][q].known /\ ~ wanted[p][q].vcs => s = wanted[p][q].sha)
    BY <1>4 DEF PublishZip, StoredAs, Accepted
  <2> HIDE DEF s
  <2>3. Fetched(p, q, s) /\ UNCHANGED <<phase, wanted, torn, vendor>>
    BY <1>4, <2>2 DEF PublishZip, s
  <2> QED
    BY <2>1, <2>2, <2>3, FetchedTarget
<1> QED
  BY <1>1, <1>2, <1>3, <1>4 DEF FetchStep

\* A step of the job of q that writes to its target.
LEMMA WriteTarget ==
  ASSUME InstallInv, StoreInv', NEW p \in Process, NEW q \in Package, NEW t \in Store!Tree, NEW v,
         job[p][q] \in Writing,
         vendor' = [vendor EXCEPT ![p][q] = t], job' = [job EXCEPT ![p][q] = v],
         UNCHANGED <<phase, wanted, torn, key, expanded>>,
         v = job[p][q] \/ v = "ok",
         v = "unzip" => Part(t, key[p][q]),
         v = "clone" => SubTree(t, key[p][q]) /\ t # Store!Complete(key[p][q]),
         v = "ok" => t = Store!Complete(key[p][q])
  PROVE  InstallInv'
<1>1. TargetInv(p, q) /\ phase[p] = "extract" /\ q \in Jobs(p)
  BY DEF InstallInv, TargetInv, PhaseInv, StoreInv, KeyInv, Writing
<1>2. job'[p][q] = v /\ vendor'[p][q] = t /\ vendor' \in [Process -> [Package -> Store!Tree]]
  BY DEF InstallInv, StoreInv, WorkOK
<1>3. PhaseInv(p, q)'
  BY <1>1, <1>2 DEF PhaseInv, Writing
<1>4. SourceInv(p, q)'
  BY <1>1, <1>2 DEF TargetInv, SourceInv, Part, SubTree
<1>5. ResultInv(p, q)'
  BY <1>1, <1>2 DEF TargetInv, ResultInv, Untouched, Settled, LockedKey, Writing, Jobs
<1>6. /\ Agree(job, job', p, q) /\ Agree(key, key', p, q) /\ Agree(vendor, vendor', p, q)
  BY OneCell, SameTable DEF InstallInv, StoreInv, WorkOK
<1>7. ExpandedStays
  BY DEF ExpandedStays
<1> QED
  BY <1>2, <1>3, <1>4, <1>5, <1>6, <1>7, OneTarget DEF TargetInv

\* After the rename, whoever won it, the expanded tree is whole.
LEMMA PublishTarget ==
  ASSUME InstallInv, StoreInv', ExpandedStays, NEW p \in Process, NEW q \in Package, PublishTree(p, q)
  PROVE  InstallInv'
<1> DEFINE s == key[p][q]
<1>1. s \in Sha /\ phase[p] = "extract" /\ temp[p][q] = Store!Complete(s)
  BY DEF PublishTree, InstallInv, TargetInv, PhaseInv, StoreInv, KeyInv, TempInv, Keyed, Writing
<1>2. expanded'[s] = Store!Complete(s)
  <2>1. CASE expanded[s] = Store!EmptyTree
    BY <1>1, <2>1 DEF PublishTree, InstallInv, StoreInv, WorkOK
  <2>2. CASE expanded[s] # Store!EmptyTree
    BY <1>1, <2>2 DEF PublishTree, InstallInv, StoreInv, StoreWhole
  <2> QED
    BY <2>1, <2>2
<1> QED
  BY <1>1, <1>2, JobTarget DEF PublishTree, Writing

\* os.RemoveAll ends with an empty target.
LEMMA ClearTarget ==
  ASSUME InstallInv, StoreInv', ExpandedStays, NEW p \in Process, NEW q \in Package, Clear(p, q)
  PROVE  InstallInv'
<1>1. /\ job[p][q] \in Writing /\ phase[p] = "extract" /\ key[p][q] \in Sha
      /\ vendor[p][q] \in Store!Tree /\ job \in [Process -> [Package -> JobState]]
  BY DEF Clear, InstallInv, TargetInv, PhaseInv, StoreInv, WorkOK, KeyInv, Keyed, Writing
<1>2. CASE UNCHANGED job
  <2>1. PICK e \in DOMAIN vendor[p][q] :
          vendor' = [vendor EXCEPT ![p][q] = [f \in DOMAIN vendor[p][q] \ {e} |-> vendor[p][q][f]]]
    BY <1>1, <1>2 DEF Clear
  <2> DEFINE t == [f \in DOMAIN vendor[p][q] \ {e} |-> vendor[p][q][f]]
             v == job[p][q]
  <2>2. t \in Store!Tree
    BY <1>1, RemoveInTree
  <2>3. vendor' = [vendor EXCEPT ![p][q] = t]
    BY <2>1
  <2>4. job' = [job EXCEPT ![p][q] = v] /\ v \in {"clearUnzip", "clearClone"}
    BY <1>1, <1>2 DEF Clear
  <2>5. UNCHANGED <<phase, wanted, torn, key, expanded>>
    BY DEF Clear, store
  <2>6. v = job[p][q]
    OBVIOUS
  <2> HIDE DEF t, v
  <2> QED
    BY <1>1, <2>2, <2>3, <2>4, <2>5, <2>6, WriteTarget
<1>3. CASE vendor[p][q] = Store!EmptyTree /\ UNCHANGED vendor
  <2>1. PICK v \in {"unzip", "clone"} :
          job' = [job EXCEPT ![p][q] = v] /\ (v = "clone" => job[p][q] = "clearClone")
    BY <1>3 DEF Clear
  <2>2. v = "clone" => expanded'[key[p][q]] = Store!Complete(key[p][q])
    BY <2>1, <1>1 DEF InstallInv, TargetInv, SourceInv, ExpandedStays
  <2> QED
    BY <1>1, <1>3, <2>1, <2>2, JobTarget DEF Clear
<1> QED
  BY <1>2, <1>3 DEF Clear

\* extractZip into the target ends with the whole archive.
LEMMA UnzipTarget ==
  ASSUME InstallInv, StoreInv', NEW p \in Process, NEW q \in Package, Unzip(p, q)
  PROVE  InstallInv'
<1> DEFINE s == key[p][q]
           t == vendor[p][q]
<1>1. PICK e \in ToExtract(t, s) :
        /\ vendor' = [vendor EXCEPT ![p][q] = With(t, e, s)]
        /\ job' = [job EXCEPT ![p][q] = IF e = Store!Marker THEN "ok" ELSE "unzip"]
  BY DEF Unzip
<1>2. /\ job[p][q] = "unzip" /\ s \in Sha /\ t \in Store!Tree /\ Part(t, s)
      /\ UNCHANGED <<phase, wanted, torn, key, expanded>>
  BY DEF Unzip, store, InstallInv, TargetInv, SourceInv, StoreInv, KeyInv, Keyed, Writing
<1>3. /\ e \in Path \cup {Store!Marker}
      /\ e = Store!Marker => With(t, e, s) = Store!Complete(s)
      /\ e # Store!Marker => Part(With(t, e, s), s)
  BY <1>2, ExtractGrows
<1>4. With(t, e, s) \in Store!Tree
  BY <1>2, <1>3, WithInTree
<1>5. job[p][q] \in Writing
  BY <1>2 DEF Writing
<1> HIDE DEF t
<1>6. CASE e = Store!Marker
  BY <1>1, <1>2, <1>3, <1>4, <1>5, <1>6, WriteTarget
<1>7. CASE e # Store!Marker
  BY <1>1, <1>2, <1>3, <1>4, <1>5, <1>7, WriteTarget
<1> QED
  BY <1>6, <1>7

\* cloneTree ends with the whole archive.
LEMMA CloneTarget ==
  ASSUME InstallInv, StoreInv', NEW p \in Process, NEW q \in Package, Clone(p, q)
  PROVE  InstallInv'
<1> DEFINE s == key[p][q]
           t == vendor[p][q]
<1>1. /\ job[p][q] = "clone" /\ s \in Sha /\ t \in Store!Tree /\ SubTree(t, s)
      /\ expanded[s] = Store!Complete(s)
      /\ UNCHANGED <<phase, wanted, torn, key, expanded>>
  BY DEF Clone, store, InstallInv, TargetInv, SourceInv, StoreInv, KeyInv, Keyed, Writing
<1>2. PICK e \in ToClone(t, Store!Complete(s)) :
        /\ vendor' = [vendor EXCEPT ![p][q] = With(t, e, Store!Complete(s)[e])]
        /\ job' = [job EXCEPT ![p][q] = IF DOMAIN Store!Complete(s) = DOMAIN t \cup {e} THEN "ok" ELSE "clone"]
  BY <1>1 DEF Clone
<1> HIDE DEF s, t
<1>3. /\ e \in Path \cup {Store!Marker}
      /\ Store!Complete(s)[e] = s
      /\ SubTree(With(t, e, s), s)
      /\ DOMAIN Store!Complete(s) = DOMAIN t \cup {e} <=> With(t, e, s) = Store!Complete(s)
  BY <1>1, CloneGrows
<1>4. With(t, e, s) \in Store!Tree
  BY <1>1, <1>3, WithInTree
<1>5. job[p][q] \in Writing /\ s = key[p][q]
  BY <1>1 DEF Writing, s
<1>6. vendor' = [vendor EXCEPT ![p][q] = With(t, e, s)]
  BY <1>2, <1>3
<1>7. CASE DOMAIN Store!Complete(s) = DOMAIN t \cup {e}
  <2>1. job' = [job EXCEPT ![p][q] = "ok"]
    BY <1>2, <1>7
  <2> QED
    BY <1>1, <1>3, <1>4, <1>5, <1>6, <1>7, <2>1, WriteTarget
<1>8. CASE DOMAIN Store!Complete(s) # DOMAIN t \cup {e}
  <2>1. job' = [job EXCEPT ![p][q] = "clone"]
    BY <1>2, <1>8
  <2> QED
    BY <1>1, <1>3, <1>4, <1>5, <1>6, <1>8, <2>1, WriteTarget
<1> QED
  BY <1>7, <1>8

\* Every step of Materialize keeps the invariant.
LEMMA MaterializeTargets ==
  ASSUME InstallInv, StoreInv', ExpandedStays, NEW p \in Process, NEW q \in Package, MaterializeStep(p, q)
  PROVE  InstallInv'
<1>1. CASE SkipWarm(p, q)
  <2>1. q \in torn[p] \/ vendor[p][q] = Store!Complete(key[p][q])
    BY <1>1, MarkedIsComplete
       DEF SkipWarm, Materializing, UpToDate, InstallInv, TargetInv, ResultInv, Untouched
  <2> QED
    BY <1>1, <2>1, JobTarget DEF SkipWarm, Materializing, Writing
<1>2. CASE ChooseStrategy(p, q)
  <2>1. PICK v \in {"clearClone", "expand", "clearUnzip"} :
          /\ job' = [job EXCEPT ![p][q] = v]
          /\ v = "clearClone" => HasExpanded(key[p][q])
    BY <1>2 DEF ChooseStrategy
  <2>2. key[p][q] \in Sha
    BY <1>2 DEF ChooseStrategy, Materializing, InstallInv, StoreInv, KeyInv, Keyed
  <2>3. v = "clearClone" => expanded'[key[p][q]] = Store!Complete(key[p][q])
    <3>1. HasExpanded(key[p][q]) => expanded[key[p][q]] # Store!EmptyTree
      BY DEF HasExpanded, Store!Marked, Store!EmptyTree
    <3> QED
      BY <2>1, <2>2, <3>1 DEF InstallInv, StoreInv, StoreWhole, ExpandedStays
  <2>4. phase[p] = "extract" /\ UNCHANGED <<phase, wanted, torn, vendor, key>>
    BY <1>2 DEF ChooseStrategy, Materializing
  <2> QED
    BY <2>1, <2>3, <2>4, JobTarget
<1>3. CASE Expand(p, q)
  <2>1. PICK v \in {"publish", "expand"} : job' = [job EXCEPT ![p][q] = v]
    BY <1>3 DEF Expand
  <2>2. phase[p] = "extract"
    BY <1>3 DEF Expand, InstallInv, TargetInv, PhaseInv, Writing
  <2> QED
    BY <1>3, <2>1, <2>2, JobTarget DEF Expand
<1>4. CASE PublishTree(p, q)
  BY <1>4, PublishTarget
<1>5. CASE Clear(p, q)
  BY <1>5, ClearTarget
<1>6. CASE Unzip(p, q)
  BY <1>6, UnzipTarget
<1>7. CASE Clone(p, q)
  BY <1>7, CloneTarget
<1>8. CASE WriteFails(p, q)
  BY <1>8, FailedTarget DEF WriteFails
<1> QED
  BY <1>1, <1>2, <1>3, <1>4, <1>5, <1>6, <1>7, <1>8 DEF MaterializeStep

\* Giving a job to a worker keeps the invariant.
LEMMA DispatchTarget ==
  ASSUME InstallInv, StoreInv', ExpandedStays, NEW p \in Process, NEW q \in Package, Dispatch(p, q)
  PROVE  InstallInv'
  BY JobTarget DEF Dispatch, NextInLine, Untouched, Writing

-------------------------------------------------------------------------------
(***************************************************************************)
(* The theorem.                                                            *)
(***************************************************************************)
LEMMA InstallStep == InstallInv /\ [Next]_vars => InstallInv'
<1> SUFFICES ASSUME InstallInv, [Next]_vars
             PROVE  InstallInv'
  OBVIOUS
<1>1. StoreInv' /\ ExpandedStays
  BY StepOK, StoreKeeps DEF InstallInv
<1>2. CASE UNCHANGED vars
  BY <1>1, <1>2, SameTargets DEF vars, work
<1>3. CASE Next
  <2>1. PICK p \in Process : Start(p) \/ Step(p) \/ Cancel(p) \/ Kill(p)
    BY <1>3 DEF Next
  <2>2. CASE Start(p)
    BY <1>1, <2>2, StartTargets
  <2>3. CASE Cancel(p)
    BY <1>1, <2>3, SameTargets DEF Cancel, work
  <2>4. CASE Kill(p) \/ Fail(p)
    BY <1>1, <2>4, EndTargets
  <2>5. CASE JoinPrefetch(p) \/ FetchAllDone(p)
    BY <1>1, <2>5, JoinTargets
  <2>6. CASE MaterializeAllDone(p)
    BY <1>1, <2>6, DoneTargets
  <2>7. CASE \E q \in Package : Dispatch(p, q) \/ FetchStep(p, q) \/ MaterializeStep(p, q)
    BY <1>1, <2>7, DispatchTarget, FetchTargets, MaterializeTargets
  <2> QED
    BY <2>1, <2>2, <2>3, <2>4, <2>5, <2>6, <2>7 DEF Step
<1> QED
  BY <1>2, <1>3

\* After a finished install every package is the archive its lock records,
\* file by file, unless an interrupted run had left its tree torn
\* (materializeAll of internal/orchestrator over internal/fetcher).
THEOREM InstalledCorrect == Spec => []InstalledIsLocked
<1>1. Init => InstallInv
  BY InitInstallInv
<1>2. InstallInv /\ [Next]_vars => InstallInv'
  BY InstallStep
<1>3. InstallInv => InstalledIsLocked
  <2> SUFFICES ASSUME InstallInv, NEW p \in Process, phase[p] = "done", NEW q \in Jobs(p)
               PROVE  /\ q \in torn[p] \/ vendor[p][q] = Store!Complete(key[p][q])
                      /\ ~ wanted[p][q].vcs => key[p][q] = wanted[p][q].sha
    BY DEF InstalledIsLocked
  <2>1. q \in Package
    BY DEF InstallInv, StoreInv, WorkOK
  <2> QED
    BY <2>1 DEF InstallInv, TargetInv, ResultInv, Settled, LockedKey
<1> QED
  BY <1>1, <1>2, <1>3, PTL DEF Spec

-------------------------------------------------------------------------------
(***************************************************************************)
(* The fetch counter.                                                      *)
(***************************************************************************)
\* IncFetch was called once for every name seen, only packages of the lock were
\* seen, and a job that went well, in this phase or an earlier one, was seen.
CountedOnce(p) ==
  /\ incs[p] = Cardinality(ticked[p])
  /\ ticked[p] \subseteq Jobs(p)
  /\ \A q \in Jobs(p) : job[p][q] = "ok" \/ phase[p] \in {"extract", "done"} => q \in ticked[p]
  /\ phase[p] = "done" => \A q \in Jobs(p) : key[p][q] \in Sha

CountInv ==
  /\ InstallInv
  /\ cancelled \in [Process -> BOOLEAN]
  /\ ticked \in [Process -> SUBSET Package]
  /\ incs \in [Process -> Nat]
  /\ \A p \in Process : CountedOnce(p)

LEMMA InitCountInv == Init => CountInv
<1> SUFFICES ASSUME Init PROVE CountInv
  OBVIOUS
<1>1. InstallInv
  BY InitInstallInv
<1>2. ASSUME NEW p \in Process PROVE CountedOnce(p)
  BY FS_EmptySet DEF Init, CountedOnce, Jobs
<1> QED
  BY <1>1, <1>2 DEF CountInv, Init

\* A step at which nothing is counted and no phase ends.
LEMMA UncountedStep ==
  ASSUME CountInv, InstallInv', UNCHANGED <<phase, wanted, key, ticked, incs>>,
         cancelled' \in [Process -> BOOLEAN],
         \A p \in Process, q \in Package : job'[p][q] = "ok" => job[p][q] = "ok" \/ phase[p] = "extract"
  PROVE  CountInv'
<1>1. ASSUME NEW p \in Process PROVE CountedOnce(p)'
  <2>1. CountedOnce(p) /\ Jobs(p) \subseteq Package /\ Jobs(p)' = Jobs(p)
    BY DEF CountInv, InstallInv, StoreInv, WorkOK, Jobs
  <2> QED
    BY <2>1 DEF CountedOnce
<1> QED
  BY <1>1 DEF CountInv

\* Storing a value that is not "ok" makes no job one that went well.
LEMMA NotWell ==
  ASSUME InstallInv, NEW p \in Process, NEW q \in Package, NEW v,
         job' = [job EXCEPT ![p][q] = v], v # "ok" \/ phase[p] = "extract"
  PROVE  \A r \in Process, x \in Package : job'[r][x] = "ok" => job[r][x] = "ok" \/ phase[r] = "extract"
<1> SUFFICES ASSUME NEW r \in Process, NEW x \in Package, job'[r][x] = "ok", job[r][x] # "ok"
             PROVE  phase[r] = "extract"
  OBVIOUS
<1>1. job \in [Process -> [Package -> JobState]]
  BY DEF InstallInv, StoreInv, WorkOK
<1>2. r = p /\ x = q
  BY <1>1, OneCell DEF Agree
<1>3. job'[p][q] = v
  BY <1>1
<1> QED
  BY <1>2, <1>3

\* A step of one job that goes on, ends in materializeAll, or fails.
LEMMA OneJobCount ==
  ASSUME CountInv, InstallInv', NEW p \in Process, NEW q \in Package, NEW v,
         job' = [job EXCEPT ![p][q] = v], v # "ok" \/ phase[p] = "extract",
         UNCHANGED <<phase, wanted, key, ticked, incs>>,
         cancelled' = cancelled \/ cancelled' = [cancelled EXCEPT ![p] = @ \/ phase[p] # "prefetch"]
  PROVE  CountInv'
<1>1. cancelled' \in [Process -> BOOLEAN]
  BY DEF CountInv
<1>2. \A r \in Process, x \in Package : job'[r][x] = "ok" => job[r][x] = "ok" \/ phase[r] = "extract"
  BY NotWell DEF CountInv
<1> QED
  BY <1>1, <1>2, UncountedStep

\* A job that fetched its archive is counted, unless it was counted before.
LEMMA FetchedCount ==
  ASSUME CountInv, InstallInv', NEW p \in Process, NEW q \in Package, NEW s \in Sha,
         q \in Jobs(p), phase[p] \in {"prefetch", "fetch"}, Fetched(p, q, s),
         UNCHANGED <<phase, wanted, cancelled>>
  PROVE  CountInv'
<1>1. /\ ticked' = [ticked EXCEPT ![p] = @ \cup {q}]
      /\ incs' = [incs EXCEPT ![p] = IF q \in ticked[p] THEN @ ELSE @ + 1]
  BY DEF Fetched, Tick
<1>2. ticked' \in [Process -> SUBSET Package] /\ incs' \in [Process -> Nat]
  BY <1>1 DEF CountInv
<1>3. ASSUME NEW r \in Process PROVE CountedOnce(r)'
  <2>1. CountedOnce(r) /\ Jobs(r) \subseteq Package /\ Jobs(r)' = Jobs(r)
    BY DEF CountInv, InstallInv, StoreInv, WorkOK, Jobs
  <2>2. \A x \in Package : job'[r][x] = "ok" => job[r][x] = "ok" \/ (r = p /\ x = q)
    BY OneCell DEF Fetched, Agree, CountInv, InstallInv, StoreInv, WorkOK
  <2>3. CASE r = p
    <3>1. IsFiniteSet(ticked[p])
      BY PackageAssumption, FS_Subset DEF CountInv
    <3>2. Cardinality(ticked[p] \cup {q}) = IF q \in ticked[p] THEN Cardinality(ticked[p]) ELSE Cardinality(ticked[p]) + 1
      BY <3>1, FS_AddElement
    <3>3. ticked'[p] = ticked[p] \cup {q} /\ incs'[p] = IF q \in ticked[p] THEN incs[p] ELSE incs[p] + 1
      BY <1>1 DEF CountInv
    <3>4. incs'[p] = Cardinality(ticked'[p])
      BY <2>1, <2>3, <3>2, <3>3 DEF CountedOnce
    <3> QED
      BY <2>1, <2>2, <2>3, <3>3, <3>4 DEF CountedOnce
  <2>4. CASE r # p
    <3>1. ticked'[r] = ticked[r] /\ incs'[r] = incs[r] /\ key'[r] = key[r]
      BY <1>1, <2>4 DEF CountInv, InstallInv, StoreInv, WorkOK, Fetched
    <3> QED
      BY <2>1, <2>2, <2>4, <3>1 DEF CountedOnce
  <2> QED
    BY <2>3, <2>4
<1> QED
  BY <1>2, <1>3 DEF CountInv

\* A step that starts or ends a phase or a run replaces the row of p.
LEMMA OneRunCount ==
  ASSUME CountInv, InstallInv', NEW p \in Process,
         \A r \in Process \ {p} :
           /\ phase'[r] = phase[r] /\ wanted'[r] = wanted[r] /\ job'[r] = job[r]
           /\ key'[r] = key[r] /\ ticked'[r] = ticked[r] /\ incs'[r] = incs[r],
         cancelled' \in [Process -> BOOLEAN],
         ticked' \in [Process -> SUBSET Package],
         incs' \in [Process -> Nat],
         CountedOnce(p)'
  PROVE  CountInv'
<1>1. ASSUME NEW r \in Process \ {p} PROVE CountedOnce(r)'
  BY DEF CountInv, CountedOnce, Jobs
<1> QED
  BY <1>1 DEF CountInv

LEMMA StartCount ==
  ASSUME CountInv, InstallInv', NEW p \in Process, Start(p)
  PROVE  CountInv'
<1>1. PICK lk : wanted' = [wanted EXCEPT ![p] = lk] /\ job' = [job EXCEPT ![p] = Idle(lk)]
  BY DEF Start
<1>2. /\ ticked' = [ticked EXCEPT ![p] = {}] /\ incs' = [incs EXCEPT ![p] = 0]
      /\ cancelled' = [cancelled EXCEPT ![p] = FALSE]
      /\ key' = [key EXCEPT ![p] = [q \in Package |-> Absent]]
      /\ phase'[p] \in {"prefetch", "fetch"}
      /\ \A r \in Process \ {p} : phase'[r] = phase[r]
  BY DEF Start, CountInv, InstallInv, StoreInv, WorkOK
<1>3. CountedOnce(p)'
  <2>1. ticked'[p] = {} /\ incs'[p] = 0 /\ job'[p] = Idle(lk) /\ wanted'[p] = lk
    BY <1>1, <1>2 DEF CountInv, InstallInv, StoreInv, WorkOK
  <2>2. Jobs(p)' \subseteq Package
    BY DEF InstallInv, StoreInv, WorkOK
  <2>3. \A q \in Jobs(p)' : job'[p][q] # "ok"
    BY <2>1, <2>2 DEF Idle
  <2> QED
    BY <1>2, <2>1, <2>3, FS_EmptySet DEF CountedOnce
<1> QED
  BY <1>1, <1>2, <1>3, OneRunCount DEF CountInv, InstallInv, StoreInv, WorkOK

\* fetchAll and materializeAll begin with every name seen that was seen before.
LEMMA JoinCount ==
  ASSUME CountInv, InstallInv', NEW p \in Process, JoinPrefetch(p) \/ FetchAllDone(p)
  PROVE  CountInv'
<1>1. /\ UNCHANGED <<wanted, cancelled, ticked, incs>>
      /\ phase'[p] \in {"fetch", "extract"}
      /\ phase'[p] = "extract" => \A q \in Jobs(p) : job[p][q] = "ok"
      /\ job'[p] = Idle(wanted[p])
      /\ \A r \in Process \ {p} : phase'[r] = phase[r] /\ job'[r] = job[r] /\ key'[r] = key[r]
  BY DEF JoinPrefetch, FetchAllDone, AllFinished, SomeFailed, Finished, AllQueued, progress,
         CountInv, InstallInv, StoreInv, WorkOK
<1>2. CountedOnce(p)'
  <2>1. CountedOnce(p) /\ Jobs(p) \subseteq Package /\ Jobs(p)' = Jobs(p)
    BY <1>1 DEF CountInv, InstallInv, StoreInv, WorkOK, Jobs
  <2>2. \A q \in Jobs(p) : job'[p][q] # "ok"
    BY <1>1, <2>1 DEF Idle
  <2> QED
    BY <1>1, <2>1, <2>2 DEF CountedOnce
<1> QED
  BY <1>1, <1>2, OneRunCount DEF CountInv

\* A run that ends keeps its count, and its lock the packages it had.
LEMMA EndCount ==
  ASSUME CountInv, InstallInv', NEW p \in Process, MaterializeAllDone(p) \/ Fail(p) \/ Kill(p)
  PROVE  CountInv'
<1>1. /\ UNCHANGED <<key, cancelled, ticked, incs>>
      /\ phase'[p] \in {"done", "failed", "killed"}
      /\ phase'[p] = "done" => phase[p] = "extract"
      /\ Jobs(p)' = Jobs(p)
      /\ \A q \in Package : job'[p][q] = "none"
      /\ \A r \in Process \ {p} : phase'[r] = phase[r] /\ wanted'[r] = wanted[r] /\ job'[r] = job[r]
  <2>1. CASE MaterializeAllDone(p)
    <3>1. Jobs(p)' = Jobs(p)
      BY <2>1 DEF MaterializeAllDone, Backfilled, Jobs, CountInv, InstallInv, StoreInv, WorkOK
    <3> QED
      BY <2>1, <3>1 DEF MaterializeAllDone, Dropped, progress, CountInv, InstallInv, StoreInv, WorkOK
  <2>2. CASE Fail(p) \/ Kill(p)
    BY <2>2 DEF Fail, Kill, Dropped, Jobs, progress, CountInv, InstallInv, StoreInv, WorkOK
  <2> QED
    BY <2>1, <2>2
<1>2. CountedOnce(p)'
  <2>1. CountedOnce(p) /\ Jobs(p) \subseteq Package
    BY DEF CountInv, InstallInv, StoreInv, WorkOK
  <2>2. phase[p] = "extract" => \A q \in Jobs(p) : key[p][q] \in Sha
    BY <2>1 DEF CountInv, InstallInv, StoreInv, KeyInv, Keyed
  <2> QED
    BY <1>1, <2>1, <2>2 DEF CountedOnce
<1> QED
  BY <1>1, <1>2, OneRunCount DEF CountInv

LEMMA FetchCounts ==
  ASSUME CountInv, InstallInv', NEW p \in Process, NEW q \in Package, FetchStep(p, q)
  PROVE  CountInv'
<1>0. /\ job[p][q] # "none" => q \in Jobs(p) /\ wanted[p][q] \in Dist
      /\ job[p][q] = "got" => phase[p] \in {"prefetch", "fetch"} /\ bytes[p][q] \in Sha
  BY DEF CountInv, InstallInv, TargetInv, PhaseInv, StoreInv, WorkOK, KeyInv
<1>1. CASE FetchHit(p, q)
  <2>1. q \in Jobs(p) /\ wanted[p][q].sha \in Sha /\ phase[p] \in {"prefetch", "fetch"}
    BY <1>0, <1>1 DEF FetchHit, Fetching, Dist
  <2>2. Fetched(p, q, wanted[p][q].sha) /\ UNCHANGED <<phase, wanted, cancelled>>
    BY <1>1 DEF FetchHit
  <2> QED
    BY <2>1, <2>2, FetchedCount
<1>2. CASE Download(p, q)
  <2>1. /\ job' = [job EXCEPT ![p][q] = "got"]
        /\ UNCHANGED <<phase, wanted, key, ticked, incs, cancelled>>
    BY <1>2 DEF Download, progress
  <2> QED
    BY <2>1, OneJobCount
<1>3. CASE DownloadFails(p, q) \/ RejectZip(p, q)
  <2>1. /\ job' = [job EXCEPT ![p][q] = "failed"]
        /\ cancelled' = [cancelled EXCEPT ![p] = @ \/ phase[p] # "prefetch"]
        /\ UNCHANGED <<phase, wanted, key, ticked, incs>>
    BY <1>3 DEF DownloadFails, RejectZip, JobFails, progress
  <2> QED
    BY <2>1, OneJobCount
<1>4. CASE PublishZip(p, q)
  <2> DEFINE s == StoredAs(wanted[p][q], bytes[p][q])
  <2>1. q \in Jobs(p) /\ s \in Sha /\ phase[p] \in {"prefetch", "fetch"}
    BY <1>0, <1>4 DEF PublishZip, StoredAs, Dist
  <2>2. Fetched(p, q, s) /\ UNCHANGED <<phase, wanted, cancelled>>
    BY <1>4 DEF PublishZip
  <2> HIDE DEF s
  <2> QED
    BY <2>1, <2>2, FetchedCount
<1> QED
  BY <1>1, <1>2, <1>3, <1>4 DEF FetchStep

LEMMA MaterializeCounts ==
  ASSUME CountInv, InstallInv', NEW p \in Process, NEW q \in Package, MaterializeStep(p, q)
  PROVE  CountInv'
<1>1. job[p][q] \in Writing => phase[p] = "extract"
  BY DEF CountInv, InstallInv, TargetInv, PhaseInv
<1>2. CASE SkipWarm(p, q)
  BY <1>2, OneJobCount DEF SkipWarm, Materializing, progress
<1>3. CASE ChooseStrategy(p, q)
  BY <1>3, OneJobCount DEF ChooseStrategy, Materializing, progress
<1>4. CASE Expand(p, q)
  <2>1. PICK e \in ToExtract(temp[p][q], key[p][q]) :
          job' = [job EXCEPT ![p][q] = IF e = Store!Marker THEN "publish" ELSE @]
    BY <1>4 DEF Expand
  <2>2. phase[p] = "extract" /\ UNCHANGED <<phase, wanted, key, ticked, incs, cancelled>>
    BY <1>1, <1>4 DEF Expand, Writing, progress
  <2> QED
    BY <2>1, <2>2, OneJobCount
<1>5. CASE PublishTree(p, q)
  BY <1>1, <1>5, OneJobCount DEF PublishTree, Writing, progress
<1>6. CASE Clear(p, q)
  <2>1. phase[p] = "extract"
    BY <1>1, <1>6 DEF Clear, Writing
  <2>2. CASE job' = job
    BY <1>6, <2>2, UncountedStep DEF Clear, progress, CountInv
  <2>3. CASE job' # job
    BY <1>6, <2>1, <2>3, OneJobCount DEF Clear, progress
  <2> QED
    BY <2>2, <2>3
<1>7. CASE Unzip(p, q)
  <2>1. PICK e \in ToExtract(vendor[p][q], key[p][q]) :
          job' = [job EXCEPT ![p][q] = IF e = Store!Marker THEN "ok" ELSE @]
    BY <1>7 DEF Unzip
  <2>2. phase[p] = "extract" /\ UNCHANGED <<phase, wanted, key, ticked, incs, cancelled>>
    BY <1>1, <1>7 DEF Unzip, Writing, progress
  <2> QED
    BY <2>1, <2>2, OneJobCount
<1>8. CASE Clone(p, q)
  BY <1>1, <1>8, OneJobCount DEF Clone, Writing, progress
<1>9. CASE WriteFails(p, q)
  BY <1>9, OneJobCount DEF WriteFails, JobFails, progress
<1> QED
  BY <1>2, <1>3, <1>4, <1>5, <1>6, <1>7, <1>8, <1>9 DEF MaterializeStep

LEMMA CountStep == CountInv /\ [Next]_vars => CountInv'
<1> SUFFICES ASSUME CountInv, [Next]_vars
             PROVE  CountInv'
  OBVIOUS
<1>1. InstallInv'
  BY InstallStep DEF CountInv
<1>2. CASE UNCHANGED vars
  BY <1>1, <1>2, UncountedStep DEF vars, work, progress, CountInv
<1>3. CASE Next
  <2>1. PICK p \in Process : Start(p) \/ Step(p) \/ Cancel(p) \/ Kill(p)
    BY <1>3 DEF Next
  <2>2. CASE Start(p)
    BY <1>1, <2>2, StartCount
  <2>3. CASE Cancel(p)
    BY <1>1, <2>3, UncountedStep DEF Cancel, work, progress, CountInv
  <2>4. CASE JoinPrefetch(p) \/ FetchAllDone(p)
    BY <1>1, <2>4, JoinCount
  <2>5. CASE MaterializeAllDone(p) \/ Fail(p) \/ Kill(p)
    BY <1>1, <2>5, EndCount
  <2>6. ASSUME NEW q \in Package, Dispatch(p, q) PROVE CountInv'
    BY <1>1, <2>6, OneJobCount DEF Dispatch, progress
  <2>7. ASSUME NEW q \in Package, FetchStep(p, q) \/ MaterializeStep(p, q) PROVE CountInv'
    BY <1>1, <2>7, FetchCounts, MaterializeCounts
  <2> QED
    BY <2>1, <2>2, <2>3, <2>4, <2>5, <2>6, <2>7 DEF Step
<1> QED
  BY <1>2, <1>3

\* The variables of Artifacts have their types; a run that has its archives knows
\* the store key of each (fetchAll of internal/orchestrator).
THEOREM ArtifactsTypeCorrect == Spec => []TypeOK
<1>1. Init => CountInv
  BY InitCountInv
<1>2. CountInv /\ [Next]_vars => CountInv'
  BY CountStep
<1>3. CountInv => TypeOK
  <2> SUFFICES ASSUME CountInv PROVE TypeOK
    OBVIOUS
  <2>1. ASSUME NEW p \in Process, phase[p] \in {"extract", "done"}, NEW q \in DOMAIN wanted[p]
        PROVE  key[p][q] \in Sha
    BY <2>1 DEF CountInv, CountedOnce, InstallInv, StoreInv, WorkOK, KeyInv, Keyed, Jobs
  <2>2. job \in [Process -> [Package -> {"none", "queued"} \cup Busy \cup Finished]]
    BY DEF CountInv, InstallInv, StoreInv, WorkOK, JobState
  <2>3. \A p \in Process, q \in Package : vendor[p][q] \in Store!Tree /\ temp[p][q] \in Store!Tree
    BY DEF CountInv, InstallInv, StoreInv, WorkOK
  <2>4. torn \in [Process -> SUBSET Package]
    BY DEF CountInv, InstallInv
  <2> QED
    BY <2>1, <2>2, <2>3, <2>4 DEF TypeOK, CountInv, InstallInv, StoreInv, WorkOK, Jobs
<1> QED
  BY <1>1, <1>2, <1>3, PTL DEF Spec

\* However the prefetch and fetchAll share the work, the fetch counter never
\* passes the announced total and ends at it: fetchTicker.tick counts a name once.
THEOREM CountsEachOnce == Spec => []FetchCountIsExact
<1>1. Init => CountInv
  BY InitCountInv
<1>2. CountInv /\ [Next]_vars => CountInv'
  BY CountStep
<1>3. CountInv => FetchCountIsExact
  <2> SUFFICES ASSUME CountInv, NEW p \in Process
               PROVE  /\ incs[p] <= Cardinality(Jobs(p))
                      /\ phase[p] \in {"extract", "done"} => incs[p] = Cardinality(Jobs(p))
    BY DEF FetchCountIsExact
  <2>1. CountedOnce(p) /\ IsFiniteSet(Jobs(p))
    BY PackageAssumption, FS_Subset DEF CountInv, InstallInv, StoreInv, WorkOK
  <2>2. Cardinality(ticked[p]) <= Cardinality(Jobs(p))
    BY <2>1, FS_Subset DEF CountedOnce
  <2>3. phase[p] \in {"extract", "done"} => ticked[p] = Jobs(p)
    BY <2>1 DEF CountedOnce
  <2> QED
    BY <2>1, <2>2, <2>3 DEF CountedOnce
<1> QED
  BY <1>1, <1>2, <1>3, PTL DEF Spec

-------------------------------------------------------------------------------
(***************************************************************************)
(* No run is ever stuck.                                                   *)
(***************************************************************************)
\* extractZip always has an entry to write, the marker at last.
LEMMA ExtractLeft ==
  ASSUME NEW t, NEW s
  PROVE  ToExtract(t, s) # {}
  BY DEF ToExtract

\* cloneTree has an entry to copy as long as the target is not whole.
LEMMA CloneLeft ==
  ASSUME NEW s \in Sha, NEW t, SubTree(t, s), t # Store!Complete(s),
         t = [e \in DOMAIN t |-> t[e]]
  PROVE  ToClone(t, Store!Complete(s)) # {}
<1> DEFINE src == Store!Complete(s)
           left == DOMAIN src \ DOMAIN t
<1>1. DOMAIN src = Contents[s] \cup {Store!Marker} /\ \A e \in DOMAIN src : src[e] = s
  BY DEF Store!Complete
<1>2. DOMAIN src \subseteq Int /\ IsFiniteSet(DOMAIN src)
  <2>1. Contents[s] \subseteq Int /\ IsFiniteSet(Contents[s]) /\ Store!Marker \in Int
    BY PathAssumption, ContentsAssumption DEF Store!Marker
  <2> QED
    BY <1>1, <2>1, FS_AddElement
<1>3. left # {}
  <2> SUFFICES ASSUME left = {} PROVE t = src
    OBVIOUS
  <2>1. DOMAIN t = DOMAIN src
    BY DEF SubTree
  <2>2. \A e \in DOMAIN src : t[e] = src[e]
    BY <1>1, <2>1 DEF SubTree
  <2>3. src = [e \in DOMAIN src |-> src[e]]
    BY DEF Store!Complete
  <2> HIDE DEF src
  <2> QED
    BY <2>1, <2>2, <2>3
<1>4. left \subseteq Int /\ IsFiniteSet(left)
  BY <1>2, FS_Subset
<1> HIDE DEF src, left
<1>5. PICK x \in left : \A y \in left : x <= y
  BY <1>3, <1>4, LeastIntegerExists
<1> QED
  BY <1>5 DEF ToClone, left, src

\* A tree is a function on its entries.
LEMMA TreeIsFunction ==
  ASSUME NEW t \in Store!Tree
  PROVE  t = [e \in DOMAIN t |-> t[e]]
  BY DEF Store!Tree

\* Every worker can go on.
LEMMA WorkerGoesOn ==
  ASSUME InstallInv, NEW p \in Process, NEW q \in Package, phase[p] \in Running, job[p][q] \in Busy
  PROVE  CanGoOn(p, q)
<1>1. CASE job[p][q] = "start"
  BY <1>1 DEF CanGoOn, Fetching, Materializing, Running
<1>2. CASE job[p][q] \in {"got", "clearUnzip", "clearClone"}
  BY <1>2 DEF CanGoOn
<1>3. CASE job[p][q] \in {"expand", "unzip"}
  BY <1>3, ExtractLeft DEF CanGoOn
<1>4. CASE job[p][q] = "publish"
  <2>1. key[p][q] \in Sha
    BY <1>4 DEF InstallInv, StoreInv, KeyInv, Keyed, Writing
  <2>2. expanded[key[p][q]] = Store!EmptyTree \/ expanded[key[p][q]] = Store!Complete(key[p][q])
    BY <2>1 DEF InstallInv, StoreInv, StoreWhole
  <2>3. Store!Marked(Store!Complete(key[p][q]), key[p][q])
    BY DEF Store!Marked, Store!Complete
  <2> QED
    BY <1>4, <2>2, <2>3 DEF CanGoOn, HasExpanded
<1>5. CASE job[p][q] = "clone"
  <2>1. key[p][q] \in Sha
    BY <1>5 DEF InstallInv, StoreInv, KeyInv, Keyed, Writing
  <2>2. /\ expanded[key[p][q]] = Store!Complete(key[p][q])
        /\ SubTree(vendor[p][q], key[p][q])
        /\ vendor[p][q] # Store!Complete(key[p][q])
        /\ vendor[p][q] \in Store!Tree
    BY <1>5 DEF InstallInv, TargetInv, SourceInv
  <2>3. ToClone(vendor[p][q], Store!Complete(key[p][q])) # {}
    BY <2>1, <2>2, TreeIsFunction, CloneLeft
  <2> QED
    BY <1>5, <2>2, <2>3 DEF CanGoOn
<1> QED
  BY <1>1, <1>2, <1>3, <1>4, <1>5 DEF Busy, Writing

\* Without a worker, the first job in the queue gets a slot.
LEMMA QueueMoves ==
  ASSUME InstallInv, NEW p \in Process, \A q \in Package : job[p][q] \notin Busy, ~ AllFinished(p),
         phase[p] \in Running, \A q \in Jobs(p) : job[p][q] # "none"
  PROVE  \E q \in Package : NextInLine(p, q)
<1> DEFINE waiting == {q \in Jobs(p) : job[p][q] = "queued"}
<1>1. Jobs(p) \subseteq Package /\ \A q \in Package : job[p][q] \in JobState
  BY DEF InstallInv, StoreInv, WorkOK
<1>2. waiting # {}
  BY <1>1 DEF AllFinished, JobState
<1>3. waiting \subseteq Nat
  BY <1>1, PackageAssumption
<1> HIDE DEF waiting
<1>4. PICK first \in waiting : \A r \in waiting : first <= r
  BY <1>2, <1>3, LeastExists
<1>5. FreeSlot(p)
  <2>1. {q \in Package : job[p][q] \in Busy} = {}
    OBVIOUS
  <2>2. Cardinality({q \in Package : job[p][q] \in Busy}) = 0
    BY <2>1, FS_EmptySet
  <2> QED
    BY <2>2, WorkersAssumption DEF FreeSlot
<1>6. \A r \in Jobs(p) : r < first => job[p][r] # "queued"
  <2> SUFFICES ASSUME NEW r \in Jobs(p), r < first, job[p][r] = "queued" PROVE FALSE
    OBVIOUS
  <2>1. r \in waiting
    BY DEF waiting
  <2>2. r \in Nat /\ first \in Nat /\ first <= r
    BY <2>1, <1>3, <1>4
  <2> QED
    BY <2>2
<1> QED
  BY <1>1, <1>4, <1>5, <1>6 DEF NextInLine, waiting

\* A run is never stuck: until it ends, each of its workers can go on, and with
\* none at work its jobs have finished or the next in line starts (the errgroups
\* of fetchAll, materializeAll and the Prefetcher).
THEOREM RunsGoOn == Spec => []NeverStuck
<1>1. Init => InstallInv
  BY InitInstallInv
<1>2. InstallInv /\ [Next]_vars => InstallInv'
  BY InstallStep
<1>3. InstallInv => NeverStuck
  <2> SUFFICES ASSUME InstallInv, NEW p \in Process, phase[p] \in Running
               PROVE  /\ \A q \in Package : job[p][q] \in Busy => CanGoOn(p, q)
                      /\ AllFinished(p) \/ \E q \in Package : job[p][q] \in Busy \/ NextInLine(p, q)
    BY DEF NeverStuck
  <2>1. \A q \in Package : job[p][q] \in Busy => CanGoOn(p, q)
    BY WorkerGoesOn
  <2>2. \A q \in Jobs(p) : job[p][q] # "none"
    BY DEF InstallInv, StoreInv, WorkOK, TargetInv, PhaseInv
  <2> QED
    BY <2>1, <2>2, QueueMoves
<1> QED
  BY <1>1, <1>2, <1>3, PTL DEF Spec
===============================================================================
