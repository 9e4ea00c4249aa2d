--------------------------- MODULE Artifacts_proofs ---------------------------
(***************************************************************************)
(* The shared store of Artifacts implements ContentStore, for any number   *)
(* of processes, packages, archives and runs.                              *)
(***************************************************************************)
EXTENDS Artifacts, TLAPS

JobState == {"none", "queued"} \cup Busy \cup Finished

WorkOK ==
  /\ zips \in [Sha -> Sha \cup {Absent}]
  /\ expanded \in [Sha -> Store!Tree]
  /\ phase \in [Process -> Running \cup {"idle", "done", "failed", "killed"}]
  /\ wanted = [p \in Process |-> wanted[p]]
  /\ \A p \in Process : Jobs(p) \subseteq Package /\ \A q \in Jobs(p) : wanted[p][q] \in Dist
  /\ job \in [Process -> [Package -> JobState]]
  /\ bytes \in [Process -> [Package -> Sha \cup {Absent}]]
  /\ key \in [Process -> [Package -> Sha \cup {Absent}]]
  /\ temp \in [Process -> [Package -> Store!Tree]]

\* The archive of q is in the store, under the key its job has.
Keyed(p, q) == key[p][q] \in Sha /\ zips[key[p][q]] = key[p][q]

KeyInv(p, q) ==
  /\ job[p][q] # "none" => q \in Jobs(p) /\ phase[p] \in Running
  /\ job[p][q] = "got" => bytes[p][q] \in Sha
  /\ job[p][q] \in Writing \cup {"ok"} => Keyed(p, q)
  /\ phase[p] = "extract" /\ q \in Jobs(p) => Keyed(p, q)

\* A part of the tree of archive s, without the marker.
Part(t, s) == DOMAIN t \subseteq Contents[s] /\ \A e \in DOMAIN t : t[e] = s

\* A tree is moved into the store only when it is complete.
TempInv(p, q) ==
  /\ job[p][q] = "expand" => Part(temp[p][q], key[p][q])
  /\ job[p][q] = "publish" => temp[p][q] = Store!Complete(key[p][q])
  /\ job[p][q] \notin {"expand", "publish"} => temp[p][q] = Store!EmptyTree

StoreWhole ==
  \A s \in Sha : zips[s] \in {s, Absent} /\ expanded[s] \in {Store!EmptyTree, Store!Complete(s)}

StoreInv ==
  /\ WorkOK
  /\ StoreWhole
  /\ \A p \in Process, q \in Package : KeyInv(p, q) /\ TempInv(p, q)

-------------------------------------------------------------------------------
(***************************************************************************)
(* Trees.                                                                  *)
(***************************************************************************)
LEMMA EmptyInTree == Store!EmptyTree \in Store!Tree
  BY DEF Store!EmptyTree, Store!Tree

\* The tree of an archive is a tree.
LEMMA CompleteInTree ==
  ASSUME NEW s \in Sha
  PROVE  Store!Complete(s) \in Store!Tree
<1>1. Contents[s] \cup {Store!Marker} \in SUBSET (Path \cup {Store!Marker})
  BY ContentsAssumption
<1>2. Store!Complete(s) \in [Contents[s] \cup {Store!Marker} -> Sha]
  BY DEF Store!Complete
<1> QED
  BY <1>1, <1>2 DEF Store!Tree

\* Writing one entry yields a tree.
LEMMA WithInTree ==
  ASSUME NEW t \in Store!Tree, NEW e \in Path \cup {Store!Marker}, NEW s \in Sha
  PROVE  With(t, e, s) \in Store!Tree
<1>1. PICK D \in SUBSET (Path \cup {Store!Marker}) : t \in [D -> Sha]
  BY DEF Store!Tree
<1>2. With(t, e, s) \in [D \cup {e} -> Sha]
  BY <1>1 DEF With
<1> QED
  BY <1>1, <1>2 DEF Store!Tree

\* One more entry of the archive keeps a part a part; the marker, written last,
\* completes it.
LEMMA ExtractGrows ==
  ASSUME NEW t \in Store!Tree, NEW s \in Sha, Part(t, s), NEW e \in ToExtract(t, s)
  PROVE  /\ e \in Path \cup {Store!Marker}
         /\ e = Store!Marker => With(t, e, s) = Store!Complete(s)
         /\ e # Store!Marker => Part(With(t, e, s), s)
<1>1. Contents[s] \subseteq Path /\ Store!Marker \notin Path
  BY PathAssumption, ContentsAssumption
<1>2. CASE Contents[s] \subseteq DOMAIN t
  <2>1. e = Store!Marker /\ DOMAIN t = Contents[s]
    BY <1>2 DEF ToExtract, Part
  <2>2. With(t, e, s) = Store!Complete(s)
    BY <2>1 DEF With, Store!Complete, Part
  <2> QED
    BY <2>1, <2>2
<1>3. CASE ~ (Contents[s] \subseteq DOMAIN t)
  <2>1. e \in Contents[s] /\ e # Store!Marker
    BY <1>1, <1>3 DEF ToExtract
  <2>2. Part(With(t, e, s), s)
    BY <2>1 DEF With, Part
  <2> QED
    BY <1>1, <2>1, <2>2
<1> QED
  BY <1>2, <1>3

-------------------------------------------------------------------------------
(***************************************************************************)
(* The invariant.                                                          *)
(***************************************************************************)
LEMMA InitStoreInv == Init => StoreInv
<1> SUFFICES ASSUME Init PROVE StoreInv
  OBVIOUS
<1>1. WorkOK
  BY EmptyInTree, AbsentAssumption
     DEF Init, Store!Init, WorkOK, Jobs, JobState, Running, Busy, Writing, Finished
<1>2. StoreWhole
  BY DEF Init, Store!Init, StoreWhole
<1>3. ASSUME NEW p \in Process, NEW q \in Package PROVE KeyInv(p, q) /\ TempInv(p, q)
  BY DEF Init, KeyInv, TempInv, Jobs, Writing
<1> QED
  BY <1>1, <1>2, <1>3 DEF StoreInv

\* Two tables agree but for one place.
Agree(f, g, p, q) ==
  \A r \in Process, x \in Package : r # p \/ x # q => g[r][x] = f[r][x]

\* Replacing one place of a table leaves every other as it was.
LEMMA OneCell ==
  ASSUME NEW V, NEW f \in [Process -> [Package -> V]], NEW v,
         NEW p \in Process, NEW q \in Package
  PROVE  Agree(f, [f EXCEPT ![p][q] = v], p, q)
<1> SUFFICES ASSUME NEW r \in Process, NEW x \in Package, r # p \/ x # q
             PROVE  [f EXCEPT ![p][q] = v][r][x] = f[r][x]
  BY DEF Agree
<1>1. CASE r # p
  BY <1>1
<1>2. CASE r = p
  <2>1. [f EXCEPT ![p][q] = v][r] = [f[p] EXCEPT ![q] = v] /\ f[p] \in [Package -> V]
    BY <1>2
  <2> QED
    BY <1>2, <2>1
<1> QED
  BY <1>1, <1>2

\* A table agrees with itself.
LEMMA SameTable ==
  ASSUME NEW f, NEW p \in Process, NEW q \in Package
  PROVE  Agree(f, f, p, q)
  BY DEF Agree

\* A step of one job leaves the jobs of all others alone, and loses no archive.
LEMMA OneJob ==
  ASSUME StoreInv, NEW p \in Process, NEW q \in Package,
         WorkOK', StoreWhole', phase' = phase, wanted' = wanted,
         Agree(job, job', p, q), Agree(bytes, bytes', p, q),
         Agree(key, key', p, q), Agree(temp, temp', p, q),
         \A s \in Sha : zips[s] = s => zips'[s] = s,
         KeyInv(p, q)', TempInv(p, q)'
  PROVE  StoreInv'
<1> SUFFICES ASSUME NEW r \in Process, NEW x \in Package, r # p \/ x # q
             PROVE  KeyInv(r, x)' /\ TempInv(r, x)'
  BY DEF StoreInv
<1>0. /\ job'[r][x] = job[r][x] /\ bytes'[r][x] = bytes[r][x]
      /\ key'[r][x] = key[r][x] /\ temp'[r][x] = temp[r][x]
  BY DEF Agree
<1>1. KeyInv(r, x) /\ TempInv(r, x)
  BY DEF StoreInv
<1>2. KeyInv(r, x)'
  BY <1>0, <1>1 DEF KeyInv, Keyed, Jobs
<1>3. TempInv(r, x)'
  BY <1>0, <1>1 DEF TempInv, Part
<1> QED
  BY <1>2, <1>3

-------------------------------------------------------------------------------
(***************************************************************************)
(* Steps of a whole process.                                               *)
(***************************************************************************)
\* A step that starts or ends a phase or a run replaces the row of p.
LEMMA OneProcess ==
  ASSUME StoreInv, NEW p \in Process,
         WorkOK', UNCHANGED store,
         \A r \in Process \ {p} :
           /\ phase'[r] = phase[r] /\ wanted'[r] = wanted[r]
           /\ job'[r] = job[r] /\ bytes'[r] = bytes[r]
           /\ key'[r] = key[r] /\ temp'[r] = temp[r],
         \A q \in Package : KeyInv(p, q)' /\ TempInv(p, q)'
  PROVE  StoreInv'
<1>1. StoreWhole'
  BY DEF StoreInv, StoreWhole, store
<1> SUFFICES ASSUME NEW r \in Process \ {p}, NEW x \in Package
             PROVE  KeyInv(r, x)' /\ TempInv(r, x)'
  BY <1>1 DEF StoreInv
<1>2. KeyInv(r, x) /\ TempInv(r, x)
  BY DEF StoreInv
<1>3. KeyInv(r, x)'
  BY <1>2 DEF KeyInv, Keyed, Jobs, store
<1>4. TempInv(r, x)'
  BY <1>2 DEF TempInv, Part
<1> QED
  BY <1>3, <1>4

\* Starting a run (runFullPipeline) keeps the invariant.
LEMMA StartStep ==
  ASSUME StoreInv, NEW p \in Process, Start(p)
  PROVE  StoreInv' /\ UNCHANGED store
<1>1. PICK lk \in Locks \cup {wanted[p]} : wanted' = [wanted EXCEPT ![p] = lk] /\ job' = [job EXCEPT ![p] = Idle(lk)]
  BY DEF Start
<1>2. DOMAIN lk \subseteq Package /\ \A q \in DOMAIN lk : lk[q] \in Dist
  BY LocksAssumption DEF StoreInv, WorkOK, Jobs
<1>3. Idle(lk) \in [Package -> {"queued", "none"}]
  BY DEF Idle
<1>4. phase[p] \notin Running
  BY DEF Start
<1>5. WorkOK'
  <2>1. phase' \in [Process -> Running \cup {"idle", "done", "failed", "killed"}]
    BY DEF Start, StoreInv, WorkOK, Running
  <2>2. job' \in [Process -> [Package -> JobState]]
    BY <1>1, <1>3 DEF StoreInv, WorkOK, JobState
  <2>3. key' \in [Process -> [Package -> Sha \cup {Absent}]]
    BY DEF Start, StoreInv, WorkOK
  <2>4. wanted' = [r \in Process |-> wanted'[r]]
    BY <1>1 DEF StoreInv, WorkOK
  <2>5. ASSUME NEW r \in Process PROVE Jobs(r)' \subseteq Package /\ \A q \in Jobs(r)' : wanted'[r][q] \in Dist
    BY <1>1, <1>2 DEF StoreInv, WorkOK, Jobs
  <2> QED
    BY <2>1, <2>2, <2>3, <2>4, <2>5 DEF Start, StoreInv, WorkOK, store
<1>6. ASSUME NEW q \in Package PROVE KeyInv(p, q)' /\ TempInv(p, q)'
  <2>1. job[p][q] = "none" /\ temp[p][q] = Store!EmptyTree
    BY <1>4 DEF StoreInv, KeyInv, TempInv
  <2>2. job'[p][q] = Idle(lk)[q] /\ wanted'[p] = lk /\ phase'[p] \in {"prefetch", "fetch"}
    BY <1>1 DEF Start, StoreInv, WorkOK
  <2>3. job'[p][q] \in {"queued", "none"} /\ (job'[p][q] = "queued" => q \in DOMAIN lk)
    BY <2>2 DEF Idle
  <2>4. temp'[p][q] = Store!EmptyTree
    BY <2>1 DEF Start
  <2> QED
    BY <2>2, <2>3, <2>4 DEF KeyInv, TempInv, Jobs, Writing, Running
<1> QED
  BY <1>1, <1>5, <1>6, OneProcess DEF Start, StoreInv, WorkOK

\* The next phase begins when every job of the last one has ended.
LEMMA QueuedStep ==
  ASSUME StoreInv, NEW p \in Process, phase[p] \in Running, AllFinished(p), AllQueued(p),
         NEW ph \in Running, phase' = [phase EXCEPT ![p] = ph],
         ph = "extract" => \A q \in Jobs(p) : job[p][q] = "ok",
         key' = key \/ (ph # "extract" /\ key' = [key EXCEPT ![p] = [q \in Package |-> Absent]]),
         UNCHANGED <<store, wanted, bytes, temp>>
  PROVE  StoreInv'
<1>1. Idle(wanted[p]) \in [Package -> {"queued", "none"}]
  BY DEF Idle
<1>2. WorkOK'
  <2>1. phase' \in [Process -> Running \cup {"idle", "done", "failed", "killed"}]
    BY DEF StoreInv, WorkOK
  <2>2. job' \in [Process -> [Package -> JobState]]
    BY <1>1 DEF AllQueued, StoreInv, WorkOK, JobState
  <2>3. key' \in [Process -> [Package -> Sha \cup {Absent}]]
    <3>1. [q \in Package |-> Absent] \in [Package -> Sha \cup {Absent}]
      OBVIOUS
    <3>2. key \in [Process -> [Package -> Sha \cup {Absent}]]
      BY DEF StoreInv, WorkOK
    <3> QED
      BY <3>1, <3>2
  <2>4. wanted' = [r \in Process |-> wanted'[r]]
    BY DEF StoreInv, WorkOK
  <2>5. ASSUME NEW r \in Process PROVE Jobs(r)' \subseteq Package /\ \A q \in Jobs(r)' : wanted'[r][q] \in Dist
    BY DEF StoreInv, WorkOK, Jobs
  <2> QED
    BY <2>1, <2>2, <2>3, <2>4, <2>5 DEF StoreInv, WorkOK, store
<1>3. ASSUME NEW q \in Package PROVE KeyInv(p, q)' /\ TempInv(p, q)'
  <2>1. job'[p][q] = Idle(wanted[p])[q] /\ phase'[p] = ph
    BY DEF AllQueued, StoreInv, WorkOK
  <2>2. job'[p][q] \in {"queued", "none"} /\ (job'[p][q] = "queued" => q \in Jobs(p)')
    BY <2>1 DEF Idle, Jobs
  <2>3. job[p][q] \in Finished \cup {"none"}
    BY DEF StoreInv, KeyInv, AllFinished, Jobs, WorkOK, JobState
  <2>4. temp'[p][q] = Store!EmptyTree
    BY <2>3 DEF StoreInv, TempInv, Finished
  <2>5. ph = "extract" /\ q \in Jobs(p)' => Keyed(p, q)'
    BY DEF StoreInv, KeyInv, Keyed, Jobs, store, Finished
  <2> QED
    BY <2>1, <2>2, <2>4, <2>5 DEF KeyInv, TempInv, Writing
<1> QED
  BY <1>2, <1>3, OneProcess DEF AllQueued, StoreInv, WorkOK

\* A run that ends leaves no job behind.
LEMMA DroppedStep ==
  ASSUME StoreInv, NEW p \in Process, Dropped(p),
         NEW ph \in {"done", "failed", "killed"}, phase' = [phase EXCEPT ![p] = ph],
         wanted' = wanted \/ (phase[p] = "extract" /\ wanted' = [wanted EXCEPT ![p] = Backfilled(p)]),
         UNCHANGED <<store, key>>
  PROVE  StoreInv'
<1>1. WorkOK'
  <2>1. phase' \in [Process -> Running \cup {"idle", "done", "failed", "killed"}]
    BY DEF StoreInv, WorkOK
  <2>2. job' \in [Process -> [Package -> JobState]]
    BY DEF Dropped, StoreInv, WorkOK, JobState
  <2>3. bytes' \in [Process -> [Package -> Sha \cup {Absent}]]
    BY DEF Dropped, StoreInv, WorkOK
  <2>4. temp' \in [Process -> [Package -> Store!Tree]]
    BY EmptyInTree DEF Dropped, StoreInv, WorkOK
  <2>5. wanted' = [r \in Process |-> wanted'[r]]
    BY DEF StoreInv, WorkOK
  <2>6. ASSUME NEW r \in Process PROVE Jobs(r)' \subseteq Package /\ \A q \in Jobs(r)' : wanted'[r][q] \in Dist
    <3>1. CASE wanted'[r] = wanted[r]
      BY <3>1 DEF StoreInv, WorkOK, Jobs
    <3>2. CASE r = p /\ phase[p] = "extract" /\ wanted'[p] = Backfilled(p)
      <4>1. \A q \in Jobs(p) : wanted[p][q] \in Dist /\ key[p][q] \in Sha /\ Jobs(p) \subseteq Package
        BY <3>2 DEF StoreInv, WorkOK, KeyInv, Keyed
      <4>2. DOMAIN Backfilled(p) = Jobs(p)
        BY DEF Backfilled
      <4>3. ASSUME NEW q \in Jobs(p) PROVE Backfilled(p)[q] \in Dist
        <5>1. wanted[p][q] \in Dist /\ key[p][q] \in Sha
          BY <4>1
        <5>2. [wanted[p][q] EXCEPT !.sha = key[p][q], !.known = TRUE] \in Dist
          BY <5>1 DEF Dist
        <5> QED
          BY <5>1, <5>2 DEF Backfilled
      <4> QED
        BY <3>2, <4>1, <4>2, <4>3 DEF Jobs
    <3> QED
      BY <3>1, <3>2 DEF StoreInv, WorkOK
  <2> QED
    BY <2>1, <2>2, <2>3, <2>4, <2>5, <2>6 DEF StoreInv, WorkOK, store
<1>2. ASSUME NEW q \in Package PROVE KeyInv(p, q)' /\ TempInv(p, q)'
  BY DEF Dropped, StoreInv, WorkOK, KeyInv, TempInv, Writing
<1> QED
  BY <1>1, <1>2, OneProcess DEF Dropped, StoreInv, WorkOK

\* Joining a phase, ending a run, Ctrl-C and a kill keep the invariant.
LEMMA ProcessStep ==
  ASSUME StoreInv, NEW p \in Process,
         JoinPrefetch(p) \/ FetchAllDone(p) \/ MaterializeAllDone(p) \/ Fail(p) \/ Cancel(p) \/ Kill(p)
  PROVE  StoreInv' /\ UNCHANGED store
<1>1. CASE JoinPrefetch(p)
  BY <1>1, QueuedStep DEF JoinPrefetch, Running
<1>2. CASE FetchAllDone(p)
  <2>1. \A q \in Jobs(p) : job[p][q] = "ok"
    BY <1>2 DEF FetchAllDone, AllFinished, SomeFailed, Finished
  <2> QED
    BY <1>2, <2>1, QueuedStep DEF FetchAllDone, Running
<1>3. CASE MaterializeAllDone(p)
  BY <1>3, DroppedStep DEF MaterializeAllDone
<1>4. CASE Fail(p)
  BY <1>4, DroppedStep DEF Fail
<1>5. CASE Cancel(p)
  BY <1>5 DEF Cancel, StoreInv, WorkOK, StoreWhole, KeyInv, TempInv, Keyed, Part, Jobs, store, work
<1>6. CASE Kill(p)
  BY <1>6, DroppedStep DEF Kill
<1> QED
  BY <1>1, <1>2, <1>3, <1>4, <1>5, <1>6

-------------------------------------------------------------------------------
(***************************************************************************)
(* Steps of one job.                                                       *)
(***************************************************************************)
LEMMA JobFailsStep ==
  ASSUME StoreInv, NEW p \in Process, NEW q \in Package, q \in Jobs(p), phase[p] \in Running, JobFails(p, q)
  PROVE  StoreInv' /\ UNCHANGED store
<1>1. WorkOK'
  BY EmptyInTree DEF JobFails, StoreInv, WorkOK, JobState, Finished, Jobs, store
<1>2. StoreWhole'
  BY DEF JobFails, StoreInv, StoreWhole, store
<1>3. KeyInv(p, q)' /\ TempInv(p, q)'
  BY DEF JobFails, StoreInv, WorkOK, KeyInv, TempInv, Keyed, Jobs, Writing, store
<1>4. /\ Agree(job, job', p, q) /\ Agree(bytes, bytes', p, q)
     /\ Agree(key, key', p, q) /\ Agree(temp, temp', p, q)
  BY OneCell, SameTable DEF JobFails, StoreInv, WorkOK
<1>5. phase' = phase /\ wanted' = wanted /\ UNCHANGED store
  BY DEF JobFails
<1> QED
  BY <1>1, <1>2, <1>3, <1>4, <1>5, OneJob DEF store

\* The job of q returns a key whose archive is in the store.
LEMMA FetchedStep ==
  ASSUME StoreInv, NEW p \in Process, NEW q \in Package, NEW s \in Sha,
         job[p][q] \in {"start", "got"}, Fetched(p, q, s),
         zips' = zips \/ zips' = [zips EXCEPT ![s] = s], zips'[s] = s,
         UNCHANGED <<expanded, phase, wanted, temp>>
  PROVE  StoreInv'
<1>1. WorkOK'
  BY DEF Fetched, StoreInv, WorkOK, JobState, Finished, Jobs
<1>2. StoreWhole'
  BY DEF StoreInv, WorkOK, StoreWhole
<1>3. KeyInv(p, q)' /\ TempInv(p, q)'
  BY DEF Fetched, StoreInv, WorkOK, KeyInv, TempInv, Keyed, Jobs, Writing
<1>4. \A x \in Sha : zips[x] = x => zips'[x] = x
  BY DEF StoreInv, WorkOK
<1>5. /\ Agree(job, job', p, q) /\ Agree(bytes, bytes', p, q)
     /\ Agree(key, key', p, q) /\ Agree(temp, temp', p, q)
  BY OneCell, SameTable DEF Fetched, StoreInv, WorkOK
<1> QED
  BY <1>1, <1>2, <1>3, <1>4, <1>5, OneJob

\* Every step of Fetch keeps the invariant and is one of the store.
LEMMA FetchStepOK ==
  ASSUME StoreInv, NEW p \in Process, NEW q \in Package, FetchStep(p, q)
  PROVE  StoreInv' /\ [Store!Next]_<<zips, expanded>>
<1>0. job[p][q] # "none" => q \in Jobs(p) /\ phase[p] \in Running /\ wanted[p][q] \in Dist
  BY DEF StoreInv, WorkOK, KeyInv
<1>1. CASE FetchHit(p, q)
  <2> DEFINE s == wanted[p][q].sha
  <2>1. s \in Sha /\ zips[s] = s
    BY <1>0, <1>1 DEF FetchHit, Fetching, Hit, Dist, StoreInv, StoreWhole
  <2> HIDE DEF s
  <2>2. Fetched(p, q, s) /\ UNCHANGED <<store, phase, wanted, temp>> /\ job[p][q] = "start"
    BY <1>1 DEF FetchHit, Fetching, s
  <2> QED
    BY <2>1, <2>2, FetchedStep DEF store
<1>2. CASE Download(p, q)
  <2>1. WorkOK'
    BY <1>2 DEF Download, StoreInv, WorkOK, JobState, Busy, Jobs, store
  <2>2. StoreWhole'
    BY <1>2 DEF Download, StoreInv, StoreWhole, store
  <2>3. KeyInv(p, q)' /\ TempInv(p, q)'
    BY <1>0, <1>2 DEF Download, Fetching, StoreInv, WorkOK, KeyInv, TempInv, Keyed, Jobs, Writing, store
  <2>4. /\ Agree(job, job', p, q) /\ Agree(bytes, bytes', p, q)
     /\ Agree(key, key', p, q) /\ Agree(temp, temp', p, q)
    <3>1. PICK b \in Sha : bytes' = [bytes EXCEPT ![p][q] = b]
      BY <1>2 DEF Download
    <3> QED
      BY OneCell, SameTable, <1>2, <3>1 DEF Download, StoreInv, WorkOK
  <2>5. StoreInv'
    BY <1>2, <2>1, <2>2, <2>3, <2>4, OneJob DEF Download, store
  <2> QED
    BY <1>2, <2>5 DEF Download, store
<1>3. CASE DownloadFails(p, q)
  BY <1>0, <1>3, JobFailsStep DEF DownloadFails, Fetching, store
<1>4. CASE PublishZip(p, q)
  <2> DEFINE s == bytes[p][q]
  <2>1. job[p][q] = "got" /\ s \in Sha
    BY <1>4 DEF PublishZip, StoreInv, KeyInv
  <2>2. StoredAs(wanted[p][q], s) = s
    BY <1>4 DEF PublishZip, StoredAs, Accepted
  <2> HIDE DEF s
  <2>3. zips' = [zips EXCEPT ![s] = s] /\ Fetched(p, q, s) /\ UNCHANGED <<expanded, phase, wanted, temp>>
    BY <1>4, <2>2 DEF PublishZip, s
  <2>4. zips'[s] = s
    BY <2>1, <2>3 DEF StoreInv, WorkOK
  <2>5. Store!AddZip(s)
    BY <2>3 DEF Store!AddZip
  <2> QED
    BY <2>1, <2>3, <2>4, <2>5, FetchedStep DEF Store!Next
<1>5. CASE RejectZip(p, q)
  BY <1>0, <1>5, JobFailsStep DEF RejectZip, store
<1> QED
  BY <1>1, <1>2, <1>3, <1>4, <1>5 DEF FetchStep

\* A job that goes on without touching the store keeps the invariant.
LEMMA JobOnlyStep ==
  ASSUME StoreInv, NEW p \in Process, NEW q \in Package,
         job[p][q] \in {"queued", "start", "clearUnzip", "clearClone", "unzip", "clone"},
         NEW v \in {"start", "ok", "expand", "clearUnzip", "clearClone", "unzip", "clone"},
         v # "start" => Keyed(p, q),
         job' = [job EXCEPT ![p][q] = v],
         UNCHANGED <<store, phase, wanted, bytes, key, temp>>
  PROVE  StoreInv'
<1>1. WorkOK'
  BY DEF StoreInv, WorkOK, JobState, Busy, Writing, Finished, Jobs, store
<1>2. StoreWhole'
  BY DEF StoreInv, StoreWhole, store
<1>3. job'[p][q] = v /\ temp'[p][q] = Store!EmptyTree
  BY DEF StoreInv, WorkOK, TempInv
<1>4. KeyInv(p, q)'
  BY <1>3 DEF StoreInv, KeyInv, Keyed, Jobs, Writing, store
<1>5. TempInv(p, q)'
  BY <1>3 DEF TempInv, Part, Store!EmptyTree
<1>6. /\ Agree(job, job', p, q) /\ Agree(bytes, bytes', p, q)
      /\ Agree(key, key', p, q) /\ Agree(temp, temp', p, q)
  BY OneCell, SameTable DEF StoreInv, WorkOK
<1> QED
  BY <1>1, <1>2, <1>4, <1>5, <1>6, OneJob DEF store

\* Giving a job to a worker keeps the invariant.
LEMMA DispatchStep ==
  ASSUME StoreInv, NEW p \in Process, NEW q \in Package, Dispatch(p, q)
  PROVE  StoreInv' /\ UNCHANGED store
  BY JobOnlyStep DEF Dispatch, NextInLine

\* The invariant is about the store and the work in progress only.
LEMMA SameStep ==
  ASSUME StoreInv, UNCHANGED <<store, phase, wanted, work>>
  PROVE  StoreInv'
  BY DEF StoreInv, WorkOK, StoreWhole, KeyInv, TempInv, Keyed, Part, Jobs, store, work

\* extractZip into the temporary tree.
LEMMA ExpandStep ==
  ASSUME StoreInv, NEW p \in Process, NEW q \in Package, Expand(p, q)
  PROVE  StoreInv' /\ UNCHANGED store
<1> DEFINE s == key[p][q]
           t == temp[p][q]
<1>1. PICK e \in ToExtract(t, s) :
        /\ temp' = [temp EXCEPT ![p][q] = With(t, e, s)]
        /\ job' = [job EXCEPT ![p][q] = IF e = Store!Marker THEN "publish" ELSE "expand"]
  BY DEF Expand
<1>2. s \in Sha /\ t \in Store!Tree /\ Part(t, s) /\ job[p][q] = "expand"
  BY DEF Expand, StoreInv, WorkOK, KeyInv, TempInv, Keyed, Writing
<1> HIDE DEF s, t
<1>3. /\ e \in Path \cup {Store!Marker}
      /\ e = Store!Marker => With(t, e, s) = Store!Complete(s)
      /\ e # Store!Marker => Part(With(t, e, s), s)
  BY <1>2, ExtractGrows
<1>4. With(t, e, s) \in Store!Tree
  BY <1>2, <1>3, WithInTree
<1>5. WorkOK'
  BY <1>1, <1>4 DEF Expand, StoreInv, WorkOK, JobState, Busy, Writing, Jobs, store
<1>6. StoreWhole'
  BY DEF Expand, StoreInv, StoreWhole, store
<1>7. /\ job'[p][q] = IF e = Store!Marker THEN "publish" ELSE "expand"
      /\ temp'[p][q] = With(t, e, s) /\ key'[p][q] = s
  BY <1>1 DEF Expand, StoreInv, WorkOK, s
<1>8. KeyInv(p, q)'
  BY <1>2, <1>7 DEF Expand, StoreInv, KeyInv, Keyed, Jobs, Writing, store
<1>9. TempInv(p, q)'
  BY <1>3, <1>7 DEF TempInv
<1>10. /\ Agree(job, job', p, q) /\ Agree(bytes, bytes', p, q)
       /\ Agree(key, key', p, q) /\ Agree(temp, temp', p, q)
  BY <1>1, OneCell, SameTable DEF Expand, StoreInv, WorkOK
<1> QED
  BY <1>5, <1>6, <1>8, <1>9, <1>10, OneJob DEF Expand, store

\* The tree that is renamed into the store is complete.
LEMMA PublishTreeStep ==
  ASSUME StoreInv, NEW p \in Process, NEW q \in Package, PublishTree(p, q)
  PROVE  StoreInv' /\ [Store!Next]_<<zips, expanded>>
<1> DEFINE s == key[p][q]
<1>1. s \in Sha /\ zips[s] = s /\ temp[p][q] = Store!Complete(s) /\ job[p][q] = "publish"
  BY DEF PublishTree, StoreInv, KeyInv, TempInv, Keyed, Writing
<1>2. \/ expanded[s] = Store!EmptyTree /\ expanded' = [expanded EXCEPT ![s] = Store!Complete(s)]
      \/ expanded' = expanded
  BY <1>1 DEF PublishTree
<1> HIDE DEF s
<1>3. [Store!Next]_<<zips, expanded>>
  BY <1>1, <1>2 DEF PublishTree, Store!Next, Store!AddTree
<1>4. WorkOK'
  BY <1>1, <1>2, EmptyInTree, CompleteInTree
     DEF PublishTree, StoreInv, WorkOK, JobState, Busy, Writing, Jobs
<1>5. StoreWhole'
  BY <1>1, <1>2 DEF PublishTree, StoreInv, WorkOK, StoreWhole
<1>6. job'[p][q] = "clearClone" /\ temp'[p][q] = Store!EmptyTree /\ key' = key /\ zips' = zips
  BY DEF PublishTree, StoreInv, WorkOK
<1>7. KeyInv(p, q)'
  BY <1>1, <1>6 DEF PublishTree, StoreInv, KeyInv, Keyed, Jobs, Writing
<1>8. TempInv(p, q)'
  BY <1>6 DEF TempInv
<1>9. /\ Agree(job, job', p, q) /\ Agree(bytes, bytes', p, q)
      /\ Agree(key, key', p, q) /\ Agree(temp, temp', p, q)
  BY OneCell, SameTable DEF PublishTree, StoreInv, WorkOK
<1> QED
  BY <1>3, <1>4, <1>5, <1>7, <1>8, <1>9, OneJob DEF PublishTree

\* Every step of Materialize keeps the invariant and is one of the store.
LEMMA MaterializeStepOK ==
  ASSUME StoreInv, NEW p \in Process, NEW q \in Package, MaterializeStep(p, q)
  PROVE  StoreInv' /\ [Store!Next]_<<zips, expanded>>
<1>1. job[p][q] # "none" => q \in Jobs(p) /\ phase[p] \in Running
  BY DEF StoreInv, KeyInv
<1>2. Materializing(p, q) \/ job[p][q] \in Writing => Keyed(p, q)
  BY DEF Materializing, StoreInv, KeyInv
<1>3. CASE SkipWarm(p, q)
  BY <1>2, <1>3, JobOnlyStep DEF SkipWarm, Materializing, store
<1>4. CASE ChooseStrategy(p, q)
  <2>1. PICK v \in {"clearClone", "expand", "clearUnzip"} : job' = [job EXCEPT ![p][q] = v]
    BY <1>4 DEF ChooseStrategy
  <2> QED
    BY <1>2, <1>4, <2>1, JobOnlyStep DEF ChooseStrategy, Materializing, store
<1>5. CASE Expand(p, q)
  BY <1>5, ExpandStep DEF store
<1>6. CASE PublishTree(p, q)
  BY <1>6, PublishTreeStep
<1>7. CASE Clear(p, q)
  <2>1. CASE UNCHANGED job
    BY <1>7, <2>1, SameStep DEF Clear, store, work
  <2>2. CASE job' = [job EXCEPT ![p][q] = IF @ = "clearUnzip" THEN "unzip" ELSE "clone"]
    <3>1. PICK v \in {"unzip", "clone"} : job' = [job EXCEPT ![p][q] = v]
      BY <2>2
    <3> QED
      BY <1>2, <1>7, <3>1, JobOnlyStep DEF Clear, Writing, store
  <2> QED
    BY <1>7, <2>1, <2>2 DEF Clear
<1>8. CASE Unzip(p, q)
  <2>1. PICK v \in {"ok", "unzip"} : job' = [job EXCEPT ![p][q] = v]
    BY <1>8 DEF Unzip
  <2> QED
    BY <1>2, <1>8, <2>1, JobOnlyStep DEF Unzip, Writing, store
<1>9. CASE Clone(p, q)
  <2>1. PICK v \in {"ok", "clone"} : job' = [job EXCEPT ![p][q] = v]
    BY <1>9 DEF Clone
  <2> QED
    BY <1>2, <1>9, <2>1, JobOnlyStep DEF Clone, Writing, store
<1>10. CASE WriteFails(p, q)
  BY <1>1, <1>10, JobFailsStep DEF WriteFails, Writing, store
<1> QED
  BY <1>3, <1>4, <1>5, <1>6, <1>7, <1>8, <1>9, <1>10 DEF MaterializeStep

-------------------------------------------------------------------------------
(***************************************************************************)
(* The theorems.                                                           *)
(***************************************************************************)
LEMMA StepOK == StoreInv /\ [Next]_vars => StoreInv' /\ [Store!Next]_<<zips, expanded>>
<1> SUFFICES ASSUME StoreInv, [Next]_vars
             PROVE  StoreInv' /\ [Store!Next]_<<zips, expanded>>
  OBVIOUS
<1>1. CASE UNCHANGED vars
  BY <1>1, SameStep DEF vars, store, work
<1>2. CASE Next
  <2>1. PICK p \in Process : Start(p) \/ Step(p) \/ Cancel(p) \/ Kill(p)
    BY <1>2 DEF Next
  <2>2. CASE Start(p)
    BY <2>2, StartStep DEF store
  <2>3. CASE Cancel(p) \/ Kill(p)
    BY <2>3, ProcessStep DEF store
  <2>4. CASE Step(p)
    <3>1. CASE JoinPrefetch(p) \/ FetchAllDone(p) \/ MaterializeAllDone(p) \/ Fail(p)
      BY <3>1, ProcessStep DEF store
    <3>2. CASE \E q \in Package : Dispatch(p, q) \/ FetchStep(p, q) \/ MaterializeStep(p, q)
      BY <3>2, DispatchStep, FetchStepOK, MaterializeStepOK DEF store
    <3> QED
      BY <2>4, <3>1, <3>2 DEF Step
  <2> QED
    BY <2>1, <2>2, <2>3, <2>4
<1> QED
  BY <1>1, <1>2

\* Every archive in the store has the bytes its name says, every expanded tree
\* there is complete, and what a job returns as its key is in the store.
THEOREM StoreCorrect == Spec => []StoreInv
<1>1. Init => StoreInv
  BY InitStoreInv
<1>2. StoreInv /\ [Next]_vars => StoreInv'
  BY StepOK
<1> QED
  BY <1>1, <1>2, PTL DEF Spec

\* The fetcher, the materializer and the pools of any number of processes
\* implement the content-addressed store (internal/store).
THEOREM ImplementsStore == Spec => StoreRefined
<1>1. Init => Store!Init
  BY DEF Init
<1>2. StoreInv /\ [Next]_vars => [Store!Next]_<<zips, expanded>>
  BY StepOK
<1> QED
  BY <1>1, <1>2, StoreCorrect, PTL DEF Spec, StoreRefined, Store!Spec
===============================================================================
