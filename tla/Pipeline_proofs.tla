---------------------------- MODULE Pipeline_proofs ----------------------------
(***************************************************************************)
(* What holds of the files of a project after any sequence of runs of      *)
(* Pipeline, however many of them failed, were rolled back or killed: for  *)
(* any set of packages, versions and manifests, and any number of runs.    *)
(***************************************************************************)
EXTENDS Pipeline, TLAPS

\* The phases after the run has settled on a lock.
Pruned == {"autoload", "lock", "post", "done"}
Settled == {"materialize", "prune"} \cup Pruned

Has(q) == q \in DOMAIN vendor /\ vendor[q] = Selected[q]
OwnedBy(f) == IF f \in LockFile THEN Locked(f) ELSE {}

\* What the phase has yet to do is all that is missing, or is too much.
FilesInv ==
  /\ pc = "materialize" => todo \subseteq DOMAIN Selected
  /\ pc = "prune" => todo \cap DOMAIN Selected = {}
  /\ pc \in Pruned => todo = {}
  /\ pc \in Settled => \A q \in DOMAIN Selected : Has(q) \/ (pc = "materialize" /\ q \in todo)
  /\ pc \in Settled \ {"materialize"} => DOMAIN vendor \cap OwnedBy(prev) \subseteq DOMAIN Selected \cup todo
  /\ pc \in {"lock", "post", "done"} => autoload = DOMAIN Selected
  /\ pc \in {"post", "done"} => lockFile = lf

\* Until the lock is written it is the one the run has read, and an install that
\* could read it installs it.
LockInv ==
  /\ pc \in {"resolve"} \cup (Settled \ {"post", "done"}) => lockFile = prev
  /\ cmd = "install" /\ pc \in InRun => m # Empty
  /\ cmd = "install" /\ pc \in Settled /\ prev \in LockFile => lf = prev

\* A rollback goes on to the end once it has begun.
RollbackInv ==
  /\ pc \in {"restoreLock", "failed"} => manifest = before.manifest
  /\ pc = "failed" => lockFile = before.lock
  /\ pc \in Rollback \cup {"failed"} => ~ undisturbed

\* As long as nothing went wrong, all that is in vendor/ is owned by the lock, or
\* by the lock to be written, or is about to be pruned.
OwnerInv ==
  undisturbed =>
    /\ pc \notin Settled => DOMAIN vendor \subseteq OwnedBy(lockFile)
    /\ pc = "materialize" => DOMAIN vendor \subseteq DOMAIN Selected \cup OwnedBy(prev)
    /\ pc \in Settled \ {"materialize"} => DOMAIN vendor \subseteq DOMAIN Selected \cup todo

PipelineInv == TypeOK /\ FilesInv /\ LockInv /\ RollbackInv /\ OwnerInv

-------------------------------------------------------------------------------
(***************************************************************************)
(* Selections.                                                             *)
(***************************************************************************)
\* Nothing is installed, nothing is locked.
LEMMA NothingType == Nothing \in Selection /\ DOMAIN Nothing = {} /\ NoFile \in LockFile
<1>1. Nothing \in [{} -> Version] /\ DOMAIN Nothing = {}
  BY DEF Nothing
<1>2. Nothing \in Selection
  BY <1>1 DEF Selection
<1>3. Empty \in Manifest
  BY DEF Empty, Manifest
<1> QED
  BY <1>1, <1>2, <1>3 DEF NoFile, LockFile

\* A selection is a function from packages to versions, and any such function is one.
LEMMA SelectionType ==
  ASSUME NEW s \in Selection
  PROVE  DOMAIN s \in SUBSET Package /\ s \in [DOMAIN s -> Version]
  BY DEF Selection

LEMMA SelectionOf ==
  ASSUME NEW D \in SUBSET Package, NEW s \in [D -> Version]
  PROVE  s \in Selection
  BY DEF Selection

\* What a run installs is a selection of packages of its lock.
SelectedOf(f, flag) ==
  [q \in DOMAIN f.prod \cup (IF flag THEN {} ELSE DOMAIN f.dev) |->
     IF q \in DOMAIN f.prod THEN f.prod[q] ELSE f.dev[q]]

LEMMA SelectedOfType ==
  ASSUME NEW f \in LockFile, NEW flag
  PROVE  /\ SelectedOf(f, flag) \in Selection
         /\ DOMAIN SelectedOf(f, flag) = DOMAIN f.prod \cup (IF flag THEN {} ELSE DOMAIN f.dev)
         /\ DOMAIN SelectedOf(f, flag) \subseteq Locked(f)
         /\ Locked(f) \subseteq Package
<1>1. f.prod \in Selection /\ f.dev \in Selection
  BY DEF LockFile
<1> DEFINE D == DOMAIN f.prod \cup (IF flag THEN {} ELSE DOMAIN f.dev)
<1>2. D \in SUBSET Package
  BY <1>1, SelectionType
<1>3. ASSUME NEW q \in D PROVE (IF q \in DOMAIN f.prod THEN f.prod[q] ELSE f.dev[q]) \in Version
  BY <1>1, <1>3, SelectionType
<1>4. SelectedOf(f, flag) \in [D -> Version]
  BY <1>3 DEF SelectedOf
<1>5. Locked(f) \subseteq Package
  BY <1>1, SelectionType DEF Locked
<1> QED
  BY <1>2, <1>4, <1>5, SelectionOf DEF Locked

LEMMA SelectedType ==
  ASSUME lf \in LockFile
  PROVE  /\ Selected \in Selection
         /\ DOMAIN Selected = DOMAIN lf.prod \cup (IF noDev THEN {} ELSE DOMAIN lf.dev)
         /\ DOMAIN Selected \subseteq Locked(lf)
         /\ DOMAIN Selected \subseteq Package
<1>1. Selected = SelectedOf(lf, noDev)
  BY DEF Selected, SelectedOf
<1> QED
  BY <1>1, SelectedOfType

\* pruneVendor removes what the previous lock owned and this run does not install.
LEMMA ObsoleteOf ==
  ASSUME NEW old, NEW sel
  PROVE  Obsolete(old, sel) = OwnedBy(old) \ sel /\ Obsolete(old, sel) \subseteq Package
BY SelectedOfType DEF Obsolete, OwnedBy

\* One package more in vendor/, and one less.
LEMMA InstalledType ==
  ASSUME vendor \in Selection, NEW q \in Package, NEW v \in Version
  PROVE  /\ Installed(q, v) \in Selection
         /\ DOMAIN Installed(q, v) = DOMAIN vendor \cup {q}
         /\ \A r \in DOMAIN vendor \cup {q} : Installed(q, v)[r] = IF r = q THEN v ELSE vendor[r]
<1>1. DOMAIN vendor \cup {q} \in SUBSET Package
  BY SelectionType
<1>2. Installed(q, v) \in [DOMAIN vendor \cup {q} -> Version]
  BY SelectionType DEF Installed
<1> QED
  BY <1>1, <1>2, SelectionOf DEF Installed

LEMMA RemovedType ==
  ASSUME vendor \in Selection, NEW q
  PROVE  /\ Removed(q) \in Selection
         /\ DOMAIN Removed(q) = DOMAIN vendor \ {q}
         /\ \A r \in DOMAIN vendor \ {q} : Removed(q)[r] = vendor[r]
<1>1. DOMAIN vendor \ {q} \in SUBSET Package
  BY SelectionType
<1>2. Removed(q) \in [DOMAIN vendor \ {q} -> Version]
  BY SelectionType DEF Removed
<1> QED
  BY <1>1, <1>2, SelectionOf DEF Removed

\* The lock of a resolution, and the one of an empty manifest.
LEMMA ResolvedType ==
  ASSUME TypeOK
  PROVE  Resolved \in LockFile /\ [of |-> bytes, prod |-> Nothing, dev |-> Nothing] \in LockFile
<1>1. m.require \in SUBSET Package /\ m.requireDev \in SUBSET Package /\ published \in Version /\ bytes \in Manifest
  BY DEF TypeOK, Manifest
<1>2. [q \in m.require |-> published] \in Selection
  BY <1>1, SelectionOf
<1>3. [q \in IF noDev THEN {} ELSE m.requireDev |-> published] \in Selection
  <2> DEFINE D == IF noDev THEN {} ELSE m.requireDev
  <2>1. D \in SUBSET Package /\ [q \in D |-> published] \in [D -> Version]
    BY <1>1
  <2> QED
    BY <2>1, SelectionOf
<1> QED
  BY <1>1, <1>2, <1>3, NothingType DEF Resolved, LockFile

-------------------------------------------------------------------------------
(***************************************************************************)
(* The invariant.                                                          *)
(***************************************************************************)
LEMMA InitPipelineInv == Init => PipelineInv
<1> SUFFICES ASSUME Init PROVE PipelineInv
  OBVIOUS
<1>1. manifest \in Manifest /\ Empty \in Manifest
  BY ManifestsAssumption DEF Init, Empty, Manifest
<1>2. TypeOK
  <2>1. published \in Version /\ runs \in 0 .. MaxRuns
    BY RunsAssumption DEF Init
  <2>2. m \in Manifest /\ bytes \in Manifest
    BY <1>1 DEF Init
  <2>3. lockFile = NoLock /\ prev = NoLock /\ lf \in LockFile /\ vendor \in Selection
    BY NothingType DEF Init
  <2>4. DOMAIN resolution = {} /\ autoload = {} /\ todo = {}
    BY DEF Init
  <2>5. pc = "idle" /\ cmd = "install" /\ noDev = FALSE /\ undisturbed = TRUE
    BY DEF Init
  <2>6. before.manifest \in Manifest /\ before.lock = NoLock
    BY <1>1 DEF Init
  <2> QED
    BY <1>1, <2>1, <2>2, <2>3, <2>4, <2>5, <2>6 DEF TypeOK, AtRest
<1>3. FilesInv /\ LockInv /\ RollbackInv
  BY DEF Init, FilesInv, LockInv, RollbackInv, Settled, Pruned, InRun, Rollback
<1>4. OwnerInv
  BY NothingType DEF Init, OwnerInv, Settled, Pruned
<1> QED
  BY <1>2, <1>3, <1>4 DEF PipelineInv

\* Of a process that has exited only the disk is left, well typed.
LEMMA ExitedType ==
  ASSUME Exited
  PROVE  /\ m' \in Manifest /\ bytes' \in Manifest /\ lf' \in LockFile /\ prev' = NoLock
         /\ cmd' = "install" /\ noDev' = FALSE
         /\ before'.manifest \in Manifest /\ before'.lock = NoLock
<1>1. Empty \in Manifest
  BY DEF Empty, Manifest
<1> QED
  BY <1>1, NothingType DEF Exited

\* At rest every package in vendor/ is owned by the lock, unless something went wrong.
LEMMA OwnedAtRest ==
  ASSUME PipelineInv, pc \in AtRest, undisturbed
  PROVE  DOMAIN vendor \subseteq OwnedBy(lockFile)
<1>1. CASE pc \in {"idle", "untouched"}
  BY <1>1 DEF PipelineInv, OwnerInv, Settled, Pruned
<1>2. CASE pc = "failed"
  BY <1>2 DEF PipelineInv, RollbackInv
<1>3. CASE pc = "done"
  <2>1. DOMAIN vendor \subseteq DOMAIN Selected /\ lockFile = lf /\ lf \in LockFile
    BY <1>3 DEF PipelineInv, TypeOK, OwnerInv, FilesInv, Settled, Pruned
  <2> QED
    BY <2>1, SelectedType DEF OwnedBy
<1> QED
  BY <1>1, <1>2, <1>3 DEF AtRest

\* A step after which no run has settled on a lock, and no rollback is under way.
LEMMA UnsettledInv ==
  ASSUME TypeOK', pc' \in {"idle", "untouched", "pre"},
         pc' = "pre" /\ cmd' = "install" => m' # Empty,
         undisturbed' => DOMAIN vendor' \subseteq OwnedBy(lockFile)'
  PROVE  PipelineInv'
<1>1. FilesInv'
  BY DEF FilesInv, Settled, Pruned
<1>2. LockInv'
  BY DEF LockInv, Settled, Pruned, InRun
<1>3. RollbackInv'
  BY DEF RollbackInv, Rollback
<1>4. OwnerInv'
  BY DEF OwnerInv, Settled, Pruned
<1> QED
  BY <1>1, <1>2, <1>3, <1>4 DEF PipelineInv

LEMMA PublishInv == PipelineInv /\ Publish => PipelineInv'
<1> SUFFICES ASSUME PipelineInv, Publish PROVE PipelineInv'
  OBVIOUS
<1>1. pc' = "idle" /\ vendor' = vendor /\ lockFile' = lockFile /\ undisturbed' = undisturbed
  BY DEF Publish, disk
<1>2. TypeOK'
  BY <1>1, ExitedType DEF PipelineInv, TypeOK, Publish, disk, AtRest
<1>3. undisturbed => DOMAIN vendor \subseteq OwnedBy(lockFile)
  BY OwnedAtRest DEF Publish
<1>4. undisturbed' => DOMAIN vendor' \subseteq OwnedBy(lockFile)'
  BY <1>1, <1>3 DEF OwnedBy
<1> QED
  BY <1>1, <1>2, <1>4, UnsettledInv

LEMMA InstallNothingInv == PipelineInv /\ InstallNothing => PipelineInv'
<1> SUFFICES ASSUME PipelineInv, InstallNothing PROVE PipelineInv'
  OBVIOUS
<1>1. pc' = "untouched" /\ vendor' = vendor /\ lockFile' = lockFile /\ undisturbed' = undisturbed
  BY DEF InstallNothing, disk
<1>2. runs' \in 0 .. MaxRuns
  BY RunsAssumption DEF PipelineInv, TypeOK, InstallNothing
<1>3. TypeOK'
  BY <1>1, <1>2, ExitedType DEF PipelineInv, TypeOK, InstallNothing, disk, AtRest
<1>4. undisturbed => DOMAIN vendor \subseteq OwnedBy(lockFile)
  BY OwnedAtRest DEF InstallNothing
<1>5. undisturbed' => DOMAIN vendor' \subseteq OwnedBy(lockFile)'
  BY <1>1, <1>4 DEF OwnedBy
<1> QED
  BY <1>1, <1>3, <1>5, UnsettledInv

LEMMA EditManifestInv == PipelineInv /\ EditManifest => PipelineInv'
<1> SUFFICES ASSUME PipelineInv, EditManifest PROVE PipelineInv'
  OBVIOUS
<1>1. vendor' = vendor /\ lockFile' = lockFile /\ undisturbed' = undisturbed
  BY DEF EditManifest
<1>2. manifest' \in Manifest
  BY ManifestsAssumption DEF EditManifest
<1>3. undisturbed => DOMAIN vendor \subseteq OwnedBy(lockFile)
  BY OwnedAtRest DEF EditManifest, PipelineInv, OwnerInv, Settled, Pruned
<1>4. undisturbed' => DOMAIN vendor' \subseteq OwnedBy(lockFile)'
  BY <1>1, <1>3 DEF OwnedBy
<1>5. CASE pc \in AtRest /\ pc' = "idle" /\ Exited
  <2>1. TypeOK'
    BY <1>2, <1>5, ExitedType DEF PipelineInv, TypeOK, EditManifest, AtRest
  <2> QED
    BY <1>4, <1>5, <2>1, UnsettledInv
<1>6. CASE pc = "pre" /\ UNCHANGED <<pc, call>>
  <2>1. TypeOK'
    BY <1>2, <1>6 DEF PipelineInv, TypeOK, EditManifest, call
  <2>2. cmd' = "install" => m' # Empty
    BY <1>6 DEF PipelineInv, LockInv, InRun, call
  <2> QED
    BY <1>4, <1>6, <2>1, <2>2, UnsettledInv
<1> QED
  BY <1>5, <1>6 DEF EditManifest

LEMMA LoseLockInv == PipelineInv /\ LoseLock => PipelineInv'
<1> SUFFICES ASSUME PipelineInv, LoseLock PROVE PipelineInv'
  OBVIOUS
<1>1. TypeOK'
  BY ExitedType DEF PipelineInv, TypeOK, LoseLock, AtRest
<1>2. pc' = "idle" /\ undisturbed' = FALSE
  BY DEF LoseLock
<1> QED
  BY <1>1, <1>2, UnsettledInv

\* A command leaves vendor/ and the lock as they were at rest.
LEMMA BeginInv ==
  ASSUME PipelineInv, pc \in AtRest, runs < MaxRuns,
         NEW c \in {"install", "update"} \cup Transactions, NEW mf \in Manifest, NEW flag \in BOOLEAN,
         Begin(c, mf, flag),
         c = "install" => mf # Empty,
         before'.manifest \in Manifest, before'.lock \in LockFile \cup {NoLock, Corrupt}
  PROVE  PipelineInv'
<1>1. Empty \in Manifest
  BY DEF Empty, Manifest
<1>2. runs' \in 0 .. MaxRuns
  BY RunsAssumption DEF PipelineInv, TypeOK, Begin
<1>3. pc' = "pre" /\ cmd' = c /\ m' = mf
  BY DEF Begin
<1>4. TypeOK'
  BY <1>1, <1>2, NothingType DEF PipelineInv, TypeOK, Begin, InRun
<1>5. undisturbed' => DOMAIN vendor' \subseteq OwnedBy(lockFile)'
  BY OwnedAtRest DEF Begin, OwnedBy
<1> QED
  BY <1>3, <1>4, <1>5, UnsettledInv

LEMMA CommandInv == PipelineInv /\ Command => PipelineInv'
<1> SUFFICES ASSUME PipelineInv, Command PROVE PipelineInv'
  OBVIOUS
<1>1. PICK c \in {"install", "update"}, flag \in BOOLEAN :
        ~ (c = "install" /\ manifest = Empty) /\ Begin(c, manifest, flag)
  BY DEF Command
<1>2. manifest \in Manifest /\ before'.manifest \in Manifest /\ before'.lock \in LockFile \cup {NoLock, Corrupt}
  BY DEF PipelineInv, TypeOK, Command
<1>3. pc \in AtRest /\ runs < MaxRuns
  BY DEF Command
<1> QED
  BY <1>1, <1>2, <1>3, BeginInv

LEMMA TransactionInv == PipelineInv /\ Transaction => PipelineInv'
<1> SUFFICES ASSUME PipelineInv, Transaction PROVE PipelineInv'
  OBVIOUS
<1>1. PICK c \in Transactions, q \in Package, dev \in BOOLEAN, flag \in BOOLEAN :
        Mutated(c, q, dev) \in Manifests /\ Begin(c, Mutated(c, q, dev), flag)
  BY DEF Transaction
<1>2. Mutated(c, q, dev) \in Manifest
  BY <1>1, ManifestsAssumption
<1>3. before'.manifest \in Manifest /\ before'.lock \in LockFile \cup {NoLock, Corrupt}
  BY DEF PipelineInv, TypeOK, Transaction
<1>4. pc \in AtRest /\ runs < MaxRuns /\ c # "install"
  BY DEF Transaction, Transactions
<1> QED
  BY <1>1, <1>2, <1>3, <1>4, BeginInv

LEMMA ReadStateInv == PipelineInv /\ ReadState => PipelineInv'
<1> SUFFICES ASSUME PipelineInv, ReadState PROVE PipelineInv'
  OBVIOUS
<1>1. TypeOK'
  BY DEF PipelineInv, TypeOK, ReadState, disk, InRun
<1>2. FilesInv'
  BY DEF ReadState, FilesInv, Settled, Pruned
<1>3. LockInv'
  BY DEF PipelineInv, ReadState, LockInv, disk, InRun, Settled, Pruned
<1>4. RollbackInv'
  BY DEF ReadState, RollbackInv, Rollback
<1>5. OwnerInv'
  BY DEF PipelineInv, ReadState, OwnerInv, OwnedBy, disk, Settled, Pruned
<1> QED
  BY <1>1, <1>2, <1>3, <1>4, <1>5 DEF PipelineInv

\* A run settles on a lock: all of it is to be materialized.
LEMMA SettleInv ==
  ASSUME PipelineInv, pc = "resolve", NEW f \in LockFile, StartMaterializing(f),
         UNCHANGED <<published, manifest, lockFile, vendor, autoload>>,
         UNCHANGED <<cmd, noDev, m, bytes, prev, before, undisturbed, runs>>,
         DOMAIN resolution' \subseteq [manifest : Manifest, lock : LockFile \cup {NoLock, Corrupt}],
         \A k \in DOMAIN resolution' : resolution'[k] \in LockFile,
         cmd = "install" /\ prev \in LockFile => f = prev
  PROVE  PipelineInv'
<1>1. pc' = "materialize" /\ lf' = f /\ Selected' = SelectedOf(f, noDev)
  BY DEF StartMaterializing, Selected, SelectedOf
<1>2. todo' = DOMAIN Selected' /\ todo' \subseteq Package
  BY <1>1, SelectedOfType DEF StartMaterializing
<1>3. TypeOK'
  <2>1. todo' = DOMAIN lf'.prod \cup (IF noDev' THEN {} ELSE DOMAIN lf'.dev)
    BY <1>1 DEF StartMaterializing
  <2> QED
    BY <1>1, <1>2, <2>1 DEF PipelineInv, TypeOK, InRun
<1>4. FilesInv'
  BY <1>1, <1>2 DEF FilesInv, Settled, Pruned
<1>5. LockInv'
  BY <1>1 DEF PipelineInv, LockInv, InRun, Settled, Pruned
<1>6. RollbackInv'
  BY <1>1 DEF RollbackInv, Rollback
<1>7. OwnerInv'
  <2>1. undisturbed => DOMAIN vendor \subseteq OwnedBy(prev)
    BY DEF PipelineInv, OwnerInv, LockInv, Settled, Pruned
  <2> QED
    BY <1>1, <2>1 DEF OwnerInv, OwnedBy, Settled, Pruned
<1> QED
  BY <1>3, <1>4, <1>5, <1>6, <1>7 DEF PipelineInv

LEMMA UseLockInv == PipelineInv /\ UseLock => PipelineInv'
BY SettleInv DEF UseLock, disk, PipelineInv, TypeOK

LEMMA UseCacheInv == PipelineInv /\ UseCache => PipelineInv'
BY SettleInv DEF UseCache, disk, PipelineInv, TypeOK

LEMMA ResolveInv == PipelineInv /\ Resolve => PipelineInv'
<1> SUFFICES ASSUME PipelineInv, Resolve PROVE PipelineInv'
  OBVIOUS
<1>1. Resolved \in LockFile /\ CacheKey \in [manifest : Manifest, lock : LockFile \cup {NoLock, Corrupt}]
  BY ResolvedType DEF PipelineInv, TypeOK, CacheKey
<1>2. /\ DOMAIN resolution' \subseteq [manifest : Manifest, lock : LockFile \cup {NoLock, Corrupt}]
      /\ \A k \in DOMAIN resolution' : resolution'[k] \in LockFile
  <2>1. CASE UNCHANGED resolution
    BY <2>1 DEF PipelineInv, TypeOK
  <2>2. CASE resolution' = [k \in DOMAIN resolution \cup {CacheKey} |->
                              IF k = CacheKey THEN Resolved ELSE resolution[k]]
    BY <1>1, <2>2 DEF PipelineInv, TypeOK
  <2> QED
    BY <2>1, <2>2 DEF Resolve
<1>3. ~ (cmd = "install" /\ prev \in LockFile)
  BY DEF Resolve, ForceResolve
<1>4. pc = "resolve" /\ StartMaterializing(Resolved)
  BY DEF Resolve
<1>5. /\ UNCHANGED <<published, manifest, lockFile, vendor, autoload>>
      /\ UNCHANGED <<cmd, noDev, m, bytes, prev, before, undisturbed, runs>>
  BY DEF Resolve
<1> QED
  BY <1>1, <1>2, <1>3, <1>4, <1>5, SettleInv

LEMMA ResolveEmptyInv == PipelineInv /\ ResolveEmpty => PipelineInv'
<1> SUFFICES ASSUME PipelineInv, ResolveEmpty PROVE PipelineInv'
  OBVIOUS
<1> DEFINE f == [of |-> bytes, prod |-> Nothing, dev |-> Nothing]
<1>1. f \in LockFile
  BY ResolvedType DEF PipelineInv
<1>2. pc = "resolve" /\ pc' = "prune" /\ lf' = f /\ todo' = OwnedBy(prev) /\ todo' \subseteq Package
  BY ObsoleteOf DEF ResolveEmpty
<1>3. /\ UNCHANGED <<published, manifest, lockFile, vendor, autoload, resolution>>
      /\ UNCHANGED <<cmd, noDev, m, bytes, prev, before, undisturbed, runs>>
  BY DEF ResolveEmpty, disk
<1>4. DOMAIN Selected' = {}
  <2>1. DOMAIN f.prod = {} /\ DOMAIN f.dev = {}
    BY NothingType
  <2> QED
    BY <1>2, <2>1 DEF Selected
<1>5. cmd # "install"
  BY DEF PipelineInv, LockInv, ResolveEmpty, InRun
<1>6. TypeOK'
  BY <1>1, <1>2, <1>3 DEF PipelineInv, TypeOK, InRun
<1>7. FilesInv'
  BY <1>2, <1>3, <1>4 DEF FilesInv, OwnedBy, Settled, Pruned
<1>8. LockInv'
  BY <1>2, <1>3, <1>5 DEF PipelineInv, LockInv, InRun, Settled, Pruned
<1>9. RollbackInv'
  BY <1>2 DEF RollbackInv, Rollback
<1>10. OwnerInv'
  <2>1. undisturbed => DOMAIN vendor \subseteq OwnedBy(prev)
    BY <1>2 DEF PipelineInv, OwnerInv, LockInv, Settled, Pruned
  <2> QED
    BY <1>2, <1>3, <2>1 DEF OwnerInv, Settled, Pruned
<1> QED
  BY <1>6, <1>7, <1>8, <1>9, <1>10 DEF PipelineInv

\* The steps that change neither the lock the run has settled on nor --no-dev.
LEMMA SelectedSame ==
  ASSUME UNCHANGED <<lf, noDev>>
  PROVE  Selected' = Selected
BY DEF Selected

LEMMA MaterializeInv ==
  ASSUME PipelineInv, NEW q \in Package, Materialize(q)
  PROVE  PipelineInv'
<1>1. /\ pc = "materialize" /\ pc' = pc /\ q \in todo /\ todo' = todo \ {q}
      /\ vendor' = Installed(q, Selected[q])
      /\ UNCHANGED <<published, manifest, lockFile, autoload, resolution, undisturbed, runs>>
      /\ UNCHANGED <<cmd, noDev, m, bytes, prev, lf, before>>
  BY DEF Materialize, call
<1>2. Selected' = Selected
  BY <1>1, SelectedSame
<1>3. q \in DOMAIN Selected /\ Selected[q] \in Version /\ vendor \in Selection
  BY <1>1, SelectedType, SelectionType DEF PipelineInv, FilesInv, TypeOK
<1>4. /\ vendor' \in Selection /\ DOMAIN vendor' = DOMAIN vendor \cup {q}
      /\ \A r \in DOMAIN vendor \cup {q} : vendor'[r] = IF r = q THEN Selected[q] ELSE vendor[r]
  BY <1>1, <1>3, InstalledType
<1>5. TypeOK'
  BY <1>1, <1>4 DEF PipelineInv, TypeOK
<1>6. FilesInv'
  BY <1>1, <1>2, <1>4 DEF PipelineInv, FilesInv, Has, Settled, Pruned
<1>7. LockInv'
  BY <1>1 DEF PipelineInv, LockInv
<1>8. RollbackInv'
  BY <1>1 DEF RollbackInv, Rollback
<1>9. OwnerInv'
  BY <1>1, <1>2, <1>3, <1>4 DEF PipelineInv, OwnerInv, OwnedBy, Settled, Pruned
<1> QED
  BY <1>5, <1>6, <1>7, <1>8, <1>9 DEF PipelineInv

LEMMA MaterializeDoneInv == PipelineInv /\ MaterializeDone => PipelineInv'
<1> SUFFICES ASSUME PipelineInv, MaterializeDone PROVE PipelineInv'
  OBVIOUS
<1>1. /\ pc = "materialize" /\ pc' = "prune" /\ todo = {}
      /\ UNCHANGED <<published, manifest, lockFile, vendor, autoload, resolution, undisturbed, runs>>
      /\ UNCHANGED <<cmd, noDev, m, bytes, prev, lf, before>>
  BY DEF MaterializeDone, disk, call
<1>2. Selected' = Selected
  BY <1>1, SelectedSame
<1>3. todo' = OwnedBy(prev) \ DOMAIN Selected /\ todo' \subseteq Package
  BY ObsoleteOf DEF MaterializeDone
<1>4. TypeOK'
  BY <1>1, <1>3 DEF PipelineInv, TypeOK, InRun
<1>5. FilesInv'
  BY <1>1, <1>2, <1>3 DEF PipelineInv, FilesInv, Has, OwnedBy, Settled, Pruned
<1>6. LockInv'
  BY <1>1 DEF PipelineInv, LockInv, InRun, Settled, Pruned
<1>7. RollbackInv'
  BY <1>1 DEF RollbackInv, Rollback
<1>8. OwnerInv'
  BY <1>1, <1>2, <1>3 DEF PipelineInv, OwnerInv, Settled, Pruned
<1> QED
  BY <1>4, <1>5, <1>6, <1>7, <1>8 DEF PipelineInv

LEMMA PruneInv ==
  ASSUME PipelineInv, NEW q \in Package, Prune(q)
  PROVE  PipelineInv'
<1>1. /\ pc = "prune" /\ pc' = pc /\ q \in todo /\ todo' = todo \ {q} /\ vendor' = Removed(q)
      /\ UNCHANGED <<published, manifest, lockFile, autoload, resolution, undisturbed, runs>>
      /\ UNCHANGED <<cmd, noDev, m, bytes, prev, lf, before>>
  BY DEF Prune, call
<1>2. Selected' = Selected
  BY <1>1, SelectedSame
<1>3. q \notin DOMAIN Selected
  BY <1>1 DEF PipelineInv, FilesInv
<1>4. /\ vendor' \in Selection /\ DOMAIN vendor' = DOMAIN vendor \ {q}
      /\ \A r \in DOMAIN vendor \ {q} : vendor'[r] = vendor[r]
  BY <1>1, RemovedType DEF PipelineInv, TypeOK
<1>5. TypeOK'
  BY <1>1, <1>4 DEF PipelineInv, TypeOK
<1>6. FilesInv'
  BY <1>1, <1>2, <1>3, <1>4 DEF PipelineInv, FilesInv, Has, OwnedBy, Settled, Pruned
<1>7. LockInv'
  BY <1>1 DEF PipelineInv, LockInv
<1>8. RollbackInv'
  BY <1>1 DEF RollbackInv, Rollback
<1>9. OwnerInv'
  BY <1>1, <1>2, <1>4 DEF PipelineInv, OwnerInv, Settled, Pruned
<1> QED
  BY <1>5, <1>6, <1>7, <1>8, <1>9 DEF PipelineInv

LEMMA PruneDoneInv == PipelineInv /\ PruneDone => PipelineInv'
<1> SUFFICES ASSUME PipelineInv, PruneDone PROVE PipelineInv'
  OBVIOUS
<1>1. /\ pc = "prune" /\ pc' = "autoload" /\ todo = {}
      /\ UNCHANGED <<published, manifest, lockFile, vendor, autoload, resolution, todo, undisturbed, runs>>
      /\ UNCHANGED <<cmd, noDev, m, bytes, prev, lf, before>>
  BY DEF PruneDone, disk, call
<1>2. Selected' = Selected
  BY <1>1, SelectedSame
<1>3. TypeOK'
  BY <1>1 DEF PipelineInv, TypeOK, InRun
<1>4. FilesInv'
  BY <1>1, <1>2 DEF PipelineInv, FilesInv, Has, OwnedBy, Settled, Pruned
<1>5. LockInv' /\ RollbackInv'
  BY <1>1 DEF PipelineInv, LockInv, RollbackInv, Rollback, InRun, Settled, Pruned
<1>6. OwnerInv'
  BY <1>1, <1>2 DEF PipelineInv, OwnerInv, Settled, Pruned
<1> QED
  BY <1>3, <1>4, <1>5, <1>6 DEF PipelineInv

LEMMA GenerateAutoloaderInv == PipelineInv /\ GenerateAutoloader => PipelineInv'
<1> SUFFICES ASSUME PipelineInv, GenerateAutoloader PROVE PipelineInv'
  OBVIOUS
<1>1. /\ pc = "autoload" /\ pc' = "lock" /\ autoload' = DOMAIN Selected
      /\ UNCHANGED <<published, manifest, lockFile, vendor, resolution, todo, undisturbed, runs>>
      /\ UNCHANGED <<cmd, noDev, m, bytes, prev, lf, before>>
  BY DEF GenerateAutoloader, call
<1>2. Selected' = Selected
  BY <1>1, SelectedSame
<1>3. TypeOK'
  BY <1>1, SelectedType DEF PipelineInv, TypeOK, InRun
<1>4. FilesInv'
  BY <1>1, <1>2 DEF PipelineInv, FilesInv, Has, OwnedBy, Settled, Pruned
<1>5. LockInv' /\ RollbackInv'
  BY <1>1 DEF PipelineInv, LockInv, RollbackInv, Rollback, InRun, Settled, Pruned
<1>6. OwnerInv'
  BY <1>1, <1>2 DEF PipelineInv, OwnerInv, Settled, Pruned
<1> QED
  BY <1>3, <1>4, <1>5, <1>6 DEF PipelineInv

LEMMA WriteLockInv == PipelineInv /\ WriteLock => PipelineInv'
<1> SUFFICES ASSUME PipelineInv, WriteLock PROVE PipelineInv'
  OBVIOUS
<1>1. /\ pc = "lock" /\ pc' = "post" /\ lockFile' = lf
      /\ UNCHANGED <<published, manifest, vendor, autoload, resolution, todo, undisturbed, runs>>
      /\ UNCHANGED <<cmd, noDev, m, bytes, prev, lf, before>>
  BY DEF WriteLock, call
<1>2. Selected' = Selected
  BY <1>1, SelectedSame
<1>3. TypeOK'
  BY <1>1 DEF PipelineInv, TypeOK, InRun
<1>4. FilesInv'
  BY <1>1, <1>2 DEF PipelineInv, FilesInv, Has, OwnedBy, Settled, Pruned
<1>5. LockInv' /\ RollbackInv'
  BY <1>1 DEF PipelineInv, LockInv, RollbackInv, Rollback, InRun, Settled, Pruned
<1>6. OwnerInv'
  BY <1>1, <1>2 DEF PipelineInv, OwnerInv, Settled, Pruned
<1> QED
  BY <1>3, <1>4, <1>5, <1>6 DEF PipelineInv

LEMMA PostScriptInv == PipelineInv /\ PostScript => PipelineInv'
<1> SUFFICES ASSUME PipelineInv, PostScript PROVE PipelineInv'
  OBVIOUS
<1>1. /\ pc = "post" /\ pc' = "done"
      /\ UNCHANGED <<published, manifest, lockFile, vendor, autoload, resolution, todo, undisturbed, runs>>
      /\ UNCHANGED <<cmd, noDev, m, bytes, prev, lf, before>>
  BY DEF PostScript, disk, call
<1>2. Selected' = Selected
  BY <1>1, SelectedSame
<1>3. TypeOK'
  BY <1>1 DEF PipelineInv, TypeOK, AtRest
<1>4. FilesInv'
  BY <1>1, <1>2 DEF PipelineInv, FilesInv, Has, OwnedBy, Settled, Pruned
<1>5. LockInv' /\ RollbackInv'
  BY <1>1 DEF PipelineInv, LockInv, RollbackInv, Rollback, InRun, Settled, Pruned
<1>6. OwnerInv'
  BY <1>1, <1>2 DEF PipelineInv, OwnerInv, Settled, Pruned
<1> QED
  BY <1>3, <1>4, <1>5, <1>6 DEF PipelineInv

\* The phases that end a run badly.  vendor/ is left as it is, or loses the
\* package that was being replaced.
LEMMA BrokenOff ==
  ASSUME vendor \in Selection,
         \/ UNCHANGED vendor
         \/ \E q \in todo \cap DOMAIN vendor : vendor[q] # Selected[q] /\ vendor' = Removed(q)
  PROVE  vendor' \in Selection
BY RemovedType

LEMMA FailInv == PipelineInv /\ Fail => PipelineInv'
<1> SUFFICES ASSUME PipelineInv, Fail PROVE PipelineInv'
  OBVIOUS
<1>1. /\ todo' = {} /\ undisturbed' = FALSE
      /\ UNCHANGED <<published, manifest, lockFile, autoload, resolution, runs>>
  BY DEF Fail
<1>2. vendor' \in Selection
  BY BrokenOff DEF Fail, PipelineInv, TypeOK
<1>3. CASE pc' = "restoreManifest" /\ UNCHANGED call
  <2>1. TypeOK'
    BY <1>1, <1>2, <1>3 DEF PipelineInv, TypeOK, call, Rollback
  <2>2. FilesInv' /\ OwnerInv'
    BY <1>1, <1>3 DEF FilesInv, OwnerInv, Settled, Pruned
  <2>3. LockInv' /\ RollbackInv'
    BY <1>1, <1>3 DEF LockInv, RollbackInv, Rollback, InRun, Settled, Pruned
  <2> QED
    BY <2>1, <2>2, <2>3 DEF PipelineInv
<1>4. CASE pc' = "idle" /\ Exited
  <2>1. TypeOK'
    BY <1>1, <1>2, <1>4, ExitedType DEF PipelineInv, TypeOK, AtRest
  <2> QED
    BY <1>1, <1>4, <2>1, UnsettledInv
<1> QED
  BY <1>3, <1>4 DEF Fail

LEMMA KillInv == PipelineInv /\ Kill => PipelineInv'
<1> SUFFICES ASSUME PipelineInv, Kill PROVE PipelineInv'
  OBVIOUS
<1>1. /\ pc' = "idle" /\ Exited /\ todo' = {} /\ undisturbed' = FALSE
      /\ UNCHANGED <<published, manifest, lockFile, autoload, resolution, runs>>
  BY DEF Kill
<1>2. vendor' \in Selection
  BY BrokenOff DEF Kill, PipelineInv, TypeOK
<1>3. TypeOK'
  BY <1>1, <1>2, ExitedType DEF PipelineInv, TypeOK, AtRest
<1> QED
  BY <1>1, <1>3, UnsettledInv

LEMMA RestoreManifestInv == PipelineInv /\ RestoreManifest => PipelineInv'
<1> SUFFICES ASSUME PipelineInv, RestoreManifest PROVE PipelineInv'
  OBVIOUS
<1>1. /\ pc = "restoreManifest" /\ pc' = "restoreLock" /\ manifest' = before.manifest
      /\ UNCHANGED <<published, lockFile, vendor, autoload, resolution, todo, undisturbed, runs>>
      /\ UNCHANGED <<cmd, noDev, m, bytes, prev, lf, before>>
  BY DEF RestoreManifest, call
<1>2. TypeOK'
  BY <1>1 DEF PipelineInv, TypeOK, Rollback
<1>3. FilesInv' /\ LockInv'
  BY <1>1 DEF FilesInv, LockInv, InRun, Settled, Pruned
<1>4. RollbackInv' /\ OwnerInv'
  BY <1>1 DEF PipelineInv, RollbackInv, OwnerInv, Rollback
<1> QED
  BY <1>2, <1>3, <1>4 DEF PipelineInv

LEMMA RestoreLockInv == PipelineInv /\ RestoreLock => PipelineInv'
<1> SUFFICES ASSUME PipelineInv, RestoreLock PROVE PipelineInv'
  OBVIOUS
<1>1. /\ pc = "restoreLock" /\ pc' = "failed" /\ lockFile' = before.lock
      /\ UNCHANGED <<published, manifest, vendor, autoload, resolution, todo, undisturbed, runs>>
      /\ UNCHANGED <<cmd, noDev, m, bytes, prev, lf, before>>
  BY DEF RestoreLock, Restored, call
<1>2. TypeOK'
  BY <1>1 DEF PipelineInv, TypeOK, AtRest
<1>3. FilesInv' /\ LockInv'
  BY <1>1 DEF FilesInv, LockInv, InRun, Settled, Pruned
<1>4. RollbackInv' /\ OwnerInv'
  BY <1>1 DEF PipelineInv, RollbackInv, OwnerInv, Rollback
<1> QED
  BY <1>2, <1>3, <1>4 DEF PipelineInv

LEMMA NextPipelineInv == PipelineInv /\ [Next]_vars => PipelineInv'
<1> SUFFICES ASSUME PipelineInv, [Next]_vars PROVE PipelineInv'
  OBVIOUS
<1>1. CASE Publish \/ EditManifest \/ LoseLock
  BY <1>1, PublishInv, EditManifestInv, LoseLockInv
<1>2. CASE InstallNothing \/ Command \/ Transaction \/ ReadState
  BY <1>2, InstallNothingInv, CommandInv, TransactionInv, ReadStateInv
<1>3. CASE UseLock \/ UseCache \/ Resolve \/ ResolveEmpty
  BY <1>3, UseLockInv, UseCacheInv, ResolveInv, ResolveEmptyInv
<1>4. CASE MaterializeDone \/ PruneDone \/ GenerateAutoloader \/ WriteLock \/ PostScript
  BY <1>4, MaterializeDoneInv, PruneDoneInv, GenerateAutoloaderInv, WriteLockInv, PostScriptInv
<1>5. ASSUME NEW q \in Package, Materialize(q) \/ Prune(q) PROVE PipelineInv'
  BY <1>5, MaterializeInv, PruneInv
<1>6. CASE Fail \/ RestoreManifest \/ RestoreLock \/ Kill
  BY <1>6, FailInv, RestoreManifestInv, RestoreLockInv, KillInv
<1>7. CASE UNCHANGED vars
  <2>1. /\ UNCHANGED <<published, manifest, lockFile, vendor, autoload, resolution, pc, todo, undisturbed, runs>>
        /\ UNCHANGED <<cmd, noDev, m, bytes, prev, lf, before>>
    BY <1>7 DEF vars, disk, call
  <2>2. Selected' = Selected
    BY <2>1, SelectedSame
  <2>3. TypeOK' /\ LockInv' /\ RollbackInv'
    BY <2>1 DEF PipelineInv, TypeOK, LockInv, RollbackInv
  <2>4. FilesInv' /\ OwnerInv'
    BY <2>1, <2>2 DEF PipelineInv, FilesInv, OwnerInv, Has, OwnedBy
  <2> QED
    BY <2>3, <2>4 DEF PipelineInv
<1> QED
  BY <1>1, <1>2, <1>3, <1>4, <1>5, <1>6, <1>7 DEF Next

LEMMA PipelineCorrect == Spec => []PipelineInv
<1> QED
  BY InitPipelineInv, NextPipelineInv, PTL DEF Spec

-------------------------------------------------------------------------------
(***************************************************************************)
(* What it says.                                                           *)
(***************************************************************************)
\* Every file and every argument of a run keeps its type (pipeline.go,
\* orchestrator.go, require.go).
THEOREM PipelineTypeCorrect == Spec => []TypeOK
<1>1. PipelineInv => TypeOK
  BY DEF PipelineInv
<1> QED
  BY <1>1, PipelineCorrect, PTL

\* A run that reports success leaves gomposer.lock, vendor/ and the autoloader
\* in agreement, whatever the runs before it left behind.
THEOREM SuccessRepairs == Spec => []InstalledAsLocked
<1>1. PipelineInv => InstalledAsLocked
  <2> SUFFICES ASSUME PipelineInv, pc = "done"
               PROVE  /\ lockFile = lf
                      /\ \A q \in DOMAIN Selected : q \in DOMAIN vendor /\ vendor[q] = Selected[q]
                      /\ autoload = DOMAIN Selected
                      /\ prev \in LockFile => DOMAIN vendor \cap Locked(prev) \subseteq DOMAIN Selected
    BY DEF InstalledAsLocked, InstalledAsSelected
  <2> QED
    BY DEF PipelineInv, FilesInv, Has, OwnedBy, Settled, Pruned
<1> QED
  BY <1>1, PipelineCorrect, PTL

\* As long as no run went wrong and the lock was not lost, a run that succeeds
\* leaves in vendor/ what it selected and nothing else (pruneVendor).
THEOREM NothingIsLeftBehind == Spec => []VendorIsExact
<1>1. PipelineInv => VendorIsExact
  <2> SUFFICES ASSUME PipelineInv, pc = "done", undisturbed PROVE vendor = Selected
    BY DEF VendorIsExact
  <2>1. /\ DOMAIN vendor = DOMAIN Selected
        /\ \A q \in DOMAIN Selected : vendor[q] = Selected[q]
    BY DEF PipelineInv, FilesInv, OwnerInv, Has, Settled, Pruned
  <2>2. vendor \in Selection /\ Selected \in Selection
    BY SelectedType DEF PipelineInv, TypeOK
  <2>3. vendor \in [DOMAIN Selected -> Version] /\ Selected \in [DOMAIN Selected -> Version]
    BY <2>1, <2>2, SelectionType
  <2> QED
    BY <2>1, <2>3
<1> QED
  BY <1>1, PipelineCorrect, PTL

\* A require or remove that fails restores composer.json and gomposer.lock, a
\* lock that did not exist included (dependencyTransaction, restoreFile).
THEOREM FailedTransactionRestores == Spec => []TransactionAtomic
<1>1. PipelineInv => TransactionAtomic
  BY DEF PipelineInv, RollbackInv, TransactionAtomic
<1> QED
  BY <1>1, PipelineCorrect, PTL

\* install never rewrites a lock that was written for the composer.json it read:
\* only WriteLock touches the lock in a run, and it writes the one that was read.
THEOREM InstallNeverRelocks == Spec => InstallKeepsLock
<1>1. ASSUME PipelineInv, [Next]_vars,
             cmd = "install", pc \in InRun, lockFile \in LockFile
      PROVE  lockFile' = lockFile
  <2>1. CASE WriteLock
    <3>1. lockFile' = lf /\ lockFile = prev
      BY <1>1, <2>1 DEF WriteLock, PipelineInv, LockInv, Settled, Pruned
    <3> QED
      BY <1>1, <2>1, <3>1 DEF WriteLock, PipelineInv, LockInv, Settled, Pruned
  <2>2. CASE ~ WriteLock /\ Next
    <3>1. pc \notin AtRest /\ pc \notin Rollback
      BY <1>1 DEF InRun, AtRest, Rollback
    <3>2. CASE Publish \/ LoseLock \/ InstallNothing \/ Command \/ Transaction \/ RestoreManifest \/ RestoreLock
      BY <3>1, <3>2 DEF Publish, LoseLock, InstallNothing, Command, Transaction, RestoreManifest, RestoreLock, AtRest, Rollback
    <3>3. CASE EditManifest \/ ReadState \/ UseLock \/ UseCache \/ Resolve \/ ResolveEmpty
      BY <3>3 DEF EditManifest, ReadState, UseLock, UseCache, Resolve, ResolveEmpty, disk
    <3>4. CASE MaterializeDone \/ PruneDone \/ GenerateAutoloader \/ PostScript \/ Fail \/ Kill
      BY <3>4 DEF MaterializeDone, PruneDone, GenerateAutoloader, PostScript, Fail, Kill, disk
    <3>5. CASE \E q \in Package : Materialize(q) \/ Prune(q)
      BY <3>5 DEF Materialize, Prune
    <3> QED
      BY <2>2, <3>2, <3>3, <3>4, <3>5 DEF Next
  <2>3. CASE UNCHANGED vars
    BY <2>3 DEF vars, disk
  <2> QED
    BY <1>1, <2>1, <2>2, <2>3
<1>2. PipelineInv /\ [Next]_vars =>
        [cmd = "install" /\ pc \in InRun /\ lockFile \in LockFile /\ lockFile.of = bytes
           => lockFile' = lockFile]_vars
  BY <1>1
<1> QED
  BY <1>2, PipelineCorrect, PTL DEF Spec, InstallKeepsLock

\* A run changes the lock only when vendor/ and the autoloader are as the new one
\* says: WriteLock alone does, in the last phase but one, when nothing is left to
\* install or to prune; a rollback and the user are not the run.
THEOREM LockIsWrittenLast == Spec => LockComesLast
<1>1. ASSUME PipelineInv, [Next]_vars, pc \in InRun, lockFile' # lockFile
      PROVE  WriteLock
  <2>1. pc \notin AtRest /\ pc \notin Rollback
    BY <1>1 DEF InRun, AtRest, Rollback
  <2>2. ~ (Publish \/ LoseLock \/ InstallNothing \/ Command \/ Transaction \/ RestoreManifest \/ RestoreLock)
    BY <2>1 DEF Publish, LoseLock, InstallNothing, Command, Transaction, RestoreManifest, RestoreLock, AtRest, Rollback
  <2>3. ~ (EditManifest \/ ReadState \/ UseLock \/ UseCache \/ Resolve \/ ResolveEmpty)
    BY <1>1 DEF EditManifest, ReadState, UseLock, UseCache, Resolve, ResolveEmpty, disk
  <2>4. ~ (MaterializeDone \/ PruneDone \/ GenerateAutoloader \/ PostScript \/ Fail \/ Kill)
    BY <1>1 DEF MaterializeDone, PruneDone, GenerateAutoloader, PostScript, Fail, Kill, disk
  <2>5. ~ \E q \in Package : Materialize(q) \/ Prune(q)
    BY <1>1 DEF Materialize, Prune
  <2>6. ~ UNCHANGED vars
    BY <1>1 DEF vars, disk
  <2> QED
    BY <1>1, <2>2, <2>3, <2>4, <2>5, <2>6 DEF Next
<1>2. PipelineInv /\ WriteLock => lockFile' = lf /\ InstalledAsSelected
  BY DEF WriteLock, PipelineInv, FilesInv, InstalledAsSelected, Has, OwnedBy, Settled, Pruned
<1>3. PipelineInv /\ [Next]_vars =>
        [lockFile' # lockFile /\ pc \in InRun => lockFile' = lf /\ InstalledAsSelected]_vars
  BY <1>1, <1>2
<1> QED
  BY <1>3, PipelineCorrect, PTL DEF Spec, LockComesLast
===============================================================================
