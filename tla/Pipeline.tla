------------------------------- MODULE Pipeline -------------------------------
(***************************************************************************)
(* One project from composer.json to vendor/: install, update, require and *)
(* remove (internal/orchestrator/pipeline.go and orchestrator.go, and the  *)
(* dependencyTransaction of internal/cli/require.go), run after run.       *)
(*                                                                         *)
(* A step is a phase of runFullPipeline, or one package of a phase that    *)
(* changes vendor/ package by package.  Any phase may fail, the context    *)
(* may be cancelled (which fails the phase), and the process may be killed *)
(* between any two steps.  Between runs the user edits composer.json or    *)
(* loses gomposer.lock.                                                    *)
(*                                                                         *)
(* The resolver is reduced to what matters here: packages require nothing, *)
(* and each resolves to the newest version published so far.               *)
(***************************************************************************)
EXTENDS Integers, FiniteSets

CONSTANTS
  Package, Version,
  Manifests,  \* bound: the composer.json the project may have
  NoLock,     \* there is no gomposer.lock
  Corrupt,    \* gomposer.lock does not decode (lock.Decode)
  MaxRuns     \* bound: the number of runs

\* Partial functions: what is required, locked or installed at which version.
Selection == UNION {[D -> Version] : D \in SUBSET Package}
Nothing == [q \in {} |-> 0]

Manifest == [require : SUBSET Package, requireDev : SUBSET Package]

ASSUME VersionAssumption == Version \subseteq Nat /\ Version # {}
ASSUME ManifestsAssumption ==
  Manifests \subseteq {m \in Manifest : m.require \cap m.requireDev = {}}

\* lock.File: ManifestContentHash, Packages, PackagesDev.
LockFile == [of : Manifest, prod : Selection, dev : Selection]

ASSUME RunsAssumption == MaxRuns \in Nat
ASSUME LockAssumption == {NoLock, Corrupt} \cap LockFile = {} /\ NoLock # Corrupt

VARIABLES
  published,   \* the newest version of every package
  manifest,    \* composer.json
  lockFile,    \* gomposer.lock: a LockFile, NoLock or Corrupt
  vendor,      \* what is in vendor/, whole packages only (see Artifacts)
  autoload,    \* the packages vendor/autoload.php loads
  resolution,  \* the resolution cache: a partial function from cache keys to LockFile
  pc,          \* the phase the run is in, or how the last one ended
  cmd, noDev,  \* the command and --no-dev
  m,           \* the manifest Install or Update has parsed
  bytes, prev, \* ps.manifestBytes and ps.lockBytes: read again after the pre script
  lf,          \* the lock resolveOrCache returned
  todo,        \* the packages the phase has yet to handle
  before,      \* the snapshots of dependencyTransaction
  undisturbed, \* no run failed or was killed so far, and nobody lost the lock
  runs

disk == <<manifest, lockFile, vendor, autoload, resolution>>
call == <<cmd, noDev, m, bytes, prev, lf, before>>
vars == <<published, disk, pc, call, todo, undisturbed, runs>>

\* No process is running.  Of a run that was killed, or of an install or update
\* that failed, nothing but the disk is left: "idle" again.  "untouched": an install
\* has reported success without running the pipeline.
AtRest == {"idle", "untouched", "done", "failed"}
InRun == {"pre", "resolve", "materialize", "prune", "autoload", "lock", "post"}
Rollback == {"restoreManifest", "restoreLock"}

Transactions == {"require", "remove"}
Empty == [require |-> {}, requireDev |-> {}]
NoFile == [of |-> Empty, prod |-> Nothing, dev |-> Nothing]

TypeOK ==
  /\ published \in Version
  /\ manifest \in Manifest /\ m \in Manifest /\ bytes \in Manifest
  /\ lockFile \in LockFile \cup {NoLock, Corrupt}
  /\ prev \in LockFile \cup {NoLock, Corrupt}
  /\ lf \in LockFile
  /\ vendor \in Selection
  /\ autoload \subseteq Package /\ todo \subseteq Package
  /\ DOMAIN resolution \subseteq [manifest : Manifest, lock : LockFile \cup {NoLock, Corrupt}]
  /\ \A k \in DOMAIN resolution : resolution[k] \in LockFile
  /\ pc \in AtRest \cup InRun \cup Rollback
  /\ cmd \in {"install", "update"} \cup Transactions
  /\ noDev \in BOOLEAN /\ undisturbed \in BOOLEAN
  /\ before.manifest \in Manifest /\ before.lock \in LockFile \cup {NoLock, Corrupt}
  /\ pc = "materialize" => todo \subseteq DOMAIN lf.prod \cup (IF noDev THEN {} ELSE DOMAIN lf.dev)
  /\ runs \in 0 .. MaxRuns

\* Fault: a lock is never trusted.
ForceResolveAlways == TRUE

ForceResolve == cmd # "install"

Locked(f) == DOMAIN f.prod \cup DOMAIN f.dev

\* `all` in runFullPipeline: the packages this run installs.
Selected ==
  [q \in DOMAIN lf.prod \cup (IF noDev THEN {} ELSE DOMAIN lf.dev) |->
     IF q \in DOMAIN lf.prod THEN lf.prod[q] ELSE lf.dev[q]]

Installed(q, v) == [r \in DOMAIN vendor \cup {q} |-> IF r = q THEN v ELSE vendor[r]]
Removed(q) == [r \in DOMAIN vendor \ {q} |-> vendor[r]]

\* The process has exited; nothing of its memory is left.
Exited ==
  /\ cmd' = "install" /\ noDev' = FALSE
  /\ m' = Empty /\ bytes' = Empty /\ prev' = NoLock /\ lf' = NoFile
  /\ before' = [manifest |-> Empty, lock |-> NoLock]

(***************************************************************************)
(* Between runs.                                                           *)
(***************************************************************************)
Publish ==
  /\ pc \in AtRest
  /\ \E v \in Version : v > published /\ published' = v
  /\ pc' = "idle" /\ Exited
  /\ UNCHANGED <<disk, todo, undisturbed, runs>>

\* The user, or a pre-install-cmd or pre-update-cmd script, edits composer.json.
EditManifest ==
  /\ manifest' \in Manifests
  /\ \/ pc \in AtRest /\ pc' = "idle" /\ Exited
     \/ pc = "pre" /\ UNCHANGED <<pc, call>>
  /\ UNCHANGED <<published, lockFile, vendor, autoload, resolution, todo, undisturbed, runs>>

LoseLock ==
  /\ pc \in AtRest
  /\ lockFile' \in {NoLock, Corrupt}
  /\ undisturbed' = FALSE
  /\ pc' = "idle" /\ Exited
  /\ UNCHANGED <<published, manifest, vendor, autoload, resolution, todo, runs>>

(***************************************************************************)
(* The commands.                                                           *)
(***************************************************************************)
\* updateManifestRequirements and updateManifestRemovals.
Mutated(c, q, dev) ==
  IF c = "remove"
  THEN IF dev THEN [manifest EXCEPT !.requireDev = @ \ {q}] ELSE [manifest EXCEPT !.require = @ \ {q}]
  ELSE IF dev
  THEN [require |-> manifest.require \ {q}, requireDev |-> manifest.requireDev \cup {q}]
  ELSE [require |-> manifest.require \cup {q}, requireDev |-> manifest.requireDev \ {q}]

\* A command starts and parses the manifest mf.
Begin(c, mf, flag) ==
  /\ cmd' = c /\ noDev' = flag /\ m' = mf /\ manifest' = mf
  /\ pc' = "pre"
  /\ bytes' = Empty /\ prev' = NoLock /\ lf' = NoFile
  /\ runs' = runs + 1
  /\ UNCHANGED <<published, lockFile, vendor, autoload, resolution, todo, undisturbed>>

\* run: install returns at once for an empty manifest, whatever the lock says and
\* vendor/ holds; update goes on, to prune what the lock still names.
InstallNothing ==
  /\ pc \in AtRest /\ runs < MaxRuns
  /\ manifest = Empty
  /\ pc' = "untouched" /\ Exited
  /\ runs' = runs + 1
  /\ UNCHANGED <<published, disk, todo, undisturbed>>

Command ==
  /\ pc \in AtRest /\ runs < MaxRuns
  /\ \E c \in {"install", "update"}, flag \in BOOLEAN :
       /\ ~ (c = "install" /\ manifest = Empty)
       /\ Begin(c, manifest, flag)
  /\ UNCHANGED before

\* dependencyTransaction: snapshot both files, write composer.json, update.
Transaction ==
  /\ pc \in AtRest /\ runs < MaxRuns
  /\ \E c \in Transactions, q \in Package, dev, flag \in BOOLEAN :
       /\ c = "remove" => q \in IF dev THEN manifest.requireDev ELSE manifest.require
       /\ Mutated(c, q, dev) \in Manifests
       /\ Begin(c, Mutated(c, q, dev), flag)
  /\ before' = [manifest |-> manifest, lock |-> lockFile]

\* The pre script has run; newPipelineState reads composer.json and gomposer.lock.
ReadState ==
  /\ pc = "pre"
  /\ bytes' = manifest /\ prev' = lockFile
  /\ pc' = "resolve"
  /\ UNCHANGED <<published, disk, cmd, noDev, m, lf, before, todo, undisturbed, runs>>

(***************************************************************************)
(* resolveOrCache.                                                         *)
(***************************************************************************)
\* computeCacheKey; the platform does not change here.
CacheKey == [manifest |-> bytes, lock |-> prev]

\* buildLockFile over Solve: the hash is that of the bytes read, the packages
\* are those of the manifest parsed.
Resolved ==
  [of |-> bytes,
   prod |-> [q \in m.require |-> published],
   dev |-> [q \in IF noDev THEN {} ELSE m.requireDev |-> published]]

\* Fault: --no-dev is forgotten.
StartMaterializingAll(f) == lf' = f /\ todo' = Locked(f) /\ pc' = "materialize"

StartMaterializing(f) ==
  /\ lf' = f
  /\ todo' = DOMAIN f.prod \cup (IF noDev THEN {} ELSE DOMAIN f.dev)
  /\ pc' = "materialize"

UseLock ==
  /\ pc = "resolve" /\ m # Empty
  /\ ~ ForceResolve /\ prev \in LockFile
  /\ StartMaterializing(prev)
  /\ UNCHANGED <<published, disk, cmd, noDev, m, bytes, prev, before, undisturbed, runs>>

UseCache ==
  /\ pc = "resolve" /\ m # Empty
  /\ ~ ForceResolve /\ prev \notin LockFile /\ CacheKey \in DOMAIN resolution
  /\ StartMaterializing(resolution[CacheKey])
  /\ UNCHANGED <<published, disk, cmd, noDev, m, bytes, prev, before, undisturbed, runs>>

\* Writing the cache entry is best effort.
Resolve ==
  /\ pc = "resolve" /\ m # Empty
  /\ ForceResolve \/ (prev \notin LockFile /\ CacheKey \notin DOMAIN resolution)
  /\ StartMaterializing(Resolved)
  /\ \/ resolution' = [k \in DOMAIN resolution \cup {CacheKey} |->
                         IF k = CacheKey THEN Resolved ELSE resolution[k]]
     \/ UNCHANGED resolution
  /\ UNCHANGED <<published, manifest, lockFile, vendor, autoload, cmd, noDev, m, bytes, prev, before, undisturbed, runs>>

\* Fault: only the packages of the old lock's require side are looked at.
ObsoleteProdOnly(old, sel) == IF old \in LockFile THEN DOMAIN old.prod \ sel ELSE {}

\* Fault: what stays is not looked at.
ObsoleteKeepingNothing(old, sel) == IF old \in LockFile THEN Locked(old) ELSE {}

\* pruneVendor: what the previous lock owned and this run does not install.
Obsolete(old, sel) == IF old \in LockFile THEN Locked(old) \ sel ELSE {}

\* runEmptyUpdate.
ResolveEmpty ==
  /\ pc = "resolve" /\ m = Empty
  /\ lf' = [of |-> bytes, prod |-> Nothing, dev |-> Nothing]
  /\ todo' = Obsolete(prev, {})
  /\ pc' = "prune"
  /\ UNCHANGED <<published, disk, cmd, noDev, m, bytes, prev, before, undisturbed, runs>>

(***************************************************************************)
(* fetchAll and materializeAll (see Artifacts), pruneVendor and the rest.  *)
(***************************************************************************)
Materialize(q) ==
  /\ pc = "materialize" /\ q \in todo
  /\ vendor' = Installed(q, Selected[q])
  /\ todo' = todo \ {q}
  /\ UNCHANGED <<published, manifest, lockFile, autoload, resolution, pc, call, undisturbed, runs>>

\* Fault: the lock is written as soon as its packages are there.
MaterializeDoneLocked ==
  /\ pc = "materialize" /\ todo = {}
  /\ todo' = Obsolete(prev, DOMAIN Selected)
  /\ lockFile' = lf
  /\ pc' = "prune"
  /\ UNCHANGED <<published, manifest, vendor, autoload, resolution, call, undisturbed, runs>>

MaterializeDone ==
  /\ pc = "materialize" /\ todo = {}
  /\ todo' = Obsolete(prev, DOMAIN Selected)
  /\ pc' = "prune"
  /\ UNCHANGED <<published, disk, call, undisturbed, runs>>

Prune(q) ==
  /\ pc = "prune" /\ q \in todo
  /\ vendor' = Removed(q)
  /\ todo' = todo \ {q}
  /\ UNCHANGED <<published, manifest, lockFile, autoload, resolution, pc, call, undisturbed, runs>>

PruneDone ==
  /\ pc = "prune" /\ todo = {}
  /\ pc' = "autoload"
  /\ UNCHANGED <<published, disk, call, todo, undisturbed, runs>>

GenerateAutoloader ==
  /\ pc = "autoload"
  /\ autoload' = DOMAIN Selected
  /\ pc' = "lock"
  /\ UNCHANGED <<published, manifest, lockFile, vendor, resolution, call, todo, undisturbed, runs>>

WriteLock ==
  /\ pc = "lock"
  /\ lockFile' = lf
  /\ pc' = "post"
  /\ UNCHANGED <<published, manifest, vendor, autoload, resolution, call, todo, undisturbed, runs>>

PostScript ==
  /\ pc = "post"
  /\ pc' = "done"
  /\ UNCHANGED <<published, disk, call, todo, undisturbed, runs>>

(***************************************************************************)
(* Failure, rollback, kill.                                                *)
(***************************************************************************)
\* A script, the registry, a download, the disk, or a cancelled context.  The
\* package that was being replaced may be gone from vendor/.
Fail ==
  /\ pc \in InRun
  /\ \/ cmd \in Transactions /\ pc' = "restoreManifest" /\ UNCHANGED call
     \/ cmd \notin Transactions /\ pc' = "idle" /\ Exited
  /\ \/ UNCHANGED vendor
     \/ pc = "materialize" /\ \E q \in todo \cap DOMAIN vendor :
          vendor[q] # Selected[q] /\ vendor' = Removed(q)
  /\ todo' = {}
  /\ undisturbed' = FALSE
  /\ UNCHANGED <<published, manifest, lockFile, autoload, resolution, runs>>

RestoreManifest ==
  /\ pc = "restoreManifest"
  /\ manifest' = before.manifest
  /\ pc' = "restoreLock"
  /\ UNCHANGED <<published, lockFile, vendor, autoload, resolution, call, todo, undisturbed, runs>>

\* Fault: only a lock that existed is put back.
RestoredIfPresent(f) == IF f = NoLock THEN lockFile ELSE f

\* restoreFile: a lock that did not exist is removed.
Restored(f) == f

RestoreLock ==
  /\ pc = "restoreLock"
  /\ lockFile' = Restored(before.lock)
  /\ pc' = "failed"
  /\ UNCHANGED <<published, manifest, vendor, autoload, resolution, call, todo, undisturbed, runs>>

Kill ==
  /\ pc \in InRun \cup Rollback
  /\ pc' = "idle" /\ Exited
  /\ \/ UNCHANGED vendor
     \/ pc = "materialize" /\ \E q \in todo \cap DOMAIN vendor :
          vendor[q] # Selected[q] /\ vendor' = Removed(q)
  /\ todo' = {}
  /\ undisturbed' = FALSE
  /\ UNCHANGED <<published, manifest, lockFile, autoload, resolution, runs>>

-------------------------------------------------------------------------------
Init ==
  /\ published \in Version /\ \A v \in Version : published <= v
  /\ manifest \in Manifests
  /\ lockFile = NoLock
  /\ vendor = Nothing /\ autoload = {}
  /\ resolution = [k \in {} |-> NoFile]
  /\ pc = "idle"
  /\ cmd = "install" /\ noDev = FALSE
  /\ m = Empty /\ bytes = Empty /\ prev = NoLock /\ lf = NoFile
  /\ todo = {}
  /\ before = [manifest |-> Empty, lock |-> NoLock]
  /\ undisturbed = TRUE
  /\ runs = 0

Next ==
  \/ Publish \/ EditManifest \/ LoseLock
  \/ InstallNothing \/ Command \/ Transaction \/ ReadState
  \/ UseLock \/ UseCache \/ Resolve \/ ResolveEmpty
  \/ MaterializeDone \/ PruneDone \/ GenerateAutoloader \/ WriteLock \/ PostScript
  \/ \E q \in Package : Materialize(q) \/ Prune(q)
  \/ Fail \/ RestoreManifest \/ RestoreLock \/ Kill

Spec == Init /\ [][Next]_vars

-------------------------------------------------------------------------------
\* vendor/ and the autoloader hold what this run installs, and nothing the previous
\* lock owned beyond that is left.
InstalledAsSelected ==
  /\ \A q \in DOMAIN Selected : q \in DOMAIN vendor /\ vendor[q] = Selected[q]
  /\ autoload = DOMAIN Selected
  /\ prev \in LockFile => DOMAIN vendor \cap Locked(prev) \subseteq DOMAIN Selected

\* When a command that runs the pipeline reports success, gomposer.lock, vendor/ and
\* the autoloader agree: after any sequence of failed, cancelled, rolled back and
\* killed runs, which leave all three at odds, one successful run repairs them.  An
\* install for an empty manifest runs none of it (orchestrator.go:179).
InstalledAsLocked == pc = "done" => lockFile = lf /\ InstalledAsSelected

\* runFullPipeline writes gomposer.lock after everything else: a lock that a run
\* changes describes what is already in vendor/ and loaded, so a run that stops
\* anywhere leaves no new lock that promises more than is installed.
LockComesLast ==
  [][lockFile' # lockFile /\ pc \in InRun => lockFile' = lf /\ InstalledAsSelected]_vars

\* As long as every run succeeds and the lock is not lost, vendor/ holds what
\* the last run selected and nothing else, whatever --no-dev was in between:
\* pruning by the previous lock alone removes every package that must go.
VendorIsExact == pc = "done" /\ undisturbed => vendor = Selected

\* A require or remove that fails restores both composer.json and gomposer.lock
\* (README.md:88), also when the new lock was already written.
TransactionAtomic ==
  pc = "failed" /\ cmd \in Transactions =>
    manifest = before.manifest /\ lockFile = before.lock

\* install leaves a lock alone that was written for this composer.json: it
\* installs the versions recorded there, whatever was published since.
InstallKeepsLock ==
  [][cmd = "install" /\ pc \in InRun /\ lockFile \in LockFile /\ lockFile.of = bytes
       => lockFile' = lockFile]_vars

\* install uses gomposer.lock "when it's present and up to date"
\* (handbook/book/cli-reference.md:66).
InstallUsesUpToDateLock == pc = "done" /\ cmd = "install" => lf.of = bytes

\* The resolution cache serves no "stale entries ... on changed inputs"
\* (cachekey.go:19): an install that has no lock to use installs what
\* composer.json requires, require-dev included unless --no-dev says otherwise.
FreshInstallIsComplete ==
  pc = "done" /\ cmd = "install" /\ prev \notin LockFile =>
    DOMAIN Selected = m.require \cup (IF noDev THEN {} ELSE m.requireDev)
===============================================================================
