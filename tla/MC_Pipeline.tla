----------------------------- MODULE MC_Pipeline -----------------------------
(***************************************************************************)
(* Two packages, two versions.  composer.json requires nothing, package 1, *)
(* or package 1 and for development package 2.                             *)
(***************************************************************************)
EXTENDS Pipeline

Requires(r, d) == [require |-> r, requireDev |-> d]

MCManifests == {Requires({}, {}), Requires({1}, {}), Requires({1}, {2})}

\* Parts of the state no later step and no property looks at are left out of the
\* view: cache entries under a readable lock (install uses such a lock itself,
\* update reads no entry), the autoloader before it is generated, the manifest
\* parsed once it is resolved, the snapshots but for the transaction that took
\* them, what only a next resolution reads when there is none, and the disk after
\* the last run.
Unresolved == pc \in {"pre", "resolve"}
Readable == [k \in {j \in DOMAIN resolution : j.lock \notin LockFile} |-> resolution[k]]
Sources == IF runs < MaxRuns \/ Unresolved THEN <<published, Readable>> ELSE <<>>
Parsed == IF Unresolved THEN m ELSE <<>>
Snapshots == IF cmd \in Transactions /\ pc # "done" THEN before ELSE <<>>
Loaded == IF pc \in {"lock", "post", "done"} THEN autoload ELSE {}
Live ==
  IF pc = "idle" /\ runs = MaxRuns THEN <<>>
  ELSE <<Sources, manifest, lockFile, vendor, Loaded, pc, cmd, noDev, Parsed, bytes, prev, lf,
         Snapshots, todo, undisturbed, runs>>
===============================================================================
