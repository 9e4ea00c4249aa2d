---------------------------- MODULE ContentStore ----------------------------
(***************************************************************************)
(* What internal/store promises to everyone who shares one cache: a map    *)
(* from sha256 to the bytes with that hash and to the tree those bytes     *)
(* unpack to.  Entries appear whole, and never change or disappear.        *)
(*                                                                         *)
(* A directory tree is a function from the entries it holds to the archive *)
(* each of them came from.  Entries are integers in the order in which a   *)
(* directory walk visits them; 0 is the marker file .gomposer-sha.         *)
(***************************************************************************)
EXTENDS Integers

CONSTANTS
  Sha,       \* the archives, each named by its sha256
  Path,      \* the files archives may hold
  Contents,  \* Contents[s]: the files of archive s
  Absent     \* no archive

Marker == 0

Tree == UNION {[D -> Sha] : D \in SUBSET (Path \cup {Marker})}

EmptyTree == [e \in {} |-> Absent]

\* The tree that extracting archive s leaves behind, marker included.
Complete(s) == [e \in Contents[s] \cup {Marker} |-> s]

\* The test of HasExpanded and of Materialize: the marker names s.
Marked(t, s) == Marker \in DOMAIN t /\ t[Marker] = s

VARIABLES
  zips,     \* zips[s]: whose bytes the file <s>.zip holds
  expanded  \* expanded[s]: the tree expanded/<s>

Init ==
  /\ zips = [s \in Sha |-> Absent]
  /\ expanded = [s \in Sha |-> EmptyTree]

AddZip(s) == zips' = [zips EXCEPT ![s] = s] /\ UNCHANGED expanded

AddTree(s) ==
  /\ zips[s] = s /\ expanded[s] = EmptyTree
  /\ expanded' = [expanded EXCEPT ![s] = Complete(s)]
  /\ UNCHANGED zips

Next == \E s \in Sha : AddZip(s) \/ AddTree(s)

Spec == Init /\ [][Next]_<<zips, expanded>>
=============================================================================
