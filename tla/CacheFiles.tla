----------------------------- MODULE CacheFiles -----------------------------
(***************************************************************************)
(* The files libnss-cache reads and the tools that write them: the map     *)
(* files the synchroniser replaces by renaming a new file into place, and  *)
(* the index files made by scripts/index.sh and switched in and out by     *)
(* name.  A process that has a file open keeps the file it opened: only    *)
(* the name changes hands.                                                 *)
(***************************************************************************)
EXTENDS NssData

CONSTANTS
  Paths,           \* names a map file can have
  InitialContents, \* what the map files may hold at the start (None: absent)
  ClockSteps,      \* seconds that may pass before a write: {1} or {0, 1}
  OverlapIndexer,  \* may a map be replaced while the indexer runs?
  IndexKinds,      \* the indexes that are built
  MaxTime          \* bound on the clock, to keep the model finite

ASSUME CacheFilesAssumption ==
  /\ InitialContents \subseteq Contents \cup {None}
  /\ ClockSteps \subseteq Nat
  /\ OverlapIndexer \in BOOLEAN
  /\ IndexKinds \subseteq Kinds
  /\ MaxTime \in Nat

VARIABLES
  system,   \* map files by name: None or [data, mtime]
  index,    \* index files by map file and kind: None or an Index
  indexer,  \* the running indexer: None or what it indexes
  now       \* the clock that stamps files, in seconds

fileVars == <<system, index, indexer, now>>

SystemFile == [data : Contents, mtime : Nat]
IndexerRun == [path : Paths, kind : Kinds, data : Contents]

ASSUME AbsentAssumption == None \notin SystemFile \cup Index \cup IndexerRun

FilesTypeOK ==
  /\ system \in [Paths -> SystemFile \cup {None}]
  /\ index \in [Paths -> [Kinds -> Index \cup {None}]]
  /\ indexer \in IndexerRun \cup {None}
  /\ now \in Nat

FilesInit ==
  /\ \E f \in [Paths -> InitialContents] :
       system = [p \in Paths |-> IF f[p] = None THEN None
                                 ELSE [data |-> f[p], mtime |-> 0]]
  /\ index = [p \in Paths |-> [k \in Kinds |-> None]]
  /\ indexer = None
  /\ now = 0

(* The clock when a file is written. *)
Stamp == /\ now' \in {now + d : d \in ClockSteps}
         /\ now' <= MaxTime

(* The synchroniser puts a new version of a map in place, in the second in *)
(* which it has written it.  (A file that was written earlier keeps its    *)
(* older time when it is renamed: this is in IndexFile.)                   *)
UpdateSystem(p, c) ==
  /\ indexer # None => OverlapIndexer
  /\ Stamp
  /\ system' = [system EXCEPT ![p] = [data |-> c, mtime |-> now']]
  /\ UNCHANGED <<index, indexer>>

(* scripts/index.sh reads the map file it is given. *)
StartIndexer(p, k) ==
  /\ k \in IndexKinds
  /\ indexer = None
  /\ system[p] # None
  /\ indexer' = [path |-> p, kind |-> k, data |-> system[p].data]
  /\ UNCHANGED <<system, index, now>>

(* scripts/index.sh has written its output and the index gets its name. *)
FinishIndexer ==
  /\ indexer # None
  /\ Stamp
  /\ \E recs \in IndexesOf(indexer.data, indexer.kind) :
       index' = [index EXCEPT ![indexer.path][indexer.kind] =
                                 [recs |-> recs, mtime |-> now']]
  /\ indexer' = None
  /\ UNCHANGED system

(* An index is taken away. *)
RemoveIndex(p, k) ==
  /\ index[p][k] # None
  /\ index' = [index EXCEPT ![p][k] = None]
  /\ UNCHANGED <<system, indexer, now>>
=============================================================================
