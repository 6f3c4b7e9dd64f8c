--------------------------- MODULE NssCacheProofs ---------------------------
(***************************************************************************)
(* Theorems about NssCache, for all values of its constants.               *)
(*                                                                         *)
(* Everything rests on one inductive invariant, IInv.  TypeOK alone is not *)
(* inductive: a step of a linear search reads through the map's stream,    *)
(* which is only known to be open because no other thread has run between  *)
(* UNLOCK and LOCK; so the invariant has to speak of the mutex, of the     *)
(* request that brought a thread to its step, and of the stream, together. *)
(***************************************************************************)
EXTENDS NssCacheProperties, TLAPS

(* The steps of keyed lookups. *)
LookupPcs == {"getnam", "openindex", "checkindex", "match", "setup", "scan",
              "finish"}

(* A thread is at a step of the call it was asked to make. *)
AtOwnStep ==
  \A t \in Threads :
    /\ pc[t] \in EntOps \cup {"getnam"} => req[t].op = pc[t]
    /\ pc[t] \in LookupPcs => req[t].op \in LookupOps
    /\ pc[t] = "checkindex" => ix[t] # None

(* The answer of a lookup, from the moment it is known. *)
AnswerMatches ==
  \A t \in Threads :
    /\ pc[t] \in {"idle", "finish"} /\ req[t] # None
    /\ req[t].op \in LookupOps /\ out[t].ret = "SUCCESS"
    => out[t].res # None /\ KeyOf(out[t].res, Kind(req[t])) = req[t].key

(* A linear search has an open stream, placed at the start of a line or at *)
(* the end of the file, and every line it has passed holds another key.    *)
ScanProgress ==
  \A t \in Threads : pc[t] = "scan" =>
    LET s == stream[req[t].map] IN
    /\ s # None
    /\ s.pos \in Starts(s.data) \cup {Len(s.data) + 1}
    /\ \A p \in Lines(s.data) :
         p < s.pos => KeyOf(s.data[p], Kind(req[t])) # req[t].key

IInv == /\ TypeOK
        /\ ExclusiveAccess
        /\ AtOwnStep
        /\ AnswerMatches
        /\ ScanProgress

-----------------------------------------------------------------------------
(* Lemmas about the data. *)

(* Units and positions of a file that may be in place. *)
LEMMA FileFacts ==
  ASSUME NEW c \in Contents
  PROVE  /\ c \in Seq(Unit)
         /\ Len(c) \in Nat
         /\ DOMAIN c = 1..Len(c)
         /\ WellFormed(c)
         /\ \A p \in DOMAIN c : /\ c[p] \in Unit
                                /\ c[p].next \in Nat \ {0}
                                /\ c[p].next > p
                                /\ c[p].need \in Nat
<1>1. c \in Seq(Unit) /\ WellFormed(c)
  BY ContentsAssumption
<1>2. Len(c) \in Nat /\ DOMAIN c = 1..Len(c)
  BY <1>1
<1>3. ASSUME NEW p \in DOMAIN c
      PROVE  c[p] \in Unit /\ c[p].next \in Nat \ {0} /\ c[p].next > p /\ c[p].need \in Nat
  <2>1. c[p] \in Unit
    BY <1>1, <1>2
  <2>2. p < c[p].next /\ p \in Nat
    BY <1>1, <1>2 DEF WellFormed
  <2> QED
    BY <2>1, <2>2 DEF Unit
<1> QED
  BY <1>1, <1>2, <1>3

(* What one read of an entry may answer, and where it leaves the stream. *)
LEMMA ReadFacts ==
  ASSUME NEW c \in Contents, NEW o \in Nat \ {0}, NEW buf \in Nat,
         NEW r \in Read(c, o, buf)
  PROVE  /\ r.errno \in {"0", "ENOENT", "ERANGE"}
         /\ r.at \in StopsAt(c, o, buf)
         /\ r.pos \in Nat \ {0}
         /\ r.errno = "ENOENT" => r.at = Len(c) + 1 /\ r.pos = Len(c) + 1
         /\ r.errno = "0" => /\ r.at \in DOMAIN c
                             /\ c[r.at] \in Unit
                             /\ r.pos = c[r.at].next
<1>1. PICK p \in StopsAt(c, o, buf) :
        r \in IF p = Len(c) + 1 THEN {[errno |-> "ENOENT", at |-> p, pos |-> p]}
              ELSE IF c[p].need <= buf
                THEN {[errno |-> "0", at |-> p, pos |-> c[p].next]}
              ELSE IF ReadRestores
                THEN {[errno |-> "ERANGE", at |-> p, pos |-> p]}
              ELSE {[errno |-> "ERANGE", at |-> p, pos |-> q] :
                      q \in (p + 1)..c[p].next}
  BY DEF Read
<1>2. Len(c) \in Nat /\ DOMAIN c = 1..Len(c)
  BY FileFacts
<1>3. p \in Nat \ {0} /\ p <= Len(c) + 1
  BY <1>2 DEF StopsAt
<1>4. CASE p = Len(c) + 1
  <2>1. r = [errno |-> "ENOENT", at |-> p, pos |-> p]
    BY <1>1, <1>4
  <2> QED
    BY <2>1, <1>3, <1>4
<1>5. CASE p # Len(c) + 1 /\ c[p].need <= buf
  <2>1. r = [errno |-> "0", at |-> p, pos |-> c[p].next]
    BY <1>1, <1>5
  <2>2. p \in DOMAIN c
    BY <1>2, <1>3, <1>5
  <2> QED
    BY <2>1, <2>2, <1>3, FileFacts
<1>6. CASE p # Len(c) + 1 /\ ~(c[p].need <= buf)
  <2>1. p \in DOMAIN c
    BY <1>2, <1>3, <1>6
  <2>2. c[p].next \in Nat
    BY <2>1, FileFacts
  <2>3. PICK q \in Nat \ {0} : r = [errno |-> "ERANGE", at |-> p, pos |-> q]
    <3>1. CASE ReadRestores
      BY <1>1, <1>3, <1>6, <3>1
    <3>2. CASE ~ReadRestores
      <4>1. r \in {[errno |-> "ERANGE", at |-> p, pos |-> q] : q \in (p + 1)..c[p].next}
        BY <1>1, <1>6, <3>2
      <4> QED
        BY <4>1, <1>3, <2>2
    <3> QED
      BY <3>1, <3>2
  <2> QED
    BY <2>3, <1>3
<1> QED
  BY <1>4, <1>5, <1>6

(* A read that starts at a line passes no entry on its way to the line it  *)
(* stops at, and one that succeeds leaves the stream at a line again.      *)
LEMMA ReadPassesNoEntry ==
  ASSUME NEW c \in Contents, NEW buf \in Nat,
         NEW o \in Starts(c) \cup {Len(c) + 1},
         NEW r \in Read(c, o, buf)
  PROVE  /\ o \in Nat \ {0}
         /\ \A q \in Lines(c) : q >= o => q >= r.at
         /\ r.errno = "0" =>
              /\ r.pos \in Starts(c) \cup {Len(c) + 1}
              /\ \A q \in Lines(c) : q < r.pos => q <= r.at
<1>1. Len(c) \in Nat /\ DOMAIN c = 1..Len(c) /\ WellFormed(c)
  BY FileFacts
<1>2. o \in Nat \ {0}
  BY <1>1 DEF Starts
<1>3. r.at \in StopsAt(c, o, buf)
  BY <1>2, ReadFacts
<1>4. r.at \in Nat
  BY <1>1, <1>2, <1>3 DEF StopsAt
<1>5. ASSUME NEW q \in Lines(c), q >= o, q < r.at
      PROVE  FALSE
  <2>1. q \in DOMAIN c /\ c[q].start /\ c[q].ok
    BY DEF Lines, Starts
  <2>2. q \in o..(r.at - 1)
    BY <1>1, <1>2, <1>4, <1>5, <2>1
  <2>3. ~Stops(c, o, buf, q)
    BY <1>3, <2>2 DEF StopsAt
  <2> QED
    BY <2>1, <2>3 DEF Stops
<1>6. ASSUME r.errno = "0"
      PROVE  /\ r.pos \in Starts(c) \cup {Len(c) + 1}
             /\ \A q \in Lines(c) : q < r.pos => q <= r.at
  <2>1. r.at \in DOMAIN c /\ r.pos = c[r.at].next
    BY <1>2, <1>6, ReadFacts
  <2>2. r.pos \in Nat \ {0} /\ r.pos <= Len(c) + 1
    BY <1>1, <2>1, FileFacts DEF WellFormed
  <2>3. r.pos \in DOMAIN c => c[r.pos].start
    BY <1>1, <2>1 DEF WellFormed
  <2>4. ASSUME NEW q \in Lines(c), q < r.pos, ~(q <= r.at)
        PROVE  FALSE
    <3>1. q \in DOMAIN c /\ c[q].start
      BY DEF Lines, Starts
    <3>2. q \in (r.at + 1)..(c[r.at].next - 1)
      BY <1>1, <1>4, <2>1, <2>2, <2>4, <3>1
    <3> QED
      BY <1>1, <2>1, <3>1, <3>2 DEF WellFormed
  <2> QED
    BY <1>1, <2>2, <2>3, <2>4 DEF Starts
<1>7. ASSUME NEW q \in Lines(c), q >= o
      PROVE  q >= r.at
  <2>1. q \in Nat
    BY <1>1 DEF Lines, Starts
  <2> QED
    BY <1>4, <1>5, <1>7, <2>1
<1> QED
  BY <1>2, <1>6, <1>7
-----------------------------------------------------------------------------
(* Lemmas about the operators of NssCache. *)

(* _nss_cache_getXXent_r_locked answers with a status, puts nothing but a  *)
(* unit of the file in the result, and keeps reading the same file.        *)
LEMMA GetentLockedFacts ==
  ASSUME NEW m \in Maps, NEW s \in Stream, NEW buf \in Nat,
         NEW o \in GetentLocked(m, s, buf)
  PROVE  \E r \in Read(s.data, s.pos, buf) :
           /\ o.at = r.at /\ o.at \in Nat
           /\ Result(o) \in Outcome
           /\ Result(o).ret = o.ret /\ Result(o).res = o.res
           /\ o.stream \in Stream /\ o.stream.data = s.data
           /\ o.ret = "NOTFOUND" => r.errno = "ENOENT"
           /\ o.ret = "SUCCESS" => /\ r.errno = "0"
                                   /\ o.res = s.data[r.at]
                                   /\ o.res \in Unit
                                   /\ o.stream.pos = r.pos
<1>1. PICK r \in Read(s.data, s.pos, buf) :
        o = [ret    |-> IF r.errno = "0" THEN "SUCCESS" ELSE BadReturnCode(r.errno),
             errnop |-> IF r.errno = "0" THEN "unset"
                        ELSE IF r.errno = "ENOENT" THEN "0" ELSE r.errno,
             res    |-> IF r.errno = "0" THEN s.data[r.at] ELSE None,
             at     |-> r.at,
             stream |-> [s EXCEPT !.pos = PosAfter(m, s, r)]]
  BY DEF GetentLocked
<1>2. s.data \in Contents /\ s.pos \in Nat \ {0}
  BY DEF Stream
<1>3. /\ r.errno \in {"0", "ENOENT", "ERANGE"}
      /\ r.at \in StopsAt(s.data, s.pos, buf)
      /\ r.pos \in Nat \ {0}
      /\ r.errno = "0" => s.data[r.at] \in Unit
  BY <1>2, ReadFacts
<1>4. r.at \in Nat
  BY <1>2, <1>3, FileFacts DEF StopsAt
<1>5. PosAfter(m, s, r) \in Nat \ {0} /\ (r.errno = "0" => PosAfter(m, s, r) = r.pos)
  BY <1>2, <1>3 DEF PosAfter
<1>6. o.stream = [s EXCEPT !.pos = PosAfter(m, s, r)]
  BY <1>1
<1>7. o.stream \in Stream /\ o.stream.data = s.data /\ o.stream.pos = PosAfter(m, s, r)
  BY <1>5, <1>6 DEF Stream
<1>8. /\ o.ret = (IF r.errno = "0" THEN "SUCCESS" ELSE BadReturnCode(r.errno))
      /\ o.errnop = (IF r.errno = "0" THEN "unset"
                     ELSE IF r.errno = "ENOENT" THEN "0" ELSE r.errno)
      /\ o.res = (IF r.errno = "0" THEN s.data[r.at] ELSE None)
      /\ o.at = r.at
  BY <1>1
<1>9. Result(o) = [ret |-> o.ret, errnop |-> o.errnop, res |-> o.res]
  BY DEF Result
<1>10. Result(o) \in Outcome
  BY <1>3, <1>8, <1>9 DEF Outcome, BadReturnCode, NssStatus
<1> QED
  BY <1>3, <1>4, <1>5, <1>7, <1>8, <1>9, <1>10 DEF BadReturnCode

(* The place a stream is opened at: a line, or the end of an empty file. *)
LEMMA FirstPlace ==
  ASSUME NEW c \in Contents
  PROVE  1 \in Starts(c) \cup {Len(c) + 1}
<1>1. Len(c) \in Nat /\ DOMAIN c = 1..Len(c) /\ WellFormed(c)
  BY FileFacts
<1>2. CASE Len(c) = 0
  BY <1>2
<1>3. CASE Len(c) # 0
  <2>1. 1 \in DOMAIN c
    BY <1>1, <1>3
  <2> QED
    BY <2>1, <1>1 DEF WellFormed, Starts
<1> QED
  BY <1>2, <1>3

(* _nss_cache_setXXent_locked opens the file at its start, if there is one. *)
LEMMA SetentLockedFacts ==
  ASSUME TypeOK, NEW m \in Maps
  PROVE  /\ SetentLocked(m) \in Stream \cup {None}
         /\ SetentLocked(m) # None => SetentLocked(m).pos = 1
<1>1. stream[m] \in Stream \cup {None}
  BY DEF TypeOK
<1>2. filename[m] \in Paths /\ system[filename[m]] \in SystemFile \cup {None}
  BY DEF TypeOK, FilesTypeOK
<1>3. CASE stream[m] # None
  BY <1>1, <1>3 DEF SetentLocked, Stream
<1>4. CASE stream[m] = None /\ system[filename[m]] # None
  BY <1>2, <1>4 DEF SetentLocked, Stream, SystemFile
<1>5. CASE stream[m] = None /\ system[filename[m]] = None
  BY <1>5 DEF SetentLocked
<1> QED
  BY <1>3, <1>4, <1>5

(* An entry point begins a call that waits for the mutex without an answer, *)
(* or refuses a lookup by id on the spot.                                   *)
Begun(t, r, o) ==
  /\ Begin(t, r)
  /\ out' = [out EXCEPT ![t] = o]
  /\ o \in Outcome /\ o.res = None
  /\ \/ pc' = [pc EXCEPT ![t] = "lock"] /\ o.ret = "none"
     \/ pc' = pc /\ o.ret \in {"TRYAGAIN", "UNAVAIL"}

LEMMA CallBegins ==
  ASSUME NEW t \in Threads, Call(t)
  PROVE  \E r \in Request, o \in Outcome : Begun(t, r, o)
<1>1. Pending \in Outcome /\ Pending.res = None /\ Pending.ret = "none"
  BY DEF Pending, Outcome
<1>2. ASSUME NEW r \in Request, Enter(t, r)
      PROVE  Begun(t, r, Pending)
  BY <1>1, <1>2 DEF Enter, Begun
<1>3. ASSUME NEW m \in AllMaps, NEW op \in EntOps, NEW buf \in Nat,
             CallEnt(t, m, op, buf)
      PROVE  \E r \in Request, o \in Outcome : Begun(t, r, o)
  <2>1. [op |-> op, map |-> m, key |-> None, buf |-> buf] \in Request
    BY <1>3 DEF CallEnt, Request
  <2> QED
    BY <1>1, <1>2, <1>3, <2>1 DEF CallEnt
<1>4. ASSUME NEW m \in AllMaps, CallByName(t, m)
      PROVE  \E r \in Request, o \in Outcome : Begun(t, r, o)
  <2>1. PICK name \in Names, buf \in Buflens :
          /\ m \in Maps
          /\ Enter(t, [op |-> "getnam", map |-> m, key |-> name, buf |-> buf])
    BY <1>4 DEF CallByName
  <2>2. [op |-> "getnam", map |-> m, key |-> name, buf |-> buf] \in Request
    BY <2>1, SizesAssumption DEF Request, LookupOps
  <2> QED
    BY <1>1, <1>2, <2>1, <2>2
<1>5. ASSUME NEW m \in AllMaps, CallById(t, m)
      PROVE  \E r \in Request, o \in Outcome : Begun(t, r, o)
  <2> DEFINE r(id, buf) == [op |-> "getid", map |-> m, key |-> id, buf |-> buf]
             tooSmall == [Pending EXCEPT !.ret = "TRYAGAIN", !.errnop = "ERANGE"]
             tooLong == [Pending EXCEPT !.ret = "UNAVAIL"]
  <2>1. PICK id \in Ids, buf \in Buflens :
          /\ m \in Maps
          /\ \/ Enter(t, r(id, buf))
             \/ /\ Begin(t, r(id, buf))
                /\ pc' = pc
                /\ \/ out' = [out EXCEPT ![t] = tooSmall]
                   \/ out' = [out EXCEPT ![t] = tooLong]
    BY <1>5 DEF CallById
  <2>2. r(id, buf) \in Request
    BY <2>1, SizesAssumption DEF Request, LookupOps
  <2>3. /\ tooSmall \in Outcome /\ tooSmall.res = None /\ tooSmall.ret = "TRYAGAIN"
        /\ tooLong \in Outcome /\ tooLong.res = None /\ tooLong.ret = "UNAVAIL"
    BY DEF Pending, Outcome, NssStatus
  <2>4. CASE Enter(t, r(id, buf))
    BY <1>1, <1>2, <2>2, <2>4
  <2>5. CASE Begin(t, r(id, buf)) /\ pc' = pc /\ out' = [out EXCEPT ![t] = tooSmall]
    <3>1. Begun(t, r(id, buf), tooSmall)
      BY <2>3, <2>5 DEF Begun
    <3> QED
      BY <2>2, <2>3, <3>1
  <2>6. CASE Begin(t, r(id, buf)) /\ pc' = pc /\ out' = [out EXCEPT ![t] = tooLong]
    <3>1. Begun(t, r(id, buf), tooLong)
      BY <2>3, <2>6 DEF Begun
    <3> QED
      BY <2>2, <2>3, <3>1
  <2> QED
    BY <2>1, <2>4, <2>5, <2>6
<1>6. AllMaps = {"passwd", "group", "shadow", "gshadow"} /\ 0 \in Nat /\ Buflens \subseteq Nat
  BY SizesAssumption DEF AllMaps
<1>7. CASE setpwent(t) \/ endpwent(t) \/ getpwent_r(t)
  BY <1>3, <1>6, <1>7 DEF setpwent, endpwent, getpwent_r, EntOps
<1>8. CASE setgrent(t) \/ endgrent(t) \/ getgrent_r(t)
  BY <1>3, <1>6, <1>8 DEF setgrent, endgrent, getgrent_r, EntOps
<1>9. CASE setspent(t) \/ endspent(t) \/ getspent_r(t)
  BY <1>3, <1>6, <1>9 DEF setspent, endspent, getspent_r, EntOps
<1>10. CASE setsgent(t) \/ endsgent(t) \/ getsgent_r(t)
  BY <1>3, <1>6, <1>10 DEF setsgent, endsgent, getsgent_r, EntOps
<1>11. CASE getpwuid_r(t) \/ getgrgid_r(t)
  BY <1>5, <1>6, <1>11 DEF getpwuid_r, getgrgid_r
<1>12. CASE getpwnam_r(t) \/ getgrnam_r(t) \/ getspnam_r(t) \/ getsgnam_r(t)
  BY <1>4, <1>6, <1>12 DEF getpwnam_r, getgrnam_r, getspnam_r, getsgnam_r
<1> QED
  BY <1>7, <1>8, <1>9, <1>10, <1>11, <1>12 DEF Call

-----------------------------------------------------------------------------
(* The invariant is kept, one conjunct at a time. *)

(* Stamp and the tools keep the files well typed. *)
LEMMA ToolsType ==
  ASSUME FilesTypeOK,
         \/ \E p \in Paths, c \in Contents : UpdateSystem(p, c)
         \/ \E p \in Paths, k \in Kinds : StartIndexer(p, k) \/ RemoveIndex(p, k)
         \/ FinishIndexer
  PROVE  FilesTypeOK'
<1> USE DEF FilesTypeOK
<1>1. Stamp => now' \in Nat
  <2>1. ASSUME Stamp
        PROVE  \E d \in ClockSteps : now' = now + d
    BY <2>1 DEF Stamp
  <2> QED
    BY <2>1, CacheFilesAssumption
<1>2. ASSUME NEW p \in Paths, NEW c \in Contents, UpdateSystem(p, c)
      PROVE  FilesTypeOK'
  <2>1. [data |-> c, mtime |-> now'] \in SystemFile
    BY <1>1, <1>2 DEF UpdateSystem, SystemFile
  <2> QED
    BY <1>1, <1>2, <2>1 DEF UpdateSystem
<1>3. ASSUME NEW p \in Paths, NEW k \in Kinds, StartIndexer(p, k)
      PROVE  FilesTypeOK'
  <2>1. system[p].data \in Contents
    BY <1>3 DEF StartIndexer, SystemFile
  <2> QED
    BY <1>3, <2>1 DEF StartIndexer, IndexerRun
<1>4. ASSUME NEW p \in Paths, NEW k \in Kinds, RemoveIndex(p, k)
      PROVE  FilesTypeOK'
  BY <1>4 DEF RemoveIndex
<1>5. CASE FinishIndexer
  <2>1. /\ indexer.path \in Paths /\ indexer.kind \in Kinds
        /\ indexer.data \in Contents
    BY <1>5 DEF FinishIndexer, IndexerRun
  <2>2. ASSUME NEW recs \in IndexesOf(indexer.data, indexer.kind)
        PROVE  [recs |-> recs, mtime |-> now'] \in Index
    <3>1. PICK f \in Offsets(indexer.data, indexer.kind) :
            recs = {[key |-> k, off |-> f[k]] : k \in DOMAIN f}
      BY DEF IndexesOf
    <3>2. /\ f \in [KeysIn(indexer.data, indexer.kind) -> Starts(indexer.data)]
          /\ DOMAIN f = KeysIn(indexer.data, indexer.kind)
      BY DEF Offsets
    <3>3. Starts(indexer.data) \subseteq Nat
      BY <2>1, FileFacts DEF Starts
    <3>4. KeysIn(indexer.data, indexer.kind) \subseteq Names \cup Ids
      BY <2>1, FileFacts DEF KeysIn, KeyOf, Starts, Unit
    <3>5. recs \subseteq IndexRecord
      BY <3>1, <3>2, <3>3, <3>4 DEF IndexRecord
    <3> QED
      BY <1>1, <1>5, <3>5 DEF Index, FinishIndexer
  <2>3. PICK recs \in IndexesOf(indexer.data, indexer.kind) :
          index' = [index EXCEPT ![indexer.path][indexer.kind] =
                                    [recs |-> recs, mtime |-> now']]
    BY <1>5 DEF FinishIndexer
  <2>4. index' \in [Paths -> [Kinds -> Index \cup {None}]]
    BY <2>1, <2>2, <2>3
  <2> QED
    BY <1>1, <1>5, <2>4 DEF FinishIndexer
<1> QED
  BY <1>2, <1>3, <1>4, <1>5

LEMMA TypeStep ==
  ASSUME IInv, [Next]_vars
  PROVE  TypeOK'
<1> USE DEF IInv, TypeOK
<1>1. /\ fileVars' = fileVars => FilesTypeOK'
      /\ vars = <<fileVars, libVars>>
  BY DEF FilesTypeOK, fileVars, vars
<1>2. ASSUME NEW t \in Threads, pc[t] # "idle"
      PROVE  /\ req[t] \in Request /\ req[t].map \in Maps /\ req[t].buf \in Nat
             /\ filename[req[t].map] \in Paths
             /\ stream[req[t].map] \in Stream \cup {None}
             /\ Kind(req[t]) \in Kinds
  BY <1>2 DEF Request, Kind, Kinds
<1>3. ASSUME NEW t \in Threads, NEW o \in Outcome, out' = [out EXCEPT ![t] = o]
      PROVE  out' \in [Threads -> Outcome]
  BY <1>3
<1>4. ASSUME NEW t \in Threads, NEW ret \in NssStatus \cup {"100"}, SetRet(t, ret)
      PROVE  out' \in [Threads -> Outcome]
  BY <1>4 DEF SetRet, Outcome
<1>5. ASSUME NEW t \in Threads, Unlock(t)
      PROVE  /\ mutex' \in Threads \cup {None} /\ pc' \in [Threads -> Pcs]
             /\ \A u \in Threads : pc'[u] # "idle" => pc[u] # "idle"
  BY <1>5 DEF Unlock, Pcs
<1>6. ASSUME NEW t \in Threads, NEW label \in LockedPcs, pc[t] # "idle", Goto(t, label)
      PROVE  /\ mutex' \in Threads \cup {None} /\ pc' \in [Threads -> Pcs]
             /\ \A u \in Threads : pc'[u] # "idle" => pc[u] # "idle"
  BY <1>6 DEF Goto, Pcs
<1>7. {"openindex", "checkindex", "match", "setup", "scan", "finish"} \subseteq LockedPcs
  BY DEF LockedPcs
<1>8. {"TRYAGAIN", "UNAVAIL", "NOTFOUND", "SUCCESS"} = NssStatus
  BY DEF NssStatus
<1>10. ASSUME NEW t \in Threads, Call(t)
       PROVE  TypeOK'
  <2>1. PICK r \in Request, o \in Outcome : Begun(t, r, o)
    BY <1>10, CallBegins
  <2>2. r.map \in Maps
    BY DEF Request
  <2>3. Version(filename[r.map]) \in Contents \cup {None}
    BY <2>2 DEF Version, FilesTypeOK, SystemFile
  <2>4. window' \in [Threads -> SUBSET (Contents \cup {None})]
    BY <2>1, <2>3 DEF Begun, Begin
  <2>5. pc' \in [Threads -> Pcs] /\ req' \in [Threads -> Request \cup {None}]
    BY <2>1 DEF Begun, Begin, Pcs
  <2>6. \A u \in Threads : pc'[u] # "idle" => req'[u] # None
    <3>1. r # None
      BY NothingAssumption
    <3> QED
      BY <2>1, <3>1 DEF Begun, Begin
  <2> QED
    BY <1>1, <1>3, <2>1, <2>4, <2>5, <2>6 DEF Begun, Begin
<1>11. ASSUME NEW t \in Threads, Acquire(t)
       PROVE  TypeOK'
  <2>1. (IF req[t].op = "getid" THEN "openindex" ELSE req[t].op) \in Pcs
    BY <1>2, <1>11 DEF Acquire, Request, Pcs, LockedPcs, EntOps, LookupOps
  <2> QED
    BY <1>1, <1>11, <2>1 DEF Acquire
<1>12. ASSUME NEW t \in Threads, DoSetent(t)
       PROVE  TypeOK'
  <2>1. pc[t] # "idle"
    BY <1>12 DEF DoSetent
  <2>2. stream' \in [Maps -> Stream \cup {None}] /\ given' \in [Maps -> SUBSET Nat]
    BY <1>2, <1>12, <2>1, SetentLockedFacts DEF DoSetent
  <2>3. out' \in [Threads -> Outcome]
    BY <1>4, <1>8, <1>12 DEF DoSetent
  <2> QED
    BY <1>1, <1>5, <1>12, <2>2, <2>3 DEF DoSetent
<1>13. ASSUME NEW t \in Threads, DoEndent(t)
       PROVE  TypeOK'
  <2>1. pc[t] # "idle"
    BY <1>13 DEF DoEndent
  <2>2. stream' \in [Maps -> Stream \cup {None}] /\ given' \in [Maps -> SUBSET Nat]
    BY <1>2, <1>13, <2>1 DEF DoEndent, EndentLocked
  <2>3. out' \in [Threads -> Outcome]
    BY <1>4, <1>8, <1>13 DEF DoEndent
  <2> QED
    BY <1>1, <1>5, <1>13, <2>2, <2>3 DEF DoEndent
<1>14. ASSUME NEW t \in Threads, DoGetent(t)
       PROVE  TypeOK'
  <2> DEFINE m == req[t].map
             s == IF stream[m] = None THEN SetentLocked(m) ELSE stream[m]
  <2>1. pc[t] # "idle"
    BY <1>14 DEF DoGetent
  <2>2. m \in Maps /\ s \in Stream \cup {None} /\ req[t].buf \in Nat
    BY <1>2, <2>1, SetentLockedFacts
  <2>3. /\ stream' \in [Maps -> Stream \cup {None}]
        /\ given' \in [Maps -> SUBSET Nat]
        /\ out' \in [Threads -> Outcome]
    <3>1. CASE s = None
      BY <1>4, <1>8, <1>14, <3>1 DEF DoGetent
    <3>2. CASE s # None
      <4>1. PICK o \in GetentLocked(m, s, req[t].buf) :
              /\ out' = [out EXCEPT ![t] = Result(o)]
              /\ stream' = [stream EXCEPT ![m] = o.stream]
              /\ given' = IF o.ret = "SUCCESS"
                            THEN [given EXCEPT ![m] = @ \cup {o.at}]
                            ELSE given
        BY <1>14, <3>2 DEF DoGetent
      <4>2. o.at \in Nat /\ Result(o) \in Outcome /\ o.stream \in Stream
        BY <2>2, <3>2, GetentLockedFacts
      <4> QED
        BY <2>2, <4>1, <4>2
    <3> QED
      BY <3>1, <3>2
  <2> QED
    BY <1>1, <1>5, <1>14, <2>3 DEF DoGetent
<1>15. ASSUME NEW t \in Threads, FailByName(t)
       PROVE  TypeOK'
  <2>1. out' \in [Threads -> Outcome]
    BY <1>4, <1>8, <1>15 DEF FailByName
  <2> QED
    BY <1>1, <1>15, <2>1 DEF FailByName, Pcs
<1>16. ASSUME NEW t \in Threads, PrepareByName(t)
       PROVE  TypeOK'
  BY <1>1, <1>6, <1>7, <1>16 DEF PrepareByName
<1>17. ASSUME NEW t \in Threads, OpenIndex(t)
       PROVE  TypeOK'
  <2>1. pc[t] # "idle"
    BY <1>17 DEF OpenIndex
  <2>2. ix' \in [Threads -> Index \cup {None}]
    BY <1>2, <1>17, <2>1 DEF OpenIndex, FilesTypeOK
  <2>3. Goto(t, "setup") \/ Goto(t, "checkindex")
    BY <1>17 DEF OpenIndex
  <2> QED
    BY <1>1, <1>6, <1>7, <1>17, <2>1, <2>2, <2>3 DEF OpenIndex
<1>18. ASSUME NEW t \in Threads, CheckIndex(t)
       PROVE  TypeOK'
  <2>1. pc[t] # "idle" /\ ix[t] \in Index
    BY <1>18 DEF CheckIndex, AtOwnStep
  <2>2. \A r \in ix[t].recs : r.off \in Nat
    BY <2>1 DEF Index, IndexRecord
  <2>3. off' \in [Threads -> Nat]
    BY <1>18, <2>2 DEF CheckIndex
  <2>4. out' \in [Threads -> Outcome]
    BY <1>4, <1>8, <1>18 DEF CheckIndex
  <2>5. Goto(t, "setup") \/ Goto(t, "finish") \/ Goto(t, "match")
    BY <1>18 DEF CheckIndex
  <2> QED
    BY <1>1, <1>6, <1>7, <1>18, <2>1, <2>3, <2>4, <2>5 DEF CheckIndex
<1>19. ASSUME NEW t \in Threads, MatchEntry(t)
       PROVE  TypeOK'
  <2> DEFINE f == system[filename[req[t].map]]
  <2>0. out[t] \in Outcome
    OBVIOUS
  <2>1. pc[t] # "idle" /\ f \in SystemFile \cup {None}
    BY <1>2, <1>19 DEF MatchEntry, FilesTypeOK
  <2>2. out' \in [Threads -> Outcome]
    <3>1. CASE out' = out
      BY <3>1
    <3>2. CASE SetRet(t, "100")
      BY <1>4, <3>2
    <3>3. CASE out' = [out EXCEPT ![t] = [@ EXCEPT !.ret = BadReturnCode("ERANGE"),
                                                   !.errnop = "ERANGE"]]
      <4>1. [out[t] EXCEPT !.ret = BadReturnCode("ERANGE"), !.errnop = "ERANGE"] \in Outcome
        BY <2>0 DEF Outcome, BadReturnCode, NssStatus
      <4> QED
        BY <2>0, <3>3, <4>1 DEF BadReturnCode
    <3>4. ASSUME f # None,
                 NEW r \in Read(f.data, Seek(f.data, off[t]), req[t].buf), r.errno = "0",
                 out' = [out EXCEPT ![t] = [@ EXCEPT !.ret = "SUCCESS",
                                                     !.res = f.data[r.at]]]
          PROVE  out' \in [Threads -> Outcome]
      <4>1. f.data \in Contents /\ Seek(f.data, off[t]) \in Nat \ {0} /\ req[t].buf \in Nat
        BY <1>2, <2>1, <3>4, FileFacts DEF SystemFile, Seek
      <4>2. f.data[r.at] \in Unit
        BY <3>4, <4>1, ReadFacts
      <4>3. [out[t] EXCEPT !.ret = "SUCCESS", !.res = f.data[r.at]] \in Outcome
        BY <2>0, <4>2 DEF Outcome, NssStatus
      <4> QED
        BY <3>4, <4>3
    <3> QED
      BY <1>19, <3>1, <3>2, <3>3, <3>4 DEF MatchEntry
  <2>3. Goto(t, "setup") \/ Goto(t, "finish")
    BY <1>19 DEF MatchEntry
  <2> QED
    BY <1>1, <1>6, <1>7, <1>19, <2>1, <2>2, <2>3 DEF MatchEntry
<1>20. ASSUME NEW t \in Threads, SetupScan(t)
       PROVE  TypeOK'
  <2>1. pc[t] # "idle"
    BY <1>20 DEF SetupScan
  <2>2. stream' \in [Maps -> Stream \cup {None}]
    BY <1>2, <1>20, <2>1, SetentLockedFacts DEF SetupScan
  <2>3. out' \in [Threads -> Outcome]
    BY <1>4, <1>8, <1>20 DEF SetupScan
  <2>4. Goto(t, "finish") \/ Goto(t, "scan")
    BY <1>20 DEF SetupScan
  <2> QED
    BY <1>1, <1>6, <1>7, <1>20, <2>1, <2>2, <2>3, <2>4 DEF SetupScan
<1>21. ASSUME NEW t \in Threads, Scan(t)
       PROVE  TypeOK'
  <2> DEFINE m == req[t].map
  <2>1. /\ pc[t] = "scan" /\ m \in Maps /\ stream[m] \in Stream
        /\ req[t].buf \in Nat
    BY <1>2, <1>21 DEF Scan, ScanProgress
  <2>2. PICK o \in GetentLocked(m, stream[m], req[t].buf) :
          /\ stream' = [stream EXCEPT ![m] = o.stream]
          /\ \/ UNCHANGED <<out, pc, mutex>>
             \/ /\ out' = [out EXCEPT ![t] = Result(o)]
                /\ Goto(t, "finish")
    BY <1>21 DEF Scan
  <2>3. Result(o) \in Outcome /\ o.stream \in Stream
    BY <2>1, GetentLockedFacts
  <2>4. stream' \in [Maps -> Stream \cup {None}] /\ out' \in [Threads -> Outcome]
    BY <2>1, <2>2, <2>3
  <2> QED
    BY <1>1, <1>6, <1>7, <1>21, <2>1, <2>2, <2>4 DEF Scan
<1>22. ASSUME NEW t \in Threads, Finish(t)
       PROVE  TypeOK'
  <2>1. stream' \in [Maps -> Stream \cup {None}]
    BY <1>2, <1>22 DEF Finish, EndentLocked
  <2>2. /\ ix' \in [Threads -> Index \cup {None}]
        /\ off' \in [Threads -> Nat]
    BY <1>22 DEF Finish
  <2> QED
    BY <1>1, <1>5, <1>22, <2>1, <2>2 DEF Finish
<1>23. ASSUME NEW m \in Maps, NEW p \in Paths, SetPath(m, p)
       PROVE  TypeOK'
  BY <1>1, <1>23 DEF SetPath
<1>24. ASSUME NEW p \in Paths, NEW c \in Contents, Replace(p, c)
       PROVE  TypeOK'
  <2>1. FilesTypeOK'
    BY <1>24, ToolsType DEF Replace
  <2>2. window' \in [Threads -> SUBSET (Contents \cup {None})]
    BY <1>24 DEF Replace
  <2> QED
    BY <1>24, <2>1, <2>2 DEF Replace
<1>25. CASE Tools /\ UNCHANGED libVars
  <2>1. FilesTypeOK'
    BY <1>25, ToolsType DEF Tools, Replace
  <2> QED
    BY <1>25, <2>1 DEF libVars
<1>26. CASE UNCHANGED vars
  BY <1>1, <1>26 DEF vars, libVars
<1> QED
  BY <1>10, <1>11, <1>12, <1>13, <1>14, <1>15, <1>16, <1>17, <1>18, <1>19,
     <1>20, <1>21, <1>22, <1>23, <1>24, <1>25, <1>26
     DEF Next, Locked, Tools

(* A thread that holds the mutex takes a step of its call, and either ends  *)
(* the call, goes to another step, or stays.  The stream of its own map is  *)
(* the only one it touches.                                                 *)
LEMMA LockedMoves ==
  ASSUME NEW t \in Threads, Locked(t), TypeOK
  PROVE  /\ pc[t] \in LockedPcs
         /\ \/ Unlock(t)
            \/ \E label \in LockedPcs : Goto(t, label)
            \/ pc' = pc /\ mutex' = mutex
            \/ FailByName(t)
         /\ req' = req /\ filename' = filename /\ fileVars' = fileVars
         /\ \A m \in Maps : m # req[t].map => stream'[m] = stream[m]
<1> USE DEF TypeOK
<1>1. CASE DoSetent(t) \/ DoEndent(t)
  BY <1>1 DEF DoSetent, DoEndent, EndentLocked, LockedPcs, EntOps
<1>2. CASE DoGetent(t)
  <2>1. stream' = stream \/ \E s : stream' = [stream EXCEPT ![req[t].map] = s]
    BY <1>2 DEF DoGetent
  <2> QED
    BY <1>2, <2>1 DEF DoGetent, LockedPcs, EntOps
<1>3. CASE FailByName(t)
  BY <1>3 DEF FailByName, LockedPcs
<1>4. CASE PrepareByName(t)
  BY <1>4 DEF PrepareByName, LockedPcs
<1>5. CASE OpenIndex(t)
  <2>1. Goto(t, "setup") \/ Goto(t, "checkindex")
    BY <1>5 DEF OpenIndex
  <2> QED
    BY <1>5, <2>1 DEF OpenIndex, LockedPcs
<1>6. CASE CheckIndex(t)
  <2>1. Goto(t, "setup") \/ Goto(t, "finish") \/ Goto(t, "match")
    BY <1>6 DEF CheckIndex
  <2> QED
    BY <1>6, <2>1 DEF CheckIndex, LockedPcs
<1>7. CASE MatchEntry(t)
  <2>1. Goto(t, "setup") \/ Goto(t, "finish")
    BY <1>7 DEF MatchEntry
  <2> QED
    BY <1>7, <2>1 DEF MatchEntry, LockedPcs
<1>8. CASE SetupScan(t)
  <2>1. Goto(t, "finish") \/ Goto(t, "scan")
    BY <1>8 DEF SetupScan
  <2> QED
    BY <1>8, <2>1 DEF SetupScan, LockedPcs
<1>9. CASE Scan(t)
  <2>1. \E s : stream' = [stream EXCEPT ![req[t].map] = s]
    BY <1>9 DEF Scan
  <2>2. UNCHANGED <<pc, mutex>> \/ Goto(t, "finish")
    BY <1>9 DEF Scan
  <2> QED
    BY <1>9, <2>1, <2>2 DEF Scan, LockedPcs
<1>10. CASE Finish(t)
  BY <1>10 DEF Finish, EndentLocked, LockedPcs
<1> QED
  BY <1>1, <1>2, <1>3, <1>4, <1>5, <1>6, <1>7, <1>8, <1>9, <1>10 DEF Locked

(* A step of one thread leaves the state of every other thread's call alone. *)
LEMMA OthersUntouched ==
  ASSUME NEW t \in Threads, Call(t) \/ Acquire(t) \/ Locked(t), TypeOK,
         NEW u \in Threads, u # t
  PROVE  /\ pc'[u] = pc[u] /\ req'[u] = req[u]
         /\ out'[u] = out[u] /\ ix'[u] = ix[u]
<1> USE DEF TypeOK
<1>1. CASE Call(t)
  BY <1>1, CallBegins DEF Begun, Begin
<1>2. CASE Acquire(t)
  BY <1>2 DEF Acquire
<1>3. CASE Locked(t)
  <2>1. req'[u] = req[u]
    BY <1>3, LockedMoves
  <2>2. pc'[u] = pc[u]
    BY <1>3, LockedMoves DEF Unlock, Goto, FailByName
  <2>3. out' = out \/ \E o : out' = [out EXCEPT ![t] = o]
    <3>1. ASSUME NEW ret, SetRet(t, ret)
          PROVE  \E o : out' = [out EXCEPT ![t] = o]
      <4>1. out' = [out EXCEPT ![t] = [out[t] EXCEPT !.ret = ret]]
        BY <3>1 DEF SetRet
      <4> QED
        BY <4>1
    <3>2. CASE DoSetent(t) \/ DoEndent(t) \/ DoGetent(t)
      BY <3>1, <3>2 DEF DoSetent, DoEndent, DoGetent
    <3>3. CASE FailByName(t) \/ PrepareByName(t) \/ OpenIndex(t) \/ CheckIndex(t)
      BY <3>1, <3>3 DEF FailByName, PrepareByName, OpenIndex, CheckIndex
    <3>4. CASE MatchEntry(t)
      BY <3>1, <3>4 DEF MatchEntry
    <3>5. CASE SetupScan(t) \/ Scan(t) \/ Finish(t)
      BY <3>1, <3>5 DEF SetupScan, Scan, Finish
    <3> QED
      BY <1>3, <3>2, <3>3, <3>4, <3>5 DEF Locked
  <2>4. ix' = ix \/ \E i : ix' = [ix EXCEPT ![t] = i]
    BY <1>3 DEF Locked, DoSetent, DoEndent, DoGetent, FailByName, PrepareByName,
       OpenIndex, CheckIndex, MatchEntry, SetupScan, Scan, Finish
  <2> QED
    BY <2>1, <2>2, <2>3, <2>4
<1> QED
  BY <1>1, <1>2, <1>3

(* A step of no thread touches no call, no stream and no lock. *)
LEMMA ToolsUntouched ==
  ASSUME \/ Tools
         \/ \E m \in Maps, p \in Paths : SetPath(m, p)
         \/ UNCHANGED vars
  PROVE  pc' = pc /\ req' = req /\ out' = out /\ ix' = ix /\ mutex' = mutex
         /\ stream' = stream
BY DEF Tools, Replace, SetPath, vars, libVars

LEMMA ExclusiveStep ==
  ASSUME IInv, [Next]_vars
  PROVE  ExclusiveAccess'
<1> USE DEF IInv, TypeOK, ExclusiveAccess
<1>1. None \notin Threads
  BY NssCacheAssumption
<1>2. ASSUME NEW t \in Threads, Call(t)
      PROVE  ExclusiveAccess'
  <2>1. mutex' = mutex /\ (pc' = pc \/ pc' = [pc EXCEPT ![t] = "lock"])
    BY <1>2, CallBegins DEF Begun, Begin
  <2> QED
    BY <2>1 DEF LockedPcs, EntOps
<1>3. ASSUME NEW t \in Threads, Acquire(t)
      PROVE  ExclusiveAccess'
  BY <1>1, <1>3 DEF Acquire
<1>4. ASSUME NEW t \in Threads, Locked(t)
      PROVE  ExclusiveAccess'
  <2>1. mutex = t /\ \A u \in Threads : u # t => pc[u] \notin LockedPcs
    BY <1>4, LockedMoves
  <2>2. \A u \in Threads : u # t => pc'[u] \notin LockedPcs
    BY <1>4, <2>1, OthersUntouched
  <2>3. pc'[t] \in LockedPcs => mutex' = t
    BY <1>4, <2>1, LockedMoves DEF Unlock, Goto, FailByName, LockedPcs, EntOps
  <2> QED
    BY <2>2, <2>3
<1>5. CASE \/ Tools
           \/ \E m \in Maps, p \in Paths : SetPath(m, p)
           \/ UNCHANGED vars
  BY <1>5, ToolsUntouched
<1> QED
  BY <1>2, <1>3, <1>4, <1>5 DEF Next

LEMMA OwnStep ==
  ASSUME IInv, [Next]_vars
  PROVE  AtOwnStep'
<1> USE DEF IInv, TypeOK, AtOwnStep
<1> DEFINE Own(u) == /\ pc[u] \in EntOps \cup {"getnam"} => req[u].op = pc[u]
                     /\ pc[u] \in LookupPcs => req[u].op \in LookupOps
                     /\ pc[u] = "checkindex" => ix[u] # None
<1>1. ASSUME NEW t \in Threads, Call(t) \/ Acquire(t) \/ Locked(t), Own(t)'
      PROVE  AtOwnStep'
  BY <1>1, OthersUntouched
<1>2. ASSUME NEW t \in Threads, Call(t)
      PROVE  Own(t)'
  <2>1. PICK r \in Request, o \in Outcome : Begun(t, r, o)
    BY <1>2, CallBegins
  <2>2. pc'[t] \in {"lock", "idle"}
    BY <2>1 DEF Begun, Begin
  <2> QED
    BY <2>2 DEF EntOps, LookupPcs
<1>3. ASSUME NEW t \in Threads, Acquire(t)
      PROVE  Own(t)'
  <2>1. req[t].op \in EntOps \cup LookupOps /\ req' = req
    BY <1>3 DEF Acquire, Request
  <2>2. pc'[t] = IF req[t].op = "getid" THEN "openindex" ELSE req[t].op
    BY <1>3 DEF Acquire
  <2> QED
    BY <2>1, <2>2 DEF EntOps, LookupOps, LookupPcs
<1>4. ASSUME NEW t \in Threads, Locked(t)
      PROVE  Own(t)'
  <2>1. req' = req
    BY <1>4, LockedMoves
  <2>2. CASE DoSetent(t) \/ DoEndent(t) \/ DoGetent(t) \/ FailByName(t) \/ Finish(t)
    <3>1. pc'[t] = "idle"
      BY <2>2 DEF DoSetent, DoEndent, DoGetent, FailByName, Finish, Unlock
    <3> QED
      BY <3>1 DEF EntOps, LookupPcs
  <2>3. CASE OpenIndex(t)
    <3>1. /\ pc[t] = "openindex" /\ ix' \in [Threads -> Index \cup {None}]
          /\ pc'[t] = IF ix'[t] = None THEN "setup" ELSE "checkindex"
      BY <2>3, TypeStep DEF OpenIndex, Goto
    <3> QED
      BY <2>1, <3>1 DEF EntOps, LookupPcs
  <2>4. CASE PrepareByName(t) \/ CheckIndex(t) \/ MatchEntry(t) \/ SetupScan(t) \/ Scan(t)
    <3>1. /\ pc[t] \in {"getnam", "checkindex", "match", "setup", "scan"}
          /\ pc'[t] \in {"openindex", "match", "setup", "scan", "finish"}
      BY <2>4 DEF PrepareByName, CheckIndex, MatchEntry, SetupScan, Scan, Goto
    <3> QED
      BY <2>1, <3>1 DEF EntOps, LookupPcs
  <2> QED
    BY <1>4, <2>2, <2>3, <2>4 DEF Locked
<1>5. CASE \/ Tools
           \/ \E m \in Maps, p \in Paths : SetPath(m, p)
           \/ UNCHANGED vars
  BY <1>5, ToolsUntouched
<1> QED
  BY <1>1, <1>2, <1>3, <1>4, <1>5 DEF Next

LEMMA AnswerStep ==
  ASSUME IInv, [Next]_vars
  PROVE  AnswerMatches'
<1> USE DEF IInv, TypeOK, AnswerMatches
<1> DEFINE Answered(u) ==
      /\ pc[u] \in {"idle", "finish"} /\ req[u] # None
      /\ req[u].op \in LookupOps /\ out[u].ret = "SUCCESS"
      => out[u].res # None /\ KeyOf(out[u].res, Kind(req[u])) = req[u].key
<1>1. ASSUME NEW t \in Threads, Call(t) \/ Acquire(t) \/ Locked(t), Answered(t)'
      PROVE  AnswerMatches'
  BY <1>1, OthersUntouched
<1>2. ASSUME NEW t \in Threads, Call(t)
      PROVE  Answered(t)'
  <2>1. PICK r \in Request, o \in Outcome : Begun(t, r, o)
    BY <1>2, CallBegins
  <2>2. out'[t].ret # "SUCCESS"
    BY <2>1 DEF Begun
  <2> QED
    BY <2>2
<1>3. ASSUME NEW t \in Threads, Acquire(t)
      PROVE  Answered(t)'
  <2>1. pc'[t] \notin {"idle", "finish"}
    BY <1>3 DEF Acquire, Request, EntOps, LookupOps
  <2> QED
    BY <2>1
<1>4. ASSUME NEW t \in Threads, Locked(t)
      PROVE  Answered(t)'
  <2>1. req' = req /\ out[t] \in Outcome
    BY <1>4, LockedMoves
  <2>2. ASSUME NEW ret, SetRet(t, ret)
        PROVE  out'[t].ret = ret
    BY <2>1, <2>2 DEF SetRet, Outcome
  <2>3. CASE DoSetent(t) \/ DoEndent(t) \/ DoGetent(t)
    <3>1. req[t].op \in EntOps
      BY <2>3 DEF AtOwnStep, DoSetent, DoEndent, DoGetent, EntOps
    <3> QED
      BY <2>1, <3>1 DEF EntOps, LookupOps
  <2>4. CASE FailByName(t)
    BY <2>2, <2>4 DEF FailByName
  <2>5. CASE PrepareByName(t) \/ OpenIndex(t)
    <3>1. pc'[t] \in {"openindex", "setup", "checkindex"}
      BY <2>5 DEF PrepareByName, OpenIndex, Goto
    <3> QED
      BY <3>1
  <2>6. CASE CheckIndex(t)
    BY <2>2, <2>6 DEF CheckIndex, Goto
  <2>7. CASE MatchEntry(t)
    <3> DEFINE f == system[filename[req[t].map]]
    <3>1. CASE Goto(t, "setup")
      BY <3>1 DEF Goto
    <3>2. CASE SetRet(t, "100")
      BY <2>2, <3>2
    <3>3. CASE out' = [out EXCEPT ![t] = [@ EXCEPT !.ret = BadReturnCode("ERANGE"),
                                                   !.errnop = "ERANGE"]]
      <4>1. out'[t].ret = "TRYAGAIN"
        BY <2>1, <3>3 DEF Outcome, BadReturnCode
      <4> QED
        BY <4>1
    <3>4. ASSUME f # None,
                 NEW r \in Read(f.data, Seek(f.data, off[t]), req[t].buf), r.errno = "0",
                 Matches(f.data[r.at], req[t]),
                 out' = [out EXCEPT ![t] = [@ EXCEPT !.ret = "SUCCESS",
                                                     !.res = f.data[r.at]]]
          PROVE  Answered(t)'
      <4>1. /\ req[t] \in Request /\ filename[req[t].map] \in Paths
            /\ f \in SystemFile
        BY <2>7, <3>4 DEF MatchEntry, Request, FilesTypeOK
      <4>2. f.data \in Contents /\ Seek(f.data, off[t]) \in Nat \ {0} /\ req[t].buf \in Nat
        BY <4>1, FileFacts DEF SystemFile, Seek, Request
      <4>3. f.data[r.at] \in Unit
        BY <3>4, <4>2, ReadFacts
      <4>4. out'[t].res = f.data[r.at]
        BY <2>1, <3>4 DEF Outcome
      <4>5. f.data[r.at] # None
        BY <4>3, NoneAssumption
      <4> QED
        BY <2>1, <3>4, <4>4, <4>5 DEF Matches
    <3> QED
      BY <2>7, <3>1, <3>2, <3>3, <3>4 DEF MatchEntry
  <2>8. CASE SetupScan(t)
    BY <2>2, <2>8 DEF SetupScan, Goto
  <2>9. CASE Scan(t)
    <3> DEFINE m == req[t].map
    <3>1. m \in Maps /\ stream[m] \in Stream /\ req[t].buf \in Nat
      BY <2>9 DEF Scan, ScanProgress, Request
    <3>2. PICK o \in GetentLocked(m, stream[m], req[t].buf) :
            \/ UNCHANGED <<out, pc>>
            \/ /\ o.ret = "SUCCESS" => Matches(o.res, req[t])
               /\ out' = [out EXCEPT ![t] = Result(o)]
      BY <2>9 DEF Scan
    <3>3. /\ Result(o).ret = o.ret /\ Result(o).res = o.res
          /\ o.ret = "SUCCESS" => o.res \in Unit
      BY <3>1, GetentLockedFacts
    <3>4. CASE UNCHANGED <<out, pc>>
      BY <2>9, <3>4 DEF Scan
    <3>5. CASE /\ o.ret = "SUCCESS" => Matches(o.res, req[t])
               /\ out' = [out EXCEPT ![t] = Result(o)]
      BY <2>1, <3>3, <3>5, NoneAssumption DEF Matches
    <3> QED
      BY <3>2, <3>4, <3>5
  <2>10. CASE Finish(t)
    BY <2>1, <2>10 DEF Finish
  <2> QED
    BY <1>4, <2>3, <2>4, <2>5, <2>6, <2>7, <2>8, <2>9, <2>10 DEF Locked
<1>5. CASE \/ Tools
           \/ \E m \in Maps, p \in Paths : SetPath(m, p)
           \/ UNCHANGED vars
  BY <1>5, ToolsUntouched
<1> QED
  BY <1>1, <1>2, <1>3, <1>4, <1>5 DEF Next

(* One step of a linear search: a thread that goes on has passed one more   *)
(* line with another key, and one that ends with NOTFOUND has passed all.   *)
LEMMA ScanAdvances ==
  ASSUME IInv, NEW t \in Threads, Scan(t)
  PROVE  LET m == req[t].map IN
         /\ pc'[t] = "scan" =>
              /\ stream'[m] # None
              /\ stream'[m].pos \in Starts(stream'[m].data) \cup {Len(stream'[m].data) + 1}
              /\ \A p \in Lines(stream'[m].data) :
                   p < stream'[m].pos =>
                     KeyOf(stream'[m].data[p], Kind(req[t])) # req[t].key
         /\ pc'[t] = "finish" /\ out'[t].ret = "NOTFOUND" =>
              Missing(stream[m].data, req[t])
<1> DEFINE m == req[t].map
           s == stream[m]
           Differs(p) == KeyOf(s.data[p], Kind(req[t])) # req[t].key
<1>1. /\ pc[t] = "scan" /\ m \in Maps /\ s \in Stream
      /\ req[t].buf \in Nat /\ s.data \in Contents /\ out[t] \in Outcome
  BY DEF IInv, TypeOK, Scan, ScanProgress, Request, Stream
<1>2. /\ s.pos \in Starts(s.data) \cup {Len(s.data) + 1}
      /\ \A p \in Lines(s.data) : p < s.pos => Differs(p)
  BY <1>1 DEF IInv, ScanProgress
<1>3. PICK o \in GetentLocked(m, s, req[t].buf) :
        /\ stream' = [stream EXCEPT ![m] = o.stream]
        /\ \/ /\ o.ret = "SUCCESS" /\ ~Matches(o.res, req[t])
              /\ UNCHANGED <<out, pc, mutex>>
           \/ /\ out' = [out EXCEPT ![t] = Result(o)]
              /\ Goto(t, "finish")
  BY DEF Scan
<1>4. PICK r \in Read(s.data, s.pos, req[t].buf) :
        /\ Result(o).ret = o.ret
        /\ o.stream \in Stream /\ o.stream.data = s.data
        /\ o.ret = "NOTFOUND" => r.errno = "ENOENT"
        /\ o.ret = "SUCCESS" => /\ r.errno = "0"
                                /\ o.res = s.data[r.at]
                                /\ o.stream.pos = r.pos
  BY <1>1, GetentLockedFacts
<1>5. /\ s.pos \in Nat \ {0} /\ r.at \in Nat
      /\ \A q \in Lines(s.data) : q >= s.pos => q >= r.at
      /\ r.errno = "0" => /\ r.pos \in Starts(s.data) \cup {Len(s.data) + 1}
                          /\ \A q \in Lines(s.data) : q < r.pos => q <= r.at
      /\ r.errno = "ENOENT" => r.at = Len(s.data) + 1
  <2>1. s.pos \in Nat \ {0}
    BY <1>1 DEF Stream
  <2>2. r.at \in StopsAt(s.data, s.pos, req[t].buf) /\ Len(s.data) \in Nat
    BY <1>1, <2>1, ReadFacts, FileFacts
  <2>3. r.at \in Nat
    BY <2>1, <2>2 DEF StopsAt
  <2> QED
    <3>1. r.errno = "ENOENT" => r.at = Len(s.data) + 1
      BY <1>1, <2>1, ReadFacts
    <3>2. /\ \A q \in Lines(s.data) : q >= s.pos => q >= r.at
          /\ r.errno = "0" => /\ r.pos \in Starts(s.data) \cup {Len(s.data) + 1}
                              /\ \A q \in Lines(s.data) : q < r.pos => q <= r.at
      BY <1>1, <1>2, ReadPassesNoEntry
    <3> QED
      BY <2>1, <2>3, <3>1, <3>2
<1>6. Lines(s.data) \subseteq 1..Len(s.data) /\ Len(s.data) \in Nat
  BY <1>1, FileFacts DEF Lines, Starts
<1>7. stream'[m] = o.stream
  BY <1>1, <1>3 DEF IInv, TypeOK
<1>8. ASSUME pc'[t] = "scan"
      PROVE  \A p \in Lines(s.data) : p < o.stream.pos => Differs(p)
  <2>1. o.ret = "SUCCESS" /\ ~Matches(o.res, req[t])
    BY <1>1, <1>3, <1>8 DEF Goto, IInv, TypeOK
  <2>2. Differs(r.at)
    BY <1>4, <2>1 DEF Matches
  <2> SUFFICES ASSUME NEW p \in Lines(s.data), p < o.stream.pos, p >= s.pos
               PROVE  Differs(p)
    BY <1>2, <1>5, <1>6
  <2>3. p >= r.at /\ p <= r.at /\ p \in Nat
    BY <1>4, <1>5, <1>6, <2>1
  <2> QED
    BY <1>5, <2>2, <2>3
<1>9. ASSUME pc'[t] = "scan"
      PROVE  stream'[m] # None /\ o.stream.pos \in Starts(s.data) \cup {Len(s.data) + 1}
  <2>1. o.ret = "SUCCESS"
    BY <1>1, <1>3, <1>9 DEF Goto, IInv, TypeOK
  <2>2. o.stream # None
    BY <1>4, NothingAssumption
  <2> QED
    BY <1>4, <1>5, <1>7, <2>1, <2>2
<1>10. ASSUME pc'[t] = "finish", out'[t].ret = "NOTFOUND"
       PROVE  Missing(s.data, req[t])
  <2>1. out' = [out EXCEPT ![t] = Result(o)]
    BY <1>1, <1>3, <1>10
  <2>2. r.at = Len(s.data) + 1
    BY <1>4, <1>5, <1>10, <2>1 DEF IInv, TypeOK
  <2>3. ASSUME NEW p \in Lines(s.data)
        PROVE  Differs(p)
    <3>1. p < s.pos
      BY <1>5, <1>6, <2>2
    <3> QED
      BY <1>2, <3>1
  <2> QED
    BY <2>3 DEF Missing, Holds
<1> QED
  BY <1>4, <1>7, <1>8, <1>9, <1>10

LEMMA ScanStep ==
  ASSUME IInv, [Next]_vars
  PROVE  ScanProgress'
<1> USE DEF IInv, TypeOK
<1> DEFINE Progress(u) ==
      pc[u] = "scan" =>
        /\ stream[req[u].map] # None
        /\ stream[req[u].map].pos \in
             Starts(stream[req[u].map].data) \cup {Len(stream[req[u].map].data) + 1}
        /\ \A p \in Lines(stream[req[u].map].data) :
             p < stream[req[u].map].pos =>
               KeyOf(stream[req[u].map].data[p], Kind(req[u])) # req[u].key
<1>1. ScanProgress <=> \A u \in Threads : Progress(u)
  BY DEF ScanProgress
<1>2. ASSUME NEW u \in Threads, stream' = stream, pc'[u] = pc[u], req'[u] = req[u]
      PROVE  Progress(u)'
  BY <1>1, <1>2
<1>3. CASE \/ Tools
           \/ \E m \in Maps, p \in Paths : SetPath(m, p)
           \/ UNCHANGED vars
  BY <1>2, <1>3, ToolsUntouched DEF ScanProgress
<1>4. ASSUME NEW t \in Threads, Call(t) \/ Acquire(t), NEW u \in Threads
      PROVE  Progress(u)'
  <2>1. stream' = stream
    BY <1>4, CallBegins DEF Begun, Begin, Acquire
  <2>2. CASE u = t
    <3>1. pc'[t] # "scan"
      <4>1. CASE Call(t)
        BY <4>1, CallBegins DEF Begun, Begin
      <4>2. CASE Acquire(t)
        BY <4>2 DEF Acquire, Request, EntOps, LookupOps
      <4> QED
        BY <1>4, <4>1, <4>2
    <3> QED
      BY <2>2, <3>1
  <2>3. CASE u # t
    BY <1>2, <1>4, <2>1, <2>3, OthersUntouched
  <2> QED
    BY <2>2, <2>3
<1>5. ASSUME NEW t \in Threads, Locked(t), NEW u \in Threads
      PROVE  Progress(u)'
  <2>1. CASE u # t
    <3>1. pc[t] \in LockedPcs /\ pc'[u] = pc[u]
      BY <1>5, <2>1, LockedMoves, OthersUntouched
    <3>2. pc[u] # "scan"
      BY <2>1, <3>1 DEF ExclusiveAccess, LockedPcs
    <3> QED
      BY <3>1, <3>2
  <2>2. CASE u = t /\ Scan(t)
    <3>1. req' = req
      BY <1>5, LockedMoves
    <3> QED
      BY <2>2, <3>1, ScanAdvances
  <2>3. CASE u = t /\ SetupScan(t) /\ pc'[t] = "scan"
    <3> DEFINE m == req[t].map
    <3>1. m \in Maps /\ req' = req
      BY <2>3 DEF SetupScan, Request
    <3>2. stream'[m] = SetentLocked(m) /\ stream'[m] # None
      BY <2>3, <3>1 DEF SetupScan, Goto
    <3>3. stream'[m].pos = 1 /\ stream'[m].data \in Contents
      BY <3>1, <3>2, SetentLockedFacts DEF Stream
    <3>4. 1 \in Starts(stream'[m].data) \cup {Len(stream'[m].data) + 1}
      BY <3>3, FirstPlace
    <3>5. \A p \in Lines(stream'[m].data) : ~(p < 1)
      BY <3>3, FileFacts DEF Lines, Starts
    <3> QED
      BY <2>3, <3>1, <3>2, <3>3, <3>4, <3>5
  <2>4. CASE u = t /\ ~Scan(t) /\ ~(SetupScan(t) /\ pc'[t] = "scan")
    <3>1. pc'[t] # "scan"
      BY <1>5, <2>4
         DEF Locked, DoSetent, DoEndent, DoGetent, FailByName, PrepareByName,
             OpenIndex, CheckIndex, MatchEntry, Finish, Unlock, Goto
    <3> QED
      BY <2>4, <3>1
  <2> QED
    BY <2>1, <2>2, <2>3, <2>4
<1> QED
  BY <1>3, <1>4, <1>5 DEF ScanProgress, Next

LEMMA InitIInv == Init => IInv
<1> SUFFICES ASSUME Init PROVE IInv
  OBVIOUS
<1> USE DEF Init, LibInit
<1>1. FilesTypeOK
  <2>1. PICK f \in [Paths -> InitialContents] :
          system = [p \in Paths |-> IF f[p] = None THEN None
                                    ELSE [data |-> f[p], mtime |-> 0]]
    BY DEF FilesInit
  <2>2. \A p \in Paths : f[p] # None => f[p] \in Contents
    BY CacheFilesAssumption
  <2>3. system \in [Paths -> SystemFile \cup {None}]
    BY <2>1, <2>2 DEF SystemFile
  <2> QED
    BY <2>3 DEF FilesInit, FilesTypeOK
<1>2. Pending \in Outcome /\ Pending.ret = "none"
  BY DEF Pending, Outcome
<1>3. TypeOK
  BY <1>1, <1>2, NssCacheAssumption DEF TypeOK, Pcs
<1>4. ExclusiveAccess /\ AtOwnStep /\ AnswerMatches /\ ScanProgress
  BY DEF ExclusiveAccess, AtOwnStep, AnswerMatches, ScanProgress, LockedPcs,
         LookupPcs, EntOps
<1> QED
  BY <1>3, <1>4 DEF IInv

LEMMA StepIInv == IInv /\ [Next]_vars => IInv'
BY TypeStep, ExclusiveStep, OwnStep, AnswerStep, ScanStep DEF IInv

LEMMA Invariance == Spec => []IInv
<1>1. Init => IInv
  BY InitIInv
<1>2. IInv /\ [Next]_vars => IInv'
  BY StepIInv
<1> QED
  BY <1>1, <1>2, PTL DEF Spec

-----------------------------------------------------------------------------
(* Theorems. *)

(***************************************************************************)
(* The variables keep their types: in particular no step reads through a   *)
(* stream that is not open, and no index search looks at a closed index.   *)
(***************************************************************************)
THEOREM TypeCorrect == Spec => []TypeOK
<1>1. IInv => TypeOK
  BY DEF IInv
<1> QED
  BY <1>1, Invariance, PTL

(***************************************************************************)
(* NSS_CACHE_LOCK and NSS_CACHE_UNLOCK bracket every use of the streams.   *)
(***************************************************************************)
THEOREM MutualExclusion == Spec => []ExclusiveAccess
<1>1. IInv => ExclusiveAccess
  BY DEF IInv
<1> QED
  BY <1>1, Invariance, PTL

(***************************************************************************)
(* A successful lookup returns an entry with the key it was asked for,     *)
(* whatever the tools do to the map file and its indexes meanwhile.        *)
(***************************************************************************)
THEOREM AnswersMatch == Spec => []SuccessMatches
<1>1. IInv => SuccessMatches
  BY DEF IInv, AnswerMatches, SuccessMatches, IsLookup, Returned
<1> QED
  BY <1>1, Invariance, PTL

(***************************************************************************)
(* A linear search that says NOTFOUND has read all of the file it opened,  *)
(* whatever other threads do meanwhile.                                    *)
(***************************************************************************)
THEOREM SearchIsComplete == Spec => ScanComplete
<1> DEFINE Complete ==
      \A t \in Threads :
        pc[t] = "scan" /\ pc'[t] = "finish" /\ out'[t].ret = "NOTFOUND" =>
          Missing(stream[req[t].map].data, req[t])
<1>1. IInv /\ [Next]_vars => [Complete]_vars
  <2> SUFFICES ASSUME IInv, Next, NEW t \in Threads, pc[t] = "scan", pc'[t] = "finish",
                      out'[t].ret = "NOTFOUND"
               PROVE  Missing(stream[req[t].map].data, req[t])
    OBVIOUS
  <2>1. PICK u \in Threads : Call(u) \/ Acquire(u) \/ Locked(u)
    BY ToolsUntouched DEF Next
  <2>2. u = t
    BY <2>1, OthersUntouched DEF IInv
  <2>3. Scan(t)
    <3>1. ~Call(t) /\ ~Acquire(t)
      BY CallBegins DEF Begun, Begin, Acquire
    <3> QED
      BY <2>1, <2>2, <3>1
         DEF Locked, DoSetent, DoEndent, DoGetent, FailByName, PrepareByName,
             OpenIndex, CheckIndex, MatchEntry, SetupScan, Finish
  <2> QED
    BY <2>3, ScanAdvances
<1>2. Spec => [][Complete]_vars
  BY <1>1, Invariance, PTL DEF Spec
<1> QED
  BY <1>2 DEF ScanComplete

(***************************************************************************)
(* Of all the ways out of the 18 entry points, only those of a lookup by   *)
(* name that could not copy its name, or whose path is too long for its    *)
(* index's name, leave the mutex locked, before anything else is done.     *)
(***************************************************************************)
THEOREM LockGivenBack == Spec => LeavesLocked
<1> DEFINE Failed(t) ==
      /\ pc[t] = "getnam"
      /\ \/ MallocMayFail
         \/ PathLen[filename[req[t].map]] + 7 + 1 > PathLimit
<1> DEFINE Leaves ==
      \A t \in Threads :
        pc[t] # "idle" /\ pc'[t] = "idle" /\ mutex' = t => Failed(t)
<1>1. IInv /\ [Next]_vars => [Leaves]_vars
  <2> SUFFICES ASSUME IInv, Next, NEW t \in Threads, pc[t] # "idle", pc'[t] = "idle",
                      mutex' = t
               PROVE  Failed(t)
    OBVIOUS
  <2>1. PICK u \in Threads : Call(u) \/ Acquire(u) \/ Locked(u)
    BY ToolsUntouched DEF Next
  <2>2. u = t
    BY <2>1, OthersUntouched DEF IInv
  <2>3. ~Call(t)
    BY CallBegins DEF Begun, Begin
  <2>4. ~Acquire(t)
    BY DEF Acquire, IInv, TypeOK, Request, EntOps, LookupOps
  <2>5. FailByName(t)
    <3>1. ~Unlock(t)
      BY NssCacheAssumption DEF Unlock
    <3>2. \A label \in LockedPcs : ~Goto(t, label)
      BY DEF Goto, IInv, TypeOK, LockedPcs, EntOps
    <3> QED
      BY <2>1, <2>2, <2>3, <2>4, <3>1, <3>2, LockedMoves DEF IInv
  <2>6. CASE MallocMayFail
    BY <2>5, <2>6 DEF FailByName
  <2>7. CASE NameTooLong(t)
    <3>1. pc[t] = "getnam" /\ req[t] \in Request
      BY <2>5 DEF FailByName, IInv, TypeOK
    <3>2. filename[req[t].map] \in Paths
      BY <3>1 DEF IInv, TypeOK, Request
    <3>3. PathLen[filename[req[t].map]] \in Nat /\ PathLimit \in Nat
      BY <3>2, NssCacheAssumption
    <3> QED
      BY <2>7, <3>1, <3>3 DEF NameTooLong
  <2> QED
    BY <2>5, <2>6, <2>7 DEF FailByName
<1>2. Spec => [][Leaves]_vars
  BY <1>1, Invariance, PTL DEF Spec
<1> QED
  BY <1>2 DEF LeavesLocked
=============================================================================
