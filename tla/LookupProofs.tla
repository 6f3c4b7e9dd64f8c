---------------------------- MODULE LookupProofs ----------------------------
(***************************************************************************)
(* Keyed lookups answer for the file: theorems about what a lookup may     *)
(* return, for all values of the constants of NssCache.                    *)
(*                                                                         *)
(* IInv says nothing of why an answer is right.  LInv adds three things:   *)
(* what the index files in place, and those a lookup has open, have to do  *)
(* with the map file; which versions of the map file a call has seen; and, *)
(* from those, the answer itself.                                          *)
(***************************************************************************)
EXTENDS NssCacheProofs, FiniteSetTheorems

(***************************************************************************)
(* The things an index is only good under: the clock that stamps files has *)
(* moved on between two writes, as the comparison of ages takes a file of  *)
(* the same second for an older one, and no map is replaced while it is    *)
(* being indexed, as the index would be younger than a file it is not of.  *)
(* CacheFiles itself adds that a map is put in place when it is written.   *)
(***************************************************************************)
FreshIndexes == 0 \notin ClockSteps /\ ~OverlapIndexer

(* A process that only looks up, as most do, never enumerates, so that no  *)
(* stream outlives a call.  Only a test program also names other files.    *)
NoEnumeration == ClientOps \subseteq LookupOps \cup {"setpath"}
LookupsOnly == ClientOps \subseteq LookupOps

-----------------------------------------------------------------------------
(* Files and indexes. *)

(* An index that is not older than the map file p is one of that file. *)
GoodIndex(i, p, k) ==
  i # None =>
    /\ i.mtime <= now
    /\ system[p] # None /\ system[p].mtime <= i.mtime =>
         i.recs \in IndexesOf(system[p].data, k)

FilesFresh ==
  /\ \A p \in Paths : system[p] # None => system[p].mtime <= now
  /\ indexer # None => /\ system[indexer.path] # None
                       /\ system[indexer.path].data = indexer.data
  /\ \A p \in Paths, k \in Kinds : GoodIndex(index[p][k], p, k)

(* So it stays for a lookup that has an index open when it changes hands. *)
OpenIndexFresh ==
  \A t \in Threads : pc[t] = "checkindex" =>
    GoodIndex(ix[t], filename[req[t].map], Kind(req[t]))

(* An offset found in an index is that of a line, at or before the line    *)
(* the key is in.                                                          *)
PlacedIn(c, o, r) ==
  /\ o \in Starts(c)
  /\ \E p \in Starts(c) : o <= p /\ KeyOf(c[p], Kind(r)) = r.key

OffsetPlaced ==
  \A t \in Threads : pc[t] = "match" =>
    \E c \in window[t] \ {None} : PlacedIn(c, off[t], req[t])

-----------------------------------------------------------------------------
(* Calls. *)

(* A call in progress has seen the version that is in place. *)
VersionSeen ==
  \A t \in Threads :
    /\ IsFiniteSet(window[t])
    /\ pc[t] # "idle" => Version(filename[req[t].map]) \in window[t]

(* A call has its answer only when it has nothing left to do but return. *)
Undecided ==
  \A t \in Threads :
    /\ pc[t] \notin {"idle", "finish"} => out[t] = Pending
    /\ pc[t] = "finish" => out[t] # Pending

(* The requests the 18 entry points make. *)
AsCalled(r) ==
  /\ r \in Request /\ r.op \in ClientOps
  /\ r.op \in {"setent", "endent"} => r.key = None /\ r.buf = 0
  /\ r.op = "getent" => r.key = None /\ r.buf \in Buflens
  /\ r.op = "getid" => r.key \in Ids /\ r.buf \in Buflens
  /\ r.op = "getnam" => r.key \in Names /\ r.buf \in Buflens

Asked == \A t \in Threads : req[t] # None => AsCalled(req[t])

(* Streams are within their files. *)
StreamPlaced ==
  \A m \in Maps : stream[m] # None => stream[m].pos <= Len(stream[m].data) + 1

(* Without enumeration a stream is open only while a lookup is at work, on *)
(* a version that the lookup has seen.                                     *)
StreamsOwned ==
  \A m \in Maps : stream[m] # None =>
    \E t \in Threads : /\ pc[t] \in {"scan", "finish"} /\ req[t].map = m
                       /\ stream[m].data \in window[t]

-----------------------------------------------------------------------------
(* Answers. *)

Reply(ret, err, res) == [ret |-> ret, errnop |-> err, res |-> res]

Overtaken(seen) == Cardinality(seen) > 1

(* What a lookup r may answer from the versions in sources, when it has    *)
(* seen those in seen.                                                     *)
RightAnswer(o, r, sources, seen) ==
  \/ \E c \in sources : \E p \in DOMAIN c :
       /\ o = Reply("SUCCESS", "unset", c[p])
       /\ c[p].ok /\ Matches(c[p], r)
       /\ c[p].start \/ Overtaken(seen) \/ ~FreshIndexes
  \/ /\ o \in {Reply("NOTFOUND", "unset", None), Reply("NOTFOUND", "0", None)}
     /\ \E c \in sources : Missing(c, r)
  \/ /\ o = Reply("NOTFOUND", "unset", None)
     /\ TopBit(Kind(r), r.key) \/ ~FreshIndexes
     /\ seen \ {None} # {}
  \/ /\ o = Reply("TRYAGAIN", "ERANGE", None)
     /\ \E c \in sources : \E p \in DOMAIN c : c[p].need > r.buf
  \/ /\ o = Reply("UNAVAIL", "unset", None)
     /\ None \in seen
  \/ /\ o = Reply("100", "unset", None)
     /\ \/ Overtaken(seen) \/ ~FreshIndexes
        \/ \E c \in seen \ {None} : Dangling(c, Kind(r), r.key)

(* The versions a lookup of t may answer from now. *)
Sources(t) ==
  (window[t] \cup (IF stream[req[t].map] = None THEN {}
                   ELSE {stream[req[t].map].data})) \ {None}

(* Those it may have answered from: without enumeration, what it has seen. *)
Origins(t) == IF NoEnumeration THEN window[t] \ {None} ELSE Contents

(* A lookup that was refused before it looked at anything. *)
RefusedSmall(t) ==
  /\ req[t].map = "group" /\ req[t].op = "getid" /\ req[t].buf < GroupMinBuf
  /\ out[t] = Reply("TRYAGAIN", "ERANGE", None)

RefusedName(t) ==
  /\ out[t] = Reply("UNAVAIL", "unset", None)
  /\ \/ /\ "setpath" \in ClientOps
        /\ \E p \in Paths : PathLen[p] > PathLimit - 8
     \/ PathLen[filename[req[t].map]] > PathLimit - 8
     \/ MallocMayFail /\ req[t].op = "getnam"

Replied(t) == /\ pc[t] \in {"idle", "finish"}
               /\ req[t] # None /\ req[t].op \in LookupOps

AnswersRight ==
  \A t \in Threads : Replied(t) =>
    \/ RightAnswer(out[t], req[t], Origins(t), window[t])
    \/ RefusedSmall(t) \/ RefusedName(t)

LInv == /\ IInv
        /\ VersionSeen
        /\ Undecided
        /\ Asked
        /\ StreamPlaced
        /\ FreshIndexes => FilesFresh /\ OpenIndexFresh /\ OffsetPlaced
        /\ NoEnumeration => StreamsOwned
        /\ AnswersRight

-----------------------------------------------------------------------------
(* Lemmas about the data. *)

(* A read stops at an entry, at a line too large, or at the end; it passes *)
(* only places that hold no entry, and stays within the file.              *)
LEMMA ReadOutcome ==
  ASSUME NEW c \in Contents, NEW o \in Nat \ {0}, NEW buf \in Nat,
         NEW r \in Read(c, o, buf)
  PROVE  /\ r.errno \in {"0", "ENOENT", "ERANGE"}
         /\ r.at \in Nat /\ r.at >= o
         /\ r.errno = "ENOENT" => r.at = Len(c) + 1 /\ r.pos = Len(c) + 1
         /\ r.errno # "ENOENT" => r.at \in DOMAIN c /\ (r.at = o \/ c[r.at].start)
         /\ r.errno = "0" => c[r.at].ok /\ c[r.at].need <= buf /\ r.pos = c[r.at].next
         /\ r.errno = "ERANGE" => c[r.at].need > buf /\ r.pos \in r.at..c[r.at].next
         /\ \A q \in DOMAIN c :
              q >= o /\ q < r.at /\ (q = o \/ c[q].start) => ~c[q].ok
         /\ r.pos \in Nat /\ r.pos <= Len(c) + 1
<1>1. PICK p \in StopsAt(c, o, buf) :
        r \in IF p = Len(c) + 1 THEN {[errno |-> "ENOENT", at |-> p, pos |-> p]}
              ELSE IF c[p].need <= buf
                THEN {[errno |-> "0", at |-> p, pos |-> c[p].next]}
              ELSE IF ReadRestores
                THEN {[errno |-> "ERANGE", at |-> p, pos |-> p]}
              ELSE {[errno |-> "ERANGE", at |-> p, pos |-> q] :
                      q \in (p + 1)..c[p].next}
  BY DEF Read
<1>2. Len(c) \in Nat /\ DOMAIN c = 1..Len(c) /\ WellFormed(c)
  BY FileFacts
<1>3. p \in Nat \ {0} /\ p >= o /\ p <= Len(c) + 1 /\ Stops(c, o, buf, p)
  BY <1>2 DEF StopsAt
<1>4. \A q \in DOMAIN c : q >= o /\ q < p /\ (q = o \/ c[q].start) => ~c[q].ok
  <2> SUFFICES ASSUME NEW q \in DOMAIN c, q >= o, q < p, q = o \/ c[q].start
               PROVE  ~c[q].ok
    OBVIOUS
  <2>1. q \in o..(p - 1)
    BY <1>2, <1>3
  <2>2. ~Stops(c, o, buf, q)
    BY <2>1 DEF StopsAt
  <2> QED
    BY <2>2 DEF Stops
<1>5. CASE p = Len(c) + 1
  <2>1. r = [errno |-> "ENOENT", at |-> p, pos |-> p]
    BY <1>1, <1>5
  <2> QED
    BY <2>1, <1>2, <1>3, <1>4, <1>5
<1>6. ASSUME p # Len(c) + 1
      PROVE  /\ p \in DOMAIN c /\ (p = o \/ c[p].start)
             /\ c[p].ok \/ c[p].need > buf
             /\ c[p].next \in Nat /\ p < c[p].next /\ c[p].next <= Len(c) + 1
             /\ c[p].need \in Nat
  <2>1. p \in DOMAIN c
    BY <1>2, <1>3, <1>6
  <2>2. c[p].next <= Len(c) + 1
    BY <1>2, <2>1 DEF WellFormed
  <2> QED
    BY <1>3, <1>6, <2>1, <2>2, FileFacts DEF Stops
<1>7. CASE p # Len(c) + 1 /\ c[p].need <= buf
  <2>1. r = [errno |-> "0", at |-> p, pos |-> c[p].next]
    BY <1>1, <1>7
  <2>2. c[p].ok
    BY <1>6, <1>7
  <2> QED
    BY <2>1, <2>2, <1>3, <1>4, <1>6, <1>7
<1>8. CASE p # Len(c) + 1 /\ ~(c[p].need <= buf)
  <2>1. PICK q \in p..c[p].next : r = [errno |-> "ERANGE", at |-> p, pos |-> q]
    <3>1. CASE ReadRestores
      BY <1>1, <1>3, <1>6, <1>8, <3>1
    <3>2. CASE ~ReadRestores
      <4>1. r \in {[errno |-> "ERANGE", at |-> p, pos |-> q] : q \in (p + 1)..c[p].next}
        BY <1>1, <1>8, <3>2
      <4> QED
        BY <4>1, <1>3, <1>6
    <3> QED
      BY <3>1, <3>2
  <2>2. c[p].need > buf
    BY <1>6, <1>8
  <2> QED
    BY <2>1, <2>2, <1>3, <1>4, <1>6, <1>8
<1> QED
  BY <1>5, <1>7, <1>8

(* The three answers of _nss_cache_getXXent_r_locked. *)
LEMMA GetentAnswers ==
  ASSUME NEW m \in Maps, NEW s \in Stream, NEW buf \in Nat,
         NEW o \in GetentLocked(m, s, buf)
  PROVE  \E r \in Read(s.data, s.pos, buf) :
           /\ o.at = r.at
           /\ o.stream = [data |-> s.data, pos |-> PosAfter(m, s, r)]
           /\ Result(o).ret = o.ret /\ Result(o).res = o.res
           /\ r.errno = "0" => Result(o) = Reply("SUCCESS", "unset", s.data[r.at])
           /\ r.errno = "ERANGE" => Result(o) = Reply("TRYAGAIN", "ERANGE", None)
           /\ r.errno = "ENOENT" => Result(o) = Reply("NOTFOUND", "0", None)
<1>1. PICK r \in Read(s.data, s.pos, buf) :
        o = [ret    |-> IF r.errno = "0" THEN "SUCCESS" ELSE BadReturnCode(r.errno),
             errnop |-> IF r.errno = "0" THEN "unset"
                        ELSE IF r.errno = "ENOENT" THEN "0" ELSE r.errno,
             res    |-> IF r.errno = "0" THEN s.data[r.at] ELSE None,
             at     |-> r.at,
             stream |-> [s EXCEPT !.pos = PosAfter(m, s, r)]]
  BY DEF GetentLocked
<1>2. o.stream = [s EXCEPT !.pos = PosAfter(m, s, r)]
  BY <1>1
<1>3. o.stream = [data |-> s.data, pos |-> PosAfter(m, s, r)]
  BY <1>2 DEF Stream
<1>4. /\ o.ret = (IF r.errno = "0" THEN "SUCCESS" ELSE BadReturnCode(r.errno))
      /\ o.errnop = (IF r.errno = "0" THEN "unset"
                     ELSE IF r.errno = "ENOENT" THEN "0" ELSE r.errno)
      /\ o.res = (IF r.errno = "0" THEN s.data[r.at] ELSE None)
      /\ o.at = r.at
  BY <1>1
<1>5. /\ r.errno = "0" => Result(o) = Reply("SUCCESS", "unset", s.data[r.at])
      /\ r.errno = "ERANGE" => Result(o) = Reply("TRYAGAIN", "ERANGE", None)
      /\ r.errno = "ENOENT" => Result(o) = Reply("NOTFOUND", "0", None)
  BY <1>4 DEF Result, Reply, BadReturnCode
<1> QED
  BY <1>3, <1>4, <1>5 DEF Result

(* A set with two members is counted as more than one. *)
LEMMA TwoSeen ==
  ASSUME NEW S, IsFiniteSet(S), NEW c \in S, NEW d \in S, c # d
  PROVE  Overtaken(S)
<1>1. Cardinality(S) \in Nat
  BY FS_CardinalityType
<1>2. Cardinality(S) # 0
  BY FS_EmptySet
<1>3. Cardinality(S) # 1
  BY FS_Singleton
<1> QED
  BY <1>1, <1>2, <1>3 DEF Overtaken

LEMMA MoreSeen ==
  ASSUME NEW S, NEW T, IsFiniteSet(T), S \subseteq T, Overtaken(S)
  PROVE  Overtaken(T)
<1>1. /\ Cardinality(S) <= Cardinality(T)
      /\ Cardinality(S) \in Nat /\ Cardinality(T) \in Nat
  BY FS_Subset, FS_CardinalityType
<1> QED
  BY <1>1 DEF Overtaken

(* What is right of some versions is right of more. *)
LEMMA AnswerStaysRight ==
  ASSUME NEW o, NEW r, NEW sources, NEW seen, NEW sources2, NEW seen2,
         sources \subseteq sources2, seen \subseteq seen2, IsFiniteSet(seen2),
         RightAnswer(o, r, sources, seen)
  PROVE  RightAnswer(o, r, sources2, seen2)
<1>1. Overtaken(seen) => Overtaken(seen2)
  BY MoreSeen
<1> QED
  BY <1>1 DEF RightAnswer

-----------------------------------------------------------------------------
(* Files and indexes. *)

FilesMove ==
  \/ \E p \in Paths, c \in Contents : UpdateSystem(p, c)
  \/ \E p \in Paths, k \in Kinds : StartIndexer(p, k) \/ RemoveIndex(p, k)
  \/ FinishIndexer

(* The clock moves on with every file that is written. *)
LEMMA StampLater ==
  ASSUME FreshIndexes, now \in Nat, Stamp
  PROVE  now' \in Nat /\ now' > now
<1>1. PICK d \in ClockSteps : now' = now + d
  BY DEF Stamp
<1>2. d \in Nat /\ d # 0
  BY CacheFilesAssumption DEF FreshIndexes
<1> QED
  BY <1>1, <1>2

(* An index that is not of the version in place is older than it, also if  *)
(* it is open and its name now stands for another.                         *)
LEMMA IndexStaysGood ==
  ASSUME FreshIndexes, FilesTypeOK, FilesMove \/ UNCHANGED fileVars,
         NEW p \in Paths, NEW k \in Kinds, NEW i \in Index \cup {None},
         GoodIndex(i, p, k)
  PROVE  i # None =>
           /\ i.mtime <= now'
           /\ system'[p] # None /\ system'[p].mtime <= i.mtime =>
                i.recs \in IndexesOf(system'[p].data, k)
<1> SUFFICES ASSUME i # None
             PROVE  /\ i.mtime <= now'
                    /\ system'[p] # None /\ system'[p].mtime <= i.mtime =>
                         i.recs \in IndexesOf(system'[p].data, k)
  OBVIOUS
<1> USE DEF FilesTypeOK
<1>1. i.mtime \in Nat /\ i.mtime <= now
  BY DEF GoodIndex, Index
<1>2. ASSUME NEW q \in Paths, NEW c \in Contents, UpdateSystem(q, c)
      PROVE  /\ i.mtime <= now'
             /\ system'[p] # None /\ system'[p].mtime <= i.mtime =>
                  i.recs \in IndexesOf(system'[p].data, k)
  <2>1. now' \in Nat /\ now' > now
    BY <1>2, StampLater DEF UpdateSystem
  <2>2. system' = [system EXCEPT ![q] = [data |-> c, mtime |-> now']]
    BY <1>2 DEF UpdateSystem
  <2>3. CASE p = q
    <3>1. system'[p].mtime = now'
      BY <2>2, <2>3
    <3> QED
      BY <1>1, <2>1, <3>1
  <2>4. CASE p # q
    BY <1>1, <2>1, <2>2, <2>4 DEF GoodIndex
  <2> QED
    BY <2>3, <2>4
<1>3. CASE now' = now /\ system' = system
  BY <1>3 DEF GoodIndex
<1>4. CASE FinishIndexer
  <2>1. now' \in Nat /\ now' > now /\ system' = system
    BY <1>4, StampLater DEF FinishIndexer
  <2> QED
    BY <1>1, <2>1 DEF GoodIndex
<1> QED
  BY <1>2, <1>3, <1>4 DEF FilesMove, StartIndexer, RemoveIndex, fileVars

LEMMA FilesFreshStep ==
  ASSUME FreshIndexes, FilesTypeOK, FilesFresh, FilesMove
  PROVE  FilesFresh'
<1> USE DEF FilesTypeOK
<1> DEFINE Aged == \A p \in Paths : system[p] # None => system[p].mtime <= now
           Reading == indexer # None => /\ system[indexer.path] # None
                                        /\ system[indexer.path].data = indexer.data
           Good(i, p, k) ==
             i # None =>
               /\ i.mtime <= now'
               /\ system'[p] # None /\ system'[p].mtime <= i.mtime =>
                    i.recs \in IndexesOf(system'[p].data, k)
<1>1. FilesFresh' <=> /\ Aged' /\ Reading'
                      /\ \A p \in Paths, k \in Kinds : Good(index'[p][k], p, k)
  BY DEF FilesFresh, GoodIndex
<1>2. \A p \in Paths, k \in Kinds : Good(index[p][k], p, k)
  BY IndexStaysGood DEF FilesFresh
<1>3. Aged /\ Reading
  BY DEF FilesFresh
<1>4. ASSUME NEW p \in Paths, NEW c \in Contents, UpdateSystem(p, c)
      PROVE  FilesFresh'
  <2>1. now' \in Nat /\ now' > now /\ indexer = None
    BY <1>4, StampLater DEF UpdateSystem, FreshIndexes
  <2>2. /\ system' = [system EXCEPT ![p] = [data |-> c, mtime |-> now']]
        /\ index' = index /\ indexer' = indexer
    BY <1>4 DEF UpdateSystem
  <2>3. ASSUME NEW q \in Paths, system'[q] # None
        PROVE  system'[q].mtime <= now'
    <3>1. CASE q = p
      BY <2>1, <2>2, <3>1
    <3>2. CASE q # p
      BY <1>3, <2>1, <2>2, <2>3, <3>2 DEF SystemFile
    <3> QED
      BY <3>1, <3>2
  <2> QED
    BY <1>1, <1>2, <2>1, <2>2, <2>3
<1>5. ASSUME NEW p \in Paths, NEW k \in Kinds, StartIndexer(p, k)
      PROVE  FilesFresh'
  <2>1. /\ system' = system /\ index' = index /\ now' = now
        /\ system[p] # None
        /\ indexer' = [path |-> p, kind |-> k, data |-> system[p].data]
    BY <1>5 DEF StartIndexer
  <2> QED
    BY <1>1, <1>2, <1>3, <2>1
<1>6. ASSUME NEW p \in Paths, NEW k \in Kinds, RemoveIndex(p, k)
      PROVE  FilesFresh'
  <2>1. /\ system' = system /\ indexer' = indexer /\ now' = now
        /\ index' = [index EXCEPT ![p][k] = None]
    BY <1>6 DEF RemoveIndex
  <2>2. ASSUME NEW q \in Paths, NEW l \in Kinds
        PROVE  Good(index'[q][l], q, l)
    <3>1. index'[q][l] = None \/ index'[q][l] = index[q][l]
      BY <2>1
    <3> QED
      BY <1>2, <3>1
  <2> QED
    BY <1>1, <1>3, <2>1, <2>2
<1>7. CASE FinishIndexer
  <2>1. /\ now' \in Nat /\ now' > now
        /\ system' = system /\ indexer' = None /\ indexer # None
    BY <1>7, StampLater DEF FinishIndexer
  <2>2. PICK recs \in IndexesOf(indexer.data, indexer.kind) :
          index' = [index EXCEPT ![indexer.path][indexer.kind] =
                                    [recs |-> recs, mtime |-> now']]
    BY <1>7 DEF FinishIndexer
  <2>3. /\ indexer.path \in Paths /\ indexer.kind \in Kinds
        /\ system[indexer.path].data = indexer.data
    BY <1>3, <2>1 DEF IndexerRun
  <2>4. ASSUME NEW q \in Paths, NEW l \in Kinds
        PROVE  Good(index'[q][l], q, l)
    <3>1. CASE q = indexer.path /\ l = indexer.kind
      <4>1. index'[q][l] = [recs |-> recs, mtime |-> now']
        BY <2>2, <2>3, <3>1
      <4> QED
        BY <2>1, <2>3, <3>1, <4>1
    <3>2. CASE ~(q = indexer.path /\ l = indexer.kind)
      <4>1. index'[q][l] = index[q][l]
        BY <2>2, <2>3, <3>2
      <4> QED
        BY <1>2, <4>1
    <3> QED
      BY <3>1, <3>2
  <2>5. Aged'
    BY <1>3, <2>1 DEF SystemFile
  <2> QED
    BY <1>1, <2>1, <2>4, <2>5
<1> QED
  BY <1>4, <1>5, <1>6, <1>7 DEF FilesMove

-----------------------------------------------------------------------------
(* Calls. *)

(* An answer is determined by its fields. *)
LEMMA AnswerFields ==
  /\ \A a, b, c, q : q \in [ret : {a}, errnop : {b}, res : {c}] => q = Reply(a, b, c)
  /\ Pending \in [ret : {"none"}, errnop : {"unset"}, res : {None}]
BY DEF Reply, Pending

LEMMA SetRetAnswers ==
  ASSUME NEW t \in Threads, out[t] = Pending, NEW ret, SetRet(t, ret)
  PROVE  out' = [out EXCEPT ![t] = Reply(ret, "unset", None)]
<1>1. out' = [out EXCEPT ![t] = [out[t] EXCEPT !.ret = ret]]
  BY DEF SetRet
<1>2. [out[t] EXCEPT !.ret = ret] \in [ret : {ret}, errnop : {"unset"}, res : {None}]
  BY AnswerFields
<1> QED
  BY <1>1, <1>2, AnswerFields

(* What an entry point does: it leaves a request that waits for the mutex, *)
(* or, for a lookup by id, one that is refused.                            *)
LEMMA CallShape ==
  ASSUME NEW t \in Threads, Call(t)
  PROVE  \E r : /\ AsCalled(r) /\ Begin(t, r)
                /\ \/ /\ pc' = [pc EXCEPT ![t] = "lock"]
                      /\ out' = [out EXCEPT ![t] = Pending]
                   \/ /\ pc' = pc /\ r.op = "getid"
                      /\ \/ /\ r.map = "group" /\ r.buf < GroupMinBuf
                            /\ out' = [out EXCEPT ![t] =
                                         Reply("TRYAGAIN", "ERANGE", None)]
                         \/ /\ PathLen[filename[r.map]] > PathLimit - 7
                            /\ out' = [out EXCEPT ![t] =
                                         Reply("UNAVAIL", "unset", None)]
<1> DEFINE Waits(r) == /\ AsCalled(r) /\ Begin(t, r)
                       /\ pc' = [pc EXCEPT ![t] = "lock"]
                       /\ out' = [out EXCEPT ![t] = Pending]
           Small(r) == /\ r.map = "group" /\ r.buf < GroupMinBuf
                       /\ out' = [out EXCEPT ![t] = Reply("TRYAGAIN", "ERANGE", None)]
           Long(r) == /\ PathLen[filename[r.map]] > PathLimit - 7
                      /\ out' = [out EXCEPT ![t] = Reply("UNAVAIL", "unset", None)]
           Refused(r) == /\ AsCalled(r) /\ Begin(t, r)
                         /\ pc' = pc /\ r.op = "getid"
                         /\ Small(r) \/ Long(r)
<1> SUFFICES \E r : Waits(r) \/ Refused(r)
  OBVIOUS
<1>1. AllMaps = {"passwd", "group", "shadow", "gshadow"} /\ 0 \in Nat /\ Buflens \subseteq Nat
  BY SizesAssumption DEF AllMaps
<1>2. ASSUME NEW m \in AllMaps, NEW op \in EntOps, NEW buf \in Nat,
             CallEnt(t, m, op, buf), IF op = "getent" THEN buf \in Buflens ELSE buf = 0
      PROVE  \E r : Waits(r)
  <2> DEFINE r == [op |-> op, map |-> m, key |-> None, buf |-> buf]
  <2>1. m \in Maps /\ Enter(t, r)
    BY <1>2 DEF CallEnt
  <2>2. AsCalled(r)
    BY <1>2, <2>1 DEF AsCalled, Request, Enter, Begin, EntOps
  <2> QED
    BY <2>1, <2>2 DEF Enter
<1>3. ASSUME NEW m \in AllMaps, CallByName(t, m)
      PROVE  \E r : Waits(r)
  <2>1. PICK name \in Names, buf \in Buflens :
          /\ m \in Maps
          /\ Enter(t, [op |-> "getnam", map |-> m, key |-> name, buf |-> buf])
    BY <1>3 DEF CallByName
  <2> DEFINE r == [op |-> "getnam", map |-> m, key |-> name, buf |-> buf]
  <2>2. AsCalled(r)
    BY <1>1, <2>1 DEF AsCalled, Request, Enter, Begin, LookupOps
  <2> QED
    BY <2>1, <2>2 DEF Enter
<1>4. ASSUME NEW m \in AllMaps, CallById(t, m)
      PROVE  \E r : Waits(r) \/ Refused(r)
  <2>1. PICK id \in Ids, buf \in Buflens :
          LET r == [op |-> "getid", map |-> m, key |-> id, buf |-> buf]
              small == m = "group" /\ buf < GroupMinBuf
              long == PathLen[filename[m]] > PathLimit - 7
          IN /\ m \in Maps
             /\ \/ ~small /\ ~long /\ Enter(t, r)
                \/ /\ small \/ long
                   /\ Begin(t, r)
                   /\ out' = [out EXCEPT ![t] =
                        IF small THEN [Pending EXCEPT !.ret = "TRYAGAIN",
                                                      !.errnop = "ERANGE"]
                        ELSE [Pending EXCEPT !.ret = "UNAVAIL"]]
                   /\ UNCHANGED pc
    BY <1>4 DEF CallById
  <2> DEFINE r == [op |-> "getid", map |-> m, key |-> id, buf |-> buf]
             small == m = "group" /\ buf < GroupMinBuf
  <2>2. m \in Maps /\ Begin(t, r)
    BY <2>1 DEF Enter
  <2>3. AsCalled(r)
    BY <1>1, <2>1, <2>2 DEF AsCalled, Request, Begin, LookupOps
  <2>4. CASE Enter(t, r)
    BY <2>2, <2>3, <2>4 DEF Enter
  <2>5. /\ [Pending EXCEPT !.ret = "TRYAGAIN", !.errnop = "ERANGE"]
             = Reply("TRYAGAIN", "ERANGE", None)
        /\ [Pending EXCEPT !.ret = "UNAVAIL"] = Reply("UNAVAIL", "unset", None)
    <3>1. /\ [Pending EXCEPT !.ret = "TRYAGAIN", !.errnop = "ERANGE"]
               \in [ret : {"TRYAGAIN"}, errnop : {"ERANGE"}, res : {None}]
          /\ [Pending EXCEPT !.ret = "UNAVAIL"]
               \in [ret : {"UNAVAIL"}, errnop : {"unset"}, res : {None}]
      BY AnswerFields
    <3> QED
      BY <3>1, AnswerFields
  <2>6. CASE ~Enter(t, r)
    <3>1. /\ pc' = pc
          /\ small \/ PathLen[filename[m]] > PathLimit - 7
          /\ out' = [out EXCEPT ![t] = IF small THEN Reply("TRYAGAIN", "ERANGE", None)
                                       ELSE Reply("UNAVAIL", "unset", None)]
      BY <2>1, <2>5, <2>6
    <3>2. Small(r) \/ Long(r)
      BY <3>1
    <3>3. pc' = pc /\ r.op = "getid"
      BY <2>1, <2>6
    <3> QED
      BY <2>2, <2>3, <3>2, <3>3
  <2> QED
    BY <2>4, <2>6
<1>5. CASE setpwent(t) \/ endpwent(t) \/ getpwent_r(t)
  BY <1>1, <1>2, <1>5 DEF setpwent, endpwent, getpwent_r, EntOps
<1>6. CASE setgrent(t) \/ endgrent(t) \/ getgrent_r(t)
  BY <1>1, <1>2, <1>6 DEF setgrent, endgrent, getgrent_r, EntOps
<1>7. CASE setspent(t) \/ endspent(t) \/ getspent_r(t)
  BY <1>1, <1>2, <1>7 DEF setspent, endspent, getspent_r, EntOps
<1>8. CASE setsgent(t) \/ endsgent(t) \/ getsgent_r(t)
  BY <1>1, <1>2, <1>8 DEF setsgent, endsgent, getsgent_r, EntOps
<1>9. CASE getpwuid_r(t) \/ getgrgid_r(t)
  BY <1>1, <1>4, <1>9 DEF getpwuid_r, getgrgid_r
<1>10. CASE getpwnam_r(t) \/ getgrnam_r(t) \/ getspnam_r(t) \/ getsgnam_r(t)
  BY <1>1, <1>3, <1>10 DEF getpwnam_r, getgrnam_r, getspnam_r, getsgnam_r
<1> QED
  BY <1>5, <1>6, <1>7, <1>8, <1>9, <1>10 DEF Call

(* Steps with the mutex held do not add to what calls have seen. *)
LEMMA LockedSees ==
  ASSUME NEW t \in Threads, Locked(t)
  PROVE  window' = window /\ UNCHANGED fileVars
BY DEF Locked, DoSetent, DoEndent, DoGetent, FailByName, PrepareByName,
       OpenIndex, CheckIndex, MatchEntry, SetupScan, Scan, Finish

(* A step of one thread leaves what the others know alone. *)
LEMMA OthersKeep ==
  ASSUME NEW t \in Threads, Call(t) \/ Acquire(t) \/ Locked(t), TypeOK,
         NEW u \in Threads, u # t
  PROVE  /\ window'[u] = window[u] /\ off'[u] = off[u]
         /\ filename' = filename /\ UNCHANGED fileVars
<1> USE DEF TypeOK
<1>1. CASE Call(t)
  BY <1>1, CallShape DEF Begin
<1>2. CASE Acquire(t)
  BY <1>2 DEF Acquire
<1>3. CASE Locked(t)
  <2>1. off' = off \/ \E o : off' = [off EXCEPT ![t] = o]
    <3>1. CASE CheckIndex(t)
      BY <3>1 DEF CheckIndex
    <3> QED
      BY <1>3, <3>1 DEF Locked, DoSetent, DoEndent, DoGetent, FailByName,
         PrepareByName, OpenIndex, MatchEntry, SetupScan, Scan, Finish
  <2> QED
    BY <1>3, <2>1, LockedMoves, LockedSees
<1> QED
  BY <1>1, <1>2, <1>3

(* Tools and test programs add to what calls have seen, and to nothing else. *)
LEMMA ToolsAdd ==
  ASSUME TypeOK,
         \/ Tools
         \/ \E m \in Maps, p \in Paths : SetPath(m, p)
         \/ UNCHANGED vars
  PROVE  /\ off' = off
         /\ FilesMove \/ UNCHANGED fileVars
         /\ \A t \in Threads :
              \/ window'[t] = window[t]
              \/ \E c \in Contents : window'[t] = window[t] \cup {c}
         /\ \/ filename' = filename
            \/ "setpath" \in ClientOps /\ \A t \in Threads : pc[t] = "idle"
BY DEF TypeOK, Tools, Replace, SetPath, vars, libVars, FilesMove, fileVars

-----------------------------------------------------------------------------
(* How a lookup comes to its answer. *)

(* The call of a thread that is in one, and the file it is about. *)
LEMMA CallFacts ==
  ASSUME LInv, NEW t \in Threads, pc[t] # "idle"
  PROVE  LET f == system[filename[req[t].map]] IN
         /\ AsCalled(req[t]) /\ req[t] \in Request /\ req[t].map \in Maps
         /\ req[t].buf \in Nat /\ Kind(req[t]) \in Kinds
         /\ filename[req[t].map] \in Paths
         /\ f # None => /\ f \in SystemFile /\ f.data \in Contents
                        /\ f.data \in window[t] \ {None} /\ f.data \in Sources(t)
         /\ f = None => None \in window[t]
         /\ window[t] \subseteq Contents \cup {None} /\ IsFiniteSet(window[t])
         /\ pc[t] \notin {"idle", "finish"} => out[t] = Pending
         /\ out[t] \in Outcome
<1> DEFINE f == system[filename[req[t].map]]
<1> USE DEF LInv, IInv, TypeOK
<1>1. AsCalled(req[t]) /\ out[t] \in Outcome
  BY DEF Asked
<1>2. /\ req[t] \in Request /\ req[t].map \in Maps /\ req[t].buf \in Nat
      /\ Kind(req[t]) \in Kinds
  BY <1>1 DEF AsCalled, Request, Kind, Kinds
<1>3. filename[req[t].map] \in Paths /\ f \in SystemFile \cup {None}
  BY <1>2 DEF FilesTypeOK
<1>4. Version(filename[req[t].map]) \in window[t] /\ IsFiniteSet(window[t])
  BY DEF VersionSeen
<1>5. ASSUME f # None
      PROVE  /\ f \in SystemFile /\ f.data \in Contents
             /\ f.data \in window[t] \ {None} /\ f.data \in Sources(t)
  <2>1. f \in SystemFile /\ f.data \in Contents /\ f.data # None
    BY <1>3, <1>5, NoneAssumption DEF SystemFile
  <2>2. f.data \in window[t]
    BY <1>4, <1>5 DEF Version
  <2> QED
    BY <2>1, <2>2 DEF Sources
<1>6. f = None => None \in window[t]
  BY <1>4 DEF Version
<1> QED
  BY <1>1, <1>2, <1>3, <1>4, <1>5, <1>6 DEF Undecided

(* An index has a record for every key of its file, and each leads to a    *)
(* line at or before one with that key.                                    *)
LEMMA IndexFacts ==
  ASSUME NEW c \in Contents, NEW kind \in Kinds, NEW recs \in IndexesOf(c, kind)
  PROVE  /\ \A p \in Starts(c) : \E r \in recs : r.key = KeyOf(c[p], kind)
         /\ \A r \in recs : \E p \in Starts(c) :
              r.key = KeyOf(c[p], kind) /\ r.off \in Starts(c) /\ r.off <= p
<1>1. PICK f \in Offsets(c, kind) : recs = {[key |-> k, off |-> f[k]] : k \in DOMAIN f}
  BY DEF IndexesOf
<1>2. /\ f \in [KeysIn(c, kind) -> Starts(c)]
      /\ \A p \in Starts(c) : f[KeyOf(c[p], kind)] <= p
  BY DEF Offsets
<1>3. ASSUME NEW p \in Starts(c)
      PROVE  \E r \in recs : r.key = KeyOf(c[p], kind)
  <2>1. KeyOf(c[p], kind) \in DOMAIN f
    BY <1>2 DEF KeysIn
  <2>2. [key |-> KeyOf(c[p], kind), off |-> f[KeyOf(c[p], kind)]] \in recs
    BY <1>1, <2>1
  <2> QED
    BY <2>2
<1>4. ASSUME NEW r \in recs
      PROVE  \E p \in Starts(c) :
               r.key = KeyOf(c[p], kind) /\ r.off \in Starts(c) /\ r.off <= p
  <2>1. PICK k \in DOMAIN f : r = [key |-> k, off |-> f[k]]
    BY <1>1
  <2>2. k \in KeysIn(c, kind) /\ f[k] \in Starts(c)
    BY <1>2
  <2>3. PICK p \in Starts(c) : k = KeyOf(c[p], kind)
    BY <2>2 DEF KeysIn
  <2> QED
    BY <1>2, <2>1, <2>2, <2>3
<1> QED
  BY <1>3, <1>4

(* A lookup decides: it has nothing left to do but return with an answer   *)
(* that is right for a version it has seen or has open.                    *)
Decides(t) ==
  /\ pc[t] \in LookupPcs /\ pc' = [pc EXCEPT ![t] = "finish"]
  /\ \E o \in Outcome : /\ out' = [out EXCEPT ![t] = o] /\ o # Pending
                        /\ RightAnswer(o, req[t], Sources(t), window[t])

LEMMA AnswerTypes ==
  ASSUME NEW ret \in NssStatus \cup {"100"}, NEW err \in {"unset", "0", "ERANGE"},
         NEW res \in Unit \cup {None}
  PROVE  Reply(ret, err, res) \in Outcome /\ Reply(ret, err, res) # Pending
<1>1. Reply(ret, err, res).ret # Pending.ret
  BY DEF Reply, Pending, NssStatus
<1> QED
  BY <1>1 DEF Reply, Outcome

(* A key that an index which is not too old does not have is not there.    *)
LEMMA CheckDecides ==
  ASSUME LInv, NEW t \in Threads, CheckIndex(t)
  PROVE  \/ pc' = [pc EXCEPT ![t] = "setup"] /\ out' = out
         \/ pc' = [pc EXCEPT ![t] = "match"] /\ out' = out
         \/ Decides(t)
<1> DEFINE p == filename[req[t].map]
           f == system[p]
           k == Kind(req[t])
           key == SearchKey(k, req[t].key)
           found == {r \in ix[t].recs : r.key = key}
<1>1. pc[t] = "checkindex" /\ out[t] = Pending
  BY CallFacts DEF CheckIndex
<1> SUFFICES ASSUME ~Stale(t), ix[t].recs # {}, found = {},
                    SetRet(t, "NOTFOUND"), Goto(t, "finish")
             PROVE  Decides(t)
  BY DEF CheckIndex, Goto
<1>2. out' = [out EXCEPT ![t] = Reply("NOTFOUND", "unset", None)]
  BY <1>1, SetRetAnswers
<1>3. Reply("NOTFOUND", "unset", None) \in Outcome \ {Pending}
  BY AnswerTypes DEF NssStatus
<1>4. ASSUME FreshIndexes, ~TopBit(k, req[t].key)
      PROVE  \E c \in Sources(t) : Missing(c, req[t])
  <2>1. ix[t] \in Index
    BY <1>1 DEF LInv, IInv, TypeOK, AtOwnStep
  <2>2. /\ f \in SystemFile /\ f.data \in Contents /\ f.data \in Sources(t)
        /\ k \in Kinds
    BY <1>1, CallFacts DEF Stale
  <2>3. f # None /\ f.mtime <= ix[t].mtime
    BY <2>1, <2>2 DEF Stale, SystemFile, Index
  <2>4. ix[t].recs \in IndexesOf(f.data, k)
    <3>1. GoodIndex(ix[t], p, k)
      BY <1>1, <1>4 DEF LInv, OpenIndexFresh
    <3> QED
      BY <2>3, <3>1, <1>1 DEF GoodIndex, LInv, IInv, AtOwnStep
  <2>5. key = req[t].key
    BY <1>4 DEF SearchKey
  <2>6. \A q \in Starts(f.data) : KeyOf(f.data[q], k) # req[t].key
    BY <2>2, <2>4, <2>5, IndexFacts
  <2>7. Missing(f.data, req[t])
    BY <2>6 DEF Missing, Holds, Lines
  <2> QED
    BY <2>2, <2>7
<1>5. window[t] \ {None} # {}
  BY <1>1, CallFacts DEF Stale, SystemFile
<1>6. RightAnswer(Reply("NOTFOUND", "unset", None), req[t], Sources(t), window[t])
  BY <1>4, <1>5 DEF RightAnswer
<1> QED
  BY <1>1, <1>2, <1>3, <1>6 DEF Decides, Goto, LookupPcs

(* The offset found in an index that is not too old is that of a line.     *)
LEMMA CheckPlaces ==
  ASSUME LInv, FreshIndexes, NEW t \in Threads, CheckIndex(t), pc'[t] = "match"
  PROVE  \E c \in window[t] \ {None} : PlacedIn(c, off'[t], req[t])
<1> DEFINE p == filename[req[t].map]
           f == system[p]
           k == Kind(req[t])
           key == SearchKey(k, req[t].key)
<1>1. pc[t] = "checkindex" /\ pc \in [Threads -> Pcs] /\ off \in [Threads -> Nat]
  BY DEF CheckIndex, LInv, IInv, TypeOK
<1>2. ~Stale(t) /\ \E r \in ix[t].recs : r.key = key /\ off' = [off EXCEPT ![t] = r.off]
  BY <1>1 DEF CheckIndex, Goto
<1>3. PICK r \in ix[t].recs : r.key = key /\ off'[t] = r.off
  BY <1>1, <1>2
<1>4. ix[t] \in Index
  BY <1>1 DEF LInv, IInv, TypeOK, AtOwnStep
<1>5. /\ f \in SystemFile /\ f.data \in Contents /\ f.data \in window[t] \ {None}
      /\ k \in Kinds /\ AsCalled(req[t])
  BY <1>1, <1>2, CallFacts DEF Stale
<1>6. f # None /\ f.mtime <= ix[t].mtime
  BY <1>2, <1>4, <1>5 DEF Stale, SystemFile, Index
<1>7. ix[t].recs \in IndexesOf(f.data, k)
  <2>1. GoodIndex(ix[t], p, k)
    BY <1>1 DEF LInv, OpenIndexFresh
  <2> QED
    BY <2>1, <1>1, <1>6 DEF GoodIndex, LInv, IInv, AtOwnStep
<1>8. PICK q \in Starts(f.data) :
        r.key = KeyOf(f.data[q], k) /\ r.off \in Starts(f.data) /\ r.off <= q
  BY <1>3, <1>5, <1>7, IndexFacts
<1>9. key = req[t].key
  <2>1. CASE ~TopBit(k, req[t].key)
    BY <2>1 DEF SearchKey
  <2>2. CASE TopBit(k, req[t].key)
    <3>1. k = "id" /\ req[t].key \in Ids
      <4>1. k = "id" => req[t].op = "getid"
        BY DEF Kind
      <4> QED
        BY <2>2, <1>5, <4>1 DEF TopBit, AsCalled
    <3>2. f.data[q].id \in Ids
      BY <1>5, <1>8, FileFacts DEF Starts, Unit
    <3>3. key \notin Ids
      <4>1. key = req[t].key - 2 ^ IdBits
        BY <2>2 DEF SearchKey
      <4>2. \A i \in Ids : i - 2 ^ IdBits \notin Ids
        BY SizesAssumption
      <4> QED
        BY <3>1, <4>1, <4>2
    <3> QED
      BY <1>3, <1>8, <3>1, <3>2, <3>3 DEF KeyOf
  <2> QED
    BY <2>1, <2>2
<1>10. PlacedIn(f.data, off'[t], req[t])
  BY <1>3, <1>8, <1>9 DEF PlacedIn
<1> QED
  BY <1>5, <1>10

(* Read at an offset that an index gave, an entry is that of a line, and   *)
(* there is one unless the key's own line does not parse: provided that no *)
(* other version of the file came meanwhile.                               *)
LEMMA OffsetGood ==
  ASSUME LInv, FreshIndexes, NEW t \in Threads, pc[t] = "match",
         NEW c \in window[t] \ {None}, ~Overtaken(window[t])
  PROVE  PlacedIn(c, off[t], req[t])
<1>1. PICK d \in window[t] \ {None} : PlacedIn(d, off[t], req[t])
  BY DEF LInv, OffsetPlaced
<1>2. IsFiniteSet(window[t])
  BY CallFacts
<1>3. c = d
  BY <1>2, TwoSeen
<1> QED
  BY <1>1, <1>3

LEMMA MatchDecides ==
  ASSUME LInv, NEW t \in Threads, MatchEntry(t)
  PROVE  \/ pc' = [pc EXCEPT ![t] = "setup"] /\ out' = out
         \/ Decides(t)
<1> DEFINE f == system[filename[req[t].map]]
           c == f.data
           o == Seek(c, off[t])
<1>1. pc[t] = "match" /\ out[t] = Pending /\ off[t] \in Nat
  BY CallFacts DEF MatchEntry, LInv, IInv, TypeOK
<1> SUFFICES ASSUME f # None, NEW r \in Read(c, o, req[t].buf),
                    ~(pc' = [pc EXCEPT ![t] = "setup"] /\ out' = out),
                    \/ /\ r.errno = "0" /\ Matches(c[r.at], req[t])
                       /\ out' = [out EXCEPT ![t] = [@ EXCEPT !.ret = "SUCCESS",
                                                              !.res = c[r.at]]]
                       /\ Goto(t, "finish")
                    \/ /\ r.errno = "ERANGE"
                       /\ out' = [out EXCEPT ![t] = [@ EXCEPT
                              !.ret = BadReturnCode("ERANGE"), !.errnop = "ERANGE"]]
                       /\ Goto(t, "finish")
                    \/ /\ r.errno = "ENOENT"
                       /\ SetRet(t, "100")
                       /\ Goto(t, "finish")
             PROVE  Decides(t)
  BY DEF MatchEntry, Goto
<1>2. /\ c \in Contents /\ c \in window[t] \ {None} /\ c \in Sources(t)
      /\ req[t].buf \in Nat
  BY <1>1, CallFacts
<1>3. Len(c) \in Nat /\ DOMAIN c = 1..Len(c)
  BY <1>2, FileFacts
<1>4. o \in Nat \ {0} /\ (off[t] \in DOMAIN c => o = off[t])
  BY <1>3 DEF Seek
<1> HIDE DEF o, c
<1>5. /\ r.errno = "ENOENT" => r.at = Len(c) + 1
      /\ r.errno # "ENOENT" => r.at \in DOMAIN c /\ (r.at = o \/ c[r.at].start)
      /\ r.errno = "0" => c[r.at].ok
      /\ r.errno = "ERANGE" => c[r.at].need > req[t].buf
      /\ \A q \in DOMAIN c : q >= o /\ q < r.at /\ (q = o \/ c[q].start) => ~c[q].ok
  <2>1. o \in Nat \ {0} /\ r \in Read(c, o, req[t].buf)
    BY <1>4
  <2> QED
    BY <1>2, <2>1, ReadOutcome
<1>6. ASSUME FreshIndexes, ~Overtaken(window[t])
      PROVE  PlacedIn(c, off[t], req[t]) /\ o = off[t] /\ c[o].start
  <2>1. PlacedIn(c, off[t], req[t])
    BY <1>1, <1>2, <1>6, OffsetGood
  <2> QED
    BY <1>4, <2>1 DEF PlacedIn, Starts
<1>7. pc' = [pc EXCEPT ![t] = "finish"] /\ pc[t] \in LookupPcs
  BY <1>1 DEF Goto, LookupPcs
<1>8. CASE r.errno = "0"
  <2> DEFINE a == Reply("SUCCESS", "unset", c[r.at])
  <2>1. out' = [out EXCEPT ![t] = a]
    <3>1. out' = [out EXCEPT ![t] = [out[t] EXCEPT !.ret = "SUCCESS", !.res = c[r.at]]]
      BY <1>8
    <3>2. [out[t] EXCEPT !.ret = "SUCCESS", !.res = c[r.at]]
            \in [ret : {"SUCCESS"}, errnop : {"unset"}, res : {c[r.at]}]
      BY <1>1, AnswerFields
    <3> QED
      BY <3>1, <3>2, AnswerFields
  <2>2. a \in Outcome /\ a # Pending
    BY <1>2, <1>5, <1>8, AnswerTypes, FileFacts DEF NssStatus
  <2>3. r.at \in DOMAIN c /\ c[r.at].ok /\ Matches(c[r.at], req[t])
    BY <1>5, <1>8
  <2>4. c[r.at].start \/ Overtaken(window[t]) \/ ~FreshIndexes
    BY <1>5, <1>6, <1>8
  <2>5. RightAnswer(a, req[t], Sources(t), window[t])
    BY <1>2, <2>3, <2>4 DEF RightAnswer
  <2> QED
    BY <1>7, <2>1, <2>2, <2>5 DEF Decides
<1>9. CASE r.errno = "ERANGE"
  <2> DEFINE a == Reply("TRYAGAIN", "ERANGE", None)
  <2>1. out' = [out EXCEPT ![t] = a]
    <3>1. out' = [out EXCEPT ![t] = [out[t] EXCEPT !.ret = "TRYAGAIN",
                                                   !.errnop = "ERANGE"]]
      BY <1>9 DEF BadReturnCode
    <3>2. [out[t] EXCEPT !.ret = "TRYAGAIN", !.errnop = "ERANGE"]
            \in [ret : {"TRYAGAIN"}, errnop : {"ERANGE"}, res : {None}]
      BY <1>1, AnswerFields
    <3> QED
      BY <3>1, <3>2, AnswerFields
  <2>2. a \in Outcome /\ a # Pending
    BY AnswerTypes DEF NssStatus
  <2>3. RightAnswer(a, req[t], Sources(t), window[t])
    BY <1>2, <1>5, <1>9 DEF RightAnswer
  <2> QED
    BY <1>7, <2>1, <2>2, <2>3 DEF Decides
<1>10. CASE r.errno = "ENOENT"
  <2> DEFINE a == Reply("100", "unset", None)
  <2>1. out' = [out EXCEPT ![t] = a]
    BY <1>1, <1>10, SetRetAnswers
  <2>2. a \in Outcome /\ a # Pending
    BY AnswerTypes
  <2>3. ASSUME FreshIndexes, ~Overtaken(window[t])
        PROVE  Dangling(c, Kind(req[t]), req[t].key)
    <3>1. PICK p \in Starts(c) : off[t] <= p /\ KeyOf(c[p], Kind(req[t])) = req[t].key
      BY <1>6, <2>3 DEF PlacedIn
    <3>2. ASSUME NEW q \in Lines(c)
          PROVE  q < p
      <4>1. q \in DOMAIN c /\ c[q].start /\ c[q].ok /\ q \in 1..Len(c)
        BY <1>3 DEF Lines, Starts
      <4>2. r.at = Len(c) + 1 /\ q < r.at
        BY <1>3, <1>5, <1>10, <4>1
      <4>3. ~(q >= o)
        BY <1>5, <4>1, <4>2
      <4>4. o = off[t]
        BY <1>6, <2>3
      <4>5. p \in Nat /\ q \in Nat
        BY <1>3, <3>1, <4>1 DEF Starts
      <4> QED
        BY <1>1, <3>1, <4>3, <4>4, <4>5
    <3> QED
      BY <3>1, <3>2 DEF Dangling
  <2>4. RightAnswer(a, req[t], Sources(t), window[t])
    BY <1>2, <2>3 DEF RightAnswer
  <2> QED
    BY <1>7, <2>1, <2>2, <2>4 DEF Decides
<1> QED
  BY <1>8, <1>9, <1>10

(* Without a file there is nothing to search. *)
LEMMA SetupDecides ==
  ASSUME LInv, NEW t \in Threads, SetupScan(t)
  PROVE  \/ /\ pc' = [pc EXCEPT ![t] = "scan"] /\ out' = out
            /\ stream'[req[t].map] # None
         \/ Decides(t) /\ stream' = stream
<1> DEFINE m == req[t].map
           f == system[filename[m]]
<1>1. pc[t] = "setup" /\ out[t] = Pending /\ m \in Maps
  BY CallFacts DEF SetupScan
<1>2. stream \in [Maps -> Stream \cup {None}]
  BY DEF LInv, IInv, TypeOK
<1>3. stream' = [stream EXCEPT ![m] = SetentLocked(m)]
  BY DEF SetupScan
<1> SUFFICES ASSUME stream'[m] = None, SetRet(t, "UNAVAIL"), Goto(t, "finish")
             PROVE  Decides(t) /\ stream' = stream
  BY DEF SetupScan, Goto
<1>4. SetentLocked(m) = None
  BY <1>1, <1>2, <1>3
<1>5. stream[m] = None /\ f = None
  <2>1. ASSUME stream[m] # None
        PROVE  FALSE
    <3>1. [stream[m] EXCEPT !.pos = 1] \in Stream
      BY <1>1, <1>2, <2>1 DEF Stream
    <3> QED
      BY <1>4, <2>1, <3>1, NothingAssumption DEF SetentLocked
  <2>2. ASSUME stream[m] = None, f # None
        PROVE  FALSE
    <3>1. f.data \in Contents
      BY <1>1, <2>2, CallFacts
    <3>2. [data |-> f.data, pos |-> 1] \in Stream
      BY <3>1 DEF Stream
    <3> QED
      BY <1>4, <2>2, <3>2, NothingAssumption DEF SetentLocked
  <2> QED
    BY <2>1, <2>2
<1>6. stream' = stream
  BY <1>1, <1>2, <1>3, <1>4, <1>5
<1>7. None \in window[t]
  BY <1>1, <1>5, CallFacts
<1>8. /\ out' = [out EXCEPT ![t] = Reply("UNAVAIL", "unset", None)]
      /\ Reply("UNAVAIL", "unset", None) \in Outcome \ {Pending}
  BY <1>1, SetRetAnswers, AnswerTypes DEF NssStatus
<1>9. RightAnswer(Reply("UNAVAIL", "unset", None), req[t], Sources(t), window[t])
  BY <1>7 DEF RightAnswer
<1> QED
  BY <1>1, <1>6, <1>8, <1>9 DEF Decides, Goto, LookupPcs

(* A linear search goes on in the same version, within it, or decides.     *)
LEMMA ScanDecides ==
  ASSUME LInv, NEW t \in Threads, Scan(t)
  PROVE  LET m == req[t].map IN
         /\ pc[t] = "scan" /\ stream[m] \in Stream /\ stream[m] # None
         /\ \E s \in Stream : /\ stream' = [stream EXCEPT ![m] = s]
                              /\ s.data = stream[m].data
                              /\ s.pos <= Len(s.data) + 1
         /\ UNCHANGED <<out, pc>> \/ Decides(t)
<1> DEFINE m == req[t].map
           s == stream[m]
           c == s.data
<1>1. pc[t] = "scan" /\ out[t] = Pending /\ m \in Maps /\ req[t].buf \in Nat
  BY CallFacts DEF Scan
<1>2. s \in Stream /\ s # None
  BY <1>1 DEF LInv, IInv, TypeOK, ScanProgress
<1>3. /\ c \in Contents /\ s.pos \in Nat \ {0} /\ c # None
      /\ s.pos \in Starts(c) \cup {Len(c) + 1} /\ s.pos <= Len(c) + 1
  BY <1>1, <1>2, NoneAssumption DEF LInv, IInv, ScanProgress, Stream, StreamPlaced
<1>4. c \in Sources(t)
  BY <1>2, <1>3 DEF Sources
<1>5. PICK o \in GetentLocked(m, s, req[t].buf) :
        /\ stream' = [stream EXCEPT ![m] = o.stream]
        /\ \/ UNCHANGED <<out, pc>>
           \/ /\ o.ret = "SUCCESS" => Matches(o.res, req[t])
              /\ out' = [out EXCEPT ![t] = Result(o)]
              /\ Goto(t, "finish")
  BY DEF Scan
<1>6. PICK r \in Read(c, s.pos, req[t].buf) :
        /\ o.stream = [data |-> c, pos |-> PosAfter(m, s, r)]
        /\ Result(o).ret = o.ret /\ Result(o).res = o.res
        /\ r.errno = "0" => Result(o) = Reply("SUCCESS", "unset", c[r.at])
        /\ r.errno = "ERANGE" => Result(o) = Reply("TRYAGAIN", "ERANGE", None)
        /\ r.errno = "ENOENT" => Result(o) = Reply("NOTFOUND", "0", None)
  BY <1>1, <1>2, GetentAnswers
<1>7. /\ r.errno \in {"0", "ENOENT", "ERANGE"}
      /\ r.errno # "ENOENT" => r.at \in DOMAIN c /\ (r.at = s.pos \/ c[r.at].start)
      /\ r.errno = "0" => c[r.at].ok
      /\ r.errno = "ERANGE" => c[r.at].need > req[t].buf
      /\ r.pos \in Nat /\ r.pos <= Len(c) + 1
  BY <1>1, <1>3, ReadOutcome
<1>8. /\ o.stream \in Stream /\ o.stream.data = c
      /\ o.stream.pos <= Len(c) + 1
  <2>1. r.pos \in Nat \ {0}
    BY <1>1, <1>3, ReadFacts
  <2>2. PosAfter(m, s, r) \in Nat \ {0} /\ PosAfter(m, s, r) <= Len(c) + 1
    BY <1>3, <1>7, <2>1 DEF PosAfter
  <2> QED
    BY <1>3, <1>6, <2>2 DEF Stream
<1>9. ASSUME out' = [out EXCEPT ![t] = Result(o)], Goto(t, "finish"),
             o.ret = "SUCCESS" => Matches(o.res, req[t])
      PROVE  Decides(t)
  <2>1. pc' = [pc EXCEPT ![t] = "finish"] /\ pc[t] \in LookupPcs
    BY <1>1, <1>9 DEF Goto, LookupPcs
  <2>2. Result(o) \in Outcome /\ Result(o) # Pending
    <3>1. r.errno = "0" => c[r.at] \in Unit
      BY <1>3, <1>7, FileFacts
    <3> QED
      BY <1>6, <1>7, <3>1, AnswerTypes DEF NssStatus
  <2>3. RightAnswer(Result(o), req[t], Sources(t), window[t])
    <3>1. CASE r.errno = "0"
      <4>1. Result(o) = Reply("SUCCESS", "unset", c[r.at])
        BY <1>6, <3>1
      <4>2. c[r.at].start
        BY <1>3, <1>7, <3>1, FileFacts DEF Starts
      <4>3. Matches(c[r.at], req[t])
        BY <1>6, <1>9, <4>1 DEF Reply
      <4> QED
        BY <1>4, <1>7, <3>1, <4>1, <4>2, <4>3 DEF RightAnswer
    <3>2. CASE r.errno = "ERANGE"
      BY <1>4, <1>6, <1>7, <3>2 DEF RightAnswer
    <3>3. CASE r.errno = "ENOENT"
      <4>1. Result(o) = Reply("NOTFOUND", "0", None)
        BY <1>6, <3>3
      <4>2. out'[t].ret = "NOTFOUND" /\ pc'[t] = "finish"
        BY <1>9, <2>1, <4>1 DEF Reply, LInv, IInv, TypeOK
      <4>3. Missing(c, req[t])
        BY <4>2, ScanAdvances DEF LInv
      <4> QED
        BY <1>4, <4>1, <4>3 DEF RightAnswer
    <3> QED
      BY <1>7, <3>1, <3>2, <3>3
  <2> QED
    BY <1>9, <2>1, <2>2, <2>3 DEF Decides
<1> QED
  BY <1>1, <1>2, <1>5, <1>8, <1>9

(* The steps of a lookup between the mutex and its end.                    *)
SearchStep(t) ==
  \/ PrepareByName(t) \/ OpenIndex(t) \/ CheckIndex(t)
  \/ MatchEntry(t) \/ SetupScan(t) \/ Scan(t)

(* A lookup goes on with its search or decides.  It opens the stream only  *)
(* on the file in place, and otherwise moves it within its version.        *)
LEMMA SearchMoves ==
  ASSUME LInv, NEW t \in Threads, SearchStep(t)
  PROVE  LET m == req[t].map
             f == system[filename[m]] IN
         /\ pc[t] \in LookupPcs \ {"finish"} /\ out[t] = Pending
         /\ \/ /\ out' = out
               /\ \E label \in LookupPcs \ {"finish"} : pc' = [pc EXCEPT ![t] = label]
            \/ Decides(t)
         /\ \/ stream' = stream /\ pc[t] # "scan"
            \/ /\ pc'[t] \in {"scan", "finish"}
               /\ \E s \in Stream :
                    /\ stream' = [stream EXCEPT ![m] = s]
                    /\ s.pos <= Len(s.data) + 1
                    /\ stream[m] # None => s.data = stream[m].data
                    /\ stream[m] = None => f # None /\ s.data = f.data
         /\ pc'[t] = "checkindex" => OpenIndex(t)
         /\ pc'[t] = "match" => CheckIndex(t)
<1> DEFINE m == req[t].map
           f == system[filename[m]]
           Opens == \E s \in Stream :
                      /\ stream' = [stream EXCEPT ![m] = s]
                      /\ s.pos <= Len(s.data) + 1
                      /\ stream[m] # None => s.data = stream[m].data
                      /\ stream[m] = None => f # None /\ s.data = f.data
           Goes(label) == out' = out /\ pc' = [pc EXCEPT ![t] = label]
<1>1. pc[t] \in LookupPcs \ {"finish"}
  BY DEF SearchStep, PrepareByName, OpenIndex, CheckIndex, MatchEntry,
         SetupScan, Scan, LookupPcs
<1>2. /\ out[t] = Pending /\ m \in Maps /\ pc \in [Threads -> Pcs]
      /\ stream \in [Maps -> Stream \cup {None}]
  BY <1>1, CallFacts DEF LookupPcs, LInv, IInv, TypeOK
<1>3. \A label : Goes(label) => pc'[t] = label
  BY <1>2
<1>4. Decides(t) => pc'[t] = "finish"
  BY <1>2 DEF Decides
<1>5. CASE PrepareByName(t)
  <2>1. Goes("openindex") /\ stream' = stream /\ pc[t] = "getnam"
    BY <1>5 DEF PrepareByName, Goto
  <2> QED
    BY <1>2, <1>3, <2>1 DEF LookupPcs
<1>6. CASE OpenIndex(t)
  <2>1. /\ stream' = stream /\ pc[t] = "openindex"
        /\ Goes("setup") \/ Goes("checkindex")
    BY <1>6 DEF OpenIndex, Goto
  <2> QED
    BY <1>2, <1>3, <1>6, <2>1 DEF LookupPcs
<1>7. CASE CheckIndex(t)
  <2>1. stream' = stream /\ pc[t] = "checkindex"
    BY <1>7 DEF CheckIndex
  <2>2. Goes("setup") \/ Goes("match") \/ Decides(t)
    BY <1>7, CheckDecides
  <2> QED
    BY <1>2, <1>3, <1>4, <1>7, <2>1, <2>2 DEF LookupPcs
<1>8. CASE MatchEntry(t)
  <2>1. stream' = stream /\ pc[t] = "match"
    BY <1>8 DEF MatchEntry
  <2>2. Goes("setup") \/ Decides(t)
    BY <1>8, MatchDecides
  <2> QED
    BY <1>2, <1>3, <1>4, <2>1, <2>2 DEF LookupPcs
<1>9. CASE SetupScan(t)
  <2>1. stream' = [stream EXCEPT ![m] = SetentLocked(m)] /\ pc[t] = "setup"
    BY <1>9 DEF SetupScan
  <2>2. CASE Goes("scan") /\ stream'[m] # None
    <3>1. SetentLocked(m) # None
      BY <1>2, <2>1, <2>2
    <3>2. SetentLocked(m) \in Stream /\ SetentLocked(m).pos = 1
      BY <1>2, <3>1, SetentLockedFacts DEF LInv, IInv
    <3>3. /\ stream[m] # None => SetentLocked(m).data = stream[m].data
          /\ stream[m] = None => f # None /\ SetentLocked(m).data = f.data
      <4>1. CASE stream[m] # None
        BY <1>2, <4>1 DEF SetentLocked, Stream
      <4>2. CASE stream[m] = None
        BY <3>1, <4>2 DEF SetentLocked
      <4> QED
        BY <4>1, <4>2
    <3>4. SetentLocked(m).pos <= Len(SetentLocked(m).data) + 1
      <4>1. SetentLocked(m).data \in Contents
        BY <3>2 DEF Stream
      <4> QED
        BY <3>2, <4>1, FileFacts
    <3>5. Opens
      BY <2>1, <3>2, <3>3, <3>4
    <3> QED
      BY <1>1, <1>2, <1>3, <2>2, <3>5 DEF LookupPcs
  <2>3. CASE Decides(t) /\ stream' = stream
    BY <1>1, <1>2, <1>4, <2>1, <2>3
  <2> QED
    BY <1>9, <2>2, <2>3, SetupDecides
<1>10. CASE Scan(t)
  <2>1. /\ pc[t] = "scan" /\ stream[m] # None
        /\ \E s \in Stream : /\ stream' = [stream EXCEPT ![m] = s]
                             /\ s.data = stream[m].data
                             /\ s.pos <= Len(s.data) + 1
        /\ UNCHANGED <<out, pc>> \/ Decides(t)
    BY <1>10, ScanDecides
  <2>2. Opens
    BY <2>1
  <2>3. Goes("scan") \/ Decides(t)
    BY <1>2, <2>1
  <2> QED
    BY <1>1, <1>2, <1>3, <1>4, <2>2, <2>3 DEF LookupPcs
<1> QED
  BY <1>5, <1>6, <1>7, <1>8, <1>9, <1>10 DEF SearchStep

(* A lookup that ends before it searches says so and changes nothing else. *)
LEMMA FailsUnavailable ==
  ASSUME LInv, NEW t \in Threads, FailByName(t)
  PROVE  /\ out[t] = Pending /\ req[t].op = "getnam"
         /\ out' = [out EXCEPT ![t] = Reply("UNAVAIL", "unset", None)]
         /\ stream' = stream /\ pc' = [pc EXCEPT ![t] = "idle"]
         /\ MallocMayFail \/ PathLen[filename[req[t].map]] > PathLimit - 8
<1>1. pc[t] = "getnam" /\ out[t] = Pending
  BY CallFacts DEF FailByName
<1>2. req[t].op = "getnam"
  BY <1>1 DEF LInv, IInv, AtOwnStep
<1> QED
  BY <1>1, <1>2, SetRetAnswers DEF FailByName, NameTooLong

(* Enumeration calls are over in one step, and leave the stream of their   *)
(* map closed or within its file.                                          *)
LEMMA EntMoves ==
  ASSUME LInv, NEW t \in Threads, DoSetent(t) \/ DoEndent(t) \/ DoGetent(t)
  PROVE  /\ pc[t] \in EntOps /\ req[t].op \in EntOps
         /\ pc' = [pc EXCEPT ![t] = "idle"]
         /\ \A m \in Maps : stream'[m] # None =>
              stream'[m].pos <= Len(stream'[m].data) + 1
<1> DEFINE m == req[t].map
           Placed(s) == s # None => s.pos <= Len(s.data) + 1
<1>1. pc[t] \in EntOps /\ pc' = [pc EXCEPT ![t] = "idle"]
  BY DEF DoSetent, DoEndent, DoGetent, EntOps, Unlock
<1>2. req[t].op \in EntOps
  BY <1>1 DEF LInv, IInv, AtOwnStep
<1>3. /\ m \in Maps /\ req[t].buf \in Nat /\ TypeOK
      /\ stream \in [Maps -> Stream \cup {None}]
  BY <1>1, CallFacts DEF EntOps, LInv, IInv, TypeOK
<1>4. \A l \in Maps : Placed(stream[l])
  BY DEF LInv, StreamPlaced
<1>5. /\ SetentLocked(m) \in Stream \cup {None}
      /\ Placed(SetentLocked(m))
  <2>1. SetentLocked(m) \in Stream \cup {None}
    BY <1>3, SetentLockedFacts
  <2>2. ASSUME SetentLocked(m) # None
        PROVE  SetentLocked(m).pos <= Len(SetentLocked(m).data) + 1
    <3>1. SetentLocked(m).pos = 1 /\ SetentLocked(m).data \in Contents
      BY <1>3, <2>1, <2>2, SetentLockedFacts DEF Stream
    <3> QED
      BY <3>1, FileFacts
  <2> QED
    BY <2>1, <2>2
<1>6. ASSUME NEW s, Placed(s), stream' = [stream EXCEPT ![m] = s]
      PROVE  \A l \in Maps : Placed(stream'[l])
  BY <1>3, <1>4, <1>6
<1>7. \A l \in Maps : Placed(stream'[l])
  <2>1. CASE DoSetent(t)
    BY <1>5, <1>6, <2>1 DEF DoSetent
  <2>2. CASE DoEndent(t)
    BY <1>6, <2>2 DEF DoEndent, EndentLocked
  <2>3. CASE DoGetent(t)
    <3> DEFINE s == IF stream[m] = None THEN SetentLocked(m) ELSE stream[m]
    <3>1. CASE stream' = stream
      BY <1>4, <3>1
    <3>2. CASE stream' # stream
      <4>1. /\ s \in Stream
            /\ \E o \in GetentLocked(m, s, req[t].buf) :
                 stream' = [stream EXCEPT ![m] = o.stream]
        BY <1>3, <1>5, <2>3, <3>2 DEF DoGetent
      <4>2. PICK o \in GetentLocked(m, s, req[t].buf) :
              stream' = [stream EXCEPT ![m] = o.stream]
        BY <4>1
      <4>3. PICK r \in Read(s.data, s.pos, req[t].buf) :
              o.stream = [data |-> s.data, pos |-> PosAfter(m, s, r)]
        BY <1>3, <4>1, GetentAnswers
      <4>4. /\ s.data \in Contents /\ s.pos \in Nat \ {0}
            /\ s.pos <= Len(s.data) + 1
        <5>1. s # None
          BY <4>1, NothingAssumption
        <5> QED
          BY <1>3, <1>4, <1>5, <4>1, <5>1 DEF Stream
      <4>5. r.pos <= Len(s.data) + 1
        BY <1>3, <4>4, ReadOutcome
      <4>6. Placed(o.stream)
        BY <4>3, <4>4, <4>5 DEF PosAfter
      <4> QED
        BY <1>6, <4>2, <4>6
    <3> QED
      BY <3>1, <3>2
  <2> QED
    BY <2>1, <2>2, <2>3
<1> QED
  BY <1>1, <1>2, <1>7

-----------------------------------------------------------------------------
(* LInv is preserved. *)

(* What a step is: one of a thread's, or one that leaves threads alone.    *)
ThreadStep(t) == Call(t) \/ Acquire(t) \/ Locked(t)
ToolStep == \/ Tools
            \/ \E m \in Maps, p \in Paths : SetPath(m, p)
            \/ UNCHANGED vars

LEMMA StepCases ==
  ASSUME [Next]_vars
  PROVE  (\E t \in Threads : ThreadStep(t)) \/ ToolStep
BY DEF Next, ThreadStep, ToolStep

LEMMA LockedCases ==
  ASSUME NEW t \in Threads, Locked(t)
  PROVE  \/ DoSetent(t) \/ DoEndent(t) \/ DoGetent(t)
         \/ FailByName(t) \/ SearchStep(t) \/ Finish(t)
BY DEF Locked, SearchStep

(* Where a call is when the mutex has been taken. *)
LEMMA AcquireMoves ==
  ASSUME LInv, NEW t \in Threads, Acquire(t)
  PROVE  /\ pc[t] = "lock" /\ out[t] = Pending /\ out' = out /\ stream' = stream
         /\ \E label \in EntOps \cup {"getnam", "openindex"} :
              pc' = [pc EXCEPT ![t] = label]
<1>1. pc[t] = "lock" /\ out[t] = Pending /\ req[t] \in Request
  BY CallFacts DEF Acquire
<1>2. (IF req[t].op = "getid" THEN "openindex" ELSE req[t].op)
        \in EntOps \cup {"getnam", "openindex"}
  BY <1>1 DEF Request, LookupOps
<1> QED
  BY <1>1, <1>2 DEF Acquire

LEMMA VersionSeenStep ==
  ASSUME LInv, [Next]_vars
  PROVE  VersionSeen'
<1> USE DEF LInv, IInv, TypeOK
<1>1. ASSUME NEW t \in Threads, ThreadStep(t), NEW u \in Threads, u # t
      PROVE  /\ IsFiniteSet(window'[u])
             /\ pc'[u] # "idle" => Version(filename[req[u].map])' \in window'[u]
  <2>1. /\ window'[u] = window[u] /\ pc'[u] = pc[u] /\ req'[u] = req[u]
        /\ filename' = filename /\ system' = system
    BY <1>1, OthersKeep, OthersUntouched DEF ThreadStep, fileVars
  <2> QED
    BY <2>1 DEF VersionSeen, Version
<1>2. ASSUME NEW t \in Threads, ThreadStep(t)
      PROVE  /\ IsFiniteSet(window'[t])
             /\ pc'[t] # "idle" => Version(filename[req[t].map])' \in window'[t]
  <2>1. CASE Call(t)
    <3>1. PICK r : Begin(t, r)
      BY <2>1, CallShape
    <3>2. /\ window'[t] = {Version(filename[r.map])} /\ req'[t] = r
          /\ filename' = filename /\ system' = system
      BY <3>1 DEF Begin, fileVars
    <3>3. IsFiniteSet(window'[t])
      <4>1. \A v : IsFiniteSet({v})
        BY FS_Singleton
      <4> QED
        BY <3>2, <4>1
    <3> QED
      BY <3>2, <3>3 DEF Version
  <2>2. CASE Acquire(t)
    <3>1. /\ window' = window /\ req' = req /\ pc[t] # "idle"
          /\ filename' = filename /\ system' = system
      BY <2>2 DEF Acquire, fileVars
    <3> QED
      BY <3>1 DEF VersionSeen, Version
  <2>3. CASE Locked(t)
    <3>1. pc[t] \in LockedPcs /\ req' = req /\ filename' = filename
      BY <2>3, LockedMoves
    <3>2. pc[t] # "idle"
      BY <3>1 DEF LockedPcs, EntOps
    <3>3. window' = window /\ system' = system
      BY <2>3, LockedSees DEF fileVars
    <3> QED
      BY <3>1, <3>2, <3>3 DEF VersionSeen, Version
  <2> QED
    BY <1>2, <2>1, <2>2, <2>3 DEF ThreadStep
<1>3. ASSUME NEW p \in Paths, NEW c \in Contents, Replace(p, c)
      PROVE  VersionSeen'
  <2> SUFFICES ASSUME NEW u \in Threads
               PROVE  /\ IsFiniteSet(window'[u])
                      /\ pc'[u] # "idle" => Version(filename[req[u].map])' \in window'[u]
    BY DEF VersionSeen
  <2>1. /\ pc' = pc /\ req' = req /\ filename' = filename
        /\ system' = [system EXCEPT ![p] = [data |-> c, mtime |-> now']]
        /\ window'[u] = IF pc[u] # "idle" /\ filename[req[u].map] = p
                          THEN window[u] \cup {c} ELSE window[u]
    BY <1>3 DEF Replace, UpdateSystem
  <2>2. IsFiniteSet(window'[u])
    <3>1. IsFiniteSet(window[u])
      BY DEF VersionSeen
    <3>2. IsFiniteSet(window[u] \cup {c})
      BY <3>1, FS_AddElement
    <3> QED
      BY <2>1, <3>1, <3>2
  <2>3. CASE pc[u] # "idle" /\ filename[req[u].map] = p
    <3>1. system'[p] = [data |-> c, mtime |-> now'] /\ now' \in Nat
      BY <1>3, <2>1, CacheFilesAssumption DEF Replace, UpdateSystem, Stamp, FilesTypeOK
    <3>2. system'[p] # None
      BY <3>1, AbsentAssumption DEF SystemFile
    <3>3. Version(filename[req[u].map])' = c
      BY <2>1, <2>3, <3>1, <3>2 DEF Version
    <3> QED
      BY <2>1, <2>2, <2>3, <3>3
  <2>4. CASE ~(pc[u] # "idle" /\ filename[req[u].map] = p)
    <3>1. pc[u] # "idle" => filename[req[u].map] \in Paths \ {p}
      BY <2>4, CallFacts
    <3>2. pc[u] # "idle" => Version(filename[req[u].map])' = Version(filename[req[u].map])
      BY <2>1, <3>1 DEF Version, FilesTypeOK
    <3> QED
      BY <2>1, <2>2, <2>4, <3>2 DEF VersionSeen
  <2> QED
    BY <2>3, <2>4
<1>4. ASSUME NEW m \in Maps, NEW p \in Paths, SetPath(m, p)
      PROVE  VersionSeen'
  <2>1. window' = window /\ pc' = pc /\ \A u \in Threads : pc[u] = "idle"
    BY <1>4 DEF SetPath
  <2> QED
    BY <2>1 DEF VersionSeen
<1>5. CASE /\ \/ \E p \in Paths, k \in Kinds : StartIndexer(p, k) \/ RemoveIndex(p, k)
              \/ FinishIndexer
           /\ UNCHANGED libVars
  <2>1. system' = system
    BY <1>5 DEF StartIndexer, RemoveIndex, FinishIndexer
  <2> QED
    BY <1>5, <2>1 DEF VersionSeen, Version, libVars
<1>6. CASE UNCHANGED vars
  BY <1>6 DEF VersionSeen, Version, vars, libVars, fileVars
<1>7. CASE \E t \in Threads : ThreadStep(t)
  BY <1>1, <1>2, <1>7 DEF VersionSeen
<1> QED
  BY <1>3, <1>4, <1>5, <1>6, <1>7, StepCases DEF ToolStep, Tools

LEMMA UndecidedStep ==
  ASSUME LInv, [Next]_vars
  PROVE  Undecided'
<1> USE DEF LInv, IInv, TypeOK
<1> DEFINE Good(u) == /\ pc'[u] \notin {"idle", "finish"} => out'[u] = Pending
                      /\ pc'[u] = "finish" => out'[u] # Pending
<1>1. ASSUME NEW u \in Threads, pc'[u] = pc[u], out'[u] = out[u]
      PROVE  Good(u)
  BY <1>1 DEF Undecided
<1>2. ASSUME NEW t \in Threads, ThreadStep(t)
      PROVE  Good(t)
  <2>1. CASE Call(t)
    <3>1. \/ pc'[t] = "lock" /\ out'[t] = Pending
          \/ pc' = pc /\ pc[t] = "idle"
      BY <2>1, CallShape DEF Begin
    <3> QED
      BY <3>1
  <2>2. CASE Acquire(t)
    BY <2>2, AcquireMoves DEF EntOps
  <2>3. CASE DoSetent(t) \/ DoEndent(t) \/ DoGetent(t)
    BY <2>3, EntMoves
  <2>4. CASE FailByName(t)
    BY <2>4, FailsUnavailable
  <2>5. CASE SearchStep(t)
    <3>1. CASE Decides(t)
      BY <3>1 DEF Decides
    <3>2. CASE /\ out' = out
               /\ \E label \in LookupPcs \ {"finish"} : pc' = [pc EXCEPT ![t] = label]
      BY <2>5, <3>2, SearchMoves DEF LookupPcs
    <3> QED
      BY <2>5, <3>1, <3>2, SearchMoves
  <2>6. CASE Finish(t)
    BY <2>6 DEF Finish, Unlock
  <2> QED
    BY <1>2, <2>1, <2>2, <2>3, <2>4, <2>5, <2>6, LockedCases DEF ThreadStep
<1>3. ASSUME NEW t \in Threads, ThreadStep(t), NEW u \in Threads, u # t
      PROVE  Good(u)
  BY <1>1, <1>3, OthersUntouched DEF ThreadStep
<1>4. CASE ToolStep
  BY <1>1, <1>4, ToolsUntouched DEF ToolStep, Undecided
<1> QED
  BY <1>2, <1>3, <1>4, StepCases DEF Undecided

LEMMA AskedStep ==
  ASSUME LInv, [Next]_vars
  PROVE  Asked'
<1> USE DEF LInv, IInv, TypeOK
<1>1. ASSUME NEW u \in Threads
      PROVE  req'[u] = req[u] \/ AsCalled(req'[u])
  <2>1. ASSUME NEW t \in Threads, Call(t)
        PROVE  req'[u] = req[u] \/ AsCalled(req'[u])
    <3>1. PICK r : AsCalled(r) /\ Begin(t, r)
      BY <2>1, CallShape
    <3> QED
      BY <3>1 DEF Begin
  <2> QED
    BY <2>1, LockedMoves, ToolsUntouched, StepCases DEF ThreadStep, ToolStep, Acquire
<1> QED
  BY <1>1 DEF Asked, AsCalled

LEMMA StreamPlacedStep ==
  ASSUME LInv, [Next]_vars
  PROVE  StreamPlaced'
<1> USE DEF LInv, IInv, TypeOK
<1>1. stream' = stream => StreamPlaced'
  BY DEF StreamPlaced
<1>2. ASSUME NEW t \in Threads, ThreadStep(t)
      PROVE  StreamPlaced'
  <2>1. CASE Call(t) \/ Acquire(t)
    BY <1>1, <2>1, CallShape DEF Begin, Acquire
  <2>2. CASE DoSetent(t) \/ DoEndent(t) \/ DoGetent(t)
    BY <2>2, EntMoves DEF StreamPlaced
  <2>3. CASE FailByName(t)
    BY <1>1, <2>3, FailsUnavailable
  <2>4. CASE SearchStep(t)
    <3>1. stream' = stream
          \/ \E s \in Stream : /\ stream' = [stream EXCEPT ![req[t].map] = s]
                               /\ s.pos <= Len(s.data) + 1
      BY <2>4, SearchMoves
    <3> QED
      BY <1>1, <3>1 DEF StreamPlaced
  <2>5. CASE Finish(t)
    BY <2>5 DEF Finish, EndentLocked, StreamPlaced
  <2> QED
    BY <1>2, <2>1, <2>2, <2>3, <2>4, <2>5, LockedCases DEF ThreadStep
<1> QED
  BY <1>1, <1>2, ToolsUntouched, StepCases DEF ToolStep

(* Only a lookup at its search has an index to check or an offset to try. *)
LEMMA SearchLeads ==
  ASSUME LInv, NEW t \in Threads, ThreadStep(t), pc'[t] \in {"checkindex", "match"}
  PROVE  SearchStep(t)
<1> USE DEF LInv, IInv, TypeOK
<1>1. ~Call(t)
  <2>1. Call(t) => pc'[t] \in {"lock", "idle"}
    BY CallShape DEF Begin
  <2> QED
    BY <2>1
<1>2. ~Acquire(t)
  BY AcquireMoves DEF EntOps
<1>3. ~(DoSetent(t) \/ DoEndent(t) \/ DoGetent(t)) /\ ~FailByName(t)
  BY EntMoves, FailsUnavailable
<1>4. ~Finish(t)
  BY DEF Finish, Unlock
<1> QED
  BY <1>1, <1>2, <1>3, <1>4, LockedCases DEF ThreadStep

(* Steps leave indexes that lookups have open alone, but for the one that  *)
(* opens the index in place.                                               *)
LEMMA OpenIndexFreshStep ==
  ASSUME LInv, FreshIndexes, [Next]_vars
  PROVE  OpenIndexFresh'
<1> USE DEF LInv, IInv, TypeOK
<1> DEFINE p(u) == filename[req[u].map]
           k(u) == Kind(req[u])
<1> SUFFICES ASSUME NEW u \in Threads, pc'[u] = "checkindex"
             PROVE  GoodIndex(ix[u], p(u), k(u))'
  BY DEF OpenIndexFresh
<1>1. ASSUME pc[u] = "checkindex", ix'[u] = ix[u], req'[u] = req[u],
             filename' = filename, FilesMove \/ UNCHANGED fileVars
      PROVE  GoodIndex(ix[u], p(u), k(u))'
  <2>1. p(u) \in Paths /\ k(u) \in Kinds
    BY <1>1, CallFacts
  <2>2. ix[u] \in Index \cup {None} /\ GoodIndex(ix[u], p(u), k(u))
    BY <1>1 DEF OpenIndexFresh
  <2>3. ix[u] # None =>
           /\ ix[u].mtime <= now'
           /\ system'[p(u)] # None /\ system'[p(u)].mtime <= ix[u].mtime =>
                ix[u].recs \in IndexesOf(system'[p(u)].data, k(u))
    BY <1>1, <2>1, <2>2, IndexStaysGood
  <2> QED
    BY <1>1, <2>3 DEF GoodIndex, Kind
<1>2. ASSUME NEW t \in Threads, ThreadStep(t), t # u
      PROVE  GoodIndex(ix[u], p(u), k(u))'
  <2>1. /\ pc'[u] = pc[u] /\ ix'[u] = ix[u] /\ req'[u] = req[u]
        /\ filename' = filename /\ UNCHANGED fileVars
    BY <1>2, OthersKeep, OthersUntouched DEF ThreadStep
  <2> QED
    BY <1>1, <2>1
<1>3. CASE ThreadStep(u)
  <2>1. SearchStep(u)
    BY <1>3, SearchLeads
  <2>2. OpenIndex(u)
    BY <2>1, SearchMoves
  <2>3. pc[u] # "idle"
    BY <2>2 DEF OpenIndex
  <2>4. p(u) \in Paths /\ k(u) \in Kinds
    BY <2>3, CallFacts
  <2>5. /\ ix'[u] = index[p(u)][k(u)] /\ p(u)' = p(u) /\ k(u)' = k(u)
        /\ system' = system /\ now' = now
    BY <2>2 DEF OpenIndex, Kind, fileVars
  <2>6. GoodIndex(index[p(u)][k(u)], p(u), k(u))
    BY <2>4 DEF FilesFresh
  <2> QED
    BY <2>5, <2>6 DEF GoodIndex
<1>4. CASE ToolStep
  <2>1. pc' = pc /\ ix' = ix /\ req' = req
    BY <1>4, ToolsUntouched DEF ToolStep
  <2>2. filename' = filename /\ (FilesMove \/ UNCHANGED fileVars)
    BY <1>4, <2>1, ToolsAdd DEF ToolStep
  <2> QED
    BY <1>1, <2>1, <2>2
<1> QED
  BY <1>2, <1>3, <1>4, StepCases

LEMMA OffsetPlacedStep ==
  ASSUME LInv, FreshIndexes, [Next]_vars
  PROVE  OffsetPlaced'
<1> USE DEF LInv, IInv, TypeOK
<1> SUFFICES ASSUME NEW u \in Threads, pc'[u] = "match"
             PROVE  \E c \in window'[u] \ {None} : PlacedIn(c, off'[u], req'[u])
  BY DEF OffsetPlaced, PlacedIn
<1>1. ASSUME pc[u] = "match", off'[u] = off[u], req'[u] = req[u],
             window[u] \subseteq window'[u]
      PROVE  \E c \in window'[u] \ {None} : PlacedIn(c, off'[u], req'[u])
  BY <1>1 DEF OffsetPlaced
<1>2. ASSUME NEW t \in Threads, ThreadStep(t), t # u
      PROVE  \E c \in window'[u] \ {None} : PlacedIn(c, off'[u], req'[u])
  BY <1>1, <1>2, OthersKeep, OthersUntouched DEF ThreadStep
<1>3. CASE ThreadStep(u)
  <2>1. SearchStep(u)
    BY <1>3, SearchLeads
  <2>2. CheckIndex(u)
    BY <2>1, SearchMoves
  <2>3. window' = window /\ req' = req
    BY <2>2 DEF CheckIndex
  <2> QED
    BY <2>2, <2>3, CheckPlaces
<1>4. CASE ToolStep
  <2>1. pc' = pc /\ req' = req /\ off' = off
    BY <1>4, ToolsUntouched, ToolsAdd DEF ToolStep
  <2>2. window[u] \subseteq window'[u]
    BY <1>4, ToolsAdd DEF ToolStep
  <2> QED
    BY <1>1, <2>1, <2>2
<1> QED
  BY <1>2, <1>3, <1>4, StepCases

(* A lookup closes what it opened, and nothing else opens a stream. *)
LEMMA StreamsOwnedStep ==
  ASSUME LInv, NoEnumeration, [Next]_vars
  PROVE  StreamsOwned'
<1> USE DEF LInv, IInv, TypeOK
<1> DEFINE Owner(u, m) == /\ pc[u] \in {"scan", "finish"} /\ req[u].map = m
                          /\ stream[m].data \in window[u]
<1> SUFFICES ASSUME NEW m \in Maps, stream'[m] # None
             PROVE  \E u \in Threads : Owner(u, m)'
  BY DEF StreamsOwned
<1>1. ASSUME NEW u \in Threads, Owner(u, m), stream'[m] = stream[m],
             pc'[u] = pc[u], req'[u] = req[u], window[u] \subseteq window'[u]
      PROVE  Owner(u, m)'
  BY <1>1
<1>2. stream'[m] = stream[m] => \E u \in Threads : Owner(u, m)
  BY DEF StreamsOwned
<1>3. ASSUME NEW t \in Threads, Call(t) \/ Acquire(t)
      PROVE  \E u \in Threads : Owner(u, m)'
  <2>1. stream' = stream /\ pc[t] \notin {"scan", "finish"}
    BY <1>3, CallShape DEF Begin, Acquire
  <2>2. PICK u \in Threads : Owner(u, m)
    BY <1>2, <2>1
  <2>3. u # t
    BY <2>1, <2>2
  <2> QED
    BY <1>1, <1>3, <2>1, <2>2, <2>3, OthersKeep, OthersUntouched
<1>4. ASSUME NEW t \in Threads, Locked(t)
      PROVE  \E u \in Threads : Owner(u, m)'
  <2>1. pc[t] \in LockedPcs /\ req' = req /\ window' = window
    BY <1>4, LockedMoves, LockedSees
  <2>2. \A u \in Threads : pc[u] \in LockedPcs => u = t
    BY <2>1 DEF ExclusiveAccess
  <2>3. ASSUME NEW u \in Threads, Owner(u, m)
        PROVE  u = t /\ pc[t] \in {"scan", "finish"} /\ req[t].map = m
    BY <2>2, <2>3 DEF LockedPcs
  <2>4. CASE m # req[t].map
    <3>1. stream'[m] = stream[m]
      BY <1>4, <2>4, LockedMoves
    <3> QED
      BY <1>2, <2>3, <2>4, <3>1
  <2>5. CASE m = req[t].map
    <3>1. ~(DoSetent(t) \/ DoEndent(t) \/ DoGetent(t))
      <4>1. pc[t] # "idle" => req[t].op \in LookupOps
        BY CallFacts DEF AsCalled, NoEnumeration, Request, EntOps, LookupOps
      <4>2. LookupOps \cap EntOps = {} /\ "idle" \notin EntOps
        BY DEF LookupOps, EntOps
      <4> QED
        BY <4>1, <4>2, EntMoves
    <3>2. ~FailByName(t)
      <4>1. FailByName(t) => stream' = stream /\ pc[t] = "getnam"
        BY DEF FailByName
      <4> QED
        BY <1>2, <2>3, <4>1
    <3>3. ~Finish(t)
      BY <2>5 DEF Finish, EndentLocked
    <3>4. SearchStep(t)
      BY <1>4, <3>1, <3>2, <3>3, LockedCases
    <3>5. ~(stream' = stream /\ pc[t] # "scan")
      <4>1. pc[t] # "finish"
        BY <3>4, SearchMoves
      <4> QED
        BY <1>2, <2>3, <4>1
    <3>6. PICK s \in Stream :
            /\ pc'[t] \in {"scan", "finish"}
            /\ stream' = [stream EXCEPT ![m] = s]
            /\ stream[m] # None => s.data = stream[m].data
            /\ stream[m] = None =>
                 /\ system[filename[m]] # None
                 /\ s.data = system[filename[m]].data
      BY <2>5, <3>4, <3>5, SearchMoves
    <3>7. s.data \in window[t]
      <4>1. CASE stream[m] # None
        BY <2>3, <3>6, <4>1 DEF StreamsOwned
      <4>2. CASE stream[m] = None
        <5>1. pc[t] # "idle"
          BY <2>1 DEF LockedPcs, EntOps
        <5>2. system[filename[m]].data \in window[t] \ {None}
          BY <2>5, <3>6, <4>2, <5>1, CallFacts
        <5> QED
          BY <3>6, <4>2, <5>2
      <4> QED
        BY <4>1, <4>2
    <3> QED
      BY <2>1, <2>5, <3>6, <3>7
  <2> QED
    BY <2>4, <2>5
<1>5. CASE ToolStep
  <2>1. /\ stream' = stream /\ pc' = pc /\ req' = req
        /\ \A u \in Threads : window[u] \subseteq window'[u]
    BY <1>5, ToolsUntouched, ToolsAdd DEF ToolStep
  <2> QED
    BY <1>1, <1>2, <2>1
<1> QED
  BY <1>3, <1>4, <1>5, StepCases DEF ThreadStep

(* What a lookup may answer from, it may call its origins. *)
LEMMA SourcesAreOrigins ==
  ASSUME LInv, NEW t \in Threads, pc[t] \in LookupPcs
  PROVE  Sources(t) \subseteq Origins(t)
<1> USE DEF LInv, IInv, TypeOK
<1> DEFINE m == req[t].map
<1>1. /\ pc[t] \in LockedPcs /\ pc[t] # "idle"
      /\ m \in Maps /\ window[t] \subseteq Contents \cup {None}
  <2>1. pc[t] \in LockedPcs /\ pc[t] # "idle"
    BY DEF LookupPcs, LockedPcs
  <2> QED
    BY <2>1, CallFacts
<1>2. CASE NoEnumeration
  <2>1. ASSUME stream[m] # None
        PROVE  stream[m].data \in window[t]
    <3>1. PICK u \in Threads : /\ pc[u] \in {"scan", "finish"}
                               /\ stream[m].data \in window[u]
      BY <1>1, <1>2, <2>1 DEF StreamsOwned
    <3>2. u = t
      BY <1>1, <3>1 DEF ExclusiveAccess, LockedPcs
    <3> QED
      BY <3>1, <3>2
  <2> QED
    BY <1>2, <2>1 DEF Sources, Origins
<1>3. CASE ~NoEnumeration
  <2>1. stream[m] # None => stream[m].data \in Contents
    BY <1>1 DEF Stream
  <2> QED
    BY <1>1, <1>3, <2>1 DEF Sources, Origins
<1> QED
  BY <1>2, <1>3

LEMMA AnswersRightStep ==
  ASSUME LInv, [Next]_vars
  PROVE  AnswersRight'
<1> USE DEF LInv, IInv, TypeOK
<1> DEFINE Fine(u) == \/ RightAnswer(out[u], req[u], Origins(u), window[u])
                      \/ RefusedSmall(u) \/ RefusedName(u)
<1>1. VersionSeen'
  BY VersionSeenStep
<1> SUFFICES ASSUME NEW u \in Threads, Replied(u)'
             PROVE  Fine(u)'
  BY DEF AnswersRight
<1>2. ASSUME Replied(u), out'[u] = out[u], req'[u] = req[u],
             window[u] \subseteq window'[u],
             filename' = filename \/ "setpath" \in ClientOps
      PROVE  Fine(u)'
  <2>1. CASE RightAnswer(out[u], req[u], Origins(u), window[u])
    <3>1. Origins(u) \subseteq Origins(u)'
      BY <1>2 DEF Origins
    <3>2. IsFiniteSet(window'[u])
      BY <1>1 DEF VersionSeen
    <3>3. RightAnswer(out[u], req[u], Origins(u)', window'[u])
      BY <1>2, <2>1, <3>1, <3>2, AnswerStaysRight
    <3> QED
      BY <1>2, <3>3
  <2>2. CASE RefusedSmall(u)
    BY <1>2, <2>2 DEF RefusedSmall
  <2>3. CASE RefusedName(u)
    <3>1. filename[req[u].map] \in Paths
      BY <1>2 DEF Replied, Asked, AsCalled, Request
    <3> QED
      BY <1>2, <2>3, <3>1 DEF RefusedName
  <2> QED
    BY <1>2, <2>1, <2>2, <2>3 DEF AnswersRight
<1>3. ASSUME NEW t \in Threads, ThreadStep(t), t # u
      PROVE  Fine(u)'
  <2>1. /\ pc'[u] = pc[u] /\ out'[u] = out[u] /\ req'[u] = req[u]
        /\ window'[u] = window[u] /\ filename' = filename
    BY <1>3, OthersKeep, OthersUntouched DEF ThreadStep
  <2> QED
    BY <1>2, <2>1 DEF Replied
<1>4. CASE ToolStep
  <2>1. pc' = pc /\ out' = out /\ req' = req
    BY <1>4, ToolsUntouched DEF ToolStep
  <2>2. /\ window[u] \subseteq window'[u]
        /\ filename' = filename \/ "setpath" \in ClientOps
    BY <1>4, ToolsAdd DEF ToolStep
  <2> QED
    BY <1>2, <2>1, <2>2 DEF Replied
<1>5. CASE Call(u)
  <2>1. PICK r :
          /\ Begin(u, r)
          /\ \/ pc' = [pc EXCEPT ![u] = "lock"]
             \/ /\ pc' = pc /\ r.op = "getid"
                /\ \/ /\ r.map = "group" /\ r.buf < GroupMinBuf
                      /\ out' = [out EXCEPT ![u] = Reply("TRYAGAIN", "ERANGE", None)]
                   \/ /\ PathLen[filename[r.map]] > PathLimit - 7
                      /\ out' = [out EXCEPT ![u] = Reply("UNAVAIL", "unset", None)]
    BY <1>5, CallShape
  <2>2. req'[u] = r /\ filename' = filename
    BY <2>1 DEF Begin
  <2>3. pc'[u] # "lock"
    BY DEF Replied
  <2>4. CASE /\ r.op = "getid" /\ r.map = "group" /\ r.buf < GroupMinBuf
             /\ out' = [out EXCEPT ![u] = Reply("TRYAGAIN", "ERANGE", None)]
    BY <2>2, <2>4 DEF RefusedSmall
  <2>5. CASE /\ PathLen[filename[r.map]] > PathLimit - 7
             /\ out' = [out EXCEPT ![u] = Reply("UNAVAIL", "unset", None)]
    <3>1. filename'[req'[u].map] = filename[r.map]
      BY <2>2
    <3>2. PathLen[filename[r.map]] \in Nat /\ PathLimit \in Nat
      <4>1. r.map \in Maps
        BY <2>1, <2>2, AskedStep DEF Replied, Asked, AsCalled, Request
      <4> QED
        BY <4>1, NssCacheAssumption
    <3>3. PathLen[filename[r.map]] > PathLimit - 8
      BY <2>5, <3>2
    <3> QED
      BY <2>5, <3>1, <3>3 DEF RefusedName
  <2> QED
    BY <2>1, <2>3, <2>4, <2>5
<1>6. ~Acquire(u)
  BY AcquireMoves DEF Replied, EntOps
<1>7. ~(DoSetent(u) \/ DoEndent(u) \/ DoGetent(u))
  <2>1. Locked(u) => req' = req
    BY LockedMoves
  <2>2. EntOps \cap LookupOps = {}
    BY DEF EntOps, LookupOps
  <2> QED
    BY <2>1, <2>2, EntMoves DEF Replied, Locked
<1>8. CASE FailByName(u)
  <2>1. filename' = filename /\ req' = req
    BY <1>8 DEF FailByName
  <2> QED
    BY <1>8, <2>1, FailsUnavailable DEF RefusedName
<1>9. CASE Finish(u)
  <2>1. /\ pc[u] = "finish" /\ out' = out /\ req' = req /\ window' = window
        /\ filename' = filename
    BY <1>9 DEF Finish
  <2> QED
    BY <1>2, <2>1 DEF Replied
<1>10. CASE SearchStep(u)
  <2>1. pc[u] \in LookupPcs /\ Decides(u)
    BY <1>10, SearchMoves DEF Replied, LookupPcs
  <2>2. PICK o : /\ out' = [out EXCEPT ![u] = o]
                 /\ RightAnswer(o, req[u], Sources(u), window[u])
    BY <2>1 DEF Decides
  <2>3. req' = req /\ window' = window
    <3>1. Locked(u)
      BY <1>10 DEF SearchStep, Locked
    <3> QED
      BY <3>1, LockedMoves, LockedSees
  <2>4. IsFiniteSet(window[u])
    BY DEF VersionSeen
  <2>5. RightAnswer(o, req[u], Origins(u), window[u])
    BY <2>1, <2>2, <2>4, SourcesAreOrigins, AnswerStaysRight
  <2>6. Origins(u)' = Origins(u) /\ out'[u] = o
    BY <2>2, <2>3 DEF Origins
  <2> QED
    BY <2>3, <2>5, <2>6
<1> QED
  BY <1>3, <1>4, <1>5, <1>6, <1>7, <1>8, <1>9, <1>10, StepCases, LockedCases
     DEF ThreadStep

LEMMA FilesFreshNext ==
  ASSUME LInv, FreshIndexes, [Next]_vars
  PROVE  FilesFresh'
<1> USE DEF LInv, IInv, TypeOK
<1>1. FilesMove \/ UNCHANGED fileVars
  <2>1. ASSUME NEW t \in Threads, ThreadStep(t)
        PROVE  UNCHANGED fileVars
    BY <2>1, CallShape, LockedSees DEF ThreadStep, Begin, Acquire
  <2> QED
    BY <2>1, StepCases, ToolsAdd DEF ToolStep
<1>2. UNCHANGED fileVars => FilesFresh'
  BY DEF FilesFresh, GoodIndex, fileVars
<1> QED
  BY <1>1, <1>2, FilesFreshStep

LEMMA InitLInv == Init => LInv
<1> SUFFICES ASSUME Init
             PROVE  LInv
  OBVIOUS
<1>1. IInv
  BY InitIInv
<1>2. \A t \in Threads : pc[t] = "idle" /\ req[t] = None /\ window[t] = {}
  BY DEF Init, LibInit
<1>3. \A m \in Maps : stream[m] = None
  BY DEF Init, LibInit
<1>4. VersionSeen
  BY <1>2, FS_EmptySet DEF VersionSeen
<1>5. Undecided /\ Asked /\ OpenIndexFresh /\ OffsetPlaced /\ AnswersRight
  BY <1>2 DEF Undecided, Asked, OpenIndexFresh, OffsetPlaced, AnswersRight, Replied
<1>6. StreamPlaced /\ StreamsOwned
  BY <1>3 DEF StreamPlaced, StreamsOwned
<1>7. FilesFresh
  <2>1. \A p \in Paths : system[p] # None => system[p].mtime = 0
    BY DEF Init, FilesInit
  <2>2. /\ now = 0 /\ indexer = None
        /\ \A p \in Paths, k \in Kinds : index[p][k] = None
    BY DEF Init, FilesInit
  <2> QED
    BY <2>1, <2>2 DEF FilesFresh, GoodIndex
<1> QED
  BY <1>1, <1>4, <1>5, <1>6, <1>7 DEF LInv

LEMMA StepLInv == LInv /\ [Next]_vars => LInv'
<1> SUFFICES ASSUME LInv, [Next]_vars
             PROVE  LInv'
  OBVIOUS
<1>1. IInv'
  BY StepIInv DEF LInv
<1>2. VersionSeen' /\ Undecided' /\ Asked' /\ StreamPlaced' /\ AnswersRight'
  BY VersionSeenStep, UndecidedStep, AskedStep, StreamPlacedStep, AnswersRightStep
<1>3. FreshIndexes' => FilesFresh' /\ OpenIndexFresh' /\ OffsetPlaced'
  BY FilesFreshNext, OpenIndexFreshStep, OffsetPlacedStep DEF FreshIndexes
<1>4. NoEnumeration' => StreamsOwned'
  BY StreamsOwnedStep DEF NoEnumeration
<1> QED
  BY <1>1, <1>2, <1>3, <1>4 DEF LInv

LEMMA LInvariance == Spec => []LInv
<1>1. Spec => []LInv
  BY InitLInv, StepLInv, PTL DEF Spec
<1> QED
  BY <1>1
-----------------------------------------------------------------------------
(* Theorems. *)

(* What a right answer says, status by status. *)
LEMMA RightAnswerMeans ==
  ASSUME NEW o, NEW r, NEW sources, NEW seen, RightAnswer(o, r, sources, seen)
  PROVE  /\ o.ret \in NssStatus \cup {"100"}
         /\ o.ret = "NOTFOUND" =>
              \/ \E c \in sources : Missing(c, r)
              \/ /\ TopBit(Kind(r), r.key) \/ ~FreshIndexes
                 /\ seen \ {None} # {}
         /\ o.ret = "SUCCESS" =>
              \E c \in sources : \E p \in DOMAIN c :
                /\ c[p] = o.res /\ c[p].ok /\ Matches(c[p], r)
                /\ c[p].start \/ Overtaken(seen) \/ ~FreshIndexes
         /\ o.ret = "UNAVAIL" => None \in seen
         /\ o.ret = "100" =>
              \/ Overtaken(seen) \/ ~FreshIndexes
              \/ \E c \in seen \ {None} : Dangling(c, Kind(r), r.key)
         /\ o.ret = "TRYAGAIN" <=> o.errnop = "ERANGE"
         /\ o.ret = "TRYAGAIN" =>
              \E c \in sources : \E p \in DOMAIN c : c[p].need > r.buf
<1>1. CASE \E c \in sources : \E p \in DOMAIN c :
             /\ o = Reply("SUCCESS", "unset", c[p])
             /\ c[p].ok /\ Matches(c[p], r)
             /\ c[p].start \/ Overtaken(seen) \/ ~FreshIndexes
  <2>1. PICK c \in sources : \E p \in DOMAIN c :
          /\ o = Reply("SUCCESS", "unset", c[p])
          /\ c[p].ok /\ Matches(c[p], r)
          /\ c[p].start \/ Overtaken(seen) \/ ~FreshIndexes
    BY <1>1
  <2>2. PICK p \in DOMAIN c :
          /\ o = Reply("SUCCESS", "unset", c[p])
          /\ c[p].ok /\ Matches(c[p], r)
          /\ c[p].start \/ Overtaken(seen) \/ ~FreshIndexes
    BY <2>1
  <2>3. o.ret = "SUCCESS" /\ o.errnop = "unset" /\ o.res = c[p]
    BY <2>2 DEF Reply
  <2> QED
    BY <2>2, <2>3 DEF NssStatus
<1>2. CASE /\ o \in {Reply("NOTFOUND", "unset", None), Reply("NOTFOUND", "0", None)}
           /\ \E c \in sources : Missing(c, r)
  <2>1. o.ret = "NOTFOUND" /\ o.errnop # "ERANGE"
    BY <1>2 DEF Reply
  <2> QED
    BY <1>2, <2>1 DEF NssStatus
<1>3. CASE /\ o = Reply("NOTFOUND", "unset", None)
           /\ TopBit(Kind(r), r.key) \/ ~FreshIndexes
           /\ seen \ {None} # {}
  <2>1. o.ret = "NOTFOUND" /\ o.errnop # "ERANGE"
    BY <1>3 DEF Reply
  <2> QED
    BY <1>3, <2>1 DEF NssStatus
<1>4. CASE /\ o = Reply("TRYAGAIN", "ERANGE", None)
           /\ \E c \in sources : \E p \in DOMAIN c : c[p].need > r.buf
  <2>1. o.ret = "TRYAGAIN" /\ o.errnop = "ERANGE"
    BY <1>4 DEF Reply
  <2> QED
    BY <1>4, <2>1 DEF NssStatus
<1>5. CASE o = Reply("UNAVAIL", "unset", None) /\ None \in seen
  <2>1. o.ret = "UNAVAIL" /\ o.errnop # "ERANGE"
    BY <1>5 DEF Reply
  <2> QED
    BY <1>5, <2>1 DEF NssStatus
<1>6. CASE /\ o = Reply("100", "unset", None)
           /\ \/ Overtaken(seen) \/ ~FreshIndexes
              \/ \E c \in seen \ {None} : Dangling(c, Kind(r), r.key)
  <2>1. o.ret = "100" /\ o.errnop # "ERANGE"
    BY <1>6 DEF Reply
  <2> QED
    BY <1>6, <2>1 DEF NssStatus
<1> QED
  BY <1>1, <1>2, <1>3, <1>4, <1>5, <1>6 DEF RightAnswer

(***************************************************************************)
(* In a process that only looks up, whose files are stamped by a clock     *)
(* that tells their writings apart, every answer of a lookup is right for  *)
(* a version of the map file that was in place during the call.            *)
(***************************************************************************)
THEOREM LookupsAreRegular ==
  ASSUME FreshIndexes, LookupsOnly
  PROVE  Spec => []LookupRegular
<1>1. LInv => LookupRegular
  <2> SUFFICES ASSUME LInv, NEW t \in Threads, IsLookup(t)
               PROVE  LET versions == window[t] \ {None} IN
                      /\ out[t].ret = "NOTFOUND" =>
                           \/ \E c \in versions : Missing(c, req[t])
                           \/ TopBit(Kind(req[t]), req[t].key)
                      /\ out[t].ret = "SUCCESS" =>
                           \E c \in versions : \E p \in DOMAIN c :
                             /\ c[p] = out[t].res
                             /\ c[p].start \/ Cardinality(window[t]) > 1
                      /\ out[t].ret = "UNAVAIL" =>
                           \/ None \in window[t]
                           \/ PathLen[filename[req[t].map]] > PathLimit - 8
                           \/ MallocMayFail /\ req[t].op = "getnam"
    BY DEF LookupRegular
  <2>1. \/ RightAnswer(out[t], req[t], window[t] \ {None}, window[t])
        \/ RefusedSmall(t) \/ RefusedName(t)
    BY DEF LInv, AnswersRight, Replied, IsLookup, Returned, Origins, NoEnumeration,
           LookupsOnly
  <2>2. CASE RightAnswer(out[t], req[t], window[t] \ {None}, window[t])
    BY <2>2, RightAnswerMeans DEF Overtaken
  <2>3. CASE RefusedSmall(t)
    BY <2>3 DEF RefusedSmall, Reply
  <2>4. CASE RefusedName(t)
    BY <2>4 DEF RefusedName, Reply, LookupsOnly, LookupOps
  <2> QED
    BY <2>1, <2>2, <2>3, <2>4
<1> QED
  BY <1>1, LInvariance, PTL

(***************************************************************************)
(* Under the same clock, and whatever else the process does, a lookup      *)
(* returns 100 only if the map file was replaced during the call, or a     *)
(* line with the key does not parse and no entry comes after it.           *)
(***************************************************************************)
THEOREM IllegalIsExplained ==
  ASSUME FreshIndexes
  PROVE  Spec => []IllegalHasReason
<1>1. LInv => IllegalHasReason
  <2> SUFFICES ASSUME LInv, NEW t \in Threads, IsLookup(t), out[t].ret = "100"
               PROVE  \/ Cardinality(window[t]) > 1
                      \/ \E c \in window[t] \ {None} :
                           Dangling(c, Kind(req[t]), req[t].key)
    BY DEF IllegalHasReason
  <2>1. \/ RightAnswer(out[t], req[t], Origins(t), window[t])
        \/ RefusedSmall(t) \/ RefusedName(t)
    BY DEF LInv, AnswersRight, Replied, IsLookup, Returned
  <2>2. RightAnswer(out[t], req[t], Origins(t), window[t])
    BY <2>1 DEF RefusedSmall, RefusedName, Reply
  <2> QED
    BY <2>2, RightAnswerMeans DEF Overtaken
<1> QED
  BY <1>1, LInvariance, PTL

(***************************************************************************)
(* In a process that never enumerates, TRYAGAIN always comes with ERANGE   *)
(* and always has a reason, whatever the clock and the tools do.           *)
(***************************************************************************)
THEOREM TryAgainIsExplained ==
  ASSUME NoEnumeration
  PROVE  Spec => []TryAgainHasReason
<1>1. LInv => TryAgainHasReason
  <2> SUFFICES ASSUME LInv, NEW t \in Threads, IsLookup(t)
               PROVE  /\ out[t].ret = "TRYAGAIN" <=> out[t].errnop = "ERANGE"
                      /\ out[t].ret = "TRYAGAIN" =>
                           \/ req[t].map = "group" /\ req[t].op = "getid"
                                /\ req[t].buf < GroupMinBuf
                           \/ \E c \in window[t] \ {None} :
                                \E p \in DOMAIN c : c[p].need > req[t].buf
    BY DEF TryAgainHasReason
  <2>1. \/ RightAnswer(out[t], req[t], window[t] \ {None}, window[t])
        \/ RefusedSmall(t) \/ RefusedName(t)
    BY DEF LInv, AnswersRight, Replied, IsLookup, Returned, Origins
  <2>2. CASE RightAnswer(out[t], req[t], window[t] \ {None}, window[t])
    BY <2>2, RightAnswerMeans
  <2>3. CASE RefusedSmall(t)
    BY <2>3 DEF RefusedSmall, Reply
  <2>4. CASE RefusedName(t)
    BY <2>4 DEF RefusedName, Reply
  <2> QED
    BY <2>1, <2>2, <2>3, <2>4
<1> QED
  BY <1>1, LInvariance, PTL
=============================================================================
