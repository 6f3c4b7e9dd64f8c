----------------------- MODULE NssCacheRefinementProofs -----------------------
(***************************************************************************)
(* NssCache implements Directory, for all values of the constants.         *)
(*                                                                         *)
(* Under the mapping of NssCacheRefinement, an entry point is Invoke, an   *)
(* enumeration call is Enumerate, a lookup's search is Search step by step *)
(* and its end is Return; a new map file is Replace, a new file name is    *)
(* Rename, and whatever concerns the mutex, the index files or the clock   *)
(* alone is no step at all.  LInv says what the steps of Directory need to *)
(* know of a state: that a call which returns has an answer, that streams  *)
(* are within their files, and that what a lookup decides on is right.     *)
(***************************************************************************)
EXTENDS NssCacheRefinement, LookupProofs

(* The state of Directory. *)
Files == [p \in Paths |-> Version(p)]
Calls == [t \in Threads |-> IF pc[t] = "idle" THEN None ELSE req[t]]

-----------------------------------------------------------------------------
(* Directory's terms are those of NssCache. *)

(* The files change only with the map files. *)
LEMMA FilesSame ==
  ASSUME system' = system
  PROVE  Files' = Files
BY DEF Files, Version

(* One thread's step changes its own call only. *)
LEMMA CallsChange ==
  ASSUME LInv, NEW t \in Threads, ThreadStep(t)
  PROVE  Calls' = [Calls EXCEPT ![t] = IF pc'[t] = "idle" THEN None ELSE req'[t]]
<1>1. \A u \in Threads : u # t => pc'[u] = pc[u] /\ req'[u] = req[u]
  BY OthersUntouched DEF ThreadStep, LInv, IInv
<1> QED
  BY <1>1 DEF Calls

(* A cursor that is opened is a stream that is set up. *)
LEMMA OpenedIs ==
  ASSUME LInv, NEW m \in Maps
  PROVE  /\ Promise!Opened(m) = IF stream[m] = None THEN SetentLocked(m) ELSE stream[m]
         /\ SetentLocked(m) = None <=> Promise!Opened(m) = None
         /\ Promise!Opened(m) # None =>
              /\ Promise!Opened(m) \in Stream
              /\ Promise!Opened(m).pos <= Len(Promise!Opened(m).data) + 1
              /\ SetentLocked(m) = [Promise!Opened(m) EXCEPT !.pos = 1]
<1> USE DEF LInv, IInv, TypeOK
<1> DEFINE f == system[filename[m]]
<1>1. /\ filename[m] \in Paths /\ f \in SystemFile \cup {None}
      /\ stream[m] \in Stream \cup {None}
  BY DEF FilesTypeOK
<1>2. Version(filename[m]) = None <=> f = None
  <2>1. f # None => f.data \in Contents
    BY <1>1 DEF SystemFile
  <2> QED
    BY <2>1, NoneAssumption DEF Version
<1>3. CASE stream[m] # None
  <2>1. Promise!Opened(m) = stream[m]
    BY <1>3 DEF Promise!Opened
  <2>2. SetentLocked(m) = [stream[m] EXCEPT !.pos = 1]
    BY <1>3 DEF SetentLocked
  <2>3. [stream[m] EXCEPT !.pos = 1] \in Stream
    BY <1>1, <1>3 DEF Stream
  <2>4. SetentLocked(m) # None
    BY <2>2, <2>3, NothingAssumption
  <2> QED
    BY <1>1, <1>3, <2>1, <2>2, <2>4 DEF StreamPlaced
<1>4. CASE stream[m] = None /\ f = None
  <2>1. Promise!Opened(m) = None /\ SetentLocked(m) = None
    BY <1>1, <1>2, <1>4 DEF Promise!Opened, SetentLocked
  <2> QED
    BY <1>4, <2>1
<1>5. CASE stream[m] = None /\ f # None
  <2> DEFINE s == [data |-> f.data, pos |-> 1]
  <2>1. f.data \in Contents /\ Version(filename[m]) = f.data
    BY <1>1, <1>5 DEF SystemFile, Version
  <2>2. s \in Stream /\ s.pos <= Len(s.data) + 1 /\ s = [s EXCEPT !.pos = 1]
    BY <2>1, FileFacts DEF Stream
  <2>3. s # None
    BY <2>2, NothingAssumption
  <2>4. Promise!Opened(m) = s /\ SetentLocked(m) = s
    BY <1>1, <1>2, <1>5, <2>1 DEF Promise!Opened, SetentLocked
  <2> QED
    BY <1>5, <2>2, <2>3, <2>4
<1> QED
  BY <1>3, <1>4, <1>5

(* What _nss_cache_getXXent_r_locked answers is the cursor's next answer.  *)
LEMMA GetentIsNext ==
  ASSUME NEW m \in Maps, NEW s \in Stream, s.pos <= Len(s.data) + 1,
         NEW buf \in Nat, NEW o \in GetentLocked(m, s, buf)
  PROVE  \E n \in Promise!NextAnswers(m, s, buf) :
           n.answer = Result(o) /\ n.cursor = o.stream
<1> DEFINE c == s.data
           first == {p \in Promise!Ahead(c, s.pos) : Promise!NoneBefore(c, s.pos, p)}
<1>1. PICK r \in Read(s.data, s.pos, buf) :
        /\ o.stream = [data |-> s.data, pos |-> PosAfter(m, s, r)]
        /\ r.errno = "0" => Result(o) = Reply("SUCCESS", "unset", s.data[r.at])
        /\ r.errno = "ERANGE" => Result(o) = Reply("TRYAGAIN", "ERANGE", None)
        /\ r.errno = "ENOENT" => Result(o) = Reply("NOTFOUND", "0", None)
  BY GetentAnswers
<1>2. c \in Contents /\ s.pos \in Nat \ {0} /\ DOMAIN c = 1..Len(c) /\ Len(c) \in Nat
  BY FileFacts DEF Stream
<1>3. /\ r.errno \in {"0", "ENOENT", "ERANGE"}
      /\ r.at \in Nat /\ r.at >= s.pos
      /\ r.errno = "ENOENT" => r.at = Len(c) + 1 /\ r.pos = Len(c) + 1
      /\ r.errno # "ENOENT" => r.at \in DOMAIN c /\ (r.at = s.pos \/ c[r.at].start)
      /\ r.errno = "0" => c[r.at].ok /\ c[r.at].need <= buf /\ r.pos = c[r.at].next
      /\ r.errno = "ERANGE" => c[r.at].need > buf /\ r.pos \in r.at..c[r.at].next
      /\ \A q \in DOMAIN c :
           q >= s.pos /\ q < r.at /\ (q = s.pos \/ c[q].start) => ~c[q].ok
  BY <1>2, ReadOutcome
<1>4. \A pos \in Nat \ {0} : [s EXCEPT !.pos = pos] = [data |-> s.data, pos |-> pos]
  BY DEF Stream
<1>5. Promise!NoneBefore(c, s.pos, r.at)
  BY <1>2, <1>3 DEF Promise!NoneBefore, Promise!Entries, Promise!Ahead
<1>6. r.errno # "ENOENT" => r.at \in first
  BY <1>2, <1>3, <1>5 DEF Promise!Ahead
<1>7. CASE r.errno = "0"
  <2> DEFINE n == [answer |-> [ret |-> "SUCCESS", errnop |-> "unset", res |-> c[r.at]],
                   cursor |-> [s EXCEPT !.pos = c[r.at].next]]
  <2>1. n \in Promise!NextAnswers(m, s, buf)
    <3>1. r.at \in {q \in first : c[q].ok /\ c[q].need <= buf}
      BY <1>3, <1>6, <1>7
    <3> QED
      BY <3>1 DEF Promise!NextAnswers
  <2>2. n.answer = Result(o)
    BY <1>1, <1>7 DEF Reply
  <2>3. n.cursor = o.stream
    <3>1. PosAfter(m, s, r) = c[r.at].next
      BY <1>3, <1>7 DEF PosAfter
    <3>2. c[r.at].next \in Nat \ {0}
      BY <1>2, <1>3, <1>7, FileFacts
    <3> QED
      BY <1>1, <1>4, <3>1, <3>2
  <2> QED
    BY <2>1, <2>2, <2>3
<1>8. CASE r.errno = "ERANGE"
  <2> DEFINE n == [answer |-> Promise!Refusal("TRYAGAIN", "ERANGE"),
                   cursor |-> [s EXCEPT !.pos = PosAfter(m, s, r)]]
  <2>1. PosAfter(m, s, r) \in Promise!Stays(m, s, r.at)
    BY <1>3, <1>8 DEF PosAfter, Promise!Stays
  <2>2. n \in Promise!NextAnswers(m, s, buf)
    <3>1. r.at \in {q \in first : c[q].need > buf}
      BY <1>3, <1>6, <1>8
    <3> QED
      BY <2>1, <3>1 DEF Promise!NextAnswers
  <2>3. n.answer = Result(o)
    BY <1>1, <1>8 DEF Reply, Promise!Refusal
  <2>4. n.cursor = o.stream
    <3>1. PosAfter(m, s, r) \in Nat \ {0}
      BY <1>2, <1>3, <1>8, ReadFacts DEF PosAfter
    <3> QED
      BY <1>1, <1>4, <3>1
  <2> QED
    BY <2>2, <2>3, <2>4
<1>9. CASE r.errno = "ENOENT"
  <2> DEFINE n == [answer |-> Promise!Refusal("NOTFOUND", "0"),
                   cursor |-> [s EXCEPT !.pos = Len(c) + 1]]
  <2>1. Promise!Entries(c, s.pos) = {}
    BY <1>2, <1>3, <1>9 DEF Promise!Entries, Promise!Ahead
  <2>2. n \in Promise!NextAnswers(m, s, buf)
    BY <2>1 DEF Promise!NextAnswers
  <2>3. n.answer = Result(o)
    BY <1>1, <1>9 DEF Reply, Promise!Refusal
  <2>4. n.cursor = o.stream
    <3>1. PosAfter(m, s, r) = Len(c) + 1 /\ Len(c) + 1 \in Nat \ {0}
      BY <1>2, <1>3, <1>9 DEF PosAfter
    <3> QED
      BY <1>1, <1>4, <3>1
  <2> QED
    BY <2>2, <2>3, <2>4
<1> QED
  BY <1>3, <1>7, <1>8, <1>9

(* The answers NssCache gives a lookup are among those Directory allows.   *)
LEMMA RightIsAllowed ==
  ASSUME FreshIndexes, NEW t \in Threads, pc[t] # "idle",
         NEW o, RightAnswer(o, req[t], Sources(t), window[t])
  PROVE  o \in Promise!RightAnswers(t)
<1> DEFINE r == req[t]
           k == Kind(r)
<1>1. /\ Promise!Sources(t) = Sources(t) /\ Promise!Field(r) = k
      /\ (Promise!Overtaken(t) <=> Overtaken(window[t]))
      /\ Calls[t] = r
  <2>1. \A S : Promise!Cardinality(S) = Cardinality(S)
    BY DEF Promise!Cardinality, Cardinality
  <2> QED
    BY <2>1 DEF Promise!Sources, Sources, Promise!Field, Kind, Promise!Overtaken,
                Overtaken, Calls
<1>2. \A a, b : Promise!Refusal(a, b) = Reply(a, b, None)
  BY DEF Promise!Refusal, Reply
<1>3. \A c, u, key : /\ Promise!KeyOf(u, k) = KeyOf(u, k)
                     /\ Promise!Holds(c, k, key) <=> Holds(c, k, key)
                     /\ Promise!Dangling(c, k, key) <=> Dangling(c, k, key)
                     /\ Promise!TopBit(k, key) <=> TopBit(k, key)
  BY DEF Promise!KeyOf, KeyOf, Promise!Holds, Holds, Promise!Dangling, Dangling,
         Promise!Lines, Lines, Promise!Starts, Starts, Promise!TopBit, TopBit
<1> DEFINE Only(condition, answers) == IF condition THEN answers ELSE {}
           Found(c) == {[ret |-> "SUCCESS", errnop |-> "unset", res |-> c[p]] :
                          p \in {q \in DOMAIN c :
                                   /\ c[q].ok
                                   /\ KeyOf(c[q], k) = r.key
                                   /\ c[q].start \/ Overtaken(window[t])}}
           Absent(c) == Only(Missing(c, r), {Reply("NOTFOUND", "unset", None),
                                             Reply("NOTFOUND", "0", None)})
           Large(c) == Only(\E p \in DOMAIN c : c[p].need > r.buf,
                            {Reply("TRYAGAIN", "ERANGE", None)})
           Broken(c) == Only(Dangling(c, k, r.key), {Reply("100", "unset", None)})
           From(c) == Found(c) \cup Absent(c) \cup Large(c) \cup Broken(c)
<1>4. Promise!RightAnswers(t) =
         (UNION {From(c) : c \in Sources(t)})
         \cup Only(TopBit(k, r.key), {Reply("NOTFOUND", "unset", None)})
         \cup Only(None \in window[t], {Reply("UNAVAIL", "unset", None)})
         \cup Only(Overtaken(window[t]), {Reply("100", "unset", None)})
  BY <1>1, <1>2, <1>3 DEF Promise!RightAnswers, Calls, Missing
<1>5. ASSUME NEW c \in Sources(t), o \in From(c)
       PROVE  o \in Promise!RightAnswers(t)
  BY <1>4, <1>5
<1>6. ASSUME NEW c \in Sources(t), NEW p \in DOMAIN c,
             o = Reply("SUCCESS", "unset", c[p]), c[p].ok, Matches(c[p], r),
             c[p].start \/ Overtaken(window[t])
      PROVE  o \in Promise!RightAnswers(t)
  <2>1. o = [ret |-> "SUCCESS", errnop |-> "unset", res |-> c[p]]
    BY <1>6 DEF Reply
  <2>2. o \in Found(c)
    BY <1>6, <2>1 DEF Matches
  <2> QED
    BY <1>5, <2>2
<1>7. ASSUME NEW c \in Sources(t), Missing(c, r),
             o \in {Reply("NOTFOUND", "unset", None), Reply("NOTFOUND", "0", None)}
      PROVE  o \in Promise!RightAnswers(t)
  BY <1>5, <1>7
<1>8. ASSUME NEW c \in Sources(t), NEW p \in DOMAIN c, c[p].need > r.buf,
             o = Reply("TRYAGAIN", "ERANGE", None)
      PROVE  o \in Promise!RightAnswers(t)
  BY <1>5, <1>8
<1>9. ASSUME NEW c \in Sources(t), Dangling(c, k, r.key),
             o = Reply("100", "unset", None)
      PROVE  o \in Promise!RightAnswers(t)
  BY <1>5, <1>9
<1>10. ASSUME \/ TopBit(k, r.key) /\ o = Reply("NOTFOUND", "unset", None)
              \/ None \in window[t] /\ o = Reply("UNAVAIL", "unset", None)
              \/ Overtaken(window[t]) /\ o = Reply("100", "unset", None)
       PROVE  o \in Promise!RightAnswers(t)
  BY <1>4, <1>10
<1>11. window[t] \ {None} \subseteq Sources(t)
  BY DEF Sources
<1>12. CASE \E c \in Sources(t) : \E p \in DOMAIN c :
              /\ o = Reply("SUCCESS", "unset", c[p])
              /\ c[p].ok /\ Matches(c[p], r)
              /\ c[p].start \/ Overtaken(window[t])
  BY <1>6, <1>12
<1>13. CASE /\ o \in {Reply("NOTFOUND", "unset", None), Reply("NOTFOUND", "0", None)}
            /\ \E c \in Sources(t) : Missing(c, r)
  BY <1>7, <1>13
<1>14. CASE /\ o = Reply("TRYAGAIN", "ERANGE", None)
            /\ \E c \in Sources(t) : \E p \in DOMAIN c : c[p].need > r.buf
  BY <1>8, <1>14
<1>15. CASE /\ o = Reply("100", "unset", None)
            /\ \E c \in window[t] \ {None} : Dangling(c, k, r.key)
  BY <1>9, <1>11, <1>15
<1> QED
  BY <1>10, <1>12, <1>13, <1>14, <1>15 DEF RightAnswer

-----------------------------------------------------------------------------
(* Every step is one of Directory or none. *)

LEMMA InitRefines == Init => Promise!Init
<1> SUFFICES ASSUME Init
             PROVE  Promise!Init
  OBVIOUS
<1>1. TypeOK
  BY InitIInv DEF IInv
<1>2. Files \in [Paths -> Contents \cup {None}]
  BY <1>1 DEF Files, Version, TypeOK, FilesTypeOK, SystemFile
<1> QED
  BY <1>1, <1>2 DEF Promise!Init, Init, LibInit, Files, TypeOK,
     Pending, Promise!Undecided

(* An entry point. *)
LEMMA CallInvokes ==
  ASSUME LInv, NEW t \in Threads, Call(t)
  PROVE  Promise!Next
<1> USE DEF LInv, IInv, TypeOK
<1>1. PICK r : /\ AsCalled(r) /\ Begin(t, r)
               /\ \/ /\ pc' = [pc EXCEPT ![t] = "lock"]
                     /\ out' = [out EXCEPT ![t] = Pending]
                  \/ /\ pc' = pc /\ r.op = "getid"
                     /\ \/ /\ r.map = "group" /\ r.buf < GroupMinBuf
                           /\ out' = [out EXCEPT ![t] = Reply("TRYAGAIN", "ERANGE", None)]
                        \/ out' = [out EXCEPT ![t] = Reply("UNAVAIL", "unset", None)]
  BY CallShape
<1>2. /\ pc[t] = "idle" /\ req'[t] = r /\ filename' = filename /\ stream' = stream
      /\ window' = [window EXCEPT ![t] = {Version(filename[r.map])}]
      /\ Files' = Files
  BY <1>1, FilesSame DEF Begin, fileVars
<1>3. r \in Promise!Requests
  <2>1. r \in [op : EntOps \cup LookupOps, map : Maps,
               key : Names \cup Ids \cup {None}, buf : Nat]
    BY <1>1 DEF AsCalled, Request
  <2>2. r = [op |-> r.op, map |-> r.map, key |-> r.key, buf |-> r.buf] /\ r.map \in Maps
    BY <2>1
  <2>3. r.op \in {"setent", "endent", "getent", "getid", "getnam"}
    BY <2>1 DEF EntOps, LookupOps
  <2> QED
    BY <1>1, <2>2, <2>3 DEF AsCalled, Promise!Requests, Promise!Request
<1>4. Calls[t] = None
  BY <1>2 DEF Calls
<1>5. Promise!Invoke(t, r)
  <2>1. window' = [window EXCEPT ![t] = {Files[filename[r.map]]}]
    <3>1. filename[r.map] \in Paths
      BY <1>1 DEF AsCalled, Request
    <3> QED
      BY <1>2, <3>1 DEF Files
  <2>2. Calls' = [Calls EXCEPT ![t] = IF pc'[t] = "idle" THEN None ELSE r]
    BY <1>2, CallsChange DEF ThreadStep
  <2>3. CASE /\ pc' = [pc EXCEPT ![t] = "lock"]
             /\ out' = [out EXCEPT ![t] = Pending]
    <3>1. Calls' = [Calls EXCEPT ![t] = r]
      BY <2>2, <2>3
    <3> QED
      BY <1>2, <2>1, <2>3, <3>1
         DEF Promise!Invoke, Promise!Undecided, Pending, Files, Calls
  <2>4. CASE /\ pc' = pc /\ r.op = "getid"
             /\ \/ /\ r.map = "group" /\ r.buf < GroupMinBuf
                   /\ out' = [out EXCEPT ![t] = Reply("TRYAGAIN", "ERANGE", None)]
                \/ out' = [out EXCEPT ![t] = Reply("UNAVAIL", "unset", None)]
    <3>1. Calls' = Calls
      BY <1>2, <2>2, <2>4 DEF Calls
    <3> QED
      BY <1>2, <2>1, <2>4, <3>1
         DEF Promise!Invoke, Promise!Refusal, Reply, Files, Calls
  <2> QED
    BY <1>1, <2>3, <2>4
<1> QED
  BY <1>3, <1>4, <1>5 DEF Promise!Next, Calls

(* A call for an enumeration. *)
LEMMA EntEnumerates ==
  ASSUME LInv, NEW t \in Threads, DoSetent(t) \/ DoEndent(t) \/ DoGetent(t)
  PROVE  Promise!Enumerate(t)
<1> USE DEF LInv, IInv, TypeOK
<1> DEFINE m == req[t].map
           s == Promise!Opened(m)
<1>1. /\ pc[t] \in EntOps /\ pc' = [pc EXCEPT ![t] = "idle"] /\ req[t].op = pc[t]
      /\ pc[t] \notin {"idle", "finish"}
  BY EntMoves DEF AtOwnStep, EntOps
<1>2. /\ m \in Maps /\ req[t] \in Request /\ req[t].buf \in Nat
      /\ out[t] = Pending /\ req[t] # None
  BY <1>1, CallFacts
<1>3. Calls[t] = req[t]
  BY <1>1 DEF Calls
<1>4. Calls' = [Calls EXCEPT ![t] = None]
  <2>1. ThreadStep(t)
    BY DEF ThreadStep, Locked
  <2> QED
    BY <1>1, <2>1, CallsChange
<1>5. filename' = filename /\ window' = window /\ Files' = Files
  BY FilesSame DEF DoSetent, DoEndent, DoGetent, fileVars
<1>6. ASSUME NEW ret, SetRet(t, ret)
      PROVE  out' = [out EXCEPT ![t] = Promise!Refusal(ret, "unset")]
  BY <1>2, <1>6, SetRetAnswers DEF Promise!Refusal, Reply
<1>7. \/ /\ req[t].op \in {"setent", "getent"} /\ s = None
         /\ out' = [out EXCEPT ![t] = Promise!Refusal("UNAVAIL", "unset")]
         /\ stream' = stream
      \/ /\ req[t].op = "setent" /\ s # None
         /\ out' = [out EXCEPT ![t] = Promise!Refusal("SUCCESS", "unset")]
         /\ stream' = [stream EXCEPT ![m] = [s EXCEPT !.pos = 1]]
      \/ /\ req[t].op = "endent"
         /\ out' = [out EXCEPT ![t] = Promise!Refusal("SUCCESS", "unset")]
         /\ stream' = [stream EXCEPT ![m] = None]
      \/ /\ req[t].op = "getent" /\ s # None
         /\ \E n \in Promise!NextAnswers(m, s, req[t].buf) :
              /\ out' = [out EXCEPT ![t] = n.answer]
              /\ stream' = [stream EXCEPT ![m] = n.cursor]
  <2>1. CASE DoSetent(t)
    <3>1. /\ stream' = [stream EXCEPT ![m] = SetentLocked(m)]
          /\ SetRet(t, IF stream'[m] = None THEN "UNAVAIL" ELSE "SUCCESS")
          /\ req[t].op = "setent"
      BY <1>1, <2>1 DEF DoSetent
    <3>2. stream'[m] = SetentLocked(m)
      BY <1>2, <3>1
    <3>3. CASE s = None
      <4>1. SetentLocked(m) = None /\ stream[m] = None
        BY <1>2, <3>3, OpenedIs
      <4>2. stream' = stream
        BY <1>2, <3>1, <4>1
      <4> QED
        BY <1>6, <3>1, <3>2, <3>3, <4>1, <4>2
    <3>4. CASE s # None
      <4>1. SetentLocked(m) # None /\ SetentLocked(m) = [s EXCEPT !.pos = 1]
        BY <1>2, <3>4, OpenedIs
      <4> QED
        BY <1>6, <3>1, <3>2, <3>4, <4>1
    <3> QED
      BY <3>3, <3>4
  <2>2. CASE DoEndent(t)
    BY <1>1, <1>6, <2>2 DEF DoEndent, EndentLocked
  <2>3. CASE DoGetent(t)
    <3>1. s = IF stream[m] = None THEN SetentLocked(m) ELSE stream[m]
      BY <1>2, OpenedIs
    <3>2. /\ req[t].op = "getent"
          /\ \/ s = None /\ SetRet(t, "UNAVAIL") /\ stream' = stream
             \/ /\ s # None
                /\ \E o \in GetentLocked(m, s, req[t].buf) :
                     /\ out' = [out EXCEPT ![t] = Result(o)]
                     /\ stream' = [stream EXCEPT ![m] = o.stream]
      BY <1>1, <2>3, <3>1 DEF DoGetent
    <3>3. CASE s # None
      <4>1. PICK o \in GetentLocked(m, s, req[t].buf) :
              /\ out' = [out EXCEPT ![t] = Result(o)]
              /\ stream' = [stream EXCEPT ![m] = o.stream]
        BY <3>2, <3>3
      <4>2. s \in Stream /\ s.pos <= Len(s.data) + 1
        BY <1>2, <3>3, OpenedIs
      <4>3. \E n \in Promise!NextAnswers(m, s, req[t].buf) :
              n.answer = Result(o) /\ n.cursor = o.stream
        BY <1>2, <4>2, GetentIsNext
      <4> QED
        BY <3>2, <3>3, <4>1, <4>3
    <3> QED
      BY <1>6, <3>2, <3>3
  <2> QED
    BY <2>1, <2>2, <2>3
<1> QED
  BY <1>2, <1>3, <1>4, <1>5, <1>7 DEF Promise!Enumerate, Calls, Files

(* A step of a lookup's search. *)
LEMMA SearchSearches ==
  ASSUME LInv, FreshIndexes, NEW t \in Threads, SearchStep(t)
  PROVE  Promise!Search(t)
<1> USE DEF LInv, IInv, TypeOK
<1> DEFINE m == req[t].map
           s == Promise!Opened(m)
<1>1. Locked(t) /\ ThreadStep(t)
  BY DEF SearchStep, Locked, ThreadStep
<1>2. /\ pc[t] \in LookupPcs \ {"finish"} /\ out[t] = Pending
      /\ pc[t] # "idle" /\ pc'[t] # "idle" /\ m \in Maps /\ req[t] # None
      /\ req[t].op \in LookupOps
  <2>1. pc[t] \in LookupPcs \ {"finish"} /\ out[t] = Pending
    BY SearchMoves
  <2>2. pc[t] # "idle" /\ req[t].op \in LookupOps
    BY <2>1 DEF LookupPcs, AtOwnStep
  <2>3. pc'[t] # "idle"
    BY <2>2, SearchMoves DEF Decides, LookupPcs
  <2> QED
    BY <2>1, <2>2, <2>3, CallFacts
<1>3. /\ req' = req /\ filename' = filename /\ window' = window /\ Files' = Files
  BY <1>1, LockedMoves, LockedSees, FilesSame DEF fileVars
<1>4. Calls[t] = req[t] /\ Calls' = Calls
  <2>1. Calls' = [Calls EXCEPT ![t] = req[t]] /\ Calls[t] = req[t]
    BY <1>1, <1>2, <1>3, CallsChange DEF Calls
  <2> QED
    BY <2>1 DEF Calls
<1>5. Promise!Pending(t)
  BY <1>2, <1>4 DEF Promise!Pending, Promise!Searches, LookupOps, Calls, Pending,
     Promise!Undecided
<1>6. \/ stream' = stream
      \/ /\ s # None
         /\ \E q \in 1..(Len(s.data) + 1) :
              stream' = [stream EXCEPT ![m] = [s EXCEPT !.pos = q]]
  <2>1. CASE stream' # stream
    <3>1. PICK z \in Stream :
            /\ stream' = [stream EXCEPT ![m] = z]
            /\ z.pos <= Len(z.data) + 1
            /\ stream[m] # None => z.data = stream[m].data
            /\ stream[m] = None =>
                 system[filename[m]] # None /\ z.data = system[filename[m]].data
      BY <2>1, SearchMoves
    <3>2. s # None /\ s \in Stream /\ s.data = z.data
      <4>1. CASE stream[m] # None
        BY <1>2, <3>1, <4>1, OpenedIs
      <4>2. CASE stream[m] = None
        <5>1. system[filename[m]].data \in Contents
          BY <1>2, <3>1, <4>2, CallFacts
        <5>2. SetentLocked(m) = [data |-> z.data, pos |-> 1]
          BY <3>1, <4>2 DEF SetentLocked
        <5>3. [data |-> z.data, pos |-> 1] \in Stream
          BY <3>1, <4>2, <5>1 DEF Stream
        <5>4. s = [data |-> z.data, pos |-> 1]
          BY <1>2, <4>2, <5>2, OpenedIs
        <5> QED
          BY <5>3, <5>4, NothingAssumption
      <4> QED
        BY <4>1, <4>2
    <3>3. z.pos \in 1..(Len(s.data) + 1)
      <4>1. Len(z.data) \in Nat /\ z.pos \in Nat \ {0}
        BY FileFacts DEF Stream
      <4> QED
        BY <3>1, <3>2, <4>1
    <3>4. z = [s EXCEPT !.pos = z.pos]
      BY <3>2 DEF Stream
    <3> QED
      BY <3>1, <3>2, <3>3, <3>4
  <2> QED
    BY <2>1
<1>7. out' = out \/ \E a \in Promise!RightAnswers(t) : out' = [out EXCEPT ![t] = a]
  <2>1. CASE Decides(t)
    <3>1. PICK o : /\ out' = [out EXCEPT ![t] = o]
                   /\ RightAnswer(o, req[t], Sources(t), window[t])
      BY <2>1 DEF Decides
    <3>2. o \in Promise!RightAnswers(t)
      BY <1>2, <3>1, RightIsAllowed
    <3> QED
      BY <3>1, <3>2
  <2> QED
    BY <2>1, SearchMoves
<1> QED
  BY <1>3, <1>4, <1>5, <1>6, <1>7 DEF Promise!Search, Calls, Files

(* The end of a lookup. *)
LEMMA EndReturns ==
  ASSUME LInv, NEW t \in Threads, FailByName(t) \/ Finish(t)
  PROVE  Promise!Return(t)
<1> USE DEF LInv, IInv, TypeOK
<1>1. Locked(t) /\ ThreadStep(t)
  BY DEF Locked, ThreadStep
<1>2. /\ pc[t] \in {"getnam", "finish"} /\ pc' = [pc EXCEPT ![t] = "idle"]
      /\ filename' = filename /\ window' = window /\ Files' = Files
  BY FilesSame DEF FailByName, Finish, Unlock, fileVars
<1>3. req[t].op \in LookupOps /\ req[t] # None /\ Calls[t] = req[t]
  BY <1>2 DEF AtOwnStep, LookupPcs, Calls
<1>4. Calls' = [Calls EXCEPT ![t] = None]
  BY <1>1, <1>2, CallsChange
<1>5. \/ /\ out[t] # Pending /\ out' = out
         /\ stream' = [stream EXCEPT ![req[t].map] = None]
      \/ /\ out[t] = Pending /\ req[t].op = "getnam" /\ stream' = stream
         /\ out' = [out EXCEPT ![t] = Reply("UNAVAIL", "unset", None)]
  <2>1. CASE Finish(t)
    BY <2>1 DEF Finish, EndentLocked, Undecided
  <2>2. CASE FailByName(t)
    BY <2>2, FailsUnavailable
  <2> QED
    BY <2>1, <2>2
<1>6. Pending = Promise!Undecided
      /\ Reply("UNAVAIL", "unset", None) = Promise!Refusal("UNAVAIL", "unset")
  BY DEF Pending, Promise!Undecided, Reply, Promise!Refusal
<1> QED
  BY <1>2, <1>3, <1>4, <1>5, <1>6
     DEF Promise!Return, Promise!Pending, Promise!Searches, LookupOps, Calls, Files

(* What the tools and the test programs do. *)
LEMMA ToolsReplace ==
  ASSUME LInv, ToolStep
  PROVE  [Promise!Next]_(Promise!dirVars)
<1> USE DEF LInv, IInv, TypeOK
<1>1. Calls' = Calls /\ out' = out /\ stream' = stream
  BY ToolsUntouched DEF ToolStep, Calls
<1>2. ASSUME NEW p \in Paths, NEW c \in Contents, Replace(p, c)
      PROVE  Promise!Next
  <2>1. /\ system' = [system EXCEPT ![p] = [data |-> c, mtime |-> now']]
        /\ filename' = filename /\ now' \in Nat
        /\ window' = [t \in Threads |->
             IF pc[t] # "idle" /\ filename[req[t].map] = p
               THEN window[t] \cup {c} ELSE window[t]]
    BY <1>2, CacheFilesAssumption DEF Replace, UpdateSystem, Stamp, FilesTypeOK
  <2>2. Files' = [Files EXCEPT ![p] = c]
    <3>1. system'[p] = [data |-> c, mtime |-> now']
      BY <2>1 DEF FilesTypeOK
    <3>2. system'[p] # None
      BY <2>1, <3>1, AbsentAssumption DEF SystemFile
    <3>3. Files'[p] = c
      BY <3>1, <3>2 DEF Files, Version
    <3>4. \A q \in Paths : q # p => Files'[q] = Files[q]
      BY <2>1 DEF Files, Version, FilesTypeOK
    <3> QED
      BY <3>3, <3>4 DEF Files
  <2>3. window' = [t \in Threads |->
          IF Calls[t] # None /\ filename[Calls[t].map] = p
            THEN window[t] \cup {Files'[p]} ELSE window[t]]
    <3>1. Files'[p] = c
      BY <2>2 DEF Files
    <3>2. \A t \in Threads : /\ Calls[t] # None <=> pc[t] # "idle"
                             /\ pc[t] # "idle" => Calls[t] = req[t]
      BY DEF Calls
    <3> QED
      BY <2>1, <3>1, <3>2
  <2>4. Promise!Replace(p)
    BY <1>1, <2>1, <2>2, <2>3 DEF Promise!Replace, Files, Calls
  <2> QED
    BY <2>4 DEF Promise!Next
<1>3. ASSUME NEW m \in Maps, NEW p \in Paths, SetPath(m, p)
      PROVE  Promise!Next
  <2>1. Files' = Files
    BY <1>3, FilesSame DEF SetPath, fileVars
  <2>2. Promise!Rename(m, p)
    BY <1>1, <1>3, <2>1 DEF SetPath, Promise!Rename, Files, Calls
  <2> QED
    BY <2>2 DEF Promise!Next
<1>4. ASSUME system' = system, filename' = filename, window' = window
      PROVE  UNCHANGED Promise!dirVars
  BY <1>1, <1>4, FilesSame DEF Promise!dirVars, Files, Calls
<1>5. CASE /\ \/ \E p \in Paths, k \in Kinds : StartIndexer(p, k) \/ RemoveIndex(p, k)
              \/ FinishIndexer
           /\ UNCHANGED libVars
  BY <1>4, <1>5 DEF StartIndexer, RemoveIndex, FinishIndexer, libVars
<1>6. CASE UNCHANGED vars
  BY <1>4, <1>6 DEF vars, libVars, fileVars
<1> QED
  BY <1>2, <1>3, <1>5, <1>6 DEF ToolStep, Tools

LEMMA StepRefines ==
  ASSUME FreshIndexes
  PROVE  LInv /\ [Next]_vars => [Promise!Next]_(Promise!dirVars)
<1> SUFFICES ASSUME LInv, [Next]_vars
             PROVE  [Promise!Next]_(Promise!dirVars)
  OBVIOUS
<1>1. ASSUME NEW t \in Threads, Call(t)
      PROVE  Promise!Next
  BY <1>1, CallInvokes
<1>2. ASSUME NEW t \in Threads, Acquire(t)
      PROVE  UNCHANGED Promise!dirVars
  <2>1. /\ Files' = Files /\ filename' = filename /\ stream' = stream
        /\ window' = window /\ out' = out /\ req' = req
    BY <1>2, FilesSame DEF Acquire, fileVars
  <2>2. Calls' = Calls
    <3>1. pc[t] # "idle" /\ pc'[t] # "idle"
      BY <1>2, AcquireMoves DEF EntOps, LInv, IInv, TypeOK
    <3>2. Calls' = [Calls EXCEPT ![t] = req[t]] /\ Calls[t] = req[t]
      BY <1>2, <2>1, <3>1, CallsChange DEF ThreadStep, Calls
    <3> QED
      BY <3>2 DEF Calls
  <2> QED
    BY <2>1, <2>2 DEF Promise!dirVars, Files, Calls
<1>3. ASSUME NEW t \in Threads, Locked(t)
      PROVE  Promise!Next
  <2>1. Promise!Enumerate(t) \/ Promise!Search(t) \/ Promise!Return(t)
    BY <1>3, LockedCases, EntEnumerates, SearchSearches, EndReturns
  <2> QED
    BY <2>1 DEF Promise!Next
<1> QED
  BY <1>1, <1>2, <1>3, StepCases, ToolsReplace DEF ThreadStep

(***************************************************************************)
(* Whatever the threads of a process and the tools do, and in whatever     *)
(* order their steps come, the process answers as Directory promises, if   *)
(* the clock tells the writings of files apart and no map is replaced      *)
(* while it is being indexed.                                              *)
(***************************************************************************)
THEOREM NssCacheImplementsDirectory ==
  ASSUME FreshIndexes
  PROVE  Spec => ImplementsDirectory
<1>1. Init => Promise!Init
  BY InitRefines
<1>2. LInv /\ [Next]_vars => [Promise!Next]_(Promise!dirVars)
  BY StepRefines
<1> QED
  BY <1>1, <1>2, LInvariance, PTL DEF Spec, ImplementsDirectory, Promise!Spec
=============================================================================
