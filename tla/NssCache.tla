------------------------------ MODULE NssCache ------------------------------
(***************************************************************************)
(* nss_cache.c: the NSS service as a process with several threads runs it. *)
(*                                                                         *)
(* The process has one mutex and, for each map, one stream (pw_file,       *)
(* gr_file, sp_file, sg_file) and one file name.  The stream is shared:    *)
(* getXXent_r enumerates with it, and a keyed lookup uses the same stream  *)
(* for its linear search and closes it when it ends.                       *)
(*                                                                         *)
(* The code has each function four times, once for each map.  The copies   *)
(* are one text here, with the map as a parameter, and what differs        *)
(* between them is in PosAfter and CallById: a copy that named another     *)
(* map's stream would be found by reading the code, not by this module.    *)
(*                                                                         *)
(* A call is a sequence of steps of its thread; the files change between   *)
(* any two of them.  set/end/getXXent look at the file system at most once *)
(* and are one step after the mutex is taken.  A keyed lookup opens the    *)
(* index, compares its age with the map file and searches it, opens the    *)
(* map file at the offset found, and may then search linearly, one entry   *)
(* at a time.                                                              *)
(***************************************************************************)
EXTENDS CacheFiles

CONSTANTS
  Threads,
  Maps,           \* the maps in use
  ClientOps,      \* the kinds of calls the process makes
  PathLen,        \* strlen of each path
  PathLimit,      \* NSS_CACHE_PATH_LENGTH
  DefaultPath,    \* the file name each map starts with
  GroupMinBuf,    \* the buffer _nss_cache_getgrgid_r insists on
  MallocMayFail

EntOps == {"setent", "endent", "getent"}
LookupOps == {"getid", "getnam"}

ASSUME NssCacheAssumption ==
  /\ Maps \subseteq AllMaps
  /\ ClientOps \subseteq EntOps \cup LookupOps \cup {"setpath"}
  /\ PathLen \in [Paths -> Nat]
  /\ DefaultPath \in [Maps -> Paths]
  /\ GroupMinBuf \in Nat
  /\ MallocMayFail \in BOOLEAN
  /\ None \notin Threads
  /\ PathLimit \in Nat /\ \A p \in Paths : PathLen[p] < PathLimit

VARIABLES
  mutex,     \* the thread that holds the mutex, or None
  stream,    \* per map: None (NULL) or the file read and the position in it
  filename,  \* per map: the path of the map file
  pc,        \* per thread: where its call is
  req,       \* per thread: the call
  ix,        \* per thread: the index it has open (inode, not name)
  off,       \* per thread: the offset its index search found
  out,       \* per thread: what the call returns
  given,     \* history, per map: the lines getXXent_r has handed out since
             \* the enumeration was last set or ended by a caller
  window     \* history, per thread: the versions of the map file there were
             \* since the call began

libVars == <<mutex, stream, filename, pc, req, ix, off, out, given, window>>
vars == <<fileVars, libVars>>

-----------------------------------------------------------------------------
(* Data of a call. *)
Request == [op : EntOps \cup LookupOps, map : Maps,
            key : Names \cup Ids \cup {None}, buf : Nat]

Kind(r) == IF r.op = "getid" THEN "id" ELSE "name"

Outcome == [ret : NssStatus \cup {"100", "none"},
            errnop : {"unset", "0", "ERANGE"},
            res : Unit \cup {None}]

Pending == [ret |-> "none", errnop |-> "unset", res |-> None]

Stream == [data : Contents, pos : Nat \ {0}]

ASSUME NothingAssumption == None \notin Request \cup Stream

(* The steps of a call that its thread takes with the mutex held. *)
LockedPcs == EntOps \cup {"getnam", "openindex", "checkindex", "match",
                          "setup", "scan", "finish"}
Pcs == LockedPcs \cup {"idle", "lock"}

(* The version of the map file that a name stands for now. *)
Version(p) == IF system[p] = None THEN None ELSE system[p].data

TypeOK ==
  /\ FilesTypeOK
  /\ mutex \in Threads \cup {None}
  /\ stream \in [Maps -> Stream \cup {None}]
  /\ filename \in [Maps -> Paths]
  /\ pc \in [Threads -> Pcs]
  /\ req \in [Threads -> Request \cup {None}]
  /\ \A t \in Threads : pc[t] # "idle" => req[t] # None
  /\ ix \in [Threads -> Index \cup {None}]
  /\ off \in [Threads -> Nat]
  /\ out \in [Threads -> Outcome]
  /\ given \in [Maps -> SUBSET Nat]
  /\ window \in [Threads -> SUBSET (Contents \cup {None})]

LibInit ==
  /\ mutex = None
  /\ stream = [m \in Maps |-> None]
  /\ filename = DefaultPath
  /\ pc = [t \in Threads |-> "idle"]
  /\ req = [t \in Threads |-> None]
  /\ ix = [t \in Threads |-> None]
  /\ off = [t \in Threads |-> 0]
  /\ out = [t \in Threads |-> Pending]
  /\ given = [m \in Maps |-> {}]
  /\ window = [t \in Threads |-> {}]

-----------------------------------------------------------------------------
(* The functions on the stream that the code runs with the mutex held. *)

(* Mutants: the result of fopen is not tested; an open stream is left where *)
(* it is.                                                                   *)
SetentLockedUntested(m) ==
  IF stream[m] # None THEN [stream[m] EXCEPT !.pos = 1]
  ELSE [data |-> Version(filename[m]), pos |-> 1]

SetentLockedNoRewind(m) ==
  IF stream[m] # None THEN stream[m]
  ELSE IF system[filename[m]] = None THEN None
  ELSE [data |-> system[filename[m]].data, pos |-> 1]

(* _nss_cache_setXXent_locked: open the file, or rewind the open stream. *)
SetentLocked(m) ==
  IF stream[m] # None THEN [stream[m] EXCEPT !.pos = 1]
  ELSE IF system[filename[m]] = None THEN None
  ELSE [data |-> system[filename[m]].data, pos |-> 1]

(* _nss_cache_endXXent_locked *)
EndentLocked(m) == [stream EXCEPT ![m] = None]

(* Mutants: the group map is read like the others; every read is undone. *)
PosAfterNoRewind(m, s, r) == r.pos

PosAfterAlwaysUndone(m, s, r) == s.pos

(* The group map puts the stream back where it was when a read fails with  *)
(* ERANGE; the other maps leave it where the C library left it.            *)
PosAfter(m, s, r) ==
  IF m = "group" /\ r.errno = "ERANGE" THEN s.pos ELSE r.pos

(* _nss_cache_getXXent_r_locked on an open stream: the possible outcomes,  *)
(* each with the stream it leaves and the line that was read.              *)
GetentLocked(m, s, buf) ==
  {[ret    |-> IF r.errno = "0" THEN "SUCCESS" ELSE BadReturnCode(r.errno),
    errnop |-> IF r.errno = "0" THEN "unset"
               ELSE IF r.errno = "ENOENT" THEN "0" ELSE r.errno,
    res    |-> IF r.errno = "0" THEN s.data[r.at] ELSE None,
    at     |-> r.at,
    stream |-> [s EXCEPT !.pos = PosAfter(m, s, r)]] :
       r \in Read(s.data, s.pos, buf)}

Result(o) == [ret |-> o.ret, errnop |-> o.errnop, res |-> o.res]

(* *errnop is written only by the branches that fail. *)
SetRet(t, ret) == out' = [out EXCEPT ![t].ret = ret]

(* The call ends with the mutex released.  Mutant: it is not. *)
UnlockForgotten(t) == pc' = [pc EXCEPT ![t] = "idle"] /\ UNCHANGED mutex

Unlock(t) == mutex' = None /\ pc' = [pc EXCEPT ![t] = "idle"]

Goto(t, label) == pc' = [pc EXCEPT ![t] = label] /\ UNCHANGED mutex
-----------------------------------------------------------------------------
(* Entering a call. *)

Begin(t, r) ==
  /\ pc[t] = "idle"
  /\ r.op \in ClientOps
  /\ req' = [req EXCEPT ![t] = r]
  /\ window' = [window EXCEPT ![t] = {Version(filename[r.map])}]
  /\ UNCHANGED <<fileVars, mutex, stream, filename, ix, off, given>>

(* Entry points that take the mutex before they do anything else. *)
Enter(t, r) ==
  /\ Begin(t, r)
  /\ pc' = [pc EXCEPT ![t] = "lock"]
  /\ out' = [out EXCEPT ![t] = Pending]

CallEnt(t, m, op, buf) ==
  m \in Maps /\ Enter(t, [op |-> op, map |-> m, key |-> None, buf |-> buf])

CallByName(t, m) ==
  \E name \in Names, buf \in Buflens :
    m \in Maps /\ Enter(t, [op |-> "getnam", map |-> m, key |-> name,
                            buf |-> buf])

(* The lookups by id check their arguments before they take the mutex: the *)
(* group map wants a large buffer, and ".ixuid" must fit after the path.   *)
CallById(t, m) ==
  \E id \in Ids, buf \in Buflens :
    LET r == [op |-> "getid", map |-> m, key |-> id, buf |-> buf]
        small == m = "group" /\ buf < GroupMinBuf
        long == PathLen[filename[m]] > PathLimit - 7
    IN /\ m \in Maps
       /\ \/ ~small /\ ~long /\ Enter(t, r)
          \/ /\ small \/ long
             /\ Begin(t, r)
             /\ out' = [out EXCEPT ![t] =
                  IF small THEN [Pending EXCEPT !.ret = "TRYAGAIN",
                                                !.errnop = "ERANGE"]
                  ELSE [Pending EXCEPT !.ret = "UNAVAIL"]]
             /\ UNCHANGED pc

setpwent(t)   == CallEnt(t, "passwd", "setent", 0)
endpwent(t)   == CallEnt(t, "passwd", "endent", 0)
getpwent_r(t) == \E b \in Buflens : CallEnt(t, "passwd", "getent", b)
getpwuid_r(t) == CallById(t, "passwd")
getpwnam_r(t) == CallByName(t, "passwd")

setgrent(t)   == CallEnt(t, "group", "setent", 0)
endgrent(t)   == CallEnt(t, "group", "endent", 0)
getgrent_r(t) == \E b \in Buflens : CallEnt(t, "group", "getent", b)
getgrgid_r(t) == CallById(t, "group")
getgrnam_r(t) == CallByName(t, "group")

setspent(t)   == CallEnt(t, "shadow", "setent", 0)
endspent(t)   == CallEnt(t, "shadow", "endent", 0)
getspent_r(t) == \E b \in Buflens : CallEnt(t, "shadow", "getent", b)
getspnam_r(t) == CallByName(t, "shadow")

setsgent(t)   == CallEnt(t, "gshadow", "setent", 0)
endsgent(t)   == CallEnt(t, "gshadow", "endent", 0)
getsgent_r(t) == \E b \in Buflens : CallEnt(t, "gshadow", "getent", b)
getsgnam_r(t) == CallByName(t, "gshadow")

(* _nss_cache_setXXent_path: no mutex, and an open stream stays as it is.  *)
(* Only the single-threaded test programs call it.                         *)
SetPath(m, p) ==
  /\ "setpath" \in ClientOps
  /\ \A t \in Threads : pc[t] = "idle"
  /\ filename' = [filename EXCEPT ![m] = p]
  /\ UNCHANGED <<fileVars, mutex, stream, pc, req, ix, off, out, given,
                 window>>

-----------------------------------------------------------------------------
(* Mutant: the mutex is not waited for. *)
AcquireBarging(t) ==
  /\ pc[t] = "lock"
  /\ mutex' = t
  /\ pc' = [pc EXCEPT ![t] = IF req[t].op = "getid" THEN "openindex"
                             ELSE req[t].op]
  /\ UNCHANGED <<fileVars, stream, filename, req, ix, off, out, given, window>>

(* NSS_CACHE_LOCK *)
Acquire(t) ==
  /\ pc[t] = "lock"
  /\ mutex = None
  /\ mutex' = t
  /\ pc' = [pc EXCEPT ![t] = IF req[t].op = "getid" THEN "openindex"
                             ELSE req[t].op]
  /\ UNCHANGED <<fileVars, stream, filename, req, ix, off, out, given, window>>

DoSetent(t) ==
  LET m == req[t].map IN
  /\ pc[t] = "setent"
  /\ stream' = [stream EXCEPT ![m] = SetentLocked(m)]
  /\ SetRet(t, IF stream'[m] = None THEN "UNAVAIL" ELSE "SUCCESS")
  /\ given' = [given EXCEPT ![m] = {}]
  /\ Unlock(t)
  /\ UNCHANGED <<fileVars, filename, req, ix, off, window>>

DoEndent(t) ==
  LET m == req[t].map IN
  /\ pc[t] = "endent"
  /\ stream' = EndentLocked(m)
  /\ SetRet(t, "SUCCESS")
  /\ given' = [given EXCEPT ![m] = {}]
  /\ Unlock(t)
  /\ UNCHANGED <<fileVars, filename, req, ix, off, window>>

(* A stream that is not open is opened first; if that fails there is no    *)
(* entry and *errnop is not written.                                       *)
DoGetent(t) ==
  LET m == req[t].map
      s == IF stream[m] = None THEN SetentLocked(m) ELSE stream[m]
  IN
  /\ pc[t] = "getent"
  /\ \/ /\ s = None
        /\ SetRet(t, "UNAVAIL")
        /\ UNCHANGED <<stream, given>>
     \/ /\ s # None
        /\ \E o \in GetentLocked(m, s, req[t].buf) :
             /\ out' = [out EXCEPT ![t] = Result(o)]
             /\ stream' = [stream EXCEPT ![m] = o.stream]
             /\ given' = IF o.ret = "SUCCESS"
                           THEN [given EXCEPT ![m] = @ \cup {o.at}]
                           ELSE given
  /\ Unlock(t)
  /\ UNCHANGED <<fileVars, filename, req, ix, off, window>>

-----------------------------------------------------------------------------
(* Keyed lookups. *)

(* getXXnam_r copies the name and appends ".ixname" to the path with the   *)
(* mutex already held.  If the copy or the path does not fit, the call     *)
(* returns there and then: the mutex stays locked.                         *)
NameTooLong(t) == PathLen[filename[req[t].map]] > PathLimit - 8

FailByName(t) ==
  /\ pc[t] = "getnam"
  /\ MallocMayFail \/ NameTooLong(t)
  /\ SetRet(t, "UNAVAIL")
  /\ pc' = [pc EXCEPT ![t] = "idle"]
  /\ UNCHANGED <<fileVars, mutex, stream, filename, req, ix, off, given,
                 window>>

PrepareByName(t) ==
  /\ pc[t] = "getnam"
  /\ ~NameTooLong(t)
  /\ Goto(t, "openindex")
  /\ UNCHANGED <<fileVars, stream, filename, req, ix, off, out, given, window>>

(* _nss_cache_bsearch2, first part: open the sorted file. *)
OpenIndex(t) ==
  /\ pc[t] = "openindex"
  /\ ix' = [ix EXCEPT ![t] = index[filename[req[t].map]][Kind(req[t])]]
  /\ Goto(t, IF ix'[t] = None THEN "setup" ELSE "checkindex")
  /\ UNCHANGED <<fileVars, stream, filename, req, off, out, given, window>>

(* Second part: give up if the index is older than the map file or cannot  *)
(* be mapped (it is empty); else search it for the key's text.  Mutant:    *)
(* the ages are not compared.                                              *)
StaleNever(t) == system[filename[req[t].map]] = None

Stale(t) == LET f == system[filename[req[t].map]] IN
            f = None \/ f.mtime > ix[t].mtime

CheckIndex(t) ==
  LET key == SearchKey(Kind(req[t]), req[t].key)
      found == {r \in ix[t].recs : r.key = key}
  IN
  /\ pc[t] = "checkindex"
  /\ \/ /\ Stale(t) \/ ix[t].recs = {}
        /\ Goto(t, "setup")
        /\ UNCHANGED <<off, out>>
     \/ /\ ~Stale(t) /\ ix[t].recs # {} /\ found = {}
        /\ SetRet(t, "NOTFOUND")
        /\ Goto(t, "finish")
        /\ UNCHANGED off
     \/ /\ ~Stale(t)
        /\ \E r \in found : off' = [off EXCEPT ![t] = r.off]
        /\ Goto(t, "match")
        /\ UNCHANGED out
  /\ UNCHANGED <<fileVars, stream, filename, req, ix, given, window>>

(* Third part: open the map file, read one entry at the offset and compare *)
(* it with the key (_nss_cache_XXX_wrap).  A read that fails with anything *)
(* but ERANGE leaves the return value at 100.  Mutant: no comparison.      *)
MatchesAnything(u, r) == TRUE

Matches(u, r) == KeyOf(u, Kind(r)) = r.key

MatchEntry(t) ==
  LET f == system[filename[req[t].map]]
      reads == Read(f.data, Seek(f.data, off[t]), req[t].buf)
  IN
  /\ pc[t] = "match"
  /\ \/ /\ f = None
        /\ Goto(t, "setup")
        /\ UNCHANGED out
     \/ /\ f # None
        /\ \E r \in reads :
             \/ /\ r.errno = "0" /\ Matches(f.data[r.at], req[t])
                /\ out' = [out EXCEPT ![t] = [@ EXCEPT !.ret = "SUCCESS",
                                                       !.res = f.data[r.at]]]
                /\ Goto(t, "finish")
             \/ /\ r.errno = "0" /\ ~Matches(f.data[r.at], req[t])
                /\ Goto(t, "setup")
                /\ UNCHANGED out
             \/ /\ r.errno = "ERANGE"
                /\ out' = [out EXCEPT ![t] = [@ EXCEPT
                       !.ret = BadReturnCode("ERANGE"), !.errnop = "ERANGE"]]
                /\ Goto(t, "finish")
             \/ /\ r.errno = "ENOENT"
                /\ SetRet(t, "100")
                /\ Goto(t, "finish")
  /\ UNCHANGED <<fileVars, stream, filename, req, ix, off, given, window>>

(* The index was of no use: set up the stream and search it linearly. *)
SetupScan(t) ==
  LET m == req[t].map IN
  /\ pc[t] = "setup"
  /\ stream' = [stream EXCEPT ![m] = SetentLocked(m)]
  /\ \/ /\ stream'[m] = None
        /\ SetRet(t, "UNAVAIL")
        /\ Goto(t, "finish")
     \/ /\ stream'[m] # None
        /\ Goto(t, "scan")
        /\ UNCHANGED out
  /\ UNCHANGED <<fileVars, filename, req, ix, off, given, window>>

Scan(t) ==
  LET m == req[t].map IN
  /\ pc[t] = "scan"
  /\ \E o \in GetentLocked(m, stream[m], req[t].buf) :
       /\ stream' = [stream EXCEPT ![m] = o.stream]
       /\ \/ /\ o.ret = "SUCCESS" /\ ~Matches(o.res, req[t])
             /\ UNCHANGED <<out, pc, mutex>>
          \/ /\ o.ret = "SUCCESS" => Matches(o.res, req[t])
             /\ out' = [out EXCEPT ![t] = Result(o)]
             /\ Goto(t, "finish")
  /\ UNCHANGED <<fileVars, filename, req, ix, off, given, window>>

(* Every lookup that gets this far closes the map's stream; what it knew   *)
(* of the index goes with it.                                              *)
Finish(t) ==
  /\ pc[t] = "finish"
  /\ stream' = EndentLocked(req[t].map)
  /\ ix' = [ix EXCEPT ![t] = None]
  /\ off' = [off EXCEPT ![t] = 0]
  /\ Unlock(t)
  /\ UNCHANGED <<fileVars, filename, req, out, given, window>>

-----------------------------------------------------------------------------
Call(t) ==
  \/ setpwent(t) \/ endpwent(t) \/ getpwent_r(t) \/ getpwuid_r(t) \/ getpwnam_r(t)
  \/ setgrent(t) \/ endgrent(t) \/ getgrent_r(t) \/ getgrgid_r(t) \/ getgrnam_r(t)
  \/ setspent(t) \/ endspent(t) \/ getspent_r(t) \/ getspnam_r(t)
  \/ setsgent(t) \/ endsgent(t) \/ getsgent_r(t) \/ getsgnam_r(t)

(* The steps of a thread that holds the mutex. *)
Locked(t) ==
  \/ DoSetent(t) \/ DoEndent(t) \/ DoGetent(t)
  \/ FailByName(t) \/ PrepareByName(t)
  \/ OpenIndex(t) \/ CheckIndex(t) \/ MatchEntry(t)
  \/ SetupScan(t) \/ Scan(t) \/ Finish(t)

(* A new version of a map file becomes visible to the calls in progress. *)
Replace(p, c) ==
  /\ UpdateSystem(p, c)
  /\ window' = [t \in Threads |->
       IF pc[t] # "idle" /\ filename[req[t].map] = p
         THEN window[t] \cup {c} ELSE window[t]]
  /\ UNCHANGED <<mutex, stream, filename, pc, req, ix, off, out, given>>

Tools ==
  \/ \E p \in Paths, c \in Contents : Replace(p, c)
  \/ /\ \/ \E p \in Paths, k \in Kinds : StartIndexer(p, k) \/ RemoveIndex(p, k)
        \/ FinishIndexer
     /\ UNCHANGED libVars

Init == FilesInit /\ LibInit

Next ==
  \/ \E t \in Threads : Call(t) \/ Acquire(t) \/ Locked(t)
  \/ \E m \in Maps, p \in Paths : SetPath(m, p)
  \/ Tools

Spec == Init /\ [][Next]_vars

(* A thread that can take a step with the mutex held takes it.  Nothing is *)
(* owed by callers, by tools, or by the mutex to those that wait for it.   *)
FairSpec == Spec /\ \A t \in Threads : WF_vars(Locked(t))
=============================================================================
