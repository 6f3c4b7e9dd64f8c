------------------------- MODULE NssCacheProperties -------------------------
(***************************************************************************)
(* What the NSS service owes its callers.  None of these is written in the *)
(* code: each relates several steps of a call, several calls, or a call    *)
(* and the tools that replace the files under it.                          *)
(***************************************************************************)
EXTENDS NssCache

(* A call of thread t that is over, and its answer. *)
Returned(t) == pc[t] = "idle" /\ req[t] # None
IsLookup(t) == Returned(t) /\ req[t].op \in LookupOps
Missing(c, r) == ~Holds(c, Kind(r), r.key)

(***************************************************************************)
(* A lookup that succeeds returns an entry with the key it was asked for,  *)
(* however old, wrong or misplaced the index record that led to it: the    *)
(* entry is compared in _nss_cache_XXX_wrap or in the linear search.       *)
(***************************************************************************)
SuccessMatches ==
  \A t \in Threads :
    IsLookup(t) /\ out[t].ret = "SUCCESS" =>
      out[t].res # None /\ KeyOf(out[t].res, Kind(req[t])) = req[t].key

(***************************************************************************)
(* The answer of a lookup is right for a version of the map file that was  *)
(* in place at some moment of the call: NOTFOUND only if such a version    *)
(* lacks the key, SUCCESS only with an entry of such a version, UNAVAIL    *)
(* only if the file was absent (or the name or the path could not be       *)
(* copied).  Two exceptions: an id with its top bit set is printed as a    *)
(* negative number, which no index has; and an offset may be used in       *)
(* another version of the file than the index was made from, where the     *)
(* entry read may be the end of a line.                                    *)
(***************************************************************************)
LookupRegular ==
  \A t \in Threads : IsLookup(t) =>
    LET versions == window[t] \ {None} IN
    /\ out[t].ret = "NOTFOUND" =>
         \/ \E c \in versions : Missing(c, req[t])
         \/ TopBit(Kind(req[t]), req[t].key)
    /\ out[t].ret = "SUCCESS" =>
         \E c \in versions : \E p \in DOMAIN c :
           /\ c[p] = out[t].res
           /\ c[p].start \/ Cardinality(window[t]) > 1
    /\ out[t].ret = "UNAVAIL" =>
         \/ None \in window[t]
         \/ PathLen[filename[req[t].map]] > PathLimit - 8
         \/ MallocMayFail /\ req[t].op = "getnam"

(***************************************************************************)
(* _nss_cache_bsearch2 hands out its initial value 100, which is no status *)
(* of NSS, for one of two reasons only: the map file was replaced during   *)
(* the call, or the key is that of a line that does not parse (the index   *)
(* has a record for it all the same) and no entry comes after that line.   *)
(***************************************************************************)
IllegalHasReason ==
  \A t \in Threads :
    IsLookup(t) /\ out[t].ret = "100" =>
      \/ Cardinality(window[t]) > 1
      \/ \E c \in window[t] \ {None} : Dangling(c, Kind(req[t]), req[t].key)

(***************************************************************************)
(* A caller that is told to try again is told why, and has a reason to: a  *)
(* line of the file does not fit in its buffer, or the buffer is below the *)
(* group map's minimum.  So doubling the buffer ends.                      *)
(***************************************************************************)
TryAgainHasReason ==
  \A t \in Threads : IsLookup(t) =>
    /\ out[t].ret = "TRYAGAIN" <=> out[t].errnop = "ERANGE"
    /\ out[t].ret = "TRYAGAIN" =>
         \/ req[t].map = "group" /\ req[t].op = "getid"
              /\ req[t].buf < GroupMinBuf
         \/ \E c \in window[t] \ {None} :
              \E p \in DOMAIN c : c[p].need > req[t].buf

(***************************************************************************)
(* The mutex does its work: at most one thread is between LOCK and UNLOCK, *)
(* and it is the one that holds the mutex.                                 *)
(***************************************************************************)
ExclusiveAccess == \A t \in Threads : pc[t] \in LockedPcs => mutex = t

(***************************************************************************)
(* A call that ends with its thread holding the mutex is a lookup by name  *)
(* that has done nothing yet but copy its name and its path, and the name  *)
(* could not be copied, or the path with ".ixname" and a NUL does not fit  *)
(* in the buffer for it.  Every other way out of the 18 entry points,      *)
(* those of a lookup that finds no file included, gives the mutex back.    *)
(***************************************************************************)
LeavesLocked ==
  [][\A t \in Threads :
       pc[t] # "idle" /\ pc'[t] = "idle" /\ mutex' = t =>
         /\ pc[t] = "getnam"
         /\ \/ MallocMayFail
            \/ PathLen[filename[req[t].map]] + 7 + 1 > PathLimit]_vars

(***************************************************************************)
(* A linear search that ends with NOTFOUND has seen every line of the file *)
(* it has open: none holds the key.  No other thread has moved the stream  *)
(* the search shares with the enumeration.                                 *)
(***************************************************************************)
ScanComplete ==
  [][\A t \in Threads :
       pc[t] = "scan" /\ pc'[t] = "finish" /\ out'[t].ret = "NOTFOUND" =>
         Missing(stream[req[t].map].data, req[t])]_vars

(***************************************************************************)
(* getXXent_r enumerates: it hands out the first line not handed out yet,  *)
(* and says NOTFOUND only when all have been, also when a call in between  *)
(* had too small a buffer.                                                 *)
(***************************************************************************)
NextEntry ==
  [][\A t \in Threads : pc[t] = "getent" /\ pc'[t] = "idle" =>
       LET m == req[t].map
           rest == Lines(stream'[m].data) \ given[m] IN
       /\ out'[t].ret = "SUCCESS" =>
            \E p \in rest : /\ \A q \in rest : p <= q
                            /\ given'[m] = given[m] \cup {p}
       /\ out'[t].ret = "NOTFOUND" => rest = {}]_vars

(***************************************************************************)
(* Every call that takes the mutex gives it back.                          *)
(***************************************************************************)
LockReleased == \A t \in Threads : mutex = t ~> mutex # t
=============================================================================
