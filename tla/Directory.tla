----------------------------- MODULE Directory -----------------------------
(***************************************************************************)
(* What libnss-cache promises, without its mutex, its indexes and the      *)
(* steps of a call.                                                        *)
(*                                                                         *)
(* There is a file for each map, replaced as a whole at any time, and a    *)
(* cursor for each map that the whole process shares.  An enumeration call *)
(* is one step on the cursor.  A lookup takes time: while it is pending it *)
(* may open and move the cursor, at one moment it decides on its answer,   *)
(* and when it returns the cursor is gone.                                 *)
(***************************************************************************)
EXTENDS NssData

CONSTANTS Threads, Maps, Paths, GroupMinBuf

VARIABLES
  files,   \* by path: the version of the file, or None
  path,    \* by map: the path it is read from
  cursor,  \* by map: None, or the version it reads and the position in it
  call,    \* by thread: the call in progress, or None
  seen,    \* by thread: the versions of the file since the call began
  answer   \* by thread: the answer; ret is "none" until it is decided

dirVars == <<files, path, cursor, call, seen, answer>>

Undecided == [ret |-> "none", errnop |-> "unset", res |-> None]
Refusal(ret, err) == [ret |-> ret, errnop |-> err, res |-> None]

Searches(r) == r.op \in {"getid", "getnam"}
Field(r) == IF r.op = "getid" THEN "id" ELSE "name"

-----------------------------------------------------------------------------
(* Enumeration. *)

(* The cursor of m, opened on the current file if it was closed. *)
Opened(m) ==
  IF cursor[m] # None THEN cursor[m]
  ELSE IF files[path[m]] = None THEN None
  ELSE [data |-> files[path[m]], pos |-> 1]

(* The positions from o on at which a read starts, and those at which it   *)
(* finds an entry.                                                         *)
Ahead(c, o) == {p \in DOMAIN c : p = o \/ (p > o /\ c[p].start)}
Entries(c, o) == {p \in Ahead(c, o) : c[p].ok}
NoneBefore(c, o, p) == \A q \in Entries(c, o) : q >= p

(* After an entry that did not fit, only the group map is sure to be where *)
(* it was; elsewhere the rest of the line may be all that is left of it.   *)
Stays(m, s, p) ==
  IF m = "group" THEN {s.pos} ELSE p..s.data[p].next

(* The answers a cursor has for the next entry, each with where it goes.   *)
NextAnswers(m, s, buf) ==
  LET c == s.data
      first == {p \in Ahead(c, s.pos) : NoneBefore(c, s.pos, p)} IN
  {[answer |-> [ret |-> "SUCCESS", errnop |-> "unset", res |-> c[p]],
    cursor |-> [s EXCEPT !.pos = c[p].next]] :
      p \in {q \in first : c[q].ok /\ c[q].need <= buf}}
  \cup
  (UNION {{[answer |-> Refusal("TRYAGAIN", "ERANGE"),
            cursor |-> [s EXCEPT !.pos = q]] : q \in Stays(m, s, p)} :
             p \in {q \in first : c[q].need > buf}})
  \cup
  (IF Entries(c, s.pos) # {} THEN {}
   ELSE {[answer |-> Refusal("NOTFOUND", "0"),
          cursor |-> [s EXCEPT !.pos = Len(c) + 1]]})

-----------------------------------------------------------------------------
(* Lookup. *)

(* The versions an answer may come from: one that was in place during the  *)
(* call, or the one an earlier enumeration has open.                       *)
Sources(t) ==
  LET s == cursor[call[t].map] IN
  (seen[t] \cup (IF s = None THEN {} ELSE {s.data})) \ {None}

(* A version that came while the lookup was at work may make it see more   *)
(* than it should, the end of a line, or nothing it has a status for; the  *)
(* latter also if all there is of the key is a line that does not parse.   *)
Overtaken(t) == Cardinality(seen[t]) > 1

RightAnswers(t) ==
  LET r == call[t]
      Only(condition, answers) == IF condition THEN answers ELSE {} IN
  (UNION {
     {[ret |-> "SUCCESS", errnop |-> "unset", res |-> c[p]] :
        p \in {q \in DOMAIN c :
                  /\ c[q].ok
                  /\ KeyOf(c[q], Field(r)) = r.key
                  /\ c[q].start \/ Overtaken(t)}}
     \cup
     Only(~Holds(c, Field(r), r.key), {Refusal("NOTFOUND", "unset"),
                                       Refusal("NOTFOUND", "0")})
     \cup
     Only(\E p \in DOMAIN c : c[p].need > r.buf,
          {Refusal("TRYAGAIN", "ERANGE")})
     \cup
     Only(Dangling(c, Field(r), r.key), {Refusal("100", "unset")})
       : c \in Sources(t)})
  \cup Only(TopBit(Field(r), r.key), {Refusal("NOTFOUND", "unset")})
  \cup Only(None \in seen[t], {Refusal("UNAVAIL", "unset")})
  \cup Only(Overtaken(t), {Refusal("100", "unset")})

-----------------------------------------------------------------------------
Replace(p) ==
  /\ \E c \in Contents : files' = [files EXCEPT ![p] = c]
  /\ seen' = [t \in Threads |->
       IF call[t] # None /\ path[call[t].map] = p
         THEN seen[t] \cup {files'[p]} ELSE seen[t]]
  /\ UNCHANGED <<path, cursor, call, answer>>

Rename(m, p) ==
  /\ path' = [path EXCEPT ![m] = p]
  /\ UNCHANGED <<files, cursor, call, seen, answer>>

Invoke(t, r) ==
  /\ \/ /\ call' = [call EXCEPT ![t] = r]
        /\ answer' = [answer EXCEPT ![t] = Undecided]
     \/ /\ r.op = "getid"  \* refused at once
        /\ \/ /\ r.map = "group" /\ r.buf < GroupMinBuf
              /\ answer' = [answer EXCEPT ![t] = Refusal("TRYAGAIN", "ERANGE")]
           \/ answer' = [answer EXCEPT ![t] = Refusal("UNAVAIL", "unset")]
        /\ UNCHANGED call
  /\ seen' = [seen EXCEPT ![t] = {files[path[r.map]]}]
  /\ UNCHANGED <<files, path, cursor>>

(* setXXent, endXXent and getXXent_r. *)
Enumerate(t) ==
  /\ call[t] # None
  /\ LET r == call[t]
         m == r.map
     IN \/ /\ r.op \in {"setent", "getent"} /\ Opened(m) = None
           /\ answer' = [answer EXCEPT ![t] = Refusal("UNAVAIL", "unset")]
           /\ UNCHANGED cursor
        \/ /\ r.op = "setent" /\ Opened(m) # None
           /\ answer' = [answer EXCEPT ![t] = Refusal("SUCCESS", "unset")]
           /\ cursor' = [cursor EXCEPT ![m] = [Opened(m) EXCEPT !.pos = 1]]
        \/ /\ r.op = "endent"
           /\ answer' = [answer EXCEPT ![t] = Refusal("SUCCESS", "unset")]
           /\ cursor' = [cursor EXCEPT ![m] = None]
        \/ /\ r.op = "getent" /\ Opened(m) # None
           /\ \E n \in NextAnswers(m, Opened(m), r.buf) :
                /\ answer' = [answer EXCEPT ![t] = n.answer]
                /\ cursor' = [cursor EXCEPT ![m] = n.cursor]
  /\ call' = [call EXCEPT ![t] = None]
  /\ UNCHANGED <<files, path, seen>>

Pending(t) == call[t] # None /\ Searches(call[t]) /\ answer[t] = Undecided

(* A pending lookup moves the cursor of its map, decides, or does both.    *)
Search(t) ==
  /\ Pending(t)
  /\ LET m == call[t].map IN
     \/ UNCHANGED cursor
     \/ /\ Opened(m) # None
        /\ \E q \in 1..(Len(Opened(m).data) + 1) :
             cursor' = [cursor EXCEPT ![m] = [Opened(m) EXCEPT !.pos = q]]
  /\ \/ UNCHANGED answer
     \/ \E a \in RightAnswers(t) : answer' = [answer EXCEPT ![t] = a]
  /\ UNCHANGED <<files, path, call, seen>>

(* A lookup returns: with its answer, and then the enumeration of its map  *)
(* has to start again; or with UNAVAIL before it looked at anything.       *)
Return(t) ==
  /\ call[t] # None /\ Searches(call[t])
  /\ \/ /\ answer[t] # Undecided
        /\ cursor' = [cursor EXCEPT ![call[t].map] = None]
        /\ UNCHANGED answer
     \/ /\ Pending(t) /\ call[t].op = "getnam"
        /\ answer' = [answer EXCEPT ![t] = Refusal("UNAVAIL", "unset")]
        /\ UNCHANGED cursor
  /\ call' = [call EXCEPT ![t] = None]
  /\ UNCHANGED <<files, path, seen>>

-----------------------------------------------------------------------------
Request(ops, keys, bufs) == [op : ops, map : Maps, key : keys, buf : bufs]

Requests ==
  Request({"setent", "endent"}, {None}, {0})
  \cup Request({"getent"}, {None}, Buflens)
  \cup Request({"getid"}, Ids, Buflens)
  \cup Request({"getnam"}, Names, Buflens)

Init ==
  /\ files \in [Paths -> Contents \cup {None}]
  /\ path \in [Maps -> Paths]
  /\ cursor = [m \in Maps |-> None]
  /\ call = [t \in Threads |-> None]
  /\ seen = [t \in Threads |-> {}]
  /\ answer = [t \in Threads |-> Undecided]

Next ==
  \/ \E p \in Paths : Replace(p)
  \/ \E m \in Maps, p \in Paths : Rename(m, p)
  \/ \E t \in Threads :
       \/ call[t] = None /\ \E r \in Requests : Invoke(t, r)
       \/ Enumerate(t) \/ Search(t) \/ Return(t)

Spec == Init /\ [][Next]_dirVars
=============================================================================
