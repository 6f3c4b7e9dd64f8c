----------------------------- MODULE GetentDump -----------------------------
(***************************************************************************)
(* gen_getent.c: copies each map, entry by entry as getXXent_r hands it    *)
(* out, into a file next to it.  "make test" compares the copy with the    *)
(* map.                                                                    *)
(***************************************************************************)
EXTENDS TestProgram

(* The program is compiled for all four maps, or for BSD.                  *)
ASSUME DumpAssumption ==
  /\ Maps = AllMaps \/ Maps = {"passwd", "group"}
  /\ None \notin {0, 1, 255}

VARIABLES
  turn,    \* the map being dumped: a position in Order
  step,    \* "open" before the copy is open, then "ask" or "wait"
  copy,    \* by map: what has been written
  status,  \* by map: what gen_getXXent_data returned, None before that
  live     \* history, by map: the versions of the map file during its dump

dumpVars == <<turn, step, copy, status, live>>
allVars == <<vars, buflen, dumpVars>>

(* main dumps the maps in this order; shadow and gshadow not under BSD. *)
Order == IF Maps = AllMaps THEN <<"passwd", "group", "shadow", "gshadow">>
         ELSE <<"passwd", "group">>

Ended == turn > Len(Order)
Current == Order[turn]

(* What main returns. *)
failed_tests == Cardinality({m \in Maps : status[m] \notin {None, 0}})

(* The line the program writes for an entry.  The id, which is unsigned,   *)
(* is written with "%d".                                                   *)
Printed(m, u) ==
  IF m \in {"passwd", "group"} THEN <<u.name, SearchKey("id", u.id)>>
  ELSE <<u.name>>

DumpInit ==
  /\ Init
  /\ buflen = 0
  /\ turn = 1
  /\ step = "open"
  /\ copy = [m \in Maps |-> <<>>]
  /\ status = [m \in Maps |-> None]
  /\ live = [m \in Maps |-> {}]

-----------------------------------------------------------------------------
(* The dump of a map ends, and the next map's begins. *)
EndMap(ret) ==
  /\ status' = [status EXCEPT ![Current] = ret]
  /\ turn' = turn + 1
  /\ step' = "open"

(* The copy cannot be opened for writing. *)
OpenFails(m) ==
  /\ ~Ended /\ step = "open" /\ Current = m
  /\ EndMap(255)
  /\ UNCHANGED <<vars, buflen, copy, live>>

(* The copy is opened, the map's file named and the buffer allocated. *)
Open(m) ==
  /\ ~Ended /\ step = "open" /\ Current = m
  /\ Prepare(m)
  /\ step' = "ask"
  /\ live' = [live EXCEPT ![m] = {Version(TestPath[m])}]
  /\ UNCHANGED <<turn, copy, status>>

gen_getpwent_data == OpenFails("passwd") \/ Open("passwd")
gen_getgrent_data == OpenFails("group") \/ Open("group")
gen_getspent_data == OpenFails("shadow") \/ Open("shadow")
gen_getsgent_data == OpenFails("gshadow") \/ Open("gshadow")

(* The call of getXXent_r. *)
Ask(m, call) ==
  /\ ~Ended /\ step = "ask" /\ Current = m
  /\ call /\ WithBuffer
  /\ step' = "wait"
  /\ UNCHANGED <<buflen, turn, copy, status, live>>

getpwent_to_file == Ask("passwd", getpwent_r(Main))
getgrent_to_file == Ask("group", getgrent_r(Main))
getspent_to_file == Ask("shadow", getspent_r(Main))
getsgent_to_file == Ask("gshadow", getsgent_r(Main))

(* The loop body after the call: write, enlarge the buffer, fail, or stop. *)
Answer ==
  /\ ~Ended /\ step = "wait" /\ Answered
  /\ copy' = IF Status = "SUCCESS"
               THEN [copy EXCEPT ![Current] =
                       Append(@, Printed(Current, out[Main].res))]
               ELSE copy
  /\ buflen' = NextBuflen
  /\ \/ /\ Status \in {"SUCCESS", "TRYAGAIN"}
        /\ step' = "ask"
        /\ UNCHANGED <<turn, status>>
     \/ /\ Status \notin {"SUCCESS", "TRYAGAIN"}
        /\ EndMap(IF Status = "UNAVAIL" THEN 1 ELSE 0)
  /\ UNCHANGED <<vars, live>>

(* The synchroniser replaces a map file under the program. *)
Synchronise(p, c) ==
  /\ Replace(p, c)
  /\ live' = [m \in Maps |->
       IF ~Ended /\ m = Current /\ step # "open" /\ p = TestPath[m]
         THEN live[m] \cup {c} ELSE live[m]]
  /\ UNCHANGED <<buflen, turn, step, copy, status>>

Program ==
  \/ gen_getpwent_data \/ gen_getgrent_data
  \/ gen_getspent_data \/ gen_getsgent_data
  \/ getpwent_to_file \/ getgrent_to_file
  \/ getspent_to_file \/ getsgent_to_file
  \/ Answer
  \/ Library /\ UNCHANGED <<buflen, dumpVars>>

DumpNext ==
  \/ Program
  \/ \E p \in Paths, c \in Contents : Synchronise(p, c)
  \/ Ended /\ UNCHANGED allVars

(* The operating system runs the program's thread. *)
DumpSpec == DumpInit /\ [][DumpNext]_allVars /\ WF_allVars(Program)

-----------------------------------------------------------------------------
(* The line of an entry in the map itself, where its id is unsigned. *)
Text(m, u) == IF m \in {"passwd", "group"} THEN <<u.name, u.id>> ELSE <<u.name>>

(* x is the entry's line, but for the way an id with its top bit set is    *)
(* written.                                                                *)
Says(x, m, u) ==
  \/ x = Text(m, u)
  \/ m \in {"passwd", "group"} /\ TopBit("id", u.id) /\ x[1] = u.name

(* The place of line p among the lines ps. *)
Place(ps, p) == Cardinality({q \in ps : q <= p})

(* w has the entries at the lines ps of version c, in order.               *)
Copies(w, m, c, ps) ==
  /\ Len(w) = Cardinality(ps)
  /\ \A p \in ps : Says(w[Place(ps, p)], m, c[p])

(* No read that failed can cost an entry, or none can fail. *)
Restored(m) == m = "group" \/ ReadRestores
AllFit(m) ==
  \A c \in live[m] \ {None} : \A p \in DOMAIN c : c[p].need <= FirstBuf

(***************************************************************************)
(* What gen_getent returns for a map is true.  0: the copy has the lines   *)
(* of one version of the test file that was in place while the map was     *)
(* dumped, those of all its entries, once each and in order, however often *)
(* the buffer was too small and the file replaced.  Of an id that has its  *)
(* top bit set nothing is claimed.  Where failed reads are not undone      *)
(* (passwd, shadow and gshadow under a C library that does not), this      *)
(* holds if the first buffer was large enough.  1: there was no file.      *)
(***************************************************************************)
CopyExact ==
  \A m \in Maps :
    /\ status[m] = 0 /\ (Restored(m) \/ AllFit(m)) =>
         \E c \in live[m] \ {None} : Copies(copy[m], m, c, Lines(c))
    /\ status[m] = 1 => None \in live[m]

(***************************************************************************)
(* gen_getent comes to an end: the loop around getXXent_r, which repeats   *)
(* after TRYAGAIN, meets a buffer that is large enough and then the end of *)
(* the file.                                                               *)
(***************************************************************************)
DumpEnds == <>Ended

(***************************************************************************)
(* "diff passwd.cache passwd.cache.out" of the Makefile finds nothing: a   *)
(* map all of whose lines are entries is copied line by line.              *)
(***************************************************************************)
CopyEqualsMap ==
  \A m \in Maps, c \in Contents :
    status[m] = 0 /\ live[m] = {c} /\ Lines(c) = Starts(c) =>
      /\ Len(copy[m]) = Cardinality(Lines(c))
      /\ \A p \in Lines(c) : copy[m][Place(Lines(c), p)] = Text(m, c[p])
=============================================================================
