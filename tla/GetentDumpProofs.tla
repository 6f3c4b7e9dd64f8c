---------------------------- MODULE GetentDumpProofs ----------------------------
(***************************************************************************)
(* gen_getent.c copies a version of the map: theorems about the program    *)
(* that dumps the maps, for all values of the constants of GetentDump.     *)
(*                                                                         *)
(* The program is nss_cache.c with one thread that enumerates, and what    *)
(* GetentStep says of one call of getXXent_r holds here for each map that  *)
(* keeps its place.  PInv adds what the program makes of it: the copy has  *)
(* the lines handed out, but for the one it has still to write.            *)
(***************************************************************************)
EXTENDS GetentDump, EnumerationProofs

(* Reads of this map do not lose the program's place. *)
Kept(m) == Restored(m) \/ AllFit(m)

(* Where the program is, and what it works on. *)
Underway ==
  /\ turn \in 1..(Len(Order) + 1)
  /\ step \in {"open", "ask", "wait"}
  /\ Ended => step = "open"
  /\ buflen \in Nat
  /\ step # "open" =>
       /\ buflen >= FirstBuf /\ filename[Current] = TestPath[Current]
       /\ Version(TestPath[Current]) \in live[Current]

(* Between calls the library is at rest; during one it is at work on it. *)
Enumerating ==
  /\ step # "wait" => pc[Main] = "idle"
  /\ step = "wait" =>
       /\ req[Main] # None /\ req[Main].op = "getent"
       /\ req[Main].map = Current /\ req[Main].buf = buflen

(* Nothing is known of a map before its turn. *)
Untouched(m) ==
  /\ stream[m] = None /\ given[m] = {}
  /\ copy[m] = <<>> /\ status[m] = None

Waiting ==
  \A i \in 1..Len(Order) :
    i > turn \/ (i = turn /\ step = "open") => Untouched(Order[i])

(* The versions the map in turn is read from. *)
Reading ==
  step # "open" =>
    /\ status[Current] = None
    /\ stream[Current] # None => stream[Current].data \in live[Current]

(* What a line of a copy may be. *)
CopyLine == UNION {{Printed(m, u) : u \in Unit} : m \in Maps}

DumpTypeOK ==
  /\ copy \in [Maps -> Seq(CopyLine)]
  /\ status \in [Maps -> {None, 0, 1, 255}]
  /\ live \in [Maps -> SUBSET (Contents \cup {None})]

(* The call has handed out an entry that is not written yet. *)
InHand == step = "wait" /\ Answered /\ Status = "SUCCESS"

Written ==
  LET m == Current
      c == stream[m].data
  IN  /\ ~InHand => Copies(copy[m], m, c, given[m])
      /\ InHand => \E p \in given[m] :
                     /\ \A q \in given[m] : q <= p
                     /\ out[Main].res = c[p]
                     /\ Copies(copy[m], m, c, given[m] \ {p})

Following ==
  step # "open" /\ Kept(Current) => EnumeratedIn(Current) /\ Written

(* What the answer of the last call says of the file. *)
Told ==
  step = "wait" /\ Answered =>
    /\ Status \in NssStatus
    /\ Status = "SUCCESS" => stream[Current] # None /\ out[Main].res \in Unit
    /\ Status = "NOTFOUND" =>
         /\ stream[Current] # None
         /\ Kept(Current) => given[Current] = Lines(stream[Current].data)
    /\ Status = "UNAVAIL" => None \in live[Current]

PInv == /\ IInv
        /\ DumpTypeOK
        /\ Underway
        /\ Enumerating
        /\ Waiting
        /\ Reading
        /\ Following
        /\ Told
        /\ CopyExact

-----------------------------------------------------------------------------
(* Copies. *)

LEMMA NothingCopied ==
  ASSUME NEW m, NEW c
  PROVE  Copies(<<>>, m, c, {})
BY FS_EmptySet DEF Copies

(* What is written for an entry is its line, but for a high id. *)
LEMMA PrintedSays ==
  ASSUME NEW m, NEW u
  PROVE  Says(Printed(m, u), m, u)
BY DEF Says, Printed, Text, SearchKey, TopBit

(* The entry of a line after all those copied is appended. *)
LEMMA CopyGrows ==
  ASSUME NEW w \in Seq(CopyLine), NEW m, NEW c,
         NEW ps \in SUBSET Nat, IsFiniteSet(ps), Copies(w, m, c, ps),
         NEW p \in Nat, \A q \in ps : q < p, Printed(m, c[p]) \in CopyLine,
         Says(Printed(m, c[p]), m, c[p])
  PROVE  Copies(Append(w, Printed(m, c[p])), m, c, ps \cup {p})
<1> DEFINE x == Printed(m, c[p])
           w2 == Append(w, x)
           ps2 == ps \cup {p}
           upTo(S, q) == {r \in S : r <= q}
           says(y, q) == Says(y, m, c[q])
<1>1. p \notin ps
  OBVIOUS
<1>2. /\ Len(w) = Cardinality(ps) /\ Len(w) \in Nat
      /\ Cardinality(ps2) = Len(w) + 1
  <2>1. Cardinality(ps2) = Cardinality(ps) + 1
    BY <1>1, FS_AddElement
  <2>2. Len(w) = Cardinality(ps) /\ Len(w) \in Nat
    BY DEF Copies
  <2> QED
    BY <2>1, <2>2
<1> HIDE DEF x
<1>3. /\ x \in CopyLine /\ Len(w2) = Len(w) + 1
      /\ w2[Len(w) + 1] = x
      /\ \A i \in 1..Len(w) : w2[i] = w[i]
  BY DEF x
<1>4. ASSUME NEW q \in ps
      PROVE  says(w2[Cardinality(upTo(ps2, q))], q)
  <2>1. upTo(ps2, q) = upTo(ps, q)
    OBVIOUS
  <2>2. upTo(ps, q) \in SUBSET ps /\ upTo(ps, q) # {}
    OBVIOUS
  <2>3. Cardinality(upTo(ps, q)) \in 1..Len(w)
    <3> HIDE DEF upTo
    <3>1. IsFiniteSet(upTo(ps, q)) /\ Cardinality(upTo(ps, q)) <= Len(w)
      BY <1>2, <2>2, FS_Subset
    <3>2. Cardinality(upTo(ps, q)) \in Nat /\ Cardinality(upTo(ps, q)) # 0
      BY <2>2, <3>1, FS_EmptySet, FS_CardinalityType
    <3> QED
      BY <1>2, <3>1, <3>2
  <2>4. says(w[Cardinality(upTo(ps, q))], q)
    BY DEF Copies, Place
  <2> QED
    BY <1>3, <2>1, <2>3, <2>4
<1>5. says(w2[Cardinality(upTo(ps2, p))], p)
  <2>1. \A q \in ps2 : q <= p
    OBVIOUS
  <2>2. upTo(ps2, p) = ps2
    BY <2>1
  <2>3. w2[Cardinality(upTo(ps2, p))] = x
    BY <1>2, <1>3, <2>2
  <2> QED
    BY <2>3 DEF x
<1>6. \A q \in ps2 : says(w2[Place(ps2, q)], q)
  BY <1>4, <1>5 DEF Place
<1> QED
  BY <1>2, <1>3, <1>6 DEF Copies, x
-----------------------------------------------------------------------------
(* The program's steps. *)

LEMMA OrderFacts ==
  /\ Len(Order) \in Nat /\ DOMAIN Order = 1..Len(Order)
  /\ \A i \in 1..Len(Order) : Order[i] \in Maps
  /\ \A i, j \in 1..Len(Order) : Order[i] = Order[j] => i = j
<1>1. CASE Maps = AllMaps
  <2>1. Order = <<"passwd", "group", "shadow", "gshadow">>
    BY <1>1 DEF Order
  <2> QED
    BY <1>1, <2>1 DEF AllMaps
<1>2. CASE Maps # AllMaps
  <2>1. Order = <<"passwd", "group">> /\ Maps = {"passwd", "group"}
    BY <1>2, DumpAssumption DEF Order
  <2> QED
    BY <2>1
<1> QED
  BY <1>1, <1>2

LEMMA InTurn ==
  ASSUME Underway, ~Ended
  PROVE  turn \in 1..Len(Order) /\ Current \in Maps
BY OrderFacts DEF Underway, Ended, Current

(* The call of getXXent_r for the map in turn, with the program's buffer. *)
Asks ==
  /\ ~Ended /\ step = "ask" /\ step' = "wait"
  /\ Call(Main)
  /\ Enter(Main, [op |-> "getent", map |-> Current, key |-> None, buf |-> buflen])
  /\ UNCHANGED <<buflen, turn, copy, status, live>>

LEMMA AskCases ==
  ASSUME TypeOK, \/ getpwent_to_file \/ getgrent_to_file
                 \/ getspent_to_file \/ getsgent_to_file
  PROVE  Asks
<1>1. Main \in Threads
  BY TestProgramAssumption
<1>2. PICK m \in AllMaps, b \in Buflens :
        /\ ~Ended /\ step = "ask" /\ Current = m
        /\ Call(Main) /\ CallEnt(Main, m, "getent", b) /\ WithBuffer
        /\ step' = "wait"
        /\ UNCHANGED <<buflen, turn, copy, status, live>>
  BY DEF getpwent_to_file, getgrent_to_file, getspent_to_file, getsgent_to_file,
     Ask, Call, getpwent_r, getgrent_r, getspent_r, getsgent_r, AllMaps
<1>3. Enter(Main, [op |-> "getent", map |-> m, key |-> None, buf |-> b])
  BY <1>2 DEF CallEnt
<1>4. b = buflen
  BY <1>1, <1>2, <1>3 DEF Enter, Begin, WithBuffer, TypeOK
<1> QED
  BY <1>2, <1>3, <1>4 DEF Asks

LEMMA DumpCases ==
  ASSUME TypeOK, Underway, [DumpNext]_allVars
  PROVE  \/ OpenFails(Current) \/ Open(Current) \/ Asks \/ Answer
         \/ Library /\ UNCHANGED <<buflen, dumpVars>>
         \/ \E p \in Paths, c \in Contents : Synchronise(p, c)
         \/ UNCHANGED allVars
<1>1. ASSUME NEW m, OpenFails(m) \/ Open(m)
      PROVE  OpenFails(Current) \/ Open(Current)
  BY <1>1 DEF OpenFails, Open
<1>2. ASSUME \/ gen_getpwent_data \/ gen_getgrent_data
             \/ gen_getspent_data \/ gen_getsgent_data
      PROVE  OpenFails(Current) \/ Open(Current)
  BY <1>1, <1>2
     DEF gen_getpwent_data, gen_getgrent_data, gen_getspent_data, gen_getsgent_data
<1> QED
  BY <1>2, AskCases DEF DumpNext, Program

(* To the library each of them is a step of its own, or none. *)
LEMMA DumpStepsAreSteps ==
  ASSUME TypeOK, Underway, [DumpNext]_allVars
  PROVE  [Next]_vars
<1>1. Main \in Threads /\ TestPath \in [Maps -> Paths]
  BY TestProgramAssumption
<1>2. CASE OpenFails(Current) \/ Answer
  BY <1>2 DEF OpenFails, Answer
<1>3. CASE Open(Current)
  <2>1. Current \in Maps
    BY <1>3, InTurn DEF Open
  <2>2. SetPath(Current, TestPath[Current])
    BY <1>3 DEF Open, Prepare
  <2> QED
    BY <1>1, <2>1, <2>2 DEF Next
<1>4. CASE Asks
  BY <1>1, <1>4 DEF Asks, Next
<1>5. CASE Library
  BY <1>1, <1>5 DEF Library, Next
<1>6. CASE \E p \in Paths, c \in Contents : Synchronise(p, c)
  BY <1>6 DEF Synchronise, Next, Tools
<1>7. CASE UNCHANGED allVars
  BY <1>7 DEF allVars
<1> QED
  BY <1>2, <1>3, <1>4, <1>5, <1>6, <1>7, DumpCases

-----------------------------------------------------------------------------
(* What each of them does to the rest of the invariant. *)

LEMMA OpenFailsKeeps ==
  ASSUME PInv, OpenFails(Current)
  PROVE  /\ DumpTypeOK' /\ Underway' /\ Enumerating' /\ Waiting' /\ Reading'
         /\ Following' /\ Told' /\ CopyExact'
<1> USE DEF PInv
<1>1. turn \in 1..Len(Order) /\ Current \in Maps
  BY InTurn DEF OpenFails
<1>2. /\ step = "open" /\ step' = "open" /\ turn' = turn + 1
      /\ status' = [status EXCEPT ![Current] = 255]
      /\ UNCHANGED <<vars, buflen, copy, live>>
  BY DEF OpenFails, EndMap
<1>3. Len(Order) \in Nat /\ turn' \in 1..(Len(Order) + 1)
  BY <1>1, <1>2, OrderFacts
<1>4. Underway' /\ Enumerating' /\ Reading' /\ Following' /\ Told'
  BY <1>2, <1>3 DEF Underway, Enumerating, Reading, Following, Told, vars, libVars
<1>5. DumpTypeOK'
  BY <1>1, <1>2 DEF DumpTypeOK
<1>6. Waiting'
  <2> SUFFICES ASSUME NEW i \in 1..Len(Order), i > turn
               PROVE  Untouched(Order[i])'
    BY <1>1, <1>2 DEF Waiting
  <2>1. Untouched(Order[i]) /\ Order[i] # Current /\ Order[i] \in Maps
    BY <1>1, OrderFacts DEF Waiting, Current
  <2> QED
    BY <1>2, <2>1 DEF Untouched, vars, libVars, DumpTypeOK
<1>7. CopyExact'
  <2>1. \A m \in Maps : status'[m] = 255 \/ status'[m] = status[m]
    BY <1>2 DEF DumpTypeOK
  <2>2. \A m : AllFit(m)' = AllFit(m)
    BY <1>2 DEF AllFit
  <2> QED
    BY <1>2, <2>1, <2>2 DEF CopyExact, Restored
<1> QED
  BY <1>4, <1>5, <1>6, <1>7
LEMMA OpenKeeps ==
  ASSUME PInv, Open(Current)
  PROVE  /\ DumpTypeOK' /\ Underway' /\ Enumerating' /\ Waiting' /\ Reading'
         /\ Following' /\ Told' /\ CopyExact'
<1> USE DEF PInv
<1>1. turn \in 1..Len(Order) /\ Current \in Maps
  BY InTurn DEF Open
<1>2. /\ step = "open" /\ step' = "ask" /\ ~Ended /\ buflen' = FirstBuf
      /\ filename' = [filename EXCEPT ![Current] = TestPath[Current]]
      /\ live' = [live EXCEPT ![Current] = {Version(TestPath[Current])}]
      /\ UNCHANGED <<turn, copy, status, fileVars, stream, given, pc, req>>
  BY DEF Open, Prepare, SetPath
<1>3. Untouched(Current) /\ Current' = Current
  BY <1>1, <1>2 DEF Waiting, Current
<1>4. /\ TestPath[Current] \in Paths /\ Version(TestPath[Current]) \in Contents \cup {None}
      /\ Version(TestPath[Current])' = Version(TestPath[Current])
  <2>1. TestPath[Current] \in Paths
    BY <1>1, TestProgramAssumption
  <2>2. Version(TestPath[Current]) \in Contents \cup {None}
    BY <2>1 DEF Version, IInv, TypeOK, FilesTypeOK, SystemFile
  <2> QED
    BY <1>2, <1>3, <2>1, <2>2 DEF Version, fileVars
<1>5. Underway'
  <2>1. filename'[Current] = TestPath[Current]
    BY <1>1, <1>2 DEF IInv, TypeOK
  <2>2. Version(TestPath[Current]) \in live'[Current]
    BY <1>1, <1>2 DEF DumpTypeOK
  <2> QED
    BY <1>2, <1>3, <1>4, <2>1, <2>2, TestProgramAssumption DEF Underway, Ended
<1>6. DumpTypeOK'
  BY <1>1, <1>2, <1>4 DEF DumpTypeOK
<1>7. Enumerating' /\ Told'
  BY <1>2 DEF Enumerating, Told
<1>8. Waiting'
  BY <1>2 DEF Waiting, Untouched
<1>9. Reading'
  BY <1>2, <1>3 DEF Reading, Untouched
<1>10. Following'
  <2>1. EnumeratedIn(Current)'
    BY <1>2, <1>3 DEF EnumeratedIn, Untouched
  <2>2. Written'
    BY <1>2, <1>3, NothingCopied DEF Written, InHand, Untouched
  <2> QED
    BY <2>1, <2>2 DEF Following
<1>11. CopyExact'
  <2>1. status'[Current] = None /\ status' = status /\ copy' = copy
    BY <1>2, <1>3 DEF Untouched
  <2>2. \A m \in Maps : m # Current => live'[m] = live[m]
    BY <1>2 DEF DumpTypeOK
  <2> QED
    BY <2>1, <2>2, DumpAssumption DEF CopyExact, AllFit, Restored
<1> QED
  BY <1>5, <1>6, <1>7, <1>8, <1>9, <1>10, <1>11

LEMMA AsksKeeps ==
  ASSUME PInv, Asks
  PROVE  /\ DumpTypeOK' /\ Underway' /\ Enumerating' /\ Waiting' /\ Reading'
         /\ Following' /\ Told' /\ CopyExact'
<1> USE DEF PInv
<1> DEFINE r == [op |-> "getent", map |-> Current, key |-> None, buf |-> buflen]
<1>1. turn \in 1..Len(Order) /\ Current \in Maps /\ Main \in Threads
  BY InTurn, TestProgramAssumption DEF Asks
<1>2. /\ step = "ask" /\ step' = "wait"
      /\ req' = [req EXCEPT ![Main] = r] /\ pc' = [pc EXCEPT ![Main] = "lock"]
      /\ UNCHANGED <<buflen, turn, copy, status, live, fileVars, filename, stream,
                     given>>
  BY DEF Asks, Enter, Begin
<1>3. Current' = Current /\ (Ended' <=> Ended)
  BY <1>2 DEF Current, Ended
<1>4. Version(TestPath[Current])' = Version(TestPath[Current])
  BY <1>2, <1>3 DEF Version, fileVars
<1>5. pc'[Main] = "lock" /\ req'[Main] = r
  BY <1>1, <1>2 DEF IInv, TypeOK
<1>6. ~InHand /\ ~InHand' /\ ~Answered'
  BY <1>2, <1>5 DEF InHand, Answered
<1>7. Underway'
  BY <1>2, <1>3, <1>4 DEF Underway
<1>8. Enumerating'
  <2>1. r \in Request
    BY <1>1 DEF Request, EntOps, Underway
  <2>2. r # None
    BY <2>1, NothingAssumption
  <2> QED
    BY <1>2, <1>3, <1>5, <2>2 DEF Enumerating
<1>9. DumpTypeOK' /\ Waiting' /\ Reading' /\ Told'
  BY <1>2, <1>3, <1>6 DEF DumpTypeOK, Waiting, Untouched, Reading, Told
<1>10. Following'
  <2>1. Kept(Current)' <=> Kept(Current)
    BY <1>2, <1>3 DEF Kept, AllFit, Restored
  <2>2. EnumeratedIn(Current) => EnumeratedIn(Current)'
    BY <1>2, <1>3 DEF EnumeratedIn
  <2>3. Written => Written'
    BY <1>2, <1>3, <1>6 DEF Written
  <2> QED
    BY <1>2, <2>1, <2>2, <2>3 DEF Following
<1>11. CopyExact'
  BY <1>2 DEF CopyExact, AllFit, Restored
<1> QED
  BY <1>7, <1>8, <1>9, <1>10, <1>11

LEMMA SynchroniseKeeps ==
  ASSUME PInv, NEW p \in Paths, NEW d \in Contents, Synchronise(p, d)
  PROVE  /\ DumpTypeOK' /\ Underway' /\ Enumerating' /\ Waiting' /\ Reading'
         /\ Following' /\ Told' /\ CopyExact'
<1> USE DEF PInv
<1>1. /\ UNCHANGED <<buflen, turn, step, copy, status, filename, stream, given, pc,
                     req, out>>
      /\ system' = [system EXCEPT ![p] = [data |-> d, mtime |-> now']]
      /\ live' = [m \in Maps |->
           IF ~Ended /\ m = Current /\ step # "open" /\ p = TestPath[m]
             THEN live[m] \cup {d} ELSE live[m]]
  BY DEF Synchronise, Replace, UpdateSystem
<1>2. Current' = Current /\ (Ended' <=> Ended) /\ (Answered' <=> Answered)
      /\ (InHand' <=> InHand) /\ Status' = Status
  BY <1>1 DEF Current, Ended, Answered, InHand, Status
<1>3. \A m \in Maps : live[m] \subseteq live'[m]
  BY <1>1
<1>4. DumpTypeOK'
  BY <1>1 DEF DumpTypeOK
<1>5. ASSUME step # "open"
      PROVE  Version(TestPath[Current])' \in live'[Current]
  <2>1. Current \in Maps /\ ~Ended
    BY <1>5, InTurn DEF Underway
  <2>2. TestPath[Current] \in Paths
    BY <2>1, TestProgramAssumption
  <2>3. CASE TestPath[Current] = p
    <3>1. Version(TestPath[Current])' = d
      <4>1. system'[p] = [data |-> d, mtime |-> now']
        BY <1>1 DEF IInv, TypeOK, FilesTypeOK
      <4>2. system'[p] # None
        <5>1. system' \in [Paths -> SystemFile \cup {None}] /\ now' \in Nat
          BY StepIInv, <1>1 DEF Synchronise, Next, Tools, IInv, TypeOK, FilesTypeOK
        <5>2. [data |-> d, mtime |-> now'] \in SystemFile
          BY <5>1 DEF SystemFile
        <5> QED
          BY <4>1, <5>2, AbsentAssumption
      <4> QED
        BY <1>2, <2>3, <4>1, <4>2 DEF Version
    <3> QED
      BY <1>1, <1>5, <2>1, <2>3, <3>1
  <2>4. CASE TestPath[Current] # p
    <3>1. Version(TestPath[Current])' = Version(TestPath[Current])
      BY <1>1, <1>2, <2>2, <2>4 DEF Version, IInv, TypeOK, FilesTypeOK
    <3> QED
      BY <1>3, <1>5, <2>1, <3>1 DEF Underway
  <2> QED
    BY <2>3, <2>4
<1>6. Underway'
  BY <1>1, <1>2, <1>5 DEF Underway
<1>7. Enumerating' /\ Waiting'
  BY <1>1, <1>2 DEF Enumerating, Waiting, Untouched
<1>8. Reading'
  <2>1. step # "open" => Current \in Maps
    BY InTurn DEF Underway
  <2> QED
    BY <1>1, <1>2, <1>3, <2>1 DEF Reading
<1>9. \A m \in Maps : Kept(m)' => Kept(m)
  BY <1>3 DEF Kept, AllFit, Restored
<1>10. Following'
  <2>1. step # "open" => Current \in Maps
    BY InTurn DEF Underway
  <2>2. EnumeratedIn(Current) => EnumeratedIn(Current)'
    BY <1>1, <1>2 DEF EnumeratedIn
  <2>3. Written => Written'
    BY <1>1, <1>2 DEF Written
  <2> QED
    BY <1>1, <1>2, <1>9, <2>1, <2>2, <2>3 DEF Following
<1>11. Told'
  <2>1. step # "open" => Current \in Maps
    BY InTurn DEF Underway
  <2> QED
    BY <1>1, <1>2, <1>3, <1>9, <2>1 DEF Told
<1>12. CopyExact'
  <2>1. \A m \in Maps : live'[m] = live[m] \/ status[m] = None
    <3>1. step # "open" => status[Current] = None
      BY DEF Reading
    <3> QED
      BY <1>1, <3>1
  <2> QED
    BY <1>1, <2>1, DumpAssumption DEF CopyExact, AllFit, Restored
<1> QED
  BY <1>4, <1>6, <1>7, <1>8, <1>10, <1>11, <1>12
LEMMA GetentOutcome ==
  ASSUME NEW m \in Maps, NEW s \in Stream, NEW buf \in Nat,
         NEW o \in GetentLocked(m, s, buf)
  PROVE  /\ o.stream \in Stream /\ o.stream.data = s.data
         /\ o.ret \in {"SUCCESS", "TRYAGAIN", "NOTFOUND"}
         /\ o.ret = "SUCCESS" => o.res \in Unit
<1>1. PICK r \in Read(s.data, s.pos, buf) :
        /\ Result(o).ret = o.ret
        /\ r.errno = "0" => Result(o) = Reply("SUCCESS", "unset", s.data[r.at])
        /\ r.errno = "ERANGE" => Result(o) = Reply("TRYAGAIN", "ERANGE", None)
        /\ r.errno = "ENOENT" => Result(o) = Reply("NOTFOUND", "0", None)
  BY GetentAnswers
<1>2. r.errno \in {"0", "ENOENT", "ERANGE"}
  BY ReadFacts DEF Stream
<1>3. o.ret \in {"SUCCESS", "TRYAGAIN", "NOTFOUND"}
  BY <1>1, <1>2 DEF Reply
<1> QED
  BY <1>3, GetentLockedFacts

(* One call of getXXent_r, kept its place or not. *)
LEMMA GetentSees ==
  ASSUME IInv, NEW t \in Threads, DoGetent(t),
         NEW m \in Maps, m = req[t].map
  PROVE  /\ pc[t] = "getent" /\ pc' = [pc EXCEPT ![t] = "idle"]
         /\ UNCHANGED <<fileVars, filename, req>>
         /\ \A l \in Maps : l # m => stream'[l] = stream[l] /\ given'[l] = given[l]
         /\ out'[t].ret \in NssStatus
         /\ stream'[m] # None =>
              stream'[m].data = IF stream[m] = None THEN Version(filename[m])
                                ELSE stream[m].data
         /\ stream[m] # None \/ out'[t].ret \in {"SUCCESS", "NOTFOUND"} =>
              stream'[m] # None
         /\ out'[t].ret = "SUCCESS" => out'[t].res \in Unit
         /\ out'[t].ret = "UNAVAIL" => Version(filename[m]) = None
<1> USE DEF IInv, TypeOK
<1> DEFINE s == IF stream[m] = None THEN SetentLocked(m) ELSE stream[m]
<1>1. /\ pc[t] = "getent" /\ pc' = [pc EXCEPT ![t] = "idle"]
      /\ UNCHANGED <<fileVars, filename, req>>
      /\ \A l \in Maps : l # m => stream'[l] = stream[l] /\ given'[l] = given[l]
      /\ req[t].buf \in Nat
  BY DEF DoGetent, Unlock, Request
<1>2. /\ s \in Stream \cup {None}
      /\ s = None => stream[m] = None /\ Version(filename[m]) = None
      /\ s # None => s.data = IF stream[m] = None THEN Version(filename[m])
                              ELSE stream[m].data
  <2>1. SetentLocked(m) \in Stream \cup {None}
    BY SetentLockedFacts
  <2>2. stream[m] = None =>
          /\ SetentLocked(m) = None => Version(filename[m]) = None
          /\ SetentLocked(m) # None => SetentLocked(m).data = Version(filename[m])
    <3>1. [data |-> system[filename[m]].data, pos |-> 1] \in Stream
             \/ system[filename[m]] = None
      BY DEF FilesTypeOK, SystemFile, Stream
    <3> QED
      BY <3>1, NothingAssumption DEF SetentLocked, Version
  <2> QED
    BY <2>1, <2>2
<1>3. CASE s = None
  <2>1. stream' = stream /\ out' = [out EXCEPT ![t].ret = "UNAVAIL"]
    BY <1>3 DEF DoGetent, SetRet
  <2>2. out'[t].ret = "UNAVAIL"
    BY <2>1 DEF Outcome
  <2> QED
    BY <1>1, <1>2, <1>3, <2>1, <2>2 DEF NssStatus
<1>4. CASE s # None
  <2>1. PICK o \in GetentLocked(m, s, req[t].buf) :
          /\ out' = [out EXCEPT ![t] = Result(o)]
          /\ stream' = [stream EXCEPT ![m] = o.stream]
    BY <1>4 DEF DoGetent
  <2> HIDE DEF s, IInv, TypeOK
  <2>2. s \in Stream /\ s.data \in Contents
    BY <1>2, <1>4 DEF Stream
  <2>3. /\ o.stream \in Stream /\ o.stream.data = s.data
        /\ o.ret \in {"SUCCESS", "TRYAGAIN", "NOTFOUND"}
        /\ o.ret = "SUCCESS" => o.res \in Unit
    BY <1>1, <2>1, <2>2, GetentOutcome
  <2>4. stream'[m] = o.stream /\ out'[t].ret = o.ret /\ out'[t].res = o.res
    BY <2>1 DEF Result, IInv, TypeOK
  <2> QED
    BY <1>1, <1>2, <1>4, <2>3, <2>4, NothingAssumption DEF NssStatus
<1> QED
  BY <1>3, <1>4
(* While the library is at work the program waits, and nothing of its own  *)
(* changes.                                                                *)
LEMMA LibraryKeeps ==
  ASSUME PInv, Library, UNCHANGED <<buflen, dumpVars>>
  PROVE  /\ DumpTypeOK' /\ Underway' /\ Enumerating' /\ Waiting' /\ Reading'
         /\ Following' /\ Told' /\ CopyExact'
<1> USE DEF PInv
<1>1. Main \in Threads /\ pc[Main] # "idle"
  BY TestProgramAssumption DEF Library, Acquire, Locked, DoSetent, DoEndent, DoGetent,
     FailByName, PrepareByName, OpenIndex, CheckIndex, MatchEntry, SetupScan, Scan, Finish
<1>2. /\ step = "wait" /\ ~Ended /\ turn \in 1..Len(Order) /\ Current \in Maps
      /\ req[Main].op = "getent" /\ req[Main].map = Current /\ req[Main].buf = buflen
      /\ req[Main] # None
  BY <1>1, InTurn DEF Enumerating, Underway
<1>3. UNCHANGED <<buflen, turn, step, copy, status, live>>
  BY DEF dumpVars
<1>4. Current' = Current /\ (Ended' <=> Ended)
  BY <1>3 DEF Current, Ended
<1>5. UNCHANGED <<fileVars, filename, req>>
  BY <1>1, LockedMoves DEF Library, Acquire, IInv
<1>6. DumpTypeOK' /\ CopyExact'
  BY <1>3 DEF DumpTypeOK, CopyExact, AllFit, Restored
<1>7. Underway' /\ Enumerating'
  <2>1. Version(TestPath[Current])' = Version(TestPath[Current])
    BY <1>4, <1>5 DEF Version, fileVars
  <2> QED
    BY <1>2, <1>3, <1>4, <1>5, <2>1 DEF Underway, Enumerating
<1>8. /\ \A m : Kept(m)' <=> Kept(m)
      /\ ~InHand
  BY <1>1, <1>3 DEF Kept, AllFit, Restored, InHand, Answered
<1>9. CASE Acquire(Main)
  <2>1. stream' = stream /\ given' = given
    BY <1>9 DEF Acquire
  <2>2. pc'[Main] # "idle"
    BY <1>1, <1>2, <1>9 DEF Acquire, IInv, TypeOK
  <2>3. ~Answered' /\ ~InHand'
    BY <2>2 DEF Answered, InHand
  <2>4. Following'
    BY <1>3, <1>4, <1>8, <2>1, <2>3 DEF Following, EnumeratedIn, Written
  <2>5. Waiting' /\ Reading' /\ Told'
    BY <1>3, <1>4, <2>1, <2>3 DEF Waiting, Untouched, Reading, Told
  <2> QED
    BY <1>6, <1>7, <2>4, <2>5
<1>10. CASE Locked(Main)
  <2>1. DoGetent(Main)
    <3>1. pc[Main] \notin {"setent", "endent"} \cup LookupPcs
      BY <1>1, <1>2 DEF IInv, AtOwnStep, LookupOps, EntOps
    <3> QED
      BY <1>10, <3>1 DEF Locked, LookupPcs, DoSetent, DoEndent, FailByName,
         PrepareByName, OpenIndex, CheckIndex, MatchEntry, SetupScan, Scan, Finish
  <2> DEFINE m == Current
  <2>2. /\ \A l \in Maps : l # m => stream'[l] = stream[l] /\ given'[l] = given[l]
        /\ pc'[Main] = "idle"
        /\ out'[Main].ret \in NssStatus
        /\ stream'[m] # None =>
             stream'[m].data = IF stream[m] = None THEN Version(filename[m])
                               ELSE stream[m].data
        /\ stream[m] # None \/ out'[Main].ret \in {"SUCCESS", "NOTFOUND"} =>
             stream'[m] # None
        /\ out'[Main].ret = "SUCCESS" => out'[Main].res \in Unit
        /\ out'[Main].ret = "UNAVAIL" => Version(filename[m]) = None
    <3>1. pc' = [pc EXCEPT ![Main] = "idle"] /\ pc \in [Threads -> Pcs]
      BY <1>1, <1>2, <2>1, GetentSees DEF IInv, TypeOK
    <3>2. pc'[Main] = "idle"
      BY <1>1, <3>1
    <3> QED
      BY <1>1, <1>2, <2>1, <3>2, GetentSees
  <2>3. Version(filename[m]) \in live[m]
    BY <1>2 DEF Underway
  <2>4. stream'[m] # None => stream'[m].data \in live[m]
    BY <1>2, <2>2, <2>3 DEF Reading
  <2>5. Reading'
    BY <1>2, <1>3, <1>4, <2>4 DEF Reading
  <2>6. Waiting'
    <3> SUFFICES ASSUME NEW i \in 1..Len(Order), i > turn
                 PROVE  Untouched(Order[i])'
      BY <1>2, <1>3 DEF Waiting
    <3>1. Untouched(Order[i]) /\ Order[i] # Current /\ Order[i] \in Maps
      BY <1>2, OrderFacts DEF Waiting, Current
    <3> QED
      BY <1>3, <2>2, <3>1 DEF Untouched
  <2>7. Answered' /\ (InHand' <=> out'[Main].ret = "SUCCESS")
    BY <1>2, <1>3, <1>5, <2>2 DEF Answered, InHand, Status
  <2>8. ASSUME Kept(m)
        PROVE  LET c == stream'[m].data IN
               /\ EnumeratedIn(m)'
               /\ out'[Main].ret = "SUCCESS" =>
                    \E p \in Lines(c) \ given[m] :
                      /\ \A q \in given[m] : q <= p
                      /\ given'[m] = given[m] \cup {p}
                      /\ out'[Main].res = c[p]
               /\ out'[Main].ret # "SUCCESS" => given'[m] = given[m]
               /\ out'[Main].ret = "NOTFOUND" => given'[m] = Lines(c)
               /\ Copies(copy[m], m, c, given[m])
    <3> DEFINE c == stream'[m].data
    <3>1. EnumeratedIn(m) /\ Copies(copy[m], m, stream[m].data, given[m])
      BY <1>2, <1>8, <2>8 DEF Following, Written
    <3>2. ASSUME stream'[m] # None
          PROVE  c \in live[m] \ {None} /\ c \in Contents
      <4>1. stream'[m] \in Stream
        BY <1>2, <1>10, <3>2, TestProgramAssumption, StepIInv
           DEF IInv, TypeOK, Next
      <4> QED
        BY <2>4, <3>2, <4>1, NoneAssumption DEF Stream
    <3>3. stream'[m] # None => KeepsPlace(m, c, req[Main].buf)
      <4>1. CASE Restored(m)
        BY <4>1 DEF Restored, KeepsPlace
      <4>2. CASE AllFit(m)
        <5>1. ASSUME stream'[m] # None, NEW p \in DOMAIN c
              PROVE  c[p].need <= req[Main].buf
          <6>1. c[p].need \in Nat
            BY <3>2, <5>1, FileFacts
          <6>2. c[p].need <= FirstBuf
            BY <3>2, <4>2, <5>1 DEF AllFit
          <6> QED
            BY <1>2, <6>1, <6>2, TestProgramAssumption DEF Underway
        <5> QED
          BY <5>1 DEF KeepsPlace
      <4> QED
        BY <2>8, <4>1, <4>2 DEF Kept
    <3>4. /\ EnumeratedIn(m)'
          /\ out'[Main].ret = "SUCCESS" =>
               \E p \in Lines(c) \ given[m] :
                 /\ given'[m] = given[m] \cup {p}
                 /\ out'[Main].res = c[p]
          /\ out'[Main].ret # "SUCCESS" => given'[m] = given[m]
          /\ out'[Main].ret = "NOTFOUND" => Lines(c) \ given[m] = {}
      <4>1. PICK l \in Maps : l = m
        BY <1>2
      <4>2. EnumeratedIn(l)' <=> EnumeratedIn(m)'
        BY <1>4, <4>1 DEF EnumeratedIn
      <4> QED
        BY <1>1, <1>2, <2>1, <3>1, <3>3, <4>1, <4>2, GetentStep
    <3>5. CASE stream[m] = None
      BY <2>2, <3>1, <3>4, <3>5 DEF EnumeratedIn, Copies
    <3>6. CASE stream[m] # None
      <4>1. /\ stream'[m] # None /\ stream[m].data = c /\ c \in Contents
            /\ given[m] = Passed(c, stream[m].pos)
            /\ stream[m].pos \in Starts(c) \cup {Len(c) + 1}
        BY <2>2, <3>1, <3>2, <3>6 DEF EnumeratedIn
      <4>2. Lines(c) \subseteq Nat /\ stream[m].pos \in Nat
        BY <4>1, FileFacts DEF Lines, Starts
      <4>3. \A p \in Lines(c) \ given[m] : \A q \in given[m] : q <= p
        BY <4>1, <4>2 DEF Passed
      <4>4. given[m] \subseteq Lines(c)
        BY <4>1 DEF Passed
      <4> QED
        BY <3>1, <3>4, <4>1, <4>3, <4>4
    <3> QED
      BY <3>5, <3>6
  <2>9. ASSUME Kept(m)
        PROVE  Written'
    <3>1. CASE out'[Main].ret = "SUCCESS"
      <4>1. PICK p \in Lines(stream'[m].data) \ given[m] :
              /\ \A q \in given[m] : q <= p
              /\ given'[m] = given[m] \cup {p}
              /\ out'[Main].res = stream'[m].data[p]
        BY <2>8, <2>9, <3>1
      <4>2. given'[m] \ {p} = given[m] /\ p \in given'[m]
        BY <4>1
      <4>3. p <= p
        <5>1. stream'[m] \in Stream
          BY <1>2, <1>10, <2>2, <3>1, TestProgramAssumption, StepIInv
             DEF IInv, TypeOK, Next
        <5> QED
          BY <5>1, FileFacts DEF Stream, Lines, Starts
      <4> QED
        BY <1>3, <1>4, <2>7, <2>8, <2>9, <3>1, <4>1, <4>2, <4>3 DEF Written
    <3>2. CASE out'[Main].ret # "SUCCESS"
      BY <1>3, <1>4, <2>7, <2>8, <2>9, <3>2 DEF Written
    <3> QED
      BY <3>1, <3>2
  <2>10. Following'
    <3>1. Kept(Current)' => Kept(m)
      BY <1>4, <1>8
    <3>2. EnumeratedIn(Current)' <=> EnumeratedIn(m)'
      OBVIOUS
    <3> QED
      BY <2>8, <2>9, <3>1, <3>2 DEF Following
  <2>11. Told'
    BY <1>3, <1>4, <1>8, <2>2, <2>3, <2>8 DEF Told, Status
  <2> QED
    BY <1>6, <1>7, <2>5, <2>6, <2>10, <2>11
<1> QED
  BY <1>9, <1>10 DEF Library
LEMMA AnswerKeeps ==
  ASSUME PInv, Answer
  PROVE  /\ DumpTypeOK' /\ Underway' /\ Enumerating' /\ Waiting' /\ Reading'
         /\ Following' /\ Told' /\ CopyExact'
<1> USE DEF PInv
<1> DEFINE m == Current
           x == Printed(m, out[Main].res)
<1>1. /\ turn \in 1..Len(Order) /\ m \in Maps /\ step = "wait" /\ ~Ended
      /\ pc[Main] = "idle" /\ Answered
      /\ UNCHANGED <<fileVars, filename, stream, given, pc, req, out, live>>
  BY InTurn DEF Answer, Answered, vars, libVars
<1>2. /\ copy' = IF Status = "SUCCESS" THEN [copy EXCEPT ![m] = Append(@, x)] ELSE copy
      /\ buflen' = NextBuflen
  BY DEF Answer
<1>3. \/ /\ Status \in {"SUCCESS", "TRYAGAIN"} /\ step' = "ask"
         /\ turn' = turn /\ status' = status
      \/ /\ Status \in {"NOTFOUND", "UNAVAIL"} /\ step' = "open" /\ turn' = turn + 1
         /\ status' = [status EXCEPT ![m] = IF Status = "UNAVAIL" THEN 1 ELSE 0]
  BY <1>1 DEF Answer, EndMap, Told, NssStatus
<1>4. \A l : Kept(l)' <=> Kept(l)
  BY <1>1 DEF Kept, AllFit, Restored
<1>5. buflen' \in Nat /\ buflen' >= FirstBuf
  BY <1>1, <1>2, TestProgramAssumption DEF NextBuflen, Underway
<1>6. DumpTypeOK'
  <2>1. Status = "SUCCESS" => x \in CopyLine
    BY <1>1 DEF Told, CopyLine
  <2>2. copy' \in [Maps -> Seq(CopyLine)]
    BY <1>1, <1>2, <2>1 DEF DumpTypeOK
  <2>3. status' \in [Maps -> {None, 0, 1, 255}]
    <3> DEFINE e == IF Status = "UNAVAIL" THEN 1 ELSE 0
           T == {None, 0, 1, 255}
    <3>1. e \in T
      OBVIOUS
    <3>2. status' = status \/ status' = [status EXCEPT ![m] = e]
      BY <1>3
    <3>3. status \in [Maps -> T]
      BY DEF DumpTypeOK
    <3> HIDE DEF e, T, m
    <3>4. status' \in [Maps -> T]
      BY <3>1, <3>2, <3>3
    <3> QED
      BY <3>4 DEF T
  <2> QED
    BY <1>1, <2>2, <2>3 DEF DumpTypeOK
<1>7. step' # "wait"
  BY <1>3
<1>8. Enumerating' /\ Told'
  BY <1>1, <1>7 DEF Enumerating, Told
<1>9. CASE Status \in {"SUCCESS", "TRYAGAIN"}
  <2>1. step' = "ask" /\ turn' = turn /\ status' = status /\ Current' = m
    BY <1>3, <1>9 DEF Current
  <2>2. Underway'
    <3>1. Version(TestPath[m])' = Version(TestPath[m])
      BY <1>1, <2>1 DEF Version, fileVars
    <3> QED
      BY <1>1, <1>5, <2>1, <3>1 DEF Underway, Ended
  <2>3. Waiting'
    <3> SUFFICES ASSUME NEW i \in 1..Len(Order), i > turn
                 PROVE  Untouched(Order[i])'
      BY <2>1 DEF Waiting
    <3>1. Untouched(Order[i]) /\ Order[i] # m /\ Order[i] \in Maps
      BY <1>1, OrderFacts DEF Waiting, Current
    <3> QED
      BY <1>1, <1>2, <2>1, <3>1 DEF Untouched, DumpTypeOK
  <2>4. Reading'
    BY <1>1, <2>1 DEF Reading
  <2>5. ASSUME Kept(m)
        PROVE  EnumeratedIn(Current)' /\ Written'
    <3> DEFINE c == stream[m].data
    <3>1. EnumeratedIn(m) /\ Written
      BY <1>1, <2>5 DEF Following
    <3>2. EnumeratedIn(Current)'
      BY <1>1, <2>1, <3>1 DEF EnumeratedIn
    <3>3. Copies(copy'[m], m, c, given[m])
      <4>1. CASE Status = "SUCCESS"
        <5>1. PICK p \in given[m] : /\ \A q \in given[m] : q <= p
                                   /\ out[Main].res = c[p]
                                   /\ Copies(copy[m], m, c, given[m] \ {p})
          BY <1>1, <3>1, <4>1 DEF Written, InHand
        <5>2. /\ c \in Contents /\ given[m] \in SUBSET (1..Len(c)) /\ Len(c) \in Nat
          <6>1. stream[m] \in Stream /\ given[m] = Passed(c, stream[m].pos)
            BY <1>1, <3>1, <4>1 DEF Told, EnumeratedIn, IInv, TypeOK
          <6>2. c \in Contents
            BY <6>1 DEF Stream
          <6> QED
            BY <6>1, <6>2, FileFacts DEF Passed, Lines, Starts
        <5> DEFINE ps == given[m] \ {p}
        <5>3. ps \in SUBSET (1..Len(c)) /\ ps \in SUBSET Nat /\ p \in Nat
              /\ \A q \in ps : q < p
          BY <5>1, <5>2
        <5>4. IsFiniteSet(ps)
          <6>1. IsFiniteSet(1..Len(c))
            BY <5>2, FS_Interval
          <6> HIDE DEF ps, c
          <6> QED
            BY <5>3, <6>1, FS_Subset
        <5>5. x = Printed(m, c[p]) /\ x \in CopyLine
          BY <1>1, <4>1, <5>1 DEF Told, CopyLine
        <5>6. copy[m] \in Seq(CopyLine)
          BY <1>1 DEF DumpTypeOK
        <5>7. Copies(Append(copy[m], Printed(m, c[p])), m, c, ps \cup {p})
          <6> HIDE DEF ps, c, m, x
          <6> QED
            BY <5>1, <5>3, <5>4, <5>5, <5>6, PrintedSays, CopyGrows DEF ps
        <5>8. ps \cup {p} = given[m]
          OBVIOUS
        <5>9. copy'[m] = Append(copy[m], x)
          BY <1>1, <1>2, <4>1 DEF DumpTypeOK
        <5> QED
          BY <5>5, <5>7, <5>8, <5>9
      <4>2. CASE Status # "SUCCESS"
        BY <1>1, <1>2, <3>1, <4>2 DEF Written, InHand
      <4> QED
        BY <4>1, <4>2
    <3>4. ~InHand'
      BY <1>7 DEF InHand
    <3> QED
      BY <1>1, <2>1, <3>2, <3>3, <3>4 DEF Written
  <2>6. Following'
    BY <1>4, <2>1, <2>5 DEF Following
  <2>7. CopyExact'
    <3>1. status[m] = None
      BY <1>1 DEF Reading
    <3>2. \A l \in Maps : l # m => copy'[l] = copy[l]
      BY <1>1, <1>2 DEF DumpTypeOK
    <3> QED
      BY <1>1, <2>1, <3>1, <3>2, DumpAssumption DEF CopyExact, AllFit, Restored
  <2> QED
    BY <1>6, <1>8, <2>2, <2>3, <2>4, <2>6, <2>7
<1>10. CASE Status \in {"NOTFOUND", "UNAVAIL"}
  <2>1. /\ step' = "open" /\ turn' = turn + 1 /\ copy' = copy
        /\ status' = [status EXCEPT ![m] = IF Status = "UNAVAIL" THEN 1 ELSE 0]
    BY <1>2, <1>3, <1>10
  <2>2. Len(Order) \in Nat /\ turn' \in 1..(Len(Order) + 1)
    BY <1>1, <2>1, OrderFacts
  <2>3. Underway' /\ Reading' /\ Following'
    BY <1>5, <2>1, <2>2 DEF Underway, Reading, Following
  <2>4. Waiting'
    <3> SUFFICES ASSUME NEW i \in 1..Len(Order), i > turn
                 PROVE  Untouched(Order[i])'
      BY <1>1, <2>1 DEF Waiting
    <3>1. Untouched(Order[i]) /\ Order[i] # m /\ Order[i] \in Maps
      BY <1>1, OrderFacts DEF Waiting, Current
    <3> QED
      BY <1>1, <2>1, <3>1 DEF Untouched, DumpTypeOK
  <2>5. CopyExact'
    <3>1. status'[m] = 0 /\ Kept(m) =>
            \E c \in live[m] \ {None} : Copies(copy[m], m, c, Lines(c))
      <4> SUFFICES ASSUME status'[m] = 0, Kept(m)
                   PROVE  \E c \in live[m] \ {None} : Copies(copy[m], m, c, Lines(c))
        OBVIOUS
      <4>1. Status = "NOTFOUND"
        BY <1>1, <1>10, <2>1 DEF DumpTypeOK
      <4> DEFINE c == stream[m].data
      <4>2. stream[m] # None /\ given[m] = Lines(c)
        BY <1>1, <4>1 DEF Told
      <4>3. c \in live[m] \ {None}
        BY <1>1, <4>2, NoneAssumption DEF Reading, IInv, TypeOK, Stream
      <4>4. Copies(copy[m], m, c, Lines(c))
        BY <1>1, <4>1, <4>2 DEF Following, Written, InHand
      <4> QED
        BY <4>3, <4>4
    <3>2. status'[m] = 1 => None \in live[m]
      BY <1>1, <1>10, <2>1 DEF DumpTypeOK, Told
    <3>3. \A l \in Maps : l # m => status'[l] = status[l]
      BY <1>1, <2>1 DEF DumpTypeOK
    <3> QED
      BY <1>1, <2>1, <3>1, <3>2, <3>3 DEF CopyExact, Kept, AllFit, Restored
  <2> QED
    BY <1>6, <1>8, <2>3, <2>4, <2>5
<1> QED
  BY <1>3, <1>9, <1>10

-----------------------------------------------------------------------------
LEMMA DumpInitPInv == DumpInit => PInv
<1> SUFFICES ASSUME DumpInit
             PROVE  PInv
  OBVIOUS
<1> USE DEF DumpInit
<1>1. IInv
  BY InitIInv
<1>2. /\ pc[Main] = "idle"
      /\ \A m \in Maps : stream[m] = None /\ given[m] = {}
  BY TestProgramAssumption DEF Init, LibInit
<1>3. DumpTypeOK
  BY DEF DumpTypeOK
<1>4. Underway /\ Reading /\ Following /\ Told /\ Enumerating
  BY <1>2, OrderFacts DEF Underway, Reading, Following, Told, Enumerating
<1>5. Waiting
  BY <1>2, OrderFacts DEF Waiting, Untouched
<1>6. CopyExact
  BY DumpAssumption DEF CopyExact
<1> QED
  BY <1>1, <1>3, <1>4, <1>5, <1>6 DEF PInv

LEMMA StepPInv == PInv /\ [DumpNext]_allVars => PInv'
<1> SUFFICES ASSUME PInv, [DumpNext]_allVars
             PROVE  PInv'
  OBVIOUS
<1>1. TypeOK /\ Underway
  BY DEF PInv, IInv
<1>2. IInv'
  BY <1>1, DumpStepsAreSteps, StepIInv DEF PInv
<1>3. CASE UNCHANGED allVars
  <2>1. UNCHANGED <<fileVars, filename, stream, given, pc, req, out, buflen, turn, step,
                    copy, status, live>>
    BY <1>3 DEF allVars, vars, libVars, dumpVars
  <2>2. DumpTypeOK' /\ Waiting' /\ CopyExact'
    BY <2>1 DEF PInv, DumpTypeOK, Waiting, Untouched, CopyExact, AllFit, Restored
  <2>3. Current' = Current /\ (Ended' <=> Ended) /\ (InHand' <=> InHand)
        /\ (Answered' <=> Answered) /\ Status' = Status
        /\ \A m : Kept(m)' <=> Kept(m)
    BY <2>1 DEF Current, Ended, InHand, Answered, Status, Kept, AllFit, Restored
  <2>4. Version(TestPath[Current])' = Version(TestPath[Current])
    BY <2>1, <2>3 DEF Version, fileVars
  <2>5. Underway' /\ Enumerating' /\ Reading' /\ Told'
    BY <2>1, <2>3, <2>4 DEF PInv, Underway, Enumerating, Reading, Told
  <2>6. Following'
    BY <2>1, <2>3 DEF PInv, Following, EnumeratedIn, Written
  <2> QED
    BY <1>2, <2>2, <2>5, <2>6 DEF PInv
<1>4. CASE \/ OpenFails(Current) \/ Open(Current) \/ Asks \/ Answer
           \/ Library /\ UNCHANGED <<buflen, dumpVars>>
           \/ \E p \in Paths, c \in Contents : Synchronise(p, c)
  <2>1. /\ DumpTypeOK' /\ Underway' /\ Enumerating' /\ Waiting' /\ Reading'
        /\ Following' /\ Told' /\ CopyExact'
    BY <1>4, OpenFailsKeeps, OpenKeeps, AsksKeeps, AnswerKeeps, LibraryKeeps,
       SynchroniseKeeps
  <2> QED
    BY <1>2, <2>1 DEF PInv
<1> QED
  BY <1>1, <1>3, <1>4, DumpCases

LEMMA DumpInvariance == DumpSpec => []PInv
<1>1. DumpSpec => DumpInit /\ [][DumpNext]_allVars
  BY PTL DEF DumpSpec
<1> QED
  BY <1>1, DumpInitPInv, StepPInv, PTL

-----------------------------------------------------------------------------
(***************************************************************************)
(* gen_getent only does what nss_cache.c and the synchroniser allow.       *)
(***************************************************************************)
THEOREM DumpIsAClient == DumpSpec => Spec
<1>1. PInv /\ [DumpNext]_allVars => [Next]_vars
  BY DumpStepsAreSteps DEF PInv, IInv
<1>2. DumpSpec => DumpInit /\ [][DumpNext]_allVars
  BY PTL DEF DumpSpec
<1>3. DumpInit => Init
  BY DEF DumpInit
<1> QED
  BY <1>1, <1>2, <1>3, DumpInvariance, PTL DEF Spec

(***************************************************************************)
(* A dump that gen_getent reports as done is a copy of one version of the  *)
(* map that was in place while it ran: every entry, once and in order,     *)
(* with its name and, unless its top bit is set, its id in the map,        *)
(* however small the first buffer and whenever the file is replaced, if    *)
(* the reads that fail are undone or none has to.                          *)
(***************************************************************************)
THEOREM CopyIsExact == DumpSpec => []CopyExact
<1>1. PInv => CopyExact
  BY DEF PInv
<1> QED
  BY <1>1, DumpInvariance, PTL
=============================================================================
