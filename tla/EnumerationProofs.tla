--------------------------- MODULE EnumerationProofs ---------------------------
(***************************************************************************)
(* getXXent_r enumerates: a theorem for all values of the constants of     *)
(* NssCache under which the code can keep its place in a file.             *)
(*                                                                         *)
(* NextEntry speaks of the lines handed out so far; the code only has a    *)
(* position.  Enumerated says that they are the same thing, and that the   *)
(* position is never inside a line.                                        *)
(***************************************************************************)
EXTENDS LookupProofs

(* The process only enumerates.  A lookup of the map in between would use  *)
(* and close the stream of the enumeration.                                *)
EnumeratesOnly == ClientOps \cap LookupOps = {}

(* A read that fails for want of space is undone, by the C library or, for *)
(* the group map, by the code itself.                                      *)
PlaceKept == ReadRestores \/ Maps \subseteq {"group"}

(* So does a reader whose buffer has room for every line. *)
KeepsPlace(m, c, buf) ==
  \/ ReadRestores \/ m = "group"
  \/ \A p \in DOMAIN c : c[p].need <= buf

(* The entries before a position. *)
Passed(c, pos) == {p \in Lines(c) : p < pos}

EnumeratedIn(m) ==
  /\ stream[m] = None => given[m] = {}
  /\ stream[m] # None =>
       LET c == stream[m].data IN
       /\ stream[m].pos \in Starts(c) \cup {Len(c) + 1}
       /\ given[m] = Passed(c, stream[m].pos)

Enumerated == \A m \in Maps : EnumeratedIn(m)

EInv == LInv /\ Enumerated

-----------------------------------------------------------------------------
(* A read that is undone is back where it stopped. *)
LEMMA UndoneRead ==
  ASSUME ReadRestores, NEW c \in Contents, NEW o \in Nat \ {0}, NEW buf \in Nat,
         NEW r \in Read(c, o, buf), r.errno = "ERANGE"
  PROVE  r.pos = r.at
<1>1. PICK p \in StopsAt(c, o, buf) :
        r \in IF p = Len(c) + 1 THEN {[errno |-> "ENOENT", at |-> p, pos |-> p]}
              ELSE IF c[p].need <= buf
                THEN {[errno |-> "0", at |-> p, pos |-> c[p].next]}
              ELSE IF ReadRestores
                THEN {[errno |-> "ERANGE", at |-> p, pos |-> p]}
              ELSE {[errno |-> "ERANGE", at |-> p, pos |-> q] :
                      q \in (p + 1)..c[p].next}
  BY DEF Read
<1>2. r = [errno |-> "ERANGE", at |-> p, pos |-> p]
  BY <1>1
<1> QED
  BY <1>2

(* A read whose buffer has room for every line does not fail for want of it. *)
LEMMA FittingRead ==
  ASSUME NEW c \in Contents, NEW o \in Nat \ {0}, NEW buf \in Nat,
         \A p \in DOMAIN c : c[p].need <= buf, NEW r \in Read(c, o, buf)
  PROVE  r.errno # "ERANGE"
<1>1. PICK p \in StopsAt(c, o, buf) :
        r \in IF p = Len(c) + 1 THEN {[errno |-> "ENOENT", at |-> p, pos |-> p]}
              ELSE IF c[p].need <= buf
                THEN {[errno |-> "0", at |-> p, pos |-> c[p].next]}
              ELSE IF ReadRestores
                THEN {[errno |-> "ERANGE", at |-> p, pos |-> p]}
              ELSE {[errno |-> "ERANGE", at |-> p, pos |-> q] :
                      q \in (p + 1)..c[p].next}
  BY DEF Read
<1>2. p # Len(c) + 1 => c[p].need <= buf
  BY <1>1, FileFacts DEF StopsAt
<1> QED
  BY <1>1, <1>2

(* Reading on from s with outcome o hands out the first entry not passed   *)
(* yet, and passes it; or it passes none, and there is none if it says so. *)
HandsOut(s, o) ==
  LET c == s.data
      rest == Lines(c) \ Passed(c, s.pos)
  IN  /\ o.stream \in Stream /\ o.stream.data = c
      /\ o.stream.pos \in Starts(c) \cup {Len(c) + 1}
      /\ o.ret = "SUCCESS" =>
           /\ o.at \in rest /\ \A q \in rest : o.at <= q
           /\ Passed(c, o.stream.pos) = Passed(c, s.pos) \cup {o.at}
           /\ o.res = c[o.at]
      /\ o.ret # "SUCCESS" => Passed(c, o.stream.pos) = Passed(c, s.pos)
      /\ o.ret = "NOTFOUND" => rest = {}
      /\ o.ret \in {"SUCCESS", "TRYAGAIN", "NOTFOUND"}

LEMMA GetentEnumerates ==
  ASSUME NEW m \in Maps, NEW s \in Stream, NEW buf \in Nat,
         KeepsPlace(m, s.data, buf),
         s.pos \in Starts(s.data) \cup {Len(s.data) + 1},
         NEW o \in GetentLocked(m, s, buf)
  PROVE  HandsOut(s, o)
<1> USE DEF HandsOut
<1> DEFINE c == s.data
           rest == Lines(c) \ Passed(c, s.pos)
<1>1. PICK r \in Read(c, s.pos, buf) :
        /\ o.at = r.at /\ o.ret = Result(o).ret
        /\ o.stream = [data |-> c, pos |-> PosAfter(m, s, r)]
        /\ r.errno = "0" => Result(o) = Reply("SUCCESS", "unset", c[r.at])
        /\ r.errno = "ERANGE" => Result(o) = Reply("TRYAGAIN", "ERANGE", None)
        /\ r.errno = "ENOENT" => Result(o) = Reply("NOTFOUND", "0", None)
  BY GetentAnswers
<1>2. /\ r.errno = "0" => o.ret = "SUCCESS"
      /\ r.errno = "ERANGE" => o.ret = "TRYAGAIN"
      /\ r.errno = "ENOENT" => o.ret = "NOTFOUND"
  BY <1>1 DEF Reply
<1>3. /\ c \in Contents /\ Len(c) \in Nat /\ DOMAIN c = 1..Len(c)
      /\ s.pos \in Nat \ {0}
  BY FileFacts DEF Stream
<1>4. /\ \A q \in Lines(c) : q >= s.pos => q >= r.at
      /\ r.errno = "0" =>
           /\ r.pos \in Starts(c) \cup {Len(c) + 1}
           /\ \A q \in Lines(c) : q < r.pos => q <= r.at
  BY <1>3, ReadPassesNoEntry
<1>5. /\ r.errno \in {"0", "ENOENT", "ERANGE"}
      /\ r.at \in Nat /\ r.at >= s.pos
      /\ r.errno = "ENOENT" => r.at = Len(c) + 1 /\ r.pos = Len(c) + 1
      /\ r.errno # "ENOENT" => r.at \in DOMAIN c /\ (r.at = s.pos \/ c[r.at].start)
      /\ r.errno = "0" => c[r.at].ok /\ r.pos = c[r.at].next
  BY <1>3, ReadOutcome
<1>6. Lines(c) \subseteq Starts(c) /\ Starts(c) \subseteq 1..Len(c)
  BY <1>3 DEF Lines, Starts
<1>7. r.errno # "ENOENT" => r.at \in Starts(c)
  BY <1>3, <1>5 DEF Starts
<1>8. r.errno = "0" => r.at \in Lines(c) /\ r.pos > r.at /\ PosAfter(m, s, r) = r.pos
  BY <1>3, <1>5, <1>7, FileFacts DEF Lines, PosAfter
<1>9. r.errno = "ERANGE" => PosAfter(m, s, r) \in {s.pos, r.at}
  BY <1>3, <1>5, UndoneRead, FittingRead DEF KeepsPlace, PosAfter
<1>10. r.errno = "ENOENT" => PosAfter(m, s, r) = Len(c) + 1
  BY <1>5 DEF PosAfter
<1>11. PosAfter(m, s, r) \in Starts(c) \cup {Len(c) + 1}
  BY <1>4, <1>5, <1>7, <1>8, <1>9, <1>10
<1>12. /\ o.stream \in Stream /\ o.stream.data = c
       /\ o.stream.pos = PosAfter(m, s, r)
  BY <1>1, <1>3, <1>6, <1>11 DEF Stream
<1>13. CASE r.errno = "0"
  <2>1. o.at \in rest
    BY <1>1, <1>3, <1>5, <1>6, <1>8, <1>13 DEF Passed
  <2>2. \A q \in rest : o.at <= q
    BY <1>1, <1>3, <1>4, <1>5, <1>6 DEF Passed
  <2>3. Passed(c, o.stream.pos) = Passed(c, s.pos) \cup {o.at}
    <3>1. \A q \in Lines(c) : q < r.pos <=> (q < s.pos \/ q = r.at)
      <4>1. r.pos \in Nat
        BY <1>3, <1>4, <1>6, <1>13
      <4> QED
        BY <1>3, <1>4, <1>5, <1>6, <1>8, <1>13, <4>1
    <3> QED
      BY <1>1, <1>8, <1>12, <1>13, <3>1 DEF Passed
  <2>4. o.res = c[o.at]
    BY <1>1, <1>13 DEF Reply, Result
  <2> QED
    BY <1>2, <1>11, <1>12, <1>13, <2>1, <2>2, <2>3, <2>4
<1>14. CASE r.errno = "ERANGE"
  <2>1. Passed(c, o.stream.pos) = Passed(c, s.pos)
    <3>1. \A q \in Lines(c) : q < r.at <=> q < s.pos
      BY <1>3, <1>4, <1>5, <1>6
    <3> QED
      BY <1>9, <1>12, <1>14, <3>1 DEF Passed
  <2> QED
    BY <1>2, <1>11, <1>12, <1>14, <2>1
<1>15. CASE r.errno = "ENOENT"
  <2>1. \A q \in Lines(c) : q < s.pos /\ q < Len(c) + 1
    BY <1>3, <1>4, <1>5, <1>6, <1>15
  <2>2. Passed(c, s.pos) = Lines(c) /\ Passed(c, o.stream.pos) = Lines(c)
    BY <1>10, <1>12, <1>15, <2>1 DEF Passed
  <2> QED
    BY <1>2, <1>11, <1>12, <1>15, <2>2
<1> QED
  BY <1>5, <1>13, <1>14, <1>15

-----------------------------------------------------------------------------
(* A call that enumerates finds the enumeration where it is. *)

(* What getXXent_r reads through, opened or not. *)
LEMMA PlaceToRead ==
  ASSUME IInv, NEW m \in Maps, EnumeratedIn(m),
         NEW s, s = IF stream[m] = None THEN SetentLocked(m) ELSE stream[m],
         s # None
  PROVE  /\ s \in Stream
         /\ s.pos \in Starts(s.data) \cup {Len(s.data) + 1}
         /\ given[m] = Passed(s.data, s.pos)
<1> USE DEF IInv, TypeOK
<1>1. CASE stream[m] # None
  BY <1>1 DEF EnumeratedIn
<1>2. CASE stream[m] = None
  <2>1. s \in Stream /\ s.pos = 1
    BY <1>2, SetentLockedFacts
  <2>2. s.data \in Contents
    BY <2>1 DEF Stream
  <2>3. DOMAIN s.data = 1..Len(s.data)
    BY <2>2, FileFacts
  <2>4. Passed(s.data, 1) = {}
    BY <2>3 DEF Passed, Lines, Starts
  <2> QED
    BY <1>2, <2>1, <2>2, <2>4, FirstPlace DEF EnumeratedIn
<1> QED
  BY <1>1, <1>2

(* One call, and what it hands out. *)
LEMMA GetentStep ==
  ASSUME IInv, NEW t \in Threads, DoGetent(t),
         NEW m \in Maps, m = req[t].map, EnumeratedIn(m),
         stream'[m] # None => KeepsPlace(m, stream'[m].data, req[t].buf)
  PROVE  LET rest == Lines(stream'[m].data) \ given[m] IN
         /\ EnumeratedIn(m)'
         /\ out'[t].ret = "SUCCESS" =>
              \E p \in rest : /\ \A q \in rest : p <= q
                              /\ given'[m] = given[m] \cup {p}
                              /\ out'[t].res = stream'[m].data[p]
         /\ out'[t].ret # "SUCCESS" => given'[m] = given[m]
         /\ out'[t].ret = "NOTFOUND" => rest = {}
<1> USE DEF IInv, TypeOK
<1> DEFINE s == IF stream[m] = None THEN SetentLocked(m) ELSE stream[m]
           rest == Lines(stream'[m].data) \ given[m]
<1>1. pc[t] = "getent" /\ req[t] \in Request /\ req[t].buf \in Nat
  BY DEF DoGetent, Request
<1>2. CASE s = None
  <2>1. /\ stream' = stream /\ given' = given
        /\ out' = [out EXCEPT ![t].ret = "UNAVAIL"]
    BY <1>2 DEF DoGetent, SetRet
  <2>2. out'[t].ret = "UNAVAIL"
    BY <2>1 DEF Outcome
  <2> QED
    BY <2>1, <2>2 DEF EnumeratedIn
<1>3. CASE s # None
  <2>1. PICK o \in GetentLocked(m, s, req[t].buf) :
          /\ out' = [out EXCEPT ![t] = Result(o)]
          /\ stream' = [stream EXCEPT ![m] = o.stream]
          /\ given' = IF o.ret = "SUCCESS"
                        THEN [given EXCEPT ![m] = @ \cup {o.at}]
                        ELSE given
    BY <1>3 DEF DoGetent
  <2> HIDE DEF s, IInv, TypeOK
  <2>2. /\ s \in Stream /\ s.pos \in Starts(s.data) \cup {Len(s.data) + 1}
        /\ given[m] = Passed(s.data, s.pos)
    BY <1>3, PlaceToRead DEF s
  <2> DEFINE left == Lines(s.data) \ Passed(s.data, s.pos)
  <2>3. stream'[m] = o.stream /\ o.stream \in Stream /\ o.stream.data = s.data
    BY <1>1, <2>1, <2>2, GetentLockedFacts DEF IInv, TypeOK
  <2>4. HandsOut(s, o)
    BY <1>1, <2>1, <2>2, <2>3, GetentEnumerates, NothingAssumption
  <2>5. /\ o.stream.pos \in Starts(s.data) \cup {Len(s.data) + 1}
        /\ o.ret = "SUCCESS" =>
             /\ o.at \in left /\ \A q \in left : o.at <= q
             /\ Passed(s.data, o.stream.pos) = Passed(s.data, s.pos) \cup {o.at}
             /\ o.res = s.data[o.at]
        /\ o.ret # "SUCCESS" => Passed(s.data, o.stream.pos) = Passed(s.data, s.pos)
        /\ o.ret = "NOTFOUND" => left = {}
    BY <2>4 DEF HandsOut
  <2>6. out'[t].ret = o.ret /\ out'[t].res = o.res
    BY <2>1 DEF Result, IInv, TypeOK
  <2>7. /\ o.ret = "SUCCESS" => given'[m] = given[m] \cup {o.at}
        /\ o.ret # "SUCCESS" => given'[m] = given[m]
    BY <2>1 DEF IInv, TypeOK
  <2>8. given'[m] = Passed(s.data, o.stream.pos)
    BY <2>2, <2>5, <2>7
  <2>9. EnumeratedIn(m)'
    BY <2>3, <2>5, <2>8, NothingAssumption DEF EnumeratedIn
  <2>10. rest = left
    BY <2>2, <2>3
  <2>11. /\ o.ret = "SUCCESS" => /\ o.at \in rest /\ \A q \in rest : o.at <= q
                                 /\ given'[m] = given[m] \cup {o.at}
                                 /\ o.res = stream'[m].data[o.at]
         /\ o.ret # "SUCCESS" => given'[m] = given[m]
         /\ o.ret = "NOTFOUND" => rest = {}
    BY <2>3, <2>5, <2>7, <2>10
  <2> QED
    BY <2>6, <2>9, <2>11
<1> QED
  BY <1>2, <1>3

LEMMA EnumeratedStep ==
  ASSUME EInv, EnumeratesOnly, PlaceKept, [Next]_vars
  PROVE  Enumerated'
<1> USE DEF EInv, LInv, IInv, TypeOK
<1>1. ASSUME stream' = stream, given' = given
      PROVE  Enumerated'
  BY <1>1 DEF Enumerated, EnumeratedIn
<1>2. ASSUME NEW t \in Threads, Call(t)
      PROVE  Enumerated'
  BY <1>1, <1>2, CallShape DEF Begin
<1>3. ASSUME NEW t \in Threads, Acquire(t)
      PROVE  Enumerated'
  BY <1>1, <1>3 DEF Acquire
<1>4. ASSUME NEW t \in Threads, DoSetent(t)
      PROVE  Enumerated'
  <2> DEFINE m == req[t].map
  <2>1. m \in Maps
    BY <1>4 DEF DoSetent, Request
  <2>2. /\ stream' = [stream EXCEPT ![m] = SetentLocked(m)]
        /\ given' = [given EXCEPT ![m] = {}]
    BY <1>4 DEF DoSetent
  <2>3. SetentLocked(m) # None =>
          LET c == SetentLocked(m).data IN
          /\ SetentLocked(m).pos \in Starts(c) \cup {Len(c) + 1}
          /\ Passed(c, SetentLocked(m).pos) = {}
    <3>1. SUFFICES ASSUME SetentLocked(m) # None
                   PROVE  LET c == SetentLocked(m).data IN
                          /\ SetentLocked(m).pos \in Starts(c) \cup {Len(c) + 1}
                          /\ Passed(c, SetentLocked(m).pos) = {}
      OBVIOUS
    <3>2. SetentLocked(m).pos = 1 /\ SetentLocked(m).data \in Contents
      BY <2>1, <3>1, SetentLockedFacts DEF Stream
    <3>3. DOMAIN SetentLocked(m).data = 1..Len(SetentLocked(m).data)
      BY <3>2, FileFacts
    <3> QED
      BY <3>2, <3>3, FirstPlace DEF Passed, Lines, Starts
  <2> QED
    BY <2>1, <2>2, <2>3 DEF Enumerated, EnumeratedIn
<1>5. ASSUME NEW t \in Threads, DoEndent(t)
      PROVE  Enumerated'
  BY <1>5 DEF DoEndent, EndentLocked, Enumerated, EnumeratedIn
<1>6. ASSUME NEW t \in Threads, DoGetent(t)
      PROVE  Enumerated'
  <2>1. PICK m \in Maps : m = req[t].map
    BY <1>6 DEF DoGetent, Request
  <2>2. \A c, buf : KeepsPlace(m, c, buf)
    BY <2>1 DEF PlaceKept, KeepsPlace
  <2>3. EnumeratedIn(m)'
    BY <1>6, <2>1, <2>2, GetentStep DEF Enumerated
  <2>4. \A l \in Maps : l # m => stream'[l] = stream[l] /\ given'[l] = given[l]
    BY <1>6, <2>1 DEF DoGetent
  <2> QED
    BY <2>3, <2>4 DEF Enumerated, EnumeratedIn
<1>7. ASSUME NEW t \in Threads, FailByName(t) \/ SearchStep(t) \/ Finish(t)
      PROVE  FALSE
  <2>1. pc[t] \in LookupPcs /\ pc[t] # "idle"
    BY <1>7 DEF SearchStep, FailByName, PrepareByName, OpenIndex, CheckIndex,
       MatchEntry, SetupScan, Scan, Finish, LookupPcs
  <2> QED
    BY <2>1, CallFacts DEF EnumeratesOnly, AtOwnStep, AsCalled
<1>8. CASE ToolStep
  BY <1>1, <1>8 DEF ToolStep, Tools, Replace, SetPath, vars, libVars
<1> QED
  BY <1>2, <1>3, <1>4, <1>5, <1>6, <1>7, <1>8, StepCases, LockedCases DEF ThreadStep

-----------------------------------------------------------------------------
LEMMA InitEInv == Init => EInv
<1>1. Init => LInv
  BY InitLInv
<1>2. Init => Enumerated
  BY DEF Init, LibInit, Enumerated, EnumeratedIn
<1> QED
  BY <1>1, <1>2 DEF EInv

LEMMA StepEInv ==
  ASSUME EInv, EnumeratesOnly, PlaceKept, [Next]_vars
  PROVE  EInv'
<1>1. LInv'
  BY StepLInv DEF EInv
<1>2. Enumerated'
  BY EnumeratedStep
<1> QED
  BY <1>1, <1>2 DEF EInv

LEMMA EInvariance ==
  ASSUME EnumeratesOnly, PlaceKept
  PROVE  Spec => []EInv
<1>1. EInv /\ [Next]_vars => EInv'
  BY StepEInv
<1> QED
  BY <1>1, InitEInv, PTL DEF Spec

(***************************************************************************)
(* In a process that only enumerates, where a read without space is undone *)
(* (getgrent_r seeks back itself, the C library does it for the rest), the *)
(* calls of getXXent_r hand out the lines of the file in order, one by     *)
(* one, whichever thread makes them and however small its buffer was: none *)
(* is left out, none comes twice, and NOTFOUND means that none is left.    *)
(***************************************************************************)
THEOREM EnumerationInOrder ==
  ASSUME EnumeratesOnly, PlaceKept
  PROVE  Spec => NextEntry
<1> DEFINE InOrder ==
      \A t \in Threads : pc[t] = "getent" /\ pc'[t] = "idle" =>
        LET m == req[t].map
            rest == Lines(stream'[m].data) \ given[m] IN
        /\ out'[t].ret = "SUCCESS" =>
             \E p \in rest : /\ \A q \in rest : p <= q
                             /\ given'[m] = given[m] \cup {p}
        /\ out'[t].ret = "NOTFOUND" => rest = {}
<1>1. EInv /\ [Next]_vars => [InOrder]_vars
  <2>1. ASSUME EInv, Next, NEW t \in Threads, pc[t] = "getent", pc'[t] = "idle"
        PROVE  DoGetent(t)
    <3>1. PICK u \in Threads : Call(u) \/ Acquire(u) \/ Locked(u)
      BY <2>1, ToolsUntouched DEF Next
    <3>2. u = t
      BY <2>1, <3>1, OthersUntouched DEF EInv, LInv, IInv
    <3>3. ~Call(t) /\ ~Acquire(t)
      BY <2>1, CallBegins DEF Begun, Begin, Acquire
    <3> QED
      BY <2>1, <3>1, <3>2, <3>3
         DEF Locked, DoSetent, DoEndent, FailByName, PrepareByName,
             OpenIndex, CheckIndex, MatchEntry, SetupScan, Scan, Finish
  <2>2. ASSUME EInv, Next, NEW t \in Threads, pc[t] = "getent", pc'[t] = "idle"
        PROVE  LET m == req[t].map
                   rest == Lines(stream'[m].data) \ given[m] IN
               /\ out'[t].ret = "SUCCESS" =>
                    \E p \in rest : /\ \A q \in rest : p <= q
                                    /\ given'[m] = given[m] \cup {p}
               /\ out'[t].ret = "NOTFOUND" => rest = {}
    <3> DEFINE m == req[t].map
    <3>1. m \in Maps
      BY <2>2 DEF EInv, LInv, IInv, TypeOK, Request
    <3>2. \A c, buf : KeepsPlace(m, c, buf)
      BY <3>1 DEF PlaceKept, KeepsPlace
    <3> QED
      BY <2>1, <2>2, <3>1, <3>2, GetentStep DEF EInv, LInv, Enumerated
  <2> QED
    BY <2>2
<1>2. Spec => [][InOrder]_vars
  BY <1>1, EInvariance, PTL DEF Spec
<1> QED
  BY <1>2 DEF NextEntry
=============================================================================
