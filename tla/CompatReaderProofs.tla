------------------------- MODULE CompatReaderProofs -------------------------
(***************************************************************************)
(* The readers of compat/ do what Read of NssData says, for every file,    *)
(* every position and every size of the buffer.                            *)
(***************************************************************************)
EXTENDS CompatReader, TLAPS, FiniteSetTheorems, SequenceTheorems

(***************************************************************************)
(* Searching a text.                                                       *)
(***************************************************************************)

(* The least number principle: the library states it with an operator as a *)
(* parameter; here it is for sets.                                         *)
LEMMA LeastNatural ==
  ASSUME NEW S \in SUBSET Nat, S # {}
  PROVE  \E x \in S : \A y \in S : x <= y
<1> DEFINE T == {0..k : k \in S}
<1>1. T \subseteq FiniteSubsetsOf(Nat) /\ T # {}
  <2>1. ASSUME NEW k \in S PROVE 0..k \in FiniteSubsetsOf(Nat)
    <3>1. IsFiniteSet(0..k)
      BY FS_Interval
    <3> QED
      BY <3>1 DEF FiniteSubsetsOf
  <2> QED
    BY <2>1
<1>2. PICK t \in T : \A u \in T : <<u, t>> \notin StrictSubsetOrdering(Nat)
  <2> HIDE DEF T
  <2> QED
    BY <1>1, WFMin, FS_StrictSubsetOrderingWellFounded
<1>3. PICK m \in S : t = 0..m
  OBVIOUS
<1>4. ASSUME NEW k \in S, k < m PROVE FALSE
  <2>1. 0..k \in T /\ 0..k \subseteq 0..m /\ 0..m \subseteq Nat
    BY <1>4
  <2>2. m \in 0..m /\ m \notin 0..k
    BY <1>4
  <2>3. <<0..k, t>> \in StrictSubsetOrdering(Nat)
    BY <2>1, <2>2, <1>3 DEF StrictSubsetOrdering
  <2> QED
    BY <1>2, <2>1, <2>3
<1> QED
  BY <1>4

LEMMA MinOfSet ==
  ASSUME NEW S \in SUBSET Nat, S # {}
  PROVE  Min(S) \in S /\ \A x \in S : Min(S) <= x
BY LeastNatural DEF Min

LEMMA OfTwo ==
  ASSUME NEW i \in Nat, NEW j \in Nat
  PROVE  /\ Max({i, j}) = IF i >= j THEN i ELSE j
         /\ Min({i, j}) = IF i <= j THEN i ELSE j
<1>1. \E x \in {i, j} : \A y \in {i, j} : x >= y
  OBVIOUS
<1>2. \E x \in {i, j} : \A y \in {i, j} : x <= y
  OBVIOUS
<1> QED
  BY <1>1, <1>2 DEF Max, Min

(* Find stops at the first character of the set, or behind the text.       *)
LEMMA FindFacts ==
  ASSUME NEW s \in Seq(Char), NEW i \in Nat \ {0}, NEW S
  PROVE  /\ Find(s, i, S) \in Nat /\ i <= Find(s, i, S)
         /\ i <= Len(s) + 1 => Find(s, i, S) <= Len(s) + 1
         /\ Find(s, i, S) <= Len(s) => s[Find(s, i, S)] \in S
         /\ \A q \in i..(Find(s, i, S) - 1) : q <= Len(s) => s[q] \notin S
<1> DEFINE end == Max({i, Len(s) + 1})
           H == {j \in i..Len(s) : s[j] \in S} \cup {end}
<1>1. /\ end \in Nat /\ end >= i /\ end > Len(s)
      /\ i <= Len(s) + 1 => end = Len(s) + 1
  BY OfTwo
<1>2. H \in SUBSET Nat /\ H # {} /\ end \in H
  BY <1>1
<1>3. Min(H) \in H /\ \A x \in H : Min(H) <= x
  <2> HIDE DEF H
  <2> QED
    BY <1>2, MinOfSet
<1>4. Find(s, i, S) = Min(H)
  BY DEF Find
<1>5. Min(H) \in Nat /\ i <= Min(H) /\ Min(H) <= end
  <2> HIDE DEF end
  <2> QED
    BY <1>1, <1>2, <1>3
<1>6. Min(H) <= Len(s) => s[Min(H)] \in S
  <2> HIDE DEF end
  <2> QED
    BY <1>1, <1>3
<1>7. ASSUME NEW q \in i..(Min(H) - 1), q <= Len(s), s[q] \in S
      PROVE  FALSE
  <2>1. q \in H
    BY <1>7
  <2> HIDE DEF H
  <2> QED
    BY <2>1, <1>3, <1>5, <1>7
<1> HIDE DEF H, end
<1> QED
  BY <1>1, <1>4, <1>5, <1>6, <1>7

(* What fgets takes of a line: up to its newline, or to the end of the     *)
(* file.                                                                   *)
LEMMA LineFacts ==
  ASSUME NEW f \in Seq(Char), NEW p \in 1..Len(f)
  PROVE  /\ LineEnd(f, p) \in p..Len(f)
         /\ \A q \in p..(LineEnd(f, p) - 1) : f[q] # Newline
         /\ LineEnd(f, p) < Len(f) => f[LineEnd(f, p)] = Newline
         /\ Rest(f, p) \in Seq(Char)
         /\ Len(Rest(f, p)) = LineEnd(f, p) - p + 1
<1> DEFINE n == Find(f, p, {Newline})
<1>1. /\ n \in Nat /\ p <= n /\ n <= Len(f) + 1
      /\ n <= Len(f) => f[n] = Newline
      /\ \A q \in p..(n - 1) : q <= Len(f) => f[q] # Newline
  BY FindFacts
<1>2. LineEnd(f, p) = IF n <= Len(f) THEN n ELSE Len(f)
  <2> HIDE DEF n
  <2>1. Min({n, Len(f)}) = IF n <= Len(f) THEN n ELSE Len(f)
    <3>1. Len(f) \in Nat
      OBVIOUS
    <3> QED
      BY <3>1, <1>1, OfTwo, Zenon
  <2> QED
    BY <2>1 DEF LineEnd, n
<1> HIDE DEF n
<1>3. /\ LineEnd(f, p) \in p..Len(f)
      /\ \A q \in p..(LineEnd(f, p) - 1) : f[q] # Newline
      /\ LineEnd(f, p) < Len(f) => f[LineEnd(f, p)] = Newline
  BY <1>1, <1>2
<1>4. /\ Rest(f, p) \in Seq(Char)
      /\ Len(Rest(f, p)) = LineEnd(f, p) - p + 1
  BY <1>3 DEF Rest
<1> QED
  BY <1>3, <1>4

LEMMA ChompType ==
  ASSUME NEW s \in Seq(Char)
  PROVE  Chomp(s) \in Seq(Char) /\ Len(Chomp(s)) <= Len(s)
<1> DEFINE n == Find(s, 1, {Newline})
<1>1. n \in Nat /\ 1 <= n /\ n <= Len(s) + 1
  BY FindFacts
<1> HIDE DEF n
<1>2. Chomp(s) = SubSeq(s, 1, n - 1)
  BY DEF Chomp, n
<1> QED
  BY <1>1, <1>2

(* The member list of a group, and the size of its array of pointers.      *)
LEMMA MembersText ==
  ASSUME NEW s \in Seq(Char), GroupEntry(s) # None
  PROVE  GroupEntry(s).rest \in Seq(Char)
<1> DEFINE c1 == Find(s, 2, {Colon})
           c2 == Find(s, c1 + 1, {Colon})
           c3 == Find(s, c2 + 1, Char \ Digits)
<1>1. c1 \in Nat
  BY FindFacts
<1>2. c2 \in Nat
  <2> HIDE DEF c1
  <2> QED
    BY <1>1, FindFacts
<1>3. c3 \in Nat
  <2> HIDE DEF c2
  <2> QED
    BY <1>2, FindFacts
<1>4. /\ ColonsAt(s, {c1, c2, c3})
      /\ GroupEntry(s).rest = SubSeq(s, c3 + 1, Len(s))
  BY DEF GroupEntry
<1> HIDE DEF c3
<1> QED
  BY <1>3, <1>4

LEMMA ArrayBytesType ==
  ASSUME NEW mems \in Seq(Char)
  PROVE  nmem(mems) \in Nat /\ ArrayBytes(mems) \in Nat
<1>1. IsFiniteSet({i \in DOMAIN mems : mems[i] = Comma})
  <2>1. IsFiniteSet(1..Len(mems)) /\ DOMAIN mems = 1..Len(mems)
    BY FS_Interval
  <2> QED
    BY <2>1, FS_Subset
<1>2. nmem(mems) \in Nat
  BY <1>1, FS_CardinalityType DEF nmem
<1>3. Pointer \in Nat \ {0}
  BY CompatAssumption
<1>4. \A n \in Nat : Pointer * (n + 1) \in Nat
  BY <1>3
<1> QED
  BY <1>2, <1>3, <1>4 DEF ArrayBytes


(***************************************************************************)
(* A file as NssData has it.                                               *)
(***************************************************************************)

(* A line needs a byte for the NUL and one for the mark, and a group the   *)
(* array behind it.                                                        *)
LEMMA NeedFacts ==
  ASSUME NEW reader, NEW text \in Seq(Char)
  PROVE  LET s == Chomp(text)
             e == GroupEntry(s)
         IN /\ reader # "fgetgrent_r" \/ e = None =>
                 Need(reader, text) = Len(text) + 2
            /\ reader = "fgetgrent_r" /\ e # None =>
                 /\ ArrayBytes(e.rest) \in Nat
                 /\ Need(reader, text) =
                      IF Len(text) + 2 >= Len(s) + 1 + ArrayBytes(e.rest)
                        THEN Len(text) + 2 ELSE Len(s) + 1 + ArrayBytes(e.rest)
<1> DEFINE s == Chomp(text)
           e == GroupEntry(s)
<1>1. s \in Seq(Char) /\ Len(s) \in Nat /\ Len(text) + 2 \in Nat
  BY ChompType
<1>2. CASE reader # "fgetgrent_r" \/ e = None
  <2>1. Need(reader, text) = Max({Len(text) + 2})
    BY <1>2 DEF Need
  <2>2. Max({Len(text) + 2}) = Len(text) + 2
    BY <1>1 DEF Max
  <2> QED
    BY <1>2, <2>1, <2>2
<1>3. CASE reader = "fgetgrent_r" /\ e # None
  <2> DEFINE a == Len(s) + 1 + ArrayBytes(e.rest)
  <2>1. ArrayBytes(e.rest) \in Nat
    <3>1. e.rest \in Seq(Char)
      <4> HIDE DEF s
      <4> QED
        BY <1>1, <1>3, MembersText
    <3> QED
      BY <3>1, ArrayBytesType
  <2>2. Need(reader, text) = Max({Len(text) + 2, a})
    BY <1>3 DEF Need
  <2>3. a \in Nat
    <3> HIDE DEF s, e
    <3> QED
      BY <1>1, <2>1
  <2>4. Max({Len(text) + 2, a}) = IF Len(text) + 2 >= a THEN Len(text) + 2 ELSE a
    <3> HIDE DEF a
    <3> QED
      BY <1>1, <2>3, OfTwo, Zenon
  <2> QED
    BY <1>3, <2>1, <2>2, <2>4
<1> QED
  BY <1>2, <1>3

AtStart(f, p) == p = 1 \/ f[p - 1] = Newline

LEMMA UnitFacts ==
  ASSUME NEW reader, NEW f \in Seq(Char)
  PROVE  /\ Len(Units(reader, f)) = Len(f)
         /\ \A p \in 1..Len(f) :
              Units(reader, f)[p] = UnitAt(reader, f, p)
<1>1. Units(reader, f) = [p \in 1..Len(f) |-> UnitAt(reader, f, p)]
  BY DEF Units
<1> QED
  BY <1>1

(* Where a read stops, in terms of the text.                               *)
LEMMA StopsHere ==
  ASSUME NEW reader \in Readers, NEW f \in Seq(Char), NEW o, NEW size,
         NEW p \in 1..Len(f)
  PROVE  Data!Stops(Units(reader, f), o, size, p) <=>
           /\ p = o \/ AtStart(f, p)
           /\ \/ Entry(reader, Chomp(Rest(f, p))) # None
              \/ Need(reader, Rest(f, p)) > size
<1>1. /\ Len(Units(reader, f)) = Len(f)
      /\ Units(reader, f)[p] = UnitAt(reader, f, p)
  BY UnitFacts
<1>2. /\ UnitAt(reader, f, p).start <=> AtStart(f, p)
      /\ UnitAt(reader, f, p).ok <=> Entry(reader, Chomp(Rest(f, p))) # None
      /\ UnitAt(reader, f, p).need = Need(reader, Rest(f, p))
  BY DEF UnitAt, AtStart
<1> QED
  BY <1>1, <1>2 DEF Data!Stops

(***************************************************************************)
(* The invariant: while a call goes from line to line, a read of NssData   *)
(* that began at the same position has not stopped at any of them.         *)
(***************************************************************************)
Reaches(p) ==
  /\ p = begun \/ p = Len(file) + 1 \/ AtStart(file, p)
  /\ \A q \in begun..(p - 1) :
       ~Data!Stops(Units(call.reader, file), begun, call.size, q)

CTypeOK ==
  /\ file \in Files
  /\ pos \in 1..(Len(file) + 1)
  /\ call \in {None} \cup [reader : Readers, size : Sizes, base : Bases]

(* The line in the buffer is the one at p, and it fitted.                  *)
Holding(p) ==
  /\ line = Chomp(Rest(file, p))
  /\ pos = LineEnd(file, p) + 1
  /\ Len(Rest(file, p)) + 2 <= call.size
  /\ Reaches(p)

Searching ==
  call # None =>
    /\ begun \in 1..(Len(file) + 1)
    /\ line = None => begun <= pos /\ Reaches(pos)
    /\ line # None => \E p \in begun..Len(file) : Holding(p)

CInv == CTypeOK /\ Searching

(* ReadConforms, for one step.                                             *)
Conforms ==
  LET c == Units(call.reader, file) IN
  \E r \in Data!Read(c, begun, call.size) :
    /\ r.errno = result'.errno /\ r.pos = pos'
    /\ r.errno = "0" => /\ result'.entry.name = c[r.at].name
                        /\ result'.entry.id = c[r.at].id

LEMMA Typed ==
  ASSUME CTypeOK
  PROVE  /\ file \in Seq(Char)
         /\ Len(file) \in Nat
         /\ call # None =>
              /\ call \in [reader : Readers, size : Sizes, base : Bases]
              /\ call.reader \in Readers
              /\ call.size \in Nat /\ call.size >= 2
<1>1. file \in Seq(Char)
  BY CompatAssumption DEF CTypeOK
<1>2. Sizes \subseteq Nat \ {0, 1}
  BY CompatAssumption
<1>3. ASSUME call # None
      PROVE  /\ call \in [reader : Readers, size : Sizes, base : Bases]
             /\ call.reader \in Readers
             /\ call.size \in Nat /\ call.size >= 2
  <2>1. call \in [reader : Readers, size : Sizes, base : Bases]
    BY <1>3 DEF CTypeOK
  <2>2. call.reader \in Readers /\ call.size \in Sizes
    BY <2>1
  <2>3. call.size \in Nat /\ call.size \notin {0, 1}
    BY <1>2, <2>2
  <2>4. call.size >= 2
    BY <2>3
  <2> QED
    BY <2>1, <2>2, <2>3, <2>4
<1> QED
  BY <1>1, <1>3

(* A text is never taken for "no line".                                    *)
LEMMA TextIsALine ==
  ASSUME NEW s \in Seq(Char)
  PROVE  s # None
BY CompatAssumption

(* A read of NssData that passes all lines before p and stops at p has the *)
(* outcomes of p.                                                          *)
LEMMA ReadAt ==
  ASSUME CTypeOK, call # None, begun \in 1..(Len(file) + 1),
         NEW p \in begun..(Len(file) + 1), Reaches(p)
  PROVE  LET c == Units(call.reader, file)
             R == Data!Read(c, begun, call.size)
         IN /\ p = Len(file) + 1 =>
                 [errno |-> "ENOENT", at |-> p, pos |-> p] \in R
            /\ p <= Len(file) /\ Data!Stops(c, begun, call.size, p) =>
                 IF c[p].need <= call.size
                   THEN [errno |-> "0", at |-> p, pos |-> c[p].next] \in R
                   ELSE \A q \in (p + 1)..c[p].next :
                          [errno |-> "ERANGE", at |-> p, pos |-> q] \in R
<1> DEFINE c == Units(call.reader, file)
<1>1. Len(c) = Len(file) /\ Len(file) \in Nat
  BY Typed, UnitFacts
<1>2. ASSUME Data!Stops(c, begun, call.size, p)
      PROVE  p \in Data!StopsAt(c, begun, call.size)
  BY <1>1, <1>2 DEF Reaches, Data!StopsAt
<1>3. p = Len(file) + 1 => Data!Stops(c, begun, call.size, p)
  BY <1>1 DEF Data!Stops
<1> HIDE DEF c
<1>4. CASE p = Len(file) + 1
  <2>1. p \in Data!StopsAt(c, begun, call.size)
    BY <1>2, <1>3, <1>4
  <2> QED
    BY <1>1, <1>4, <2>1 DEF Data!Read, c
<1>5. CASE p <= Len(file) /\ Data!Stops(c, begun, call.size, p)
  <2>1. p \in Data!StopsAt(c, begun, call.size) /\ p # Len(c) + 1
    BY <1>1, <1>2, <1>5
  <2>2. CASE c[p].need <= call.size
    <3>1. [errno |-> "0", at |-> p, pos |-> c[p].next]
            \in Data!Read(c, begun, call.size)
      BY <2>1, <2>2 DEF Data!Read
    <3> QED
      BY <1>5, <2>2, <3>1 DEF c
  <2>3. CASE ~(c[p].need <= call.size)
    <3>1. \A q \in (p + 1)..c[p].next :
            [errno |-> "ERANGE", at |-> p, pos |-> q]
              \in Data!Read(c, begun, call.size)
      BY <2>1, <2>3 DEF Data!Read
    <3> QED
      BY <1>5, <2>3, <3>1 DEF c
  <2> QED
    BY <2>2, <2>3
<1> QED
  BY <1>4, <1>5 DEF c

(* The line at p, as the unit of NssData that Units has for it.            *)
LEMMA UnitAtLine ==
  ASSUME CTypeOK, call # None, NEW p \in 1..Len(file)
  PROVE  LET u == Units(call.reader, file)[p]
             e == Entry(call.reader, Chomp(Rest(file, p)))
         IN /\ u.need = Need(call.reader, Rest(file, p))
            /\ u.next = LineEnd(file, p) + 1
            /\ e # None => u.name = e.name /\ u.id = e.id
<1>1. Units(call.reader, file)[p] = UnitAt(call.reader, file, p)
  BY Typed, UnitFacts
<1> QED
  BY <1>1 DEF UnitAt

(* fgets finds the end of the file, a line that is too long, or a line.    *)
LEMMA FgetsConforms ==
  ASSUME CInv, Fgets
  PROVE  CInv' /\ (Returns => Conforms)
<1> USE DEF CInv
<1>1. /\ CTypeOK /\ Searching /\ call # None /\ line = None
      /\ file' = file /\ begun' = begun
  BY DEF Fgets
<1>2. /\ file \in Seq(Char) /\ Len(file) \in Nat
      /\ call.reader \in Readers /\ call.size \in Nat /\ call.size >= 2
  BY <1>1, Typed
<1>3. /\ begun \in 1..(Len(file) + 1) /\ pos \in begun..(Len(file) + 1)
      /\ pos \in 1..(Len(file) + 1) /\ Reaches(pos)
  BY <1>1 DEF Searching, CTypeOK
<1> DEFINE text == Rest(file, pos)
           c == Units(call.reader, file)
<1>4. CASE pos > Len(file) /\ Return("ENOENT", None) /\ UNCHANGED <<pos, line>>
  <2>1. pos = Len(file) + 1
    BY <1>2, <1>3, <1>4
  <2>2. [errno |-> "ENOENT", at |-> pos, pos |-> pos]
          \in Data!Read(c, begun, call.size)
    BY <1>1, <1>3, <2>1, ReadAt
  <2>3. result'.errno = "ENOENT" /\ pos' = pos /\ call' = None
    BY <1>4 DEF Return
  <2>4. Conforms
    BY <2>2, <2>3 DEF Conforms
  <2> QED
    BY <1>1, <1>3, <2>3, <2>4 DEF CTypeOK, Searching
<1>5. CASE /\ pos <= Len(file) /\ TooLong(text)
           /\ pos' = pos + call.size - 1
           /\ Return("ERANGE", None)
           /\ UNCHANGED line
  <2>1. pos \in 1..Len(file)
    BY <1>2, <1>3, <1>5
  <2>2. /\ LineEnd(file, pos) \in pos..Len(file)
        /\ Len(text) = LineEnd(file, pos) - pos + 1
        /\ text \in Seq(Char)
    BY <1>2, <2>1, LineFacts
  <2>3. Len(text) >= call.size - 1
    BY <1>5 DEF TooLong
  <2>4. Need(call.reader, text) > call.size
    <3>1. Need(call.reader, text) \in Nat /\ Need(call.reader, text) >= Len(text) + 2
      <4>1. Chomp(text) \in Seq(Char)
        BY <2>2, ChompType
      <4> HIDE DEF text
      <4> QED
        BY <2>2, <4>1, NeedFacts
    <3> QED
      BY <1>2, <2>2, <2>3, <3>1
  <2>5. c[pos].need > call.size /\ c[pos].next = LineEnd(file, pos) + 1
        /\ c[pos].need \in Int
    <3>1. /\ c[pos].need = Need(call.reader, text)
          /\ c[pos].next = LineEnd(file, pos) + 1
      BY <1>1, <2>1, UnitAtLine
    <3>2. Need(call.reader, text) \in Int
      BY <2>2, NeedFacts, ChompType
    <3> QED
      BY <2>4, <3>1, <3>2
  <2>6. Data!Stops(c, begun, call.size, pos)
    <3>1. pos = begun \/ AtStart(file, pos)
      BY <1>2, <1>3, <2>1 DEF Reaches
    <3> QED
      BY <1>2, <2>1, <2>4, <3>1, StopsHere
  <2>7. pos' \in (pos + 1)..c[pos].next
    BY <1>2, <1>5, <2>1, <2>2, <2>3, <2>5
  <2>8. [errno |-> "ERANGE", at |-> pos, pos |-> pos']
          \in Data!Read(c, begun, call.size)
    <3>1. ~(c[pos].need <= call.size)
      BY <1>2, <2>5
    <3>2. IF c[pos].need <= call.size
            THEN [errno |-> "0", at |-> pos, pos |-> c[pos].next]
                   \in Data!Read(c, begun, call.size)
            ELSE \A q \in (pos + 1)..c[pos].next :
                   [errno |-> "ERANGE", at |-> pos, pos |-> q]
                     \in Data!Read(c, begun, call.size)
      <4>1. pos <= Len(file)
        BY <1>2, <2>1
      <4> QED
        BY <1>1, <1>3, <2>6, <4>1, ReadAt
    <3> HIDE DEF c
    <3> QED
      BY <2>7, <3>1, <3>2
  <2>9. result'.errno = "ERANGE" /\ call' = None
    BY <1>5 DEF Return
  <2>10. Conforms
    BY <2>8, <2>9 DEF Conforms
  <2>11. pos' \in 1..(Len(file) + 1)
    BY <1>2, <2>1, <2>2, <2>5, <2>7
  <2> QED
    BY <1>1, <2>9, <2>10, <2>11 DEF CTypeOK, Searching
<1>6. CASE /\ pos <= Len(file) /\ ~TooLong(text)
           /\ pos' = pos + Min({Len(text), call.size - 1})
           /\ line' = Chomp(SubSeq(text, 1, Min({Len(text), call.size - 1})))
           /\ UNCHANGED <<call, result>>
  <2>1. pos \in 1..Len(file)
    BY <1>2, <1>3, <1>6
  <2>2. /\ LineEnd(file, pos) \in pos..Len(file)
        /\ Len(text) = LineEnd(file, pos) - pos + 1
        /\ text \in Seq(Char)
    BY <1>2, <2>1, LineFacts
  <2>3. Len(text) \in Nat /\ Len(text) < call.size - 1 /\ call.size - 1 \in Nat
    BY <1>2, <1>6, <2>1, <2>2 DEF TooLong
  <2>4. Min({Len(text), call.size - 1}) = Len(text)
    <3>1. Min({Len(text), call.size - 1}) =
            IF Len(text) <= call.size - 1 THEN Len(text) ELSE call.size - 1
      BY <2>3, OfTwo, Zenon
    <3> QED
      BY <1>2, <2>3, <3>1
  <2>5. SubSeq(text, 1, Len(text)) = text
    BY <2>2
  <2>6. line' = Chomp(text) /\ pos' = LineEnd(file, pos) + 1
    <3>1. /\ line' = Chomp(SubSeq(text, 1, Len(text)))
          /\ pos' = pos + Len(text)
      BY <1>6, <2>4
    <3>2. line' = Chomp(text)
      BY <2>5, <3>1
    <3> HIDE DEF text
    <3> QED
      BY <1>2, <2>1, <2>2, <3>1, <3>2
  <2>7. line' # None
    BY <2>2, <2>6, ChompType, TextIsALine
  <2>8. Len(text) + 2 <= call.size
    BY <1>2, <2>3
  <2>9. PICK p \in begun..Len(file) : p = pos
    BY <1>2, <1>3, <2>1
  <2>10. Holding(p)'
    <3>1. Reaches(p)'
      BY <1>1, <1>3, <1>6, <2>9 DEF Reaches
    <3> QED
      BY <1>1, <1>6, <2>6, <2>8, <2>9, <3>1 DEF Holding
  <2>11. pos' \in 1..(Len(file) + 1)
    BY <1>2, <2>1, <2>2, <2>6
  <2>12. CTypeOK'
    BY <1>1, <1>6, <2>11 DEF CTypeOK
  <2>13. Searching'
    BY <1>1, <1>3, <1>6, <2>7, <2>10 DEF Searching
  <2> QED
    BY <1>1, <1>6, <2>12, <2>13 DEF Returns
<1> QED
  BY <1>4, <1>5, <1>6 DEF Fgets

(* A line that does not parse is one at which no read stops, and so is     *)
(* every place inside it.                                                  *)
LEMMA SkipConforms ==
  ASSUME CInv, Skip
  PROVE  CInv' /\ ~Returns
<1>1. /\ CTypeOK /\ Searching /\ call # None /\ line # None
      /\ Entry(call.reader, line) = None
      /\ line' = None /\ UNCHANGED <<file, pos, call, begun, result>>
  BY DEF CInv, Skip
<1>2. /\ file \in Seq(Char) /\ Len(file) \in Nat
      /\ call.reader \in Readers /\ call.size \in Nat /\ call.size >= 2
  BY <1>1, Typed
<1>3. begun \in 1..(Len(file) + 1)
  BY <1>1 DEF Searching
<1>4. PICK p \in begun..Len(file) : Holding(p)
  BY <1>1 DEF Searching
<1>5. p \in 1..Len(file)
  BY <1>2, <1>3, <1>4
<1> DEFINE text == Rest(file, p)
           end == LineEnd(file, p)
<1>6. /\ end \in p..Len(file)
      /\ \A q \in p..(end - 1) : file[q] # Newline
      /\ end < Len(file) => file[end] = Newline
      /\ text \in Seq(Char) /\ Len(text) = end - p + 1
  BY <1>2, <1>5, LineFacts
<1>7. /\ line = Chomp(text) /\ pos = end + 1
      /\ Len(text) + 2 <= call.size /\ Reaches(p)
  BY <1>4 DEF Holding
<1>8. ~Data!Stops(Units(call.reader, file), begun, call.size, p)
  <2>1. Entry(call.reader, Chomp(text)) = None
    BY <1>1, <1>7
  <2>2. Need(call.reader, text) = Len(text) + 2
    <3>1. call.reader = "fgetgrent_r" => GroupEntry(Chomp(text)) = None
      BY <2>1 DEF Entry
    <3> QED
      BY <1>6, <3>1, NeedFacts
  <2>3. ~(Need(call.reader, text) > call.size)
    <3> HIDE DEF text, end
    <3> QED
      BY <1>2, <1>5, <1>6, <1>7, <2>2
  <2> QED
    BY <1>2, <1>5, <2>1, <2>3, StopsHere
<1>9. ASSUME NEW q \in (p + 1)..end
      PROVE  ~Data!Stops(Units(call.reader, file), begun, call.size, q)
  <2> HIDE DEF end
  <2>1. q \in 1..Len(file) /\ q # begun /\ q # 1 /\ q - 1 \in p..(end - 1)
    BY <1>2, <1>3, <1>4, <1>5, <1>6
  <2>2. ~AtStart(file, q)
    BY <1>6, <2>1 DEF AtStart
  <2> QED
    BY <1>2, <2>1, <2>2, StopsHere
<1>10. begun <= pos /\ Reaches(pos)
  <2> HIDE DEF end, text
  <2>1. pos = Len(file) + 1 \/ AtStart(file, pos)
    BY <1>2, <1>5, <1>6, <1>7 DEF AtStart
  <2>2. ASSUME NEW q \in begun..(pos - 1)
        PROVE  ~Data!Stops(Units(call.reader, file), begun, call.size, q)
    <3>1. q \in begun..(p - 1) \/ q = p \/ q \in (p + 1)..end
      BY <1>2, <1>3, <1>5, <1>6, <1>7
    <3> QED
      BY <1>7, <1>8, <1>9, <3>1 DEF Reaches
  <2>3. begun <= pos
    BY <1>2, <1>3, <1>4, <1>5, <1>6, <1>7
  <2> QED
    BY <2>1, <2>2, <2>3 DEF Reaches
<1>11. CTypeOK' /\ Searching'
  BY <1>1, <1>3, <1>10 DEF CTypeOK, Searching, Reaches
<1> QED
  BY <1>1, <1>11 DEF CInv, Returns

(* A line with an entry ends the read, with the entry or, if the pointers  *)
(* to the members do not fit, with ERANGE.                                 *)
LEMMA EntryConforms ==
  ASSUME CInv, fgetpwent_r \/ fgetgrent_r
  PROVE  CInv' /\ Conforms
<1>1. /\ CTypeOK /\ Searching /\ call # None /\ line # None
      /\ Entry(call.reader, line) # None
      /\ call' = None /\ UNCHANGED <<file, pos, line, begun>>
  BY DEF CInv, fgetpwent_r, fgetgrent_r, Return, Entry
<1>2. /\ file \in Seq(Char) /\ Len(file) \in Nat
      /\ call.reader \in Readers /\ call.size \in Nat /\ call.size >= 2
  BY <1>1, Typed
<1>3. begun \in 1..(Len(file) + 1)
  BY <1>1 DEF Searching
<1>4. PICK p \in begun..Len(file) : Holding(p)
  BY <1>1 DEF Searching
<1>5. p \in 1..Len(file) /\ p <= Len(file) /\ p \in begun..(Len(file) + 1)
  BY <1>2, <1>3, <1>4
<1> DEFINE text == Rest(file, p)
           end == LineEnd(file, p)
           c == Units(call.reader, file)
           e == Entry(call.reader, line)
<1>6. /\ end \in p..Len(file)
      /\ text \in Seq(Char) /\ Len(text) = end - p + 1
  BY <1>2, <1>5, LineFacts
<1>7. /\ line = Chomp(text) /\ pos = end + 1
      /\ Len(text) + 2 <= call.size /\ Reaches(p)
  BY <1>4 DEF Holding
<1>8. /\ c[p].need = Need(call.reader, text)
      /\ c[p].next = pos
      /\ c[p].name = e.name /\ c[p].id = e.id
  BY <1>1, <1>5, <1>7, UnitAtLine
<1>9. Data!Stops(c, begun, call.size, p)
  <2>1. p = begun \/ AtStart(file, p)
    BY <1>2, <1>5, <1>7 DEF Reaches
  <2> QED
    BY <1>1, <1>2, <1>5, <1>7, <2>1, StopsHere
<1>10. IF c[p].need <= call.size
         THEN [errno |-> "0", at |-> p, pos |-> c[p].next]
                \in Data!Read(c, begun, call.size)
         ELSE \A q \in (p + 1)..c[p].next :
                [errno |-> "ERANGE", at |-> p, pos |-> q]
                  \in Data!Read(c, begun, call.size)
  BY <1>1, <1>3, <1>5, <1>7, <1>9, ReadAt
<1>11. ASSUME c[p].need <= call.size, result'.errno = "0",
              result'.entry.name = e.name, result'.entry.id = e.id
       PROVE  Conforms
  <2> DEFINE r == [errno |-> "0", at |-> p, pos |-> c[p].next]
  <2>1. r \in Data!Read(c, begun, call.size)
    BY <1>10, <1>11
  <2>2. /\ r.errno = result'.errno /\ r.pos = pos'
        /\ result'.entry.name = c[r.at].name /\ result'.entry.id = c[r.at].id
    BY <1>1, <1>8, <1>11
  <2> HIDE DEF r
  <2> QED
    BY <2>1, <2>2 DEF Conforms
<1>12. ASSUME ~(c[p].need <= call.size), result'.errno = "ERANGE"
       PROVE  Conforms
  <2> DEFINE r == [errno |-> "ERANGE", at |-> p, pos |-> pos]
  <2>1. pos \in (p + 1)..c[p].next
    <3> HIDE DEF c, end, text
    <3> QED
      BY <1>2, <1>5, <1>6, <1>7, <1>8
  <2>2. r \in Data!Read(c, begun, call.size)
    BY <1>10, <1>12, <2>1
  <2>3. r.errno = result'.errno /\ r.pos = pos' /\ r.errno # "0"
    BY <1>1, <1>12
  <2> HIDE DEF r
  <2> QED
    BY <2>2, <2>3 DEF Conforms
<1>13. CASE fgetpwent_r
  <2>1. /\ call.reader = "fgetpwent_r" /\ e = PasswdEntry(line)
        /\ result' = [errno |-> "0", entry |-> e]
    BY <1>13 DEF fgetpwent_r, Return, Entry
  <2>2. c[p].need = Len(text) + 2
    BY <1>6, <1>8, <2>1, NeedFacts
  <2>3. c[p].need <= call.size
    BY <1>7, <2>2
  <2> QED
    BY <1>1, <1>11, <2>1, <2>3 DEF CInv, CTypeOK, Searching
<1>14. CASE fgetgrent_r
  <2>1. call.reader = "fgetgrent_r" /\ e = GroupEntry(line) /\ e # None
    BY <1>14 DEF fgetgrent_r, Entry
  <2> DEFINE array == ArrayBytes(e.rest)
             remain == call.size - (Len(line) + 1)
  <2>2. /\ array \in Nat
        /\ c[p].need = IF Len(text) + 2 >= Len(line) + 1 + array
                         THEN Len(text) + 2 ELSE Len(line) + 1 + array
    BY <1>6, <1>7, <1>8, <2>1, NeedFacts
  <2>3. Len(line) \in Nat /\ Len(text) \in Nat
    BY <1>6, <1>7, ChompType
  <2>4. c[p].need <= call.size <=> array <= remain
    <3> HIDE DEF array, c, text, e
    <3> QED
      BY <1>2, <1>7, <2>2, <2>3
  <2>5. CASE array > remain /\ Return("ERANGE", None)
    <3>1. ~(array <= remain)
      <4> HIDE DEF array
      <4> QED
        BY <1>2, <2>2, <2>3, <2>5
    <3>2. result'.errno = "ERANGE"
      BY <2>5 DEF Return
    <3> QED
      BY <1>1, <1>12, <2>4, <3>1, <3>2 DEF CInv, CTypeOK, Searching
  <2>6. CASE /\ array <= remain
             /\ \E members : Return("0", [name |-> e.name, id |-> e.id, gid |-> 0,
                                          rest |-> members])
    <3>1. /\ result'.errno = "0"
          /\ result'.entry.name = e.name /\ result'.entry.id = e.id
      BY <2>6 DEF Return
    <3> QED
      BY <1>1, <1>11, <2>4, <2>6, <3>1 DEF CInv, CTypeOK, Searching
  <2> QED
    BY <1>14, <2>1, <2>5, <2>6 DEF fgetgrent_r
<1> QED
  BY <1>13, <1>14

LEMMA InitCInv == Init => CInv
BY CompatAssumption DEF Init, CInv, CTypeOK, Searching

LEMMA StepCInv ==
  ASSUME CInv, [Next]_vars
  PROVE  CInv' /\ (Next /\ Returns => Conforms)
<1> USE DEF CInv
<1>1. file \in Seq(Char) /\ Len(file) \in Nat
  BY Typed
<1>2. ASSUME NEW r \in Readers, NEW size \in Sizes, NEW base \in Bases,
             Begin(r, size, base)
      PROVE  CInv' /\ ~Returns
  <2>1. /\ call = None /\ call' = [reader |-> r, size |-> size, base |-> base]
        /\ line' = None /\ begun' = pos /\ UNCHANGED <<file, pos>>
    BY <1>2 DEF Begin
  <2>2. call' \in [reader : Readers, size : Sizes, base : Bases]
    BY <2>1
  <2>3. CTypeOK'
    BY <2>1, <2>2 DEF CTypeOK
  <2>4. begun' \in 1..(Len(file') + 1) /\ begun' <= pos' /\ Reaches(pos)'
    BY <1>1, <2>1 DEF CTypeOK, Reaches
  <2> QED
    BY <2>1, <2>3, <2>4 DEF Searching, Returns
<1>3. ASSUME NEW p \in 1..(Len(file) + 1), Seek(p)
      PROVE  CInv' /\ ~Returns
  BY <1>3 DEF Seek, CTypeOK, Searching, Returns
<1>4. CASE UNCHANGED vars
  BY <1>4 DEF vars, CTypeOK, Searching, Holding, Reaches, Returns
<1> QED
  BY <1>2, <1>3, <1>4, FgetsConforms, SkipConforms, EntryConforms DEF Next

LEMMA Invariance == Spec => []CInv
<1>1. CInv /\ [Next]_vars => CInv'
  BY StepCInv
<1> QED
  BY InitCInv, <1>1, PTL DEF Spec

(***************************************************************************)
(* The loops around fgets in fgetpwent_r and fgetgrent_r implement Read of *)
(* NssData: the errno, the entry and the position of the stream are what   *)
(* every other module takes them to be, for every file, from every         *)
(* position and with every size of the buffer.                             *)
(***************************************************************************)
THEOREM ReadersConform == Spec => ReadConforms
<1>1. CInv /\ [Next]_vars => [Returns => Conforms]_vars
  BY StepCInv
<1> QED
  BY Invariance, <1>1, PTL DEF Spec, ReadConforms, Conforms

-----------------------------------------------------------------------------
(***************************************************************************)
(* Marks and fields.                                                       *)
(***************************************************************************)

LEMMA CountFacts ==
  ASSUME NEW s, NEW c
  PROVE  /\ Count(s, c, 0) = 0
         /\ \A i \in Nat : Count(s, c, i) \in Nat
         /\ \A i \in Nat \ {0} :
              Count(s, c, i) = Count(s, c, i - 1) + IF s[i] = c THEN 1 ELSE 0
<1> DEFINE M(i) == {j \in 1..i : s[j] = c}
<1>1. ASSUME NEW i \in Nat
      PROVE  IsFiniteSet(M(i)) /\ Cardinality(M(i)) \in Nat
  <2>1. IsFiniteSet(1..i)
    BY FS_Interval
  <2>2. M(i) \subseteq 1..i
    OBVIOUS
  <2> HIDE DEF M
  <2> QED
    BY <2>1, <2>2, FS_Subset, FS_CardinalityType
<1>2. Cardinality(M(0)) = 0
  <2>1. M(0) = {}
    OBVIOUS
  <2> QED
    BY <2>1, FS_EmptySet
<1>3. ASSUME NEW i \in Nat \ {0}
      PROVE  Cardinality(M(i)) = Cardinality(M(i - 1)) + IF s[i] = c THEN 1 ELSE 0
  <2>1. i - 1 \in Nat
    OBVIOUS
  <2>2. IsFiniteSet(M(i - 1)) /\ Cardinality(M(i - 1)) \in Nat
    BY <1>1, <2>1
  <2>3. CASE s[i] = c
    <3>1. M(i) = M(i - 1) \cup {i} /\ i \notin M(i - 1)
      BY <2>3
    <3> HIDE DEF M
    <3>2. Cardinality(M(i - 1) \cup {i}) = Cardinality(M(i - 1)) + 1
      BY <2>2, <3>1, FS_AddElement
    <3> QED
      BY <2>3, <3>1, <3>2
  <2>4. CASE s[i] # c
    <3>1. M(i) = M(i - 1)
      BY <2>4
    <3> HIDE DEF M
    <3> QED
      BY <2>2, <2>4, <3>1
  <2> QED
    BY <2>3, <2>4
<1> QED
  BY <1>1, <1>2, <1>3 DEF Count

LEMMA CountMonotone ==
  ASSUME NEW s, NEW c, NEW i \in Nat, NEW j \in Nat, i <= j
  PROVE  Count(s, c, i) <= Count(s, c, j)
<1>1. IsFiniteSet({q \in 1..j : s[q] = c})
  <2>1. IsFiniteSet(1..j)
    BY FS_Interval
  <2> QED
    BY <2>1, FS_Subset
<1>2. {q \in 1..i : s[q] = c} \subseteq {q \in 1..j : s[q] = c}
  OBVIOUS
<1> QED
  BY <1>1, <1>2, FS_Subset DEF Count

(* Up to the next mark the count stays; at the mark it is one more.        *)
LEMMA CountToMark ==
  ASSUME NEW s, NEW c, NEW a \in Nat, NEW b \in Nat, a <= b,
         \A q \in (a + 1)..b : s[q] # c
  PROVE  Count(s, c, b) = Count(s, c, a)
<1>1. {q \in 1..b : s[q] = c} = {q \in 1..a : s[q] = c}
  OBVIOUS
<1> QED
  BY <1>1 DEF Count

LEMMA IntervalBounds ==
  ASSUME NEW a \in Nat, NEW b \in Nat, a <= b
  PROVE  Min(a..b) = a /\ Max(a..b) = b
<1>1. \E x \in a..b : \A y \in a..b : x <= y
  <2>1. a \in a..b /\ \A y \in a..b : a <= y
    OBVIOUS
  <2> QED
    BY <2>1
<1>2. \E x \in a..b : \A y \in a..b : x >= y
  <2>1. b \in a..b /\ \A y \in a..b : b >= y
    OBVIOUS
  <2> QED
    BY <2>1
<1>3. Min(a..b) \in a..b /\ \A y \in a..b : Min(a..b) <= y
  BY <1>1 DEF Min
<1>4. Max(a..b) \in a..b /\ \A y \in a..b : Max(a..b) >= y
  BY <1>2 DEF Max
<1>5. a \in a..b /\ b \in a..b
  OBVIOUS
<1>6. Min(a..b) = a
  BY <1>3, <1>5
<1>7. Max(a..b) = b
  BY <1>4, <1>5
<1> QED
  BY <1>6, <1>7

(* What stands between two marks, with k - 1 marks before it, is field k.  *)
LEMMA FieldBetween ==
  ASSUME NEW s \in Seq(Char), NEW c, NEW k \in Nat,
         NEW a \in 0..Len(s), NEW b \in (a + 1)..(Len(s) + 1),
         a = 0 \/ s[a] = c, b = Len(s) + 1 \/ s[b] = c,
         \A q \in (a + 1)..(b - 1) : s[q] # c,
         Count(s, c, a) = k - 1
  PROVE  FieldOf(s, c, k) = SubSeq(s, a + 1, b - 1)
<1> DEFINE inside == {i \in DOMAIN s : s[i] # c /\ Count(s, c, i) = k - 1}
<1>1. a \in Nat /\ b \in Nat /\ Len(s) \in Nat /\ DOMAIN s = 1..Len(s)
  OBVIOUS
<1>2. ASSUME NEW i \in (a + 1)..(b - 1)
      PROVE  i \in inside
  <2>1. i \in Nat /\ a <= i /\ \A q \in (a + 1)..i : s[q] # c
    BY <1>1
  <2>2. Count(s, c, i) = Count(s, c, a)
    BY <1>1, <2>1, CountToMark
  <2>3. i \in (a + 1)..i /\ i \in DOMAIN s
    BY <1>1
  <2> QED
    BY <2>1, <2>2, <2>3
<1>3. ASSUME NEW i \in inside
      PROVE  i \in (a + 1)..(b - 1)
  <2>1. i \in 1..Len(s) /\ s[i] # c /\ Count(s, c, i) = k - 1
    OBVIOUS
  <2>2. CASE i <= a
    <3>1. a \in Nat \ {0} /\ s[a] = c /\ i <= a - 1 /\ a - 1 \in Nat
      BY <1>1, <2>1, <2>2
    <3>2. Count(s, c, a) = Count(s, c, a - 1) + 1
      BY <3>1, CountFacts
    <3>3. Count(s, c, i) <= Count(s, c, a - 1)
      BY <2>1, <3>1, CountMonotone
    <3>4. Count(s, c, a - 1) \in Nat
      BY <3>1, CountFacts
    <3> QED
      BY <2>1, <3>2, <3>3, <3>4
  <2>3. CASE i >= b
    <3>1. b \in Nat \ {0} /\ s[b] = c /\ b - 1 \in Nat /\ a <= b - 1
      BY <1>1, <2>1, <2>3
    <3>2. Count(s, c, b) = Count(s, c, b - 1) + 1
      BY <3>1, CountFacts
    <3>3. Count(s, c, a) <= Count(s, c, b - 1)
      BY <1>1, <3>1, CountMonotone
    <3>4. Count(s, c, b) <= Count(s, c, i)
      BY <1>1, <2>1, <2>3, CountMonotone
    <3>5. Count(s, c, b - 1) \in Nat /\ Count(s, c, b) \in Nat
      BY <1>1, <3>1, CountFacts
    <3> QED
      BY <2>1, <3>2, <3>3, <3>4, <3>5
  <2> QED
    BY <1>1, <2>1, <2>2, <2>3
<1>4. inside = (a + 1)..(b - 1)
  <2> HIDE DEF inside
  <2> QED
    BY <1>2, <1>3
<1>5. FieldOf(s, c, k) = IF inside = {} THEN <<>>
                         ELSE SubSeq(s, Min(inside), Max(inside))
  BY DEF FieldOf
<1> HIDE DEF inside
<1>6. CASE a + 1 <= b - 1
  <2>1. Min(inside) = a + 1 /\ Max(inside) = b - 1
    BY <1>1, <1>4, <1>6, IntervalBounds
  <2>2. inside # {}
    <3>1. a + 1 \in (a + 1)..(b - 1)
      BY <1>1, <1>6
    <3> QED
      BY <1>4, <3>1
  <2> QED
    BY <1>5, <2>1, <2>2
<1>7. CASE ~(a + 1 <= b - 1)
  <2>1. inside = {}
    BY <1>1, <1>4, <1>7
  <2>2. SubSeq(s, a + 1, b - 1) = <<>>
    BY <1>1, <1>7
  <2> QED
    BY <1>5, <2>1, <2>2
<1> QED
  BY <1>6, <1>7

(* From the kth mark (or the beginning) to the next, if b is where a       *)
(* search that begins behind the mark stops.                               *)
NextMarkFacts(s, c, k, a, b) ==
  /\ b \in (a + 1)..(Len(s) + 1)
  /\ b <= Len(s) => s[b] = c /\ Count(s, c, b) = k + 1
  /\ b <= Len(s) <=> Count(s, c, Len(s)) >= k + 1
  /\ \A q \in (a + 1)..(b - 1) : s[q] # c
  /\ FieldOf(s, c, k + 1) = SubSeq(s, a + 1, b - 1)

LEMMA MarkToMark ==
  ASSUME NEW s \in Seq(Char), NEW c, NEW k \in Nat, NEW a \in 0..Len(s),
         a = 0 \/ s[a] = c, Count(s, c, a) = k,
         NEW b \in (a + 1)..(Len(s) + 1),
         b <= Len(s) => s[b] = c,
         \A q \in (a + 1)..(b - 1) : s[q] # c
  PROVE  NextMarkFacts(s, c, k, a, b)
<1>1. a \in Nat /\ b \in Nat \ {0} /\ Len(s) \in Nat /\ b - 1 \in Nat /\ a <= b - 1
  OBVIOUS
<1>2. Count(s, c, b - 1) = k
  BY <1>1, CountToMark
<1>3. b <= Len(s) => Count(s, c, b) = k + 1
  <2>1. Count(s, c, b) = Count(s, c, b - 1) + IF s[b] = c THEN 1 ELSE 0
    BY <1>1, CountFacts
  <2> QED
    BY <1>2, <2>1
<1>4. b <= Len(s) <=> Count(s, c, Len(s)) >= k + 1
  <2>1. CASE b <= Len(s)
    <3>1. Count(s, c, b) <= Count(s, c, Len(s))
      BY <1>1, <2>1, CountMonotone
    <3>2. Count(s, c, Len(s)) \in Nat
      BY <1>1, CountFacts
    <3> QED
      BY <1>3, <2>1, <3>1, <3>2
  <2>2. CASE ~(b <= Len(s))
    <3>1. b - 1 = Len(s)
      BY <1>1, <2>2
    <3>2. Count(s, c, Len(s)) = k
      BY <1>2, <3>1
    <3> QED
      BY <2>2, <3>2
  <2> QED
    BY <2>1, <2>2
<1>5. FieldOf(s, c, k + 1) = SubSeq(s, a + 1, b - 1)
  <2>1. k + 1 \in Nat /\ Count(s, c, a) = (k + 1) - 1
    OBVIOUS
  <2>2. b = Len(s) + 1 \/ s[b] = c
    BY <1>1
  <2> QED
    BY <2>1, <2>2, FieldBetween
<1> QED
  BY <1>3, <1>4, <1>5 DEF NextMarkFacts

(* So it is where Find stops.                                              *)
LEMMA NextMark ==
  ASSUME NEW s \in Seq(Char), NEW c, NEW k \in Nat, NEW a \in 0..Len(s),
         a = 0 \/ s[a] = c, Count(s, c, a) = k
  PROVE  NextMarkFacts(s, c, k, a, Find(s, a + 1, {c}))
<1> DEFINE b == Find(s, a + 1, {c})
<1>1. a \in Nat /\ Len(s) \in Nat /\ a + 1 \in Nat \ {0} /\ a + 1 <= Len(s) + 1
  OBVIOUS
<1>2. /\ b \in Nat /\ a + 1 <= b /\ b <= Len(s) + 1
      /\ b <= Len(s) => s[b] \in {c}
      /\ \A q \in (a + 1)..(b - 1) : q <= Len(s) => s[q] \notin {c}
  BY <1>1, FindFacts
<1> HIDE DEF b
<1>3. b \in (a + 1)..(Len(s) + 1)
  BY <1>1, <1>2
<1>4. b <= Len(s) => s[b] = c
  BY <1>2
<1>5. \A q \in (a + 1)..(b - 1) : s[q] # c
  BY <1>1, <1>2
<1>6. NextMarkFacts(s, c, k, a, b)
  BY <1>3, <1>4, <1>5, MarkToMark
<1> QED
  BY <1>6 DEF b

(* A field that atou reads to its end is one of digits only.               *)
NextNumberFacts(s, k, b, n) ==
  /\ (n <= Len(s) /\ s[n] = Colon) <=>
       (b <= Len(s) /\ \A i \in DOMAIN FieldOf(s, Colon, k + 1) :
                         FieldOf(s, Colon, k + 1)[i] \in Digits)
  /\ n <= Len(s) /\ s[n] = Colon => n = b

LEMMA NumberToMark ==
  ASSUME NEW s \in Seq(Char), NEW a \in 0..Len(s),
         NEW b \in (a + 1)..(Len(s) + 1), NEW n \in (a + 1)..(Len(s) + 1),
         b <= Len(s) => s[b] = Colon,
         \A q \in (a + 1)..(b - 1) : s[q] # Colon,
         n <= Len(s) => s[n] \notin Digits,
         \A q \in (a + 1)..(n - 1) : s[q] \in Digits
  PROVE  LET number == SubSeq(s, a + 1, b - 1) IN
         /\ (n <= Len(s) /\ s[n] = Colon) <=>
              (b <= Len(s) /\ \A i \in DOMAIN number : number[i] \in Digits)
         /\ n <= Len(s) /\ s[n] = Colon => n = b
<1>1. a \in Nat /\ b \in Nat /\ n \in Nat /\ Len(s) \in Nat /\ a < b /\ a < n
  OBVIOUS
<1>2. Colon \notin Digits
  BY DEF Colon, Digits
<1>3. n <= Len(s) /\ s[n] = Colon => n = b
  <2>1. n < b => s[n] # Colon
    BY <1>1
  <2>2. b < n => s[b] \in Digits /\ b <= Len(s)
    BY <1>1
  <2> QED
    BY <1>1, <1>2, <2>1, <2>2
<1> DEFINE number == SubSeq(s, a + 1, b - 1)
<1>4. (\A i \in DOMAIN number : number[i] \in Digits) <=>
        \A q \in (a + 1)..(b - 1) : s[q] \in Digits
  <2>1. /\ Len(number) = (b - 1) - a /\ DOMAIN number = 1..((b - 1) - a)
        /\ \A i \in 1..((b - 1) - a) : number[i] = s[a + i]
    BY <1>1
  <2> HIDE DEF number
  <2>2. \A q \in (a + 1)..(b - 1) : q - a \in 1..((b - 1) - a) /\ a + (q - a) = q
    BY <1>1
  <2>3. \A i \in 1..((b - 1) - a) : a + i \in (a + 1)..(b - 1)
    BY <1>1
  <2> QED
    BY <2>1, <2>2, <2>3
<1>5. (n <= Len(s) /\ s[n] = Colon) <=>
        (b <= Len(s) /\ \A q \in (a + 1)..(b - 1) : s[q] \in Digits)
  <2>1. ASSUME n <= Len(s), s[n] = Colon
        PROVE  b <= Len(s) /\ \A q \in (a + 1)..(b - 1) : s[q] \in Digits
    BY <1>3, <2>1
  <2>2. ASSUME b <= Len(s), \A q \in (a + 1)..(b - 1) : s[q] \in Digits
        PROVE  n <= Len(s) /\ s[n] = Colon
    <3>1. ~(n < b)
      BY <1>1, <2>2
    <3>2. ~(b < n)
      BY <1>1, <1>2, <2>2
    <3>3. n = b
      BY <1>1, <3>1, <3>2
    <3> QED
      BY <2>2, <3>3
  <2> QED
    BY <2>1, <2>2
<1> HIDE DEF number
<1>6. /\ (n <= Len(s) /\ s[n] = Colon) <=>
           (b <= Len(s) /\ \A i \in DOMAIN number : number[i] \in Digits)
      /\ n <= Len(s) /\ s[n] = Colon => n = b
  BY <1>3, <1>4, <1>5
<1> QED
  BY <1>6 DEF number

LEMMA NextNumber ==
  ASSUME NEW s \in Seq(Char), NEW k \in Nat, NEW a \in 0..Len(s),
         a = 0 \/ s[a] = Colon, Count(s, Colon, a) = k
  PROVE  NextNumberFacts(s, k, Find(s, a + 1, {Colon}), Find(s, a + 1, Char \ Digits))
<1> DEFINE b == Find(s, a + 1, {Colon})
           n == Find(s, a + 1, Char \ Digits)
<1>1. a \in Nat /\ Len(s) \in Nat /\ a + 1 \in Nat \ {0} /\ a + 1 <= Len(s) + 1
  OBVIOUS
<1>2. NextMarkFacts(s, Colon, k, a, b)
  BY NextMark
<1>3. /\ n \in Nat /\ a + 1 <= n /\ n <= Len(s) + 1
      /\ n <= Len(s) => s[n] \in Char \ Digits
      /\ \A q \in (a + 1)..(n - 1) : q <= Len(s) => s[q] \notin Char \ Digits
  BY <1>1, FindFacts
<1> HIDE DEF b, n
<1>4. /\ b \in (a + 1)..(Len(s) + 1)
      /\ b <= Len(s) => s[b] = Colon
      /\ \A q \in (a + 1)..(b - 1) : s[q] # Colon
      /\ FieldOf(s, Colon, k + 1) = SubSeq(s, a + 1, b - 1)
  BY <1>2 DEF NextMarkFacts
<1>5. n \in (a + 1)..(Len(s) + 1) /\ (n <= Len(s) => s[n] \notin Digits)
  BY <1>1, <1>3
<1>6. \A q \in (a + 1)..(n - 1) : s[q] \in Digits
  BY <1>1, <1>3
<1> DEFINE number == SubSeq(s, a + 1, b - 1)
<1>7. /\ (n <= Len(s) /\ s[n] = Colon) <=>
           (b <= Len(s) /\ \A i \in DOMAIN number : number[i] \in Digits)
      /\ n <= Len(s) /\ s[n] = Colon => n = b
  BY <1>4, <1>5, <1>6, NumberToMark
<1> HIDE DEF number
<1>8. FieldOf(s, Colon, k + 1) = number
  BY <1>4 DEF number
<1>9. NextNumberFacts(s, k, b, n)
  BY <1>7, <1>8 DEF NextNumberFacts
<1> QED
  BY <1>9 DEF b, n

(* The first colon behind the first character is the first of all.         *)
LEMMA FirstMark ==
  ASSUME NEW s \in Seq(Char), s # <<>>, s[1] # Colon
  PROVE  Find(s, 2, {Colon}) = Find(s, 1, {Colon})
<1> DEFINE i == Find(s, 1, {Colon})
           j == Find(s, 2, {Colon})
<1>1. Len(s) \in Nat /\ Len(s) >= 1 /\ 1 \in Nat \ {0} /\ 2 \in Nat \ {0}
  OBVIOUS
<1>2. /\ i \in Nat /\ 1 <= i /\ i <= Len(s) + 1
      /\ i <= Len(s) => s[i] \in {Colon}
      /\ \A q \in 1..(i - 1) : q <= Len(s) => s[q] \notin {Colon}
  BY <1>1, FindFacts
<1>3. /\ j \in Nat /\ 2 <= j /\ j <= Len(s) + 1
      /\ j <= Len(s) => s[j] \in {Colon}
      /\ \A q \in 2..(j - 1) : q <= Len(s) => s[q] \notin {Colon}
  BY <1>1, FindFacts
<1> HIDE DEF i, j
<1>4. ~(i < j)
  BY <1>1, <1>2, <1>3
<1>5. ~(j < i)
  BY <1>1, <1>2, <1>3
<1> QED
  BY <1>2, <1>3, <1>4, <1>5 DEF i, j

-----------------------------------------------------------------------------
(***************************************************************************)
(* Numbers: what atou computes, digit by digit in the width of unsigned,   *)
(* is the number of all the digits, modulo that width.                     *)
(***************************************************************************)

LEMMA Remainder ==
  ASSUME NEW m \in Nat \ {0}, NEW q \in Int, NEW r \in 0..(m - 1)
  PROVE  (m * q + r) % m = r
OBVIOUS

LEMMA RemainderOfSum ==
  ASSUME NEW m \in Nat \ {0}, NEW x \in Nat, NEW e \in Nat
  PROVE  (10 * (x % m) + e) % m = (10 * x + e) % m
<1> DEFINE q == x \div m
           r == x % m
           y == 10 * r + e
<1>1. q \in Int /\ r \in Nat /\ x = m * q + r /\ y \in Nat
  OBVIOUS
<1>2. /\ y \div m \in Int /\ y % m \in 0..(m - 1)
      /\ y = m * (y \div m) + (y % m)
  <2> HIDE DEF y
  <2> QED
    BY <1>1
<1>3. 10 * x + e = m * (10 * q + y \div m) + (y % m)
  <2>1. 10 * x + e = 10 * (m * q) + y
    BY <1>1
  <2> DEFINE d == y \div m
             t == y % m
  <2>2. d \in Int /\ t \in Int /\ y = m * d + t
    BY <1>2
  <2> HIDE DEF q, y, r, d, t
  <2>3. 10 * (m * q) + (m * d + t) = m * (10 * q + d) + t
    BY <1>1, <2>2
  <2> QED
    BY <2>1, <2>2, <2>3 DEF d, t
<1> DEFINE z == 10 * q + y \div m
<1>4. z \in Int
  BY <1>1, <1>2
<1>5. (10 * x + e) % m = y % m
  <2> HIDE DEF z, y
  <2> QED
    BY <1>2, <1>3, <1>4, Remainder DEF z
<1> QED
  BY <1>5

(* The greatest element of an interval, and of a set that reaches beyond   *)
(* it.                                                                     *)
LEMMA GreatestOf ==
  ASSUME NEW k \in Nat, NEW S \in SUBSET (1..(k + 1)), ~(S \subseteq 1..k)
  PROVE  Max(S) = k + 1 /\ S \ {Max(S)} \subseteq 1..k
<1>1. k + 1 \in S /\ \A y \in S : k + 1 >= y
  OBVIOUS
<1>2. Max(S) \in S /\ \A y \in S : Max(S) >= y
  BY <1>1 DEF Max
<1>3. Max(S) = k + 1
  <2>1. Max(S) \in 1..(k + 1) /\ Max(S) >= k + 1
    BY <1>1, <1>2
  <2> QED
    BY <2>1
<1> QED
  BY <1>3

(* The recursion of a fold over a sequence has a solution: F is the        *)
(* operation.                                                              *)
FoldsTo(F, s, n, g) ==
  /\ g \in [SUBSET (1..n) -> Int]
  /\ g = [S \in SUBSET (1..n) |->
            IF S = {} THEN 0 ELSE F[<<g[S \ {Max(S)}], s[Max(S)]>>]]

LEMMA FoldExists ==
  ASSUME NEW F \in [Int \X Int -> Int], NEW s, NEW n \in Nat,
         \A i \in 1..n : s[i] \in Int
  PROVE  \E g : FoldsTo(F, s, n, g)
<1> DEFINE Bad == {k \in 0..n : ~ \E g : FoldsTo(F, s, k, g)}
<1>1. SUFFICES ASSUME Bad # {} PROVE FALSE
  OBVIOUS
<1>2. PICK k \in Bad : \A j \in Bad : k <= j
  <2> HIDE DEF Bad
  <2>1. Bad \in SUBSET Nat
    BY DEF Bad
  <2> QED
    BY <1>1, <2>1, LeastNatural
<1>3. k # 0
  <2> DEFINE g == [S \in SUBSET (1..0) |-> 0]
  <2>1. \A S \in SUBSET (1..0) : S = {}
    OBVIOUS
  <2>2. g \in [SUBSET (1..0) -> Int]
    OBVIOUS
  <2>3. FoldsTo(F, s, 0, g)
    BY <2>1, <2>2 DEF FoldsTo
  <2> HIDE DEF g
  <2> QED
    BY <2>3
<1>4. k - 1 \in 0..n /\ k - 1 \notin Bad
  BY <1>2, <1>3
<1>5. PICK h : FoldsTo(F, s, k - 1, h)
  BY <1>4
<1> DEFINE j == k - 1
           g == [S \in SUBSET (1..k) |->
                   IF S \subseteq 1..j THEN h[S]
                   ELSE F[<<h[S \ {Max(S)}], s[Max(S)]>>]]
<1>6. j \in Nat /\ k = j + 1 /\ k \in 1..n
  BY <1>2, <1>4
<1> HIDE DEF j
<1>7. ASSUME NEW S \in SUBSET (1..k)
      PROVE  g[S] = IF S = {} THEN 0 ELSE F[<<g[S \ {Max(S)}], s[Max(S)]>>]
  <2>1. CASE S = {}
    <3>1. S \subseteq 1..j /\ S \in SUBSET (1..j)
      BY <2>1
    <3>2. g[S] = h[S]
      BY <3>1
    <3>3. h[S] = 0
      BY <1>5, <2>1, <3>1 DEF FoldsTo, j
    <3> QED
      BY <2>1, <3>2, <3>3
  <2>2. CASE S # {} /\ S \subseteq 1..j
    <3>1. S \in SUBSET (1..j) /\ S \ {Max(S)} \in SUBSET (1..j)
          /\ S \ {Max(S)} \in SUBSET (1..k)
      BY <1>6, <2>2
    <3>2. g[S] = h[S] /\ g[S \ {Max(S)}] = h[S \ {Max(S)}]
      BY <3>1
    <3>3. h[S] = F[<<h[S \ {Max(S)}], s[Max(S)]>>]
      BY <1>5, <2>2, <3>1 DEF FoldsTo, j
    <3> QED
      BY <2>2, <3>2, <3>3
  <2>3. CASE ~(S \subseteq 1..j)
    <3>1. S \ {Max(S)} \in SUBSET (1..j)
      BY <1>6, <2>3, GreatestOf
    <3>2. S \ {Max(S)} \in SUBSET (1..k)
      BY <1>6, <3>1
    <3>3. g[S \ {Max(S)}] = h[S \ {Max(S)}]
      BY <3>1, <3>2
    <3>4. S # {} /\ g[S] = F[<<h[S \ {Max(S)}], s[Max(S)]>>]
      BY <2>3
    <3> QED
      BY <2>3, <3>3, <3>4
  <2> QED
    BY <2>1, <2>2, <2>3
<1>8. FoldsTo(F, s, k, g)
  <2>1. g = [S \in SUBSET (1..k) |-> g[S]]
    OBVIOUS
  <2>2. ASSUME NEW S \in SUBSET (1..k)
        PROVE  g[S] \in Int
    <3>1. CASE S \subseteq 1..j
      <4>1. S \in SUBSET (1..j) /\ g[S] = h[S]
        BY <3>1
      <4> QED
        BY <1>5, <4>1 DEF FoldsTo, j
    <3>2. CASE ~(S \subseteq 1..j)
      <4>1. Max(S) = k /\ S \ {Max(S)} \in SUBSET (1..j)
        BY <1>6, <3>2, GreatestOf
      <4>2. h[S \ {Max(S)}] \in Int /\ s[Max(S)] \in Int
        BY <1>5, <1>6, <4>1 DEF FoldsTo, j
      <4>3. g[S] = F[<<h[S \ {Max(S)}], s[Max(S)]>>]
        BY <3>2
      <4> HIDE DEF g
      <4> QED
        BY <4>2, <4>3
    <3> QED
      BY <3>1, <3>2
  <2> HIDE DEF g
  <2>3. g \in [SUBSET (1..k) -> Int]
    BY <2>1, <2>2
  <2> QED
    BY <1>7, <2>1, <2>3 DEF FoldsTo
<1> HIDE DEF g
<1> QED
  BY <1>2, <1>8

LEMMA GreatestOfSome ==
  ASSUME NEW n \in Nat, NEW S \in SUBSET (1..n), S # {}
  PROVE  Max(S) \in S
<1> DEFINE T == {n - x : x \in S}
<1>1. T \in SUBSET Nat /\ T # {}
  <2>1. \A x \in S : n - x \in Nat
    OBVIOUS
  <2> QED
    BY <2>1
<1>2. PICK t \in T : \A u \in T : t <= u
  <2> HIDE DEF T
  <2> QED
    BY <1>1, LeastNatural
<1>3. PICK x \in S : t = n - x
  OBVIOUS
<1>4. \A y \in S : x >= y
  <2>1. ASSUME NEW y \in S PROVE x >= y
    <3>1. n - y \in T
      OBVIOUS
    <3> QED
      BY <1>2, <1>3, <3>1
  <2> QED
    BY <2>1
<1> QED
  BY <1>4 DEF Max

(* The recursion of a fold that puts one more digit behind a number, and   *)
(* its solution.                                                           *)
DigitFold(s, g) ==
  g = [S \in SUBSET (DOMAIN s) |->
         IF S = {} THEN 0 ELSE 10 * g[S \ {Max(S)}] + (s[Max(S)] - 48)]

DigitFoldModulo(s, m, g) ==
  g = [S \in SUBSET (DOMAIN s) |->
         IF S = {} THEN 0 ELSE (10 * g[S \ {Max(S)}] + (s[Max(S)] - 48)) % m]

LEMMA DigitFolds ==
  ASSUME NEW s \in Seq(Digits), NEW m \in Nat \ {0}
  PROVE  (\E g : DigitFold(s, g)) /\ (\E g : DigitFoldModulo(s, m, g))
<1> DEFINE F == [p \in Int \X Int |-> 10 * p[1] + (p[2] - 48)]
           G == [p \in Int \X Int |-> (10 * p[1] + (p[2] - 48)) % m]
<1>1. F \in [Int \X Int -> Int] /\ G \in [Int \X Int -> Int]
  OBVIOUS
<1>2. \A x, d \in Int : /\ F[<<x, d>>] = 10 * x + (d - 48)
                        /\ G[<<x, d>>] = (10 * x + (d - 48)) % m
  OBVIOUS
<1>3. Len(s) \in Nat /\ DOMAIN s = 1..Len(s) /\ \A i \in 1..Len(s) : s[i] \in Int
  BY DEF Digits
<1> HIDE DEF F, G
<1>4. PICK f : FoldsTo(F, s, Len(s), f)
  BY <1>1, <1>3, FoldExists
<1>5. PICK g : FoldsTo(G, s, Len(s), g)
  BY <1>1, <1>3, FoldExists
<1>6. ASSUME NEW S \in SUBSET (1..Len(s)), S # {}
      PROVE  s[Max(S)] \in Int /\ S \ {Max(S)} \in SUBSET (1..Len(s))
  <2>1. Max(S) \in S
    BY <1>3, <1>6, GreatestOfSome
  <2> QED
    BY <1>3, <2>1
<1>7. DigitFold(s, f)
  <2>1. \A S \in SUBSET (1..Len(s)) :
          f[S] = IF S = {} THEN 0 ELSE 10 * f[S \ {Max(S)}] + (s[Max(S)] - 48)
    <3> SUFFICES ASSUME NEW S \in SUBSET (1..Len(s))
                 PROVE  f[S] = IF S = {} THEN 0 ELSE 10 * f[S \ {Max(S)}] + (s[Max(S)] - 48)
      OBVIOUS
    <3>1. f[S] = IF S = {} THEN 0 ELSE F[<<f[S \ {Max(S)}], s[Max(S)]>>]
      BY <1>4 DEF FoldsTo
    <3>2. S # {} => f[S \ {Max(S)}] \in Int /\ s[Max(S)] \in Int
      BY <1>4, <1>6 DEF FoldsTo
    <3> QED
      BY <1>2, <3>1, <3>2
  <2>2. f = [S \in SUBSET (1..Len(s)) |-> f[S]]
    BY <1>4 DEF FoldsTo
  <2> QED
    BY <1>3, <2>1, <2>2 DEF DigitFold
<1>8. DigitFoldModulo(s, m, g)
  <2>1. \A S \in SUBSET (1..Len(s)) :
          g[S] = IF S = {} THEN 0 ELSE (10 * g[S \ {Max(S)}] + (s[Max(S)] - 48)) % m
    <3> SUFFICES ASSUME NEW S \in SUBSET (1..Len(s))
                 PROVE  g[S] = IF S = {} THEN 0 ELSE (10 * g[S \ {Max(S)}] + (s[Max(S)] - 48)) % m
      OBVIOUS
    <3>1. g[S] = IF S = {} THEN 0 ELSE G[<<g[S \ {Max(S)}], s[Max(S)]>>]
      BY <1>5 DEF FoldsTo
    <3>2. S # {} => g[S \ {Max(S)}] \in Int /\ s[Max(S)] \in Int
      BY <1>5, <1>6 DEF FoldsTo
    <3> QED
      BY <1>2, <3>1, <3>2
  <2>2. g = [S \in SUBSET (1..Len(s)) |-> g[S]]
    BY <1>5 DEF FoldsTo
  <2> QED
    BY <1>3, <2>1, <2>2 DEF DigitFoldModulo
<1> QED
  BY <1>7, <1>8

(* Folding digits modulo m gives the number modulo m.                      *)
LEMMA FoldModulo ==
  ASSUME NEW s \in Seq(Digits), NEW m \in Nat \ {0},
         NEW f, NEW g, DigitFold(s, f), DigitFoldModulo(s, m, g)
  PROVE  f[DOMAIN s] \in Nat /\ g[DOMAIN s] = f[DOMAIN s] % m
<1> DEFINE Bad == {k \in 0..Len(s) : ~(f[1..k] \in Nat /\ g[1..k] = f[1..k] % m)}
<1>1. SUFFICES ASSUME Bad # {} PROVE FALSE
  <2>1. DOMAIN s = 1..Len(s) /\ Len(s) \in 0..Len(s)
    OBVIOUS
  <2> QED
    BY <2>1
<1>2. PICK k \in Bad : \A j \in Bad : k <= j
  <2> HIDE DEF Bad
  <2>1. Bad \in SUBSET Nat
    BY DEF Bad
  <2> QED
    BY <1>1, <2>1, LeastNatural
<1>3. k # 0
  <2>1. 1..0 = {} /\ {} \in SUBSET (DOMAIN s)
    OBVIOUS
  <2>2. f[{}] = 0 /\ g[{}] = 0
    BY <2>1 DEF DigitFold, DigitFoldModulo
  <2>3. 0 % m = 0
    OBVIOUS
  <2> QED
    BY <2>1, <2>2, <2>3
<1> DEFINE j == k - 1
<1>4. j \in Nat /\ j \in 0..Len(s) /\ k = j + 1 /\ j \notin Bad /\ k \in 1..Len(s)
  BY <1>2, <1>3
<1> HIDE DEF j
<1>5. f[1..j] \in Nat /\ g[1..j] = f[1..j] % m
  BY <1>4
<1>6. Max(1..k) = k /\ 1..k # {} /\ (1..k) \ {Max(1..k)} = 1..j /\ 1..k \in SUBSET (DOMAIN s)
  <2>1. Max(1..k) = k
    BY <1>4, IntervalBounds
  <2>2. 1..k # {}
    <3>1. k \in 1..k
      BY <1>4
    <3> QED
      BY <3>1
  <2>3. (1..k) \ {k} = 1..j
    <3>1. \A x : x \in 1..k /\ x # k <=> x \in 1..j
      BY <1>4
    <3> QED
      BY <3>1
  <2>4. 1..k \in SUBSET (DOMAIN s)
    BY <1>4
  <2> QED
    BY <2>1, <2>2, <2>3, <2>4
<1> DEFINE d == s[k] - 48
<1>7. d \in Nat
  BY <1>4 DEF Digits
<1> HIDE DEF d
<1>8. f[1..k] = 10 * f[1..j] + d
  BY <1>6 DEF DigitFold, d
<1>9. g[1..k] = (10 * g[1..j] + d) % m
  BY <1>6 DEF DigitFoldModulo, d
<1>10. g[1..k] = f[1..k] % m
  BY <1>5, <1>7, <1>8, <1>9, RemainderOfSum
<1>11. f[1..k] \in Nat
  BY <1>5, <1>7, <1>8
<1> QED
  BY <1>2, <1>10, <1>11

(* atou reads the digits from i to the next character that is none.        *)
LEMMA AtouReads ==
  ASSUME NEW s, NEW i, NEW t \in Seq(Digits), 2 ^ UintBits \in Nat \ {0},
         t = SubSeq(s, i, Find(s, i, Char \ Digits) - 1)
  PROVE  Number(t) \in Nat /\ atou(s, i) = Number(t) % 2 ^ UintBits
<1> DEFINE m == 2 ^ UintBits
           f == CHOOSE h : DigitFold(t, h)
           g == CHOOSE h : DigitFoldModulo(t, m, h)
<1>2. DigitFold(t, f) /\ DigitFoldModulo(t, m, g)
  <2> HIDE DEF m
  <2>1. m \in Nat \ {0}
    BY DEF m
  <2> QED
  BY <2>1, DigitFolds
<1>3. Number(t) = f[DOMAIN t]
  BY DEF Number, FoldLeft, MapThenFoldSet, DigitFold
<1>4. atou(s, i) = g[DOMAIN t]
  BY DEF atou, FoldLeft, MapThenFoldSet, DigitFoldModulo
<1>5. m \in Nat \ {0}
  OBVIOUS
<1> HIDE DEF f, g, m
<1>6. f[DOMAIN t] \in Nat /\ g[DOMAIN t] = f[DOMAIN t] % m
  BY <1>2, <1>5, FoldModulo
<1> QED
  BY <1>3, <1>4, <1>6 DEF m

-----------------------------------------------------------------------------
(***************************************************************************)
(* Entries: a line is taken if and only if it means one.                   *)
(***************************************************************************)

(* a is the place of the kth colon; 0 stands before the first.             *)
ColonNumber(s, k, a) ==
  /\ a \in 0..Len(s) /\ k \in Nat
  /\ a = 0 \/ s[a] = Colon
  /\ Count(s, Colon, a) = k

Hit(s, a) == a <= Len(s) /\ s[a] = Colon

Numeric(s, k) ==
  \A i \in DOMAIN FieldOf(s, Colon, k) : FieldOf(s, Colon, k)[i] \in Digits

MarkStepFacts(s, k, a, b) ==
  /\ Hit(s, b) <=> Count(s, Colon, Len(s)) >= k
  /\ Hit(s, b) => ColonNumber(s, k, b)
  /\ FieldOf(s, Colon, k) = SubSeq(s, a + 1, b - 1)

LEMMA MarkStep ==
  ASSUME NEW s \in Seq(Char), NEW k \in Nat, NEW a, ColonNumber(s, k, a)
  PROVE  MarkStepFacts(s, k + 1, a, Find(s, a + 1, {Colon}))
<1> DEFINE b == Find(s, a + 1, {Colon})
<1>1. /\ k \in Nat /\ a \in 0..Len(s) /\ (a = 0 \/ s[a] = Colon)
      /\ Count(s, Colon, a) = k
  BY DEF ColonNumber
<1>2. NextMarkFacts(s, Colon, k, a, b)
  BY <1>1, NextMark
<1> HIDE DEF b
<1>3. /\ b \in (a + 1)..(Len(s) + 1)
      /\ b <= Len(s) => s[b] = Colon /\ Count(s, Colon, b) = k + 1
      /\ b <= Len(s) <=> Count(s, Colon, Len(s)) >= k + 1
      /\ FieldOf(s, Colon, k + 1) = SubSeq(s, a + 1, b - 1)
  BY <1>2 DEF NextMarkFacts
<1>4. b <= Len(s) => b \in 0..Len(s) /\ k + 1 \in Nat
  BY <1>1, <1>3
<1>5. MarkStepFacts(s, k + 1, a, b)
  BY <1>3, <1>4 DEF MarkStepFacts, ColonNumber, Hit
<1> QED
  BY <1>5 DEF b

NumberStepFacts(s, k, a, n) ==
  /\ Hit(s, n) <=> Count(s, Colon, Len(s)) >= k /\ Numeric(s, k)
  /\ Hit(s, n) => /\ ColonNumber(s, k, n)
                  /\ FieldOf(s, Colon, k) = SubSeq(s, a + 1, n - 1)
                  /\ FieldOf(s, Colon, k) \in Seq(Digits)

LEMMA NumberStep ==
  ASSUME NEW s \in Seq(Char), NEW k \in Nat, NEW a, ColonNumber(s, k, a)
  PROVE  NumberStepFacts(s, k + 1, a, Find(s, a + 1, Char \ Digits))
<1> DEFINE b == Find(s, a + 1, {Colon})
           n == Find(s, a + 1, Char \ Digits)
           field == FieldOf(s, Colon, k + 1)
<1>1. /\ k \in Nat /\ a \in 0..Len(s) /\ (a = 0 \/ s[a] = Colon)
      /\ Count(s, Colon, a) = k
  BY DEF ColonNumber
<1>2. MarkStepFacts(s, k + 1, a, b)
  BY MarkStep
<1>3. NextNumberFacts(s, k, b, n)
  BY <1>1, NextNumber
<1>4. b \in (a + 1)..(Len(s) + 1)
  <2>1. NextMarkFacts(s, Colon, k, a, b)
    BY <1>1, NextMark
  <2> HIDE DEF b
  <2> QED
    BY <2>1 DEF NextMarkFacts
<1> HIDE DEF b, n
<1>5. b <= Len(s) <=> Hit(s, b)
  <2>1. NextMarkFacts(s, Colon, k, a, b)
    BY <1>1, NextMark DEF b
  <2> QED
    BY <2>1 DEF NextMarkFacts, Hit
<1>6. /\ Hit(s, n) <=> Hit(s, b) /\ Numeric(s, k + 1)
      /\ Hit(s, n) => n = b
  BY <1>3, <1>5 DEF NextNumberFacts, Hit, Numeric
<1>7. Hit(s, n) => /\ ColonNumber(s, k + 1, n)
                   /\ field = SubSeq(s, a + 1, n - 1)
  BY <1>2, <1>6 DEF MarkStepFacts
<1>8. Hit(s, n) => field \in Seq(Digits)
  <2> SUFFICES ASSUME Hit(s, n) PROVE field \in Seq(Digits)
    OBVIOUS
  <2>1. field = SubSeq(s, a + 1, b - 1) /\ Numeric(s, k + 1)
    BY <1>6, <1>7
  <2>2. \A i \in DOMAIN field : field[i] \in Digits
    BY <2>1 DEF Numeric
  <2>3. field \in Seq(Char)
    <3>1. b - 1 \in 0..Len(s) /\ a + 1 \in 1..(Len(s) + 1)
      BY <1>1, <1>4
    <3>2. SubSeq(s, a + 1, b - 1) \in Seq(Char)
      BY <1>1, <1>4, <3>1
    <3> QED
      BY <2>1, <3>2
  <2> HIDE DEF field
  <2> QED
    BY <2>2, <2>3
<1>9. Hit(s, n) <=> Count(s, Colon, Len(s)) >= k + 1 /\ Numeric(s, k + 1)
  BY <1>2, <1>6 DEF MarkStepFacts
<1>10. NumberStepFacts(s, k + 1, a, n)
  BY <1>7, <1>8, <1>9 DEF NumberStepFacts
<1> QED
  BY <1>10 DEF n

(* The first colon behind the first character is the first of all.         *)
EntryIs(s, e) ==
  /\ e.name = FieldOf(s, Colon, 1)
  /\ e.id = Number(FieldOf(s, Colon, 3)) % 2 ^ UintBits

LEMMA FirstSteps ==
  ASSUME NEW s \in Seq(Char), s # <<>>, s[1] # Colon
  PROVE  LET c1 == Find(s, 2, {Colon})
             c2 == Find(s, c1 + 1, {Colon})
             c3 == Find(s, c2 + 1, Char \ Digits)
         IN /\ MarkStepFacts(s, 1, 0, c1)
            /\ Hit(s, c1) => MarkStepFacts(s, 2, c1, c2)
            /\ Hit(s, c1) /\ Hit(s, c2) => NumberStepFacts(s, 3, c2, c3)
<1> DEFINE c1 == Find(s, 2, {Colon})
           c2 == Find(s, c1 + 1, {Colon})
           c3 == Find(s, c2 + 1, Char \ Digits)
<1>1. ColonNumber(s, 0, 0)
  BY CountFacts DEF ColonNumber
<1>2. MarkStepFacts(s, 1, 0, c1)
  <2>1. MarkStepFacts(s, 0 + 1, 0, Find(s, 0 + 1, {Colon}))
    BY <1>1, MarkStep
  <2>2. c1 = Find(s, 1, {Colon})
    BY FirstMark
  <2> HIDE DEF c1
  <2> QED
    BY <2>1, <2>2
<1>3. ASSUME Hit(s, c1) PROVE MarkStepFacts(s, 2, c1, c2)
  <2> HIDE DEF c1
  <2>1. ColonNumber(s, 1, c1)
    BY <1>2, <1>3 DEF MarkStepFacts
  <2>2. MarkStepFacts(s, 1 + 1, c1, c2)
    BY <2>1, MarkStep
  <2> HIDE DEF c2
  <2> QED
    BY <2>2
<1>4. ASSUME Hit(s, c1), Hit(s, c2) PROVE NumberStepFacts(s, 3, c2, c3)
  <2> HIDE DEF c1, c2
  <2>1. ColonNumber(s, 2, c2)
    BY <1>3, <1>4 DEF MarkStepFacts
  <2>2. NumberStepFacts(s, 2 + 1, c2, c3)
    BY <2>1, NumberStep
  <2> HIDE DEF c3
  <2> QED
    BY <2>2
<1> HIDE DEF c1, c2, c3
<1>5. /\ MarkStepFacts(s, 1, 0, c1)
      /\ Hit(s, c1) => MarkStepFacts(s, 2, c1, c2)
      /\ Hit(s, c1) /\ Hit(s, c2) => NumberStepFacts(s, 3, c2, c3)
  BY <1>2, <1>3, <1>4
<1> QED
  BY <1>5 DEF c1, c2, c3

(* The number that ends at a colon is what its field says.                 *)
LEMMA NumberRead ==
  ASSUME NEW s \in Seq(Char), NEW k, NEW a, NEW n,
         NumberStepFacts(s, k, a, n), Hit(s, n),
         n = Find(s, a + 1, Char \ Digits)
  PROVE  /\ atou(s, a + 1) = Number(FieldOf(s, Colon, k)) % 2 ^ UintBits
         /\ atou(s, a + 1) \in Int
<1> DEFINE t == FieldOf(s, Colon, k)
           m == 2 ^ UintBits
<1>1. t \in Seq(Digits) /\ t = SubSeq(s, a + 1, n - 1)
  BY DEF NumberStepFacts
<1> HIDE DEF t
<1>2. m \in Nat \ {0}
  BY CompatAssumption
<1>3. t = SubSeq(s, a + 1, Find(s, a + 1, Char \ Digits) - 1)
  BY <1>1
<1>4. Number(t) \in Nat /\ atou(s, a + 1) = Number(t) % m
  BY <1>1, <1>2, <1>3, AtouReads
<1> HIDE DEF m
<1>5. Number(t) % m \in Int
  BY <1>2, <1>4
<1> QED
  BY <1>4, <1>5 DEF t, m

(* What stands before and behind a colon.                                  *)
LEMMA TextAround ==
  ASSUME NEW s \in Seq(Char), NEW k, NEW a, ColonNumber(s, k, a), Hit(s, a), a # 0
  PROVE  SubSeq(s, 1, a - 1) \in Seq(Char) /\ SubSeq(s, a + 1, Len(s)) \in Seq(Char)
<1>1. a \in 1..Len(s)
  BY DEF ColonNumber
<1> QED
  BY <1>1

LEMMA NotZero ==
  ASSUME NEW s \in Seq(Char), NEW k \in Nat \ {0}, NEW a, ColonNumber(s, k, a)
  PROVE  a # 0
BY CountFacts DEF ColonNumber

LEMMA GroupEntryIsLine ==
  ASSUME NEW s \in Seq(Char), s # <<>>, s[1] # Colon
  PROVE  /\ GroupEntry(s) # None <=> Meant("fgetgrent_r", s)
         /\ GroupEntry(s) # None => EntryIs(s, GroupEntry(s))
<1> DEFINE c1 == Find(s, 2, {Colon})
           c2 == Find(s, c1 + 1, {Colon})
           c3 == Find(s, c2 + 1, Char \ Digits)
           C == Count(s, Colon, Len(s))
           e == [name |-> SubSeq(s, 1, c1 - 1), id |-> atou(s, c2 + 1),
                 gid |-> 0, rest |-> SubSeq(s, c3 + 1, Len(s))]
           all == Hit(s, c1) /\ Hit(s, c2) /\ Hit(s, c3)
<1>1. /\ MarkStepFacts(s, 1, 0, c1)
      /\ Hit(s, c1) => MarkStepFacts(s, 2, c1, c2)
      /\ Hit(s, c1) /\ Hit(s, c2) => NumberStepFacts(s, 3, c2, c3)
  BY FirstSteps
<1>2. GroupEntry(s) = IF all THEN e ELSE None
  BY DEF GroupEntry, ColonsAt, Hit
<1>3. c3 = Find(s, c2 + 1, Char \ Digits)
  OBVIOUS
<1>4. C \in Nat
  <2>1. Len(s) \in Nat
    OBVIOUS
  <2> QED
    BY <2>1, CountFacts
<1> HIDE DEF c1, c2, c3, C
<1>5. all <=> C >= 3 /\ Numeric(s, 3)
  BY <1>1, <1>4 DEF MarkStepFacts, NumberStepFacts, C
<1>6. Meant("fgetgrent_r", s) <=> C >= 3 /\ Numeric(s, 3)
  BY DEF Meant, Colons, NumberFields, Numeric, C
<1>7. ASSUME all
      PROVE  EntryIs(s, e) /\ e # None
  <2>1. ColonNumber(s, 1, c1) /\ ColonNumber(s, 3, c3) /\ 1 \in Nat \ {0} /\ 3 \in Nat \ {0}
    BY <1>1, <1>7 DEF MarkStepFacts, NumberStepFacts
  <2>2. c1 # 0 /\ c3 # 0
    BY <2>1, NotZero
  <2>3. SubSeq(s, 1, c1 - 1) \in Seq(Char) /\ SubSeq(s, c3 + 1, Len(s)) \in Seq(Char)
    BY <1>7, <2>1, <2>2, TextAround
  <2>4. SubSeq(s, 1, c1 - 1) = FieldOf(s, Colon, 1)
    BY <1>1 DEF MarkStepFacts
  <2>5. /\ atou(s, c2 + 1) = Number(FieldOf(s, Colon, 3)) % 2 ^ UintBits
        /\ atou(s, c2 + 1) \in Int
    BY <1>1, <1>3, <1>7, NumberRead
  <2>6. e \in [name : Seq(Char), id : Int, gid : Int, rest : Seq(Char)]
    BY <2>3, <2>5
  <2>7. e.name = SubSeq(s, 1, c1 - 1) /\ e.id = atou(s, c2 + 1)
    OBVIOUS
  <2> HIDE DEF e
  <2> QED
    BY <2>4, <2>5, <2>6, <2>7, CompatAssumption DEF EntryIs
<1> HIDE DEF e, all
<1> QED
  BY <1>2, <1>5, <1>6, <1>7

LEMMA PasswdEntryIsLine ==
  ASSUME NEW s \in Seq(Char), s # <<>>, s[1] # Colon
  PROVE  /\ PasswdEntry(s) # None <=> Meant("fgetpwent_r", s)
         /\ PasswdEntry(s) # None => EntryIs(s, PasswdEntry(s))
<1> DEFINE c1 == Find(s, 2, {Colon})
           c2 == Find(s, c1 + 1, {Colon})
           c3 == Find(s, c2 + 1, Char \ Digits)
           c4 == Find(s, c3 + 1, Char \ Digits)
           c5 == Find(s, c4 + 1, {Colon})
           c6 == Find(s, c5 + 1, {Colon})
           C == Count(s, Colon, Len(s))
           e == [name |-> SubSeq(s, 1, c1 - 1), id |-> atou(s, c2 + 1),
                 gid |-> atou(s, c3 + 1), rest |-> SubSeq(s, c6 + 1, Len(s))]
           first == Hit(s, c1) /\ Hit(s, c2) /\ Hit(s, c3)
           all == first /\ Hit(s, c4) /\ Hit(s, c5) /\ Hit(s, c6)
<1>1. /\ MarkStepFacts(s, 1, 0, c1)
      /\ Hit(s, c1) => MarkStepFacts(s, 2, c1, c2)
      /\ Hit(s, c1) /\ Hit(s, c2) => NumberStepFacts(s, 3, c2, c3)
  BY FirstSteps
<1>2. PasswdEntry(s) = IF all THEN e ELSE None
  BY DEF PasswdEntry, ColonsAt, Hit
<1>3. c3 = Find(s, c2 + 1, Char \ Digits) /\ c4 = Find(s, c3 + 1, Char \ Digits)
  OBVIOUS
<1>4. C \in Nat
  <2>1. Len(s) \in Nat
    OBVIOUS
  <2> QED
    BY <2>1, CountFacts
<1>5. ASSUME first
      PROVE  NumberStepFacts(s, 4, c3, c4)
  <2> HIDE DEF c1, c2, c3
  <2>1. ColonNumber(s, 3, c3)
    BY <1>1, <1>5 DEF NumberStepFacts
  <2>2. NumberStepFacts(s, 3 + 1, c3, c4)
    BY <2>1, NumberStep
  <2> HIDE DEF c4
  <2> QED
    BY <2>2
<1>6. ASSUME first, Hit(s, c4)
      PROVE  MarkStepFacts(s, 5, c4, c5)
  <2> HIDE DEF c1, c2, c3, c4
  <2>1. ColonNumber(s, 4, c4)
    BY <1>5, <1>6 DEF NumberStepFacts
  <2>2. MarkStepFacts(s, 4 + 1, c4, c5)
    BY <2>1, MarkStep
  <2> HIDE DEF c5
  <2> QED
    BY <2>2
<1>7. ASSUME first, Hit(s, c4), Hit(s, c5)
      PROVE  MarkStepFacts(s, 6, c5, c6)
  <2> HIDE DEF c1, c2, c3, c4, c5
  <2>1. ColonNumber(s, 5, c5)
    BY <1>6, <1>7 DEF MarkStepFacts
  <2>2. MarkStepFacts(s, 5 + 1, c5, c6)
    BY <2>1, MarkStep
  <2> HIDE DEF c6
  <2> QED
    BY <2>2
<1> HIDE DEF c1, c2, c3, c4, c5, c6, C
<1>8. all <=> C >= 6 /\ Numeric(s, 3) /\ Numeric(s, 4)
  <2>1. first <=> C >= 3 /\ Numeric(s, 3)
    BY <1>1, <1>4 DEF MarkStepFacts, NumberStepFacts, C
  <2>2. first => (Hit(s, c4) <=> C >= 4 /\ Numeric(s, 4))
    BY <1>5 DEF NumberStepFacts, C
  <2>3. first /\ Hit(s, c4) => (Hit(s, c5) <=> C >= 5)
    BY <1>6 DEF MarkStepFacts, C
  <2>4. first /\ Hit(s, c4) /\ Hit(s, c5) => (Hit(s, c6) <=> C >= 6)
    BY <1>7 DEF MarkStepFacts, C
  <2> HIDE DEF first
  <2> QED
    BY <1>4, <2>1, <2>2, <2>3, <2>4
<1>9. Meant("fgetpwent_r", s) <=> C >= 6 /\ Numeric(s, 3) /\ Numeric(s, 4)
  BY DEF Meant, Colons, NumberFields, Numeric, C
<1>10. ASSUME all
       PROVE  EntryIs(s, e) /\ e # None
  <2>1. ColonNumber(s, 1, c1) /\ ColonNumber(s, 6, c6) /\ 1 \in Nat \ {0} /\ 6 \in Nat \ {0}
    BY <1>1, <1>7, <1>10 DEF MarkStepFacts
  <2>2. c1 # 0 /\ c6 # 0
    BY <2>1, NotZero
  <2>3. SubSeq(s, 1, c1 - 1) \in Seq(Char) /\ SubSeq(s, c6 + 1, Len(s)) \in Seq(Char)
    BY <1>10, <2>1, <2>2, TextAround
  <2>4. SubSeq(s, 1, c1 - 1) = FieldOf(s, Colon, 1)
    BY <1>1 DEF MarkStepFacts
  <2>5. /\ atou(s, c2 + 1) = Number(FieldOf(s, Colon, 3)) % 2 ^ UintBits
        /\ atou(s, c2 + 1) \in Int
    BY <1>1, <1>3, <1>10, NumberRead
  <2>6. atou(s, c3 + 1) \in Int
    BY <1>3, <1>5, <1>10, NumberRead
  <2>7. e \in [name : Seq(Char), id : Int, gid : Int, rest : Seq(Char)]
    BY <2>3, <2>5, <2>6
  <2>8. e.name = SubSeq(s, 1, c1 - 1) /\ e.id = atou(s, c2 + 1)
    OBVIOUS
  <2> HIDE DEF e
  <2> QED
    BY <2>4, <2>5, <2>7, <2>8, CompatAssumption DEF EntryIs
<1> HIDE DEF e, all
<1> QED
  BY <1>2, <1>8, <1>9, <1>10

LEMMA EntryOfLine ==
  ASSUME NEW reader \in Readers, NEW s \in Seq(Char), s # <<>>, s[1] # Colon
  PROVE  /\ Entry(reader, s) # None <=> Meant(reader, s)
         /\ Entry(reader, s) # None => EntryIs(s, Entry(reader, s))
<1>1. CASE reader = "fgetpwent_r"
  BY <1>1, PasswdEntryIsLine DEF Entry
<1>2. CASE reader = "fgetgrent_r"
  <2>1. reader # "fgetpwent_r"
    BY <1>2
  <2> QED
    BY <1>2, <2>1, GroupEntryIsLine DEF Entry
<1> QED
  BY <1>1, <1>2 DEF Readers

(* What EntryIsLine says of a step.                                        *)
LineToTake == call # None /\ line \notin {None, <<>>} /\ (line # None => line[1] # Colon)

EntryTaken ==
  /\ Returns <=> Meant(call.reader, line)
  /\ Returns /\ result'.errno = "0" => EntryIs(line, result'.entry)

LEMMA LineType ==
  ASSUME CInv, call # None, line # None
  PROVE  line \in Seq(Char) /\ call.reader \in Readers
<1>1. CTypeOK /\ Searching
  BY DEF CInv
<1>2. file \in Seq(Char) /\ Len(file) \in Nat /\ call.reader \in Readers
  BY <1>1, Typed
<1>3. begun \in 1..(Len(file) + 1)
  BY <1>1 DEF Searching
<1>4. PICK p \in begun..Len(file) : line = Chomp(Rest(file, p))
  BY <1>1 DEF Searching, Holding
<1>5. p \in 1..Len(file)
  BY <1>2, <1>3
<1>6. Rest(file, p) \in Seq(Char)
  BY <1>2, <1>5, LineFacts
<1> QED
  BY <1>2, <1>4, <1>6, ChompType

LEMMA StepTakes ==
  ASSUME CInv, Next, LineToTake
  PROVE  EntryTaken
<1> USE DEF LineToTake
<1>1. call # None /\ line # None /\ line \in Seq(Char) /\ call.reader \in Readers
  BY LineType
<1>2. /\ Entry(call.reader, line) # None <=> Meant(call.reader, line)
      /\ Entry(call.reader, line) # None => EntryIs(line, Entry(call.reader, line))
  BY <1>1, EntryOfLine
<1>3. CASE Skip
  <2>1. Entry(call.reader, line) = None /\ ~Returns
    BY <1>3, <1>1 DEF Skip, Returns
  <2> QED
    BY <1>2, <2>1 DEF EntryTaken
<1>4. CASE fgetpwent_r
  <2>1. /\ call.reader = "fgetpwent_r" /\ PasswdEntry(line) # None
        /\ Returns /\ result' = [errno |-> "0", entry |-> PasswdEntry(line)]
    BY <1>4 DEF fgetpwent_r, Return, Returns
  <2>2. Entry(call.reader, line) = PasswdEntry(line)
    BY <2>1 DEF Entry
  <2>3. result'.entry = PasswdEntry(line)
    BY <2>1
  <2> QED
    BY <1>2, <2>1, <2>2, <2>3 DEF EntryTaken
<1>5. CASE fgetgrent_r
  <2>1. /\ call.reader = "fgetgrent_r" /\ GroupEntry(line) # None /\ Returns
    BY <1>5 DEF fgetgrent_r, Return, Returns
  <2>2. Entry(call.reader, line) = GroupEntry(line)
    BY <2>1 DEF Entry
  <2>3. result'.errno = "0" => /\ result'.entry.name = GroupEntry(line).name
                              /\ result'.entry.id = GroupEntry(line).id
    BY <1>5 DEF fgetgrent_r, Return
  <2>4. EntryIs(line, GroupEntry(line))
    BY <1>2, <2>1, <2>2
  <2>5. result'.errno = "0" => EntryIs(line, result'.entry)
    BY <2>3, <2>4 DEF EntryIs
  <2> QED
    BY <1>2, <2>1, <2>2, <2>5 DEF EntryTaken
<1> QED
  BY <1>1, <1>3, <1>4, <1>5 DEF Next, Begin, Seek, Fgets

THEOREM EntriesAreLines == Spec => EntryIsLine
<1>1. CInv /\ [Next]_vars => [LineToTake => EntryTaken]_vars
  BY StepTakes
<1> QED
  BY Invariance, <1>1, PTL DEF Spec, EntryIsLine, LineToTake, EntryTaken, EntryIs

-----------------------------------------------------------------------------
(***************************************************************************)
(* Members: the loop that splits them lists what is between the commas.    *)
(***************************************************************************)

(* What the loop that splits the members makes of position i.              *)
MembersFrom(mems, g, i) ==
  IF i > Len(mems) THEN <<>>
  ELSE IF mems[i] = Comma THEN <<i + 1>> \o g[i + 2]
  ELSE g[i + 1]

SplitFrom(mems, j, g) ==
  /\ g \in [j..(Len(mems) + 2) -> Seq(Nat)]
  /\ \A i \in j..(Len(mems) + 2) : g[i] = MembersFrom(mems, g, i)

LEMMA OnePlace ==
  ASSUME NEW i \in Nat, NEW t \in Seq(Nat)
  PROVE  /\ <<i>> \o t \in Seq(Nat) /\ Len(<<i>> \o t) = Len(t) + 1
         /\ (<<i>> \o t)[1] = i
         /\ \A m \in 2..(Len(t) + 1) : (<<i>> \o t)[m] = t[m - 1]
<1>1. <<i>> \in Seq(Nat) /\ Len(<<i>>) = 1 /\ <<i>>[1] = i
  OBVIOUS
<1>2. Len(t) \in Nat
  OBVIOUS
<1>3. /\ <<i>> \o t \in Seq(Nat)
      /\ Len(<<i>> \o t) = Len(<<i>>) + Len(t)
      /\ \A m \in 1..(Len(<<i>>) + Len(t)) :
           (<<i>> \o t)[m] = IF m <= Len(<<i>>) THEN <<i>>[m] ELSE t[m - Len(<<i>>)]
  BY <1>1, ConcatProperties
<1> DEFINE c == <<i>> \o t
<1>4. /\ c \in Seq(Nat)
      /\ Len(c) = 1 + Len(t)
      /\ \A m \in 1..(1 + Len(t)) : c[m] = IF m <= 1 THEN <<i>>[m] ELSE t[m - 1]
  BY <1>1, <1>3
<1> HIDE DEF c
<1>5. Len(c) = Len(t) + 1
  BY <1>2, <1>4
<1>6. c[1] = i
  BY <1>1, <1>2, <1>4
<1>7. \A m \in 2..(Len(t) + 1) : c[m] = t[m - 1]
  BY <1>2, <1>4
<1> QED
  BY <1>4, <1>5, <1>6, <1>7 DEF c

LEMMA SplitExists ==
  ASSUME NEW mems \in Seq(Char)
  PROVE  \E g : SplitFrom(mems, 1, g)
<1> DEFINE N == Len(mems) + 2
           Bad == {k \in 0..(N - 1) : ~ \E g : SplitFrom(mems, N - k, g)}
<1>1. N \in Nat /\ N >= 2 /\ Len(mems) = N - 2
  OBVIOUS
<1>2. SUFFICES ASSUME Bad # {} PROVE FALSE
  <2>1. N - 1 \in 0..(N - 1) /\ N - (N - 1) = 1
    BY <1>1
  <2> HIDE DEF N
  <2> QED
    BY <2>1
<1> HIDE DEF N
<1>3. PICK k \in Bad : \A j \in Bad : k <= j
  <2> HIDE DEF Bad
  <2>1. Bad \in SUBSET Nat
    BY <1>1 DEF Bad
  <2> QED
    BY <1>2, <2>1, LeastNatural
<1>4. k \in 0..(N - 1)
  OBVIOUS
<1> DEFINE i == N - k
<1>5. i \in Nat /\ i \in 1..N /\ N \in i..N
  BY <1>1, <1>4
<1>6. k # 0
  <2> SUFFICES ASSUME k = 0 PROVE FALSE
    OBVIOUS
  <2> DEFINE g == [x \in i..N |-> <<>>]
  <2>1. i = N /\ \A x \in i..N : x = N
    BY <1>1
  <2>2. g \in [i..N -> Seq(Nat)]
    OBVIOUS
  <2>3. \A x \in i..N : g[x] = MembersFrom(mems, g, x)
    BY <1>1, <2>1 DEF MembersFrom
  <2>4. SplitFrom(mems, i, g)
    BY <2>2, <2>3 DEF SplitFrom, N
  <2> HIDE DEF g
  <2> QED
    BY <2>4
<1>7. k - 1 \in 0..(N - 1) /\ k - 1 \notin Bad /\ N - (k - 1) = i + 1 /\ i + 1 \in 1..N
  <2>1. k \in Nat /\ k >= 1 /\ k <= N - 1
    BY <1>1, <1>4, <1>6
  <2>2. k - 1 \in 0..(N - 1) /\ k - 1 < k
    BY <1>1, <2>1
  <2>3. k - 1 \notin Bad
    <3> HIDE DEF Bad
    <3> QED
      BY <1>3, <2>1, <2>2
  <2>4. N - (k - 1) = i + 1 /\ i + 1 \in 1..N
    BY <1>1, <2>1
  <2> QED
    BY <2>2, <2>3, <2>4
<1> HIDE DEF i
<1>8. PICK h : SplitFrom(mems, i + 1, h)
  BY <1>7
<1> DEFINE first == MembersFrom(mems, h, i)
           g == [x \in i..N |-> IF x = i THEN first ELSE h[x]]
<1>9. /\ h \in [(i + 1)..N -> Seq(Nat)]
      /\ \A x \in (i + 1)..N : h[x] = MembersFrom(mems, h, x)
  BY <1>8 DEF SplitFrom, N
<1>10. first \in Seq(Nat)
  <2>1. CASE i > Len(mems)
    BY <2>1 DEF MembersFrom
  <2>2. CASE ~(i > Len(mems))
    <3>1. i + 2 \in (i + 1)..N /\ i + 1 \in (i + 1)..N
      BY <1>1, <1>5, <2>2
    <3>2. h[i + 2] \in Seq(Nat) /\ h[i + 1] \in Seq(Nat)
      BY <1>9, <3>1
    <3>3. <<i + 1>> \o h[i + 2] \in Seq(Nat)
      BY <1>5, <3>2, OnePlace
    <3> QED
      BY <2>2, <3>2, <3>3 DEF MembersFrom
  <2> QED
    BY <2>1, <2>2
<1>11. \A x \in i..N : MembersFrom(mems, g, x) = MembersFrom(mems, h, x)
  <2> SUFFICES ASSUME NEW x \in i..N, ~(x > Len(mems))
               PROVE  g[x + 2] = h[x + 2] /\ g[x + 1] = h[x + 1]
    <3> HIDE DEF g
    <3> QED
      BY DEF MembersFrom
  <2>1. x + 2 \in i..N /\ x + 2 # i /\ x + 1 \in i..N /\ x + 1 # i
    BY <1>1, <1>5
  <2> HIDE DEF first
  <2> QED
    BY <2>1
<1>12. \A x \in (i + 1)..N : x \in i..N /\ x # i
  BY <1>1, <1>5
<1>13. \A x \in i..N : x # i => x \in (i + 1)..N
  BY <1>1, <1>5
<1>14. g \in [i..N -> Seq(Nat)]
  <2> HIDE DEF first
  <2> QED
    BY <1>9, <1>10, <1>13
<1>15. \A x \in i..N : g[x] = MembersFrom(mems, h, x)
  <2> SUFFICES ASSUME NEW x \in i..N PROVE g[x] = MembersFrom(mems, h, x)
    OBVIOUS
  <2>1. x # i => g[x] = h[x] /\ h[x] = MembersFrom(mems, h, x)
    BY <1>9, <1>13
  <2>2. x = i => g[x] = MembersFrom(mems, h, x)
    OBVIOUS
  <2> QED
    BY <2>1, <2>2
<1>16. SplitFrom(mems, i, g)
  <2> HIDE DEF g
  <2> QED
    BY <1>11, <1>14, <1>15 DEF SplitFrom, N
<1> HIDE DEF g
<1> QED
  BY <1>3, <1>16 DEF i

(* Where the loop finds the members.                                       *)
LEMMA SplitIs ==
  ASSUME NEW mems \in Seq(Char), mems # <<>>
  PROVE  \E g : /\ SplitFrom(mems, 1, g)
                /\ MemberStarts(mems) = <<1>> \o g[1]
<1> DEFINE P(g) == g = [i \in 1..(Len(mems) + 2) |->
                          IF i > Len(mems) THEN <<>>
                          ELSE IF mems[i] = Comma THEN <<i + 1>> \o g[i + 2]
                          ELSE g[i + 1]]
           G == CHOOSE g : P(g)
<1>1. PICK h : SplitFrom(mems, 1, h)
  BY SplitExists
<1>2. P(h)
  <2>1. h = [i \in 1..(Len(mems) + 2) |-> h[i]]
    BY <1>1 DEF SplitFrom
  <2>2. \A i \in 1..(Len(mems) + 2) : h[i] = MembersFrom(mems, h, i)
    BY <1>1 DEF SplitFrom
  <2> QED
    BY <2>1, <2>2 DEF MembersFrom
<1>3. P(G)
  <2> HIDE DEF P
  <2> QED
    BY <1>2
<1>4. MemberStarts(mems) = <<1>> \o G[1]
  BY DEF MemberStarts
<1> HIDE DEF G
<1>5. \A i \in 1..(Len(mems) + 2) : G[i] = MembersFrom(mems, G, i)
  BY <1>3 DEF MembersFrom
<1>6. ASSUME \A i \in 1..(Len(mems) + 2) : G[i] \in Seq(Nat)
      PROVE  SplitFrom(mems, 1, G)
  <2>1. G = [i \in 1..(Len(mems) + 2) |-> G[i]]
    BY <1>3
  <2> HIDE DEF P
  <2> QED
    BY <1>5, <1>6, <2>1 DEF SplitFrom
<1>7. \A i \in 1..(Len(mems) + 2) : G[i] \in Seq(Nat)
  <2> DEFINE N == Len(mems) + 2
             Bad == {k \in 0..(N - 1) : G[N - k] \notin Seq(Nat)}
  <2>1. N \in Nat /\ N >= 2 /\ Len(mems) = N - 2
    OBVIOUS
  <2>2. SUFFICES ASSUME Bad # {} PROVE FALSE
    <3> SUFFICES ASSUME NEW i \in 1..N PROVE G[i] \in Seq(Nat)
      OBVIOUS
    <3>1. N - i \in 0..(N - 1) /\ N - (N - i) = i
      BY <2>1
    <3> HIDE DEF N
    <3> QED
      BY <3>1
  <2> HIDE DEF N
  <2>3. PICK k \in Bad : \A j \in Bad : k <= j
    <3> HIDE DEF Bad
    <3>1. Bad \in SUBSET Nat
      BY <2>1 DEF Bad
    <3> QED
      BY <2>2, <3>1, LeastNatural
  <2> DEFINE i == N - k
  <2>4. k \in 0..(N - 1) /\ i \in 1..N /\ i \in Nat /\ G[i] \notin Seq(Nat)
    BY <2>1, <2>3
  <2>5. G[i] = MembersFrom(mems, G, i)
    BY <1>5, <2>4 DEF N
  <2>6. ~(i > Len(mems))
    BY <2>4, <2>5 DEF MembersFrom
  <2>7. G[i + 1] \in Seq(Nat) /\ G[i + 2] \in Seq(Nat)
    <3>1. /\ k - 1 \in 0..(N - 1) /\ k - 1 \notin Bad /\ N - (k - 1) = i + 1
          /\ k - 2 \in 0..(N - 1) /\ k - 2 \notin Bad /\ N - (k - 2) = i + 2
      <4>1. k \in Nat /\ k >= 2 /\ k <= N - 1
        BY <2>1, <2>4, <2>6
      <4>2. k - 1 \in 0..(N - 1) /\ k - 2 \in 0..(N - 1) /\ k - 1 < k /\ k - 2 < k
        BY <2>1, <4>1
      <4>3. k - 1 \notin Bad /\ k - 2 \notin Bad
        <5> HIDE DEF Bad
        <5> QED
          BY <2>3, <4>1, <4>2
      <4>4. N - (k - 1) = i + 1 /\ N - (k - 2) = i + 2
        BY <2>1, <4>1
      <4> QED
        BY <4>2, <4>3, <4>4
    <3> HIDE DEF i
    <3> QED
      BY <3>1
  <2>8. <<i + 1>> \o G[i + 2] \in Seq(Nat)
    <3> HIDE DEF i
    <3> QED
      BY <2>4, <2>7, OnePlace
  <2> HIDE DEF i
  <2> QED
    BY <2>4, <2>5, <2>6, <2>7, <2>8 DEF MembersFrom
<1> QED
  BY <1>4, <1>6, <1>7

(* Commas from position i on.                                              *)
CommasFrom(mems, i) ==
  IF i > Len(mems) THEN 0 ELSE Count(mems, Comma, Len(mems)) - Count(mems, Comma, i - 1)

NoneEmpty(mems) == \A i \in 2..Len(mems) : mems[i] = Comma => mems[i - 1] # Comma

(* t lists, in order, the places behind the commas that follow the first   *)
(* n.                                                                      *)
ListsCommas(mems, n, t) ==
  \A m \in 1..Len(t) :
    /\ t[m] - 1 \in 1..Len(mems) /\ mems[t[m] - 1] = Comma
    /\ Count(mems, Comma, t[m] - 1) = n + m

LEMMA CountNext ==
  ASSUME NEW s, NEW c, NEW i \in Nat
  PROVE  Count(s, c, i + 1) = Count(s, c, i) + IF s[i + 1] = c THEN 1 ELSE 0
<1> DEFINE j == i + 1
<1>1. j \in Nat \ {0} /\ j - 1 = i
  OBVIOUS
<1> HIDE DEF j
<1>2. Count(s, c, j) = Count(s, c, i) + IF s[j] = c THEN 1 ELSE 0
  BY <1>1, CountFacts
<1> QED
  BY <1>2 DEF j

LEMMA CommasFromFacts ==
  ASSUME NEW mems \in Seq(Char), NEW i \in 1..Len(mems)
  PROVE  /\ CommasFrom(mems, i) \in Nat
         /\ mems[i] # Comma => CommasFrom(mems, i + 1) = CommasFrom(mems, i)
         /\ mems[i] = Comma => /\ CommasFrom(mems, i + 1) = CommasFrom(mems, i) - 1
                               /\ CommasFrom(mems, i + 2) <= CommasFrom(mems, i) - 1
         /\ (i < Len(mems) => mems[i + 1] # Comma) /\ mems[i] = Comma =>
              CommasFrom(mems, i + 2) = CommasFrom(mems, i) - 1
<1> DEFINE n == Len(mems)
           K(j) == Count(mems, Comma, j)
<1>1. n \in Nat /\ i \in Nat \ {0} /\ i - 1 \in Nat /\ i + 1 \in Nat \ {0}
      /\ (i + 1) - 1 = i /\ i - 1 <= n /\ i <= n
  OBVIOUS
<1>2. K(i) = K(i - 1) + IF mems[i] = Comma THEN 1 ELSE 0
  BY <1>1, CountFacts
<1>3. K(i + 1) = K(i) + IF mems[i + 1] = Comma THEN 1 ELSE 0
  BY <1>1, CountNext
<1>4. K(i - 1) \in Nat /\ K(i) \in Nat /\ K(i + 1) \in Nat /\ K(n) \in Nat
  BY <1>1, CountFacts
<1>5. K(i - 1) <= K(n) /\ K(i) <= K(n)
  BY <1>1, CountMonotone
<1>6. CommasFrom(mems, i) = K(n) - K(i - 1)
  BY <1>1 DEF CommasFrom
<1>7. CommasFrom(mems, i + 1) = K(n) - K(i)
  BY <1>1, <1>4 DEF CommasFrom
<1>8. i < n => CommasFrom(mems, i + 2) = K(n) - K(i + 1)
  <2> SUFFICES ASSUME i < n PROVE CommasFrom(mems, i + 2) = K(n) - K(i + 1)
    OBVIOUS
  <2>1. (i + 2) - 1 = i + 1
    BY <1>1
  <2>2. CASE i + 2 > n
    <3>1. i + 1 = n
      BY <1>1, <2>2
    <3>2. CommasFrom(mems, i + 2) = 0
      BY <2>2 DEF CommasFrom
    <3>3. K(i + 1) = K(n)
      BY <3>1
    <3> HIDE DEF K, n
    <3> QED
      BY <1>4, <3>2, <3>3
  <2>3. CASE ~(i + 2 > n)
    BY <2>1, <2>3 DEF CommasFrom
  <2> QED
    BY <2>2, <2>3
<1>9. i = n => CommasFrom(mems, i + 2) = 0 /\ K(i) = K(n)
  BY <1>1 DEF CommasFrom
<1>10. i < n \/ i = n
  BY <1>1
<1> HIDE DEF K, n
<1>11. CommasFrom(mems, i) \in Nat
  BY <1>4, <1>5, <1>6
<1>12. mems[i] # Comma => CommasFrom(mems, i + 1) = CommasFrom(mems, i)
  BY <1>2, <1>4, <1>6, <1>7
<1>13. mems[i] = Comma => CommasFrom(mems, i + 1) = CommasFrom(mems, i) - 1
  BY <1>2, <1>4, <1>6, <1>7
<1>14. mems[i] = Comma => CommasFrom(mems, i + 2) <= CommasFrom(mems, i) - 1
  <2>1. K(i + 1) >= K(i)
    BY <1>3, <1>4
  <2>2. CASE i < n
    BY <1>2, <1>4, <1>6, <1>8, <2>1, <2>2
  <2>3. CASE i = n
    BY <1>2, <1>4, <1>6, <1>9, <2>3
  <2> QED
    BY <1>10, <2>2, <2>3
<1>15. (i < n => mems[i + 1] # Comma) /\ mems[i] = Comma =>
         CommasFrom(mems, i + 2) = CommasFrom(mems, i) - 1
  <2>1. CASE i < n
    BY <1>2, <1>3, <1>4, <1>6, <1>8, <2>1
  <2>2. CASE i = n
    BY <1>2, <1>4, <1>6, <1>9, <2>2
  <2> QED
    BY <1>10, <2>1, <2>2
<1> QED
  BY <1>11, <1>12, <1>13, <1>14, <1>15 DEF n

(* What the loop lists from i on: no more places than there are commas;    *)
(* and where no member is empty, each of them.                             *)
SplitFacts(mems, g, i) ==
  /\ Len(g[i]) <= CommasFrom(mems, i)
  /\ NoneEmpty(mems) =>
       /\ Len(g[i]) = CommasFrom(mems, i)
       /\ i <= Len(mems) => ListsCommas(mems, Count(mems, Comma, i - 1), g[i])

LEMMA SplitStep ==
  ASSUME NEW mems \in Seq(Char), NEW g, SplitFrom(mems, 1, g),
         NEW i \in 1..Len(mems), SplitFacts(mems, g, i + 1), SplitFacts(mems, g, i + 2)
  PROVE  SplitFacts(mems, g, i)
<1> DEFINE n == Len(mems)
           K(j) == Count(mems, Comma, j)
<1>1. n \in Nat /\ i \in Nat \ {0} /\ i <= n /\ i - 1 \in Nat /\ (i + 1) - 1 = i
      /\ (i + 2) - 1 = i + 1 /\ i + 1 \in Nat \ {0}
  OBVIOUS
<1>2. /\ i \in 1..(n + 2) /\ i + 1 \in 1..(n + 2) /\ i + 2 \in 1..(n + 2)
      /\ g[i] = MembersFrom(mems, g, i)
      /\ g[i + 1] \in Seq(Nat) /\ g[i + 2] \in Seq(Nat)
      /\ \A j \in {i + 1, i + 2} : g[j] = MembersFrom(mems, g, j)
  <2>1. i \in 1..(n + 2) /\ i + 1 \in 1..(n + 2) /\ i + 2 \in 1..(n + 2)
    BY <1>1
  <2>2. /\ g \in [1..(n + 2) -> Seq(Nat)]
        /\ \A j \in 1..(n + 2) : g[j] = MembersFrom(mems, g, j)
    BY DEF SplitFrom
  <2> HIDE DEF n
  <2> QED
    BY <2>1, <2>2
<1>3. /\ CommasFrom(mems, i) \in Nat
      /\ mems[i] # Comma => CommasFrom(mems, i + 1) = CommasFrom(mems, i)
      /\ mems[i] = Comma => CommasFrom(mems, i + 2) <= CommasFrom(mems, i) - 1
      /\ (i < n => mems[i + 1] # Comma) /\ mems[i] = Comma =>
           CommasFrom(mems, i + 2) = CommasFrom(mems, i) - 1
  BY CommasFromFacts
<1>4. K(i) = K(i - 1) + IF mems[i] = Comma THEN 1 ELSE 0
  BY <1>1, CountFacts
<1>5. K(i + 1) = K(i) + IF mems[i + 1] = Comma THEN 1 ELSE 0
  BY <1>1, CountNext
<1>6. K(i - 1) \in Nat /\ K(i) \in Nat /\ K(i + 1) \in Nat
  BY <1>1, CountFacts
<1>7. CASE mems[i] # Comma
  <2>1. g[i] = g[i + 1]
    <3>1. ~(i > Len(mems)) /\ g[i] = MembersFrom(mems, g, i)
      BY <1>1, <1>2
    <3> HIDE DEF n, K
    <3> QED
      BY <1>7, <3>1 DEF MembersFrom
  <2>2. CommasFrom(mems, i + 1) = CommasFrom(mems, i) /\ K(i) = K(i - 1)
    BY <1>3, <1>4, <1>6, <1>7
  <2>3. NoneEmpty(mems) => ListsCommas(mems, K(i - 1), g[i])
    <3> SUFFICES ASSUME NoneEmpty(mems) PROVE ListsCommas(mems, K(i - 1), g[i])
      OBVIOUS
    <3>1. CASE i + 1 <= n
      <4>1. ListsCommas(mems, K(i), g[i + 1])
        BY <1>1, <3>1 DEF SplitFacts
      <4> HIDE DEF K
      <4> QED
        BY <2>1, <2>2, <4>1
    <3>2. CASE ~(i + 1 <= n)
      <4>1. g[i + 1] = <<>>
        <5>1. i + 1 > Len(mems) /\ g[i + 1] = MembersFrom(mems, g, i + 1)
          BY <1>1, <1>2, <3>2
        <5> QED
          BY <5>1 DEF MembersFrom
      <4> QED
        BY <2>1, <4>1 DEF ListsCommas
    <3> QED
      BY <3>1, <3>2
  <2> HIDE DEF K, n
  <2> QED
    BY <2>1, <2>2, <2>3 DEF SplitFacts, K
<1>8. CASE mems[i] = Comma
  <2> DEFINE t == g[i + 2]
             c == <<i + 1>> \o t
  <2>1. g[i] = c
    <3>1. ~(i > Len(mems)) /\ g[i] = MembersFrom(mems, g, i)
      BY <1>1, <1>2
    <3> HIDE DEF n, K
    <3> QED
      BY <1>8, <3>1 DEF MembersFrom
  <2>2. /\ Len(c) = Len(t) + 1 /\ c[1] = i + 1
        /\ \A m \in 2..(Len(t) + 1) : c[m] = t[m - 1]
    BY <1>1, <1>2, OnePlace
  <2>3. Len(t) <= CommasFrom(mems, i + 2) /\ Len(t) \in Nat
    BY <1>2 DEF SplitFacts
  <2> HIDE DEF c
  <2>4. Len(g[i]) <= CommasFrom(mems, i)
    <3>1. CommasFrom(mems, i + 2) \in Int
      <4>1. CASE i = n
        BY <1>1, <4>1 DEF CommasFrom
      <4>2. CASE i # n
        <5>1. n \in Nat /\ K(n) \in Nat
          BY <1>1, CountFacts
        <5>2. CommasFrom(mems, i + 2) = 0 \/ CommasFrom(mems, i + 2) = K(n) - K(i + 1)
          BY <1>1 DEF CommasFrom
        <5> HIDE DEF K, n
        <5> QED
          BY <1>6, <5>1, <5>2
      <4> QED
        BY <4>1, <4>2
    <3> HIDE DEF t
    <3> QED
      BY <1>3, <1>8, <2>1, <2>2, <2>3, <3>1
  <2>5. ASSUME NoneEmpty(mems)
        PROVE  /\ Len(g[i]) = CommasFrom(mems, i)
               /\ ListsCommas(mems, K(i - 1), g[i])
    <3>1. i < n => mems[i + 1] # Comma
      <4>1. i < n => i + 1 \in 2..n
        BY <1>1
      <4> QED
        BY <1>1, <1>8, <2>5, <4>1 DEF NoneEmpty
    <3>2. Len(t) = CommasFrom(mems, i + 2)
      BY <2>5 DEF SplitFacts
    <3>3. Len(g[i]) = CommasFrom(mems, i)
      <4> HIDE DEF t
      <4> QED
        BY <1>3, <1>8, <2>1, <2>2, <2>3, <3>1, <3>2
    <3>4. K(i) = K(i - 1) + 1
      BY <1>4, <1>8
    <3>5. ListsCommas(mems, K(i), t)
      <4>1. CASE i + 2 <= n
        <5>1. ListsCommas(mems, K(i + 1), t)
          BY <1>1, <2>5, <4>1 DEF SplitFacts
        <5>2. K(i + 1) = K(i)
          BY <1>1, <1>5, <1>6, <3>1, <4>1
        <5> HIDE DEF K
        <5> QED
          BY <5>1, <5>2
      <4>2. CASE ~(i + 2 <= n)
        <5>1. t = <<>>
          <6>1. i + 2 > Len(mems) /\ t = MembersFrom(mems, g, i + 2)
            BY <1>1, <1>2, <4>2
          <6> QED
            BY <6>1 DEF MembersFrom
        <5> QED
          BY <5>1 DEF ListsCommas
      <4> QED
        BY <4>1, <4>2
    <3>6. ASSUME NEW m \in 1..Len(c)
          PROVE  /\ c[m] - 1 \in 1..Len(mems) /\ mems[c[m] - 1] = Comma
                 /\ Count(mems, Comma, c[m] - 1) = K(i - 1) + m
      <4>1. CASE m = 1
        <5>1. c[m] - 1 = i
          BY <1>1, <2>2, <4>1
        <5> QED
          BY <1>1, <1>8, <3>4, <4>1, <5>1
      <4>2. CASE m # 1
        <5>1. m \in 2..(Len(t) + 1) /\ m - 1 \in 1..Len(t) /\ m \in Nat
          BY <2>2, <2>3, <4>2
        <5>2. c[m] = t[m - 1]
          BY <2>2, <5>1
        <5>3. /\ t[m - 1] - 1 \in 1..Len(mems) /\ mems[t[m - 1] - 1] = Comma
              /\ Count(mems, Comma, t[m - 1] - 1) = K(i) + (m - 1)
          BY <3>5, <5>1 DEF ListsCommas
        <5> HIDE DEF K, t
        <5>4. K(i) + (m - 1) = K(i - 1) + m
          BY <1>6, <3>4, <5>1
        <5> QED
          BY <5>2, <5>3, <5>4
      <4> QED
        BY <4>1, <4>2
    <3>7. ListsCommas(mems, K(i - 1), c)
      BY <3>6 DEF ListsCommas
    <3> QED
      BY <2>1, <3>3, <3>7
  <2> QED
    BY <2>4, <2>5 DEF SplitFacts
<1> QED
  BY <1>7, <1>8

LEMMA SplitAll ==
  ASSUME NEW mems \in Seq(Char), NEW g, SplitFrom(mems, 1, g)
  PROVE  \A i \in 1..(Len(mems) + 2) : SplitFacts(mems, g, i)
<1> DEFINE N == Len(mems) + 2
           Bad == {k \in 0..(N - 1) : ~SplitFacts(mems, g, N - k)}
<1>1. N \in Nat /\ N >= 2 /\ Len(mems) = N - 2 /\ Len(mems) \in Nat
  OBVIOUS
<1>2. SUFFICES ASSUME Bad # {} PROVE FALSE
  <2> SUFFICES ASSUME NEW i \in 1..N PROVE SplitFacts(mems, g, i)
    OBVIOUS
  <2>1. N - i \in 0..(N - 1) /\ N - (N - i) = i
    BY <1>1
  <2> HIDE DEF N
  <2> QED
    BY <2>1
<1> HIDE DEF N
<1>3. PICK k \in Bad : \A j \in Bad : k <= j
  <2> HIDE DEF Bad
  <2>1. Bad \in SUBSET Nat
    BY <1>1 DEF Bad
  <2> QED
    BY <1>2, <2>1, LeastNatural
<1> DEFINE i == N - k
<1>4. k \in 0..(N - 1) /\ i \in 1..N /\ i \in Nat /\ ~SplitFacts(mems, g, i)
  BY <1>1, <1>3
<1>5. CASE i > Len(mems)
  <2>1. g[i] = MembersFrom(mems, g, i)
    BY <1>4 DEF SplitFrom, N
  <2> HIDE DEF i
  <2>2. g[i] = <<>>
    BY <1>5, <2>1 DEF MembersFrom
  <2>3. CommasFrom(mems, i) = 0
    BY <1>5 DEF CommasFrom
  <2>4. Len(g[i]) = 0 /\ ~(i <= Len(mems))
    BY <1>1, <1>4, <1>5, <2>2
  <2> QED
    BY <1>4, <2>3, <2>4 DEF SplitFacts
<1>6. CASE ~(i > Len(mems))
  <2>1. k \in Nat /\ k >= 2 /\ k <= N - 1
    BY <1>1, <1>4, <1>6
  <2>2. k - 1 \in 0..(N - 1) /\ k - 2 \in 0..(N - 1) /\ k - 1 < k /\ k - 2 < k
    BY <1>1, <2>1
  <2>3. k - 1 \notin Bad /\ k - 2 \notin Bad
    <3> HIDE DEF Bad
    <3> QED
      BY <1>3, <2>1, <2>2
  <2>4. N - (k - 1) = i + 1 /\ N - (k - 2) = i + 2
    BY <1>1, <2>1
  <2>5. SplitFacts(mems, g, i + 1) /\ SplitFacts(mems, g, i + 2)
    <3> HIDE DEF i
    <3> QED
      BY <2>2, <2>3, <2>4
  <2>6. i \in 1..Len(mems)
    BY <1>1, <1>4, <1>6
  <2> HIDE DEF i
  <2> QED
    BY <1>4, <2>5, <2>6, SplitStep
<1> QED
  BY <1>5, <1>6

LEMMA MembersCount ==
  ASSUME NEW mems \in Seq(Char)
  PROVE  nmem(mems) = IF mems = <<>> THEN 0 ELSE 1 + Count(mems, Comma, Len(mems))
<1>1. DOMAIN mems = 1..Len(mems)
  OBVIOUS
<1> QED
  BY <1>1 DEF nmem, Count

(* Where the members start: at most as many places as the array has room   *)
(* for; and, if none is empty, the first character and what is behind each *)
(* comma.                                                                  *)
StartsRight(mems, starts) ==
  /\ starts \in Seq(Nat) /\ Len(starts) <= nmem(mems)
  /\ NoneEmpty(mems) /\ mems # <<>> =>
       /\ Len(starts) = nmem(mems) /\ starts[1] = 1
       /\ \A k \in 2..Len(starts) :
            /\ starts[k] - 1 \in 1..Len(mems) /\ mems[starts[k] - 1] = Comma
            /\ Count(mems, Comma, starts[k] - 1) = k - 1

LEMMA Starts ==
  ASSUME NEW mems \in Seq(Char)
  PROVE  StartsRight(mems, MemberStarts(mems))
<1>1. CASE mems = <<>>
  <2>1. MemberStarts(mems) = <<>> /\ nmem(mems) = 0
    BY <1>1 DEF MemberStarts, nmem
  <2>2. Len(<<>>) = 0 /\ <<>> \in Seq(Nat) /\ 0 <= 0
    OBVIOUS
  <2> QED
    BY <1>1, <2>1, <2>2 DEF StartsRight
<1>2. CASE mems # <<>>
  <2>1. PICK g : SplitFrom(mems, 1, g) /\ MemberStarts(mems) = <<1>> \o g[1]
    BY <1>2, SplitIs
  <2>2. Len(mems) \in Nat /\ 1 <= Len(mems) /\ 1 \in 1..(Len(mems) + 2)
    BY <1>2
  <2>3. SplitFacts(mems, g, 1) /\ g[1] \in Seq(Nat)
    BY <2>1, <2>2, SplitAll DEF SplitFrom
  <2> DEFINE t == g[1]
             s == MemberStarts(mems)
             C == Count(mems, Comma, Len(mems))
  <2>4. C \in Nat /\ Count(mems, Comma, 0) = 0 /\ nmem(mems) = 1 + C
    BY <1>2, <2>2, CountFacts, MembersCount
  <2>5. CommasFrom(mems, 1) = C
    <3>1. 1 - 1 = 0
      OBVIOUS
    <3>2. CommasFrom(mems, 1) = C - Count(mems, Comma, 0)
      BY <2>2, <3>1 DEF CommasFrom
    <3> HIDE DEF C
    <3> QED
      BY <2>4, <3>2
  <2>6. /\ s \in Seq(Nat) /\ Len(s) = Len(t) + 1 /\ s[1] = 1
        /\ \A k \in 2..(Len(t) + 1) : s[k] = t[k - 1]
    BY <2>1, <2>3, OnePlace
  <2>7. Len(t) \in Nat /\ Len(t) <= C
    BY <2>3, <2>5 DEF SplitFacts
  <2> HIDE DEF s, C
  <2>8. Len(s) <= nmem(mems)
    <3> HIDE DEF t
    <3> QED
      BY <2>4, <2>6, <2>7
  <2>9. ASSUME NoneEmpty(mems)
        PROVE  /\ Len(s) = nmem(mems)
               /\ \A k \in 2..Len(s) :
                    /\ s[k] - 1 \in 1..Len(mems) /\ mems[s[k] - 1] = Comma
                    /\ Count(mems, Comma, s[k] - 1) = k - 1
    <3>1. Len(t) = C /\ ListsCommas(mems, Count(mems, Comma, 1 - 1), t)
      BY <2>2, <2>3, <2>5, <2>9 DEF SplitFacts
    <3>2. ListsCommas(mems, 0, t)
      <4>1. 1 - 1 = 0
        OBVIOUS
      <4> QED
        BY <2>4, <3>1, <4>1
    <3>3. ASSUME NEW k \in 2..Len(s)
          PROVE  /\ s[k] - 1 \in 1..Len(mems) /\ mems[s[k] - 1] = Comma
                 /\ Count(mems, Comma, s[k] - 1) = k - 1
      <4>1. k \in 2..(Len(t) + 1) /\ k - 1 \in 1..Len(t) /\ k \in Nat /\ 0 + (k - 1) = k - 1
        <5> HIDE DEF t
        <5> QED
          BY <2>6, <2>7
      <4>2. s[k] = t[k - 1]
        BY <2>6, <4>1
      <4>3. /\ t[k - 1] - 1 \in 1..Len(mems) /\ mems[t[k - 1] - 1] = Comma
            /\ Count(mems, Comma, t[k - 1] - 1) = 0 + (k - 1)
        BY <3>2, <4>1 DEF ListsCommas
      <4> HIDE DEF t
      <4> QED
        BY <4>1, <4>2, <4>3
    <3>4. Len(s) = nmem(mems)
      <4> HIDE DEF t
      <4> QED
        BY <2>4, <2>6, <2>7, <3>1
    <3> QED
      BY <3>3, <3>4
  <2> HIDE DEF t
  <2>10. StartsRight(mems, s)
    BY <2>6, <2>8, <2>9 DEF StartsRight
  <2> QED
    BY <2>10 DEF s
<1> QED
  BY <1>1, <1>2

(* Between the kth comma and the next there is none.                       *)
LEMMA NoMarkBetween ==
  ASSUME NEW s, NEW c, NEW a \in Nat, NEW b \in Nat, a < b,
         Count(s, c, b - 1) = Count(s, c, a)
  PROVE  \A q \in (a + 1)..(b - 1) : s[q] # c
<1> SUFFICES ASSUME NEW q \in (a + 1)..(b - 1), s[q] = c PROVE FALSE
  OBVIOUS
<1>1. q \in Nat \ {0} /\ q - 1 \in Nat /\ a <= q - 1 /\ q <= b - 1 /\ b - 1 \in Nat /\ q \in Nat
  OBVIOUS
<1>2. Count(s, c, q) = Count(s, c, q - 1) + 1
  BY <1>1, CountFacts
<1>3. Count(s, c, a) <= Count(s, c, q - 1) /\ Count(s, c, q) <= Count(s, c, b - 1)
  BY <1>1, CountMonotone
<1>4. Count(s, c, a) \in Nat /\ Count(s, c, q) \in Nat /\ Count(s, c, q - 1) \in Nat
  BY <1>1, CountFacts
<1> QED
  BY <1>2, <1>3, <1>4

LEMMA MembersAre ==
  ASSUME NEW mems \in Seq(Char)
  PROVE  /\ Len(Members(mems)) \in Nat /\ Len(Members(mems)) <= nmem(mems)
         /\ NoneEmpty(mems) =>
              Members(mems) = IF mems = <<>> THEN <<>>
                              ELSE [i \in 1..nmem(mems) |-> FieldOf(mems, Comma, i)]
<1> DEFINE starts == MemberStarts(mems)
           end(i) == IF i = Len(starts) THEN Len(mems) ELSE starts[i + 1] - 2
           n == Len(starts)
<1>1. StartsRight(mems, starts)
  BY Starts
<1>2. Members(mems) = [i \in DOMAIN starts |-> SubSeq(mems, starts[i], end(i))]
  BY DEF Members
<1> HIDE DEF starts
<1>3. n \in Nat /\ n <= nmem(mems) /\ \A k \in 1..n : starts[k] \in Nat
  BY <1>1 DEF StartsRight
<1>4. DOMAIN starts = 1..n
  BY <1>1 DEF StartsRight
<1>5. Members(mems) = [i \in 1..n |-> SubSeq(mems, starts[i], end(i))]
  BY <1>2, <1>4
<1>6. Len(Members(mems)) = n
  <2> HIDE DEF n, end
  <2> QED
    BY <1>3, <1>5
<1>7. CASE mems = <<>>
  <2>1. starts = <<>>
    BY <1>7 DEF starts, MemberStarts
  <2>2. n = 0
    BY <2>1
  <2>3. Members(mems) = <<>>
    <3> HIDE DEF n, end
    <3> QED
      BY <1>5, <2>2
  <2> QED
    BY <1>3, <1>6, <1>7, <2>3
<1>8. CASE mems # <<>>
  <2> SUFFICES ASSUME NoneEmpty(mems)
               PROVE  Members(mems) = [i \in 1..nmem(mems) |-> FieldOf(mems, Comma, i)]
    BY <1>3, <1>6, <1>8
  <2>1. /\ n = nmem(mems) /\ starts[1] = 1
        /\ \A k \in 2..n :
             /\ starts[k] - 1 \in 1..Len(mems) /\ mems[starts[k] - 1] = Comma
             /\ Count(mems, Comma, starts[k] - 1) = k - 1
    BY <1>1, <1>8 DEF StartsRight
  <2>2. Len(mems) \in Nat /\ 1 <= Len(mems)
    BY <1>8
  <2>3. nmem(mems) = 1 + Count(mems, Comma, Len(mems))
    BY <1>8, MembersCount
  <2>4. Count(mems, Comma, 0) = 0 /\ Count(mems, Comma, Len(mems)) \in Nat
    BY <2>2, CountFacts
  <2> HIDE DEF n, end
  <2>5. ASSUME NEW k \in 1..n
        PROVE  /\ starts[k] - 1 \in 0..Len(mems) /\ starts[k] \in Int
               /\ starts[k] - 1 = 0 \/ mems[starts[k] - 1] = Comma
               /\ Count(mems, Comma, starts[k] - 1) = k - 1
    <3>1. CASE k = 1
      <4>1. starts[k] - 1 = 0 /\ k - 1 = 0 /\ starts[k] \in Int
        BY <2>1, <3>1
      <4> QED
        BY <2>2, <2>4, <4>1
    <3>2. CASE k # 1
      <4>1. k \in 2..n
        BY <1>3, <3>2
      <4>2. starts[k] - 1 \in 1..Len(mems) /\ mems[starts[k] - 1] = Comma
            /\ Count(mems, Comma, starts[k] - 1) = k - 1
        BY <2>1, <4>1
      <4>3. starts[k] \in Int
        BY <1>3
      <4> QED
        BY <2>2, <4>2, <4>3
    <3> QED
      BY <3>1, <3>2
  <2>6. ASSUME NEW k \in 1..n
        PROVE  SubSeq(mems, starts[k], end(k)) = FieldOf(mems, Comma, k)
    <3> DEFINE a == starts[k] - 1
               b == end(k) + 1
    <3>1. a \in 0..Len(mems) /\ (a = 0 \/ mems[a] = Comma) /\ Count(mems, Comma, a) = k - 1
          /\ starts[k] \in Int
      BY <2>5
    <3>2. a \in Nat /\ k \in Nat
      BY <1>3, <3>1
    <3>3. /\ b \in (a + 1)..(Len(mems) + 1) /\ (b = Len(mems) + 1 \/ mems[b] = Comma)
          /\ Count(mems, Comma, b - 1) = k - 1
      <4>1. CASE k = n
        <5>1. b = Len(mems) + 1
          BY <4>1 DEF end, n
        <5>2. b - 1 = Len(mems)
          BY <2>2, <5>1
        <5>3. Count(mems, Comma, Len(mems)) = k - 1
          BY <2>1, <2>3, <2>4, <4>1
        <5> HIDE DEF a, b
        <5>4. b \in (a + 1)..(Len(mems) + 1)
          BY <2>2, <3>1, <5>1
        <5> QED
          BY <5>1, <5>2, <5>3, <5>4
      <4>2. CASE k # n
        <5>1. k + 1 \in 1..n
          BY <1>3, <4>2
        <5>2. /\ starts[k + 1] - 1 \in 0..Len(mems) /\ starts[k + 1] \in Int
              /\ starts[k + 1] - 1 = 0 \/ mems[starts[k + 1] - 1] = Comma
              /\ Count(mems, Comma, starts[k + 1] - 1) = (k + 1) - 1
          BY <2>5, <5>1
        <5>3. end(k) = starts[k + 1] - 2
          BY <4>2 DEF end, n
        <5>4. b = starts[k + 1] - 1
          BY <5>2, <5>3
        <5>5. b \in 0..Len(mems) /\ (b = 0 \/ mems[b] = Comma) /\ Count(mems, Comma, b) = k
          <6> HIDE DEF b
          <6> QED
            BY <3>2, <5>2, <5>4
        <5> HIDE DEF a, b
        <5>6. b # 0
          BY <1>3, <2>4, <5>5
        <5>7. ~(b <= a)
          <6>1. b <= a => Count(mems, Comma, b) <= Count(mems, Comma, a)
            BY <3>2, <5>5, CountMonotone
          <6> QED
            BY <3>1, <3>2, <5>5, <6>1
        <5>8. Count(mems, Comma, b) = Count(mems, Comma, b - 1) + 1
              /\ Count(mems, Comma, b - 1) \in Nat
          <6>1. b \in Nat \ {0} /\ b - 1 \in Nat /\ mems[b] = Comma
            BY <5>5, <5>6
          <6> QED
            BY <6>1, CountFacts
        <5>9. Count(mems, Comma, b - 1) = k - 1
          BY <3>2, <5>5, <5>8
        <5>10. b \in (a + 1)..(Len(mems) + 1)
          BY <2>2, <3>2, <5>5, <5>7
        <5> QED
          BY <5>5, <5>6, <5>9, <5>10
      <4> QED
        BY <4>1, <4>2
    <3>4. starts[k] = a + 1
      BY <3>1
    <3>5. end(k) = b - 1
      <4>1. end(k) \in Int
        <5>1. CASE k = n
          BY <2>2, <5>1 DEF end, n
        <5>2. CASE k # n
          <6>1. k + 1 \in 1..n
            BY <1>3, <5>2
          <6>2. starts[k + 1] \in Int
            BY <2>5, <6>1
          <6> QED
            BY <5>2, <6>2 DEF end, n
        <5> QED
          BY <5>1, <5>2
      <4> QED
        BY <4>1
    <3> HIDE DEF a, b
    <3>6. a < b /\ b \in Nat
      BY <2>2, <3>2, <3>3
    <3>7. \A q \in (a + 1)..(b - 1) : mems[q] # Comma
      BY <3>1, <3>2, <3>3, <3>6, NoMarkBetween
    <3>8. FieldOf(mems, Comma, k) = SubSeq(mems, a + 1, b - 1)
      BY <3>1, <3>2, <3>3, <3>7, FieldBetween
    <3> QED
      BY <3>4, <3>5, <3>8
  <2> QED
    BY <1>5, <2>1, <2>6
<1> QED
  BY <1>7, <1>8

LEMMA ProductOrder ==
  ASSUME NEW m \in Nat, NEW x \in Nat, NEW y \in Nat, x <= y
  PROVE  m * x <= m * y
OBVIOUS

(* Where the array lies.                                                   *)
LEMMA ArrayFits ==
  ASSUME NEW base \in Nat, NEW n \in Nat, NEW size \in Nat,
         NEW mems \in Seq(Char), ArrayBytes(mems) <= size - n,
         NEW k \in Nat, k <= nmem(mems)
  PROVE  Align(base, n) >= n /\ Align(base, n) + Pointer * (k + 1) <= size
<1>1. Pointer \in Nat \ {0} /\ nmem(mems) \in Nat
  BY CompatAssumption, ArrayBytesType
<1> DEFINE gap == (-(base + n)) % Pointer
           room == Pointer * (nmem(mems) + 1)
           used == Pointer * (k + 1)
<1>2. gap \in 0..(Pointer - 1)
  BY <1>1
<1>3. used <= room /\ used \in Nat /\ room \in Nat
  <2>1. k + 1 \in Nat /\ nmem(mems) + 1 \in Nat /\ k + 1 <= nmem(mems) + 1
    BY <1>1
  <2> QED
    BY <1>1, <2>1, ProductOrder
<1>4. room + (Pointer - 1) <= size - n
  BY DEF ArrayBytes
<1>5. Align(base, n) = n + gap
  BY DEF Align
<1> HIDE DEF gap, room, used
<1>6. Align(base, n) >= n /\ Align(base, n) + used <= size
  BY <1>1, <1>2, <1>3, <1>4, <1>5
<1> QED
  BY <1>6 DEF used

(* The list ends before the bytes behind the line.                         *)
EndsInTime(mems, gap) == mems = <<>> \/ mems[Len(mems)] # Comma \/ gap > 0

(* What MembersRight says of a step.                                       *)
MembersTaken ==
  LET members == result'.entry.rest
      mems == GroupEntry(line).rest
      array == ArrayAt(call.base, line)
  IN /\ NoneEmpty(mems) /\ EndsInTime(mems, Gap(call.base, line)) =>
          members = IF mems = <<>> THEN <<>>
                    ELSE [i \in 1..nmem(mems) |-> FieldOf(mems, Comma, i)]
     /\ array > Len(line)
     /\ members # None => array + Pointer * (Len(members) + 1) <= call.size

(* A list that ends in time is the one the loop makes.                     *)
LEMMA NoPointersRead ==
  ASSUME NEW mems \in Seq(Char), NEW gap, NoneEmpty(mems), EndsInTime(mems, gap)
  PROVE  ~ReadsPointers(mems, gap)
<1> SUFFICES ASSUME gap = 0, mems # <<>>, Last(MemberStarts(mems)) = Len(mems) + 1
             PROVE  FALSE
  BY DEF ReadsPointers
<1> DEFINE starts == MemberStarts(mems)
           n == Len(starts)
<1>1. /\ starts \in Seq(Nat) /\ n = nmem(mems) /\ starts[1] = 1
      /\ \A k \in 2..n : mems[starts[k] - 1] = Comma
  BY Starts DEF StartsRight
<1>2. mems[Len(mems)] # Comma /\ Len(mems) \in Nat /\ Len(mems) >= 1
  BY DEF EndsInTime
<1>3. Count(mems, Comma, Len(mems)) \in Nat
  BY <1>2, CountFacts
<1>4. n \in Nat /\ n >= 1
  <2>1. n = 1 + Count(mems, Comma, Len(mems))
    BY <1>1, MembersCount
  <2> HIDE DEF n
  <2> QED
    BY <1>3, <2>1
<1>5. starts[n] = Len(mems) + 1
  BY DEF Last
<1> HIDE DEF starts, n
<1>6. CASE n = 1
  BY <1>1, <1>2, <1>5, <1>6
<1>7. CASE n # 1
  <2>1. n \in 2..n /\ starts[n] - 1 = Len(mems)
    BY <1>2, <1>4, <1>5, <1>7
  <2> QED
    BY <1>1, <1>2, <2>1
<1> QED
  BY <1>6, <1>7

LEMMA StepMembers ==
  ASSUME CInv, Next, Returns, call.reader = "fgetgrent_r", result'.errno = "0"
  PROVE  MembersTaken
<1>1. call # None /\ CTypeOK
  BY DEF CInv, Returns
<1>2. fgetgrent_r
  BY <1>1 DEF Next, Begin, Seek, Fgets, Skip, fgetpwent_r, Returns, Return
<1>3. line # None /\ GroupEntry(line) # None
  BY <1>2 DEF fgetgrent_r
<1> DEFINE mems == GroupEntry(line).rest
           n == Len(line) + 1
<1>4. line \in Seq(Char)
  BY <1>1, <1>3, LineType
<1>5. mems \in Seq(Char)
  BY <1>3, <1>4, MembersText
<1>6. call.size \in Nat /\ call.base \in Nat
  <2>1. call \in [reader : Readers, size : Sizes, base : Bases] /\ call.size \in Nat
    BY <1>1, Typed
  <2>2. Bases \subseteq Nat
    BY CompatAssumption
  <2> QED
    BY <2>1, <2>2
<1>7. /\ ArrayBytes(mems) <= call.size - n
      /\ result'.entry.rest \in MemberLists(mems, Gap(call.base, line))
  BY <1>2 DEF fgetgrent_r, Return
<1>8. n \in Nat /\ Len(line) \in Nat /\ n > Len(line)
  BY <1>4
<1> DEFINE members == result'.entry.rest
           array == ArrayAt(call.base, line)
           gap == Gap(call.base, line)
<1>9. /\ members # None => Len(members) \in Nat /\ Len(members) <= nmem(mems)
      /\ NoneEmpty(mems) /\ EndsInTime(mems, gap) =>
           members = IF mems = <<>> THEN <<>>
                     ELSE [i \in 1..nmem(mems) |-> FieldOf(mems, Comma, i)]
  <2> HIDE DEF mems, members, gap
  <2>1. members \in {Members(mems)} \cup (IF ReadsPointers(mems, gap) THEN {None} ELSE {})
    BY <1>7 DEF MemberLists, members, gap
  <2>2. members # None => members = Members(mems)
    BY <2>1
  <2>3. NoneEmpty(mems) /\ EndsInTime(mems, gap) => members = Members(mems)
    BY <1>5, <2>1, NoPointersRead
  <2> QED
    BY <1>5, <2>2, <2>3, MembersAre
<1>10. array = Align(call.base, n)
  BY DEF ArrayAt
<1> HIDE DEF mems, n, members, array, gap
<1>11. /\ array >= n
       /\ members # None => array + Pointer * (Len(members) + 1) <= call.size
  <2>1. array >= n
    <3>1. 0 <= nmem(mems) /\ 0 \in Nat
      BY <1>5, ArrayBytesType
    <3> QED
      BY <1>5, <1>6, <1>7, <1>8, <1>10, <3>1, ArrayFits
  <2> QED
    BY <1>5, <1>6, <1>7, <1>8, <1>9, <1>10, <2>1, ArrayFits
<1>12. array > Len(line)
  <2>1. array \in Int
    <3>1. Pointer \in Nat \ {0}
      BY CompatAssumption
    <3> QED
      BY <1>6, <1>8, <1>10, <3>1 DEF Align
  <2> QED
    BY <1>8, <1>11, <2>1
<1> QED
  BY <1>9, <1>11, <1>12 DEF MembersTaken, mems, members, array, gap

THEOREM MembersAreRight == Spec => MembersRight
<1>1. CInv /\ [Next]_vars =>
        [Returns /\ call.reader = "fgetgrent_r" /\ result'.errno = "0" => MembersTaken]_vars
  BY StepMembers
<1> QED
  BY Invariance, <1>1, PTL DEF Spec, MembersRight, MembersTaken, NoneEmpty, EndsInTime
=============================================================================
