-------------------------- MODULE IndexFileProofs --------------------------
(***************************************************************************)
(* What the comparison of ages is worth, for every map, every schedule of  *)
(* the script and every clock.  The bytes of the index do not matter here: *)
(* the argument is about which version they come from, and when that       *)
(* version was listed.                                                     *)
(***************************************************************************)
EXTENDS IndexFile, TLAPS

(* A version that was in place at a second: it still is, or it has been    *)
(* replaced since.                                                         *)
ListedAt(data, since) == data = map.data \/ since <= map.since

Clocks ==
  /\ now \in Nat
  /\ map.mtime \in Nat /\ map.since \in Nat /\ out.mtime \in Nat
  /\ made.since \in Nat /\ made.since <= now
  /\ script.since \in Nat /\ script.since <= now

(* What the script has listed, and what the index has been made from.      *)
Provenance ==
  /\ script.at # "idle" => ListedAt(script.from, script.since)
  /\ ListedAt(made.data, made.since)

(* A search that has looked at the map knows its age until the map is      *)
(* replaced.                                                               *)
KnowsAge == reader.at = "stat" /\ reader.steady => reader.mapTime = map.mtime

ReaderShape ==
  reader = [at |-> reader.at, key |-> reader.key, mapTime |-> reader.mapTime,
            size |-> reader.size, entry_size |-> reader.entry_size,
            low |-> reader.low, high |-> reader.high, entry |-> reader.entry,
            answer |-> reader.answer, off |-> reader.off,
            steady |-> reader.steady, file |-> reader.file]

ScriptShape ==
  script = [at |-> script.at, from |-> script.from, since |-> script.since,
            todo |-> script.todo, pads |-> script.pads]

Shapes == ReaderShape /\ ScriptShape

AInv == Clocks /\ Provenance /\ KnowsAge /\ Shapes

(* The property of a single step, as AgeWindow has it.                     *)
AgeWindowStep ==
  reader.at = "stat" /\ reader'.at = "newline" /\ reader.steady =>
    \/ made.data = map.data
    \/ made.since <= map.since /\ map.mtime <= out.mtime

LEMMA InitAInv == Init => AInv
BY DEF Init, AInv, Clocks, Provenance, KnowsAge, Shapes, ReaderShape,
       ScriptShape, ListedAt, NotRunning,
       NoSearch

(* A write of the script leaves the map, the clock and what a search knows *)
(* of the map alone.                                                       *)
LEMMA WriteKeeps ==
  ASSUME AInv, NEW bytes, Write(bytes)
  PROVE  /\ map' = map /\ now' = now /\ out'.mtime = now
         /\ reader'.at = reader.at /\ reader'.steady = reader.steady
         /\ reader'.mapTime = reader.mapTime
         /\ KnowsAge'
         /\ ReaderShape'
<1>1. /\ map' = map /\ now' = now /\ out'.mtime = now
      /\ reader' = [reader EXCEPT !.file = AfterWrite(reader.file, bytes)]
  BY DEF Write
<1>2. Shapes /\ KnowsAge
  BY DEF AInv
<1>3. ReaderShape' /\ reader'.at = reader.at /\ reader'.steady = reader.steady
        /\ reader'.mapTime = reader.mapTime
  BY <1>1, <1>2 DEF Shapes, ReaderShape
<1> QED
  BY <1>1, <1>2, <1>3 DEF KnowsAge

(* The steps of the script: a listing is of the version in place, a        *)
(* truncation makes the index one of the version listed.                   *)
LEMMA ScriptKeeps ==
  ASSUME AInv, Script
  PROVE  AInv'
<1> USE DEF AInv, Clocks, Provenance, ListedAt
<1>1. CASE List
  BY <1>1 DEF List, KnowsAge, Shapes, ReaderShape, ScriptShape
<1>2. ASSUME NEW bytes, Write(bytes), UNCHANGED made,
             script'.from = script.from, script'.since = script.since,
             script.at # "idle",
             script' = [at |-> script'.at, from |-> script'.from,
                        since |-> script'.since, todo |-> script'.todo,
                        pads |-> script'.pads]
      PROVE  AInv'
  BY <1>2, WriteKeeps DEF Shapes, ScriptShape
<1>3. CASE Truncate
  <2>1. Write(<<>>) /\ script.at = "truncate"
    BY <1>3 DEF Truncate
  <2>2. /\ made' = [data |-> script.from, since |-> script.since]
        /\ script' = [at |-> "text", from |-> script.from,
                      since |-> script.since, todo |-> script.todo,
                      pads |-> script.pads]
    BY <1>3 DEF Truncate, Shapes, ScriptShape
  <2> QED
    BY <2>1, <2>2, WriteKeeps DEF Shapes, ScriptShape
<1>4. CASE WriteText
  <2> DEFINE t == RecordText(script.from, Head(script.todo))
  <2>1. Write(out.bytes \o t) /\ UNCHANGED made /\ script.at = "text"
    BY <1>4 DEF WriteText
  <2>2. script' = [at |-> "pad", from |-> script.from, since |-> script.since,
                   todo |-> script.todo, pads |-> Padding(t)]
    BY <1>4 DEF WriteText, Shapes, ScriptShape
  <2> QED
    BY <2>1, <2>2, <1>2
<1>5. CASE WritePad
  <2>1. /\ Write(Append(out.bytes, NUL)) /\ UNCHANGED made
        /\ script.at = "pad"
    BY <1>5 DEF WritePad
  <2>2. script' = [at |-> script.at, from |-> script.from,
                   since |-> script.since, todo |-> script.todo,
                   pads |-> script.pads - 1]
    BY <1>5 DEF WritePad, Shapes, ScriptShape
  <2> QED
    BY <2>1, <2>2, <1>2
<1>6. CASE WriteNewline
  <2>1. /\ Write(Append(out.bytes, Newline)) /\ UNCHANGED made
        /\ script.at = "pad"
    BY <1>6 DEF WriteNewline
  <2>2. script' = [at |-> "text", from |-> script.from,
                   since |-> script.since, todo |-> Tail(script.todo),
                   pads |-> script.pads]
    BY <1>6 DEF WriteNewline, Shapes, ScriptShape
  <2> QED
    BY <2>1, <2>2, <1>2
<1>7. CASE EndScript
  BY <1>7 DEF EndScript, NotRunning, KnowsAge, Shapes, ReaderShape, ScriptShape
<1> QED
  BY <1>1, <1>3, <1>4, <1>5, <1>6, <1>7 DEF Script

(* The steps of a search before it looks at the bytes, and the window: an  *)
(* index that passes has the age of the map or a later one.                *)
LEMMA StatKeeps ==
  ASSUME AInv, (\E k \in Keys : StatMap(k)) \/ StatIndex
  PROVE  AInv' /\ AgeWindowStep
<1> USE DEF AInv, Clocks, Provenance, ListedAt
<1>1. CASE \E k \in Keys : StatMap(k)
  <2>1. /\ UNCHANGED <<map, now, out, made, script>>
        /\ reader.at = "idle"
        /\ \E k \in Keys :
             reader' = [NoSearch EXCEPT !.at = "stat", !.key = k,
                                        !.mapTime = map.mtime, !.steady = TRUE]
    BY <1>1 DEF StatMap
  <2>2. ReaderShape' /\ reader'.mapTime = map.mtime
    BY <2>1 DEF ReaderShape, NoSearch
  <2> QED
    BY <2>1, <2>2 DEF KnowsAge, Shapes, ScriptShape, AgeWindowStep
<1>2. CASE StatIndex
  <2>1. UNCHANGED <<map, now, out, made, script>> /\ reader.at = "stat"
    BY <1>2 DEF StatIndex
  <2>2. CASE Older \/ out.bytes = <<>>
    <3>1. reader' = [NoSearch EXCEPT !.answer = "fallback", !.off = 0]
      BY <1>2, <2>2 DEF StatIndex, Answer
    <3>2. ReaderShape' /\ reader'.at = "idle"
      BY <3>1 DEF ReaderShape, NoSearch
    <3> QED
      BY <2>1, <3>2 DEF KnowsAge, Shapes, ScriptShape, AgeWindowStep
  <2>3. CASE ~Older /\ out.bytes # <<>>
    <3>1. reader' = [NoSearch EXCEPT
            !.at = "newline", !.key = reader.key, !.size = Len(out.bytes),
            !.entry_size = 1, !.file = IF Whole THEN "whole" ELSE "grows"]
      BY <1>2, <2>3 DEF StatIndex
    <3>2. ReaderShape' /\ reader'.at = "newline"
      BY <3>1 DEF ReaderShape, NoSearch
    <3>3. AInv'
      BY <2>1, <3>2 DEF KnowsAge, Shapes, ScriptShape
    <3>4. ~(reader.mapTime > out.mtime)
      BY <2>3 DEF Older
    <3>5. reader.steady => ~(map.mtime > out.mtime)
      BY <2>1, <3>4 DEF KnowsAge
    <3> QED
      BY <2>1, <3>3, <3>5 DEF AgeWindowStep
  <2> QED
    BY <2>2, <2>3
<1> QED
  BY <1>1, <1>2

(* The looks at the bytes: whatever they find, the ages are done with.     *)
LEMMA LookKeeps ==
  ASSUME AInv, NextByte \/ Probe \/ ReadLength \/ ReadOffset
  PROVE  AInv' /\ AgeWindowStep
<1> USE DEF AInv, Clocks, Provenance, ListedAt
<1>1. UNCHANGED <<map, now, out, made, script>> /\ reader.at # "stat"
  BY DEF NextByte, Probe, ReadLength, ReadOffset
<1>2. ReaderShape' /\ reader'.at # "stat"
  <2>1. ASSUME NEW a, NEW o, Answer(a, o)
        PROVE  ReaderShape' /\ reader'.at # "stat"
    <3>1. reader' = [NoSearch EXCEPT !.answer = a, !.off = o]
      BY <2>1 DEF Answer
    <3> QED
      BY <3>1 DEF ReaderShape, NoSearch
  <2>2. CASE NextByte
    BY <2>1, <2>2 DEF NextByte, Shapes, ReaderShape
  <2>3. CASE Probe
    BY <2>1, <2>3 DEF Probe, Shapes, ReaderShape
  <2>4. CASE ReadLength
    BY <2>1, <2>4 DEF ReadLength, Shapes, ReaderShape
  <2>5. CASE ReadOffset
    BY <2>1, <2>5 DEF ReadOffset
  <2> QED
    BY <2>2, <2>3, <2>4, <2>5
<1> QED
  BY <1>1, <1>2 DEF KnowsAge, Shapes, ScriptShape, AgeWindowStep

(* A replacement comes at or after the second of any listing so far.       *)
LEMMA WorldKeeps ==
  ASSUME AInv,
         (\E v \in Versions, written \in 0..now : Replace(v, written)) \/ Tick
  PROVE  AInv' /\ reader'.at = reader.at
<1> USE DEF AInv, Clocks, Provenance, ListedAt
<1>1. CASE \E v \in Versions, written \in 0..now : Replace(v, written)
  <2>1. PICK v \in Versions, written \in 0..now : Replace(v, written)
    BY <1>1
  <2>2. /\ UNCHANGED <<now, out, made, script>>
        /\ map'.mtime = written /\ map'.since = now
        /\ reader' = [reader EXCEPT !.steady = FALSE]
    BY <2>1 DEF Replace
  <2>3. ReaderShape' /\ reader'.at = reader.at /\ ~reader'.steady
    BY <2>2 DEF Shapes, ReaderShape
  <2>4. map'.mtime \in Nat /\ map'.since \in Nat
    BY <2>1, <2>2
  <2> QED
    BY <2>2, <2>3, <2>4 DEF KnowsAge, Shapes, ScriptShape
<1>2. CASE Tick
  BY <1>2 DEF Tick, KnowsAge, Shapes, ReaderShape, ScriptShape
<1> QED
  BY <1>1, <1>2

LEMMA StepAInv ==
  ASSUME AInv, [Next]_vars
  PROVE  AInv' /\ (Next => AgeWindowStep)
<1>1. CASE Script
  <2>1. reader'.at = reader.at
    <3>1. ASSUME NEW bytes, Write(bytes) PROVE reader'.at = reader.at
      BY <3>1, WriteKeeps
    <3>2. UNCHANGED reader \/ \E bytes : Write(bytes)
      BY <1>1 DEF Script, List, Truncate, WriteText, WritePad, WriteNewline,
                  EndScript
    <3> QED
      BY <3>1, <3>2
  <2> QED
    BY <1>1, <2>1, ScriptKeeps DEF AgeWindowStep
<1>2. CASE (\E k \in Keys : StatMap(k)) \/ Search
  BY <1>2, StatKeeps, LookKeeps DEF Search
<1>3. CASE (\E v \in Versions, written \in 0..now : Replace(v, written)) \/ Tick
  BY <1>3, WorldKeeps DEF AgeWindowStep
<1>4. CASE UNCHANGED vars
  BY <1>4 DEF vars, AInv, Clocks, Provenance, KnowsAge, Shapes, ReaderShape,
              ScriptShape, ListedAt, AgeWindowStep
<1> QED
  BY <1>1, <1>2, <1>3, <1>4 DEF Next

LEMMA Invariance == Spec => []AInv
<1>1. AInv /\ [Next]_vars => AInv'
  BY StepAInv
<1> QED
  BY InitAInv, <1>1, PTL DEF Spec

(***************************************************************************)
(* An index of another version of the map passes the comparison of ages    *)
(* only if the map was put in place in the second in which the script      *)
(* listed the other or later, and had been written by the second of the    *)
(* index's last write: stat, fstat and the comparison in                   *)
(* _nss_cache_bsearch2, with index.sh running at any time and any number   *)
(* of times.                                                               *)
(***************************************************************************)
THEOREM AgesAreCompared == Spec => AgeWindow
<1>1. AInv /\ [Next]_vars => [AgeWindowStep]_vars
  BY StepAInv
<1> QED
  BY Invariance, <1>1, PTL DEF Spec, AgeWindow, AgeWindowStep
=============================================================================
