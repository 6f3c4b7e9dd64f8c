----------------------------- MODULE IndexFile -----------------------------
(***************************************************************************)
(* An index file byte by byte: scripts/index.sh writes it, and the search  *)
(* of _nss_cache_bsearch2 reads it, in processes that do not know of each  *)
(* other.  NssCache takes an index for a set of records; this module shows *)
(* when that is what a search sees.                                        *)
(*                                                                         *)
(* The script lists the lines of the map, truncates its output, and writes *)
(* a record for each key, sorted: the key, NUL, the offset of the line in  *)
(* decimal, NUL, more NULs up to Pad bytes, and a newline.  The output is  *)
(* written in place: a process that opens it by the link that make puts    *)
(* under the name of the index sees it grow.                               *)
(*                                                                         *)
(* The search maps the file and looks at it many times: at each byte until *)
(* the first newline, at a record in each probe of bsearch, and at the     *)
(* record that was hit, once for strlen and once for sscanf.  The mapping  *)
(* is the file as it is by then: the script writes, and begins again,      *)
(* between any two looks.                                                  *)
(***************************************************************************)
EXTENDS Integers, Sequences, FiniteSets, TLC

LOCAL INSTANCE SequencesExt
LOCAL INSTANCE FiniteSetsExt

CONSTANTS
  Versions,  \* versions of the map file: sequences of lines
  Keys,      \* keys that are searched for
  Pad,       \* the length records are padded to (16 in the script)
  Wide,      \* offsets from here on (10^6) fill their column of the listing
  Page,      \* the size of a page of memory
  MaxTime    \* bound on the clock, to keep the model finite

NUL == 0
Newline == 10
Blank == 32
Digits == 48..57
Byte == 0..127
Text == Seq(Byte \ {NUL}) \ {<<>>}

(* A line of the map: the field that is indexed, and the line's offset.    *)
(* Offsets have one or two digits in the model.                            *)
ASSUME IndexFileAssumption ==
  /\ \A v \in Versions :
       /\ v \in Seq([key : Text, off : 0..99])
       /\ \A i, j \in DOMAIN v : i < j => v[i].off < v[j].off
  /\ Keys \subseteq Text
  /\ Pad \in Nat /\ Wide \in Nat /\ MaxTime \in Nat
  /\ Page \in Nat \ {0}

VARIABLES
  map,     \* the map file: its version, the second it was written, and
           \* (history) the second it was put in place
  now,     \* the clock
  out,     \* the index file: its bytes and the second it was last written
  made,    \* history: the version the bytes of out come from, and the
           \* second that version was listed
  script,  \* the running script: where it is and what it has left to write
  reader   \* a search: where it is, what it knows and what it answers

vars == <<map, now, out, made, script, reader>>

-----------------------------------------------------------------------------
(* Text. *)

Decimal(n) ==
  IF n < 10 THEN <<48 + n>> ELSE <<48 + (n \div 10), 48 + (n % 10)>>

Occurs(k, s) ==
  \E i \in 0..(Len(s) - Len(k)) : SubSeq(s, i + 1, i + Len(k)) = k

(* strcmp(a, b) < 0 *)
Before(a, b) ==
  \E i \in 1..Len(b) :
    /\ i <= Len(a) + 1
    /\ \A j \in 1..(i - 1) : a[j] = b[j]
    /\ i <= Len(a) => a[i] < b[i]

(* A file in memory goes on with NULs to the end of its last page. *)
At(b, i) == IF i <= Len(b) THEN b[i] ELSE NUL

InPages(n, i) == i <= Page * ((n + Page - 1) \div Page)

(* The first place from i on whose byte is not in S. *)
Past(b, i, S) ==
  IF At(b, i) \notin S THEN i
  ELSE Min({j \in i..(Len(b) + 1) : At(b, j) \notin S})

(* The string that starts at i, and the NUL that ends it. *)
TextEnd(b, i) == Past(b, i, Byte \ {NUL})
TextAt(b, i) == SubSeq(b, i, TextEnd(b, i) - 1)

(* What sscanf makes of it with "%ld"; offset keeps its 0 if that finds no *)
(* number.                                                                 *)
NumberAt(b, i) ==
  LET s == Past(b, i, {Blank, Newline}) IN
  FoldLeft(LAMBDA n, d : 10 * n + (d - 48), 0,
           SubSeq(b, s, Past(b, s, Digits) - 1))

-----------------------------------------------------------------------------
(* What the script computes from a version of the map. *)

(* "strings -at d" writes each line behind its offset. *)
Listing(l) == Decimal(l.off) \o <<Blank>> \o l.key

(* An offset that fills its column has no blank before it, and "cut -f3"   *)
(* finds no text behind it.                                                *)
KeysListed(v) ==
  LET narrow == SelectSeq(v, LAMBDA l : l.off < Wide) IN
  [i \in DOMAIN narrow |-> narrow[i].key]

(* LC_COLLATE=C sort; a key that occurs twice is kept twice.  Mutant: in   *)
(* the order of the map.                                                   *)
SortedKeysUnsorted(v) == KeysListed(v)

SortedKeys(v) == SortSeq(KeysListed(v), Before)

(* The offsets of the lines in which grep finds a key: it looks at the     *)
(* offset too.                                                             *)
Hits(v, k) == {v[i].off : i \in {j \in DOMAIN v : Occurs(k, Listing(v[j]))}}

(* printf takes the first of the offsets.  Mutant: the last. *)
OffsetOfLast(v, k) == Max(Hits(v, k))

OffsetOf(v, k) == Min(Hits(v, k))

RecordText(v, k) == k \o <<NUL>> \o Decimal(OffsetOf(v, k)) \o <<NUL>>

Padding(t) == IF Len(t) < Pad THEN Pad - Len(t) ELSE 0

-----------------------------------------------------------------------------
(* scripts/index.sh *)

(* What has become of an index that a search has open.                     *)
AfterWrite(file, bytes) ==
  IF file = "none" THEN "none"
  ELSE IF bytes = <<>> \/ file = "rewritten" THEN "rewritten" ELSE "grows"

Write(bytes) ==
  /\ out' = [bytes |-> bytes, mtime |-> now]
  /\ reader' = [reader EXCEPT !.file = AfterWrite(@, bytes)]
  /\ UNCHANGED <<map, now>>

List ==
  /\ script.at = "idle"
  /\ script' = [at |-> "truncate", from |-> map.data, since |-> now,
                todo |-> SortedKeys(map.data), pads |-> 0]
  /\ UNCHANGED <<map, now, out, made, reader>>

Truncate ==
  /\ script.at = "truncate"
  /\ Write(<<>>)
  /\ made' = [data |-> script.from, since |-> script.since]
  /\ script' = [script EXCEPT !.at = "text"]

WriteText ==
  /\ script.at = "text" /\ script.todo # <<>>
  /\ LET t == RecordText(script.from, Head(script.todo)) IN
       /\ Write(out.bytes \o t)
       /\ script' = [script EXCEPT !.at = "pad", !.pads = Padding(t)]
  /\ UNCHANGED made

WritePad ==
  /\ script.at = "pad" /\ script.pads > 0
  /\ Write(Append(out.bytes, NUL))
  /\ script' = [script EXCEPT !.pads = @ - 1]
  /\ UNCHANGED made

WriteNewline ==
  /\ script.at = "pad" /\ script.pads = 0
  /\ Write(Append(out.bytes, Newline))
  /\ script' = [script EXCEPT !.at = "text", !.todo = Tail(@)]
  /\ UNCHANGED made

NotRunning == [at |-> "idle", from |-> <<>>, since |-> 0, todo |-> <<>>,
               pads |-> 0]

EndScript ==
  /\ script.at = "text" /\ script.todo = <<>>
  /\ script' = NotRunning
  /\ UNCHANGED <<map, now, out, made, reader>>

-----------------------------------------------------------------------------
(* The search.  An answer is that the linear search has to do it, that     *)
(* there is no record, the offset of a record, or "wild": the search read  *)
(* outside of memory, which the process may not survive.                   *)
Answers == {"none", "fallback", "notfound", "found", "wild"}

(* Its local variables: what stat and fstat said, the length of a record   *)
(* (while it is looked for, the bytes looked at), the bounds of bsearch,   *)
(* and the place it has got to in the record that was hit.  History:       *)
(* whether the map is still the one it looked at, and what has become of   *)
(* the index since fstat.                                                  *)
NoSearch == [at |-> "idle", key |-> <<>>, mapTime |-> 0, size |-> 0,
             entry_size |-> 0, low |-> 0, high |-> 0, entry |-> 0,
             answer |-> "none", off |-> 0, steady |-> FALSE, file |-> "none"]

Searching == {"newline", "probe", "length", "number"}

(* The index is whole while no run of the script is writing it. *)
Whole ==
  \/ script.at \in {"idle", "truncate"}
  \/ script.at = "text" /\ script.todo = <<>>

Answer(a, off) == reader' = [NoSearch EXCEPT !.answer = a, !.off = off]

(* Places in memory: those on the pages that were mapped and that the file *)
(* still has.                                                              *)
Mapped(i) == InPages(reader.size, i) /\ InPages(Len(out.bytes), i)

(* The index is there; stat of the map file. *)
StatMap(k) ==
  /\ reader.at = "idle"
  /\ reader' = [NoSearch EXCEPT !.at = "stat", !.key = k,
                                !.mapTime = map.mtime, !.steady = TRUE]
  /\ UNCHANGED <<map, now, out, made, script>>

(* Mutant: the ages are not compared. *)
OlderNever == FALSE

Older == reader.mapTime > out.mtime

(* fstat of the index: its age and its size; an empty file is not mapped.  *)
StatIndex ==
  /\ reader.at = "stat"
  /\ \/ /\ Older \/ out.bytes = <<>>
        /\ Answer("fallback", 0)
     \/ /\ ~Older /\ out.bytes # <<>>
        /\ reader' = [NoSearch EXCEPT
              !.at = "newline", !.key = reader.key, !.size = Len(out.bytes),
              !.entry_size = 1, !.file = IF Whole THEN "whole" ELSE "grows"]
  /\ UNCHANGED <<map, now, out, made, script>>

(* The loop that looks for the first newline; all records are taken to be  *)
(* as long as the first.                                                   *)
NextByte ==
  LET i == reader.entry_size IN
  /\ reader.at = "newline"
  /\ \/ /\ ~Mapped(i)
        /\ Answer("wild", 0)
     \/ /\ Mapped(i) /\ At(out.bytes, i) # Newline
        /\ reader' = [reader EXCEPT !.entry_size = i + 1]
     \/ /\ Mapped(i) /\ At(out.bytes, i) = Newline
        /\ reader' = [reader EXCEPT !.at = "probe", !.high = reader.size \div i]
  /\ UNCHANGED <<map, now, out, made, script>>

(* bsearch of the C library: strcmp of the key and the record in the       *)
(* middle.                                                                 *)
Probe ==
  LET i == (reader.low + reader.high) \div 2
      p == i * reader.entry_size + 1
      text == TextAt(out.bytes, p)
      mapped == Mapped(TextEnd(out.bytes, p))
  IN
  /\ reader.at = "probe"
  /\ \/ /\ reader.low >= reader.high
        /\ Answer("notfound", 0)
     \/ /\ reader.low < reader.high /\ ~mapped
        /\ Answer("wild", 0)
     \/ /\ reader.low < reader.high /\ mapped
        /\ \/ /\ Before(reader.key, text)
              /\ reader' = [reader EXCEPT !.high = i]
           \/ /\ Before(text, reader.key)
              /\ reader' = [reader EXCEPT !.low = i + 1]
           \/ /\ text = reader.key
              /\ reader' = [reader EXCEPT !.at = "length", !.entry = p]
  /\ UNCHANGED <<map, now, out, made, script>>

(* strlen(entry_text) *)
ReadLength ==
  LET end == TextEnd(out.bytes, reader.entry) IN
  /\ reader.at = "length"
  /\ \/ /\ ~Mapped(end)
        /\ Answer("wild", 0)
     \/ /\ Mapped(end)
        /\ reader' = [reader EXCEPT !.at = "number", !.entry = end + 1]
  /\ UNCHANGED <<map, now, out, made, script>>

(* sscanf of what follows. *)
ReadOffset ==
  /\ reader.at = "number"
  /\ \/ /\ ~Mapped(TextEnd(out.bytes, reader.entry))
        /\ Answer("wild", 0)
     \/ /\ Mapped(TextEnd(out.bytes, reader.entry))
        /\ Answer("found", NumberAt(out.bytes, reader.entry))
  /\ UNCHANGED <<map, now, out, made, script>>

Search == StatIndex \/ NextByte \/ Probe \/ ReadLength \/ ReadOffset

-----------------------------------------------------------------------------
(* The synchroniser puts a version of the map in place, which it has       *)
(* written before: renaming a file leaves its time alone.                  *)
Replace(v, written) ==
  /\ map' = [data |-> v, mtime |-> written, since |-> now]
  /\ reader' = [reader EXCEPT !.steady = FALSE]
  /\ UNCHANGED <<now, out, made, script>>

Tick ==
  /\ now < MaxTime
  /\ now' = now + 1
  /\ UNCHANGED <<map, out, made, script, reader>>

Init ==
  /\ map \in [data : Versions, mtime : {0}, since : {0}]
  /\ now = 0
  /\ out = [bytes |-> <<>>, mtime |-> 0]
  /\ made = [data |-> <<>>, since |-> 0]
  /\ script = NotRunning
  /\ reader = NoSearch

Script == List \/ Truncate \/ WriteText \/ WritePad \/ WriteNewline \/ EndScript

Next ==
  \/ Script
  \/ \E k \in Keys : StatMap(k)
  \/ Search
  \/ \E v \in Versions, written \in 0..now : Replace(v, written)
  \/ Tick

Spec == Init /\ [][Next]_vars

-----------------------------------------------------------------------------
(* The keys a version has, and those the script lists. *)
HasKey(v, k) == \E i \in DOMAIN v : v[i].key = k
Lists(v, k) == \E i \in DOMAIN v : v[i].key = k /\ v[i].off < Wide

(* No record of v is longer than the others. *)
Even(v) == \A i \in DOMAIN v : Len(RecordText(v, v[i].key)) <= Pad

Searched == reader.at \in Searching /\ reader'.at = "idle"

(***************************************************************************)
(* If the records are of one length, a search that finds a record finds    *)
(* the one of its key: a key of the version the index is made from, with   *)
(* the offset of a line that is its own or stands before it.  So it is     *)
(* also while the script appends to the file between any two looks of the  *)
(* search, unless the script has begun the file again since fstat: then    *)
(* the record that was hit may be another key's by the time its offset is  *)
(* read.  (The entry read at the offset is compared with the key, in       *)
(* _nss_cache_XXX_wrap.)                                                   *)
(***************************************************************************)
FoundIsRight ==
  [][Searched /\ reader'.answer = "found" /\ Even(made.data)
       /\ reader.file # "rewritten" =>
       \E i \in DOMAIN made.data :
         /\ made.data[i].key = reader.key
         /\ reader'.off <= made.data[i].off
         /\ reader'.off = OffsetOf(made.data, reader.key)]_vars

(***************************************************************************)
(* A search misses a record, or reads outside of memory, only if the       *)
(* script was writing the file between the moment the search took its size *)
(* and the end of the search: a whole index has every key whose line the   *)
(* script listed.                                                          *)
(***************************************************************************)
MissOnlyWhileWritten ==
  [][Searched /\ reader.file = "whole" /\ Even(made.data) =>
       /\ reader'.answer # "wild"
       /\ Lists(made.data, reader.key) => reader'.answer = "found"]_vars

(***************************************************************************)
(* The comparison of ages lets an index pass that was made from another    *)
(* version of the map only if the map was put in place in the second in    *)
(* which the script listed the other, or later (or since the search looked *)
(* at the map), and had been written by the second in which the index last *)
(* was.  A map put in place before the listing is in the index; one        *)
(* written after the index makes it too old.                               *)
(***************************************************************************)
AgeWindow ==
  [][reader.at = "stat" /\ reader'.at = "newline" /\ reader.steady =>
       \/ made.data = map.data
       \/ made.since <= map.since /\ map.mtime <= out.mtime]_vars

(***************************************************************************)
(* "Binary username lookups" of the Makefile, which end at the first key   *)
(* that is not found: a whole index has the keys of the map it was made    *)
(* from.                                                                   *)
(***************************************************************************)
IndexedKeyFound ==
  [][Searched /\ reader.file = "whole" /\ HasKey(made.data, reader.key) =>
       reader'.answer = "found"]_vars
=============================================================================
