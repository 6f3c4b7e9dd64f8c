---------------------------- MODULE CompatReader ----------------------------
(***************************************************************************)
(* compat/getpwent_r.c and compat/getgrent_r.c: the readers of entries     *)
(* that BSD and musl builds use, character by character.  Other modules    *)
(* see them as the operator Read of NssData; this one shows that a reader  *)
(* does what Read says, and that the entry is what the line says.          *)
(***************************************************************************)
EXTENDS Integers, FiniteSets, SequencesExt

CONSTANTS
  Files,     \* what the file may hold: sequences of characters
  Sizes,     \* sizes of the caller's buffer
  Bases,     \* addresses of the caller's buffer, modulo the size of a pointer
  Pointer,   \* sizeof(char *), a power of 2
  UintBits,  \* width of unsigned
  None       \* no call, no entry

Newline == 10
Comma == 44
Colon == 58
Digits == 48..57
Char == 1..127

Readers == {"fgetpwent_r", "fgetgrent_r"}

ASSUME CompatAssumption ==
  /\ Files \subseteq Seq(Char)
  /\ Sizes \subseteq Nat \ {0, 1}
  /\ Pointer \in Nat \ {0} /\ Bases \subseteq 0..(Pointer - 1)
  /\ UintBits \in Nat \ {0}
  /\ None \notin Seq(Char)
  /\ None \notin [reader : Readers, size : Sizes, base : Bases]
  /\ None \notin [name : Seq(Char), id : Int, gid : Int, rest : Seq(Char)]
  /\ 2 ^ UintBits \in Nat \ {0}

VARIABLES
  file,   \* the contents of the file
  pos,    \* the position of the stream
  call,   \* None or the call: the reader, the buffer's size and address
  line,   \* what fgets put into the buffer, up to the newline; or None
  begun,  \* history: the position of the stream when the call began
  result  \* the last result: an errno ("0" for none) and an entry

vars == <<file, pos, call, line, begun, result>>

-----------------------------------------------------------------------------
(* The first position from i on that holds a character of S, or the one    *)
(* behind the end.                                                         *)
Find(s, i, S) == Min({j \in i..Len(s) : s[j] \in S} \cup {Max({i, Len(s) + 1})})

(* There is a colon at each of these places.  Mutant: at one of them.      *)
ColonsAtSome(s, places) == \E i \in places : i <= Len(s) /\ s[i] = Colon

ColonsAt(s, places) == \A i \in places : i <= Len(s) /\ s[i] = Colon

(* What is left of the line at p, the newline included. *)
LineEnd(f, p) == Min({Find(f, p, {Newline}), Len(f)})
Rest(f, p) == SubSeq(f, p, LineEnd(f, p))

Chomp(s) == SubSeq(s, 1, Find(s, 1, {Newline}) - 1)

(* atou: the number at i, in the width of unsigned. *)
atou(s, i) ==
  FoldLeft(LAMBDA x, d : (10 * x + (d - 48)) % 2 ^ UintBits, 0,
           SubSeq(s, i, Find(s, i, Char \ Digits) - 1))

(* The fields of an entry.  The search for the first colon begins at the   *)
(* second character; between the colons around a number there is nothing   *)
(* but digits, or nothing.  None: the line does not parse.                 *)
PasswdEntry(s) ==
  LET c1 == Find(s, 2, {Colon})
      c2 == Find(s, c1 + 1, {Colon})
      c3 == Find(s, c2 + 1, Char \ Digits)
      c4 == Find(s, c3 + 1, Char \ Digits)
      c5 == Find(s, c4 + 1, {Colon})
      c6 == Find(s, c5 + 1, {Colon})
  IN IF ~ColonsAt(s, {c1, c2, c3, c4, c5, c6}) THEN None
     ELSE [name |-> SubSeq(s, 1, c1 - 1), id |-> atou(s, c2 + 1),
           gid |-> atou(s, c3 + 1), rest |-> SubSeq(s, c6 + 1, Len(s))]

GroupEntry(s) ==
  LET c1 == Find(s, 2, {Colon})
      c2 == Find(s, c1 + 1, {Colon})
      c3 == Find(s, c2 + 1, Char \ Digits)
  IN IF ~ColonsAt(s, {c1, c2, c3}) THEN None
     ELSE [name |-> SubSeq(s, 1, c1 - 1), id |-> atou(s, c2 + 1),
           gid |-> 0, rest |-> SubSeq(s, c3 + 1, Len(s))]

Entry(reader, s) ==
  IF reader = "fgetpwent_r" THEN PasswdEntry(s) ELSE GroupEntry(s)

-----------------------------------------------------------------------------
(* The members of a group. *)

nmem(mems) ==
  IF mems = <<>> THEN 0
  ELSE 1 + Cardinality({i \in DOMAIN mems : mems[i] = Comma})

(* Where the members start: at a comma the loop steps over the character   *)
(* behind it, too.                                                         *)
MemberStarts(mems) ==
  LET from[i \in 1..(Len(mems) + 2)] ==
        IF i > Len(mems) THEN <<>>
        ELSE IF mems[i] = Comma THEN <<i + 1>> \o from[i + 2]
        ELSE from[i + 1]
  IN IF mems = <<>> THEN <<>> ELSE <<1>> \o from[1]

(* The character of the text that ended a member was a comma. *)
Members(mems) ==
  LET starts == MemberStarts(mems)
      end(i) == IF i = Len(starts) THEN Len(mems) ELSE starts[i + 1] - 2
  IN [i \in DOMAIN starts |-> SubSeq(mems, starts[i], end(i))]

(* Bytes the array of pointers takes behind the line, its alignment        *)
(* included.  Mutant: no room for the NULL that ends it.                   *)
ArrayBytesNoNull(mems) == Pointer * nmem(mems) + (Pointer - 1)

ArrayBytes(mems) == Pointer * (nmem(mems) + 1) + (Pointer - 1)

(* The place in the buffer of the first pointer, behind the line's NUL.    *)
Align(base, n) == n + ((-(base + n)) % Pointer)
ArrayAt(base, s) == Align(base, Len(s) + 1)
Gap(base, s) == ArrayAt(base, s) - (Len(s) + 1)

(* At a comma that ends the list the loop steps over the line's NUL and    *)
(* reads the byte behind it.  Where that is one of the bytes the alignment *)
(* left free, memset has made it 0 and the loop stops; otherwise it is the *)
(* first byte of a pointer that the loop itself has stored.  Mutant:       *)
(* without memset the free bytes are anything, too.                        *)
ReadsPointersUncleared(mems, gap) ==
  mems # <<>> /\ Last(MemberStarts(mems)) = Len(mems) + 1

ReadsPointers(mems, gap) ==
  /\ gap = 0 /\ mems # <<>>
  /\ Last(MemberStarts(mems)) = Len(mems) + 1

(* What the array lists.  None: a byte of a pointer was a comma, and the   *)
(* loop has overwritten it.                                                *)
MemberLists(mems, gap) ==
  {Members(mems)} \cup (IF ReadsPointers(mems, gap) THEN {None} ELSE {})

-----------------------------------------------------------------------------
NoResult == [errno |-> "none", entry |-> None]

Begin(reader, size, base) ==
  /\ call = None
  /\ call' = [reader |-> reader, size |-> size, base |-> base]
  /\ line' = None
  /\ begun' = pos
  /\ result' = NoResult
  /\ UNCHANGED <<file, pos>>

(* Between calls nss_cache.c rewinds the stream, puts it back, or sets it   *)
(* to an offset from an index; it is done with the result of the last call. *)
Seek(p) ==
  /\ call = None
  /\ pos' = p /\ begun' = p
  /\ line' = None
  /\ result' = NoResult
  /\ UNCHANGED <<file, call>>

Return(err, entry) ==
  /\ result' = [errno |-> err, entry |-> entry]
  /\ call' = None

(* Mutant: what does not fit is dropped and the line taken as it is. *)
TooLongNever(text) == FALSE

(* fgets fills the buffer: the last byte is no longer the mark put there.  *)
(* So it is when the line fits exactly.                                    *)
TooLong(text) == Len(text) >= call.size - 1

Fgets ==
  /\ call # None /\ line = None
  /\ LET text == Rest(file, pos) IN
     \/ /\ pos > Len(file)
        /\ Return("ENOENT", None)
        /\ UNCHANGED <<pos, line>>
     \/ /\ pos <= Len(file) /\ TooLong(text)
        /\ pos' = pos + call.size - 1
        /\ Return("ERANGE", None)
        /\ UNCHANGED line
     \/ /\ pos <= Len(file) /\ ~TooLong(text)
        /\ pos' = pos + Min({Len(text), call.size - 1})
        /\ line' = Chomp(SubSeq(text, 1, Min({Len(text), call.size - 1})))
        /\ UNCHANGED <<call, result>>
  /\ UNCHANGED <<file, begun>>

(* A line that does not parse: "continue". *)
Skip ==
  /\ call # None /\ line # None
  /\ Entry(call.reader, line) = None
  /\ line' = None
  /\ UNCHANGED <<file, pos, call, begun, result>>

fgetpwent_r ==
  /\ call # None /\ call.reader = "fgetpwent_r" /\ line # None
  /\ PasswdEntry(line) # None
  /\ Return("0", PasswdEntry(line))
  /\ UNCHANGED <<file, pos, line, begun>>

fgetgrent_r ==
  /\ call # None /\ call.reader = "fgetgrent_r" /\ line # None
  /\ GroupEntry(line) # None
  /\ LET e == GroupEntry(line)
         remain == call.size - (Len(line) + 1)
     IN \/ /\ ArrayBytes(e.rest) > remain
           /\ Return("ERANGE", None)
        \/ /\ ArrayBytes(e.rest) <= remain
           /\ \E members \in MemberLists(e.rest, Gap(call.base, line)) :
                Return("0", [name |-> e.name, id |-> e.id,
                             gid |-> 0, rest |-> members])
  /\ UNCHANGED <<file, pos, line, begun>>

Init ==
  /\ file \in Files
  /\ pos = 1
  /\ call = None
  /\ line = None
  /\ begun = 1
  /\ result = NoResult

Next ==
  \/ \E r \in Readers, size \in Sizes, base \in Bases : Begin(r, size, base)
  \/ \E p \in 1..(Len(file) + 1) : Seek(p)
  \/ Fgets \/ Skip \/ fgetpwent_r \/ fgetgrent_r

Spec == Init /\ [][Next]_vars

-----------------------------------------------------------------------------
(* The file as NssData has it, with a unit for each character.             *)

(* The buffer that reading the line text, with its newline, takes. *)
Need(reader, text) ==
  LET s == Chomp(text)
      e == GroupEntry(s)
      array == IF reader = "fgetgrent_r" /\ e # None
                 THEN {Len(s) + 1 + ArrayBytes(e.rest)} ELSE {}
  IN Max({Len(text) + 2} \cup array)

UnitAt(reader, f, p) ==
  LET e == Entry(reader, Chomp(Rest(f, p))) IN
  [start |-> p = 1 \/ f[p - 1] = Newline,
   ok    |-> e # None,
   name  |-> IF e = None THEN <<>> ELSE e.name,
   id    |-> IF e = None THEN 0 ELSE e.id,
   need  |-> Need(reader, Rest(f, p)),
   next  |-> LineEnd(f, p) + 1]

Units(reader, f) == [p \in DOMAIN f |-> UnitAt(reader, f, p)]

Data == INSTANCE NssData WITH
  Names <- Seq(Char), Ids <- 0..(2 ^ UintBits - 1), IdBits <- UintBits,
  Buflens <- Sizes, Contents <- {}, ReadRestores <- FALSE

Returns == call # None /\ call' = None

(***************************************************************************)
(* A reader does what Read of NssData says, from every position of the     *)
(* stream and with every buffer: the same errno, the same line, the same   *)
(* position afterwards.  What the other modules take for granted of an     *)
(* entry that is read in the middle of a line, of a line that is too long, *)
(* does not parse or lacks a newline, and of a stream after ERANGE, is     *)
(* what the loops around fgets do.                                         *)
(***************************************************************************)
ReadConforms ==
  [][Returns =>
       LET c == Units(call.reader, file) IN
       \E r \in Data!Read(c, begun, call.size) :
         /\ r.errno = result'.errno /\ r.pos = pos'
         /\ r.errno = "0" => /\ result'.entry.name = c[r.at].name
                             /\ result'.entry.id = c[r.at].id]_vars

-----------------------------------------------------------------------------
(* What a line means: its fields are what stands between the colons.  The  *)
(* kth field has k - 1 of the marks c before it.                           *)
Count(s, c, i) == Cardinality({j \in 1..i : s[j] = c})

FieldOf(s, c, k) ==
  LET inside == {i \in DOMAIN s : s[i] # c /\ Count(s, c, i) = k - 1} IN
  IF inside = {} THEN <<>> ELSE SubSeq(s, Min(inside), Max(inside))

Number(s) == FoldLeft(LAMBDA x, d : 10 * x + (d - 48), 0, s)

Colons(reader) == IF reader = "fgetpwent_r" THEN 6 ELSE 3
NumberFields(reader) == IF reader = "fgetpwent_r" THEN {3, 4} ELSE {3}

Meant(reader, s) ==
  /\ Count(s, Colon, Len(s)) >= Colons(reader)
  /\ \A k \in NumberFields(reader) :
       \A i \in DOMAIN FieldOf(s, Colon, k) : FieldOf(s, Colon, k)[i] \in Digits

(***************************************************************************)
(* Of a line that does not begin with a colon, a reader takes an entry if  *)
(* and only if the line has one: enough fields, and digits or nothing for  *)
(* the ids.  The entry has the line's name, and its id if that fits the    *)
(* type; a larger id comes out modulo the width of unsigned.  (Of a line   *)
(* that begins with a colon, the first field is taken for the beginning    *)
(* of the name.)                                                           *)
(***************************************************************************)
EntryIsLine ==
  [][call # None /\ line \notin {None, <<>>} /\ (line # None => line[1] # Colon) =>
       LET taken == Returns
           id == Number(FieldOf(line, Colon, 3))
       IN /\ taken <=> Meant(call.reader, line)
          /\ taken /\ result'.errno = "0" =>
               /\ result'.entry.name = FieldOf(line, Colon, 1)
               /\ result'.entry.id = id % 2 ^ UintBits]_vars

(***************************************************************************)
(* The members of a group are those of its line, the last of them empty if *)
(* the list ends with a comma; unless another one is empty, or the list    *)
(* ends with a comma and the buffer's address leaves nothing between the   *)
(* line and the array.  The array of pointers, with the NULL at its end,   *)
(* lies behind the line and inside the caller's buffer, whatever address   *)
(* that has and whichever members are empty.                               *)
(***************************************************************************)
MembersRight ==
  [][Returns /\ call.reader = "fgetgrent_r" /\ result'.errno = "0" =>
       LET members == result'.entry.rest
           mems == GroupEntry(line).rest
           array == ArrayAt(call.base, line)
       IN /\ /\ \A i \in 2..Len(mems) : mems[i] = Comma => mems[i - 1] # Comma
             /\ mems = <<>> \/ mems[Len(mems)] # Comma \/ Gap(call.base, line) > 0
             => members = IF mems = <<>> THEN <<>>
                          ELSE [i \in 1..nmem(mems) |-> FieldOf(mems, Comma, i)]
          /\ array > Len(line)
          /\ members # None =>
               array + Pointer * (Len(members) + 1) <= call.size]_vars
=============================================================================
