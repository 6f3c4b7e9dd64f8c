------------------------------ MODULE NssData ------------------------------
(***************************************************************************)
(* The data of libnss-cache: maps, map files, sorted index files, and what *)
(* reading an entry of a map file does.  Everything here is a constant     *)
(* operator; the modules that have state EXTEND this one.                  *)
(*                                                                         *)
(* A map file is a sequence of UNITS, the places a read can start at.  A   *)
(* line is one unit (its first byte) followed by zero or more units for    *)
(* places inside the line.  Positions and offsets are unit numbers: the    *)
(* bytes between two units make no difference to the code.  A unit says    *)
(*   start  whether it is the first byte of a line,                        *)
(*   ok     whether the text from here to the end of the line parses as an *)
(*          entry,                                                         *)
(*   name, id  the fields that entry would have,                           *)
(*   need   the buffer size that reading it takes,                         *)
(*   next   the unit that follows the line.                                *)
(* A unit inside a line may parse: the tail of a line whose name is cut is *)
(* an entry with a shorter name.                                           *)
(***************************************************************************)
EXTENDS Integers, Sequences, FiniteSets

CONSTANTS
  Names,         \* user and group names
  Ids,           \* numeric ids that occur in files and in requests
  IdBits,        \* width of uid_t and gid_t (32 in the code)
  Buflens,       \* buffer sizes callers pass
  Contents,      \* what a map file may hold: a set of sequences of units
  ReadRestores,  \* does fgetXXent_r undo the read when it fails with ERANGE?
  None           \* "no such thing": NULL FILE *, absent file, no result

Unit == [name : Names, id : Ids, need : Nat, ok : BOOLEAN, start : BOOLEAN,
         next : Nat]

(***************************************************************************)
(* A well-formed file: it begins with a line, every line ends where the    *)
(* next one (or the end of the file) begins, and no line starts inside     *)
(* another.                                                                *)
(***************************************************************************)
WellFormed(c) ==
  /\ 1 \in DOMAIN c => c[1].start
  /\ \A p \in DOMAIN c :
       /\ p < c[p].next /\ c[p].next <= Len(c) + 1
       /\ c[p].next \in DOMAIN c => c[c[p].next].start
       /\ \A q \in (p + 1)..(c[p].next - 1) : ~c[q].start

ASSUME ContentsAssumption ==
  \A c \in Contents : c \in Seq(Unit) /\ WellFormed(c)

ASSUME SizesAssumption ==
  /\ IdBits \in Nat \ {0}
  /\ Ids \subseteq 0..(2 ^ IdBits - 1)
  /\ Buflens \subseteq Nat
  /\ ReadRestores \in BOOLEAN

ASSUME NoneAssumption == None \notin Contents \cup Unit

-----------------------------------------------------------------------------
(* The four maps.  Only passwd and group have numeric ids. *)
AllMaps == {"passwd", "group", "shadow", "gshadow"}

(* NSS statuses; "100" is the value _nss_cache_bsearch2 starts from. *)
NssStatus == {"TRYAGAIN", "UNAVAIL", "NOTFOUND", "SUCCESS"}

(* Which field of an entry a search compares. *)
Kinds == {"name", "id"}
KeyOf(u, kind) == IF kind = "name" THEN u.name ELSE u.id

(* The lines of a file, and those that hold an entry. *)
Starts(c) == {p \in DOMAIN c : c[p].start}
Lines(c) == {p \in Starts(c) : c[p].ok}

(* Some line of c holds an entry with this key. *)
Holds(c, kind, key) == \E p \in Lines(c) : KeyOf(c[p], kind) = key

(* A line with this key does not parse, and no entry comes after it. *)
Dangling(c, kind, key) ==
  \E p \in Starts(c) : KeyOf(c[p], kind) = key /\ \A q \in Lines(c) : q < p

-----------------------------------------------------------------------------
(***************************************************************************)
(* Reading one entry (fgetXXent_r).  The reader takes the line at o; while *)
(* what it took does not parse it goes on with the next line, and it gives *)
(* up with ERANGE at the first line that does not fit in the buffer.       *)
(***************************************************************************)
Stops(c, o, buf, p) ==
  \/ p = Len(c) + 1
  \/ /\ p = o \/ c[p].start
     /\ c[p].ok \/ c[p].need > buf

(* Where a read that starts at o stops: exactly one position. *)
StopsAt(c, o, buf) ==
  {p \in o..(Len(c) + 1) :
     Stops(c, o, buf, p) /\ \A q \in o..(p - 1) : ~Stops(c, o, buf, q)}

(***************************************************************************)
(* The outcomes of one read: the errno it leaves ("0" when it succeeds),   *)
(* the position of the line it stopped at, and the position of the stream  *)
(* afterwards.  After ERANGE a C library that does not restore the stream  *)
(* leaves it at an arbitrary later place of the line it was reading.       *)
(***************************************************************************)
Read(c, o, buf) ==
  UNION { IF p = Len(c) + 1 THEN {[errno |-> "ENOENT", at |-> p, pos |-> p]}
          ELSE IF c[p].need <= buf
                 THEN {[errno |-> "0", at |-> p, pos |-> c[p].next]}
          ELSE IF ReadRestores
                 THEN {[errno |-> "ERANGE", at |-> p, pos |-> p]}
          ELSE {[errno |-> "ERANGE", at |-> p, pos |-> q] :
                                     q \in (p + 1)..c[p].next}
        : p \in StopsAt(c, o, buf) }

(* fseek: a file can be positioned past its end, where a read meets EOF. *)
Seek(c, off) == IF off \in DOMAIN c THEN off ELSE Len(c) + 1

(* _nss_cache_ent_bad_return_code; the mutants know one of the cases only. *)
BadReturnCodeAlwaysNotFound(errno) == "NOTFOUND"

BadReturnCodeAlwaysTryAgain(errno) == "TRYAGAIN"

BadReturnCode(errno) == IF errno = "ERANGE" THEN "TRYAGAIN" ELSE "NOTFOUND"

-----------------------------------------------------------------------------
(***************************************************************************)
(* Sorted index files: records of a key and an offset.                     *)
(***************************************************************************)
IndexRecord == [key : Names \cup Ids, off : Nat]
Index == [recs : SUBSET IndexRecord, mtime : Nat]

(***************************************************************************)
(* What scripts/index.sh makes of a file: one record for the key of every  *)
(* line, parsed or not.  The script takes the offset of the first line     *)
(* that CONTAINS the key's text: the key's own line or any before it.      *)
(***************************************************************************)
KeysIn(c, kind) == {KeyOf(c[p], kind) : p \in Starts(c)}

Offsets(c, kind) ==
  {f \in [KeysIn(c, kind) -> Starts(c)] :
     \A p \in Starts(c) : f[KeyOf(c[p], kind)] <= p}

IndexesOf(c, kind) ==
  {{[key |-> k, off |-> f[k]] : k \in DOMAIN f} : f \in Offsets(c, kind)}

(***************************************************************************)
(* The text a search looks up in the index.  An id is unsigned in the file *)
(* and printed with "%d" by the search: an id with its top bit set is      *)
(* looked up as a negative number.                                         *)
(***************************************************************************)
TopBit(kind, key) == kind = "id" /\ key >= 2 ^ (IdBits - 1)

SearchKey(kind, key) ==
  IF TopBit(kind, key) THEN key - 2 ^ IdBits ELSE key
=============================================================================
