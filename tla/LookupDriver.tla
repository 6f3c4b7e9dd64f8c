---------------------------- MODULE LookupDriver ----------------------------
(***************************************************************************)
(* lookup.c: looks up every key of an input file with one function of      *)
(* nss_cache.c and stops at the first key that is not found.  "make test"  *)
(* runs it on keys taken from the map, without and with an index, and      *)
(* takes its exit status for the verdict.                                  *)
(***************************************************************************)
EXTENDS TestProgram

CONSTANT Inputs  \* what the input file may hold: sequences of keys

ASSUME InputsAssumption ==
  /\ Inputs \subseteq Seq(Names) \cup Seq(Ids)
  /\ None \notin Inputs

VARIABLES
  function,  \* -c: the function to test; None when it is not given
  input,     \* -f: the keys in the file; None when it cannot be opened
  lines,     \* how many keys have been read
  step,      \* "start", "read" a key, "ask", "wait", or "exit"
  ret,       \* what the wrapper made of the last call
  exit       \* the exit status, None before the end

driverVars == <<function, input, lines, step, ret, exit>>
allVars == <<vars, buflen, driverVars>>

(* nss_lookup knows these; the last two are not there under BSD. *)
Functions ==
  [getpwnam |-> [map |-> "passwd", op |-> "getnam"],
   getpwuid |-> [map |-> "passwd", op |-> "getid"],
   getgrnam |-> [map |-> "group", op |-> "getnam"],
   getgrgid |-> [map |-> "group", op |-> "getid"],
   getspnam |-> [map |-> "shadow", op |-> "getnam"],
   getsgnam |-> [map |-> "gshadow", op |-> "getnam"]]

Known(f) == f \in DOMAIN Functions /\ Functions[f].map \in Maps
Map == Functions[function].map
Field == Kind(Functions[function])
Key == input[lines]

(* The statuses a wrapper returns: found, not found, no access, and what   *)
(* "found" starts with.                                                    *)
Found == 0
NotFound == 1
NoAccess == 2
Unset == 255

(* The keys fit the function: names for a lookup by name, ids for the      *)
(* others (atoi).                                                          *)
Fits(f, keys) ==
  keys # None /\ Known(f) =>
    keys \in Seq(IF Kind(Functions[f]) = "id" THEN Ids ELSE Names)

DriverInit ==
  /\ Init
  /\ buflen = 0
  /\ function \in DOMAIN Functions \cup {"unknown", None}
  /\ input \in Inputs \cup {None}
  /\ Fits(function, input)
  /\ lines = 0
  /\ step = "start"
  /\ ret = Unset
  /\ exit = None

-----------------------------------------------------------------------------
(* make builds the index, or removes it, before it runs the program. *)
Make ==
  /\ step = "start"
  /\ \/ now < MaxTime /\ \E p \in Paths, k \in Kinds : StartIndexer(p, k)
     \/ \E p \in Paths, k \in Kinds : RemoveIndex(p, k)
     \/ FinishIndexer
  /\ UNCHANGED <<libVars, buflen, driverVars>>

(* main and nss_lookup, up to the first line of the input. *)
Start ==
  /\ step = "start" /\ indexer = None
  /\ \/ /\ function # None /\ input # None /\ Known(function)
        /\ step' = "read"
        /\ UNCHANGED exit
     \/ /\ step' = "exit"
        /\ \/ function = None /\ exit' = 1
           \/ function # None /\ input = None /\ exit' = 255
           \/ /\ function # None /\ input # None /\ ~Known(function)
              /\ exit' = 1
  /\ UNCHANGED <<vars, buflen, function, input, lines, ret>>

(* The next line of the input; the wrapper names the map's file and        *)
(* allocates its buffer.                                                   *)
ReadLine(f) ==
  /\ step = "read" /\ function = f
  /\ lines < Len(input)
  /\ lines' = lines + 1
  /\ Prepare(Map)
  /\ ret' = Unset
  /\ step' = "ask"
  /\ UNCHANGED <<function, input, exit>>

lookup_getpwnam == ReadLine("getpwnam")
lookup_getpwuid == ReadLine("getpwuid")
lookup_getgrnam == ReadLine("getgrnam")
lookup_getgrgid == ReadLine("getgrgid")
lookup_getspnam == ReadLine("getspnam")
lookup_getsgnam == ReadLine("getsgnam")

(* The input ends: the status is that of the last line.  Of an empty input *)
(* it is the value of a variable nothing was assigned to.                  *)
EndOfInput ==
  /\ step = "read"
  /\ lines = Len(input)
  /\ \/ lines > 0 /\ exit' = ret
     \/ lines = 0 /\ exit' \in {Found, NotFound, NoAccess, Unset}
  /\ step' = "exit"
  /\ UNCHANGED <<vars, buflen, function, input, lines, ret>>

(* The call in a wrapper. *)
Wrapper(f, call) ==
  /\ step = "ask" /\ function = f
  /\ call
  /\ req'[Main].key = Key /\ WithBuffer
  /\ step' = "wait"
  /\ UNCHANGED <<buflen, function, input, lines, ret, exit>>

getpwnam_wrapper == Wrapper("getpwnam", CallByName(Main, "passwd"))
getpwuid_wrapper == Wrapper("getpwuid", CallById(Main, "passwd"))
getgrnam_wrapper == Wrapper("getgrnam", CallByName(Main, "group"))
getgrgid_wrapper == Wrapper("getgrgid", CallById(Main, "group"))
getspnam_wrapper == Wrapper("getspnam", CallByName(Main, "shadow"))
getsgnam_wrapper == Wrapper("getsgnam", CallByName(Main, "gshadow"))

(* What a wrapper makes of a status other than TRYAGAIN. *)
Verdict ==
  IF Status = "SUCCESS" THEN Found
  ELSE IF Status = "NOTFOUND" THEN NotFound
  ELSE IF Status = "UNAVAIL" THEN NoAccess
  ELSE Unset

(* The loop over the input ends early: "if (ret != 0) break".  Mutant: only *)
(* when there is no access.                                                *)
BreaksNoAccess == Verdict = NoAccess

Breaks == Verdict # Found

(* The loop of a wrapper after its call, and of its caller after it.       *)
Answer ==
  /\ step = "wait" /\ Answered
  /\ \/ /\ Status = "TRYAGAIN"
        /\ buflen' = NextBuflen
        /\ step' = "ask"
        /\ UNCHANGED <<ret, exit>>
     \/ /\ Status # "TRYAGAIN"
        /\ ret' = Verdict
        /\ \/ ~Breaks /\ step' = "read" /\ UNCHANGED exit
           \/ Breaks /\ step' = "exit" /\ exit' = Verdict
        /\ UNCHANGED buflen
  /\ UNCHANGED <<vars, function, input, lines>>

Program ==
  \/ Start \/ EndOfInput \/ Answer
  \/ lookup_getpwnam \/ lookup_getpwuid \/ lookup_getgrnam
  \/ lookup_getgrgid \/ lookup_getspnam \/ lookup_getsgnam
  \/ getpwnam_wrapper \/ getpwuid_wrapper \/ getgrnam_wrapper
  \/ getgrgid_wrapper \/ getspnam_wrapper \/ getsgnam_wrapper
  \/ Library /\ UNCHANGED <<buflen, driverVars>>

DriverNext ==
  \/ Make
  \/ Program
  \/ step = "exit" /\ UNCHANGED allVars

(* The operating system runs the program's thread. *)
DriverSpec == DriverInit /\ [][DriverNext]_allVars /\ WF_allVars(Program)

-----------------------------------------------------------------------------
(* The test file the lookups are answered from. *)
TestFile == Version(TestPath[Map])
Has(key) == Holds(TestFile, Field, key)

(***************************************************************************)
(* The exit status tells the truth about the map, with an index or without *)
(* one, whatever the retries: 0 only if every key of the input is there,   *)
(* 1 only if the key it stopped at is not (or is an id with its top bit    *)
(* set, of an index), 2 only if there is no file, and 255 only if all the  *)
(* file has of the key is a line that does not parse, for which a lookup   *)
(* returns what is no status of NSS.  Nothing is said of an input without  *)
(* keys.                                                                   *)
(***************************************************************************)
ExitTruth ==
  step = "exit" /\ lines > 0 =>
    /\ exit \in {Found, NotFound, NoAccess, Unset}
    /\ exit = Unset => TestFile # None /\ Dangling(TestFile, Field, Key)
    /\ exit = NoAccess <=> TestFile = None
    /\ exit = Found =>
         lines = Len(input) /\ \A i \in DOMAIN input : Has(input[i])
    /\ exit = NotFound => ~Has(Key) \/ TopBit(Field, Key)

(* The sizes for which a buffer may have been too small. *)
Needs ==
  (IF function = "getgrgid" THEN {GroupMinBuf} ELSE {}) \cup
  (IF TestFile = None THEN {} ELSE {TestFile[p].need : p \in DOMAIN TestFile})

(***************************************************************************)
(* The wrappers double their buffer only while it is too small: it stays   *)
(* below twice what the longest line, or the group map's minimum, takes.   *)
(***************************************************************************)
BufferBounded ==
  step \in {"ask", "wait"} => 
    buflen = FirstBuf \/ \E n \in Needs : buflen < 2 * n

(***************************************************************************)
(* Once started the program ends.  The loop of a wrapper repeats for as    *)
(* long as a lookup says TRYAGAIN, and the lookups by gid say so at once   *)
(* for every buffer below the group map's minimum.                         *)
(***************************************************************************)
DriverEnds == step # "start" ~> step = "exit"

(***************************************************************************)
(* "Binary UID lookups" of the Makefile look up ids taken from the map: a  *)
(* key that is in the map is found.                                        *)
(***************************************************************************)
MapKeysFound == step = "exit" /\ lines > 0 /\ exit = NotFound => ~Has(Key)
=============================================================================
