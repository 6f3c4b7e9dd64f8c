-------------------------- MODULE LookupDriverProofs --------------------------
(***************************************************************************)
(* lookup.c tells the truth: theorems about the program that looks up the  *)
(* keys of a file, for all values of the constants of LookupDriver.        *)
(*                                                                         *)
(* The program is nss_cache.c with one thread that calls it, so all that   *)
(* LookupProofs says of a lookup holds here too (DriverSpec => Spec).      *)
(* DInv adds what the program does with it: which call it waits for, that  *)
(* the call has seen one version of the file, and what the lookups before  *)
(* have shown of that version.                                             *)
(***************************************************************************)
EXTENDS LookupDriver, LookupProofs

(***************************************************************************)
(* What a lookup by name may fail of before it looks at anything does not  *)
(* happen: the paths leave room for ".ixname", and malloc succeeds.        *)
(***************************************************************************)
NamesFit ==
  /\ \A p \in Paths : PathLen[p] <= PathLimit - 8
  /\ ~MallocMayFail

(* Where the program is, and what it works on. *)
Running ==
  /\ step \in {"start", "read", "ask", "wait", "exit"}
  /\ step = "start" => lines = 0
  /\ step \in {"read", "ask", "wait"} \/ lines > 0 =>
       /\ Known(function) /\ input # None
       /\ lines \in 0..Len(input)
  /\ input \in Inputs \cup {None} /\ Fits(function, input)
  /\ buflen \in Nat
  /\ step \in {"ask", "wait"} => lines > 0 /\ filename[Map] = TestPath[Map]

(* While it waits the library is at work on the program's call, for which  *)
(* there is one version of the map file.                                   *)
Calling ==
  /\ step # "wait" => pc[Main] = "idle"
  /\ step = "wait" =>
       /\ req[Main] # None
       /\ req[Main].op = Functions[function].op /\ req[Main].map = Map
       /\ req[Main].key = Key /\ req[Main].buf = buflen
       /\ window[Main] = {TestFile}

(* A key that was looked up and found is in the file. *)
FoundThere(i) == TestFile # None /\ Has(input[i])

KeysFound ==
  /\ step = "read" => /\ \A i \in 1..lines : FoundThere(i)
                      /\ lines > 0 => ret = Found
  /\ step \in {"ask", "wait"} => \A i \in 1..(lines - 1) : FoundThere(i)

DInv == /\ LInv
        /\ Running
        /\ Calling
        /\ BufferBounded
        /\ FreshIndexes /\ NamesFit => KeysFound /\ ExitTruth

-----------------------------------------------------------------------------
(* The program's steps. *)

(* The call of a wrapper: the function's lookup, of the last key read.     *)
Asks ==
  /\ step = "ask" /\ step' = "wait"
  /\ Call(Main)
  /\ \E r : /\ Begin(Main, r)
            /\ r.op = Functions[function].op /\ r.map = Map
  /\ req'[Main].key = Key /\ WithBuffer
  /\ UNCHANGED <<buflen, function, input, lines, ret, exit>>

LEMMA CallsBegin ==
  /\ \A m : CallByName(Main, m) =>
       \E r : Begin(Main, r) /\ r.op = "getnam" /\ r.map = m
  /\ \A m : CallById(Main, m) =>
       \E r : Begin(Main, r) /\ r.op = "getid" /\ r.map = m
<1>1. ASSUME NEW m, CallByName(Main, m)
      PROVE  \E r : Begin(Main, r) /\ r.op = "getnam" /\ r.map = m
  <2>1. PICK name \in Names, buf \in Buflens :
          Enter(Main, [op |-> "getnam", map |-> m, key |-> name, buf |-> buf])
    BY <1>1 DEF CallByName
  <2> QED
    BY <2>1 DEF Enter
<1>2. ASSUME NEW m, CallById(Main, m)
      PROVE  \E r : Begin(Main, r) /\ r.op = "getid" /\ r.map = m
  <2>1. PICK id \in Ids, buf \in Buflens :
          Begin(Main, [op |-> "getid", map |-> m, key |-> id, buf |-> buf])
    BY <1>2 DEF CallById, Enter
  <2> QED
    BY <2>1
<1> QED
  BY <1>1, <1>2

LEMMA DriverCases ==
  ASSUME [DriverNext]_allVars
  PROVE  \/ Make \/ Start \/ EndOfInput \/ Answer
         \/ \E f \in DOMAIN Functions : ReadLine(f)
         \/ Asks
         \/ Library /\ UNCHANGED <<buflen, driverVars>>
         \/ UNCHANGED allVars
<1>1. ASSUME \/ lookup_getpwnam \/ lookup_getpwuid \/ lookup_getgrnam
             \/ lookup_getgrgid \/ lookup_getspnam \/ lookup_getsgnam
      PROVE  \E f \in DOMAIN Functions : ReadLine(f)
  BY <1>1 DEF lookup_getpwnam, lookup_getpwuid, lookup_getgrnam,
     lookup_getgrgid, lookup_getspnam, lookup_getsgnam, Functions
<1>2. CASE getpwnam_wrapper
  BY <1>2, CallsBegin
     DEF getpwnam_wrapper, Wrapper, Asks, Functions, Map, Call, getpwnam_r
<1>3. CASE getpwuid_wrapper
  BY <1>3, CallsBegin
     DEF getpwuid_wrapper, Wrapper, Asks, Functions, Map, Call, getpwuid_r
<1>4. CASE getgrnam_wrapper
  BY <1>4, CallsBegin
     DEF getgrnam_wrapper, Wrapper, Asks, Functions, Map, Call, getgrnam_r
<1>5. CASE getgrgid_wrapper
  BY <1>5, CallsBegin
     DEF getgrgid_wrapper, Wrapper, Asks, Functions, Map, Call, getgrgid_r
<1>6. CASE getspnam_wrapper
  BY <1>6, CallsBegin
     DEF getspnam_wrapper, Wrapper, Asks, Functions, Map, Call, getspnam_r
<1>7. CASE getsgnam_wrapper
  BY <1>7, CallsBegin
     DEF getsgnam_wrapper, Wrapper, Asks, Functions, Map, Call, getsgnam_r
<1> QED
  BY <1>1, <1>2, <1>3, <1>4, <1>5, <1>6, <1>7 DEF DriverNext, Program

(* To the library each of them is a step of its own, or none. *)
LEMMA DriverStepsAreSteps ==
  ASSUME Running, [DriverNext]_allVars
  PROVE  [Next]_vars
<1>1. Main \in Threads /\ TestPath \in [Maps -> Paths]
  BY TestProgramAssumption
<1>2. ASSUME Make
      PROVE  Tools
  BY <1>2 DEF Make, Tools
<1>3. ASSUME NEW f \in DOMAIN Functions, ReadLine(f)
      PROVE  \E m \in Maps, p \in Paths : SetPath(m, p)
  <2>1. Map \in Maps
    BY <1>3 DEF ReadLine, Running, Known, Map
  <2>2. SetPath(Map, TestPath[Map])
    BY <1>3 DEF ReadLine, Prepare
  <2> QED
    BY <1>1, <2>1, <2>2
<1>4. CASE Start \/ EndOfInput \/ Answer
  BY <1>4 DEF Start, EndOfInput, Answer
<1>5. CASE Asks
  BY <1>1, <1>5 DEF Asks, Next
<1>6. CASE Library
  BY <1>1, <1>6 DEF Library, Next
<1>7. CASE UNCHANGED allVars
  BY <1>7 DEF allVars
<1> QED
  BY <1>2, <1>3, <1>4, <1>5, <1>6, <1>7, DriverCases DEF Next

(* Once the program has begun the files stay as they are. *)
LEMMA FilesKept ==
  ASSUME [DriverNext]_allVars, step # "start"
  PROVE  UNCHANGED fileVars /\ function' = function /\ input' = input
<1>1. CASE Library /\ UNCHANGED <<buflen, driverVars>>
  <2>1. UNCHANGED fileVars
    BY <1>1, TestProgramAssumption, LockedSees DEF Library, Acquire
  <2> QED
    BY <1>1, <2>1 DEF driverVars
<1>2. CASE \E f \in DOMAIN Functions : ReadLine(f)
  BY <1>2 DEF ReadLine, Prepare, SetPath
<1>3. CASE Asks
  BY <1>3 DEF Asks, Begin
<1>4. CASE Start \/ EndOfInput \/ Answer \/ UNCHANGED allVars
  BY <1>4 DEF Start, EndOfInput, Answer, allVars, vars, driverVars
<1>5. ~Make
  BY DEF Make
<1> QED
  BY <1>1, <1>2, <1>3, <1>4, <1>5, DriverCases

LEMMA TestFileKept ==
  ASSUME [DriverNext]_allVars, step # "start"
  PROVE  /\ TestFile' = TestFile /\ Map' = Map /\ Field' = Field
         /\ \A key : Has(key)' <=> Has(key)
<1>1. system' = system /\ function' = function
  BY FilesKept DEF fileVars
<1> QED
  BY <1>1 DEF TestFile, Version, Map, Field, Has

-----------------------------------------------------------------------------
LEMMA InputFacts ==
  ASSUME NEW keys \in Inputs
  PROVE  Len(keys) \in Nat /\ DOMAIN keys = 1..Len(keys) /\ keys # None
<1>1. keys \in Seq(Names) \/ keys \in Seq(Ids)
  BY InputsAssumption
<1> QED
  BY <1>1, InputsAssumption

LEMMA RunningStep ==
  ASSUME DInv, [DriverNext]_allVars
  PROVE  Running'
<1> USE DEF DInv
<1>1. Main \in Threads /\ TestPath \in [Maps -> Paths] /\ FirstBuf \in Nat
  BY TestProgramAssumption
<1>2. CASE Make
  BY <1>2 DEF Make, driverVars, libVars, Running, Fits, Map, Known
<1>3. CASE Start
  <2>1. step = "start" /\ lines = 0
    BY <1>3 DEF Start, Running
  <2>2. step' = "read" => input \in Inputs /\ Known(function)
    BY <1>3 DEF Start, Running
  <2> QED
    BY <1>3, <2>1, <2>2, InputFacts DEF Start, Running, Fits, Known
<1>4. CASE EndOfInput
  BY <1>4 DEF EndOfInput, Running, Fits, Known
<1>5. ASSUME NEW f \in DOMAIN Functions, ReadLine(f)
      PROVE  Running'
  <2>1. /\ step = "read" /\ lines' = lines + 1 /\ lines < Len(input)
        /\ Known(function) /\ input \in Inputs /\ lines \in 0..Len(input)
        /\ step' = "ask" /\ buflen' = FirstBuf
        /\ function' = function /\ input' = input
    BY <1>5 DEF ReadLine, Prepare, Running
  <2>2. lines' \in 0..Len(input') /\ lines' > 0
    BY <2>1, InputFacts
  <2>3. Map \in Maps /\ Map' = Map
    BY <2>1 DEF Known, Map
  <2>4. filename'[Map'] = TestPath[Map']
    BY <1>5, <2>3 DEF ReadLine, Prepare, SetPath, LInv, IInv, TypeOK
  <2> QED
    BY <1>1, <2>1, <2>2, <2>4 DEF Running, Fits, Known
<1>6. CASE Asks
  BY <1>6 DEF Asks, Begin, Running, Fits, Known, Map
<1>7. CASE Answer
  <2>1. buflen' \in Nat
    BY <1>7 DEF Answer, NextBuflen, Running
  <2>2. /\ step = "wait" /\ step' \in {"ask", "read", "exit"}
        /\ UNCHANGED <<function, input, lines, filename>>
    BY <1>7 DEF Answer, vars, libVars
  <2> QED
    BY <2>1, <2>2 DEF Running, Fits, Known, Map
<1>8. CASE Library /\ UNCHANGED <<buflen, driverVars>>
  <2>1. filename' = filename
    BY <1>1, <1>8, LockedMoves DEF Library, Acquire, LInv, IInv
  <2> QED
    BY <1>8, <2>1 DEF driverVars, Running, Fits, Known, Map
<1>9. CASE UNCHANGED allVars
  BY <1>9 DEF allVars, vars, libVars, driverVars, Running, Fits, Known, Map
<1> QED
  BY <1>2, <1>3, <1>4, <1>5, <1>6, <1>7, <1>8, <1>9, DriverCases

LEMMA CallingStep ==
  ASSUME DInv, [DriverNext]_allVars
  PROVE  Calling'
<1> USE DEF DInv
<1>1. Main \in Threads /\ TestPath \in [Maps -> Paths]
  BY TestProgramAssumption
<1>2. CASE Make \/ Start \/ EndOfInput
  BY <1>2 DEF Make, Start, EndOfInput, Calling, vars, libVars, driverVars
<1>3. ASSUME NEW f \in DOMAIN Functions, ReadLine(f)
      PROVE  Calling'
  BY <1>3 DEF ReadLine, Prepare, SetPath, Calling
<1>4. CASE Asks
  <2>1. PICK r : /\ Begin(Main, r)
                 /\ r.op = Functions[function].op /\ r.map = Map
    BY <1>4 DEF Asks
  <2>2. PICK r2 : AsCalled(r2) /\ Begin(Main, r2)
    BY <1>1, <1>4, CallShape DEF Asks
  <2>3. req'[Main] = r /\ req'[Main] = r2
    BY <1>1, <2>1, <2>2 DEF Begin, LInv, IInv, TypeOK
  <2>4. req'[Main] # None
    BY <2>2, <2>3, NothingAssumption DEF AsCalled
  <2>5. step' = "wait" /\ UNCHANGED <<function, input, lines, buflen>>
    BY <1>4 DEF Asks
  <2>6. Map' = Map /\ Key' = Key /\ TestFile' = TestFile
    BY <1>4, <2>5, TestFileKept DEF Asks, Key
  <2>7. window'[Main] = {TestFile}
    <3>1. filename[Map] = TestPath[Map]
      BY <1>4 DEF Asks, Running
    <3> QED
      BY <1>1, <2>1, <3>1 DEF Begin, TestFile, LInv, IInv, TypeOK
  <2>8. req'[Main].key = Key /\ req'[Main].buf = buflen
    BY <1>4 DEF Asks, WithBuffer
  <2> QED
    BY <2>1, <2>3, <2>4, <2>5, <2>6, <2>7, <2>8 DEF Calling
<1>5. CASE Answer
  <2>1. pc[Main] = "idle" /\ pc' = pc /\ step' # "wait"
    BY <1>5 DEF Answer, Answered, vars, libVars
  <2> QED
    BY <2>1 DEF Calling
<1>6. CASE Library /\ UNCHANGED <<buflen, driverVars>>
  <2>1. pc[Main] # "idle"
    BY <1>6 DEF Library, Acquire, Locked, DoSetent, DoEndent, DoGetent, FailByName,
       PrepareByName, OpenIndex, CheckIndex, MatchEntry, SetupScan, Scan, Finish
  <2>2. step = "wait"
    BY <2>1 DEF Calling
  <2>3. req' = req /\ window' = window
    BY <1>1, <1>6, LockedMoves, LockedSees DEF Library, Acquire, LInv, IInv
  <2>4. UNCHANGED <<function, input, lines, step, buflen>>
    BY <1>6 DEF driverVars
  <2>5. Map' = Map /\ Key' = Key /\ TestFile' = TestFile
    BY <2>2, <2>4, TestFileKept DEF Key
  <2> QED
    BY <2>2, <2>3, <2>4, <2>5 DEF Calling
<1>7. CASE UNCHANGED allVars
  BY <1>7 DEF allVars, vars, libVars, driverVars, fileVars, Calling, Map, Key,
     TestFile, Version
<1> QED
  BY <1>2, <1>3, <1>4, <1>5, <1>6, <1>7, DriverCases

(* What the answer to a lookup of the program means. *)
LEMMA AnswerTells ==
  ASSUME NoEnumeration, DInv, step = "wait", Answered
  PROVE  /\ Status \in NssStatus \cup {"100"}
         /\ Status = "TRYAGAIN" =>
              \/ function = "getgrgid" /\ buflen < GroupMinBuf
              \/ /\ TestFile \in Contents /\ TestFile # None
                 /\ \E p \in DOMAIN TestFile : TestFile[p].need > buflen
         /\ FreshIndexes /\ NamesFit =>
              /\ Status = "SUCCESS" => TestFile # None /\ Has(Key)
              /\ Status = "NOTFOUND" =>
                   TestFile # None /\ (~Has(Key) \/ TopBit(Field, Key))
              /\ Status = "UNAVAIL" => TestFile = None
              /\ Status = "100" =>
                   TestFile # None /\ Dangling(TestFile, Field, Key)
<1> USE DEF DInv
<1> DEFINE o == out[Main]
           r == req[Main]
           seen == window[Main]
<1>1. /\ Main \in Threads /\ r # None /\ pc[Main] = "idle"
      /\ r.op = Functions[function].op /\ r.map = Map
      /\ r.key = Key /\ r.buf = buflen
      /\ seen = {TestFile} /\ Known(function)
  BY TestProgramAssumption DEF Answered, Calling, Running
<1>2. /\ r.op \in LookupOps /\ Kind(r) = Field
      /\ r.op = "getid" /\ r.map = "group" => function = "getgrgid"
  BY <1>1 DEF Known, Functions, LookupOps, Kind, Field, Map
<1>3. \/ RightAnswer(o, r, seen \ {None}, seen)
      \/ RefusedSmall(Main) \/ RefusedName(Main)
  BY <1>1, <1>2 DEF LInv, AnswersRight, Replied, Origins
<1>4. ~Overtaken(seen)
  BY <1>1, FS_Singleton DEF Overtaken
<1>5. seen \subseteq Contents \cup {None}
  BY <1>1 DEF LInv, IInv, TypeOK
<1>6. CASE RightAnswer(o, r, seen \ {None}, seen)
  <2>1. /\ o.ret \in NssStatus \cup {"100"}
        /\ o.ret = "NOTFOUND" =>
             \/ \E c \in seen \ {None} : Missing(c, r)
             \/ (TopBit(Kind(r), r.key) \/ ~FreshIndexes) /\ seen \ {None} # {}
        /\ o.ret = "SUCCESS" =>
             \E c \in seen \ {None} : \E p \in DOMAIN c :
               /\ c[p].ok /\ Matches(c[p], r)
               /\ c[p].start \/ Overtaken(seen) \/ ~FreshIndexes
        /\ o.ret = "UNAVAIL" => None \in seen
        /\ o.ret = "100" =>
             \/ Overtaken(seen) \/ ~FreshIndexes
             \/ \E c \in seen \ {None} : Dangling(c, Kind(r), r.key)
        /\ o.ret = "TRYAGAIN" =>
             \E c \in seen \ {None} : \E p \in DOMAIN c : c[p].need > r.buf
    BY <1>6, RightAnswerMeans
  <2>2. \A c \in seen \ {None} : c = TestFile /\ TestFile # None /\ c \in Contents
    BY <1>1, <1>5
  <2>3. o.ret = "TRYAGAIN" => /\ TestFile \in Contents /\ TestFile # None
                              /\ \E p \in DOMAIN TestFile : TestFile[p].need > buflen
    BY <1>1, <2>1, <2>2
  <2>4. ASSUME FreshIndexes
        PROVE  /\ o.ret = "SUCCESS" => TestFile # None /\ Has(Key)
               /\ o.ret = "NOTFOUND" =>
                    TestFile # None /\ (~Has(Key) \/ TopBit(Field, Key))
               /\ o.ret = "UNAVAIL" => TestFile = None
               /\ o.ret = "100" => TestFile # None /\ Dangling(TestFile, Field, Key)
    <3>1. o.ret = "SUCCESS" => TestFile # None /\ Has(Key)
      BY <1>1, <1>2, <1>4, <2>1, <2>2, <2>4 DEF Has, Holds, Lines, Starts, Matches
    <3>2. o.ret = "NOTFOUND" => TestFile # None /\ (~Has(Key) \/ TopBit(Field, Key))
      BY <1>1, <1>2, <2>1, <2>2, <2>4 DEF Has, Missing
    <3>3. o.ret = "UNAVAIL" => TestFile = None
      BY <1>1, <2>1
    <3>4. o.ret = "100" => TestFile # None /\ Dangling(TestFile, Field, Key)
      BY <1>1, <1>2, <1>4, <2>1, <2>2, <2>4
    <3> QED
      BY <3>1, <3>2, <3>3, <3>4
  <2> QED
    BY <2>1, <2>3, <2>4 DEF Status
<1>7. CASE RefusedSmall(Main)
  <2>1. o.ret = "TRYAGAIN" /\ function = "getgrgid" /\ buflen < GroupMinBuf
    BY <1>1, <1>2, <1>7 DEF RefusedSmall, Reply
  <2> QED
    BY <2>1 DEF Status, NssStatus
<1>8. CASE RefusedName(Main)
  <2>1. o.ret = "UNAVAIL"
    BY <1>8 DEF RefusedName, Reply
  <2>2. ~NamesFit
    <3>1. filename[r.map] \in Paths
      BY <1>1 DEF Known, Map, LInv, IInv, TypeOK
    <3>2. ASSUME NamesFit, NEW p \in Paths
          PROVE  ~(PathLen[p] > PathLimit - 8)
      BY <3>2, NssCacheAssumption DEF NamesFit
    <3> QED
      BY <1>8, <3>1, <3>2 DEF RefusedName, NamesFit
  <2> QED
    BY <2>1, <2>2 DEF Status, NssStatus
<1> QED
  BY <1>3, <1>6, <1>7, <1>8

LEMMA BufferStep ==
  ASSUME NoEnumeration, DInv, [DriverNext]_allVars
  PROVE  BufferBounded'
<1> USE DEF DInv
<1> SUFFICES ASSUME step' \in {"ask", "wait"}
             PROVE  buflen' = FirstBuf \/ \E n \in Needs' : buflen' < 2 * n
  BY DEF BufferBounded
<1>1. ASSUME step \in {"ask", "wait"}, buflen' = buflen
      PROVE  buflen' = FirstBuf \/ \E n \in Needs' : buflen' < 2 * n
  <2>1. Needs' = Needs
    BY <1>1, FilesKept, TestFileKept DEF Needs
  <2> QED
    BY <1>1, <2>1 DEF BufferBounded
<1>2. CASE Make \/ Start \/ EndOfInput
  BY <1>2 DEF Make, Start, EndOfInput, driverVars
<1>3. ASSUME NEW f \in DOMAIN Functions, ReadLine(f)
      PROVE  buflen' = FirstBuf
  BY <1>3 DEF ReadLine, Prepare
<1>4. CASE Asks
  BY <1>1, <1>4 DEF Asks
<1>5. CASE Answer
  <2>1. /\ step = "wait" /\ Answered /\ Status = "TRYAGAIN"
        /\ buflen' = 2 * buflen /\ buflen \in Nat
    BY <1>5 DEF Answer, NextBuflen, Running
  <2>2. Needs' = Needs
    BY <2>1, FilesKept, TestFileKept DEF Needs
  <2>3. \E n \in Needs : n \in Nat /\ buflen < n
    <3>1. CASE function = "getgrgid" /\ buflen < GroupMinBuf
      BY <3>1, NssCacheAssumption DEF Needs
    <3>2. CASE /\ TestFile \in Contents /\ TestFile # None
               /\ \E p \in DOMAIN TestFile : TestFile[p].need > buflen
      <4>1. PICK p \in DOMAIN TestFile : TestFile[p].need > buflen
        BY <3>2
      <4>2. TestFile[p].need \in Nat
        BY <3>2, FileFacts DEF Unit
      <4>3. TestFile[p].need \in Needs
        BY <3>2 DEF Needs
      <4> QED
        BY <2>1, <4>1, <4>2, <4>3
    <3> QED
      BY <2>1, <3>1, <3>2, AnswerTells
  <2>4. PICK n \in Needs : n \in Nat /\ buflen < n
    BY <2>3
  <2>5. buflen' < 2 * n
    BY <2>1, <2>4
  <2> QED
    BY <2>2, <2>4, <2>5
<1>6. CASE Library /\ UNCHANGED <<buflen, driverVars>>
  BY <1>1, <1>6 DEF driverVars
<1>7. CASE UNCHANGED allVars
  BY <1>1, <1>7 DEF allVars, driverVars
<1> QED
  BY <1>2, <1>3, <1>4, <1>5, <1>6, <1>7, DriverCases

(* What the lookups show of the file, and the program of the lookups. *)
LEMMA TruthStep ==
  ASSUME NoEnumeration, FreshIndexes, NamesFit, DInv, [DriverNext]_allVars
  PROVE  KeysFound' /\ ExitTruth'
<1> USE DEF DInv
<1> DEFINE Same == /\ TestFile' = TestFile /\ Map' = Map /\ Field' = Field
                   /\ \A key : Has(key)' <=> Has(key)
                   /\ input' = input
<1>1. step # "start" => Same
  BY TestFileKept, FilesKept
<1>2. Same => \A i : FoundThere(i)' <=> FoundThere(i)
  BY DEF FoundThere
<1>3. step = "start" => lines = 0
  BY DEF Running
<1>4. CASE Make \/ Start
  <2>1. lines' = 0 /\ step' \notin {"ask", "wait"}
    BY <1>3, <1>4 DEF Make, Start, driverVars
  <2> QED
    BY <2>1 DEF KeysFound, ExitTruth
<1>5. ASSUME NEW f \in DOMAIN Functions, ReadLine(f)
      PROVE  KeysFound' /\ ExitTruth'
  <2>1. /\ step = "read" /\ step' = "ask" /\ lines' = lines + 1 /\ Same
        /\ lines \in 0..Len(input) /\ input \in Inputs
    BY <1>1, <1>5 DEF ReadLine, Running
  <2>2. 1..(lines' - 1) = 1..lines
    BY <2>1, InputFacts
  <2> HIDE DEF Same
  <2>3. \A i \in 1..(lines' - 1) : FoundThere(i)'
    BY <1>2, <2>1, <2>2 DEF KeysFound
  <2> QED
    BY <2>1, <2>3 DEF KeysFound, ExitTruth
<1>6. CASE Asks
  <2> HIDE DEF Same
  <2>1. step = "ask" /\ step' = "wait" /\ lines' = lines /\ Same
    BY <1>1, <1>6 DEF Asks
  <2> QED
    BY <1>2, <2>1 DEF KeysFound, ExitTruth
<1>7. CASE EndOfInput
  <2>1. /\ step = "read" /\ step' = "exit" /\ lines' = lines /\ Same
        /\ lines = Len(input) /\ input \in Inputs
        /\ lines > 0 => exit' = ret
    BY <1>1, <1>7 DEF EndOfInput, Running
  <2>2. ASSUME lines > 0
        PROVE  /\ exit' = Found /\ TestFile # None
               /\ \A i \in DOMAIN input : Has(input[i])
    BY <2>1, <2>2, InputFacts DEF KeysFound, FoundThere
  <2> QED
    BY <2>1, <2>2 DEF KeysFound, ExitTruth, Found, NotFound, NoAccess, Unset
<1>8. CASE Answer
  <2>1. /\ step = "wait" /\ Answered /\ Same /\ lines' = lines
        /\ lines > 0 /\ lines \in 0..Len(input) /\ input \in Inputs
        /\ step' # "wait" /\ function' = function
    BY <1>1, <1>8 DEF Answer, Running
  <2>2. Key' = Key /\ Key = input[lines]
    BY <2>1 DEF Key
  <2>3. \A i \in 1..(lines - 1) : FoundThere(i)
    BY <2>1 DEF KeysFound
  <2>4. CASE step' = "ask"
    <3> HIDE DEF Same
    <3> QED
      BY <1>2, <2>1, <2>3, <2>4 DEF KeysFound, ExitTruth
  <2>5. CASE step' = "read"
    <3>1. Verdict = Found /\ ret' = Verdict
      BY <1>8, <2>5 DEF Answer, Breaks
    <3>2. Status = "SUCCESS"
      BY <3>1 DEF Verdict, Found, NotFound, NoAccess, Unset
    <3>3. FoundThere(lines)
      BY <2>1, <2>2, <3>2, AnswerTells DEF FoundThere
    <3>4. \A i \in 1..lines : FoundThere(i)
      BY <2>1, <2>3, <3>3, InputFacts
    <3> HIDE DEF Same
    <3> QED
      BY <1>2, <2>1, <2>5, <3>1, <3>4 DEF KeysFound, ExitTruth
  <2>6. CASE step' = "exit"
    <3>1. Status # "TRYAGAIN" /\ Breaks /\ exit' = Verdict
      BY <1>8, <2>6 DEF Answer
    <3>2. Status \in {"UNAVAIL", "NOTFOUND", "100"}
      BY <2>1, <3>1, AnswerTells DEF Breaks, Verdict, NssStatus
    <3>3. CASE Status = "UNAVAIL"
      <4>1. exit' = NoAccess /\ TestFile = None
        BY <2>1, <3>1, <3>3, AnswerTells DEF Verdict
      <4> QED
        BY <2>1, <2>6, <4>1 DEF KeysFound, ExitTruth, Found, NotFound, NoAccess, Unset
    <3>4. CASE Status = "NOTFOUND"
      <4>1. /\ exit' = NotFound /\ TestFile # None
            /\ ~Has(Key) \/ TopBit(Field, Key)
        BY <2>1, <3>1, <3>4, AnswerTells DEF Verdict
      <4> QED
        BY <2>1, <2>2, <2>6, <4>1
           DEF KeysFound, ExitTruth, Found, NotFound, NoAccess, Unset
    <3>5. CASE Status = "100"
      <4>1. exit' = Unset /\ TestFile # None /\ Dangling(TestFile, Field, Key)
        BY <2>1, <3>1, <3>5, AnswerTells DEF Verdict
      <4> QED
        BY <2>1, <2>2, <2>6, <4>1
           DEF KeysFound, ExitTruth, Found, NotFound, NoAccess, Unset
    <3> QED
      BY <3>2, <3>3, <3>4, <3>5
  <2> QED
    BY <1>8, <2>4, <2>5, <2>6 DEF Answer
<1>9. CASE \/ Library /\ UNCHANGED <<buflen, driverVars>>
           \/ UNCHANGED allVars
  <2>1. step' = step /\ lines' = lines /\ exit' = exit /\ ret' = ret
    BY <1>9 DEF allVars, driverVars
  <2>2. CASE step = "start"
    BY <1>3, <2>1, <2>2 DEF KeysFound, ExitTruth
  <2>3. CASE step # "start"
    <3>1. Key' = Key /\ Same
      BY <1>1, <2>1, <2>3 DEF Key
    <3>2. ExitTruth'
      BY <2>1, <3>1 DEF ExitTruth
    <3> HIDE DEF Same
    <3>3. KeysFound'
      BY <1>2, <2>1, <3>1 DEF KeysFound
    <3> QED
      BY <3>2, <3>3
  <2> QED
    BY <2>2, <2>3
<1> QED
  BY <1>4, <1>5, <1>6, <1>7, <1>8, <1>9, DriverCases

-----------------------------------------------------------------------------
(* The invariant. *)
LEMMA DriverInitDInv == DriverInit => DInv
<1> SUFFICES ASSUME DriverInit
             PROVE  DInv
  OBVIOUS
<1>1. LInv
  BY InitLInv DEF DriverInit
<1>2. Running
  BY DEF DriverInit, Running
<1>3. Calling
  BY TestProgramAssumption DEF DriverInit, Init, LibInit, Calling
<1>4. BufferBounded /\ KeysFound /\ ExitTruth
  BY DEF DriverInit, BufferBounded, KeysFound, ExitTruth
<1> QED
  BY <1>1, <1>2, <1>3, <1>4 DEF DInv

LEMMA DriverInvariance ==
  ASSUME NoEnumeration
  PROVE  DriverSpec => []DInv
<1>1. DInv /\ [DriverNext]_allVars => DInv'
  <2> SUFFICES ASSUME DInv, [DriverNext]_allVars
               PROVE  DInv'
    OBVIOUS
  <2>1. LInv'
    BY DriverStepsAreSteps, StepLInv DEF DInv
  <2>2. Running' /\ Calling' /\ BufferBounded'
    BY RunningStep, CallingStep, BufferStep
  <2>3. FreshIndexes' /\ NamesFit' => KeysFound' /\ ExitTruth'
    BY TruthStep DEF FreshIndexes, NamesFit
  <2> QED
    BY <2>1, <2>2, <2>3 DEF DInv
<1>2. DriverSpec => DriverInit /\ [][DriverNext]_allVars
  BY PTL DEF DriverSpec
<1> QED
  BY <1>1, <1>2, DriverInitDInv, PTL

(***************************************************************************)
(* The test program uses nss_cache.c as any process does: every behaviour  *)
(* of it is one of NssCache.                                               *)
(***************************************************************************)
THEOREM DriverIsAClient ==
  ASSUME NoEnumeration
  PROVE  DriverSpec => Spec
<1>1. DInv /\ [DriverNext]_allVars => [Next]_vars
  BY DriverStepsAreSteps DEF DInv
<1>2. DriverSpec => DriverInit /\ [][DriverNext]_allVars
  BY PTL DEF DriverSpec
<1>3. DriverInit => Init
  BY DEF DriverInit
<1> QED
  BY <1>1, <1>2, <1>3, DriverInvariance, PTL DEF Spec

(***************************************************************************)
(* The exit status of the lookup program is true of the test file: for any *)
(* file, input and function, with an index of any age or none, whatever    *)
(* the buffer it starts with.                                              *)
(***************************************************************************)
THEOREM ExitIsTrue ==
  ASSUME NoEnumeration, FreshIndexes, NamesFit
  PROVE  DriverSpec => []ExitTruth
<1>1. DInv => ExitTruth
  BY DEF DInv
<1> QED
  BY <1>1, DriverInvariance, PTL

(***************************************************************************)
(* The buffer of the lookup program never grows to twice what the longest  *)
(* line, or the group map's minimum, takes; so its retries can end.        *)
(***************************************************************************)
THEOREM BufferStaysBounded ==
  ASSUME NoEnumeration
  PROVE  DriverSpec => []BufferBounded
<1>1. DInv => BufferBounded
  BY DEF DInv
<1> QED
  BY <1>1, DriverInvariance, PTL
=============================================================================
