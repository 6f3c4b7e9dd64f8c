# A TLA+ model of libnss-cache

libnss-cache is a plug-in of the C library's name service switch (NSS).  It
answers `getpwnam`, `getgrgid`, `getpwent` and their relatives from files such
as `/etc/passwd.cache`, which another program keeps in step with a directory
service, with the help of sorted index files such as `/etc/passwd.cache.ixname`.

The code is small and the hard part of it is what happens *between* its lines:
one mutex, one shared stream for each map, calls of several threads and of
several kinds that use that stream in turn, and files that are replaced under a
call by processes that take no lock at all.

## 1. Inventory

| Part | Source | State | Operations | What makes it correct |
|---|---|---|---|---|
| NSS service | `nss_cache.c`, `nss_cache.h` | the mutex; for each of four maps a `FILE *` and a file name | `set/end/getXXent_r` (12), `getXXnam_r` (4), `getXXuid_r`/`gid_r` (2), `setXXent_path` (4, tests only) | answers right for a version of the file that was there during the call; enumeration in order, once each; the mutex given back |
| Index search | `_nss_cache_bsearch2` | open index, mapping, offset (all local to a call) | one search | never uses an index for a file it was not made from; falls back to the linear search whenever it cannot answer |
| Map and index files | `scripts/index.sh`, `Makefile`, the synchroniser | files by name with modification times | replace a map file; make, switch in and switch out an index | an index is not older than the file it describes |
| Entry readers | `compat/*.c`, or the C library | position of a stream | read one entry | skip lines that do not parse; ERANGE for a line that does not fit, ENOENT at the end |
| Map dumper | `gen_getent.c` | a growing buffer, the copies | copy each map through `getXXent_r` | the copy has the entries of one version of the map; the loop ends |
| Lookup driver | `lookup.c` | a growing buffer, the input | look up a list of keys | the exit status is true of the map; the retries end |
| BSD registration | `bsdnss.c` | constant table | - | each name bound to its own function |
| Build, packaging, CI, test data | the rest | - | - | - |

How they interact: callers reach the service through NSS, from any thread; the
service reads map and index files; the synchroniser and the indexer write them,
in other processes and without a lock.  A process that has a file open keeps the
*inode*; what other processes change is the *name*.  This is where most of the
hard behaviour comes from:

- the index is opened, compared with the map file *by name*, and the map file is
  then opened *by name* again: three moments, three possible versions;
- a lookup that falls back to the linear search uses the same stream as the
  enumeration, rewinds it if it is open, and closes it when it ends;
- a read that fails because the buffer is too small has consumed part of a line,
  and only the group map goes back;
- some returns lie between `NSS_CACHE_LOCK` and `NSS_CACHE_UNLOCK`.

`PROJECT.json` lists each hazard at its line.

## 2. Modules

| Module | What it is |
|---|---|
| `NssData` | constants and pure operators: lines and units of a file, `Read` (one read of an entry), index records, `IndexesOf` (what `index.sh` makes of a file), `SearchKey` (what `"%d"` makes of an id) |
| `CacheFiles` | the files by name, the clock that stamps them, the synchroniser (`UpdateSystem`) and the indexer (`StartIndexer`, `FinishIndexer`, `RemoveIndex`) |
| `NssCache` | EXTENDS `CacheFiles`; the process: threads, mutex, streams, the 18 entry points and the steps of each call |
| `NssCacheProperties` | what the service owes its callers |
| `Directory` | the abstract service: a file and a cursor for each map, enumeration in one step, a lookup that decides on its answer at one moment |
| `NssCacheRefinement` | the refinement mapping from `NssCache` to `Directory` |
| `NssCacheProofs` | the inductive invariant `IInv` and the theorems about mutex, streams and answers |
| `LookupProofs` | EXTENDS `NssCacheProofs`; what a keyed lookup may answer |
| `NssCacheRefinementProofs` | EXTENDS `LookupProofs`; `NssCache` implements `Directory` |
| `EnumerationProofs` | EXTENDS `LookupProofs`; the order of an enumeration |
| `TestProgram` | what the two test programs share, on top of `NssCache`: one thread, named test files, a buffer that doubles |
| `GetentDump` | EXTENDS `TestProgram`; `gen_getent.c` |
| `GetentDumpProofs` | EXTENDS `GetentDump` and `EnumerationProofs`; the copies are exact |
| `LookupDriver` | EXTENDS `TestProgram`; `lookup.c`, with what `make` does to the index before it runs |
| `LookupDriverProofs` | EXTENDS `LookupDriver` and `LookupProofs`; exit status and buffer |
| `IndexFile` | an index byte by byte: `scripts/index.sh` writes it, the search of `_nss_cache_bsearch2` reads it |
| `IndexFileProofs` | EXTENDS `IndexFile`; what the comparison of ages is worth |
| `CompatReader` | `compat/getpwent_r.c` and `compat/getgrent_r.c`, character by character |
| `CompatReaderProofs` | EXTENDS `CompatReader`; the readers do what `Read` says, and an entry is what its line means |
| `MC*` | values of the constants for TLC; one `.cfg` for each run |

`NssCache` is the centre.  It takes two things for granted that modules of their
own look into: that a read of an entry does what `Read` says (`CompatReader`,
property `ReadConforms`, states this of the readers in the repository, and
`CompatReaderProofs` proves it), and that
an index is a set of records a search finds by key (`IndexFile` says when a
search of the bytes sees that).  The test programs are composed with `NssCache`
as it is: each step of theirs that calls the library is one of its call actions,
and between a call and its return the steps are those of the library.

### Data

A map file is a sequence of *units*, the places at which a read can start: the
first byte of each line, and one or more places inside a line.  A unit says
whether the text from there to the end of the line parses, which entry it would
be, and how large a buffer it needs.  A read inside a line happens after a read
that failed half way, or at an offset that was meant for another version of the
file; what it finds may well parse (the tail of `alice:x:1:...` is the account
`lice` with id 1).  Everything else about the text is left out.

`Read(c, o, buf)` takes lines from `o` until one parses or does not fit, as the
`for (;;)` loops of `compat/` do.  After ERANGE the position is where it was if
the C library restores it (`ReadRestores = TRUE`, recent glibc), else any later
place of the line (`FALSE`: the compat readers).

An index is a set of records of a key and an offset.  `index.sh` finds the offset
with `grep "$value" | first number`, that is, of the first line that *contains*
the key: `Offsets` lets it be the key's own line or any earlier one.

### NssCache: state and steps

`mutex`, `stream[m]` and `filename[m]` are the static variables of `nss_cache.c`
for map `m`.  `pc[t]`, `req[t]`, `ix[t]`, `off[t]` and `out[t]` are the frame of the call thread `t`
is in: its place, its arguments, the index it has open, the offset found, and its
return value, `*errnop` and result.  `given` and `window` are history variables
that only properties read: the lines an enumeration has handed out, and the
versions of the map file since a call began.

The four maps share one text, parametrised by the map, because the code writes
the same functions four times.  The copies were compared by reading, and nothing
checked here would find a slip in one of them: that a call touches only its own
map's stream holds by the way the actions are written, and is not claimed as a
property.  The entry points (`setpwent` ... `getsgnam_r`) are separate actions, and
the two places where the copies differ are explicit (`PosAfter` for group, the
minimum buffer of `getgrgid_r`).  `setXXent`, `endXXent` and `getXXent_r` look at
the file system at most once and are one step after the mutex is taken.  A keyed
lookup is

    Call -> Acquire -> [PrepareByName | FailByName] -> OpenIndex -> CheckIndex
         -> MatchEntry -> SetupScan -> Scan ... Scan -> Finish

with the branches of the code; each of these steps looks at the file system at
most once, apart from `CheckIndex`, whose `stat` is the only look at a name (the
index is an open file by then).  Files change between any two steps.

The test helpers `setXXent_path` take no mutex; they are allowed only while no
call is in progress, as in the single-threaded programs that call them.

### Directory: what is promised

`Directory` has no mutex, no index, no ages of files and no steps inside a call.
A lookup answers from a version of the file that was in place during the call
or that an enumeration had opened; an enumeration goes entry by entry through
one version.  Where the code keeps less than one would like, `Directory` says so
instead of hiding it, and a caller can read there what to reckon with:

- a lookup ends the enumeration of its map (`Return` closes the cursor);
- a lookup by linear search may answer from the older version that an enumeration
  has open (`Sources`);
- if the file was replaced during a lookup, the result may be the end of a line,
  and the status may be 100, which is none of NSS (`Overtaken`); the status may
  also be 100 if all there is of the key is a line that does not parse, with no
  entry behind it (`Dangling`);
- after an entry that did not fit, only the group map is sure to get it again
  (`Stays`);
- an id with its top bit set may be NOTFOUND although it is there;
- a lookup may say UNAVAIL before it has looked at anything.

The mapping forgets mutex, indexes and clocks, takes a call that is not over for
`call`, and the history variable `window` for `seen`.  Every step of `NssCache` is a
step of `Directory` or none: the moment a lookup decides is the step that sets
`out`.

### The test programs

`GetentDump`: `turn` and `step` are the place in `main` and in a
dump loop, `copy` is the output file, `status` what `gen_XXent_data` returned,
`buflen` the buffer.  One action calls `getXXent_r` (`getpwent_to_file`, ...), one
is the loop body after it (`Answer`), and `gen_XXent_data` opens the copy or fails
to.  `live` is history: the versions of the map during its dump.

`LookupDriver`: `function` and `input` are the command line, `lines`, `ret` and `exit`
the variables of the same names in the code.  Each wrapper and each loop of the six
functions is an action.  `EndOfInput` lets a run over an empty input exit with
anything, since `ret` is then never assigned.

### IndexFile

The script's steps are its writes: the truncation, the text of a record, each
padding byte, the newline.  The search's steps are its looks: `stat` of the map
(`StatMap`), `fstat` of the index, which gives the size (`StatIndex`), each byte of
the loop that looks for the first newline (`NextByte`), each `strcmp` of `bsearch`
(`Probe`), `strlen` (`ReadLength`) and `sscanf` (`ReadOffset`) at the record that was hit.
The script writes, or begins the file again, between any two of them, and the
search sees the bytes as they are by then.  The last page of a mapping goes on
with NULs; a look beyond the pages that were mapped, or that a truncated file
still has, is the answer `wild` (`Mapped`).  One `strcmp`, `strlen` or `sscanf` is one step: the
bytes do not change while it runs.

`made` is history, as are `since` (the second a map was put in place),
`reader.steady` and `reader.file`.  `Replace` puts a map in place that was written at
any second up to then: renaming a file leaves its time alone.

### CompatReader

`Fgets` is one `fgets` with the mark in the last byte, `Skip` the `continue` of a
line that does not parse, `fgetpwent_r` and `fgetgrent_r` the ways out with an
entry.  `Seek` stands for what `nss_cache.c` does to the stream between calls.
`unsigned` has 4 bits and pointers 2 bytes in the run, so that wrapping and
alignment occur.  At a comma that ends a member list the loop reads on behind the
line.  The first byte there is one that `memset` has cleared for the alignment, and
the loop stops, or, if the buffer's address leaves no such byte, one of a pointer
that the loop has stored: whether it stops before it overwrites one depends on
the address, so that the list may then be any (`ReadsPointers`, `MemberLists`).

Operators named as mutants in a comment (`AcquireBarging`, `StaleNever`, ...) are
deliberately wrong variants of the definition that follows them.  Nothing uses
them; substituting one for its neighbour must make a run fail, which shows that
the property in question depends on that line of the code.

## 3. Runs

Names are model values, ids are 1, 2 and 200 with 8-bit ids (so that 200 has its
top bit set), buffers start at size 1 or 2, and files have one to four lines:
enough for a small and a large entry, a line that does not parse, a line with an
inside, and files in which the same position is a line, the middle of a line, or
past the end.

| Run | Configuration | Shows |
|---|---|---|
| lookups | one thread, group map, lookups; three versions of the file, both indexes, 3 seconds | `TypeOK`, `SuccessMatches`, `LookupRegular`, `IllegalHasReason`, `TryAgainHasReason`, `ImplementsDirectory` |
| enumerate | two threads, group map, enumeration, reads not undone, two writes, two paths that are switched | `NextEntry`, `ExclusiveAccess` |
| maps | one thread, four maps, all 18 entry points, paths of 247, 248 and 249 characters, malloc succeeds | `LeavesLocked` |
| mixed | two threads, passwd, enumeration and lookups by name, one write (of the map or its index), fairness | `ScanComplete`, `LockReleased`, `ImplementsDirectory` |
| dump | `gen_getent` over four maps, reads not undone, one replacement, files that are absent; two versions that fit the first buffer and one with a line of four times its size | `CopyExact`, `DumpEnds` |
| driver | `lookup` with each function, six inputs and none, with and without an index | `ExitTruth`, `BufferBounded`, `DriverEnds` |
| index | two versions of a map, four keys, records of 6 bytes, pages of 16, 2 seconds, maps that were written in any second before they are put in place, any number of runs of the script during a search | `FoundIsRight`, `MissOnlyWhileWritten`, `AgeWindow` |
| compat | five files, every position, ten sizes of buffer, two alignments | `ReadConforms`, `EntryIsLine`, `MembersRight` |

The bounds.  One thread is enough for `lookups`: the mutex serialises the calls, so
what a lookup meets is another call's leftover stream (run `mixed`) or the tools,
which run here at every step.  `MaxTime` bounds the number of file writes: three
allow the longest interesting sequence, an index, a replacement and a second
index.  Two threads make every interleaving at the mutex possible; a third would
only wait.  `index` uses a key that occurs twice, one that occurs in another, one
that occurs in an offset, and one whose offset fills its column.  `compat` has a
line that fits exactly, a number that wraps, empty fields, members that are
empty, lists that end with a comma, a line that begins with a colon, an empty line, and a file without a
newline at its end.  In `dump` a dump of each of the four maps ends with status 0 and
the hypothesis of `CopyExact` true, after a replacement under it, and the group map is
also retried; a high id is among the entries.  `maps` has a path that leaves
room for `.ixname` exactly, one that is a character too long for it, and one that
has no room for `.ixuid` either.  Deadlock is checked except in `maps` and `leak`, where the
process really stops, with the mutex locked for ever.

`lookups` and `mixed` assume what makes ages meaningful: a write takes a new second
(`ClockSteps = {1}`) and a map is not replaced while the indexer runs
(`OverlapIndexer = FALSE`); and `CacheFiles` stamps a map with the second in which
it is put in place.  The code ensures none of this.  `index` has no such
assumption, and `AgeWindow` says when an index of another version passes the
age check: only if the map was put in place in the second in which the script
listed the other version, or later, and had been written by the second in which
the index last was.  The second half bounds the window for a synchroniser that
writes a map and puts it in place in the same second; one that renames an
older file can go past it at any later time.

Fairness.  `FairSpec`: a thread that can take a step with the mutex held takes it.
`DumpSpec` and `DriverSpec`: the program's one thread takes a step when it can.  The
operating system gives that much; no fairness is assumed of callers, of tools,
or of the mutex towards its waiters.

The remaining runs each refute one statement of the repository:

| Run | Refuted | Cause |
|---|---|---|
| leak | `LockReleased` | `getXXnam_r` returns with the mutex locked when malloc fails or the path is too long |
| lost_entry (maps passwd and group) | `CopyEqualsMap` | passwd, shadow and gshadow do not go back after ERANGE: the dump lacks an entry |
| high_id | `MapKeysFound` | a uid of 2^31 or more is printed as a negative number and not found in the index |
| long_record | `IndexedKeyFound` | a record longer than 16 bytes makes the search look between records |

`LookupRegular`, `ExitTruth`, `CopyExact` and `MissOnlyWhileWritten` state what is left
when these are set aside.

Two of these statements fail in another way, too.  `CopyEqualsMap` is false of a map
with an id of 2^31 or more even if every read succeeds: `gen_getent` prints the id
with `"%d"` and the copy has a negative number (`CopyExact` excludes the id of such an
entry).  `IndexedKeyFound` is false of a map larger than 10^6 bytes even if all
records are of one length: `strings -t d` prints offsets in seven columns, and from
there on `cut -f3` finds no key (`KeysListed`).

`MissOnlyWhileWritten` speaks of records of equal length and of the keys the
script lists.  `FoundIsRight` excludes one case besides: that the script has begun the
file again since `fstat`.  Then the record that was hit may be another key's by the
time `sscanf` reads its offset, and the search returns that; the entry read at the
offset is compared with the key afterwards (`SuccessMatches`), so that a caller gets
no wrong entry but may be told that there is none.

## 4. Proofs

All theorems hold for every value of the constants that satisfies the assumptions
named in the modules: any threads, files, buffers, paths, clocks.  Some name a
hypothesis more; it is given in the second column.

| Theorem | Under | Statement |
|---|---|---|
| `TypeCorrect` | | `Spec => []TypeOK` |
| `MutualExclusion` | | `Spec => []ExclusiveAccess` |
| `AnswersMatch` | | `Spec => []SuccessMatches` |
| `SearchIsComplete` | | `Spec => ScanComplete` |
| `LockGivenBack` | | `Spec => LeavesLocked` |
| `LookupsAreRegular` | `FreshIndexes`, `LookupsOnly` | `Spec => []LookupRegular` |
| `IllegalIsExplained` | `FreshIndexes` | `Spec => []IllegalHasReason` |
| `TryAgainIsExplained` | `NoEnumeration` | `Spec => []TryAgainHasReason` |
| `NssCacheImplementsDirectory` | `FreshIndexes` | `Spec => ImplementsDirectory` |
| `EnumerationInOrder` | `EnumeratesOnly`, `PlaceKept` | `Spec => NextEntry` |
| `DriverIsAClient` | `NoEnumeration` | `DriverSpec => Spec` |
| `ExitIsTrue` | `NoEnumeration`, `FreshIndexes`, `NamesFit` | `DriverSpec => []ExitTruth` |
| `BufferStaysBounded` | `NoEnumeration` | `DriverSpec => []BufferBounded` |
| `DumpIsAClient` | | `DumpSpec => Spec` |
| `CopyIsExact` | | `DumpSpec => []CopyExact` |
| `AgesAreCompared` | | `Spec => AgeWindow` (of `IndexFile`) |
| `ReadersConform` | | `Spec => ReadConforms` (of `CompatReader`) |
| `EntriesAreLines` | | `Spec => EntryIsLine` (of `CompatReader`) |
| `MembersAreRight` | | `Spec => MembersRight` (of `CompatReader`) |

The hypotheses, and what justifies them:

- `FreshIndexes`: a write of a file takes a new second, and no map is replaced while
  `index.sh` reads it.  That a map has the time at which it was put in place, and
  not an older one that `rename` has kept, is in `CacheFiles` and so under all
  theorems about `NssCache`.  The code has no means to ensure any of the three; they
  are what the comparison of ages in `_nss_cache_bsearch2` presumes.
  `AgesAreCompared` is proved without them and says which replacements get past it.  Runs `lookups`, `mixed` and `driver` satisfy it.
- `LookupsOnly`, `NoEnumeration`, `EnumeratesOnly`: which calls the process makes.  Most
  processes look up only; an enumeration leaves a stream open from which a later
  lookup by linear search answers, so `LookupRegular` does not hold of a process
  that does both.  What does hold is `Directory`'s promise, and
  `NssCacheImplementsDirectory` and `IllegalIsExplained` have no such hypothesis.
  `lookup.c` does not enumerate, and `gen_getent.c` does nothing else (there it is no
  hypothesis: it follows from the program).
- `PlaceKept`: a read that fails for want of space is undone, by the C library or, for
  the group map, by the code.  Without it entries are lost (run `lost_entry`).  Run
  `enumerate` satisfies it by its map, with reads that are not undone.
- `NamesFit`: the path of a map leaves room for `.ixname`, and `malloc` succeeds; the
  driver's own error exit for UNAVAIL would otherwise be reached with a file in
  place.

### The arguments

**`IInv`** (`NssCacheProofs`).  `TypeOK` is not inductive by
itself: `Scan` reads through `stream[m]`, which must be open, and it is open because
the thread at `scan` opened it and nobody else has held the mutex since.  So
`IInv` adds `ExclusiveAccess` (a thread at a locked step holds the mutex),
`AtOwnStep` (a thread's step belongs to the call it was asked to make, and an
index it searches is open), `AnswerMatches` (`SuccessMatches` from the moment the
answer is known) and `ScanProgress` (a search's stream is open, stands at the
start of a line or at the end of the file, and every entry before it has another
key).  `ScanProgress` rests on two lemmas about reading: `ReadFacts` and
`ReadPassesNoEntry`, which says that a read which starts at a line passes no
entry before the one it stops at, and needs files to be well formed
(`ContentsAssumption`).  `OthersUntouched`, `LockedMoves` and `ToolsUntouched` say
what a step leaves alone; each conjunct then has a lemma with a step for each
action.

**`LInv`** (`LookupProofs`) says why an answer is right.  `FilesFresh`: an index in place
that is not older than the map file is one of that file, also while the indexer
runs.  `OpenIndexFresh` carries this to an index a lookup has open: the age check
that follows is of the name, and the open index stays good for whatever has that
name.  `OffsetPlaced`: an offset that was found is that of a line, at or before
the key's, of a version the call has seen.  `VersionSeen` and `StreamPlaced` tie
the stream and the file in place to `window`.  `AnswersRight` is what follows: each
answer, from the step that sets `out` to the return, is right for one of these
versions.  `LookupRegular`, `IllegalHasReason` and `TryAgainHasReason` are read off it.

**Refinement** (`NssCacheRefinementProofs`).  Under `LInv` each step of `NssCache` maps to
one disjunct of `Directory`'s next-state relation or leaves its variables
unchanged: a call to `Invoke`, `getXXent_r` and its relatives to `Enumerate`, the step
that sets a lookup's `out` to `Search`, the last step to `Return`, the replacement of a
map to `Replace`.  Taking the mutex, opening and checking an index, setting up a
scan and the indexer's steps are stutters.

**`EInv`** (`EnumerationProofs`) is `LInv` and, for each map, that `given` is the set of
entries before the position of the open stream, which is at the start of a line.
`GetentEnumerates` says that a `getXXent_r` moves both alike.  The lemmas are about
one map and one call, so that the dump can use them where `PlaceKept` fails.

**`DInv`** (`LookupDriverProofs`).  The steps of `lookup.c` are steps of the service, so `LInv`
holds.  `Calling` says that while the program waits the library is at work on the
program's call, and that the call has seen one version of the file; `KeysFound` that
every key looked up before is in it.  With that, the answer `LInv` allows
decides the exit status.

**`PInv`** (`GetentDumpProofs`).  `Underway`, `Enumerating`, `Waiting` and `Reading` say where the
program is, and that the stream is that of the current map; `Following` that the
copy so far has the entries that were given out (`EnumeratedIn`), if no read can
cost one, which is so for a map whose failed reads are undone and for a file
whose lines all fit the first buffer; `Told` what a return status says.

**`AInv`** (`IndexFileProofs`).  `Provenance`: a version that was listed, by the running
script or for the index, is still in place, or another was put in place at the
second of its listing or later.  `KnowsAge`: a search that has looked at the map
knows its age until the map is replaced.

**`CInv`** (`CompatReaderProofs`).  While a call goes from line to line, a `Read` that began
at the same position has not stopped anywhere before (`Reaches`), and the line
in the buffer is the whole line at such a place, which fitted (`Holding`).  The
places inside a line that was skipped matter, as `Read` looks at all of them.
The lemmas before it are about searching a text (`FindFacts`, `LineFacts`) and about the
buffer an entry needs (`NeedFacts`).  They rest on `LeastNatural`, the least number
principle for sets, which follows from the well-foundedness of the finite
subsets of Nat.

`EntriesAreLines` and `MembersAreRight` are about what the loops over characters compute.
`FieldBetween` says that what stands between two marks is a field, and `MarkStep` and
`NumberStep` go from one colon to the next, as the readers do.  `atou` is a fold and
`MemberStarts` a recursive function.  TLA+ defines such a function as the one that
solves its equation, so that there is first to show that a solution exists
(`FoldExists`, `SplitExists`), and then what a solution is (`FoldModulo`, `SplitAll`), each
time for a least counterexample, by `LeastNatural`.  `MembersAre` has, besides the
members, the bound on their number that the array of pointers depends on, which
also holds of lists with empty members; `ArrayFits` is the arithmetic.

TLC checked each of these invariants before it was proved: `IInv` on the constants of
`lookups`, `mixed` and `maps`, `LInv` on those of `lookups` and `mixed`, `EInv` on
those of `enumerate`, `DInv` on those of `driver`, `PInv` on those of `dump` (all of it
but the type of the copies, a set TLC cannot enumerate), `CInv` on those of `compat`.

Two statements had to change on the way.  `IllegalHasReason` used to allow the
status 100 only if the file was replaced: the proof failed at a key whose last
line does not parse, and TLC then found that behaviour in a file that such a line
ends.  And `LookupDriver` let the program look up a map that is not among `Maps`.

### Only model-checked

- `LockReleased`, `DumpEnds`, `DriverEnds`: liveness under fairness.
- `FoundIsRight` and `MissOnlyWhileWritten`: they need what the bytes of a file that
  is being appended to say at each step of a binary search, what the fold that
  reads a number computes, and what `SortSeq` returns.

## 5. Not modelled, and the plan

Not modelled, and why:

- the text of entries beyond the fields that are compared; messages; I/O errors
  other than an absent file; `malloc` and `mmap` failures other than those of a
  lookup by name and of an empty index;
- `strcoll` in the wrappers against `strcmp` in the search: names are compared for
  equality, which the two agree on in the C locale;
- `grep` takes a key for a regular expression, `strings` drops lines of fewer than
  four characters and splits lines at bytes that are not printable, and a
  line with a blank before its key's column is cut there: the keys and lines of
  the model have none of these; `LC_ALL` overrides the script's `LC_COLLATE`;
- input lines of `lookup` longer than its 255 bytes;
- `bsdnss.c` (a constant table), `test/last_pw_errno_test.c` (it tests the C library's
  `getpwent`, which is not in the repository), packaging, test data and CI.

The model's components are complete with that, and most of its safety properties
are proved.  What is left to prove, in this order:

1. the layout of an index file (each record has `Pad` bytes and a newline), as an
   invariant of the script's writes, and from it `FoundIsRight`;
2. `NextEntry` for processes that also look up: the enumeration ends with the
   lookup, and `given` with it.
