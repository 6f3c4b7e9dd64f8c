---------------------------- MODULE TestProgram ----------------------------
(***************************************************************************)
(* What the two test programs, gen_getent.c and lookup.c, have in common:  *)
(* one thread that names the map files it wants (nss_test.h), calls the    *)
(* functions of nss_cache.c directly, and asks again with twice the buffer *)
(* for as long as it is told to try again.                                 *)
(***************************************************************************)
EXTENDS NssCacheProperties

CONSTANTS
  Main,       \* the thread of the program
  TestPath,   \* the file each map is read from
  FirstBuf    \* the buffer the program starts with

ASSUME TestProgramAssumption ==
  /\ Threads = {Main}
  /\ TestPath \in [Maps -> Paths]
  /\ FirstBuf \in Nat

VARIABLE buflen  \* the size of the program's buffer

(* The program waits for a call to return; meanwhile nss_cache.c runs. *)
Answered == pc[Main] = "idle" /\ req[Main] # None
Library == Acquire(Main) \/ Locked(Main)

(* The status of the last call, as the programs test it. *)
Status == out[Main].ret

(* Mutant: the buffer is not enlarged. *)
NextBuflenSame == buflen

(* realloc to twice the size after TRYAGAIN. *)
NextBuflen == IF Status = "TRYAGAIN" THEN 2 * buflen ELSE buflen

(* The map's file is named, the first buffer allocated. *)
Prepare(m) == buflen' = FirstBuf /\ SetPath(m, TestPath[m])

(* The call must be for the buffer the program has. *)
WithBuffer == req'[Main].buf = buflen
=============================================================================
