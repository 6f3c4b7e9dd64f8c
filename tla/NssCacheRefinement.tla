------------------------- MODULE NssCacheRefinement -------------------------
(***************************************************************************)
(* NssCache implements Directory: forget the mutex, the indexes, the age   *)
(* of files and where a call is, and every step is a step of Directory or  *)
(* none.                                                                   *)
(***************************************************************************)
EXTENDS NssCacheProperties

Promise == INSTANCE Directory WITH
  files  <- [p \in Paths |-> Version(p)],
  path   <- filename,
  cursor <- stream,
  call   <- [t \in Threads |-> IF pc[t] = "idle" THEN None ELSE req[t]],
  seen   <- window,
  answer <- out

(***************************************************************************)
(* Whatever the threads and the tools do, the process answers as Directory *)
(* promises: a lookup for a version of the file that was in place during   *)
(* the call or that an enumeration has open, an enumeration entry by entry *)
(* through one version until a lookup of the same map ends it.             *)
(***************************************************************************)
ImplementsDirectory == Promise!Spec
=============================================================================
