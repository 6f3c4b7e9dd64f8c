----------------------------- MODULE MCNssCache -----------------------------
(***************************************************************************)
(* Values for the constants of NssCache: names and map files small enough  *)
(* for TLC in which the cases that matter occur.                           *)
(***************************************************************************)
EXTENDS NssCacheRefinement, TLC

CONSTANTS alice, bob, lice,  \* names; lice is what is left of alice
          t1, t2             \* threads

MCSymmetry == Permutations(Threads)

(* A line of one unit at position p. *)
Line(p, name, id, need) ==
  [name |-> name, id |-> id, need |-> need, ok |-> TRUE, start |-> TRUE,
   next |-> p + 1]

(* A line that does not parse. *)
BadLine(p, name, id) == [Line(p, name, id, 1) EXCEPT !.ok = FALSE]

(* A line of two units at p, and what a reader finds in the middle of it.  *)
LongLine(p, name, id, need, rest) ==
  <<[Line(p, name, id, need) EXCEPT !.next = p + 2],
    [name |-> rest, id |-> id, need |-> need, ok |-> TRUE, start |-> FALSE,
     next |-> p + 2]>>

-----------------------------------------------------------------------------
(* Versions of a map file. *)

(* Two accounts, the second of which needs a large buffer. *)
Both == <<Line(1, alice, 1, 1), Line(2, bob, 2, 2)>>

(* Only the second, with an id that has its top bit set, before a line that *)
(* does not parse.                                                          *)
High == <<Line(1, bob, 200, 1), BadLine(2, lice, 2)>>

(* The same accounts behind a line that does not parse. *)
Shifted == <<BadLine(1, lice, 2), Line(2, bob, 2, 1), Line(3, alice, 1, 1)>>

(* A reader with a small buffer stops in the first line and again in the   *)
(* second.                                                                 *)
Large == LongLine(1, alice, 1, 2, lice) \o <<Line(3, bob, 2, 1)>>

MCLookupContents == {Both, High, Shifted}
MCEnumContents == {Large, Shifted}
MCBoth == {Both}
MCInitial == {Both, None}
MCLarge == {Large}

-----------------------------------------------------------------------------
(* Paths.  A path of 247 characters has room for ".ixname"; one of 248 has *)
(* room for ".ixuid" only, and one of 249 for neither.                     *)
MCShort == [p \in Paths |-> 17]
MCLong == [p \in Paths |-> IF p = "short" THEN 247
                           ELSE IF p = "long" THEN 248 ELSE 249]
MCDefault == [m \in Maps |-> "short"]
MCDefaults == [passwd |-> "short", group |-> "long", shadow |-> "longest",
               gshadow |-> "long"]
=============================================================================
