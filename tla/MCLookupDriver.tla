--------------------------- MODULE MCLookupDriver ---------------------------
(* Values for the constants of LookupDriver. *)
EXTENDS LookupDriver, MCNssCache

(* A program tests one function, so one test file will do. *)
MCTestPath == [m \in Maps |-> "test"]
MCEtc == [m \in Maps |-> "etc"]

(* Keys that are in some files and not in others; the first comes twice.   *)
MCInputs == {<<>>, <<alice, bob>>, <<bob, alice, bob>>, <<1, 2>>, <<200, 1>>,
             <<2>>}

(* The test file: two accounts, one whose id has its top bit set, or none. *)
MCDriverInitial == {Both, High, None}
=============================================================================
