---------------------------- MODULE MCGetentDump ----------------------------
(* Values for the constants of GetentDump. *)
EXTENDS GetentDump, MCNssCache

(* Each map has a test file of its own; the default files are one file. *)
MCTestPath == [m \in Maps |-> m]
MCEtc == [m \in Maps |-> "etc"]

(* The test files: two versions all of which fits the first buffer, of     *)
(* which one has an id with its top bit set and a line that does not       *)
(* parse, and one with a line that needs four times as much.               *)
MCDumpContents == {Large, High, Shifted \o <<Line(4, lice, 200, 8)>>}
MCDumpInitial == {Large, None}
=============================================================================
