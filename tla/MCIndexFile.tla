---------------------------- MODULE MCIndexFile ----------------------------
(* Values for the constants of IndexFile: maps of a few short keys, and    *)
(* records padded to six bytes instead of sixteen.                         *)
EXTENDS IndexFile

a == 97
b == 98
c == 99
Number(n) == 48 + n

Line(key, off) == [key |-> key, off |-> off]

(* The key 2 occurs in an offset, the key b in another key, and ab twice.  *)
Old == <<Line(<<a, b>>, 0), Line(<<Number(2)>>, 12), Line(<<b>>, 25),
         Line(<<a, b>>, 38)>>

(* The offset of the last line fills its column. *)
New == <<Line(<<b>>, 0), Line(<<c>>, 13), Line(<<a, b>>, 39)>>
MCVersions == {Old, New}
MCKeys == {<<a, b>>, <<b>>, <<c>>, <<Number(2)>>}

(* One key is too long for a record of six bytes. *)
MCLongVersions == {<<Line(<<a>>, 0), Line(<<a, b, c, c>>, 12), Line(<<b>>, 28)>>}
MCLongKeys == {<<a>>, <<a, b, c, c>>, <<b>>}
=============================================================================
