--------------------------- MODULE MCCompatReader ---------------------------
(* Values for the constants of CompatReader: 97 is the letter a, 48 to 57  *)
(* are the digits, 58 is the colon, 44 the comma, 10 the newline.          *)
EXTENDS CompatReader

(* a:x:1:b,c    b::19:   (19 is 3 in four bits) *)
Groups == <<97, 58, 120, 58, 49, 58, 98, 44, 99, 10,
            98, 58, 58, 49, 57, 58, 10>>

(* a:x:1:2:g:h:s    bad    d::7:8:::  with no newline at the end *)
Users == <<97, 58, 120, 58, 49, 58, 50, 58, 103, 58, 104, 58, 115, 10,
           98, 97, 100, 10,
           100, 58, 58, 55, 58, 56, 58, 58, 58>>

(* An empty line    a:x:z:b    :n:x:3:4:b    d:x:2:b,,c    e:x:2:,b *)
Odd == <<10,
         97, 58, 120, 58, 122, 58, 98, 10,
         58, 110, 58, 120, 58, 51, 58, 52, 58, 98, 10,
         100, 58, 120, 58, 50, 58, 98, 44, 44, 99, 10,
         101, 58, 120, 58, 50, 58, 44, 98, 10>>

(* g:x:1:bb,    e::2:, *)
Trailing == <<103, 58, 120, 58, 49, 58, 98, 98, 44, 10,
              101, 58, 58, 50, 58, 44, 10>>

MCFiles == {Groups, Users, Odd, Trailing, <<>>}
=============================================================================
