----------------------------- MODULE MCRamDisk ------------------------------
(* RamDisk as TLC checks it: names of up to three characters, files of up  *)
(* to four around a buffer of three.                                       *)
EXTENDS RamDisk

Names     == <<<<1, 2>>, <<1>>>>
Lines     == {<<>>, <<1>>, <<1, 2>>, <<2, 1>>, <<1, 2, 1>>}
Contents  == {<<>>, <<5>>, <<6, 7>>, <<5, 6, 7, 8>>, <<6, 0, 5>>}
Texts     == {<<>>, <<5>>, <<5, 6, 7, 8>>}
InRange   == (0 .. 5) \X (0 .. 5)
Wrapping  == {1, 2} \X {31}
=============================================================================
