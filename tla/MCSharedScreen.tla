--------------------------- MODULE MCSharedScreen ---------------------------
(* SharedScreen as TLC checks it: a task prints two characters, on a       *)
(* screen of two rows of two.                                              *)
EXTENDS SharedScreen

Printed == <<"green", "x", "x", "grey">>
=============================================================================
