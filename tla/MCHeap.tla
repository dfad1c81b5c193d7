------------------------------- MODULE MCHeap -------------------------------
(* Heap as TLC checks it.                                                  *)
EXTENDS Heap

Requests == {0, 2, 3, 8}
=============================================================================
