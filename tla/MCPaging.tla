------------------------------ MODULE MCPaging ------------------------------
(* Paging as TLC checks it: the kernel's first page has the slot of the    *)
(* temporary address, as in the machine (256), the screen a lower one.     *)
EXTENDS Paging

Kernel == {2, 3}
Spare  == {5, 6, 7, 8, 9, 10}
=============================================================================
