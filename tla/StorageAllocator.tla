-------------------------- MODULE StorageAllocator --------------------------
(***************************************************************************)
(* What malloc and free promise their callers: a block of at least the     *)
(* bytes asked for, in memory nobody else holds, and a failure only when   *)
(* no free stretch is long enough.  Heap.tla implements it.                *)
(*                                                                         *)
(* Memory is counted in units; a block is its header unit, at which it     *)
(* starts, and the units behind it.                                        *)
(***************************************************************************)
EXTENDS Naturals

CONSTANTS
  Unit,       (* The addresses memory may ever have.                       *)
  UnitBytes,  (* The bytes of a unit.                                      *)
  None        (* No request.                                               *)

VARIABLES
  wanted,     (* The bytes of the request being served, or None.           *)
  arena,      (* The units the allocator manages.                          *)
  held        (* The blocks callers hold.                                  *)

vars == <<wanted, arena, held>>

Units(b)  == b.at .. b.at + b.units - 1
HeldUnits == UNION {Units(b) : b \in held}
Needed    == (wanted + UnitBytes - 1) \div UnitBytes + 1

(* The free stretches that serve the request.                              *)
Candidates ==
  {b \in [at : Unit, units : {Needed}] : Units(b) \subseteq arena \ HeldUnits}

Init ==
  /\ wanted = None
  /\ arena = {}
  /\ held = {}

Ask ==
  /\ wanted = None
  /\ wanted' \in Nat
  /\ UNCHANGED <<arena, held>>

Take ==
  /\ wanted # None
  /\ \E b \in Candidates : held' = held \union {b}
  /\ wanted' = None
  /\ UNCHANGED arena

Fail ==
  /\ wanted # None
  /\ Candidates = {}
  /\ wanted' = None
  /\ UNCHANGED <<arena, held>>

(* The arena grows only for a request it cannot serve.                     *)
Grow ==
  /\ wanted # None
  /\ Candidates = {}
  /\ \E fresh \in SUBSET (Unit \ arena) : arena' = arena \union fresh
  /\ UNCHANGED <<wanted, held>>

GiveBack ==
  /\ wanted = None
  /\ \E b \in held : held' = held \ {b}
  /\ UNCHANGED <<wanted, arena>>

Next == Ask \/ Take \/ Fail \/ Grow \/ GiveBack

Spec == Init /\ [][Next]_vars
=============================================================================
