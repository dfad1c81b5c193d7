----------------------------- MODULE RoundRobin -----------------------------
(***************************************************************************)
(* What the scheduler of SeliOS promises, with no stacks, no interrupts    *)
(* and no saved registers: a single CPU is handed round a circle of        *)
(* threads, a thread that is not running stays exactly where it was, and   *)
(* a thread that is handed the CPU goes on from exactly that place.        *)
(*                                                                         *)
(* README.md: "A circular thread queue that leverages timer interrupts to  *)
(* rip CPU control back and forth between active tasks, saving and         *)
(* restoring exact CPU register states."  Scheduler.tla implements it.     *)
(***************************************************************************)
EXTENDS Naturals

CONSTANTS
  NTasks,   (* kmain creates the threads 1 .. NTasks; 0 is kmain itself.   *)
  Place,    (* The program points a thread can be suspended at.            *)
  Entry,    (* Where kmain starts and where a new thread starts: a         *)
            (* function from threads to places.                            *)
  Spawner   (* The thread that creates the others.                         *)

VARIABLES
  running,  (* The thread that has the CPU.                                *)
  place,    (* The program point of every thread.                          *)
  spawned   (* How many threads have been linked into the circle.          *)

vars == <<running, place, spawned>>

Thread == 0 .. NTasks

(* The circle: a new thread is squeezed in right behind kmain.             *)
Successor(t) == IF t = Spawner THEN spawned ELSE t - 1

Init ==
  /\ running = Spawner
  /\ place = Entry
  /\ spawned = 0

(* The running thread, and no other, moves in its program.                 *)
Run ==
  /\ \E p \in Place : place' = [place EXCEPT ![running] = p]
  /\ UNCHANGED <<running, spawned>>

(* kmain links one more thread into the circle.                            *)
Spawn ==
  /\ running = Spawner
  /\ spawned < NTasks
  /\ spawned' = spawned + 1
  /\ \E p \in Place : place' = [place EXCEPT ![running] = p]
  /\ UNCHANGED running

(* The CPU goes to the next thread of the circle; nobody's place changes.  *)
HandOver ==
  /\ spawned > 0
  /\ running' = Successor(running)
  /\ UNCHANGED <<place, spawned>>

Next == Run \/ Spawn \/ HandOver

Spec == Init /\ [][Next]_vars
=============================================================================
