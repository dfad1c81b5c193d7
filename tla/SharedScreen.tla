---------------------------- MODULE SharedScreen ----------------------------
(***************************************************************************)
(* The show on one console: the tasks print at the same time, without a    *)
(* lock, and the timer switches them anywhere in printf, putchar and       *)
(* putchar_color, which is taken apart here into the loads and stores of   *)
(* cursor_pos that GCC makes of it.  q prints in its interrupt, in one     *)
(* step.  The cells are left out, which Console has, and the delay loops.  *)
(* Thread 0 is kmain in its idle loop.                                     *)
(***************************************************************************)
EXTENDS Integers, Sequences, FiniteSets

CONSTANTS
  NTasks,       (* task_a, task_b.                                         *)
  SIZE, COLS,   (* Cells of the screen and of a row: 2000, 80.             *)
  PROMPT,       (* Where the cursor is behind the prompt of q.             *)
  BYTE,         (* 256                                                     *)
  Green, Grey,  (* The colour codes \x02 and \x07.                         *)
  White,        (* DEFAULT_FG                                              *)
  Text,         (* What a task prints: Green, characters, Grey.            *)
  MaxHits       (* A bound on the interrupts that strike in putchar_color. *)

ASSUME SharedScreenAssumption ==
  /\ NTasks \in Nat /\ MaxHits \in Nat
  /\ SIZE \in Nat /\ COLS \in 1 .. SIZE
  /\ PROMPT \in 0 .. SIZE - 1
  /\ BYTE \in Nat \ {0}
  /\ Text \in Seq(STRING)

(* Three codes, and a text that goes green goes grey again (program.c:15). *)
ASSUME ColourAssumption ==
  /\ Green # Grey /\ Green # White
  /\ \A i \in 1 .. Len(Text) :
       Text[i] = Green => \E j \in i + 1 .. Len(Text) : Text[j] = Grey

Task == 1 .. NTasks

VARIABLES
  matrix_active,
  running,             (* Whose turn it is.                                *)
  pc, k, reg,          (* Each task's place, character, and register.      *)
  cursor_pos, active_fg,
  index, crtc,         (* The VGA's index register and registers 14, 15.   *)
  hits,                (* How many interrupts struck in putchar_color.     *)
  stale                (* Tasks that lost the CPU since they tested.       *)

local  == <<pc, k, reg>>
device == <<index, crtc>>
vars   == <<matrix_active, running, local, cursor_pos, active_fg, device, hits, stale>>

Bytes(pos) == [i \in {14, 15} |-> IF i = 14 THEN pos \div BYTE ELSE pos % BYTE]

Init ==
  /\ matrix_active = FALSE
  /\ running = 0
  /\ pc = [t \in Task |-> "loop"]
  /\ k = [t \in Task |-> 1]
  /\ reg = [t \in Task |-> 0]
  /\ cursor_pos = PROMPT
  /\ active_fg = Grey
  /\ index = 15
  /\ crtc = Bytes(PROMPT)
  /\ hits = 0
  /\ stale = {}

(* Mutant: the last thread is not followed by the first.                   *)
NoTurnAround == running + 1

Turn == (running + 1) % (NTasks + 1)

Goto(t, place) == pc' = [pc EXCEPT ![t] = place]
At(t, place) == running = t /\ pc[t] = place

-----------------------------------------------------------------------------
(* A task's loop: it prints, or it yields.                                 *)
task(t) ==
  /\ At(t, "loop")
  /\ IF matrix_active
     THEN Goto(t, "char") /\ k' = [k EXCEPT ![t] = 1] /\ UNCHANGED running
     ELSE running' = Turn /\ UNCHANGED <<pc, k>>
  /\ UNCHANGED <<matrix_active, reg, cursor_pos, active_fg, device, hits, stale>>

(* The loop of printf, with putchar: a colour is stored, nothing printed.  *)
putchar(t) ==
  /\ At(t, "char")
  /\ CASE k[t] > Len(Text) ->
            Goto(t, "loop") /\ UNCHANGED <<k, active_fg>>
       [] k[t] <= Len(Text) /\ Text[k[t]] \in {Green, Grey} ->
            /\ active_fg' = Text[k[t]]
            /\ k' = [k EXCEPT ![t] = @ + 1]
            /\ UNCHANGED pc
       [] OTHER -> Goto(t, "test") /\ UNCHANGED <<k, active_fg>>
  /\ UNCHANGED <<matrix_active, running, reg, cursor_pos, device, hits, stale>>

(* Mutant: the screen is full one character later.                         *)
TestOneLate(t) ==
  /\ At(t, "test")
  /\ Goto(t, IF cursor_pos > SIZE THEN "scroll" ELSE "write")
  /\ stale' = stale \ {t}
  /\ UNCHANGED <<matrix_active, running, k, reg, cursor_pos, active_fg, device, hits>>

Test(t) ==
  /\ At(t, "test")
  /\ Goto(t, IF cursor_pos >= SIZE THEN "scroll" ELSE "write")
  /\ stale' = stale \ {t}
  /\ UNCHANGED <<matrix_active, running, k, reg, cursor_pos, active_fg, device, hits>>

Scroll(t) ==
  /\ At(t, "scroll")
  /\ cursor_pos' = SIZE - COLS
  /\ Goto(t, "write")
  /\ UNCHANGED <<matrix_active, running, k, reg, active_fg, device, hits, stale>>

(* fb_write_cell at cursor_pos, loaded for the second time.                *)
Write(t) ==
  /\ At(t, "write")
  /\ Goto(t, "add")
  /\ UNCHANGED <<matrix_active, running, k, reg, cursor_pos, active_fg, device, hits, stale>>

(* cursor_pos++, loaded once more: the cell was a char, which may alias it. *)
Add(t) ==
  /\ At(t, "add")
  /\ reg' = [reg EXCEPT ![t] = cursor_pos + 1]
  /\ Goto(t, "store")
  /\ stale' = stale \ {t}
  /\ UNCHANGED <<matrix_active, running, k, cursor_pos, active_fg, device, hits>>

Store(t) ==
  /\ At(t, "store")
  /\ cursor_pos' = reg[t]
  /\ Goto(t, "high")
  /\ UNCHANGED <<matrix_active, running, k, reg, active_fg, device, hits, stale>>

(* fb_move_cursor: two index and two data writes.                          *)
Select(t, from, i, to) ==
  /\ At(t, from)
  /\ index' = i
  /\ Goto(t, to)
  /\ UNCHANGED <<matrix_active, running, k, reg, cursor_pos, active_fg, crtc, hits, stale>>

Out(t, from, byte, to) ==
  /\ At(t, from)
  /\ crtc' = [crtc EXCEPT ![index] = byte]
  /\ Goto(t, to)
  /\ k' = [k EXCEPT ![t] = IF to = "char" THEN @ + 1 ELSE @]
  /\ UNCHANGED <<matrix_active, running, reg, cursor_pos, active_fg, index, hits, stale>>

(* Mutant: the low byte goes to the register of the high one.              *)
MoveSwapped(t) ==
  \/ Select(t, "high", 14, "high byte")
  \/ Out(t, "high byte", reg[t] % BYTE, "low")
  \/ Select(t, "low", 15, "low byte")
  \/ Out(t, "low byte", reg[t] \div BYTE, "char")

fb_move_cursor(t) ==
  \/ Select(t, "high", 14, "high byte")
  \/ Out(t, "high byte", reg[t] \div BYTE, "low")
  \/ Select(t, "low", 15, "low byte")
  \/ Out(t, "low byte", reg[t] % BYTE, "char")

-----------------------------------------------------------------------------
Window == {"write", "add"}
Inside == Window \union {"scroll", "store", "high", "high byte", "low", "low byte"}

(* The interrupt strikes the running task in putchar_color, or elsewhere.  *)
Strike ==
  \/ running \in Task /\ pc[running] \in Inside /\ hits < MaxHits /\ hits' = hits + 1
  \/ (running \in Task => pc[running] \notin Inside) /\ UNCHANGED hits

(* The timer's thread_yield.                                               *)
Tick ==
  /\ matrix_active
  /\ Strike
  /\ stale' = stale \union {t \in Task : t = running /\ pc[t] \in Window}
  /\ running' = Turn
  /\ UNCHANGED <<matrix_active, local, cursor_pos, active_fg, device>>

Display(pos, fg) ==
  /\ cursor_pos' = pos
  /\ index' = 15 /\ crtc' = Bytes(pos)
  /\ active_fg' = fg

(* Mutant: the last colour of the halt message is left on.                 *)
HaltInGreen ==
  /\ matrix_active
  /\ Strike
  /\ matrix_active' = FALSE
  /\ Display(PROMPT, Green)
  /\ UNCHANGED <<running, local, stale>>

(* q: clear_screen, the halt message and the prompt.                       *)
Halt ==
  /\ matrix_active
  /\ Strike
  /\ matrix_active' = FALSE
  /\ Display(PROMPT, Grey)
  /\ UNCHANGED <<running, local, stale>>

(* Keys and commands while kmain is in its idle loop, matrix among them:   *)
(* whatever they print, the cursor ends on the screen or right behind it.  *)
(* clear leaves the default colour, the others grey or what it was; Tab    *)
(* and files with colour codes in them are left out.                       *)
Command ==
  /\ running = 0 /\ ~ matrix_active
  /\ matrix_active' \in BOOLEAN
  /\ \E pos \in 0 .. SIZE, fg \in {active_fg, White, Grey} : Display(pos, fg)
  /\ UNCHANGED <<running, local, hits, stale>>

putchar_color(t) ==
  Test(t) \/ Scroll(t) \/ Write(t) \/ Add(t) \/ Store(t) \/ fb_move_cursor(t)

Next ==
  \/ \E t \in Task : task(t) \/ putchar(t) \/ putchar_color(t)
  \/ Tick \/ Halt \/ Command

Spec == Init /\ [][Next]_vars

-----------------------------------------------------------------------------
TypeOK ==
  /\ matrix_active \in BOOLEAN
  /\ running \in 0 .. NTasks
  /\ pc \in [Task -> {"loop", "char", "test"} \union Inside]
  /\ k \in [Task -> Nat]
  /\ reg \in [Task -> Nat]
  /\ cursor_pos \in Nat
  /\ active_fg \in {Green, Grey, White}
  /\ index \in {14, 15} /\ DOMAIN crtc = {14, 15}
  /\ hits \in 0 .. MaxHits
  /\ stale \subseteq {t \in Task : pc[t] \in Window}

(* A character is only printed after the test of cursor_pos has found room *)
(* (utils.c:25), but the test may be stale when the cell is written and    *)
(* the cursor advanced.  Every interrupt that strikes in putchar_color     *)
(* takes the cursor at most one cell further behind the screen, whatever   *)
(* else the tasks and q do; the page of the screen has room for 48.        *)
CursorCreep == cursor_pos <= SIZE + hits

(* While no interrupt has struck in putchar_color, the hardware cursor is  *)
(* where cursor_pos is whenever nobody is printing.                        *)
HardwareCursor ==
  hits = 0 /\ (\A t \in Task : pc[t] \notin Inside) => crtc = Bytes(cursor_pos)

(* utils.c:12-17: the same whenever a switch strikes, also between the     *)
(* four writes of fb_move_cursor, with another task's coming in between.   *)
HardwareCursorAlways ==
  (\A t \in Task : pc[t] \notin Inside) => crtc = Bytes(cursor_pos)

(* However a show was cut, its green never reaches the shell: a task that  *)
(* changes the colour of all still sets it back before kmain runs again.   *)
ColourRestored == running = 0 /\ ~ matrix_active => active_fg # Green

(* terminal.c:46: when q has printed "[ Concurrency Engine Halted ]", no   *)
(* task moves the cursor any more.                                         *)
HaltKeepsCursor == [][(\E t \in Task : Store(t) \/ Scroll(t)) => matrix_active]_vars
=============================================================================
