------------------------------ MODULE Terminal ------------------------------
(***************************************************************************)
(* The shell of terminal.c: line editing, echo, commands and the `matrix'  *)
(* mode.  It runs inside the keyboard interrupt, so a key is one action;   *)
(* between two keys, the tasks of program.c may print a character each     *)
(* (task_a and task_b test matrix_active, then print: one of them may      *)
(* still print after q), and kmain draws the terminal over the lock        *)
(* screen.                                                                 *)
(*                                                                         *)
(* A key is what kbd_map makes of its scancode.  Of the commands, `clear'  *)
(* and `matrix' have an effect besides output; the commands that only      *)
(* print are one, and everything else is an unknown command.               *)
(***************************************************************************)
EXTENDS Console

CONSTANTS
  BUFFER_MAX,      (* 256.                                                 *)
  Letter,          (* The printable keys, "q" among them.                  *)
  Tab,             (* The key Tab, a colour code for putchar; or a letter  *)
                   (* when the user never presses it.                      *)
  NTasks,          (* The printing tasks: two.                             *)
  Clear, Matrix, Info,        (* The command lines.                        *)
  Prompt, Banner, Report, Complaint, Starting, Halted,  (* The texts.      *)
  Digit            (* What a task prints.                                  *)

ASSUME TerminalAssumption ==
  /\ BUFFER_MAX \in Nat \ {0, 1}
  /\ NTasks \in Nat
  /\ "q" \in Letter
  /\ \A text \in {Prompt, Banner, Report, Complaint, Starting, Halted} :
       text \in Seq(ToSet(text))
  /\ Len(Prompt) + NTasks + BUFFER_MAX <= (ROWS - 1) * COLS

(* Released and unmapped keys leave everything as it is.                   *)
Key == Letter \union {Tab, "enter", "backspace"}

VARIABLES
  screen,          (* The VGA buffer and cursor_pos.                       *)
  input_buffer,    (* Its first buffer_len characters.                     *)
  shell_active, matrix_active,
  booted,          (* kmain has drawn the terminal.                        *)
  printing         (* How many tasks are about to print.                   *)

vars == <<screen, input_buffer, shell_active, matrix_active, booted, printing>>

-----------------------------------------------------------------------------
(* The lock screen leaves the cursor somewhere below its last line.        *)
Init ==
  /\ screen = [clear_screen EXCEPT !.pos = (ROWS - 1) * COLS]
  /\ input_buffer = <<>>
  /\ shell_active = FALSE
  /\ matrix_active = FALSE
  /\ booted = FALSE
  /\ printing = 0

(* kmain, once the lock screen is left.                                    *)
init_terminal ==
  /\ shell_active
  /\ ~ booted
  /\ screen' = printf(printf(clear_screen, Banner), Prompt)
  /\ input_buffer' = <<>>
  /\ booted' = TRUE
  /\ UNCHANGED <<shell_active, matrix_active, printing>>

(* terminal_run_command, on the screen after the echo of Enter.            *)
CommandOutput(s, cmd) ==
  CASE cmd = Clear  -> clear_screen
    [] cmd = Info   -> printf(s, Report)
    [] cmd = Matrix -> printf(s, Starting)
    [] OTHER        -> printf(printf(printf(s, Complaint), cmd), <<Newline>>)

terminal_run_command(s, cmd) ==
  /\ screen' = printf(CommandOutput(s, cmd), Prompt)
  /\ matrix_active' = (cmd = Matrix)

Unlock ==
  /\ ~ shell_active
  /\ shell_active' = TRUE
  /\ UNCHANGED <<screen, input_buffer, matrix_active, booted, printing>>

(* Mutant: the line stays in the buffer after it has been run.             *)
SubmitKeepsLine ==
  LET echoed == putchar(screen, Newline) IN
  /\ shell_active
  /\ IF input_buffer # <<>>
     THEN terminal_run_command(echoed, input_buffer)
     ELSE screen' = printf(echoed, Prompt) /\ UNCHANGED matrix_active
  /\ UNCHANGED <<input_buffer, shell_active, booted, printing>>

(* Enter: a line that is not empty is run, then there is a new prompt.     *)
Submit ==
  LET echoed == putchar(screen, Newline) IN
  /\ shell_active
  /\ IF input_buffer # <<>>
     THEN terminal_run_command(echoed, input_buffer)
     ELSE screen' = printf(echoed, Prompt) /\ UNCHANGED matrix_active
  /\ input_buffer' = <<>>
  /\ UNCHANGED <<shell_active, booted, printing>>

Backspace ==
  /\ shell_active
  /\ input_buffer # <<>>
  /\ input_buffer' = SubSeq(input_buffer, 1, Len(input_buffer) - 1)
  /\ screen' = RubOut(screen)
  /\ UNCHANGED <<shell_active, matrix_active, booted, printing>>

Type(c) ==
  /\ shell_active
  /\ Len(input_buffer) < BUFFER_MAX - 1
  /\ input_buffer' = Append(input_buffer, c)
  /\ screen' = putchar(screen, c)
  /\ UNCHANGED <<shell_active, matrix_active, booted, printing>>

(* q while the show runs.                                                  *)
StopShow ==
  /\ matrix_active
  /\ matrix_active' = FALSE
  /\ screen' = printf(printf(clear_screen, Halted), IF shell_active THEN Prompt ELSE <<>>)
  /\ UNCHANGED <<input_buffer, shell_active, booted, printing>>

(* The user does not outrun the kernel: `matrix' is not run before the     *)
(* first prompt, and no key is hit while a task still prints after q.      *)
Patient(key) ==
  /\ printing = 0
  /\ key = "enter" /\ input_buffer = Matrix => booted

terminal_handle_scan(key) ==
  \/ matrix_active /\ key = "q" /\ StopShow
  \/ /\ ~ matrix_active
     /\ Patient(key)
     /\ \/ key = "enter" /\ (Unlock \/ Submit)
        \/ key = "backspace" /\ Backspace
        \/ key \in Letter \union {Tab} /\ Type(key)

-----------------------------------------------------------------------------
(* The tasks: the test of matrix_active, and later the printing.           *)
TaskTest ==
  /\ matrix_active
  /\ printing < NTasks
  /\ printing' = printing + 1
  /\ UNCHANGED <<screen, input_buffer, shell_active, matrix_active, booted>>

TaskPrint ==
  /\ printing > 0
  /\ printing' = printing - 1
  /\ screen' = putchar(screen, Digit)
  /\ UNCHANGED <<input_buffer, shell_active, matrix_active, booted>>

Next ==
  \/ init_terminal
  \/ \E key \in Key : terminal_handle_scan(key)
  \/ TaskTest
  \/ TaskPrint

Spec == Init /\ [][Next]_vars

-----------------------------------------------------------------------------
Char == Letter \union {Tab, Digit, Blank}
          \union UNION {ToSet(text) : text \in {Prompt, Banner, Report, Complaint, Starting, Halted}}

(* The cursor stays on the screen or right below it, and the buffer keeps  *)
(* room for the terminating zero.                                          *)
TypeOK ==
  /\ screen.cells \in [Cell -> Char]
  /\ screen.pos \in 0 .. SIZE
  /\ input_buffer \in UNION {[1 .. n -> Letter \union {Tab}] : n \in 0 .. BUFFER_MAX - 1}
  /\ shell_active \in BOOLEAN
  /\ matrix_active \in BOOLEAN
  /\ booted \in BOOLEAN
  /\ printing \in 0 .. NTasks

(* The text left of the cursor.                                            *)
ShownLeft(text) ==
  /\ Len(text) <= screen.pos
  /\ \A k \in 1 .. Len(text) : screen.cells[screen.pos - Len(text) + k - 1] = text[k]

(* What you see is what you run: whatever was typed, erased, scrolled, run *)
(* or shown before, the line being edited stands left of the cursor, right *)
(* behind the prompt.  The digits that tasks print after q may stand in    *)
(* between (KilledInstantly of Scheduler.tla), one for each task.          *)
Digits(n) == [k \in 1 .. n |-> Digit]

LineInSync ==
  booted /\ ~ matrix_active =>
    \E n \in 0 .. NTasks - printing : ShownLeft(Prompt \o Digits(n) \o input_buffer)

(* README.md: "backspace buffer management".  A backspace takes the last   *)
(* typed character off the screen and nothing else.                        *)
BackspaceErasesInput ==
  [][Backspace => ShownLeft(<<input_buffer[Len(input_buffer)]>>)]_vars
=============================================================================
