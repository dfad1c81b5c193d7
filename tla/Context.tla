------------------------------ MODULE Context -------------------------------
(***************************************************************************)
(* What the CPU pushes, the stubs of interrupt.s push and pop, the stack   *)
(* that interrupt_handler reads and GCC writes, and the stacks that        *)
(* create_thread and create_user_thread forge for switch_task: word by     *)
(* word.  Scheduler says in which order contexts are switched, this module *)
(* what is in them; so here a voluntary thread_yield is not interrupted,   *)
(* and matrix_active stays clear for it.  A thread computes something      *)
(* between two entries into the kernel.                                    *)
(*                                                                         *)
(* A stack grows to the right; the word at [esp] is the last one.          *)
(***************************************************************************)
EXTENDS Integers, Sequences

CONSTANTS
  Main,         (* kmain, on the stack of loader.s.                        *)
  Kernel,       (* Threads of create_thread ...                            *)
  User,         (* ... and of create_user_thread, which nothing calls.     *)
  Value         (* What a thread computes in its registers.                *)

Tasks  == Kernel \union User
Thread == Tasks \union {Main}

(* kmain creates two threads.                                              *)
ASSUME ContextAssumption ==
  /\ Main \notin Tasks
  /\ Kernel \intersect User = {}
  /\ Kernel # {}

VARIABLES
  matrix_active,
  current_thread, next_thread, esp,      (* thread_t.                      *)
  on, stack,                             (* Whose stack ESP is in.         *)
  gpr, eip, cs, eflags,                  (* The CPU.                        *)
  at,            (* Where the CPU is: code, handler, yield, return, dead.  *)
  left,          (* Each thread's code, as it was last left.               *)
  back,          (* How the CPU has just come back to it.                  *)
  served         (* What the last system call did.                         *)

threads == <<current_thread, next_thread, esp>>
cpu     == <<on, stack, gpr, eip, cs, eflags>>
ghosts  == <<left, back, served>>
vars    == <<matrix_active, threads, cpu, at, ghosts>>

(* The order of the pushes in switch_task and common_interrupt_handler.    *)
Order == <<"eax", "ebx", "ecx", "edx", "esi", "edi", "ebp">>
Reg   == {Order[k] : k \in 1 .. 7}

(* Words.                                                                  *)
Num(n)         == <<"num", n>>
Enabled        == <<"flags", 512>>        (* EFLAGS: IF is bit 9.            *)
Disabled       == <<"flags", 0>>
Own(t, r, v)   == <<"own", t, r, v>>
Code(t)        == <<"code", t>>            (* An address in t's code ...   *)
Stub           == <<"stub">>               (* ... behind the stub's call   *)
Yielded        == <<"yielded">>            (* ... and thread_yield's.      *)
Address(t, d)  == <<"address", t, d>>      (* An address in t's stack.     *)
EspOf(t)       == <<"esp of", t>>          (* &t->esp                      *)
Unused         == <<"unused">>

Nobody == [gpr |-> [r \in Reg |-> Num(0)], stack |-> <<>>, eip |-> Unused, eflags |-> Disabled]

(* [esp + 4 * k]                                                           *)
At(s, k) == s[Len(s) - k]
Pop(s, n) == SubSeq(s, 1, Len(s) - n)

(* f with one more argument.                                              *)
With(f, t, v) == [x \in DOMAIN f \union {t} |-> IF x = t THEN v ELSE f[x]]

pushed(g) == [k \in 1 .. 7 |-> g[Order[k]]]

(* Mutant: the pops are in the order of the pushes.                        *)
PoppedInOrder(s) == [r \in Reg |-> At(s, (CHOOSE k \in 1 .. 7 : Order[k] = r) - 1)]

popped(s) == [r \in Reg |-> At(s, 7 - (CHOOSE k \in 1 .. 7 : Order[k] = r))]

KernelCode  == 8                        (* load_gdt's far jump             *)
UserCode    == 27                       (* 0x1B                            *)

(* Segments: the privilege of gdt_entries[selector / 8] from its access    *)
(* byte (0x9A, 0x92, 0xFA, 0xF2, 0x89), and that of a gate from its flags. *)
gdt_entries == <<154, 146, 250, 242, 137>>
idt_entries == [n \in {32, 33, 128} |-> [sel |-> KernelCode, flags |-> IF n = 128 THEN 238 ELSE 142]]
tss_entry   == [esp0 |-> 0, ss0 |-> 0]
Dpl(byte)   == (byte \div 32) % 4
Ring(sel)   == sel % 4

-----------------------------------------------------------------------------
Init ==
  /\ matrix_active = FALSE
  /\ current_thread = Main
  /\ next_thread = [t \in {Main} |-> Main]
  /\ esp = [t \in {Main} |-> Num(0)]
  /\ on = Main
  /\ stack = [t \in {Main} |-> <<>>]
  /\ gpr = [r \in Reg |-> Num(0)]
  /\ eip = Code(Main)
  /\ cs = KernelCode
  /\ eflags = Enabled
  /\ at = "code"
  /\ left = [t \in Thread |-> Nobody]
  /\ back = "not"
  /\ served = Unused

(* t's code as it is now, which its next return has to restore.            *)
Here(g) == [gpr |-> g, stack |-> stack[on], eip |-> eip, eflags |-> eflags]
Leave(g) == left' = [left EXCEPT ![on] = Here(g)] /\ back' = "not"

(* The running thread computes.                                            *)
Work(v) ==
  /\ at = "code"
  /\ gpr' = [r \in Reg |-> Own(on, r, v)]
  /\ eflags' = Enabled                      (* sti; kmain never clears it. *)
  /\ back' = "not"
  /\ UNCHANGED <<matrix_active, threads, on, stack, eip, cs, at, left, served>>

(* Mutant: a new thread is followed by itself.                             *)
LinkedToItself(t, forged) ==
  /\ at = "code" /\ on = Main /\ current_thread = Main /\ cs = KernelCode
  /\ t \notin DOMAIN next_thread
  /\ stack' = With(stack, t, forged)
  /\ esp' = With(esp, t, Address(t, Len(forged)))
  /\ next_thread' = With([next_thread EXCEPT ![Main] = t], t, t)
  /\ left' = [left EXCEPT ![t].stack = Pop(forged, 8), ![t].eip = Code(t)]
  /\ UNCHANGED <<matrix_active, current_thread, on, gpr, eip, cs, eflags, at, back, served>>

(* A new stack, linked in behind the current thread.                       *)
Link(t, forged) ==
  /\ at = "code" /\ on = Main /\ current_thread = Main /\ cs = KernelCode
  /\ t \notin DOMAIN next_thread
  /\ stack' = With(stack, t, forged)
  /\ esp' = With(esp, t, Address(t, Len(forged)))
  /\ next_thread' = With([next_thread EXCEPT ![Main] = t], t, next_thread[Main])
  /\ left' = [left EXCEPT ![t].stack = Pop(forged, 8), ![t].eip = Code(t)]
  /\ UNCHANGED <<matrix_active, current_thread, on, gpr, eip, cs, eflags, at, back, served>>

Registers == [k \in 1 .. 7 |-> Num(0)]

create_thread(t) == t \in Kernel /\ Link(t, <<Code(t)>> \o Registers)

create_user_thread(t) ==
  /\ t \in User
  /\ Link(t, <<Num(35), Address(t, 0), Enabled, Num(UserCode), Code(t)>> \o Registers)

-----------------------------------------------------------------------------
(* Entering the kernel.                                                    *)

(* thread_yield uses eax and edx for the two threads before switch_task.   *)
CalleeSaved == {"ebx", "esi", "edi", "ebp"}
Scratched   == [gpr EXCEPT !["eax"] = EspOf(current_thread), !["edx"] = Unused]

(* A task's own call of thread_yield.                                      *)
Yield ==
  /\ at = "code" /\ back = "not" /\ on \in Tasks /\ ~ matrix_active
  /\ Leave(gpr)
  /\ stack' = [stack EXCEPT ![on] = Append(@, eip)]
  /\ at' = "yield"
  /\ UNCHANGED <<matrix_active, threads, on, gpr, eip, cs, eflags, served>>

(* Behind the gate, on the same stack when the privilege stays the same.   *)
(* Otherwise the CPU takes ss0:esp0, and a null ss0 is a fault that has no *)
(* gate either.  g is what the registers hold.                             *)
Enter(n, g) ==
  /\ at = "code" /\ back = "not"
  /\ Leave(g)
  /\ IF Dpl(gdt_entries[idt_entries[n].sel \div 8]) < Ring(cs) /\ tss_entry.ss0 = 0
     THEN at' = "dead" /\ UNCHANGED cpu
     ELSE /\ stack' = [stack EXCEPT ![on] =
               @ \o <<eflags, Num(cs), eip>>        (* the CPU             *)
                 \o <<Num(0), Num(n)>>              (* the stub            *)
                 \o pushed(g)
                 \o <<Stub>>]                       (* its call            *)
          /\ gpr' = g
          /\ cs' = idt_entries[n].sel
          /\ eflags' = Disabled
          /\ at' = "handler"
          /\ UNCHANGED <<on, eip>>
  /\ UNCHANGED <<matrix_active, threads, served>>

Interrupt(n) == eflags = Enabled /\ Enter(n, gpr)

(* int 0x80 with a call in eax and its argument in ebx, by a task whose    *)
(* ring the gate admits.                                                   *)
SystemCall(call, v) ==
  /\ on \in Tasks
  /\ Ring(cs) <= Dpl(idt_entries[128].flags)
  /\ Enter(128, [gpr EXCEPT !["eax"] = Num(call), !["ebx"] = Own(on, "ebx", v)])

-----------------------------------------------------------------------------
(* interrupt_handler.  It gets its arguments by value, above the return    *)
(* address: struct cpu_state, intr_no, struct stack_state.                 *)

(* Mutant: the fields of cpu_state are in the order of the pushes.         *)
InPushOrder(s) ==
  [eax |-> At(s, 1), ebx |-> At(s, 2), ecx |-> At(s, 3), edx |-> At(s, 4),
   esi |-> At(s, 5), edi |-> At(s, 6), ebp |-> At(s, 7)]

CpuState(s) ==
  [ebp |-> At(s, 1), edi |-> At(s, 2), esi |-> At(s, 3), edx |-> At(s, 4),
   ecx |-> At(s, 5), ebx |-> At(s, 6), eax |-> At(s, 7)]
IntrNo(s) == At(s, 8)[2]

Act(n) == at = "handler" /\ IntrNo(stack[on]) = n

(* A function may use its argument area for what it calls last: GCC turns  *)
(* the last call of a path into a jump and stores its arguments there.     *)
Outgoing(s, args) ==
  {s, [k \in DOMAIN s |-> IF Len(s) - k \in 1 .. Len(args) THEN args[Len(s) - k] ELSE s[k]]}

(* The timer: after the EOI, a switch when the show is on.                 *)
Handler32 ==
  /\ Act(32)
  /\ at' = IF matrix_active THEN "yield" ELSE "return"
  /\ UNCHANGED <<matrix_active, threads, cpu, ghosts>>

(* The keyboard, which may stop the show, or start it when kmain is back   *)
(* in its idle loop with its threads created; last, pic_acknowledge(33).   *)
Handler33 ==
  /\ Act(33)
  /\ matrix_active' \in {FALSE, matrix_active, on = Main /\ Kernel \subseteq DOMAIN next_thread}
  /\ \E s \in Outgoing(stack[on], <<Num(33)>>) : stack' = [stack EXCEPT ![on] = s]
  /\ at' = "return"
  /\ UNCHANGED <<threads, on, gpr, eip, cs, eflags, ghosts>>

(* printf(DEVICE_FB, string)                                               *)
PrintString(string) ==
  /\ served' = <<"print", string>>
  /\ \E s \in Outgoing(stack[on], <<Num(0), string>>) : stack' = [stack EXCEPT ![on] = s]
  /\ at' = "return"

Handler128 ==
  LET state == CpuState(stack[on]) IN
  /\ Act(128)
  /\ \/ state.eax = Num(1) /\ PrintString(state.ebx)
     \/ state.eax = Num(2) /\ at' = "return" /\ served' = <<"read">> /\ UNCHANGED stack
     \/ state.eax = Num(3) /\ at' = "yield" /\ served' = <<"yield">> /\ UNCHANGED stack
     \/ /\ state.eax \notin {Num(1), Num(2), Num(3)}
        /\ PrintString(<<"unknown">>)
  /\ UNCHANGED <<matrix_active, threads, on, gpr, eip, cs, eflags, left, back>>

-----------------------------------------------------------------------------
(* thread_yield and switch_task.  Its arguments lie behind the seven       *)
(* registers and the return address, at [esp + 32] and [esp + 36].         *)
thread_yield ==
  LET new  == next_thread[current_thread]
      s    == stack[on] \o <<esp[new], EspOf(current_thread), Yielded>> \o pushed(Scratched)
      old  == At(s, 8)[2]
      to   == At(s, 9)
      load == SubSeq(stack[to[2]], 1, to[3])
      home == At(load, 7)
  IN /\ at = "yield"
     /\ current_thread' = new
     /\ esp' = [esp EXCEPT ![old] = Address(on, Len(s))]
     /\ on' = to[2]
     /\ stack' = [stack EXCEPT ![on] = s, ![to[2]] = Pop(load, 8)]
     /\ gpr' = popped(load)
     /\ IF home = Yielded THEN at' = "return" /\ UNCHANGED eip
                          ELSE at' = "code" /\ eip' = home
     /\ back' = IF home = Yielded THEN "not" ELSE "entered"
     /\ served' = Unused
     /\ UNCHANGED <<matrix_active, next_thread, cs, eflags, left>>

(* thread_yield's epilogue, under the arguments of switch_task.            *)
Epilogue ==
  /\ at = "return" /\ At(stack[on], 0) = EspOf(on)
  /\ LET s == Pop(stack[on], 2) IN
     IF At(s, 0) = Stub
     THEN stack' = [stack EXCEPT ![on] = s] /\ UNCHANGED <<eip, at, back>>
     ELSE /\ stack' = [stack EXCEPT ![on] = Pop(s, 1)]
          /\ eip' = At(s, 0)
          /\ at' = "code"
          /\ back' = "yielded"
  /\ UNCHANGED <<matrix_active, threads, on, gpr, cs, eflags, left, served>>

(* Mutant: the error code stays on the stack.                              *)
OneWordLeft ==
  LET s == Pop(stack[on], 1)
      f == Pop(s, 8)
  IN /\ at = "return" /\ At(stack[on], 0) = Stub
     /\ gpr' = popped(s)
     /\ eip' = At(f, 0) /\ cs' = KernelCode /\ eflags' = Enabled
     /\ stack' = [stack EXCEPT ![on] = Pop(f, 3)]
     /\ at' = "code"
     /\ back' = "timer"
     /\ served' = Unused
     /\ UNCHANGED <<matrix_active, threads, on, left>>

(* The pops, add esp, 8 and iret, back to the same ring.                   *)
common_interrupt_handler ==
  LET s == Pop(stack[on], 1)
      f == Pop(s, 9)
  IN /\ at = "return" /\ At(stack[on], 0) = Stub
     /\ gpr' = popped(s)
     /\ eip' = At(f, 0) /\ cs' = At(f, 1)[2] /\ eflags' = At(f, 2)
     /\ stack' = [stack EXCEPT ![on] = Pop(f, 3)]
     /\ at' = "code"
     /\ back' = CASE At(s, 7) = Num(32) -> "timer"
                  [] At(s, 7) = Num(33) -> "keyboard"
                  [] OTHER -> "system call"
     /\ served' = Unused
     /\ UNCHANGED <<matrix_active, threads, on, left>>

(* enter_user_mode, which nothing calls either: the forged frame is popped *)
(* by an iret, and the kernel's stack is left behind.                      *)
enter_user_mode ==
  /\ at = "code" /\ on = Main /\ cs = KernelCode
  /\ cs' = UserCode /\ eflags' = Enabled /\ eip' = Code(Main)
  /\ stack' = [stack EXCEPT ![Main] = <<>>]
  /\ back' = "not"
  /\ UNCHANGED <<matrix_active, threads, on, gpr, at, left, served>>

Next ==
  \/ \E v \in Value : Work(v)
  \/ \E t \in Tasks : create_thread(t) \/ create_user_thread(t)
  \/ Yield
  \/ \E call \in 1 .. 4, v \in Value : SystemCall(call, v)
  \/ \E n \in {32, 33} : Interrupt(n)
  \/ Handler32 \/ Handler33 \/ Handler128
  \/ thread_yield \/ Epilogue \/ common_interrupt_handler

Spec == Init /\ [][Next]_vars

(* The machine on which somebody calls enter_user_mode.                    *)
UserSpec == Init /\ [][Next \/ enter_user_mode]_vars

-----------------------------------------------------------------------------
(* The deepest that a stack can be: under a forged iret frame, that of an  *)
(* interrupt and that of switch_task.                                      *)
Deepest == 4 + 13 + 10

Word ==
  {Num(n) : n \in {0, 1, 2, 3, 4, 8, 27, 32, 33, 35, 128}}
    \union {Enabled, Disabled, Stub, Yielded, Unused, <<"unknown">>}
    \union {Own(t, r, x) : t \in Thread, r \in Reg, x \in Value}
    \union {Code(t) : t \in Thread}
    \union {EspOf(t) : t \in Thread}
    \union {Address(t, d) : t \in Thread, d \in 0 .. Deepest}

(* The threads are one circle, and each but the one that runs has saved    *)
(* the end of its stack.                                                   *)
TypeOK ==
  /\ matrix_active \in BOOLEAN /\ eflags \in {Enabled, Disabled} /\ cs = KernelCode
  /\ at \in {"code", "handler", "yield", "return"}
  /\ on = current_thread /\ on \in DOMAIN next_thread
  /\ {Main} \subseteq DOMAIN next_thread /\ DOMAIN next_thread \subseteq Thread
  /\ next_thread \in [DOMAIN next_thread -> DOMAIN next_thread]
  /\ \A T \in (SUBSET DOMAIN next_thread) \ {{}} :
       (\A t \in T : next_thread[t] \in T) => T = DOMAIN next_thread
  /\ esp \in [DOMAIN next_thread -> Word]
  /\ stack \in [DOMAIN next_thread -> Seq(Word)]
  /\ gpr \in [Reg -> Word] /\ eip \in Word
  /\ left \in [Thread -> [gpr : [Reg -> Word], stack : Seq(Word), eip : Word, eflags : {Enabled, Disabled}]]
  /\ \A t \in DOMAIN stack \ {on} : esp[t] = Address(t, Len(stack[t]))

(* What the kernel gives back to the thread it returns to.  A tick gives   *)
(* back every register; a voluntary thread_yield those that C relies on;   *)
(* after a key EBP, after a system call EBP and EDI may be other ones.     *)
Kept == CASE back = "timer"       -> Reg
          [] back = "yielded"     -> CalleeSaved
          [] back = "keyboard"    -> Reg \ {"ebp"}
          [] back = "system call" -> Reg \ {"ebp", "edi"}
          [] OTHER                -> {}

(* The pushes and pops of switch_task and of the stub, in whatever order   *)
(* threads are switched, give a thread back the registers it had.          *)
RegistersKept == at = "code" => \A r \in Kept : gpr[r] = left[on].gpr[r]

(* Every path through the kernel takes off the stack what it has put on it *)
(* and comes back to where it came from; out of an interrupt, with the     *)
(* interrupts that were on.                                                *)
PlaceKept ==
  at = "code" /\ back # "not" =>
    /\ stack[on] = left[on].stack
    /\ eip = left[on].eip
    /\ back \notin {"yielded", "entered"} => eflags = left[on].eflags

(* interrupt_handler sees the number and the argument of the system call   *)
(* where struct cpu_state says they are: the call it serves is the one     *)
(* that the task has asked for.                                            *)
Asked(g) ==
  CASE g["eax"] = Num(1) -> <<"print", g["ebx"]>>
    [] g["eax"] = Num(2) -> <<"read">>
    [] g["eax"] = Num(3) -> <<"yield">>
    [] OTHER             -> <<"print", <<"unknown">>>>

SystemCallServed == [][Handler128 => served' = Asked(left[on].gpr)]_vars

(* README.md:45: the scheduler is "saving and restoring exact CPU register *)
(* states"; interrupt.s:45: "restore the registers manually (in exact      *)
(* reverse order!)".                                                       *)
RegistersExact ==
  at = "code" /\ back \in {"timer", "keyboard"} => gpr = left[on].gpr

(* thread.c:54: a user thread's stack is set up so that "when the thread   *)
(* is scheduled, it transitions correctly from kernel mode to user mode".  *)
UserThreadInRing3 == at = "code" /\ on \in User => Ring(cs) = 3

(* user_mode.s:15: the IF that enter_user_mode sets is there so that the   *)
(* CPU in ring 3 does not ignore the timer, the keyboard and int 0x80.     *)
UserModeHearsInterrupts == at # "dead"
=============================================================================
