----------------------------- MODULE Scheduler ------------------------------
(***************************************************************************)
(* The preemptive scheduler: kmain's boot sequence from the lock screen    *)
(* on, thread.c, switch_task.s, the interrupt path (interrupt.s,           *)
(* interrupt_handler.c, pic.c) for the timer and the keyboard, the part of *)
(* terminal.c that starts and stops the `matrix' show, and the two tasks   *)
(* of program.c.                                                           *)
(*                                                                         *)
(* There is one CPU and no lock: what makes the code concurrent is the     *)
(* timer interrupt, which may strike between any two instructions executed *)
(* with the interrupt flag set and, while matrix_active is set, switches   *)
(* stacks.  thread_yield is also called by the tasks with interrupts ON,   *)
(* so its steps are separate actions there; inside the timer handler the   *)
(* flag is off and it is one action.                                       *)
(*                                                                         *)
(* A stack is abstracted to the frames a suspended thread has on it, and a *)
(* stack pointer to a stack together with the frames below it: two         *)
(* pointers are the same address exactly when both agree.                  *)
(***************************************************************************)
EXTENDS Naturals

CONSTANTS
  NTasks,      (* The threads kmain creates; kmain.c creates two.          *)
  NULL,        (* The null pointer.                                        *)
  FastTyping   (* Whether the user can complete a `matrix' line at any     *)
               (* time, or only once kmain is back in its idle loop.       *)

Thread == 0 .. NTasks
Main   == 0
Task   == 1 .. NTasks

ASSUME SchedulerAssumption ==
  /\ NTasks \in Nat \ {0}
  /\ NULL \notin Thread
  /\ FastTyping \in BOOLEAN

(* Program points.  kmain.c:107-139; program.c:9-40; thread.c:106-112.     *)
MainPoint   == {"lock", "lockHlt", "asleep", "mount", "threads", "create",
                "publish", "timer", "idleHlt"}
YieldWindow == {"yield", "picked", "fetched", "published", "ready", "saved"}
TaskPoint   == {"sti", "test", "print", "delay"} \union YieldWindow
Point       == MainPoint \union TaskPoint
Halted      == {"asleep", "idleHlt"}

IRQ == {"timer", "keyboard"}
Key == {"enter", "matrix", "q", "other"}

(* The frames of a suspended thread.  "base" is what switch_task pops when *)
(* it was not called from an interrupt: the frame create_thread forges, or *)
(* the one a voluntary thread_yield leaves.  "irq" is the program point an *)
(* interrupt frame on top of it returns to.                                *)
Image == [base : {"none", "fresh", "yield"}, irq : Point \union {"none"}]
Empty == [base |-> "none", irq |-> "none"]

Pointer == [stack : Thread \union {NULL}, image : Image]
ZeroEsp == [stack |-> NULL, image |-> Empty]

(* What thread_yield keeps in registers and on its stack.                  *)
Regs   == [old : Thread \union {NULL}, new : Thread \union {NULL}, arg : Pointer]
NoRegs == [old |-> NULL, new |-> NULL, arg |-> ZeroEsp]

VARIABLES
  next_thread,     (* thread_t.next_thread of every thread.                *)
  esp,             (* thread_t.esp of every thread.                        *)
  current_thread,
  created,         (* How many threads create_thread has linked.           *)
  matrix_active,
  shell_active,
  cpu,             (* The thread whose stack the CPU is on.                *)
  eip,             (* The program point it executes, or "crashed".         *)
  stack,           (* The frames on each kernel stack.                     *)
  regs,            (* The locals of the thread_yield running on a stack.   *)
  interrupts,      (* The interrupt flag of EFLAGS.                        *)
  handler,         (* The C interrupt handler being executed, or "none".   *)
  irr, isr         (* The 8259's request and in-service registers.         *)

queueVars == <<next_thread, esp, current_thread, created>>
shellVars == <<matrix_active, shell_active>>
cpuVars   == <<cpu, eip, stack, regs, interrupts, handler>>
picVars   == <<irr, isr>>
vars      == <<queueVars, shellVars, cpuVars, picVars>>

-----------------------------------------------------------------------------
(* kmain has printed the lock screen: interrupts are on, and init_threads  *)
(* has not run.                                                            *)
Init ==
  /\ next_thread = [t \in Thread |-> NULL]
  /\ esp = [t \in Thread |-> ZeroEsp]
  /\ current_thread = NULL
  /\ created = 0
  /\ matrix_active = FALSE
  /\ shell_active = FALSE
  /\ cpu = Main
  /\ eip = "lock"
  /\ stack = [t \in Thread |-> Empty]
  /\ regs = [t \in Thread |-> NoRegs]
  /\ interrupts = TRUE
  /\ handler = "none"
  /\ irr = {}
  /\ isr = {}

(* Thread t executes the instruction at program point l.                   *)
At(t, l) == handler = "none" /\ cpu = t /\ eip = l

Goto(l) == eip' = l

-----------------------------------------------------------------------------
(* switch_task: the stack pointer p is loaded while the stacks hold stk.   *)
(* It is good when the frames it points at are still there, possibly under *)
(* others.  Anything else pops words that are not a saved context.         *)
Restorable(p, stk) ==
  /\ p.stack \in Thread
  /\ p.image # Empty
  /\ \/ p.image = stk[p.stack]
     \/ p.image.irq = "none" /\ p.image.base = stk[p.stack].base

(* Mutant: the handler returns by ret, and the flag stays off.             *)
RestoreByRet(p, stk) ==
  /\ Restorable(p, stk)
  /\ p.image.irq # "none"
  /\ cpu' = p.stack
  /\ Goto(p.image.irq)
  /\ stack' = [stk EXCEPT ![p.stack] = [base |-> p.image.base, irq |-> "none"]]
  /\ UNCHANGED interrupts

(* The frame is an interrupt's: switch_task returns into the handler,      *)
(* which returns by iret and so brings the interrupt flag back.            *)
RestoreInterrupted(p, stk) ==
  /\ Restorable(p, stk)
  /\ p.image.irq # "none"
  /\ cpu' = p.stack
  /\ Goto(p.image.irq)
  /\ stack' = [stk EXCEPT ![p.stack] = [base |-> p.image.base, irq |-> "none"]]
  /\ interrupts' = TRUE

(* The frame is a new thread's or a voluntary yield's: ret leads to the    *)
(* head of the task's loop and the flag stays what it is.                  *)
RestoreYielded(p, stk) ==
  /\ Restorable(p, stk)
  /\ p.image.irq = "none"
  /\ cpu' = p.stack
  /\ Goto("sti")
  /\ stack' = [stk EXCEPT ![p.stack] = Empty]
  /\ UNCHANGED interrupts

RestoreBroken(p, stk) ==
  /\ ~ Restorable(p, stk)
  /\ Goto("crashed")
  /\ stack' = stk
  /\ UNCHANGED <<cpu, interrupts>>

Restore(p, stk) ==
  \/ RestoreInterrupted(p, stk)
  \/ RestoreYielded(p, stk)
  \/ RestoreBroken(p, stk)

-----------------------------------------------------------------------------
(* kmain.                                                                  *)

(* Mutant: the flag, which is not volatile, is read before the loop only.  *)
HoistedTest ==
  /\ \/ At(Main, "lock") /\ Goto("lockHlt")
     \/ At(Main, "lockHlt") /\ Goto("asleep")
  /\ UNCHANGED <<queueVars, shellVars, cpu, stack, regs, interrupts, handler, picVars>>

(* while (!shell_active) hlt;  The test and the hlt are two instructions.   *)
LockScreen ==
  /\ \/ At(Main, "lock") /\ shell_active /\ Goto("mount")
     \/ At(Main, "lock") /\ ~ shell_active /\ Goto("lockHlt")
     \/ At(Main, "lockHlt") /\ Goto("asleep")
  /\ UNCHANGED <<queueVars, shellVars, cpu, stack, regs, interrupts, handler, picVars>>

(* Mount the RAM disk and draw the terminal.                               *)
Mount ==
  /\ At(Main, "mount")
  /\ Goto("threads")
  /\ UNCHANGED <<queueVars, shellVars, cpu, stack, regs, interrupts, handler, picVars>>

init_threads ==
  /\ At(Main, "threads")
  /\ esp' = [esp EXCEPT ![Main] = ZeroEsp]
  /\ next_thread' = [next_thread EXCEPT ![Main] = Main]
  /\ current_thread' = Main
  /\ Goto("create")
  /\ UNCHANGED <<created, shellVars, cpu, stack, regs, interrupts, handler, picVars>>

(* Mutant: the new thread is linked back to its creator, which drops the   *)
(* threads created before it from the circle.                              *)
CreateLinkedToCurrent ==
  LET new == created + 1
      top == [base |-> "fresh", irq |-> "none"] IN
  /\ At(Main, "create")
  /\ stack' = [stack EXCEPT ![new] = top]
  /\ esp' = [esp EXCEPT ![new] = [stack |-> new, image |-> top]]
  /\ next_thread' = [next_thread EXCEPT ![new] = current_thread]
  /\ Goto("publish")
  /\ UNCHANGED <<current_thread, created, shellVars, cpu, regs, interrupts, handler, picVars>>

(* create_thread up to the store that makes the thread reachable: its      *)
(* stack is forged, its esp and its link are set.                          *)
create_thread ==
  LET new == created + 1
      top == [base |-> "fresh", irq |-> "none"] IN
  /\ At(Main, "create")
  /\ stack' = [stack EXCEPT ![new] = top]
  /\ esp' = [esp EXCEPT ![new] = [stack |-> new, image |-> top]]
  /\ next_thread' = [next_thread EXCEPT ![new] = next_thread[current_thread]]
  /\ Goto("publish")
  /\ UNCHANGED <<current_thread, created, shellVars, cpu, regs, interrupts, handler, picVars>>

(* create_thread's last store, current_thread->next_thread = new_thread.   *)
publish_thread ==
  /\ At(Main, "publish")
  /\ next_thread' = [next_thread EXCEPT ![current_thread] = created + 1]
  /\ created' = created + 1
  /\ IF created' < NTasks THEN Goto("create") ELSE Goto("timer")
  /\ UNCHANGED <<esp, current_thread, shellVars, cpu, stack, regs, interrupts, handler, picVars>>

(* init_timer reprograms the PIT between cli and sti.                      *)
init_timer ==
  /\ At(Main, "timer")
  /\ interrupts' = TRUE
  /\ Goto("idleHlt")
  /\ UNCHANGED <<queueVars, shellVars, cpu, stack, regs, handler, picVars>>

kmain ==
  LockScreen \/ Mount \/ init_threads \/ create_thread \/ publish_thread \/ init_timer

-----------------------------------------------------------------------------
(* The loop of task_a and task_b.                                          *)

TaskSti(t) ==
  /\ At(t, "sti")
  /\ interrupts' = TRUE
  /\ Goto("test")
  /\ UNCHANGED <<queueVars, shellVars, cpu, stack, regs, handler, picVars>>

(* Mutant: an idle task spins instead of yielding.                         *)
TaskSpins(t) ==
  /\ At(t, "test")
  /\ IF matrix_active THEN Goto("print") ELSE Goto("sti")
  /\ UNCHANGED <<queueVars, shellVars, cpu, stack, regs, interrupts, handler, picVars>>

TaskTest(t) ==
  /\ At(t, "test")
  /\ IF matrix_active THEN Goto("print") ELSE Goto("yield")
  /\ UNCHANGED <<queueVars, shellVars, cpu, stack, regs, interrupts, handler, picVars>>

TaskPrint(t) ==
  /\ At(t, "print")
  /\ Goto("delay")
  /\ UNCHANGED <<queueVars, shellVars, cpu, stack, regs, interrupts, handler, picVars>>

TaskDelay(t) ==
  /\ At(t, "delay")
  /\ Goto("sti")
  /\ UNCHANGED <<queueVars, shellVars, cpu, stack, regs, interrupts, handler, picVars>>

-----------------------------------------------------------------------------
(* thread_yield called by a task, with interrupts on.                      *)

(* old_thread and old_thread->next_thread are read.                        *)
YieldPick(t) ==
  /\ At(t, "yield")
  /\ regs' = [regs EXCEPT ![t].old = current_thread,
                          ![t].new = next_thread[current_thread]]
  /\ Goto("picked")
  /\ UNCHANGED <<queueVars, shellVars, cpu, stack, interrupts, handler, picVars>>

(* The argument current_thread->esp is read and current_thread is stored,  *)
(* in either order: current_thread is not volatile, and GCC at -O2 pushes  *)
(* the argument first.                                                     *)
YieldFetch(t) ==
  /\ At(t, "picked") \/ At(t, "published")
  /\ regs' = [regs EXCEPT ![t].arg = esp[regs[t].new]]
  /\ IF eip = "picked" THEN Goto("fetched") ELSE Goto("ready")
  /\ UNCHANGED <<queueVars, shellVars, cpu, stack, interrupts, handler, picVars>>

YieldPublish(t) ==
  /\ At(t, "picked") \/ At(t, "fetched")
  /\ current_thread' = regs[t].new
  /\ IF eip = "picked" THEN Goto("published") ELSE Goto("ready")
  /\ UNCHANGED <<next_thread, esp, created, shellVars, cpu, stack, regs,
                 interrupts, handler, picVars>>

(* Mutant: switch_task's arguments are swapped.                            *)
SaveIntoNew(t) ==
  LET saved == [stack[t] EXCEPT !.base = "yield"] IN
  /\ At(t, "ready")
  /\ stack' = [stack EXCEPT ![t] = saved]
  /\ esp' = [esp EXCEPT ![regs[t].new] = [stack |-> t, image |-> saved]]
  /\ Goto("saved")
  /\ UNCHANGED <<next_thread, current_thread, created, shellVars, cpu, regs,
                 interrupts, handler, picVars>>

(* switch_task pushes the registers and stores esp in the old thread.      *)
SwitchSave(t) ==
  LET saved == [stack[t] EXCEPT !.base = "yield"] IN
  /\ At(t, "ready")
  /\ stack' = [stack EXCEPT ![t] = saved]
  /\ esp' = [esp EXCEPT ![regs[t].old] = [stack |-> t, image |-> saved]]
  /\ Goto("saved")
  /\ UNCHANGED <<next_thread, current_thread, created, shellVars, cpu, regs,
                 interrupts, handler, picVars>>

(* switch_task loads the new stack pointer; the locals are dead.           *)
SwitchLoad(t) ==
  /\ At(t, "saved")
  /\ Restore(regs[t].arg, stack)
  /\ regs' = [regs EXCEPT ![t] = NoRegs]
  /\ UNCHANGED <<queueVars, shellVars, handler, picVars>>

thread_yield(t) ==
  \/ YieldPick(t) \/ YieldFetch(t) \/ YieldPublish(t)
  \/ SwitchSave(t) \/ SwitchLoad(t)

task(t) ==
  TaskSti(t) \/ TaskTest(t) \/ TaskPrint(t) \/ TaskDelay(t) \/ thread_yield(t)

-----------------------------------------------------------------------------
(* Interrupts.                                                             *)

(* The PIT ticks, a key is pressed or released: the 8259 latches the edge. *)
Raise(i) ==
  /\ i \notin irr
  /\ irr' = irr \union {i}
  /\ UNCHANGED <<queueVars, shellVars, cpuVars, isr>>

(* IRQ 0, the timer, has the highest priority: nothing waits with it, and  *)
(* the keyboard waits while it is requested or in service.                 *)
Deliverable(i) ==
  /\ i \in irr
  /\ i \notin isr
  /\ i = "keyboard" => "timer" \notin irr \union isr

(* The CPU takes the interrupt at an instruction boundary: the gates are   *)
(* interrupt gates (0x8E), so the flag goes off, and a hlt is over.        *)
Interrupt(i) ==
  /\ interrupts
  /\ handler = "none"
  /\ eip # "crashed"
  /\ Deliverable(i)
  /\ irr' = irr \ {i}
  /\ isr' = isr \union {i}
  /\ handler' = i
  /\ interrupts' = FALSE
  /\ IF eip = "asleep" THEN Goto("lock") ELSE UNCHANGED eip
  /\ UNCHANGED <<queueVars, shellVars, cpu, stack, regs>>

(* Mutant: no EOI.                                                         *)
NoEoi(i) == UNCHANGED isr

(* The EOI ends the interrupt in service.                                  *)
pic_acknowledge(i) == isr' = isr \ {i}

Iret ==
  /\ interrupts' = TRUE
  /\ UNCHANGED <<cpu, eip, stack>>

(* thread_yield inside the handler: current_thread = NULL is a read of     *)
(* address 4, whatever is there.  The argument esp[new] is read before     *)
(* the old thread's esp is stored.                                         *)
InterruptYield ==
  LET old   == current_thread
      new   == next_thread[old]
      saved == [stack[cpu] EXCEPT !.irq = eip]
  IN IF old = NULL
     THEN Goto("crashed") /\ UNCHANGED <<current_thread, esp, cpu, stack, interrupts>>
     ELSE /\ current_thread' = new
          /\ esp' = [esp EXCEPT ![old] = [stack |-> cpu, image |-> saved]]
          /\ Restore(esp[new], [stack EXCEPT ![cpu] = saved])

(* Mutant: every tick yields, show or no show.                             *)
YieldOnEveryTick ==
  /\ handler = "timer"
  /\ pic_acknowledge("timer")
  /\ InterruptYield
  /\ handler' = "none"
  /\ UNCHANGED <<next_thread, created, shellVars, regs, irr>>

(* Mutant: the EOI comes after thread_yield, so on another thread's time.  *)
LateEoi ==
  /\ handler = "timer"
  /\ \/ matrix_active /\ InterruptYield /\ UNCHANGED isr
     \/ ~ matrix_active /\ Iret /\ pic_acknowledge("timer") /\ UNCHANGED <<current_thread, esp>>
  /\ handler' = "none"
  /\ UNCHANGED <<next_thread, created, shellVars, regs, irr>>

TimerHandler ==
  /\ handler = "timer"
  /\ pic_acknowledge("timer")
  /\ \/ matrix_active /\ InterruptYield
     \/ ~ matrix_active /\ Iret /\ UNCHANGED <<current_thread, esp>>
  /\ handler' = "none"
  /\ UNCHANGED <<next_thread, created, shellVars, regs, irr>>

(* kmain is back in its idle loop, the tasks have yielded.                 *)
Settled == cpu = Main /\ eip = "idleHlt"

(* terminal_handle_scan, as far as the two flags go: "matrix" is the Enter *)
(* that completes that command, and q stops the show.                      *)
terminal_handle_scan(key) ==
  \/ /\ key = "q" /\ matrix_active
     /\ matrix_active' = FALSE
     /\ UNCHANGED shell_active
  \/ /\ key = "enter" /\ ~ matrix_active
     /\ shell_active' = TRUE
     /\ UNCHANGED matrix_active
  \/ /\ key = "matrix" /\ ~ matrix_active /\ shell_active
     /\ FastTyping \/ Settled
     /\ matrix_active' = TRUE
     /\ UNCHANGED shell_active
  \/ /\ key = "other"
     /\ UNCHANGED shellVars

KeyboardHandler(key) ==
  /\ handler = "keyboard"
  /\ terminal_handle_scan(key)
  /\ pic_acknowledge("keyboard")
  /\ Iret
  /\ handler' = "none"
  /\ UNCHANGED <<queueVars, regs, irr>>

-----------------------------------------------------------------------------
Next ==
  \/ kmain
  \/ \E t \in Task : task(t)
  \/ \E i \in IRQ : Raise(i) \/ Interrupt(i)
  \/ TimerHandler
  \/ \E key \in Key : KeyboardHandler(key)

(* The PIT never stops and a handler runs to its end.  A pending interrupt *)
(* is taken if the flag is on again and again, and a thread that gets the  *)
(* CPU again and again gets somewhere: a 10 ms slice is millions of        *)
(* instructions.  Nobody has to press a key.                               *)
Fairness ==
  /\ WF_vars(Raise("timer"))
  /\ SF_vars(Interrupt("timer"))
  /\ SF_vars(Interrupt("keyboard"))
  /\ WF_vars(TimerHandler)
  /\ WF_vars(\E key \in Key : KeyboardHandler(key))
  /\ SF_vars(kmain)
  /\ \A t \in Task : SF_vars(task(t))

Spec == Init /\ [][Next]_vars
FairSpec == Spec /\ Fairness

-----------------------------------------------------------------------------
(* Every variable holds a value of the program, and the 8259 never has an  *)
(* interrupt in service that no handler is working on.                     *)
TypeOK ==
  /\ next_thread \in [Thread -> Thread \union {NULL}]
  /\ esp \in [Thread -> Pointer]
  /\ current_thread \in Thread \union {NULL}
  /\ created \in 0 .. NTasks
  /\ matrix_active \in BOOLEAN
  /\ shell_active \in BOOLEAN
  /\ cpu \in Thread
  /\ eip \in Point \union {"crashed"}
  /\ stack \in [Thread -> Image]
  /\ regs \in [Thread -> Regs]
  /\ interrupts \in BOOLEAN
  /\ handler \in IRQ \union {"none"}
  /\ irr \in SUBSET IRQ
  /\ isr = IF handler = "none" THEN {} ELSE {handler}

Linked == {t \in Thread : t <= created /\ current_thread # NULL}

(* Every thread of the circle that does not have the CPU can be resumed:   *)
(* the esp saved for it points into its own stack (thread.c:43,            *)
(* switch_task.s:15-19), exactly at the one context that is suspended      *)
(* there.  Losing, overwriting or mixing up a saved esp breaks it.         *)
ContextIntegrity ==
  \A t \in Linked : t # cpu =>
    /\ esp[t] = [stack |-> t, image |-> stack[t]]
    /\ stack[t].base # "none" <=> stack[t].irq = "none"

(* switch_task never loads anything but a saved context, and the timer     *)
(* handler never yields before init_threads: the CPU does not run wild.    *)
NoCrash == eip # "crashed"

(* A CPU that waits in hlt hears interrupts: whatever path led back to     *)
(* kmain (iret out of a preemption, or a task's yield) restored the flag.  *)
NeverSleepsDeaf == eip \in Halted /\ handler = "none" => interrupts

(* While the show runs every task prints again and again (README.md: the   *)
(* matrix command "rapidly context-switch[es] between kernel threads").    *)
EveryTaskPrints == \A t \in Task : []<>(~ matrix_active \/ (cpu = t /\ eip = "print"))

(* After q the tasks hand the CPU back and kmain is in its idle loop, from *)
(* which alone the shell is usable again.                                  *)
HaltReturnsControl == ~ matrix_active /\ created = NTasks ~> matrix_active \/ Settled

(* An Enter on the lock screen is never lost, not even when it arrives     *)
(* between kmain's test of shell_active and its hlt.                       *)
ShellWakes == shell_active ~> created = NTasks

(* terminal.c:44: q is to "Kill the threads instantly": no thread prints   *)
(* once matrix_active is 0.                                                *)
KilledInstantly == [][(\E t \in Task : TaskPrint(t)) => matrix_active]_vars

-----------------------------------------------------------------------------
(* The promise.  A thread is where it executes, or where the frames on its *)
(* stack resume it, or at its entry when it is not linked yet.  A task     *)
(* inside thread_yield is already at the head of its loop as far as the    *)
(* promise goes.                                                           *)
Visible(l) == IF l \in YieldWindow THEN "sti" ELSE l

ResumePoint(image) == IF image.irq = "none" THEN "sti" ELSE Visible(image.irq)

PlaceOf == [t \in Thread |-> IF t = cpu THEN Visible(eip)
                            ELSE IF t > created THEN "sti" ELSE ResumePoint(stack[t])]

Promise == INSTANCE RoundRobin WITH
  Place   <- Point \ YieldWindow,
  Entry   <- [t \in Thread |-> IF t = Main THEN "lock" ELSE "sti"],
  Spawner <- Main,
  running <- cpu,
  place   <- PlaceOf,
  spawned <- created

(* The scheduler implements the promise: contexts survive every switch and *)
(* the CPU goes round the circle in order.                                 *)
ImplementsRoundRobin == Promise!Spec
=============================================================================
