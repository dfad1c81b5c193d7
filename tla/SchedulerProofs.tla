-------------------------- MODULE SchedulerProofs ---------------------------
(***************************************************************************)
(* Proofs about Scheduler, for every number of threads, when the user does *)
(* not complete a `matrix' line before kmain is idle again.                *)
(***************************************************************************)
EXTENDS Scheduler, TLAPS

SlowTyping == FastTyping = FALSE

BootPoint == MainPoint \ {"idleHlt"}
PreQueue  == {"lock", "lockHlt", "asleep", "mount", "threads"}

(* How far kmain is, which decides what the circle looks like.             *)
BootInv ==
  /\ cpu = Main /\ eip \in PreQueue <=> current_thread = NULL
  /\ current_thread = NULL => created = 0
  /\ eip \in {"create", "publish"} => created < NTasks
  /\ eip \notin BootPoint \ {"timer"} => created = NTasks
  /\ eip = "publish" => /\ next_thread[created + 1] = next_thread[Main]
                        /\ stack[created + 1] = [base |-> "fresh", irq |-> "none"]
                        /\ esp[created + 1] = [stack |-> created + 1,
                                               image |-> stack[created + 1]]
  /\ matrix_active => eip \notin BootPoint

(* thread_t.next_thread closes one circle through all linked threads.      *)
RingInv ==
  current_thread # NULL =>
    /\ next_thread[Main] = created
    /\ \A t \in 1 .. created : next_thread[t] = t - 1

(* The CPU executes the text of the thread whose stack it is on, and has   *)
(* popped everything from that stack.                                      *)
CpuInv ==
  /\ eip \in IF cpu = Main THEN MainPoint ELSE TaskPoint
  /\ stack[cpu] = IF eip = "saved" THEN [base |-> "yield", irq |-> "none"] ELSE Empty
  /\ cpu = Main /\ handler = "none" => interrupts
  /\ handler # "none" => ~ interrupts

(* A task inside thread_yield cannot be preempted: the show is over, and   *)
(* it cannot start again before kmain is idle.                             *)
WindowInv ==
  /\ matrix_active => eip \notin YieldWindow
  /\ current_thread # NULL =>
       current_thread = IF eip \in {"published", "ready", "saved"}
                        THEN next_thread[cpu] ELSE cpu
  /\ eip \in YieldWindow \ {"yield"} => /\ regs[cpu].old = cpu
                                        /\ regs[cpu].new = next_thread[cpu]
  /\ eip \in {"fetched", "ready", "saved"} => regs[cpu].arg = esp[next_thread[cpu]]
  /\ eip = "saved" => esp[cpu] = [stack |-> cpu, image |-> stack[cpu]]

(* What suspended threads have on their stacks.                            *)
SuspendedInv ==
  \A t \in Linked : t # cpu =>
    /\ esp[t] = [stack |-> t, image |-> stack[t]]
    /\ \/ /\ stack[t].base = "none"
          /\ stack[t].irq \in IF t = Main THEN {"idleHlt"} ELSE TaskPoint \ YieldWindow
       \/ t # Main /\ stack[t].base # "none" /\ stack[t].irq = "none"

IInv == TypeOK /\ BootInv /\ RingInv /\ CpuInv /\ WindowInv /\ SuspendedInv

-----------------------------------------------------------------------------
USE SchedulerAssumption DEF Thread, Main, Task

(* What the records of the model are built from.                           *)
LEMMA RecordTypes ==
  /\ Empty \in Image /\ ZeroEsp \in Pointer /\ NoRegs \in Regs
  /\ \A b \in {"none", "fresh", "yield"} : \A p \in Point \union {"none"} :
       [base |-> b, irq |-> p] \in Image
  /\ \A im \in Image :
       /\ [im EXCEPT !.base = "yield"] = [base |-> "yield", irq |-> im.irq]
       /\ \A p \in Point : [im EXCEPT !.irq = p] = [base |-> im.base, irq |-> p]
       /\ im.base \in {"none", "fresh", "yield"}
       /\ im.irq \in Point \union {"none"}
       /\ im = [base |-> im.base, irq |-> im.irq]
  /\ \A t \in Thread \union {NULL} : \A im \in Image :
       [stack |-> t, image |-> im] \in Pointer
  /\ \A r \in Regs :
       /\ \A o, n \in Thread \union {NULL} : [r EXCEPT !.old = o, !.new = n] \in Regs
       /\ \A p \in Pointer : [r EXCEPT !.arg = p] \in Regs
<1>1. Empty \in Image
  BY DEF Image, Empty
<1>2. ZeroEsp \in Pointer
  BY <1>1 DEF Pointer, ZeroEsp
<1>3. NoRegs \in Regs
  BY <1>2 DEF Regs, NoRegs
<1>4. \A b \in {"none", "fresh", "yield"} : \A p \in Point \union {"none"} :
        [base |-> b, irq |-> p] \in Image
  BY DEF Image
<1>5. ASSUME NEW im \in Image
      PROVE  /\ [im EXCEPT !.base = "yield"] = [base |-> "yield", irq |-> im.irq]
             /\ \A p \in Point : [im EXCEPT !.irq = p] = [base |-> im.base, irq |-> p]
             /\ im.base \in {"none", "fresh", "yield"}
             /\ im.irq \in Point \union {"none"}
             /\ im = [base |-> im.base, irq |-> im.irq]
  BY DEF Image
<1>6. \A t \in Thread \union {NULL} : \A im \in Image : [stack |-> t, image |-> im] \in Pointer
  BY DEF Pointer
<1>7. ASSUME NEW r \in Regs
      PROVE  /\ \A o, n \in Thread \union {NULL} : [r EXCEPT !.old = o, !.new = n] \in Regs
             /\ \A p \in Pointer : [r EXCEPT !.arg = p] \in Regs
  BY DEF Regs
<1> QED
  BY <1>1, <1>2, <1>3, <1>4, <1>5, <1>6, <1>7

LEMMA InitIInv == Init => IInv
<1> SUFFICES ASSUME Init PROVE IInv
  OBVIOUS
<1> USE DEF Init
<1>1. TypeOK
  <2>1. "lock" \in Point /\ Empty \in Image /\ ZeroEsp \in Pointer /\ NoRegs \in Regs
    BY RecordTypes DEF Point, MainPoint
  <2>2. /\ next_thread \in [Thread -> Thread \union {NULL}] /\ esp \in [Thread -> Pointer]
        /\ stack \in [Thread -> Image] /\ regs \in [Thread -> Regs]
    BY <2>1
  <2>3. created \in 0 .. NTasks /\ cpu \in Thread
    OBVIOUS
  <2>4. interrupts \in BOOLEAN /\ matrix_active \in BOOLEAN /\ shell_active \in BOOLEAN
    OBVIOUS
  <2>5. irr \in SUBSET IRQ
    OBVIOUS
  <2>6. isr = IF handler = "none" THEN {} ELSE {handler}
    OBVIOUS
  <2> QED
    BY <2>1, <2>2, <2>3, <2>4, <2>5, <2>6 DEF TypeOK
<1>2. BootInv
  BY DEF BootInv, BootPoint, PreQueue, MainPoint, TaskPoint, YieldWindow
<1>3. RingInv
  BY DEF RingInv
<1>4. CpuInv
  BY DEF CpuInv, MainPoint
<1>5. WindowInv
  BY DEF WindowInv, YieldWindow
<1>6. SuspendedInv
  BY DEF SuspendedInv, Linked
<1> QED
  BY <1>1, <1>2, <1>3, <1>4, <1>5, <1>6 DEF IInv

-----------------------------------------------------------------------------
(* Once every thread is linked, the successor of the thread on the CPU is  *)
(* another thread, suspended and resumable.                                *)
LEMMA SuccessorSuspended ==
  ASSUME IInv, created = NTasks, current_thread # NULL
  PROVE  LET n == next_thread[cpu] IN
         /\ n \in Thread /\ n # cpu
         /\ n \in Linked
         /\ stack[n] \in Image
         /\ esp[n] = [stack |-> n, image |-> stack[n]]
         /\ \/ /\ stack[n].base = "none"
               /\ stack[n].irq \in IF n = Main THEN {"idleHlt"} ELSE TaskPoint \ YieldWindow
            \/ n # Main /\ stack[n].base # "none" /\ stack[n].irq = "none"
<1> DEFINE n == next_thread[cpu]
<1>1. cpu \in 0 .. NTasks /\ n = IF cpu = 0 THEN NTasks ELSE cpu - 1
  BY DEF IInv, TypeOK, RingInv
<1>2. n \in Thread /\ n # cpu /\ n \in Linked
  BY <1>1 DEF Linked
<1>3. stack[n] \in Image
  BY <1>2 DEF IInv, TypeOK
<1> QED
  BY <1>2, <1>3 DEF IInv, SuspendedInv

(* Past the boot sequence the circle is complete.                          *)
LEMMA PastBoot ==
  ASSUME IInv, eip \notin BootPoint
  PROVE  created = NTasks /\ current_thread # NULL
  BY DEF IInv, BootInv, BootPoint, PreQueue, MainPoint

LEMMA LockScreenStep == IInv /\ LockScreen => IInv'
<1> SUFFICES ASSUME IInv, LockScreen PROVE IInv'
  OBVIOUS
<1> USE DEF LockScreen, IInv, At, Goto, queueVars, shellVars, picVars
<1>1. TypeOK'
  BY DEF TypeOK, Point, MainPoint, TaskPoint, YieldWindow
<1>2. BootInv'
  BY DEF BootInv, TypeOK, BootPoint, PreQueue, MainPoint, TaskPoint, YieldWindow
<1>3. RingInv'
  BY DEF RingInv, TypeOK, BootInv, BootPoint, PreQueue, MainPoint, TaskPoint, YieldWindow
<1>4. CpuInv'
  BY DEF CpuInv, TypeOK, BootInv, BootPoint, PreQueue, MainPoint, TaskPoint, YieldWindow, Empty
<1>5. WindowInv'
  BY DEF WindowInv, TypeOK, RingInv, CpuInv, BootInv, BootPoint, PreQueue, MainPoint, TaskPoint, YieldWindow
<1>6. SuspendedInv'
  BY DEF SuspendedInv, Linked, TypeOK, BootInv, RingInv, CpuInv, BootPoint, PreQueue, MainPoint, TaskPoint, YieldWindow, Empty, ZeroEsp
<1> QED
  BY <1>1, <1>2, <1>3, <1>4, <1>5, <1>6

LEMMA MountStep == IInv /\ Mount => IInv'
<1> SUFFICES ASSUME IInv, Mount PROVE IInv'
  OBVIOUS
<1> USE DEF Mount, IInv, At, Goto, queueVars, shellVars, picVars
<1>1. TypeOK'
  BY DEF TypeOK, Point, MainPoint, TaskPoint, YieldWindow
<1>2. BootInv'
  BY DEF BootInv, TypeOK, BootPoint, PreQueue, MainPoint, TaskPoint, YieldWindow
<1>3. RingInv'
  BY DEF RingInv, TypeOK, BootInv, BootPoint, PreQueue, MainPoint, TaskPoint, YieldWindow
<1>4. CpuInv'
  BY DEF CpuInv, TypeOK, BootInv, BootPoint, PreQueue, MainPoint, TaskPoint, YieldWindow, Empty
<1>5. WindowInv'
  BY DEF WindowInv, TypeOK, RingInv, CpuInv, BootInv, BootPoint, PreQueue, MainPoint, TaskPoint, YieldWindow
<1>6. SuspendedInv'
  BY DEF SuspendedInv, Linked, TypeOK, BootInv, RingInv, CpuInv, BootPoint, PreQueue, MainPoint, TaskPoint, YieldWindow, Empty, ZeroEsp
<1> QED
  BY <1>1, <1>2, <1>3, <1>4, <1>5, <1>6

LEMMA init_timerStep == IInv /\ init_timer => IInv'
<1> SUFFICES ASSUME IInv, init_timer PROVE IInv'
  OBVIOUS
<1> USE DEF init_timer, IInv, At, Goto, queueVars, shellVars, picVars
<1>1. TypeOK'
  BY DEF TypeOK, Point, MainPoint, TaskPoint, YieldWindow
<1>2. BootInv'
  BY DEF BootInv, TypeOK, BootPoint, PreQueue, MainPoint, TaskPoint, YieldWindow
<1>3. RingInv'
  BY DEF RingInv, TypeOK, BootInv, BootPoint, PreQueue, MainPoint, TaskPoint, YieldWindow
<1>4. CpuInv'
  BY DEF CpuInv, TypeOK, BootInv, BootPoint, PreQueue, MainPoint, TaskPoint, YieldWindow, Empty
<1>5. WindowInv'
  BY DEF WindowInv, TypeOK, RingInv, CpuInv, BootInv, BootPoint, PreQueue, MainPoint, TaskPoint, YieldWindow
<1>6. SuspendedInv'
  BY DEF SuspendedInv, Linked, TypeOK, BootInv, RingInv, CpuInv, BootPoint, PreQueue, MainPoint, TaskPoint, YieldWindow, Empty, ZeroEsp
<1> QED
  BY <1>1, <1>2, <1>3, <1>4, <1>5, <1>6

LEMMA init_threadsStep == IInv /\ init_threads => IInv'
<1> SUFFICES ASSUME IInv, init_threads PROVE IInv'
  OBVIOUS
<1> USE DEF init_threads, IInv, At, Goto, queueVars, shellVars, picVars
<1>1. TypeOK'
  BY RecordTypes DEF TypeOK, Point, MainPoint, TaskPoint, YieldWindow
<1>2. BootInv'
  BY DEF BootInv, TypeOK, BootPoint, PreQueue, MainPoint, TaskPoint, YieldWindow
<1>3. RingInv'
  BY DEF RingInv, TypeOK, BootInv, BootPoint, PreQueue, MainPoint, TaskPoint, YieldWindow
<1>4. CpuInv'
  BY DEF CpuInv, TypeOK, BootInv, BootPoint, PreQueue, MainPoint, TaskPoint, YieldWindow, Empty
<1>5. WindowInv'
  BY DEF WindowInv, TypeOK, RingInv, CpuInv, BootInv, BootPoint, PreQueue, MainPoint, TaskPoint, YieldWindow
<1>6. SuspendedInv'
  BY DEF SuspendedInv, Linked, TypeOK, BootInv, RingInv, CpuInv, BootPoint, PreQueue, MainPoint, TaskPoint, YieldWindow, Empty, ZeroEsp
<1> QED
  BY <1>1, <1>2, <1>3, <1>4, <1>5, <1>6

LEMMA create_threadStep == IInv /\ create_thread => IInv'
<1> SUFFICES ASSUME IInv, create_thread PROVE IInv'
  OBVIOUS
<1> USE DEF create_thread, IInv, At, Goto, queueVars, shellVars, picVars
<1>1. TypeOK'
  <2>1. created + 1 \in Thread
    BY DEF TypeOK, BootInv
  <2>2. created \in Thread /\ current_thread \in Thread
    BY DEF TypeOK, BootInv, PreQueue
  <2>3. [base |-> "fresh", irq |-> "none"] \in Image
    BY RecordTypes
  <2> QED
    BY <2>1, <2>2, <2>3, RecordTypes DEF TypeOK, Point, MainPoint, TaskPoint, YieldWindow
<1>2. BootInv'
  <2>1. created + 1 \in Thread /\ current_thread = Main
    BY DEF TypeOK, BootInv, WindowInv, CpuInv, PreQueue, TaskPoint, YieldWindow
  <2> QED
    BY <2>1 DEF BootInv, TypeOK, BootPoint, PreQueue, MainPoint, TaskPoint, YieldWindow
<1>3. RingInv'
  BY DEF RingInv, TypeOK, BootInv, BootPoint, PreQueue, MainPoint, TaskPoint, YieldWindow
<1>4. CpuInv'
  BY DEF CpuInv, TypeOK, BootInv, BootPoint, PreQueue, MainPoint, TaskPoint, YieldWindow, Empty
<1>5. WindowInv'
  BY DEF WindowInv, TypeOK, RingInv, CpuInv, BootInv, BootPoint, PreQueue, MainPoint, TaskPoint, YieldWindow
<1>6. SuspendedInv'
  BY DEF SuspendedInv, Linked, TypeOK, BootInv, RingInv, CpuInv, BootPoint, PreQueue, MainPoint, TaskPoint, YieldWindow, Empty, ZeroEsp
<1> QED
  BY <1>1, <1>2, <1>3, <1>4, <1>5, <1>6

LEMMA publish_threadStep == IInv /\ publish_thread => IInv'
<1> SUFFICES ASSUME IInv, publish_thread PROVE IInv'
  OBVIOUS
<1> USE DEF publish_thread, IInv, At, Goto, queueVars, shellVars, picVars
<1>1. TypeOK'
  <2>1. created + 1 \in 0 .. NTasks
    BY DEF TypeOK, BootInv
  <2> QED
    BY <2>1 DEF TypeOK, Point, MainPoint
<1>2. BootInv'
  BY DEF BootInv, TypeOK, BootPoint, PreQueue, MainPoint, TaskPoint, YieldWindow
<1>3. RingInv'
  <2>1. current_thread = Main /\ created \in Nat /\ created < NTasks
    BY DEF TypeOK, BootInv, WindowInv, CpuInv, PreQueue, TaskPoint, YieldWindow
  <2> QED
    BY <2>1 DEF BootInv, RingInv, TypeOK, PreQueue
<1>4. CpuInv'
  BY DEF CpuInv, TypeOK, BootInv, BootPoint, PreQueue, MainPoint, TaskPoint, YieldWindow, Empty
<1>5. WindowInv'
  BY DEF WindowInv, TypeOK, RingInv, CpuInv, BootInv, BootPoint, PreQueue, MainPoint, TaskPoint, YieldWindow
<1>6. SuspendedInv'
  BY DEF SuspendedInv, Linked, TypeOK, BootInv, RingInv, CpuInv, BootPoint, PreQueue, MainPoint, TaskPoint, YieldWindow, Empty, ZeroEsp
<1> QED
  BY <1>1, <1>2, <1>3, <1>4, <1>5, <1>6

-----------------------------------------------------------------------------
(* A task moves on outside thread_yield, or up to its call.                *)
LEMMA TaskMoves ==
  ASSUME NEW t \in Task, IInv, cpu = t, handler = "none",
         eip \in TaskPoint \ YieldWindow, eip' \in (TaskPoint \ YieldWindow) \union {"yield"},
         eip' = "yield" => ~ matrix_active,
         interrupts' \in BOOLEAN,
         UNCHANGED <<queueVars, shellVars, cpu, stack, regs, handler, picVars>>
  PROVE  IInv'
<1> USE DEF IInv, queueVars, shellVars, picVars
<1>1. TypeOK'
  BY DEF TypeOK, Point, TaskPoint, YieldWindow
<1>2. BootInv'
  BY DEF BootInv, BootPoint, MainPoint, TaskPoint, YieldWindow
<1>3. RingInv'
  BY DEF RingInv
<1>4. CpuInv'
  BY DEF CpuInv, TaskPoint, YieldWindow
<1>5. WindowInv'
  BY DEF WindowInv, YieldWindow
<1>6. SuspendedInv'
  BY DEF SuspendedInv, Linked
<1> QED
  BY <1>1, <1>2, <1>3, <1>4, <1>5, <1>6

LEMMA TaskLoopStep ==
  ASSUME NEW t \in Task, IInv, TaskSti(t) \/ TaskTest(t) \/ TaskPrint(t) \/ TaskDelay(t)
  PROVE  IInv'
<1> USE DEF At, Goto, TaskPoint, YieldWindow
<1>1. CASE TaskSti(t)
  BY <1>1, TaskMoves DEF TaskSti
<1>2. CASE TaskTest(t)
  BY <1>2, TaskMoves DEF TaskTest, IInv, TypeOK
<1>3. CASE TaskPrint(t)
  BY <1>3, TaskMoves DEF TaskPrint, IInv, TypeOK
<1>4. CASE TaskDelay(t)
  BY <1>4, TaskMoves DEF TaskDelay, IInv, TypeOK
<1> QED
  BY <1>1, <1>2, <1>3, <1>4

LEMMA YieldPickStep ==
  ASSUME NEW t \in Task, IInv, YieldPick(t) PROVE  IInv'
<1> USE DEF YieldPick, IInv, At, Goto, queueVars, shellVars, picVars
<1>1. TypeOK'
  <2>1. t \in Thread /\ current_thread \in Thread /\ next_thread[current_thread] \in Thread
    BY PastBoot, SuccessorSuspended DEF TypeOK, WindowInv, BootPoint, MainPoint
  <2>2. regs' \in [Thread -> Regs]
    BY <2>1 DEF TypeOK, Regs
  <2> QED
    BY <2>1, <2>2 DEF TypeOK, Point, TaskPoint, YieldWindow
<1>2. BootInv'
  BY DEF BootInv, TypeOK, BootPoint, PreQueue, MainPoint, TaskPoint, YieldWindow
<1>3. RingInv'
  BY DEF RingInv, TypeOK, BootInv, BootPoint, PreQueue, MainPoint, TaskPoint, YieldWindow
<1>4. CpuInv'
  BY DEF CpuInv, TypeOK, BootInv, BootPoint, PreQueue, MainPoint, TaskPoint, YieldWindow, Empty
<1>5. WindowInv'
  BY DEF WindowInv, TypeOK, RingInv, CpuInv, BootInv, BootPoint, PreQueue, MainPoint, TaskPoint, YieldWindow
<1>6. SuspendedInv'
  BY DEF SuspendedInv, Linked, TypeOK, BootInv, RingInv, CpuInv, BootPoint, PreQueue, MainPoint, TaskPoint, YieldWindow, Empty, ZeroEsp
<1> QED
  BY <1>1, <1>2, <1>3, <1>4, <1>5, <1>6

LEMMA YieldFetchStep ==
  ASSUME NEW t \in Task, IInv, YieldFetch(t) PROVE  IInv'
<1> USE DEF YieldFetch, IInv, At, Goto, queueVars, shellVars, picVars
<1>1. TypeOK'
  <2>1. t \in Thread /\ regs[t].new \in Thread
    BY PastBoot, SuccessorSuspended DEF TypeOK, WindowInv, BootPoint, MainPoint, YieldWindow
  <2> QED
    BY <2>1, RecordTypes DEF TypeOK, Point, TaskPoint, YieldWindow
<1>2. BootInv'
  BY DEF BootInv, TypeOK, BootPoint, PreQueue, MainPoint, TaskPoint, YieldWindow
<1>3. RingInv'
  BY DEF RingInv, TypeOK, BootInv, BootPoint, PreQueue, MainPoint, TaskPoint, YieldWindow
<1>4. CpuInv'
  BY DEF CpuInv, TypeOK, BootInv, BootPoint, PreQueue, MainPoint, TaskPoint, YieldWindow, Empty
<1>5. WindowInv'
  BY DEF WindowInv, TypeOK, RingInv, CpuInv, BootInv, BootPoint, PreQueue, MainPoint, TaskPoint, YieldWindow
<1>6. SuspendedInv'
  BY DEF SuspendedInv, Linked, TypeOK, BootInv, RingInv, CpuInv, BootPoint, PreQueue, MainPoint, TaskPoint, YieldWindow, Empty, ZeroEsp
<1> QED
  BY <1>1, <1>2, <1>3, <1>4, <1>5, <1>6

LEMMA YieldPublishStep ==
  ASSUME NEW t \in Task, IInv, YieldPublish(t) PROVE  IInv'
<1> USE DEF YieldPublish, IInv, At, Goto, queueVars, shellVars, picVars
<1>1. TypeOK'
  <2>1. t \in Thread /\ regs[t].new \in Thread
    BY PastBoot, SuccessorSuspended DEF TypeOK, WindowInv, BootPoint, MainPoint, YieldWindow
  <2> QED
    BY <2>1, RecordTypes DEF TypeOK, Point, TaskPoint, YieldWindow
<1>2. BootInv'
  BY PastBoot, SuccessorSuspended DEF WindowInv, BootInv, TypeOK, BootPoint, PreQueue, MainPoint, TaskPoint, YieldWindow
<1>3. RingInv'
  BY DEF RingInv, TypeOK, BootInv, BootPoint, PreQueue, MainPoint, TaskPoint, YieldWindow
<1>4. CpuInv'
  BY DEF CpuInv, TypeOK, BootInv, BootPoint, PreQueue, MainPoint, TaskPoint, YieldWindow, Empty
<1>5. WindowInv'
  BY DEF WindowInv, TypeOK, RingInv, CpuInv, BootInv, BootPoint, PreQueue, MainPoint, TaskPoint, YieldWindow
<1>6. SuspendedInv'
  BY DEF SuspendedInv, Linked, TypeOK, BootInv, RingInv, CpuInv, BootPoint, PreQueue, MainPoint, TaskPoint, YieldWindow, Empty, ZeroEsp
<1> QED
  BY <1>1, <1>2, <1>3, <1>4, <1>5, <1>6

LEMMA SwitchSaveStep ==
  ASSUME NEW t \in Task, IInv, SwitchSave(t) PROVE  IInv'
<1> USE DEF SwitchSave, IInv, At, Goto, queueVars, shellVars, picVars
<1>0. /\ regs[t].old = t /\ t \in Thread /\ cpu = t /\ eip = "ready"
      /\ stack[t] = Empty
      /\ [stack[t] EXCEPT !.base = "yield"] = [base |-> "yield", irq |-> "none"]
      /\ [base |-> "yield", irq |-> "none"] \in Image
  <2>1. regs[t].old = t /\ t \in Thread /\ cpu = t /\ eip = "ready" /\ stack[t] = Empty
    BY DEF WindowInv, CpuInv, YieldWindow
  <2>2. [stack[t] EXCEPT !.base = "yield"] = [base |-> "yield", irq |-> "none"]
    BY <2>1 DEF Empty
  <2> QED
    BY <2>1, <2>2, RecordTypes
<1>1. TypeOK'
  BY <1>0, RecordTypes DEF TypeOK, Point, MainPoint, TaskPoint, YieldWindow
<1>2. BootInv'
  BY DEF BootInv, TypeOK, BootPoint, PreQueue, MainPoint, TaskPoint, YieldWindow
<1>3. RingInv'
  BY DEF RingInv, TypeOK, BootInv, BootPoint, PreQueue, MainPoint, TaskPoint, YieldWindow
<1>4. CpuInv'
  BY DEF CpuInv, TypeOK, BootInv, BootPoint, PreQueue, MainPoint, TaskPoint, YieldWindow, Empty
<1>5. WindowInv'
  BY DEF WindowInv, TypeOK, RingInv, CpuInv, BootInv, BootPoint, PreQueue, MainPoint, TaskPoint, YieldWindow
<1>6. SuspendedInv'
  BY <1>0 DEF SuspendedInv, Linked, TypeOK, BootInv, RingInv, CpuInv, BootPoint, PreQueue, MainPoint, TaskPoint, YieldWindow, Empty, ZeroEsp
<1> QED
  BY <1>1, <1>2, <1>3, <1>4, <1>5, <1>6

(* What switch_task finds when a task has yielded to thread n.             *)
LEMMA SwitchLoadEffect ==
  ASSUME NEW t \in Task, IInv, SwitchLoad(t)
  PROVE  LET n == next_thread[t] IN
         /\ cpu = t /\ eip = "saved" /\ handler = "none" /\ t \in Thread
         /\ created = NTasks /\ current_thread = n /\ ~ matrix_active
         /\ n \in Thread /\ n # t
         /\ stack[t] = [base |-> "yield", irq |-> "none"]
         /\ esp[t] = [stack |-> t, image |-> stack[t]]
         /\ regs' = [regs EXCEPT ![t] = NoRegs]
         /\ UNCHANGED <<queueVars, shellVars, handler, picVars>>
         /\ cpu' = n
         /\ eip' = ResumePoint(stack[n])
         /\ eip' \in IF n = Main THEN {"idleHlt"} ELSE TaskPoint \ YieldWindow
         /\ stack' = [stack EXCEPT ![n] = Empty]
         /\ interrupts' \in BOOLEAN /\ (n = Main => interrupts')
<1> USE DEF IInv
<1> DEFINE n == next_thread[t]
<1>1. /\ cpu = t /\ eip = "saved" /\ handler = "none" /\ t \in Thread
      /\ created = NTasks /\ current_thread # NULL
  BY PastBoot DEF SwitchLoad, At, BootPoint, MainPoint
<1>2. /\ current_thread = n /\ regs[t].arg = esp[n] /\ ~ matrix_active
      /\ stack[t] = [base |-> "yield", irq |-> "none"]
      /\ esp[t] = [stack |-> t, image |-> stack[t]]
  BY <1>1 DEF WindowInv, CpuInv, YieldWindow
<1>3. /\ n \in Thread /\ n # t /\ stack[n] \in Image
      /\ esp[n] = [stack |-> n, image |-> stack[n]]
      /\ \/ /\ stack[n].base = "none"
            /\ stack[n].irq \in IF n = Main THEN {"idleHlt"} ELSE TaskPoint \ YieldWindow
         \/ n # Main /\ stack[n].base # "none" /\ stack[n].irq = "none"
  BY <1>1, SuccessorSuspended
<1>4. /\ regs' = [regs EXCEPT ![t] = NoRegs]
      /\ UNCHANGED <<queueVars, shellVars, handler, picVars>>
      /\ cpu' = n
      /\ \/ /\ stack[n].irq # "none"
            /\ eip' = stack[n].irq
            /\ stack' = [stack EXCEPT ![n] = [base |-> stack[n].base, irq |-> "none"]]
            /\ interrupts' = TRUE
         \/ /\ stack[n].irq = "none"
            /\ eip' = "sti"
            /\ stack' = [stack EXCEPT ![n] = Empty]
            /\ interrupts' = interrupts
  <2>1. regs[t].arg.stack = n /\ regs[t].arg.image = stack[n]
    BY <1>2, <1>3
  <2>2. stack[n] # Empty
    BY <1>3 DEF Empty, TaskPoint, YieldWindow
  <2>3. Restorable(regs[t].arg, stack)
    BY <1>3, <2>1, <2>2 DEF Restorable
  <2> QED
    BY <1>1, <2>1, <2>3 DEF SwitchLoad, Restore, RestoreInterrupted, RestoreYielded,
                            RestoreBroken, Goto
<1>5. /\ eip' \in IF n = Main THEN {"idleHlt"} ELSE TaskPoint \ YieldWindow
      /\ stack' = [stack EXCEPT ![n] = Empty]
      /\ interrupts' \in BOOLEAN /\ (n = Main => interrupts')
  BY <1>3, <1>4 DEF Empty, TaskPoint, YieldWindow, TypeOK
<1>6. eip' = ResumePoint(stack[n])
  BY <1>3, <1>4, <1>5 DEF ResumePoint, Visible, TaskPoint, YieldWindow
<1> QED
  BY <1>1, <1>2, <1>3, <1>4, <1>5, <1>6

LEMMA SwitchLoadStep ==
  ASSUME NEW t \in Task, IInv, SwitchLoad(t) PROVE  IInv'
<1> USE DEF IInv
<1> DEFINE n == next_thread[t]
<1>1. /\ cpu = t /\ t \in Thread /\ n \in Thread /\ n # t /\ cpu' = n
      /\ handler' = "none" /\ ~ matrix_active
      /\ UNCHANGED <<next_thread, esp, current_thread, created, matrix_active, shell_active,
                     handler, irr, isr>>
      /\ created = NTasks /\ current_thread = n
  BY SwitchLoadEffect DEF queueVars, shellVars, picVars
<1>2. /\ regs' = [regs EXCEPT ![t] = NoRegs]
      /\ eip' \in IF n = Main THEN {"idleHlt"} ELSE TaskPoint \ YieldWindow
      /\ stack' = [stack EXCEPT ![n] = Empty]
      /\ interrupts' \in BOOLEAN /\ (n = Main => interrupts')
      /\ esp[t] = [stack |-> t, image |-> stack[t]]
      /\ stack[t] = [base |-> "yield", irq |-> "none"]
  BY SwitchLoadEffect
<1>3. TypeOK'
  <2>1. eip' \in Point /\ Empty \in Image /\ NoRegs \in Regs
    BY <1>2, RecordTypes DEF Point, MainPoint, TaskPoint, YieldWindow
  <2> QED
    BY <1>1, <1>2, <2>1 DEF TypeOK
<1>4. BootInv'
  BY <1>1, <1>2 DEF BootInv, TypeOK, BootPoint, PreQueue, MainPoint, TaskPoint, YieldWindow
<1>5. RingInv'
  BY <1>1 DEF RingInv
<1>6. CpuInv'
  BY <1>1, <1>2 DEF CpuInv, TypeOK, MainPoint, TaskPoint, YieldWindow
<1>7. WindowInv'
  BY <1>1, <1>2 DEF WindowInv, MainPoint, YieldWindow
<1>8. SuspendedInv'
  BY <1>1, <1>2 DEF SuspendedInv, Linked, TypeOK
<1> QED
  BY <1>3, <1>4, <1>5, <1>6, <1>7, <1>8

LEMMA RaiseStep ==
  ASSUME NEW i \in IRQ, IInv, Raise(i) PROVE  IInv'
<1> USE DEF Raise, IInv, queueVars, shellVars, cpuVars, picVars
<1>1. TypeOK'
  BY DEF TypeOK, Point, MainPoint, TaskPoint, YieldWindow
<1>2. BootInv'
  BY DEF BootInv, TypeOK, BootPoint, PreQueue, MainPoint, TaskPoint, YieldWindow
<1>3. RingInv'
  BY DEF RingInv, TypeOK, BootInv, BootPoint, PreQueue, MainPoint, TaskPoint, YieldWindow
<1>4. CpuInv'
  BY DEF CpuInv, TypeOK, BootInv, BootPoint, PreQueue, MainPoint, TaskPoint, YieldWindow, Empty
<1>5. WindowInv'
  BY DEF WindowInv, TypeOK, RingInv, CpuInv, BootInv, BootPoint, PreQueue, MainPoint, TaskPoint, YieldWindow
<1>6. SuspendedInv'
  BY DEF SuspendedInv, Linked, TypeOK, BootInv, RingInv, CpuInv, BootPoint, PreQueue, MainPoint, TaskPoint, YieldWindow, Empty, ZeroEsp
<1> QED
  BY <1>1, <1>2, <1>3, <1>4, <1>5, <1>6

LEMMA InterruptStep ==
  ASSUME NEW i \in IRQ, IInv, Interrupt(i) PROVE  IInv'
<1> USE DEF Interrupt, IInv, Goto, queueVars, shellVars, cpuVars, picVars
<1>0. /\ isr' = {i} /\ handler' \in IRQ /\ eip' \in Point
      /\ eip' = IF eip = "asleep" THEN "lock" ELSE eip
      /\ eip = "asleep" => cpu = Main
      /\ eip \in Point
  BY DEF TypeOK, CpuInv, Point, MainPoint, TaskPoint, YieldWindow
<1>1. TypeOK'
  BY <1>0 DEF TypeOK, IRQ
<1>2. BootInv'
  BY DEF BootInv, TypeOK, BootPoint, PreQueue, MainPoint, TaskPoint, YieldWindow
<1>3. RingInv'
  BY DEF RingInv, TypeOK, BootInv, BootPoint, PreQueue, MainPoint, TaskPoint, YieldWindow
<1>4. CpuInv'
  BY <1>0 DEF CpuInv, IRQ, MainPoint, TaskPoint, YieldWindow
<1>5. WindowInv'
  BY DEF WindowInv, TypeOK, RingInv, CpuInv, BootInv, BootPoint, PreQueue, MainPoint, TaskPoint, YieldWindow
<1>6. SuspendedInv'
  BY DEF SuspendedInv, Linked, TypeOK, BootInv, RingInv, CpuInv, BootPoint, PreQueue, MainPoint, TaskPoint, YieldWindow, Empty, ZeroEsp
<1> QED
  BY <1>1, <1>2, <1>3, <1>4, <1>5, <1>6

LEMMA KeyboardHandlerStep ==
  ASSUME NEW key \in Key, SlowTyping, IInv, KeyboardHandler(key) PROVE  IInv'
<1> USE DEF KeyboardHandler, IInv, Goto, Iret, pic_acknowledge, terminal_handle_scan, Settled, SlowTyping, queueVars, shellVars, cpuVars, picVars
<1>1. TypeOK'
  BY DEF TypeOK, Point, MainPoint, TaskPoint, YieldWindow
<1>2. BootInv'
  BY DEF BootInv, TypeOK, BootPoint, PreQueue, MainPoint, TaskPoint, YieldWindow
<1>3. RingInv'
  BY DEF RingInv, TypeOK, BootInv, BootPoint, PreQueue, MainPoint, TaskPoint, YieldWindow
<1>4. CpuInv'
  BY DEF CpuInv, TypeOK, BootInv, BootPoint, PreQueue, MainPoint, TaskPoint, YieldWindow, Empty
<1>5. WindowInv'
  BY DEF WindowInv, TypeOK, RingInv, CpuInv, BootInv, BootPoint, PreQueue, MainPoint, TaskPoint, YieldWindow
<1>6. SuspendedInv'
  BY DEF SuspendedInv, Linked, TypeOK, BootInv, RingInv, CpuInv, BootPoint, PreQueue, MainPoint, TaskPoint, YieldWindow, Empty, ZeroEsp
<1> QED
  BY <1>1, <1>2, <1>3, <1>4, <1>5, <1>6

(* What the timer handler does to the interrupted thread and its successor *)
(* n while the show runs.                                                  *)
LEMMA PreemptionEffect ==
  ASSUME IInv, TimerHandler, matrix_active
  PROVE  LET n     == next_thread[cpu]
             saved == [base |-> "none", irq |-> eip] IN
         /\ eip \in IF cpu = Main THEN {"idleHlt"} ELSE TaskPoint \ YieldWindow
         /\ created = NTasks /\ cpu \in Thread /\ current_thread = cpu
         /\ n \in Thread /\ n # cpu
         /\ handler' = "none" /\ isr' = {}
         /\ UNCHANGED <<next_thread, created, shellVars, regs, irr>>
         /\ current_thread' = n
         /\ esp' = [esp EXCEPT ![cpu] = [stack |-> cpu, image |-> saved]]
         /\ cpu' = n
         /\ eip' = ResumePoint(stack[n])
         /\ eip' \in IF n = Main THEN {"idleHlt"} ELSE TaskPoint \ YieldWindow
         /\ stack' = [stack EXCEPT ![cpu] = saved, ![n] = Empty]
         /\ interrupts' \in BOOLEAN /\ (n = Main => interrupts')
<1> USE DEF IInv
<1> DEFINE n     == next_thread[cpu]
           saved == [base |-> "none", irq |-> eip]
           held  == [stack EXCEPT ![cpu] = saved]
<1>1. /\ eip \in IF cpu = Main THEN {"idleHlt"} ELSE TaskPoint \ YieldWindow
      /\ created = NTasks /\ current_thread = cpu /\ cpu \in Thread
      /\ stack[cpu] = Empty /\ ~ interrupts
      /\ handler' = "none" /\ isr' = {}
      /\ UNCHANGED <<next_thread, created, shellVars, regs, irr>>
  <2>1. /\ eip \in IF cpu = Main THEN {"idleHlt"} ELSE TaskPoint \ YieldWindow
        /\ created = NTasks /\ current_thread = cpu /\ cpu \in Thread
        /\ stack[cpu] = Empty
    BY PastBoot DEF TypeOK, BootInv, CpuInv, WindowInv, BootPoint, MainPoint, YieldWindow
  <2>2. /\ ~ interrupts /\ handler' = "none" /\ isr' = {}
        /\ UNCHANGED <<next_thread, created, shellVars, regs, irr>>
    BY DEF TimerHandler, pic_acknowledge, TypeOK, CpuInv
  <2> QED
    BY <2>1, <2>2
<1>2. /\ n \in Thread /\ n # cpu /\ stack[n] \in Image
      /\ esp[n] = [stack |-> n, image |-> stack[n]]
      /\ \/ /\ stack[n].base = "none"
            /\ stack[n].irq \in IF n = Main THEN {"idleHlt"} ELSE TaskPoint \ YieldWindow
         \/ n # Main /\ stack[n].base # "none" /\ stack[n].irq = "none"
  BY <1>1, SuccessorSuspended
<1>3. [stack[cpu] EXCEPT !.irq = eip] = saved
  BY <1>1 DEF Empty
<1>4. /\ current_thread' = n
      /\ esp' = [esp EXCEPT ![cpu] = [stack |-> cpu, image |-> saved]]
      /\ Restore(esp[n], held)
  BY <1>1, <1>3 DEF TimerHandler, InterruptYield
<1>5. held[n] = stack[n]
  BY <1>1, <1>2 DEF TypeOK
<1>6. Restorable(esp[n], held)
  BY <1>2, <1>5 DEF Restorable, Empty, TaskPoint, YieldWindow
<1>7. /\ cpu' = n
      /\ \/ /\ stack[n].irq # "none"
            /\ eip' = stack[n].irq
            /\ stack' = [held EXCEPT ![n] = [base |-> stack[n].base, irq |-> "none"]]
            /\ interrupts' = TRUE
         \/ /\ stack[n].irq = "none"
            /\ eip' = "sti"
            /\ stack' = [held EXCEPT ![n] = Empty]
            /\ interrupts' = interrupts
  BY <1>2, <1>4, <1>6 DEF Restore, RestoreInterrupted, RestoreYielded, RestoreBroken, Goto
<1>8. /\ eip' \in IF n = Main THEN {"idleHlt"} ELSE TaskPoint \ YieldWindow
      /\ stack' = [held EXCEPT ![n] = Empty]
      /\ interrupts' \in BOOLEAN /\ (n = Main => interrupts')
  BY <1>1, <1>2, <1>7 DEF Empty, TaskPoint, YieldWindow, TypeOK
<1>9. eip' = ResumePoint(stack[n])
  BY <1>2, <1>7, <1>8 DEF ResumePoint, Visible, TaskPoint, YieldWindow
<1> QED
  BY <1>1, <1>2, <1>4, <1>7, <1>8, <1>9

LEMMA TimerHandlerStep == IInv /\ TimerHandler => IInv'
<1> SUFFICES ASSUME IInv, TimerHandler PROVE IInv'
  OBVIOUS
<1> USE DEF IInv, shellVars
<1>1. CASE ~ matrix_active
  <2>1. /\ handler = "timer" /\ ~ interrupts /\ handler' = "none" /\ isr' = {}
        /\ interrupts' = TRUE
        /\ UNCHANGED <<queueVars, shellVars, regs, irr, cpu, eip, stack>>
    BY <1>1 DEF TimerHandler, Iret, pic_acknowledge, TypeOK, CpuInv, queueVars
  <2>2. TypeOK' /\ BootInv' /\ RingInv'
    BY <2>1 DEF TypeOK, BootInv, RingInv, queueVars
  <2>3. CpuInv' /\ WindowInv' /\ SuspendedInv'
    BY <2>1 DEF CpuInv, WindowInv, SuspendedInv, Linked, queueVars
  <2> QED
    BY <2>2, <2>3
<1>2. CASE matrix_active
  <2> DEFINE n     == next_thread[cpu]
             saved == [base |-> "none", irq |-> eip]
  <2>1. TypeOK'
    <3>1. saved \in Image /\ [stack |-> cpu, image |-> saved] \in Pointer /\ Empty \in Image
      BY <1>2, PreemptionEffect, RecordTypes DEF Point, MainPoint, TaskPoint, YieldWindow
    <3>2. eip' \in Point
      BY <1>2, PreemptionEffect DEF Point, MainPoint, TaskPoint, YieldWindow
    <3>3. n \in Thread /\ cpu \in Thread
      BY <1>2, PreemptionEffect
    <3>4. /\ esp' \in [Thread -> Pointer] /\ stack' \in [Thread -> Image]
          /\ cpu' \in Thread /\ current_thread' \in Thread /\ interrupts' \in BOOLEAN
      <4>1. /\ esp' = [esp EXCEPT ![cpu] = [stack |-> cpu, image |-> saved]]
            /\ stack' = [stack EXCEPT ![cpu] = saved, ![n] = Empty]
            /\ cpu' = n /\ current_thread' = n /\ interrupts' \in BOOLEAN
        BY <1>2, PreemptionEffect
      <4>2. esp' \in [Thread -> Pointer]
        BY <3>1, <4>1 DEF TypeOK
      <4>3. stack' \in [Thread -> Image]
        BY <3>1, <4>1 DEF TypeOK
      <4> QED
        BY <3>3, <4>1, <4>2, <4>3
    <3>5. handler' = "none" /\ isr' = {} /\ UNCHANGED <<next_thread, created, matrix_active,
                                                         shell_active, regs, irr>>
      BY <1>2, PreemptionEffect
    <3> QED
      BY <3>2, <3>4, <3>5 DEF TypeOK
  <2>2. BootInv'
    BY <1>2, PreemptionEffect
       DEF BootInv, BootPoint, PreQueue, MainPoint, TaskPoint, YieldWindow
  <2>3. RingInv'
    BY <1>2, PreemptionEffect DEF RingInv
  <2>4. CpuInv'
    BY <1>2, PreemptionEffect DEF CpuInv, TypeOK, MainPoint, TaskPoint, YieldWindow
  <2>5. WindowInv'
    BY <1>2, PreemptionEffect DEF WindowInv, YieldWindow
  <2>6. SuspendedInv'
    <3> SUFFICES ASSUME NEW t \in Linked', t # cpu'
                 PROVE  /\ esp'[t] = [stack |-> t, image |-> stack'[t]]
                        /\ \/ /\ stack'[t].base = "none"
                              /\ stack'[t].irq \in IF t = Main THEN {"idleHlt"}
                                                   ELSE TaskPoint \ YieldWindow
                           \/ t # Main /\ stack'[t].base # "none" /\ stack'[t].irq = "none"
      BY DEF SuspendedInv
    <3>1. t \in Linked /\ t \in Thread /\ t # n
      BY <1>2, PreemptionEffect DEF Linked, TypeOK
    <3>2. CASE t = cpu
      <4>1. /\ cpu \in Thread /\ n # cpu
            /\ eip \in IF cpu = Main THEN {"idleHlt"} ELSE TaskPoint \ YieldWindow
            /\ esp' = [esp EXCEPT ![cpu] = [stack |-> cpu, image |-> saved]]
            /\ stack' = [stack EXCEPT ![cpu] = saved, ![n] = Empty]
        BY <1>2, PreemptionEffect
      <4>2. stack'[cpu] = saved /\ esp'[cpu] = [stack |-> cpu, image |-> saved]
        BY <4>1 DEF TypeOK
      <4> QED
        BY <3>2, <4>1, <4>2
    <3>3. CASE t # cpu
      BY <1>2, PreemptionEffect, <3>1, <3>3 DEF TypeOK, SuspendedInv
    <3> QED
      BY <3>2, <3>3
  <2> QED
    BY <2>1, <2>2, <2>3, <2>4, <2>5, <2>6
<1> QED
  BY <1>1, <1>2

LEMMA StutterStep == IInv /\ UNCHANGED vars => IInv'
  BY DEF IInv, TypeOK, BootInv, RingInv, CpuInv, WindowInv, SuspendedInv, Linked,
         vars, queueVars, shellVars, cpuVars, picVars

-----------------------------------------------------------------------------
LEMMA NextIInv ==
  ASSUME SlowTyping, IInv, [Next]_vars PROVE IInv'
<1>1. CASE kmain
  BY <1>1, LockScreenStep, MountStep, init_threadsStep, create_threadStep,
     publish_threadStep, init_timerStep DEF kmain
<1>2. ASSUME NEW t \in Task, task(t) PROVE IInv'
  BY <1>2, TaskLoopStep, YieldPickStep,
     YieldFetchStep, YieldPublishStep, SwitchSaveStep, SwitchLoadStep DEF task, thread_yield
<1>3. ASSUME NEW i \in IRQ, Raise(i) \/ Interrupt(i) PROVE IInv'
  BY <1>3, RaiseStep, InterruptStep
<1>4. CASE TimerHandler
  BY <1>4, TimerHandlerStep
<1>5. ASSUME NEW key \in Key, KeyboardHandler(key) PROVE IInv'
  BY <1>5, KeyboardHandlerStep
<1>6. CASE UNCHANGED vars
  BY <1>6, StutterStep
<1> QED
  BY <1>1, <1>2, <1>3, <1>4, <1>5, <1>6 DEF Next

(* The invariant holds for any number of threads.                          *)
THEOREM Invariance == ASSUME SlowTyping PROVE Spec => []IInv
  BY InitIInv, NextIInv, PTL DEF Spec

(* Every variable keeps a value of the program.                            *)
THEOREM TypeCorrect == ASSUME SlowTyping PROVE Spec => []TypeOK
<1>1. IInv => TypeOK
  BY DEF IInv
<1> QED
  BY <1>1, Invariance, PTL

(* thread.c, switch_task.s: the saved esp of every thread that waits is    *)
(* the one context suspended on its own stack, however many threads there  *)
(* are and wherever the timer strikes.                                     *)
THEOREM ContextsSurvive == ASSUME SlowTyping PROVE Spec => []ContextIntegrity
<1>1. IInv => ContextIntegrity
  BY DEF IInv, SuspendedInv, ContextIntegrity, Linked, TaskPoint, YieldWindow
<1> QED
  BY <1>1, Invariance, PTL

(* switch_task always finds a saved context, and the timer handler never   *)
(* yields before there is a current thread.                                *)
THEOREM NeverCrashes == ASSUME SlowTyping PROVE Spec => []NoCrash
<1>1. IInv => NoCrash
  BY DEF IInv, CpuInv, NoCrash, MainPoint, TaskPoint, YieldWindow
<1> QED
  BY <1>1, Invariance, PTL

(* kmain never executes hlt with interrupts off.                           *)
THEOREM HaltHearsInterrupts == ASSUME SlowTyping PROVE Spec => []NeverSleepsDeaf
<1>1. IInv => NeverSleepsDeaf
  BY DEF IInv, CpuInv, NeverSleepsDeaf, Halted, MainPoint, TaskPoint, YieldWindow
<1> QED
  BY <1>1, Invariance, PTL

-----------------------------------------------------------------------------
(* The scheduler implements the promise.                                   *)

LEMMA InitRefines == Init => Promise!Init
  BY DEF Init, Promise!Init, PlaceOf, Promise!Thread, Visible, YieldWindow

(* A step that leaves the CPU where it is moves the running thread alone.  *)
LEMMA LocalStep ==
  ASSUME IInv, IInv', cpu' = cpu,
         \A t \in Thread : t # cpu => PlaceOf'[t] = PlaceOf[t]
  PROVE  \E p \in Point \ YieldWindow : PlaceOf' = [PlaceOf EXCEPT ![cpu] = p]
<1>1. Visible(eip)' \in Point \ YieldWindow
  BY DEF IInv, CpuInv, Visible, Point, MainPoint, TaskPoint, YieldWindow
<1>2. PlaceOf'[cpu] = Visible(eip)'
  BY DEF IInv, TypeOK, PlaceOf
<1>3. PlaceOf' = [PlaceOf EXCEPT ![cpu] = Visible(eip)']
  BY <1>2 DEF PlaceOf
<1> QED
  BY <1>1, <1>3

LEMMA RunStep ==
  ASSUME IInv, IInv', cpu' = cpu, created' = created,
         \A t \in Thread : t # cpu /\ t <= created => stack'[t] = stack[t]
  PROVE  Promise!Next
<1>1. \A t \in Thread : t # cpu => PlaceOf'[t] = PlaceOf[t]
  BY DEF PlaceOf, ResumePoint, IInv, TypeOK
<1> QED
  BY <1>1, LocalStep DEF Promise!Next, Promise!Run

LEMMA SpawnStep ==
  ASSUME IInv, IInv', publish_thread
  PROVE  Promise!Next
<1>1. cpu = Main /\ created < NTasks /\ created \in Nat /\ eip = "publish"
  BY DEF publish_thread, At, IInv, BootInv, TypeOK
<1>2. created' = created + 1 /\ UNCHANGED <<cpu, stack>>
  BY DEF publish_thread
<1>3. stack[created + 1].irq = "none"
  BY <1>1 DEF IInv, BootInv
<1>4. \A t \in Thread : t # cpu => PlaceOf'[t] = PlaceOf[t]
  BY <1>1, <1>2, <1>3 DEF PlaceOf, ResumePoint
<1> QED
  BY <1>1, <1>2, <1>4, LocalStep DEF Promise!Next, Promise!Spawn

LEMMA HandOverStep ==
  ASSUME IInv, IInv', created = NTasks, UNCHANGED created, current_thread # NULL,
         cpu' = next_thread[cpu],
         \A t \in Thread : t \notin {cpu, cpu'} => stack'[t] = stack[t],
         ResumePoint(stack'[cpu]) = Visible(eip),
         Visible(eip)' = ResumePoint(stack[cpu'])
  PROVE  Promise!Next
<1>1. cpu' # cpu /\ cpu \in Thread /\ cpu' \in Thread
  BY SuccessorSuspended DEF IInv, TypeOK
<1>2. UNCHANGED PlaceOf
  <2>1. PlaceOf'[cpu] = PlaceOf[cpu]
    BY <1>1 DEF PlaceOf, IInv, TypeOK
  <2>2. PlaceOf'[cpu'] = PlaceOf[cpu']
    BY <1>1 DEF PlaceOf, IInv, TypeOK
  <2>3. \A t \in Thread : t \notin {cpu, cpu'} => PlaceOf'[t] = PlaceOf[t]
    BY <1>1 DEF PlaceOf
  <2> QED
    BY <2>1, <2>2, <2>3 DEF PlaceOf
<1>3. cpu' = Promise!Successor(cpu)
  BY DEF IInv, RingInv, TypeOK, Promise!Successor
<1> QED
  BY <1>2, <1>3 DEF Promise!Next, Promise!HandOver

LEMMA SwitchLoadHandsOver ==
  ASSUME NEW t \in Task, IInv, IInv', SwitchLoad(t) PROVE Promise!Next
<1> DEFINE n == next_thread[t]
<1>1. /\ created = NTasks /\ UNCHANGED created /\ current_thread # NULL
      /\ cpu = t /\ cpu' = n /\ n # t /\ n \in Thread /\ t \in Thread
      /\ stack' = [stack EXCEPT ![n] = Empty]
  BY SwitchLoadEffect DEF queueVars
<1>2. ResumePoint(stack'[t]) = Visible(eip)
  <2>1. eip = "saved" /\ stack[t] = [base |-> "yield", irq |-> "none"]
    BY SwitchLoadEffect
  <2>2. stack'[t] = stack[t]
    BY <1>1 DEF IInv, TypeOK
  <2> QED
    BY <2>1, <2>2 DEF ResumePoint, Visible, YieldWindow
<1>3. Visible(eip)' = ResumePoint(stack[n])
  <2>1. /\ eip' = ResumePoint(stack[n])
        /\ eip' \in IF n = Main THEN {"idleHlt"} ELSE TaskPoint \ YieldWindow
    BY SwitchLoadEffect
  <2>2. eip' \notin YieldWindow
    BY <2>1 DEF YieldWindow
  <2> QED
    BY <2>1, <2>2 DEF Visible
<1> QED
  BY <1>1, <1>2, <1>3, HandOverStep DEF IInv, TypeOK

LEMMA PreemptionHandsOver ==
  ASSUME IInv, IInv', TimerHandler, matrix_active PROVE Promise!Next
<1> DEFINE n == next_thread[cpu]
<1>1. /\ created = NTasks /\ UNCHANGED created /\ current_thread # NULL
      /\ cpu' = n /\ n # cpu /\ n \in Thread /\ cpu \in Thread
      /\ stack' = [stack EXCEPT ![cpu] = [base |-> "none", irq |-> eip], ![n] = Empty]
  BY PreemptionEffect
<1>2. ResumePoint(stack'[cpu]) = Visible(eip) /\ Visible(eip)' = ResumePoint(stack[n])
  BY <1>1, PreemptionEffect DEF ResumePoint, Visible, IInv, TypeOK, MainPoint, TaskPoint, YieldWindow
<1> QED
  BY <1>1, <1>2, HandOverStep DEF IInv, TypeOK

LEMMA NextRefines ==
  ASSUME SlowTyping, IInv, IInv', [Next]_vars PROVE [Promise!Next]_(Promise!vars)
<1> USE DEF queueVars, shellVars, cpuVars, picVars, At
<1>1. CASE kmain
  <2>1. CASE publish_thread
    BY <2>1, SpawnStep
  <2>2. CASE create_thread
    <3>1. \A t \in Thread : t # cpu /\ t <= created => stack'[t] = stack[t]
      BY <2>2 DEF create_thread, IInv, TypeOK
    <3> QED
      BY <2>2, <3>1, RunStep DEF create_thread
  <2>3. CASE LockScreen \/ Mount \/ init_threads \/ init_timer
    BY <2>3, RunStep DEF LockScreen, Mount, init_threads, init_timer
  <2> QED
    BY <1>1, <2>1, <2>2, <2>3 DEF kmain
<1>2. ASSUME NEW t \in Task, task(t) PROVE Promise!Next
  <2>1. CASE SwitchLoad(t)
    BY <2>1, SwitchLoadHandsOver
  <2>2. CASE TaskSti(t) \/ TaskTest(t) \/ TaskPrint(t) \/ TaskDelay(t)
    BY <2>2, RunStep DEF TaskSti, TaskTest, TaskPrint, TaskDelay
  <2>3. CASE YieldPick(t) \/ YieldFetch(t) \/ YieldPublish(t)
    BY <2>3, RunStep DEF YieldPick, YieldFetch, YieldPublish
  <2>4. CASE SwitchSave(t)
    <3>1. \A u \in Thread : u # cpu => stack'[u] = stack[u]
      BY <2>4 DEF SwitchSave, IInv, TypeOK
    <3> QED
      BY <2>4, <3>1, RunStep DEF SwitchSave
  <2> QED
    BY <1>2, <2>1, <2>2, <2>3, <2>4 DEF task, thread_yield
<1>3. ASSUME NEW i \in IRQ, Raise(i) \/ Interrupt(i) PROVE Promise!Next
  BY <1>3, RunStep DEF Raise, Interrupt
<1>4. CASE TimerHandler
  <2>1. CASE matrix_active
    BY <1>4, <2>1, PreemptionHandsOver
  <2>2. CASE ~ matrix_active
    BY <1>4, <2>2, RunStep DEF TimerHandler, Iret
  <2> QED
    BY <2>1, <2>2
<1>5. ASSUME NEW key \in Key, KeyboardHandler(key) PROVE Promise!Next
  BY <1>5, RunStep DEF KeyboardHandler, Iret
<1>6. CASE UNCHANGED vars
  BY <1>6 DEF vars, Promise!vars, PlaceOf, ResumePoint
<1> QED
  BY <1>1, <1>2, <1>3, <1>4, <1>5, <1>6 DEF Next

(* thread.c's circular queue with its two ways of switching, voluntary and *)
(* from the timer, is the circle README.md promises: the CPU goes round in *)
(* order, and every thread goes on from exactly where it lost the CPU.     *)
THEOREM Refinement == ASSUME SlowTyping PROVE Spec => ImplementsRoundRobin
<1>1. IInv /\ IInv' /\ [Next]_vars => [Promise!Next]_(Promise!vars)
  BY NextRefines
<1> QED
  BY <1>1, Invariance, InitRefines, PTL DEF Spec, ImplementsRoundRobin, Promise!Spec
=============================================================================
