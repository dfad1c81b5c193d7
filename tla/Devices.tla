------------------------------ MODULE Devices -------------------------------
(***************************************************************************)
(* kmain programs the machine: the UART, the table of gates, the two       *)
(* 8259s, the 8254; then it hears interrupts.  A device is a state machine *)
(* that an outb moves, and its registers mean different things in          *)
(* different states; all of them run on while the CPU does.                *)
(*                                                                         *)
(* The CPU's code is data here, a sequence of instructions, and the        *)
(* actions are what the instructions do to the devices.  What the keyboard *)
(* handler does with a key, and the show, are Terminal's and Scheduler's.  *)
(* BootMemory has what the same kmain does with the memory.                *)
(***************************************************************************)
EXTENDS Naturals, Sequences, SequencesExt, FiniteSetsExt

CONSTANTS
  Lines,        (* The lines of the 8259s that may rise, the keyboard's    *)
                (* apart: 0 .. 7 on the first, 8 .. 15 on the second.      *)
  EarlyKeys,    (* Whether a key may come before pic_init.                 *)
  FirmwareDlm,  (* What the firmware may have left in the high divisor.    *)
  FIFO,         (* The room in the UART's transmit queue: 16.              *)
  Greeting,     (* What kmain prints to the port: characters and newlines, *)
                (* no code that putchar takes for a colour.                *)
  Frequency     (* init_timer's argument: 100.                             *)

ASSUME DevicesAssumption ==
  /\ Lines \subseteq (0 .. 15) \ {1} /\ EarlyKeys \in BOOLEAN
  /\ FirmwareDlm \subseteq 0 .. 255 /\ FIFO \in Nat \ {0}
  /\ Greeting \in Seq(1 .. 255) /\ Frequency \in Nat \ {0}
  /\ \A k \in 1 .. Len(Greeting) : Greeting[k] = 10 \/ Greeting[k] > 15

VARIABLES
  pc,           (* Where kmain is ...                                      *)
  handler,      (* ... and what a handler that has interrupted it has yet  *)
                (* to do.                                                  *)
  intf,         (* The CPU's IF.                                           *)
  up,           (* FALSE when an interrupt had no gate: triple fault.      *)
  tables,       (* Which of lgdt and lidt the CPU has done.                *)
  idt,          (* The vectors that have a gate.                           *)
  uart, line,   (* COM1's registers, and what has left it.                 *)
  pic,          (* The two 8259s.                                          *)
  pit,          (* Channel 0 of the 8254.                                  *)
  full,         (* The keyboard controller's output buffer; its line 1 is  *)
                (* high as long as it is full.                             *)
  shell_active

cpu     == <<pc, handler, intf>>
cpuTabs == <<up, tables, idt>>
serial  == <<uart, line>>
kbd     == <<full, shell_active>>
machine == <<cpu, cpuTabs, serial, pic, pit, kbd>>

Do(op)       == <<op, 0, 0>>
Out(port, v) == <<"out", port, v>>
In(port)     == <<"in", port, 0>>
Gate(n)      == <<"gate", n, 0>>

-----------------------------------------------------------------------------
(* The code.                                                               *)

DATA          == 1016               (* COM1                           *)
FIFO_COMMAND  == DATA + 2
LINE_COMMAND  == DATA + 3
MODEM_COMMAND == DATA + 4

(* Mutant: the low byte is sent first.                                     *)
LowByteFirst(divisor) ==
  <<Out(LINE_COMMAND, 128), Out(DATA, divisor % 256), Out(DATA, (divisor \div 256) % 256)>>

serial_configure_baud_rate(divisor) ==
  <<Out(LINE_COMMAND, 128), Out(DATA, (divisor \div 256) % 256), Out(DATA, divisor % 256)>>

serial_configure_line    == <<Out(LINE_COMMAND, 3)>>
serial_configure_modem   == <<Out(MODEM_COMMAND, 11)>>
serial_configure_buffers == <<Out(FIFO_COMMAND, 199)>>

serial_init == serial_configure_baud_rate(3) \o serial_configure_line
               \o serial_configure_modem \o serial_configure_buffers

serial_write_char(c) == <<Do("wait"), Out(DATA, c)>>

(* printf gives the characters to putchar, one by one.                     *)
printf(str) ==
  [k \in 1 .. 2 * Len(str) |-> serial_write_char(str[(k + 1) \div 2])[2 - (k % 2)]]

init_idt == <<Gate(32), Gate(33), Gate(128), Do("lidt")>>

COMMAND(p)  == IF p = 1 THEN 32 ELSE 160
DATAPORT(p) == COMMAND(p) + 1
PIC1_START == 32
PIC2_START == 40
PIC2_END   == 47
PIC_ACK    == 32

(* Mutant: the wiring is sent where the offset is expected.                *)
WiringFirst ==
  <<Out(COMMAND(1), 17), Out(COMMAND(2), 17), Out(DATAPORT(1), 4), Out(DATAPORT(2), 2),
    Out(DATAPORT(1), PIC1_START), Out(DATAPORT(2), PIC2_START), Out(DATAPORT(1), 1), Out(DATAPORT(2), 1)>>

pic_init ==
  <<Out(COMMAND(1), 17), Out(COMMAND(2), 17),
    Out(DATAPORT(1), PIC1_START), Out(DATAPORT(2), PIC2_START),
    Out(DATAPORT(1), 4), Out(DATAPORT(2), 2), Out(DATAPORT(1), 1), Out(DATAPORT(2), 1)>>

(* Mutant: the comparison is off by one.                                   *)
AckNotTheFirst(n) ==
  IF n <= PIC1_START \/ n > PIC2_END THEN <<>>
  ELSE (IF n >= PIC2_START THEN <<Out(COMMAND(2), PIC_ACK)>> ELSE <<>>)
       \o <<Out(COMMAND(1), PIC_ACK)>>

pic_acknowledge(n) ==
  IF n < PIC1_START \/ n > PIC2_END THEN <<>>
  ELSE (IF n >= PIC2_START THEN <<Out(COMMAND(2), PIC_ACK)>> ELSE <<>>)
       \o <<Out(COMMAND(1), PIC_ACK)>>

keyboard_handler == <<In(96)>>

(* matrix_active is clear: Scheduler has the rest.                         *)
interrupt_handler(n) ==
  (IF n = 33 THEN keyboard_handler ELSE <<>>) \o pic_acknowledge(n) \o <<Do("iret")>>

set_pit_count(count) ==
  <<Do("cli"), Out(67, 54), Out(64, count % 256), Out(64, (count \div 256) % 256), Do("sti")>>

init_timer(frequency) == set_pit_count(1193180 \div frequency)

(* Mutant: interrupts are heard before there is a table of gates.          *)
HeardTooEarly ==
  <<Do("lgdt")>> \o serial_init \o <<Do("sti")>> \o init_idt \o pic_init
  \o printf(Greeting) \o <<Do("locked")>> \o init_timer(Frequency)

kmain ==
  <<Do("lgdt")>> \o serial_init \o init_idt \o pic_init
  \o printf(Greeting) \o <<Do("sti"), Do("locked")>> \o init_timer(Frequency)

-----------------------------------------------------------------------------
(* What the firmware leaves: a UART that may be in the middle of a change  *)
(* of its speed, the 8259s at their old vectors, a timer that ticks.       *)
DevicesInit ==
  /\ pc = 1 /\ handler = <<>> /\ intf = FALSE
  /\ up = TRUE /\ tables = {} /\ idt = {}
  /\ \E dlm \in FirmwareDlm, dlab \in BOOLEAN :
       uart = [dlab |-> dlab, dll |-> 12, dlm |-> dlm, queue |-> <<>>]
  /\ line = <<>>
  /\ pic = [p \in {1, 2} |-> [next |-> "firmware", base |-> IF p = 1 THEN 8 ELSE 112, wired |-> 0,
                              imr |-> {}, irr |-> {}, isr |-> {}]]
  /\ pit = [byte |-> "low", low |-> 0, count |-> 0]
  /\ full = FALSE /\ shell_active = FALSE

(* The instruction the CPU is at.                                          *)
Current == IF handler # <<>> THEN Head(handler) ELSE kmain[pc]

Is(op) == up /\ (handler # <<>> \/ pc <= Len(kmain)) /\ Current[1] = op

Advance == IF handler # <<>> THEN handler' = Tail(handler) /\ UNCHANGED pc
                             ELSE pc' = pc + 1 /\ UNCHANGED handler

(* lgdt and lidt.                                                          *)
LoadTable ==
  /\ \E t \in {"lgdt", "lidt"} : Is(t) /\ tables' = tables \union {t}
  /\ Advance
  /\ UNCHANGED <<intf, up, idt, serial, pic, pit, kbd>>

set_idt_gate ==
  /\ Is("gate") /\ Advance
  /\ idt' = idt \union {Current[2]}
  /\ UNCHANGED <<intf, up, tables, serial, pic, pit, kbd>>

SetInterruptFlag ==
  /\ \/ Is("cli") /\ intf' = FALSE
     \/ (Is("sti") \/ Is("iret")) /\ intf' = TRUE
  /\ Advance
  /\ UNCHANGED <<cpuTabs, serial, pic, pit, kbd>>

(* The lock screen's hlt, until the keyboard handler has seen Enter.       *)
LeaveLockScreen ==
  /\ Is("locked") /\ shell_active /\ Advance
  /\ UNCHANGED <<intf, cpuTabs, serial, pic, pit, kbd>>

(* Mutant: the test is the wrong way round.                                *)
WaitUntilFull == Is("wait") /\ uart.queue # <<>>

(* Mutant: another bit of the line status is tested.                       *)
NoWait == Is("wait")

(* The line status says that the transmit queue is empty.                  *)
serial_is_transmit_fifo_empty == Is("wait") /\ uart.queue = <<>>

EndOfWait ==
  /\ serial_is_transmit_fifo_empty /\ Advance
  /\ UNCHANGED <<intf, cpuTabs, serial, pic, pit, kbd>>

IsOut(port) == Is("out") /\ Current[2] = port /\ Advance
Operand     == Current[3]

(* With DLAB the data port is the low byte of the divisor.  A character    *)
(* for which the queue has no room is lost.                                *)
UartWrite ==
  /\ \/ IsOut(LINE_COMMAND) /\ uart' = [uart EXCEPT !.dlab = Operand >= 128]
     \/ IsOut(MODEM_COMMAND) /\ UNCHANGED uart
     \/ IsOut(FIFO_COMMAND) /\ uart' = [uart EXCEPT !.queue = <<>>]
     \/ IsOut(DATA) /\ uart' = IF uart.dlab THEN [uart EXCEPT !.dll = Operand]
                               ELSE IF Len(uart.queue) = FIFO THEN uart
                               ELSE [uart EXCEPT !.queue = Append(@, Operand)]
  /\ UNCHANGED <<intf, cpuTabs, line, pic, pit, kbd>>

PicCommand(p) ==
  /\ IsOut(COMMAND(p))
  /\ pic' = IF (Operand \div 16) % 2 = 1
            THEN [pic EXCEPT ![p].next = "icw2", ![p].imr = {}, ![p].irr = {}, ![p].isr = {}]
            ELSE [pic EXCEPT ![p].isr = IF @ = {} THEN {} ELSE @ \ {Min(@)}]
  /\ UNCHANGED <<intf, cpuTabs, serial, pit, kbd>>

PicData(p) ==
  /\ IsOut(DATAPORT(p))
  /\ pic' = CASE pic[p].next = "icw2" -> [pic EXCEPT ![p].next = "icw3", ![p].base = Operand]
              [] pic[p].next = "icw3" -> [pic EXCEPT ![p].next = "icw4", ![p].wired = Operand]
              [] pic[p].next = "icw4" -> [pic EXCEPT ![p].next = "ready"]
              [] OTHER -> [pic EXCEPT ![p].imr = {i \in 0 .. 7 : (Operand \div 2^i) % 2 = 1}]
  /\ UNCHANGED <<intf, cpuTabs, serial, pit, kbd>>

PitWrite ==
  /\ \/ IsOut(67) /\ pit' = [pit EXCEPT !.byte = "low"]
     \/ IsOut(64) /\ pit' = IF pit.byte = "low"
                            THEN [pit EXCEPT !.low = Operand, !.byte = "high"]
                            ELSE [pit EXCEPT !.count = 256 * Operand + pit.low, !.byte = "low"]
  /\ UNCHANGED <<intf, cpuTabs, serial, pic, kbd>>

(* The key may be Enter.                                                   *)
read_scan_code ==
  /\ Is("in") /\ Advance
  /\ full' = FALSE
  /\ shell_active' \in {shell_active, TRUE}
  /\ UNCHANGED <<intf, cpuTabs, serial, pic, pit>>

-----------------------------------------------------------------------------
(* The devices.                                                            *)

UartSend ==
  /\ up /\ uart.queue # <<>>
  /\ line' = Append(line, Head(uart.queue))
  /\ uart' = [uart EXCEPT !.queue = Tail(@)]
  /\ UNCHANGED <<cpu, cpuTabs, pic, pit, kbd>>

RaiseLine(p, i) == pic' = [pic EXCEPT ![p].irr = @ \union {i}]

Raise(i) ==
  /\ up /\ RaiseLine(1 + i \div 8, i % 8)
  /\ UNCHANGED <<cpu, cpuTabs, serial, pit, kbd>>

(* Line 1 goes up; a line that stays up is not requested again.            *)
Press ==
  /\ up /\ ~ full
  /\ EarlyKeys \/ pic[1].next # "firmware"
  /\ full' = TRUE
  /\ RaiseLine(1, 1)
  /\ UNCHANGED <<cpu, cpuTabs, serial, pit, shell_active>>

(* The lines that ask for the CPU; the second 8259 asks through line 2.    *)
Open(p, irr) == {i \in irr \ pic[p].imr : \A j \in pic[p].isr : i < j}
Second       == Open(2, pic[2].irr)
First        == Open(1, pic[1].irr \union IF Second = {} THEN {} ELSE {2})

Between == intf /\ handler = <<>>

(* The CPU takes an interrupt between two instructions.                    *)
Interrupt(i) ==
  /\ up /\ Between /\ First # {} /\ i = Min(First)
  /\ LET slave  == i = 2 /\ Second # {} /\ pic[1].wired = 4 /\ pic[2].wired = 2
         j      == Min(Second)
         vector == IF slave THEN pic[2].base + j ELSE pic[1].base + i
     IN  /\ pic' = IF slave
                   THEN [pic EXCEPT ![1].isr = @ \union {2}, ![2].isr = @ \union {j},
                                    ![2].irr = @ \ {j}]
                   ELSE [pic EXCEPT ![1].isr = @ \union {i}, ![1].irr = @ \ {i}]
         /\ IF vector \in idt /\ tables = {"lgdt", "lidt"}
            THEN handler' = interrupt_handler(vector) /\ intf' = FALSE /\ UNCHANGED up
            ELSE up' = FALSE /\ UNCHANGED <<handler, intf>>
  /\ UNCHANGED <<pc, tables, idt, serial, pit, kbd>>

Step == \/ LoadTable \/ set_idt_gate \/ SetInterruptFlag \/ LeaveLockScreen \/ EndOfWait
        \/ UartWrite \/ PitWrite \/ read_scan_code
        \/ \E p \in {1, 2} : PicCommand(p) \/ PicData(p)

DevicesNext == Step \/ UartSend \/ Press \/ (\E i \in Lines : Raise(i)) \/ \E i \in 0 .. 7 : Interrupt(i)

(* The CPU runs, the UART sends.  A handler is shorter than the timer's    *)
(* period: if the CPU is out of handlers again and again, then again and   *)
(* again with no tick waiting.                                             *)
SlowTimer == []<>(Between /\ 0 \notin pic[1].irr) \/ <>[](~ Between)

Fairness == /\ WF_machine(Step) /\ WF_machine(UartSend)
            /\ \A i \in 0 .. 7 : SF_machine(Interrupt(i))
            /\ SlowTimer

DevicesSpec == DevicesInit /\ [][DevicesNext]_machine /\ Fairness

-----------------------------------------------------------------------------
CpuTypeOK ==
  /\ pc \in 1 .. Len(kmain) + 1
  /\ Len(handler) <= 3 /\ intf \in BOOLEAN /\ up \in BOOLEAN
  /\ tables \subseteq {"lgdt", "lidt"} /\ idt \subseteq {32, 33, 128}

Registers    == [dlab : BOOLEAN, dll : 0 .. 255, dlm : 0 .. 255, queue : Seq(1 .. 255)]
SerialTypeOK ==
  /\ uart \in Registers
  /\ Len(uart.queue) <= FIFO /\ line \in Seq(1 .. 255)

Controller ==
  [next : {"firmware", "icw2", "icw3", "icw4", "ready"},
   base : {8, PIC1_START, 112, PIC2_START}, wired : {0, 4, 2},
   imr : SUBSET (0 .. 7), irr : SUBSET (0 .. 7), isr : SUBSET (0 .. 7)]
PicTypeOK ==
  /\ pic \in [{1, 2} -> Controller]
  /\ pic[1].base \in {8, PIC1_START} /\ pic[2].base \in {112, PIC2_START}
  /\ pic[1].wired \in {0, 4} /\ pic[2].wired \in {0, 2}

MaxCount  == 65535
Channel   == [byte : {"low", "high"}, low : 0 .. 255, count : 0 .. MaxCount]
PitTypeOK == pit \in Channel

DevicesTypeOK ==
  /\ CpuTypeOK /\ SerialTypeOK /\ PicTypeOK /\ PitTypeOK
  /\ full \in BOOLEAN /\ shell_active \in BOOLEAN

(* pic.c:13-14: an interrupt at a vector without a handler of ours is      *)
(* fatal.  Ticks and keys come all through the boot, and none is heard     *)
(* before the 8259s, the gates and the segments of kmain.c:39-47 stand.    *)
EveryInterruptHasAGate == up

(* serial.c:102-114: what has left the port and what waits in it is the    *)
(* beginning of the greeting, and all of it when kmain has no character    *)
(* left to write, however slow the line is.                                *)
SerialInOrder ==
  LET sent == line \o uart.queue
  IN  /\ IsPrefix(sent, Greeting)
      /\ (\A k \in pc .. Len(kmain) : kmain[k][1] = "out" => kmain[k][2] # DATA)
           => sent = Greeting

(* serial.c:90-96: 38400 baud, a divisor of 3 for 115200, from the first   *)
(* character to the last.                                                  *)
LineSpeed == uart.queue # <<>> => 256 * uart.dlm + uart.dll = 3

(* timer.c:20-23: when init_timer has returned, the timer counts the       *)
(* oscillator's rate divided by the frequency asked for.                   *)
TimerRate == pc > Len(kmain) => pit.count = 1193180 \div Frequency

(* Both devices that are given a rate byte by byte run at it.              *)
RightRates == LineSpeed /\ TimerRate

(* serial.c:103: the busy wait of kmain, with interrupts still off, ends.  *)
GreetingSent == <>(line = Greeting)

(* kmain.c:106-109: the lock screen and the shell live from keys; each key *)
(* that the first 8259 has heard since its ICW1 is read, and so there is   *)
(* room for the next.  It may have come at any later moment: before the    *)
(* vectors, the greeting or the sti, under a tick or in a handler.         *)
KeysRead == (full /\ pic[1].next # "firmware" /\ 1 \in pic[1].irr) ~> ~ full

(* The same of every key, at whatever moment of the boot.  The ICW1 clears *)
(* the request of one that has come before, pic_init never reads port 96,  *)
(* and the line of a full buffer does not rise again.                      *)
EveryKeyRead == full ~> ~ full
=============================================================================
