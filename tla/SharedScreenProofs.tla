------------------------- MODULE SharedScreenProofs -------------------------
(***************************************************************************)
(* For any number of tasks, texts and interrupts: how far the cursor can   *)
(* creep behind the screen, that the hardware's cursor follows as long as  *)
(* no interrupt strikes in putchar_color, and that q leaves no green.      *)
(*                                                                         *)
(* A task that loses the CPU between its test and its increment may take   *)
(* the cursor one cell further: the interrupts that have struck pay for    *)
(* it.  What the cursor has crept and what the stale tasks may still add   *)
(* is never more than they have paid.                                      *)
(***************************************************************************)
EXTENDS SharedScreen, FiniteSetTheorems, TLAPS

Owed == Cardinality(stale)

(* A fresh test still holds: its task has not been away, and only the      *)
(* running task moves the cursor.                                          *)
FreshTest ==
  \A t \in Task : pc[t] \in Window /\ t \notin stale => t = running /\ cursor_pos < SIZE

Paid ==
  /\ Owed <= hits
  /\ cursor_pos + Owed <= SIZE + hits
  /\ \A t \in Task : pc[t] = "store" => reg[t] + Owed <= SIZE + hits

IInv == TypeOK /\ FreshTest /\ Paid

-----------------------------------------------------------------------------
LEMMA TurnType ==
  ASSUME NEW r \in Nat, NEW n \in Nat PROVE (r + 1) % (n + 1) \in 0 .. n
BY Z3

LEMMA OwedType ==
  ASSUME TypeOK PROVE IsFiniteSet(stale) /\ Owed \in Nat
<1>1. IsFiniteSet(Task)
    BY FS_Interval, SharedScreenAssumption DEF Task
<1>2. stale \subseteq Task
    BY DEF TypeOK
<1>3. IsFiniteSet(stale)
    BY <1>1, <1>2, FS_Subset
<1> QED
    BY <1>3, FS_CardinalityType DEF Owed

LEMMA Facts ==
  /\ NTasks \in Nat /\ MaxHits \in Nat /\ SIZE \in Nat /\ PROMPT \in Nat
  /\ SIZE - COLS \in Nat /\ SIZE - COLS < SIZE /\ PROMPT < SIZE
BY SharedScreenAssumption

LEMMA SizeType == SIZE \in Nat
BY SharedScreenAssumption

(* Of numbers: what an interrupt pays for a place.                         *)
LEMMA Sums ==
  /\ \A a, b, c, d \in Nat : a <= c /\ b <= d => a + b <= c + d
  /\ \A b, d, e, f \in Nat : b <= d /\ e - b <= f - d => e <= f
  /\ \A a, b, c, d, e, f \in Nat : a + b <= c + d /\ e - b <= f - d => a + e <= c + f
BY SMT

(* The places are different strings; a task has one of them.               *)
Places == {"loop", "char", "test"} \union Inside

LEMMA InitHolds == Init => IInv
<1> SUFFICES ASSUME Init PROVE IInv
    OBVIOUS
<1>1. TypeOK
    <2>1. DOMAIN Bytes(PROMPT) = {14, 15}
        BY DEF Bytes
    <2>2. /\ pc \in [Task -> {"loop", "char", "test"} \union Inside]
          /\ k \in [Task -> Nat] /\ reg \in [Task -> Nat]
        BY DEF Init
    <2>3. running \in 0 .. NTasks /\ cursor_pos \in Nat /\ hits \in 0 .. MaxHits
        BY Facts DEF Init
    <2>4. matrix_active \in BOOLEAN
        BY DEF Init
    <2>5. active_fg \in {Green, Grey, White} /\ index \in {14, 15} /\ DOMAIN crtc = {14, 15} /\ stale = {}
        BY <2>1 DEF Init
    <2> QED
        BY <2>2, <2>3, <2>4, <2>5 DEF TypeOK
<1>2. FreshTest
    BY DEF Init, FreshTest, Window
<1>3. Owed = 0
    BY FS_EmptySet DEF Init, Owed
<1> QED
    BY <1>1, <1>2, <1>3, Facts DEF Init, IInv, Paid

-----------------------------------------------------------------------------
(* One step of a task that leaves the cursor, the stale tasks and the      *)
(* interrupts alone, from a place and to a place out of the window.        *)
LEMMA Elsewhere ==
  ASSUME IInv, NEW t \in Task, NEW place \in Places \ {"write", "add", "store"},
         pc' = [pc EXCEPT ![t] = place], pc[t] \notin Window,
         UNCHANGED <<reg, cursor_pos, hits, stale>>,
         \/ UNCHANGED running
         \/ running = t
  PROVE  /\ FreshTest' /\ Paid'
         /\ pc' \in [Task -> {"loop", "char", "test"} \union Inside]
         /\ stale' \subseteq {u \in Task : pc'[u] \in Window}
<1>1. pc \in [Task -> Places] /\ stale \subseteq {u \in Task : pc[u] \in Window}
    BY DEF IInv, TypeOK, Places
<1>2. /\ pc'[t] = place /\ pc' \in [Task -> Places]
      /\ \A u \in Task : u # t => pc'[u] = pc[u]
    BY <1>1
<1>3. place \notin Window /\ place # "store"
    BY DEF Window
<1>4. Owed' = Owed
    BY DEF Owed
<1>5. FreshTest'
    BY <1>2, <1>3 DEF IInv, FreshTest
<1>6. Paid'
    BY <1>2, <1>3, <1>4 DEF IInv, Paid
<1> QED
    BY <1>1, <1>2, <1>3, <1>5, <1>6 DEF Places

LEMMA TaskStep ==
  ASSUME IInv, NEW t \in Task, task(t) PROVE IInv'
<1>1. running = t /\ pc[t] = "loop"
    BY DEF task, At
<1>2. running' \in 0 .. NTasks
    <2>1. Turn \in 0 .. NTasks
        BY <1>1, TurnType, Facts DEF IInv, TypeOK, Turn, Task
    <2> QED
        BY <2>1 DEF task, IInv, TypeOK
<1>3. CASE matrix_active
    <2>1. pc' = [pc EXCEPT ![t] = "char"] /\ k' = [k EXCEPT ![t] = 1]
        BY <1>3 DEF task, Goto
    <2>2. FreshTest' /\ Paid' /\ pc' \in [Task -> {"loop", "char", "test"} \union Inside]
          /\ stale' \subseteq {u \in Task : pc'[u] \in Window}
        BY <1>1, <2>1, Elsewhere DEF task, Places, Window
    <2>3. k' \in [Task -> Nat]
        BY <2>1 DEF IInv, TypeOK
    <2> QED
        BY <1>2, <2>2, <2>3 DEF task, IInv, TypeOK, device
<1>4. CASE ~ matrix_active
    <2>1. UNCHANGED <<pc, k>>
        BY <1>4 DEF task
    <2>2. FreshTest'
        BY <1>1, <2>1 DEF task, IInv, FreshTest, Window
    <2>3. Paid'
        BY <2>1 DEF task, IInv, Paid, Owed
    <2> QED
        BY <1>2, <2>1, <2>2, <2>3 DEF task, IInv, TypeOK, device
<1> QED
    BY <1>3, <1>4

LEMMA PutcharStep ==
  ASSUME IInv, NEW t \in Task, putchar(t) PROVE IInv'
<1>1. running = t /\ pc[t] = "char" /\ UNCHANGED <<running, reg, cursor_pos, hits, stale>>
    BY DEF putchar, At
<1>2. \/ pc' = [pc EXCEPT ![t] = "loop"] /\ UNCHANGED <<k, active_fg>>
      \/ pc' = [pc EXCEPT ![t] = "test"] /\ UNCHANGED <<k, active_fg>>
      \/ pc' = pc /\ k' = [k EXCEPT ![t] = @ + 1] /\ active_fg' \in {Green, Grey, White}
    BY DEF putchar, Goto
<1>3. active_fg' \in {Green, Grey, White} /\ k' \in [Task -> Nat]
    BY <1>2 DEF IInv, TypeOK
<1>4. /\ FreshTest' /\ Paid' /\ pc' \in [Task -> {"loop", "char", "test"} \union Inside]
      /\ stale' \subseteq {u \in Task : pc'[u] \in Window}
    <2>1. CASE pc' = pc
        BY <1>1, <2>1 DEF IInv, TypeOK, FreshTest, Paid, Owed
    <2>2. CASE pc' = [pc EXCEPT ![t] = "loop"]
        BY <1>1, <2>2, Elsewhere DEF Places, Window
    <2>3. CASE pc' = [pc EXCEPT ![t] = "test"]
        BY <1>1, <2>3, Elsewhere DEF Places, Window
    <2> QED
        BY <1>2, <2>1, <2>2, <2>3
<1> QED
    BY <1>1, <1>3, <1>4 DEF putchar, IInv, TypeOK, device

-----------------------------------------------------------------------------
LEMMA TestStep ==
  ASSUME IInv, NEW t \in Task, Test(t) PROVE IInv'
<1>1. running = t /\ pc[t] = "test"
    BY DEF Test, At
<1>2. stale' = stale
    BY <1>1 DEF Test, IInv, TypeOK, Window
<1>3. CASE cursor_pos >= SIZE
    <2>1. pc' = [pc EXCEPT ![t] = "scroll"]
        BY <1>3 DEF Test, Goto
    <2>2. /\ FreshTest' /\ Paid' /\ pc' \in [Task -> {"loop", "char", "test"} \union Inside]
          /\ stale' \subseteq {u \in Task : pc'[u] \in Window}
        BY <1>1, <1>2, <2>1, Elsewhere DEF Test, Places, Window, Inside
    <2> QED
        BY <2>2 DEF Test, IInv, TypeOK, device
<1>4. CASE ~ (cursor_pos >= SIZE)
    <2>1. cursor_pos < SIZE /\ UNCHANGED <<running, cursor_pos, hits, reg>>
        BY <1>4, Facts DEF Test, IInv, TypeOK
    <2>2. /\ pc' = [pc EXCEPT ![t] = "write"]
          /\ pc'[t] = "write" /\ \A u \in Task : u # t => pc'[u] = pc[u]
        BY <1>4 DEF Test, Goto, IInv, TypeOK
    <2>3. TypeOK'
        BY <1>1, <1>2, <2>1, <2>2 DEF Test, IInv, TypeOK, Window, Inside, device
    <2>4. FreshTest'
        BY <1>1, <1>2, <2>1, <2>2 DEF IInv, FreshTest
    <2>5. Paid'
        BY <1>2, <2>1, <2>2 DEF IInv, Paid, Owed
    <2> QED
        BY <2>3, <2>4, <2>5 DEF IInv
<1> QED
    BY <1>3, <1>4

LEMMA ScrollStep ==
  ASSUME IInv, NEW t \in Task, Scroll(t) PROVE IInv'
<1>1. /\ running = t /\ pc[t] = "scroll" /\ cursor_pos' = SIZE - COLS
      /\ UNCHANGED <<running, reg, hits, stale>>
    BY DEF Scroll, At
<1>2. /\ pc' = [pc EXCEPT ![t] = "write"]
      /\ pc'[t] = "write" /\ \A u \in Task : u # t => pc'[u] = pc[u]
    BY DEF Scroll, Goto, IInv, TypeOK
<1>3. TypeOK'
    BY <1>1, <1>2, Facts DEF Scroll, IInv, TypeOK, Window, Inside, device
<1>4. FreshTest'
    BY <1>1, <1>2, Facts DEF IInv, FreshTest
<1>5. Paid'
    <2>1. Owed' = Owed /\ Owed \in Nat /\ hits \in Nat
        BY <1>1, OwedType DEF Owed, IInv, TypeOK
    <2>2. cursor_pos' + Owed' <= SIZE + hits
        BY <1>1, <2>1, Facts DEF IInv, Paid
    <2> QED
        BY <1>1, <1>2, <2>1, <2>2 DEF IInv, Paid
<1> QED
    BY <1>3, <1>4, <1>5 DEF IInv

LEMMA WriteStep ==
  ASSUME IInv, NEW t \in Task, Write(t) PROVE IInv'
<1>1. running = t /\ pc[t] = "write" /\ UNCHANGED <<running, reg, cursor_pos, hits, stale>>
    BY DEF Write, At
<1>2. /\ pc' = [pc EXCEPT ![t] = "add"]
      /\ pc'[t] = "add" /\ \A u \in Task : u # t => pc'[u] = pc[u]
    BY DEF Write, Goto, IInv, TypeOK
<1>3. TypeOK'
    BY <1>1, <1>2 DEF Write, IInv, TypeOK, Window, Inside, device
<1>4. FreshTest'
    BY <1>1, <1>2 DEF IInv, FreshTest, Window
<1>5. Paid'
    BY <1>1, <1>2 DEF IInv, Paid, Owed
<1> QED
    BY <1>3, <1>4, <1>5 DEF IInv

(* The stale task spends what it owed, the fresh one has room.             *)
LEMMA AddStep ==
  ASSUME IInv, NEW t \in Task, Add(t) PROVE IInv'
<1>1. /\ running = t /\ pc[t] = "add" /\ reg' = [reg EXCEPT ![t] = cursor_pos + 1]
      /\ stale' = stale \ {t} /\ UNCHANGED <<running, cursor_pos, hits>>
    BY DEF Add, At
<1>2. /\ pc' = [pc EXCEPT ![t] = "store"]
      /\ pc'[t] = "store" /\ \A u \in Task : u # t => pc'[u] = pc[u]
    BY DEF Add, Goto, IInv, TypeOK
<1>3. reg'[t] = cursor_pos + 1 /\ \A u \in Task : u # t => reg'[u] = reg[u]
    BY <1>1 DEF IInv, TypeOK
<1>4. TypeOK'
    <2>1. reg' \in [Task -> Nat]
        BY <1>1 DEF IInv, TypeOK
    <2>2. pc' \in [Task -> {"loop", "char", "test"} \union Inside]
        BY <1>2 DEF IInv, TypeOK, Inside
    <2>3. stale' \subseteq {u \in Task : pc'[u] \in Window}
        BY <1>1, <1>2 DEF IInv, TypeOK
    <2> QED
        BY <1>1, <2>1, <2>2, <2>3 DEF Add, IInv, TypeOK, device
<1>5. FreshTest'
    BY <1>1, <1>2 DEF IInv, FreshTest, Window
<1>6. Paid'
    <2>1. IsFiniteSet(stale) /\ Owed \in Nat /\ hits \in Nat /\ cursor_pos \in Nat
        BY OwedType DEF IInv, TypeOK
    <2>2. Owed' = IF t \in stale THEN Owed - 1 ELSE Owed
        BY <1>1, <2>1, FS_RemoveElement DEF Owed
    <2>3. Owed' \in Int /\ Owed' <= Owed
        BY <2>1, <2>2
    <2>4. reg'[t] + Owed' <= SIZE + hits
        <3>1. CASE t \in stale
            <4>1. cursor_pos + Owed <= SIZE + hits
                BY DEF IInv, Paid
            <4> QED
                BY <1>3, <2>1, <2>2, <3>1, <4>1, Facts
        <3>2. CASE t \notin stale
            <4>1. cursor_pos < SIZE /\ Owed <= hits
                BY <1>1, <3>2 DEF IInv, Paid, FreshTest, Window
            <4> QED
                BY <1>3, <2>1, <2>2, <3>2, <4>1, Facts
        <3> QED
            BY <3>1, <3>2
    <2>5. ASSUME NEW u \in Task, pc'[u] = "store" PROVE reg'[u] + Owed' <= SIZE + hits
        <3>1. CASE u = t
            BY <2>4, <3>1
        <3>2. CASE u # t
            <4>1. reg'[u] = reg[u] /\ reg[u] \in Nat /\ reg[u] + Owed <= SIZE + hits
                BY <1>2, <1>3, <2>5, <3>2 DEF IInv, TypeOK, Paid
            <4> QED
                BY <2>1, <2>3, <4>1, Facts
        <3> QED
            BY <3>1, <3>2
    <2>6. Owed' <= hits' /\ cursor_pos' + Owed' <= SIZE + hits'
        <3>1. Owed <= hits /\ cursor_pos + Owed <= SIZE + hits
            BY DEF IInv, Paid
        <3>2. Owed' <= hits
            BY <2>1, <2>3, <3>1
        <3>3. cursor_pos + Owed' <= SIZE + hits
            <4>1. Owed' \in Nat /\ Owed' - Owed <= hits - hits
                BY <2>1, <2>2, <2>3, <3>1, FS_CardinalityType, FS_RemoveElement, <1>1 DEF Owed
            <4> QED
                BY <2>1, <3>1, <4>1, SizeType, Sums
        <3> QED
            BY <1>1, <3>2, <3>3
    <2> QED
        BY <1>1, <2>5, <2>6 DEF Paid
<1> QED
    BY <1>4, <1>5, <1>6 DEF IInv

LEMMA StoreStep ==
  ASSUME IInv, NEW t \in Task, Store(t) PROVE IInv'
<1>1. /\ running = t /\ pc[t] = "store" /\ cursor_pos' = reg[t]
      /\ UNCHANGED <<running, reg, hits, stale>>
    BY DEF Store, At
<1>2. /\ pc' = [pc EXCEPT ![t] = "high"]
      /\ pc'[t] = "high" /\ \A u \in Task : u # t => pc'[u] = pc[u]
    BY DEF Store, Goto, IInv, TypeOK
<1>3. TypeOK'
    <2>1. cursor_pos' \in Nat
        BY <1>1 DEF IInv, TypeOK
    <2>2. pc' \in [Task -> {"loop", "char", "test"} \union Inside]
        BY <1>2 DEF IInv, TypeOK, Inside
    <2>3. stale' \subseteq {u \in Task : pc'[u] \in Window}
        BY <1>1, <1>2 DEF IInv, TypeOK, Window
    <2> QED
        BY <1>1, <2>1, <2>2, <2>3 DEF Store, IInv, TypeOK, device
<1>4. FreshTest'
    BY <1>1, <1>2 DEF IInv, FreshTest, Window
<1>5. Paid'
    BY <1>1, <1>2 DEF IInv, Paid, Owed
<1> QED
    BY <1>3, <1>4, <1>5 DEF IInv

LEMMA MoveStep ==
  ASSUME IInv, NEW t \in Task, fb_move_cursor(t) PROVE IInv'
<1>1. /\ running = t /\ pc[t] \in {"high", "high byte", "low", "low byte"}
      /\ UNCHANGED <<matrix_active, running, reg, cursor_pos, active_fg, hits, stale>>
    BY DEF fb_move_cursor, Select, Out, At
<1>2. \E place \in {"high byte", "low", "low byte", "char"} : pc' = [pc EXCEPT ![t] = place]
    BY DEF fb_move_cursor, Select, Out, Goto
<1>3. /\ FreshTest' /\ Paid' /\ pc' \in [Task -> {"loop", "char", "test"} \union Inside]
      /\ stale' \subseteq {u \in Task : pc'[u] \in Window}
    BY <1>1, <1>2, Elsewhere DEF Places, Window, Inside
<1>4. index' \in {14, 15} /\ DOMAIN crtc' = {14, 15}
    BY DEF fb_move_cursor, Select, Out, IInv, TypeOK
<1>5. k' \in [Task -> Nat]
    <2>1. k' = k \/ \E n \in {k[t], k[t] + 1} : k' = [k EXCEPT ![t] = n]
        BY DEF fb_move_cursor, Select, Out
    <2> QED
        BY <2>1 DEF IInv, TypeOK
<1> QED
    BY <1>1, <1>3, <1>4, <1>5 DEF IInv, TypeOK

-----------------------------------------------------------------------------
(* An interrupt that makes a task stale has struck in putchar_color.       *)
LEMMA TickStep ==
  ASSUME IInv, Tick PROVE IInv'
<1>1. /\ stale' = stale \union {t \in Task : t = running /\ pc[t] \in Window}
      /\ UNCHANGED <<matrix_active, pc, k, reg, cursor_pos, active_fg, index, crtc>>
    BY DEF Tick, local, device
<1>2. running' \in 0 .. NTasks
    BY TurnType, Facts DEF Tick, IInv, TypeOK, Turn
<1>3. hits' \in 0 .. MaxHits /\ hits <= hits'
    BY Facts DEF Tick, Strike, IInv, TypeOK
<1>4. TypeOK'
    BY <1>1, <1>2, <1>3 DEF IInv, TypeOK
<1>5. FreshTest'
    BY <1>1 DEF IInv, FreshTest
<1>6. Paid'
    <2>1. IsFiniteSet(stale) /\ Owed \in Nat /\ hits \in Nat /\ hits' \in Nat /\ cursor_pos \in Nat
          /\ reg \in [Task -> Nat]
        BY <1>3, OwedType DEF IInv, TypeOK
    <2>2. Owed' \in Nat /\ Owed' - Owed <= hits' - hits
        <3>1. CASE running \in Task /\ pc[running] \in Window
            <4>1. stale' = stale \union {running}
                BY <1>1, <3>1
            <4>2. Owed' = IF running \in stale THEN Owed ELSE Owed + 1
                BY <2>1, <4>1, FS_AddElement DEF Owed
            <4>3. hits' = hits + 1
                BY <3>1 DEF Tick, Strike, Inside
            <4> QED
                BY <2>1, <4>2, <4>3
        <3>2. CASE ~ (running \in Task /\ pc[running] \in Window)
            <4>1. stale' = stale
                BY <1>1, <3>2
            <4> QED
                BY <1>3, <2>1, <4>1 DEF Owed
        <3> QED
            BY <3>1, <3>2
    <2>3. ASSUME NEW u \in Task, pc'[u] = "store" PROVE reg'[u] + Owed' <= SIZE + hits'
        <3>1. reg'[u] = reg[u] /\ reg[u] \in Nat /\ reg[u] + Owed <= SIZE + hits
            BY <1>1, <2>1, <2>3 DEF IInv, Paid
        <3> QED
            BY <2>1, <2>2, <3>1, SizeType, Sums
    <2>4. Owed' <= hits' /\ cursor_pos' + Owed' <= SIZE + hits'
        <3>1. Owed <= hits /\ cursor_pos + Owed <= SIZE + hits
            BY DEF IInv, Paid
        <3>2. Owed' <= hits'
            BY <2>1, <2>2, <3>1, Sums
        <3>3. cursor_pos + Owed' <= SIZE + hits'
            BY <2>1, <2>2, <3>1, SizeType, Sums
        <3> QED
            BY <1>1, <3>2, <3>3
    <2> QED
        BY <2>3, <2>4 DEF Paid
<1> QED
    BY <1>4, <1>5, <1>6 DEF IInv

LEMMA HaltStep ==
  ASSUME IInv, Halt PROVE IInv'
<1>1. cursor_pos' = PROMPT /\ UNCHANGED <<running, pc, k, reg, stale>>
    BY DEF Halt, Display, local
<1>2. hits' \in 0 .. MaxHits /\ hits <= hits' /\ hits' \in Nat /\ hits \in Nat
    BY Facts DEF Halt, Strike, IInv, TypeOK
<1>3. TypeOK'
    BY <1>1, <1>2, Facts DEF Halt, Display, Bytes, IInv, TypeOK
<1>4. FreshTest'
    BY <1>1, Facts DEF IInv, FreshTest
<1>5. Paid'
    <2>1. Owed' = Owed /\ Owed \in Nat /\ reg \in [Task -> Nat]
        BY <1>1, OwedType DEF Owed, IInv, TypeOK
    <2>2. ASSUME NEW u \in Task, pc'[u] = "store" PROVE reg'[u] + Owed' <= SIZE + hits'
        <3>1. reg'[u] = reg[u] /\ reg[u] \in Nat /\ reg[u] + Owed <= SIZE + hits
            BY <1>1, <2>1, <2>2 DEF IInv, Paid
        <3> QED
            BY <1>2, <2>1, <3>1, Facts
    <2>3. Owed' <= hits' /\ cursor_pos' + Owed' <= SIZE + hits'
        <3>1. Owed' <= hits' /\ hits' \in Nat /\ Owed' \in Nat /\ cursor_pos' \in Nat
            BY <1>1, <1>2, <2>1, Facts DEF IInv, Paid
        <3>2. cursor_pos' <= SIZE
            BY <1>1, Facts
        <3>3. cursor_pos' + Owed' <= SIZE + hits'
            BY <3>1, <3>2, SizeType, Sums
        <3> QED
            BY <3>1, <3>3
    <2> QED
        BY <2>2, <2>3 DEF Paid
<1> QED
    BY <1>3, <1>4, <1>5 DEF IInv

LEMMA CommandStep ==
  ASSUME IInv, Command PROVE IInv'
<1>1. running = 0 /\ UNCHANGED <<running, pc, k, reg, hits, stale>>
    BY DEF Command, local
<1>2. PICK pos \in 0 .. SIZE, fg \in {active_fg, White, Grey} : Display(pos, fg)
    BY DEF Command
<1>3. TypeOK'
    BY <1>1, <1>2, Facts DEF Command, Display, Bytes, IInv, TypeOK
<1>4. FreshTest'
    BY <1>1 DEF IInv, FreshTest, Task
<1>5. Paid'
    <2>1. Owed' = Owed /\ Owed \in Nat /\ hits \in Nat /\ cursor_pos' \in Nat /\ cursor_pos' <= SIZE
        BY <1>1, <1>2, OwedType, Facts DEF Owed, IInv, TypeOK, Display
    <2>2. ASSUME NEW u \in Task, pc'[u] = "store" PROVE reg'[u] + Owed' <= SIZE + hits'
        BY <1>1, <2>1, <2>2 DEF IInv, Paid
    <2>3. Owed' <= hits' /\ cursor_pos' + Owed' <= SIZE + hits'
        <3>1. Owed' <= hits' /\ hits' \in Nat /\ Owed' \in Nat /\ cursor_pos' \in Nat
            BY <1>1, <2>1 DEF IInv, Paid
        <3>2. cursor_pos' + Owed' <= SIZE + hits'
            BY <2>1, <3>1, SizeType, Sums
        <3> QED
            BY <3>1, <3>2
    <2> QED
        BY <2>2, <2>3 DEF Paid
<1> QED
    BY <1>3, <1>4, <1>5 DEF IInv

LEMMA StutterStep ==
  ASSUME IInv, UNCHANGED vars PROVE IInv'
<1>1. UNCHANGED <<matrix_active, running, pc, k, reg, cursor_pos, active_fg, index, crtc, hits, stale>>
    BY DEF vars, local, device
<1> QED
    BY <1>1 DEF IInv, TypeOK, FreshTest, Paid, Owed

LEMMA Invariance == Spec => []IInv
<1>1. IInv /\ [Next]_vars => IInv'
    BY TaskStep, PutcharStep, TestStep, ScrollStep, WriteStep, AddStep, StoreStep, MoveStep,
       TickStep, HaltStep, CommandStep, StutterStep DEF Next, putchar_color
<1> QED
    BY InitHolds, <1>1, PTL DEF Spec

(* The state of the show stays in its type, for any number of tasks.       *)
THEOREM TypeCorrect == Spec => []TypeOK
<1>1. IInv => TypeOK
    BY DEF IInv
<1> QED
    BY Invariance, <1>1, PTL

(* utils.c:25: each interrupt that strikes in putchar_color takes the      *)
(* cursor at most one cell further behind the screen.                      *)
THEOREM CreepIsBounded == Spec => []CursorCreep
<1>1. IInv => CursorCreep
    <2> SUFFICES ASSUME IInv PROVE CursorCreep
        OBVIOUS
    <2>1. Owed \in Nat /\ cursor_pos \in Nat /\ hits \in Nat
        BY OwedType DEF IInv, TypeOK
    <2> QED
        BY <2>1, Facts DEF IInv, Paid, CursorCreep
<1> QED
    BY Invariance, <1>1, PTL

-----------------------------------------------------------------------------
(* The hardware cursor.  While no interrupt has struck in putchar_color,   *)
(* only the running task can be in it, and from place to place more of     *)
(* what it has stored in cursor_pos has reached the VGA.                   *)
Alone == \A t \in Task : pc[t] \in Inside => running = t

HighSent == crtc[14] = cursor_pos \div BYTE

Sent ==
  /\ (\A t \in Task : pc[t] \notin Inside) => crtc = Bytes(cursor_pos)
  /\ \A t \in Task :
       /\ pc[t] \in {"high", "high byte", "low", "low byte"} => reg[t] = cursor_pos
       /\ pc[t] = "high byte" => index = 14
       /\ pc[t] \in {"low", "low byte"} => HighSent
       /\ pc[t] = "low byte" => index = 15

Undisturbed == hits = 0 => Alone /\ Sent

LEMMA Moved ==
  ASSUME TypeOK, NEW t \in Task, NEW place, pc' = [pc EXCEPT ![t] = place]
  PROVE  pc'[t] = place /\ \A u \in Task \ {t} : pc'[u] = pc[u]
BY DEF TypeOK

(* A step of the running task, which is alone in putchar_color.            *)
LEMMA AloneStep ==
  ASSUME TypeOK, Alone, NEW t \in Task, running = t, NEW place,
         pc' = [pc EXCEPT ![t] = place], running' = running
  PROVE  Alone' /\ \A u \in Task \ {t} : pc'[u] \notin Inside
BY Moved DEF Alone

LEMMA CursorInit == Init => Undisturbed
BY DEF Init, Undisturbed, Alone, Sent, Inside, Window

LEMMA CursorLoop ==
  ASSUME IInv, Undisturbed, NEW t \in Task, task(t) \/ putchar(t) PROVE Undisturbed'
<1> SUFFICES ASSUME hits = 0 PROVE Alone' /\ Sent'
    BY DEF Undisturbed, task, putchar
<1>1. /\ Alone /\ Sent /\ TypeOK /\ running = t /\ pc[t] \notin Inside
      /\ UNCHANGED <<reg, cursor_pos, index, crtc>>
    BY DEF Undisturbed, IInv, task, putchar, At, device, Inside, Window
<1>2. PICK place \in {"loop", "char", "test"} : pc' = [pc EXCEPT ![t] = place]
    BY <1>1 DEF task, putchar, At, Goto, TypeOK
<1>3. pc'[t] = place /\ \A u \in Task \ {t} : pc'[u] = pc[u]
    BY <1>1, <1>2, Moved
<1>4. \A u \in Task : pc[u] \notin Inside /\ pc'[u] \notin Inside
    BY <1>1, <1>3 DEF Alone, Inside, Window
<1>5. Alone'
    BY <1>4 DEF Alone
<1>6. Sent'
    BY <1>1, <1>4 DEF Sent, Inside, Bytes
<1> QED
    BY <1>5, <1>6

(* The test, the scroll, the write and the increment are not seen.         *)
LEMMA CursorAdvance ==
  ASSUME IInv, Undisturbed, NEW t \in Task, Test(t) \/ Scroll(t) \/ Write(t) \/ Add(t) \/ Store(t)
  PROVE  Undisturbed'
<1> SUFFICES ASSUME hits = 0 PROVE Alone' /\ Sent'
    BY DEF Undisturbed, Test, Scroll, Write, Add, Store
<1>1. /\ Alone /\ TypeOK /\ running = t /\ running' = running
    BY DEF Undisturbed, IInv, Test, Scroll, Write, Add, Store, At
<1>2. PICK place \in {"scroll", "write", "add", "store", "high"} : pc' = [pc EXCEPT ![t] = place]
    BY DEF Test, Scroll, Write, Add, Store, Goto
<1>3. pc'[t] = place /\ Alone' /\ \A u \in Task \ {t} : pc'[u] \notin Inside
    BY <1>1, <1>2, Moved, AloneStep
<1>4. place = "high" => reg'[t] = cursor_pos'
    <2>1. pc' = [pc EXCEPT ![t] = "high"] => Store(t)
        BY <1>1 DEF Test, Scroll, Write, Add, Store, Goto, TypeOK
    <2> QED
        BY <1>2, <2>1 DEF Store
<1>5. Sent'
    BY <1>3, <1>4 DEF Sent, Inside, Window
<1> QED
    BY <1>3, <1>5

LEMMA CursorMove ==
  ASSUME IInv, Undisturbed, NEW t \in Task, fb_move_cursor(t) PROVE Undisturbed'
<1> SUFFICES ASSUME hits = 0 PROVE Alone' /\ Sent'
    BY DEF Undisturbed, fb_move_cursor, Select, Out
<1>1. /\ Alone /\ Sent /\ TypeOK /\ running = t /\ running' = running
      /\ reg[t] = cursor_pos /\ UNCHANGED <<reg, cursor_pos>>
    BY DEF Undisturbed, IInv, fb_move_cursor, Select, Out, At, Sent
<1>2. ASSUME NEW place, pc' = [pc EXCEPT ![t] = place]
      PROVE  pc'[t] = place /\ Alone' /\ \A u \in Task \ {t} : pc'[u] \notin Inside
    BY <1>1, <1>2, Moved, AloneStep
<1>3. CASE Select(t, "high", 14, "high byte")
    BY <1>1, <1>2, <1>3 DEF Select, Goto, Sent, Inside
<1>4. CASE Out(t, "high byte", reg[t] \div BYTE, "low")
    <2>1. pc'[t] = "low" /\ Alone' /\ \A u \in Task \ {t} : pc'[u] \notin Inside
        BY <1>2, <1>4 DEF Out, Goto
    <2>2. HighSent'
        BY <1>1, <1>4 DEF Out, At, Sent, HighSent, TypeOK
    <2> QED
        BY <1>1, <2>1, <2>2 DEF Sent, Inside
<1>5. CASE Select(t, "low", 15, "low byte")
    <2>1. /\ pc'[t] = "low byte" /\ Alone' /\ \A u \in Task \ {t} : pc'[u] \notin Inside
          /\ index' = 15 /\ crtc' = crtc /\ pc[t] = "low"
        BY <1>2, <1>5 DEF Select, Goto, At
    <2>2. HighSent'
        BY <1>1, <2>1 DEF Sent, HighSent
    <2> QED
        BY <1>1, <2>1, <2>2 DEF Sent, Inside
<1>6. CASE Out(t, "low byte", reg[t] % BYTE, "char")
    <2>1. /\ pc'[t] = "char" /\ Alone' /\ \A u \in Task \ {t} : pc'[u] \notin Inside
          /\ crtc' = [crtc EXCEPT ![15] = cursor_pos % BYTE] /\ pc[t] = "low byte"
        BY <1>1, <1>2, <1>6 DEF Out, Goto, At, Sent
    <2>2. crtc' = Bytes(cursor_pos)
        <3>1. crtc[14] = cursor_pos \div BYTE
            BY <1>1, <2>1 DEF Sent, HighSent
        <3>2. crtc' = [i \in {14, 15} |-> IF i = 15 THEN cursor_pos % BYTE ELSE crtc[i]]
            BY <1>1, <2>1 DEF TypeOK
        <3> QED
            BY <3>1, <3>2 DEF Bytes
    <2>3. \A u \in Task : pc'[u] \notin Inside
        BY <2>1 DEF Inside, Window
    <2> QED
        BY <1>1, <2>1, <2>2, <2>3 DEF Sent, Inside, Bytes
<1> QED
    BY <1>3, <1>4, <1>5, <1>6 DEF fb_move_cursor

(* An interrupt that does not count as a hit finds nobody in putchar_color. *)
LEMMA CursorInterrupt ==
  ASSUME IInv, Undisturbed, Tick \/ Halt \/ Command PROVE Undisturbed'
<1> SUFFICES ASSUME hits' = 0 PROVE Alone' /\ Sent'
    BY DEF Undisturbed
<1>1. hits = 0 /\ hits \in Nat /\ (running \in Task => pc[running] \notin Inside)
    BY Facts DEF Tick, Halt, Command, Strike, IInv, TypeOK, Task
<1>2. Alone /\ Sent /\ pc' = pc
    BY <1>1 DEF Undisturbed, Tick, Halt, Command, local
<1>3. \A t \in Task : pc'[t] \notin Inside
    BY <1>1, <1>2 DEF Alone
<1>4. crtc' = Bytes(cursor_pos')
    <2>1. crtc = Bytes(cursor_pos)
        BY <1>2, <1>3 DEF Sent
    <2> QED
        BY <2>1 DEF Tick, Halt, Command, Display, device, Bytes
<1> QED
    BY <1>3, <1>4 DEF Alone, Sent, Inside, Bytes

LEMMA CursorStutter == ASSUME Undisturbed, UNCHANGED vars PROVE Undisturbed'
BY DEF vars, local, device, Undisturbed, Alone, Sent, HighSent, Bytes

(* framebuffer.c: until an interrupt strikes in putchar_color, the         *)
(* hardware cursor is where cursor_pos is whenever nobody is printing,     *)
(* whatever was printed, scrolled, halted and cleared before.              *)
THEOREM CursorFollows == Spec => []HardwareCursor
<1>1. IInv /\ Undisturbed /\ [Next]_vars => Undisturbed'
    BY CursorLoop, CursorAdvance, CursorMove, CursorInterrupt, CursorStutter DEF Next, putchar_color
<1>2. Undisturbed => HardwareCursor
    BY DEF Undisturbed, Sent, HardwareCursor
<1> QED
    BY CursorInit, Invariance, <1>1, <1>2, PTL DEF Spec

-----------------------------------------------------------------------------
(* The colour.  When the show is over and the colour of all is green, the  *)
(* running task has printed it, and has the grey that follows before it.   *)
GreyAhead(t) == \E j \in k[t] .. Len(Text) : Text[j] = Grey

Closing ==
  ~ matrix_active /\ active_fg = Green =>
    running \in Task /\ pc[running] # "loop" /\ GreyAhead(running)

(* What goes to putchar_color is a character, not a colour.                *)
Printing ==
  \A t \in Task : k[t] # 0 /\ (pc[t] \in Inside \union {"test"} => Text[k[t]] # Grey)

LEMMA ColourInit == Init => Printing /\ Closing
BY ColourAssumption DEF Init, Printing, Closing, Inside, Window

LEMMA ColourTask ==
  ASSUME IInv, Printing, Closing, NEW t \in Task, task(t) PROVE Printing' /\ Closing'
<1>1. /\ running = t /\ pc[t] = "loop" /\ TypeOK
      /\ UNCHANGED <<matrix_active, active_fg>>
    BY DEF task, At, IInv
<1>2. CASE matrix_active
    <2>1. /\ pc' = [pc EXCEPT ![t] = "char"] /\ k' = [k EXCEPT ![t] = 1]
        BY <1>2 DEF task, Goto
    <2>2. /\ pc'[t] = "char" /\ k'[t] = 1
          /\ \A u \in Task \ {t} : pc'[u] = pc[u] /\ k'[u] = k[u]
        BY <1>1, <2>1 DEF TypeOK
    <2>3. Printing'
        <3>1. "char" \notin Inside \union {"test"}
            BY DEF Inside, Window
        <3> QED
            BY <2>2, <3>1 DEF Printing
    <2> QED
        BY <1>1, <1>2, <2>3 DEF Closing
<1>3. CASE ~ matrix_active
    BY <1>1, <1>3 DEF task, Printing, Closing
<1> QED
    BY <1>2, <1>3

LEMMA ColourPutchar ==
  ASSUME IInv, Printing, Closing, NEW t \in Task, putchar(t) PROVE Printing' /\ Closing'
<1>1. /\ running = t /\ pc[t] = "char" /\ TypeOK /\ k[t] \in Nat /\ Len(Text) \in Nat
      /\ UNCHANGED <<matrix_active, running>>
    BY SharedScreenAssumption DEF putchar, At, IInv, TypeOK
<1>2. CASE k[t] > Len(Text)
    <2>1. pc' = [pc EXCEPT ![t] = "loop"] /\ UNCHANGED <<k, active_fg>>
        BY <1>1, <1>2 DEF putchar, Goto
    <2>2. pc'[t] = "loop" /\ \A u \in Task \ {t} : pc'[u] = pc[u]
        BY <1>1, <2>1, Moved
    <2>3. ~ GreyAhead(t)
        BY <1>1, <1>2 DEF GreyAhead
    <2> QED
        BY <1>1, <2>1, <2>2, <2>3 DEF Printing, Closing, Inside, Window
<1>3. CASE k[t] <= Len(Text) /\ Text[k[t]] \in {Green, Grey}
    <2>1. active_fg' = Text[k[t]] /\ k' = [k EXCEPT ![t] = k[t] + 1] /\ pc' = pc
        BY <1>1, <1>3 DEF putchar
    <2>2. k'[t] = k[t] + 1 /\ \A u \in Task \ {t} : k'[u] = k[u]
        BY <1>1, <2>1 DEF TypeOK
    <2>3. Printing'
        <3>1. "char" \notin Inside \union {"test"} /\ k'[t] # 0
            BY <1>1, <2>2 DEF Inside, Window
        <3> QED
            BY <1>1, <2>1, <2>2, <3>1 DEF Printing
    <2>4. Closing'
        <3>1. CASE active_fg' = Green
            <4>0. k[t] \in 1 .. Len(Text) /\ Text[k[t]] = Green
                BY <1>1, <1>3, <2>1, <3>1 DEF Printing
            <4>1. PICK j \in k[t] + 1 .. Len(Text) : Text[j] = Grey
                BY <4>0, ColourAssumption
            <4>2. GreyAhead(t)'
                BY <2>2, <4>1 DEF GreyAhead
            <4> QED
                BY <1>1, <2>1, <4>2 DEF Closing
        <3>2. CASE active_fg' # Green
            BY <3>2 DEF Closing
        <3> QED
            BY <3>1, <3>2
    <2> QED
        BY <2>3, <2>4
<1>4. CASE k[t] <= Len(Text) /\ Text[k[t]] \notin {Green, Grey}
    <2>1. pc' = [pc EXCEPT ![t] = "test"] /\ UNCHANGED <<k, active_fg>>
        BY <1>1, <1>4 DEF putchar, Goto
    <2>2. pc'[t] = "test" /\ \A u \in Task \ {t} : pc'[u] = pc[u]
        BY <1>1, <2>1, Moved
    <2>3. Printing'
        BY <1>4, <2>1, <2>2 DEF Printing
    <2>4. Closing'
        BY <1>1, <2>1, <2>2 DEF Closing, GreyAhead
    <2> QED
        BY <2>3, <2>4
<1> QED
    BY <1>1, <1>2, <1>3, <1>4

(* The character that is on its way is not the grey that is ahead.         *)
LEMMA ColourPrint ==
  ASSUME IInv, Printing, Closing, NEW t \in Task, putchar_color(t) PROVE Printing' /\ Closing'
<1>1. /\ running = t /\ pc[t] \in Inside \union {"test"} /\ TypeOK
      /\ UNCHANGED <<matrix_active, running, active_fg>>
    BY DEF putchar_color, Test, Scroll, Write, Add, Store, fb_move_cursor, Select, Out, At,
        IInv, Inside, Window
<1>2. k[t] \in Nat /\ Len(Text) \in Nat /\ k[t] # 0 /\ Text[k[t]] # Grey
    BY <1>1, SharedScreenAssumption DEF TypeOK, Printing
<1>3. CASE Out(t, "low byte", reg[t] % BYTE, "char")
    <2>1. pc' = [pc EXCEPT ![t] = "char"] /\ k' = [k EXCEPT ![t] = k[t] + 1]
        BY <1>3 DEF Out, Goto
    <2>2. pc'[t] = "char" /\ k'[t] = k[t] + 1 /\ \A u \in Task \ {t} : pc'[u] = pc[u] /\ k'[u] = k[u]
        BY <1>1, <2>1 DEF TypeOK
    <2>3. Printing'
        <3>1. "char" \notin Inside \union {"test"} /\ k'[t] # 0
            BY <1>2, <2>2 DEF Inside, Window
        <3> QED
            BY <2>2, <3>1 DEF Printing
    <2>4. ASSUME GreyAhead(t) PROVE GreyAhead(t)'
        <3>1. PICK j \in k[t] .. Len(Text) : Text[j] = Grey
            BY <2>4 DEF GreyAhead
        <3>2. j \in k'[t] .. Len(Text)
            BY <1>2, <2>2, <3>1
        <3> QED
            BY <3>1, <3>2 DEF GreyAhead
    <2> QED
        BY <1>1, <2>2, <2>3, <2>4 DEF Closing
<1>4. CASE ~ Out(t, "low byte", reg[t] % BYTE, "char")
    <2>1. k' = k /\ \E place \in Inside : pc' = [pc EXCEPT ![t] = place]
        <3>1. CASE Out(t, "high byte", reg[t] \div BYTE, "low")
            BY <1>1, <3>1 DEF Out, Goto, TypeOK, Inside
        <3>2. CASE Select(t, "high", 14, "high byte") \/ Select(t, "low", 15, "low byte")
            BY <3>2 DEF Select, Goto, Inside
        <3>3. CASE Test(t) \/ Scroll(t) \/ Write(t) \/ Add(t) \/ Store(t)
            BY <3>3 DEF Test, Scroll, Write, Add, Store, Goto, Inside, Window
        <3> QED
            BY <1>4, <3>1, <3>2, <3>3 DEF putchar_color, fb_move_cursor
    <2>2. PICK place \in Inside : pc' = [pc EXCEPT ![t] = place]
        BY <2>1
    <2>3. pc'[t] = place /\ \A u \in Task \ {t} : pc'[u] = pc[u]
        BY <1>1, <2>2, Moved
    <2>4. Printing'
        BY <1>1, <2>1, <2>2, <2>3 DEF Printing
    <2>5. Closing'
        BY <1>1, <2>1, <2>2, <2>3 DEF Closing, GreyAhead, Inside, Window
    <2> QED
        BY <2>4, <2>5
<1> QED
    BY <1>3, <1>4

(* q leaves its own grey; while it has not come, the show is still on.     *)
LEMMA ColourInterrupt ==
  ASSUME IInv, Printing, Closing, Tick \/ Halt \/ Command PROVE Printing' /\ Closing'
<1>1. Printing'
    BY DEF Tick, Halt, Command, local, Printing
<1>2. Closing'
    BY ColourAssumption, Facts DEF Tick, Halt, Command, Display, Closing, Task
<1> QED
    BY <1>1, <1>2

LEMMA ColourStutter == ASSUME Printing, Closing, UNCHANGED vars PROVE Printing' /\ Closing'
BY DEF vars, local, device, Printing, Closing, GreyAhead

(* program.c:15, :31: wherever q cuts the show, and however many tasks it  *)
(* finds in the middle of a text, no green is left when kmain's turn comes. *)
THEOREM GreenNeverReachesTheShell == Spec => []ColourRestored
<1>1. IInv /\ Printing /\ Closing /\ [Next]_vars => Printing' /\ Closing'
    BY ColourTask, ColourPutchar, ColourPrint, ColourInterrupt, ColourStutter DEF Next
<1>2. Closing => ColourRestored
    BY Facts DEF Closing, ColourRestored, Task
<1> QED
    BY ColourInit, Invariance, <1>1, <1>2, PTL DEF Spec
=============================================================================
