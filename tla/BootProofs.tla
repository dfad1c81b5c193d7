----------------------------- MODULE BootProofs -----------------------------
(***************************************************************************)
(* Proofs about kmain: what it does with the memory, for every size of the *)
(* bitmap, the frames, the RAM, the kernel, the image and the request; and *)
(* what it does with the devices, for every greeting, room in the UART's   *)
(* queue, frequency, set of lines and rest of the firmware.                *)
(***************************************************************************)
EXTENDS BootMemory, Devices, Integers, SequenceTheorems, TLAPS

(***************************************************************************)
(* The memory: the frame allocator first, and then kmain on top of it.     *)
(***************************************************************************)

(* A bit is 1 exactly when its frame is held or is no frame to hand out.   *)
BitmapInv ==
  IF ready
  THEN \A f \in Frame : test_bit(f) <=> (f \in held \/ f \notin Usable)
  ELSE held = {} /\ result = None

HeldInv == held \subseteq Usable

AllocatorInv == TypeOK /\ BitmapInv /\ HeldInv

-----------------------------------------------------------------------------
(* Arithmetic of addresses and bits.                                       *)

LEMMA ByteAndBit ==
  /\ \A f \in Frame : f \div 8 \in Byte /\ f % 8 \in Bit
  /\ \A f, g \in Frame : f \div 8 = g \div 8 /\ f % 8 = g % 8 => f = g
  BY FrameAssumption DEF Frame, Byte, Bit

LEMMA Division ==
  ASSUME NEW a \in Nat, NEW p \in Nat \ {0}
  PROVE  /\ a \div p \in Nat
         /\ (a \div p) * p <= a
         /\ a < (a \div p + 1) * p
  OBVIOUS

LEMMA ProductOrder ==
  ASSUME NEW a \in Nat, NEW b \in Nat, NEW p \in Nat \ {0}
  PROVE  /\ a * p < b * p => a < b
         /\ a <= b => a * p <= b * p
  OBVIOUS

LEMMA AddressOfFrame ==
  ASSUME NEW f \in Nat, NEW p \in Nat \ {0}
  PROVE  (f * p) \div p = f
  OBVIOUS

(* What writing one bit does to the test of every bit.                     *)
LEMMA SetBit ==
  ASSUME TypeOK, NEW i \in Frame, set_bit(i)
  PROVE  /\ bitmap' \in [Byte -> SUBSET Bit]
         /\ \A f \in Frame : test_bit(f)' <=> (f = i \/ test_bit(f))
<1>1. bitmap' = [bitmap EXCEPT ![i \div 8] = bitmap[i \div 8] \union {i % 8}]
  BY DEF set_bit
<1>2. bitmap' \in [Byte -> SUBSET Bit]
  BY <1>1, ByteAndBit DEF TypeOK
<1>3. ASSUME NEW f \in Frame PROVE test_bit(f)' <=> (f = i \/ test_bit(f))
  BY <1>1, ByteAndBit DEF TypeOK, test_bit
<1> QED
  BY <1>2, <1>3

LEMMA ClearBit ==
  ASSUME TypeOK, NEW i \in Frame, clear_bit(i)
  PROVE  /\ bitmap' \in [Byte -> SUBSET Bit]
         /\ \A f \in Frame : test_bit(f)' <=> (f # i /\ test_bit(f))
<1>1. bitmap' = [bitmap EXCEPT ![i \div 8] = bitmap[i \div 8] \ {i % 8}]
  BY DEF clear_bit
<1>2. bitmap' \in [Byte -> SUBSET Bit]
  BY <1>1, ByteAndBit DEF TypeOK
<1>3. ASSUME NEW f \in Frame PROVE test_bit(f)' <=> (f # i /\ test_bit(f))
  BY <1>1, ByteAndBit DEF TypeOK, test_bit
<1> QED
  BY <1>2, <1>3

(* What a loop of init_memory does.                                        *)
LEMMA SetManyBits ==
  ASSUME NEW map \in [Byte -> SUBSET Bit], NEW S \in SUBSET Frame
  PROVE  /\ SetBits(map, S) \in [Byte -> SUBSET Bit]
         /\ \A f \in Frame : f % 8 \in SetBits(map, S)[f \div 8]
                           <=> (f \in S \/ f % 8 \in map[f \div 8])
  BY ByteAndBit DEF SetBits

LEMMA ClearManyBits ==
  ASSUME NEW map \in [Byte -> SUBSET Bit], NEW S \in SUBSET Frame
  PROVE  /\ ClearBits(map, S) \in [Byte -> SUBSET Bit]
         /\ \A f \in Frame : f % 8 \in ClearBits(map, S)[f \div 8]
                           <=> (f \notin S /\ f % 8 \in map[f \div 8])
  BY ByteAndBit DEF ClearBits

(* The ranges init_memory loops over are frames of the bitmap.             *)
LEMMA Ranges ==
  /\ RamFrames \subseteq Frame
  /\ VipFrames \subseteq Frame
  /\ FirstMegabyte \subseteq Frame
  /\ 0 \in FirstMegabyte
<1>1. total_ram_bytes \div PAGE \in Nat /\ kernel_physical_start \div PAGE \in Nat
  BY FrameAssumption, Division
<1>2. (kernel_physical_end + PAGE - 1) \div PAGE \in Nat
  BY FrameAssumption, Division
<1> QED
  BY <1>1, <1>2, FrameAssumption DEF RamFrames, VipFrames, FirstMegabyte, Frame

-----------------------------------------------------------------------------
LEMMA InitAllocatorInv == Init => AllocatorInv
<1> SUFFICES ASSUME Init PROVE AllocatorInv
  OBVIOUS
<1>1. TypeOK
  BY DEF Init, TypeOK
<1> QED
  BY <1>1 DEF Init, AllocatorInv, BitmapInv, HeldInv

LEMMA InitMemoryStep == AllocatorInv /\ init_memory => AllocatorInv'
<1> SUFFICES ASSUME AllocatorInv, init_memory PROVE AllocatorInv'
  OBVIOUS
<1> DEFINE all  == SetBits(bitmap, Frame)
           ram  == ClearBits(all, RamFrames)
           vip  == SetBits(ram, VipFrames)
           last == SetBits(vip, FirstMegabyte)
<1>1. bitmap' = last /\ ready' = TRUE /\ UNCHANGED <<result, held>> /\ held = {}
  BY DEF init_memory, AllocatorInv, BitmapInv
<1>2. bitmap \in [Byte -> SUBSET Bit]
  BY DEF AllocatorInv, TypeOK
<1>3. /\ all \in [Byte -> SUBSET Bit]
      /\ \A f \in Frame : f % 8 \in all[f \div 8]
  BY <1>2, SetManyBits
<1>4. /\ ram \in [Byte -> SUBSET Bit]
      /\ \A f \in Frame : f % 8 \in ram[f \div 8] <=> f \notin RamFrames
  BY <1>3, ClearManyBits, Ranges
<1>5. /\ vip \in [Byte -> SUBSET Bit]
      /\ \A f \in Frame : f % 8 \in vip[f \div 8] <=> (f \in VipFrames \/ f \notin RamFrames)
  BY <1>4, SetManyBits, Ranges
<1>6. /\ last \in [Byte -> SUBSET Bit]
      /\ \A f \in Frame : f % 8 \in last[f \div 8]
                        <=> (f \in FirstMegabyte \/ f \in VipFrames \/ f \notin RamFrames)
  BY <1>5, SetManyBits, Ranges
<1>7. TypeOK'
  BY <1>1, <1>6 DEF AllocatorInv, TypeOK
<1>8. BitmapInv'
  BY <1>1, <1>6 DEF BitmapInv, test_bit, Usable
<1>9. HeldInv'
  BY <1>1 DEF HeldInv
<1> QED
  BY <1>7, <1>8, <1>9 DEF AllocatorInv

LEMMA AllocateStep == AllocatorInv /\ allocate_frame => AllocatorInv'
<1> SUFFICES ASSUME AllocatorInv, allocate_frame PROVE AllocatorInv'
  OBVIOUS
<1> USE DEF AllocatorInv
<1>1. ready /\ UNCHANGED ready
  BY DEF allocate_frame
<1>2. ASSUME NEW i \in Frame, FirstFree(i), set_bit(i), result' = i * PAGE,
             held' = held \union {i}
      PROVE  AllocatorInv'
  <2>1. i \in Usable
    BY <1>1, <1>2 DEF BitmapInv, FirstFree
  <2>2. TypeOK'
    BY <1>1, <1>2, SetBit DEF TypeOK
  <2>3. BitmapInv'
    BY <1>1, <1>2, SetBit DEF BitmapInv
  <2>4. HeldInv'
    BY <1>2, <2>1 DEF HeldInv
  <2> QED
    BY <2>2, <2>3, <2>4
<1>3. ASSUME result' = 0, UNCHANGED <<bitmap, held>> PROVE AllocatorInv'
  <2>1. 0 \in Frame /\ 0 = 0 * PAGE
    BY FrameAssumption DEF Frame
  <2> QED
    BY <1>1, <1>3, <2>1 DEF TypeOK, BitmapInv, HeldInv, test_bit
<1> QED
  BY <1>2, <1>3 DEF allocate_frame

LEMMA FreeStep == ASSUME NEW g \in Frame, AllocatorInv, free_frame(g * PAGE) PROVE AllocatorInv'
<1> USE DEF AllocatorInv
<1>1. (g * PAGE) \div PAGE = g
  BY AddressOfFrame, FrameAssumption DEF Frame
<1>2. /\ ready /\ g \in held /\ clear_bit(g) /\ held' = held \ {g} /\ result' = None
      /\ UNCHANGED ready
  BY <1>1 DEF free_frame
<1>3. TypeOK'
  BY <1>2, ClearBit DEF TypeOK
<1>4. BitmapInv'
  BY <1>2, ClearBit DEF BitmapInv, HeldInv
<1>5. HeldInv'
  BY <1>2 DEF HeldInv
<1> QED
  BY <1>3, <1>4, <1>5

(* The bitmap says exactly which frames can be handed out, whatever        *)
(* sequence of calls has led there.                                        *)
THEOREM Invariance == Spec => []AllocatorInv
<1>1. AllocatorInv /\ [Next]_vars => AllocatorInv'
  <2> SUFFICES ASSUME AllocatorInv, [Next]_vars PROVE AllocatorInv'
    OBVIOUS
  <2>1. CASE UNCHANGED vars
    BY <2>1 DEF vars, AllocatorInv, TypeOK, BitmapInv, HeldInv, test_bit
  <2> QED
    BY <2>1, InitMemoryStep, AllocateStep, FreeStep DEF Next
<1> QED
  BY <1>1, InitAllocatorInv, PTL DEF Spec

(* Every variable keeps a value of the program.                            *)
THEOREM TypeCorrect == Spec => []TypeOK
  BY Invariance, PTL DEF AllocatorInv

(* memory.c:48-61: no frame with a byte of the kernel, of the first        *)
(* megabyte or beyond the RAM is ever handed out.                          *)
THEOREM Protection == Spec => []NothingPreciousHandedOut
<1>1. AllocatorInv => NothingPreciousHandedOut
  <2> SUFFICES ASSUME HeldInv, NEW f \in held
               PROVE  /\ ~ Overlaps(f, kernel_physical_start, kernel_physical_end)
                      /\ ~ Overlaps(f, 0, LowFrames * PAGE)
                      /\ (f + 1) * PAGE <= total_ram_bytes
    BY DEF AllocatorInv, NothingPreciousHandedOut
  <2>1. f \in Nat /\ f \in RamFrames /\ f \notin VipFrames /\ f \notin FirstMegabyte
    BY Ranges DEF HeldInv, Usable, Frame
  <2>2. (f + 1) * PAGE <= total_ram_bytes
    <3>1. f + 1 <= total_ram_bytes \div PAGE
      BY <2>1, FrameAssumption, Division DEF RamFrames
    <3> QED
      BY <2>1, <3>1, FrameAssumption, Division, ProductOrder
  <2>3. ~ Overlaps(f, 0, LowFrames * PAGE)
    BY <2>1, FrameAssumption, ProductOrder DEF Overlaps, FirstMegabyte, Frame
  <2>4. ~ Overlaps(f, kernel_physical_start, kernel_physical_end)
    <3> SUFFICES ASSUME f * PAGE < kernel_physical_end,
                        kernel_physical_start < (f + 1) * PAGE
                 PROVE  f \in VipFrames
      BY <2>1 DEF Overlaps
    <3>1. kernel_physical_start \div PAGE <= f
      <4> DEFINE q == kernel_physical_start \div PAGE
      <4>1. q \in Nat /\ q * PAGE <= kernel_physical_start
        BY FrameAssumption, Division
      <4>2. q * PAGE < (f + 1) * PAGE
        BY <2>1, <4>1, FrameAssumption
      <4> QED
        BY <2>1, <4>1, <4>2, FrameAssumption, ProductOrder
    <3>2. f <= (kernel_physical_end + PAGE - 1) \div PAGE
      <4> DEFINE q == (kernel_physical_end + PAGE - 1) \div PAGE
      <4>1. q \in Nat /\ kernel_physical_end + PAGE - 1 < (q + 1) * PAGE
        BY FrameAssumption, Division
      <4>2. f * PAGE < (q + 1) * PAGE
        BY <2>1, <4>1, FrameAssumption
      <4> QED
        BY <2>1, <4>1, <4>2, FrameAssumption, ProductOrder
    <3> QED
      BY <2>1, <3>1, <3>2, FrameAssumption DEF VipFrames
  <2> QED
    BY <2>2, <2>3, <2>4
<1> QED
  BY <1>1, Invariance, PTL

-----------------------------------------------------------------------------
(* The bitmap implements the pool: a failure really means that every       *)
(* usable frame is held, and a success that nobody held it.                *)
THEOREM Refinement == Spec => ImplementsPool
<1>1. Init => Pool!Init
  BY DEF Init, Pool!Init
<1>2. AllocatorInv /\ [Next]_vars => [Pool!Next]_(Pool!vars)
  <2> SUFFICES ASSUME AllocatorInv, [Next]_vars PROVE [Pool!Next]_(Pool!vars)
    OBVIOUS
  <2>1. CASE init_memory
    BY <2>1 DEF init_memory, Pool!Next, Pool!Open
  <2>2. CASE allocate_frame
    <3>1. ready /\ UNCHANGED ready
      BY <2>2 DEF allocate_frame
    <3>2. ASSUME NEW i \in Frame, FirstFree(i), result' = i * PAGE, held' = held \union {i}
          PROVE  Pool!Take
      <4>1. i \in Usable \ held
        BY <3>1, <3>2 DEF AllocatorInv, BitmapInv, FirstFree
      <4>2. result' \div PAGE = i /\ result' # None
        BY <3>2, AddressOfFrame, FrameAssumption DEF Frame
      <4> QED
        BY <3>1, <3>2, <4>1, <4>2 DEF Pool!Take
    <3>3. ASSUME \A i \in Frame : test_bit(i), result' = 0, UNCHANGED held
          PROVE  Pool!Fail
      <4>1. Usable \subseteq held
        BY <3>1, <3>3, Ranges DEF AllocatorInv, BitmapInv, Usable
      <4>2. 0 \div PAGE = 0 /\ 0 # None
        BY AddressOfFrame, FrameAssumption
      <4> QED
        BY <3>1, <3>3, <4>1, <4>2 DEF Pool!Fail
    <3> QED
      BY <2>2, <3>2, <3>3 DEF allocate_frame, Pool!Next
  <2>3. ASSUME NEW g \in Frame, free_frame(g * PAGE) PROVE Pool!Next
    <3>1. (g * PAGE) \div PAGE = g
      BY AddressOfFrame, FrameAssumption DEF Frame
    <3> QED
      BY <2>3, <3>1 DEF free_frame, Pool!Next, Pool!GiveBack
  <2>4. CASE UNCHANGED vars
    BY <2>4 DEF vars, Pool!vars
  <2> QED
    BY <2>1, <2>2, <2>3, <2>4 DEF Next
<1> QED
  BY <1>1, <1>2, Invariance, PTL DEF Spec, ImplementsPool, Pool!Spec

-----------------------------------------------------------------------------
(* kmain: which memory it never writes.  allocate_frame finds the lowest   *)
(* free frame, nothing is freed, and kmain takes two frames before the     *)
(* heap takes its first: what is below the heap is settled then.           *)

(* The nodes of the RAM disk are smaller than the memory below the screen, *)
(* into which they are written when malloc returns NULL.                   *)
FewFiles == NODE * MaxFiles <= Screen * PAGE /\ NODE <= PAGE /\ THREAD <= PAGE

Early == {"memory", "frame1", "frame2", "lock"}
Places == Early \union {"idle"} \union Request

Taken(f) == f \in Frame => test_bit(f)

(* The frames up to the kernel's end are taken from the first, the next    *)
(* two before the heap.                                                    *)
Settled ==
  /\ place # "memory" => \A f \in 0 .. KernelEnd : Taken(f)
  /\ place \notin {"memory", "frame1"} => Taken(KernelEnd + 1)
  /\ place \notin {"memory", "frame1", "frame2"} => Taken(KernelEnd + 2)

HeapAbove ==
  /\ heap \in Seq(Frame)
  /\ \A i \in 1 .. Len(heap) : heap[i] > KernelEnd + 2

WrittenOutside == \A f \in written : f \in Frame /\ (f < Screen \/ f > KernelEnd + 2)

Flow ==
  /\ place \in Places /\ need \in Nat
  /\ need > 0 => place \in Request
  /\ linked \in 0 .. NThreads
  /\ place # "idle" => linked < NThreads
  /\ loaded \in 0 .. LoadedPages /\ files \in 0 .. MaxFiles

BootInv == AllocatorInv /\ Settled /\ HeapAbove /\ WrittenOutside /\ Flow

-----------------------------------------------------------------------------
LEMMA Sizes ==
  /\ KernelEnd \in Nat /\ LowFrames <= KernelEnd
  /\ kernel_physical_start \div PAGE = LowFrames
  /\ LowFrames \in Nat
  /\ Screen \in Nat \ {0} /\ Screen < LowFrames
<1>1. /\ PAGE \in Nat \ {0} /\ LowFrames \in Nat /\ kernel_physical_end \in Nat
      /\ LowFrames * PAGE = kernel_physical_start /\ kernel_physical_start < kernel_physical_end
    BY BootMemoryAssumption, FrameAssumption
<1>2. \A l \in Nat, p \in Nat \ {0} : (l * p) \div p = l
    OBVIOUS
<1>3. \A l, e \in Nat, p \in Nat \ {0} :
        l * p < e => (e + p - 1) \div p \in Nat /\ l <= (e + p - 1) \div p
    <2> SUFFICES ASSUME NEW l \in Nat, NEW e \in Nat, NEW p \in Nat \ {0}, l * p < e
                 PROVE  (e + p - 1) \div p \in Nat /\ l <= (e + p - 1) \div p
        OBVIOUS
    <2> DEFINE q == (e + p - 1) \div p
    <2>1. q \in Nat /\ e + p - 1 < (q + 1) * p
        OBVIOUS
    <2>2. l * p < (q + 1) * p
        BY <2>1
    <2>3. l < q + 1
        BY <2>1, <2>2
    <2> QED
        BY <2>1, <2>3
<1> QED
    BY <1>1, <1>2, <1>3, BootMemoryAssumption DEF KernelEnd

(* What a call of allocate_frame does: it takes the lowest free frame, or  *)
(* there is none.                                                          *)
LEMMA Allocation ==
  ASSUME TypeOK, allocate_frame
  PROVE  /\ \A f \in Nat : Taken(f) => Taken(f)'
         /\ \A f \in Nat : (\A g \in 0 .. f - 1 : Taken(g)) => Taken(f)'
         /\ result' # 0 => \E i \in Frame : ~ Taken(i) /\ result' = i * PAGE
<1>1. ASSUME NEW i \in Frame, FirstFree(i), set_bit(i), result' = i * PAGE
      PROVE  /\ \A f \in Nat : Taken(f) => Taken(f)'
             /\ \A f \in Nat : (\A g \in 0 .. f - 1 : Taken(g)) => Taken(f)'
             /\ ~ Taken(i)
    <2>1. \A f \in Frame : test_bit(f)' <=> (f = i \/ test_bit(f))
        BY <1>1, SetBit
    <2>2. ~ test_bit(i) /\ \A j \in 0 .. i - 1 : test_bit(j)
        BY <1>1 DEF FirstFree
    <2>3. \A f \in Nat : Taken(f) => Taken(f)'
        BY <2>1 DEF Taken
    <2>4. ASSUME NEW f \in Nat, \A g \in 0 .. f - 1 : Taken(g) PROVE Taken(f)'
        <3>1. i \in Nat /\ (f \in Frame => f <= i \/ i \in 0 .. f - 1)
            BY FrameAssumption DEF Frame
        <3>2. ~ (i \in 0 .. f - 1)
            BY <2>2, <2>4 DEF Taken
        <3>3. CASE f = i
            BY <2>1, <3>3 DEF Taken
        <3>4. CASE f # i
            <4>1. f \in Frame => f \in 0 .. i - 1
                BY <3>1, <3>2, <3>4
            <4> QED
                BY <2>1, <2>2, <4>1 DEF Taken
        <3> QED
            BY <3>3, <3>4
    <2> QED
        BY <2>2, <2>3, <2>4 DEF Taken
<1>2. ASSUME \A i \in Frame : test_bit(i), result' = 0, UNCHANGED <<bitmap, held>>
      PROVE  \A f \in Nat : Taken(f)'
    BY <1>2 DEF Taken, test_bit
<1> QED
    BY <1>1, <1>2 DEF allocate_frame

(* So whoever calls it keeps what is settled.                              *)
LEMMA StillSettled ==
  ASSUME AllocatorInv, allocate_frame, Settled, place \notin Early, place' \notin Early
  PROVE  AllocatorInv' /\ Settled'
<1>1. KernelEnd \in Nat /\ TypeOK
    BY Sizes DEF AllocatorInv
<1>2. \A f \in 0 .. KernelEnd : f \in Nat
    OBVIOUS
<1>3. place # "memory" /\ place # "frame1" /\ place # "frame2"
    BY DEF Early
<1>4. Settled'
    BY <1>1, <1>2, <1>3, Allocation DEF Settled
<1> QED
    BY <1>4, AllocateStep

(* Where the allocator is not called.                                      *)
LEMMA NoCall ==
  ASSUME UNCHANGED vars
  PROVE  (AllocatorInv => AllocatorInv') /\ \A f : Taken(f)' <=> Taken(f)
<1>1. UNCHANGED <<bitmap, ready, result, held>>
    BY DEF vars
<1> QED
    BY <1>1 DEF AllocatorInv, TypeOK, BitmapInv, HeldInv, Taken, test_bit

LEMMA InitHolds == BootInit => BootInv
<1> SUFFICES ASSUME BootInit PROVE BootInv
    OBVIOUS
<1>1. AllocatorInv
    BY InitAllocatorInv DEF BootInit
<1>2. Settled /\ HeapAbove /\ WrittenOutside
    BY DEF BootInit, Settled, HeapAbove, WrittenOutside
<1>3. Flow
    BY BootMemoryAssumption DEF BootInit, Flow, Places, Early
<1> QED
    BY <1>1, <1>2, <1>3 DEF BootInv

LEMMA CallInitMemoryStep ==
  ASSUME BootInv, CallInitMemory PROVE BootInv'
<1>1. /\ init_memory /\ place = "memory" /\ place' = "frame1"
      /\ UNCHANGED <<loaded, files, need, heap, linked, written>>
    BY DEF CallInitMemory
<1>2. AllocatorInv' /\ ready'
    BY <1>1, InitMemoryStep DEF BootInv, init_memory
<1>3. ASSUME NEW f \in 0 .. KernelEnd PROVE Taken(f)'
    <2>1. f \in FirstMegabyte \/ f \in VipFrames
        BY Sizes DEF FirstMegabyte, VipFrames, KernelEnd
    <2> QED
        BY <1>2, <2>1 DEF AllocatorInv, BitmapInv, Usable, Taken
<1>4. Settled'
    BY <1>1, <1>3 DEF Settled
<1> QED
    BY <1>1, <1>2, <1>4 DEF BootInv, HeapAbove, WrittenOutside, Flow, Places, Early, Request

LEMMA SpareStep ==
  ASSUME BootInv, Spare PROVE BootInv'
<1>1. /\ allocate_frame /\ UNCHANGED <<loaded, files, need, heap, linked, written>>
      /\ \/ place = "frame1" /\ place' = "frame2"
         \/ place = "frame2" /\ place' = "lock"
    BY DEF Spare
<1>2. AllocatorInv' /\ (\A f \in Nat : Taken(f) => Taken(f)')
      /\ \A f \in Nat : (\A g \in 0 .. f - 1 : Taken(g)) => Taken(f)'
    BY <1>1, Allocation, AllocateStep DEF BootInv, AllocatorInv
<1>3. KernelEnd \in Nat
    BY Sizes
<1>4. \A g \in 0 .. KernelEnd : Taken(g)
    BY <1>1 DEF BootInv, Settled
<1>5. \A g \in 0 .. KernelEnd : Taken(g)'
    BY <1>2, <1>3, <1>4
<1>6. Taken(KernelEnd + 1)'
    BY <1>2, <1>3, <1>4
<1>7. place = "frame2" => Taken(KernelEnd + 2)'
    <2> SUFFICES ASSUME place = "frame2" PROVE Taken(KernelEnd + 2)'
        OBVIOUS
    <2>1. Taken(KernelEnd + 1)
        BY DEF BootInv, Settled
    <2>2. \A g \in 0 .. (KernelEnd + 2) - 1 : Taken(g)
        BY <1>3, <1>4, <2>1
    <2> QED
        BY <1>2, <1>3, <2>2
<1>8. Settled'
    BY <1>1, <1>5, <1>6, <1>7 DEF Settled
<1> QED
    BY <1>1, <1>2, <1>8 DEF BootInv, HeapAbove, WrittenOutside, Flow, Places, Early, Request

LEMMA UnlockStep ==
  ASSUME BootInv, Unlock PROVE BootInv'
<1>1. /\ place = "lock" /\ place' \in {"root", "thread"}
      /\ UNCHANGED <<vars, loaded, files, need, heap, linked, written>>
    BY DEF Unlock
<1>2. AllocatorInv' /\ Settled'
    BY <1>1, NoCall DEF BootInv, Settled
<1> QED
    BY <1>1, <1>2 DEF BootInv, HeapAbove, WrittenOutside, Flow, Places, Early, Request

-----------------------------------------------------------------------------
LEMMA After ==
  ASSUME place \in Request, linked \in 0 .. NThreads, linked < NThreads, Continue
  PROVE  /\ place' \in Places /\ place' \notin Early
         /\ linked' \in 0 .. NThreads /\ (place' # "idle" => linked' < NThreads)
BY BootMemoryAssumption DEF Continue, Request, Places, Early

LEMMA InHeap ==
  ASSUME HeapAbove
  PROVE  DOMAIN heap = 1 .. Len(heap) /\ Len(heap) \in Nat
         /\ \A i \in 1 .. Len(heap) : heap[i] \in Frame /\ heap[i] > KernelEnd + 2
BY DEF HeapAbove

LEMMA ServeStep ==
  ASSUME BootInv, Serve PROVE BootInv'
<1>1. /\ place \in Request /\ need = 0 /\ Continue
      /\ written' = written \union {heap[i] : i \in DOMAIN heap}
      /\ UNCHANGED <<vars, loaded, files, need, heap>>
    BY DEF Serve
<1>2. /\ place' \in Places /\ place' \notin Early /\ place \notin Early
      /\ linked' \in 0 .. NThreads /\ (place' # "idle" => linked' < NThreads)
    BY <1>1, After DEF BootInv, Flow, Request, Early
<1>3. WrittenOutside'
    BY <1>1, InHeap DEF BootInv, WrittenOutside
<1>4. AllocatorInv' /\ Settled'
    BY <1>1, <1>2, NoCall DEF BootInv, Settled, Early
<1> QED
    BY <1>1, <1>2, <1>3, <1>4 DEF BootInv, HeapAbove, Flow

LEMMA PagesType ==
  ASSUME Flow, place \in Request PROVE Bytes(place) \in Nat /\ Pages(Bytes(place)) \in Nat
<1>1. /\ PAGE \in Nat \ {0} /\ HEADER \in Nat \ {0} /\ NODE \in Nat /\ THREAD \in Nat /\ files \in Nat
    BY BootMemoryAssumption, FrameAssumption DEF Flow
<1>2. NODE * files \in Nat
    BY <1>1
<1>3. Bytes(place) \in Nat
    BY <1>1, <1>2 DEF Bytes, Request
<1>4. ASSUME NEW n \in Nat PROVE Pages(n) \in Nat
    <2>1. Units(n) \in Nat
        BY <1>1 DEF Units
    <2>2. Units(n) * HEADER \in Nat
        BY <1>1, <2>1
    <2> QED
        BY <1>1, <2>2 DEF Pages
<1> QED
    BY <1>3, <1>4

LEMMA GrowStep ==
  ASSUME BootInv, Grow PROVE BootInv'
<1>1. place \in Request /\ need' = Pages(Bytes(place))
      /\ UNCHANGED <<vars, place, loaded, files, heap, linked, written>>
    BY DEF Grow
<1>2. need' \in Nat
    BY <1>1, PagesType DEF BootInv
<1>3. AllocatorInv' /\ Settled'
    BY <1>1, NoCall DEF BootInv, Settled
<1> QED
    BY <1>1, <1>2, <1>3 DEF BootInv, HeapAbove, WrittenOutside, Flow

(* The frame of a new page is above what was settled.                      *)
LEMMA MapPageStep ==
  ASSUME BootInv, MapPage PROVE BootInv'
<1>1. /\ need > 0 /\ need' = need - 1 /\ allocate_frame /\ result' # 0
      /\ heap' = Append(heap, result' \div PAGE) /\ UNCHANGED <<loaded, files>>
    BY DEF MapPage
<1>2. place \in Request /\ place \notin Early /\ need \in Nat
    BY <1>1 DEF BootInv, Flow, Request, Early
<1>3. PICK i \in Frame : ~ Taken(i) /\ result' = i * PAGE
    BY <1>1, Allocation DEF BootInv, AllocatorInv
<1>4. i \in Nat /\ result' \div PAGE = i
    <2>1. PAGE \in Nat \ {0} /\ i \in Nat
        BY FrameAssumption DEF Frame
    <2>2. \A l \in Nat, p \in Nat \ {0} : (l * p) \div p = l
        OBVIOUS
    <2> QED
        BY <1>3, <2>1, <2>2
<1>5. i > KernelEnd + 2
    <2>1. /\ \A f \in 0 .. KernelEnd : Taken(f)
          /\ Taken(KernelEnd + 1) /\ Taken(KernelEnd + 2)
        BY <1>2 DEF BootInv, Settled, Early
    <2> QED
        BY <1>3, <1>4, <2>1, Sizes
<1>6. HeapAbove'
    <2>1. heap \in Seq(Frame) /\ heap' = Append(heap, i)
        BY <1>1, <1>4 DEF BootInv, HeapAbove
    <2>2. heap' \in Seq(Frame) /\ Len(heap') = Len(heap) + 1
        BY <2>1
    <2>3. ASSUME NEW j \in 1 .. Len(heap') PROVE heap'[j] > KernelEnd + 2
        <3>1. CASE j = Len(heap) + 1
            BY <1>5, <2>1, <3>1
        <3>2. CASE j # Len(heap) + 1
            <4>1. j \in 1 .. Len(heap) /\ heap'[j] = heap[j]
                BY <2>1, <2>2, <3>2
            <4> QED
                BY <4>1 DEF BootInv, HeapAbove
        <3> QED
            BY <3>1, <3>2
    <2> QED
        BY <2>2, <2>3 DEF HeapAbove
<1>7. /\ place' \in Places /\ place' \notin Early /\ (need' > 0 => place' \in Request)
      /\ linked' \in 0 .. NThreads /\ (place' # "idle" => linked' < NThreads)
    <2>1. linked \in 0 .. NThreads /\ linked < NThreads /\ place \in Places
        BY <1>2 DEF BootInv, Flow, Request
    <2>2. CASE need = 1
        BY <1>1, <1>2, <2>1, <2>2, After DEF MapPage
    <2>3. CASE need # 1
        BY <1>1, <1>2, <2>1, <2>3 DEF MapPage
    <2> QED
        BY <2>2, <2>3
<1>8. WrittenOutside'
    <2>1. written' = written \/ written' = written \union {heap'[j] : j \in DOMAIN heap'}
        BY DEF MapPage
    <2>2. \A j \in DOMAIN heap' : heap'[j] \in Frame /\ heap'[j] > KernelEnd + 2
        BY <1>6 DEF HeapAbove
    <2> QED
        BY <2>1, <2>2 DEF BootInv, WrittenOutside
<1>9. AllocatorInv' /\ Settled'
    BY <1>1, <1>2, <1>7, StillSettled DEF BootInv
<1>10. need' \in Nat
    BY <1>1, <1>2
<1> QED
    BY <1>1, <1>6, <1>7, <1>8, <1>9, <1>10 DEF BootInv, Flow

(* NULL is filled below the screen, or in the first page of the heap.      *)
LEMMA OutOfFramesStep ==
  ASSUME FewFiles, BootInv, OutOfFrames PROVE BootInv'
<1>1. /\ need > 0 /\ need' = 0 /\ allocate_frame /\ Continue
      /\ written' = written \union {FrameBehind(page) : page \in 0 .. (Bytes(place) - 1) \div PAGE}
      /\ UNCHANGED <<loaded, files, heap>>
    BY DEF OutOfFrames
<1>2. place \in Request /\ place \notin Early
    BY <1>1 DEF BootInv, Flow, Request, Early
<1>3. /\ place' \in Places /\ place' \notin Early
      /\ linked' \in 0 .. NThreads /\ (place' # "idle" => linked' < NThreads)
    BY <1>1, <1>2, After DEF BootInv, Flow, Request
<1>4. ASSUME NEW page \in 0 .. (Bytes(place) - 1) \div PAGE
      PROVE  FrameBehind(page) \in Frame /\ (FrameBehind(page) < Screen \/ FrameBehind(page) > KernelEnd + 2)
    <2>1. Bytes(place) \in Nat /\ Bytes(place) <= Screen * PAGE
        <3>1. /\ PAGE \in Nat \ {0} /\ Screen \in Nat \ {0} /\ NODE \in Nat /\ files \in 0 .. MaxFiles
              /\ MaxFiles \in Nat /\ THREAD \in Nat
            BY <1>2, Sizes, BootMemoryAssumption, FrameAssumption DEF BootInv, Flow
        <3>2. \A l, p \in Nat \ {0} : p <= l * p
            OBVIOUS
        <3>3. \A n, f, m \in Nat : f <= m => n * f <= n * m
            OBVIOUS
        <3>4. NODE * files <= NODE * MaxFiles /\ NODE * files \in Nat /\ NODE * MaxFiles \in Nat
            BY <3>1, <3>3
        <3>5. PAGE <= Screen * PAGE /\ Screen * PAGE \in Nat
            BY <3>1, <3>2
        <3> QED
            BY <1>2, <3>1, <3>4, <3>5 DEF FewFiles, Bytes, Request
    <2>2. page \in Nat /\ page < Screen
        <3>1. \A b, l \in Nat, p \in Nat \ {0} : b <= l * p => (b - 1) \div p < l
            <4> SUFFICES ASSUME NEW b \in Nat, NEW l \in Nat, NEW p \in Nat \ {0}, b <= l * p
                         PROVE  (b - 1) \div p < l
                OBVIOUS
            <4> DEFINE q == (b - 1) \div p
            <4>1. q \in Int /\ q * p <= b - 1
                OBVIOUS
            <4>2. q * p < l * p
                BY <4>1
            <4> QED
                BY <4>1, <4>2
        <3>2. (Bytes(place) - 1) \div PAGE \in Int
            BY <2>1, FrameAssumption
        <3> QED
            BY <2>1, <3>1, <3>2, Sizes, FrameAssumption
    <2>3. CASE page < Len(heap)
        <3>1. page + 1 \in 1 .. Len(heap)
            BY <2>2, <2>3, InHeap DEF BootInv
        <3>2. heap[page + 1] \in Frame /\ heap[page + 1] > KernelEnd + 2
            BY <3>1, InHeap DEF BootInv
        <3> QED
            BY <2>3, <3>2 DEF FrameBehind
    <2>4. CASE ~ (page < Len(heap))
        BY <2>2, <2>4, Sizes, FrameAssumption DEF FrameBehind, Frame
    <2> QED
        BY <2>3, <2>4
<1>5. WrittenOutside'
    BY <1>1, <1>4 DEF BootInv, WrittenOutside
<1>6. AllocatorInv' /\ Settled'
    BY <1>1, <1>2, <1>3, StillSettled DEF BootInv
<1> QED
    BY <1>1, <1>3, <1>5, <1>6 DEF BootInv, HeapAbove, Flow

LEMMA StutterStep ==
  ASSUME BootInv, UNCHANGED kmain_vars PROVE BootInv'
<1>1. UNCHANGED <<vars, place, loaded, files, need, heap, linked, written>>
    BY DEF kmain_vars
<1>2. AllocatorInv' /\ Settled'
    BY <1>1, NoCall DEF BootInv, Settled
<1> QED
    BY <1>1, <1>2 DEF BootInv, HeapAbove, WrittenOutside, Flow

LEMMA BootInvariance == ASSUME FewFiles PROVE BootSpec => []BootInv
<1>1. BootInv /\ [BootNext]_kmain_vars => BootInv'
    BY CallInitMemoryStep, SpareStep, UnlockStep, ServeStep, GrowStep, MapPageStep, OutOfFramesStep,
       StutterStep DEF BootNext, Done
<1> QED
    BY InitHolds, <1>1, PTL DEF BootSpec

(* Every variable of kmain keeps a value of the program: no more threads   *)
(* are linked than create_thread has made, and what is filled is a frame.  *)
THEOREM BootTypeCorrect == ASSUME FewFiles PROVE BootSpec => []BootTypeOK
<1>1. BootInv => BootTypeOK
    BY DEF BootInv, AllocatorInv, HeapAbove, WrittenOutside, Flow, Places, Early, BootTypeOK
<1> QED
    BY <1>1, BootInvariance, PTL

(* initrd.c and terminal.c read the image as long as the kernel runs: if   *)
(* the loader has filled no more than three pages, nothing ever writes     *)
(* into them.                                                              *)
THEOREM SmallImageKept == ASSUME FewFiles, LoadedPages <= 3 PROVE BootSpec => []ImageKept
<1>1. BootInv => ImageKept
    <2> SUFFICES ASSUME BootInv, NEW f \in written, f \in Loaded(loaded) PROVE FALSE
        BY DEF ImageKept
    <2>1. loaded \in 0 .. 3
        BY BootMemoryAssumption DEF BootInv, Flow
    <2>2. PICK i \in 0 .. loaded - 1 : f = KernelEnd + i
        BY DEF Loaded
    <2>3. f >= KernelEnd /\ f <= KernelEnd + 2
        BY <2>1, <2>2, Sizes
    <2> QED
        BY <2>3, Sizes, FrameAssumption DEF BootInv, WrittenOutside, Frame
<1> QED
    BY <1>1, BootInvariance, PTL

(* memory.c:48, 55: "Protect the VIP!", "the BIOS and your VGA Screen!"    *)
(* Neither the kernel nor the screen is ever written through the heap, nor *)
(* through a NULL that malloc has returned.                                *)
THEOREM KernelUntouched == ASSUME FewFiles PROVE BootSpec => []KernelKept
<1>1. BootInv => KernelKept
    BY Sizes, FrameAssumption DEF BootInv, WrittenOutside, KernelKept, KernelFrames, Frame
<1> QED
    BY <1>1, BootInvariance, PTL

-----------------------------------------------------------------------------
(***************************************************************************)
(* The devices.  The invariant says of each register what it holds at each *)
(* place of kmain's code; the code itself is a sequence, and the first     *)
(* lemmas take it apart, instruction by instruction.                       *)
(***************************************************************************)

(* The instructions before the greeting, and the one that ends it.         *)
Greeted == 19 + 2 * Len(Greeting)

(* The divisor of the 8254.                                                *)
Count == 1193180 \div Frequency
Low   == Count % 256
High  == (Count \div 256) % 256

(* A handler's instructions, and what is left of them.                     *)
Ack  == <<Out(32, 32), Do("iret")>>
Left == {<<>>, <<Do("iret")>>, Ack, <<In(96), Out(32, 32), Do("iret")>>}

(* Interrupts are off until the greeting is written, and in a handler.     *)
Quiet ==
  /\ handler \in Left
  /\ handler # <<>> => ~ intf
  /\ pc <= Greeted + 1 => up /\ ~ intf /\ handler = <<>>

(* The tables stand from their instructions on.                            *)
TablesByPlace ==
  /\ pc > 1 => "lgdt" \in tables
  /\ pc > 11 => "lidt" \in tables
  /\ pc > 8 => 32 \in idt
  /\ pc > 9 => 33 \in idt

(* The UART takes characters from the end of its configuration on, at the  *)
(* speed of the divisor.                                                   *)
SpeedByPlace ==
  /\ uart.dlm \in FirmwareDlm
  /\ pc \in 3 .. 5 => uart.dlab
  /\ pc > 5 => ~ uart.dlab
  /\ pc > 4 => uart.dll = 3

(* How many characters kmain has written when it is at k.                  *)
WrittenAt(k) == IF k <= 20 THEN 0 ELSE IF k <= Greeted THEN (k - 20) \div 2 ELSE Len(Greeting)

(* Which character an instruction of kmain writes.                         *)
Slot(k) == (k - 19) \div 2

(* They are what has left the port and what waits in it; between a wait    *)
(* and its character nothing waits.                                        *)
SentByPlace ==
  /\ Len(line) + Len(uart.queue) = WrittenAt(pc)
  /\ \A i \in 1 .. Len(line) : line[i] = Greeting[i]
  /\ \A i \in 1 .. Len(uart.queue) : uart.queue[i] = Greeting[Len(line) + i]
  /\ pc \in 20 .. Greeted /\ pc % 2 = 1 => uart.queue = <<>>

(* The initialisation of each 8259, word by word.                          *)
ControllersByPlace ==
  /\ pic[1].next = IF pc <= 12 THEN "firmware" ELSE IF pc <= 14 THEN "icw2"
                   ELSE IF pc <= 16 THEN "icw3" ELSE IF pc <= 18 THEN "icw4" ELSE "ready"
  /\ pic[2].next = IF pc <= 13 THEN "firmware" ELSE IF pc <= 15 THEN "icw2"
                   ELSE IF pc <= 17 THEN "icw3" ELSE IF pc <= 19 THEN "icw4" ELSE "ready"
  /\ pic[1].base = IF pc <= 14 THEN 8 ELSE 32
  /\ pic[2].base = IF pc <= 15 THEN 112 ELSE 40

(* The two bytes of the timer's count.                                     *)
CountByPlace ==
  /\ pc = Greeted + 5 => pit.byte = "low"
  /\ pc = Greeted + 6 => pit.byte = "high" /\ pit.low = Low
  /\ pc > Greeted + 6 => pit.count = 256 * High + Low

(* If only the timer and the keyboard interrupt, each interrupt has a gate.*)
OnlyOurs ==
  Lines \subseteq {0} => up /\ pic[1].irr \subseteq {0, 1} /\ pic[2].irr = {}

DevicesInv ==
  /\ DevicesTypeOK /\ Quiet /\ TablesByPlace /\ SpeedByPlace /\ SentByPlace
  /\ ControllersByPlace /\ CountByPlace /\ OnlyOurs

-----------------------------------------------------------------------------
(* A sequence in front of another.                                         *)
LEMMA Joined ==
  ASSUME NEW S, NEW s \in Seq(S), NEW t \in Seq(S)
  PROVE  /\ s \o t \in Seq(S) /\ Len(s \o t) = Len(s) + Len(t)
         /\ \A k \in 1 .. Len(s) : (s \o t)[k] = s[k]
         /\ \A k \in Len(s) + 1 .. Len(s) + Len(t) : (s \o t)[k] = t[k - Len(s)]
<1>1. Len(s) \in Nat /\ Len(t) \in Nat
    OBVIOUS
<1>2. \A k \in 1 .. Len(s) + Len(t) : (s \o t)[k] = IF k <= Len(s) THEN s[k] ELSE t[k - Len(s)]
    BY ConcatProperties
<1>3. s \o t \in Seq(S) /\ Len(s \o t) = Len(s) + Len(t)
    BY ConcatProperties
<1> QED
    BY <1>1, <1>2, <1>3

(* An element behind a sequence.                                           *)
LEMMA Followed ==
  ASSUME NEW S, NEW s \in Seq(S), NEW e \in S
  PROVE  /\ s \o <<e>> \in Seq(S) /\ Len(s \o <<e>>) = Len(s) + 1
         /\ \A k \in 1 .. Len(s) : (s \o <<e>>)[k] = s[k]
         /\ (s \o <<e>>)[Len(s) + 1] = e
<1>1. <<e>> \in Seq(S) /\ Len(<<e>>) = 1 /\ <<e>>[1] = e
    OBVIOUS
<1>2. Len(s) \in Nat
    OBVIOUS
<1>3. /\ s \o <<e>> \in Seq(S) /\ Len(s \o <<e>>) = Len(s) + Len(<<e>>)
      /\ \A k \in 1 .. Len(s) : (s \o <<e>>)[k] = s[k]
      /\ \A k \in Len(s) + 1 .. Len(s) + Len(<<e>>) : (s \o <<e>>)[k] = <<e>>[k - Len(s)]
    BY <1>1, Joined
<1> QED
    BY <1>1, <1>2, <1>3

Op == {"lgdt", "lidt", "gate", "out", "in", "wait", "sti", "cli", "iret", "locked"}

Instruction == {<<op, port, v>> : op \in Op, port \in Nat, v \in Nat}

(* What the helpers build are instructions.                                *)
LEMMA Instructions ==
  /\ \A port, v \in Nat : Out(port, v) \in Instruction
  /\ \A op \in Op : Do(op) \in Instruction
  /\ \A n \in Nat : Gate(n) \in Instruction
<1>1. "out" \in Op /\ "gate" \in Op /\ 0 \in Nat
    BY DEF Op
<1> QED
    BY <1>1 DEF Out, Do, Gate, Instruction

(* The places of the code, and the bytes it sends, are numbers.            *)
LEMMA Numbers ==
  /\ Len(Greeting) \in Nat /\ Greeted \in Nat /\ Greeted >= 19
  /\ Greeting \in Seq(1 .. 255) /\ Frequency \in Nat /\ Frequency > 0
  /\ Count \in Nat /\ Low \in 0 .. 255 /\ High \in 0 .. 255
  /\ FIFO \in Nat /\ FIFO > 0
<1>1. /\ Greeting \in Seq(1 .. 255) /\ Frequency \in Nat /\ Frequency > 0 /\ FIFO \in Nat /\ FIFO > 0
    BY DevicesAssumption
<1>2. Len(Greeting) \in Nat /\ Greeted \in Nat /\ Greeted >= 19
    BY <1>1 DEF Greeted
<1>3. Count \in Nat
    BY <1>1 DEF Count
<1>4. Low \in 0 .. 255 /\ High \in 0 .. 255
    BY <1>3 DEF Low, High
<1> QED
    BY <1>1, <1>2, <1>3, <1>4

(* What kmain does before it greets.                                       *)
Configured == <<Do("lgdt")>> \o serial_init \o init_idt \o pic_init

(* kmain up to the greeting, instruction by instruction.                   *)
LEMMA Configuration ==
  /\ Configured \in Seq(Instruction) /\ Len(Configured) = 19 /\ Configured[1] = Do("lgdt")
  /\ Configured[2] = Out(1019, 128) /\ Configured[3] = Out(1016, 0)
  /\ Configured[4] = Out(1016, 3) /\ Configured[5] = Out(1019, 3)
  /\ Configured[6] = Out(1020, 11) /\ Configured[7] = Out(1018, 199) /\ Configured[8] = Gate(32)
  /\ Configured[9] = Gate(33) /\ Configured[10] = Gate(128) /\ Configured[11] = Do("lidt")
  /\ Configured[12] = Out(32, 17) /\ Configured[13] = Out(160, 17)
  /\ Configured[14] = Out(33, 32) /\ Configured[15] = Out(161, 40)
  /\ Configured[16] = Out(33, 4) /\ Configured[17] = Out(161, 2) /\ Configured[18] = Out(33, 1)
  /\ Configured[19] = Out(161, 1)
<1> DEFINE a == <<Do("lgdt")>>
           b == serial_init
           c == a \o b
           d == c \o init_idt
           e == d \o pic_init
<1>0. Do("lgdt") \in Instruction /\ Do("lidt") \in Instruction
    BY Instructions DEF Op
<1>1. a \in Seq(Instruction) /\ Len(a) = 1 /\ a[1] = Do("lgdt")
    BY <1>0
<1>2. /\ b \in Seq(Instruction) /\ Len(b) = 6
      /\ b[1] = Out(1019, 128) /\ b[2] = Out(1016, 0) /\ b[3] = Out(1016, 3)
      /\ b[4] = Out(1019, 3) /\ b[5] = Out(1020, 11) /\ b[6] = Out(1018, 199)
    <2>1. serial_configure_baud_rate(3) = <<Out(1019, 128), Out(1016, 0), Out(1016, 3)>>
        BY DEF serial_configure_baud_rate, DATA, LINE_COMMAND
    <2>2. /\ serial_configure_line = <<Out(1019, 3)>> /\ serial_configure_modem = <<Out(1020, 11)>>
          /\ serial_configure_buffers = <<Out(1018, 199)>>
        BY DEF serial_configure_line, serial_configure_modem, serial_configure_buffers, DATA,
               LINE_COMMAND, MODEM_COMMAND, FIFO_COMMAND
    <2> DEFINE u == serial_configure_baud_rate(3)
               v == u \o serial_configure_line
               w == v \o serial_configure_modem
               x == w \o serial_configure_buffers
    <2>3. /\ u \in Seq(Instruction) /\ Len(u) = 3
          /\ u[1] = Out(1019, 128) /\ u[2] = Out(1016, 0) /\ u[3] = Out(1016, 3)
        <3>1. Out(1019, 128) \in Instruction /\ Out(1016, 0) \in Instruction /\ Out(1016, 3) \in Instruction
            BY Instructions
        <3> DEFINE l == <<Out(1019, 128), Out(1016, 0), Out(1016, 3)>>
        <3>2. /\ l \in Seq(Instruction) /\ Len(l) = 3
              /\ l[1] = Out(1019, 128) /\ l[2] = Out(1016, 0) /\ l[3] = Out(1016, 3)
            BY <3>1
        <3>3. u = l
            BY <2>1
        <3> HIDE DEF l, u
        <3> QED
            BY <3>2, <3>3
    <2> HIDE DEF u
    <2>4. /\ v \in Seq(Instruction) /\ Len(v) = 4 /\ v[4] = Out(1019, 3)
          /\ \A k \in 1 .. 3 : v[k] = u[k]
        <3>1. v = u \o <<Out(1019, 3)>>
            BY <2>2
        <3>2. Out(1019, 3) \in Instruction
            BY Instructions
        <3>3. /\ u \o <<Out(1019, 3)>> \in Seq(Instruction) /\ Len(u \o <<Out(1019, 3)>>) = Len(u) + 1
              /\ \A k \in 1 .. Len(u) : (u \o <<Out(1019, 3)>>)[k] = u[k]
              /\ (u \o <<Out(1019, 3)>>)[Len(u) + 1] = Out(1019, 3)
            <4>1. u \in Seq(Instruction)
                BY <2>3
            <4> QED
                BY <3>2, <4>1, Followed
        <3> HIDE DEF v
        <3> QED
            BY <2>3, <3>1, <3>3
    <2> HIDE DEF v
    <2>5. /\ w \in Seq(Instruction) /\ Len(w) = 5 /\ w[5] = Out(1020, 11)
          /\ \A k \in 1 .. 4 : w[k] = v[k]
        <3>1. w = v \o <<Out(1020, 11)>>
            BY <2>2
        <3>2. Out(1020, 11) \in Instruction
            BY Instructions
        <3>3. /\ v \o <<Out(1020, 11)>> \in Seq(Instruction) /\ Len(v \o <<Out(1020, 11)>>) = Len(v) + 1
              /\ \A k \in 1 .. Len(v) : (v \o <<Out(1020, 11)>>)[k] = v[k]
              /\ (v \o <<Out(1020, 11)>>)[Len(v) + 1] = Out(1020, 11)
            <4>1. v \in Seq(Instruction)
                BY <2>4
            <4> QED
                BY <3>2, <4>1, Followed
        <3> HIDE DEF w
        <3> QED
            BY <2>4, <3>1, <3>3
    <2> HIDE DEF w
    <2>6. /\ x \in Seq(Instruction) /\ Len(x) = 6 /\ x[6] = Out(1018, 199)
          /\ \A k \in 1 .. 5 : x[k] = w[k]
        <3>1. x = w \o <<Out(1018, 199)>>
            BY <2>2
        <3>2. Out(1018, 199) \in Instruction
            BY Instructions
        <3>3. /\ w \o <<Out(1018, 199)>> \in Seq(Instruction) /\ Len(w \o <<Out(1018, 199)>>) = Len(w) + 1
              /\ \A k \in 1 .. Len(w) : (w \o <<Out(1018, 199)>>)[k] = w[k]
              /\ (w \o <<Out(1018, 199)>>)[Len(w) + 1] = Out(1018, 199)
            <4>1. w \in Seq(Instruction)
                BY <2>5
            <4> QED
                BY <3>2, <4>1, Followed
        <3> HIDE DEF x
        <3> QED
            BY <2>5, <3>1, <3>3
    <2>7. b = x
        BY DEF serial_init, u, v, w
    <2> HIDE DEF x, b
    <2> QED
        BY <2>3, <2>4, <2>5, <2>6, <2>7
<1>3. /\ init_idt \in Seq(Instruction) /\ Len(init_idt) = 4
      /\ init_idt[1] = Gate(32) /\ init_idt[2] = Gate(33) /\ init_idt[3] = Gate(128)
      /\ init_idt[4] = Do("lidt")
    BY <1>0, Instructions DEF init_idt
<1>4. /\ pic_init \in Seq(Instruction) /\ Len(pic_init) = 8
      /\ pic_init[1] = Out(32, 17) /\ pic_init[2] = Out(160, 17) /\ pic_init[3] = Out(33, 32)
      /\ pic_init[4] = Out(161, 40) /\ pic_init[5] = Out(33, 4) /\ pic_init[6] = Out(161, 2)
      /\ pic_init[7] = Out(33, 1) /\ pic_init[8] = Out(161, 1)
    <2>1. COMMAND(1) = 32 /\ COMMAND(2) = 160 /\ DATAPORT(1) = 33 /\ DATAPORT(2) = 161
        BY DEF COMMAND, DATAPORT
    <2>2. pic_init = <<Out(32, 17), Out(160, 17), Out(33, 32), Out(161, 40), Out(33, 4), Out(161, 2),
                       Out(33, 1), Out(161, 1)>>
        BY <2>1 DEF pic_init, PIC1_START, PIC2_START
    <2> QED
        BY <2>2, Instructions
<1> HIDE DEF a, b
<1>s. /\ a \in Seq(Instruction) /\ b \in Seq(Instruction)
      /\ init_idt \in Seq(Instruction) /\ pic_init \in Seq(Instruction)
    BY <1>1, <1>2, <1>3, <1>4
<1>5. /\ c \in Seq(Instruction) /\ Len(c) = 7 /\ c[1] = a[1]
      /\ c[2] = b[1] /\ c[3] = b[2] /\ c[4] = b[3] /\ c[5] = b[4] /\ c[6] = b[5] /\ c[7] = b[6]
    <2>1. /\ c \in Seq(Instruction) /\ Len(c) = Len(a) + Len(b)
          /\ \A k \in 1 .. Len(a) : c[k] = a[k]
          /\ \A k \in Len(a) + 1 .. Len(a) + Len(b) : c[k] = b[k - Len(a)]
        BY <1>s, Joined
    <2> HIDE DEF c
    <2> QED
        BY <1>1, <1>2, <2>1
<1> HIDE DEF c
<1>6. /\ d \in Seq(Instruction) /\ Len(d) = 11 /\ \A k \in 1 .. 7 : d[k] = c[k]
      /\ d[8] = init_idt[1] /\ d[9] = init_idt[2] /\ d[10] = init_idt[3] /\ d[11] = init_idt[4]
    <2>1. /\ d \in Seq(Instruction) /\ Len(d) = Len(c) + Len(init_idt)
          /\ \A k \in 1 .. Len(c) : d[k] = c[k]
          /\ \A k \in Len(c) + 1 .. Len(c) + Len(init_idt) : d[k] = init_idt[k - Len(c)]
        <3>1. c \in Seq(Instruction)
            BY <1>5
        <3> QED
            BY <1>s, <3>1, Joined
    <2> HIDE DEF d
    <2> QED
        BY <1>3, <1>5, <2>1
<1> HIDE DEF d
<1>7. /\ e \in Seq(Instruction) /\ Len(e) = 19 /\ \A k \in 1 .. 11 : e[k] = d[k]
      /\ e[12] = pic_init[1] /\ e[13] = pic_init[2] /\ e[14] = pic_init[3] /\ e[15] = pic_init[4]
      /\ e[16] = pic_init[5] /\ e[17] = pic_init[6] /\ e[18] = pic_init[7] /\ e[19] = pic_init[8]
    <2>1. /\ e \in Seq(Instruction) /\ Len(e) = Len(d) + Len(pic_init)
          /\ \A k \in 1 .. Len(d) : e[k] = d[k]
          /\ \A k \in Len(d) + 1 .. Len(d) + Len(pic_init) : e[k] = pic_init[k - Len(d)]
        <3>1. d \in Seq(Instruction)
            BY <1>6
        <3> QED
            BY <1>s, <3>1, Joined
    <2> HIDE DEF e
    <2> QED
        BY <1>4, <1>6, <2>1
<1>8. e = Configured
    BY DEF a, b, c, d, Configured
<1> HIDE DEF e
<1>9. /\ e[1] = a[1] /\ e[2] = b[1] /\ e[3] = b[2] /\ e[4] = b[3] /\ e[5] = b[4] /\ e[6] = b[5]
      /\ e[7] = b[6] /\ e[8] = init_idt[1] /\ e[9] = init_idt[2] /\ e[10] = init_idt[3]
      /\ e[11] = init_idt[4]
    <2>1. /\ d[1] = c[1] /\ d[2] = c[2] /\ d[3] = c[3] /\ d[4] = c[4] /\ d[5] = c[5]
          /\ d[6] = c[6] /\ d[7] = c[7]
        BY <1>6
    <2>2. /\ e[1] = d[1] /\ e[2] = d[2] /\ e[3] = d[3] /\ e[4] = d[4] /\ e[5] = d[5] /\ e[6] = d[6]
          /\ e[7] = d[7] /\ e[8] = d[8] /\ e[9] = d[9] /\ e[10] = d[10] /\ e[11] = d[11]
        BY <1>7
    <2> QED
        BY <1>5, <1>6, <2>1, <2>2, Zenon
<1> QED
    BY <1>1, <1>2, <1>3, <1>4, <1>7, <1>8, <1>9

(* The greeting: a wait before each character.                             *)
LEMMA GreetingIs ==
  LET s == printf(Greeting)
  IN  /\ s \in Seq(Instruction) /\ Len(s) = 2 * Len(Greeting)
      /\ \A k \in 1 .. Len(Greeting) : s[2 * k - 1] = Do("wait") /\ s[2 * k] = Out(1016, Greeting[k])
<1> DEFINE s == printf(Greeting)
           f(k) == serial_write_char(Greeting[(k + 1) \div 2])[2 - (k % 2)]
<1>1. Len(Greeting) \in Nat /\ Greeting \in Seq(1 .. 255)
    BY Numbers
<1>2. s = [k \in 1 .. 2 * Len(Greeting) |-> f(k)]
    BY DEF printf
<1>3. ASSUME NEW k \in 1 .. Len(Greeting)
      PROVE  f(2 * k - 1) = Do("wait") /\ f(2 * k) = Out(1016, Greeting[k])
    <2>1. (2 * k - 1 + 1) \div 2 = k /\ (2 * k + 1) \div 2 = k /\ (2 * k - 1) % 2 = 1 /\ (2 * k) % 2 = 0
        BY <1>1
    <2>2. f(2 * k - 1) = serial_write_char(Greeting[k])[1] /\ f(2 * k) = serial_write_char(Greeting[k])[2]
        BY <2>1
    <2> QED
        BY <2>2 DEF serial_write_char, DATA
<1>4. \A k \in 1 .. Len(Greeting) : Do("wait") \in Instruction /\ Out(1016, Greeting[k]) \in Instruction
    <2> TAKE k \in 1 .. Len(Greeting)
    <2>1. Greeting[k] \in 1 .. 255
        BY <1>1, ElementOfSeq
    <2>2. Greeting[k] \in Nat
        <3>1. \A n \in 1 .. 255 : n \in Nat
            OBVIOUS
        <3> QED
            BY <2>1, <3>1, Zenon
    <2>3. "wait" \in Op
        BY DEF Op
    <2>4. Do("wait") \in Instruction
        BY <2>3, Instructions
    <2>5. Out(1016, Greeting[k]) \in Instruction
        BY <2>2, Instructions
    <2> QED
        BY <2>4, <2>5
<1>5. ASSUME NEW j \in 1 .. 2 * Len(Greeting)
      PROVE  \E k \in 1 .. Len(Greeting) : j = 2 * k - 1 \/ j = 2 * k
    <2>1. (j + 1) \div 2 \in 1 .. Len(Greeting) /\ (j = 2 * ((j + 1) \div 2) - 1 \/ j = 2 * ((j + 1) \div 2))
        BY <1>1
    <2> QED
        BY <2>1
<1> HIDE DEF f, s
<1>6. \A j \in 1 .. 2 * Len(Greeting) : f(j) \in Instruction
    <2> TAKE j \in 1 .. 2 * Len(Greeting)
    <2>1. PICK k \in 1 .. Len(Greeting) : j = 2 * k - 1 \/ j = 2 * k
        BY <1>5
    <2>2. f(2 * k - 1) \in Instruction /\ f(2 * k) \in Instruction
        BY <1>3, <1>4
    <2> QED
        BY <2>1, <2>2
<1>7. s \in [1 .. 2 * Len(Greeting) -> Instruction]
    BY <1>2, <1>6, Zenon
<1>8. s \in Seq(Instruction) /\ Len(s) = 2 * Len(Greeting)
    BY <1>1, <1>7
<1>9. \A k \in 1 .. Len(Greeting) : s[2 * k - 1] = Do("wait") /\ s[2 * k] = Out(1016, Greeting[k])
    BY <1>1, <1>2, <1>3
<1> QED
    BY <1>8, <1>9 DEF s

(* The code of init_timer.                                                 *)
LEMMA TimerIs ==
  LET s == init_timer(Frequency)
  IN  /\ s \in Seq(Instruction) /\ Len(s) = 5
      /\ s[1] = Do("cli") /\ s[2] = Out(67, 54) /\ s[3] = Out(64, Low)
      /\ s[4] = Out(64, High) /\ s[5] = Do("sti")
<1>1. /\ Do("cli") \in Instruction /\ Do("sti") \in Instruction /\ Out(67, 54) \in Instruction
      /\ Out(64, Low) \in Instruction /\ Out(64, High) \in Instruction
    <2>1. /\ Low \in Nat /\ High \in Nat
        BY Numbers
    <2>2. "cli" \in Op /\ "sti" \in Op
        BY DEF Op
    <2> QED
        BY <2>1, <2>2, Instructions
<1>2. init_timer(Frequency) = <<Do("cli"), Out(67, 54), Out(64, Low),
                                Out(64, High), Do("sti")>>
    BY DEF init_timer, set_pit_count, Count, Low, High
<1> QED
    BY <1>1, <1>2

(* What n entries appended to m show at the places after them.             *)
LEMMA Appended ==
  ASSUME NEW m \in Nat, NEW n \in Nat, NEW c, NEW w,
         \A k \in m + 1 .. m + n : c[k] = w[k - m]
  PROVE  \A k \in 1 .. n : c[m + k] = w[k]
<1> TAKE k \in 1 .. n
<1>1. m + k \in m + 1 .. m + n /\ (m + k) - m = k
    OBVIOUS
<1>2. c[m + k] = w[(m + k) - m]
    BY <1>1, Zenon
<1> QED
    BY <1>1, <1>2, Zenon

(* What kmain does, instruction by instruction.                            *)
LEMMA Programme ==
  /\ Len(kmain) = Greeted + 7
  /\ kmain[1] = Do("lgdt") /\ kmain[2] = Out(1019, 128) /\ kmain[3] = Out(1016, 0)
  /\ kmain[4] = Out(1016, 3) /\ kmain[5] = Out(1019, 3) /\ kmain[6] = Out(1020, 11)
  /\ kmain[7] = Out(1018, 199)
  /\ kmain[8] = Gate(32) /\ kmain[9] = Gate(33) /\ kmain[10] = Gate(128) /\ kmain[11] = Do("lidt")
  /\ kmain[12] = Out(32, 17) /\ kmain[13] = Out(160, 17)
  /\ kmain[14] = Out(33, 32) /\ kmain[15] = Out(161, 40) /\ kmain[16] = Out(33, 4)
  /\ kmain[17] = Out(161, 2) /\ kmain[18] = Out(33, 1) /\ kmain[19] = Out(161, 1)
  /\ \A k \in 1 .. Len(Greeting) :
       kmain[18 + 2 * k] = Do("wait") /\ kmain[19 + 2 * k] = Out(1016, Greeting[k])
  /\ kmain[Greeted + 1] = Do("sti") /\ kmain[Greeted + 2] = Do("locked")
  /\ kmain[Greeted + 3] = Do("cli") /\ kmain[Greeted + 4] = Out(67, 54)
  /\ kmain[Greeted + 5] = Out(64, Low) /\ kmain[Greeted + 6] = Out(64, High)
  /\ kmain[Greeted + 7] = Do("sti")
<1> DEFINE a == Configured
           g == printf(Greeting)
           b == a \o g
           w == <<Do("sti"), Do("locked")>>
           c == b \o w
           t == init_timer(Frequency)
           n == Len(Greeting)
<1>1. kmain = c \o t
    BY DEF kmain, Configured
<1>2. n \in Nat /\ Greeted = 19 + 2 * n
    BY Numbers DEF Greeted
<1>3. w \in Seq(Instruction) /\ Len(w) = 2 /\ w[1] = Do("sti") /\ w[2] = Do("locked")
    BY DEF Do, Instruction, Op
<1>4. a \in Seq(Instruction) /\ Len(a) = 19
    BY Configuration
<1>5. g \in Seq(Instruction) /\ Len(g) = 2 * n
    BY GreetingIs
<1>6. t \in Seq(Instruction) /\ Len(t) = 5
    BY TimerIs
<1>n. Greeted \in Nat /\ Greeted >= 19
    BY Numbers
<1> HIDE DEF a, g, t, w, n
<1>7. /\ b \in Seq(Instruction) /\ Len(b) = Greeted
      /\ \A k \in 1 .. 19 : b[k] = a[k]
      /\ \A k \in 20 .. Greeted : b[k] = g[k - 19]
    <2>1. /\ b \in Seq(Instruction) /\ Len(b) = Len(a) + Len(g)
          /\ \A k \in 1 .. Len(a) : b[k] = a[k]
          /\ \A k \in Len(a) + 1 .. Len(a) + Len(g) : b[k] = g[k - Len(a)]
        BY <1>4, <1>5, Joined
    <2> HIDE DEF b
    <2> QED
        BY <1>2, <1>4, <1>5, <2>1
<1> HIDE DEF b
<1>8. /\ c \in Seq(Instruction) /\ Len(c) = Greeted + 2
      /\ \A k \in 1 .. Greeted : c[k] = b[k]
      /\ c[Greeted + 1] = w[1] /\ c[Greeted + 2] = w[2]
    <2>1. /\ c \in Seq(Instruction) /\ Len(c) = Len(b) + Len(w)
          /\ \A k \in 1 .. Len(b) : c[k] = b[k]
          /\ \A k \in Len(b) + 1 .. Len(b) + Len(w) : c[k] = w[k - Len(b)]
        BY <1>3, <1>7, Joined
    <2> HIDE DEF c
    <2> QED
        <3>1. Len(b) = Greeted /\ Len(w) = 2 /\ Greeted \in Nat
            BY <1>2, <1>3, <1>7
        <3>2. Len(c) = Greeted + 2 /\ \A k \in 1 .. Greeted : c[k] = b[k]
            BY <2>1, <3>1
        <3>3. \A k \in Greeted + 1 .. Greeted + 2 : c[k] = w[k - Greeted]
            BY <2>1, <3>1
        <3>4. \A k \in 1 .. 2 : c[Greeted + k] = w[k]
            BY <3>1, <3>3, Appended
        <3>5. 1 \in 1 .. 2 /\ 2 \in 1 .. 2
            OBVIOUS
        <3>6. c[Greeted + 1] = w[1] /\ c[Greeted + 2] = w[2]
            BY <3>4, <3>5, Zenon
        <3> QED
            BY <2>1, <3>2, <3>6
<1> HIDE DEF c
<1>9. /\ Len(kmain) = Greeted + 7
      /\ \A k \in 1 .. Greeted + 2 : kmain[k] = c[k]
      /\ \A k \in 1 .. 5 : kmain[Greeted + 2 + k] = t[k]
    <2>1. /\ kmain \in Seq(Instruction) /\ Len(kmain) = Len(c) + Len(t)
          /\ \A k \in 1 .. Len(c) : kmain[k] = c[k]
          /\ \A k \in Len(c) + 1 .. Len(c) + Len(t) : kmain[k] = t[k - Len(c)]
        BY <1>1, <1>6, <1>8, Joined
    <2>2. Len(c) = Greeted + 2 /\ Len(t) = 5 /\ Greeted + 2 \in Nat
        BY <1>6, <1>8, <1>n
    <2>3. Len(kmain) = Greeted + 7
        BY <1>n, <2>1, <2>2
    <2>4. \A k \in 1 .. Greeted + 2 : kmain[k] = c[k]
        BY <2>1, <2>2, Zenon
    <2>5. \A k \in Greeted + 2 + 1 .. Greeted + 2 + 5 : kmain[k] = t[k - (Greeted + 2)]
        BY <2>1, <2>2, Zenon
    <2>6. \A k \in 1 .. 5 : kmain[Greeted + 2 + k] = t[k]
        BY <2>2, <2>5, Appended
    <2> QED
        BY <2>3, <2>4, <2>6
<1>10. /\ \A k \in 1 .. 19 : kmain[k] = a[k]
       /\ \A k \in 20 .. Greeted : kmain[k] = g[k - 19]
       /\ kmain[Greeted + 1] = w[1] /\ kmain[Greeted + 2] = w[2]
       /\ kmain[Greeted + 3] = t[1] /\ kmain[Greeted + 4] = t[2] /\ kmain[Greeted + 5] = t[3]
       /\ kmain[Greeted + 6] = t[4] /\ kmain[Greeted + 7] = t[5]
    <2>1. /\ \A k \in 1 .. Greeted : kmain[k] = b[k]
          /\ kmain[Greeted + 1] = c[Greeted + 1] /\ kmain[Greeted + 2] = c[Greeted + 2]
        <3>1. \A k \in 1 .. Greeted : k \in 1 .. Greeted + 2
            BY <1>n
        <3>2. Greeted + 1 \in 1 .. Greeted + 2 /\ Greeted + 2 \in 1 .. Greeted + 2
            BY <1>n
        <3> QED
            BY <1>8, <1>9, <3>1, <3>2, Zenon
    <2>2. \A k \in 1 .. 19 : kmain[k] = a[k]
        <3>1. \A k \in 1 .. 19 : k \in 1 .. Greeted
            BY <1>n
        <3> QED
            BY <1>7, <2>1, <3>1, Zenon
    <2>3. \A k \in 20 .. Greeted : kmain[k] = g[k - 19]
        <3>1. \A k \in 20 .. Greeted : k \in 1 .. Greeted
            BY <1>n
        <3> QED
            BY <1>7, <2>1, <3>1, Zenon
    <2>4. /\ kmain[Greeted + 2 + 1] = t[1] /\ kmain[Greeted + 2 + 2] = t[2]
          /\ kmain[Greeted + 2 + 3] = t[3] /\ kmain[Greeted + 2 + 4] = t[4]
          /\ kmain[Greeted + 2 + 5] = t[5]
        BY <1>9
    <2>5. /\ Greeted + 2 + 1 = Greeted + 3 /\ Greeted + 2 + 2 = Greeted + 4
          /\ Greeted + 2 + 3 = Greeted + 5 /\ Greeted + 2 + 4 = Greeted + 6
          /\ Greeted + 2 + 5 = Greeted + 7
        BY <1>2
    <2> QED
        BY <1>8, <2>1, <2>2, <2>3, <2>4, <2>5
<1>11. \A k \in 1 .. n : kmain[18 + 2 * k] = Do("wait") /\ kmain[19 + 2 * k] = Out(1016, Greeting[k])
    <2>1. \A k \in 1 .. n : g[2 * k - 1] = Do("wait") /\ g[2 * k] = Out(1016, Greeting[k])
        BY GreetingIs DEF g, n
    <2>2. \A k \in 1 .. n : kmain[18 + 2 * k] = g[2 * k - 1] /\ kmain[19 + 2 * k] = g[2 * k]
        BY <1>2, <1>10
    <2> QED
        BY <2>1, <2>2
<1>12. Len(kmain) = Greeted + 7
    BY <1>1, <1>9
<1>13. /\ t[1] = Do("cli") /\ t[2] = Out(67, 54) /\ t[3] = Out(64, Low)
       /\ t[4] = Out(64, High) /\ t[5] = Do("sti")
    BY TimerIs DEF t
<1>14. /\ a[1] = Do("lgdt") /\ a[2] = Out(1019, 128) /\ a[3] = Out(1016, 0) /\ a[4] = Out(1016, 3)
       /\ a[5] = Out(1019, 3) /\ a[6] = Out(1020, 11) /\ a[7] = Out(1018, 199)
       /\ a[8] = Gate(32) /\ a[9] = Gate(33) /\ a[10] = Gate(128) /\ a[11] = Do("lidt")
       /\ a[12] = Out(32, 17) /\ a[13] = Out(160, 17) /\ a[14] = Out(33, 32) /\ a[15] = Out(161, 40)
       /\ a[16] = Out(33, 4) /\ a[17] = Out(161, 2) /\ a[18] = Out(33, 1) /\ a[19] = Out(161, 1)
    BY Configuration DEF a
<1>15. /\ kmain[1] = a[1] /\ kmain[2] = a[2] /\ kmain[3] = a[3] /\ kmain[4] = a[4]
       /\ kmain[5] = a[5] /\ kmain[6] = a[6] /\ kmain[7] = a[7] /\ kmain[8] = a[8]
       /\ kmain[9] = a[9] /\ kmain[10] = a[10] /\ kmain[11] = a[11] /\ kmain[12] = a[12]
       /\ kmain[13] = a[13] /\ kmain[14] = a[14] /\ kmain[15] = a[15] /\ kmain[16] = a[16]
       /\ kmain[17] = a[17] /\ kmain[18] = a[18] /\ kmain[19] = a[19]
    BY <1>10
<1> HIDE DEF b, c
<1> QED
    BY <1>3, <1>10, <1>11, <1>12, <1>13, <1>14, <1>15 DEF n

(* The other way round: where the instruction at k stands.                 *)
Placed(k, x) ==
  \/ k = 1 /\ x = Do("lgdt")
  \/ k = 2 /\ x = Out(1019, 128)
  \/ k = 3 /\ x = Out(1016, 0)
  \/ k = 4 /\ x = Out(1016, 3)
  \/ k = 5 /\ x = Out(1019, 3)
  \/ k = 6 /\ x = Out(1020, 11)
  \/ k = 7 /\ x = Out(1018, 199)
  \/ k = 8 /\ x = Gate(32)
  \/ k = 9 /\ x = Gate(33)
  \/ k = 10 /\ x = Gate(128)
  \/ k = 11 /\ x = Do("lidt")
  \/ k = 12 /\ x = Out(32, 17)
  \/ k = 13 /\ x = Out(160, 17)
  \/ k = 14 /\ x = Out(33, 32)
  \/ k = 15 /\ x = Out(161, 40)
  \/ k = 16 /\ x = Out(33, 4)
  \/ k = 17 /\ x = Out(161, 2)
  \/ k = 18 /\ x = Out(33, 1)
  \/ k = 19 /\ x = Out(161, 1)
  \/ k \in 20 .. Greeted /\ k % 2 = 0 /\ x = Do("wait")
  \/ k \in 20 .. Greeted /\ k % 2 = 1 /\ x = Out(1016, Greeting[Slot(k)])
  \/ k = Greeted + 1 /\ x = Do("sti")
  \/ k = Greeted + 2 /\ x = Do("locked")
  \/ k = Greeted + 3 /\ x = Do("cli")
  \/ k = Greeted + 4 /\ x = Out(67, 54)
  \/ k = Greeted + 5 /\ x = Out(64, Low)
  \/ k = Greeted + 6 /\ x = Out(64, High)
  \/ k = Greeted + 7 /\ x = Do("sti")

(* Each place of kmain has an instruction of its kind.                     *)
LEMMA Decode == ASSUME NEW k \in 1 .. Len(kmain) PROVE Placed(k, kmain[k])
<1>1. k \in 1 .. Greeted + 7 /\ Greeted \in Nat /\ Greeted >= 19
    BY Programme, Numbers
<1>2. CASE k \in 1 .. 19
    <2>1. \/ k = 1 \/ k = 2 \/ k = 3 \/ k = 4 \/ k = 5 \/ k = 6 \/ k = 7 \/ k = 8 \/ k = 9 \/ k = 10
          \/ k = 11 \/ k = 12 \/ k = 13 \/ k = 14 \/ k = 15 \/ k = 16 \/ k = 17 \/ k = 18 \/ k = 19
        BY <1>2
    <2>2. /\ kmain[1] = Do("lgdt")
          /\ kmain[2] = Out(1019, 128)
          /\ kmain[3] = Out(1016, 0)
          /\ kmain[4] = Out(1016, 3)
          /\ kmain[5] = Out(1019, 3)
          /\ kmain[6] = Out(1020, 11)
          /\ kmain[7] = Out(1018, 199)
          /\ kmain[8] = Gate(32)
          /\ kmain[9] = Gate(33)
          /\ kmain[10] = Gate(128)
          /\ kmain[11] = Do("lidt")
          /\ kmain[12] = Out(32, 17)
          /\ kmain[13] = Out(160, 17)
          /\ kmain[14] = Out(33, 32)
          /\ kmain[15] = Out(161, 40)
          /\ kmain[16] = Out(33, 4)
          /\ kmain[17] = Out(161, 2)
          /\ kmain[18] = Out(33, 1)
          /\ kmain[19] = Out(161, 1)
        BY Programme
    <2>3. /\ k = 1 => kmain[k] = Do("lgdt")
          /\ k = 2 => kmain[k] = Out(1019, 128)
          /\ k = 3 => kmain[k] = Out(1016, 0)
          /\ k = 4 => kmain[k] = Out(1016, 3)
          /\ k = 5 => kmain[k] = Out(1019, 3)
          /\ k = 6 => kmain[k] = Out(1020, 11)
          /\ k = 7 => kmain[k] = Out(1018, 199)
          /\ k = 8 => kmain[k] = Gate(32)
          /\ k = 9 => kmain[k] = Gate(33)
          /\ k = 10 => kmain[k] = Gate(128)
          /\ k = 11 => kmain[k] = Do("lidt")
          /\ k = 12 => kmain[k] = Out(32, 17)
          /\ k = 13 => kmain[k] = Out(160, 17)
          /\ k = 14 => kmain[k] = Out(33, 32)
          /\ k = 15 => kmain[k] = Out(161, 40)
          /\ k = 16 => kmain[k] = Out(33, 4)
          /\ k = 17 => kmain[k] = Out(161, 2)
          /\ k = 18 => kmain[k] = Out(33, 1)
          /\ k = 19 => kmain[k] = Out(161, 1)
        BY <2>2
    <2> QED
        BY <2>1, <2>3 DEF Placed
<1>3. CASE k \in 20 .. Greeted
    <2>1. Len(Greeting) \in Nat /\ Greeted = 19 + 2 * Len(Greeting)
        BY Numbers DEF Greeted
    <2>2. CASE k % 2 = 0
        <3>1. (k - 18) \div 2 \in 1 .. Len(Greeting) /\ k = 18 + 2 * ((k - 18) \div 2)
            BY <1>3, <2>1, <2>2
        <3>2. kmain[18 + 2 * ((k - 18) \div 2)] = Do("wait")
            <4>1. \A i \in 1 .. Len(Greeting) : kmain[18 + 2 * i] = Do("wait")
                BY Programme
            <4> QED
                BY <3>1, <4>1, Zenon
        <3>3. kmain[k] = Do("wait")
            BY <3>1, <3>2
        <3> QED
            BY <1>3, <2>2, <3>3 DEF Placed
    <2>3. CASE k % 2 = 1
        <3>1. Slot(k) \in 1 .. Len(Greeting) /\ k = 19 + 2 * Slot(k)
            BY <1>3, <2>1, <2>3 DEF Slot
        <3>2. kmain[k] = Out(1016, Greeting[Slot(k)])
            <4>1. \A i \in 1 .. Len(Greeting) : kmain[19 + 2 * i] = Out(1016, Greeting[i])
                BY Programme
            <4>2. kmain[19 + 2 * Slot(k)] = Out(1016, Greeting[Slot(k)])
                BY <3>1, <4>1
            <4> QED
                BY <3>1, <4>2
        <3> QED
            BY <1>3, <2>3, <3>2 DEF Placed
    <2>4. k % 2 = 0 \/ k % 2 = 1
        BY <1>3
    <2> QED
        BY <2>2, <2>3, <2>4
<1>4. CASE k \in Greeted + 1 .. Greeted + 7
    <2>1. \/ k = Greeted + 1 \/ k = Greeted + 2 \/ k = Greeted + 3 \/ k = Greeted + 4
          \/ k = Greeted + 5 \/ k = Greeted + 6 \/ k = Greeted + 7
        BY <1>1, <1>4
    <2>2. /\ kmain[Greeted + 1] = Do("sti")
          /\ kmain[Greeted + 2] = Do("locked")
          /\ kmain[Greeted + 3] = Do("cli")
          /\ kmain[Greeted + 4] = Out(67, 54)
          /\ kmain[Greeted + 5] = Out(64, Low)
          /\ kmain[Greeted + 6] = Out(64, High)
          /\ kmain[Greeted + 7] = Do("sti")
        BY Programme
    <2>3. /\ k = Greeted + 1 => kmain[k] = Do("sti")
          /\ k = Greeted + 2 => kmain[k] = Do("locked")
          /\ k = Greeted + 3 => kmain[k] = Do("cli")
          /\ k = Greeted + 4 => kmain[k] = Out(67, 54)
          /\ k = Greeted + 5 => kmain[k] = Out(64, Low)
          /\ k = Greeted + 6 => kmain[k] = Out(64, High)
          /\ k = Greeted + 7 => kmain[k] = Do("sti")
        BY <2>2
    <2> QED
        BY <2>1, <2>3 DEF Placed
<1> QED
    BY <1>1, <1>2, <1>3, <1>4

(* The fields of an instruction.                                           *)
OpOf(x)    == x[1]
PortOf(x)  == x[2]
ValueOf(x) == x[3]

(* The parts of an instruction.                                            *)
LEMMA Fields ==
  /\ \A op : OpOf(Do(op)) = op
  /\ \A port, v : OpOf(Out(port, v)) = "out" /\ PortOf(Out(port, v)) = port
                  /\ ValueOf(Out(port, v)) = v
  /\ \A port : OpOf(In(port)) = "in"
  /\ \A n : OpOf(Gate(n)) = "gate" /\ PortOf(Gate(n)) = n
BY DEF Do, Out, In, Gate, OpOf, PortOf, ValueOf

(* Where kmain has an instruction of a kind ...                            *)
LEMMA Opcodes ==
  ASSUME NEW k \in Nat, NEW x, Placed(k, x)
  PROVE  /\ OpOf(x) = "lgdt" => k = 1
         /\ OpOf(x) = "lidt" => k = 11
         /\ OpOf(x) = "gate" => (k = 8 /\ PortOf(x) = 32) \/ (k = 9 /\ PortOf(x) = 33) \/ (k = 10 /\ PortOf(x) = 128)
         /\ OpOf(x) = "wait" => k \in 20 .. Greeted /\ k % 2 = 0
         /\ OpOf(x) = "sti" => k = Greeted + 1 \/ k = Greeted + 7
         /\ OpOf(x) = "locked" => k = Greeted + 2
         /\ OpOf(x) = "cli" => k = Greeted + 3
         /\ OpOf(x) # "iret" /\ OpOf(x) # "in"
<1>1. OpOf(x) = "lgdt" => k = 1
    BY Fields DEF Placed
<1>2. OpOf(x) = "lidt" => k = 11
    BY Fields DEF Placed
<1>3. OpOf(x) = "gate" => (k = 8 /\ PortOf(x) = 32) \/ (k = 9 /\ PortOf(x) = 33) \/ (k = 10 /\ PortOf(x) = 128)
    <2>1. OpOf(x) = "gate" => (k = 8 /\ x = Gate(32)) \/ (k = 9 /\ x = Gate(33)) \/ (k = 10 /\ x = Gate(128))
        BY Fields DEF Placed
    <2> QED
        BY <2>1, Fields
<1>4. OpOf(x) = "wait" => k \in 20 .. Greeted /\ k % 2 = 0
    BY Fields DEF Placed
<1>5. OpOf(x) = "sti" => k = Greeted + 1 \/ k = Greeted + 7
    BY Fields DEF Placed
<1>6. OpOf(x) = "locked" => k = Greeted + 2
    BY Fields DEF Placed
<1>7. OpOf(x) = "cli" => k = Greeted + 3
    BY Fields DEF Placed
<1>8. OpOf(x) # "iret" /\ OpOf(x) # "in"
    BY Fields DEF Placed
<1> QED
    BY <1>1, <1>2, <1>3, <1>4, <1>5, <1>6, <1>7, <1>8

OutPlaced(k, x) ==
  \/ k = 2 /\ x = Out(1019, 128)
  \/ k = 3 /\ x = Out(1016, 0)
  \/ k = 4 /\ x = Out(1016, 3)
  \/ k = 5 /\ x = Out(1019, 3)
  \/ k = 6 /\ x = Out(1020, 11)
  \/ k = 7 /\ x = Out(1018, 199)
  \/ k = 12 /\ x = Out(32, 17)
  \/ k = 13 /\ x = Out(160, 17)
  \/ k = 14 /\ x = Out(33, 32)
  \/ k = 15 /\ x = Out(161, 40)
  \/ k = 16 /\ x = Out(33, 4)
  \/ k = 17 /\ x = Out(161, 2)
  \/ k = 18 /\ x = Out(33, 1)
  \/ k = 19 /\ x = Out(161, 1)
  \/ k \in 20 .. Greeted /\ k % 2 = 1 /\ x = Out(1016, Greeting[Slot(k)])
  \/ k = Greeted + 4 /\ x = Out(67, 54)
  \/ k = Greeted + 5 /\ x = Out(64, Low)
  \/ k = Greeted + 6 /\ x = Out(64, High)

(* ... and where it writes to a port, and what.                            *)
LEMMA Ports ==
  ASSUME NEW k \in Nat, NEW x, Placed(k, x), OpOf(x) = "out"
  PROVE  /\ PortOf(x) = 1019 => (k = 2 /\ ValueOf(x) = 128) \/ (k = 5 /\ ValueOf(x) = 3)
         /\ PortOf(x) = 1020 => k = 6
         /\ PortOf(x) = 1018 => k = 7
         /\ PortOf(x) = 1016 =>
              \/ k = 3 /\ ValueOf(x) = 0
              \/ k = 4 /\ ValueOf(x) = 3
              \/ (k \in 20 .. Greeted /\ k % 2 = 1 /\ ValueOf(x) = Greeting[Slot(k)])
         /\ PortOf(x) = 32 => k = 12 /\ ValueOf(x) = 17
         /\ PortOf(x) = 160 => k = 13 /\ ValueOf(x) = 17
         /\ PortOf(x) = 33 => (k = 14 /\ ValueOf(x) = 32) \/ (k = 16 /\ ValueOf(x) = 4) \/ (k = 18 /\ ValueOf(x) = 1)
         /\ PortOf(x) = 161 => (k = 15 /\ ValueOf(x) = 40) \/ (k = 17 /\ ValueOf(x) = 2) \/ (k = 19 /\ ValueOf(x) = 1)
         /\ PortOf(x) = 67 => k = Greeted + 4
         /\ PortOf(x) = 64 => (k = Greeted + 5 /\ ValueOf(x) = Low) \/ (k = Greeted + 6 /\ ValueOf(x) = High)
<1>0. OutPlaced(k, x)
    BY Fields DEF Placed, OutPlaced
<1>1. PortOf(x) = 1019 => (k = 2 /\ ValueOf(x) = 128) \/ (k = 5 /\ ValueOf(x) = 3)
    <2>1. PortOf(x) = 1019 =>
            \/ k = 2 /\ x = Out(1019, 128)
            \/ k = 5 /\ x = Out(1019, 3)
        BY <1>0, Fields DEF OutPlaced
    <2> QED
        BY <2>1, Fields
<1>2. (PortOf(x) = 1020 => k = 6) /\ (PortOf(x) = 1018 => k = 7)
    BY <1>0, Fields DEF OutPlaced
<1>3. PortOf(x) = 1016 =>
        \/ k = 3 /\ ValueOf(x) = 0
        \/ k = 4 /\ ValueOf(x) = 3
        \/ (k \in 20 .. Greeted /\ k % 2 = 1 /\ ValueOf(x) = Greeting[Slot(k)])
    <2>1. PortOf(x) = 1016 =>
            \/ k = 3 /\ x = Out(1016, 0)
            \/ k = 4 /\ x = Out(1016, 3)
            \/ k \in 20 .. Greeted /\ k % 2 = 1 /\ x = Out(1016, Greeting[Slot(k)])
        BY <1>0, Fields DEF OutPlaced
    <2> QED
        BY <2>1, Fields
<1>4. (PortOf(x) = 32 => k = 12 /\ ValueOf(x) = 17) /\ (PortOf(x) = 160 => k = 13 /\ ValueOf(x) = 17)
    <2>1. (PortOf(x) = 32 => k = 12 /\ x = Out(32, 17)) /\ (PortOf(x) = 160 => k = 13 /\ x = Out(160, 17))
        BY <1>0, Fields DEF OutPlaced
    <2> QED
        BY <2>1, Fields
<1>5. PortOf(x) = 33 => (k = 14 /\ ValueOf(x) = 32) \/ (k = 16 /\ ValueOf(x) = 4) \/ (k = 18 /\ ValueOf(x) = 1)
    <2>1. PortOf(x) = 33 =>
            \/ k = 14 /\ x = Out(33, 32)
            \/ k = 16 /\ x = Out(33, 4)
            \/ k = 18 /\ x = Out(33, 1)
        BY <1>0, Fields DEF OutPlaced
    <2> QED
        BY <2>1, Fields
<1>6. PortOf(x) = 161 => (k = 15 /\ ValueOf(x) = 40) \/ (k = 17 /\ ValueOf(x) = 2) \/ (k = 19 /\ ValueOf(x) = 1)
    <2>1. PortOf(x) = 161 =>
            \/ k = 15 /\ x = Out(161, 40)
            \/ k = 17 /\ x = Out(161, 2)
            \/ k = 19 /\ x = Out(161, 1)
        BY <1>0, Fields DEF OutPlaced
    <2> QED
        BY <2>1, Fields
<1>7. PortOf(x) = 67 => k = Greeted + 4
    BY <1>0, Fields DEF OutPlaced
<1>8. PortOf(x) = 64 => (k = Greeted + 5 /\ ValueOf(x) = Low) \/ (k = Greeted + 6 /\ ValueOf(x) = High)
    <2>1. PortOf(x) = 64 =>
            \/ k = Greeted + 5 /\ x = Out(64, Low)
            \/ k = Greeted + 6 /\ x = Out(64, High)
        BY <1>0, Fields DEF OutPlaced
    <2> QED
        BY <2>1, Fields
<1> QED
    BY <1>1, <1>2, <1>3, <1>4, <1>5, <1>6, <1>7, <1>8

(* How many characters have been written, from place to place.             *)
LEMMA WrittenSteps ==
  /\ \A k \in Nat : WrittenAt(k) \in 0 .. Len(Greeting)
  /\ \A k \in Nat : k <= 20 => WrittenAt(k) = 0
  /\ \A k \in Nat : k \in 20 .. Greeted /\ k % 2 = 0 => WrittenAt(k + 1) = WrittenAt(k)
  /\ \A k \in Nat : k \in 20 .. Greeted /\ k % 2 = 1 =>
       WrittenAt(k + 1) = WrittenAt(k) + 1 /\ WrittenAt(k + 1) = Slot(k)
  /\ \A k \in Nat : k > Greeted => WrittenAt(k) = Len(Greeting)
<1>1. Len(Greeting) \in Nat /\ Greeted = 19 + 2 * Len(Greeting)
    BY Numbers DEF Greeted
<1> QED
    BY <1>1 DEF WrittenAt, Slot

-----------------------------------------------------------------------------
LEMMA InProgramme ==
  ASSUME DevicesInv
  PROVE  /\ pc \in 1 .. Greeted + 8 /\ Greeted \in Nat /\ Greeted >= 19
         /\ Len(kmain) = Greeted + 7
<1>1. pc \in 1 .. Len(kmain) + 1
    BY DEF DevicesInv, DevicesTypeOK, CpuTypeOK
<1> QED
    BY <1>1, Programme, Numbers

(* What the CPU is at: a handler's instruction, or kmain's.                *)
LEMMA Running ==
  ASSUME DevicesInv, NEW op, Is(op)
  PROVE  /\ up /\ OpOf(Current) = op
         /\ \/ /\ handler # <<>> /\ pc > Greeted + 1 /\ ~ intf
               /\ \/ Current = In(96) /\ Tail(handler) = Ack
                  \/ Current = Out(32, 32) /\ Tail(handler) = <<Do("iret")>>
                  \/ Current = Do("iret") /\ Tail(handler) = <<>>
            \/ handler = <<>> /\ pc \in 1 .. Len(kmain) /\ Current = kmain[pc]
<1>1. up /\ OpOf(Current) = op /\ (handler # <<>> \/ pc <= Len(kmain))
    BY DEF Is, OpOf
<1>2. pc \in 1 .. Greeted + 8 /\ Greeted \in Nat /\ Len(kmain) = Greeted + 7
    BY InProgramme
<1>3. CASE handler # <<>>
    <2>1. Current = Head(handler)
        BY <1>3 DEF Current
    <2>2. pc > Greeted + 1 /\ ~ intf /\ handler \in Left
        BY <1>2, <1>3 DEF DevicesInv, Quiet
    <2>3. \/ Head(handler) = In(96) /\ Tail(handler) = Ack
          \/ Head(handler) = Out(32, 32) /\ Tail(handler) = <<Do("iret")>>
          \/ Head(handler) = Do("iret") /\ Tail(handler) = <<>>
        <3>1. /\ \A a : Head(<<a>>) = a /\ Tail(<<a>>) = <<>>
              /\ \A a, b : Head(<<a, b>>) = a /\ Tail(<<a, b>>) = <<b>>
              /\ \A a, b, c : Head(<<a, b, c>>) = a /\ Tail(<<a, b, c>>) = <<b, c>>
            OBVIOUS
        <3>2. \/ handler = <<Do("iret")>> \/ handler = <<Out(32, 32), Do("iret")>>
              \/ handler = <<In(96), Out(32, 32), Do("iret")>>
            BY <1>3, <2>2 DEF Left, Ack
        <3>3. CASE handler = <<Do("iret")>>
            <4>1. Head(<<Do("iret")>>) = Do("iret") /\ Tail(<<Do("iret")>>) = <<>>
                BY <3>1, Zenon
            <4> QED
                BY <3>3, <4>1, Zenon
        <3>4. CASE handler = <<Out(32, 32), Do("iret")>>
            <4>1. Head(handler) = Out(32, 32) /\ Tail(handler) = <<Do("iret")>>
                BY <3>1, <3>4
            <4> QED
                BY <4>1, Zenon
        <3>5. CASE handler = <<In(96), Out(32, 32), Do("iret")>>
            <4>1. Head(handler) = In(96) /\ Tail(handler) = <<Out(32, 32), Do("iret")>>
                BY <3>1, <3>5
            <4> QED
                BY <4>1, Zenon DEF Ack
        <3> QED
            BY <3>2, <3>3, <3>4, <3>5, Zenon
    <2> QED
        BY <1>1, <1>3, <2>1, <2>2, <2>3
<1>4. CASE handler = <<>>
    BY <1>1, <1>2, <1>4 DEF Current
<1> QED
    BY <1>1, <1>3, <1>4

-----------------------------------------------------------------------------
(* What a step keeps that does not touch a device, at the places where     *)
(* that device is not due.                                                 *)
LEMMA TablesKept ==
  ASSUME DevicesInv, UNCHANGED <<tables, idt>>,
         pc' = pc \/ (pc' = pc + 1 /\ pc \notin {1, 8, 9, 11})
  PROVE  TablesByPlace'
BY InProgramme DEF DevicesInv, TablesByPlace

(* Each part of the invariant survives a step that leaves its registers    *)
(* alone, unless kmain is at a place of that part.                         *)
LEMMA SpeedKept ==
  ASSUME DevicesInv, uart'.dlab = uart.dlab, uart'.dll = uart.dll, uart'.dlm = uart.dlm,
         pc' = pc \/ (pc' = pc + 1 /\ pc \notin 2 .. 5)
  PROVE  SpeedByPlace'
BY InProgramme DEF DevicesInv, SpeedByPlace

LEMMA SentKept ==
  ASSUME DevicesInv, uart'.queue = uart.queue, line' = line,
         pc' = pc \/ (pc' = pc + 1 /\ pc \notin 20 .. Greeted)
  PROVE  SentByPlace'
<1>1. WrittenAt(pc') = WrittenAt(pc)
    <2>1. pc \in Nat /\ Greeted >= 19
        BY InProgramme
    <2>2. CASE pc' = pc
        BY <2>2
    <2>3. CASE pc' = pc + 1 /\ pc < 20
        BY <2>1, <2>3, WrittenSteps
    <2>4. CASE pc' = pc + 1 /\ pc > Greeted
        <3>1. pc \in Nat /\ pc + 1 \in Nat /\ pc > Greeted /\ pc + 1 > Greeted
            BY <2>4, InProgramme
        <3>2. \A k \in Nat : k > Greeted => WrittenAt(k) = Len(Greeting)
            BY WrittenSteps
        <3> QED
            BY <2>4, <3>1, <3>2
    <2> QED
        BY <2>2, <2>3, <2>4, InProgramme
<1>2. pc' \in 20 .. Greeted /\ pc' % 2 = 1 => pc \in 20 .. Greeted /\ pc % 2 = 1
    <2>1. CASE pc' = pc
        BY <2>1
    <2>2. CASE pc' = pc + 1 /\ pc \notin 20 .. Greeted
        <3>1. pc' \in 20 .. Greeted => pc' = 20
            BY <2>2, InProgramme
        <3> QED
            BY <3>1
    <2> QED
        BY <2>1, <2>2
<1>3. SentByPlace
    BY DEF DevicesInv
<1> QED
    BY <1>1, <1>2, <1>3 DEF SentByPlace

LEMMA ControllersKept ==
  ASSUME DevicesInv, \A p \in {1, 2} : pic'[p].next = pic[p].next /\ pic'[p].base = pic[p].base,
         pc' = pc \/ (pc' = pc + 1 /\ pc \notin 12 .. 19)
  PROVE  ControllersByPlace'
BY InProgramme DEF DevicesInv, ControllersByPlace

LEMMA CountKept ==
  ASSUME DevicesInv, UNCHANGED pit,
         pc' = pc \/ (pc' = pc + 1 /\ pc \notin Greeted + 4 .. Greeted + 6)
  PROVE  CountByPlace'
BY InProgramme DEF DevicesInv, CountByPlace

LEMMA OursKept == ASSUME DevicesInv, UNCHANGED <<up, pic>> PROVE OnlyOurs'
BY DEF DevicesInv, OnlyOurs

LEMMA SerialTypeKept == ASSUME DevicesInv, UNCHANGED serial PROVE SerialTypeOK'
BY DEF DevicesInv, DevicesTypeOK, SerialTypeOK, serial

LEMMA PicTypeKept == ASSUME DevicesInv, UNCHANGED pic PROVE PicTypeOK'
BY DEF DevicesInv, DevicesTypeOK, PicTypeOK

LEMMA PitTypeKept == ASSUME DevicesInv, UNCHANGED pit PROVE PitTypeOK'
<1>1. PitTypeOK
    BY DEF DevicesInv, DevicesTypeOK
<1> QED
    BY <1>1 DEF PitTypeOK

LEMMA KeyTypeKept == ASSUME DevicesInv, UNCHANGED kbd PROVE full' \in BOOLEAN /\ shell_active' \in BOOLEAN
BY DEF DevicesInv, DevicesTypeOK, kbd

(* The CPU's type after a step, from what the actions show of it.          *)
LEMMA CpuTypes ==
  ASSUME DevicesInv, handler' \in Left, intf' \in BOOLEAN, up' \in BOOLEAN,
         tables' \subseteq {"lgdt", "lidt"}, idt' \subseteq {32, 33, 128}, pc' \in 1 .. Greeted + 8
  PROVE  CpuTypeOK'
<1>1. Len(handler') <= 3
    <2>1. \/ handler' = <<>> \/ handler' = <<Do("iret")>> \/ handler' = <<Out(32, 32), Do("iret")>>
          \/ handler' = <<In(96), Out(32, 32), Do("iret")>>
        BY DEF Left, Ack
    <2>2. /\ Len(<<>>) <= 3 /\ \A a : Len(<<a>>) <= 3 /\ \A b : Len(<<a, b>>) <= 3
          /\ \A a, b, c : Len(<<a, b, c>>) <= 3
        OBVIOUS
    <2> QED
        BY <2>1, <2>2, Zenon
<1>2. pc' \in 1 .. Len(kmain) + 1
    BY InProgramme
<1> QED
    BY <1>1, <1>2 DEF CpuTypeOK

(* ... and before one.                                                     *)
LEMMA Tables ==
  ASSUME DevicesInv
  PROVE  /\ handler \in Left /\ intf \in BOOLEAN /\ up \in BOOLEAN
         /\ tables \subseteq {"lgdt", "lidt"} /\ idt \subseteq {32, 33, 128}
BY DEF DevicesInv, DevicesTypeOK, CpuTypeOK, Quiet

(* An instruction of kmain that touches no device and no table.            *)
LEMMA Onward ==
  ASSUME DevicesInv, handler' = <<>>, pc' = pc + 1, intf' \in BOOLEAN,
         pc \in {Greeted + 1, Greeted + 2, Greeted + 3, Greeted + 7},
         UNCHANGED <<cpuTabs, serial, pic, pit, kbd>>
  PROVE  DevicesInv'
<1>1. UNCHANGED <<up, tables, idt, uart, line, pic, pit, full, shell_active>>
    BY DEF cpuTabs, serial, kbd
<1>2. <<>> \in Left
    BY DEF Left
<1>3. pc' \in 1 .. Greeted + 8 /\ pc' > Greeted + 1 /\ pc > 19
    BY InProgramme
<1>4. CpuTypeOK'
    <2>1. handler' \in Left /\ up' \in BOOLEAN /\ tables' \subseteq {"lgdt", "lidt"} /\ idt' \subseteq {32, 33, 128}
        BY <1>1, <1>2, Tables
    <2> QED
        BY <1>3, <2>1, CpuTypes
<1>5. Quiet'
    <2>1. ~ (pc' <= Greeted + 1)
        BY <1>3, InProgramme
    <2> QED
        BY <1>2, <2>1 DEF Quiet
<1>6. pc \notin {1, 8, 9, 11} /\ pc \notin 2 .. 5 /\ pc \notin 12 .. 19 /\ pc \notin 20 .. Greeted
      /\ pc \notin Greeted + 4 .. Greeted + 6
    BY <1>3, InProgramme
<1>7. TablesByPlace' /\ SpeedByPlace' /\ SentByPlace' /\ CountByPlace' /\ OnlyOurs'
    BY <1>1, <1>6, TablesKept, SpeedKept, SentKept, CountKept, OursKept
<1>8. ControllersByPlace'
    BY <1>1, <1>6, ControllersKept
<1>9. SerialTypeOK' /\ PicTypeOK' /\ PitTypeOK' /\ full' \in BOOLEAN /\ shell_active' \in BOOLEAN
    BY SerialTypeKept, PicTypeKept, PitTypeKept, KeyTypeKept
<1> QED
    BY <1>4, <1>5, <1>7, <1>8, <1>9 DEF DevicesInv, DevicesTypeOK

-----------------------------------------------------------------------------
(* What a step may assume of the instruction it executes.                  *)
LEMMA AtKmain ==
  ASSUME DevicesInv, NEW op, Is(op), op \notin {"in", "out", "iret"}
  PROVE  /\ up /\ handler = <<>> /\ pc \in 1 .. Greeted + 7 /\ pc \in Nat
         /\ Placed(pc, Current) /\ OpOf(Current) = op
<1>1. Current # In(96) /\ Current # Out(32, 32) /\ Current # Do("iret")
    BY Running, Fields
<1>2. up /\ OpOf(Current) = op /\ handler = <<>> /\ pc \in 1 .. Len(kmain) /\ Current = kmain[pc]
    BY <1>1, Running
<1>3. Placed(pc, kmain[pc])
    BY <1>2, Decode
<1> QED
    BY <1>2, <1>3, InProgramme

(* An outb is a handler's acknowledgement, or it is kmain's.               *)
LEMMA AtOut ==
  ASSUME DevicesInv, NEW port, IsOut(port)
  PROVE  \/ /\ handler # <<>> /\ pc > Greeted + 1 /\ ~ intf /\ up
            /\ port = 32 /\ Operand = 32 /\ pc' = pc /\ handler' = <<Do("iret")>>
         \/ /\ up /\ handler = <<>> /\ pc \in 1 .. Greeted + 7 /\ pc \in Nat
            /\ Placed(pc, Current) /\ OpOf(Current) = "out" /\ PortOf(Current) = port
            /\ ValueOf(Current) = Operand /\ pc' = pc + 1 /\ handler' = <<>>
<1>1. Is("out") /\ PortOf(Current) = port /\ Advance /\ ValueOf(Current) = Operand
    BY DEF IsOut, PortOf, ValueOf, Operand
<1>2. Current # In(96) /\ Current # Do("iret") /\ OpOf(Current) = "out" /\ up
    BY <1>1, Running, Fields
<1>3. CASE handler # <<>>
    <2>1. Current = Out(32, 32) /\ Tail(handler) = <<Do("iret")>> /\ pc > Greeted + 1 /\ ~ intf
        BY <1>1, <1>2, <1>3, Running
    <2>2. port = 32 /\ Operand = 32
        BY <1>1, <2>1, Fields
    <2>3. pc' = pc /\ handler' = <<Do("iret")>>
        BY <1>1, <1>3, <2>1 DEF Advance
    <2> QED
        BY <1>2, <1>3, <2>1, <2>2, <2>3
<1>4. CASE handler = <<>>
    <2>1. pc \in 1 .. Len(kmain) /\ Current = kmain[pc]
        BY <1>1, <1>4, Running
    <2>2. Placed(pc, Current)
        BY <2>1, Decode
    <2>3. pc' = pc + 1 /\ handler' = <<>>
        BY <1>1, <1>4 DEF Advance
    <2> QED
        BY <1>1, <1>2, <1>4, <2>1, <2>2, <2>3, InProgramme
<1> QED
    BY <1>3, <1>4

(* An outb of kmain: the CPU and its tables.                               *)
LEMMA OutKeeps ==
  ASSUME DevicesInv, NEW x, Placed(pc, x), OpOf(x) = "out", pc \in 1 .. Greeted + 7, up,
         handler = <<>>, handler' = <<>>, pc' = pc + 1, UNCHANGED <<intf, cpuTabs>>
  PROVE  CpuTypeOK' /\ Quiet' /\ TablesByPlace'
<1>1. UNCHANGED <<up, tables, idt>> /\ pc \in Nat
    BY InProgramme DEF cpuTabs
<1>2. pc \notin {1, 8, 9, 11}
    <2>1. OutPlaced(pc, x)
        BY <1>1, Fields DEF Placed, OutPlaced
    <2> QED
        BY <2>1, InProgramme DEF OutPlaced
<1>3. handler' \in Left
    BY DEF Left
<1>4. CpuTypeOK'
    <2>1. /\ intf' \in BOOLEAN /\ up' \in BOOLEAN /\ tables' \subseteq {"lgdt", "lidt"}
          /\ idt' \subseteq {32, 33, 128}
        BY <1>1, Tables
    <2>2. pc' \in 1 .. Greeted + 8
        BY InProgramme
    <2> QED
        BY <1>3, <2>1, <2>2, CpuTypes
<1>5. Quiet'
    <2>1. pc' <= Greeted + 1 => up' /\ ~ intf'
        BY <1>1, InProgramme DEF DevicesInv, Quiet
    <2> QED
        BY <1>3, <2>1 DEF Quiet
<1>6. TablesByPlace'
    BY <1>1, <1>2, TablesKept
<1> QED
    BY <1>4, <1>5, <1>6

-----------------------------------------------------------------------------
(* One lemma for each action.                                              *)
LEMMA LoadTableStep == ASSUME DevicesInv, LoadTable PROVE DevicesInv'
<1>1. PICK t \in {"lgdt", "lidt"} : Is(t) /\ tables' = tables \union {t}
    BY DEF LoadTable
<1>2. handler = <<>> /\ ((pc = 1 /\ t = "lgdt") \/ (pc = 11 /\ t = "lidt"))
    <2>1. handler = <<>> /\ pc \in Nat /\ Placed(pc, Current) /\ OpOf(Current) = t
        BY <1>1, AtKmain
    <2> QED
        BY <2>1, Opcodes
<1>3. pc' = pc + 1 /\ handler' = <<>>
    BY <1>2 DEF LoadTable, Advance
<1>4. UNCHANGED <<intf, up, idt, uart, line, pic, pit, full, shell_active, serial, kbd>>
    BY DEF LoadTable, serial, kbd
<1>5. pc' \in 1 .. Greeted + 8 /\ pc' <= Greeted + 1 /\ pc <= Greeted + 1
    BY <1>2, <1>3, InProgramme
<1>h. handler' \in Left
    BY <1>3 DEF Left
<1>6. CpuTypeOK'
    <2>1. intf' \in BOOLEAN /\ up' \in BOOLEAN /\ idt' \subseteq {32, 33, 128}
        BY <1>4, Tables
    <2>2. tables' \subseteq {"lgdt", "lidt"}
        BY <1>1, Tables
    <2> QED
        BY <1>5, <1>h, <2>1, <2>2, CpuTypes
<1>7. Quiet'
    BY <1>2, <1>3, <1>4, <1>5, <1>h DEF DevicesInv, Quiet
<1>8. TablesByPlace'
    BY <1>1, <1>2, <1>3, <1>4 DEF DevicesInv, TablesByPlace
<1>9. SpeedByPlace' /\ CountByPlace' /\ OnlyOurs'
    BY <1>2, <1>3, <1>4, <1>5, InProgramme, SpeedKept, CountKept, OursKept
<1>10. SentByPlace' /\ ControllersByPlace'
    BY <1>2, <1>3, <1>4, SentKept, ControllersKept
<1>11. SerialTypeOK' /\ PicTypeOK' /\ PitTypeOK' /\ full' \in BOOLEAN /\ shell_active' \in BOOLEAN
    BY <1>4, SerialTypeKept, PicTypeKept, PitTypeKept, KeyTypeKept
<1> QED
    BY <1>6, <1>7, <1>8, <1>9, <1>10, <1>11 DEF DevicesInv, DevicesTypeOK

(* The CPU's own instructions: gates, flags, the end of the lock screen,   *)
(* the handler's in.                                                       *)
LEMMA GateStep == ASSUME DevicesInv, set_idt_gate PROVE DevicesInv'
<1>1. Is("gate") /\ idt' = idt \union {PortOf(Current)}
    BY DEF set_idt_gate, PortOf
<1>2. /\ handler = <<>>
      /\ \/ pc = 8 /\ PortOf(Current) = 32
         \/ pc = 9 /\ PortOf(Current) = 33
         \/ pc = 10 /\ PortOf(Current) = 128
    <2>1. handler = <<>> /\ pc \in Nat /\ Placed(pc, Current) /\ OpOf(Current) = "gate"
        BY <1>1, AtKmain
    <2> QED
        BY <2>1, Opcodes
<1>3. pc' = pc + 1 /\ handler' = <<>>
    BY <1>2 DEF set_idt_gate, Advance
<1>4. UNCHANGED <<intf, up, tables, uart, line, pic, pit, full, shell_active, serial, kbd>>
    BY DEF set_idt_gate, serial, kbd
<1>5. pc' \in 1 .. Greeted + 8 /\ pc' <= Greeted + 1 /\ pc <= Greeted + 1
    BY <1>2, <1>3, InProgramme
<1>h. handler' \in Left
    BY <1>3 DEF Left
<1>6. CpuTypeOK'
    <2>1. intf' \in BOOLEAN /\ up' \in BOOLEAN /\ tables' \subseteq {"lgdt", "lidt"}
        BY <1>4, Tables
    <2>2. idt' \subseteq {32, 33, 128}
        BY <1>1, <1>2, Tables
    <2> QED
        BY <1>5, <1>h, <2>1, <2>2, CpuTypes
<1>7. Quiet'
    BY <1>2, <1>3, <1>4, <1>5, <1>h DEF DevicesInv, Quiet
<1>8. TablesByPlace'
    BY <1>1, <1>2, <1>3, <1>4 DEF DevicesInv, TablesByPlace
<1>9. SpeedByPlace' /\ CountByPlace' /\ OnlyOurs'
    BY <1>2, <1>3, <1>4, <1>5, InProgramme, SpeedKept, CountKept, OursKept
<1>10. SentByPlace' /\ ControllersByPlace'
    BY <1>2, <1>3, <1>4, SentKept, ControllersKept
<1>11. SerialTypeOK' /\ PicTypeOK' /\ PitTypeOK' /\ full' \in BOOLEAN /\ shell_active' \in BOOLEAN
    BY <1>4, SerialTypeKept, PicTypeKept, PitTypeKept, KeyTypeKept
<1> QED
    BY <1>6, <1>7, <1>8, <1>9, <1>10, <1>11 DEF DevicesInv, DevicesTypeOK

(* An instruction of a handler.                                            *)
LEMMA Handled ==
  ASSUME DevicesInv, pc > Greeted + 1, up, handler' \in Left, pc' = pc, intf' \in BOOLEAN,
         handler' # <<>> => ~ intf', UNCHANGED <<cpuTabs, serial, pit>>,
         PicTypeOK', ControllersByPlace', OnlyOurs', full' \in BOOLEAN, shell_active' \in BOOLEAN
  PROVE  DevicesInv'
<1>1. UNCHANGED <<up, tables, idt, uart, line, pit>>
    BY DEF cpuTabs, serial
<1>2. CpuTypeOK'
    <2>1. up' \in BOOLEAN /\ tables' \subseteq {"lgdt", "lidt"} /\ idt' \subseteq {32, 33, 128}
        BY <1>1, Tables
    <2>2. pc' \in 1 .. Greeted + 8
        BY InProgramme
    <2> QED
        BY <2>1, <2>2, CpuTypes
<1>3. Quiet'
    BY InProgramme DEF Quiet
<1>4. TablesByPlace' /\ SpeedByPlace' /\ SentByPlace' /\ CountByPlace'
    BY <1>1, TablesKept, SpeedKept, SentKept, CountKept
<1>5. SerialTypeOK' /\ PitTypeOK'
    BY SerialTypeKept, PitTypeKept
<1> QED
    BY <1>2, <1>3, <1>4, <1>5 DEF DevicesInv, DevicesTypeOK

(* One that leaves the devices alone.                                      *)
LEMMA Returned ==
  ASSUME DevicesInv, pc > Greeted + 1, up, handler' \in Left, pc' = pc, intf' \in BOOLEAN,
         handler' # <<>> => ~ intf', UNCHANGED <<cpuTabs, serial, pic, pit>>,
         full' \in BOOLEAN, shell_active' \in BOOLEAN
  PROVE  DevicesInv'
<1>1. PicTypeOK' /\ OnlyOurs'
    BY PicTypeKept, OursKept DEF cpuTabs
<1>2. ControllersByPlace'
    BY ControllersKept
<1> QED
    BY <1>1, <1>2, Handled

LEMMA FlagStep == ASSUME DevicesInv, SetInterruptFlag PROVE DevicesInv'
<1>1. UNCHANGED <<cpuTabs, serial, pic, pit, kbd>> /\ Advance /\ intf' \in BOOLEAN
    BY DEF SetInterruptFlag
<1>2. CASE Is("cli") \/ Is("sti")
    <2>1. handler = <<>> /\ pc \in {Greeted + 1, Greeted + 3, Greeted + 7}
        <3>1. PICK op \in {"cli", "sti"} : Is(op)
            BY <1>2
        <3>2. handler = <<>> /\ pc \in Nat /\ Placed(pc, Current) /\ OpOf(Current) = op
            BY <3>1, AtKmain
        <3> QED
            BY <3>2, Opcodes
    <2>2. pc' = pc + 1 /\ handler' = <<>>
        BY <1>1, <2>1 DEF Advance
    <2> QED
        BY <1>1, <2>1, <2>2, Onward
<1>3. CASE Is("iret")
    <2>1. Current # In(96) /\ Current # Out(32, 32)
        BY <1>3, Running, Fields
    <2>2. up /\ handler # <<>> /\ pc > Greeted + 1 /\ Tail(handler) = <<>>
        <3>1. CASE handler # <<>>
            BY <1>3, <2>1, <3>1, Running
        <3>2. CASE handler = <<>>
            <4>1. pc \in 1 .. Len(kmain) /\ Current = kmain[pc] /\ OpOf(Current) = "iret"
                BY <1>3, <3>2, Running
            <4>2. Placed(pc, Current) /\ pc \in Nat
                BY <4>1, Decode, InProgramme
            <4> QED
                BY <4>1, <4>2, Opcodes
        <3> QED
            BY <3>1, <3>2
    <2>3. handler' = <<>> /\ pc' = pc
        BY <1>1, <2>2 DEF Advance
    <2> QED
        <3>1. full' \in BOOLEAN /\ shell_active' \in BOOLEAN
            BY <1>1, KeyTypeKept
        <3>2. handler' \in Left
            BY <2>3 DEF Left
        <3> QED
            BY <1>1, <2>2, <2>3, <3>1, <3>2, Returned
<1> QED
    BY <1>2, <1>3 DEF SetInterruptFlag

LEMMA LeaveLockScreenStep == ASSUME DevicesInv, LeaveLockScreen PROVE DevicesInv'
<1>1. UNCHANGED <<intf, cpuTabs, serial, pic, pit, kbd>> /\ Advance /\ Is("locked")
    BY DEF LeaveLockScreen
<1>2. handler = <<>> /\ pc = Greeted + 2
    <2>1. handler = <<>> /\ pc \in Nat /\ Placed(pc, Current) /\ OpOf(Current) = "locked"
        BY <1>1, AtKmain
    <2> QED
        BY <2>1, Opcodes
<1>3. pc' = pc + 1 /\ handler' = <<>>
    BY <1>1, <1>2 DEF Advance
<1>4. intf' \in BOOLEAN
    BY <1>1, Tables
<1> QED
    BY <1>1, <1>2, <1>3, <1>4, Onward

LEMMA ReadStep == ASSUME DevicesInv, read_scan_code PROVE DevicesInv'
<1>1. /\ UNCHANGED <<intf, cpuTabs, serial, pic, pit>> /\ Advance /\ Is("in")
      /\ full' \in BOOLEAN /\ shell_active' \in BOOLEAN
    BY DEF read_scan_code, DevicesInv, DevicesTypeOK
<1>2. up /\ handler # <<>> /\ pc > Greeted + 1 /\ ~ intf /\ Tail(handler) = Ack
    <2>1. Current # Out(32, 32) /\ Current # Do("iret")
        BY <1>1, Running, Fields
    <2>2. CASE handler # <<>>
        BY <1>1, <2>1, <2>2, Running
    <2>3. CASE handler = <<>>
        <3>1. pc \in 1 .. Len(kmain) /\ Current = kmain[pc] /\ OpOf(Current) = "in"
            BY <1>1, <2>3, Running
        <3>2. Placed(pc, Current) /\ pc \in Nat
            BY <3>1, Decode, InProgramme
        <3> QED
            BY <3>1, <3>2, Opcodes
    <2> QED
        BY <2>2, <2>3
<1>3. handler' = Ack /\ pc' = pc
    BY <1>1, <1>2 DEF Advance
<1>4. handler' \in Left /\ ~ intf' /\ intf' \in BOOLEAN
    BY <1>1, <1>2, <1>3, Tables DEF Left
<1> QED
    BY <1>1, <1>2, <1>3, <1>4, Returned

(* The busy wait: the queue is empty when it ends.                         *)
LEMMA EndOfWaitStep == ASSUME DevicesInv, EndOfWait PROVE DevicesInv'
<1>1. /\ UNCHANGED <<intf, cpuTabs, serial, pic, pit, kbd>> /\ Advance
      /\ Is("wait") /\ uart.queue = <<>>
    BY DEF EndOfWait, serial_is_transmit_fifo_empty
<1>2. up /\ handler = <<>> /\ pc \in 20 .. Greeted /\ pc % 2 = 0 /\ pc \in Nat
    <2>1. up /\ handler = <<>> /\ pc \in Nat /\ Placed(pc, Current) /\ OpOf(Current) = "wait"
        BY <1>1, AtKmain
    <2> QED
        BY <2>1, Opcodes
<1>3. pc' = pc + 1 /\ handler' = <<>>
    BY <1>1, <1>2 DEF Advance
<1>4. UNCHANGED <<up, tables, idt, uart, line, pic, pit, full, shell_active>>
    BY <1>1 DEF cpuTabs, serial, kbd
<1>5. handler' \in Left /\ pc' \in 1 .. Greeted + 8
    BY <1>2, <1>3, InProgramme DEF Left
<1>6. CpuTypeOK'
    <2>1. /\ intf' \in BOOLEAN /\ up' \in BOOLEAN /\ tables' \subseteq {"lgdt", "lidt"}
          /\ idt' \subseteq {32, 33, 128}
        BY <1>1, <1>4, Tables
    <2> QED
        BY <1>5, <2>1, CpuTypes
<1>7. Quiet'
    BY <1>1, <1>2, <1>3, <1>4, <1>5, InProgramme DEF DevicesInv, Quiet
<1>8. SentByPlace'
    <2>1. WrittenAt(pc') = WrittenAt(pc)
        BY <1>2, <1>3, WrittenSteps
    <2>2. SentByPlace
        BY DEF DevicesInv
    <2>3. uart'.queue = <<>>
        BY <1>1, <1>4
    <2> QED
        BY <1>4, <2>1, <2>2, <2>3 DEF SentByPlace
<1>9. /\ pc \notin {1, 8, 9, 11} /\ pc \notin 2 .. 5 /\ pc \notin 12 .. 19
      /\ pc \notin Greeted + 4 .. Greeted + 6
    BY <1>2, InProgramme
<1>10. TablesByPlace' /\ SpeedByPlace' /\ CountByPlace' /\ OnlyOurs'
    BY <1>3, <1>4, <1>9, TablesKept, SpeedKept, CountKept, OursKept
<1>11. ControllersByPlace'
    BY <1>3, <1>4, <1>9, ControllersKept
<1>12. SerialTypeOK' /\ PicTypeOK' /\ PitTypeOK' /\ full' \in BOOLEAN /\ shell_active' \in BOOLEAN
    BY <1>1, SerialTypeKept, PicTypeKept, PitTypeKept, KeyTypeKept
<1> QED
    BY <1>6, <1>7, <1>8, <1>10, <1>11, <1>12 DEF DevicesInv, DevicesTypeOK

(* An outb of kmain to the UART: what the other devices keep.              *)
LEMMA UartOnly ==
  ASSUME DevicesInv, NEW x, Placed(pc, x), OpOf(x) = "out", pc \in 1 .. Greeted + 7, up,
         handler = <<>>, handler' = <<>>, pc' = pc + 1,
         UNCHANGED <<intf, cpuTabs, pic, pit, kbd>>,
         pc \notin 12 .. 19, pc \notin Greeted + 4 .. Greeted + 6,
         SerialTypeOK', SpeedByPlace', SentByPlace'
  PROVE  DevicesInv'
<1>1. CpuTypeOK' /\ Quiet' /\ TablesByPlace'
    BY OutKeeps
<1>2. UNCHANGED up
    BY DEF cpuTabs
<1>3. CountByPlace' /\ OnlyOurs'
    BY <1>2, CountKept, OursKept
<1>4. ControllersByPlace'
    BY ControllersKept
<1>5. PicTypeOK' /\ PitTypeOK' /\ full' \in BOOLEAN /\ shell_active' \in BOOLEAN
    BY PicTypeKept, PitTypeKept, KeyTypeKept
<1> QED
    BY <1>1, <1>3, <1>4, <1>5 DEF DevicesInv, DevicesTypeOK

(* The registers of the UART have their types.                             *)
LEMMA SerialTypes ==
  ASSUME DevicesInv
  PROVE  /\ uart \in Registers
         /\ uart.queue \in Seq(1 .. 255) /\ Len(uart.queue) \in Nat /\ Len(uart.queue) <= FIFO
         /\ line \in Seq(1 .. 255) /\ Len(line) \in Nat
BY DEF DevicesInv, DevicesTypeOK, SerialTypeOK, Registers

(* One register of the UART changes, the others stay.                      *)
LEMMA Latched ==
  ASSUME NEW r \in Registers, NEW v \in Nat, NEW s, s = [r EXCEPT !.dlab = v >= 128]
  PROVE  /\ s \in Registers /\ (s.dlab <=> (v >= 128))
         /\ s.dll = r.dll /\ s.dlm = r.dlm /\ s.queue = r.queue
<1> DEFINE b == v >= 128
<1>1. b \in BOOLEAN /\ s = [r EXCEPT !.dlab = b]
    OBVIOUS
<1> HIDE DEF b
<1>2. s \in Registers
    BY <1>1 DEF Registers
<1>3. s.dlab = b
    BY <1>1 DEF Registers
<1>4. s.dll = r.dll /\ s.dlm = r.dlm /\ s.queue = r.queue
    BY DEF Registers
<1>5. s.dlab <=> b
    BY <1>3
<1> QED
    BY <1>2, <1>4, <1>5 DEF b

LEMMA Queued ==
  ASSUME NEW r \in Registers, NEW q \in Seq(1 .. 255), NEW s, s = [r EXCEPT !.queue = q]
  PROVE  /\ s \in Registers /\ (s.dlab <=> r.dlab)
         /\ s.dll = r.dll /\ s.dlm = r.dlm /\ s.queue = q
<1>1. s \in Registers
    BY DEF Registers
<1>2. s.dlab = r.dlab
    BY DEF Registers
<1>3. s.dll = r.dll /\ s.dlm = r.dlm /\ s.queue = q
    BY DEF Registers
<1>4. s.dlab <=> r.dlab
    BY <1>2
<1> QED
    BY <1>1, <1>3, <1>4

LEMMA Unqueued ==
  ASSUME NEW r \in Registers, r.queue = <<>>, NEW s, s = [r EXCEPT !.queue = <<>>]
  PROVE  s = r
BY DEF Registers

LEMMA LowSet ==
  ASSUME NEW r \in Registers, NEW v \in 0 .. 255, NEW s, s = [r EXCEPT !.dll = v]
  PROVE  /\ s \in Registers /\ (s.dlab <=> r.dlab)
         /\ s.dll = v /\ s.dlm = r.dlm /\ s.queue = r.queue
<1>1. s \in Registers
    BY DEF Registers
<1>2. s.dlab = r.dlab
    BY DEF Registers
<1>3. s.dll = v /\ s.dlm = r.dlm /\ s.queue = r.queue
    BY DEF Registers
<1>4. s.dlab <=> r.dlab
    BY <1>2
<1> QED
    BY <1>1, <1>3, <1>4

(* The UART's configuration.                                               *)
LEMMA UartConfigured ==
  ASSUME DevicesInv, UartWrite, ~ IsOut(DATA)
  PROVE  DevicesInv'
<1>1. UNCHANGED <<intf, cpuTabs, line, pic, pit, kbd>>
    BY DEF UartWrite
<1>2. \/ IsOut(1019) /\ uart' = [uart EXCEPT !.dlab = Operand >= 128]
      \/ IsOut(1020) /\ UNCHANGED uart
      \/ IsOut(1018) /\ uart' = [uart EXCEPT !.queue = <<>>]
    BY DEF UartWrite, DATA, LINE_COMMAND, MODEM_COMMAND, FIFO_COMMAND
<1>3. PICK port \in {1018, 1019, 1020} : IsOut(port)
    BY <1>2
<1>4. /\ up /\ handler = <<>> /\ pc \in 1 .. Greeted + 7 /\ pc \in Nat
      /\ Placed(pc, Current) /\ OpOf(Current) = "out" /\ PortOf(Current) = port
      /\ ValueOf(Current) = Operand /\ pc' = pc + 1 /\ handler' = <<>>
    BY <1>3, AtOut
<1>5. \/ pc = 2 /\ Operand = 128 /\ uart' = [uart EXCEPT !.dlab = Operand >= 128]
      \/ pc = 5 /\ Operand = 3 /\ uart' = [uart EXCEPT !.dlab = Operand >= 128]
      \/ pc = 6 /\ UNCHANGED uart
      \/ pc = 7 /\ uart' = [uart EXCEPT !.queue = <<>>]
    <2>1. CASE IsOut(1019) /\ uart' = [uart EXCEPT !.dlab = Operand >= 128]
        <3>1. Placed(pc, Current) /\ OpOf(Current) = "out" /\ PortOf(Current) = 1019
              /\ ValueOf(Current) = Operand /\ pc \in Nat
            BY <2>1, AtOut
        <3>2. (pc = 2 /\ Operand = 128) \/ (pc = 5 /\ Operand = 3)
            BY <3>1, Ports
        <3> QED
            BY <2>1, <3>2
    <2>2. CASE IsOut(1020) /\ UNCHANGED uart
        <3>1. Placed(pc, Current) /\ OpOf(Current) = "out" /\ PortOf(Current) = 1020 /\ pc \in Nat
            BY <2>2, AtOut
        <3> QED
            BY <2>2, <3>1, Ports
    <2>3. CASE IsOut(1018) /\ uart' = [uart EXCEPT !.queue = <<>>]
        <3>1. Placed(pc, Current) /\ OpOf(Current) = "out" /\ PortOf(Current) = 1018 /\ pc \in Nat
            BY <2>3, AtOut
        <3> QED
            BY <2>3, <3>1, Ports
    <2> QED
        BY <1>2, <2>1, <2>2, <2>3
<1>6. uart.queue = <<>> /\ pc <= 7
    <2>1. pc <= 7
        BY <1>5
    <2>2. WrittenAt(pc) = 0
        BY <1>4, <2>1, WrittenSteps
    <2>3. Len(line) + Len(uart.queue) = 0
        BY <2>2 DEF DevicesInv, SentByPlace
    <2>4. Len(uart.queue) = 0
        BY <2>3, SerialTypes
    <2>5. \A q \in Seq(1 .. 255) : Len(q) = 0 => q = <<>>
        OBVIOUS
    <2> QED
        BY <2>1, <2>4, <2>5, SerialTypes
<1>7. /\ uart' \in Registers /\ uart'.queue = uart.queue /\ uart'.dll = uart.dll /\ uart'.dlm = uart.dlm
      /\ (pc = 2 => uart'.dlab) /\ (pc = 5 => ~ uart'.dlab) /\ (pc > 5 => (uart'.dlab <=> uart.dlab))
    <2>1. uart \in Registers /\ <<>> \in Seq(1 .. 255)
        BY SerialTypes
    <2>2. CASE /\ (pc = 2 /\ Operand = 128) \/ (pc = 5 /\ Operand = 3)
              /\ uart' = [uart EXCEPT !.dlab = Operand >= 128]
        <3>1. Operand \in Nat
            BY <2>2
        <3>2. /\ uart' \in Registers /\ (uart'.dlab <=> (Operand >= 128))
              /\ uart'.dll = uart.dll /\ uart'.dlm = uart.dlm /\ uart'.queue = uart.queue
            BY <2>1, <2>2, <3>1, Latched
        <3>3. (Operand = 128 => Operand >= 128) /\ (Operand = 3 => ~ (Operand >= 128))
            OBVIOUS
        <3> QED
            BY <2>2, <3>2, <3>3
    <2>3. CASE pc = 6 /\ UNCHANGED uart
        BY <2>1, <2>3
    <2>4. CASE pc = 7 /\ uart' = [uart EXCEPT !.queue = <<>>]
        <3>1. uart' = uart
            BY <1>6, <2>1, <2>4, Unqueued
        <3> QED
            <4>1. pc = 7
                BY <2>4
            <4> QED
                BY <2>1, <3>1, <4>1
    <2> QED
        BY <1>5, <2>2, <2>3, <2>4
<1>8. SerialTypeOK'
    BY <1>1, <1>7, SerialTypes DEF SerialTypeOK
<1>9. SpeedByPlace'
    BY <1>4, <1>5, <1>7 DEF DevicesInv, SpeedByPlace
<1>10. SentByPlace'
    BY <1>1, <1>4, <1>6, <1>7, InProgramme, SentKept
<1>11. pc \notin 12 .. 19 /\ pc \notin Greeted + 4 .. Greeted + 6
    BY <1>6, InProgramme
<1> QED
    BY <1>1, <1>4, <1>8, <1>9, <1>10, <1>11, UartOnly

(* The data port: the divisor, or a character of the greeting.             *)
LEMMA UartData ==
  ASSUME DevicesInv, UartWrite, IsOut(DATA)
  PROVE  DevicesInv'
<1>1. UNCHANGED <<intf, cpuTabs, line, pic, pit, kbd>>
    BY DEF UartWrite
<1>2. IsOut(1016)
    BY DEF DATA
<1>3. /\ up /\ handler = <<>> /\ pc \in 1 .. Greeted + 7 /\ pc \in Nat
      /\ Placed(pc, Current) /\ OpOf(Current) = "out" /\ PortOf(Current) = 1016
      /\ ValueOf(Current) = Operand /\ pc' = pc + 1 /\ handler' = <<>>
    BY <1>2, AtOut
<1>4. uart' = IF uart.dlab THEN [uart EXCEPT !.dll = Operand]
              ELSE IF Len(uart.queue) = FIFO THEN uart
              ELSE [uart EXCEPT !.queue = Append(@, Operand)]
    <2>1. ~ IsOut(1019) /\ ~ IsOut(1020) /\ ~ IsOut(1018)
        <3>1. Current[2] = 1016
            BY <1>3 DEF PortOf
        <3> QED
            BY <3>1 DEF IsOut
    <2> QED
        BY <2>1 DEF UartWrite, DATA, LINE_COMMAND, MODEM_COMMAND, FIFO_COMMAND
<1>5. \/ pc = 3 /\ Operand = 0
      \/ pc = 4 /\ Operand = 3
      \/ pc \in 20 .. Greeted /\ pc % 2 = 1 /\ Operand = Greeting[Slot(pc)]
    BY <1>3, Ports
<1>6. uart \in Registers /\ line \in Seq(1 .. 255) /\ Len(uart.queue) <= FIFO
    BY SerialTypes
<1>7. CASE pc \in {3, 4} /\ Operand \in 0 .. 255
    <2>1. uart.dlab
        BY <1>7 DEF DevicesInv, SpeedByPlace
    <2>2. uart' = [uart EXCEPT !.dll = Operand]
        BY <1>4, <2>1, Zenon
    <2>3. /\ uart' \in Registers /\ (uart'.dlab <=> uart.dlab)
          /\ uart'.dll = Operand /\ uart'.dlm = uart.dlm /\ uart'.queue = uart.queue
        <3>1. uart \in Registers /\ Operand \in 0 .. 255
            BY <1>6, <1>7
        <3> QED
            BY <2>2, <3>1, LowSet
    <2>4. SerialTypeOK'
        BY <1>1, <1>6, <2>3 DEF SerialTypeOK
    <2>5. SpeedByPlace'
        <3>1. pc = 4 => Operand = 3
            BY <1>5, <1>7
        <3>2. pc' \in {4, 5} /\ (pc' > 4 => Operand = 3)
            BY <1>3, <1>7, <3>1
        <3>3. uart'.dlab /\ uart'.dlm \in FirmwareDlm
            BY <2>1, <2>3 DEF DevicesInv, SpeedByPlace
        <3> QED
            BY <2>3, <3>2, <3>3 DEF SpeedByPlace
    <2>6. SentByPlace'
        BY <1>1, <1>3, <1>7, <2>3, InProgramme, SentKept
    <2>7. pc \notin 12 .. 19 /\ pc \notin Greeted + 4 .. Greeted + 6
        BY <1>7, InProgramme
    <2> QED
        BY <1>1, <1>3, <2>4, <2>5, <2>6, <2>7, UartOnly
<1>8. CASE pc \in 20 .. Greeted /\ pc % 2 = 1 /\ Operand = Greeting[Slot(pc)]
    <2>1. ~ uart.dlab /\ uart.queue = <<>>
        BY <1>8 DEF DevicesInv, SpeedByPlace, SentByPlace
    <2>2. Slot(pc) \in 1 .. Len(Greeting) /\ Operand \in 1 .. 255
        <3>1. Slot(pc) \in 1 .. Len(Greeting)
            BY <1>8, Numbers DEF Slot, Greeted
        <3>2. Greeting \in Seq(1 .. 255)
            BY Numbers
        <3>3. \A k \in 1 .. Len(Greeting) : Greeting[k] \in 1 .. 255
            BY <3>2, ElementOfSeq
        <3>4. Greeting[Slot(pc)] \in 1 .. 255
            BY <3>1, <3>3, Zenon
        <3> QED
            BY <1>8, <3>1, <3>4
    <2>3. PICK q \in Seq(1 .. 255) : q = Append(uart.queue, Operand) /\ Len(q) = 1 /\ q[1] = Operand
        <3>1. <<>> \in Seq(1 .. 255) /\ Append(<<>>, Operand) \in Seq(1 .. 255)
            BY <2>2
        <3>2. Len(Append(<<>>, Operand)) = 1 /\ Append(<<>>, Operand)[1] = Operand
            BY <2>2
        <3> QED
            BY <2>1, <3>1, <3>2
    <2>4. uart' = [uart EXCEPT !.queue = q]
        <3>1. Len(uart.queue) # FIFO
            BY <2>1, Numbers
        <3>2. uart' = [uart EXCEPT !.queue = Append(uart.queue, Operand)]
            BY <1>4, <2>1, <3>1
        <3> QED
            BY <2>3, <3>2, Zenon
    <2>5. /\ uart' \in Registers /\ (uart'.dlab <=> uart.dlab)
          /\ uart'.dll = uart.dll /\ uart'.dlm = uart.dlm /\ uart'.queue = q
        BY <1>6, <2>4, Queued
    <2>6. SerialTypeOK'
        <3>1. Len(uart'.queue) <= FIFO
            BY <2>3, <2>5, Numbers
        <3> QED
            BY <1>1, <1>6, <2>5, <3>1 DEF SerialTypeOK
    <2>7. SpeedByPlace'
        BY <1>3, <1>8, <2>5, InProgramme DEF DevicesInv, SpeedByPlace
    <2>8. SentByPlace'
        <3>1. WrittenAt(pc + 1) = WrittenAt(pc) + 1 /\ WrittenAt(pc + 1) = Slot(pc)
            BY <1>3, <1>8, WrittenSteps
        <3>2. Len(line) + Len(uart.queue) = WrittenAt(pc) /\ \A j \in 1 .. Len(line) : line[j] = Greeting[j]
            BY DEF DevicesInv, SentByPlace
        <3>3. Len(uart.queue) = 0
            BY <2>1
        <3>4. Len(line) \in Nat /\ Len(line) + 1 = Slot(pc) /\ WrittenAt(pc + 1) = Len(line) + 1
            BY <1>6, <2>2, <3>1, <3>2, <3>3
        <3>5. Len(line') + Len(uart'.queue) = WrittenAt(pc')
            BY <1>1, <1>3, <2>3, <2>5, <3>4
        <3>6. \A j \in 1 .. Len(uart'.queue) : uart'.queue[j] = Greeting[Len(line') + j]
            BY <1>1, <1>8, <2>3, <2>5, <3>4
        <3>7. ~ (pc' % 2 = 1)
            BY <1>3, <1>8
        <3> QED
            BY <1>1, <3>2, <3>5, <3>6, <3>7 DEF SentByPlace
    <2>9. pc \notin 12 .. 19 /\ pc \notin Greeted + 4 .. Greeted + 6
        BY <1>8, InProgramme
    <2> QED
        BY <1>1, <1>3, <2>6, <2>7, <2>8, <2>9, UartOnly
<1> QED
    BY <1>5, <1>7, <1>8

(* Every outb to the UART.                                                 *)
LEMMA UartStep == ASSUME DevicesInv, UartWrite PROVE DevicesInv'
BY UartConfigured, UartData

(* A character leaves the queue for the line.                              *)
LEMMA SendStep == ASSUME DevicesInv, UartSend PROVE DevicesInv'
<1>1. /\ up /\ uart.queue # <<>> /\ line' = Append(line, Head(uart.queue))
      /\ uart' = [uart EXCEPT !.queue = Tail(uart.queue)]
      /\ UNCHANGED <<cpu, cpuTabs, pic, pit, kbd>>
    BY DEF UartSend
<1>2. /\ UNCHANGED <<pc, handler, intf, up, tables, idt, pic, pit, full, shell_active>>
    BY <1>1 DEF cpu, cpuTabs, kbd
<1>3. /\ uart \in Registers /\ line \in Seq(1 .. 255) /\ Len(uart.queue) <= FIFO
      /\ uart.queue \in Seq(1 .. 255)
    BY SerialTypes
<1>4. PICK q \in Seq(1 .. 255) :
        /\ q = Tail(uart.queue) /\ Len(q) + 1 = Len(uart.queue)
        /\ \A j \in 1 .. Len(q) : q[j] = uart.queue[j + 1]
    <2>1. /\ Tail(uart.queue) \in Seq(1 .. 255) /\ Len(Tail(uart.queue)) = Len(uart.queue) - 1
          /\ \A j \in 1 .. Len(Tail(uart.queue)) : Tail(uart.queue)[j] = uart.queue[j + 1]
        BY <1>1, <1>3, HeadTailProperties
    <2>2. Len(uart.queue) \in Nat
        BY <1>3
    <2>3. Len(Tail(uart.queue)) + 1 = Len(uart.queue)
        BY <2>1, <2>2
    <2> QED
        BY <2>1, <2>3, Zenon
<1>5. PICK c \in 1 .. 255 : c = Head(uart.queue) /\ c = uart.queue[1] /\ Len(uart.queue) >= 1
    <2>1. Head(uart.queue) \in 1 .. 255
        BY <1>1, <1>3, HeadTailProperties
    <2>2. Head(uart.queue) = uart.queue[1]
        BY <1>1, <1>3
    <2>3. Len(uart.queue) >= 1
        BY <1>4, <1>3
    <2> QED
        BY <2>1, <2>2, <2>3
<1>6. /\ uart' \in Registers /\ (uart'.dlab <=> uart.dlab)
      /\ uart'.dll = uart.dll /\ uart'.dlm = uart.dlm /\ uart'.queue = q
    <2>1. uart' = [uart EXCEPT !.queue = q]
        BY <1>1, <1>4, Zenon
    <2> QED
        BY <1>3, <2>1, Queued
<1>7. /\ line' \in Seq(1 .. 255) /\ Len(line') = Len(line) + 1 /\ line'[Len(line) + 1] = c
      /\ \A j \in 1 .. Len(line) : line'[j] = line[j]
    <2>1. line' = Append(line, c)
        BY <1>1, <1>5
    <2> QED
        BY <1>3, <2>1
<1>8. Len(line) \in Nat /\ Len(q) \in Nat
    BY <1>3, <1>4
<1>9. SerialTypeOK'
    <2>1. Len(uart'.queue) <= FIFO
        BY <1>3, <1>4, <1>6, <1>8, Numbers
    <2> QED
        BY <1>6, <1>7, <2>1 DEF SerialTypeOK
<1>10. SpeedByPlace'
    BY <1>2, <1>6 DEF DevicesInv, SpeedByPlace
<1>11. SentByPlace'
    <2>1. SentByPlace
        BY DEF DevicesInv
    <2>2. Len(line') + Len(uart'.queue) = WrittenAt(pc')
        <3>1. Len(line') = Len(line) + 1 /\ uart'.queue = q /\ pc' = pc
            BY <1>2, <1>6, <1>7
        <3>2. Len(line) + Len(uart.queue) = WrittenAt(pc)
            BY <2>1 DEF SentByPlace
        <3>3. Len(line) + (Len(q) + 1) = WrittenAt(pc)
            BY <1>4, <3>2
        <3>4. Len(line) + 1 + Len(q) = WrittenAt(pc)
            BY <1>8, <3>3
        <3> QED
            BY <3>1, <3>4
    <2>3. \A j \in 1 .. Len(line') : line'[j] = Greeting[j]
        <3>1. c = Greeting[Len(line) + 1]
            BY <1>5, <2>1 DEF SentByPlace
        <3> QED
            BY <1>7, <1>8, <2>1, <3>1 DEF SentByPlace
    <2>4. \A j \in 1 .. Len(uart'.queue) : uart'.queue[j] = Greeting[Len(line') + j]
        <3> SUFFICES ASSUME NEW j \in 1 .. Len(q) PROVE q[j] = Greeting[Len(line) + 1 + j]
            BY <1>6, <1>7
        <3>1. q[j] = uart.queue[j + 1] /\ j + 1 \in 1 .. Len(uart.queue)
            BY <1>4, <1>8
        <3>2. uart.queue[j + 1] = Greeting[Len(line) + (j + 1)]
            BY <2>1, <3>1 DEF SentByPlace
        <3>3. Len(line) + (j + 1) = Len(line) + 1 + j
            BY <1>8
        <3> QED
            BY <3>1, <3>2, <3>3
    <2>5. ~ (pc' \in 20 .. Greeted /\ pc' % 2 = 1)
        BY <1>1, <1>2, <2>1 DEF SentByPlace
    <2> QED
        BY <2>2, <2>3, <2>4, <2>5 DEF SentByPlace
<1>12. CpuTypeOK' /\ Quiet' /\ TablesByPlace' /\ CountByPlace' /\ OnlyOurs' /\ ControllersByPlace'
    BY <1>2 DEF DevicesInv, DevicesTypeOK, CpuTypeOK, Quiet, TablesByPlace, CountByPlace, OnlyOurs,
                ControllersByPlace
<1>13. PicTypeOK' /\ PitTypeOK' /\ full' \in BOOLEAN /\ shell_active' \in BOOLEAN
    BY <1>1, PicTypeKept, PitTypeKept, KeyTypeKept
<1> QED
    BY <1>9, <1>10, <1>11, <1>12, <1>13 DEF DevicesInv, DevicesTypeOK

-----------------------------------------------------------------------------
(* What the words do to the 8259s.                                         *)
Controllers == [{1, 2} -> Controller]

Restart(f, p) == [f EXCEPT ![p].next = "icw2", ![p].imr = {}, ![p].irr = {}, ![p].isr = {}]
Service(f, p, S) == [f EXCEPT ![p].isr = S]
Rebase(f, p, b) == [f EXCEPT ![p].next = "icw3", ![p].base = b]
Wire(f, p, w) == [f EXCEPT ![p].next = "icw4", ![p].wired = w]
Finish(f, p) == [f EXCEPT ![p].next = "ready"]
Demand(f, p, i) == [f EXCEPT ![p].irr = @ \union {i}]

(* What each step of an 8259's initialisation, an acknowledgement and a    *)
(* request change of its registers.                                        *)
LEMMA Restarted ==
  ASSUME NEW f \in Controllers, NEW p \in {1, 2}
  PROVE  LET g == Restart(f, p) IN
         /\ g \in Controllers
         /\ g[p].next = "icw2" /\ g[p].base = f[p].base /\ g[p].wired = f[p].wired
         /\ g[p].irr = {}
         /\ \A q \in {1, 2} : q # p => g[q] = f[q]
<1> DEFINE g == Restart(f, p)
<1>0. g = [f EXCEPT ![p].next = "icw2", ![p].imr = {}, ![p].irr = {}, ![p].isr = {}]
    BY DEF Restart
<1> HIDE DEF g
<1>1. f[1] \in Controller /\ f[2] \in Controller /\ f[p] \in Controller
    BY DEF Controllers
<1>2. g \in Controllers
    <2>1. {} \in SUBSET (0 .. 7) /\ "icw2" \in {"firmware", "icw2", "icw3", "icw4", "ready"}
        OBVIOUS
    <2> QED
        BY <1>0, <1>1, <2>1 DEF Controllers, Controller
<1>3. g[p].next = "icw2" /\ g[p].base = f[p].base /\ g[p].wired = f[p].wired /\ g[p].irr = {}
    BY <1>0 DEF Controllers, Controller
<1>4. \A q \in {1, 2} : q # p => g[q] = f[q]
    BY <1>0 DEF Controllers, Controller
<1> QED
    BY <1>2, <1>3, <1>4 DEF g

LEMMA Serviced ==
  ASSUME NEW f \in Controllers, NEW p \in {1, 2}, NEW S \in SUBSET (0 .. 7)
  PROVE  LET g == Service(f, p, S) IN
         /\ g \in Controllers
         /\ \A q \in {1, 2} : /\ g[q].next = f[q].next /\ g[q].base = f[q].base
                              /\ g[q].wired = f[q].wired /\ g[q].irr = f[q].irr
<1> DEFINE g == Service(f, p, S)
<1>0. g = [f EXCEPT ![p].isr = S]
    BY DEF Service
<1> HIDE DEF g
<1>2. g \in Controllers
    BY <1>0 DEF Controllers, Controller
<1>4. \A q \in {1, 2} : /\ g[q].next = f[q].next /\ g[q].base = f[q].base
                        /\ g[q].wired = f[q].wired /\ g[q].irr = f[q].irr
    BY <1>0 DEF Controllers, Controller
<1> QED
    BY <1>2, <1>4 DEF g

LEMMA Based ==
  ASSUME NEW f \in Controllers, NEW p \in {1, 2}, NEW b \in {PIC1_START, PIC2_START}
  PROVE  LET g == Rebase(f, p, b) IN
         /\ g \in Controllers
         /\ g[p].next = "icw3" /\ g[p].base = b /\ g[p].wired = f[p].wired /\ g[p].irr = f[p].irr
         /\ \A q \in {1, 2} : q # p => g[q] = f[q]
<1> DEFINE g == Rebase(f, p, b)
<1>0. g = [f EXCEPT ![p].next = "icw3", ![p].base = b]
    BY DEF Rebase
<1> HIDE DEF g
<1>2. g \in Controllers
    BY <1>0 DEF Controllers, Controller
<1>3. g[p].next = "icw3" /\ g[p].base = b /\ g[p].wired = f[p].wired /\ g[p].irr = f[p].irr
    BY <1>0 DEF Controllers, Controller
<1>4. \A q \in {1, 2} : q # p => g[q] = f[q]
    BY <1>0 DEF Controllers, Controller
<1> QED
    BY <1>2, <1>3, <1>4 DEF g

LEMMA Wired ==
  ASSUME NEW f \in Controllers, NEW p \in {1, 2}, NEW w \in {2, 4}
  PROVE  LET g == Wire(f, p, w) IN
         /\ g \in Controllers
         /\ g[p].next = "icw4" /\ g[p].base = f[p].base /\ g[p].wired = w /\ g[p].irr = f[p].irr
         /\ \A q \in {1, 2} : q # p => g[q] = f[q]
<1> DEFINE g == Wire(f, p, w)
<1>0. g = [f EXCEPT ![p].next = "icw4", ![p].wired = w]
    BY DEF Wire
<1> HIDE DEF g
<1>2. g \in Controllers
    BY <1>0 DEF Controllers, Controller
<1>3. g[p].next = "icw4" /\ g[p].base = f[p].base /\ g[p].wired = w /\ g[p].irr = f[p].irr
    BY <1>0 DEF Controllers, Controller
<1>4. \A q \in {1, 2} : q # p => g[q] = f[q]
    BY <1>0 DEF Controllers, Controller
<1> QED
    BY <1>2, <1>3, <1>4 DEF g

LEMMA Ready ==
  ASSUME NEW f \in Controllers, NEW p \in {1, 2}
  PROVE  LET g == Finish(f, p) IN
         /\ g \in Controllers
         /\ g[p].next = "ready" /\ g[p].base = f[p].base /\ g[p].wired = f[p].wired /\ g[p].irr = f[p].irr
         /\ \A q \in {1, 2} : q # p => g[q] = f[q]
<1> DEFINE g == Finish(f, p)
<1>0. g = [f EXCEPT ![p].next = "ready"]
    BY DEF Finish
<1> HIDE DEF g
<1>2. g \in Controllers
    BY <1>0 DEF Controllers, Controller
<1>3. g[p].next = "ready" /\ g[p].base = f[p].base /\ g[p].wired = f[p].wired /\ g[p].irr = f[p].irr
    BY <1>0 DEF Controllers, Controller
<1>4. \A q \in {1, 2} : q # p => g[q] = f[q]
    BY <1>0 DEF Controllers, Controller
<1> QED
    BY <1>2, <1>3, <1>4 DEF g

LEMMA Requested ==
  ASSUME NEW f \in Controllers, NEW p \in {1, 2}, NEW i \in 0 .. 7
  PROVE  LET g == Demand(f, p, i) IN
         /\ g \in Controllers
         /\ g[p].irr = f[p].irr \union {i}
         /\ \A q \in {1, 2} : g[q].next = f[q].next /\ g[q].base = f[q].base /\ g[q].wired = f[q].wired
         /\ \A q \in {1, 2} : q # p => g[q] = f[q]
<1> DEFINE g == Demand(f, p, i)
<1>0. g = [f EXCEPT ![p].irr = @ \union {i}]
    BY DEF Demand
<1> HIDE DEF g
<1>2. g \in Controllers
    BY <1>0 DEF Controllers, Controller
<1>3. g[p].irr = f[p].irr \union {i}
    BY <1>0 DEF Controllers, Controller
<1>5. \A q \in {1, 2} : g[q].next = f[q].next /\ g[q].base = f[q].base /\ g[q].wired = f[q].wired
    BY <1>0 DEF Controllers, Controller
<1>4. \A q \in {1, 2} : q # p => g[q] = f[q]
    BY <1>0 DEF Controllers, Controller
<1> QED
    BY <1>2, <1>3, <1>4, <1>5 DEF g

(* The 8259s' type, with each one's own vectors and wiring.                *)
LEMMA PicTypes ==
  ASSUME DevicesInv
  PROVE  /\ pic \in Controllers
         /\ pic[1].base \in {8, PIC1_START} /\ pic[2].base \in {112, PIC2_START}
         /\ pic[1].wired \in {0, 4} /\ pic[2].wired \in {0, 2}
BY DEF DevicesInv, DevicesTypeOK, PicTypeOK, Controllers

LEMMA PicTypeNext ==
  ASSUME pic' \in Controllers,
         pic'[1].base \in {8, PIC1_START}, pic'[2].base \in {112, PIC2_START},
         pic'[1].wired \in {0, 4}, pic'[2].wired \in {0, 2}
  PROVE  PicTypeOK'
BY DEF PicTypeOK, Controllers

(* An outb of kmain to an 8259: what the other devices keep.               *)
LEMMA PicOnly ==
  ASSUME DevicesInv, NEW x, Placed(pc, x), OpOf(x) = "out", pc \in 12 .. 19, up,
         handler = <<>>, handler' = <<>>, pc' = pc + 1,
         UNCHANGED <<intf, cpuTabs, serial, pit, kbd>>,
         PicTypeOK', ControllersByPlace', OnlyOurs'
  PROVE  DevicesInv'
<1>1. pc \in 1 .. Greeted + 7
    BY InProgramme
<1>2. CpuTypeOK' /\ Quiet' /\ TablesByPlace'
    BY <1>1, OutKeeps
<1>3. uart' = uart /\ line' = line
    BY DEF serial
<1>4. pc \notin 2 .. 5 /\ pc \notin 20 .. Greeted /\ pc \notin Greeted + 4 .. Greeted + 6
    BY InProgramme
<1>5. SpeedByPlace' /\ SentByPlace' /\ CountByPlace'
    BY <1>3, <1>4, SpeedKept, SentKept, CountKept
<1>6. SerialTypeOK' /\ PitTypeOK' /\ full' \in BOOLEAN /\ shell_active' \in BOOLEAN
    BY SerialTypeKept, PitTypeKept, KeyTypeKept
<1> QED
    BY <1>2, <1>5, <1>6 DEF DevicesInv, DevicesTypeOK

(* ICW1, and the acknowledgement.                                          *)
LEMMA PicCommandStep ==
  ASSUME DevicesInv, NEW p \in {1, 2}, PicCommand(p)
  PROVE  DevicesInv'
<1>1. UNCHANGED <<intf, cpuTabs, serial, pit, kbd>> /\ IsOut(COMMAND(p)) /\ up' = up
    BY DEF PicCommand, cpuTabs
<1>2. pic \in Controllers
    BY PicTypes
<1>3. full' \in BOOLEAN /\ shell_active' \in BOOLEAN
    BY <1>1, KeyTypeKept
<1>4. CASE handler # <<>>
    <2>1. /\ pc > Greeted + 1 /\ ~ intf /\ up /\ COMMAND(p) = 32 /\ Operand = 32 /\ pc' = pc
          /\ handler' = <<Do("iret")>>
        BY <1>1, <1>4, AtOut
    <2>2. PICK S \in SUBSET (0 .. 7) : pic' = Service(pic, p, S)
        <3> DEFINE S == IF pic[p].isr = {} THEN {} ELSE pic[p].isr \ {Min(pic[p].isr)}
        <3>1. ~ ((Operand \div 16) % 2 = 1)
            BY <2>1
        <3>2. pic' = Service(pic, p, S)
            BY <3>1 DEF PicCommand, Service
        <3>3. S \in SUBSET (0 .. 7)
            BY <1>2 DEF Controllers, Controller
        <3> QED
            BY <3>2, <3>3
    <2>3. /\ pic' \in Controllers
          /\ \A q \in {1, 2} : /\ pic'[q].next = pic[q].next /\ pic'[q].base = pic[q].base
                               /\ pic'[q].wired = pic[q].wired /\ pic'[q].irr = pic[q].irr
        BY <1>2, <2>2, Serviced
    <2>4. PicTypeOK'
        BY <2>3, PicTypes, PicTypeNext
    <2>5. ControllersByPlace'
        BY <2>1, <2>3, ControllersKept
    <2>6. OnlyOurs'
        BY <1>1, <2>3 DEF DevicesInv, OnlyOurs
    <2>7. handler' \in Left /\ intf' \in BOOLEAN /\ ~ intf'
        BY <1>1, <2>1, Tables DEF Left
    <2> QED
        BY <1>1, <1>3, <2>1, <2>4, <2>5, <2>6, <2>7, Handled
<1>5. CASE handler = <<>>
    <2>1. /\ up /\ handler = <<>> /\ pc \in Nat /\ Placed(pc, Current) /\ OpOf(Current) = "out"
          /\ PortOf(Current) = COMMAND(p) /\ ValueOf(Current) = Operand
          /\ pc' = pc + 1 /\ handler' = <<>>
        BY <1>1, <1>5, AtOut
    <2>2. Operand = 17 /\ pc = 11 + p
        <3>1. (p = 1 /\ COMMAND(p) = 32) \/ (p = 2 /\ COMMAND(p) = 160)
            BY DEF COMMAND
        <3>2. (PortOf(Current) = 32 => pc = 12 /\ ValueOf(Current) = 17)
              /\ (PortOf(Current) = 160 => pc = 13 /\ ValueOf(Current) = 17)
            BY <2>1, Ports
        <3> QED
            BY <2>1, <3>1, <3>2
    <2>3. pic' = Restart(pic, p)
        <3>1. (Operand \div 16) % 2 = 1
            BY <2>2
        <3> QED
            BY <3>1 DEF PicCommand, Restart
    <2>4. /\ pic' \in Controllers
          /\ pic'[p].next = "icw2" /\ pic'[p].base = pic[p].base /\ pic'[p].wired = pic[p].wired
          /\ pic'[p].irr = {}
          /\ \A q \in {1, 2} : q # p => pic'[q] = pic[q]
        BY <1>2, <2>3, Restarted
    <2>5. PicTypeOK'
        BY <2>4, PicTypes, PicTypeNext
    <2>6. ControllersByPlace'
        <3>1. ControllersByPlace
            BY DEF DevicesInv
        <3>2. CASE p = 1 /\ pc = 12
            BY <2>1, <2>4, <3>1, <3>2 DEF ControllersByPlace
        <3>3. CASE p = 2 /\ pc = 13
            BY <2>1, <2>4, <3>1, <3>3 DEF ControllersByPlace
        <3> QED
            BY <2>2, <3>2, <3>3
    <2>7. OnlyOurs'
        BY <1>1, <2>4 DEF DevicesInv, OnlyOurs
    <2>8. pc \in 12 .. 19
        BY <2>2
    <2> QED
        BY <1>1, <2>1, <2>5, <2>6, <2>7, <2>8, PicOnly
<1> QED
    BY <1>4, <1>5

(* The three words that follow ICW1; nobody sends a mask.                  *)
LEMMA PicDataStep ==
  ASSUME DevicesInv, NEW p \in {1, 2}, PicData(p)
  PROVE  DevicesInv'
<1>1. UNCHANGED <<intf, cpuTabs, serial, pit, kbd>> /\ IsOut(DATAPORT(p)) /\ up' = up
    BY DEF PicData, cpuTabs
<1>2. pic \in Controllers
    BY PicTypes
<1>3. (p = 1 /\ DATAPORT(p) = 33) \/ (p = 2 /\ DATAPORT(p) = 161)
    BY DEF DATAPORT, COMMAND
<1>4. /\ up /\ handler = <<>> /\ pc \in Nat /\ Placed(pc, Current) /\ OpOf(Current) = "out"
      /\ PortOf(Current) = DATAPORT(p) /\ ValueOf(Current) = Operand
      /\ pc' = pc + 1 /\ handler' = <<>>
    BY <1>1, <1>3, AtOut
<1>5. \/ p = 1 /\ pc = 14 /\ Operand = 32
      \/ p = 2 /\ pc = 15 /\ Operand = 40
      \/ p = 1 /\ pc = 16 /\ Operand = 4
      \/ p = 2 /\ pc = 17 /\ Operand = 2
      \/ p = 1 /\ pc = 18
      \/ p = 2 /\ pc = 19
    <2>1. PortOf(Current) = 33 => \/ pc = 14 /\ ValueOf(Current) = 32
                                  \/ pc = 16 /\ ValueOf(Current) = 4
                                  \/ pc = 18 /\ ValueOf(Current) = 1
        BY <1>4, Ports
    <2>2. PortOf(Current) = 161 => \/ pc = 15 /\ ValueOf(Current) = 40
                                   \/ pc = 17 /\ ValueOf(Current) = 2
                                   \/ pc = 19 /\ ValueOf(Current) = 1
        BY <1>4, Ports
    <2> QED
        BY <1>3, <1>4, <2>1, <2>2
<1>6. ControllersByPlace
    BY DEF DevicesInv
<1>7. PicTypeOK' /\ ControllersByPlace' /\ OnlyOurs'
    <2>1. CASE pc \in {14, 15}
        <3>1. pic[p].next = "icw2" /\ Operand \in {PIC1_START, PIC2_START}
            BY <1>5, <1>6, <2>1 DEF ControllersByPlace, PIC1_START, PIC2_START
        <3>2. pic' = Rebase(pic, p, Operand)
            BY <3>1, Zenon DEF PicData, Rebase
        <3>3. /\ pic' \in Controllers
              /\ pic'[p].next = "icw3" /\ pic'[p].base = Operand /\ pic'[p].wired = pic[p].wired
              /\ pic'[p].irr = pic[p].irr
              /\ \A q \in {1, 2} : q # p => pic'[q] = pic[q]
            BY <1>2, <3>1, <3>2, Based
        <3>4. (p = 1 /\ pc = 14 /\ Operand = 32) \/ (p = 2 /\ pc = 15 /\ Operand = 40)
            BY <1>5, <2>1
        <3>5. PicTypeOK'
            BY <3>3, <3>4, PicTypes, PicTypeNext DEF PIC1_START, PIC2_START
        <3>6. ControllersByPlace'
            BY <1>4, <1>6, <3>3, <3>4 DEF ControllersByPlace
        <3>7. OnlyOurs'
            BY <1>1, <3>3 DEF DevicesInv, OnlyOurs
        <3> QED
            BY <3>5, <3>6, <3>7
    <2>2. CASE pc \in {16, 17}
        <3>1. pic[p].next = "icw3" /\ Operand \in {2, 4}
            BY <1>5, <1>6, <2>2 DEF ControllersByPlace
        <3>2. pic' = Wire(pic, p, Operand)
            <4>1. "icw3" # "icw2"
                OBVIOUS
            <4> QED
                BY <3>1, <4>1, Zenon DEF PicData, Wire
        <3>3. /\ pic' \in Controllers
              /\ pic'[p].next = "icw4" /\ pic'[p].base = pic[p].base /\ pic'[p].wired = Operand
              /\ pic'[p].irr = pic[p].irr
              /\ \A q \in {1, 2} : q # p => pic'[q] = pic[q]
            BY <1>2, <3>1, <3>2, Wired
        <3>4. (p = 1 /\ pc = 16 /\ Operand = 4) \/ (p = 2 /\ pc = 17 /\ Operand = 2)
            BY <1>5, <2>2
        <3>5. PicTypeOK'
            BY <3>3, <3>4, PicTypes, PicTypeNext
        <3>6. ControllersByPlace'
            BY <1>4, <1>6, <3>3, <3>4 DEF ControllersByPlace
        <3>7. OnlyOurs'
            BY <1>1, <3>3 DEF DevicesInv, OnlyOurs
        <3> QED
            BY <3>5, <3>6, <3>7
    <2>3. CASE pc \in {18, 19}
        <3>1. pic[p].next = "icw4"
            BY <1>5, <1>6, <2>3 DEF ControllersByPlace
        <3>2. pic' = Finish(pic, p)
            <4>1. "icw4" # "icw2" /\ "icw4" # "icw3"
                OBVIOUS
            <4> QED
                BY <3>1, <4>1, Zenon DEF PicData, Finish
        <3>3. /\ pic' \in Controllers
              /\ pic'[p].next = "ready" /\ pic'[p].base = pic[p].base /\ pic'[p].wired = pic[p].wired
              /\ pic'[p].irr = pic[p].irr
              /\ \A q \in {1, 2} : q # p => pic'[q] = pic[q]
            BY <1>2, <3>2, Ready
        <3>4. (p = 1 /\ pc = 18) \/ (p = 2 /\ pc = 19)
            BY <1>5, <2>3
        <3>5. PicTypeOK'
            BY <3>3, <3>4, PicTypes, PicTypeNext
        <3>6. ControllersByPlace'
            BY <1>4, <1>6, <3>3, <3>4 DEF ControllersByPlace
        <3>7. OnlyOurs'
            BY <1>1, <3>3 DEF DevicesInv, OnlyOurs
        <3> QED
            BY <3>5, <3>6, <3>7
    <2> QED
        BY <1>5, <2>1, <2>2, <2>3
<1>8. pc \in 12 .. 19
    BY <1>5
<1> QED
    BY <1>1, <1>4, <1>7, <1>8, PicOnly

-----------------------------------------------------------------------------
(* The 8254 takes a byte.                                                  *)
Reset(c)      == [c EXCEPT !.byte = "low"]
PutLow(c, v)  == [c EXCEPT !.low = v, !.byte = "high"]
PutHigh(c, v) == [c EXCEPT !.count = 256 * v + c.low, !.byte = "low"]

(* The two bytes of a count, and what each step of the 8254 does.          *)
LEMMA Words ==
  ASSUME NEW v \in 0 .. 255, NEW w \in 0 .. 255
  PROVE  256 * v + w \in 0 .. MaxCount
<1>1. v \in Nat /\ w \in Nat /\ v <= 255 /\ w <= 255
    OBVIOUS
<1>2. MaxCount \in Nat /\ MaxCount = 65535
    BY DEF MaxCount
<1>3. 256 * v + w <= MaxCount /\ 256 * v + w \in Nat
    BY <1>1, <1>2
<1>4. MaxCount \in Nat
    BY <1>2
<1> QED
    BY <1>3, <1>4

LEMMA ChannelReset == ASSUME NEW c \in Channel PROVE Reset(c) \in Channel /\ Reset(c).byte = "low"
<1> DEFINE d == Reset(c)
<1>1. d = [c EXCEPT !.byte = "low"]
    BY DEF Reset
<1> HIDE DEF d
<1>2. d \in Channel
    BY <1>1 DEF Channel
<1>3. d.byte = "low"
    BY <1>1 DEF Channel
<1> QED
    BY <1>2, <1>3 DEF d

LEMMA ChannelLow ==
  ASSUME NEW c \in Channel, NEW v \in 0 .. 255
  PROVE  PutLow(c, v) \in Channel /\ PutLow(c, v).byte = "high" /\ PutLow(c, v).low = v
<1> DEFINE d == PutLow(c, v)
<1>1. d = [c EXCEPT !.low = v, !.byte = "high"]
    BY DEF PutLow
<1> HIDE DEF d
<1>2. d \in Channel
    BY <1>1 DEF Channel
<1>3. d.byte = "high" /\ d.low = v
    BY <1>1 DEF Channel
<1> QED
    BY <1>2, <1>3 DEF d

LEMMA ChannelHigh ==
  ASSUME NEW c \in Channel, NEW v \in 0 .. 255
  PROVE  PutHigh(c, v) \in Channel /\ PutHigh(c, v).count = 256 * v + c.low
<1> DEFINE d == PutHigh(c, v)
           n == 256 * v + c.low
<1>0. n \in 0 .. MaxCount
    <2>1. c.low \in 0 .. 255
        BY DEF Channel
    <2> QED
        BY <2>1, Words
<1>1. d = [c EXCEPT !.count = n, !.byte = "low"]
    BY DEF PutHigh
<1> HIDE DEF d, n
<1>2. d \in Channel
    BY <1>0, <1>1 DEF Channel
<1>3. d.count = n
    BY <1>1 DEF Channel
<1> QED
    BY <1>2, <1>3 DEF d, n

(* Every outb to the 8254.                                                 *)
LEMMA PitStep == ASSUME DevicesInv, PitWrite PROVE DevicesInv'
<1>1. UNCHANGED <<intf, cpuTabs, serial, pic, kbd>>
    BY DEF PitWrite
<1>2. \/ IsOut(67) /\ pit' = Reset(pit)
      \/ IsOut(64) /\ pit' = IF pit.byte = "low" THEN PutLow(pit, Operand) ELSE PutHigh(pit, Operand)
    BY DEF PitWrite, Reset, PutLow, PutHigh
<1>3. PICK port \in {64, 67} : IsOut(port)
    BY <1>2
<1>4. /\ up /\ handler = <<>> /\ pc \in 1 .. Greeted + 7 /\ pc \in Nat /\ Placed(pc, Current)
      /\ OpOf(Current) = "out" /\ PortOf(Current) = port
      /\ ValueOf(Current) = Operand /\ pc' = pc + 1 /\ handler' = <<>>
    BY <1>3, AtOut
<1>5. \/ pc = Greeted + 4 /\ pit' = Reset(pit)
      \/ /\ (pc = Greeted + 5 /\ Operand = Low) \/ (pc = Greeted + 6 /\ Operand = High)
         /\ pit' = IF pit.byte = "low" THEN PutLow(pit, Operand) ELSE PutHigh(pit, Operand)
    <2>1. CASE IsOut(67) /\ pit' = Reset(pit)
        <3>1. Placed(pc, Current) /\ OpOf(Current) = "out" /\ PortOf(Current) = 67 /\ pc \in Nat
            BY <2>1, AtOut
        <3>2. pc = Greeted + 4
            BY <3>1, Ports
        <3> QED
            BY <2>1, <3>2
    <2>2. CASE /\ IsOut(64)
               /\ pit' = IF pit.byte = "low" THEN PutLow(pit, Operand) ELSE PutHigh(pit, Operand)
        <3>1. Placed(pc, Current) /\ OpOf(Current) = "out" /\ PortOf(Current) = 64 /\ pc \in Nat
              /\ ValueOf(Current) = Operand
            BY <2>2, AtOut
        <3>2. (pc = Greeted + 5 /\ Operand = Low) \/ (pc = Greeted + 6 /\ Operand = High)
            BY <3>1, Ports
        <3> QED
            BY <2>2, <3>2
    <2> QED
        BY <1>2, <2>1, <2>2
<1>6. pit \in Channel /\ Greeted \in Nat /\ Low \in 0 .. 255 /\ High \in 0 .. 255
    BY Numbers DEF DevicesInv, DevicesTypeOK, PitTypeOK
<1>7. PitTypeOK' /\ CountByPlace'
    <2>1. CASE pc = Greeted + 4 /\ pit' = Reset(pit)
        <3>1. pit' \in Channel /\ pit'.byte = "low"
            BY <1>6, <2>1, ChannelReset
        <3>2. pc' = Greeted + 5
            BY <1>4, <1>6, <2>1
        <3> QED
            BY <1>6, <3>1, <3>2 DEF PitTypeOK, CountByPlace
    <2>2. CASE /\ pc = Greeted + 5 /\ Operand = Low
               /\ pit' = IF pit.byte = "low" THEN PutLow(pit, Operand) ELSE PutHigh(pit, Operand)
        <3>1. pit.byte = "low"
            BY <2>2 DEF DevicesInv, CountByPlace
        <3>2. pit' = PutLow(pit, Low)
            BY <2>2, <3>1
        <3>3. pit' \in Channel /\ pit'.byte = "high" /\ pit'.low = Low
            <4>1. pit \in Channel /\ Low \in 0 .. 255
                BY <1>6
            <4>2. /\ PutLow(pit, Low) \in Channel /\ PutLow(pit, Low).byte = "high"
                  /\ PutLow(pit, Low).low = Low
                <5>1. /\ \A v \in 0 .. 255 : PutLow(pit, v) \in Channel
                      /\ \A v \in 0 .. 255 : PutLow(pit, v).byte = "high" /\ PutLow(pit, v).low = v
                    BY <4>1, ChannelLow
                <5> QED
                    BY <4>1, <5>1, Zenon
            <4> QED
                BY <3>2, <4>2
        <3>4. pc' = Greeted + 6
            BY <1>4, <1>6, <2>2
        <3> QED
            BY <1>6, <3>3, <3>4 DEF PitTypeOK, CountByPlace
    <2>3. CASE /\ pc = Greeted + 6 /\ Operand = High
               /\ pit' = IF pit.byte = "low" THEN PutLow(pit, Operand) ELSE PutHigh(pit, Operand)
        <3>1. pit.byte = "high" /\ pit.low = Low
            BY <2>3 DEF DevicesInv, CountByPlace
        <3>2. ~ (pit.byte = "low")
            BY <3>1
        <3>3. pit' = PutHigh(pit, High)
            BY <2>3, <3>2
        <3>4. pit' \in Channel /\ pit'.count = 256 * High + Low
            BY <1>6, <3>1, <3>3, ChannelHigh
        <3>5. pc' = Greeted + 7
            BY <1>4, <1>6, <2>3
        <3> QED
            BY <1>6, <3>4, <3>5 DEF PitTypeOK, CountByPlace
    <2> QED
        BY <1>5, <2>1, <2>2, <2>3
<1>8. pc \in Greeted + 4 .. Greeted + 6
    BY <1>5, <1>6
<1>9. CpuTypeOK' /\ Quiet' /\ TablesByPlace'
    BY <1>1, <1>4, OutKeeps
<1>10. uart' = uart /\ line' = line /\ up' = up
    BY <1>1 DEF serial, cpuTabs
<1>11. pc \notin 2 .. 5 /\ pc \notin 20 .. Greeted /\ pc \notin 12 .. 19
    BY <1>8, InProgramme
<1>12. SpeedByPlace' /\ SentByPlace' /\ OnlyOurs'
    BY <1>1, <1>4, <1>10, <1>11, SpeedKept, SentKept, OursKept
<1>13. ControllersByPlace'
    BY <1>1, <1>4, <1>11, ControllersKept
<1>14. SerialTypeOK' /\ PicTypeOK' /\ full' \in BOOLEAN /\ shell_active' \in BOOLEAN
    BY <1>1, SerialTypeKept, PicTypeKept, KeyTypeKept
<1> QED
    BY <1>7, <1>9, <1>12, <1>13, <1>14 DEF DevicesInv, DevicesTypeOK

-----------------------------------------------------------------------------
(* A device that asks for the CPU.                                         *)
LEMMA AskStep ==
  ASSUME DevicesInv, UNCHANGED <<cpu, cpuTabs, serial, pit, shell_active>>, full' \in BOOLEAN,
         NEW p \in {1, 2}, NEW i \in 0 .. 7, RaiseLine(p, i),
         Lines \subseteq {0} => p = 1 /\ i \in {0, 1}
  PROVE  DevicesInv'
<1>1. UNCHANGED <<pc, handler, intf, up, tables, idt, uart, line, pit, shell_active>>
    BY DEF cpu, cpuTabs, serial
<1>2. pic' = Demand(pic, p, i) /\ pic \in Controllers
    BY PicTypes DEF RaiseLine, Demand
<1>3. /\ pic' \in Controllers /\ pic'[p].irr = pic[p].irr \union {i}
      /\ \A q \in {1, 2} : /\ pic'[q].next = pic[q].next /\ pic'[q].base = pic[q].base
                           /\ pic'[q].wired = pic[q].wired
      /\ \A q \in {1, 2} : q # p => pic'[q] = pic[q]
    BY <1>2, Requested
<1>4. PicTypeOK'
    BY <1>3, PicTypes, PicTypeNext
<1>5. ControllersByPlace'
    BY <1>1, <1>3, ControllersKept
<1>6. OnlyOurs'
    BY <1>1, <1>3 DEF DevicesInv, OnlyOurs
<1>7. CpuTypeOK' /\ Quiet' /\ TablesByPlace' /\ SpeedByPlace' /\ SentByPlace' /\ CountByPlace'
    BY <1>1 DEF DevicesInv, DevicesTypeOK, CpuTypeOK, Quiet, TablesByPlace, SpeedByPlace,
                SentByPlace, CountByPlace
<1>8. SerialTypeOK' /\ PitTypeOK' /\ shell_active' \in BOOLEAN
    BY <1>1, SerialTypeKept, PitTypeKept DEF serial, DevicesInv, DevicesTypeOK
<1> QED
    BY <1>4, <1>5, <1>6, <1>7, <1>8 DEF DevicesInv, DevicesTypeOK

(* The devices' own steps.                                                 *)
LEMMA PressStep == ASSUME DevicesInv, Press PROVE DevicesInv'
<1>1. UNCHANGED <<cpu, cpuTabs, serial, pit, shell_active>> /\ full' \in BOOLEAN /\ RaiseLine(1, 1)
    BY DEF Press
<1>2. 1 \in {1, 2} /\ 1 \in 0 .. 7 /\ 1 \in {0, 1}
    OBVIOUS
<1> QED
    BY <1>1, <1>2, AskStep

LEMMA RaiseStep == ASSUME DevicesInv, NEW i \in Lines, Raise(i) PROVE DevicesInv'
<1>1. UNCHANGED <<cpu, cpuTabs, serial, pit, shell_active>> /\ full' \in BOOLEAN
    BY DEF Raise, kbd, DevicesInv, DevicesTypeOK
<1>2. RaiseLine(1 + i \div 8, i % 8)
    BY DEF Raise
<1>3. i \in 0 .. 15
    BY DevicesAssumption
<1>4. 1 + i \div 8 \in {1, 2} /\ i % 8 \in 0 .. 7
    BY <1>3
<1>5. Lines \subseteq {0} => 1 + i \div 8 = 1 /\ i % 8 \in {0, 1}
    <2>1. Lines \subseteq {0} => i = 0
        OBVIOUS
    <2> QED
        BY <2>1
<1> QED
    BY <1>1, <1>2, <1>4, <1>5, AskStep

-----------------------------------------------------------------------------
(* The CPU takes an interrupt.                                             *)
LEMMA Least ==
  ASSUME NEW S, S \subseteq 0 .. 7, S # {}
  PROVE  Min(S) \in S
<1>1. \E x \in S : \A y \in S : x <= y
    <2>1. S \subseteq {0, 1, 2, 3, 4, 5, 6, 7}
        OBVIOUS
    <2>2. CASE 0 \in S
        BY <2>2
    <2>3. CASE 0 \notin S /\ 1 \in S
        BY <2>1, <2>3
    <2>4. CASE 0 \notin S /\ 1 \notin S /\ 2 \in S
        BY <2>1, <2>4
    <2>5. CASE 0 \notin S /\ 1 \notin S /\ 2 \notin S /\ 3 \in S
        BY <2>1, <2>5
    <2>6. CASE 0 \notin S /\ 1 \notin S /\ 2 \notin S /\ 3 \notin S /\ 4 \in S
        BY <2>1, <2>6
    <2>7. CASE 0 \notin S /\ 1 \notin S /\ 2 \notin S /\ 3 \notin S /\ 4 \notin S /\ 5 \in S
        BY <2>1, <2>7
    <2>8. CASE /\ 0 \notin S /\ 1 \notin S /\ 2 \notin S /\ 3 \notin S /\ 4 \notin S /\ 5 \notin S
               /\ 6 \in S
        BY <2>1, <2>8
    <2>9. CASE /\ 0 \notin S /\ 1 \notin S /\ 2 \notin S /\ 3 \notin S /\ 4 \notin S /\ 5 \notin S
               /\ 6 \notin S
        <3>1. PICK x \in S : x = 7
            BY <2>1, <2>9
        <3>2. \A y \in S : x <= y
            BY <2>1, <2>9, <3>1
        <3> QED
            BY <3>2
    <2> QED
        BY <2>2, <2>3, <2>4, <2>5, <2>6, <2>7, <2>8, <2>9
<1> QED
    BY <1>1, Zenon DEF Min

(* Short sequences put together.                                           *)
LEMMA Paired ==
  ASSUME NEW S, NEW a \in S, NEW b \in S
  PROVE  <<a>> \o <<b>> = <<a, b>> /\ \A c \in S : <<a, b>> \o <<c>> = <<a, b, c>>
<1>1. <<a>> \o <<b>> = <<a, b>>
    <2> DEFINE s == <<a>> \o <<b>>
               t == <<a, b>>
    <2>1. <<a>> \in Seq(S) /\ Len(<<a>>) = 1 /\ <<a>>[1] = a
        OBVIOUS
    <2>2. s \in Seq(S) /\ Len(s) = Len(<<a>>) + 1 /\ s[Len(<<a>>) + 1] = b
          /\ \A k \in 1 .. Len(<<a>>) : s[k] = <<a>>[k]
        BY <2>1, Followed
    <2>3. t \in Seq(S) /\ Len(t) = 2 /\ t[1] = a /\ t[2] = b
        OBVIOUS
    <2> HIDE DEF s, t
    <2>4. Len(s) = Len(t) /\ \A k \in 1 .. Len(s) : s[k] = t[k]
        BY <2>1, <2>2, <2>3
    <2>5. s = t
        BY <2>2, <2>3, <2>4, SeqEqual
    <2> QED
        BY <2>5 DEF s, t
<1>2. ASSUME NEW c \in S
      PROVE  <<a, b>> \o <<c>> = <<a, b, c>>
    <2> DEFINE s == <<a, b>> \o <<c>>
               t == <<a, b, c>>
    <2>1. <<a, b>> \in Seq(S) /\ Len(<<a, b>>) = 2 /\ <<a, b>>[1] = a /\ <<a, b>>[2] = b
        OBVIOUS
    <2>2. s \in Seq(S) /\ Len(s) = Len(<<a, b>>) + 1 /\ s[Len(<<a, b>>) + 1] = c
          /\ \A k \in 1 .. Len(<<a, b>>) : s[k] = <<a, b>>[k]
        BY <2>1, Followed
    <2>3. t \in Seq(S) /\ Len(t) = 3 /\ t[1] = a /\ t[2] = b /\ t[3] = c
        OBVIOUS
    <2> HIDE DEF s, t
    <2>4. Len(s) = Len(t) /\ \A k \in 1 .. Len(s) : s[k] = t[k]
        BY <2>1, <2>2, <2>3
    <2>5. s = t
        BY <2>2, <2>3, <2>4, SeqEqual
    <2> QED
        BY <2>5 DEF s, t
<1> QED
    BY <1>1, <1>2

(* The two handlers that have a gate and a line.                           *)
LEMMA HandlerOf ==
  /\ interrupt_handler(32) = Ack
  /\ interrupt_handler(33) = <<In(96), Out(32, 32), Do("iret")>>
<1>1. /\ In(96) \in Instruction /\ Out(32, 32) \in Instruction /\ Do("iret") \in Instruction
    BY DEF In, Out, Do, Instruction, Op
<1>2. pic_acknowledge(32) = <<Out(32, 32)>> /\ pic_acknowledge(33) = <<Out(32, 32)>>
    <2>1. /\ pic_acknowledge(32) = <<>> \o <<Out(32, 32)>>
          /\ pic_acknowledge(33) = <<>> \o <<Out(32, 32)>>
        BY DEF pic_acknowledge, PIC1_START, PIC2_START, PIC2_END, PIC_ACK, COMMAND
    <2>2. <<Out(32, 32)>> \in Seq(Instruction)
        BY <1>1
    <2>3. <<>> \o <<Out(32, 32)>> = <<Out(32, 32)>>
        BY <2>2, ConcatEmptySeq
    <2> QED
        BY <2>1, <2>3
<1>3. \A a, b \in Instruction : <<>> \o <<a>> \o <<b>> = <<a, b>>
    <2> TAKE a, b \in Instruction
    <2>1. <<a>> \in Seq(Instruction)
        OBVIOUS
    <2>2. <<>> \o <<a>> = <<a>>
        BY <2>1, ConcatEmptySeq
    <2>3. <<a>> \o <<b>> = <<a, b>>
        BY Paired
    <2> QED
        BY <2>2, <2>3
<1>4. \A a, b, c \in Instruction : <<a>> \o <<b>> \o <<c>> = <<a, b, c>>
    <2> TAKE a, b, c \in Instruction
    <2>1. <<a>> \o <<b>> = <<a, b>> /\ <<a, b>> \o <<c>> = <<a, b, c>>
        BY Paired
    <2> QED
        BY <2>1, Zenon
<1>5. interrupt_handler(32) = <<>> \o <<Out(32, 32)>> \o <<Do("iret")>>
    <2>1. 32 # 33
        OBVIOUS
    <2> QED
        BY <1>2, <2>1, Zenon DEF interrupt_handler
<1>6. interrupt_handler(33) = <<In(96)>> \o <<Out(32, 32)>> \o <<Do("iret")>>
    BY <1>2 DEF interrupt_handler, keyboard_handler
<1> QED
    BY <1>1, <1>3, <1>4, <1>5, <1>6 DEF Ack

TakeFirst(f, i)  == [f EXCEPT ![1].isr = @ \union {i}, ![1].irr = @ \ {i}]
TakeBehind(f, j) == [f EXCEPT ![1].isr = @ \union {2}, ![2].isr = @ \union {j}, ![2].irr = @ \ {j}]

(* What an interrupt changes of the 8259s, from the first or from the one  *)
(* behind it.                                                              *)
LEMMA TakenFirst ==
  ASSUME NEW f \in Controllers, NEW i \in 0 .. 7
  PROVE  LET g == TakeFirst(f, i) IN
         /\ g \in Controllers
         /\ \A q \in {1, 2} : /\ g[q].next = f[q].next /\ g[q].base = f[q].base
                              /\ g[q].wired = f[q].wired /\ g[q].irr \subseteq f[q].irr
<1> DEFINE g == TakeFirst(f, i)
<1>0. g = [f EXCEPT ![1].isr = @ \union {i}, ![1].irr = @ \ {i}]
    BY DEF TakeFirst
<1> HIDE DEF g
<1>1. g \in Controllers
    <2> DEFINE S == f[1].isr \union {i}
               T == f[1].irr \ {i}
    <2>1. S \in SUBSET (0 .. 7) /\ T \in SUBSET (0 .. 7)
        BY DEF Controllers, Controller
    <2>2. g = [f EXCEPT ![1].isr = S, ![1].irr = T]
        BY <1>0 DEF Controllers, Controller
    <2> HIDE DEF S, T
    <2> DEFINE h == [f EXCEPT ![1].isr = S]
    <2>3. h \in Controllers
        BY <2>1 DEF Controllers, Controller
    <2>4. g = [h EXCEPT ![1].irr = T]
        BY <2>2
    <2> HIDE DEF h
    <2> QED
        BY <2>1, <2>3, <2>4 DEF Controllers, Controller
<1>2. \A q \in {1, 2} : /\ g[q].next = f[q].next /\ g[q].base = f[q].base
                        /\ g[q].wired = f[q].wired /\ g[q].irr \subseteq f[q].irr
    <2>1. /\ g[1].next = f[1].next /\ g[1].base = f[1].base /\ g[1].wired = f[1].wired
          /\ g[2].next = f[2].next /\ g[2].base = f[2].base /\ g[2].wired = f[2].wired
        BY <1>0 DEF Controllers, Controller
    <2>2. g[1].irr \subseteq f[1].irr
        BY <1>0 DEF Controllers, Controller
    <2>3. g[2].irr \subseteq f[2].irr
        BY <1>0 DEF Controllers, Controller
    <2> QED
        BY <2>1, <2>2, <2>3
<1> QED
    BY <1>1, <1>2 DEF g

LEMMA TakenBehind ==
  ASSUME NEW f \in Controllers, NEW j \in 0 .. 7
  PROVE  LET g == TakeBehind(f, j) IN
         /\ g \in Controllers
         /\ \A q \in {1, 2} : /\ g[q].next = f[q].next /\ g[q].base = f[q].base
                              /\ g[q].wired = f[q].wired /\ g[q].irr \subseteq f[q].irr
<1> DEFINE g == TakeBehind(f, j)
<1>0. g = [f EXCEPT ![1].isr = @ \union {2}, ![2].isr = @ \union {j}, ![2].irr = @ \ {j}]
    BY DEF TakeBehind
<1> HIDE DEF g
<1>1. g \in Controllers
    <2> DEFINE R == f[1].isr \union {2}
               S == f[2].isr \union {j}
               T == f[2].irr \ {j}
    <2>1. R \in SUBSET (0 .. 7) /\ S \in SUBSET (0 .. 7) /\ T \in SUBSET (0 .. 7)
        BY DEF Controllers, Controller
    <2>2. g = [f EXCEPT ![1].isr = R, ![2].isr = S, ![2].irr = T]
        BY <1>0 DEF Controllers, Controller
    <2> HIDE DEF R, S, T
    <2> DEFINE h == [f EXCEPT ![1].isr = R]
               k == [h EXCEPT ![2].isr = S]
    <2>3. h \in Controllers
        BY <2>1 DEF Controllers, Controller
    <2>4. g = [k EXCEPT ![2].irr = T]
        BY <2>2
    <2> HIDE DEF h
    <2>5. k \in Controllers
        BY <2>1, <2>3 DEF Controllers, Controller
    <2> HIDE DEF k
    <2> QED
        BY <2>1, <2>4, <2>5 DEF Controllers, Controller
<1>2. \A q \in {1, 2} : /\ g[q].next = f[q].next /\ g[q].base = f[q].base
                        /\ g[q].wired = f[q].wired /\ g[q].irr \subseteq f[q].irr
    <2>1. /\ g[1].next = f[1].next /\ g[1].base = f[1].base /\ g[1].wired = f[1].wired
          /\ g[2].next = f[2].next /\ g[2].base = f[2].base /\ g[2].wired = f[2].wired
        BY <1>0 DEF Controllers, Controller
    <2>2. g[1].irr \subseteq f[1].irr
        BY <1>0 DEF Controllers, Controller
    <2>3. g[2].irr \subseteq f[2].irr
        BY <1>0 DEF Controllers, Controller
    <2> QED
        BY <2>1, <2>2, <2>3
<1> QED
    BY <1>1, <1>2 DEF g

(* Taking an interrupt: if only ours are open, it has a gate.              *)
LEMMA InterruptStep ==
  ASSUME DevicesInv, NEW i \in 0 .. 7, Interrupt(i)
  PROVE  DevicesInv'
<1> DEFINE slave  == i = 2 /\ Second # {} /\ pic[1].wired = 4 /\ pic[2].wired = 2
           j      == Min(Second)
           vector == IF slave THEN pic[2].base + j ELSE pic[1].base + i
<1>1. /\ up /\ intf /\ handler = <<>> /\ First # {} /\ i = Min(First)
      /\ UNCHANGED <<pc, tables, idt, serial, pit, kbd>>
    BY DEF Interrupt, Between
<1>2. pic' = IF slave THEN TakeBehind(pic, j) ELSE TakeFirst(pic, i)
    BY DEF Interrupt, TakeFirst, TakeBehind
<1>3. \/ /\ vector \in idt /\ tables = {"lgdt", "lidt"}
         /\ handler' = interrupt_handler(vector) /\ intf' = FALSE /\ UNCHANGED up
      \/ ~ (vector \in idt /\ tables = {"lgdt", "lidt"}) /\ up' = FALSE /\ UNCHANGED <<handler, intf>>
    BY DEF Interrupt
<1>4. /\ pc > Greeted + 1 /\ pic[1].base = 32 /\ pic[2].base = 40
      /\ tables = {"lgdt", "lidt"} /\ 32 \in idt /\ 33 \in idt /\ idt \subseteq {32, 33, 128}
    <2>1. pc > Greeted + 1
        BY <1>1, InProgramme DEF DevicesInv, Quiet
    <2>2. pic[1].base = 32 /\ pic[2].base = 40
        BY <2>1, InProgramme DEF DevicesInv, ControllersByPlace
    <2>3. "lgdt" \in tables /\ "lidt" \in tables /\ 32 \in idt /\ 33 \in idt
        BY <2>1, InProgramme DEF DevicesInv, TablesByPlace
    <2>4. tables \subseteq {"lgdt", "lidt"} /\ idt \subseteq {32, 33, 128}
        BY Tables
    <2> QED
        BY <2>1, <2>2, <2>3, <2>4
<1>5. /\ pic \in Controllers /\ Second \subseteq pic[2].irr /\ pic[2].irr \subseteq 0 .. 7
      /\ pic[1].irr \subseteq 0 .. 7 /\ First \subseteq pic[1].irr \union IF Second = {} THEN {} ELSE {2}
    <2>1. pic \in Controllers
        BY PicTypes
    <2>2. pic[1].irr \subseteq 0 .. 7 /\ pic[2].irr \subseteq 0 .. 7
        BY <2>1 DEF Controllers, Controller
    <2>3. Second \subseteq pic[2].irr
        BY DEF Second, Open
    <2>4. First \subseteq pic[1].irr \union IF Second = {} THEN {} ELSE {2}
        BY DEF First, Open
    <2> QED
        BY <2>1, <2>2, <2>3, <2>4
<1>6. Second # {} => j \in 0 .. 7
    <2>1. Second \subseteq 0 .. 7
        BY <1>5
    <2> QED
        BY <1>5, <2>1, Least
<1>7. i \in First
    <2>1. First \subseteq 0 .. 7
        BY <1>5
    <2> QED
        BY <1>1, <2>1, Least
<1>8. /\ pic' \in Controllers
      /\ \A q \in {1, 2} : /\ pic'[q].next = pic[q].next /\ pic'[q].base = pic[q].base
                           /\ pic'[q].wired = pic[q].wired /\ pic'[q].irr \subseteq pic[q].irr
    <2>1. CASE slave
        <3>1. pic' = TakeBehind(pic, j) /\ j \in 0 .. 7
            BY <1>2, <1>6, <2>1
        <3> HIDE DEF j
        <3> QED
            BY <1>5, <3>1, TakenBehind
    <2>2. CASE ~ slave
        <3>1. pic' = TakeFirst(pic, i)
            BY <1>2, <2>2
        <3> HIDE DEF slave
        <3> QED
            BY <1>5, <3>1, TakenFirst
    <2> QED
        BY <2>1, <2>2
<1>9. vector \in 32 .. 47
    <2>1. slave => vector = 40 + j /\ j \in 0 .. 7
        BY <1>4, <1>6
    <2>2. ~ slave => vector = 32 + i
        BY <1>4
    <2> HIDE DEF slave, j, vector
    <2> QED
        BY <2>1, <2>2
<1>10. Lines \subseteq {0} => vector \in {32, 33}
    <2>1. Lines \subseteq {0} => Second = {} /\ First \subseteq {0, 1}
        <3>1. Lines \subseteq {0} => pic[1].irr \subseteq {0, 1} /\ pic[2].irr = {}
            BY DEF DevicesInv, OnlyOurs
        <3> QED
            BY <1>5, <3>1
    <2>2. Lines \subseteq {0} => vector = 32 + i /\ i \in {0, 1}
        BY <1>4, <1>7, <2>1
    <2> HIDE DEF vector
    <2> QED
        BY <2>2
<1> HIDE DEF slave, j, vector
<1>11. PicTypeOK'
    BY <1>8, PicTypes, PicTypeNext
<1>12. ControllersByPlace'
    BY <1>1, <1>8, ControllersKept
<1>13. OnlyOurs'
    <2>1. Lines \subseteq {0} => up'
        BY <1>1, <1>3, <1>4, <1>10
    <2> QED
        BY <1>8, <2>1 DEF DevicesInv, OnlyOurs
<1>14. /\ handler' \in Left /\ (handler' # <<>> => ~ intf') /\ intf' \in BOOLEAN /\ up' \in BOOLEAN
    <2>1. CASE /\ vector \in idt /\ handler' = interrupt_handler(vector) /\ intf' = FALSE /\ UNCHANGED up
        <3>1. vector = 32 \/ vector = 33
            BY <1>4, <1>9, <2>1
        <3>2. handler' = Ack \/ handler' = <<In(96), Out(32, 32), Do("iret")>>
            BY <2>1, <3>1, HandlerOf
        <3> QED
            BY <1>1, <2>1, <3>2 DEF Left
    <2>2. CASE up' = FALSE /\ UNCHANGED <<handler, intf>>
        BY <1>1, <2>2 DEF Left
    <2> QED
        BY <1>3, <2>1, <2>2
<1>15. CpuTypeOK'
    <2>1. tables' \subseteq {"lgdt", "lidt"} /\ idt' \subseteq {32, 33, 128} /\ pc' \in 1 .. Greeted + 8
        BY <1>1, <1>4, InProgramme
    <2> QED
        BY <1>14, <2>1, CpuTypes
<1>16. Quiet'
    <2>1. ~ (pc' <= Greeted + 1)
        BY <1>1, <1>4, InProgramme
    <2> QED
        BY <1>14, <2>1 DEF Quiet
<1>17. TablesByPlace' /\ SpeedByPlace' /\ SentByPlace' /\ CountByPlace'
    BY <1>1 DEF serial, DevicesInv, TablesByPlace, SpeedByPlace, SentByPlace, CountByPlace
<1>18. SerialTypeOK' /\ PitTypeOK' /\ full' \in BOOLEAN /\ shell_active' \in BOOLEAN
    BY <1>1, SerialTypeKept, PitTypeKept, KeyTypeKept
<1> QED
    BY <1>11, <1>12, <1>13, <1>15, <1>16, <1>17, <1>18 DEF DevicesInv, DevicesTypeOK

-----------------------------------------------------------------------------
(* The firmware's leavings satisfy the invariant.                            *)
LEMMA DevicesStart == DevicesInit => DevicesInv
<1> SUFFICES ASSUME DevicesInit PROVE DevicesInv
    OBVIOUS
<1>1. /\ pc = 1 /\ handler = <<>> /\ intf = FALSE /\ up = TRUE /\ tables = {} /\ idt = {}
      /\ line = <<>> /\ pit = [byte |-> "low", low |-> 0, count |-> 0]
      /\ full = FALSE /\ shell_active = FALSE
    BY DEF DevicesInit
<1>2. PICK dlm \in FirmwareDlm, dlab \in BOOLEAN :
        uart = [dlab |-> dlab, dll |-> 12, dlm |-> dlm, queue |-> <<>>]
    BY DEF DevicesInit
<1>3. dlm \in 0 .. 255
    BY DevicesAssumption
<1>4. Greeted \in Nat /\ Greeted >= 19 /\ Len(kmain) = Greeted + 7 /\ FIFO > 0 /\ FIFO \in Nat
    BY Numbers, Programme
<1>5. pic = [p \in {1, 2} |-> [next |-> "firmware", base |-> IF p = 1 THEN 8 ELSE 112, wired |-> 0,
                               imr |-> {}, irr |-> {}, isr |-> {}]]
    BY DEF DevicesInit
<1>6. /\ pic[1] = [next |-> "firmware", base |-> 8, wired |-> 0, imr |-> {}, irr |-> {}, isr |-> {}]
      /\ pic[2] = [next |-> "firmware", base |-> 112, wired |-> 0, imr |-> {}, irr |-> {}, isr |-> {}]
    BY <1>5
<1>7. CpuTypeOK
    <2>1. Len(handler) <= 3
        BY <1>1
    <2> QED
        <3>1. pc \in 1 .. Len(kmain) + 1
            BY <1>1, <1>4
        <3>2. intf \in BOOLEAN /\ up \in BOOLEAN
            BY <1>1
        <3>3. tables \subseteq {"lgdt", "lidt"} /\ idt \subseteq {32, 33, 128}
            BY <1>1
        <3> QED
            BY <2>1, <3>1, <3>2, <3>3 DEF CpuTypeOK
<1>8. /\ uart \in Registers /\ uart.dlm \in FirmwareDlm /\ uart.queue = <<>>
    <2>1. <<>> \in Seq(1 .. 255) /\ 12 \in 0 .. 255
        OBVIOUS
    <2> QED
        BY <1>2, <1>3, <2>1 DEF Registers
<1>9. SerialTypeOK
    <2>1. Len(uart.queue) <= FIFO
        BY <1>4, <1>8
    <2> QED
        BY <1>1, <1>8, <2>1 DEF SerialTypeOK
<1>10. PicTypeOK
    <2>1. pic[1] \in Controller /\ pic[2] \in Controller
        <3>1. {} \in SUBSET (0 .. 7)
            OBVIOUS
        <3> QED
            BY <1>6, <3>1 DEF Controller
    <2>2. pic \in [{1, 2} -> Controller]
        BY <1>5, <2>1
    <2> QED
        BY <1>6, <2>2 DEF PicTypeOK
<1>11. PitTypeOK
    <2>1. 0 \in 0 .. MaxCount /\ 0 \in 0 .. 255
        BY DEF MaxCount
    <2> QED
        BY <1>1, <2>1 DEF PitTypeOK, Channel
<1>12. Quiet /\ TablesByPlace /\ CountByPlace
    BY <1>1, <1>4 DEF Quiet, Left, TablesByPlace, CountByPlace
<1>13. SpeedByPlace
    BY <1>1, <1>8 DEF SpeedByPlace
<1>14. SentByPlace
    <2>1. WrittenAt(1) = 0
        BY DEF WrittenAt
    <2> QED
        BY <1>1, <1>8, <2>1 DEF SentByPlace
<1>15. ControllersByPlace /\ OnlyOurs
    BY <1>1, <1>6 DEF ControllersByPlace, OnlyOurs
<1> QED
    BY <1>1, <1>7, <1>9, <1>10, <1>11, <1>12, <1>13, <1>14, <1>15 DEF DevicesInv, DevicesTypeOK

(* The invariant is inductive.                                             *)
LEMMA DevicesKeep == DevicesInv /\ [DevicesNext]_machine => DevicesInv'
<1> SUFFICES ASSUME DevicesInv, [DevicesNext]_machine PROVE DevicesInv'
    OBVIOUS
<1>1. CASE Step
    BY <1>1, LoadTableStep, GateStep, FlagStep, LeaveLockScreenStep, EndOfWaitStep, UartStep,
       PitStep, ReadStep, PicCommandStep, PicDataStep DEF Step
<1>2. CASE UartSend
    BY <1>2, SendStep
<1>3. CASE Press
    BY <1>3, PressStep
<1>4. CASE \E i \in Lines : Raise(i)
    BY <1>4, RaiseStep
<1>5. CASE \E i \in 0 .. 7 : Interrupt(i)
    BY <1>5, InterruptStep
<1>6. CASE UNCHANGED machine
    <2>1. UNCHANGED <<pc, handler, intf, up, tables, idt, uart, line, pic, pit, full, shell_active>>
        BY <1>6 DEF machine, cpu, cpuTabs, serial, kbd
    <2> QED
        BY <2>1 DEF DevicesInv, DevicesTypeOK, CpuTypeOK, SerialTypeOK, PicTypeOK, PitTypeOK, Quiet,
                    TablesByPlace, SpeedByPlace, SentByPlace, ControllersByPlace, CountByPlace, OnlyOurs
<1> QED
    BY <1>1, <1>2, <1>3, <1>4, <1>5, <1>6 DEF DevicesNext

(* And so it holds always.                                                 *)
LEMMA DevicesInductive == DevicesSpec => []DevicesInv
<1> QED
    BY DevicesStart, DevicesKeep, PTL DEF DevicesSpec

(* What the characters' places say of the whole greeting.                  *)
LEMMA InOrder == DevicesInv => SerialInOrder
<1> SUFFICES ASSUME DevicesInv PROVE SerialInOrder
    OBVIOUS
<1> DEFINE sent == line \o uart.queue
<1>1. /\ line \in Seq(1 .. 255) /\ uart.queue \in Seq(1 .. 255) /\ Greeting \in Seq(1 .. 255)
      /\ Len(line) \in Nat /\ Len(uart.queue) \in Nat /\ Len(Greeting) \in Nat
    BY SerialTypes, Numbers
<1>2. /\ sent \in Seq(1 .. 255) /\ Len(sent) = Len(line) + Len(uart.queue)
      /\ \A k \in 1 .. Len(line) : sent[k] = line[k]
      /\ \A k \in Len(line) + 1 .. Len(line) + Len(uart.queue) : sent[k] = uart.queue[k - Len(line)]
    BY <1>1, Joined
<1> HIDE DEF sent
<1>3. SentByPlace /\ pc \in Nat
    BY InProgramme DEF DevicesInv
<1>4. Len(sent) = WrittenAt(pc) /\ Len(sent) <= Len(Greeting) /\ Len(sent) \in Nat
    <2>1. Len(sent) = WrittenAt(pc)
        BY <1>2, <1>3 DEF SentByPlace
    <2>2. WrittenAt(pc) \in 0 .. Len(Greeting)
        BY <1>3, WrittenSteps
    <2> QED
        BY <1>1, <2>1, <2>2
<1>5. \A k \in 1 .. Len(sent) : sent[k] = Greeting[k]
    <2> TAKE k \in 1 .. Len(sent)
    <2>1. CASE k <= Len(line)
        BY <1>1, <1>2, <1>3, <2>1 DEF SentByPlace
    <2>2. CASE k > Len(line)
        <3>1. k - Len(line) \in 1 .. Len(uart.queue) /\ Len(line) + (k - Len(line)) = k
            BY <1>1, <1>2, <2>2
        <3>2. sent[k] = uart.queue[k - Len(line)]
            <4>1. k \in Len(line) + 1 .. Len(line) + Len(uart.queue)
                BY <1>1, <1>2, <2>2
            <4>2. \A j \in Len(line) + 1 .. Len(line) + Len(uart.queue) : sent[j] = uart.queue[j - Len(line)]
                BY <1>2
            <4> QED
                BY <4>1, <4>2, Zenon
        <3>3. uart.queue[k - Len(line)] = Greeting[Len(line) + (k - Len(line))]
            BY <1>3, <3>1 DEF SentByPlace
        <3> QED
            BY <3>1, <3>2, <3>3
    <2> QED
        BY <1>1, <2>1, <2>2
<1>6. IsPrefix(sent, Greeting)
    <2>1. SubSeq(sent, 1, Len(sent)) = SubSeq(Greeting, 1, Len(sent))
        <3>1. /\ SubSeq(sent, 1, Len(sent)) = [k \in 1 .. Len(sent) |-> sent[k]]
              /\ SubSeq(Greeting, 1, Len(sent)) = [k \in 1 .. Len(sent) |-> Greeting[k]]
            BY <1>1, <1>2, <1>4
        <3> QED
            BY <1>5, <3>1
    <2> QED
        BY <1>4, <2>1 DEF IsPrefix
<1>7. (\A k \in pc .. Len(kmain) : kmain[k][1] = "out" => kmain[k][2] # DATA) => sent = Greeting
    <2> SUFFICES ASSUME \A k \in pc .. Len(kmain) : kmain[k][1] = "out" => kmain[k][2] # DATA
                 PROVE  sent = Greeting
        OBVIOUS
    <2>1. Len(sent) = Len(Greeting)
        <3>1. CASE pc > Greeted
            BY <1>3, <1>4, <3>1, WrittenSteps
        <3>2. CASE pc <= Greeted
            <4>1. CASE Len(Greeting) = 0
                BY <1>4, <4>1
            <4>2. CASE Len(Greeting) > 0
                <5>1. /\ Greeted \in pc .. Len(kmain) /\ Greeted = 19 + 2 * Len(Greeting)
                      /\ Len(Greeting) \in 1 .. Len(Greeting)
                    BY <1>1, <1>3, <3>2, <4>2, InProgramme DEF Greeted
                <5>2. kmain[Greeted] = Out(1016, Greeting[Len(Greeting)])
                    <6>1. \A k \in 1 .. Len(Greeting) : kmain[19 + 2 * k] = Out(1016, Greeting[k])
                        BY Programme
                    <6> QED
                        BY <5>1, <6>1
                <5>3. OpOf(kmain[Greeted]) = "out" /\ PortOf(kmain[Greeted]) = 1016
                    BY <5>2, Fields
                <5> QED
                    BY <5>1, <5>3 DEF OpOf, PortOf, DATA
            <4> QED
                BY <1>1, <4>1, <4>2
        <3> QED
            BY <1>3, <3>1, <3>2, InProgramme
    <2> QED
        BY <1>1, <1>2, <1>5, <2>1, SeqEqual
<1> QED
    BY <1>6, <1>7 DEF SerialInOrder, sent

(* What the bytes' places say of the rates.                                *)
LEMMA InRate ==
  ASSUME FirmwareDlm \subseteq {0}, Frequency > 18, DevicesInv
  PROVE  RightRates
<1>1. LineSpeed
    <2> SUFFICES ASSUME uart.queue # <<>> PROVE 256 * uart.dlm + uart.dll = 3
        BY DEF LineSpeed
    <2>1. Len(uart.queue) > 0
        <3>1. uart.queue \in Seq(1 .. 255)
            BY SerialTypes
        <3> QED
            BY <3>1, EmptySeq
    <2>2. WrittenAt(pc) > 0
        BY <2>1, SerialTypes DEF DevicesInv, SentByPlace
    <2>3. pc > 20
        <3>1. pc \in Nat
            BY InProgramme
        <3>2. pc <= 20 => WrittenAt(pc) = 0
            BY <3>1, WrittenSteps
        <3> QED
            BY <2>2, <3>1, <3>2
    <2>4. uart.dll = 3 /\ uart.dlm = 0
        <3>1. SpeedByPlace
            BY DEF DevicesInv
        <3>2. pc > 4 => uart.dll = 3
            BY <3>1 DEF SpeedByPlace
        <3>3. uart.dlm \in FirmwareDlm
            BY <3>1 DEF SpeedByPlace
        <3>4. pc > 4
            BY <2>3, InProgramme
        <3> QED
            BY <3>2, <3>3, <3>4
    <2> QED
        BY <2>4
<1>2. TimerRate
    <2> SUFFICES ASSUME pc > Len(kmain) PROVE pit.count = Count
        BY DEF TimerRate, Count
    <2>1. pc > Greeted + 6
        BY InProgramme
    <2>2. pit.count = 256 * High + Low
        BY <2>1 DEF DevicesInv, CountByPlace
    <2>3. Count \in Nat /\ Count < 256 * 256
        <3>1. Frequency \in Nat /\ Frequency >= 19
            BY Numbers
        <3>2. Count \in Nat /\ Count * Frequency <= 1193180
            BY <3>1 DEF Count
        <3> QED
            BY <3>1, <3>2
    <2>4. 256 * High + Low = Count
        <3>1. Low = Count % 256 /\ High = (Count \div 256) % 256
            BY DEF Low, High
        <3> QED
            BY <2>3, <3>1
    <2> QED
        BY <2>2, <2>4
<1> QED
    BY <1>1, <1>2 DEF RightRates

-----------------------------------------------------------------------------
(* Every device stays in its type, whatever lines rise and whatever the    *)
(* firmware left; the transmit queue never holds more than the UART has    *)
(* room for, and a handler's code has at most three instructions.          *)
THEOREM DevicesTyped == DevicesSpec => []DevicesTypeOK
<1>1. DevicesInv => DevicesTypeOK
    BY DEF DevicesInv
<1> QED
    BY <1>1, DevicesInductive, PTL

(* serial.c:102-114: for every greeting, every room in the queue, every    *)
(* speed of the line and every interrupt, what leaves the port is the      *)
(* beginning of the greeting, with no character lost, doubled or swapped.  *)
THEOREM GreetingInOrder == DevicesSpec => []SerialInOrder
BY InOrder, DevicesInductive, PTL

(* pic.c:13-14: as long as only the timer and the keyboard interrupt,      *)
(* kmain's order makes every interrupt meet a gate.                        *)
THEOREM GateForEveryInterrupt ==
  ASSUME Lines \subseteq {0}
  PROVE  DevicesSpec => []EveryInterruptHasAGate
<1>1. DevicesInv => EveryInterruptHasAGate
    BY DEF DevicesInv, OnlyOurs, EveryInterruptHasAGate
<1> QED
    BY <1>1, DevicesInductive, PTL

(* serial.c:90-96, timer.c:20-23: if the firmware left the high byte of    *)
(* the divisor clear, every character goes at 38400 baud; and for every    *)
(* frequency whose count fits in 16 bits, the timer counts just that.      *)
THEOREM RatesAreRight ==
  ASSUME FirmwareDlm \subseteq {0}, Frequency > 18
  PROVE  DevicesSpec => []RightRates
<1>1. DevicesInv => RightRates
    BY InRate
<1> QED
    BY <1>1, DevicesInductive, PTL

=============================================================================
