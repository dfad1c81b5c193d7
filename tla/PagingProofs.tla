---------------------------- MODULE PagingProofs ----------------------------
(***************************************************************************)
(* Proofs about Paging, for every number of slots and frames, wherever the *)
(* kernel, the screen and the temporary addresses lie, and however far the *)
(* heap grows: into their slots and round the page table into its own.     *)
(***************************************************************************)
EXTENDS Paging, TLAPS, FiniteSetTheorems

HeapIndex == 0 .. heap_end - 1

(* Frames that can be behind a table or a directory: none of the heap's.   *)
NoHeapFrame == (Allocatable \ {given[k] : k \in HeapIndex}) \union {0}

(* Every page of the heap has taken a frame for good.                      *)
CountInv == heap_end + Cardinality(free) <= Cardinality(Allocatable)

(* How far the one flow of control has come.                               *)
FlowInv ==
  /\ directory = NULL <=> pc \in {"boot", "kernel"}
  /\ directory = 0 => pc \in {"unfilled", "crashed"}
  /\ pc = "boot" => heap_end = 0 /\ tlb = Flushed
  /\ pc # "boot" => {<<"low", 0>>, <<"high", 0>>} \subseteq page_directory
  /\ directory = NULL => new_table_phys = NULL /\ frame = NULL
  /\ new_table_phys = NULL => ram = [f \in Frame |-> Blank]
  /\ pc \in {"zero", "bench", "write"} => new_table_phys # NULL
  /\ pc \in {"directory", "zero", "bench", "write"} => frame # NULL

(* What create_process writes into RAM are no frames of the heap.          *)
FrameInv ==
  /\ frame \in NoHeapFrame \union {NULL}
  /\ new_table_phys \in NoHeapFrame \union {NULL}
  /\ ram \in [Frame -> [Entry -> NoHeapFrame \union {NULL}]]

(* Once paging is on, every slot of the one table is in use.               *)
TableInv == pc # "boot" => first_page_table \in [Slot -> Frame]

(* A page of the heap, or of the kernel, that nothing has displaced.       *)
HeapHome(k)   == heap_end <= k + SLOTS /\ Untouched(k % SLOTS)
KernelHome(s) == heap_end <= s /\ Untouched(s)

GivenInv ==
  /\ \A k \in HeapIndex : given[k] \in Allocatable \ free
  /\ \A k, l \in HeapIndex : given[k] = given[l] => k = l
  /\ \A k \in HeapIndex : pd_index(HeapPage(k)) \in page_directory

HeapInv ==
  \A k \in HeapIndex :
    IF HeapHome(k)
    THEN first_page_table[k % SLOTS] = given[k] /\ tlb[HeapPage(k)] \in {given[k], NULL}
    ELSE first_page_table[k % SLOTS] # given[k]

KernelInv ==
  pc # "boot" => \A s \in KernelSlot :
    IF KernelHome(s)
    THEN first_page_table[s] = s /\ tlb[KernelPage(s)] \in {s, NULL}
    ELSE first_page_table[s] # s

(* The TLB knows nothing of pages to come, and after the load of CR3 it    *)
(* knows the temporary address only as the table has it.                   *)
TLBInv ==
  /\ directory = NULL => \A k \in heap_end .. HEAP_MAX - 1 : tlb[HeapPage(k)] = NULL
  /\ pc \in {"page", "directory", "zero", "bench", "write"} =>
       tlb[TempPage] \in {first_page_table[TempSlot], NULL}
  /\ pc = "bench" => ram[first_page_table[TempSlot]][DirOf(i)] # NULL

IInv ==
  /\ TypeOK
  /\ CountInv
  /\ FlowInv
  /\ FrameInv
  /\ TableInv
  /\ GivenInv
  /\ HeapInv
  /\ KernelInv
  /\ TLBInv

-----------------------------------------------------------------------------
(* Pages that share a slot are at least a whole table apart.               *)
LEMMA Divided ==
  ASSUME NEW k \in Nat
  PROVE  /\ k = SLOTS * (k \div SLOTS) + (k % SLOTS)
         /\ k % SLOTS \in 0 .. SLOTS - 1
         /\ k \div SLOTS \in Nat
BY PagingAssumption

LEMMA Small ==
  ASSUME NEW k \in Nat, k < SLOTS
  PROVE  k % SLOTS = k /\ k \div SLOTS = 0
BY PagingAssumption

LEMMA Apart ==
  ASSUME NEW k \in Nat, NEW l \in Nat, k < l, k % SLOTS = l % SLOTS
  PROVE  k + SLOTS <= l
<1> DEFINE a == k \div SLOTS
           b == l \div SLOTS
           r == k % SLOTS
<1>1. /\ k = SLOTS * a + r /\ l = SLOTS * b + r
      /\ a \in Nat /\ b \in Nat /\ r \in Nat /\ SLOTS \in Nat \ {0}
  BY Divided, PagingAssumption
<1> HIDE DEF a, b, r
<1>2. ~ (b <= a)
  BY <1>1
<1>3. b >= a + 1
  BY <1>1, <1>2
<1>4. SLOTS * b >= SLOTS * a + SLOTS
  BY <1>1, <1>3
<1> QED
  BY <1>1, <1>4

LEMMA Round ==
  ASSUME NEW k \in Nat
  PROVE  (k + SLOTS) % SLOTS = k % SLOTS
<1> DEFINE a == k \div SLOTS
           r == k % SLOTS
           b == (k + SLOTS) \div SLOTS
           q == (k + SLOTS) % SLOTS
<1>1. SLOTS \in Nat \ {0} /\ k + SLOTS \in Nat
  BY PagingAssumption
<1>2. /\ k = SLOTS * a + r /\ k + SLOTS = SLOTS * b + q
      /\ a \in Nat /\ b \in Nat /\ r \in 0 .. SLOTS - 1 /\ q \in 0 .. SLOTS - 1
  BY <1>1, Divided
<1> HIDE DEF a, b, r, q
<1>3. ~ (b <= a)
  BY <1>1, <1>2
<1>4. ~ (b >= a + 2)
  <2> SUFFICES ASSUME b >= a + 2 PROVE FALSE
    OBVIOUS
  <2>1. SLOTS * b >= SLOTS * a + SLOTS + SLOTS
    BY <1>1, <1>2
  <2> QED
    BY <1>1, <1>2, <2>1
<1>5. b = a + 1
  BY <1>2, <1>3, <1>4
<1>6. q = r
  BY <1>1, <1>2, <1>5
<1> QED
  BY <1>6 DEF q, r

(* The layout.  The definitions of the pages are opened nowhere else.      *)
LEMMA Addresses ==
  /\ \A k \in Heap : /\ HeapPage(k) \in Page
                     /\ pt_index(HeapPage(k)) = k % SLOTS
                     /\ k % SLOTS \in Slot
                     /\ pd_index(HeapPage(k)) \in {"low", "high", "heap"} \X Nat
  /\ \A s \in Slot : /\ KernelPage(s) \in Page
                     /\ pt_index(KernelPage(s)) = s
                     /\ pd_index(KernelPage(s)) = <<"high", 0>>
  /\ \A k, l \in Heap : HeapPage(k) = HeapPage(l) => k = l
  /\ \A k \in Heap : \A s \in Slot : KernelPage(s) # HeapPage(k)
  /\ TempPage = HeapPage(TempSlot) /\ BenchPage = HeapPage(BenchSlot)
  /\ TempSlot \in Slot /\ BenchSlot \in Slot /\ TempSlot # BenchSlot
  /\ pt_index(TempPage) = TempSlot /\ pt_index(BenchPage) = BenchSlot
  /\ Slot \subseteq Heap
  /\ \A p \in Page : pt_index(p) \in Slot
<1>1. /\ SLOTS \in Nat \ {0} /\ HEAP_MAX \in Nat /\ SLOTS <= HEAP_MAX
      /\ TempSlot \in Slot /\ BenchSlot \in Slot /\ TempSlot # BenchSlot
  BY PagingAssumption
<1>2. Slot \subseteq Heap /\ Heap \subseteq Nat /\ Slot \subseteq Nat
  BY <1>1 DEF Slot, Heap
<1>3. \A k : /\ HeapPage(k).part = "heap" /\ HeapPage(k).number = k
             /\ KernelPage(k).part = "high" /\ KernelPage(k).number = k
  BY DEF HeapPage, KernelPage
<1>4. \A k \in Nat : k % SLOTS \in Slot /\ k \div SLOTS \in Nat
  BY Divided DEF Slot
<1>5. \A k \in Heap : /\ HeapPage(k) \in Page
                      /\ pt_index(HeapPage(k)) = k % SLOTS
                      /\ pd_index(HeapPage(k)) = <<"heap", k \div SLOTS>>
  BY <1>3 DEF Page, pt_index, pd_index
<1>6. \A s \in Slot : s % SLOTS = s /\ s \div SLOTS = 0
  BY <1>1, <1>2, Small DEF Slot
<1>7. \A s \in Slot : /\ KernelPage(s) \in Page
                      /\ pt_index(KernelPage(s)) = s
                      /\ pd_index(KernelPage(s)) = <<"high", 0>>
  BY <1>3, <1>6 DEF Page, pt_index, pd_index
<1>8. \A k \in Heap : pd_index(HeapPage(k)) \in {"low", "high", "heap"} \X Nat
  BY <1>2, <1>4, <1>5
<1>9. \A p \in Page : pt_index(p) \in Slot
  <2> SUFFICES ASSUME NEW p \in Page PROVE pt_index(p) \in Slot
    OBVIOUS
  <2>1. (\E k \in Heap : p = HeapPage(k)) \/ (\E s \in Slot : p = KernelPage(s))
    BY DEF Page
  <2> QED
    BY <2>1, <1>2, <1>4, <1>5, <1>7
<1>10. pt_index(TempPage) = TempSlot /\ pt_index(BenchPage) = BenchSlot
  BY <1>1, <1>2, <1>5, <1>6 DEF TempPage, BenchPage
<1>11. \A k \in Heap : \A s \in Slot : KernelPage(s) # HeapPage(k)
  <2> SUFFICES ASSUME NEW k, NEW s PROVE KernelPage(s).part # HeapPage(k).part
    OBVIOUS
  <2> QED
    BY <1>3
<1>12. \A k, l \in Heap : HeapPage(k) = HeapPage(l) => k = l
  BY <1>3
<1> QED
  BY <1>1, <1>2, <1>4, <1>5, <1>7, <1>8, <1>9, <1>10, <1>11, <1>12 DEF TempPage, BenchPage

(* The frames and the user's pages.                                        *)
LEMMA Frames ==
  /\ 0 \in Frame /\ NULL \notin Frame /\ Slot \subseteq Frame
  /\ KernelSlot \subseteq Slot /\ 0 \notin KernelSlot
  /\ \A f \in Allocatable : f \in Frame /\ f # 0 /\ f \notin KernelSlot
  /\ \A u \in UserPage : DirOf(u) \in Entry /\ SlotOf(u) \in Entry
  /\ IsFiniteSet(Allocatable) /\ Cardinality(Allocatable) \in Nat
<1>1. 0 \in Frame /\ NULL \notin Frame /\ Slot \subseteq Frame
  BY PagingAssumption DEF Frame, Slot
<1>2. /\ KernelSlot \subseteq Slot /\ 0 \notin KernelSlot
      /\ \A f \in Allocatable : f \in Frame /\ f # 0 /\ f \notin KernelSlot
  BY PagingAssumption
<1>3. \A u \in UserPage : DirOf(u) \in Entry /\ SlotOf(u) \in Entry
  BY PagingAssumption DEF UserPage, DirOf, SlotOf, Entry
<1>4. IsFiniteSet(Frame)
  BY PagingAssumption, FS_Interval DEF Frame
<1>5. IsFiniteSet(Allocatable)
  BY <1>2, <1>4, FS_Subset
<1> QED
  BY <1>1, <1>2, <1>3, <1>5, FS_CardinalityType

(* No frame of the kernel, and none of the heap, is among NoHeapFrame; the *)
(* free ones are.                                                          *)
LEMMA NoHeapFrames ==
  ASSUME IInv
  PROVE  /\ NoHeapFrame \subseteq Frame
         /\ free \union {0} \subseteq NoHeapFrame
         /\ \A f \in NoHeapFrame : f \notin KernelSlot /\ \A k \in HeapIndex : f # given[k]
<1>1. NoHeapFrame \subseteq Frame
  BY Frames DEF NoHeapFrame
<1>2. free \union {0} \subseteq NoHeapFrame
  BY DEF IInv, TypeOK, GivenInv, NoHeapFrame
<1>3. \A f \in NoHeapFrame : f \notin KernelSlot
  BY Frames DEF NoHeapFrame
<1>4. \A f \in NoHeapFrame : \A k \in HeapIndex : f # given[k]
  BY Frames DEF NoHeapFrame, IInv, GivenInv
<1> QED
  BY <1>1, <1>2, <1>3, <1>4

(* The heap's pages are numbers of pages.                                  *)
LEMMA HeapNumbers ==
  ASSUME IInv
  PROVE  /\ heap_end \in Nat /\ heap_end <= HEAP_MAX
         /\ \A k \in HeapIndex : k \in Heap /\ k \in Nat /\ k < heap_end
         /\ \A k \in Heap : k \in Nat /\ (k < heap_end => k \in HeapIndex)
         /\ \A k \in heap_end .. HEAP_MAX - 1 : k \in Heap /\ k \in Nat /\ k >= heap_end
BY PagingAssumption DEF IInv, TypeOK, HeapIndex, Heap

(* As long as there is a frame, there is an address for it.                *)
LEMMA RoomLeft ==
  ASSUME IInv, free # {}
  PROVE  heap_end \in Heap
<1>1. IsFiniteSet(free)
  BY Frames, FS_Subset DEF IInv, TypeOK
<1>2. Cardinality(free) \in Nat /\ Cardinality(free) # 0
  BY <1>1, FS_CardinalityType, FS_EmptySet
<1>3. heap_end < Cardinality(Allocatable)
  BY <1>2, Frames, HeapNumbers DEF IInv, CountInv
<1> QED
  BY <1>3, Frames, HeapNumbers, PagingAssumption DEF Heap

(* What an access reaches is a frame.                                      *)
LEMMA Reached ==
  ASSUME IInv, pc # "boot", NEW p \in Page
  PROVE  Reach(p) \in Frame
<1>1. pt_index(p) \in Slot
  BY Addresses
<1> QED
  BY <1>1 DEF IInv, TypeOK, TableInv, Reach

(* At the temporary address it is the directory, once CR3 is loaded.       *)
LEMMA ReachedTemp ==
  ASSUME IInv, pc \in {"page", "directory", "zero", "bench", "write"}
  PROVE  Reach(TempPage) = first_page_table[TempSlot]
BY Addresses DEF IInv, TLBInv, Reach

-----------------------------------------------------------------------------
LEMMA InitIInv == Init => IInv
<1> SUFFICES ASSUME Init PROVE IInv
  OBVIOUS
<1>1. /\ heap_end = 0 /\ pc = "boot" /\ directory = NULL /\ new_table_phys = NULL
      /\ frame = NULL /\ tlb = Flushed /\ ram = [f \in Frame |-> Blank]
      /\ free \in SUBSET Allocatable /\ HeapIndex = {}
  BY DEF Init, HeapIndex
<1>2. TypeOK
  BY PagingAssumption DEF Init, TypeOK, Flushed, Blank, UserPage
<1>3. CountInv
  BY <1>1, Frames, FS_Subset, FS_CardinalityType DEF CountInv
<1>4. FlowInv /\ TableInv /\ KernelInv /\ GivenInv /\ HeapInv
  BY <1>1, Frames DEF FlowInv, TableInv, KernelInv, GivenInv, HeapInv
<1>5. FrameInv
  BY <1>1 DEF FrameInv, Blank
<1>6. TLBInv
  BY <1>1, Addresses DEF TLBInv, Flushed, Heap
<1> QED
  BY <1>2, <1>3, <1>4, <1>5, <1>6 DEF IInv

-----------------------------------------------------------------------------
(* What create_process displaces is no longer at home; the rest stays, and *)
(* the TLB at most forgets it.                                             *)
LEMMA HomesKept ==
  ASSUME IInv, pc # "boot",
         heap_end' = heap_end, given' = given, free' \subseteq free,
         page_directory \subseteq page_directory',
         \A s \in Slot :
           \/ first_page_table'[s] = first_page_table[s] /\ (Untouched(s)' <=> Untouched(s))
           \/ first_page_table'[s] \in NoHeapFrame /\ ~ Untouched(s)',
         \A k \in HeapIndex :
           Untouched(k % SLOTS)' => tlb'[HeapPage(k)] \in {tlb[HeapPage(k)], NULL},
         \A s \in KernelSlot :
           Untouched(s)' => tlb'[KernelPage(s)] \in {tlb[KernelPage(s)], NULL}
  PROVE  CountInv' /\ GivenInv' /\ HeapInv' /\ KernelInv'
<1>1. HeapIndex' = HeapIndex
  BY DEF HeapIndex
<1>2. CountInv'
  <2>1. IsFiniteSet(free)
    BY Frames, FS_Subset DEF IInv, TypeOK
  <2>2. /\ Cardinality(free') <= Cardinality(free)
        /\ Cardinality(free) \in Nat /\ Cardinality(free') \in Nat
    BY <2>1, FS_Subset, FS_CardinalityType
  <2> QED
    BY <2>2, Frames, HeapNumbers DEF IInv, CountInv
<1>3. GivenInv'
  BY <1>1 DEF IInv, GivenInv
<1>4. HeapInv'
  <2> SUFFICES ASSUME NEW k \in HeapIndex
               PROVE  IF HeapHome(k)'
                      THEN /\ first_page_table'[k % SLOTS] = given[k]
                           /\ tlb'[HeapPage(k)] \in {given[k], NULL}
                      ELSE first_page_table'[k % SLOTS] # given[k]
    BY <1>1 DEF HeapInv
  <2>1. k % SLOTS \in Slot
    BY HeapNumbers, Addresses
  <2>2. first_page_table'[k % SLOTS] \in NoHeapFrame => first_page_table'[k % SLOTS] # given[k]
    BY NoHeapFrames
  <2>3. HeapHome(k)' <=> heap_end <= k + SLOTS /\ Untouched(k % SLOTS)'
    BY DEF HeapHome
  <2>4. IF HeapHome(k)
        THEN /\ first_page_table[k % SLOTS] = given[k]
             /\ tlb[HeapPage(k)] \in {given[k], NULL}
        ELSE first_page_table[k % SLOTS] # given[k]
    BY DEF IInv, HeapInv
  <2>5. HeapHome(k) <=> heap_end <= k + SLOTS /\ Untouched(k % SLOTS)
    BY DEF HeapHome
  <2> QED
    BY <2>1, <2>2, <2>3, <2>4, <2>5
<1>5. KernelInv'
  <2> SUFFICES ASSUME NEW s \in KernelSlot
               PROVE  IF KernelHome(s)'
                      THEN first_page_table'[s] = s /\ tlb'[KernelPage(s)] \in {s, NULL}
                      ELSE first_page_table'[s] # s
    BY DEF KernelInv
  <2>1. s \in Slot
    BY Frames
  <2>2. first_page_table'[s] \in NoHeapFrame => first_page_table'[s] # s
    BY NoHeapFrames
  <2>3. KernelHome(s)' <=> heap_end <= s /\ Untouched(s)'
    BY DEF KernelHome
  <2>4. IF KernelHome(s)
        THEN first_page_table[s] = s /\ tlb[KernelPage(s)] \in {s, NULL}
        ELSE first_page_table[s] # s
    BY DEF IInv, KernelInv
  <2>5. KernelHome(s) <=> heap_end <= s /\ Untouched(s)
    BY DEF KernelHome
  <2> QED
    BY <2>1, <2>2, <2>3, <2>4, <2>5
<1> QED
  BY <1>2, <1>3, <1>4, <1>5

(* A mapping is one slot's.                                                *)
LEMMA Mapping ==
  ASSUME IInv, NEW p \in Page, NEW f \in Frame, map_page(p, f)
  PROVE  /\ pc # "boot" => first_page_table' \in [Slot -> Frame]
         /\ first_page_table' \in [Slot -> Frame \union {NULL}]
         /\ page_directory' = page_directory \union {pd_index(p)}
         /\ first_page_table'[pt_index(p)] = f
         /\ \A s \in Slot : s # pt_index(p) => first_page_table'[s] = first_page_table[s]
<1>1. pt_index(p) \in Slot
  BY Addresses
<1>2. first_page_table \in [Slot -> Frame \union {NULL}]
  BY DEF IInv, TypeOK
<1> QED
  BY <1>1, <1>2 DEF map_page, IInv, TableInv

(* The pages of the temporary addresses may be the heap's, but then these  *)
(* are not at home.                                                        *)
LEMMA TemporaryPages ==
  ASSUME NEW k \in Heap
  PROVE  /\ HeapPage(k) = TempPage => k % SLOTS = TempSlot
         /\ HeapPage(k) = BenchPage => k % SLOTS = BenchSlot
BY Addresses

(* Using a temporary page leaves what is at home alone.                    *)
LEMMA TemporaryAccess ==
  ASSUME IInv, NEW t \in Frame, NEW d \in Frame, ~ Untouched(TempSlot)',
         \/ tlb' = tlb
         \/ tlb' = [tlb EXCEPT ![TempPage] = d]
         \/ tlb' = [tlb EXCEPT ![BenchPage] = t] /\ ~ Untouched(BenchSlot)'
         \/ tlb' = [tlb EXCEPT ![BenchPage] = t, ![TempPage] = d] /\ ~ Untouched(BenchSlot)'
  PROVE  /\ tlb' \in [Page -> Frame \union {NULL}]
         /\ \A k \in HeapIndex : Untouched(k % SLOTS)' => tlb'[HeapPage(k)] = tlb[HeapPage(k)]
         /\ \A s \in Slot : tlb'[KernelPage(s)] = tlb[KernelPage(s)]
         /\ tlb'[TempPage] \in {tlb[TempPage], d}
<1>1. /\ TempPage \in Page /\ BenchPage \in Page /\ TempPage # BenchPage
      /\ \A s \in Slot : KernelPage(s) # TempPage /\ KernelPage(s) # BenchPage
  BY Addresses
<1>2. tlb \in [Page -> Frame \union {NULL}]
  BY DEF IInv, TypeOK
<1>3. tlb' \in [Page -> Frame \union {NULL}] /\ tlb'[TempPage] \in {tlb[TempPage], d}
  BY <1>1, <1>2
<1>4. \A p \in Page : p # TempPage /\ p # BenchPage => tlb'[p] = tlb[p]
  BY <1>1, <1>2
<1>5. \A s \in Slot : tlb'[KernelPage(s)] = tlb[KernelPage(s)]
  BY <1>1, <1>4, Addresses
<1>6. ASSUME NEW k \in HeapIndex, Untouched(k % SLOTS)'
      PROVE  tlb'[HeapPage(k)] = tlb[HeapPage(k)]
  <2>1. k \in Heap /\ HeapPage(k) \in Page
    BY HeapNumbers, Addresses
  <2>2. HeapPage(k) # TempPage
    <3> SUFFICES ASSUME HeapPage(k) = TempPage PROVE FALSE
      OBVIOUS
    <3>1. k % SLOTS = TempSlot
      BY <2>1, TemporaryPages
    <3> QED
      BY <1>6, <3>1
  <2>3. CASE HeapPage(k) # BenchPage
    BY <1>4, <2>1, <2>2, <2>3
  <2>4. CASE HeapPage(k) = BenchPage
    <3>1. k % SLOTS = BenchSlot
      BY <2>1, <2>4, TemporaryPages
    <3>2. Untouched(BenchSlot)'
      BY <1>6, <3>1
    <3> QED
      BY <1>1, <1>2, <2>1, <2>2, <3>2
  <2> QED
    BY <2>3, <2>4
<1> QED
  BY <1>3, <1>5, <1>6

-----------------------------------------------------------------------------
(* One lemma per action: each keeps the parts of the invariant.            *)

LEMMA InitPagingKeeps ==
  ASSUME IInv, init_paging
  PROVE  IInv'
<1> USE DEF IInv
<1>1. /\ pc = "boot" /\ pc' = "kernel" /\ tlb' = Flushed
      /\ page_directory' = {<<"low", 0>>, <<"high", 0>>}
      /\ first_page_table' = [s \in Slot |-> s]
      /\ UNCHANGED <<ram, free, heap_end, given, directory, i, frame, new_table_phys, asked>>
  BY DEF init_paging, heapVars, processVars
<1>2. heap_end = 0 /\ HeapIndex = {} /\ HeapIndex' = {} /\ directory = NULL
  BY <1>1 DEF FlowInv, HeapIndex
<1>3. TypeOK'
  <2>1. first_page_table' \in [Slot -> Frame \union {NULL}]
    BY <1>1, Frames
  <2>2. tlb' \in [Page -> Frame \union {NULL}]
    BY <1>1 DEF Flushed
  <2>3. page_directory' \subseteq {"low", "high", "heap"} \X Nat
    BY <1>1
  <2> QED
    BY <1>1, <2>1, <2>2, <2>3 DEF TypeOK
<1>4. CountInv' /\ GivenInv' /\ HeapInv'
  BY <1>1, <1>2 DEF CountInv, GivenInv, HeapInv
<1>5. FlowInv'
  BY <1>1, <1>2 DEF FlowInv
<1>6. FrameInv'
  BY <1>1 DEF FrameInv, NoHeapFrame, HeapIndex
<1>7. TableInv'
  BY <1>1, Frames DEF TableInv
<1>8. KernelInv'
  <2> SUFFICES ASSUME NEW s \in KernelSlot
               PROVE  /\ KernelHome(s)'
                      /\ first_page_table'[s] = s /\ tlb'[KernelPage(s)] \in {s, NULL}
    BY DEF KernelInv
  <2>1. s \in Slot /\ KernelPage(s) \in Page /\ 0 <= s
    BY Frames, Addresses DEF Slot
  <2>2. first_page_table'[s] = s /\ tlb'[KernelPage(s)] = NULL
    BY <1>1, <2>1 DEF Flushed
  <2>3. Untouched(s)'
    BY <1>1, <1>2 DEF FlowInv, Untouched
  <2> QED
    BY <1>1, <1>2, <2>1, <2>2, <2>3 DEF KernelHome
<1>9. TLBInv'
  <2>1. \A k \in heap_end .. HEAP_MAX - 1 : HeapPage(k) \in Page
    BY HeapNumbers, Addresses
  <2> QED
    BY <1>1, <2>1 DEF TLBInv, Flushed
<1> QED
  BY <1>3, <1>4, <1>5, <1>6, <1>7, <1>8, <1>9

LEMMA GrowHeapKeeps ==
  ASSUME IInv, GrowHeap
  PROVE  IInv'
<1> USE DEF IInv
<1> DEFINE e == heap_end
<1>1. PICK f \in free : /\ map_page(HeapPage(e), f)
                        /\ given' = [given EXCEPT ![e] = f]
                        /\ free' = free \ {f}
  BY DEF GrowHeap, allocate_frame
<1>2. /\ pc = "kernel" /\ pc' = pc /\ tlb' = tlb /\ ram' = ram /\ heap_end' = e + 1
      /\ UNCHANGED <<directory, i, frame, new_table_phys, asked>>
      /\ directory = NULL /\ new_table_phys = NULL /\ frame = NULL
  BY DEF GrowHeap, processVars, FlowInv
<1>3. /\ e \in Heap /\ e \in Nat /\ e + 1 <= HEAP_MAX /\ HeapPage(e) \in Page
      /\ e % SLOTS \in Slot /\ pt_index(HeapPage(e)) = e % SLOTS
  BY <1>1, RoomLeft, HeapNumbers, Addresses, PagingAssumption DEF Heap
<1>4. f \in Frame /\ f \in Allocatable /\ f \notin KernelSlot
  BY <1>1, Frames DEF TypeOK
<1>5. /\ first_page_table' \in [Slot -> Frame]
      /\ page_directory' = page_directory \union {pd_index(HeapPage(e))}
      /\ first_page_table'[e % SLOTS] = f
      /\ \A s \in Slot : s # e % SLOTS => first_page_table'[s] = first_page_table[s]
  BY <1>1, <1>2, <1>3, <1>4, Mapping
<1>6. /\ given' \in [Heap -> Frame \union {NULL}] /\ given'[e] = f
      /\ \A k \in HeapIndex : given'[k] = given[k] /\ given[k] # f /\ given[k] \in Allocatable \ free
      /\ HeapIndex' = 0 .. e
      /\ \A k \in 0 .. e : k = e \/ (k \in HeapIndex /\ k < e /\ k \in Nat)
  <2>1. \A k \in HeapIndex : k \in Heap /\ k # e
    BY HeapNumbers
  <2>2. given \in [Heap -> Frame \union {NULL}]
    BY DEF TypeOK
  <2>3. \A k \in HeapIndex : given[k] \in Allocatable \ free
    BY DEF GivenInv
  <2>4. HeapIndex' = 0 .. e /\ \A k \in 0 .. e : k = e \/ (k \in HeapIndex /\ k < e /\ k \in Nat)
    BY <1>2, <1>3 DEF HeapIndex
  <2> QED
    BY <1>1, <1>3, <1>4, <2>1, <2>2, <2>3, <2>4
<1>7. TypeOK'
  <2>1. page_directory' \subseteq {"low", "high", "heap"} \X Nat
    BY <1>3, <1>5, Addresses DEF TypeOK
  <2>2. heap_end' \in 0 .. HEAP_MAX
    BY <1>2, <1>3, PagingAssumption
  <2>3. first_page_table' \in [Slot -> Frame \union {NULL}] /\ free' \subseteq Allocatable
    BY <1>1, <1>5 DEF TypeOK
  <2> QED
    BY <1>2, <1>6, <2>1, <2>2, <2>3 DEF TypeOK
<1>8. CountInv'
  <2>1. IsFiniteSet(free) /\ Cardinality(free) \in Nat
    BY Frames, FS_Subset, FS_CardinalityType DEF TypeOK
  <2>2. Cardinality(free') = Cardinality(free) - 1
    BY <1>1, <2>1, FS_RemoveElement
  <2> QED
    BY <1>2, <1>3, <2>1, <2>2, Frames DEF CountInv
<1>9. FlowInv'
  BY <1>2, <1>5 DEF FlowInv
<1>10. FrameInv'
  <2>1. ram' = [g \in Frame |-> Blank]
    BY <1>2 DEF FlowInv
  <2> QED
    BY <1>2, <2>1 DEF FrameInv, Blank
<1>11. TableInv'
  BY <1>5 DEF TableInv
<1>12. GivenInv'
  <2>1. \A k \in 0 .. e : given'[k] \in Allocatable \ free'
    BY <1>1, <1>4, <1>6
  <2>2. \A k, l \in 0 .. e : given'[k] = given'[l] => k = l
    BY <1>6 DEF GivenInv
  <2>3. \A k \in 0 .. e : pd_index(HeapPage(k)) \in page_directory'
    BY <1>5, <1>6 DEF GivenInv
  <2> QED
    BY <1>6, <2>1, <2>2, <2>3 DEF GivenInv
<1>13. HeapInv'
  <2>1. ASSUME NEW k \in 0 .. e, k = e
        PROVE  /\ HeapHome(k)'
               /\ first_page_table'[k % SLOTS] = given'[k]
               /\ tlb'[HeapPage(k)] = NULL
    <3>1. k \in heap_end .. HEAP_MAX - 1
      BY <1>3, <2>1, PagingAssumption
    <3>2. tlb[HeapPage(k)] = NULL
      BY <1>2, <3>1 DEF TLBInv
    <3>3. e + 1 <= e + SLOTS
      BY <1>3, PagingAssumption
    <3>4. Untouched(k % SLOTS)'
      BY <1>2 DEF Untouched
    <3>5. HeapHome(k)'
      BY <1>2, <2>1, <3>3, <3>4 DEF HeapHome
    <3> QED
      BY <1>2, <1>5, <1>6, <2>1, <3>2, <3>5
  <2>2. ASSUME NEW k \in HeapIndex
        PROVE  IF HeapHome(k)'
               THEN /\ first_page_table'[k % SLOTS] = given'[k]
                    /\ tlb'[HeapPage(k)] \in {given'[k], NULL}
               ELSE first_page_table'[k % SLOTS] # given'[k]
    <3>1. k \in Nat /\ k < e /\ k % SLOTS \in Slot /\ SLOTS \in Nat
      BY HeapNumbers, Addresses, PagingAssumption
    <3>2. (HeapHome(k) <=> e <= k + SLOTS) /\ (HeapHome(k)' <=> e + 1 <= k + SLOTS)
      BY <1>2 DEF HeapHome, Untouched
    <3>3. given'[k] = given[k] /\ given[k] # f
      BY <1>6
    <3>4. IF HeapHome(k)
          THEN /\ first_page_table[k % SLOTS] = given[k]
               /\ tlb[HeapPage(k)] \in {given[k], NULL}
          ELSE first_page_table[k % SLOTS] # given[k]
      BY DEF HeapInv
    <3>5. CASE e + 1 <= k + SLOTS
      <4>1. k % SLOTS # e % SLOTS
        BY <1>3, <3>1, <3>5, Apart
      <4> QED
        BY <1>2, <1>3, <1>5, <3>1, <3>2, <3>3, <3>4, <3>5, <4>1
    <3>6. CASE e = k + SLOTS
      <4>1. k % SLOTS = e % SLOTS
        BY <3>1, <3>6, Round
      <4> QED
        BY <1>3, <1>5, <3>1, <3>2, <3>3, <3>6, <4>1
    <3>7. CASE e > k + SLOTS
      <4>1. ~ HeapHome(k) /\ ~ HeapHome(k)'
        BY <1>3, <3>1, <3>2, <3>7
      <4> QED
        BY <1>5, <3>1, <3>3, <3>4, <4>1
    <3> QED
      BY <1>3, <3>1, <3>5, <3>6, <3>7
  <2> QED
    BY <1>6, <2>1, <2>2 DEF HeapInv
<1>14. KernelInv'
  <2> SUFFICES ASSUME NEW s \in KernelSlot
               PROVE  IF KernelHome(s)'
                      THEN first_page_table'[s] = s /\ tlb'[KernelPage(s)] \in {s, NULL}
                      ELSE first_page_table'[s] # s
    BY DEF KernelInv
  <2>1. s \in Slot /\ s \in Nat /\ s < SLOTS /\ f # s
    BY <1>4, Frames, PagingAssumption DEF Slot
  <2>2. (KernelHome(s) <=> e <= s) /\ (KernelHome(s)' <=> e + 1 <= s)
    BY <1>2 DEF KernelHome, Untouched
  <2>3. IF KernelHome(s)
        THEN first_page_table[s] = s /\ tlb[KernelPage(s)] \in {s, NULL}
        ELSE first_page_table[s] # s
    BY <1>2 DEF KernelInv
  <2>4. CASE e <= s
    <3>1. e % SLOTS = e
      BY <1>3, <2>1, <2>4, Small, PagingAssumption
    <3> QED
      BY <1>2, <1>3, <1>5, <2>1, <2>2, <2>3, <2>4, <3>1
  <2>5. CASE e > s
    <3>1. ~ KernelHome(s) /\ ~ KernelHome(s)'
      BY <1>3, <2>1, <2>2, <2>5
    <3> QED
      BY <1>5, <2>1, <2>3, <3>1
  <2> QED
    BY <1>3, <2>1, <2>4, <2>5
<1>15. TLBInv'
  <2>1. \A k \in e + 1 .. HEAP_MAX - 1 : k \in e .. HEAP_MAX - 1
    BY <1>3
  <2> QED
    BY <1>2, <2>1 DEF TLBInv
<1> QED
  BY <1>7, <1>8, <1>9, <1>10, <1>11, <1>12, <1>13, <1>14, <1>15

LEMMA TouchKeeps ==
  ASSUME IInv, NEW p \in Page, Touch(p)
  PROVE  IInv'
<1> USE DEF IInv
<1>1. /\ pc # "boot" /\ p \in InUse /\ tlb' = [tlb EXCEPT ![p] = Reach(p)]
      /\ tlb \in [Page -> Frame \union {NULL}]
      /\ Reach(p) \in Frame
  BY Reached DEF Touch, TypeOK
<1>2. /\ UNCHANGED <<page_directory, first_page_table, ram, free, heap_end, given>>
      /\ UNCHANGED <<pc, directory, i, frame, new_table_phys, asked>>
  BY DEF Touch, kernelVars, heapVars, processVars
<1>3. TypeOK'
  BY <1>1, <1>2 DEF TypeOK
<1>4. CountInv' /\ FlowInv' /\ TableInv'
  BY <1>1, <1>2 DEF CountInv, FlowInv, TableInv
<1>5. FrameInv' /\ GivenInv'
  BY <1>2 DEF FrameInv, GivenInv, NoHeapFrame, HeapIndex
<1>6. HeapInv'
  <2> SUFFICES ASSUME NEW k \in HeapIndex, HeapHome(k)
               PROVE  tlb'[HeapPage(k)] \in {given[k], NULL}
    BY <1>2 DEF HeapInv, HeapIndex, HeapHome, Untouched
  <2>1. HeapPage(k) \in Page /\ pt_index(HeapPage(k)) = k % SLOTS
    BY HeapNumbers, Addresses
  <2>2. first_page_table[k % SLOTS] = given[k] /\ tlb[HeapPage(k)] \in {given[k], NULL}
    BY DEF HeapInv
  <2>3. Reach(HeapPage(k)) = given[k]
    BY <2>1, <2>2 DEF Reach
  <2> QED
    BY <1>1, <2>1, <2>2, <2>3
<1>7. KernelInv'
  <2> SUFFICES ASSUME NEW s \in KernelSlot, KernelHome(s)
               PROVE  tlb'[KernelPage(s)] \in {s, NULL}
    BY <1>1, <1>2 DEF KernelInv, KernelHome, Untouched
  <2>1. KernelPage(s) \in Page /\ pt_index(KernelPage(s)) = s
    BY Frames, Addresses
  <2>2. first_page_table[s] = s /\ tlb[KernelPage(s)] \in {s, NULL}
    BY <1>1 DEF KernelInv
  <2>3. Reach(KernelPage(s)) = s
    BY <2>1, <2>2 DEF Reach
  <2> QED
    BY <1>1, <2>1, <2>2, <2>3
<1>8. TLBInv'
  <2>1. \A k \in heap_end .. HEAP_MAX - 1 : HeapPage(k) # p
    <3> SUFFICES ASSUME NEW k \in heap_end .. HEAP_MAX - 1, HeapPage(k) = p PROVE FALSE
      OBVIOUS
    <3>1. k \in Heap /\ k >= heap_end /\ heap_end \in Nat
      BY HeapNumbers
    <3>2. CASE \E s \in KernelSlot : p = KernelPage(s)
      BY <3>1, <3>2, Frames, Addresses
    <3>3. CASE \E l \in HeapIndex : p = HeapPage(l)
      <4>1. PICK l \in HeapIndex : p = HeapPage(l)
        BY <3>3
      <4>2. l \in Heap /\ l < heap_end
        BY HeapNumbers
      <4>3. l = k
        BY <3>1, <4>1, <4>2, Addresses
      <4> QED
        BY <3>1, <4>2, <4>3
    <3> QED
      BY <1>1, <3>2, <3>3 DEF InUse, HeapIndex
  <2>2. \A k \in heap_end .. HEAP_MAX - 1 : HeapPage(k) \in Page
    BY HeapNumbers, Addresses
  <2>3. \A k \in heap_end .. HEAP_MAX - 1 : tlb'[HeapPage(k)] = tlb[HeapPage(k)]
    BY <1>1, <2>1, <2>2
  <2>4. TempPage \in Page
    BY Addresses
  <2>5. pc \in {"page", "directory", "zero", "bench", "write"} =>
          tlb'[TempPage] \in {first_page_table[TempSlot], NULL}
    BY <1>1, <2>4, ReachedTemp DEF TLBInv
  <2> QED
    BY <1>2, <2>3, <2>5 DEF TLBInv
<1> QED
  BY <1>3, <1>4, <1>5, <1>6, <1>7, <1>8

LEMMA EvictKeeps ==
  ASSUME IInv, NEW p \in Page, Evict(p)
  PROVE  IInv'
<1> USE DEF IInv
<1>1. /\ tlb[p] # NULL /\ tlb' = [tlb EXCEPT ![p] = NULL]
      /\ tlb \in [Page -> Frame \union {NULL}]
  BY DEF Evict, TypeOK
<1>2. /\ UNCHANGED <<page_directory, first_page_table, ram, free, heap_end, given>>
      /\ UNCHANGED <<pc, directory, i, frame, new_table_phys, asked>>
  BY DEF Evict, kernelVars, heapVars, processVars
<1>3. \A q \in Page : tlb'[q] \in {tlb[q], NULL}
  BY <1>1
<1>4. pc # "boot"
  BY <1>1 DEF FlowInv, Flushed
<1>5. TypeOK'
  BY <1>1, <1>2 DEF TypeOK
<1>6. FlowInv' /\ TableInv'
  BY <1>2, <1>4 DEF FlowInv, TableInv
<1>7. FrameInv'
  BY <1>2 DEF FrameInv, NoHeapFrame, HeapIndex
<1>8. CountInv' /\ GivenInv' /\ HeapInv' /\ KernelInv'
  <2>1. \A k \in HeapIndex : tlb'[HeapPage(k)] \in {tlb[HeapPage(k)], NULL}
    BY <1>3, HeapNumbers, Addresses
  <2>2. \A s \in KernelSlot : tlb'[KernelPage(s)] \in {tlb[KernelPage(s)], NULL}
    BY <1>3, Frames, Addresses
  <2>3. \A s \in Slot : Untouched(s)' <=> Untouched(s)
    BY <1>2 DEF Untouched
  <2> QED
    BY <1>2, <1>4, <2>1, <2>2, <2>3, HomesKept
<1>9. TLBInv'
  <2>1. \A k \in heap_end .. HEAP_MAX - 1 : tlb'[HeapPage(k)] \in {tlb[HeapPage(k)], NULL}
    BY <1>3, HeapNumbers, Addresses
  <2>2. tlb'[TempPage] \in {tlb[TempPage], NULL}
    BY <1>3, Addresses
  <2> QED
    BY <1>2, <2>1, <2>2 DEF TLBInv
<1> QED
  BY <1>5, <1>6, <1>7, <1>8, <1>9

LEMMA CreateDirectoryKeeps ==
  ASSUME IInv, create_user_page_directory
  PROVE  IInv'
<1> USE DEF IInv
<1>1. /\ pc = "kernel" /\ directory = NULL /\ new_table_phys = NULL /\ frame = NULL
      /\ UNCHANGED <<tlb, ram, heap_end, given, i, frame, new_table_phys, asked>>
  BY DEF create_user_page_directory, heapVars, FlowInv
<1>2. /\ ram = [g \in Frame |-> Blank]
      /\ FrameInv'
  BY <1>1 DEF FlowInv, FrameInv, NoHeapFrame, HeapIndex
<1>3. CASE \E f \in free : /\ directory' = f /\ free' = free \ {f}
                           /\ map_page(TempPage, f) /\ pc' = "clear"
  <2>1. PICK f \in free : /\ directory' = f /\ free' = free \ {f}
                          /\ map_page(TempPage, f) /\ pc' = "clear"
    BY <1>3
  <2>2. f \in Frame /\ f # NULL /\ f # 0 /\ f \in NoHeapFrame /\ free' \subseteq free
    BY <2>1, Frames, NoHeapFrames DEF TypeOK
  <2>3. /\ first_page_table' \in [Slot -> Frame]
        /\ first_page_table' \in [Slot -> Frame \union {NULL}]
        /\ page_directory' = page_directory \union {pd_index(TempPage)}
        /\ first_page_table'[TempSlot] = f
        /\ \A s \in Slot : s # TempSlot => first_page_table'[s] = first_page_table[s]
    BY <1>1, <2>1, <2>2, Mapping, Addresses
  <2>4. TypeOK'
    <3>1. pd_index(TempPage) \in {"low", "high", "heap"} \X Nat
      BY Addresses
    <3> QED
      BY <1>1, <2>1, <2>2, <2>3, <3>1 DEF TypeOK
  <2>5. FlowInv' /\ TableInv' /\ TLBInv'
    BY <1>1, <1>2, <2>1, <2>2, <2>3 DEF FlowInv, TableInv, TLBInv
  <2>6. CountInv' /\ GivenInv' /\ HeapInv' /\ KernelInv'
    <3>1. /\ ~ Untouched(TempSlot)'
          /\ \A s \in Slot : s # TempSlot => (Untouched(s)' <=> Untouched(s))
      BY <1>1, <2>1, <2>2 DEF Untouched
    <3>2. \A s \in Slot :
            \/ first_page_table'[s] = first_page_table[s] /\ (Untouched(s)' <=> Untouched(s))
            \/ first_page_table'[s] \in NoHeapFrame /\ ~ Untouched(s)'
      BY <2>2, <2>3, <3>1
    <3> QED
      BY <1>1, <2>2, <2>3, <3>2, HomesKept
  <2> QED
    BY <1>2, <2>4, <2>5, <2>6
<1>4. CASE directory' = 0 /\ pc' = "unfilled" /\ UNCHANGED <<page_directory, first_page_table, free>>
  <2>1. TypeOK'
    BY <1>1, <1>4, Frames DEF TypeOK
  <2>2. FlowInv' /\ TableInv' /\ TLBInv'
    BY <1>1, <1>2, <1>4, Frames DEF FlowInv, TableInv, TLBInv
  <2>3. CountInv' /\ GivenInv' /\ HeapInv' /\ KernelInv'
    <3>1. \A s \in Slot : Untouched(s)' <=> Untouched(s)
      BY <1>1, <1>4 DEF Untouched
    <3> QED
      BY <1>1, <1>4, <3>1, HomesKept
  <2> QED
    BY <1>2, <2>1, <2>2, <2>3
<1> QED
  BY <1>3, <1>4 DEF create_user_page_directory, allocate_frame, kernelVars

LEMMA ClearDirectoryKeeps ==
  ASSUME IInv, ClearDirectory
  PROVE  IInv'
<1> USE DEF IInv
<1> DEFINE d == Reach(TempPage)
<1>1. /\ pc = "clear" /\ pc' \in {"load", "unfilled"}
      /\ ram' = [ram EXCEPT ![d] = Blank] /\ tlb' = [tlb EXCEPT ![TempPage] = d]
      /\ UNCHANGED <<page_directory, first_page_table, free, heap_end, given>>
      /\ UNCHANGED <<directory, i, frame, new_table_phys, asked>>
  BY DEF ClearDirectory, kernelVars, heapVars, processVars
<1>2. d \in Frame
  BY <1>1, Reached, Addresses
<1> HIDE DEF d
<1>3. directory # NULL /\ directory # 0 /\ \A s \in Slot : Untouched(s)' <=> Untouched(s)
  BY <1>1 DEF FlowInv, Untouched
<1>4. ~ Untouched(TempSlot)'
  BY <1>1, <1>3 DEF Untouched
<1>5. /\ tlb' \in [Page -> Frame \union {NULL}]
      /\ \A k \in HeapIndex : Untouched(k % SLOTS)' => tlb'[HeapPage(k)] = tlb[HeapPage(k)]
      /\ \A s \in Slot : tlb'[KernelPage(s)] = tlb[KernelPage(s)]
  BY <1>1, <1>2, <1>4, TemporaryAccess
<1>6. /\ NoHeapFrame' = NoHeapFrame
      /\ ram' \in [Frame -> [Entry -> NoHeapFrame \union {NULL}]]
      /\ ram' \in [Frame -> [Entry -> Frame \union {NULL}]]
  BY <1>1, <1>2 DEF NoHeapFrame, HeapIndex, TypeOK, FrameInv, Blank
<1>7. TypeOK'
  BY <1>1, <1>5, <1>6 DEF TypeOK
<1>8. new_table_phys = NULL => ram' = [g \in Frame |-> Blank]
  BY <1>1 DEF FlowInv
<1>9. FlowInv' /\ TableInv' /\ FrameInv' /\ TLBInv'
  BY <1>1, <1>3, <1>6, <1>8 DEF FlowInv, TableInv, FrameInv, TLBInv
<1>10. CountInv' /\ GivenInv' /\ HeapInv' /\ KernelInv'
  BY <1>1, <1>3, <1>5, Frames, HomesKept
<1> QED
  BY <1>7, <1>9, <1>10

LEMMA LoadCR3Keeps ==
  ASSUME IInv, LoadCR3
  PROVE  IInv'
<1> USE DEF IInv
<1>1. /\ pc \in {"load", "unfilled"} /\ tlb' = Flushed
      /\ (pc = "load" /\ pc' = "page") \/ (pc = "unfilled" /\ pc' = "crashed")
      /\ UNCHANGED <<page_directory, first_page_table, ram, free, heap_end, given>>
      /\ UNCHANGED <<directory, i, frame, new_table_phys, asked>>
  BY DEF LoadCR3, kernelVars, heapVars, processVars
<1>2. tlb' \in [Page -> Frame \union {NULL}] /\ \A p \in Page : tlb'[p] = NULL
  BY <1>1 DEF Flushed
<1>3. TypeOK'
  BY <1>1, <1>2 DEF TypeOK
<1>4. FlowInv' /\ TableInv'
  BY <1>1 DEF FlowInv, TableInv
<1>5. FrameInv'
  BY <1>1 DEF FrameInv, NoHeapFrame, HeapIndex
<1>6. TLBInv'
  BY <1>1, <1>2, Addresses DEF TLBInv, FlowInv
<1>7. CountInv' /\ GivenInv' /\ HeapInv' /\ KernelInv'
  <2>1. \A k \in HeapIndex : tlb'[HeapPage(k)] = NULL
    BY <1>2, HeapNumbers, Addresses
  <2>2. \A s \in KernelSlot : tlb'[KernelPage(s)] = NULL
    BY <1>2, Frames, Addresses
  <2>3. \A s \in Slot : Untouched(s)' <=> Untouched(s)
    BY <1>1 DEF Untouched
  <2> QED
    BY <1>1, <2>1, <2>2, <2>3, HomesKept
<1> QED
  BY <1>3, <1>4, <1>5, <1>6, <1>7

LEMMA AllocatePageKeeps ==
  ASSUME IInv, AllocatePage
  PROVE  IInv'
<1> USE DEF IInv
<1>1. /\ pc = "page"
      /\ UNCHANGED <<page_directory, first_page_table, tlb, ram, heap_end, given>>
      /\ UNCHANGED <<directory, i, new_table_phys, asked>>
      /\ free' \subseteq free
      /\ \/ frame' \in free \union {0} /\ pc' = "directory"
         \/ frame' = frame /\ pc' = "done"
  BY DEF AllocatePage, allocate_frame, kernelVars, heapVars
<1>2. /\ NoHeapFrame' = NoHeapFrame
      /\ frame' \in NoHeapFrame \union {NULL}
      /\ frame' \in Frame \union {NULL}
      /\ pc' = "directory" => frame' # NULL
  BY <1>1, NoHeapFrames, Frames DEF TypeOK, FrameInv, NoHeapFrame, HeapIndex
<1>3. TypeOK'
  BY <1>1, <1>2 DEF TypeOK
<1>4. FlowInv' /\ TableInv' /\ FrameInv' /\ TLBInv'
  BY <1>1, <1>2 DEF FlowInv, TableInv, FrameInv, TLBInv
<1>5. CountInv' /\ GivenInv' /\ HeapInv' /\ KernelInv'
  <2>1. \A s \in Slot : Untouched(s)' <=> Untouched(s)
    BY <1>1 DEF Untouched
  <2> QED
    BY <1>1, <2>1, HomesKept
<1> QED
  BY <1>3, <1>4, <1>5

LEMMA FindTableKeeps ==
  ASSUME IInv, FindTable
  PROVE  IInv'
<1> USE DEF IInv
<1> DEFINE d == Reach(TempPage)
<1>1. /\ pc = "directory" /\ tlb' = [tlb EXCEPT ![TempPage] = d]
      /\ UNCHANGED <<ram, heap_end, given, directory, i, frame, asked>>
      /\ directory # NULL /\ directory # 0
  BY DEF FindTable, heapVars, FlowInv
<1>2. d \in Frame /\ d = first_page_table[TempSlot]
  BY <1>1, Reached, ReachedTemp, Addresses
<1>3. \/ /\ ram[d][DirOf(i)] # NULL /\ pc' = "bench"
         /\ UNCHANGED <<page_directory, first_page_table, free, new_table_phys>>
      \/ /\ free' \subseteq free /\ new_table_phys' \in free \union {0}
         /\ map_page(BenchPage, new_table_phys') /\ pc' = "zero"
  BY DEF FindTable, allocate_frame, kernelVars
<1> HIDE DEF d
<1>4. ~ Untouched(TempSlot)'
  BY <1>1 DEF Untouched
<1>5. /\ tlb' \in [Page -> Frame \union {NULL}]
      /\ \A k \in HeapIndex : Untouched(k % SLOTS)' => tlb'[HeapPage(k)] = tlb[HeapPage(k)]
      /\ \A s \in Slot : tlb'[KernelPage(s)] = tlb[KernelPage(s)]
      /\ tlb'[TempPage] \in {tlb[TempPage], d}
  BY <1>1, <1>2, <1>4, TemporaryAccess
<1>6. NoHeapFrame' = NoHeapFrame
  BY <1>1 DEF NoHeapFrame, HeapIndex
<1>7. CASE /\ ram[d][DirOf(i)] # NULL /\ pc' = "bench"
           /\ UNCHANGED <<page_directory, first_page_table, free, new_table_phys>>
  <2>1. TypeOK'
    BY <1>1, <1>5, <1>7 DEF TypeOK
  <2>2. new_table_phys # NULL
    <3> SUFFICES ASSUME new_table_phys = NULL PROVE FALSE
      OBVIOUS
    <3>1. ram = [g \in Frame |-> Blank] /\ DirOf(i) \in Entry
      BY Frames DEF FlowInv, TypeOK
    <3> QED
      BY <1>2, <1>7, <3>1 DEF Blank
  <2>3. FlowInv' /\ TableInv' /\ FrameInv'
    BY <1>1, <1>6, <1>7, <2>2 DEF FlowInv, TableInv, FrameInv
  <2>4. TLBInv'
    BY <1>1, <1>2, <1>5, <1>7 DEF TLBInv
  <2>5. CountInv' /\ GivenInv' /\ HeapInv' /\ KernelInv'
    <3>1. \A s \in Slot : Untouched(s)' <=> Untouched(s)
      BY <1>1, <1>7 DEF Untouched
    <3> QED
      BY <1>1, <1>5, <1>7, <3>1, Frames, HomesKept
  <2> QED
    BY <2>1, <2>3, <2>4, <2>5
<1>8. CASE /\ free' \subseteq free /\ new_table_phys' \in free \union {0}
           /\ map_page(BenchPage, new_table_phys') /\ pc' = "zero"
  <2>1. /\ new_table_phys' \in Frame /\ new_table_phys' # NULL
        /\ new_table_phys' \in NoHeapFrame
    BY <1>8, Frames, NoHeapFrames DEF TypeOK
  <2>2. /\ first_page_table' \in [Slot -> Frame]
        /\ first_page_table' \in [Slot -> Frame \union {NULL}]
        /\ page_directory' = page_directory \union {pd_index(BenchPage)}
        /\ first_page_table'[BenchSlot] = new_table_phys'
        /\ \A s \in Slot : s # BenchSlot => first_page_table'[s] = first_page_table[s]
    BY <1>1, <1>8, <2>1, Mapping, Addresses
  <2>3. TypeOK'
    <3>1. pd_index(BenchPage) \in {"low", "high", "heap"} \X Nat
      BY Addresses
    <3> QED
      BY <1>1, <1>5, <1>8, <2>1, <2>2, <3>1 DEF TypeOK
  <2>4. FlowInv' /\ TableInv' /\ FrameInv'
    BY <1>1, <1>6, <1>8, <2>1, <2>2 DEF FlowInv, TableInv, FrameInv
  <2>5. TLBInv'
    <3>1. first_page_table'[TempSlot] = d
      BY <1>2, <2>2, Addresses
    <3>2. tlb'[TempPage] \in {d, NULL}
      BY <1>1, <1>2, <1>5 DEF TLBInv
    <3> QED
      BY <1>1, <1>8, <3>1, <3>2 DEF TLBInv
  <2>6. CountInv' /\ GivenInv' /\ HeapInv' /\ KernelInv'
    <3>1. /\ ~ Untouched(BenchSlot)'
          /\ \A s \in Slot : s # BenchSlot => (Untouched(s)' <=> Untouched(s))
      BY <1>1, <2>1 DEF Untouched
    <3>2. \A s \in Slot :
            \/ first_page_table'[s] = first_page_table[s] /\ (Untouched(s)' <=> Untouched(s))
            \/ first_page_table'[s] \in NoHeapFrame /\ ~ Untouched(s)'
      BY <2>1, <2>2, <3>1
    <3>3. page_directory \subseteq page_directory'
      BY <2>2
    <3> QED
      BY <1>1, <1>5, <1>8, <3>2, <3>3, Frames, HomesKept
  <2> QED
    BY <2>3, <2>4, <2>5, <2>6
<1> QED
  BY <1>3, <1>7, <1>8

LEMMA ZeroTableKeeps ==
  ASSUME IInv, ZeroTable
  PROVE  IInv'
<1> USE DEF IInv
<1> DEFINE t == Reach(BenchPage)
           d == Reach(TempPage)
<1>1. /\ pc = "zero" /\ pc' = "bench"
      /\ ram' = [[ram EXCEPT ![t] = Blank] EXCEPT ![d][DirOf(i)] = new_table_phys]
      /\ tlb' = [tlb EXCEPT ![BenchPage] = t, ![TempPage] = d]
      /\ UNCHANGED <<page_directory, first_page_table, free, heap_end, given>>
      /\ UNCHANGED <<directory, i, frame, new_table_phys, asked>>
      /\ directory # NULL /\ directory # 0 /\ new_table_phys # NULL
  BY DEF ZeroTable, kernelVars, heapVars, processVars, FlowInv
<1>2. t \in Frame /\ d \in Frame /\ d = first_page_table[TempSlot]
  BY <1>1, Reached, ReachedTemp, Addresses
<1> HIDE DEF t, d
<1>3. ~ Untouched(TempSlot)' /\ ~ Untouched(BenchSlot)'
  BY <1>1 DEF Untouched
<1>4. /\ tlb' \in [Page -> Frame \union {NULL}]
      /\ \A k \in HeapIndex : Untouched(k % SLOTS)' => tlb'[HeapPage(k)] = tlb[HeapPage(k)]
      /\ \A s \in Slot : tlb'[KernelPage(s)] = tlb[KernelPage(s)]
      /\ tlb'[TempPage] \in {tlb[TempPage], d}
  BY <1>1, <1>2, <1>3, TemporaryAccess
<1>5. /\ NoHeapFrame' = NoHeapFrame /\ NoHeapFrame \subseteq Frame
      /\ ram' \in [Frame -> [Entry -> NoHeapFrame \union {NULL}]]
      /\ ram'[d][DirOf(i)] # NULL
  <2> DEFINE blanked == [ram EXCEPT ![t] = Blank]
  <2>1. blanked \in [Frame -> [Entry -> NoHeapFrame \union {NULL}]]
    BY <1>2 DEF FrameInv, Blank
  <2>2. DirOf(i) \in Entry /\ new_table_phys \in NoHeapFrame
    BY <1>1, Frames DEF TypeOK, FrameInv
  <2>3. ram' = [blanked EXCEPT ![d][DirOf(i)] = new_table_phys]
    BY <1>1
  <2>4. NoHeapFrame' = NoHeapFrame /\ NoHeapFrame \subseteq Frame
    BY <1>1, NoHeapFrames DEF NoHeapFrame, HeapIndex
  <2> DEFINE Part == NoHeapFrame \union {NULL}
             e == DirOf(i)
  <2>5. /\ blanked \in [Frame -> [Entry -> Part]] /\ e \in Entry /\ new_table_phys \in Part
        /\ ram' = [blanked EXCEPT ![d][e] = new_table_phys]
    BY <2>1, <2>2, <2>3
  <2> HIDE DEF blanked, Part, e
  <2>6. ram' \in [Frame -> [Entry -> Part]] /\ ram'[d][e] = new_table_phys
    BY <1>2, <2>5
  <2> QED
    BY <1>1, <2>4, <2>6 DEF Part, e
<1>6. TypeOK'
  <2>1. ram' \in [Frame -> [Entry -> Frame \union {NULL}]]
    BY <1>5
  <2> QED
    BY <1>1, <1>4, <2>1 DEF TypeOK
<1>7. FlowInv' /\ TableInv' /\ FrameInv'
  BY <1>1, <1>5 DEF FlowInv, TableInv, FrameInv
<1>8. TLBInv'
  BY <1>1, <1>2, <1>4, <1>5 DEF TLBInv
<1>9. CountInv' /\ GivenInv' /\ HeapInv' /\ KernelInv'
  <2>1. \A s \in Slot : Untouched(s)' <=> Untouched(s)
    BY <1>1 DEF Untouched
  <2> QED
    BY <1>1, <1>4, <2>1, Frames, HomesKept
<1> QED
  BY <1>6, <1>7, <1>8, <1>9

LEMMA BenchTableKeeps ==
  ASSUME IInv, BenchTable
  PROVE  IInv'
<1> USE DEF IInv
<1> DEFINE d == Reach(TempPage)
           table == ram[d][DirOf(i)]
<1>1. /\ pc = "bench" /\ pc' = "write"
      /\ map_page(BenchPage, table)
      /\ tlb' = [tlb EXCEPT ![TempPage] = d]
      /\ UNCHANGED <<ram, free, heap_end, given, directory, i, frame, new_table_phys, asked>>
      /\ directory # NULL /\ directory # 0 /\ new_table_phys # NULL
  BY DEF BenchTable, heapVars, processVars, FlowInv
<1>2. d \in Frame /\ d = first_page_table[TempSlot]
  BY <1>1, Reached, ReachedTemp, Addresses
<1> HIDE DEF d
<1>3. table \in NoHeapFrame /\ table \in Frame
  <2>1. table # NULL
    BY <1>1, <1>2 DEF TLBInv
  <2>2. DirOf(i) \in Entry
    BY Frames DEF TypeOK
  <2> QED
    BY <1>2, <2>1, <2>2, NoHeapFrames DEF FrameInv
<1> HIDE DEF table
<1>4. ~ Untouched(TempSlot)' /\ ~ Untouched(BenchSlot)'
  BY <1>1 DEF Untouched
<1>5. /\ tlb' \in [Page -> Frame \union {NULL}]
      /\ \A k \in HeapIndex : Untouched(k % SLOTS)' => tlb'[HeapPage(k)] = tlb[HeapPage(k)]
      /\ \A s \in Slot : tlb'[KernelPage(s)] = tlb[KernelPage(s)]
      /\ tlb'[TempPage] \in {tlb[TempPage], d}
  BY <1>1, <1>2, <1>4, TemporaryAccess
<1>6. /\ first_page_table' \in [Slot -> Frame]
      /\ first_page_table' \in [Slot -> Frame \union {NULL}]
      /\ page_directory' = page_directory \union {pd_index(BenchPage)}
      /\ first_page_table'[BenchSlot] = table
      /\ \A s \in Slot : s # BenchSlot => first_page_table'[s] = first_page_table[s]
  BY <1>1, <1>3, Mapping, Addresses
<1>7. TypeOK'
  <2>1. pd_index(BenchPage) \in {"low", "high", "heap"} \X Nat
    BY Addresses
  <2> QED
    BY <1>1, <1>5, <1>6, <2>1 DEF TypeOK
<1>8. FlowInv' /\ TableInv'
  BY <1>1, <1>6 DEF FlowInv, TableInv
<1>9. FrameInv'
  BY <1>1 DEF FrameInv, NoHeapFrame, HeapIndex
<1>10. TLBInv'
  <2>1. first_page_table'[TempSlot] = d
    BY <1>2, <1>6, Addresses
  <2>2. tlb'[TempPage] \in {d, NULL}
    BY <1>1, <1>2, <1>5 DEF TLBInv
  <2> QED
    BY <1>1, <2>1, <2>2 DEF TLBInv
<1>11. CountInv' /\ GivenInv' /\ HeapInv' /\ KernelInv'
  <2>1. \A s \in Slot : Untouched(s)' <=> Untouched(s)
    BY <1>1 DEF Untouched
  <2>2. \A s \in Slot :
          \/ first_page_table'[s] = first_page_table[s] /\ (Untouched(s)' <=> Untouched(s))
          \/ first_page_table'[s] \in NoHeapFrame /\ ~ Untouched(s)'
    BY <1>3, <1>4, <1>6, <2>1
  <2>3. page_directory \subseteq page_directory'
    BY <1>6
  <2> QED
    BY <1>1, <1>5, <2>2, <2>3, Frames, HomesKept
<1> QED
  BY <1>7, <1>8, <1>9, <1>10, <1>11

LEMMA WriteEntryKeeps ==
  ASSUME IInv, WriteEntry
  PROVE  IInv'
<1> USE DEF IInv
<1> DEFINE t == Reach(BenchPage)
<1>1. /\ pc = "write"
      /\ ram' = [ram EXCEPT ![t][SlotOf(i)] = frame]
      /\ tlb' = [tlb EXCEPT ![BenchPage] = t]
      /\ asked' = asked \union {<<i, frame>>}
      /\ \/ i < MODULE_PAGES /\ i' = i + 1 /\ pc' = "page"
         \/ i' = i /\ pc' = "done"
      /\ UNCHANGED <<page_directory, first_page_table, free, heap_end, given>>
      /\ UNCHANGED <<directory, frame, new_table_phys>>
      /\ directory # NULL /\ directory # 0 /\ new_table_phys # NULL /\ frame # NULL
  BY DEF WriteEntry, kernelVars, heapVars, FlowInv
<1>2. /\ t \in Frame /\ SlotOf(i) \in Entry /\ i \in UserPage
      /\ frame \in Frame /\ frame \in NoHeapFrame
  BY <1>1, Reached, Addresses, Frames DEF TypeOK, FrameInv
<1> HIDE DEF t
<1>3. ~ Untouched(TempSlot)' /\ ~ Untouched(BenchSlot)'
  BY <1>1 DEF Untouched
<1>4. /\ tlb' \in [Page -> Frame \union {NULL}]
      /\ \A k \in HeapIndex : Untouched(k % SLOTS)' => tlb'[HeapPage(k)] = tlb[HeapPage(k)]
      /\ \A s \in Slot : tlb'[KernelPage(s)] = tlb[KernelPage(s)]
      /\ tlb'[TempPage] = tlb[TempPage]
  BY <1>1, <1>2, <1>3, TemporaryAccess, Addresses DEF TypeOK
<1>5. /\ NoHeapFrame' = NoHeapFrame /\ NoHeapFrame \subseteq Frame
      /\ ram' \in [Frame -> [Entry -> NoHeapFrame \union {NULL}]]
  BY <1>1, <1>2, NoHeapFrames DEF NoHeapFrame, HeapIndex, FrameInv
<1>6. TypeOK'
  <2>1. ram' \in [Frame -> [Entry -> Frame \union {NULL}]]
    BY <1>5
  <2>2. i' \in UserPage /\ asked' \subseteq UserPage \X Frame
    BY <1>1, <1>2, PagingAssumption DEF TypeOK, UserPage
  <2> QED
    BY <1>1, <1>4, <2>1, <2>2 DEF TypeOK
<1>7. FlowInv' /\ TableInv' /\ FrameInv'
  BY <1>1, <1>5 DEF FlowInv, TableInv, FrameInv
<1>8. TLBInv'
  BY <1>1, <1>4 DEF TLBInv
<1>9. CountInv' /\ GivenInv' /\ HeapInv' /\ KernelInv'
  <2>1. \A s \in Slot : Untouched(s)' <=> Untouched(s)
    BY <1>1 DEF Untouched
  <2> QED
    BY <1>1, <1>4, <2>1, Frames, HomesKept
<1> QED
  BY <1>6, <1>7, <1>8, <1>9

LEMMA NextKeeps == IInv /\ [Next]_vars => IInv'
<1> SUFFICES ASSUME IInv, [Next]_vars PROVE IInv'
  OBVIOUS
<1>1. CASE init_paging
  BY <1>1, InitPagingKeeps
<1>2. CASE GrowHeap
  BY <1>2, GrowHeapKeeps
<1>3. ASSUME NEW p \in Page, Touch(p) \/ Evict(p) PROVE IInv'
  BY <1>3, TouchKeeps, EvictKeeps
<1>4. CASE create_process
  <2>1. CASE map_user_page
    BY <2>1, FindTableKeeps, ZeroTableKeeps, BenchTableKeeps, WriteEntryKeeps DEF map_user_page
  <2> QED
    BY <1>4, <2>1, CreateDirectoryKeeps, ClearDirectoryKeeps, LoadCR3Keeps, AllocatePageKeeps
    DEF create_process
<1>5. CASE UNCHANGED vars
  <2>1. /\ UNCHANGED <<page_directory, first_page_table, tlb, ram, free, heap_end, given>>
        /\ UNCHANGED <<pc, directory, i, frame, new_table_phys, asked>>
    BY <1>5 DEF vars, kernelVars, heapVars, processVars
  <2>2. TypeOK' /\ CountInv' /\ FlowInv' /\ TableInv' /\ TLBInv'
    BY <2>1 DEF IInv, TypeOK, CountInv, FlowInv, TableInv, TLBInv
  <2>3. FrameInv' /\ GivenInv'
    BY <2>1 DEF IInv, FrameInv, GivenInv, NoHeapFrame, HeapIndex
  <2>4. HeapInv' /\ KernelInv'
    BY <2>1 DEF IInv, HeapInv, KernelInv, HeapIndex, HeapHome, KernelHome, Untouched
  <2> QED
    BY <2>2, <2>3, <2>4 DEF IInv
<1> QED
  BY <1>1, <1>2, <1>3, <1>4, <1>5 DEF Next

THEOREM Invariance == Spec => []IInv
<1> QED
  BY InitIInv, NextKeeps, PTL DEF Spec

(* Types, for every machine and every layout of the kernel; with the count *)
(* of the frames they say that the heap runs out of frames before it runs  *)
(* out of addresses, which morecore does not look at.                      *)
THEOREM TypeCorrect == Spec => []TypeOK
<1>1. IInv => TypeOK
  BY DEF IInv
<1> QED
  BY <1>1, Invariance, PTL

(* A page of the kernel or of the screen stays where init_paging put it,   *)
(* while the heap grows and a process is created, until the heap's page of *)
(* the same number, the directory or the workbench comes to its slot; and  *)
(* from then on it is gone for good, also when the heap goes round.        *)
THEOREM KernelStays == Spec => []KernelMapped
<1>1. IInv => KernelMapped
  <2> SUFFICES ASSUME IInv, pc # "boot", NEW s \in KernelSlot
               PROVE  IF heap_end <= s /\ Untouched(s) THEN Mapped(KernelPage(s), s)
                                                       ELSE first_page_table[s] # s
    BY DEF KernelMapped
  <2>1. pd_index(KernelPage(s)) = <<"high", 0>> /\ pt_index(KernelPage(s)) = s
    BY Addresses, Frames
  <2>2. <<"high", 0>> \in page_directory
    BY DEF IInv, FlowInv
  <2>3. IF heap_end <= s /\ Untouched(s)
        THEN first_page_table[s] = s /\ tlb[KernelPage(s)] \in {s, NULL}
        ELSE first_page_table[s] # s
    BY DEF IInv, KernelInv, KernelHome
  <2> QED
    BY <2>1, <2>2, <2>3 DEF Mapped
<1> QED
  BY <1>1, Invariance, PTL

(* The heap's pages keep their frames, each its own, while the temporary   *)
(* addresses are mapped again and again without any invalidation, until    *)
(* one of these or the heap's own growth has taken their slot.             *)
THEOREM HeapStays == Spec => []HeapMapped
<1>1. IInv => HeapMapped
  <2> SUFFICES ASSUME IInv, NEW k \in HeapIndex
               PROVE  IF heap_end <= k + SLOTS /\ Untouched(k % SLOTS)
                      THEN Mapped(HeapPage(k), given[k])
                      ELSE first_page_table[k % SLOTS] # given[k]
    BY DEF IInv, GivenInv, HeapIndex, HeapMapped
  <2>1. pt_index(HeapPage(k)) = k % SLOTS
    BY HeapNumbers, Addresses
  <2>2. pd_index(HeapPage(k)) \in page_directory
    BY DEF IInv, GivenInv
  <2>3. IF heap_end <= k + SLOTS /\ Untouched(k % SLOTS)
        THEN first_page_table[k % SLOTS] = given[k] /\ tlb[HeapPage(k)] \in {given[k], NULL}
        ELSE first_page_table[k % SLOTS] # given[k]
    BY DEF IInv, HeapInv, HeapHome
  <2> QED
    BY <2>1, <2>2, <2>3 DEF Mapped
<1> QED
  BY <1>1, Invariance, PTL
=============================================================================
