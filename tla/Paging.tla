------------------------------- MODULE Paging -------------------------------
(***************************************************************************)
(* Virtual memory, paging.c, and its two users: morecore of alloc.c, which *)
(* maps the pages of the heap, and create_process of process.c, which      *)
(* builds the address space of a user program.                             *)
(*                                                                         *)
(* map_page has a single page table, which it enters in the page directory *)
(* wherever it is asked to map: pages with the same index in different     *)
(* directory entries are the same entry of that table.  Nothing ever       *)
(* invalidates the TLB but the loads of CR3; an entry of the TLB may go    *)
(* away at any time, and comes when its page is accessed.                  *)
(*                                                                         *)
(* A page is counted from the start of its part of the address space; a    *)
(* frame that is used as a directory or a table is a function from its     *)
(* entries.  What the heap's callers write in its pages is left out.       *)
(***************************************************************************)
EXTENDS Naturals, FiniteSets

CONSTANTS
  SLOTS,         (* Entries of the page table: 1024.                       *)
  FRAMES,        (* Page frames of the machine.                            *)
  Allocatable,   (* The frames allocate_frame may hand out.                *)
  KernelSlot,    (* The frames of the kernel's image and of the screen,    *)
                 (* which are also their slots: they lie below 4 MB.       *)
  HEAP_MAX,      (* Pages from 0xC0400000 on to the end of the addresses.  *)
  TempSlot,      (* The slot of 0xC0500000: 256.                           *)
  BenchSlot,     (* The slot of 0xC0600000, the workbench: 512.            *)
  MODULE_PAGES,  (* Pages of the user program.                             *)
  NULL

Slot  == 0 .. SLOTS - 1
Frame == 0 .. FRAMES - 1
Heap  == 0 .. HEAP_MAX - 1

(* The heap and the temporary addresses go from 0xC0400000 on.  All frames *)
(* together (128 MB, memory.c:43) are fewer than the pages from there on.  *)
ASSUME PagingAssumption ==
  /\ SLOTS \in Nat \ {0}
  /\ FRAMES \in Nat
  /\ SLOTS <= FRAMES
  /\ KernelSlot \in SUBSET (Slot \ {0})
  /\ Allocatable \in SUBSET (Frame \ (KernelSlot \union {0}))
  /\ HEAP_MAX \in Nat
  /\ SLOTS <= HEAP_MAX
  /\ Cardinality(Allocatable) <= HEAP_MAX
  /\ TempSlot \in Slot
  /\ BenchSlot \in Slot \ {TempSlot}
  /\ MODULE_PAGES \in Nat \ {0}
  /\ NULL \notin Nat

HeapPage(k)   == [part |-> "heap", number |-> k]
KernelPage(s) == [part |-> "high", number |-> s]
TempPage      == HeapPage(TempSlot)
BenchPage     == HeapPage(BenchSlot)
Page          == {HeapPage(k) : k \in Heap} \union {KernelPage(s) : s \in Slot}

(* pd_index and pt_index of map_page.                                      *)
pd_index(p) == <<p.part, p.number \div SLOTS>>
pt_index(p) == p.number % SLOTS

(* The user program's pages are numbered; the last one is its stack, which *)
(* has a directory entry and a table of its own (0xBFFFF000).              *)
UserPage  == 0 .. MODULE_PAGES
DirOf(i)  == IF i < MODULE_PAGES THEN 0 ELSE 1
SlotOf(i) == IF i < MODULE_PAGES THEN i ELSE 0
Entry     == UserPage
Blank     == [e \in Entry |-> NULL]

VARIABLES
  page_directory,    (* The entries present, all of them the one table's.  *)
  first_page_table,
  tlb,               (* The frame cached for a page, or NULL.              *)
  ram,               (* The frames as directories and tables.              *)
  free,              (* The frames allocate_frame can hand out.            *)
  heap_end,          (* Pages of the heap.                                 *)
  given,             (* The frame morecore has got for each of them.       *)
  pc,                (* Where the one flow of control stands.              *)
  directory,         (* new_process->page_directory, or NULL.              *)
  i,                 (* The user page create_process is at.                *)
  frame,             (* The frame allocated for it.                        *)
  new_table_phys,
  asked              (* The user pages mapped, with their frames.          *)

kernelVars  == <<page_directory, first_page_table>>
heapVars    == <<heap_end, given>>
processVars == <<directory, i, frame, new_table_phys, asked>>
vars        == <<kernelVars, tlb, ram, free, heapVars, pc, processVars>>

Flushed == [p \in Page |-> NULL]

(* Other callers may have any of the frames.  The RAM is blank at first,   *)
(* as QEMU's is.                                                           *)
Init ==
  /\ page_directory = {}
  /\ first_page_table = [s \in Slot |-> NULL]
  /\ tlb = Flushed
  /\ ram = [f \in Frame |-> Blank]
  /\ free \in SUBSET Allocatable
  /\ heap_end = 0
  /\ given = [k \in Heap |-> NULL]
  /\ pc = "boot"
  /\ directory = NULL
  /\ i = 0
  /\ frame = NULL
  /\ new_table_phys = NULL
  /\ asked = {}

-----------------------------------------------------------------------------
(* The frame an access to a page of the kernel's half reaches.             *)
Reach(p) == IF tlb[p] # NULL THEN tlb[p] ELSE first_page_table[pt_index(p)]

map_page(p, f) ==
  /\ page_directory' = page_directory \union {pd_index(p)}
  /\ first_page_table' = [first_page_table EXCEPT ![pt_index(p)] = f]

(* allocate_frame: the lowest free frame.                                  *)
allocate_frame(f) ==
  /\ f \in free
  /\ \A g \in free : f <= g
  /\ free' = free \ {f}

(* The identity map fills the table; the screen and the kernel are mapped  *)
(* where they are already.  Loading CR3 flushes the TLB.                   *)
init_paging ==
  /\ pc = "boot"
  /\ page_directory' = {<<"low", 0>>, <<"high", 0>>}
  /\ first_page_table' = [s \in Slot |-> s]
  /\ tlb' = Flushed
  /\ pc' = "kernel"
  /\ UNCHANGED <<ram, free, heapVars, processVars>>

(* Mutant: heap_end moves before the page is mapped.                       *)
GrowThenMap ==
  /\ pc = "kernel"
  /\ heap_end' = heap_end + 1
  /\ \E f \in free :
       /\ allocate_frame(f)
       /\ map_page(HeapPage(heap_end'), f)
       /\ given' = [given EXCEPT ![heap_end] = f]
  /\ UNCHANGED <<tlb, ram, pc, processVars>>

(* One page of morecore, which looks at nothing but the frame: the heap    *)
(* grows into the slots of the screen (184), the kernel (from 256 on) and  *)
(* the temporary addresses, and from page 1024 on into its own.            *)
GrowHeap ==
  /\ pc = "kernel"
  /\ \E f \in free :
       /\ allocate_frame(f)
       /\ map_page(HeapPage(heap_end), f)
       /\ given' = [given EXCEPT ![heap_end] = f]
  /\ heap_end' = heap_end + 1
  /\ UNCHANGED <<tlb, ram, pc, processVars>>

(* The pages the kernel uses all the time.                                 *)
InUse == {KernelPage(s) : s \in KernelSlot} \union {HeapPage(k) : k \in 0 .. heap_end - 1}

Touch(p) ==
  /\ pc # "boot"
  /\ p \in InUse
  /\ tlb' = [tlb EXCEPT ![p] = Reach(p)]
  /\ UNCHANGED <<kernelVars, ram, free, heapVars, pc, processVars>>

Evict(p) ==
  /\ tlb[p] # NULL
  /\ tlb' = [tlb EXCEPT ![p] = NULL]
  /\ UNCHANGED <<kernelVars, ram, free, heapVars, pc, processVars>>

-----------------------------------------------------------------------------
(* create_process.  process_t has been allocated, so there is a heap.  The *)
(* model goes on whatever has become of the kernel's own pages.            *)

(* create_user_page_directory: a frame, mapped at the temporary address.   *)
(* Without one it returns 0, which create_process does not test.           *)
create_user_page_directory ==
  /\ pc = "kernel"
  /\ heap_end > 0
  /\ \/ \E f \in free :
          /\ allocate_frame(f)
          /\ directory' = f
          /\ map_page(TempPage, f)
          /\ pc' = "clear"
     \/ /\ free = {}
        /\ directory' = 0
        /\ pc' = "unfilled"
        /\ UNCHANGED <<kernelVars, free>>
  /\ UNCHANGED <<tlb, ram, heapVars, i, frame, new_table_phys, asked>>

(* It is blanked and gets the kernel's entries, which never change again;  *)
(* or the frame that the TLB still knows at that address does.             *)
ClearDirectory ==
  LET f == Reach(TempPage) IN
  /\ pc = "clear"
  /\ ram' = [ram EXCEPT ![f] = Blank]
  /\ tlb' = [tlb EXCEPT ![TempPage] = f]
  /\ pc' = IF f = directory THEN "load" ELSE "unfilled"
  /\ UNCHANGED <<kernelVars, free, heapVars, processVars>>

(* Loading a directory without the kernel's entries is the end; so is      *)
(* frame 0, which is none.                                                 *)
LoadCR3 ==
  /\ \/ pc = "load" /\ pc' = "page"
     \/ pc = "unfilled" /\ pc' = "crashed"
  /\ tlb' = Flushed
  /\ UNCHANGED <<kernelVars, ram, free, heapVars, processVars>>

(* A frame for the next user page.  Without one, create_process returns    *)
(* NULL, but for the stack it goes on with frame 0.                        *)
AllocatePage ==
  /\ pc = "page"
  /\ \/ \E f \in free : allocate_frame(f) /\ frame' = f /\ pc' = "directory"
     \/ /\ free = {}
        /\ i < MODULE_PAGES
        /\ pc' = "done"
        /\ UNCHANGED <<frame, free>>
     \/ /\ free = {}
        /\ i = MODULE_PAGES
        /\ frame' = 0
        /\ pc' = "directory"
        /\ UNCHANGED free
  /\ UNCHANGED <<kernelVars, tlb, ram, heapVars, directory, i, new_table_phys, asked>>

(* map_user_page, whose target directory is at the temporary address: does *)
(* the directory have a table for the page?  If not, a frame (or 0) goes   *)
(* on the workbench.                                                       *)
FindTable ==
  LET d == Reach(TempPage) IN
  /\ pc = "directory"
  /\ tlb' = [tlb EXCEPT ![TempPage] = d]
  /\ \/ /\ ram[d][DirOf(i)] # NULL
        /\ pc' = "bench"
        /\ UNCHANGED <<kernelVars, free, new_table_phys>>
     \/ /\ ram[d][DirOf(i)] = NULL
        /\ \/ \E f \in free : allocate_frame(f) /\ new_table_phys' = f
           \/ free = {} /\ new_table_phys' = 0 /\ UNCHANGED free
        /\ map_page(BenchPage, new_table_phys')
        /\ pc' = "zero"
  /\ UNCHANGED <<ram, heapVars, directory, i, frame, asked>>

(* Zero out the new table, link it into the directory.                     *)
ZeroTable ==
  LET t == Reach(BenchPage)
      d == Reach(TempPage)
  IN /\ pc = "zero"
     /\ ram' = [[ram EXCEPT ![t] = Blank] EXCEPT ![d][DirOf(i)] = new_table_phys]
     /\ tlb' = [tlb EXCEPT ![BenchPage] = t, ![TempPage] = d]
     /\ pc' = "bench"
     /\ UNCHANGED <<kernelVars, free, heapVars, processVars>>

(* The table goes on the workbench (again).                                *)
BenchTable ==
  LET d == Reach(TempPage) IN
  /\ pc = "bench"
  /\ map_page(BenchPage, ram[d][DirOf(i)])
  /\ tlb' = [tlb EXCEPT ![TempPage] = d]
  /\ pc' = "write"
  /\ UNCHANGED <<ram, free, heapVars, processVars>>

(* Mutant: the loop does not end with the stack.                           *)
WriteEntryAndGoOn ==
  LET t == Reach(BenchPage) IN
  /\ pc = "write"
  /\ ram' = [ram EXCEPT ![t][SlotOf(i)] = frame]
  /\ tlb' = [tlb EXCEPT ![BenchPage] = t]
  /\ asked' = asked \union {<<i, frame>>}
  /\ i' = i + 1
  /\ pc' = "page"
  /\ UNCHANGED <<kernelVars, free, heapVars, directory, frame, new_table_phys>>

WriteEntry ==
  LET t == Reach(BenchPage) IN
  /\ pc = "write"
  /\ ram' = [ram EXCEPT ![t][SlotOf(i)] = frame]
  /\ tlb' = [tlb EXCEPT ![BenchPage] = t]
  /\ asked' = asked \union {<<i, frame>>}
  /\ IF i < MODULE_PAGES
     THEN i' = i + 1 /\ pc' = "page"
     ELSE pc' = "done" /\ UNCHANGED i
  /\ UNCHANGED <<kernelVars, free, heapVars, directory, frame, new_table_phys>>

map_user_page == FindTable \/ ZeroTable \/ BenchTable \/ WriteEntry

create_process ==
  create_user_page_directory \/ ClearDirectory \/ LoadCR3 \/ AllocatePage \/ map_user_page

Next ==
  \/ init_paging
  \/ GrowHeap
  \/ \E p \in Page : Touch(p) \/ Evict(p)
  \/ create_process

Spec == Init /\ [][Next]_vars

-----------------------------------------------------------------------------
TypeOK ==
  /\ page_directory \subseteq {"low", "high", "heap"} \X Nat
  /\ first_page_table \in [Slot -> Frame \union {NULL}]
  /\ tlb \in [Page -> Frame \union {NULL}]
  /\ ram \in [Frame -> [Entry -> Frame \union {NULL}]]
  /\ free \in SUBSET Allocatable
  /\ heap_end \in 0 .. HEAP_MAX
  /\ given \in [Heap -> Frame \union {NULL}]
  /\ pc \in {"boot", "kernel", "clear", "load", "unfilled", "page", "directory", "zero",
             "bench", "write", "done", "crashed"}
  /\ directory \in Frame \union {NULL}
  /\ i \in UserPage
  /\ frame \in Frame \union {NULL}
  /\ new_table_phys \in Frame \union {NULL}
  /\ asked \in SUBSET (UserPage \X Frame)

(* A page is mapped to a frame when every access reaches it, through the   *)
(* TLB or not.                                                             *)
Mapped(p, f) ==
  /\ pd_index(p) \in page_directory
  /\ first_page_table[pt_index(p)] = f
  /\ tlb[p] \in {f, NULL}

(* The temporary addresses have not been mapped at this slot.              *)
Untouched(s) == /\ s = TempSlot  => directory \in {NULL, 0}
                /\ s = BenchSlot => new_table_phys = NULL

(* paging.c:24: a page of the kernel or the screen stays where it is until *)
(* the heap's page with its number, the directory or the workbench comes   *)
(* to its slot, and then it is gone, whatever the TLB still knows.         *)
KernelMapped ==
  pc # "boot" => \A s \in KernelSlot :
    IF heap_end <= s /\ Untouched(s) THEN Mapped(KernelPage(s), s)
                                     ELSE first_page_table[s] # s

(* paging.c:24, alloc.c:42: a page of the heap keeps the frame it was      *)
(* given until the heap has gone once round the table or a temporary       *)
(* address has its slot, also while a process is created; and no other     *)
(* page of the heap has that frame.                                        *)
HeapMapped ==
  \A k \in 0 .. heap_end - 1 :
    /\ IF heap_end <= k + SLOTS /\ Untouched(k % SLOTS)
       THEN Mapped(HeapPage(k), given[k])
       ELSE first_page_table[k % SLOTS] # given[k]
    /\ \A l \in 0 .. heap_end - 1 : given[k] = given[l] => k = l

(* paging.c:80-86: the screen and the kernel are mapped for good, however  *)
(* the heap grows.                                                         *)
MappedForGood ==
  pc # "boot" /\ directory = NULL => \A s \in KernelSlot : Mapped(KernelPage(s), s)

(* paging.c:129-131: the directory is mapped "to a safe virtual address",  *)
(* that is, creating it moves no page of the kernel.                       *)
SafeAddress ==
  [][create_user_page_directory =>
       \A s \in KernelSlot : first_page_table'[s] = first_page_table[s]]_vars

(* paging.c:61: "Write the actual physical memory frame into the table":   *)
(* what create_process has mapped, as long as there are frames for its     *)
(* tables, is found by a walk of its directory.                            *)
UserMapped ==
  new_table_phys # 0 => \A m \in asked :
    LET table == ram[directory][DirOf(m[1])] IN
    table # NULL /\ ram[table][SlotOf(m[1])] = m[2]
=============================================================================
