----------------------------- MODULE BootMemory -----------------------------
(***************************************************************************)
(* Who gets which memory at boot: kmain on top of the frame allocator, the *)
(* pages the loader puts behind the kernel (the RAM disk's image, and      *)
(* before it the list of modules), and the pages morecore maps for the     *)
(* RAM disk's nodes and for the threads.  Nothing reserves the loader's    *)
(* pages, and nobody tests what malloc returns.  The heap is a range of    *)
(* pages here: whether a free block serves a request is Heap's matter.     *)
(***************************************************************************)
EXTENDS FrameAllocator, Sequences

CONSTANTS
  HEADER,       (* Bytes of a block's header: 8.                           *)
  NODE, THREAD, (* Bytes of an fs_node_t and of a thread_t.                *)
  MaxFiles,     (* A bound on the files of the RAM disk.                   *)
  NThreads,     (* The threads kmain creates: two.                         *)
  LoadedPages,  (* A bound on the pages behind the kernel.                 *)
  Screen        (* The frame of the screen: 0xB8, below the kernel.        *)

VARIABLES
  place,      (* Where kmain is.                                           *)
  loaded,     (* How many pages the loader has filled.                     *)
  files,      (* The files of the image; 0 when there is no module.        *)
  need,       (* The pages the current morecore has still to map.          *)
  heap,       (* The frames of the heap's pages.                           *)
  linked,     (* The threads create_thread has linked.                     *)
  written     (* The frames kmain has written into.                        *)

kmain_vars == <<vars, place, loaded, files, need, heap, linked, written>>

(* The first whole page behind the kernel, and the loader's pages.         *)
KernelEnd == (kernel_physical_end + PAGE - 1) \div PAGE
Loaded(n) == {KernelEnd + i : i \in 0 .. n - 1}

KernelFrames == kernel_physical_start \div PAGE .. KernelEnd - 1

(* malloc's and morecore's rounding.                                       *)
Units(nbytes) == (nbytes + HEADER - 1) \div HEADER + 1
Pages(nbytes) == (Units(nbytes) * HEADER + PAGE - 1) \div PAGE

(* The four requests; sizeof(fs_node_t) * initrd_num_files for the nodes.  *)
Request == {"root", "nodes", "thread", "stack"}

Bytes(request) == CASE request = "root"   -> NODE
                    [] request = "nodes"  -> NODE * files
                    [] request = "thread" -> THREAD
                    [] request = "stack"  -> PAGE

(* link.ld puts the kernel behind the first megabyte.                      *)
ASSUME BootMemoryAssumption ==
  /\ LowFrames * PAGE = kernel_physical_start
  /\ HEADER \in Nat \ {0} /\ NODE \in Nat /\ THREAD \in Nat
  /\ MaxFiles \in Nat /\ NThreads \in Nat \ {0} /\ LoadedPages \in Nat
  /\ Screen \in 1 .. LowFrames - 1

-----------------------------------------------------------------------------
BootInit ==
  /\ Init
  /\ place = "memory"
  /\ loaded \in 0 .. LoadedPages
  /\ files \in 0 .. MaxFiles
  /\ loaded = 0 <=> files = 0
  /\ need = 0
  /\ heap = <<>>
  /\ linked = 0
  /\ written = {}

CallInitMemory ==
  /\ place = "memory"
  /\ init_memory
  /\ place' = "frame1"
  /\ UNCHANGED <<loaded, files, need, heap, linked, written>>

(* Mutant: kmain asks for one frame only.                                  *)
SpareOnlyOne ==
  /\ place \in {"frame1", "frame2"}
  /\ IF place = "frame1" THEN allocate_frame ELSE UNCHANGED vars
  /\ place' = IF place = "frame1" THEN "frame2" ELSE "lock"
  /\ UNCHANGED <<loaded, files, need, heap, linked, written>>

(* frame1 and frame2, which nothing uses.                                  *)
Spare ==
  /\ place \in {"frame1", "frame2"}
  /\ allocate_frame
  /\ place' = IF place = "frame1" THEN "frame2" ELSE "lock"
  /\ UNCHANGED <<loaded, files, need, heap, linked, written>>

Unlock ==
  /\ place = "lock"
  /\ place' = IF files > 0 THEN "root" ELSE "thread"
  /\ UNCHANGED <<vars, loaded, files, need, heap, linked, written>>

(* Mutant: one thread more.                                                *)
OneMoreThread ==
  /\ place' = CASE place = "root"   -> "nodes"
                [] place = "nodes"  -> "thread"
                [] place = "thread" -> "stack"
                [] place = "stack"  -> IF linked < NThreads THEN "thread" ELSE "idle"
  /\ linked' = IF place = "stack" THEN linked + 1 ELSE linked

(* What kmain does when malloc has returned.                               *)
Continue ==
  /\ place' = CASE place = "root"   -> "nodes"
                [] place = "nodes"  -> "thread"
                [] place = "thread" -> "stack"
                [] place = "stack"  -> IF linked + 1 < NThreads THEN "thread" ELSE "idle"
  /\ linked' = IF place = "stack" THEN linked + 1 ELSE linked

(* The frame behind a page of the first 4 MB: the heap's page table is the *)
(* one of all directory entries, so a page of the heap is also a low page. *)
FrameBehind(page) == IF page < Len(heap) THEN heap[page + 1] ELSE page

(* A block is found in the pages of the heap, and the caller fills it.     *)
Serve ==
  /\ place \in Request /\ need = 0
  /\ heap # <<>>
  /\ written' = written \union {heap[i] : i \in DOMAIN heap}
  /\ Continue
  /\ UNCHANGED <<vars, loaded, files, need, heap>>

(* morecore: no free block is big enough.                                  *)
Grow ==
  /\ place \in Request /\ need = 0
  /\ need' = Pages(Bytes(place))
  /\ UNCHANGED <<vars, place, loaded, files, heap, linked, written>>

(* One page of morecore.                                                   *)
MapPage ==
  /\ need > 0
  /\ allocate_frame
  /\ result' # 0
  /\ heap' = Append(heap, result' \div PAGE)
  /\ need' = need - 1
  /\ IF need = 1
     THEN /\ written' = written \union {heap'[i] : i \in DOMAIN heap'}
          /\ Continue
     ELSE UNCHANGED <<written, place, linked>>
  /\ UNCHANGED <<loaded, files>>

(* malloc returns NULL, and the caller fills the block at address 0: for a *)
(* stack, the words below the end of page 0.                               *)
OutOfFrames ==
  /\ need > 0
  /\ allocate_frame
  /\ result' = 0
  /\ need' = 0
  /\ written' = written \union {FrameBehind(page) : page \in 0 .. (Bytes(place) - 1) \div PAGE}
  /\ Continue
  /\ UNCHANGED <<loaded, files, heap>>

Done == place = "idle" /\ UNCHANGED kmain_vars

BootNext == CallInitMemory \/ Spare \/ Unlock \/ Serve \/ Grow \/ MapPage \/ OutOfFrames \/ Done

BootSpec == BootInit /\ [][BootNext]_kmain_vars

-----------------------------------------------------------------------------
BootTypeOK ==
  /\ TypeOK
  /\ place \in {"memory", "frame1", "frame2", "lock", "idle"} \union Request
  /\ loaded \in 0 .. LoadedPages /\ files \in 0 .. MaxFiles
  /\ need \in Nat
  /\ heap \in Seq(Frame)
  /\ linked \in 0 .. NThreads
  /\ written \subseteq Frame

(* README.md:46: the kernel reads the files of an image that the loader    *)
(* has left in memory.  init_memory does not know of it (memory.c:35-62),  *)
(* and still no page of it is ever written: the page that the kernel's end *)
(* is rounded up to, and the frames that kmain takes and never uses, are   *)
(* the first three behind the kernel.                                      *)
ImageKept == written \intersect Loaded(loaded) = {}

(* memory.c:48, 55: when the memory runs out, NULL is filled (initrd.c:35, *)
(* thread.c:30), but neither these writes from page 0 on nor those into    *)
(* the heap come to the kernel, or to the screen below it.                 *)
KernelKept == written \intersect (KernelFrames \union {Screen}) = {}
=============================================================================
