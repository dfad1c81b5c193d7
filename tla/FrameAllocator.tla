--------------------------- MODULE FrameAllocator ---------------------------
(***************************************************************************)
(* The physical memory manager, memory.c: one bit per 4 KB page frame, set *)
(* when the frame is used.  A byte of the bitmap is the set of its bits    *)
(* that are 1; frame i is bit i % 8 of byte i / 8.                         *)
(*                                                                         *)
(* kmain calls init_memory once, before the first allocate_frame.  The     *)
(* callers (kmain, morecore, map_user_page, create_user_page_directory,    *)
(* create_process) all run on kmain's stack and no interrupt handler       *)
(* allocates, so every call is one action.  Nothing in the kernel calls    *)
(* free_frame yet: the model lets whoever holds a frame give it back.      *)
(***************************************************************************)
EXTENDS Naturals

CONSTANTS
  BITMAP_SIZE,    (* Bytes of the bitmap: 4096, for 128 MB of RAM.         *)
  PAGE,           (* Bytes of a frame: 4096.                               *)
  LowFrames,      (* The frames below 1 MB: 256.                           *)
  total_ram_bytes,
  kernel_physical_start,
  kernel_physical_end,
  None            (* No result: the last call did not ask for a frame.     *)

(* link.ld puts the kernel at 1 MB.  That all the RAM GRUB reports and the *)
(* kernel's end have a bit in the bitmap is not checked by the code.       *)
ASSUME FrameAssumption ==
  /\ BITMAP_SIZE \in Nat \ {0}
  /\ PAGE \in Nat \ {0}
  /\ LowFrames \in 1 .. 8 * BITMAP_SIZE
  /\ total_ram_bytes \in Nat
  /\ total_ram_bytes \div PAGE <= 8 * BITMAP_SIZE
  /\ kernel_physical_start \in Nat
  /\ kernel_physical_end \in Nat
  /\ kernel_physical_start < kernel_physical_end
  /\ (kernel_physical_end + PAGE - 1) \div PAGE < 8 * BITMAP_SIZE
  /\ None \notin Nat

Byte  == 0 .. BITMAP_SIZE - 1
Bit   == 0 .. 7
Frame == 0 .. 8 * BITMAP_SIZE - 1

VARIABLES
  bitmap,
  ready,     (* init_memory has run.                                       *)
  result,    (* What the last call returned: an address, 0, or None.       *)
  held       (* The frames allocate_frame has handed out and nobody has    *)
             (* given back (not in the code: it is what the callers know). *)

vars == <<bitmap, ready, result, held>>

-----------------------------------------------------------------------------
test_bit(index) == index % 8 \in bitmap[index \div 8]

set_bit(index) ==
  bitmap' = [bitmap EXCEPT ![index \div 8] = @ \union {index % 8}]

(* Mutant: |= for &= before the complement of the mask.                    *)
ComplementOred(index) ==
  bitmap' = [bitmap EXCEPT ![index \div 8] = @ \union (Bit \ {index % 8})]

clear_bit(index) ==
  bitmap' = [bitmap EXCEPT ![index \div 8] = @ \ {index % 8}]

(* The loops of init_memory: set_bit and clear_bit over a range of frames. *)
SetBits(map, frames) ==
  [b \in Byte |-> map[b] \union {i % 8 : i \in {f \in frames : f \div 8 = b}}]

ClearBits(map, frames) ==
  [b \in Byte |-> map[b] \ {i % 8 : i \in {f \in frames : f \div 8 = b}}]

RamFrames == 0 .. (total_ram_bytes \div PAGE) - 1

(* Mutant: the last frame is rounded down and left out.                    *)
VipFramesRoundedDown ==
  kernel_physical_start \div PAGE .. (kernel_physical_end \div PAGE) - 1

(* Mutant: the kernel is forgotten.                                        *)
VipForgotten == {}

(* The kernel's frames, as init_memory counts them: the last one included. *)
VipFrames == kernel_physical_start \div PAGE .. (kernel_physical_end + PAGE - 1) \div PAGE

FirstMegabyte == 0 .. LowFrames - 1

(* Pessimism first, then the RAM, then the kernel and the first megabyte.  *)
init_memory ==
  /\ ~ ready
  /\ bitmap' = SetBits(SetBits(ClearBits(SetBits(bitmap, Frame), RamFrames),
                               VipFrames), FirstMegabyte)
  /\ ready' = TRUE
  /\ UNCHANGED <<result, held>>

FirstFree(i) == ~ test_bit(i) /\ \A j \in 0 .. i - 1 : test_bit(j)

(* Mutant: the index is returned, not the address.                         *)
AllocateIndex ==
  /\ ready
  /\ \/ \E i \in Frame :
          /\ FirstFree(i)
          /\ set_bit(i)
          /\ result' = i
          /\ held' = held \union {i}
     \/ /\ \A i \in Frame : test_bit(i)
        /\ result' = 0
        /\ UNCHANGED <<bitmap, held>>
  /\ UNCHANGED ready

(* The scan finds the lowest clear bit, or returns 0.                      *)
allocate_frame ==
  /\ ready
  /\ \/ \E i \in Frame :
          /\ FirstFree(i)
          /\ set_bit(i)
          /\ result' = i * PAGE
          /\ held' = held \union {i}
     \/ /\ \A i \in Frame : test_bit(i)
        /\ result' = 0
        /\ UNCHANGED <<bitmap, held>>
  /\ UNCHANGED ready

(* free_frame checks nothing: that the caller holds the frame is the       *)
(* caller's duty.                                                          *)
free_frame(frame_address) ==
  LET frame_index == frame_address \div PAGE IN
  /\ ready
  /\ frame_index \in held
  /\ clear_bit(frame_index)
  /\ held' = held \ {frame_index}
  /\ result' = None
  /\ UNCHANGED ready

(* The bitmap is in .bss.                                                  *)
Init ==
  /\ bitmap = [b \in Byte |-> {}]
  /\ ready = FALSE
  /\ result = None
  /\ held = {}

Next ==
  \/ init_memory
  \/ allocate_frame
  \/ \E f \in Frame : free_frame(f * PAGE)

Spec == Init /\ [][Next]_vars

-----------------------------------------------------------------------------
TypeOK ==
  /\ bitmap \in [Byte -> SUBSET Bit]
  /\ ready \in BOOLEAN
  /\ result \in {i * PAGE : i \in Frame} \union {None}
  /\ held \in SUBSET Frame

(* memory.c:48-61: no frame that is handed out holds a byte of the kernel  *)
(* image, BIOS or screen memory, or lies outside the RAM.                  *)
Overlaps(f, first, end) == f * PAGE < end /\ first < (f + 1) * PAGE

NothingPreciousHandedOut ==
  \A f \in held :
    /\ ~ Overlaps(f, kernel_physical_start, kernel_physical_end)
    /\ ~ Overlaps(f, 0, LowFrames * PAGE)
    /\ (f + 1) * PAGE <= total_ram_bytes

(* The promise.  0 means failure, which no frame's address is taken for.   *)
Usable == RamFrames \ (VipFrames \union FirstMegabyte)

Pool == INSTANCE FramePool WITH
  Usable  <- Usable,
  NoFrame <- 0,
  open    <- ready,
  answer  <- IF result = None THEN None ELSE result \div PAGE

(* allocate_frame hands out only usable frames nobody holds, and answers 0 *)
(* only when every usable frame is held: no frame is lost or doubled by    *)
(* any sequence of calls.                                                  *)
ImplementsPool == Pool!Spec
=============================================================================
