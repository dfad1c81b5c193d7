-------------------------------- MODULE Heap --------------------------------
(***************************************************************************)
(* The kernel heap, alloc.c: the storage allocator of Kernighan and        *)
(* Ritchie, with a morecore that maps page frames at the end of the heap.  *)
(*                                                                         *)
(* malloc and free run on kmain's stack and no interrupt handler calls     *)
(* them, so one call runs at a time; its loops are stepped through, one    *)
(* test or one page at a time.  Addresses count Header units; unit BASE is *)
(* the static header `base', below every heap address.  A caller may write *)
(* all of its block and leaves its header alone.                           *)
(***************************************************************************)
EXTENDS Naturals

CONSTANTS
  HEADER,      (* sizeof(Header), 8 bytes.                                 *)
  PAGE_UNITS,  (* Headers in a page: 512.                                  *)
  WORD,        (* unsigned arithmetic is modulo 2^32.                      *)
  FRAMES,      (* The frames the physical allocator has left.              *)
  Request,     (* The byte counts callers ask for.                         *)
  NULL

BASE == 0
HEAP == 1
Addr == BASE .. HEAP + FRAMES * PAGE_UNITS - 1

(* No caller asks for so much that nbytes + sizeof(Header) - 1 or          *)
(* morecore's nbytes + 4095 wraps; the kernel asks for pages and small     *)
(* structures.                                                             *)
ASSUME HeapAssumption ==
  /\ HEADER \in Nat \ {0}
  /\ PAGE_UNITS \in Nat \ {0}
  /\ FRAMES \in Nat
  /\ WORD \in Nat
  /\ NULL \notin Nat
  /\ Request \in SUBSET Nat
  /\ \A r \in Request : r + (PAGE_UNITS + 2) * HEADER < WORD

VARIABLES
  ptr, size,     (* The headers in memory.                                 *)
  freep,         (* The start of the free list, or NULL.                   *)
  heap_end,
  frames,        (* The frames allocate_frame can still hand out.          *)
  pc,            (* Where the call stands: "idle", "search", "map",        *)
                 (* "locate".                                              *)
  nbytes,        (* malloc's argument, or NULL outside malloc.             *)
  p, prevp,      (* Locals of malloc and free.                             *)
  bp,            (* free's block.                                          *)
  heap_start,    (* morecore's first new address.                          *)
  held,          (* The blocks callers hold, and the units between HEAP    *)
  arena          (* and heap_end that morecore has handed to free          *)
                 (* (neither is in the code).                              *)

memoryVars == <<ptr, size, freep>>
growthVars == <<heap_end, frames>>
callVars   == <<pc, nbytes, p, prevp, bp, heap_start>>
ghostVars  == <<held, arena>>
vars       == <<memoryVars, growthVars, callVars, ghostVars>>

(* Nothing is mapped yet; the contents of a frame do not matter.           *)
Init ==
  /\ ptr = [a \in Addr |-> BASE]
  /\ size = [a \in Addr |-> 0]
  /\ freep = NULL
  /\ heap_end = HEAP
  /\ frames = FRAMES
  /\ pc = "idle"
  /\ nbytes = NULL
  /\ p = NULL /\ prevp = NULL /\ bp = NULL /\ heap_start = NULL
  /\ held = {}
  /\ arena = {}

(* Mutant: the bytes are rounded down to units.                            *)
RoundedDown == nbytes \div HEADER + 1

nunits == ((nbytes + HEADER - 1) % WORD) \div HEADER + 1

(* The pages morecore maps for the request.                                *)
PagesWanted ==
  LET page == PAGE_UNITS * HEADER IN
  ((((nunits * HEADER) % WORD) + page - 1) % WORD) \div page

-----------------------------------------------------------------------------
(* A call is over: its locals are gone.                                    *)
Return ==
  /\ pc' = "idle"
  /\ nbytes' = NULL /\ p' = NULL /\ prevp' = NULL /\ bp' = NULL /\ heap_start' = NULL

(* malloc's entry; the first call makes base a list of its own.            *)
malloc(n) ==
  /\ pc = "idle"
  /\ nbytes' = n
  /\ IF freep = NULL
     THEN /\ freep' = BASE
          /\ ptr' = [ptr EXCEPT ![BASE] = BASE]
          /\ size' = [size EXCEPT ![BASE] = 0]
     ELSE UNCHANGED memoryVars
  /\ prevp' = freep'
  /\ p' = ptr'[freep']
  /\ pc' = "search"
  /\ UNCHANGED <<growthVars, bp, heap_start, ghostVars>>

Advance ==
  /\ pc = "search"
  /\ size[p] < nunits
  /\ p # freep
  /\ prevp' = p
  /\ p' = ptr[p]
  /\ UNCHANGED <<memoryVars, growthVars, pc, nbytes, bp, heap_start, ghostVars>>

(* The caller of malloc writes over all of its block but the header.       *)
Filled(mem, block, value) ==
  [a \in Addr |-> IF a \in block + 1 .. block + nunits - 1 THEN value ELSE mem[a]]

(* The block is big enough: exactly, and it is unlinked; or its tail end   *)
(* is split off.                                                           *)
Allocate ==
  LET rest  == size[p] - nunits
      block == IF rest = 0 THEN p ELSE p + rest
      links == IF rest = 0 THEN [ptr EXCEPT ![prevp] = ptr[p]] ELSE ptr
      sizes == IF rest = 0 THEN size ELSE [size EXCEPT ![p] = rest, ![block] = nunits]
  IN /\ pc = "search"
     /\ size[p] >= nunits
     /\ ptr' = Filled(links, block, BASE)
     /\ size' = Filled(sizes, block, 0)
     /\ freep' = prevp
     /\ held' = held \union {[at |-> block, units |-> nunits]}
     /\ Return
     /\ UNCHANGED <<growthVars, arena>>

(* The search has wrapped around: morecore.                                *)
morecore ==
  /\ pc = "search"
  /\ size[p] < nunits
  /\ p = freep
  /\ heap_start' = heap_end
  /\ pc' = "map"
  /\ UNCHANGED <<memoryVars, growthVars, nbytes, p, prevp, bp, ghostVars>>

Mapped == (heap_end - heap_start) \div PAGE_UNITS

(* Mutant: the result of allocate_frame is not tested.                     *)
MapUnchecked ==
  /\ pc = "map"
  /\ Mapped < PagesWanted
  /\ frames' = IF frames > 0 THEN frames - 1 ELSE 0
  /\ heap_end' = heap_end + PAGE_UNITS
  /\ UNCHANGED <<memoryVars, callVars, ghostVars>>

MapPage ==
  /\ pc = "map"
  /\ Mapped < PagesWanted
  /\ frames > 0
  /\ frames' = frames - 1
  /\ heap_end' = heap_end + PAGE_UNITS
  /\ UNCHANGED <<memoryVars, callVars, ghostVars>>

(* No frame is left: malloc returns NULL, and the pages mapped so far stay *)
(* between HEAP and heap_end for good.                                     *)
OutOfFrames ==
  /\ pc = "map"
  /\ Mapped < PagesWanted
  /\ frames = 0
  /\ Return
  /\ UNCHANGED <<memoryVars, growthVars, ghostVars>>

(* morecore calls free on what it has mapped.                              *)
FreeNewPages ==
  /\ pc = "map"
  /\ Mapped = PagesWanted
  /\ size' = [size EXCEPT ![heap_start] = PagesWanted * PAGE_UNITS]
  /\ bp' = heap_start
  /\ p' = freep
  /\ pc' = "locate"
  /\ UNCHANGED <<ptr, freep, growthVars, nbytes, prevp, heap_start, ghostVars>>

-----------------------------------------------------------------------------
(* free, called by who holds the block.                                    *)
free(b) ==
  /\ pc = "idle"
  /\ b \in held
  /\ held' = held \ {b}
  /\ bp' = b.at
  /\ p' = freep
  /\ pc' = "locate"
  /\ UNCHANGED <<memoryVars, growthVars, nbytes, prevp, heap_start, arena>>

(* Mutant: the ends of the arena are forgotten.                            *)
Between == bp > p /\ bp < ptr[p]

(* The block belongs behind p: between p and its successor, or at either   *)
(* end of the arena.                                                       *)
BelongsHere ==
  \/ bp > p /\ bp < ptr[p]
  \/ p >= ptr[p] /\ (bp > p \/ bp < ptr[p])

Locate ==
  /\ pc = "locate"
  /\ ~ BelongsHere
  /\ p' = ptr[p]
  /\ UNCHANGED <<memoryVars, growthVars, pc, nbytes, prevp, bp, heap_start, ghostVars>>

(* Mutant: the upper neighbour is not joined.                              *)
JoinedBelow ==
  LET lower == p + size[p] = bp
  IN /\ size' = IF lower THEN [size EXCEPT ![p] = @ + size[bp]] ELSE size
     /\ ptr' = [ptr EXCEPT ![bp] = ptr[p], ![p] = IF lower THEN ptr[p] ELSE bp]

(* Join to the upper neighbour, then to the lower one.                     *)
LinkedIn ==
  LET next  == ptr[p]
      upper == bp + size[bp] = next
      lower == p + size[p] = bp
      units == IF upper THEN size[bp] + size[next] ELSE size[bp]
      link  == IF upper THEN ptr[next] ELSE next
  IN /\ size' = IF lower THEN [size EXCEPT ![bp] = units, ![p] = @ + units]
                         ELSE [size EXCEPT ![bp] = units]
     /\ ptr' = [ptr EXCEPT ![bp] = link, ![p] = IF lower THEN link ELSE bp]

(* free's end: back to the caller, or to malloc, whose loop goes on.       *)
Insert ==
  /\ pc = "locate"
  /\ BelongsHere
  /\ LinkedIn
  /\ freep' = p
  /\ IF nbytes = NULL
     THEN Return /\ UNCHANGED arena
     ELSE /\ arena' = arena \union (heap_start .. heap_end - 1)
          /\ prevp' = p
          /\ p' = ptr'[p]
          /\ pc' = "search"
          /\ bp' = NULL /\ heap_start' = NULL
          /\ UNCHANGED nbytes
  /\ UNCHANGED <<growthVars, held>>

-----------------------------------------------------------------------------
Step ==
  \/ Advance \/ Allocate
  \/ morecore \/ MapPage \/ OutOfFrames \/ FreeNewPages
  \/ Locate \/ Insert

Next ==
  \/ \E n \in Request : malloc(n)
  \/ \E b \in held : free(b)
  \/ Step

Spec == Init /\ [][Next]_vars

(* A call that has begun is executed.                                      *)
FairSpec == Spec /\ WF_vars(Step)

-----------------------------------------------------------------------------
TypeOK ==
  /\ ptr \in [Addr -> Addr]
  /\ size \in [Addr -> 0 .. FRAMES * PAGE_UNITS]
  /\ freep \in Addr \union {NULL}
  /\ heap_end \in HEAP .. HEAP + FRAMES * PAGE_UNITS
  /\ frames \in 0 .. FRAMES
  /\ pc \in {"idle", "search", "map", "locate"}
  /\ nbytes \in Request \union {NULL}
  /\ {p, prevp, bp} \subseteq Addr \union {NULL}
  /\ heap_start \in (HEAP .. HEAP + FRAMES * PAGE_UNITS) \union {NULL}
  /\ held \subseteq [at : Addr \ {BASE}, units : 1 .. FRAMES * PAGE_UNITS]
  /\ arena \in SUBSET (Addr \ {BASE})

Extent(a) == a .. a + size[a] - 1
HeldUnits == UNION {b.at .. b.at + b.units - 1 : b \in held}

(* The blocks on the free list are F: going up from base, each points to   *)
(* the next one, and the last one back to base.                            *)
Listed(F) ==
  /\ \A a \in F \union {BASE} :
       ptr[a] = IF \E c \in F : c > a
                THEN CHOOSE c \in F : c > a /\ \A d \in F : d > a => d >= c
                ELSE BASE

(* Between two calls the free list is the circle in address order of       *)
(* alloc.c that holds what no caller holds: no unit is lost, none is in    *)
(* two blocks, and no two free blocks touch.                               *)
FreeListExact ==
  pc = "idle" /\ freep # NULL =>
    \E F \in SUBSET (Addr \ {BASE}) :
      /\ Listed(F)
      /\ freep \in F \union {BASE}
      /\ UNION {Extent(a) : a \in F} = arena \ HeldUnits
      /\ \A a, c \in F : a < c => a + size[a] < c

Promise == INSTANCE StorageAllocator WITH
  Unit      <- Addr \ {BASE},
  UnitBytes <- HEADER,
  None      <- NULL,
  wanted    <- nbytes

ImplementsAllocator == Promise!Spec

(* The two loops over the circle end: every call returns.                  *)
CallsReturn == pc # "idle" ~> pc = "idle"
=============================================================================
