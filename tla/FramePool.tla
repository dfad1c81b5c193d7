----------------------------- MODULE FramePool ------------------------------
(***************************************************************************)
(* What a page frame allocator promises: a pool of usable frames, from     *)
(* which a caller gets any frame nobody else holds, and a failure only     *)
(* when there is none.  FrameAllocator.tla implements it.                  *)
(***************************************************************************)
CONSTANTS
  Usable,    (* The frames that may be handed out.                         *)
  NoFrame,   (* The answer when there is none.                             *)
  None       (* No answer: the last call was not a request for a frame.    *)

VARIABLES
  open,      (* Whether the pool has been set up.                          *)
  held,      (* The frames callers hold.                                   *)
  answer     (* The answer of the last call.                               *)

vars == <<open, held, answer>>

Init ==
  /\ open = FALSE
  /\ held = {}
  /\ answer = None

Open ==
  /\ ~ open
  /\ open' = TRUE
  /\ UNCHANGED <<held, answer>>

Take ==
  /\ open
  /\ \E f \in Usable \ held : held' = held \union {f} /\ answer' = f
  /\ UNCHANGED open

Fail ==
  /\ open
  /\ Usable \subseteq held
  /\ answer' = NoFrame
  /\ UNCHANGED <<open, held>>

GiveBack ==
  /\ open
  /\ \E f \in held : held' = held \ {f}
  /\ answer' = None
  /\ UNCHANGED open

Next == Open \/ Take \/ Fail \/ GiveBack

Spec == Init /\ [][Next]_vars
=============================================================================
