----------------------------- MODULE FileStore ------------------------------
(***************************************************************************)
(* What ls, cat and the calls of fs.c promise: a read-only list of files   *)
(* that appears in one step, with the contents they had when the image was *)
(* made, or never appears.                                                 *)
(***************************************************************************)
EXTENDS Naturals, Sequences

CONSTANTS
  Names,        (* The files' names, in order.                             *)
  Content,      (* The contents a file can have: sequences of characters.  *)
  Shown(_),     (* What cat shows of them.                                 *)
  Typed,        (* The names a user may ask for.                           *)
  Request,      (* Offsets and sizes of reads.                             *)
  Silence       (* No answer: the answer of a call that is not provided.   *)

VARIABLES contents, mounted, answer

vars == <<contents, mounted, answer>>

Files == DOMAIN Names

Init == contents \in [Files -> Content] /\ mounted = FALSE /\ answer = Silence

Mount == ~ mounted /\ mounted' = TRUE /\ UNCHANGED <<contents, answer>>

List ==
  /\ answer' = IF mounted THEN <<"list", Names>> ELSE <<"unmounted">>
  /\ UNCHANGED <<contents, mounted>>

(* The first file of that name.                                            *)
Show(name) ==
  /\ answer' = CASE ~ mounted -> Silence
                 [] mounted /\ (\A f \in Files : Names[f] # name) -> <<"missing", name>>
                 [] OTHER -> <<"text", Shown(contents[CHOOSE f \in Files :
                               Names[f] = name /\ \A g \in Files : Names[g] = name => f <= g])>>
  /\ UNCHANGED <<contents, mounted>>

(* As many characters as the file has from offset on, at most size.        *)
Read(f, offset, size) ==
  LET have == Len(contents[f])
      last == IF offset + size > have THEN have ELSE offset + size
  IN /\ mounted
     /\ answer' = <<"bytes", SubSeq(contents[f], offset + 1, last)>>
     /\ UNCHANGED <<contents, mounted>>

Refuse == mounted /\ answer' = Silence /\ UNCHANGED <<contents, mounted>>

Next ==
  \/ Mount \/ List \/ Refuse
  \/ \E name \in Typed : Show(name)
  \/ \E f \in Files, r \in Request : Read(f, r[1], r[2])

Spec == Init /\ [][Next]_vars
=============================================================================
