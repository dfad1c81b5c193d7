------------------------------ MODULE Strings -------------------------------
(***************************************************************************)
(* string.c on arrays of characters: functions from 0, 1, ... to the       *)
(* codes 0 .. 255, where Nul ends a string and what follows it is junk.    *)
(* A loop that stops at the first index with some property is that index.  *)
(***************************************************************************)
EXTENDS Integers, FiniteSetsExt

Nul == 0

(* Where the string in s ends; the loops that look for the end run out of  *)
(* an array that has none.                                                 *)
Ended(s) == \E i \in DOMAIN s : s[i] = Nul
End(s)   == Min({i \in DOMAIN s : s[i] = Nul})

(* The characters before the end, as a sequence.                           *)
Text(s) == [k \in 1 .. End(s) |-> s[k - 1]]

strcpy(dest, src) ==
  [i \in DOMAIN dest |-> IF i <= End(src) THEN src[i] ELSE dest[i]]

(* At most n characters, padded with zeros: no zero when src is too long.  *)
strncpy(dest, src, n) ==
  [i \in DOMAIN dest |->
     IF i >= n THEN dest[i] ELSE IF \E j \in 0 .. i : src[j] = Nul THEN Nul ELSE src[i]]

(* The difference of the first characters that differ, or of the two ends. *)
strcmp(s1, s2) ==
  LET i == Min({j \in DOMAIN s1 \intersect DOMAIN s2 : s1[j] = Nul \/ s1[j] # s2[j]})
  IN s1[i] - s2[i]
=============================================================================
