--------------------------- MODULE ContextProofs ----------------------------
(***************************************************************************)
(* What lies on every stack, word by word, for any number of threads, and  *)
(* what follows: nobody loses a register, his place or his system call.    *)
(* First stacks and the words on them, then one lemma for each frame that  *)
(* says what is in it and how it comes off again, then one for each action.*)
(***************************************************************************)
EXTENDS Context, SequenceTheorems, TLAPS

-----------------------------------------------------------------------------
(* Stacks.                                                                 *)

(* What was pushed last is on top, and popping it gives the rest.          *)
LEMMA OnTop ==
  ASSUME NEW S, NEW s \in Seq(S), NEW u \in Seq(S)
  PROVE  \A k \in 0 .. Len(u) - 1 : At(s \o u, k) = u[Len(u) - k]
<1> TAKE k \in 0 .. Len(u) - 1
<1>1. Len(s) \in Nat /\ Len(u) \in Nat /\ Len(s \o u) = Len(s) + Len(u)
    BY LenProperties, ConcatProperties
<1>2. Len(s) + Len(u) - k \in 1 .. Len(s) + Len(u) /\ Len(s) + Len(u) - k > Len(s)
    BY <1>1
<1>3. (s \o u)[Len(s) + Len(u) - k] = u[(Len(s) + Len(u) - k) - Len(s)]
    BY <1>1, <1>2, ConcatProperties
<1>4. (Len(s) + Len(u) - k) - Len(s) = Len(u) - k
    BY <1>1
<1> QED
    BY <1>1, <1>3, <1>4 DEF At

LEMMA PopRest ==
  ASSUME NEW S, NEW s \in Seq(S), NEW u \in Seq(S)
  PROVE  \A n \in Nat : n = Len(u) => Pop(s \o u, n) = s
<1> SUFFICES ASSUME NEW n \in Nat, n = Len(u) PROVE Pop(s \o u, n) = s
    OBVIOUS
<1>1. Len(s) \in Nat /\ Len(u) \in Nat /\ Len(s \o u) = Len(s) + Len(u)
    BY LenProperties, ConcatProperties
<1>2. Pop(s \o u, n) = SubSeq(s \o u, 1, Len(s))
    <2>1. Len(s \o u) - n = Len(s)
        BY <1>1
    <2> QED
        BY <2>1 DEF Pop
<1>3. \A i \in 1 .. Len(s) : (s \o u)[i] = s[i]
    BY <1>1, ConcatProperties
<1>4. \A i \in 1 .. Len(s) : s[i] \in S
    BY ElementOfSeq
<1>5. CASE s = <<>>
    <2>1. Len(s) = 0
        BY <1>5
    <2> QED
        BY <1>2, <1>5, <2>1, SubSeqEmpty
<1>6. CASE s # <<>>
    <2>1. Len(s) >= 1
        BY <1>6, EmptySeq
    <2>2. SubSeq(s \o u, 1, Len(s)) = SubSeq(s, 1, Len(s))
        BY <1>1, <2>1, SubSeqOfConcat1
    <2> QED
        BY <1>2, <2>2, SubSeqFull
<1> QED
    BY <1>5, <1>6

(* The index of a register in the order of the pushes.                     *)
Place(r) == CHOOSE k \in 1 .. 7 : Order[k] = r

LEMMA Places == \A k \in 1 .. 7 : Place(Order[k]) = k /\ Order[k] \in Reg
<1>1. \A j, k \in 1 .. 7 : Order[j] = Order[k] => j = k
    BY DEF Order
<1>2. ASSUME NEW k \in 1 .. 7 PROVE Place(Order[k]) = k
    <2>1. \E j \in 1 .. 7 : Order[j] = Order[k]
        OBVIOUS
    <2>2. Place(Order[k]) \in 1 .. 7 /\ Order[Place(Order[k])] = Order[k]
        BY <2>1, Zenon DEF Place
    <2> QED
        BY <1>1, <2>2
<1> QED
    BY <1>2 DEF Reg

LEMMA RegIsOrder == \A r \in Reg : Place(r) \in 1 .. 7 /\ Order[Place(r)] = r
BY Places DEF Reg

LEMMA Pushed ==
  ASSUME NEW S, NEW g \in [Reg -> S]
  PROVE  pushed(g) \in Seq(S) /\ Len(pushed(g)) = 7 /\ \A k \in 1 .. 7 : pushed(g)[k] = g[Order[k]]
<1>1. \A k \in 1 .. 7 : g[Order[k]] \in S
    BY Places
<1>2. pushed(g) \in [1 .. 7 -> S]
    BY <1>1 DEF pushed
<1> QED
    BY <1>2 DEF pushed

(* The pops take the registers in the reverse order of the pushes.         *)
LEMMA PoppedPushed ==
  ASSUME NEW S, NEW s \in Seq(S), NEW g \in [Reg -> S]
  PROVE  popped(s \o pushed(g)) = g
<1> DEFINE p == pushed(g)
<1>1. p \in Seq(S) /\ Len(p) = 7 /\ \A k \in 1 .. 7 : p[k] = g[Order[k]]
    BY Pushed
<1> HIDE DEF p
<1>t. \A k \in 0 .. Len(p) - 1 : At(s \o p, k) = p[Len(p) - k]
    <2>1. p \in Seq(S) /\ s \in Seq(S)
        BY <1>1
    <2> QED
        BY <2>1, OnTop
<1>2. ASSUME NEW r \in Reg PROVE At(s \o p, 7 - Place(r)) = g[r]
    <2>1. Place(r) \in 1 .. 7 /\ Order[Place(r)] = r
        BY RegIsOrder
    <2> DEFINE k == 7 - Place(r)
    <2>2. k \in 0 .. Len(p) - 1 /\ Len(p) - k = Place(r)
        BY <1>1, <2>1
    <2> HIDE DEF k
    <2>3. At(s \o p, k) = p[Len(p) - k]
        BY <1>t, <2>2, Zenon
    <2>4. At(s \o p, k) = g[r]
        <3>1. p[Len(p) - k] = p[Place(r)] /\ p[Place(r)] = g[Order[Place(r)]]
            BY <1>1, <2>1, <2>2
        <3> QED
            BY <2>1, <2>3, <3>1
    <2> QED
        BY <2>4 DEF k
<1>3. popped(s \o p) = [r \in Reg |-> At(s \o p, 7 - Place(r))]
    BY Zenon DEF popped, Place
<1>4. popped(s \o p) = [r \in Reg |-> g[r]]
    BY <1>2, <1>3
<1> QED
    BY <1>4 DEF p

(* Under what was pushed last is the rest.                                 *)
LEMMA Under ==
  ASSUME NEW S, NEW s \in Seq(S), NEW u \in Seq(S)
  PROVE  \A k, m \in Nat : k < Len(s) /\ m = Len(u) + k => At(s \o u, m) = At(s, k)
<1> SUFFICES ASSUME NEW k \in Nat, NEW m \in Nat, k < Len(s), m = Len(u) + k
             PROVE  At(s \o u, m) = At(s, k)
    OBVIOUS
<1>1. Len(s) \in Nat /\ Len(u) \in Nat /\ Len(s \o u) = Len(s) + Len(u)
    BY LenProperties, ConcatProperties
<1>2. Len(s) + Len(u) - m = Len(s) - k /\ Len(s) - k \in 1 .. Len(s)
    BY <1>1
<1>3. Len(s) - k \in 1 .. Len(s) + Len(u) /\ Len(s) - k <= Len(s)
    BY <1>1, <1>2
<1>4. \A i \in 1 .. Len(s) + Len(u) : i <= Len(s) => (s \o u)[i] = s[i]
    BY ConcatProperties
<1>5. (s \o u)[Len(s) - k] = s[Len(s) - k]
    BY <1>3, <1>4
<1> QED
    BY <1>1, <1>2, <1>5 DEF At

LEMMA PopUnder ==
  ASSUME NEW S, NEW s \in Seq(S), NEW u \in Seq(S)
  PROVE  \A n, w \in Nat : n <= Len(s) /\ w = Len(u) + n => Pop(s \o u, w) = Pop(s, n)
<1> SUFFICES ASSUME NEW n \in Nat, NEW w \in Nat, n <= Len(s), w = Len(u) + n
             PROVE  Pop(s \o u, w) = Pop(s, n)
    OBVIOUS
<1>1. Len(s) \in Nat /\ Len(u) \in Nat /\ Len(s \o u) = Len(s) + Len(u)
    BY LenProperties, ConcatProperties
<1>2. Len(s \o u) - w = Len(s) - n /\ Len(s) - n \in 0 .. Len(s)
    BY <1>1
<1>3. Pop(s \o u, w) = SubSeq(s \o u, 1, Len(s) - n) /\ Pop(s, n) = SubSeq(s, 1, Len(s) - n)
    BY <1>2 DEF Pop
<1>4. CASE Len(s) - n = 0
    <2>1. \A t : SubSeq(t, 1, 0) = <<>>
        BY SubSeqEmpty
    <2> QED
        BY <1>3, <1>4, <2>1
<1>5. CASE Len(s) - n # 0
    <2> DEFINE m == Len(s) - n
    <2>1. m \in 1 .. Len(s) /\ 1 \in 1 .. Len(s)
        <3>1. m \in 0 .. Len(s) /\ m # 0
            BY <1>2, <1>5
        <3> HIDE DEF m
        <3> QED
            BY <1>1, <3>1
    <2> HIDE DEF m
    <2>2. SubSeq(s \o u, 1, m) = SubSeq(s, 1, m)
        <3>1. \A i \in 1 .. Len(s), j \in 1 .. Len(s) : SubSeq(s \o u, i, j) = SubSeq(s, i, j)
            BY SubSeqOfConcat1
        <3> QED
            BY <2>1, <3>1
    <2> QED
        BY <1>3, <2>2 DEF m
<1> QED
    BY <1>4, <1>5

LEMMA Concat ==
  ASSUME NEW S, NEW s \in Seq(S), NEW u \in Seq(S)
  PROVE  s \o u \in Seq(S) /\ Len(s) \in Nat /\ Len(u) \in Nat /\ Len(s \o u) = Len(s) + Len(u)
BY LenProperties, ConcatProperties

(* switch_task's return address is popped from its arguments.              *)
LEMMA PopThird ==
  ASSUME NEW S, NEW s \in Seq(S), NEW a \in S, NEW b \in S, NEW c \in S
  PROVE  Pop(s \o <<a, b, c>>, 1) = s \o <<a, b>>
<1>1. <<a, b>> \in Seq(S) /\ <<c>> \in Seq(S) /\ Len(<<c>>) = 1
    OBVIOUS
<1>2. <<a, b>> \o <<c>> = <<a, b, c>>
    <2> DEFINE t == <<a, b>> \o <<c>>
    <2>1. t \in Seq(S) /\ Len(t) = 3 /\ t[1] = a /\ t[2] = b /\ t[3] = c
        BY <1>1, ConcatProperties
    <2> HIDE DEF t
    <2>2. \A i \in 1 .. 3 : t[i] = <<a, b, c>>[i]
        BY <2>1
    <2>3. <<a, b, c>> \in Seq(S) /\ Len(<<a, b, c>>) = 3
        OBVIOUS
    <2>4. t = <<a, b, c>>
        BY <2>1, <2>2, <2>3, SeqEqual
    <2> QED
        BY <2>4 DEF t
<1>3. (s \o <<a, b>>) \o <<c>> = s \o <<a, b, c>>
    BY <1>1, <1>2, ConcatAssociative
<1>4. s \o <<a, b>> \in Seq(S)
    BY <1>1, ConcatProperties
<1>5. Pop((s \o <<a, b>>) \o <<c>>, 1) = s \o <<a, b>>
    BY <1>1, <1>4, PopRest
<1> QED
    BY <1>3, <1>5

-----------------------------------------------------------------------------
(* Words and frames.                                                       *)
LEMMA Words ==
  /\ \A n \in {0, 1, 2, 3, 4, 8, 27, 32, 33, 35, 128} : Num(n) \in Word
  /\ Enabled \in Word /\ Disabled \in Word
  /\ Stub \in Word /\ Yielded \in Word /\ Unused \in Word /\ <<"unknown">> \in Word
  /\ \A t \in Thread, r \in Reg, x \in Value : Own(t, r, x) \in Word
  /\ \A t \in Thread : Code(t) \in Word /\ EspOf(t) \in Word
  /\ \A t \in Thread, d \in 0 .. Deepest : Address(t, d) \in Word
BY DEF Word

(* Words that the kernel tells apart.                                      *)
LEMMA Apart ==
  /\ \A t : Stub # EspOf(t) /\ Stub # Code(t) /\ Yielded # Code(t)
  /\ \A m, n : Num(m) = Num(n) => m = n
BY DEF Stub, EspOf, Code, Yielded, Num

(* The second word of each: what is written in it.                         *)
LEMMA Written ==
  /\ \A n : Num(n)[2] = n
  /\ \A t : EspOf(t)[2] = t
  /\ \A t, d : Address(t, d)[2] = t /\ Address(t, d)[3] = d
BY DEF Num, EspOf, Address

(* What is left on a thread's stack while it runs.                         *)
Base(t) ==
  IF t \in User THEN <<Num(35), Address(t, 0), Enabled, Num(UserCode)>> ELSE <<>>

(* Behind a call of thread_yield, and in an interrupt n with registers g.  *)
Called(t)  == Append(Base(t), Code(t))
Gate(t, f)    == Base(t) \o <<f, Num(KernelCode), Code(t)>>
Stubbed(t, f, n)        == Gate(t, f) \o <<Num(0), Num(n)>>
Saved(t, f, n, g)       == Stubbed(t, f, n) \o pushed(g)
Interrupted(t, f, n, g) == Saved(t, f, n, g) \o <<Stub>>

(* In switch_task, which left c behind.                                    *)
Returning(t, c, a)  == c \o <<a, EspOf(t)>>
Calling(t, c, a)    == c \o <<a, EspOf(t), Yielded>>
Asleep(t, c, a, g)  == Calling(t, c, a) \o pushed(g)
Forged(t)           == Called(t) \o Registers

Registers0 == [r \in Reg |-> Num(0)]

LEMMA BaseIs == ASSUME NEW t \in Thread PROVE Base(t) \in Seq(Word) /\ Len(Base(t)) \in 0 .. 4
<1>1. CASE t \in User
    <2>1. Base(t) = <<Num(35), Address(t, 0), Enabled, Num(UserCode)>>
        BY <1>1 DEF Base
    <2>2. Num(35) \in Word /\ Address(t, 0) \in Word /\ Enabled \in Word /\ Num(UserCode) \in Word
        BY Words DEF UserCode, Deepest
    <2> QED
        BY <2>1, <2>2
<1>2. CASE t \notin User
    <2>1. Base(t) = <<>>
        BY <1>2 DEF Base
    <2> QED
        BY <2>1
<1> QED
    BY <1>1, <1>2

LEMMA CalledIs ==
  ASSUME NEW t \in Thread
  PROVE  /\ Called(t) \in Seq(Word) /\ Len(Called(t)) = Len(Base(t)) + 1
         /\ At(Called(t), 0) = Code(t) /\ Pop(Called(t), 1) = Base(t)
<1> DEFINE u == <<Code(t)>>
<1>1. Base(t) \in Seq(Word) /\ Code(t) \in Word
    BY BaseIs, Words
<1>2. u \in Seq(Word) /\ Len(u) = 1 /\ u[1] = Code(t)
    BY <1>1
<1>3. Called(t) = Base(t) \o u
    BY <1>1, AppendIsConcat DEF Called
<1> HIDE DEF u
<1>4. Base(t) \o u \in Seq(Word) /\ Len(Base(t) \o u) = Len(Base(t)) + 1
    BY <1>1, <1>2, Concat
<1>5. At(Base(t) \o u, 0) = u[1]
    <2>1. \A k \in 0 .. Len(u) - 1 : At(Base(t) \o u, k) = u[Len(u) - k]
        BY <1>1, <1>2, OnTop
    <2> QED
        BY <1>2, <2>1
<1>6. Pop(Base(t) \o u, 1) = Base(t)
    BY <1>1, <1>2, PopRest
<1> QED
    BY <1>2, <1>3, <1>4, <1>5, <1>6

(* What the CPU has pushed lies on what the thread has left.               *)
LEMMA GateIs ==
  ASSUME NEW t \in Thread, NEW f \in Word
  PROVE  /\ Gate(t, f) \in Seq(Word) /\ Len(Gate(t, f)) = Len(Base(t)) + 3
         /\ At(Gate(t, f), 0) = Code(t) /\ At(Gate(t, f), 1) = Num(KernelCode)
         /\ At(Gate(t, f), 2) = f /\ Pop(Gate(t, f), 3) = Base(t)
<1> DEFINE u == <<f, Num(KernelCode), Code(t)>>
<1>1. /\ Base(t) \in Seq(Word) /\ f \in Word
      /\ Num(KernelCode) \in Word /\ Code(t) \in Word
    BY BaseIs, Words DEF KernelCode
<1>2. /\ u \in Seq(Word) /\ Len(u) = 3
      /\ u[1] = f /\ u[2] = Num(KernelCode) /\ u[3] = Code(t)
    BY <1>1
<1>3. Gate(t, f) = Base(t) \o u
    BY DEF Gate
<1> HIDE DEF u
<1>4. Base(t) \o u \in Seq(Word) /\ Len(Base(t) \o u) = Len(Base(t)) + 3
    BY <1>1, <1>2, Concat
<1>5. \A k \in 0 .. 2 : At(Base(t) \o u, k) = u[3 - k]
    <2>1. \A k \in 0 .. Len(u) - 1 : At(Base(t) \o u, k) = u[Len(u) - k]
        BY <1>1, <1>2, OnTop
    <2> QED
        BY <1>2, <2>1
<1>6. Pop(Base(t) \o u, 3) = Base(t)
    BY <1>1, <1>2, PopRest
<1> QED
    BY <1>2, <1>3, <1>4, <1>5, <1>6

LEMMA StubbedIs ==
  ASSUME NEW t \in Thread, NEW f \in Word, NEW n \in {32, 33, 128}
  PROVE  /\ Stubbed(t, f, n) \in Seq(Word) /\ Len(Stubbed(t, f, n)) = Len(Base(t)) + 5
         /\ At(Stubbed(t, f, n), 0) = Num(n) /\ Pop(Stubbed(t, f, n), 2) = Gate(t, f)
<1> DEFINE u == <<Num(0), Num(n)>>
<1>1. Gate(t, f) \in Seq(Word) /\ Len(Gate(t, f)) = Len(Base(t)) + 3 /\ Num(0) \in Word /\ Num(n) \in Word
    BY GateIs, Words
<1>2. u \in Seq(Word) /\ Len(u) = 2 /\ u[2] = Num(n)
    BY <1>1
<1>3. Stubbed(t, f, n) = Gate(t, f) \o u
    BY DEF Stubbed
<1> HIDE DEF u
<1>s. Gate(t, f) \in Seq(Word) /\ u \in Seq(Word)
    BY <1>1, <1>2
<1>4. Gate(t, f) \o u \in Seq(Word) /\ Len(Gate(t, f) \o u) = Len(Base(t)) + 5
    <2>1. Len(Base(t)) \in Nat
        BY BaseIs
    <2>2. Gate(t, f) \o u \in Seq(Word) /\ Len(Gate(t, f) \o u) = Len(Gate(t, f)) + Len(u)
        BY <1>s, Concat
    <2> QED
        BY <1>1, <1>2, <2>1, <2>2
<1>5. At(Gate(t, f) \o u, 0) = u[2]
    <2>1. \A k \in 0 .. Len(u) - 1 : At(Gate(t, f) \o u, k) = u[Len(u) - k]
        BY <1>s, OnTop
    <2> QED
        BY <1>2, <2>1
<1>6. Pop(Gate(t, f) \o u, 2) = Gate(t, f)
    <2>1. 2 = Len(u)
        BY <1>2
    <2> QED
        <3>1. \A k \in Nat : k = Len(u) => Pop(Gate(t, f) \o u, k) = Gate(t, f)
            BY <1>s, PopRest
        <3> QED
            BY <2>1, <3>1
<1> QED
    BY <1>2, <1>3, <1>4, <1>5, <1>6

LEMMA SavedIs ==
  ASSUME NEW t \in Thread, NEW f \in Word, NEW n \in {32, 33, 128}, NEW g \in [Reg -> Word]
  PROVE  /\ Saved(t, f, n, g) \in Seq(Word) /\ Len(Saved(t, f, n, g)) = Len(Base(t)) + 12
         /\ popped(Saved(t, f, n, g)) = g
         /\ At(Saved(t, f, n, g), 6) = g["eax"] /\ At(Saved(t, f, n, g), 5) = g["ebx"]
         /\ At(Saved(t, f, n, g), 7) = Num(n) /\ Pop(Saved(t, f, n, g), 9) = Gate(t, f)
<1> DEFINE u == pushed(g)
           s == Stubbed(t, f, n)
<1>1. s \in Seq(Word) /\ Len(s) = Len(Base(t)) + 5 /\ At(s, 0) = Num(n) /\ Pop(s, 2) = Gate(t, f)
    BY StubbedIs
<1>2. u \in Seq(Word) /\ Len(u) = 7 /\ \A k \in 1 .. 7 : u[k] = g[Order[k]]
    <2>1. g \in [Reg -> Word]
        OBVIOUS
    <2> QED
        BY <2>1, Pushed
<1>3. Saved(t, f, n, g) = s \o u
    BY DEF Saved
<1>a. s \in Seq(Word)
    BY <1>1
<1> HIDE DEF s
<1>4. popped(s \o u) = g
    BY <1>a, PoppedPushed
<1> HIDE DEF u
<1>s. s \in Seq(Word) /\ u \in Seq(Word)
    BY <1>1, <1>2
<1>b. Len(Base(t)) \in Nat
    BY BaseIs
<1>5. s \o u \in Seq(Word) /\ Len(s \o u) = Len(Base(t)) + 12
    <2>1. s \o u \in Seq(Word) /\ Len(s \o u) = Len(s) + Len(u)
        BY <1>s, Concat
    <2> QED
        BY <1>1, <1>2, <1>b, <2>1
<1>6. \A k \in 0 .. 6 : At(s \o u, k) = u[7 - k]
    <2>1. \A k \in 0 .. Len(u) - 1 : At(s \o u, k) = u[Len(u) - k]
        BY <1>s, OnTop
    <2> QED
        BY <1>2, <2>1
<1>7. At(s \o u, 6) = u[1] /\ At(s \o u, 5) = u[2]
    BY <1>6
<1>8. u[1] = g["eax"] /\ u[2] = g["ebx"]
    BY <1>2 DEF Order
<1>9. At(s \o u, 7) = At(s, 0)
    <2>1. 0 < Len(s) /\ 7 = Len(u) + 0
        BY <1>1, <1>2, <1>b
    <2> QED
        <3>1. \A k, m \in Nat : k < Len(s) /\ m = Len(u) + k => At(s \o u, m) = At(s, k)
            BY <1>s, Under
        <3> QED
            BY <1>2, <2>1, <3>1
<1>10. Pop(s \o u, 9) = Pop(s, 2)
    <2>1. 2 <= Len(s) /\ 9 = Len(u) + 2
        BY <1>1, <1>2, <1>b
    <2> QED
        <3>1. \A k, m \in Nat : k <= Len(s) /\ m = Len(u) + k => Pop(s \o u, m) = Pop(s, k)
            BY <1>s, PopUnder
        <3> QED
            BY <1>2, <2>1, <3>1
<1> QED
    BY <1>1, <1>3, <1>4, <1>5, <1>7, <1>8, <1>9, <1>10

LEMMA InterruptedIs ==
  ASSUME NEW t \in Thread, NEW f \in Word, NEW n \in {32, 33, 128}, NEW g \in [Reg -> Word]
  PROVE  /\ Interrupted(t, f, n, g) \in Seq(Word) /\ Len(Interrupted(t, f, n, g)) = Len(Base(t)) + 13
         /\ At(Interrupted(t, f, n, g), 0) = Stub /\ Pop(Interrupted(t, f, n, g), 1) = Saved(t, f, n, g)
         /\ At(Interrupted(t, f, n, g), 6) = g["ebx"] /\ At(Interrupted(t, f, n, g), 7) = g["eax"]
         /\ At(Interrupted(t, f, n, g), 8) = Num(n)
<1> DEFINE u == <<Stub>>
           s == Saved(t, f, n, g)
<1>1. /\ s \in Seq(Word) /\ Len(s) = Len(Base(t)) + 12
      /\ At(s, 5) = g["ebx"] /\ At(s, 6) = g["eax"] /\ At(s, 7) = Num(n)
    BY SavedIs
<1>2. u \in Seq(Word) /\ Len(u) = 1 /\ u[1] = Stub
    <2>1. Stub \in Word
        BY Words
    <2> QED
        BY <2>1
<1>3. Interrupted(t, f, n, g) = s \o u
    BY DEF Interrupted
<1> HIDE DEF s, u
<1>s. s \in Seq(Word) /\ u \in Seq(Word)
    BY <1>1, <1>2
<1>b. Len(Base(t)) \in Nat
    BY BaseIs
<1>4. s \o u \in Seq(Word) /\ Len(s \o u) = Len(Base(t)) + 13
    <2>1. s \o u \in Seq(Word) /\ Len(s \o u) = Len(s) + Len(u)
        BY <1>s, Concat
    <2> QED
        BY <1>1, <1>2, <1>b, <2>1
<1>5. At(s \o u, 0) = Stub
    <2>1. \A k \in 0 .. Len(u) - 1 : At(s \o u, k) = u[Len(u) - k]
        BY <1>s, OnTop
    <2> QED
        BY <1>2, <2>1
<1>6. Pop(s \o u, 1) = s
    <2>1. \A k \in Nat : k = Len(u) => Pop(s \o u, k) = s
        BY <1>s, PopRest
    <2> QED
        BY <1>2, <2>1
<1>7. \A k, m \in Nat : k < Len(s) /\ m = Len(u) + k => At(s \o u, m) = At(s, k)
    BY <1>s, Under
<1>8. At(s \o u, 6) = At(s, 5) /\ At(s \o u, 7) = At(s, 6) /\ At(s \o u, 8) = At(s, 7)
    BY <1>1, <1>2, <1>7, <1>b
<1> QED
    BY <1>1, <1>3, <1>4, <1>5, <1>6, <1>8 DEF s

(* The seven registers on a stack s.                                       *)
LEMMA OnRegisters ==
  ASSUME NEW s \in Seq(Word), NEW g \in [Reg -> Word]
  PROVE  /\ s \o pushed(g) \in Seq(Word) /\ Len(s \o pushed(g)) = Len(s) + 7
         /\ popped(s \o pushed(g)) = g
         /\ \A k, m \in Nat : k < Len(s) /\ m = 7 + k => At(s \o pushed(g), m) = At(s, k)
         /\ \A k, m \in Nat : k <= Len(s) /\ m = 7 + k => Pop(s \o pushed(g), m) = Pop(s, k)
<1> DEFINE u == pushed(g)
<1>1. u \in Seq(Word) /\ Len(u) = 7
    BY Pushed
<1>2. popped(s \o u) = g
    BY PoppedPushed
<1> HIDE DEF u
<1>s. s \in Seq(Word) /\ u \in Seq(Word)
    BY <1>1
<1>3. s \o u \in Seq(Word) /\ Len(s \o u) = Len(s) + Len(u)
    BY <1>s, Concat
<1>4. \A k, m \in Nat : k < Len(s) /\ m = Len(u) + k => At(s \o u, m) = At(s, k)
    BY <1>s, Under
<1>5. \A k, m \in Nat : k <= Len(s) /\ m = Len(u) + k => Pop(s \o u, m) = Pop(s, k)
    BY <1>s, PopUnder
<1> QED
    BY <1>1, <1>2, <1>3, <1>4, <1>5 DEF u

LEMMA ReturningIs ==
  ASSUME NEW t \in Thread, NEW c \in Seq(Word), NEW a \in Word
  PROVE  /\ Returning(t, c, a) \in Seq(Word)
         /\ At(Returning(t, c, a), 0) = EspOf(t) /\ Pop(Returning(t, c, a), 2) = c
<1> DEFINE u == <<a, EspOf(t)>>
<1>1. u \in Seq(Word) /\ Len(u) = 2 /\ u[2] = EspOf(t)
    <2>1. EspOf(t) \in Word
        BY Words
    <2> QED
        BY <2>1
<1>2. Returning(t, c, a) = c \o u
    BY DEF Returning
<1> HIDE DEF u
<1>s. c \in Seq(Word) /\ u \in Seq(Word)
    BY <1>1
<1>3. c \o u \in Seq(Word)
    BY <1>s, Concat
<1>4. At(c \o u, 0) = EspOf(t)
    <2>1. \A k \in 0 .. Len(u) - 1 : At(c \o u, k) = u[Len(u) - k]
        BY <1>s, OnTop
    <2> QED
        BY <1>1, <2>1
<1>5. Pop(c \o u, 2) = c
    <2>1. \A k \in Nat : k = Len(u) => Pop(c \o u, k) = c
        BY <1>s, PopRest
    <2> QED
        BY <1>1, <2>1
<1> QED
    BY <1>2, <1>3, <1>4, <1>5

LEMMA CallingIs ==
  ASSUME NEW t \in Thread, NEW c \in Seq(Word), NEW a \in Word
  PROVE  /\ Calling(t, c, a) \in Seq(Word) /\ Len(Calling(t, c, a)) = Len(c) + 3
         /\ At(Calling(t, c, a), 0) = Yielded /\ At(Calling(t, c, a), 1) = EspOf(t)
         /\ At(Calling(t, c, a), 2) = a /\ Pop(Calling(t, c, a), 1) = Returning(t, c, a)
<1> DEFINE u == <<a, EspOf(t), Yielded>>
<1>0. EspOf(t) \in Word /\ Yielded \in Word
    BY Words
<1>1. u \in Seq(Word) /\ Len(u) = 3 /\ u[1] = a /\ u[2] = EspOf(t) /\ u[3] = Yielded
    BY <1>0
<1>2. Calling(t, c, a) = c \o u
    BY DEF Calling
<1>3. Pop(c \o u, 1) = Returning(t, c, a)
    BY <1>0, PopThird DEF Returning
<1> HIDE DEF u
<1>s. c \in Seq(Word) /\ u \in Seq(Word)
    BY <1>1
<1>4. c \o u \in Seq(Word) /\ Len(c \o u) = Len(c) + Len(u)
    BY <1>s, Concat
<1>5. \A k \in 0 .. 2 : At(c \o u, k) = u[3 - k]
    <2>1. \A k \in 0 .. Len(u) - 1 : At(c \o u, k) = u[Len(u) - k]
        BY <1>s, OnTop
    <2> QED
        BY <1>1, <2>1
<1> QED
    BY <1>1, <1>2, <1>3, <1>4, <1>5

LEMMA AsleepIs ==
  ASSUME NEW t \in Thread, NEW c \in Seq(Word), NEW a \in Word, NEW g \in [Reg -> Word]
  PROVE  LET s == Asleep(t, c, a, g) IN
         /\ s \in Seq(Word) /\ Len(s) = Len(c) + 10 /\ popped(s) = g
         /\ At(s, 7) = Yielded /\ At(s, 8) = EspOf(t) /\ At(s, 9) = a
         /\ Pop(s, 8) = Returning(t, c, a)
<1> DEFINE s == Calling(t, c, a)
<1>1. /\ s \in Seq(Word) /\ Len(s) = Len(c) + 3 /\ Pop(s, 1) = Returning(t, c, a)
      /\ At(s, 0) = Yielded /\ At(s, 1) = EspOf(t) /\ At(s, 2) = a
    BY CallingIs
<1>2. Asleep(t, c, a, g) = s \o pushed(g)
    BY DEF Asleep
<1> HIDE DEF s
<1>3. s \in Seq(Word)
    BY <1>1
<1>4. /\ s \o pushed(g) \in Seq(Word) /\ Len(s \o pushed(g)) = Len(s) + 7
      /\ popped(s \o pushed(g)) = g
      /\ \A k, m \in Nat : k < Len(s) /\ m = 7 + k => At(s \o pushed(g), m) = At(s, k)
      /\ \A k, m \in Nat : k <= Len(s) /\ m = 7 + k => Pop(s \o pushed(g), m) = Pop(s, k)
    BY <1>3, OnRegisters
<1>5. Len(c) \in Nat
    BY LenProperties
<1>6. /\ At(s \o pushed(g), 7) = At(s, 0) /\ At(s \o pushed(g), 8) = At(s, 1)
      /\ At(s \o pushed(g), 9) = At(s, 2) /\ Pop(s \o pushed(g), 8) = Pop(s, 1)
    BY <1>1, <1>4, <1>5
<1>7. Len(s \o pushed(g)) = Len(c) + 10
    BY <1>1, <1>4, <1>5
<1> QED
    BY <1>1, <1>2, <1>4, <1>6, <1>7

LEMMA ForgedIs ==
  ASSUME NEW t \in Thread
  PROVE  /\ Forged(t) \in Seq(Word) /\ Len(Forged(t)) = Len(Base(t)) + 8
         /\ popped(Forged(t)) = Registers0
         /\ At(Forged(t), 7) = Code(t) /\ Pop(Forged(t), 8) = Base(t)
<1> DEFINE s == Called(t)
           g == Registers0
<1>1. /\ s \in Seq(Word) /\ Len(s) = Len(Base(t)) + 1
      /\ At(s, 0) = Code(t) /\ Pop(s, 1) = Base(t)
    BY CalledIs
<1>g. g \in [Reg -> Word] /\ Registers = pushed(g)
    <2>1. Num(0) \in Word
        BY Words
    <2>2. \A k \in 1 .. 7 : g[Order[k]] = Num(0)
        BY Places DEF Registers0
    <2> QED
        BY <2>1, <2>2 DEF Registers0, Registers, pushed
<1>2. Forged(t) = s \o pushed(g)
    BY <1>g DEF Forged
<1> HIDE DEF s, g
<1>3. s \in Seq(Word) /\ g \in [Reg -> Word]
    BY <1>1, <1>g
<1>4. /\ s \o pushed(g) \in Seq(Word) /\ Len(s \o pushed(g)) = Len(s) + 7
      /\ popped(s \o pushed(g)) = g
      /\ \A k, m \in Nat : k < Len(s) /\ m = 7 + k => At(s \o pushed(g), m) = At(s, k)
      /\ \A k, m \in Nat : k <= Len(s) /\ m = 7 + k => Pop(s \o pushed(g), m) = Pop(s, k)
    BY <1>3, OnRegisters
<1>5. Len(Base(t)) \in Nat
    BY BaseIs
<1>6. At(s \o pushed(g), 7) = At(s, 0) /\ Pop(s \o pushed(g), 8) = Pop(s, 1)
    BY <1>1, <1>4, <1>5
<1>7. Len(s \o pushed(g)) = Len(Base(t)) + 8
    BY <1>1, <1>4, <1>5
<1> QED
    BY <1>1, <1>2, <1>4, <1>6, <1>7 DEF g

-----------------------------------------------------------------------------
(* The invariant.                                                          *)

(* The registers that an interrupt n gives back.                           *)
KeptBy(n) == CASE n = 32 -> Reg [] n = 33 -> Reg \ {"ebp"} [] n = 128 -> Reg \ {"ebp", "edi"}

(* The registers that a thread gets back when it comes back by b.          *)
KeptAfter(b) ==
  CASE b = "timer"       -> Reg
    [] b = "yielded"     -> CalleeSaved
    [] b = "keyboard"    -> Reg \ {"ebp"}
    [] b = "system call" -> Reg \ {"ebp", "edi"}
    [] OTHER             -> {}

LEMMA KeptAfterIs ==
  /\ Kept' = KeptAfter(back')
  /\ KeptAfter("system call") = Reg \ {"ebp", "edi"}
<1>1. Kept' = KeptAfter(back')
    BY Zenon DEF Kept, KeptAfter
<1>2. KeptAfter("system call") = Reg \ {"ebp", "edi"}
    BY DEF KeptAfter
<1> QED
    BY <1>1, <1>2

(* t has left c behind for thread_yield, with registers g; l is left[t].   *)
InKernel(t, l, c, g) ==
  \/ c = Called(t) /\ \A r \in CalleeSaved : g[r] = l.gpr[r]
  \/ \E n \in {32, 128} : c = Interrupted(t, l.eflags, n, l.gpr)

Suspended(t, l, s) ==
  \/ s = Forged(t)
  \/ \E c \in Seq(Word), a \in Word, g \in [Reg -> Word] :
       s = Asleep(t, c, a, g) /\ InKernel(t, l, c, g)

(* Where the running thread is, by where the CPU is.                       *)
InHandler(t, l, s) ==
  \E n \in {32, 33, 128} : s = Interrupted(t, l.eflags, n, l.gpr) /\ (n = 128 => t # Main)

Leaving(t, l, s) ==
  \E n \in {32, 33, 128}, g \in [Reg -> Word] :
    s = Interrupted(t, l.eflags, n, g) /\ \A r \in KeptBy(n) : g[r] = l.gpr[r]

Resumed(t, l, s, g) ==
  \E c \in Seq(Word), a \in Word : s = Returning(t, c, a) /\ InKernel(t, l, c, g)

Running ==
  /\ at = "code" => stack[on] = Base(on) /\ eip = Code(on)
  /\ at # "code" \/ back # "not" => left[on].eip = Code(on)
  /\ at \in {"handler", "yield"} => gpr = left[on].gpr
  /\ at = "handler" => InHandler(on, left[on], stack[on])
  /\ at = "yield" => InKernel(on, left[on], stack[on], gpr)
  /\ at = "return" => Leaving(on, left[on], stack[on]) \/ Resumed(on, left[on], stack[on], gpr)

(* The threads that do not run, and what all have left.                    *)
Others ==
  \A t \in DOMAIN next_thread :
    /\ left[t].stack = Base(t)
    /\ t # on => Suspended(t, left[t], stack[t]) /\ left[t].eip = Code(t)

(* There is somebody to switch to.                                         *)
Circle ==
  /\ matrix_active => Kernel \subseteq DOMAIN next_thread
  /\ at = "yield" => DOMAIN next_thread # {Main}

IInv ==
  /\ TypeOK
  /\ Circle
  /\ Others
  /\ Running
  /\ RegistersKept
  /\ PlaceKept

LeftType == [gpr : [Reg -> Word], stack : Seq(Word), eip : Word, eflags : {Enabled, Disabled}]

LEMMA LeftIs ==
  ASSUME NEW l \in LeftType
  PROVE  /\ l.gpr \in [Reg -> Word] /\ l.stack \in Seq(Word) /\ l.eip \in Word
         /\ l.eflags \in {Enabled, Disabled} /\ l.eflags \in Word
BY Words DEF LeftType

LEMMA Types ==
  ASSUME TypeOK
  PROVE  /\ on \in DOMAIN next_thread /\ on \in Thread /\ on = current_thread
         /\ eip \in Word /\ gpr \in [Reg -> Word] /\ eflags \in Word
         /\ \A t \in DOMAIN next_thread :
              t \in Thread /\ stack[t] \in Seq(Word) /\ left[t] \in LeftType
BY Words DEF TypeOK, LeftType

(* Nobody follows himself.                                                 *)
LEMMA NobodyAlone ==
  ASSUME TypeOK, DOMAIN next_thread # {Main}
  PROVE  \A t \in DOMAIN next_thread : next_thread[t] # t
<1> SUFFICES ASSUME NEW t \in DOMAIN next_thread, next_thread[t] = t PROVE FALSE
    OBVIOUS
<1>1. {t} \in (SUBSET DOMAIN next_thread) \ {{}} /\ \A u \in {t} : next_thread[u] \in {t}
    OBVIOUS
<1>2. \A T \in (SUBSET DOMAIN next_thread) \ {{}} :
        (\A u \in T : next_thread[u] \in T) => T = DOMAIN next_thread
    BY DEF TypeOK
<1>3. {t} = DOMAIN next_thread
    BY <1>1, <1>2, Zenon
<1> QED
    BY <1>3 DEF TypeOK

(* A stack in the kernel is at most a frame deeper than the thread's own.  *)
LEMMA InKernelIs ==
  ASSUME NEW t \in Thread, NEW l \in LeftType, NEW c, NEW g, InKernel(t, l, c, g)
  PROVE  c \in Seq(Word) /\ Len(c) \in 0 .. 17
<1>1. l.gpr \in [Reg -> Word] /\ l.eflags \in Word
    BY LeftIs
<1> DEFINE b == Len(Base(t))
           e == Len(c)
<1>2. c \in Seq(Word) /\ (e = b + 1 \/ e = b + 13)
    <2>1. CASE c = Called(t)
        BY <2>1, CalledIs
    <2>2. ASSUME NEW n \in {32, 128}, c = Interrupted(t, l.eflags, n, l.gpr)
          PROVE  c \in Seq(Word) /\ e = b + 13
        BY <1>1, <2>2, InterruptedIs
    <2> QED
        BY <2>1, <2>2 DEF InKernel
<1>3. b \in 0 .. 4
    BY BaseIs
<1> HIDE DEF b, e
<1>4. e \in 0 .. 17
    BY <1>2, <1>3
<1> QED
    BY <1>2, <1>4 DEF e

LEMMA BaseOfAll == \A t \in Thread : Base(t) \in Seq(Word)
BY BaseIs

-----------------------------------------------------------------------------
LEMMA InitHolds == Init => IInv
<1> SUFFICES ASSUME Init PROVE IInv
    OBVIOUS
<1>1. Main \in Thread /\ Main \notin User /\ Base(Main) = <<>>
    BY ContextAssumption DEF Thread, Tasks, Base
<1>2. DOMAIN next_thread = {Main} /\ DOMAIN stack = {Main} /\ next_thread[Main] = Main /\ stack[Main] = <<>>
    BY DEF Init
<1>n. Nobody \in LeftType /\ Nobody.stack = <<>>
    <2>1. Num(0) \in Word /\ Unused \in Word
        BY Words
    <2>2. [r \in Reg |-> Num(0)] \in [Reg -> Word] /\ <<>> \in Seq(Word)
        BY <2>1
    <2> QED
        BY <2>1, <2>2 DEF Nobody, LeftType
<1>3. TypeOK
    <2>1. Num(0) \in Word /\ Code(Main) \in Word
        BY <1>1, Words
    <2>2. gpr \in [Reg -> Word] /\ esp \in [{Main} -> Word] /\ eip \in Word
        BY <2>1 DEF Init
    <2>3. stack \in [{Main} -> Seq(Word)]
        BY DEF Init
    <2>4. left \in [Thread -> LeftType]
        BY <1>n DEF Init
    <2>5. next_thread \in [{Main} -> {Main}]
        BY DEF Init
    <2> QED
        BY <1>1, <1>2, <2>2, <2>3, <2>4, <2>5 DEF TypeOK, Init, LeftType
<1>4. Circle
    BY <1>2 DEF Circle, Init
<1>5. Others
    <2>1. left[Main] = Nobody
        BY <1>1 DEF Init
    <2> QED
        BY <1>1, <1>2, <1>n, <2>1 DEF Others, Init
<1>6. Running
    BY <1>1, <1>2 DEF Running, Init
<1>7. RegistersKept /\ PlaceKept
    BY DEF RegistersKept, PlaceKept, Kept, Init
<1> QED
    BY <1>3, <1>4, <1>5, <1>6, <1>7 DEF IInv

LEMMA WorkStep == ASSUME IInv, NEW v \in Value, Work(v) PROVE IInv'
<1>u. /\ at = "code" /\ at' = "code" /\ back' = "not"
      /\ UNCHANGED <<matrix_active, threads, on, stack, eip, cs, left>>
    BY DEF Work
<1>1. TypeOK'
    <2>1. gpr' \in [Reg -> Word] /\ eflags' = Enabled
        <3>1. on \in Thread
            BY Types DEF IInv
        <3>2. \A q \in Reg : Own(on, q, v) \in Word
            BY <3>1, Words
        <3> QED
            BY <3>2 DEF Work
    <2> QED
        BY <1>u, <2>1 DEF TypeOK, IInv, threads
<1>2. Circle' /\ Others' /\ Running'
    BY <1>u DEF Circle, Others, Running, IInv, threads
<1>3. RegistersKept' /\ PlaceKept'
    BY <1>u DEF RegistersKept, PlaceKept, Kept
<1> QED
    BY <1>1, <1>2, <1>3 DEF IInv

LEMMA AppendFifth ==
  ASSUME NEW S, NEW a \in S, NEW b \in S, NEW c \in S, NEW d \in S, NEW e \in S
  PROVE  Append(<<a, b, c, d>>, e) = <<a, b, c, d, e>>
<1> DEFINE s == <<a, b, c, d>>
           t == Append(s, e)
<1>1. s \in Seq(S) /\ Len(s) = 4 /\ s[1] = a /\ s[2] = b /\ s[3] = c /\ s[4] = d
    OBVIOUS
<1> HIDE DEF s
<1>2. /\ t \in Seq(S) /\ Len(t) = 5
      /\ \A i \in 1 .. 4 : t[i] = s[i]
      /\ t[5] = e
    <2>1. s \in Seq(S)
        BY <1>1
    <2>2. /\ Append(s, e) \in Seq(S) /\ Len(Append(s, e)) = Len(s) + 1
          /\ \A i \in 1 .. Len(s) : Append(s, e)[i] = s[i]
          /\ Append(s, e)[Len(s) + 1] = e
        BY <2>1, AppendProperties
    <2> QED
        BY <1>1, <2>2
<1> HIDE DEF t
<1>3. \A i \in 1 .. 5 : t[i] = <<a, b, c, d, e>>[i]
    BY <1>1, <1>2
<1>4. <<a, b, c, d, e>> \in Seq(S) /\ Len(<<a, b, c, d, e>>) = 5
    OBVIOUS
<1>5. t = <<a, b, c, d, e>>
    BY <1>2, <1>3, <1>4, SeqEqual
<1> QED
    BY <1>5 DEF s, t

(* Both create_thread and create_user_thread forge a stack that thread_    *)
(* yield would have left.                                                  *)
LEMMA CreateIsLink ==
  ASSUME NEW t \in Tasks, create_thread(t) \/ create_user_thread(t)
  PROVE  Link(t, Forged(t))
<1>1. CASE create_thread(t)
    <2>1. t \notin User
        BY <1>1, ContextAssumption DEF create_thread
    <2>2. Called(t) = <<Code(t)>>
        BY <2>1 DEF Called, Base
    <2> QED
        BY <1>1, <2>2 DEF create_thread, Forged
<1>2. CASE create_user_thread(t)
    <2> DEFINE b == <<Num(35), Address(t, 0), Enabled, Num(UserCode)>>
    <2>1. Base(t) = b
        BY <1>2 DEF create_user_thread, Base
    <2>2. Append(b, Code(t)) = <<Num(35), Address(t, 0), Enabled, Num(UserCode), Code(t)>>
        <3>1. /\ Num(35) \in Word /\ Address(t, 0) \in Word /\ Enabled \in Word
              /\ Num(UserCode) \in Word /\ Code(t) \in Word
            BY Words DEF UserCode, Deepest, Thread
        <3> QED
            BY <3>1, AppendFifth
    <2>3. Called(t) = <<Num(35), Address(t, 0), Enabled, Num(UserCode), Code(t)>>
        BY <2>1, <2>2 DEF Called
    <2> QED
        BY <1>2, <2>3 DEF create_user_thread, Forged
<1> QED
    BY <1>1, <1>2

LEMMA ForgedWord == ASSUME NEW t \in Thread PROVE Address(t, Len(Forged(t))) \in Word
<1> DEFINE b == Len(Base(t))
           d == Len(Forged(t))
<1>1. b \in 0 .. 4 /\ d = b + 8
    BY BaseIs, ForgedIs
<1> HIDE DEF b, d
<1>2. d \in 0 .. Deepest
    BY <1>1 DEF Deepest
<1> QED
    BY <1>2, Words DEF d

LEMMA LinkStep == ASSUME IInv, NEW t \in Tasks, Link(t, Forged(t)) PROVE IInv'
<1> DEFINE D == DOMAIN next_thread
           D2 == D \union {t}
<1>t. TypeOK /\ Circle /\ Others /\ Running /\ RegistersKept /\ PlaceKept
    BY DEF IInv
<1>0. /\ at = "code" /\ on = Main /\ t \notin D /\ t \in Thread /\ Main # t /\ Main \in D
      /\ UNCHANGED <<matrix_active, current_thread, on, gpr, eip, cs, eflags, at, back, served>>
    BY <1>t, ContextAssumption DEF Link, Thread, Tasks, TypeOK
<1>d. D \subseteq Thread /\ DOMAIN stack = D /\ DOMAIN esp = D /\ next_thread \in [D -> D]
    BY <1>t DEF TypeOK
<1>1. /\ DOMAIN next_thread' = D2 /\ next_thread'[t] = next_thread[Main] /\ next_thread'[Main] = t
      /\ \A u \in D \ {Main} : next_thread'[u] = next_thread[u]
    <2> DEFINE f == [next_thread EXCEPT ![Main] = t]
    <2>1. DOMAIN f = D /\ f[Main] = t /\ \A u \in D \ {Main} : f[u] = next_thread[u]
        BY <1>0
    <2>2. next_thread' = With(f, t, next_thread[Main])
        BY DEF Link
    <2> HIDE DEF f
    <2>3. next_thread' = [x \in D2 |-> IF x = t THEN next_thread[Main] ELSE f[x]]
        BY <2>1, <2>2 DEF With
    <2> HIDE DEF D
    <2> QED
        BY <1>0, <2>1, <2>3
<1>w. /\ stack' = [x \in D2 |-> IF x = t THEN Forged(t) ELSE stack[x]]
      /\ esp' = [x \in D2 |-> IF x = t THEN Address(t, Len(Forged(t))) ELSE esp[x]]
    BY <1>d DEF Link, With
<1>2. DOMAIN stack' = D2 /\ stack'[t] = Forged(t) /\ \A u \in D : stack'[u] = stack[u]
    BY <1>0, <1>w
<1>3. /\ DOMAIN esp' = D2 /\ esp'[t] = Address(t, Len(Forged(t)))
      /\ \A u \in D : esp'[u] = esp[u]
    BY <1>0, <1>w
<1>f. /\ Forged(t) \in Seq(Word) /\ Pop(Forged(t), 8) = Base(t) /\ Base(t) \in Seq(Word)
      /\ Code(t) \in Word /\ Address(t, Len(Forged(t))) \in Word
    BY <1>0, ForgedIs, BaseIs, Words, ForgedWord
<1>4. /\ left' \in [Thread -> LeftType]
      /\ left'[t].stack = Base(t) /\ left'[t].eip = Code(t)
      /\ \A u \in Thread \ {t} : left'[u] = left[u]
    <2>1. left \in [Thread -> LeftType]
        BY <1>t DEF TypeOK, LeftType
    <2>2. left' = [left EXCEPT ![t].stack = Base(t), ![t].eip = Code(t)]
        BY <1>f DEF Link
    <2> QED
        BY <1>0, <1>f, <2>1, <2>2 DEF LeftType
<1> HIDE DEF D
<1>5. TypeOK'
    <2>1. ASSUME NEW T \in (SUBSET D2) \ {{}}, \A u \in T : next_thread'[u] \in T
          PROVE  T = D2
        <3> DEFINE R == T \ {t}
        <3>1. R # {}
            <4>1. next_thread'[t] # t
                BY <1>0, <1>1, <1>d
            <4> QED
                BY <2>1, <4>1
        <3>2. R \in (SUBSET D) \ {{}}
            BY <3>1
        <3>3. ASSUME NEW u \in R PROVE next_thread[u] \in R
            <4>1. next_thread[u] \in D /\ next_thread[u] # t
                BY <1>0, <1>d, <3>2
            <4>2. CASE u = Main
                <5>1. t \in T
                    BY <1>1, <2>1, <4>2
                <5>2. next_thread'[t] \in T
                    BY <2>1, <5>1
                <5> QED
                    BY <1>1, <4>1, <4>2, <5>2
            <4>3. CASE u # Main
                BY <1>1, <2>1, <3>2, <4>1, <4>3
            <4> QED
                BY <4>2, <4>3
        <3>4. R = D
            <4>1. \A S \in (SUBSET D) \ {{}} : (\A u \in S : next_thread[u] \in S) => S = D
                BY <1>t DEF TypeOK, D
            <4> HIDE DEF R
            <4> QED
                BY <3>2, <3>3, <4>1, Zenon
        <3>5. t \in T
            BY <1>0, <1>1, <2>1, <3>4
        <3> QED
            BY <3>4, <3>5
    <2>2. next_thread' \in [D2 -> D2]
        <3>1. next_thread' = With([next_thread EXCEPT ![Main] = t], t, next_thread[Main])
            BY DEF Link
        <3>2. \A u \in D2 : next_thread'[u] \in D2
            BY <1>0, <1>1, <1>d
        <3>3. next_thread' = [u \in D2 |-> next_thread'[u]]
            BY <1>d, <3>1 DEF With
        <3> QED
            BY <3>2, <3>3
    <2>3. esp' \in [D2 -> Word] /\ stack' \in [D2 -> Seq(Word)]
        <3>1. \A u \in D : esp[u] \in Word /\ stack[u] \in Seq(Word)
            BY <1>t DEF TypeOK, D
        <3>2. \A u \in D2 : esp'[u] \in Word /\ stack'[u] \in Seq(Word)
            BY <1>2, <1>3, <1>f, <3>1
        <3>3. esp' = [u \in D2 |-> esp'[u]] /\ stack' = [u \in D2 |-> stack'[u]]
            BY <1>w, <1>2, <1>3
        <3> QED
            BY <3>2, <3>3
    <2>4. \A u \in D2 \ {on} : esp'[u] = Address(u, Len(stack'[u]))
        <3>1. \A u \in D \ {on} : esp[u] = Address(u, Len(stack[u]))
            BY <1>t, <1>d DEF TypeOK
        <3> QED
            BY <1>2, <1>3, <3>1
    <2>5. /\ matrix_active' \in BOOLEAN /\ eflags' \in {Enabled, Disabled} /\ cs' = KernelCode
          /\ at' \in {"code", "handler", "yield", "return"} /\ on' = current_thread' /\ on' \in D2
          /\ {Main} \subseteq D2 /\ D2 \subseteq Thread /\ gpr' \in [Reg -> Word] /\ eip' \in Word
        BY <1>t, <1>0, <1>d DEF TypeOK, D
    <2>6. left' \in [Thread -> [gpr : [Reg -> Word], stack : Seq(Word), eip : Word,
                                eflags : {Enabled, Disabled}]]
        BY <1>4 DEF LeftType
    <2>7. DOMAIN next_thread' = D2 /\ DOMAIN stack' = D2
        BY <1>1, <1>2
    <2>8. on' = on
        BY <1>0
    <2>9. \A T \in (SUBSET D2) \ {{}} : (\A u \in T : next_thread'[u] \in T) => T = D2
        BY <2>1
    <2> HIDE DEF D2
    <2>10. \A T \in (SUBSET DOMAIN next_thread') \ {{}} :
             (\A u \in T : next_thread'[u] \in T) => T = DOMAIN next_thread'
        BY <2>7, <2>9, Zenon
    <2> QED
        BY <2>8, <2>10, <2>2, <2>3, <2>4, <2>5, <2>6, <2>7 DEF TypeOK
<1>6. Circle'
    <2>1. matrix_active' => Kernel \subseteq D2
        BY <1>t, <1>0 DEF Circle, D
    <2> QED
        BY <1>0, <1>1, <2>1 DEF Circle
<1>7. Others'
    <2>1. Suspended(t, left'[t], stack'[t])
        BY <1>2 DEF Suspended
    <2>2. \A u \in D :
            /\ left[u].stack = Base(u)
            /\ u # on => Suspended(u, left[u], stack[u]) /\ left[u].eip = Code(u)
        BY <1>t DEF Others, D
    <2>3. \A u \in D : left'[u] = left[u]
        BY <1>0, <1>4, <1>d
    <2>4. ASSUME NEW u \in D2
          PROVE  /\ left'[u].stack = Base(u)
                 /\ u # on => Suspended(u, left'[u], stack'[u]) /\ left'[u].eip = Code(u)
        <3>1. CASE u = t
            BY <1>4, <2>1, <3>1
        <3>2. CASE u \in D
            BY <1>2, <2>2, <2>3, <3>2
        <3> QED
            BY <3>1, <3>2
    <2>5. on' = on /\ DOMAIN next_thread' = D2
        BY <1>0, <1>1
    <2> HIDE DEF D2
    <2> QED
        BY <2>4, <2>5 DEF Others
<1>8. left'[on] = left[on] /\ stack'[on] = stack[on]
    BY <1>0, <1>2, <1>4, <1>d
<1>9. Running' /\ RegistersKept' /\ PlaceKept'
    BY <1>t, <1>0, <1>8 DEF Running, RegistersKept, PlaceKept, Kept
<1> QED
    BY <1>5, <1>6, <1>7, <1>9 DEF IInv

(* A step that stays on the running thread's stack and its own ghosts.     *)
LEMMA SameThread ==
  ASSUME IInv, UNCHANGED <<threads, on>>,
         NEW s \in Seq(Word), stack' = [stack EXCEPT ![on] = s],
         left' \in [Thread -> LeftType], left'[on].stack = Base(on),
         \A u \in Thread \ {on} : left'[u] = left[u],
         gpr' \in [Reg -> Word], eip' \in Word, cs' = KernelCode, eflags' \in {Enabled, Disabled},
         at' \in {"code", "handler", "yield", "return"}, matrix_active' \in BOOLEAN
  PROVE  TypeOK' /\ Others' /\ stack'[on] = s
<1> DEFINE D == DOMAIN next_thread
<1>t. TypeOK /\ Others
    BY DEF IInv
<1>d. /\ D \subseteq Thread /\ DOMAIN stack = D /\ on \in D
      /\ UNCHANGED <<current_thread, next_thread, esp, on>>
    BY <1>t DEF TypeOK, threads
<1>1. DOMAIN stack' = D /\ stack'[on] = s /\ \A u \in D \ {on} : stack'[u] = stack[u]
    BY <1>d
<1>2. TypeOK'
    <2>1. stack' \in [D -> Seq(Word)]
        BY <1>t DEF TypeOK
    <2>2. \A u \in D \ {on} : esp[u] = Address(u, Len(stack'[u]))
        BY <1>t, <1>1, <1>d DEF TypeOK
    <2>3. left' \in [Thread -> [gpr : [Reg -> Word], stack : Seq(Word), eip : Word,
                                eflags : {Enabled, Disabled}]]
        BY DEF LeftType
    <2>4. /\ on = current_thread /\ on \in D /\ {Main} \subseteq D
          /\ \A T \in (SUBSET D) \ {{}} : (\A u \in T : next_thread[u] \in T) => T = D
          /\ next_thread \in [D -> D] /\ esp \in [D -> Word]
        BY <1>t DEF TypeOK
    <2> QED
        BY <1>1, <1>d, <2>1, <2>2, <2>3, <2>4 DEF TypeOK
<1>3. Others'
    <2>1. \A u \in D :
            /\ left[u].stack = Base(u)
            /\ u # on => Suspended(u, left[u], stack[u]) /\ left[u].eip = Code(u)
        BY <1>t DEF Others
    <2> HIDE DEF D
    <2>2. ASSUME NEW u \in D
          PROVE  /\ left'[u].stack = Base(u)
                 /\ u # on => Suspended(u, left'[u], stack'[u]) /\ left'[u].eip = Code(u)
        <3>1. CASE u = on
            BY <3>1
        <3>2. CASE u # on
            <4>1. left'[u] = left[u] /\ stack'[u] = stack[u]
                BY <1>1, <1>d, <3>2
            <4> QED
                BY <2>1, <3>2, <4>1
        <3> QED
            BY <3>1, <3>2
    <2> QED
        BY <1>d, <2>2 DEF Others, D
<1> QED
    BY <1>1, <1>2, <1>3

(* What is written down of the code when it is left.                       *)
LEMMA LeaveIs ==
  ASSUME IInv, at = "code", NEW g \in [Reg -> Word], Leave(g)
  PROVE  /\ back' = "not"
         /\ left' \in [Thread -> LeftType]
         /\ left'[on].gpr = g /\ left'[on].stack = Base(on)
         /\ left'[on].eip = Code(on) /\ left'[on].eflags = eflags
         /\ \A u \in Thread \ {on} : left'[u] = left[u]
<1>1. /\ stack[on] = Base(on) /\ eip = Code(on) /\ on \in Thread
      /\ stack[on] \in Seq(Word) /\ eip \in Word
      /\ left \in [Thread -> LeftType] /\ eflags \in {Enabled, Disabled}
    BY Types DEF IInv, Running, TypeOK, LeftType
<1> DEFINE h == Here(g)
<1>2. /\ h.gpr = g /\ h.stack = stack[on] /\ h.eip = eip /\ h.eflags = eflags
      /\ h \in LeftType
    BY <1>1 DEF Here, LeftType
<1>3. left' = [left EXCEPT ![on] = h] /\ back' = "not"
    BY DEF Leave
<1> HIDE DEF h
<1> QED
    BY <1>1, <1>2, <1>3

LEMMA YieldStep == ASSUME IInv, Yield PROVE IInv'
<1>t. TypeOK /\ Circle /\ Running
    BY DEF IInv
<1>0. /\ at = "code" /\ at' = "yield" /\ on \in Tasks /\ Leave(gpr)
      /\ stack' = [stack EXCEPT ![on] = Append(stack[on], eip)]
      /\ UNCHANGED <<matrix_active, threads, on, gpr, eip, cs, eflags>>
    <2>1. stack[on] = stack[on] /\ on \in DOMAIN stack
        BY <1>t DEF TypeOK
    <2> QED
        BY <2>1 DEF Yield
<1>1. /\ on \in Thread /\ on \in DOMAIN next_thread /\ gpr \in [Reg -> Word] /\ eip \in Word
      /\ cs = KernelCode /\ eflags \in {Enabled, Disabled} /\ matrix_active \in BOOLEAN
    BY <1>t, Types DEF TypeOK
<1>2. /\ left' \in [Thread -> LeftType] /\ left'[on].gpr = gpr /\ left'[on].stack = Base(on)
      /\ left'[on].eip = Code(on) /\ \A u \in Thread \ {on} : left'[u] = left[u]
    BY <1>0, <1>1, LeaveIs
<1>3. Append(stack[on], eip) = Called(on) /\ Called(on) \in Seq(Word)
    BY <1>0, <1>1, <1>t, CalledIs DEF Running, Called
<1>4. TypeOK' /\ Others' /\ stack'[on] = Called(on)
    BY <1>0, <1>1, <1>2, <1>3, SameThread
<1>5. Circle'
    <2>1. on # Main
        BY <1>0, ContextAssumption
    <2> QED
        BY <1>t, <1>0, <1>1, <2>1 DEF Circle, threads
<1>6. Running'
    <2>1. InKernel(on, left'[on], Called(on), gpr)
        BY <1>2 DEF InKernel
    <2> QED
        BY <1>0, <1>2, <1>4, <2>1 DEF Running
<1>7. RegistersKept' /\ PlaceKept'
    BY <1>0 DEF RegistersKept, PlaceKept
<1> QED
    BY <1>4, <1>5, <1>6, <1>7 DEF IInv

(* The same ring, so the same stack.                                       *)
LEMMA EnterStep ==
  ASSUME IInv, NEW n \in {32, 33, 128}, NEW g \in [Reg -> Word], Enter(n, g), n = 128 => on # Main
  PROVE  IInv'
<1>t. TypeOK /\ Circle /\ Running
    BY DEF IInv
<1>1. /\ on \in Thread /\ on \in DOMAIN next_thread /\ eip \in Word /\ on \in DOMAIN stack
      /\ cs = KernelCode /\ eflags \in {Enabled, Disabled} /\ matrix_active \in BOOLEAN
    BY <1>t, Types DEF TypeOK
<1>a. at = "code" /\ Leave(g)
    BY DEF Enter
<1>r. ~ (Dpl(gdt_entries[idt_entries[n].sel \div 8]) < Ring(cs))
    <2>1. idt_entries[n].sel = KernelCode
        BY DEF idt_entries
    <2>2. KernelCode \div 8 = 1 /\ gdt_entries[1] = 154
        BY DEF KernelCode, gdt_entries
    <2>3. Dpl(154) = 0 /\ Ring(KernelCode) = 0
        BY DEF Dpl, Ring, KernelCode
    <2> QED
        BY <1>1, <2>1, <2>2, <2>3
<1>0. /\ at' = "handler" /\ gpr' = g /\ cs' = KernelCode /\ eflags' = Disabled
      /\ stack' = [stack EXCEPT ![on] = stack[on] \o <<eflags, Num(cs), eip>> \o <<Num(0), Num(n)>>
                                          \o pushed(g) \o <<Stub>>]
      /\ UNCHANGED <<matrix_active, threads, on, eip>>
    <2>1. idt_entries[n].sel = KernelCode
        BY DEF idt_entries
    <2> QED
        BY <1>r, <1>1, <2>1 DEF Enter
<1>2. /\ left' \in [Thread -> LeftType] /\ left'[on].gpr = g /\ left'[on].stack = Base(on)
      /\ left'[on].eip = Code(on) /\ left'[on].eflags = eflags
      /\ \A u \in Thread \ {on} : left'[u] = left[u]
    BY <1>a, LeaveIs
<1> DEFINE s == Interrupted(on, eflags, n, g)
<1>3. s \in Seq(Word)
    <2>1. eflags \in Word
        BY <1>1, Words
    <2> QED
        BY <1>1, <2>1, InterruptedIs
<1>4. stack' = [stack EXCEPT ![on] = s]
    <2>1. stack[on] = Base(on) /\ eip = Code(on)
        BY <1>a, <1>t DEF Running
    <2> QED
        BY <1>0, <1>1, <2>1 DEF Interrupted, Saved, Stubbed, Gate
<1> HIDE DEF s
<1>5. TypeOK' /\ Others' /\ stack'[on] = s
    BY <1>0, <1>1, <1>2, <1>3, <1>4, SameThread
<1>6. Circle'
    BY <1>t, <1>0 DEF Circle, threads
<1>7. Running'
    <2>1. InHandler(on, left'[on], s)
        BY <1>2 DEF InHandler, s
    <2> QED
        BY <1>0, <1>2, <1>5, <2>1 DEF Running
<1>8. RegistersKept' /\ PlaceKept'
    BY <1>0 DEF RegistersKept, PlaceKept
<1> QED
    BY <1>5, <1>6, <1>7, <1>8 DEF IInv

LEMMA InterruptStep == ASSUME IInv, NEW n \in {32, 33}, Interrupt(n) PROVE IInv'
<1>1. gpr \in [Reg -> Word]
    BY Types DEF IInv
<1>2. n \in {32, 33, 128} /\ Enter(n, gpr)
    BY DEF Interrupt
<1> QED
    BY <1>1, <1>2, EnterStep

LEMMA SystemCallStep ==
  ASSUME IInv, NEW call \in 1 .. 4, NEW v \in Value, SystemCall(call, v)
  PROVE  IInv'
<1> DEFINE g == [gpr EXCEPT !["eax"] = Num(call), !["ebx"] = Own(on, "ebx", v)]
<1>1. gpr \in [Reg -> Word] /\ on \in Thread
    BY Types DEF IInv
<1>2. "ebx" \in Reg /\ Num(call) \in Word /\ Own(on, "ebx", v) \in Word
    <2>1. "ebx" \in Reg
        <3>1. Order[2] = "ebx"
            BY DEF Order
        <3> QED
            BY <3>1, Places
    <2>2. call \in {0, 1, 2, 3, 4, 8, 27, 32, 33, 35, 128}
        OBVIOUS
    <2> QED
        BY <1>1, <2>1, <2>2, Words
<1>3. g \in [Reg -> Word]
    BY <1>1, <1>2
<1>4. Enter(128, g) /\ on # Main
    BY ContextAssumption DEF SystemCall
<1> HIDE DEF g
<1> QED
    BY <1>3, <1>4, EnterStep

-----------------------------------------------------------------------------
(* The arguments of a last call only fall on the registers pushed last.    *)
Hit(n) == {Order[k] : k \in 8 - n .. 7}

LEMMA Hits == Hit(1) = {"ebp"} /\ Hit(2) = {"ebp", "edi"}
<1>1. 8 - 1 .. 7 = {7} /\ 8 - 2 .. 7 = {6, 7}
    OBVIOUS
<1>2. Order[7] = "ebp" /\ Order[6] = "edi"
    BY DEF Order
<1> QED
    BY <1>1, <1>2 DEF Hit

Clobbered(s, x, g, m) ==
  \E h \in [Reg -> Word] :
    s = x \o pushed(h) \o <<Stub>> /\ \A r \in Reg \ Hit(m) : h[r] = g[r]

LEMMA OutgoingIs ==
  ASSUME NEW x \in Seq(Word), NEW g \in [Reg -> Word], NEW args \in Seq(Word), Len(args) \in 1 .. 2,
         NEW s \in Outgoing(x \o pushed(g) \o <<Stub>>, args)
  PROVE  Clobbered(s, x, g, Len(args))
<1> DEFINE m == Len(args)
           p == x \o pushed(g)
           o == p \o <<Stub>>
           h == [r \in Reg |-> IF 8 - Place(r) \in 1 .. m THEN args[8 - Place(r)] ELSE g[r]]
           q == x \o pushed(h)
           z == q \o <<Stub>>
           n == Len(x)
<1>1. n \in Nat /\ m \in 1 .. 2 /\ \A k \in 1 .. m : args[k] \in Word
    BY LenProperties, ElementOfSeq
<1> HIDE DEF m
<1>2. h \in [Reg -> Word]
    BY <1>1
<1>st. <<Stub>> \in Seq(Word) /\ Len(<<Stub>>) = 1 /\ <<Stub>>[1] = Stub
    <2>1. Stub \in Word
        BY Words
    <2> QED
        BY <2>1
<1>3. ASSUME NEW f \in [Reg -> Word]
      PROVE  LET t == x \o pushed(f) \o <<Stub>> IN
             /\ t \in Seq(Word) /\ Len(t) = n + 8
             /\ \A i \in 1 .. n : t[i] = x[i]
             /\ \A k \in 1 .. 7 : t[n + k] = f[Order[k]]
             /\ t[n + 8] = Stub
    <2> DEFINE u == pushed(f)
               y == x \o u
               t == y \o <<Stub>>
    <2>1. u \in Seq(Word) /\ Len(u) = 7 /\ \A k \in 1 .. 7 : u[k] = f[Order[k]]
        BY Pushed
    <2> HIDE DEF u
    <2>s. x \in Seq(Word) /\ u \in Seq(Word)
        BY <2>1
    <2>2. /\ y \in Seq(Word) /\ Len(y) = Len(x) + Len(u)
          /\ \A i \in 1 .. Len(x) + Len(u) :
               y[i] = IF i <= Len(x) THEN x[i] ELSE u[i - Len(x)]
        BY <2>s, ConcatProperties
    <2>3. /\ y \in Seq(Word) /\ Len(y) = n + 7
          /\ \A i \in 1 .. n + 7 : y[i] = IF i <= n THEN x[i] ELSE u[i - n]
        BY <2>1, <2>2
    <2> HIDE DEF y
    <2>4. /\ t \in Seq(Word) /\ Len(t) = Len(y) + Len(<<Stub>>)
          /\ \A i \in 1 .. Len(y) + Len(<<Stub>>) :
               t[i] = IF i <= Len(y) THEN y[i] ELSE <<Stub>>[i - Len(y)]
        BY <1>st, <2>3, ConcatProperties
    <2>5. /\ t \in Seq(Word) /\ Len(t) = n + 8
          /\ \A i \in 1 .. n + 8 : t[i] = IF i <= n + 7 THEN y[i] ELSE <<Stub>>[i - (n + 7)]
        BY <1>1, <1>st, <2>3, <2>4
    <2> HIDE DEF t, n
    <2>6. \A i \in 1 .. n : t[i] = x[i]
        BY <1>1, <2>3, <2>5
    <2>7. ASSUME NEW k \in 1 .. 7 PROVE t[n + k] = f[Order[k]]
        <3> DEFINE j == n + k
        <3>1. j \in 1 .. n + 7 /\ j \in 1 .. n + 8 /\ j <= n + 7 /\ ~ (j <= n) /\ j - n = k
            BY <1>1
        <3> HIDE DEF j
        <3>2. t[j] = y[j]
            BY <2>5, <3>1
        <3>3. y[j] = u[j - n]
            BY <2>3, <3>1
        <3>4. t[j] = f[Order[k]]
            BY <2>1, <3>1, <3>2, <3>3
        <3> QED
            BY <3>4 DEF j
    <2>8. t[n + 8] = Stub
        <3>1. n + 8 \in 1 .. n + 8 /\ ~ (n + 8 <= n + 7) /\ (n + 8) - (n + 7) = 1
            BY <1>1
        <3> QED
            BY <1>st, <2>5, <3>1
    <2> QED
        BY <2>5, <2>6, <2>7, <2>8 DEF t, y, u
<1>4. CASE s = o
    <2>1. s = x \o pushed(g) \o <<Stub>>
        BY <1>4
    <2> QED
        BY <2>1 DEF Clobbered
<1>5. CASE s = [k \in DOMAIN o |-> IF Len(o) - k \in 1 .. m THEN args[Len(o) - k] ELSE o[k]]
    <2>1. /\ o \in Seq(Word) /\ Len(o) = n + 8
          /\ \A i \in 1 .. n : o[i] = x[i]
          /\ \A k \in 1 .. 7 : o[n + k] = g[Order[k]]
          /\ o[n + 8] = Stub
        BY <1>3
    <2>2. /\ z \in Seq(Word) /\ Len(z) = n + 8
          /\ \A i \in 1 .. n : z[i] = x[i]
          /\ \A k \in 1 .. 7 : z[n + k] = h[Order[k]]
          /\ z[n + 8] = Stub
        BY <1>2, <1>3
    <2>h. /\ \A k \in 1 .. 7 : h[Order[k]] = IF 8 - k \in 1 .. m THEN args[8 - k] ELSE g[Order[k]]
          /\ \A r \in Reg : 8 - Place(r) \notin 1 .. m => h[r] = g[r]
        BY Places
    <2> HIDE DEF o, z, h, n
    <2>o. DOMAIN o = 1 .. n + 8 /\ DOMAIN s = 1 .. n + 8
        <3>1. DOMAIN o = 1 .. n + 8
            BY <2>1, LenProperties
        <3>2. DOMAIN s = DOMAIN o
            BY <1>5
        <3> QED
            BY <3>1, <3>2
    <2>3. \A k \in 1 .. n + 8 : s[k] = IF Len(o) - k \in 1 .. m THEN args[Len(o) - k] ELSE o[k]
        BY <1>5, <2>o, Zenon
    <2>l. Len(o) = n + 8
        BY <2>1
    <2>m. m \in 1 .. 2
        BY <1>1
    <2>n. n \in Nat
        BY <1>1
    <2> DEFINE e == Len(o)
    <2>e. e = n + 8
        BY <2>l
    <2> HIDE DEF e
    <2>4. ASSUME NEW i \in 1 .. n + 8 PROVE s[i] = z[i]
        <3>0. s[i] = IF e - i \in 1 .. m THEN args[e - i] ELSE o[i]
            BY <2>3 DEF e
        <3>1. CASE i <= n
            <4>1. i \in 1 .. n /\ e - i \notin 1 .. m
                BY <2>m, <2>n, <2>e, <3>1
            <4> QED
                BY <2>1, <2>2, <3>0, <4>1
        <3>2. CASE i = n + 8
            <4>1. e - i \notin 1 .. m
                BY <2>m, <2>n, <2>e, <3>2
            <4>2. o[i] = Stub /\ z[i] = Stub
                BY <2>1, <2>2, <3>2
            <4> QED
                BY <3>0, <4>1, <4>2
        <3>3. CASE i > n /\ i # n + 8
            <4>1. PICK k \in 1 .. 7 : i = n + k
                <5>1. i - n \in 1 .. 7 /\ i = n + (i - n)
                    BY <2>n, <3>3
                <5> QED
                    BY <5>1
            <4>2. e - i = 8 - k
                BY <2>n, <2>e, <4>1
            <4>3. o[i] = g[Order[k]] /\ z[i] = h[Order[k]]
                BY <2>1, <2>2, <4>1
            <4>4. s[i] = IF 8 - k \in 1 .. m THEN args[8 - k] ELSE g[Order[k]]
                BY <3>0, <4>2, <4>3
            <4>5. h[Order[k]] = IF 8 - k \in 1 .. m THEN args[8 - k] ELSE g[Order[k]]
                BY <2>h
            <4> QED
                BY <4>3, <4>4, <4>5
        <3> QED
            BY <2>n, <3>1, <3>2, <3>3
    <2>5. s = z
        <3>1. DOMAIN z = 1 .. n + 8
            BY <2>2, LenProperties
        <3>2. z = [i \in 1 .. n + 8 |-> z[i]]
            BY <2>2, <3>1
        <3>3. s = [i \in 1 .. n + 8 |-> s[i]]
            BY <1>5, <2>o
        <3> QED
            BY <2>4, <3>2, <3>3
    <2>6. ASSUME NEW r \in Reg \ Hit(m) PROVE h[r] = g[r]
        <3>1. Place(r) \in 1 .. 7 /\ Order[Place(r)] = r
            BY RegIsOrder
        <3>2. Place(r) \notin 8 - m .. 7
            BY <3>1 DEF Hit
        <3>3. 8 - Place(r) \notin 1 .. m
            BY <1>1, <3>1, <3>2
        <3> QED
            BY <2>h, <3>3
    <2> QED
        BY <1>2, <2>5, <2>6 DEF z, m, Clobbered
<1> QED
    BY <1>4, <1>5 DEF Outgoing, m

-----------------------------------------------------------------------------
(* In the handler of n the stack is the one that its stub has left.        *)
LEMMA Handled ==
  ASSUME IInv, NEW n, Act(n)
  PROVE  /\ n \in {32, 33, 128} /\ at = "handler" /\ (n = 128 => on # Main)
         /\ stack[on] = Interrupted(on, left[on].eflags, n, left[on].gpr)
<1>1. at = "handler" /\ At(stack[on], 8)[2] = n
    BY DEF Act, IntrNo
<1>2. on \in Thread /\ left[on].gpr \in [Reg -> Word] /\ left[on].eflags \in Word
    BY Types, LeftIs DEF IInv
<1>3. PICK m \in {32, 33, 128} :
        stack[on] = Interrupted(on, left[on].eflags, m, left[on].gpr) /\ (m = 128 => on # Main)
    BY <1>1 DEF IInv, Running, InHandler
<1>4. At(stack[on], 8) = Num(m)
    BY <1>2, <1>3, InterruptedIs
<1>5. m = n
    BY <1>1, <1>4, Written
<1> QED
    BY <1>1, <1>3, <1>5

(* A handler goes on to thread_yield or returns.                           *)
LEMMA HandlerStep ==
  ASSUME IInv, at = "handler", at' \in {"yield", "return"},
         UNCHANGED <<threads, on, gpr, eip, cs, eflags, left, back>>,
         matrix_active' \in BOOLEAN, matrix_active' => Kernel \subseteq DOMAIN next_thread,
         NEW s \in Seq(Word), stack' = [stack EXCEPT ![on] = s],
         at' = "return" => Leaving(on, left[on], s),
         at' = "yield" => InKernel(on, left[on], s, gpr) /\ DOMAIN next_thread # {Main}
  PROVE  IInv'
<1>t. TypeOK /\ Circle /\ Others /\ Running
    BY DEF IInv
<1>1. /\ on \in Thread /\ on \in DOMAIN next_thread /\ eip \in Word /\ gpr \in [Reg -> Word]
      /\ cs = KernelCode /\ eflags \in {Enabled, Disabled} /\ left \in [Thread -> LeftType]
    BY <1>t, Types DEF TypeOK, LeftType
<1>2. left[on].stack = Base(on)
    BY <1>t, <1>1 DEF Others
<1>3. TypeOK' /\ Others' /\ stack'[on] = s
    <2>1. /\ left' \in [Thread -> LeftType] /\ left'[on].stack = Base(on)
          /\ \A u \in Thread \ {on} : left'[u] = left[u]
        BY <1>1, <1>2
    <2>2. /\ gpr' \in [Reg -> Word] /\ eip' \in Word /\ cs' = KernelCode
          /\ eflags' \in {Enabled, Disabled} /\ at' \in {"code", "handler", "yield", "return"}
        BY <1>1
    <2> QED
        BY <2>1, <2>2, SameThread
<1>4. Circle'
    BY <1>t DEF Circle, threads
<1>5. Running'
    <2>1. left[on].eip = Code(on) /\ gpr = left[on].gpr
        BY <1>t DEF Running
    <2> QED
        BY <1>3, <2>1 DEF Running
<1>6. RegistersKept' /\ PlaceKept'
    BY DEF RegistersKept, PlaceKept
<1> QED
    BY <1>3, <1>4, <1>5, <1>6 DEF IInv

(* An interrupted thread's registers lie under the stub's return address.  *)
LEMMA RegistersUnderStub ==
  ASSUME NEW t \in Thread, NEW f \in Word, NEW n \in {32, 33, 128}
  PROVE  \E x \in Seq(Word) :
           \A g : Interrupted(t, f, n, g) = x \o pushed(g) \o <<Stub>>
<1>1. Stubbed(t, f, n) \in Seq(Word)
    BY StubbedIs
<1>2. \A g : Interrupted(t, f, n, g) = Stubbed(t, f, n) \o pushed(g) \o <<Stub>>
    BY DEF Interrupted, Saved
<1> QED
    BY <1>1, <1>2

LEMMA OutgoingOfAll ==
  \A x \in Seq(Word), g \in [Reg -> Word], args \in Seq(Word) :
    Len(args) \in 1 .. 2 =>
      \A s \in Outgoing(x \o pushed(g) \o <<Stub>>, args) : Clobbered(s, x, g, Len(args))
BY OutgoingIs

Given(s, t, f, n, g, m) ==
  \E h \in [Reg -> Word] : s = Interrupted(t, f, n, h) /\ \A r \in Reg \ Hit(m) : h[r] = g[r]

(* The last call of a handler: what of the registers it may have written.  *)
LEMMA OutgoingLeaves ==
  ASSUME NEW t \in Thread, NEW f \in Word, NEW n \in {32, 33, 128}, NEW g \in [Reg -> Word],
         NEW args \in Seq(Word), Len(args) \in 1 .. 2,
         NEW s \in Outgoing(Interrupted(t, f, n, g), args)
  PROVE  Given(s, t, f, n, g, Len(args))
<1>1. PICK x \in Seq(Word) : \A e : Interrupted(t, f, n, e) = x \o pushed(e) \o <<Stub>>
    BY RegistersUnderStub
<1>2. s \in Outgoing(x \o pushed(g) \o <<Stub>>, args)
    BY <1>1, Zenon
<1>3. Clobbered(s, x, g, Len(args))
    BY <1>2, OutgoingOfAll
<1>4. PICK h \in [Reg -> Word] :
        s = x \o pushed(h) \o <<Stub>> /\ \A r \in Reg \ Hit(Len(args)) : h[r] = g[r]
    BY <1>3 DEF Clobbered
<1>5. s = Interrupted(t, f, n, h)
    BY <1>1, <1>4, Zenon
<1> QED
    BY <1>4, <1>5 DEF Given

LEMMA LeavingWith ==
  ASSUME NEW t \in Thread, NEW l \in LeftType, NEW n \in {32, 33, 128},
         NEW args \in Seq(Word), NEW m \in 1 .. 2, Len(args) = m, KeptBy(n) = Reg \ Hit(m),
         NEW s \in Outgoing(Interrupted(t, l.eflags, n, l.gpr), args)
  PROVE  s \in Seq(Word) /\ Leaving(t, l, s)
<1> DEFINE f == l.eflags
           g == l.gpr
<1>1. g \in [Reg -> Word] /\ f \in Word
    BY LeftIs
<1>2. s \in Outgoing(Interrupted(t, f, n, g), args)
    OBVIOUS
<1> HIDE DEF f, g
<1>a. Len(args) \in 1 .. 2
    OBVIOUS
<1>b. Given(s, t, f, n, g, Len(args))
    BY <1>1, <1>2, <1>a, OutgoingLeaves
<1>3. PICK h \in [Reg -> Word] :
        s = Interrupted(t, f, n, h) /\ \A r \in Reg \ Hit(Len(args)) : h[r] = g[r]
    BY <1>b DEF Given
<1>4. s \in Seq(Word)
    BY <1>1, <1>3, InterruptedIs
<1>5. \A r \in KeptBy(n) : h[r] = g[r]
    BY <1>3
<1> QED
    BY <1>3, <1>4, <1>5 DEF Leaving, g, f

(* Nothing that the timer's handler does reaches the saved registers.      *)
LEMMA Handler32Step == ASSUME IInv, Handler32 PROVE IInv'
<1> DEFINE s == stack[on]
<1>t. TypeOK /\ Circle /\ Running
    BY DEF IInv
<1>1. at = "handler" /\ s = Interrupted(on, left[on].eflags, 32, left[on].gpr)
    BY Handled DEF Handler32
<1>2. /\ at' = (IF matrix_active THEN "yield" ELSE "return") /\ UNCHANGED matrix_active
      /\ UNCHANGED <<threads, on, stack, gpr, eip, cs, eflags, left, back>>
    BY DEF Handler32, cpu, ghosts
<1>3. /\ s \in Seq(Word) /\ stack' = [stack EXCEPT ![on] = s]
      /\ left[on].gpr \in [Reg -> Word] /\ matrix_active \in BOOLEAN
    BY <1>t, <1>2, Types, LeftIs DEF TypeOK
<1>4. Leaving(on, left[on], s) /\ InKernel(on, left[on], s, gpr)
    BY <1>1, <1>3 DEF Leaving, InKernel
<1>5. matrix_active => DOMAIN next_thread # {Main} /\ Kernel \subseteq DOMAIN next_thread
    BY <1>t, ContextAssumption DEF Circle, Tasks
<1> HIDE DEF s
<1> QED
    BY <1>1, <1>2, <1>3, <1>4, <1>5, HandlerStep

LEMMA Handler33Step == ASSUME IInv, Handler33 PROVE IInv'
<1>t. TypeOK /\ Circle
    BY DEF IInv
<1>1. at = "handler" /\ stack[on] = Interrupted(on, left[on].eflags, 33, left[on].gpr)
    BY Handled DEF Handler33
<1>2. /\ matrix_active' \in {FALSE, matrix_active, on = Main /\ Kernel \subseteq DOMAIN next_thread}
      /\ at' = "return" /\ UNCHANGED <<threads, on, gpr, eip, cs, eflags, left, back>>
    BY DEF Handler33, ghosts
<1>3. PICK s \in Outgoing(stack[on], <<Num(33)>>) : stack' = [stack EXCEPT ![on] = s]
    BY DEF Handler33
<1>4. s \in Seq(Word) /\ Leaving(on, left[on], s)
    <2>1. <<Num(33)>> \in Seq(Word) /\ Len(<<Num(33)>>) = 1
        <3>1. Num(33) \in Word
            BY Words
        <3> QED
            BY <3>1
    <2>2. KeptBy(33) = Reg \ Hit(1)
        BY Hits DEF KeptBy
    <2>3. on \in Thread /\ left[on] \in LeftType
        BY <1>t, Types
    <2> DEFINE args == <<Num(33)>>
    <2>4. args \in Seq(Word) /\ Len(args) = 1 /\ s \in Outgoing(stack[on], args)
        BY <2>1, <1>3
    <2> HIDE DEF args
    <2> QED
        BY <1>1, <2>2, <2>3, <2>4, LeavingWith
<1>5. matrix_active' \in BOOLEAN /\ (matrix_active' => Kernel \subseteq DOMAIN next_thread)
    BY <1>t, <1>2 DEF TypeOK, Circle
<1> QED
    BY <1>1, <1>2, <1>3, <1>4, <1>5, HandlerStep

LEMMA PrintStringLeaves ==
  ASSUME IInv, Act(128), NEW string \in Word, PrintString(string)
  PROVE  /\ at' = "return"
         /\ \E s \in Seq(Word) : stack' = [stack EXCEPT ![on] = s] /\ Leaving(on, left[on], s)
<1>1. stack[on] = Interrupted(on, left[on].eflags, 128, left[on].gpr)
    BY Handled
<1> DEFINE args == <<Num(0), string>>
<1>2. args \in Seq(Word) /\ Len(args) = 2
    <2>1. Num(0) \in Word
        BY Words
    <2> QED
        BY <2>1
<1>3. PICK s \in Outgoing(stack[on], args) : stack' = [stack EXCEPT ![on] = s]
    BY DEF PrintString
<1> HIDE DEF args
<1>4. KeptBy(128) = Reg \ Hit(2)
    BY Hits DEF KeptBy
<1>5. s \in Seq(Word) /\ Leaving(on, left[on], s)
    <2>1. on \in Thread /\ left[on] \in LeftType
        BY Types DEF IInv
    <2> QED
        BY <1>1, <1>2, <1>3, <1>4, <2>1, LeavingWith
<1> QED
    BY <1>3, <1>5 DEF PrintString

(* The fields of cpu_state are the caller's registers.                     *)
LEMMA StateIs ==
  ASSUME IInv, Act(128)
  PROVE  /\ CpuState(stack[on]).eax = left[on].gpr["eax"] /\ CpuState(stack[on]).ebx = left[on].gpr["ebx"]
         /\ left[on].gpr["ebx"] \in Word
<1>1. on \in Thread /\ left[on].gpr \in [Reg -> Word] /\ left[on].eflags \in Word
    BY Types, LeftIs DEF IInv
<1>2. stack[on] = Interrupted(on, left[on].eflags, 128, left[on].gpr)
    BY Handled
<1>3. At(stack[on], 7) = left[on].gpr["eax"] /\ At(stack[on], 6) = left[on].gpr["ebx"]
    BY <1>1, <1>2, InterruptedIs
<1>4. "ebx" \in Reg
    <2>1. Order[2] = "ebx"
        BY DEF Order
    <2> QED
        BY <2>1, Places
<1> QED
    BY <1>1, <1>3, <1>4 DEF CpuState

LEMMA Handler128Step == ASSUME IInv, Handler128 PROVE IInv'
<1> DEFINE state == CpuState(stack[on])
<1>t. TypeOK /\ Circle
    BY DEF IInv
<1>a. Act(128)
    BY DEF Handler128
<1>1. /\ at = "handler" /\ on # Main
      /\ stack[on] = Interrupted(on, left[on].eflags, 128, left[on].gpr)
    BY <1>a, Handled
<1>2. UNCHANGED <<matrix_active, threads, on, gpr, eip, cs, eflags, left, back>>
    BY DEF Handler128
<1>3. /\ matrix_active' \in BOOLEAN /\ (matrix_active' => Kernel \subseteq DOMAIN next_thread)
      /\ stack[on] \in Seq(Word) /\ on \in DOMAIN next_thread
      /\ left[on].gpr \in [Reg -> Word]
    BY <1>t, <1>2, Types, LeftIs DEF TypeOK, Circle
<1>s. state.ebx \in Word /\ <<"unknown">> \in Word
    BY <1>a, StateIs, Words
<1> HIDE DEF state
<1>4. \/ PrintString(state.ebx) \/ PrintString(<<"unknown">>)
      \/ at' \in {"return", "yield"} /\ UNCHANGED stack
    BY DEF Handler128, state
<1>5. ASSUME NEW string \in Word, PrintString(string) PROVE IInv'
    <2>1. /\ at' = "return"
          /\ \E s \in Seq(Word) : stack' = [stack EXCEPT ![on] = s] /\ Leaving(on, left[on], s)
        BY <1>a, <1>5, PrintStringLeaves
    <2>2. PICK s \in Seq(Word) : stack' = [stack EXCEPT ![on] = s] /\ Leaving(on, left[on], s)
        BY <2>1
    <2> QED
        BY <1>1, <1>2, <1>3, <2>1, <2>2, HandlerStep
<1>6. ASSUME at' \in {"return", "yield"}, UNCHANGED stack PROVE IInv'
    <2> DEFINE s == stack[on]
    <2>1. s \in Seq(Word) /\ stack' = [stack EXCEPT ![on] = s]
        BY <1>t, <1>3, <1>6 DEF TypeOK
    <2>2. Leaving(on, left[on], s) /\ InKernel(on, left[on], s, gpr)
        BY <1>1, <1>3 DEF Leaving, InKernel
    <2>3. DOMAIN next_thread # {Main}
        BY <1>1, <1>3
    <2> HIDE DEF s
    <2> QED
        BY <1>1, <1>2, <1>3, <1>6, <2>1, <2>2, <2>3, HandlerStep
<1> QED
    BY <1>s, <1>4, <1>5, <1>6

-----------------------------------------------------------------------------
(* switch_task reads its arguments back, finds new's stack whole, and      *)
(* leaves the stack s behind.                                              *)
Switch(new, s) ==
  /\ new \in DOMAIN next_thread /\ new # on
  /\ s = Asleep(on, stack[on], esp[new], Scratched)
  /\ current_thread' = new /\ on' = new
  /\ esp' = [esp EXCEPT ![on] = Address(on, Len(s))]
  /\ stack' = [stack EXCEPT ![on] = s, ![new] = Pop(stack[new], 8)]
  /\ gpr' = popped(stack[new])
  /\ IF At(stack[new], 7) = Yielded
     THEN at' = "return" /\ eip' = eip /\ back' = "not"
     ELSE at' = "code" /\ eip' = At(stack[new], 7) /\ back' = "entered"
  /\ UNCHANGED <<matrix_active, next_thread, cs, eflags, left>>

LEMMA ScratchedIs ==
  ASSUME TypeOK
  PROVE  Scratched \in [Reg -> Word] /\ \A r \in CalleeSaved : Scratched[r] = gpr[r]
<1>1. gpr \in [Reg -> Word] /\ EspOf(current_thread) \in Word /\ Unused \in Word
    BY Types, Words
<1> DEFINE a == EspOf(current_thread)
<1>2. Scratched = [gpr EXCEPT !["eax"] = a, !["edx"] = Unused]
    BY DEF Scratched
<1>3. a \in Word
    BY <1>1
<1> HIDE DEF a
<1>4. Scratched \in [Reg -> Word]
    BY <1>1, <1>2, <1>3
<1>5. CalleeSaved \subseteq Reg
    <2>1. Order[2] = "ebx" /\ Order[5] = "esi" /\ Order[6] = "edi" /\ Order[7] = "ebp"
        BY DEF Order
    <2>2. "ebx" \in Reg /\ "esi" \in Reg /\ "edi" \in Reg /\ "ebp" \in Reg
        BY <2>1, Places
    <2> QED
        BY <2>2 DEF CalleeSaved
<1>6. \A r \in CalleeSaved : Scratched[r] = gpr[r]
    <2>1. \A r \in CalleeSaved : r \in Reg /\ r # "eax" /\ r # "edx"
        BY <1>5 DEF CalleeSaved
    <2> QED
        BY <1>1, <1>2, <2>1
<1> QED
    BY <1>4, <1>6

LEMMA Switches == ASSUME IInv, thread_yield PROVE \E new, s : Switch(new, s)
<1>t. TypeOK /\ Circle /\ Running
    BY DEF IInv
<1> DEFINE new == next_thread[current_thread]
           s   == stack[on] \o <<esp[new], EspOf(current_thread), Yielded>> \o pushed(Scratched)
           to  == At(s, 9)
           load == SubSeq(stack[to[2]], 1, to[3])
<1>1. /\ at = "yield" /\ current_thread' = new
      /\ esp' = [esp EXCEPT ![At(s, 8)[2]] = Address(on, Len(s))]
      /\ on' = to[2] /\ stack' = [stack EXCEPT ![on] = s, ![to[2]] = Pop(load, 8)]
      /\ gpr' = popped(load)
      /\ IF At(load, 7) = Yielded
         THEN at' = "return" /\ eip' = eip /\ back' = "not"
         ELSE at' = "code" /\ eip' = At(load, 7) /\ back' = "entered"
      /\ UNCHANGED <<matrix_active, next_thread, cs, eflags, left>>
    BY Zenon DEF thread_yield
<1>2. on \in Thread /\ on \in DOMAIN next_thread /\ on = current_thread /\ stack[on] \in Seq(Word)
    BY <1>t, Types
<1>3. new \in DOMAIN next_thread /\ new # on /\ stack[new] \in Seq(Word)
    <2>1. new \in DOMAIN next_thread
        BY <1>2, <1>t DEF TypeOK
    <2>2. new # on
        BY <1>1, <1>2, <1>t, NobodyAlone DEF Circle
    <2> QED
        BY <1>t, <2>1, <2>2, Types
<1>4. esp[new] = Address(new, Len(stack[new])) /\ esp[new] \in Word
    BY <1>t, <1>3 DEF TypeOK
<1>5. s = Asleep(on, stack[on], esp[new], Scratched)
    BY <1>2 DEF Asleep, Calling
<1>g. Scratched \in [Reg -> Word]
    BY <1>t, ScratchedIs
<1> HIDE DEF new, s
<1>6. At(s, 8) = EspOf(on) /\ At(s, 9) = esp[new]
    <2>1. on \in Thread /\ stack[on] \in Seq(Word) /\ esp[new] \in Word
        BY <1>2, <1>4
    <2> QED
        BY <1>5, <1>g, <2>1, AsleepIs
<1>7. At(s, 8)[2] = on /\ to[2] = new /\ to[3] = Len(stack[new])
    BY <1>4, <1>6, Written
<1>8. load = stack[new]
    BY <1>3, <1>7, SubSeqFull
<1> HIDE DEF to, load
<1>9. Switch(new, s)
    BY <1>1, <1>3, <1>5, <1>7, <1>8 DEF Switch
<1> QED
    BY <1>9

(* The thread that comes back either begins, or goes on in thread_yield.   *)
LEMMA SwitchedTo ==
  ASSUME IInv, NEW new, NEW s, Switch(new, s)
  PROVE  /\ stack'[new] = Pop(stack[new], 8) /\ stack'[new] \in Seq(Word)
         /\ gpr' \in [Reg -> Word] /\ eip' \in Word
         /\ \/ /\ at' = "code" /\ back' = "entered"
               /\ stack'[new] = Base(new) /\ eip' = Code(new)
            \/ /\ at' = "return" /\ back' = "not"
               /\ Resumed(new, left[new], stack'[new], gpr')
<1>t. TypeOK /\ Others
    BY DEF IInv
<1>1. new \in Thread /\ new \in DOMAIN next_thread /\ new \in DOMAIN stack /\ new # on /\ eip \in Word
    BY <1>t, Types DEF Switch, TypeOK
<1>2. stack'[new] = Pop(stack[new], 8)
    BY <1>1 DEF Switch
<1>s. /\ gpr' = popped(stack[new])
      /\ IF At(stack[new], 7) = Yielded
         THEN at' = "return" /\ eip' = eip /\ back' = "not"
         ELSE at' = "code" /\ eip' = At(stack[new], 7) /\ back' = "entered"
    BY DEF Switch
<1> DEFINE x == stack[new]
<1>3. Suspended(new, left[new], x)
    BY <1>t, <1>1 DEF Others
<1> HIDE DEF x
<1>4. CASE x = Forged(new)
    <2>1. popped(x) = Registers0 /\ At(x, 7) = Code(new) /\ Pop(x, 8) = Base(new)
        BY <1>1, <1>4, ForgedIs
    <2>2. Registers0 \in [Reg -> Word] /\ Code(new) \in Word /\ Base(new) \in Seq(Word)
        <3>1. Num(0) \in Word /\ Code(new) \in Word
            BY <1>1, Words
        <3> QED
            BY <1>1, <3>1, BaseIs DEF Registers0
    <2>3. Code(new) # Yielded
        BY Apart
    <2> QED
        BY <1>2, <1>s, <2>1, <2>2, <2>3 DEF x
<1>5. ASSUME NEW c \in Seq(Word), NEW a \in Word, NEW g \in [Reg -> Word],
             x = Asleep(new, c, a, g), InKernel(new, left[new], c, g)
      PROVE  /\ stack'[new] \in Seq(Word) /\ gpr' \in [Reg -> Word] /\ eip' \in Word
             /\ at' = "return" /\ back' = "not" /\ Resumed(new, left[new], stack'[new], gpr')
    <2>1. popped(x) = g /\ At(x, 7) = Yielded /\ Pop(x, 8) = Returning(new, c, a)
        BY <1>1, <1>5, AsleepIs
    <2>2. Returning(new, c, a) \in Seq(Word)
        BY <1>1, ReturningIs
    <2>3. Resumed(new, left[new], Returning(new, c, a), g)
        BY <1>5 DEF Resumed
    <2> QED
        BY <1>1, <1>2, <1>s, <2>1, <2>2, <2>3 DEF x
<1> QED
    BY <1>2, <1>3, <1>4, <1>5 DEF Suspended

(* The thread that stays behind can be switched to again.                  *)
LEMMA SwitchedFrom ==
  ASSUME IInv, at = "yield", NEW new, NEW s, Switch(new, s)
  PROVE  s \in Seq(Word) /\ Address(on, Len(s)) \in Word /\ Suspended(on, left[on], s)
<1>t. TypeOK /\ Running
    BY DEF IInv
<1>1. on \in Thread /\ left[on] \in LeftType /\ stack[on] \in Seq(Word) /\ esp[new] \in Word
    BY <1>t, Types DEF Switch, TypeOK
<1>2. s = Asleep(on, stack[on], esp[new], Scratched)
    BY DEF Switch
<1>3. InKernel(on, left[on], stack[on], gpr) /\ gpr = left[on].gpr
    BY <1>t DEF Running
<1>4. Scratched \in [Reg -> Word] /\ \A r \in CalleeSaved : Scratched[r] = gpr[r]
    BY <1>t, ScratchedIs
<1>5. InKernel(on, left[on], stack[on], Scratched)
    BY <1>3, <1>4 DEF InKernel
<1> DEFINE d == Len(stack[on])
           e == Len(s)
<1>6. d \in 0 .. 17
    BY <1>1, <1>3, InKernelIs
<1>7. s \in Seq(Word) /\ e = d + 10
    BY <1>1, <1>2, <1>4, AsleepIs
<1> HIDE DEF d, e
<1>8. e \in 0 .. Deepest
    BY <1>6, <1>7 DEF Deepest
<1>9. Address(on, e) \in Word
    BY <1>1, <1>8, Words
<1>10. Suspended(on, left[on], s)
    BY <1>1, <1>2, <1>4, <1>5 DEF Suspended
<1> QED
    BY <1>7, <1>9, <1>10 DEF e

LEMMA SwitchStep == ASSUME IInv, at = "yield", NEW new, NEW s, Switch(new, s) PROVE IInv'
<1> DEFINE D == DOMAIN next_thread
<1>t. TypeOK /\ Circle /\ Others /\ Running
    BY DEF IInv
<1>1. /\ s \in Seq(Word) /\ Address(on, Len(s)) \in Word /\ Suspended(on, left[on], s)
      /\ left[on].eip = Code(on)
    BY <1>t, SwitchedFrom DEF Running
<1>2. /\ stack'[new] \in Seq(Word) /\ gpr' \in [Reg -> Word] /\ eip' \in Word
      /\ \/ /\ at' = "code" /\ back' = "entered"
            /\ stack'[new] = Base(new) /\ eip' = Code(new)
         \/ /\ at' = "return" /\ back' = "not"
            /\ Resumed(new, left[new], stack'[new], gpr')
    BY SwitchedTo
<1>3. /\ new \in D /\ new # on /\ on \in D /\ on' = new /\ current_thread' = new
      /\ DOMAIN stack = D /\ DOMAIN esp = D
      /\ UNCHANGED <<matrix_active, next_thread, cs, eflags, left>>
    BY <1>t, Types DEF Switch, TypeOK
<1>4. /\ DOMAIN stack' = D /\ stack'[on] = s /\ \A u \in D \ {on, new} : stack'[u] = stack[u]
      /\ DOMAIN esp' = D /\ esp'[on] = Address(on, Len(s)) /\ \A u \in D \ {on} : esp'[u] = esp[u]
    BY <1>3 DEF Switch
<1>5. TypeOK'
    <2>1. \A u \in D : esp[u] \in Word /\ stack[u] \in Seq(Word)
        BY <1>t, <1>3 DEF TypeOK
    <2>2. \A u \in D : esp'[u] \in Word /\ stack'[u] \in Seq(Word)
        BY <1>1, <1>2, <1>4, <2>1
    <2>3. esp' \in [D -> Word] /\ stack' \in [D -> Seq(Word)]
        <3>1. esp' = [u \in D |-> esp'[u]] /\ stack' = [u \in D |-> stack'[u]]
            BY <1>3 DEF Switch
        <3> QED
            BY <2>2, <3>1
    <2>4. \A u \in D \ {new} : esp'[u] = Address(u, Len(stack'[u]))
        <3>1. \A u \in D \ {on} : esp[u] = Address(u, Len(stack[u]))
            BY <1>t, <1>3 DEF TypeOK
        <3> QED
            BY <1>4, <3>1
    <2>5. /\ matrix_active \in BOOLEAN /\ eflags \in {Enabled, Disabled} /\ cs = KernelCode
          /\ {Main} \subseteq D /\ D \subseteq Thread
          /\ \A T \in (SUBSET D) \ {{}} : (\A u \in T : next_thread[u] \in T) => T = D
          /\ next_thread \in [D -> D]
          /\ left \in [Thread -> [gpr : [Reg -> Word], stack : Seq(Word), eip : Word,
                                  eflags : {Enabled, Disabled}]]
        BY <1>t DEF TypeOK
    <2>6. at' \in {"code", "handler", "yield", "return"}
        BY <1>2
    <2>7. DOMAIN next_thread' = D
        BY <1>3
    <2> HIDE DEF D
    <2> QED
        BY <1>2, <1>3, <1>4, <2>3, <2>4, <2>5, <2>6, <2>7 DEF TypeOK
<1>6. Circle'
    BY <1>t, <1>2, <1>3 DEF Circle
<1>7. Others'
    <2>1. \A u \in D :
            /\ left[u].stack = Base(u)
            /\ u # on => Suspended(u, left[u], stack[u]) /\ left[u].eip = Code(u)
        BY <1>t DEF Others
    <2> HIDE DEF D
    <2>2. ASSUME NEW u \in D
          PROVE  /\ left[u].stack = Base(u)
                 /\ u # new => Suspended(u, left[u], stack'[u]) /\ left[u].eip = Code(u)
        <3>1. CASE u = on
            BY <1>1, <1>4, <2>1, <3>1
        <3>2. CASE u # on
            BY <1>4, <2>1, <3>2
        <3> QED
            BY <3>1, <3>2
    <2> QED
        BY <1>3, <2>2 DEF Others, D
<1>8. left[new].eip = Code(new) /\ left[new].stack = Base(new)
    BY <1>t, <1>3 DEF Others
<1>9. Running'
    BY <1>2, <1>3, <1>8 DEF Running
<1>10. RegistersKept' /\ PlaceKept'
    BY <1>2, <1>3, <1>8 DEF RegistersKept, PlaceKept, Kept
<1> QED
    BY <1>5, <1>6, <1>7, <1>9, <1>10 DEF IInv

LEMMA ThreadYieldStep == ASSUME IInv, thread_yield PROVE IInv'
<1>1. at = "yield"
    BY DEF thread_yield
<1>2. \E new, s : Switch(new, s)
    BY Switches
<1> QED
    BY <1>1, <1>2, SwitchStep

-----------------------------------------------------------------------------
(* A step on the way back, with y left on the running thread's stack.      *)
LEMMA ReturnStep ==
  ASSUME IInv, at = "return", at' \in {"code", "return"},
         UNCHANGED <<matrix_active, threads, on, left>>,
         NEW y \in Seq(Word), stack' = [stack EXCEPT ![on] = y],
         gpr' \in [Reg -> Word], eip' \in Word, cs' = KernelCode, eflags' \in {Enabled, Disabled},
         at' = "return" => Leaving(on, left[on], y),
         at' = "code" => /\ y = Base(on) /\ eip' = Code(on)
                         /\ \A r \in Kept' : gpr'[r] = left[on].gpr[r]
                         /\ back' \notin {"yielded", "entered"} => eflags' = left[on].eflags
  PROVE  IInv'
<1>t. TypeOK /\ Circle /\ Others /\ Running
    BY DEF IInv
<1>1. left[on].stack = Base(on) /\ left[on].eip = Code(on)
    BY <1>t, Types DEF Others, Running
<1>2. TypeOK' /\ Others' /\ stack'[on] = y
    <2>1. left' \in [Thread -> LeftType] /\ matrix_active' \in BOOLEAN
        BY <1>t DEF TypeOK, LeftType
    <2>2. left'[on].stack = Base(on) /\ \A u \in Thread \ {on} : left'[u] = left[u]
        BY <1>1
    <2>3. at' \in {"code", "handler", "yield", "return"}
        OBVIOUS
    <2> QED
        BY <2>1, <2>2, <2>3, SameThread
<1>3. Circle'
    BY <1>t DEF Circle, threads
<1>4. Running'
    BY <1>1, <1>2 DEF Running
<1>5. RegistersKept'
    BY DEF RegistersKept
<1>6. PlaceKept'
    BY <1>1, <1>2 DEF PlaceKept
<1> QED
    BY <1>2, <1>3, <1>4, <1>5, <1>6 DEF IInv

LEMMA EpilogueStep == ASSUME IInv, Epilogue PROVE IInv'
<1>t. TypeOK /\ Running
    BY DEF IInv
<1> DEFINE c == Pop(stack[on], 2)
<1>1. /\ at = "return" /\ At(stack[on], 0) = EspOf(on)
      /\ UNCHANGED <<matrix_active, threads, on, gpr, cs, eflags, left>>
      /\ IF At(c, 0) = Stub
         THEN stack' = [stack EXCEPT ![on] = c] /\ UNCHANGED <<eip, at, back>>
         ELSE /\ stack' = [stack EXCEPT ![on] = Pop(c, 1)] /\ eip' = At(c, 0)
              /\ at' = "code" /\ back' = "yielded"
    BY DEF Epilogue
<1>2. /\ on \in Thread /\ left[on] \in LeftType /\ left[on].gpr \in [Reg -> Word]
      /\ left[on].eflags \in Word /\ gpr \in [Reg -> Word] /\ eip \in Word
      /\ cs = KernelCode /\ eflags \in {Enabled, Disabled}
    BY <1>t, Types, LeftIs DEF TypeOK
<1>3. ~ Leaving(on, left[on], stack[on])
    <2>1. ASSUME NEW n \in {32, 33, 128}, NEW g \in [Reg -> Word],
                 stack[on] = Interrupted(on, left[on].eflags, n, g)
          PROVE  FALSE
        <3>1. At(stack[on], 0) = Stub
            BY <1>2, <2>1, InterruptedIs
        <3> QED
            BY <1>1, <3>1, Apart
    <2> QED
        BY <2>1 DEF Leaving
<1>4. PICK d \in Seq(Word), a \in Word :
        stack[on] = Returning(on, d, a) /\ InKernel(on, left[on], d, gpr)
    BY <1>1, <1>3, <1>t DEF Running, Resumed
<1>5. c = d
    BY <1>2, <1>4, ReturningIs
<1> HIDE DEF c
<1>6. CASE d = Called(on) /\ \A r \in CalleeSaved : gpr[r] = left[on].gpr[r]
    <2>1. At(c, 0) = Code(on) /\ Pop(c, 1) = Base(on) /\ At(c, 0) # Stub
        BY <1>2, <1>5, <1>6, CalledIs, Apart
    <2>2. Base(on) \in Seq(Word) /\ Code(on) \in Word
        BY <1>2, BaseOfAll, Words
    <2>3. /\ stack' = [stack EXCEPT ![on] = Base(on)] /\ eip' = Code(on)
          /\ at' = "code" /\ back' = "yielded"
        BY <1>1, <2>1
    <2>4. \A r \in Kept' : gpr'[r] = left[on].gpr[r]
        BY <1>1, <1>6, <2>3 DEF Kept
    <2> QED
        BY <1>1, <1>2, <2>2, <2>3, <2>4, ReturnStep
<1>7. ASSUME NEW n \in {32, 128}, d = Interrupted(on, left[on].eflags, n, left[on].gpr)
      PROVE  IInv'
    <2>1. At(c, 0) = Stub
        BY <1>2, <1>5, <1>7, InterruptedIs
    <2>2. stack' = [stack EXCEPT ![on] = d] /\ UNCHANGED <<eip, at, back>>
        BY <1>1, <1>5, <2>1
    <2>3. Leaving(on, left[on], d)
        BY <1>2, <1>7 DEF Leaving
    <2> QED
        BY <1>1, <1>2, <2>2, <2>3, ReturnStep
<1> QED
    BY <1>4, <1>6, <1>7 DEF InKernel

LEMMA IretStep == ASSUME IInv, common_interrupt_handler PROVE IInv'
<1>t. TypeOK /\ Running
    BY DEF IInv
<1> DEFINE s == Pop(stack[on], 1)
           f == Pop(s, 9)
           l == left[on]
<1>1. /\ at = "return" /\ At(stack[on], 0) = Stub
      /\ gpr' = popped(s) /\ eip' = At(f, 0) /\ cs' = At(f, 1)[2] /\ eflags' = At(f, 2)
      /\ stack' = [stack EXCEPT ![on] = Pop(f, 3)] /\ at' = "code"
      /\ back' = CASE At(s, 7) = Num(32) -> "timer"
                   [] At(s, 7) = Num(33) -> "keyboard"
                   [] OTHER -> "system call"
      /\ UNCHANGED <<matrix_active, threads, on, left>>
    BY Zenon DEF common_interrupt_handler
<1>2. /\ on \in Thread /\ l \in LeftType /\ l.eflags \in Word /\ l.eflags \in {Enabled, Disabled}
    BY <1>t, Types, LeftIs
<1>3. ~ Resumed(on, l, stack[on], gpr)
    <2>1. ASSUME NEW d \in Seq(Word), NEW a \in Word, stack[on] = Returning(on, d, a) PROVE FALSE
        <3>1. At(stack[on], 0) = EspOf(on)
            BY <1>2, <2>1, ReturningIs
        <3> QED
            BY <1>1, <3>1, Apart
    <2> QED
        BY <2>1 DEF Resumed
<1>4. PICK n \in {32, 33, 128}, g \in [Reg -> Word] :
        stack[on] = Interrupted(on, l.eflags, n, g) /\ \A r \in KeptBy(n) : g[r] = l.gpr[r]
    BY <1>1, <1>3, <1>t DEF Running, Leaving
<1>5. s = Saved(on, l.eflags, n, g)
    BY <1>2, <1>4, InterruptedIs
<1> HIDE DEF s
<1>6. popped(s) = g /\ At(s, 7) = Num(n) /\ f = Gate(on, l.eflags)
    BY <1>2, <1>5, SavedIs
<1> HIDE DEF f
<1>7. At(f, 0) = Code(on) /\ At(f, 1) = Num(KernelCode) /\ At(f, 2) = l.eflags /\ Pop(f, 3) = Base(on)
    BY <1>2, <1>6, GateIs
<1>8. Base(on) \in Seq(Word) /\ Code(on) \in Word
    BY <1>2, BaseOfAll, Words
<1>9. /\ stack' = [stack EXCEPT ![on] = Base(on)] /\ gpr' = g /\ eip' = Code(on)
      /\ cs' = KernelCode /\ eflags' = l.eflags
    <2>1. Num(KernelCode)[2] = KernelCode
        BY Written
    <2> QED
        BY <1>1, <1>6, <1>7, <2>1, Zenon
<1>10. Kept' = KeptBy(n)
    <2>1. \A m : Num(n) = Num(m) => n = m
        BY Apart
    <2>2. back' = CASE n = 32 -> "timer" [] n = 33 -> "keyboard" [] OTHER -> "system call"
        BY <1>1, <1>6, <2>1
    <2>3. CASE n = 32
        BY <2>2, <2>3 DEF Kept, KeptBy
    <2>4. CASE n = 33
        BY <2>2, <2>4 DEF Kept, KeptBy
    <2>5. CASE n = 128
        <3>0. n # 32 /\ n # 33
            BY <2>5
        <3>1. back' = "system call"
            BY <2>2, <3>0, Zenon
        <3>2. KeptBy(n) = Reg \ {"ebp", "edi"}
            BY <2>5 DEF KeptBy
        <3> QED
            BY <3>1, <3>2, KeptAfterIs
    <2> QED
        BY <2>3, <2>4, <2>5
<1>11. \A r \in Kept' : gpr'[r] = left[on].gpr[r]
    BY <1>4, <1>9, <1>10
<1> HIDE DEF l
<1> QED
    BY <1>1, <1>2, <1>4, <1>8, <1>9, <1>11, ReturnStep DEF l

-----------------------------------------------------------------------------
LEMMA StutterStep == ASSUME IInv, UNCHANGED vars PROVE IInv'
<1>1. UNCHANGED <<matrix_active, current_thread, next_thread, esp, on, stack, gpr, eip, cs, eflags,
                  at, left, back, served>>
    BY DEF vars, threads, cpu, ghosts
<1>2. TypeOK'
    BY <1>1 DEF IInv, TypeOK
<1>3. Circle' /\ Others'
    BY <1>1 DEF IInv, Circle, Others
<1>4. Running'
    BY <1>1 DEF IInv, Running
<1>5. RegistersKept' /\ PlaceKept'
    BY <1>1 DEF IInv, RegistersKept, PlaceKept, Kept
<1> QED
    BY <1>2, <1>3, <1>4, <1>5 DEF IInv

LEMMA Step == ASSUME IInv, [Next]_vars PROVE IInv'
<1>1. ASSUME NEW v \in Value, Work(v) PROVE IInv'
    BY <1>1, WorkStep
<1>2. ASSUME NEW t \in Tasks, create_thread(t) \/ create_user_thread(t) PROVE IInv'
    <2>1. Link(t, Forged(t))
        BY <1>2, CreateIsLink
    <2> QED
        BY <2>1, LinkStep
<1>3. CASE Yield
    BY <1>3, YieldStep
<1>4. ASSUME NEW call \in 1 .. 4, NEW v \in Value, SystemCall(call, v) PROVE IInv'
    BY <1>4, SystemCallStep
<1>5. ASSUME NEW n \in {32, 33}, Interrupt(n) PROVE IInv'
    BY <1>5, InterruptStep
<1>6. CASE Handler32
    BY <1>6, Handler32Step
<1>7. CASE Handler33
    BY <1>7, Handler33Step
<1>8. CASE Handler128
    BY <1>8, Handler128Step
<1>9. CASE thread_yield
    BY <1>9, ThreadYieldStep
<1>10. CASE Epilogue
    BY <1>10, EpilogueStep
<1>11. CASE common_interrupt_handler
    BY <1>11, IretStep
<1>12. CASE UNCHANGED vars
    BY <1>12, StutterStep
<1> QED
    BY <1>1, <1>2, <1>3, <1>4, <1>5, <1>6, <1>7, <1>8, <1>9, <1>10, <1>11, <1>12 DEF Next

LEMMA Invariance == Spec => []IInv
<1>1. Init => IInv
    BY InitHolds
<1>2. IInv /\ [Next]_vars => IInv'
    BY Step
<1> QED
    BY <1>1, <1>2, PTL DEF Spec

(* Every thread but the one that runs has saved the end of its stack; the  *)
(* circle of threads is closed; and every word that an interrupt, a forged *)
(* stack or GCC puts on a stack is one that the code can account for.      *)
THEOREM TypeCorrect == Spec => []TypeOK
<1>1. IInv => TypeOK
    BY DEF IInv
<1> QED
    BY <1>1, Invariance, PTL

(* A thread gets back the registers it had, however many others have run   *)
(* and whatever the kernel has pushed in between: all of them after a tick,*)
(* all but EBP after a key, and those that C relies on after thread_yield. *)
THEOREM RegistersComeBack == Spec => []RegistersKept
<1>1. IInv => RegistersKept
    BY DEF IInv
<1> QED
    BY <1>1, Invariance, PTL

(* Every way through the kernel takes off the stack what it has put on it, *)
(* and comes back to the instruction it came from with the interrupts on   *)
(* that were on.                                                           *)
THEOREM PlaceComesBack == Spec => []PlaceKept
<1>1. IInv => PlaceKept
    BY DEF IInv
<1> QED
    BY <1>1, Invariance, PTL

(* The system call that interrupt_handler serves is the one that the task  *)
(* had in eax and ebx: struct cpu_state lies over the pushes of            *)
(* common_interrupt_handler.                                               *)
THEOREM TheCallIsTheCallers == Spec => SystemCallServed
<1>1. ASSUME IInv, Handler128 PROVE served' = Asked(left[on].gpr)
    <2> DEFINE state == CpuState(stack[on])
    <2>1. Act(128)
        BY <1>1 DEF Handler128
    <2>2. state.eax = left[on].gpr["eax"] /\ state.ebx = left[on].gpr["ebx"]
        BY <1>1, <2>1, StateIs
    <2>3. Num(1) # Num(2) /\ Num(1) # Num(3) /\ Num(2) # Num(3)
        BY Apart
    <2>4. \/ state.eax = Num(1) /\ served' = <<"print", state.ebx>>
          \/ state.eax = Num(2) /\ served' = <<"read">>
          \/ state.eax = Num(3) /\ served' = <<"yield">>
          \/ state.eax \notin {Num(1), Num(2), Num(3)} /\ served' = <<"print", <<"unknown">>>>
        BY <1>1 DEF Handler128, PrintString
    <2> HIDE DEF state
    <2> QED
        BY <2>2, <2>3, <2>4 DEF Asked
<1>2. IInv /\ [Next]_vars => [Handler128 => served' = Asked(left[on].gpr)]_vars
    BY <1>1
<1> QED
    BY <1>2, Invariance, PTL DEF Spec, SystemCallServed
=============================================================================
