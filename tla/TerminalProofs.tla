--------------------------- MODULE TerminalProofs ---------------------------
(***************************************************************************)
(* The line being edited stands left of the cursor, for every screen, line *)
(* length, prompt and set of texts.  printf goes through a text character  *)
(* by character; what it does is proved from the shortest text that would  *)
(* be an exception.                                                        *)
(***************************************************************************)
EXTENDS Terminal, Integers, WellFoundedInduction, NaturalsInduction, TLAPS

Visible == Letter \union {Tab, Digit} \union ToSet(Prompt)

(* What is echoed, printed by a task or stands in the prompt is shown: no  *)
(* colour code (the Tab key, if it is pressed, is one) and no new line.    *)
Echoed == Visible \intersect (ColourCode \union {Newline}) = {}

Code   == Char \union {Newline}
Screen == [cells : [Cell -> Char], pos : 0 .. SIZE]

(* ShownLeft on any screen.                                                *)
Shows(s, text) ==
  /\ Len(text) <= s.pos
  /\ \A k \in 1 .. Len(text) : s.cells[s.pos - Len(text) + k - 1] = text[k]

(* more is less with c behind it.                                          *)
Longer(less, more, c) ==
  /\ less \in Seq(Char) /\ more \in Seq(Char)
  /\ Len(more) = Len(less) + 1 /\ more[Len(more)] = c
  /\ \A k \in 1 .. Len(less) : more[k] = less[k]

-----------------------------------------------------------------------------
LEMMA Least ==
  ASSUME NEW T, T \subseteq Nat, T # {}
  PROVE  \E x \in T : \A y \in T : x <= y
<1> DEFINE R == {ss \in Nat \X Nat : ss[1] < ss[2]}
<1>1. OpToRel(<, Nat) = R
    BY DEF OpToRel
<1>2. IsWellFoundedOn(R, Nat)
    BY <1>1, NatLessThanWellFounded, Zenon
<1>3. \A x \in T, y \in T : <<y, x>> \in R <=> y < x
    OBVIOUS
<1> HIDE DEF R
<1>4. PICK x \in T : \A y \in T : ~ (<<y, x>> \in R)
    BY <1>2, WFMin, Zenon
<1>5. \A y \in T : ~ (y < x)
    BY <1>3, <1>4
<1> QED
    BY <1>5

(* Where the cursor is when the screen has scrolled.                       *)
LastRow == (ROWS - 1) * COLS

LEMMA Sizes ==
  /\ SIZE \in Nat \ {0} /\ LastRow \in Nat /\ COLS \in Nat \ {0}
  /\ SIZE = LastRow + COLS
  /\ WORD \in Nat /\ WORD > SIZE
  /\ Len(Prompt) + NTasks + BUFFER_MAX <= LastRow
BY ConsoleAssumption, TerminalAssumption DEF SIZE, LastRow

(* A new line begins inside the screen or right below it.                  *)
LEMMA NewRow ==
  ASSUME NEW i \in Nat, i < SIZE
  PROVE  (i \div COLS + 1) * COLS \in 0 .. SIZE
<1> DEFINE r == i \div COLS
<1>1. r \in Nat /\ r * COLS <= i
    BY ConsoleAssumption
<1>2. r * COLS < ROWS * COLS
    BY <1>1, ConsoleAssumption DEF SIZE
<1> HIDE DEF r
<1>3. r + 1 <= ROWS
    BY <1>1, <1>2, ConsoleAssumption
<1>4. (r + 1) * COLS <= ROWS * COLS /\ (r + 1) * COLS \in Nat
    BY <1>1, <1>3, ConsoleAssumption
<1> QED
    BY <1>4, Sizes DEF SIZE, r

LEMMA ScrolledScreen ==
  ASSUME NEW s \in Screen
  PROVE  /\ Scrolled(s) \in Screen /\ Scrolled(s).pos < SIZE
         /\ Scrolled(s).pos = LastRow
         /\ \A i \in Cell : i + COLS \in Cell => Scrolled(s).cells[i] = s.cells[i + COLS]
<1> DEFINE cells == [i \in Cell |-> IF i + COLS \in Cell THEN s.cells[i + COLS] ELSE Blank]
<1>1. cells \in [Cell -> Char]
    BY DEF Screen, Char
<1> QED
    BY <1>1, Sizes DEF Scrolled, Screen, LastRow

LEMMA WrittenCell ==
  ASSUME NEW s \in Screen, NEW i \in Cell, NEW c \in Char
  PROVE  /\ fb_write_cell(s, i, c) \in Screen
         /\ fb_write_cell(s, i, c).pos = s.pos
         /\ fb_write_cell(s, i, c).cells[i] = c
         /\ \A j \in Cell : j # i => fb_write_cell(s, i, c).cells[j] = s.cells[j]
BY DEF fb_write_cell, Screen

(* putchar, after the screen has scrolled if it must.                      *)
Ready(s) == IF s.pos >= SIZE THEN Scrolled(s) ELSE s

LEMMA ReadyScreen ==
  ASSUME NEW s \in Screen
  PROVE  Ready(s) \in Screen /\ Ready(s).pos \in Cell
BY ScrolledScreen, Sizes DEF Ready, Screen, Cell

LEMMA PutType ==
  ASSUME NEW s \in Screen, NEW c \in Code
  PROVE  putchar(s, c) \in Screen
<1> DEFINE t == Ready(s)
<1>1. t \in Screen /\ t.pos \in Cell
    BY ReadyScreen
<1>2. ASSUME NEW u \in Screen, NEW i \in 0 .. SIZE
      PROVE  [u EXCEPT !.pos = i] \in Screen
    BY DEF Screen
<1> HIDE DEF t
<1>3. [t EXCEPT !.pos = (t.pos \div COLS + 1) * COLS] \in Screen
    <2>1. t.pos \in Nat /\ t.pos < SIZE
        BY <1>1, Sizes DEF Cell
    <2>2. (t.pos \div COLS + 1) * COLS \in 0 .. SIZE
        BY <2>1, NewRow, Zenon
    <2> QED
        BY <1>1, <1>2, <2>2
<1>4. ASSUME c \in Char
      PROVE  [fb_write_cell(t, t.pos, c) EXCEPT !.pos = t.pos + 1] \in Screen
    <2>1. fb_write_cell(t, t.pos, c) \in Screen
        BY <1>1, <1>4, WrittenCell
    <2>2. t.pos + 1 \in 0 .. SIZE
        BY <1>1, Sizes DEF Cell
    <2> QED
        BY <1>2, <2>1, <2>2
<1> QED
    BY <1>1, <1>3, <1>4 DEF putchar, putchar_color, t, Ready, Code

LEMMA BeforeCursor ==
  ASSUME NEW p \in Nat, p < SIZE, NEW m \in Nat, m <= p, NEW k \in 1 .. m
  PROVE  /\ p - m + k - 1 \in Cell /\ p - m + k - 1 # p
         /\ p + 1 - (m + 1) + k - 1 = p - m + k - 1
<1>1. SIZE \in Nat
    BY Sizes
<1> QED
    BY <1>1 DEF Cell

(* A visible character is shown behind the text that was.                  *)
LEMMA PutShows ==
  ASSUME NEW s \in Screen, NEW c \in Char, c \notin ColourCode \union {Newline},
         NEW text, NEW more, Longer(text, more, c),
         Len(text) <= LastRow, Shows(s, text)
  PROVE  Shows(putchar(s, c), more)
<1> DEFINE t == Ready(s)
           w == fb_write_cell(t, t.pos, c)
           L == Len(text)
<1>0. /\ text \in Seq(Char) /\ more \in Seq(Char)
      /\ Len(more) = L + 1 /\ more[Len(more)] = c
      /\ \A k \in 1 .. L : more[k] = text[k]
    BY DEF Longer
<1>1. t \in Screen /\ t.pos \in Cell
    BY ReadyScreen
<1>2. Shows(t, text)
    <2>1. CASE s.pos >= SIZE
        <3>1. s.pos = SIZE /\ t = Scrolled(s)
            BY <2>1, Sizes DEF Ready, Screen
        <3>2. t.pos = SIZE - COLS /\ L \in Nat /\ L <= SIZE - COLS
            BY <3>1, ScrolledScreen, Sizes
        <3>3. ASSUME NEW k \in 1 .. L PROVE t.cells[t.pos - L + k - 1] = text[k]
            <4>1. /\ t.pos - L + k - 1 \in Cell
                  /\ t.pos - L + k - 1 + COLS = s.pos - L + k - 1
                  /\ s.pos - L + k - 1 \in Cell
                BY <3>1, <3>2, Sizes DEF Cell
            <4> QED
                BY <3>1, <4>1, ScrolledScreen DEF Shows
        <3> QED
            BY <3>2, <3>3 DEF Shows
    <2>2. CASE ~ (s.pos >= SIZE)
        BY <2>2 DEF Ready
    <2> QED
        BY <2>1, <2>2
<1> HIDE DEF t
<1>3. /\ w \in Screen /\ w.pos = t.pos /\ w.cells[t.pos] = c
      /\ \A j \in Cell : j # t.pos => w.cells[j] = t.cells[j]
    BY <1>1, WrittenCell
<1>4. putchar(s, c) = [w EXCEPT !.pos = t.pos + 1]
    BY DEF putchar, putchar_color, t, Ready
<1> HIDE DEF w
<1>5. putchar(s, c).pos = t.pos + 1 /\ putchar(s, c).cells = w.cells
    BY <1>3, <1>4 DEF Screen
<1>6. L \in Nat /\ t.pos \in Nat /\ L <= t.pos /\ t.pos < SIZE
    BY <1>1, <1>2, Sizes DEF Shows, Cell
<1>7. ASSUME NEW k \in 1 .. L + 1
      PROVE  putchar(s, c).cells[t.pos + 1 - (L + 1) + k - 1] = more[k]
    <2>1. CASE k = L + 1
        BY <1>0, <1>3, <1>5, <1>6, <2>1
    <2>2. CASE k # L + 1
        <3>1. k \in 1 .. L
            BY <1>6, <2>2
        <3>2. /\ t.pos - L + k - 1 \in Cell /\ t.pos - L + k - 1 # t.pos
              /\ t.pos + 1 - (L + 1) + k - 1 = t.pos - L + k - 1
            BY <1>6, <3>1, BeforeCursor
        <3>3. t.cells[t.pos - L + k - 1] = text[k] /\ text[k] = more[k]
            BY <1>0, <1>2, <3>1 DEF Shows
        <3> QED
            BY <1>3, <1>5, <3>2, <3>3
    <2> QED
        BY <2>1, <2>2
<1>8. Len(more) = L + 1 /\ Len(more) <= putchar(s, c).pos
    BY <1>0, <1>5, <1>6
<1>9. ASSUME NEW k \in 1 .. Len(more)
      PROVE  putchar(s, c).cells[putchar(s, c).pos - Len(more) + k - 1] = more[k]
    <2>1. k \in 1 .. L + 1
        BY <1>8
    <2>2. putchar(s, c).pos - Len(more) = t.pos + 1 - (L + 1)
        BY <1>5, <1>6, <1>8
    <2> QED
        BY <1>7, <2>1, <2>2
<1> QED
    BY <1>8, <1>9 DEF Shows

LEMMA OneBack ==
  ASSUME NEW n \in Nat \ {0}, NEW m \in Nat, n < m
  PROVE  (n + m - 1) % m = n - 1
OBVIOUS

(* A backspace takes away the last character shown.                        *)
LEMMA RubOutShows ==
  ASSUME NEW s \in Screen, NEW D, NEW text \in Seq(D), NEW less \in Seq(D),
         Len(text) = Len(less) + 1,
         \A k \in 1 .. Len(less) : less[k] = text[k],
         Shows(s, text)
  PROVE  RubOut(s) \in Screen /\ Shows(RubOut(s), less)
<1> DEFINE i == (s.pos + WORD - 1) % WORD
           w == fb_write_cell(s, i, Blank)
           L == Len(less)
<1>1. s.pos \in 0 .. SIZE /\ L \in Nat /\ L + 1 <= s.pos
    BY DEF Screen, Shows
<1>2. i = s.pos - 1
    <2>1. s.pos \in Nat \ {0} /\ WORD \in Nat /\ s.pos < WORD
        BY <1>1, Sizes
    <2> QED
        BY <2>1, OneBack, Zenon
<1>3. i \in Cell
    BY <1>1, <1>2, Sizes DEF Cell
<1> HIDE DEF i
<1>4. /\ w \in Screen /\ w.pos = s.pos
      /\ \A j \in Cell : j # i => w.cells[j] = s.cells[j]
    BY <1>3, WrittenCell DEF Char
<1>5. RubOut(s) = [w EXCEPT !.pos = i]
    BY DEF RubOut, i
<1> HIDE DEF w
<1>6. RubOut(s) \in Screen /\ RubOut(s).pos = s.pos - 1 /\ RubOut(s).cells = w.cells
    <2>1. i \in 0 .. SIZE
        BY <1>3, Sizes DEF Cell
    <2> QED
        BY <1>2, <1>4, <1>5, <2>1 DEF Screen
<1>7. i \in Nat /\ i < SIZE /\ L <= i /\ s.pos = i + 1
    BY <1>1, <1>2, Sizes
<1>8. ASSUME NEW k \in 1 .. L
      PROVE  RubOut(s).cells[i - L + k - 1] = less[k]
    <2>1. /\ i - L + k - 1 \in Cell /\ i - L + k - 1 # i
          /\ i + 1 - (L + 1) + k - 1 = i - L + k - 1
        BY <1>1, <1>7, BeforeCursor
    <2>2. k \in 1 .. L + 1
        BY <1>1
    <2>3. s.cells[i + 1 - (L + 1) + k - 1] = text[k] /\ text[k] = less[k]
        BY <1>7, <2>2 DEF Shows
    <2> QED
        BY <1>4, <1>6, <2>1, <2>3
<1> QED
    BY <1>1, <1>2, <1>6, <1>7, <1>8 DEF Shows

-----------------------------------------------------------------------------
(* printf, character by character.                                         *)
LEMMA Printing ==
  ASSUME NEW s \in Screen, NEW str \in Seq(Code)
  PROVE  /\ Printed(s, str) \in [1 .. Len(str) + 1 -> Screen]
         /\ Printed(s, str)[1] = s
         /\ \A n \in 1 .. Len(str) : Printed(s, str)[n + 1] = putchar(Printed(s, str)[n], str[n])
<1> DEFINE Runs(g, m) == /\ g \in [1 .. m -> Screen]
                         /\ g[1] = s
                         /\ \A n \in 2 .. m : g[n] = putchar(g[n - 1], str[n - 1])
           Bad == {m \in Nat : 1 <= m /\ m <= Len(str) + 1 /\ ~ \E g : Runs(g, m)}
<1>1. Bad = {}
    <2> SUFFICES ASSUME Bad # {} PROVE FALSE
        OBVIOUS
    <2>1. PICK m \in Bad : \A y \in Bad : m <= y
        BY Least
    <2>2. CASE m = 1
        <3>1. Runs([n \in 1 .. 1 |-> s], 1)
            OBVIOUS
        <3> QED
            BY <2>1, <2>2, <3>1
    <2>3. CASE m # 1
        <3>1. m \in Nat /\ m - 1 \in Nat /\ 1 <= m - 1 /\ m - 1 <= Len(str)
            BY <2>1, <2>3
        <3>2. m - 1 \notin Bad
            <4> HIDE DEF Bad
            <4> QED
                BY <2>1, <3>1
        <3>3. PICK g : Runs(g, m - 1)
            <4> HIDE DEF Runs
            <4> QED
                BY <3>1, <3>2
        <3> DEFINE h == [n \in 1 .. m |-> IF n = m THEN putchar(g[m - 1], str[m - 1]) ELSE g[n]]
        <3>4. m - 1 \in 1 .. Len(str) /\ str[m - 1] \in Code /\ g[m - 1] \in Screen
            BY <3>1, <3>3
        <3>5. putchar(g[m - 1], str[m - 1]) \in Screen
            BY <3>4, PutType
        <3>6. h \in [1 .. m -> Screen]
            BY <3>1, <3>3, <3>5
        <3>7. h[1] = s /\ \A n \in 2 .. m : h[n] = putchar(h[n - 1], str[n - 1])
            BY <3>1, <3>3
        <3>8. Runs(h, m)
            BY <3>6, <3>7
        <3> QED
            BY <2>1, <3>8
    <2> QED
        BY <2>2, <2>3
<1>2. PICK g : Runs(g, Len(str) + 1)
    <2>1. Len(str) + 1 \in Nat /\ 1 <= Len(str) + 1 /\ Len(str) + 1 \notin Bad
        BY <1>1
    <2> HIDE DEF Runs
    <2> QED
        BY <2>1
<1>3. g = [n \in 1 .. Len(str) + 1 |-> IF n = 1 THEN s ELSE putchar(g[n - 1], str[n - 1])]
    BY <1>2
<1>4. Printed(s, str) = [n \in 1 .. Len(str) + 1 |->
        IF n = 1 THEN s ELSE putchar(Printed(s, str)[n - 1], str[n - 1])]
    BY <1>3 DEF Printed
<1> DEFINE f == Printed(s, str)
<1> HIDE DEF f
<1>5. f = [n \in 1 .. Len(str) + 1 |-> IF n = 1 THEN s ELSE putchar(f[n - 1], str[n - 1])]
    BY <1>4 DEF f
<1>6. f[1] = s /\ \A n \in 2 .. Len(str) + 1 : f[n] = putchar(f[n - 1], str[n - 1])
    BY <1>5
<1> DEFINE Odd == {m \in Nat : 1 <= m /\ m <= Len(str) + 1 /\ f[m] \notin Screen}
<1>7. Odd = {}
    <2> SUFFICES ASSUME Odd # {} PROVE FALSE
        OBVIOUS
    <2>1. PICK m \in Odd : \A y \in Odd : m <= y
        BY Least
    <2>2. m # 1
        BY <1>6, <2>1
    <2>3. m - 1 \in 1 .. Len(str) /\ str[m - 1] \in Code /\ f[m - 1] \in Screen
        BY <2>1, <2>2
    <2> QED
        BY <1>6, <2>1, <2>3, PutType
<1>8. f \in [1 .. Len(str) + 1 -> Screen]
    <2>1. \A n \in 1 .. Len(str) + 1 : f[n] \in Screen
        BY <1>7
    <2>2. f = [n \in 1 .. Len(str) + 1 |-> f[n]]
        BY <1>5
    <2> QED
        BY <2>1, <2>2
<1>9. ASSUME NEW n \in 1 .. Len(str) PROVE f[n + 1] = putchar(f[n], str[n])
    <2>1. n + 1 \in 2 .. Len(str) + 1 /\ (n + 1) - 1 = n
        OBVIOUS
    <2> QED
        BY <1>6, <2>1
<1> QED
    BY <1>6, <1>8, <1>9 DEF f

LEMMA PrintType ==
  ASSUME NEW s \in Screen, NEW str \in Seq(Code)
  PROVE  printf(s, str) \in Screen
BY Printing DEF printf

LEMMA Texts ==
  /\ \A text \in {Prompt, Banner, Report, Complaint, Starting, Halted} :
       text \in Seq(Char) /\ text \in Seq(Code)
  /\ Prompt \in Seq(ToSet(Prompt))
  /\ <<Newline>> \in Seq(Code) /\ <<>> \in Seq(Code)
<1>1. ASSUME NEW text \in {Prompt, Banner, Report, Complaint, Starting, Halted}
      PROVE  text \in Seq(Char) /\ text \in Seq(Code)
    <2>1. text \in Seq(ToSet(text)) /\ ToSet(text) \subseteq Char
        BY TerminalAssumption DEF Char
    <2> HIDE DEF ToSet
    <2> QED
        BY <2>1 DEF Code
<1> QED
    BY <1>1, TerminalAssumption DEF Code

(* The prompt is shown where it was printed.                               *)
LEMMA PromptShown ==
  ASSUME Echoed, NEW s \in Screen
  PROVE  Shows(printf(s, Prompt), Prompt)
<1> DEFINE f == Printed(s, Prompt)
           L == Len(Prompt)
           Bad == {m \in Nat : m <= L /\ ~ Shows(f[m + 1], SubSeq(Prompt, 1, m))}
<1>1. /\ \A n \in 1 .. L + 1 : f[n] \in Screen
      /\ f[1] = s
      /\ \A n \in 1 .. L : f[n + 1] = putchar(f[n], Prompt[n])
    BY Texts, Printing
<1> HIDE DEF f
<1>2. Prompt \in Seq(Char) /\ L \in Nat
    BY Texts
<1>3. Bad = {}
    <2> SUFFICES ASSUME Bad # {} PROVE FALSE
        OBVIOUS
    <2>1. PICK m \in Bad : \A y \in Bad : m <= y
        BY Least
    <2>2. m # 0
        <3>1. Shows(s, SubSeq(Prompt, 1, 0))
            BY <1>2 DEF Shows, Screen
        <3> QED
            BY <1>1, <2>1, <3>1
    <2>3. m \in 1 .. L /\ m - 1 \in Nat /\ m - 1 <= L /\ m - 1 + 1 = m
        BY <2>1, <2>2
    <2>4. Shows(f[m], SubSeq(Prompt, 1, m - 1))
        BY <2>1, <2>3
    <2> DEFINE text == SubSeq(Prompt, 1, m - 1)
               more == SubSeq(Prompt, 1, m)
    <2>5. Len(text) = m - 1 /\ Longer(text, more, Prompt[m])
        BY <1>2, <2>3 DEF Longer
    <2>6. Prompt[m] \in Char /\ Prompt[m] \notin ColourCode \union {Newline}
        <3>1. Prompt[m] \in ToSet(Prompt)
            BY <1>2, <2>3 DEF ToSet
        <3> QED
            BY <1>2, <2>3, <3>1 DEF Echoed, Visible
    <2>7. f[m] \in Screen
        BY <1>1, <2>3
    <2>8. Shows(f[m], text) /\ Len(text) <= LastRow
        BY <1>2, <2>3, <2>4, <2>5, Sizes, TerminalAssumption
    <2> HIDE DEF text, more
    <2>9. Shows(putchar(f[m], Prompt[m]), more)
        BY <2>5, <2>6, <2>7, <2>8, PutShows
    <2> QED
        BY <1>1, <2>1, <2>3, <2>9 DEF more
<1>4. Shows(f[L + 1], SubSeq(Prompt, 1, L))
    BY <1>2, <1>3
<1>5. SubSeq(Prompt, 1, L) = Prompt
    BY <1>2
<1> QED
    BY <1>4, <1>5 DEF printf, f

-----------------------------------------------------------------------------
(* The line on the screen: prompt, digits that came late, and the input.   *)
Line(start, n, input) == start \o Digits(n) \o input

Start == IF booted THEN Prompt ELSE <<>>

Shown == \E n \in 0 .. NTasks - printing : Shows(screen, Line(Start, n, input_buffer))

LEMMA ShownNext ==
  ASSUME NEW n \in Nat, n <= NTasks - printing', NTasks - printing' \in Nat,
         NEW start, start = Start', NEW input, input = input_buffer',
         Shows(screen', Line(start, n, input))
  PROVE  Shown'
BY DEF Shown

Types ==
  /\ screen \in Screen
  /\ input_buffer \in Seq(Letter \union {Tab}) /\ Len(input_buffer) < BUFFER_MAX
  /\ shell_active \in BOOLEAN /\ matrix_active \in BOOLEAN /\ booted \in BOOLEAN
  /\ printing \in 0 .. NTasks

(* The show runs in a booted shell with no line, and so do its last digits. *)
Order ==
  /\ matrix_active => shell_active
  /\ matrix_active \/ printing > 0 => booted /\ input_buffer = <<>>

IInv == Types /\ Order /\ (~ matrix_active => Shown)

LEMMA Concatenation ==
  ASSUME NEW D, NEW a \in Seq(D), NEW b \in Seq(D)
  PROVE  /\ a \o b \in Seq(D) /\ Len(a \o b) = Len(a) + Len(b)
         /\ \A k \in 1 .. Len(a) : (a \o b)[k] = a[k]
         /\ \A k \in 1 .. Len(b) : (a \o b)[Len(a) + k] = b[k]
OBVIOUS

LEMMA LineIs ==
  ASSUME NEW start \in {Prompt, <<>>}, NEW n \in Nat, NEW input \in Seq(Letter \union {Tab})
  PROVE  /\ start \in Seq(Char) /\ Len(start) \in 0 .. Len(Prompt)
         /\ start \o Digits(n) \in Seq(Char)
         /\ Len(start \o Digits(n)) = Len(start) + n
         /\ input \in Seq(Char)
         /\ Len(Digits(n)) = n
         /\ \A k \in 1 .. n : Digits(n)[k] = Digit
         /\ Digits(n) \in Seq(Char)
<1>1. start \in Seq(Char) /\ Len(start) \in 0 .. Len(Prompt)
    <2>1. Prompt \in Seq(Char) /\ Len(Prompt) \in Nat
        BY Texts
    <2>2. CASE start = Prompt
        BY <2>1, <2>2
    <2>3. CASE start = <<>>
        BY <2>1, <2>3
    <2> QED
        BY <2>2, <2>3
<1>2. /\ Digits(n) \in Seq(Char) /\ Len(Digits(n)) = n
      /\ \A k \in 1 .. n : Digits(n)[k] = Digit
    BY DEF Digits, Char
<1>3. input \in Seq(Char)
    BY DEF Char
<1>4. ASSUME NEW x \in Seq(Char)
      PROVE  start \o x \in Seq(Char) /\ Len(start \o x) = Len(start) + Len(x)
    BY <1>1
<1> QED
    BY <1>1, <1>2, <1>3, <1>4

(* One character more or less at the end.                                  *)
LEMMA EndOfLine ==
  ASSUME NEW a \in Seq(Char), NEW b, NEW c, NEW d, Longer(b, c, d)
  PROVE  Longer(a \o b, a \o c, d) /\ Len(a \o b) = Len(a) + Len(b)
<1>0. /\ b \in Seq(Char) /\ c \in Seq(Char)
      /\ Len(c) = Len(b) + 1 /\ c[Len(c)] = d
      /\ \A k \in 1 .. Len(b) : c[k] = b[k]
    BY DEF Longer
<1>1. /\ Len(a) \in Nat /\ Len(b) \in Nat
      /\ Len(a \o b) = Len(a) + Len(b) /\ Len(a \o c) = Len(a) + Len(c)
      /\ a \o b \in Seq(Char) /\ a \o c \in Seq(Char)
    BY <1>0
<1>2. (a \o c)[Len(a) + Len(c)] = d
    <2>1. Len(c) \in 1 .. Len(c)
        BY <1>0, <1>1
    <2> QED
        BY <1>0, <2>1, Concatenation
<1>3. ASSUME NEW k \in 1 .. Len(a) + Len(b) PROVE (a \o c)[k] = (a \o b)[k]
    <2>1. CASE k <= Len(a)
        BY <1>0, <2>1, Concatenation
    <2>2. CASE ~ (k <= Len(a))
        <3>1. k - Len(a) \in 1 .. Len(b) /\ k - Len(a) \in 1 .. Len(c)
            BY <1>0, <1>1, <2>2
        <3> QED
            BY <1>0, <1>1, <3>1
    <2> QED
        BY <2>1, <2>2
<1>4. Len(a \o c) = Len(a \o b) + 1
    BY <1>0, <1>1
<1> QED
    BY <1>1, <1>2, <1>3, <1>4 DEF Longer

LEMMA LineGrows ==
  ASSUME NEW start \in {Prompt, <<>>}, NEW n \in Nat,
         NEW input \in Seq(Letter \union {Tab}), NEW c \in Letter \union {Tab},
         NEW text, text = Line(start, n, input),
         NEW more, more = Line(start, n, Append(input, c))
  PROVE  Longer(text, more, c) /\ Len(text) <= Len(Prompt) + n + Len(input)
<1> DEFINE a == start \o Digits(n)
           z == Append(input, c)
<1>1. /\ z \in Seq(Letter \union {Tab}) /\ Len(z) = Len(input) + 1
      /\ z[Len(z)] = c
      /\ \A k \in 1 .. Len(input) : z[k] = input[k]
    OBVIOUS
<1>2. /\ a \in Seq(Char) /\ Len(a) <= Len(Prompt) + n /\ Len(a) \in Nat
      /\ input \in Seq(Char)
    <2>1. Len(Prompt) \in Nat
        BY Texts
    <2>2. /\ Len(start) \in 0 .. Len(Prompt) /\ input \in Seq(Char)
          /\ a \in Seq(Char) /\ Len(a) = Len(start) + n
        BY LineIs
    <2> QED
        BY <2>1, <2>2
<1>3. text = a \o input /\ more = a \o z
    BY DEF Line
<1> HIDE DEF a, z
<1>4. z \in Seq(Char)
    BY <1>1, LineIs
<1>5. Longer(input, z, c)
    BY <1>1, <1>2, <1>4 DEF Longer
<1>6. Longer(text, more, c) /\ Len(text) = Len(a) + Len(input)
    BY <1>2, <1>3, <1>5, EndOfLine
<1>7. Len(Prompt) \in Nat /\ Len(input) \in Nat
    BY Texts
<1> QED
    BY <1>2, <1>6, <1>7

LEMMA LineDigit ==
  ASSUME NEW start \in {Prompt, <<>>}, NEW n \in Nat,
         NEW text, text = Line(start, n, <<>>),
         NEW more, more = Line(start, n + 1, <<>>)
  PROVE  Longer(text, more, Digit) /\ Len(text) <= Len(Prompt) + n
<1>1. /\ start \in Seq(Char) /\ Len(start) \in 0 .. Len(Prompt)
      /\ Digits(n) \in Seq(Char) /\ Len(Digits(n)) = n
      /\ Digits(n + 1) \in Seq(Char) /\ Len(Digits(n + 1)) = n + 1
      /\ Digits(n + 1)[n + 1] = Digit
      /\ \A k \in 1 .. n : Digits(n + 1)[k] = Digits(n)[k]
      /\ start \o Digits(n) \in Seq(Char) /\ start \o Digits(n + 1) \in Seq(Char)
    <2>1. <<>> \in Seq(Letter \union {Tab}) /\ n + 1 \in Nat
        OBVIOUS
    <2>2. /\ start \in Seq(Char) /\ Len(start) \in 0 .. Len(Prompt)
          /\ Digits(n) \in Seq(Char) /\ Len(Digits(n)) = n
          /\ \A k \in 1 .. n : Digits(n)[k] = Digit
          /\ start \o Digits(n) \in Seq(Char)
        BY <2>1, LineIs
    <2>3. /\ Digits(n + 1) \in Seq(Char) /\ Len(Digits(n + 1)) = n + 1
          /\ \A k \in 1 .. n + 1 : Digits(n + 1)[k] = Digit
          /\ start \o Digits(n + 1) \in Seq(Char)
        BY <2>1, LineIs
    <2> QED
        BY <2>2, <2>3
<1>2. text = start \o Digits(n) /\ more = start \o Digits(n + 1)
    BY <1>1 DEF Line
<1> DEFINE x == Digits(n)
           z == Digits(n + 1)
<1> HIDE DEF x, z
<1>3. /\ Longer(x, z, Digit) /\ Len(x) = n
      /\ start \in Seq(Char) /\ Len(start) \in 0 .. Len(Prompt)
    BY <1>1 DEF x, z, Longer
<1>4. text = start \o x /\ more = start \o z
    BY <1>2 DEF x, z
<1>5. Longer(text, more, Digit) /\ Len(text) = Len(start) + n
    BY <1>3, <1>4, EndOfLine
<1>6. Len(Prompt) \in Nat
    BY Texts
<1> QED
    BY <1>3, <1>5, <1>6

LEMMA Shortened ==
  ASSUME NEW D, NEW input \in Seq(D), Len(input) # 0
  PROVE  /\ SubSeq(input, 1, Len(input) - 1) \in Seq(D)
         /\ Len(input) = Len(SubSeq(input, 1, Len(input) - 1)) + 1
         /\ \A k \in 1 .. Len(input) - 1 : SubSeq(input, 1, Len(input) - 1)[k] = input[k]
<1> DEFINE m == Len(input) - 1
           z == SubSeq(input, 1, m)
<1>1. m \in Nat /\ Len(input) = m + 1
    OBVIOUS
<1> HIDE DEF m
<1>2. z = [k \in 1 .. m |-> input[k]]
    BY <1>1
<1>3. \A k \in 1 .. m : input[k] \in D
    BY <1>1
<1>4. z \in [1 .. m -> D]
    BY <1>2, <1>3
<1>5. z \in Seq(D) /\ Len(z) = m
    BY <1>1, <1>4
<1> QED
    BY <1>1, <1>2, <1>5 DEF m

LEMMA LineShrinks ==
  ASSUME NEW start \in {Prompt, <<>>}, NEW n \in Nat,
         NEW input \in Seq(Letter \union {Tab}), NEW z \in Seq(Letter \union {Tab}),
         Len(input) = Len(z) + 1, \A k \in 1 .. Len(z) : input[k] = z[k],
         NEW text, text = Line(start, n, input),
         NEW less, less = Line(start, n, z)
  PROVE  /\ text \in Seq(Char) /\ less \in Seq(Char)
         /\ Len(text) = Len(less) + 1
         /\ \A k \in 1 .. Len(less) : less[k] = text[k]
<1> DEFINE a == start \o Digits(n)
<1>1. a \in Seq(Char) /\ input \in Seq(Char) /\ z \in Seq(Char)
    BY LineIs
<1>2. text = a \o input /\ less = a \o z
    BY DEF Line
<1> HIDE DEF a
<1>3. Longer(z, input, input[Len(input)])
    BY <1>1 DEF Longer
<1>4. Longer(less, text, input[Len(input)])
    BY <1>1, <1>2, <1>3, EndOfLine
<1> QED
    BY <1>4 DEF Longer

(* A fresh prompt is a line without input.                                 *)
LEMMA FreshLine ==
  ASSUME Echoed, NEW s \in Screen
  PROVE  /\ printf(s, Prompt) \in Screen
         /\ \A start \in {Prompt, <<>>} : Shows(printf(s, Prompt), Line(start, 0, <<>>))
<1>1. printf(s, Prompt) \in Screen /\ Shows(printf(s, Prompt), Prompt)
    BY PrintType, PromptShown, Texts
<1>2. Line(Prompt, 0, <<>>) = Prompt /\ Line(<<>>, 0, <<>>) = <<>>
    BY Texts DEF Line, Digits
<1>3. Shows(printf(s, Prompt), <<>>)
    BY <1>1 DEF Shows, Screen
<1> QED
    BY <1>1, <1>2, <1>3

LEMMA EmptyScreen == clear_screen \in Screen
BY Sizes DEF clear_screen, Screen, Cell, Char

-----------------------------------------------------------------------------
LEMMA Facts ==
  /\ NTasks \in Nat /\ BUFFER_MAX \in Nat \ {0, 1}
  /\ Start \in {Prompt, <<>>} /\ (booted => Start = Prompt)
BY TerminalAssumption DEF Start

(* What the buffer and the screen of a keystroke are.                      *)
LEMMA AtKey ==
  ASSUME IInv, printing = 0, ~ matrix_active
  PROVE  /\ input_buffer \in Seq(Letter \union {Tab})
         /\ screen \in Screen
         /\ \E n \in Nat : n <= NTasks /\ Shows(screen, Line(Start, n, input_buffer))
<1>1. Shown /\ Types
    BY DEF IInv
<1>2. NTasks - printing = NTasks
    BY Facts
<1> QED
    BY <1>1, <1>2, Facts DEF Shown, Types

LEMMA InitHolds == Init => IInv
<1> SUFFICES ASSUME Init PROVE IInv
    OBVIOUS
<1>1. screen \in Screen
    <2>1. LastRow \in 0 .. SIZE
        BY Sizes
    <2> QED
        BY <2>1, EmptyScreen DEF Init, Screen, LastRow
<1>2. Shown
    <2>1. Line(Start, 0, input_buffer) = <<>>
        BY DEF Line, Start, Digits, Init
    <2>2. Shows(screen, <<>>)
        BY <1>1 DEF Shows, Screen
    <2>3. printing = 0 /\ 0 \in 0 .. NTasks - printing
        BY Facts DEF Init
    <2> QED
        BY <2>1, <2>2, <2>3 DEF Shown
<1>3. <<>> \in Seq(Letter \union {Tab}) /\ Len(<<>>) = 0
    OBVIOUS
<1>4. Types
    <2>1. shell_active \in BOOLEAN /\ matrix_active \in BOOLEAN /\ booted \in BOOLEAN
        BY DEF Init
    <2>2. input_buffer = <<>> /\ printing = 0
        BY DEF Init
    <2> QED
        BY <1>1, <1>3, <2>1, <2>2, Facts DEF Types
<1>5. Order
    BY DEF Order, Init
<1> QED
    BY <1>2, <1>4, <1>5 DEF IInv

LEMMA init_terminalKeeps ==
  ASSUME Echoed, IInv, init_terminal
  PROVE  IInv'
<1>1. ~ matrix_active /\ printing = 0
    BY DEF IInv, Order, Types, init_terminal
<1>2. printf(clear_screen, Banner) \in Screen
    BY EmptyScreen, PrintType, Texts
<1>3. screen' \in Screen /\ Shows(screen', Line(Prompt, 0, <<>>))
    BY <1>2, FreshLine DEF init_terminal
<1>4. /\ input_buffer' = <<>> /\ booted' = TRUE /\ Start' = Prompt
      /\ printing' = 0 /\ ~ matrix_active' /\ shell_active'
    BY <1>1 DEF init_terminal, Start
<1>5. Shown'
    BY <1>3, <1>4, Facts, ShownNext
<1>6. <<>> \in Seq(Letter \union {Tab}) /\ Len(<<>>) = 0
    OBVIOUS
<1>7. shell_active' \in BOOLEAN /\ matrix_active' \in BOOLEAN
    BY DEF IInv, Types, init_terminal
<1> QED
    BY <1>3, <1>4, <1>5, <1>6, <1>7, Facts DEF IInv, Types, Order

LEMMA UnlockKeeps ==
  ASSUME IInv, Unlock
  PROVE  IInv'
<1>1. Types'
    BY DEF IInv, Types, Unlock
<1>2. Order'
    BY DEF IInv, Order, Unlock
<1>3. ~ matrix_active' => Shown'
    BY DEF IInv, Shown, Start, Unlock
<1> QED
    BY <1>1, <1>2, <1>3 DEF IInv

LEMMA OutputType ==
  ASSUME NEW s \in Screen, NEW cmd \in Seq(Letter \union {Tab})
  PROVE  CommandOutput(s, cmd) \in Screen
<1>1. cmd \in Seq(Code)
    BY DEF Code, Char
<1>2. printf(s, Complaint) \in Screen
    BY PrintType, Texts
<1>3. printf(printf(s, Complaint), cmd) \in Screen
    BY <1>1, <1>2, PrintType
<1>4. printf(printf(printf(s, Complaint), cmd), <<Newline>>) \in Screen
    BY <1>3, PrintType, Texts
<1>5. printf(s, Report) \in Screen /\ printf(s, Starting) \in Screen
    BY PrintType, Texts
<1> QED
    BY <1>4, <1>5, EmptyScreen DEF CommandOutput

LEMMA SubmitKeeps ==
  ASSUME Echoed, IInv, Submit, Patient("enter"), ~ matrix_active
  PROVE  IInv'
<1> DEFINE echoed == putchar(screen, Newline)
<1>1. echoed \in Screen
    BY PutType DEF IInv, Types, Code
<1>2. PICK s \in Screen : screen' = printf(s, Prompt)
    BY <1>1, OutputType DEF Submit, terminal_run_command, IInv, Types
<1>3. screen' \in Screen /\ \A start \in {Prompt, <<>>} : Shows(screen', Line(start, 0, <<>>))
    BY <1>2, FreshLine
<1>4. /\ matrix_active' \in BOOLEAN
      /\ matrix_active' => booted
    BY DEF Submit, terminal_run_command, Patient, IInv, Types
<1>5. /\ input_buffer' = <<>> /\ printing' = 0 /\ booted' = booted
      /\ Start' = Start /\ shell_active' = shell_active /\ shell_active
    BY DEF Submit, Patient, Start, IInv, Types
<1>6. Shown'
    BY <1>3, <1>5, Facts, ShownNext
<1>7. <<>> \in Seq(Letter \union {Tab}) /\ Len(<<>>) = 0
    OBVIOUS
<1>8. booted \in BOOLEAN /\ shell_active \in BOOLEAN
    BY DEF IInv, Types
<1>9. Types'
    BY <1>3, <1>4, <1>5, <1>7, <1>8, Facts DEF Types
<1>10. Order'
    BY <1>4, <1>5 DEF Order
<1> QED
    BY <1>6, <1>9, <1>10 DEF IInv

LEMMA BackspaceKeeps ==
  ASSUME IInv, Backspace, printing = 0, ~ matrix_active
  PROVE  IInv'
<1> DEFINE less == SubSeq(input_buffer, 1, Len(input_buffer) - 1)
<1>1. /\ input_buffer \in Seq(Letter \union {Tab})
      /\ less \in Seq(Letter \union {Tab}) /\ Len(less) < BUFFER_MAX
      /\ Len(input_buffer) = Len(less) + 1
      /\ \A k \in 1 .. Len(less) : input_buffer[k] = less[k]
    <2>1. input_buffer \in Seq(Letter \union {Tab}) /\ input_buffer # <<>>
        BY AtKey DEF Backspace
    <2>2. Len(input_buffer) # 0
        BY <2>1
    <2>3. /\ less \in Seq(Letter \union {Tab}) /\ Len(input_buffer) = Len(less) + 1
          /\ \A k \in 1 .. Len(input_buffer) - 1 : less[k] = input_buffer[k]
        BY <2>1, <2>2, Shortened
    <2>4. /\ less \in Seq(Letter \union {Tab}) /\ Len(input_buffer) = Len(less) + 1
          /\ \A k \in 1 .. Len(less) : input_buffer[k] = less[k]
        <3> HIDE DEF less
        <3> QED
            BY <2>1, <2>3
    <2>5. Len(input_buffer) < BUFFER_MAX
        BY DEF IInv, Types
    <2> HIDE DEF less
    <2>6. Len(less) \in Nat
        BY <2>4
    <2> QED
        BY <2>1, <2>4, <2>5, <2>6, <2>2, Facts
<1>2. PICK n \in Nat : n <= NTasks /\ Shows(screen, Line(Start, n, input_buffer))
    BY AtKey
<1>3. screen' \in Screen /\ Shows(screen', Line(Start, n, less))
    <2>1. Start \in {Prompt, <<>>} /\ screen \in Screen /\ screen' = RubOut(screen)
        BY AtKey, Facts DEF Backspace
    <2> DEFINE text == Line(Start, n, input_buffer)
               rest == Line(Start, n, less)
    <2>2. /\ text \in Seq(Char) /\ rest \in Seq(Char)
          /\ Len(text) = Len(rest) + 1
          /\ \A k \in 1 .. Len(rest) : rest[k] = text[k]
        <3>1. text = Line(Start, n, input_buffer)
            OBVIOUS
        <3>2. rest = Line(Start, n, less)
            OBVIOUS
        <3> HIDE DEF text, rest, less
        <3> QED
            BY <1>1, <2>1, <3>1, <3>2, LineShrinks
    <2> HIDE DEF text, rest
    <2>3. Shows(screen, text)
        BY <1>2 DEF text
    <2>4. RubOut(screen) \in Screen /\ Shows(RubOut(screen), rest)
        BY <2>1, <2>2, <2>3, RubOutShows
    <2> QED
        BY <2>1, <2>4 DEF rest
<1> HIDE DEF less
<1>4. input_buffer' = less
    BY DEF Backspace, less
<1>5. /\ printing' = 0 /\ Start' = Start /\ ~ matrix_active'
      /\ UNCHANGED <<shell_active, matrix_active, booted, printing>>
    BY DEF Backspace, Start
<1>6. Shown'
    BY <1>2, <1>3, <1>4, <1>5, Facts, ShownNext
<1>7. Types'
    BY <1>1, <1>3, <1>4, <1>5 DEF IInv, Types
<1>8. Order'
    BY <1>5 DEF Order
<1> QED
    BY <1>6, <1>7, <1>8 DEF IInv

LEMMA TypeKeeps ==
  ASSUME Echoed, IInv, NEW c \in Letter \union {Tab}, Type(c), printing = 0, ~ matrix_active
  PROVE  IInv'
<1> DEFINE input == Append(input_buffer, c)
<1>1. /\ input_buffer \in Seq(Letter \union {Tab}) /\ Len(input_buffer) < BUFFER_MAX - 1
      /\ input \in Seq(Letter \union {Tab}) /\ Len(input) < BUFFER_MAX
    <2>1. input_buffer \in Seq(Letter \union {Tab}) /\ Len(input_buffer) < BUFFER_MAX - 1
        BY AtKey DEF Type
    <2>2. input \in Seq(Letter \union {Tab}) /\ Len(input) = Len(input_buffer) + 1
        BY <2>1
    <2> QED
        BY <2>1, <2>2, Facts
<1>2. PICK n \in Nat : n <= NTasks /\ Shows(screen, Line(Start, n, input_buffer))
    BY AtKey
<1>3. c \in Char /\ c \notin ColourCode \union {Newline}
    BY DEF Echoed, Visible, Char
<1>4. screen' \in Screen /\ Shows(screen', Line(Start, n, input))
    <2>1. Start \in {Prompt, <<>>} /\ screen \in Screen /\ screen' = putchar(screen, c)
        BY AtKey, Facts DEF Type
    <2> DEFINE text == Line(Start, n, input_buffer)
               more == Line(Start, n, input)
    <2>2. Longer(text, more, c) /\ Len(text) <= Len(Prompt) + n + Len(input_buffer)
        <3>1. text = Line(Start, n, input_buffer)
            OBVIOUS
        <3>2. more = Line(Start, n, Append(input_buffer, c))
            OBVIOUS
        <3> HIDE DEF text, more, input
        <3> QED
            BY <1>1, <2>1, <3>1, <3>2, LineGrows
    <2> HIDE DEF text, more
    <2>3. Shows(screen, text)
        BY <1>2 DEF text
    <2>4. Len(text) <= LastRow
        <3>1. /\ Len(text) \in Nat /\ Len(input_buffer) \in Nat
              /\ Len(Prompt) \in Nat /\ LastRow \in Nat
            BY <1>1, <2>2, Sizes, Texts DEF Longer
        <3>2. n <= NTasks /\ Len(input_buffer) < BUFFER_MAX - 1
            BY <1>1, <1>2
        <3>3. Len(text) <= Len(Prompt) + n + Len(input_buffer)
            BY <2>2
        <3> QED
            BY <3>1, <3>2, <3>3, Sizes, Facts
    <2>5. Shows(putchar(screen, c), more)
        BY <1>3, <2>1, <2>2, <2>3, <2>4, PutShows
    <2>6. putchar(screen, c) \in Screen
        BY <1>3, <2>1, PutType DEF Code
    <2> QED
        BY <2>1, <2>5, <2>6 DEF more
<1> HIDE DEF input
<1>5. input_buffer' = input
    BY DEF Type, input
<1>6. /\ printing' = 0 /\ Start' = Start /\ ~ matrix_active'
      /\ UNCHANGED <<shell_active, matrix_active, booted, printing>>
    BY DEF Type, Start
<1>7. Shown'
    BY <1>2, <1>4, <1>5, <1>6, Facts, ShownNext
<1>8. Types'
    BY <1>1, <1>4, <1>5, <1>6 DEF IInv, Types
<1>9. Order'
    BY <1>6 DEF Order
<1> QED
    BY <1>7, <1>8, <1>9 DEF IInv

LEMMA StopShowKeeps ==
  ASSUME Echoed, IInv, StopShow
  PROVE  IInv'
<1>1. matrix_active /\ shell_active /\ booted /\ input_buffer = <<>>
    BY DEF StopShow, IInv, Order
<1>2. printf(clear_screen, Halted) \in Screen
    BY EmptyScreen, PrintType, Texts
<1>3. screen' \in Screen /\ Shows(screen', Line(Prompt, 0, <<>>))
    BY <1>1, <1>2, FreshLine DEF StopShow
<1>4. /\ input_buffer' = <<>> /\ Start' = Prompt /\ ~ matrix_active'
      /\ UNCHANGED <<input_buffer, shell_active, booted, printing>>
    BY <1>1 DEF StopShow, Start
<1>5. NTasks - printing' \in Nat /\ 0 <= NTasks - printing'
    BY <1>4, Facts DEF IInv, Types
<1>6. Shown'
    BY <1>3, <1>4, <1>5, ShownNext
<1>7. Types'
    BY <1>3, <1>4 DEF IInv, Types, StopShow
<1>8. Order'
    BY <1>1, <1>4 DEF Order
<1> QED
    BY <1>6, <1>7, <1>8 DEF IInv

LEMMA TaskTestKeeps ==
  ASSUME IInv, TaskTest
  PROVE  IInv'
BY TerminalAssumption DEF IInv, Types, Order, TaskTest

LEMMA TaskPrintKeeps ==
  ASSUME Echoed, IInv, TaskPrint
  PROVE  IInv'
<1>1. /\ screen \in Screen /\ booted /\ input_buffer = <<>> /\ Start = Prompt
      /\ screen' = putchar(screen, Digit)
      /\ printing \in 0 .. NTasks /\ printing > 0 /\ printing' = printing - 1
      /\ UNCHANGED <<input_buffer, shell_active, matrix_active, booted>>
    BY DEF IInv, Types, Order, TaskPrint, Start
<1>2. Digit \in Char /\ Digit \notin ColourCode \union {Newline}
    BY DEF Echoed, Visible, Char
<1>3. screen' \in Screen
    BY <1>1, <1>2, PutType DEF Code
<1>4. ASSUME ~ matrix_active PROVE Shown'
    <2>1. PICK n \in 0 .. NTasks - printing : Shows(screen, Line(Prompt, n, <<>>))
        BY <1>1, <1>4 DEF IInv, Shown
    <2>2. n \in Nat /\ n + 1 \in Nat /\ n + 1 <= NTasks - printing' /\ n <= NTasks
          /\ NTasks - printing' \in Nat
        BY <1>1, <2>1, Facts
    <2> DEFINE text == Line(Prompt, n, <<>>)
               more == Line(Prompt, n + 1, <<>>)
    <2>3. Longer(text, more, Digit) /\ Len(text) <= Len(Prompt) + n
        <3>1. text = Line(Prompt, n, <<>>) /\ more = Line(Prompt, n + 1, <<>>)
            OBVIOUS
        <3>2. Prompt \in {Prompt, <<>>} /\ n \in Nat
            BY <2>2
        <3> HIDE DEF text, more
        <3> QED
            BY <3>1, <3>2, LineDigit
    <2> HIDE DEF text, more
    <2>4. Shows(screen, text)
        BY <2>1 DEF text
    <2>5. Len(text) <= LastRow
        <3>1. Len(text) \in Nat /\ Len(Prompt) \in Nat
            BY <2>3, Texts DEF Longer
        <3> QED
            BY <2>2, <2>3, <3>1, Sizes, Facts
    <2>6. Shows(screen', more)
        BY <1>1, <1>2, <2>3, <2>4, <2>5, PutShows
    <2>7. Start' = Prompt /\ input_buffer' = <<>>
        BY <1>1 DEF Start
    <2> QED
        BY <2>2, <2>6, <2>7, ShownNext DEF more
<1>5. Types'
    BY <1>1, <1>3, Facts DEF IInv, Types
<1>6. Order'
    BY <1>1, Facts DEF IInv, Order
<1> QED
    BY <1>1, <1>4, <1>5, <1>6 DEF IInv

LEMMA StepHolds == Echoed /\ IInv /\ [Next]_vars => IInv'
<1> SUFFICES ASSUME Echoed, IInv, [Next]_vars PROVE IInv'
    OBVIOUS
<1>1. ASSUME NEW key \in Key, terminal_handle_scan(key) PROVE IInv'
    <2>1. CASE StopShow
        BY <2>1, StopShowKeeps
    <2>2. ASSUME ~ matrix_active, Patient(key), key = "enter", Unlock \/ Submit
          PROVE  IInv'
        BY <2>2, UnlockKeeps, SubmitKeeps
    <2>3. ASSUME ~ matrix_active, Patient(key), Backspace PROVE IInv'
        BY <2>3, BackspaceKeeps DEF Patient
    <2>4. ASSUME ~ matrix_active, Patient(key), key \in Letter \union {Tab}, Type(key)
          PROVE  IInv'
        BY <2>4, TypeKeeps DEF Patient
    <2> QED
        BY <1>1, <2>1, <2>2, <2>3, <2>4 DEF terminal_handle_scan
<1>2. CASE init_terminal
    BY <1>2, init_terminalKeeps
<1>3. CASE TaskTest
    BY <1>3, TaskTestKeeps
<1>4. CASE TaskPrint
    BY <1>4, TaskPrintKeeps
<1>5. CASE UNCHANGED vars
    BY <1>5 DEF vars, IInv, Types, Order, Shown, Start
<1> QED
    BY <1>1, <1>2, <1>3, <1>4, <1>5 DEF Next

(* terminal.c: what the theorems below rest on.  The show runs only in a   *)
(* booted shell, while no line is being edited, and until q has been hit   *)
(* nothing is claimed of the screen.                                       *)
THEOREM TerminalInvariant == ASSUME Echoed PROVE Spec => []IInv
<1>1. IInv /\ [Next]_vars => IInv'
    BY StepHolds
<1> QED
    BY <1>1, InitHolds, PTL DEF Spec

(* terminal.c:31-95: the cursor stays on the screen or right below it, and *)
(* the buffer keeps room for its terminating zero, however the user types. *)
THEOREM TypeCorrect == ASSUME Echoed PROVE Spec => []TypeOK
<1>1. IInv => TypeOK
    <2> SUFFICES ASSUME IInv PROVE TypeOK
        OBVIOUS
    <2>1. screen.cells \in [Cell -> Char] /\ screen.pos \in 0 .. SIZE
        BY DEF IInv, Types, Screen
    <2>2. input_buffer \in UNION {[1 .. n -> Letter \union {Tab}] : n \in 0 .. BUFFER_MAX - 1}
        <3>1. /\ Len(input_buffer) \in 0 .. BUFFER_MAX - 1
              /\ input_buffer \in [1 .. Len(input_buffer) -> Letter \union {Tab}]
            BY TerminalAssumption DEF IInv, Types
        <3> QED
            BY <3>1
    <2> QED
        BY <2>1, <2>2 DEF IInv, Types, TypeOK
<1> QED
    BY <1>1, TerminalInvariant, PTL

(* terminal.c:38-95, utils.c:24-50: what stands left of the cursor, behind *)
(* the prompt, is what Enter will run, for every screen, line and text.    *)
THEOREM LineStaysInSync == ASSUME Echoed PROVE Spec => []LineInSync
<1>1. IInv => LineInSync
    <2> SUFFICES ASSUME IInv, booted, ~ matrix_active
                 PROVE  \E n \in 0 .. NTasks - printing :
                          ShownLeft(Prompt \o Digits(n) \o input_buffer)
        BY DEF LineInSync
    <2>1. PICK n \in 0 .. NTasks - printing : Shows(screen, Line(Start, n, input_buffer))
        BY DEF IInv, Shown
    <2> QED
        BY <2>1 DEF Line, Start, Shows, ShownLeft
<1> QED
    BY <1>1, TerminalInvariant, PTL
=============================================================================
