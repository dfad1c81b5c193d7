----------------------------- MODULE HeapProofs -----------------------------
(***************************************************************************)
(* The free list of alloc.c is the circle in address order of what nobody  *)
(* holds, for every page size, number of frames and set of requests.  The  *)
(* lemmas on circles speak of any links and sizes: one takes a block out,  *)
(* one shortens it, one joins a block in.  malloc and free are these.      *)
(***************************************************************************)
EXTENDS Heap, Integers, TLAPS

(* The units of a block.                                                   *)
Span(a, n) == {u \in Nat : a <= u /\ u < a + n}

(* Blocks that do not touch.                                               *)
Apart(F, sz) ==
  /\ \A a \in F : a \in Nat \ {0} /\ sz[a] \in Nat \ {0}
  /\ \A a, c \in F : a < c => a + sz[a] < c

(* The blocks of F are made of the units of spare.                         *)
Covers(F, sz, spare) ==
  \A u \in Nat : u \in spare <=> \E a \in F : a <= u /\ u < a + sz[a]

(* n follows a in the circle.                                              *)
IsNext(F, a, n) ==
  \/ n \in F /\ a < n /\ \A c \in F : ~ (a < c /\ c < n)
  \/ n = BASE /\ \A c \in F : c <= a

Linked(F, pt) == \A a \in F \union {BASE} : IsNext(F, a, pt[a])

Circle(F, pt, sz, spare) ==
  Apart(F, sz) /\ Covers(F, sz, spare) /\ Linked(F, pt) /\ sz[BASE] = 0

-----------------------------------------------------------------------------
(* Taking a block out of the circle.                                       *)
LEMMA TakeOut ==
  ASSUME NEW F, NEW pt, NEW sz, NEW spare, Circle(F, pt, sz, spare),
         NEW q \in F \union {BASE}, NEW b \in F, pt[q] = b,
         NEW pt2, NEW sz2,
         \A a \in (F \ {b}) \union {BASE} : a # q => pt2[a] = pt[a],
         pt2[q] = pt[b],
         \A a \in (F \ {b}) \union {BASE} : sz2[a] = sz[a]
  PROVE  /\ Circle(F \ {b}, pt2, sz2, spare \ Span(b, sz[b]))
         /\ q \in (F \ {b}) \union {BASE}
<1>1. /\ \A a \in F : a \in Nat \ {0} /\ sz[a] \in Nat \ {0}
      /\ \A a, c \in F : a < c => a + sz[a] < c
    BY DEF Circle, Apart
<1>2. q \in Nat /\ q < b /\ \A c \in F : ~ (q < c /\ c < b)
    BY <1>1 DEF Circle, Linked, IsNext, BASE
<1>3. q \in (F \ {b}) \union {BASE}
    BY <1>1, <1>2
<1>4. Apart(F \ {b}, sz2)
    BY <1>1 DEF Apart
<1>5. Covers(F \ {b}, sz2, spare \ Span(b, sz[b]))
    <2> SUFFICES ASSUME NEW u \in Nat
                 PROVE  u \in spare \ Span(b, sz[b])
                        <=> \E a \in F \ {b} : a <= u /\ u < a + sz2[a]
        BY DEF Covers
    <2>1. u \in spare <=> \E a \in F : a <= u /\ u < a + sz[a]
        BY DEF Circle, Covers
    <2>2. u \in Span(b, sz[b]) <=> b <= u /\ u < b + sz[b]
        BY DEF Span
    <2>3. ASSUME NEW a \in F \ {b}, a <= u, u < a + sz[a], b <= u, u < b + sz[b]
          PROVE  FALSE
        <3>1. a < b \/ b < a
            BY <1>1
        <3> QED
            BY <1>1, <2>3, <3>1
    <2> QED
        BY <2>1, <2>2, <2>3
<1>6. Linked(F \ {b}, pt2)
    <2> SUFFICES ASSUME NEW a \in (F \ {b}) \union {BASE}
                 PROVE  IsNext(F \ {b}, a, pt2[a])
        BY DEF Linked
    <2>1. IsNext(F, a, pt[a]) /\ IsNext(F, b, pt[b]) /\ a \in Nat
        BY <1>1 DEF Circle, Linked, BASE
    <2>2. CASE a = q
        <3>1. pt2[a] = pt[b]
            BY <2>2
        <3>2. CASE pt[b] \in F /\ b < pt[b] /\ \A c \in F : ~ (b < c /\ c < pt[b])
            <4> b \in Nat /\ pt[b] \in Nat
                BY <1>1, <3>2
            <4>1. pt[b] \in F \ {b} /\ a < pt[b]
                BY <1>2, <2>2, <3>2
            <4>2. \A c \in F \ {b} : ~ (a < c /\ c < pt[b])
                BY <1>1, <1>2, <2>2, <3>2
            <4> QED
                BY <3>1, <4>1, <4>2 DEF IsNext
        <3>3. CASE pt[b] = BASE /\ \A c \in F : c <= b
            <4>1. \A c \in F \ {b} : c <= a
                BY <1>1, <1>2, <2>2, <3>3
            <4> QED
                BY <3>1, <3>3, <4>1 DEF IsNext
        <3> QED
            BY <2>1, <3>2, <3>3 DEF IsNext
    <2>3. CASE a # q
        <3>1. pt2[a] = pt[a]
            BY <2>3
        <3>2. pt[a] # b
            BY <1>1, <1>2, <2>1, <2>3 DEF IsNext, BASE
        <3> QED
            BY <2>1, <3>1, <3>2 DEF IsNext
    <2> QED
        BY <2>2, <2>3
<1>7. sz2[BASE] = 0
    BY DEF Circle
<1> QED
    BY <1>3, <1>4, <1>5, <1>6, <1>7 DEF Circle

(* Splitting the tail end off a block.                                     *)
LEMMA Shorten ==
  ASSUME NEW F, NEW pt, NEW sz, NEW spare, Circle(F, pt, sz, spare),
         NEW b \in F, NEW rest \in Nat \ {0}, rest < sz[b],
         NEW pt2, NEW sz2,
         \A a \in F \union {BASE} : pt2[a] = pt[a],
         \A a \in F \union {BASE} : sz2[a] = IF a = b THEN rest ELSE sz[a]
  PROVE  Circle(F, pt2, sz2, spare \ Span(b + rest, sz[b] - rest))
<1>1. /\ \A a \in F : a \in Nat \ {0} /\ sz[a] \in Nat \ {0}
      /\ \A a, c \in F : a < c => a + sz[a] < c
    BY DEF Circle, Apart
<1>2. Apart(F, sz2)
    BY <1>1 DEF Apart
<1>3. Covers(F, sz2, spare \ Span(b + rest, sz[b] - rest))
    <2> SUFFICES ASSUME NEW u \in Nat
                 PROVE  u \in spare \ Span(b + rest, sz[b] - rest)
                        <=> \E a \in F : a <= u /\ u < a + sz2[a]
        BY DEF Covers
    <2>1. u \in spare <=> \E a \in F : a <= u /\ u < a + sz[a]
        BY DEF Circle, Covers
    <2>2. u \in Span(b + rest, sz[b] - rest) <=> b + rest <= u /\ u < b + sz[b]
        BY <1>1 DEF Span
    <2>3. ASSUME NEW a \in F, a # b, a <= u, u < a + sz[a]
          PROVE  ~ (b <= u /\ u < b + sz[b])
        <3>1. a < b \/ b < a
            BY <1>1, <2>3
        <3> QED
            BY <1>1, <2>3, <3>1
    <2>4. ASSUME u \in spare \ Span(b + rest, sz[b] - rest)
          PROVE  \E a \in F : a <= u /\ u < a + sz2[a]
        <3>1. PICK a \in F : a <= u /\ u < a + sz[a]
            BY <2>1, <2>4
        <3>2. a = b => u < b + rest
            BY <1>1, <2>2, <2>4, <3>1
        <3> QED
            BY <3>1, <3>2
    <2>5. ASSUME NEW a \in F, a <= u, u < a + sz2[a]
          PROVE  u \in spare \ Span(b + rest, sz[b] - rest)
        <3>1. u < a + sz[a]
            BY <1>1, <2>5
        <3>2. CASE a = b
            BY <1>1, <2>1, <2>2, <2>5, <3>1, <3>2
        <3>3. CASE a # b
            BY <1>1, <2>1, <2>2, <2>3, <2>5, <3>1, <3>3
        <3> QED
            BY <3>2, <3>3
    <2> QED
        BY <2>4, <2>5
<1>4. Linked(F, pt2)
    BY DEF Circle, Linked
<1>5. sz2[BASE] = 0
    BY <1>1 DEF Circle, BASE
<1> QED
    BY <1>2, <1>3, <1>4, <1>5 DEF Circle

(* A block that comes behind q and touches nothing above: it is linked in, *)
(* or q grows by it.                                                       *)
LEMMA Attach ==
  ASSUME NEW F, NEW pt, NEW sz, NEW spare, Circle(F, pt, sz, spare),
         NEW q \in F \union {BASE}, NEW x \in Nat \ {0}, NEW k \in Nat \ {0},
         q + sz[q] <= x, x + k < pt[q] \/ pt[q] = BASE,
         NEW lower \in BOOLEAN, lower <=> q + sz[q] = x,
         NEW G, G = IF lower THEN F ELSE F \union {x},
         NEW pt2, NEW sz2,
         \A a \in F \union {BASE} : a # q => pt2[a] = pt[a] /\ sz2[a] = sz[a],
         pt2[q] = IF lower THEN pt[q] ELSE x,
         sz2[q] = IF lower THEN sz[q] + k ELSE sz[q],
         ~ lower => pt2[x] = pt[q] /\ sz2[x] = k
  PROVE  Circle(G, pt2, sz2, spare \union Span(x, k)) /\ q \in G \union {BASE}
<1>1. /\ \A a \in F : a \in Nat \ {0} /\ sz[a] \in Nat \ {0}
      /\ \A a, c \in F : a < c => a + sz[a] < c
    BY DEF Circle, Apart
<1>2. q \in Nat /\ sz[q] \in Nat /\ q <= x /\ IsNext(F, q, pt[q])
    BY <1>1 DEF Circle, Linked, BASE
<1>3. \A c \in F : c <= q \/ x + k < c
    <2>1. CASE pt[q] \in F /\ \A c \in F : ~ (q < c /\ c < pt[q])
        <3>1. pt[q] \in Nat \ {0} /\ x + k < pt[q]
            BY <1>1, <2>1 DEF BASE
        <3>2. \A c \in F : c \in Nat
            BY <1>1
        <3> QED
            BY <1>2, <2>1, <3>1, <3>2
    <2>2. CASE \A c \in F : c <= q
        BY <2>2
    <2> QED
        BY <1>2, <2>1, <2>2 DEF IsNext
<1>4. \A c \in F : c < q => c + sz[c] < q
    BY <1>1 DEF Circle, BASE
<1>5. x \notin F
    <2> SUFFICES ASSUME x \in F PROVE FALSE
        OBVIOUS
    <2>1. x = q
        BY <1>2, <1>3
    <2>2. sz[q] > 0
        BY <1>1, <2>1
    <2> QED
        BY <1>2, <2>1, <2>2
<1>6. lower => q \in F
    BY <1>1, <1>2 DEF Circle, BASE
<1>7. Apart(G, sz2)
    <2>1. CASE lower
        <3>1. \A a \in F : sz2[a] = IF a = q THEN sz[a] + k ELSE sz[a]
            BY <2>1
        <3>2. \A a \in F : a \in Nat \ {0} /\ sz2[a] \in Nat \ {0}
            BY <1>1, <3>1
        <3>3. \A a, c \in F : a < c => a + sz2[a] < c
            BY <1>1, <1>2, <1>3, <2>1, <3>1
        <3> QED
            BY <2>1, <3>2, <3>3 DEF Apart
    <2>2. CASE ~ lower
        <3>1. \A a \in F : sz2[a] = sz[a]
            BY <2>2
        <3>2. \A a \in F : a < x => a + sz[a] < x
            BY <1>1, <1>2, <1>3, <1>4, <2>2
        <3>3. \A a \in G : a \in Nat \ {0} /\ sz2[a] \in Nat \ {0}
            BY <1>1, <2>2, <3>1
        <3>4. \A c \in F : x < c => x + k < c
            BY <1>1, <1>2, <1>3
        <3>5. \A a, c \in G : a < c => a + sz2[a] < c
            BY <1>1, <2>2, <3>1, <3>2, <3>4
        <3> QED
            BY <3>3, <3>5 DEF Apart
    <2> QED
        BY <2>1, <2>2
<1>8. Covers(G, sz2, spare \union Span(x, k))
    <2> SUFFICES ASSUME NEW u \in Nat
                 PROVE  u \in spare \union Span(x, k)
                        <=> \E a \in G : a <= u /\ u < a + sz2[a]
        BY DEF Covers
    <2>1. u \in spare <=> \E a \in F : a <= u /\ u < a + sz[a]
        BY DEF Circle, Covers
    <2>2. u \in Span(x, k) <=> x <= u /\ u < x + k
        BY DEF Span
    <2>3. CASE lower
        <3>1. \A a \in F : sz2[a] = IF a = q THEN sz[a] + k ELSE sz[a]
            BY <2>3
        <3>2. x <= u /\ u < x + k => q <= u /\ u < q + sz2[q]
            BY <1>1, <1>2, <1>6, <2>3, <3>1
        <3>3. q <= u /\ u < q + sz2[q] => (q <= u /\ u < q + sz[q]) \/ (x <= u /\ u < x + k)
            BY <1>1, <1>2, <1>6, <2>3, <3>1
        <3>4. \A a \in F : u < a + sz[a] => u < a + sz2[a]
            BY <1>1, <3>1
        <3> QED
            BY <1>6, <2>1, <2>2, <2>3, <3>1, <3>2, <3>3, <3>4
    <2>4. CASE ~ lower
        <3>1. (\A a \in F : sz2[a] = sz[a]) /\ sz2[x] = k
            BY <2>4
        <3> QED
            BY <2>1, <2>2, <2>4, <3>1
    <2> QED
        BY <2>3, <2>4
<1>9. Linked(G, pt2)
    <2>1. CASE lower
        BY <2>1 DEF Circle, Linked
    <2>2. CASE ~ lower
        <3> SUFFICES ASSUME NEW a \in G \union {BASE}
                     PROVE  IsNext(G, a, pt2[a])
            BY DEF Linked
        <3>1. q < x
            BY <1>1, <1>2, <2>2
        <3>2. CASE a = x
            <4>1. pt2[a] = pt[q]
                BY <2>2, <3>2
            <4>2. CASE pt[q] \in F /\ q < pt[q] /\ \A c \in F : ~ (q < c /\ c < pt[q])
                <5> pt[q] \in Nat
                    BY <1>1, <4>2
                <5>1. x < pt[q]
                    BY <1>2, <1>3, <4>2
                <5>2. \A c \in G : ~ (x < c /\ c < pt[q])
                    BY <1>1, <1>2, <2>2, <3>1, <4>2
                <5> QED
                    BY <2>2, <3>2, <4>1, <4>2, <5>1, <5>2 DEF IsNext
            <4>3. CASE pt[q] = BASE /\ \A c \in F : c <= q
                <5>1. \A c \in G : c <= x
                    BY <1>1, <1>2, <2>2, <3>1, <4>3
                <5> QED
                    BY <3>2, <4>1, <4>3, <5>1 DEF IsNext
            <4> QED
                BY <1>2, <4>2, <4>3 DEF IsNext
        <3>3. CASE a = q
            <4>1. pt2[a] = x
                BY <2>2, <3>3
            <4>2. \A c \in G : ~ (q < c /\ c < x)
                BY <1>1, <1>2, <1>3, <2>2
            <4> QED
                BY <2>2, <3>1, <3>3, <4>1, <4>2 DEF IsNext
        <3>4. CASE a \in F \union {BASE} /\ a # q
            <4>1. pt2[a] = pt[a] /\ a \in Nat /\ IsNext(F, a, pt[a])
                BY <1>1, <3>4 DEF Circle, Linked, BASE
            <4>2. CASE a < q
                <5>1. q \in F
                    BY <4>1, <4>2 DEF BASE
                <5> ~ (q <= a)
                    BY <1>2, <4>1, <4>2
                <5>2. pt[a] \in F /\ a < pt[a] /\ \A c \in F : ~ (a < c /\ c < pt[a])
                    BY <4>1, <5>1 DEF IsNext
                <5> pt[a] \in Nat
                    BY <1>1, <5>2
                <5>3. pt[a] <= q
                    BY <1>2, <4>2, <5>1, <5>2
                <5>4. ~ (a < x /\ x < pt[a])
                    BY <1>2, <3>1, <5>3
                <5> QED
                    BY <2>2, <4>1, <5>2, <5>4 DEF IsNext
            <4>3. CASE q < a
                <5>1. a \in F /\ x + k < a
                    BY <1>1, <1>2, <1>3, <3>4, <4>3 DEF BASE
                <5>2. x < a
                    BY <1>1, <5>1
                <5>3. CASE pt[a] \in F /\ a < pt[a] /\ \A c \in F : ~ (a < c /\ c < pt[a])
                    <6>1. ~ (a < x /\ x < pt[a])
                        BY <1>1, <5>1, <5>2
                    <6> QED
                        BY <2>2, <4>1, <5>3, <6>1 DEF IsNext
                <5>4. CASE pt[a] = BASE /\ \A c \in F : c <= a
                    <6>1. x <= a
                        BY <1>1, <5>1, <5>2
                    <6> QED
                        BY <2>2, <4>1, <5>4, <6>1 DEF IsNext
                <5> QED
                    BY <4>1, <5>3, <5>4 DEF IsNext
            <4> QED
                BY <1>2, <3>4, <4>1, <4>2, <4>3
        <3> QED
            BY <2>2, <3>2, <3>3, <3>4
    <2> QED
        BY <2>1, <2>2
<1>10. sz2[BASE] = 0
    <2>1. q = BASE => ~ lower
        BY <1>1, <1>6 DEF BASE
    <2> QED
        BY <2>1 DEF Circle
<1> QED
    BY <1>7, <1>8, <1>9, <1>10 DEF Circle

(* Block x is joined to q and to its successor, to one of them, or linked  *)
(* in between.                                                             *)
Joined(F, pt, sz, q, x, pt2, sz2) ==
  LET upper == x + sz[x] = pt[q]
      lower == q + sz[q] = x
      units == IF upper THEN sz[x] + sz[pt[q]] ELSE sz[x]
      link  == IF upper THEN pt[pt[q]] ELSE pt[q]
  IN /\ \A a \in F \union {BASE} : a # q => pt2[a] = pt[a] /\ sz2[a] = sz[a]
     /\ lower => pt2[q] = link /\ sz2[q] = sz[q] + units
     /\ ~ lower => /\ pt2[q] = x /\ sz2[q] = sz[q]
                  /\ pt2[x] = link /\ sz2[x] = units

(* free's end: the block belongs between q and its successor.              *)
LEMMA JoinIn ==
  ASSUME NEW F, NEW pt, NEW sz, NEW spare, Circle(F, pt, sz, spare),
         NEW q \in F \union {BASE}, NEW x \in Nat \ {0}, sz[x] \in Nat \ {0},
         Span(x, sz[x]) \intersect spare = {},
         q < x, x < pt[q] \/ pt[q] = BASE,
         NEW pt2, NEW sz2, Joined(F, pt, sz, q, x, pt2, sz2)
  PROVE  \E G \in SUBSET (F \union {x}) :
           Circle(G, pt2, sz2, spare \union Span(x, sz[x])) /\ q \in G \union {BASE}
<1> PICK upper \in BOOLEAN, lower \in BOOLEAN :
        (upper <=> x + sz[x] = pt[q]) /\ (lower <=> q + sz[q] = x)
    OBVIOUS
<1> DEFINE units == IF upper THEN sz[x] + sz[pt[q]] ELSE sz[x]
           link  == IF upper THEN pt[pt[q]] ELSE pt[q]
<1> /\ \A a \in F \union {BASE} : a # q => pt2[a] = pt[a] /\ sz2[a] = sz[a]
    /\ pt2[q] = IF lower THEN link ELSE x
    /\ sz2[q] = IF lower THEN sz[q] + units ELSE sz[q]
    /\ ~ lower => pt2[x] = link /\ sz2[x] = units
    BY DEF Joined
<1>1. /\ \A a \in F : a \in Nat \ {0} /\ sz[a] \in Nat \ {0}
      /\ \A a, c \in F : a < c => a + sz[a] < c
      /\ \A a \in F, u \in Nat : a <= u /\ u < a + sz[a] => u \in spare
    BY DEF Circle, Apart, Covers
<1>2. q \in Nat /\ sz[q] \in Nat /\ IsNext(F, q, pt[q])
    BY <1>1 DEF Circle, Linked, BASE
<1>3. \A u \in Nat : x <= u /\ u < x + sz[x] => u \notin spare
    BY DEF Span
<1>4. q + sz[q] <= x
    <2>1. CASE q = BASE
        BY <1>2, <2>1 DEF Circle, BASE
    <2>2. CASE q \in F
        <3>1. x \notin spare
            BY <1>3
        <3> QED
            BY <1>1, <1>2, <2>2, <3>1
    <2> QED
        BY <2>1, <2>2
<1>5. CASE upper
    <2> DEFINE n   == pt[q]
               F1  == F \ {n}
               pt1 == [a \in F \union {BASE} |-> IF a = q THEN pt[n] ELSE pt[a]]
    <2>1. n \in F /\ n = x + sz[x]
        BY <1>2, <1>5 DEF IsNext, BASE
    <2>2. /\ \A a \in F1 \union {BASE} : a # q => pt1[a] = pt[a]
          /\ pt1[q] = pt[n]
        OBVIOUS
    <2>3. q \in F1 \union {BASE} /\ pt1[q] = link
        BY <1>2, <1>5, <2>1
    <2>4. Circle(F1, pt1, sz, spare \ Span(n, sz[n]))
        <3> HIDE DEF pt1
        <3> QED
            BY <2>1, <2>2, TakeOut
    <2>5. units \in Nat \ {0} /\ x + units = n + sz[n]
        <3>1. n \in Nat /\ sz[n] \in Nat \ {0} /\ units = sz[x] + sz[n]
            BY <1>1, <1>5, <2>1
        <3> QED
            BY <2>1, <3>1
    <2>6. x + units < pt1[q] \/ pt1[q] = BASE
        <3>1. IsNext(F, n, pt[n])
            BY <2>1 DEF Circle, Linked
        <3>2. pt1[q] = pt[n]
            BY <2>3, <1>5
        <3> HIDE DEF n, pt1
        <3> QED
            BY <1>1, <2>1, <2>5, <3>1, <3>2 DEF IsNext
    <2>7. (spare \ Span(n, sz[n])) \union Span(x, units) = spare \union Span(x, sz[x])
        <3>1. n \in Nat /\ sz[n] \in Nat /\ units = sz[x] + sz[n]
            BY <1>1, <1>5, <2>1
        <3>2. \A u : u \in Span(x, units) <=> u \in Span(x, sz[x]) \/ u \in Span(n, sz[n])
            <4> HIDE DEF n
            <4> QED
                BY <2>1, <3>1 DEF Span
        <3>3. Span(n, sz[n]) \subseteq spare
            BY <1>1, <2>1 DEF Span
        <3> QED
            BY <3>2, <3>3
    <2> DEFINE G == IF lower THEN F1 ELSE F1 \union {x}
    <2>8. \A a \in F1 \union {BASE} : a # q => pt2[a] = pt1[a] /\ sz2[a] = sz[a]
        BY <2>2
    <2> HIDE DEF n, F1, pt1, G
    <2>9. /\ Circle(G, pt2, sz2, (spare \ Span(n, sz[n])) \union Span(x, units))
          /\ q \in G \union {BASE}
        BY <1>4, <2>3, <2>4, <2>5, <2>6, <2>8, Attach DEF G
    <2>10. G \in SUBSET (F \union {x})
        BY DEF G, F1
    <2> QED
        BY <2>7, <2>9, <2>10
<1>6. CASE ~ upper
    <2>1. x + sz[x] < pt[q] \/ pt[q] = BASE
        <3>1. CASE pt[q] \in F /\ q < pt[q]
            <4>1. pt[q] \in Nat /\ pt[q] \in spare
                BY <1>1, <3>1
            <4>2. ~ (x <= pt[q] /\ pt[q] < x + sz[x])
                BY <1>3, <4>1
            <4>3. pt[q] # BASE
                BY <1>1, <3>1 DEF BASE
            <4> QED
                BY <1>6, <4>1, <4>2, <4>3
        <3> QED
            BY <1>2, <3>1 DEF IsNext
    <2> DEFINE G == IF lower THEN F ELSE F \union {x}
    <2>2. units = sz[x] /\ link = pt[q]
        BY <1>6
    <2> HIDE DEF G
    <2>3. Circle(G, pt2, sz2, spare \union Span(x, sz[x])) /\ q \in G \union {BASE}
        BY <1>4, <2>1, <2>2, Attach DEF G
    <2>4. G \in SUBSET (F \union {x})
        BY DEF G
    <2> QED
        BY <2>3, <2>4
<1> QED
    BY <1>5, <1>6

(* What a circle says of its blocks.                                       *)
LEMMA OfCircle ==
  ASSUME NEW F, NEW pt, NEW sz, NEW spare, Circle(F, pt, sz, spare)
  PROVE  /\ \A a \in F : /\ a \in Nat \ {0} /\ sz[a] \in Nat \ {0} /\ a \in spare
                         /\ a + sz[a] - 1 \in spare
                         /\ Span(a, sz[a]) \subseteq spare
         /\ \A a \in F \union {BASE} : pt[a] \in F \union {BASE} /\ a \in Nat
         /\ \A a \in F \union {BASE} : pt[a] = BASE \/ a < pt[a]
         /\ sz[BASE] = 0
<1>1. /\ \A a \in F : a \in Nat \ {0} /\ sz[a] \in Nat \ {0}
      /\ \A u \in Nat : u \in spare <=> \E a \in F : a <= u /\ u < a + sz[a]
      /\ \A a \in F \union {BASE} : IsNext(F, a, pt[a])
      /\ sz[BASE] = 0
    BY DEF Circle, Apart, Covers, Linked
<1>2. ASSUME NEW a \in F
      PROVE  a \in spare /\ a + sz[a] - 1 \in spare /\ Span(a, sz[a]) \subseteq spare
    <2>1. a + sz[a] - 1 \in Nat /\ a <= a + sz[a] - 1 /\ a + sz[a] - 1 < a + sz[a]
        BY <1>1
    <2>2. a \in spare
        BY <1>1
    <2>3. a + sz[a] - 1 \in spare
        BY <1>1, <2>1
    <2>4. Span(a, sz[a]) \subseteq spare
        BY <1>1 DEF Span
    <2> QED
        BY <2>2, <2>3, <2>4
<1>3. \A a \in F \union {BASE} : a \in Nat
    BY <1>1 DEF BASE
<1>4. \A a \in F \union {BASE} : pt[a] \in F \union {BASE} /\ (pt[a] = BASE \/ a < pt[a])
    BY <1>1 DEF IsNext
<1> QED
    BY <1>1, <1>2, <1>3, <1>4

(* Memory outside the headers of the circle does not matter to it.         *)
LEMMA SameCircle ==
  ASSUME NEW F, NEW pt, NEW sz, NEW spare, Circle(F, pt, sz, spare), NEW pt2, NEW sz2,
         \A a \in F \union {BASE} : pt2[a] = pt[a] /\ sz2[a] = sz[a]
  PROVE  Circle(F, pt2, sz2, spare)
<1>1. Apart(F, sz2)
    BY DEF Circle, Apart
<1>2. Covers(F, sz2, spare)
    BY DEF Circle, Covers
<1>3. Linked(F, pt2)
    BY DEF Circle, Linked
<1> QED
    BY <1>1, <1>2, <1>3 DEF Circle

(* The links and sizes determine the blocks.                               *)
LEMMA SameBlocks ==
  ASSUME NEW F, NEW G, NEW pt, NEW sz, NEW spare,
         Circle(F, pt, sz, spare), Circle(G, pt, sz, spare)
  PROVE  F = G
<1>1. ASSUME NEW A, NEW B, Circle(A, pt, sz, spare), Circle(B, pt, sz, spare),
             NEW a \in A
      PROVE  a \in B
    <2>1. /\ \A c \in A : c \in Nat \ {0} /\ sz[c] \in Nat \ {0}
          /\ \A c \in B : c \in Nat \ {0} /\ sz[c] \in Nat \ {0}
          /\ \A c, d \in A : c < d => c + sz[c] < d
          /\ \A u \in Nat : u \in spare <=> \E c \in A : c <= u /\ u < c + sz[c]
          /\ \A u \in Nat : u \in spare <=> \E c \in B : c <= u /\ u < c + sz[c]
        BY <1>1 DEF Circle, Apart, Covers
    <2>2. a \in Nat /\ a - 1 \in Nat /\ a \in spare
        BY <2>1
    <2>3. a - 1 \notin spare
        <3> SUFFICES ASSUME NEW c \in A, c <= a - 1, a - 1 < c + sz[c] PROVE FALSE
            BY <2>1, <2>2
        <3>1. c < a /\ c + sz[c] < a
            BY <2>1, <2>2
        <3> QED
            BY <2>1, <2>2, <3>1
    <2>4. PICK c \in B : c <= a /\ a < c + sz[c]
        BY <2>1, <2>2
    <2>5. ~ (c <= a - 1 /\ a - 1 < c + sz[c])
        BY <2>1, <2>2, <2>3
    <2>6. c = a
        BY <2>1, <2>2, <2>4, <2>5
    <2> QED
        BY <2>4, <2>6
<1> QED
    BY <1>1

LEMMA NoBlock ==
  ASSUME NEW pt, NEW sz, pt[BASE] = BASE, sz[BASE] = 0
  PROVE  Circle({}, pt, sz, {})
BY DEF Circle, Apart, Covers, Linked, IsNext

-----------------------------------------------------------------------------
(* The units of A that no block of H has.                                  *)
Unheld(A, H) == {u \in A : \A b \in H : u \notin Span(b.at, b.units)}

(* The blocks callers hold: their headers are intact, and no two share a   *)
(* unit.                                                                   *)
Blocks(H, sz, A) ==
  /\ \A b \in H : /\ b.at \in Nat \ {0} /\ b.units \in Nat \ {0}
                  /\ sz[b.at] = b.units
                  /\ Span(b.at, b.units) \subseteq A
  /\ \A b, c \in H : b # c => Span(b.at, b.units) \intersect Span(c.at, c.units) = {}

(* free has a block that nobody holds and that is not on the list.         *)
CallersBlock == pc = "locate" /\ nbytes = NULL

NewPages == pc = "map" \/ (pc = "locate" /\ nbytes # NULL)

Spare == IF CallersBlock THEN Unheld(arena, held) \ Span(bp, size[bp]) ELSE Unheld(arena, held)

(* Every frame is below heap_end or left.  The heap that free knows ends   *)
(* where morecore has begun to map pages.                                  *)
Growth ==
  /\ heap_end + frames * PAGE_UNITS = HEAP + FRAMES * PAGE_UNITS
  /\ \A u \in arena : u < IF NewPages THEN heap_start ELSE heap_end
  /\ NewPages => heap_start \in Nat \ {0} /\ heap_start <= heap_end
  /\ pc = "map" => heap_end = heap_start + Mapped * PAGE_UNITS

Argument ==
  /\ pc = "idle" => nbytes = NULL
  /\ pc \in {"search", "map"} => nbytes \in Request
  /\ pc = "locate" /\ nbytes # NULL =>
       bp = heap_start /\ size[bp] = heap_end - heap_start /\ heap_start < heap_end
  /\ CallersBlock =>
       /\ bp \in Nat \ {0} /\ size[bp] \in Nat \ {0}
       /\ Span(bp, size[bp]) \subseteq Unheld(arena, held)

(* Where the list and its loops stand.                                     *)
Pointers(F) ==
  /\ freep \in F \union {BASE}
  /\ pc = "search" => prevp \in F \union {BASE} /\ p = ptr[prevp]
  /\ pc = "locate" => p \in F \union {BASE}

FreeList ==
  \/ freep = NULL /\ pc = "idle" /\ arena = {} /\ held = {}
  \/ freep # NULL /\ \E F : Circle(F, ptr, size, Spare) /\ Pointers(F)

IInv ==
  TypeOK /\ Growth /\ Argument /\ Blocks(held, size, arena) /\ FreeList

Total == FRAMES * PAGE_UNITS

LEMMA Numbers ==
  /\ Total \in Nat
  /\ Addr = 0 .. Total /\ BASE = 0 /\ HEAP = 1
  /\ NULL \notin Nat
  /\ PAGE_UNITS \in Nat \ {0}
BY HeapAssumption DEF Total, Addr, BASE, HEAP

(* No request wraps around the word.                                       *)
LEMMA Wanted ==
  ASSUME nbytes \in Request
  PROVE  nunits \in Nat \ {0} /\ PagesWanted \in Nat \ {0}
<1>1. /\ nbytes \in Nat /\ HEADER \in Nat \ {0} /\ PAGE_UNITS \in Nat \ {0} /\ WORD \in Nat
      /\ nbytes + (PAGE_UNITS + 2) * HEADER < WORD
    BY HeapAssumption
<1> DEFINE page == PAGE_UNITS * HEADER
           sum  == nbytes + HEADER - 1
           need == nunits * HEADER
<1>2. page \in Nat \ {0} /\ nbytes + page + 2 * HEADER < WORD
    BY <1>1
<1>3. sum \in Nat /\ sum < WORD
    BY <1>1, <1>2
<1>4. sum % WORD = sum
    BY <1>1, <1>3
<1>5. nunits = sum \div HEADER + 1
    BY <1>4 DEF nunits
<1>6. \A s \in Nat, h \in Nat \ {0} : s \div h \in Nat /\ (s \div h) * h <= s
    OBVIOUS
<1>7. sum \div HEADER \in Nat /\ (sum \div HEADER) * HEADER <= sum
    BY <1>1, <1>3, <1>6
<1>8. \A d \in Nat, h \in Nat \ {0} : (d + 1) * h = d * h + h
    OBVIOUS
<1>9. nunits \in Nat \ {0} /\ need = (sum \div HEADER) * HEADER + HEADER
    BY <1>1, <1>5, <1>7, <1>8
<1>10. need \in Nat \ {0} /\ need <= sum + HEADER
    <2> DEFINE m == (sum \div HEADER) * HEADER
    <2>1. m \in Nat
        BY <1>1, <1>7
    <2> HIDE DEF m, sum
    <2> QED
        BY <1>1, <1>3, <1>7, <1>9, <2>1 DEF m
<1>11. need < WORD /\ need + page - 1 < WORD /\ need + page - 1 \in Nat
    <2> HIDE DEF need, page
    <2> QED
        BY <1>1, <1>2, <1>10
<1>12. need % WORD = need /\ (need + page - 1) % WORD = need + page - 1
    <2> HIDE DEF need, page
    <2> QED
        BY <1>1, <1>2, <1>10, <1>11
<1>13. PagesWanted = (need + page - 1) \div page
    BY <1>12 DEF PagesWanted
<1>14. \A s \in Nat, h \in Nat \ {0} : s >= h => s \div h \in Nat \ {0}
    OBVIOUS
<1>15. PagesWanted \in Nat \ {0}
    <2>1. need + page - 1 >= page
        BY <1>2, <1>10
    <2> HIDE DEF need, page
    <2> QED
        BY <1>2, <1>11, <1>13, <1>14, <2>1
<1> QED
    BY <1>9, <1>15

(* The list lies inside the heap.                                          *)
LEMMA InHeap ==
  ASSUME TypeOK, NEW F, Circle(F, ptr, size, Spare)
  PROVE  /\ F \subseteq 1 .. Total
         /\ \A a \in F \union {BASE} : ptr[a] \in F \union {BASE} /\ a \in Addr
         /\ \A a \in F : a + size[a] <= Total + 1
<1>1. Spare \subseteq arena /\ arena \subseteq 1 .. Total
    <2>1. Spare \subseteq arena
        BY DEF Spare, Unheld
    <2>2. arena \in SUBSET (Addr \ {BASE})
        BY DEF TypeOK
    <2>3. Addr \ {BASE} \subseteq 1 .. Total
        BY Numbers
    <2> QED
        BY <2>1, <2>2, <2>3
<1>2. \A a \in F : a \in Nat \ {0} /\ size[a] \in Nat \ {0} /\ a \in arena /\ a + size[a] - 1 \in arena
    BY <1>1, OfCircle
<1>3. \A a \in F \union {BASE} : ptr[a] \in F \union {BASE}
    BY OfCircle
<1> QED
    BY <1>1, <1>2, <1>3, Numbers

-----------------------------------------------------------------------------
LEMMA InitHolds == Init => IInv
<1> SUFFICES ASSUME Init PROVE IInv
    OBVIOUS
<1>1. TypeOK
    <2>1. ptr \in [Addr -> Addr] /\ size \in [Addr -> 0 .. FRAMES * PAGE_UNITS]
        BY Numbers DEF Init, Total
    <2>2. heap_end \in HEAP .. HEAP + FRAMES * PAGE_UNITS
        BY Numbers DEF Init, Total
    <2>3. frames \in 0 .. FRAMES
        BY HeapAssumption DEF Init
    <2> QED
        BY <2>1, <2>2, <2>3 DEF Init, TypeOK
<1>2. Growth
    BY HeapAssumption DEF Init, Growth, NewPages, HEAP
<1>3. Argument
    BY DEF Init, Argument, CallersBlock
<1>4. Blocks(held, size, arena)
    BY DEF Init, Blocks
<1>5. FreeList
    BY DEF Init, FreeList
<1> QED
    BY <1>1, <1>2, <1>3, <1>4, <1>5 DEF IInv

LEMMA MallocKeeps ==
  ASSUME IInv, NEW n \in Request, malloc(n)
  PROVE  IInv'
<1>1. TypeOK /\ Growth /\ Argument /\ Blocks(held, size, arena) /\ FreeList
    BY DEF IInv
<1>2. /\ pc = "idle" /\ pc' = "search" /\ nbytes' = n
      /\ prevp' = freep' /\ p' = ptr'[freep']
      /\ UNCHANGED <<heap_end, frames, bp, heap_start, held, arena>>
    BY DEF malloc, growthVars, ghostVars
<1>3. Spare' = Spare
    BY <1>2 DEF Spare, CallersBlock
<1>4. Growth'
    BY <1>1, <1>2 DEF Growth, NewPages
<1>5. Argument'
    BY <1>2 DEF Argument, CallersBlock
<1>6. CASE freep = NULL
    <2>1. /\ freep' = BASE
          /\ ptr' = [ptr EXCEPT ![BASE] = BASE] /\ size' = [size EXCEPT ![BASE] = 0]
        BY <1>6 DEF malloc
    <2>2. arena = {} /\ held = {}
        BY <1>1, <1>6 DEF FreeList
    <2>3. ptr'[BASE] = BASE /\ size'[BASE] = 0
        BY <1>1, <2>1, Numbers DEF TypeOK
    <2>4. Spare' = {}
        BY <1>2, <2>2 DEF Spare, Unheld
    <2>5. Circle({}, ptr', size', Spare')
        BY <2>3, <2>4, NoBlock
    <2>6. Pointers({})'
        BY <1>2, <2>1, <2>3 DEF Pointers
    <2>7. freep' # NULL
        BY <2>1, Numbers
    <2>8. FreeList'
        BY <2>5, <2>6, <2>7 DEF FreeList
    <2>9. Blocks(held, size, arena)'
        BY <1>2, <2>2 DEF Blocks
    <2>10. TypeOK'
        <3>1. ptr' \in [Addr -> Addr] /\ size' \in [Addr -> 0 .. FRAMES * PAGE_UNITS]
            BY <1>1, <2>1, Numbers DEF TypeOK, Total
        <3>2. {p', prevp', bp'} \subseteq Addr \union {NULL} /\ freep' \in Addr \union {NULL}
            BY <1>1, <1>2, <2>1, <2>3, Numbers DEF TypeOK
        <3> QED
            BY <1>1, <1>2, <3>1, <3>2 DEF TypeOK
    <2> QED
        BY <1>4, <1>5, <2>8, <2>9, <2>10 DEF IInv
<1>7. CASE freep # NULL
    <2>1. UNCHANGED <<ptr, size, freep>>
        BY <1>7 DEF malloc, memoryVars
    <2>2. PICK F : Circle(F, ptr, size, Spare) /\ Pointers(F)
        BY <1>1, <1>7 DEF FreeList
    <2>3. freep \in F \union {BASE}
        BY <2>2 DEF Pointers
    <2>4. ptr[freep] \in F \union {BASE}
        BY <2>2, <2>3, OfCircle
    <2>5. Circle(F, ptr', size', Spare') /\ Pointers(F)'
        BY <1>2, <1>3, <2>1, <2>2, <2>3, <2>4 DEF Pointers
    <2>6. FreeList'
        BY <1>7, <2>1, <2>5 DEF FreeList
    <2>7. Blocks(held, size, arena)'
        BY <1>1, <1>2, <2>1 DEF Blocks
    <2>8. F \union {BASE} \subseteq Addr
        BY <1>1, <2>2, InHeap
    <2>9. TypeOK'
        BY <1>1, <1>2, <2>1, <2>3, <2>4, <2>8 DEF TypeOK
    <2> QED
        BY <1>4, <1>5, <2>6, <2>7, <2>9 DEF IInv
<1> QED
    BY <1>6, <1>7

LEMMA AdvanceKeeps ==
  ASSUME IInv, Advance
  PROVE  IInv'
<1>1. TypeOK /\ Growth /\ Argument /\ Blocks(held, size, arena) /\ FreeList
    BY DEF IInv
<1>2. /\ pc = "search" /\ prevp' = p /\ p' = ptr[p]
      /\ UNCHANGED <<ptr, size, freep, heap_end, frames, pc, nbytes, bp, heap_start, held, arena>>
    BY DEF Advance, memoryVars, growthVars, ghostVars
<1>3. PICK F : Circle(F, ptr, size, Spare) /\ Pointers(F)
    BY <1>1, <1>2 DEF FreeList
<1>4. p \in F \union {BASE} /\ ptr[p] \in F \union {BASE}
    BY <1>2, <1>3, OfCircle DEF Pointers
<1>5. Circle(F, ptr', size', Spare') /\ Pointers(F)'
    BY <1>2, <1>3, <1>4 DEF Pointers, Spare, CallersBlock
<1>6. FreeList'
    BY <1>1, <1>2, <1>5 DEF FreeList
<1>7. Growth' /\ Argument' /\ Blocks(held, size, arena)'
    BY <1>1, <1>2 DEF Growth, Argument, Blocks, NewPages, CallersBlock, Mapped
<1>8. F \union {BASE} \subseteq Addr
    BY <1>1, <1>3, InHeap
<1>9. TypeOK'
    BY <1>1, <1>2, <1>4, <1>8 DEF TypeOK
<1> QED
    BY <1>6, <1>7, <1>9 DEF IInv

LEMMA MorecoreKeeps ==
  ASSUME IInv, morecore
  PROVE  IInv'
<1>1. TypeOK /\ Growth /\ Argument /\ Blocks(held, size, arena) /\ FreeList
    BY DEF IInv
<1>2. /\ pc = "search" /\ pc' = "map" /\ heap_start' = heap_end
      /\ UNCHANGED <<ptr, size, freep, heap_end, frames, nbytes, p, prevp, bp, held, arena>>
    BY DEF morecore, memoryVars, growthVars, ghostVars
<1>3. heap_end \in HEAP .. HEAP + FRAMES * PAGE_UNITS
    BY <1>1 DEF TypeOK
<1>4. heap_end \in Nat \ {0}
    BY <1>3, Numbers DEF Total
<1>5. Growth'
    <2>1. Mapped' = 0
        <3>1. heap_end' - heap_start' = 0
            BY <1>2, <1>4
        <3>2. \A u \in Nat \ {0} : 0 \div u = 0
            OBVIOUS
        <3> QED
            BY <3>1, <3>2, Numbers DEF Mapped
    <2>2. heap_end' = heap_start' + 0 * PAGE_UNITS
        BY <1>2, <1>4, Numbers
    <2> QED
        BY <1>1, <1>2, <1>4, <2>1, <2>2 DEF Growth, NewPages
<1>6. Argument' /\ Blocks(held, size, arena)'
    BY <1>1, <1>2 DEF Argument, CallersBlock, Blocks
<1>7. FreeList'
    <2>1. PICK F : Circle(F, ptr, size, Spare) /\ Pointers(F)
        BY <1>1, <1>2 DEF FreeList
    <2>2. Circle(F, ptr', size', Spare') /\ Pointers(F)'
        BY <1>2, <2>1 DEF Pointers, Spare, CallersBlock
    <2> QED
        BY <1>1, <1>2, <2>2 DEF FreeList
<1>8. TypeOK'
    BY <1>1, <1>2, <1>3 DEF TypeOK
<1> QED
    BY <1>5, <1>6, <1>7, <1>8 DEF IInv

-----------------------------------------------------------------------------
(* The other blocks of a circle are off a block.                           *)
LEMMA OffBlock ==
  ASSUME NEW F, NEW pt, NEW sz, NEW spare, Circle(F, pt, sz, spare),
         NEW b \in F, NEW a \in F \union {BASE}, a # b
  PROVE  a < b \/ b + sz[b] < a
<1>1. /\ \A c \in F : c \in Nat \ {0} /\ sz[c] \in Nat \ {0}
      /\ \A c, d \in F : c < d => c + sz[c] < d
    BY DEF Circle, Apart
<1>2. CASE a = BASE
    BY <1>1, <1>2 DEF BASE
<1>3. CASE a \in F
    <2>1. a < b \/ b < a
        BY <1>1, <1>3
    <2> QED
        BY <1>1, <1>3, <2>1
<1> QED
    BY <1>2, <1>3

LEMMA AllocateKeeps ==
  ASSUME IInv, Allocate
  PROVE  IInv'
<1>1. TypeOK /\ Growth /\ Argument /\ Blocks(held, size, arena) /\ FreeList
    BY DEF IInv
<1> DEFINE k     == nunits
           rest  == size[p] - k
           block == IF rest = 0 THEN p ELSE p + rest
           links == IF rest = 0 THEN [ptr EXCEPT ![prevp] = ptr[p]] ELSE ptr
           sizes == IF rest = 0 THEN size ELSE [size EXCEPT ![p] = rest, ![block] = k]
           new   == [at |-> block, units |-> k]
<1>2. /\ pc = "search" /\ size[p] >= k
      /\ ptr' = Filled(links, block, BASE) /\ size' = Filled(sizes, block, 0)
      /\ freep' = prevp
      /\ held' = held \union {new}
      /\ pc' = "idle" /\ nbytes' = NULL
      /\ {p', prevp', bp', heap_start'} = {NULL}
      /\ UNCHANGED <<heap_end, frames, arena>>
    BY DEF Allocate, Return, growthVars
<1>3. k \in Nat \ {0}
    BY <1>1, <1>2, Wanted DEF Argument
<1>4. new.at = block /\ new.units = k
    OBVIOUS
<1>5. PICK F : Circle(F, ptr, size, Spare) /\ Pointers(F)
    BY <1>1, <1>2 DEF FreeList
<1>6. prevp \in F \union {BASE} /\ p = ptr[prevp]
    BY <1>2, <1>5 DEF Pointers
<1>7. p \in F /\ p \in Nat \ {0} /\ size[p] \in Nat \ {0} /\ Span(p, size[p]) \subseteq Spare
    <2>1. p \in F \union {BASE} /\ size[BASE] = 0
        BY <1>5, <1>6, OfCircle
    <2>2. p # BASE
        BY <1>2, <1>3, <2>1
    <2> QED
        BY <1>5, <2>1, <2>2, OfCircle
<1>8. /\ rest \in Nat /\ rest < size[p] /\ size[p] - rest = k
      /\ block = p + rest /\ block \in Nat \ {0} /\ block + k = p + size[p]
    <2> HIDE DEF k
    <2> QED
        BY <1>2, <1>3, <1>7
<1>9. Span(block, k) \subseteq Span(p, size[p])
    <2> HIDE DEF k, rest, block
    <2> QED
        BY <1>3, <1>7, <1>8 DEF Span
<1>10. Spare = Unheld(arena, held)
    BY <1>2 DEF Spare, CallersBlock
<1>11. /\ F \subseteq 1 .. Total /\ F \union {BASE} \subseteq Addr
       /\ p + size[p] <= Total + 1
       /\ \A a \in F \union {BASE} : ptr[a] \in Addr
    BY <1>1, <1>5, <1>7, InHeap
<1>12. p \in Addr /\ prevp \in Addr /\ block \in Addr /\ block \in 1 .. Total /\ k \in 1 .. Total
    <2>1. block \in 1 .. Total /\ k \in 1 .. Total
        <3> HIDE DEF k, rest, block
        <3> QED
            BY <1>3, <1>7, <1>8, <1>11, Numbers
    <2> QED
        BY <1>6, <1>7, <1>11, <2>1, Numbers
<1>13. \A a \in Addr : a \notin block + 1 .. block + k - 1
                          => ptr'[a] = links[a] /\ size'[a] = sizes[a]
    <2> HIDE DEF links, sizes, block
    <2> QED
        BY <1>2 DEF Filled
<1>14. /\ \A a \in Addr : links[a] = IF rest = 0 /\ a = prevp THEN ptr[p] ELSE ptr[a]
       /\ \A a \in Addr : a # p /\ a # block => sizes[a] = size[a]
       /\ rest # 0 => sizes[p] = rest
       /\ sizes[block] = k
       /\ rest = 0 => sizes = size
    <2>1. size \in [Addr -> 0 .. FRAMES * PAGE_UNITS] /\ ptr \in [Addr -> Addr]
        BY <1>1 DEF TypeOK
    <2>2. rest = 0 => block = p /\ size[p] = k
        <3> HIDE DEF k
        <3> QED
            BY <1>3, <1>7
    <2>3. rest # 0 => block # p
        <3> HIDE DEF k, rest, block
        <3> QED
            BY <1>7, <1>8
    <2> HIDE DEF k, rest, block
    <2> QED
        BY <1>12, <2>1, <2>2, <2>3
<1>15. \A a \in F \union {BASE} : a # p => a \notin block .. block + k - 1
    <2> SUFFICES ASSUME NEW a \in F \union {BASE}, a # p PROVE a \notin block .. block + k - 1
        OBVIOUS
    <2>1. a < p \/ p + size[p] < a
        BY <1>5, <1>7, OffBlock
    <2>2. a \in Nat
        BY <1>5, OfCircle
    <2> HIDE DEF k, rest, block
    <2> QED
        BY <1>3, <1>7, <1>8, <2>1, <2>2
<1> HIDE DEF k, rest, block, links, sizes, new
<1>16. \A a \in F \union {BASE} : a # p => ptr'[a] = links[a] /\ size'[a] = size[a]
    <2> SUFFICES ASSUME NEW a \in F \union {BASE}, a # p
                 PROVE  ptr'[a] = links[a] /\ size'[a] = size[a]
        OBVIOUS
    <2>1. a \in Addr
        BY <1>11
    <2>2. a \notin block .. block + k - 1
        BY <1>15
    <2>3. a # block /\ a \notin block + 1 .. block + k - 1
        BY <1>3, <1>8, <2>2
    <2> QED
        BY <1>13, <1>14, <2>1, <2>3
<1>17. size'[block] = k
    <2>1. block \notin block + 1 .. block + k - 1
        BY <1>8
    <2> QED
        BY <1>12, <1>13, <1>14, <2>1
<1>18. PICK G : G \subseteq F /\ Circle(G, ptr', size', Spare \ Span(block, k)) /\ prevp \in G \union {BASE}
    <2>1. CASE rest = 0
        <3>1. block = p /\ size[p] = k
            BY <1>3, <1>7, <1>8, <2>1
        <3>2. \A a \in (F \ {p}) \union {BASE} :
                 ptr'[a] = (IF a = prevp THEN ptr[p] ELSE ptr[a]) /\ size'[a] = size[a]
            <4>1. BASE # p
                BY <1>7, Numbers
            <4> QED
                BY <1>11, <1>14, <1>16, <2>1, <4>1
        <3>3. /\ Circle(F \ {p}, ptr', size', Spare \ Span(p, size[p]))
              /\ prevp \in (F \ {p}) \union {BASE}
            <4>1. ptr[prevp] = p
                BY <1>6
            <4>2. /\ \A a \in (F \ {p}) \union {BASE} : a # prevp => ptr'[a] = ptr[a]
                  /\ \A a \in (F \ {p}) \union {BASE} : size'[a] = size[a]
                BY <3>2
            <4>3. ptr'[prevp] = ptr[p]
                <5>1. prevp # p
                    BY <1>5, <1>6, <1>7, OfCircle DEF BASE
                <5> QED
                    BY <1>6, <3>2, <5>1
            <4> QED
                BY <1>5, <1>6, <1>7, <4>1, <4>2, <4>3, TakeOut
        <3> QED
            BY <3>1, <3>3
    <2>2. CASE rest # 0
        <3>1. p \notin block + 1 .. block + k - 1
            BY <1>7, <1>8
        <3>2. ptr'[p] = ptr[p] /\ size'[p] = rest
            BY <1>12, <1>13, <1>14, <2>2, <3>1
        <3>3. /\ \A a \in F \union {BASE} : ptr'[a] = ptr[a]
              /\ \A a \in F \union {BASE} : size'[a] = IF a = p THEN rest ELSE size[a]
            BY <1>11, <1>14, <1>16, <2>2, <3>2
        <3>4. rest \in Nat \ {0} /\ rest < size[p]
            BY <1>8, <2>2
        <3>5. Circle(F, ptr', size', Spare \ Span(p + rest, size[p] - rest))
            BY <1>5, <1>7, <3>3, <3>4, Shorten
        <3> QED
            BY <1>6, <1>8, <3>5
    <2> QED
        BY <2>1, <2>2
<1>19. Spare' = Spare \ Span(block, k)
    <2>1. Spare' = Unheld(arena', held')
        BY <1>2 DEF Spare, CallersBlock
    <2>2. Unheld(arena, held \union {new}) = Unheld(arena, held) \ Span(new.at, new.units)
        BY DEF Unheld
    <2> QED
        BY <1>2, <1>4, <1>10, <2>1, <2>2
<1>20. FreeList'
    <2>1. freep' # NULL
        BY <1>2, <1>11, <1>12, Numbers
    <2>2. Pointers(G)'
        BY <1>2, <1>18 DEF Pointers
    <2> QED
        BY <1>18, <1>19, <2>1, <2>2 DEF FreeList
<1>21. \A b \in held : Span(b.at, b.units) \intersect Span(p, size[p]) = {}
    BY <1>7, <1>10 DEF Unheld
<1>22. Blocks(held, size, arena)'
    <2>1. \A b \in held : size'[b.at] = b.units
        <3> SUFFICES ASSUME NEW b \in held PROVE size'[b.at] = b.units
            OBVIOUS
        <3>1. /\ b.at \in Nat \ {0} /\ b.units \in Nat \ {0} /\ size[b.at] = b.units
              /\ Span(b.at, b.units) \subseteq arena
            BY <1>1 DEF Blocks
        <3>2. b.at \in Span(b.at, b.units)
            BY <3>1 DEF Span
        <3>3. b.at \notin Span(p, size[p])
            BY <1>21, <3>2
        <3>4. b.at # p /\ b.at # block /\ b.at \notin block + 1 .. block + k - 1
            BY <1>3, <1>7, <1>8, <3>1, <3>3 DEF Span
        <3>5. b.at \in Addr
            BY <1>1, <3>1, <3>2 DEF TypeOK
        <3> QED
            BY <1>13, <1>14, <3>1, <3>4, <3>5
    <2>2. \A b \in held : /\ b.at \in Nat \ {0} /\ b.units \in Nat \ {0}
                          /\ Span(b.at, b.units) \subseteq arena
        BY <1>1 DEF Blocks
    <2>3. \A b, c \in held : b # c => Span(b.at, b.units) \intersect Span(c.at, c.units) = {}
        BY <1>1 DEF Blocks
    <2>4. /\ new.at \in Nat \ {0} /\ new.units \in Nat \ {0} /\ size'[new.at] = new.units
          /\ Span(new.at, new.units) \subseteq arena
        BY <1>3, <1>4, <1>7, <1>8, <1>9, <1>10, <1>17 DEF Unheld
    <2>5. \A b \in held : Span(b.at, b.units) \intersect Span(new.at, new.units) = {}
        BY <1>4, <1>9, <1>21
    <2> QED
        BY <1>2, <2>1, <2>2, <2>3, <2>4, <2>5 DEF Blocks
<1>23. Growth' /\ Argument'
    BY <1>1, <1>2 DEF Growth, Argument, NewPages, CallersBlock
<1>24. TypeOK'
    <2>1. ptr' \in [Addr -> Addr]
        <3>1. ptr \in [Addr -> Addr]
            BY <1>1 DEF TypeOK
        <3>2. \A a \in Addr : links[a] \in Addr
            BY <1>12, <1>14, <3>1
        <3> QED
            BY <1>2, <3>2, Numbers DEF Filled
    <2>2. size' \in [Addr -> 0 .. FRAMES * PAGE_UNITS]
        <3>1. size \in [Addr -> 0 .. Total]
            BY <1>1 DEF TypeOK, Total
        <3>2. rest \in 0 .. Total
            BY <1>7, <1>8, <1>12, <3>1, Numbers
        <3>3. \A a \in Addr : sizes[a] \in 0 .. Total
            <4>1. \A a \in Addr : size[a] \in 0 .. Total
                BY <3>1
            <4>2. k \in 0 .. Total
                BY <1>12, Numbers
            <4>3. rest = 0 => \A a \in Addr : sizes[a] \in 0 .. Total
                BY <1>14, <4>1
            <4>4. rest # 0 => \A a \in Addr : sizes[a] \in 0 .. Total
                BY <1>14, <3>2, <4>1, <4>2
            <4> QED
                BY <4>3, <4>4
        <3>4. 0 \in 0 .. Total
            BY Numbers
        <3> QED
            BY <1>2, <3>3, <3>4 DEF Filled, Total
    <2>3. held' \subseteq [at : Addr \ {BASE}, units : 1 .. FRAMES * PAGE_UNITS]
        <3>1. block \in Addr \ {BASE}
            BY <1>8, <1>12, Numbers
        <3>2. new \in [at : Addr \ {BASE}, units : 1 .. FRAMES * PAGE_UNITS]
            BY <1>12, <3>1 DEF new, Total
        <3> QED
            BY <1>1, <1>2, <3>2 DEF TypeOK
    <2>4. freep' \in Addr
        BY <1>2, <1>12
    <2> QED
        BY <1>1, <1>2, <2>1, <2>2, <2>3, <2>4 DEF TypeOK
<1> QED
    BY <1>20, <1>22, <1>23, <1>24 DEF IInv

-----------------------------------------------------------------------------
LEMMA MapPageKeeps ==
  ASSUME IInv, MapPage
  PROVE  IInv'
<1>1. TypeOK /\ Growth /\ Argument /\ Blocks(held, size, arena) /\ FreeList
    BY DEF IInv
<1>2. /\ pc = "map" /\ frames > 0 /\ frames' = frames - 1
      /\ heap_end' = heap_end + PAGE_UNITS
      /\ UNCHANGED <<ptr, size, freep, pc, nbytes, p, prevp, bp, heap_start, held, arena>>
    BY DEF MapPage, memoryVars, callVars, ghostVars
<1>3. /\ heap_start \in Nat \ {0} /\ heap_end \in Nat /\ heap_start <= heap_end
      /\ heap_end + frames * PAGE_UNITS = HEAP + Total
      /\ heap_end = heap_start + Mapped * PAGE_UNITS
      /\ frames \in Nat /\ frames <= FRAMES
    <2>1. heap_end \in HEAP .. HEAP + Total /\ frames \in 0 .. FRAMES
        BY <1>1 DEF TypeOK, Total
    <2>2. heap_end \in Nat /\ frames \in Nat /\ frames <= FRAMES
        BY <2>1, Numbers
    <2> QED
        BY <1>1, <1>2, <2>2 DEF Growth, NewPages, Total
<1>4. \A f \in Nat, u \in Nat : f > 0 => f * u = (f - 1) * u + u /\ (f - 1) * u \in Nat
    OBVIOUS
<1>5. frames * PAGE_UNITS = frames' * PAGE_UNITS + PAGE_UNITS /\ frames' * PAGE_UNITS \in Nat
    BY <1>2, <1>3, <1>4, Numbers
<1>6. heap_end' + frames' * PAGE_UNITS = HEAP + Total
    <2> DEFINE a == frames * PAGE_UNITS  c == frames' * PAGE_UNITS
    <2> HIDE DEF a, c
    <2>1. c \in Nat /\ a = c + PAGE_UNITS /\ heap_end + a = HEAP + Total
        BY <1>3, <1>5 DEF a, c
    <2>2. heap_end' + c = HEAP + Total
        BY <1>2, <1>3, <2>1, Numbers
    <2> QED
        BY <2>2 DEF c
<1>7. heap_end' = heap_start' + Mapped' * PAGE_UNITS
    <2>1. \A d \in Nat, u \in Nat \ {0} : (d + u) \div u = d \div u + 1 /\ d \div u \in Nat
        OBVIOUS
    <2>2. heap_end' - heap_start' = (heap_end - heap_start) + PAGE_UNITS /\ heap_end - heap_start \in Nat
        BY <1>2, <1>3, Numbers
    <2>3. Mapped' = Mapped + 1 /\ Mapped \in Nat
        BY <2>1, <2>2, Numbers DEF Mapped
    <2>4. \A m \in Nat, u \in Nat : (m + 1) * u = m * u + u /\ m * u \in Nat
        OBVIOUS
    <2>5. Mapped' * PAGE_UNITS = Mapped * PAGE_UNITS + PAGE_UNITS /\ Mapped * PAGE_UNITS \in Nat
        BY <2>3, <2>4, Numbers
    <2> DEFINE a == Mapped * PAGE_UNITS  c == Mapped' * PAGE_UNITS
    <2>6. a \in Nat /\ c = a + PAGE_UNITS /\ heap_end = heap_start + a
        BY <1>3, <2>5
    <2> HIDE DEF a, c
    <2>7. heap_end' = heap_start' + c
        BY <1>2, <1>3, <2>6, Numbers
    <2> QED
        BY <2>7 DEF c
<1>8. Growth'
    <2>1. heap_start' \in Nat \ {0} /\ heap_start' <= heap_end'
        BY <1>2, <1>3, Numbers
    <2>2. \A u \in arena' : u < heap_start'
        BY <1>1, <1>2 DEF Growth, NewPages
    <2> QED
        BY <1>2, <1>6, <1>7, <2>1, <2>2 DEF Growth, NewPages, Total
<1>9. Argument' /\ Blocks(held, size, arena)'
    BY <1>1, <1>2 DEF Argument, CallersBlock, Blocks
<1>10. FreeList'
    <2>1. PICK F : Circle(F, ptr, size, Spare) /\ Pointers(F)
        BY <1>1, <1>2 DEF FreeList
    <2>2. Circle(F, ptr', size', Spare') /\ Pointers(F)'
        BY <1>2, <2>1 DEF Pointers, Spare, CallersBlock
    <2> QED
        BY <1>1, <1>2, <2>2 DEF FreeList
<1>11. TypeOK'
    <2>1. heap_end' \in HEAP .. HEAP + Total
        <3> DEFINE c == frames' * PAGE_UNITS
        <3> HIDE DEF c
        <3>1. c \in Nat /\ heap_end' + c = HEAP + Total
            BY <1>5, <1>6 DEF c
        <3>2. heap_end' \in Nat /\ heap_end' >= 1
            BY <1>2, <1>3, Numbers
        <3>3. \A e, m, t \in Nat : e >= 1 /\ e + m = 1 + t => e \in 1 .. 1 + t
            OBVIOUS
        <3> QED
            BY <3>1, <3>2, <3>3, Numbers
    <2>2. frames' \in 0 .. FRAMES
        BY <1>2, <1>3, HeapAssumption
    <2> QED
        BY <1>1, <1>2, <2>1, <2>2 DEF TypeOK, Total
<1> QED
    BY <1>8, <1>9, <1>10, <1>11 DEF IInv

LEMMA OutOfFramesKeeps ==
  ASSUME IInv, OutOfFrames
  PROVE  IInv'
<1>1. TypeOK /\ Growth /\ Argument /\ Blocks(held, size, arena) /\ FreeList
    BY DEF IInv
<1>2. /\ pc = "map" /\ pc' = "idle" /\ nbytes' = NULL
      /\ {p', prevp', bp', heap_start'} = {NULL}
      /\ UNCHANGED <<ptr, size, freep, heap_end, frames, held, arena>>
    BY DEF OutOfFrames, Return, memoryVars, growthVars, ghostVars
<1>3. Growth'
    <2>1. heap_end \in HEAP .. HEAP + Total
        BY <1>1 DEF TypeOK, Total
    <2>2. heap_end \in Nat /\ heap_start \in Nat /\ heap_start <= heap_end
        BY <1>1, <1>2, <2>1, Numbers DEF Growth, NewPages
    <2>3. \A u \in arena : u \in Nat /\ u < heap_start
        BY <1>1, <1>2, Numbers DEF Growth, NewPages, TypeOK
    <2>4. \A u \in arena : u < heap_end
        BY <2>2, <2>3
    <2> QED
        BY <1>1, <1>2, <2>4 DEF Growth, NewPages
<1>4. Argument' /\ Blocks(held, size, arena)'
    BY <1>1, <1>2 DEF Argument, CallersBlock, Blocks
<1>5. FreeList'
    <2>1. PICK F : Circle(F, ptr, size, Spare) /\ Pointers(F)
        BY <1>1, <1>2 DEF FreeList
    <2>2. Circle(F, ptr', size', Spare') /\ Pointers(F)'
        BY <1>2, <2>1 DEF Pointers, Spare, CallersBlock
    <2> QED
        BY <1>1, <1>2, <2>2 DEF FreeList
<1>6. TypeOK'
    BY <1>1, <1>2 DEF TypeOK
<1> QED
    BY <1>3, <1>4, <1>5, <1>6 DEF IInv

LEMMA FreeNewPagesKeeps ==
  ASSUME IInv, FreeNewPages
  PROVE  IInv'
<1>1. TypeOK /\ Growth /\ Argument /\ Blocks(held, size, arena) /\ FreeList
    BY DEF IInv
<1>2. /\ pc = "map" /\ Mapped = PagesWanted
      /\ size' = [size EXCEPT ![heap_start] = PagesWanted * PAGE_UNITS]
      /\ bp' = heap_start /\ p' = freep /\ pc' = "locate"
      /\ UNCHANGED <<ptr, freep, heap_end, frames, nbytes, prevp, heap_start, held, arena>>
    BY DEF FreeNewPages, growthVars, ghostVars
<1>3. nbytes \in Request /\ nbytes # NULL
    BY <1>1, <1>2, HeapAssumption DEF Argument
<1>4. PagesWanted * PAGE_UNITS \in Nat \ {0}
    <2>1. \A m \in Nat \ {0}, u \in Nat \ {0} : m * u \in Nat \ {0}
        OBVIOUS
    <2> QED
        BY <1>3, <2>1, Wanted, Numbers
<1> DEFINE bytes == PagesWanted * PAGE_UNITS
<1>5. heap_end = heap_start + bytes
    BY <1>1, <1>2 DEF Growth
<1> HIDE DEF bytes
<1>6. heap_start \in Nat \ {0} /\ heap_end \in Nat /\ heap_end <= Total + 1
    <2>1. heap_end \in HEAP .. HEAP + Total
        BY <1>1 DEF TypeOK, Total
    <2> QED
        BY <1>1, <1>2, <2>1, Numbers DEF Growth, NewPages
<1>7. /\ bytes \in Nat \ {0} /\ bytes = heap_end - heap_start /\ heap_start < heap_end
      /\ heap_start \in 1 .. Total /\ bytes \in 0 .. Total
    <2>1. bytes \in Nat \ {0}
        BY <1>4 DEF bytes
    <2> QED
        BY <1>5, <1>6, <2>1, Numbers
<1>8. size' = [size EXCEPT ![heap_start] = bytes]
    BY <1>2 DEF bytes
<1>9. /\ size'[heap_start] = bytes
      /\ \A a \in Addr : a # heap_start => size'[a] = size[a]
      /\ size' \in [Addr -> 0 .. FRAMES * PAGE_UNITS]
    <2>1. size \in [Addr -> 0 .. Total]
        BY <1>1 DEF TypeOK, Total
    <2>2. heap_start \in Addr
        BY <1>7, Numbers
    <2> QED
        BY <1>7, <1>8, <2>1, <2>2 DEF Total
<1>10. \A u \in arena : u \in Addr /\ u # heap_start
    <2>1. \A u \in arena : u \in Addr /\ u < heap_start
        BY <1>1, <1>2 DEF Growth, NewPages, TypeOK
    <2> QED
        BY <1>6, <2>1
<1>11. Growth'
    BY <1>1, <1>2, <1>3 DEF Growth, NewPages
<1>12. Argument'
    BY <1>2, <1>3, <1>7, <1>9 DEF Argument, CallersBlock
<1>13. Blocks(held, size, arena)'
    <2>1. \A b \in held : size'[b.at] = size[b.at]
        <3> SUFFICES ASSUME NEW b \in held PROVE size'[b.at] = size[b.at]
            OBVIOUS
        <3>1. b.at \in arena
            BY <1>1 DEF Blocks, Span
        <3> QED
            BY <1>9, <1>10, <3>1
    <2> QED
        BY <1>1, <1>2, <2>1 DEF Blocks
<1>14. FreeList'
    <2>1. PICK F : Circle(F, ptr, size, Spare) /\ Pointers(F)
        BY <1>1, <1>2 DEF FreeList
    <2>2. Spare' = Spare /\ Spare \subseteq arena
        BY <1>2, <1>3 DEF Spare, CallersBlock, Unheld
    <2>3. \A a \in F \union {BASE} : size'[a] = size[a]
        <3>1. \A a \in F : a \in arena
            BY <2>1, <2>2, OfCircle
        <3>2. BASE \in Addr /\ BASE # heap_start
            BY <1>6, Numbers
        <3> QED
            BY <1>9, <1>10, <3>1, <3>2
    <2>4. Circle(F, ptr', size', Spare')
        <3>1. \A a \in F \union {BASE} : ptr'[a] = ptr[a] /\ size'[a] = size[a]
            BY <1>2, <2>3
        <3> QED
            BY <2>1, <2>2, <3>1, SameCircle
    <2>5. Pointers(F)'
        BY <1>2, <2>1 DEF Pointers
    <2> QED
        BY <1>1, <1>2, <2>4, <2>5 DEF FreeList
<1>15. TypeOK'
    <2>1. heap_start \in Addr
        BY <1>7, Numbers
    <2> QED
        BY <1>1, <1>2, <1>9, <2>1 DEF TypeOK
<1> QED
    BY <1>11, <1>12, <1>13, <1>14, <1>15 DEF IInv

-----------------------------------------------------------------------------
LEMMA FreeKeeps ==
  ASSUME IInv, NEW b \in held, free(b)
  PROVE  IInv'
<1>1. TypeOK /\ Growth /\ Argument /\ Blocks(held, size, arena) /\ FreeList
    BY DEF IInv
<1>2. /\ pc = "idle" /\ pc' = "locate" /\ held' = held \ {b} /\ bp' = b.at /\ p' = freep
      /\ UNCHANGED <<ptr, size, freep, heap_end, frames, nbytes, prevp, heap_start, arena>>
    BY DEF free, memoryVars, growthVars
<1>3. nbytes = NULL /\ nbytes' = NULL
    BY <1>1, <1>2 DEF Argument
<1>4. /\ b.at \in Nat \ {0} /\ b.units \in Nat \ {0} /\ size[b.at] = b.units
      /\ Span(b.at, b.units) \subseteq arena
      /\ \A c \in held : c # b => Span(c.at, c.units) \intersect Span(b.at, b.units) = {}
    BY <1>1 DEF Blocks
<1>5. Span(b.at, b.units) \subseteq Unheld(arena, held \ {b})
    BY <1>4 DEF Unheld
<1>6. Unheld(arena, held) = Unheld(arena, held \ {b}) \ Span(b.at, b.units)
    BY DEF Unheld
<1>7. Growth' /\ Argument'
    BY <1>1, <1>2, <1>3, <1>4, <1>5 DEF Growth, NewPages, Argument, CallersBlock
<1>8. Blocks(held, size, arena)'
    BY <1>1, <1>2 DEF Blocks
<1>9. FreeList'
    <2>1. PICK F : Circle(F, ptr, size, Spare) /\ Pointers(F)
        BY <1>1 DEF FreeList
    <2>2. Spare' = Spare
        BY <1>2, <1>3, <1>4, <1>6 DEF Spare, CallersBlock
    <2>3. Circle(F, ptr', size', Spare') /\ Pointers(F)'
        BY <1>2, <2>1, <2>2 DEF Pointers
    <2>4. freep' # NULL
        BY <1>1, <1>2 DEF FreeList
    <2> QED
        BY <2>3, <2>4 DEF FreeList
<1>10. TypeOK'
    <2>1. b.at \in Addr
        BY <1>1 DEF TypeOK
    <2> QED
        BY <1>1, <1>2, <2>1 DEF TypeOK
<1> QED
    BY <1>7, <1>8, <1>9, <1>10 DEF IInv

LEMMA LocateKeeps ==
  ASSUME IInv, Locate
  PROVE  IInv'
<1>1. TypeOK /\ Growth /\ Argument /\ Blocks(held, size, arena) /\ FreeList
    BY DEF IInv
<1>2. /\ pc = "locate" /\ p' = ptr[p]
      /\ UNCHANGED <<ptr, size, freep, heap_end, frames, pc, nbytes, prevp, bp, heap_start, held, arena>>
    BY DEF Locate, memoryVars, growthVars, ghostVars
<1>3. PICK F : Circle(F, ptr, size, Spare) /\ Pointers(F)
    BY <1>1, <1>2 DEF FreeList
<1>4. p \in F \union {BASE} /\ ptr[p] \in F \union {BASE}
    BY <1>2, <1>3, OfCircle DEF Pointers
<1>5. Circle(F, ptr', size', Spare') /\ Pointers(F)'
    BY <1>2, <1>3, <1>4 DEF Pointers, Spare, CallersBlock
<1>6. FreeList'
    BY <1>1, <1>2, <1>5 DEF FreeList
<1>7. Growth' /\ Argument' /\ Blocks(held, size, arena)'
    BY <1>1, <1>2 DEF Growth, Argument, Blocks, NewPages, CallersBlock, Mapped
<1>8. F \union {BASE} \subseteq Addr
    BY <1>1, <1>3, InHeap
<1>9. TypeOK'
    BY <1>1, <1>2, <1>4, <1>8 DEF TypeOK
<1> QED
    BY <1>6, <1>7, <1>9 DEF IInv

LEMMA InsertKeeps ==
  ASSUME IInv, Insert
  PROVE  IInv'
<1>1. TypeOK /\ Growth /\ Argument /\ Blocks(held, size, arena) /\ FreeList
    BY DEF IInv
<1>2. pc = "locate" /\ BelongsHere /\ LinkedIn /\ freep' = p /\ UNCHANGED <<heap_end, frames, held>>
    BY DEF Insert, growthVars
<1>3. nbytes = NULL =>
        /\ pc' = "idle" /\ nbytes' = NULL /\ arena' = arena
        /\ {p', prevp', bp', heap_start'} = {NULL}
    BY DEF Insert, Return
<1>4. nbytes # NULL =>
        /\ pc' = "search" /\ nbytes' = nbytes
        /\ arena' = arena \union (heap_start .. heap_end - 1)
        /\ prevp' = p /\ p' = ptr'[p] /\ bp' = NULL /\ heap_start' = NULL
    BY DEF Insert
<1>5. PICK F : Circle(F, ptr, size, Spare) /\ Pointers(F)
    BY <1>1, <1>2 DEF FreeList
<1>6. /\ p \in F \union {BASE} /\ ptr[p] \in F \union {BASE}
      /\ p \in Nat /\ ptr[p] \in Nat /\ (ptr[p] = BASE \/ p < ptr[p])
      /\ size[BASE] = 0
    <2>1. p \in F \union {BASE}
        BY <1>2, <1>5 DEF Pointers
    <2> QED
        BY <1>5, <2>1, OfCircle
<1>7. heap_end \in Nat /\ heap_end <= Total + 1
    <2>1. heap_end \in HEAP .. HEAP + Total
        BY <1>1 DEF TypeOK, Total
    <2> QED
        BY <2>1, Numbers
<1>8. arena \subseteq 1 .. Total
    <2>1. arena \in SUBSET (Addr \ {BASE})
        BY <1>1 DEF TypeOK
    <2> QED
        BY <2>1, Numbers
<1>9. nbytes # NULL =>
        /\ bp = heap_start /\ size[bp] = heap_end - heap_start
        /\ heap_start \in Nat \ {0} /\ heap_start < heap_end
        /\ \A u \in arena : u < heap_start
        /\ Spare = Unheld(arena, held)
    BY <1>1, <1>2 DEF Argument, Growth, NewPages, Spare, CallersBlock
<1>10. nbytes = NULL =>
        /\ bp \in Nat \ {0} /\ size[bp] \in Nat \ {0}
        /\ Span(bp, size[bp]) \subseteq Unheld(arena, held)
        /\ Spare = Unheld(arena, held) \ Span(bp, size[bp])
    BY <1>1, <1>2 DEF Argument, Spare, CallersBlock
<1>11. bp \in Nat \ {0} /\ size[bp] \in Nat \ {0} /\ bp + size[bp] <= Total + 1
    <2>1. CASE nbytes # NULL
        BY <1>7, <1>9, <2>1, Numbers
    <2>2. CASE nbytes = NULL
        <3>1. bp + size[bp] - 1 \in Span(bp, size[bp])
            BY <1>10, <2>2 DEF Span
        <3>2. bp + size[bp] - 1 \in 1 .. Total
            BY <1>8, <1>10, <2>2, <3>1 DEF Unheld
        <3> QED
            BY <1>10, <2>2, <3>2, Numbers
    <2> QED
        BY <2>1, <2>2
<1>12. Span(bp, size[bp]) \intersect Spare = {}
    <2>1. CASE nbytes # NULL
        <3>1. \A u \in Spare : u \in Nat /\ u < heap_start
            <4>1. Spare \subseteq arena
                BY <1>9, <2>1 DEF Unheld
            <4>2. \A u \in arena : u \in Nat /\ u < heap_start
                BY <1>8, <1>9, <2>1
            <4> QED
                BY <4>1, <4>2
        <3> QED
            BY <1>9, <1>11, <2>1, <3>1 DEF Span
    <2>2. CASE nbytes = NULL
        BY <1>10, <2>2
    <2> QED
        BY <2>1, <2>2
<1>13. Spare' = Spare \union Span(bp, size[bp])
    <2>1. Spare' = Unheld(arena', held)
        BY <1>2, <1>3, <1>4 DEF Spare, CallersBlock
    <2>2. CASE nbytes = NULL
        BY <1>3, <1>10, <2>1, <2>2
    <2>3. CASE nbytes # NULL
        <3>1. heap_start .. heap_end - 1 = Span(bp, size[bp])
            BY <1>7, <1>9, <2>3 DEF Span
        <3>2. \A b \in held : Span(b.at, b.units) \intersect Span(bp, size[bp]) = {}
            <4>1. \A b \in held : Span(b.at, b.units) \subseteq arena
                BY <1>1 DEF Blocks
            <4>2. \A u \in Span(bp, size[bp]) : u \notin arena
                BY <1>8, <1>9, <1>11, <2>3 DEF Span
            <4> QED
                BY <4>1, <4>2
        <3>3. Unheld(arena \union Span(bp, size[bp]), held) = Unheld(arena, held) \union Span(bp, size[bp])
            BY <3>2 DEF Unheld
        <3> QED
            BY <1>4, <1>9, <2>1, <2>3, <3>1, <3>3
    <2> QED
        BY <2>2, <2>3
<1>14. p < bp /\ (bp < ptr[p] \/ ptr[p] = BASE)
    BY <1>2, <1>6, <1>11, Numbers DEF BelongsHere
<1> DEFINE next  == ptr[p]
           upper == bp + size[bp] = next
           lower == p + size[p] = bp
           units == IF upper THEN size[bp] + size[next] ELSE size[bp]
           link  == IF upper THEN ptr[next] ELSE next
<1>15. /\ size' = IF lower THEN [size EXCEPT ![bp] = units, ![p] = @ + units]
                           ELSE [size EXCEPT ![bp] = units]
       /\ ptr' = [ptr EXCEPT ![bp] = link, ![p] = IF lower THEN link ELSE bp]
    BY <1>2 DEF LinkedIn
<1>16. F \union {BASE} \subseteq Addr /\ bp \in Addr /\ bp \notin F \union {BASE} /\ p # bp
    <2>1. F \union {BASE} \subseteq Addr
        BY <1>1, <1>5, InHeap
    <2>2. bp \in Addr
        BY <1>11, Numbers
    <2>3. bp \in Span(bp, size[bp])
        BY <1>11 DEF Span
    <2>4. bp \notin F
        BY <1>5, <1>12, <2>3, OfCircle
    <2>5. bp # BASE /\ p # bp
        BY <1>6, <1>11, <1>14, Numbers
    <2> QED
        BY <2>1, <2>2, <2>4, <2>5
<1>17. ptr \in [Addr -> Addr] /\ size \in [Addr -> 0 .. Total]
    BY <1>1 DEF TypeOK, Total
<1>18. /\ \A a \in Addr : a # p /\ a # bp => ptr'[a] = ptr[a] /\ size'[a] = size[a]
       /\ ptr'[p] = IF lower THEN link ELSE bp
       /\ size'[p] = IF lower THEN size[p] + units ELSE size[p]
       /\ ptr'[bp] = link /\ size'[bp] = units
    <2> HIDE DEF units, link, lower
    <2>1. p \in Addr
        BY <1>6, <1>16
    <2> QED
        BY <1>15, <1>16, <1>17, <2>1
<1>19. \E G \in SUBSET (F \union {bp}) :
         Circle(G, ptr', size', Spare \union Span(bp, size[bp])) /\ p \in G \union {BASE}
    <2>1. \A a \in F \union {BASE} : a # p => ptr'[a] = ptr[a] /\ size'[a] = size[a]
        BY <1>16, <1>18
    <2>2. Joined(F, ptr, size, p, bp, ptr', size')
        BY <1>18, <2>1 DEF Joined
    <2> QED
        <3> DEFINE newPtr == ptr'  newSize == size'  now == Spare
        <3>1. Circle(F, ptr, size, now) /\ Joined(F, ptr, size, p, bp, newPtr, newSize)
            BY <1>5, <2>2
        <3>2. p \in F \union {BASE}
            BY <1>6
        <3>3. bp \in Nat \ {0} /\ size[bp] \in Nat \ {0}
            BY <1>11
        <3>4. p < bp
            BY <1>14
        <3>5. bp < ptr[p] \/ ptr[p] = BASE
            BY <1>14
        <3>6. Span(bp, size[bp]) \intersect now = {}
            BY <1>12
        <3> HIDE DEF newPtr, newSize, now
        <3>7. \E G \in SUBSET (F \union {bp}) :
                Circle(G, newPtr, newSize, now \union Span(bp, size[bp])) /\ p \in G \union {BASE}
            BY ONLY <3>1, <3>2, <3>3, <3>4, <3>5, <3>6, JoinIn
        <3> QED
            BY <3>7 DEF newPtr, newSize, now
<1>20. PICK G \in SUBSET (F \union {bp}) :
         Circle(G, ptr', size', Spare') /\ p \in G \union {BASE}
    BY <1>13, <1>19
<1>21. FreeList'
    <2>1. freep' # NULL
        BY <1>2, <1>6, Numbers
    <2>2. Pointers(G)'
        BY <1>2, <1>3, <1>4, <1>20 DEF Pointers
    <2> QED
        BY <1>20, <2>1, <2>2 DEF FreeList
<1>22. arena \subseteq arena'
    BY <1>3, <1>4
<1>23. Blocks(held, size, arena)'
    <2>1. \A b \in held : size'[b.at] = size[b.at]
        <3> SUFFICES ASSUME NEW b \in held PROVE size'[b.at] = size[b.at]
            OBVIOUS
        <3>1. b.at \in Nat \ {0} /\ b.at \in Span(b.at, b.units) /\ b.at \in arena
            BY <1>1 DEF Blocks, Span
        <3>2. b.at \notin Unheld(arena, held)
            BY <3>1 DEF Unheld
        <3>3. b.at # p
            <4>1. \A a \in F : a \in Unheld(arena, held)
                BY <1>5, <1>9, <1>10, OfCircle
            <4> QED
                BY <1>6, <3>1, <3>2, <4>1, Numbers
        <3>4. b.at # bp
            <4>1. CASE nbytes = NULL
                <5>1. bp \in Span(bp, size[bp])
                    BY <1>11 DEF Span
                <5> QED
                    BY <1>10, <3>2, <4>1, <5>1
            <4>2. CASE nbytes # NULL
                BY <1>9, <3>1, <4>2
            <4> QED
                BY <4>1, <4>2
        <3>5. b.at \in Addr
            BY <1>1 DEF TypeOK
        <3> QED
            BY <1>18, <3>3, <3>4, <3>5
    <2> QED
        BY <1>1, <1>2, <1>22, <2>1 DEF Blocks
<1>24. Growth' /\ Argument'
    <2>1. \A u \in arena' : u < heap_end
        <3>1. CASE nbytes = NULL
            BY <1>1, <1>2, <1>3, <3>1 DEF Growth, NewPages
        <3>2. CASE nbytes # NULL
            <4>1. \A u \in arena : u \in Nat /\ u < heap_start
                BY <1>8, <1>9, <3>2
            <4>2. \A u \in arena : u < heap_end
                BY <1>7, <1>9, <3>2, <4>1
            <4>3. \A u \in heap_start .. heap_end - 1 : u < heap_end
                BY <1>7, <1>9, <3>2
            <4> QED
                BY <1>4, <3>2, <4>2, <4>3
        <3> QED
            BY <3>1, <3>2
    <2>2. Growth'
        BY <1>1, <1>2, <1>3, <1>4, <2>1 DEF Growth, NewPages
    <2>3. Argument'
        BY <1>1, <1>3, <1>4, HeapAssumption DEF Argument, CallersBlock, TypeOK
    <2> QED
        BY <2>2, <2>3
<1>25. TypeOK'
    <2>1. link \in Addr
        BY <1>5, <1>6, <1>16, OfCircle
    <2>2. units \in Nat \ {0} /\ bp + units <= Total + 1
        <3>1. CASE upper
            <4>1. next \in F
                BY <1>6, <1>11, <3>1, Numbers
            <4>2. next \in Nat /\ size[next] \in Nat /\ next + size[next] <= Total + 1
                BY <1>1, <1>5, <1>6, <4>1, InHeap, OfCircle
            <4>3. next = bp + size[bp] /\ units = size[bp] + size[next]
                BY <3>1
            <4> HIDE DEF next, units
            <4> QED
                BY <1>11, <4>2, <4>3, Numbers
        <3>2. CASE ~ upper
            BY <1>11, <3>2
        <3> QED
            BY <3>1, <3>2
    <2>3. ptr' \in [Addr -> Addr]
        <3> HIDE DEF link, lower
        <3> QED
            BY <1>15, <1>16, <1>17, <2>1
    <2>4. units \in 0 .. Total
        <3> HIDE DEF units
        <3> QED
            BY <1>11, <2>2, Numbers
    <2>5. lower => size[p] + units \in 0 .. Total
        <3> SUFFICES ASSUME lower PROVE size[p] + units \in 0 .. Total
            OBVIOUS
        <3>0. p \in Addr
            BY <1>6, <1>16
        <3>1. size[p] \in Nat /\ p + size[p] = bp
            <4>1. size[p] \in 0 .. Total
                BY <1>17, <3>0
            <4> QED
                BY <4>1, Numbers
        <3>2. p # 0
            BY <1>6, <1>11, <3>1, Numbers
        <3> HIDE DEF units
        <3> QED
            BY <1>6, <1>11, <2>2, <3>1, <3>2, Numbers
    <2>6. size' \in [Addr -> 0 .. FRAMES * PAGE_UNITS]
        <3> HIDE DEF units, lower
        <3>1. p \in Addr
            BY <1>6, <1>16
        <3> QED
            BY <1>15, <1>16, <1>17, <2>4, <2>5, <3>1 DEF Total
    <2>7. p \in Addr
        BY <1>6, <1>16
    <2>8. arena' \in SUBSET (Addr \ {BASE})
        <3>1. nbytes # NULL => heap_start .. heap_end - 1 \subseteq 1 .. Total
            BY <1>7, <1>9, Numbers
        <3>2. arena' \subseteq 1 .. Total
            BY <1>3, <1>4, <1>8, <3>1
        <3> QED
            BY <3>2, Numbers
    <2>9. {p', prevp', bp'} \subseteq Addr \union {NULL}
        BY <1>3, <1>4, <2>3, <2>7
    <2> QED
        BY <1>1, <1>2, <1>3, <1>4, <2>3, <2>6, <2>7, <2>8, <2>9 DEF TypeOK
<1> QED
    BY <1>21, <1>23, <1>24, <1>25 DEF IInv

-----------------------------------------------------------------------------
LEMMA StepHolds == IInv /\ [Next]_vars => IInv'
<1> SUFFICES ASSUME IInv, [Next]_vars PROVE IInv'
    OBVIOUS
<1>1. CASE \E n \in Request : malloc(n)
    BY <1>1, MallocKeeps
<1>2. CASE \E b \in held : free(b)
    BY <1>2, FreeKeeps
<1>3. CASE Advance
    BY <1>3, AdvanceKeeps
<1>4. CASE Allocate
    BY <1>4, AllocateKeeps
<1>5. CASE morecore
    BY <1>5, MorecoreKeeps
<1>6. CASE MapPage
    BY <1>6, MapPageKeeps
<1>7. CASE OutOfFrames
    BY <1>7, OutOfFramesKeeps
<1>8. CASE FreeNewPages
    BY <1>8, FreeNewPagesKeeps
<1>9. CASE Locate
    BY <1>9, LocateKeeps
<1>10. CASE Insert
    BY <1>10, InsertKeeps
<1>11. CASE UNCHANGED vars
    <2>1. UNCHANGED <<ptr, size, freep, heap_end, frames, pc, nbytes, p, prevp, bp, heap_start, held, arena>>
        BY <1>11 DEF vars, memoryVars, growthVars, callVars, ghostVars
    <2>2. Spare' = Spare
        BY <2>1 DEF Spare, CallersBlock
    <2>3. FreeList'
        BY <2>1, <2>2 DEF IInv, FreeList, Pointers
    <2>4. TypeOK' /\ Blocks(held, size, arena)'
        BY <2>1 DEF IInv, TypeOK, Blocks
    <2>5. Growth' /\ Argument'
        BY <2>1 DEF IInv, Growth, Argument, NewPages, CallersBlock, Mapped
    <2> QED
        BY <2>3, <2>4, <2>5 DEF IInv
<1> QED
    BY <1>1, <1>2, <1>3, <1>4, <1>5, <1>6, <1>7, <1>8, <1>9, <1>10, <1>11 DEF Next, Step

(* alloc.c:59-146: what the theorems below rest on: besides the types, how *)
(* far the heap has grown, what the call in progress has in its hands, and *)
(* that the list is a circle of exactly the units nobody has.              *)
THEOREM HeapInvariant == Spec => []IInv
BY InitHolds, StepHolds, PTL DEF Spec

(* alloc.c:10-25: the state of the heap keeps its type: no header lies     *)
(* outside the heap, no block is longer than the heap, for every page      *)
(* size, number of frames and set of requests.                             *)
THEOREM TypeCorrect == Spec => []TypeOK
<1>1. IInv => TypeOK
    BY DEF IInv
<1> QED
    BY <1>1, HeapInvariant, PTL

-----------------------------------------------------------------------------
LEMMA ChosenNext ==
  ASSUME NEW F, F \subseteq Nat, NEW a \in Nat, NEW n \in F, n > a,
         \A d \in F : d > a => d >= n
  PROVE  (CHOOSE c \in F : c > a /\ \A d \in F : d > a => d >= c) = n
<1> DEFINE P(c) == c > a /\ \A d \in F : d > a => d >= c
<1>1. P(n)
    OBVIOUS
<1>2. \A c \in F : P(c) => c = n
    OBVIOUS
<1> HIDE DEF P
<1>3. (CHOOSE c \in F : P(c)) = n
    BY <1>1, <1>2
<1> QED
    BY <1>3 DEF P

LEMMA CircleIsListed ==
  ASSUME NEW F, NEW spare, Circle(F, ptr, size, spare)
  PROVE  Listed(F)
<1>1. F \subseteq Nat \ {0}
    BY OfCircle
<1>2. ASSUME NEW a \in F \union {BASE}
      PROVE  ptr[a] = IF \E c \in F : c > a
                      THEN CHOOSE c \in F : c > a /\ \A d \in F : d > a => d >= c
                      ELSE BASE
    <2>1. IsNext(F, a, ptr[a]) /\ a \in Nat
        BY <1>1, <1>2 DEF Circle, Linked, BASE
    <2>2. CASE ptr[a] \in F /\ a < ptr[a] /\ \A c \in F : ~ (a < c /\ c < ptr[a])
        <3>1. F \subseteq Nat /\ ptr[a] > a /\ \A d \in F : d > a => d >= ptr[a]
            <4>1. F \subseteq Nat /\ ptr[a] \in Nat /\ a \in Nat
                BY <1>1, <2>1, <2>2
            <4>2. \A d \in F : d > a => d >= ptr[a]
                BY <2>2, <4>1
            <4> QED
                BY <2>2, <4>1, <4>2
        <3>2. (CHOOSE c \in F : c > a /\ \A d \in F : d > a => d >= c) = ptr[a]
            BY <2>1, <2>2, <3>1, ChosenNext
        <3>3. \E c \in F : c > a
            BY <2>2, <3>1
        <3> QED
            BY <3>2, <3>3
    <2>3. CASE ptr[a] = BASE /\ \A c \in F : c <= a
        <3>1. ~ \E c \in F : c > a
            BY <1>1, <2>1, <2>3
        <3> QED
            BY <2>3, <3>1
    <2> QED
        BY <2>1, <2>2, <2>3 DEF IsNext
<1> QED
    BY <1>2 DEF Listed

LEMMA Exact == IInv => FreeListExact
<1> SUFFICES ASSUME IInv, pc = "idle", freep # NULL
             PROVE  \E F \in SUBSET (Addr \ {BASE}) :
                      /\ Listed(F)
                      /\ freep \in F \union {BASE}
                      /\ UNION {Extent(a) : a \in F} = arena \ HeldUnits
                      /\ \A a, c \in F : a < c => a + size[a] < c
    BY DEF FreeListExact
<1>1. TypeOK /\ Blocks(held, size, arena)
    BY DEF IInv
<1>2. PICK F : Circle(F, ptr, size, Spare) /\ Pointers(F)
    BY DEF IInv, FreeList
<1>3. F \in SUBSET (Addr \ {BASE})
    BY <1>1, <1>2, InHeap, Numbers
<1>4. arena \subseteq Nat
    <2>1. arena \in SUBSET (Addr \ {BASE})
        BY <1>1 DEF TypeOK
    <2> QED
        BY <2>1, Numbers
<1>5. Spare = arena \ HeldUnits
    <2>1. Spare = Unheld(arena, held)
        BY DEF Spare, CallersBlock
    <2>2. ASSUME NEW b \in held
          PROVE  b.at .. b.at + b.units - 1 = Span(b.at, b.units)
        <3>1. b.at \in Nat /\ b.units \in Nat
            BY <1>1 DEF Blocks
        <3>2. \A a, n \in Nat : a .. a + n - 1 = Span(a, n)
            BY DEF Span
        <3> QED
            BY <3>1, <3>2
    <2>3. HeldUnits = UNION {Span(b.at, b.units) : b \in held}
        BY <2>2 DEF HeldUnits
    <2> QED
        BY <2>1, <2>3 DEF Unheld
<1>6. UNION {Extent(a) : a \in F} = Spare
    <2>1. ASSUME NEW a \in F
          PROVE  Extent(a) = Span(a, size[a])
        <3>1. a \in Nat /\ size[a] \in Nat
            BY <1>2, OfCircle
        <3>2. \A m, n \in Nat : m .. m + n - 1 = Span(m, n)
            BY DEF Span
        <3> QED
            BY <3>1, <3>2 DEF Extent
    <2>2. \A a \in F : Span(a, size[a]) \subseteq Spare
        BY <1>2, OfCircle
    <2>3. \A u \in Spare : \E a \in F : u \in Span(a, size[a])
        <3>1. Spare \subseteq Nat
            BY <1>4, <1>5
        <3> QED
            BY <1>2, <3>1 DEF Circle, Covers, Span
    <2> QED
        BY <2>1, <2>2, <2>3
<1>7. \A a, c \in F : a < c => a + size[a] < c
    BY <1>2 DEF Circle, Apart
<1>8. Listed(F)
    BY <1>2, CircleIsListed
<1>9. freep \in F \union {BASE}
    BY <1>2 DEF Pointers
<1> QED
    BY <1>3, <1>5, <1>6, <1>7, <1>8, <1>9

(* alloc.c:59-146: between two calls the free list holds exactly what no   *)
(* caller holds, in address order and with all neighbours joined, whatever *)
(* was asked for, freed and failed before.                                 *)
THEOREM FreeListIsExact == Spec => []FreeListExact
BY HeapInvariant, Exact, PTL

-----------------------------------------------------------------------------
(* The search has gone from freep to prevp and found no block that is big  *)
(* enough.                                                                 *)
Tested(F) ==
  \A c \in F \union {BASE} :
    (IF freep <= prevp THEN freep < c /\ c <= prevp ELSE freep < c \/ c <= prevp)
      => size[c] < nunits

AllSmall(F) == \A c \in F : size[c] < nunits

Searched ==
  \A F : freep # NULL /\ Circle(F, ptr, size, Spare) =>
           /\ pc = "search" => Tested(F)
           /\ NewPages => AllSmall(F)

LEMMA InitSearched == Init => Searched
BY DEF Init, Searched

LEMMA SearchedHolds == IInv /\ Searched /\ [Next]_vars => Searched'
<1> SUFFICES ASSUME IInv, Searched, [Next]_vars,
                    NEW F, freep' # NULL, Circle(F, ptr', size', Spare')
             PROVE  /\ pc' = "search" => Tested(F)'
                    /\ NewPages' => AllSmall(F)'
    BY DEF Searched
<1>1. TypeOK /\ Growth /\ Argument /\ Blocks(held, size, arena) /\ FreeList
    BY DEF IInv
<1>2. \A c \in F \union {BASE} : c \in Nat
    BY OfCircle
<1>3. ASSUME pc' = "search", prevp' = freep', freep' \in Nat
      PROVE  Tested(F)' /\ ~ NewPages'
    BY <1>2, <1>3 DEF Tested, NewPages
<1>4. CASE \E n \in Request : malloc(n)
    <2>1. pc' = "search" /\ prevp' = freep' /\ freep' \in Addr
        <3>1. PICK n \in Request : malloc(n)
            BY <1>4
        <3>2. pc' = "search" /\ prevp' = freep'
            BY <3>1 DEF malloc
        <3>3. freep' = freep \/ freep' = BASE
            BY <3>1 DEF malloc, memoryVars
        <3>4. freep \in Addr \union {NULL}
            BY <1>1 DEF TypeOK
        <3> QED
            BY <3>2, <3>3, <3>4, Numbers
    <2> QED
        BY <1>3, <2>1, Numbers
<1>5. CASE \E b \in held : free(b)
    <2>1. pc' = "locate" /\ nbytes' = NULL
        BY <1>1, <1>5 DEF free, Argument
    <2> QED
        BY <2>1 DEF NewPages
<1>6. CASE Advance
    <2>1. /\ pc = "search" /\ size[p] < nunits /\ p # freep /\ prevp' = p
          /\ UNCHANGED <<ptr, size, freep, pc, nbytes, held, arena, bp>>
        BY <1>6 DEF Advance, memoryVars, ghostVars
    <2>2. Spare' = Spare
        BY <2>1 DEF Spare, CallersBlock
    <2>3. Circle(F, ptr, size, Spare) /\ freep # NULL
        BY <2>1, <2>2
    <2>4. Tested(F)
        BY <2>1, <2>3 DEF Searched
    <2>5. PICK F2 : Circle(F2, ptr, size, Spare) /\ Pointers(F2)
        BY <1>1, <2>3 DEF FreeList
    <2>6. F2 = F
        BY <2>3, <2>5, SameBlocks
    <2>7. /\ freep \in F \union {BASE} /\ prevp \in F \union {BASE} /\ p = ptr[prevp]
          /\ p \in F \union {BASE} /\ IsNext(F, prevp, p)
        BY <2>1, <2>3, <2>5, <2>6, OfCircle DEF Pointers, Circle, Linked
    <2>8. nunits' = nunits
        BY <2>1 DEF nunits
    <2>9. ASSUME NEW c \in F \union {BASE},
                 IF freep <= p THEN freep < c /\ c <= p ELSE freep < c \/ c <= p
          PROVE  size[c] < nunits
        <3>1. c \in Nat /\ freep \in Nat /\ prevp \in Nat /\ p \in Nat
            BY <1>2, <2>7
        <3>2. CASE p \in F /\ prevp < p /\ \A d \in F : ~ (prevp < d /\ d < p)
            <4>1. c = p \/ c <= prevp \/ p < c
                BY <2>9, <3>1, <3>2 DEF BASE
            <4>2. freep = p \/ freep <= prevp \/ p < freep
                BY <2>7, <3>1, <3>2 DEF BASE
            <4> QED
                BY <2>1, <2>4, <2>9, <3>1, <3>2, <4>1, <4>2 DEF Tested
        <3>3. CASE p = BASE /\ \A d \in F : d <= prevp
            <4>1. c <= prevp /\ freep <= prevp
                BY <2>7, <3>1, <3>3 DEF BASE
            <4> QED
                BY <2>1, <2>4, <2>9, <3>1, <3>3, <4>1 DEF Tested, BASE
        <3> QED
            BY <2>7, <3>2, <3>3 DEF IsNext
    <2>10. Tested(F)'
        BY <2>1, <2>8, <2>9 DEF Tested
    <2> QED
        BY <2>1, <2>10 DEF NewPages
<1>7. CASE Allocate
    BY <1>7 DEF Allocate, Return, NewPages
<1>8. CASE morecore
    <2>1. /\ pc = "search" /\ size[p] < nunits /\ p = freep /\ pc' = "map"
          /\ UNCHANGED <<ptr, size, freep, nbytes, held, arena, bp>>
        BY <1>8 DEF morecore, memoryVars, ghostVars
    <2>2. Spare' = Spare
        BY <2>1 DEF Spare, CallersBlock
    <2>3. Circle(F, ptr, size, Spare) /\ freep # NULL
        BY <2>1, <2>2
    <2>4. Tested(F)
        BY <2>1, <2>3 DEF Searched
    <2>5. PICK F2 : Circle(F2, ptr, size, Spare) /\ Pointers(F2)
        BY <1>1, <2>3 DEF FreeList
    <2>6. F2 = F
        BY <2>3, <2>5, SameBlocks
    <2>7. /\ freep \in F \union {BASE} /\ prevp \in F \union {BASE} /\ p = ptr[prevp]
          /\ IsNext(F, prevp, p)
        BY <2>1, <2>3, <2>5, <2>6 DEF Pointers, Circle, Linked
    <2>8. nunits' = nunits
        BY <2>1 DEF nunits
    <2>9. ASSUME NEW c \in F
          PROVE  size[c] < nunits
        <3>1. c \in Nat /\ freep \in Nat /\ prevp \in Nat /\ c # BASE
            BY <1>2, <2>3, <2>7, OfCircle DEF BASE
        <3>2. CASE p \in F /\ prevp < p /\ \A d \in F : ~ (prevp < d /\ d < p)
            <4>1. c = freep \/ c <= prevp \/ freep < c
                BY <2>1, <3>1, <3>2
            <4> QED
                BY <2>1, <2>4, <3>1, <3>2, <4>1 DEF Tested
        <3>3. CASE p = BASE /\ \A d \in F : d <= prevp
            <4>1. freep = 0 /\ freep < c /\ c <= prevp
                BY <2>1, <3>1, <3>3 DEF BASE
            <4> QED
                BY <2>4, <3>1, <4>1 DEF Tested
        <3> QED
            BY <2>7, <3>2, <3>3 DEF IsNext
    <2>10. AllSmall(F)'
        BY <2>1, <2>8, <2>9 DEF AllSmall
    <2> QED
        BY <2>1, <2>10
<1>9. CASE MapPage
    <2>1. pc = "map" /\ UNCHANGED <<ptr, size, freep, pc, nbytes, held, arena, bp>>
        BY <1>9 DEF MapPage, memoryVars, callVars, ghostVars
    <2>2. Spare' = Spare /\ nunits' = nunits
        BY <2>1 DEF Spare, CallersBlock, nunits
    <2>3. AllSmall(F)
        BY <2>1, <2>2 DEF Searched, NewPages
    <2> QED
        BY <2>1, <2>2, <2>3 DEF AllSmall
<1>10. CASE OutOfFrames
    BY <1>10 DEF OutOfFrames, Return, NewPages
<1>11. CASE FreeNewPages
    <2>1. /\ pc = "map" /\ pc' = "locate" /\ nbytes \in Request
          /\ size' = [size EXCEPT ![heap_start] = PagesWanted * PAGE_UNITS]
          /\ UNCHANGED <<ptr, freep, nbytes, heap_start, held, arena>>
        BY <1>1, <1>11 DEF FreeNewPages, ghostVars, Argument
    <2>2. nbytes # NULL
        BY <2>1, HeapAssumption
    <2>3. Spare' = Spare /\ nunits' = nunits /\ Spare \subseteq arena
        BY <2>1, <2>2 DEF Spare, CallersBlock, Unheld, nunits
    <2>4. \A a \in arena : a \in Addr /\ a # heap_start
        <3>1. \A a \in arena : a \in Addr /\ a < heap_start
            BY <1>1, <2>1 DEF Growth, NewPages, TypeOK
        <3>2. heap_start \in Nat
            BY <1>1, <2>1 DEF Growth, NewPages
        <3> QED
            BY <3>1, <3>2
    <2>5. \A a \in F : a \in arena
        BY <2>3, OfCircle
    <2>6. size \in [Addr -> 0 .. FRAMES * PAGE_UNITS]
        BY <1>1 DEF TypeOK
    <2>7. BASE \in Addr /\ BASE # heap_start
        BY <1>1, <2>1, Numbers DEF Growth, NewPages
    <2>8. \A a \in F \union {BASE} : ptr[a] = ptr'[a] /\ size[a] = size'[a]
        BY <2>1, <2>4, <2>5, <2>6, <2>7
    <2>9. Circle(F, ptr, size, Spare)
        BY <2>3, <2>8, SameCircle
    <2>10. AllSmall(F)
        BY <2>1, <2>9 DEF Searched, NewPages
    <2>11. AllSmall(F)'
        BY <2>3, <2>8, <2>10 DEF AllSmall
    <2> QED
        BY <2>1, <2>11
<1>12. CASE Locate
    <2>1. pc = "locate" /\ UNCHANGED <<ptr, size, freep, pc, nbytes, held, arena, bp>>
        BY <1>12 DEF Locate, memoryVars, ghostVars
    <2>2. Spare' = Spare /\ nunits' = nunits
        BY <2>1 DEF Spare, CallersBlock, nunits
    <2>3. NewPages' <=> NewPages
        BY <2>1 DEF NewPages
    <2>4. NewPages => AllSmall(F)
        BY <2>1, <2>2 DEF Searched
    <2> QED
        BY <2>1, <2>2, <2>3, <2>4 DEF AllSmall
<1>13. CASE Insert
    <2>1. CASE nbytes = NULL
        BY <1>13, <2>1 DEF Insert, Return, NewPages
    <2>2. CASE nbytes # NULL
        <3>1. pc' = "search" /\ prevp' = p /\ freep' = p
            BY <1>13, <2>2 DEF Insert
        <3>2. p \in Nat
            BY <1>1, <1>13, <3>1, Numbers DEF TypeOK
        <3> QED
            BY <1>3, <3>1, <3>2
    <2> QED
        BY <2>1, <2>2
<1>14. CASE UNCHANGED vars
    <2>1. UNCHANGED <<ptr, size, freep, pc, nbytes, held, arena, bp, prevp>>
        BY <1>14 DEF vars, memoryVars, callVars, ghostVars
    <2>2. Spare' = Spare /\ nunits' = nunits
        BY <2>1 DEF Spare, CallersBlock, nunits
    <2>3. NewPages' <=> NewPages
        BY <2>1 DEF NewPages
    <2>4. (NewPages => AllSmall(F)) /\ (pc = "search" => Tested(F))
        BY <2>1, <2>2 DEF Searched
    <2> QED
        BY <2>1, <2>2, <2>3, <2>4 DEF AllSmall, Tested
<1> QED
    BY <1>4, <1>5, <1>6, <1>7, <1>8, <1>9, <1>10, <1>11, <1>12, <1>13, <1>14 DEF Next, Step

(* A stretch of free units lies in one block of the list: no two touch.    *)
LEMMA InOneBlock ==
  ASSUME NEW F, NEW pt, NEW sz, NEW spare, Circle(F, pt, sz, spare),
         NEW a \in Nat, NEW n \in Nat \ {0}, Span(a, n) \subseteq spare
  PROVE  \E c \in F : n <= sz[c]
<1>1. /\ \A c \in F : c \in Nat \ {0} /\ sz[c] \in Nat \ {0}
      /\ \A c, d \in F : c < d => c + sz[c] < d
      /\ \A u \in Nat : u \in spare <=> \E c \in F : c <= u /\ u < c + sz[c]
    BY DEF Circle, Apart, Covers
<1>2. a \in Span(a, n)
    BY DEF Span
<1>3. PICK c \in F : c <= a /\ a < c + sz[c]
    BY <1>1, <1>2
<1>4. c \in Nat /\ sz[c] \in Nat /\ c + sz[c] \in Nat
    BY <1>1
<1>5. c + sz[c] \notin spare
    <2> SUFFICES ASSUME NEW d \in F, d <= c + sz[c], c + sz[c] < d + sz[d] PROVE FALSE
        BY <1>1, <1>4
    <2>1. d \in Nat /\ sz[d] \in Nat
        BY <1>1
    <2>2. c < d \/ d < c \/ c = d
        BY <1>4, <2>1
    <2>3. (c < d => c + sz[c] < d) /\ (d < c => d + sz[d] < c)
        BY <1>1
    <2> QED
        BY <1>4, <2>1, <2>2, <2>3
<1>6. ~ (a <= c + sz[c] /\ c + sz[c] < a + n)
    BY <1>4, <1>5 DEF Span
<1>7. n <= sz[c]
    BY <1>3, <1>4, <1>6
<1> QED
    BY <1>7

LEMMA UnitsOf ==
  /\ \A a \in Nat, n \in Nat : a .. a + n - 1 = Span(a, n)
  /\ IInv => arena \ Promise!HeldUnits = Unheld(arena, held)
  /\ nbytes \in Request => Promise!Needed = nunits
<1>1. \A a \in Nat, n \in Nat : a .. a + n - 1 = Span(a, n)
    BY DEF Span
<1>2. ASSUME IInv PROVE arena \ Promise!HeldUnits = Unheld(arena, held)
    <2>1. ASSUME NEW b \in held
          PROVE  Promise!Units(b) = Span(b.at, b.units)
        <3>1. b.at \in Nat /\ b.units \in Nat
            BY <1>2 DEF IInv, Blocks
        <3> QED
            BY <1>1, <3>1 DEF Promise!Units
    <2>2. Promise!HeldUnits = UNION {Span(b.at, b.units) : b \in held}
        BY <2>1 DEF Promise!HeldUnits
    <2> QED
        BY <2>2 DEF Unheld
<1>3. ASSUME nbytes \in Request PROVE Promise!Needed = nunits
    <2>1. /\ nbytes \in Nat /\ HEADER \in Nat \ {0} /\ PAGE_UNITS \in Nat \ {0} /\ WORD \in Nat
          /\ nbytes + (PAGE_UNITS + 2) * HEADER < WORD
        BY <1>3, HeapAssumption
    <2>2. (PAGE_UNITS + 2) * HEADER >= HEADER
        BY <2>1
    <2>3. nbytes + HEADER - 1 \in Nat /\ nbytes + HEADER - 1 < WORD
        BY <2>1, <2>2
    <2>4. (nbytes + HEADER - 1) % WORD = nbytes + HEADER - 1
        BY <2>1, <2>3
    <2> QED
        BY <2>4 DEF nunits, Promise!Needed
<1> QED
    BY <1>1, <1>2, <1>3

(* When no block of the list is big enough, no stretch is.                 *)
LEMMA NoCandidate ==
  ASSUME IInv, Searched, NewPages, nbytes \in Request
  PROVE  Promise!Candidates = {}
<1>1. pc \in {"map", "locate"} /\ ~ CallersBlock
    BY HeapAssumption DEF NewPages, CallersBlock
<1>2. PICK F : Circle(F, ptr, size, Spare)
    BY <1>1 DEF IInv, FreeList
<1>3. freep # NULL
    BY <1>1 DEF IInv, FreeList
<1>4. AllSmall(F)
    BY <1>2, <1>3 DEF Searched
<1>5. Spare = arena \ Promise!HeldUnits
    BY <1>1, UnitsOf DEF Spare
<1>6. Promise!Needed = nunits /\ nunits \in Nat \ {0}
    BY UnitsOf, Wanted
<1>7. ASSUME NEW b \in Promise!Candidates
      PROVE  FALSE
    <2>1. b.at \in Addr \ {BASE} /\ b.units = nunits /\ Promise!Units(b) \subseteq Spare
        BY <1>5, <1>6 DEF Promise!Candidates
    <2>2. b.at \in Nat
        BY <2>1, Numbers
    <2>3. Span(b.at, nunits) \subseteq Spare
        BY <1>6, <2>1, <2>2, UnitsOf DEF Promise!Units
    <2>4. PICK c \in F : nunits <= size[c]
        BY <1>2, <1>6, <2>2, <2>3, InOneBlock
    <2>5. size[c] < nunits /\ size[c] \in Nat
        BY <1>2, <1>4, <2>4, OfCircle DEF AllSmall
    <2> QED
        BY <1>6, <2>4, <2>5
<1> QED
    BY <1>7

LEMMA AllocateTakes == IInv /\ Allocate => Promise!Take
<1> SUFFICES ASSUME IInv, Allocate PROVE Promise!Take
    OBVIOUS
<1>1. TypeOK /\ Argument
    BY DEF IInv
<1> DEFINE block == IF size[p] - nunits = 0 THEN p ELSE p + (size[p] - nunits)
           new   == [at |-> block, units |-> nunits]
<1>2. /\ pc = "search" /\ size[p] >= nunits /\ held' = held \union {new}
      /\ nbytes' = NULL /\ arena' = arena
    BY DEF Allocate, Return
<1>3. nbytes \in Request /\ nbytes # NULL
    BY <1>1, <1>2, HeapAssumption DEF Argument
<1>4. nunits \in Nat \ {0} /\ Promise!Needed = nunits
    BY <1>3, Wanted, UnitsOf
<1>5. PICK F : Circle(F, ptr, size, Spare) /\ Pointers(F)
    BY <1>2 DEF IInv, FreeList
<1>6. p \in F \union {BASE} /\ size[BASE] = 0
    BY <1>2, <1>5, OfCircle DEF Pointers
<1>7. p \in F /\ p \in Nat /\ size[p] \in Nat /\ Span(p, size[p]) \subseteq Spare
    <2>1. p # BASE
        BY <1>2, <1>4, <1>6
    <2> QED
        BY <1>5, <1>6, <2>1, OfCircle
<1>8. block \in Nat /\ p <= block /\ block + nunits = p + size[p]
    BY <1>2, <1>4, <1>7
<1>9. new.at = block /\ new.units = nunits
    OBVIOUS
<1> HIDE DEF block
<1>10. Span(block, nunits) \subseteq Spare
    BY <1>4, <1>7, <1>8 DEF Span
<1>11. Spare = arena \ Promise!HeldUnits
    BY <1>2, UnitsOf DEF Spare, CallersBlock
<1>12. Promise!Units(new) = Span(block, nunits)
    BY <1>4, <1>8, <1>9, UnitsOf DEF Promise!Units
<1>13. block \in Addr \ {BASE}
    <2>1. block \in Span(block, nunits)
        BY <1>4, <1>8 DEF Span
    <2>2. block \in arena
        BY <1>10, <1>11, <2>1
    <2> QED
        BY <1>1, <2>2 DEF TypeOK
<1>14. new \in [at : Addr \ {BASE}, units : {Promise!Needed}]
    BY <1>4, <1>13
<1> HIDE DEF new
<1>15. new \in Promise!Candidates
    BY <1>10, <1>11, <1>12, <1>14 DEF Promise!Candidates
<1> QED
    BY <1>2, <1>3, <1>15 DEF Promise!Take

LEMMA NewPagesGrow == IInv /\ Searched /\ Insert /\ nbytes # NULL => Promise!Grow
<1> SUFFICES ASSUME IInv, Searched, Insert, nbytes # NULL PROVE Promise!Grow
    OBVIOUS
<1>1. /\ pc = "locate" /\ nbytes' = nbytes /\ held' = held
      /\ arena' = arena \union (heap_start .. heap_end - 1)
    BY DEF Insert, growthVars
<1>2. TypeOK /\ Growth /\ NewPages
    BY <1>1 DEF IInv, NewPages
<1>3. nbytes \in Request
    BY <1>2 DEF TypeOK
<1>4. Promise!Candidates = {}
    BY <1>2, <1>3, NoCandidate
<1>5. /\ heap_start \in Nat \ {0} /\ heap_end \in Nat /\ heap_end <= Total + 1
      /\ \A u \in arena : u \in Nat /\ u < heap_start
    <2>1. heap_end \in HEAP .. HEAP + Total /\ arena \in SUBSET (Addr \ {BASE})
        BY <1>2 DEF TypeOK, Total
    <2> QED
        BY <1>2, <2>1, Numbers DEF Growth
<1>6. heap_start .. heap_end - 1 \in SUBSET ((Addr \ {BASE}) \ arena)
    BY <1>5, Numbers
<1> QED
    BY <1>1, <1>4, <1>6 DEF Promise!Grow

(* alloc.c:59-146 keep the allocator's promise: a block nobody else holds, *)
(* of at least the bytes asked for, a bigger heap only when no free        *)
(* stretch is long enough, and a failure only when there are no frames     *)
(* either.                                                                 *)
THEOREM Refinement == Spec => ImplementsAllocator
<1>1. Init => Promise!Init
    BY DEF Init, Promise!Init
<1>2. IInv /\ Searched /\ [Next]_vars => [Promise!Next]_(Promise!vars)
    <2> SUFFICES ASSUME IInv, Searched, [Next]_vars
                 PROVE  [Promise!Next]_(Promise!vars)
        OBVIOUS
    <2>1. Argument
        BY DEF IInv
    <2>2. CASE \E n \in Request : malloc(n)
        <3>1. PICK n \in Request : malloc(n)
            BY <2>2
        <3>2. nbytes = NULL /\ nbytes' = n /\ UNCHANGED <<arena, held>> /\ n \in Nat
            BY <2>1, <3>1, HeapAssumption DEF malloc, Argument, ghostVars
        <3> QED
            BY <3>2 DEF Promise!Next, Promise!Ask
    <2>3. CASE \E b \in held : free(b)
        <3>1. PICK b \in held : free(b)
            BY <2>3
        <3>2. nbytes = NULL /\ UNCHANGED <<nbytes, arena>> /\ held' = held \ {b}
            BY <2>1, <3>1 DEF free, Argument
        <3> QED
            BY <3>2 DEF Promise!Next, Promise!GiveBack
    <2>4. CASE Allocate
        BY <2>4, AllocateTakes DEF Promise!Next
    <2>5. CASE OutOfFrames
        <3>1. pc = "map" /\ nbytes' = NULL /\ UNCHANGED <<arena, held>>
            BY <2>5 DEF OutOfFrames, Return, ghostVars
        <3>2. nbytes \in Request /\ nbytes # NULL /\ NewPages
            BY <2>1, <3>1, HeapAssumption DEF Argument, NewPages
        <3> QED
            BY <3>1, <3>2, NoCandidate DEF Promise!Next, Promise!Fail
    <2>6. CASE Insert
        <3>1. CASE nbytes # NULL
            BY <2>6, <3>1, NewPagesGrow DEF Promise!Next
        <3>2. CASE nbytes = NULL
            BY <2>6, <3>2 DEF Insert, Return, Promise!vars
        <3> QED
            BY <3>1, <3>2
    <2>7. CASE Advance \/ morecore \/ MapPage \/ FreeNewPages \/ Locate
        BY <2>7 DEF Advance, morecore, MapPage, FreeNewPages, Locate, ghostVars, callVars, Promise!vars
    <2>8. CASE UNCHANGED vars
        BY <2>8 DEF vars, callVars, ghostVars, Promise!vars
    <2> QED
        BY <2>2, <2>3, <2>4, <2>5, <2>6, <2>7, <2>8 DEF Next, Step
<1>3. Spec => []Searched
    BY HeapInvariant, InitSearched, SearchedHolds, PTL DEF Spec
<1> QED
    BY <1>1, <1>2, <1>3, HeapInvariant, PTL DEF Spec, ImplementsAllocator, Promise!Spec
=============================================================================
