--------------------------- MODULE StrExpan_proofs ---------------------------
(***************************************************************************)
(* Proofs about StrExpan for every list of variables, every template and   *)
(* every buffer that is large enough.                                      *)
(***************************************************************************)
EXTENDS StrExpan, Integers, SequenceTheorems, WellFoundedInduction, TLAPS

Longest == CHOOSE longest \in 1 .. Size : Fits(longest)

(* The most that is written before the pointer str reaches p: a value of   *)
(* the longest for each item, and one byte for each behind the template.   *)
Room(p) ==
    IF p <= Len(str) + 1 THEN Longest * (p - 1)
    ELSE Longest * Len(str) + (p - 1 - Len(str))

(* What the items of a template stand for. *)
Texts(t) ==
    [n \in 1 .. Len(t) |->
        IF t[n] \in Refs THEN Meaning(Key(t[n])) ELSE <<t[n]>>]

IsFlattening(seqs, n, f) ==
    f = [i \in 1 .. n |-> IF i = 1 THEN seqs[i] ELSE f[i - 1] \o seqs[i]]

(* The expansion of the first k items. *)
Flattening(t) == CHOOSE f : IsFlattening(Texts(t), Len(t), f)
Upto(t, k) == IF k = 0 THEN <<>> ELSE Flattening(t)[k]

-----------------------------------------------------------------------------
PosInv ==
    /\ str \in Seq(Items) /\ Len(str) \in 0 .. MaxItems
    /\ pos \in 1 .. Len(str) + 1 + MaxHeap
    /\ pc = "copy" => pos <= Len(str) + 1
    /\ pc \in {"head", "copy", "done", "wild"}

RoomInv ==
    /\ finallen \in Nat
    /\ finallen <= Room(pos) + (IF pc = "done" THEN 1 ELSE 0)

(* Nothing is written behind finallen but the NUL of sprintf, which the    *)
(* next item overwrites.                                                   *)
BufferInv ==
    /\ dptr \in [1 .. Size -> Items \union {NUL, Stale, Heap}]
    /\ \A n \in 1 .. finallen : dptr[n] # Stale
    /\ \A n \in finallen + 1 .. Size :
           dptr[n] = dptr[Size] \/ (pc = "copy" /\ n = finallen + 1)
    /\ pc = "done" => finallen >= 1 /\ dptr[finallen] = NUL

(* The part of a spaced template that has been gone through is expanded.   *)
SpacedInv ==
    Spaced(str) =>
        LET text == IF pc = "done" THEN finallen - 1 ELSE finallen
        IN  /\ pos <= Len(str) + 1
            /\ pc # "wild"
            /\ pc = "copy" => pos <= Len(str) /\ str[pos] \in Plain
            /\ pc = "done" => pos = Len(str) + 1
            /\ Upto(str, pos - 1) \in Seq(Plain)
            /\ Len(Upto(str, pos - 1)) = text
            /\ \A n \in 1 .. text : dptr[n] = Upto(str, pos - 1)[n]

StrExpanInv == PosInv /\ RoomInv /\ BufferInv /\ SpacedInv

-----------------------------------------------------------------------------
(* Induction over the natural numbers, from their well-foundedness. *)

LEMMA Least ==
    ASSUME NEW T \in SUBSET Nat, T # {}
    PROVE  \E n \in T : \A m \in T : n <= m
<1> DEFINE R == {ss \in Nat \X Nat : ss[1] < ss[2]}
<1>1. IsWellFoundedOn(R, Nat)
  BY NatLessThanWellFounded DEF OpToRel
<1>2. \A m, n \in Nat : <<m, n>> \in R <=> m < n
  OBVIOUS
<1> HIDE DEF R
<1>3. PICK n \in T : \A m \in T : ~ (<<m, n>> \in R)
  BY <1>1, WFMin
<1>4. \A m \in T : ~ (m < n)
  BY <1>2, <1>3
<1>5. QED
  BY <1>4

LEMMA Induction ==
    ASSUME NEW T, 0 \in T, \A n \in Nat : n \in T => n + 1 \in T
    PROVE  Nat \subseteq T
<1> DEFINE U == Nat \ T
<1>1. SUFFICES ASSUME U # {}
               PROVE  FALSE
  OBVIOUS
<1>2. PICK n \in U : \A m \in U : n <= m
  BY <1>1, Least
<1>3. n \in Nat \ {0} /\ n - 1 \in Nat /\ n - 1 \notin U
  BY <1>2
<1>4. QED
  BY <1>2, <1>3

LEMMA Minimum ==
    ASSUME NEW S \in SUBSET Nat, S # {}
    PROVE  Min(S) \in S /\ \A m \in S : Min(S) <= m
  BY Least DEF Min

-----------------------------------------------------------------------------
(* FlattenSeq: its recursion defines a function for every length.          *)

LEMMA FlatteningExists ==
    ASSUME NEW seqs
    PROVE  \A n \in Nat : \E f : IsFlattening(seqs, n, f)
<1> DEFINE T == {n \in Nat : \E f : IsFlattening(seqs, n, f)}
<1>1. 0 \in T
  <2>1. IsFlattening(seqs, 0, [i \in 1 .. 0 |-> 0])
    BY DEF IsFlattening
  <2>2. QED
    BY <2>1
<1>2. ASSUME NEW n \in Nat, n \in T
      PROVE  n + 1 \in T
  <2>1. PICK f : IsFlattening(seqs, n, f)
    BY <1>2
  <2> DEFINE Entry(g, i) == IF i = 1 THEN seqs[i] ELSE g[i - 1] \o seqs[i]
             g == [i \in 1 .. n + 1 |-> Entry(f, i)]
  <2>2. f = [i \in 1 .. n |-> Entry(f, i)]
    BY <2>1 DEF IsFlattening
  <2> HIDE DEF Entry
  <2>3. \A i \in 1 .. n : i \in 1 .. n + 1 /\ g[i] = f[i]
    <3>1. \A i \in 1 .. n : f[i] = Entry(f, i)
      BY <2>2
    <3>2. QED
      BY <3>1
  <2>4. \A i \in 1 .. n + 1 : i # 1 => i - 1 \in 1 .. n
    OBVIOUS
  <2> HIDE DEF g
  <2>5. \A i \in 1 .. n + 1 : Entry(f, i) = Entry(g, i)
    BY <2>3, <2>4 DEF Entry
  <2>6. g = [i \in 1 .. n + 1 |-> Entry(g, i)]
    BY <2>5 DEF g
  <2>7. IsFlattening(seqs, n + 1, g)
    BY <2>6 DEF IsFlattening, Entry
  <2>8. QED
    BY <2>7
<1>3. QED
  BY <1>1, <1>2, Induction

LEMMA Flatten ==
    ASSUME NEW t \in Seq(Items)
    PROVE  /\ Expansion(t) = Upto(t, Len(t))
           /\ \A k \in 1 .. Len(t) : Upto(t, k) = IF k = 1 THEN Texts(t)[1]
                                              ELSE Upto(t, k - 1) \o Texts(t)[k]
<1>1. Len(t) \in Nat /\ Len(Texts(t)) = Len(t) /\ Expansion(t) = FlattenSeq(Texts(t))
  BY DEF Texts, Expansion
<1>2. IsFlattening(Texts(t), Len(t), Flattening(t))
  BY <1>1, FlatteningExists DEF Flattening
<1>3. ASSUME NEW k \in 1 .. Len(t)
      PROVE  Flattening(t)[k] = IF k = 1 THEN Texts(t)[k]
                                ELSE Flattening(t)[k - 1] \o Texts(t)[k]
  BY <1>2, <1>3 DEF IsFlattening
<1>4. CASE Len(t) = 0
  BY <1>1, <1>4 DEF FlattenSeq, Texts, Upto
<1>5. CASE Len(t) # 0
  <2>1. Expansion(t) = Flattening(t)[Len(t)]
    BY <1>1, <1>5 DEF FlattenSeq, Flattening, IsFlattening
  <2>2. QED
    BY <1>1, <1>3, <1>5, <2>1 DEF Upto
<1>6. QED
  BY <1>4, <1>5

LEMMA FlattenNext ==
    ASSUME NEW t \in Seq(Items), NEW k \in 1 .. Len(t), NEW text \in Seq(Plain),
           Upto(t, k - 1) \in Seq(Plain), Texts(t)[k] = text
    PROVE  LET u == Upto(t, k - 1)
               v == Upto(t, k)
           IN  /\ v \in Seq(Plain) /\ Len(v) = Len(u) + Len(text)
               /\ \A n \in 1 .. Len(u) : v[n] = u[n]
               /\ \A n \in 1 .. Len(text) : v[Len(u) + n] = text[n]
<1> DEFINE u == Upto(t, k - 1)
           v == Upto(t, k)
<1>1. v = u \o text
  <2>1. v = IF k = 1 THEN Texts(t)[1] ELSE Upto(t, k - 1) \o Texts(t)[k]
    <3>1. \A m \in 1 .. Len(t) : Upto(t, m) = IF m = 1 THEN Texts(t)[1]
                                             ELSE Upto(t, m - 1) \o Texts(t)[m]
      BY Flatten
    <3>2. QED
      BY <3>1
  <2>2. k = 1 => u = <<>>
    BY DEF Upto
  <2>3. CASE k = 1
    <3>1. v = text /\ u = <<>>
      BY <2>1, <2>2, <2>3
    <3> HIDE DEF u, v
    <3>2. QED
      BY <3>1
  <2>4. CASE k # 1
    BY <2>1, <2>4
  <2>5. QED
    BY <2>3, <2>4
<1>2. u \in Seq(Plain)
  OBVIOUS
<1> HIDE DEF u, v
<1>3. /\ v \in Seq(Plain) /\ Len(v) = Len(u) + Len(text)
      /\ \A n \in 1 .. Len(u) : v[n] = u[n]
      /\ \A n \in 1 .. Len(text) : v[Len(u) + n] = text[n]
  BY <1>1, <1>2
<1>4. QED
  BY <1>3 DEF u, v

-----------------------------------------------------------------------------
(* The alphabet, the variables and the bound. *)

LEMMA Distinct ==
    /\ NUL \notin Items /\ Stale \notin Items /\ Heap \notin Items
    /\ Open \notin Plain /\ NUL # Heap /\ NUL # Stale /\ Heap # Stale
    /\ NUL \notin Refs /\ Heap \notin Refs /\ Open \notin Refs
    /\ Open # NUL /\ Open # Heap
    /\ \A c \in Items : c \in Refs <=> c \notin Plain /\ c # Open
<1>1. NUL # Heap /\ NUL # Stale /\ Heap # Stale /\ Open # NUL /\ Open # Heap
      /\ Open # Stale
  BY DEF NUL, Heap, Stale, Open
<1>2. ASSUME NEW c \in Refs
      PROVE  c # NUL /\ c # Heap /\ c # Stale /\ c # Open
  <2>1. PICK key \in Keys : c = <<"{", key>>
    BY DEF Refs
  <2>2. Len(c) = 2
    BY <2>1
  <2>3. Len(NUL) = 1 /\ Len(Heap) = 1 /\ Len(Stale) = 1 /\ Len(Open) = 1
    BY DEF NUL, Heap, Stale, Open
  <2>4. QED
    BY <2>2, <2>3
<1>3. QED
  BY <1>1, <1>2, StrExpanAssumption DEF Items

(* An expanded key is plain text, no longer than Longest. *)
LEMMA GetvarText ==
    ASSUME Roomy, NEW key
    PROVE  /\ Getvar(key) \in Seq(Plain)
           /\ Len(Getvar(key)) \in 0 .. Longest
           /\ Found(key) = {} => Getvar(key) = <<>>
<1>1. Longest \in 1 .. Size /\ Fits(Longest)
  BY DEF Roomy, Longest
<1>2. Found(key) \in SUBSET Nat /\ Found(key) \subseteq DOMAIN Names
  BY StrExpanAssumption DEF Found
<1>3. CASE Found(key) = {}
  BY <1>1, <1>3, StrExpanAssumption DEF Getvar
<1>4. CASE Found(key) # {}
  <2>1. Min(Found(key)) \in DOMAIN Names
    BY <1>2, <1>4, Minimum
  <2>2. QED
    BY <1>1, <1>4, <2>1, StrExpanAssumption DEF Getvar, Fits
<1>5. QED
  BY <1>3, <1>4

(* The chain of strncmp finds the variable of a name: no name stands       *)
(* behind one that it is the beginning of.                                 *)
LEMMA GetvarMeaning ==
    ASSUME NEW key \in Keys
    PROVE  Meaning(key) = Getvar(key)
<1>1. CASE key \notin Range(Names)
  BY <1>1 DEF Meaning
<1>2. CASE key \in Range(Names)
  <2> DEFINE S == {n \in DOMAIN Names : Names[n] = key}
  <2>1. DOMAIN Names \subseteq Nat \ {0}
        /\ \A n \in DOMAIN Names : 1 .. n - 1 \subseteq DOMAIN Names
    BY StrExpanAssumption
  <2>2. S # {} /\ S \in SUBSET Nat
    BY <1>2, <2>1 DEF Range
  <2> DEFINE first == Min(S)
             Is(n) == Names[n] = key /\ \A m \in 1 .. n - 1 : Names[m] # key
  <2>3. first \in S /\ \A m \in S : first <= m
    BY <2>2, Minimum
  <2> HIDE DEF first
  <2>4. first \in DOMAIN Names /\ Is(first)
    BY <2>1, <2>3
  <2>5. ASSUME NEW n \in DOMAIN Names, Is(n)
        PROVE  n = first
    <3>1. first <= n /\ n \in Nat /\ first \in Nat \ {0}
      BY <2>1, <2>3, <2>5
    <3>2. ~ (first < n)
      BY <2>3, <2>5, <3>1
    <3>3. QED
      BY <3>1, <3>2
  <2>6. (CHOOSE n \in DOMAIN Names : Is(n)) = first
    BY <2>4, <2>5
  <2>7. Meaning(key) = Value[first]
    BY <1>2, <2>6 DEF Meaning
  <2>8. Len(key) \in Nat
    BY StrExpanAssumption
  <2>9. first \in Found(key)
    BY <2>4, <2>8 DEF Found, IsPrefix
  <2>10. ASSUME NEW m \in Found(key)
         PROVE  first <= m
    <3>1. SUFFICES ASSUME m < first
                   PROVE  FALSE
      BY <2>1, <2>3 DEF Found
    <3>2. m \in 1 .. first - 1
      BY <2>1, <2>4, <3>1 DEF Found
    <3>3. IsPrefix(Names[first], Names[m])
      BY <2>4 DEF Found
    <3>4. QED
      BY <2>4, <3>2, <3>3, StrExpanAssumption
  <2>11. Found(key) \in SUBSET Nat /\ first \in Nat
    BY <2>1, <2>4 DEF Found
  <2>12. Min(Found(key)) = first
    <3>1. Min(Found(key)) \in Found(key) /\ Min(Found(key)) <= first
      BY <2>9, <2>11, Minimum
    <3>2. first <= Min(Found(key)) /\ Min(Found(key)) \in Nat
      BY <2>10, <2>11, <3>1
    <3>3. QED
      BY <2>11, <3>1, <3>2
  <2>13. QED
    BY <2>7, <2>9, <2>12 DEF Getvar
<1>3. QED
  BY <1>1, <1>2

LEMMA RoomGrows ==
    ASSUME Roomy, PosInv
    PROVE  /\ \A p \in Nat \ {0} : Room(p) \in Nat /\ Room(p) + 1 <= Room(p + 1)
           /\ \A p \in 1 .. Len(str) : Room(p + 1) = Room(p) + Longest
           /\ \A p \in 1 .. Len(str) + 1, q \in 1 .. Len(str) + 1 :
                  p <= q => Room(p) <= Room(q)
           /\ \A p \in 1 .. Len(str) + 1 + MaxHeap :
                  Room(p) <= Room(Len(str) + 1) + MaxHeap
           /\ Room(Len(str) + 1) + MaxHeap + 1 < Size
<1>1. /\ Longest \in Nat \ {0} /\ Size \in Nat /\ MaxItems \in Nat
      /\ MaxHeap \in Nat \ {0} /\ Len(str) \in 0 .. MaxItems
      /\ Longest * MaxItems + MaxHeap + 1 < Size
  <2>1. Longest \in 1 .. Size /\ Fits(Longest)
    BY DEF Roomy, Longest
  <2>2. QED
    BY <2>1, StrExpanAssumption DEF Fits, PosInv
<1> DEFINE Times(n) == Longest * n
<1>2. /\ \A n \in Nat : Times(n) \in Nat /\ Times(n + 1) = Times(n) + Longest
      /\ \A m, n \in Nat : m <= n => Times(m) <= Times(n)
  BY <1>1
<1>3. \A p : Room(p) = IF p <= Len(str) + 1 THEN Times(p - 1)
                       ELSE Times(Len(str)) + (p - 1 - Len(str))
  BY DEF Room
<1>4. Times(MaxItems) + MaxHeap + 1 < Size
  BY <1>1
<1> HIDE DEF Times
<1> DEFINE L == Len(str)
<1>5. L \in Nat /\ L + 1 \in Nat /\ L \in 0 .. MaxItems
  BY <1>1
<1> HIDE DEF L
<1>6. ASSUME NEW p \in Nat
      PROVE  /\ p <= L + 1 => \A n \in Nat : n + 1 = p => Room(p) = Times(n)
             /\ p > L => \A n \in Nat : p = L + 1 + n => Room(p) = Times(L) + n
  <2>1. CASE p <= L + 1
    <3>1. Room(p) = Times(p - 1)
      BY <1>3, <2>1 DEF L
    <3>2. ASSUME NEW n \in Nat, n + 1 = p
          PROVE  n = p - 1
      BY <3>2
    <3>3. ASSUME p > L
          PROVE  Room(p) = Times(L) + 0
      <4>1. p - 1 = L
        BY <1>5, <2>1, <3>3
      <4>2. Times(L) \in Nat
        BY <1>2, <1>5
      <4>3. QED
        BY <3>1, <4>1, <4>2
    <3>4. ASSUME NEW n \in Nat, p = L + 1 + n
          PROVE  n = 0
      BY <1>5, <2>1, <3>4
    <3>5. QED
      BY <3>1, <3>2, <3>3, <3>4
  <2>2. CASE ~ (p <= L + 1)
    <3>1. Room(p) = Times(L) + (p - 1 - L)
      BY <1>3, <2>2 DEF L
    <3>2. ASSUME NEW n \in Nat, p = L + 1 + n
          PROVE  n = p - 1 - L
      BY <1>5, <3>2
    <3>3. QED
      BY <2>2, <3>1, <3>2
  <2>3. QED
    BY <2>1, <2>2
<1>7. ASSUME NEW p \in Nat \ {0}
      PROVE  Room(p) \in Nat /\ Room(p) + 1 <= Room(p + 1)
  <2>1. CASE p <= L
    <3>1. PICK n \in Nat : n + 1 = p
      BY p - 1 \in Nat
    <3>2. Room(p) = Times(n) /\ Room(p + 1) = Times(n + 1)
      BY <1>5, <1>6, <2>1, <3>1
    <3>3. Times(n) \in Nat /\ Times(n + 1) = Times(n) + Longest
      BY <1>2
    <3>4. Longest \in Nat \ {0}
      BY <1>1
    <3> HIDE DEF Room
    <3>5. QED
      BY ONLY <3>2, <3>3, <3>4
  <2>2. CASE ~ (p <= L)
    <3>1. PICK n \in Nat : p = L + 1 + n
      BY <1>5, <2>2, p - 1 - L \in Nat
    <3>2. Room(p) = Times(L) + n /\ Room(p + 1) = Times(L) + (n + 1)
      BY <1>5, <1>6, <2>2, <3>1
    <3>3. Times(L) \in Nat
      BY <1>2, <1>5
    <3>4. QED
      BY ONLY <3>2, <3>3, n \in Nat
  <2>3. QED
    BY <2>1, <2>2
<1>8. ASSUME NEW p \in 1 .. L
      PROVE  Room(p + 1) = Room(p) + Longest
  <2>1. PICK n \in Nat : n + 1 = p
    BY p - 1 \in Nat
  <2>2. Room(p) = Times(n) /\ Room(p + 1) = Times(n + 1)
    BY <1>5, <1>6, <2>1
  <2>3. QED
    BY <1>2, <2>2
<1>9. ASSUME NEW p \in 1 .. L + 1, NEW q \in 1 .. L + 1, p <= q
      PROVE  Room(p) <= Room(q)
  <2>1. PICK m \in Nat, n \in Nat : m + 1 = p /\ n + 1 = q /\ m <= n
    BY <1>9, p - 1 \in Nat, q - 1 \in Nat, p - 1 <= q - 1
  <2>2. Room(p) = Times(m) /\ Room(q) = Times(n)
    BY <1>5, <1>6, <2>1
  <2>3. QED
    BY <1>2, <2>1, <2>2
<1>10. Room(L + 1) = Times(L) /\ Times(L) <= Times(MaxItems)
       /\ Times(L) \in Nat /\ Times(MaxItems) \in Nat
  <2>1. Room(L + 1) = Times(L)
    BY <1>5, <1>6
  <2>2. QED
    BY <1>1, <1>2, <1>5, <2>1
<1>11. ASSUME NEW p \in 1 .. L + 1 + MaxHeap
       PROVE  Room(p) <= Room(L + 1) + MaxHeap
  <2>1. CASE p <= L + 1
    <3>1. Room(p) <= Room(L + 1) /\ Room(p) \in Nat
      BY <1>5, <1>7, <1>9, <2>1
    <3>2. QED
      BY <1>1, <1>10, <3>1
  <2>2. CASE ~ (p <= L + 1)
    <3>1. PICK n \in Nat : p = L + 1 + n
      BY <1>5, <2>2, p - 1 - L \in Nat
    <3>2. Room(p) = Times(L) + n
      BY <1>1, <1>5, <1>6, <2>2, <3>1
    <3>3. n <= MaxHeap
      BY <1>1, <1>5, <3>1
    <3>4. QED
      BY <1>1, <1>10, <3>2, <3>3
  <2>3. QED
    BY <2>1, <2>2
<1>12. Room(L + 1) + MaxHeap + 1 < Size
  BY <1>1, <1>4, <1>10
<1>13. QED
  BY <1>7, <1>8, <1>9, <1>11, <1>12 DEF L

-----------------------------------------------------------------------------
(* The bytes of the template and of the buffer. *)

LEMMA Bytes ==
    ASSUME PosInv
    PROVE  /\ ByteAt(pos) \subseteq Items \union {NUL, Heap}
           /\ pos <= Len(str) => ByteAt(pos) = {str[pos]} /\ str[pos] \in Items
           /\ \A c \in ByteAt(pos) \intersect Items :
                  pos <= Len(str) /\ c = str[pos]
           /\ pos = Len(str) + 1 => ByteAt(pos) = {NUL}
           /\ ByteAt(pos) # {NUL} => pos <= Len(str) + MaxHeap
<1>1. pos \in Nat \ {0} /\ Len(str) \in Nat /\ MaxHeap \in Nat \ {0}
  BY StrExpanAssumption DEF PosInv
<1>2. pos <= Len(str) => str[pos] \in Items
  BY <1>1 DEF PosInv
<1>3. QED
  BY <1>1, <1>2, Distinct DEF ByteAt

LEMMA WrittenBytes ==
    ASSUME finallen \in Nat,
           dptr \in [1 .. Size -> Items \union {NUL, Stale, Heap}],
           NEW text \in Seq(Items \union {NUL, Heap})
    PROVE  /\ Written(text) \in [1 .. Size -> Items \union {NUL, Stale, Heap}]
           /\ \A n \in 1 .. Size :
                  /\ n <= finallen => Written(text)[n] = dptr[n]
                  /\ n > finallen + Len(text) => Written(text)[n] = dptr[n]
                  /\ n > finallen /\ n <= finallen + Len(text) =>
                         /\ n - finallen \in 1 .. Len(text)
                         /\ Written(text)[n] = text[n - finallen]
<1>1. Size \in Nat /\ Len(text) \in Nat
      /\ \A k \in 1 .. Len(text) : text[k] \in Items \union {NUL, Heap}
  BY StrExpanAssumption
<1>2. \A n \in 1 .. Size : Written(text)[n] = IF n - finallen \in 1 .. Len(text)
                                              THEN text[n - finallen] ELSE dptr[n]
  BY DEF Written
<1>3. Written(text) \in [1 .. Size -> Items \union {NUL, Stale, Heap}]
  BY <1>1 DEF Written
<1>4. ASSUME NEW n \in 1 .. Size
      PROVE  /\ n <= finallen => Written(text)[n] = dptr[n]
             /\ n > finallen + Len(text) => Written(text)[n] = dptr[n]
             /\ n > finallen /\ n <= finallen + Len(text) =>
                    /\ n - finallen \in 1 .. Len(text)
                    /\ Written(text)[n] = text[n - finallen]
  BY <1>1, <1>2
<1>5. QED
  BY <1>3, <1>4

(* Finite arithmetic shared by the steps: there is always room. *)
LEMMA RoomLeft ==
    ASSUME Roomy, PosInv, RoomInv
    PROVE  /\ finallen + 1 < Size + (IF pc = "done" THEN 1 ELSE 0)
           /\ pos <= Len(str) /\ pc # "done" => finallen + Longest < Size - 1
<1>1. /\ Longest \in Nat /\ Size \in Nat /\ MaxHeap \in Nat \ {0}
      /\ Len(str) \in Nat /\ pos \in 1 .. Len(str) + 1 + MaxHeap
  BY StrExpanAssumption DEF Roomy, Longest, PosInv
<1>2. /\ Room(pos) \in Nat /\ Room(Len(str) + 1) \in Nat
      /\ Room(pos) <= Room(Len(str) + 1) + MaxHeap
      /\ Room(Len(str) + 1) + MaxHeap + 1 < Size
  <2>1. \A p \in Nat \ {0} : Room(p) \in Nat
    BY RoomGrows
  <2>2. \A p \in 1 .. Len(str) + 1 + MaxHeap :
            Room(p) <= Room(Len(str) + 1) + MaxHeap
    BY RoomGrows
  <2>3. Room(Len(str) + 1) + MaxHeap + 1 < Size
    BY RoomGrows
  <2>4. pos \in Nat \ {0} /\ Len(str) + 1 \in Nat \ {0}
    BY <1>1
  <2>5. QED
    BY <1>1, <2>1, <2>2, <2>3, <2>4
<1>3. ASSUME pos <= Len(str)
      PROVE  /\ Room(pos + 1) = Room(pos) + Longest
             /\ Room(pos + 1) <= Room(Len(str) + 1)
  <2>1. \A p \in 1 .. Len(str) : Room(p + 1) = Room(p) + Longest
    BY RoomGrows
  <2>2. \A p \in 1 .. Len(str) + 1, q \in 1 .. Len(str) + 1 :
            p <= q => Room(p) <= Room(q)
    BY RoomGrows
  <2>3. /\ pos \in 1 .. Len(str) /\ pos + 1 <= Len(str) + 1
        /\ pos + 1 \in 1 .. Len(str) + 1 /\ Len(str) + 1 \in 1 .. Len(str) + 1
    BY <1>1, <1>3
  <2>4. QED
    BY <2>1, <2>2, <2>3
<1>4. finallen \in Nat
      /\ finallen <= Room(pos) + (IF pc = "done" THEN 1 ELSE 0)
  BY DEF RoomInv
<1>5. QED
  BY <1>1, <1>2, <1>3, <1>4

-----------------------------------------------------------------------------
(* The steps. *)

LEMMA InitStrExpanInv ==
    ASSUME Roomy, Init
    PROVE  StrExpanInv
<1>1. PICK m \in 0 .. MaxItems : str \in [1 .. m -> Items]
  BY DEF Init, SeqOf
<1>2. str \in Seq(Items) /\ Len(str) = m
  BY <1>1, StrExpanAssumption
<1>3. PosInv
  BY <1>2, StrExpanAssumption DEF Init, PosInv
<1>4. RoomInv
  <2>1. Room(1) \in Nat
    BY <1>3, RoomGrows, 1 \in Nat \ {0}
  <2>2. QED
    BY <2>1 DEF Init, RoomInv
<1>5. BufferInv
  <2>1. Size \in 1 .. Size
    BY StrExpanAssumption DEF Roomy
  <2>2. QED
    BY <2>1 DEF Init, BufferInv
<1>6. SpacedInv
  <2>1. Upto(str, pos - 1) = <<>> /\ pos <= Len(str) + 1
    BY <1>2 DEF Init, Upto
  <2>2. <<>> \in Seq(Plain) /\ Len(<<>>) = 0
    OBVIOUS
  <2>3. Len(Upto(str, pos - 1)) = 0 /\ Upto(str, pos - 1) \in Seq(Plain)
    BY <2>1, <2>2
  <2>4. pc = "head" /\ finallen = 0
    BY DEF Init
  <2>5. \A n \in 1 .. finallen : dptr[n] = Upto(str, pos - 1)[n]
    BY <2>4
  <2>6. QED
    BY <2>1, <2>3, <2>4, <2>5 DEF SpacedInv
<1>7. QED
  BY <1>3, <1>4, <1>5, <1>6 DEF StrExpanInv

(* A byte of the template, or of what lies behind it, is copied. *)
LEMMA CopyInv ==
    ASSUME Roomy, StrExpanInv, NEW c \in ByteAt(pos), Copy(c),
           \/ pc = "copy"
           \/ pc = "head" /\ c \notin Refs \union {NUL, Open}
    PROVE  StrExpanInv'
<1> USE DEF StrExpanInv
<1>1. /\ str' = str /\ pos' = pos + 1 /\ pc' = "head"
      /\ finallen' = finallen + 1 /\ dptr' = Written(<<c>>)
  BY DEF Copy
<1>2. /\ pos \in Nat \ {0} /\ Len(str) \in Nat /\ finallen \in Nat
      /\ Size \in Nat /\ MaxHeap \in Nat \ {0}
  BY StrExpanAssumption DEF PosInv, RoomInv
<1>3. PosInv'
  <2>1. pos <= Len(str) + MaxHeap
    BY <1>2, Bytes DEF PosInv
  <2>2. QED
    BY <1>1, <1>2, <2>1 DEF PosInv
<1>4. RoomInv'
  <2>1. Room(pos) \in Nat /\ Room(pos) + 1 <= Room(pos + 1)
        /\ Room(pos + 1) \in Nat
    BY <1>2, RoomGrows, pos + 1 \in Nat \ {0}
  <2>2. Room(pos)' = Room(pos + 1)
    BY <1>1 DEF Room
  <2>3. pc # "done"
    OBVIOUS
  <2>4. QED
    BY <1>1, <2>1, <2>2, <2>3 DEF RoomInv
<1>5. c \in Items \union {NUL, Heap} /\ c # Stale
  BY Bytes, Distinct
<1>6. /\ dptr' \in [1 .. Size -> Items \union {NUL, Stale, Heap}]
      /\ \A n \in 1 .. Size : /\ n <= finallen => dptr'[n] = dptr[n]
                              /\ n > finallen + 1 => dptr'[n] = dptr[n]
                              /\ n = finallen + 1 => dptr'[n] = c
  <2>1. <<c>> \in Seq(Items \union {NUL, Heap}) /\ Len(<<c>>) = 1 /\ <<c>>[1] = c
    BY <1>5
  <2>2. dptr \in [1 .. Size -> Items \union {NUL, Stale, Heap}]
    BY DEF BufferInv
  <2>3. /\ Written(<<c>>) \in [1 .. Size -> Items \union {NUL, Stale, Heap}]
        /\ \A n \in 1 .. Size :
               /\ n <= finallen => Written(<<c>>)[n] = dptr[n]
               /\ n > finallen + 1 => Written(<<c>>)[n] = dptr[n]
               /\ n > finallen /\ n <= finallen + 1 =>
                      Written(<<c>>)[n] = <<c>>[n - finallen]
    BY <1>2, <2>1, <2>2, WrittenBytes
  <2>4. QED
    BY <1>1, <1>2, <2>1, <2>3
<1>7. finallen + 1 < Size
  <2>1. pc # "done" /\ Size + 0 = Size
    BY <1>2
  <2>2. QED
    BY <2>1, RoomLeft
<1>8. BufferInv'
  <2>1. \A n \in 1 .. finallen + 1 : dptr'[n] # Stale
    BY <1>2, <1>5, <1>6, <1>7 DEF BufferInv
  <2>2. \A n \in finallen + 2 .. Size : dptr'[n] = dptr'[Size]
    BY <1>2, <1>6, <1>7 DEF BufferInv
  <2>3. finallen + 1 + 1 = finallen + 2
    BY <1>2
  <2>4. QED
    BY <1>1, <1>6, <2>1, <2>2, <2>3 DEF BufferInv
<1>9. SpacedInv'
  <2> SUFFICES ASSUME Spaced(str)
               PROVE  SpacedInv'
    BY <1>1 DEF SpacedInv
  <2> DEFINE u == Upto(str, pos - 1)
             v == Upto(str, pos)
  <2>1. /\ pos <= Len(str) + 1 /\ u \in Seq(Plain) /\ Len(u) = finallen
        /\ \A n \in 1 .. finallen : dptr[n] = u[n]
        /\ pc = "copy" => pos <= Len(str) /\ str[pos] \in Plain
    BY DEF SpacedInv
  <2>2. pos <= Len(str) /\ c = str[pos] /\ c \in Plain
    BY <1>2, <2>1, Bytes, Distinct DEF PosInv
  <2>3. Texts(str)[pos] = <<c>> /\ <<c>> \in Seq(Plain)
    BY <1>2, <2>2, Distinct DEF Texts, Items
  <2>4. /\ v \in Seq(Plain) /\ Len(v) = finallen + 1
        /\ \A n \in 1 .. finallen : v[n] = u[n]
        /\ v[finallen + 1] = c
    <3>1. pos \in 1 .. Len(str) /\ str \in Seq(Items)
      BY <1>2, <2>2 DEF PosInv
    <3>2. /\ v \in Seq(Plain) /\ Len(v) = Len(u) + Len(<<c>>)
          /\ \A n \in 1 .. Len(u) : v[n] = u[n]
          /\ \A n \in 1 .. Len(<<c>>) : v[Len(u) + n] = <<c>>[n]
      BY <2>1, <2>3, <3>1, FlattenNext
    <3> HIDE DEF u, v
    <3>3. QED
      BY <2>1, <3>2
  <2> HIDE DEF u, v
  <2>5. \A n \in 1 .. finallen + 1 : dptr'[n] = v[n]
    BY <1>2, <1>6, <1>7, <2>1, <2>4
  <2>6. pos' - 1 = pos /\ pos' <= Len(str) + 1 /\ Upto(str', pos' - 1) = v
    BY <1>1, <1>2, <2>2 DEF v
  <2>7. QED
    BY <1>1, <2>4, <2>5, <2>6 DEF SpacedInv
<1>10. QED
  BY <1>3, <1>4, <1>8, <1>9

(* The value of a variable, and the NUL that sprintf puts behind it. *)
LEMMA ExpandInv ==
    ASSUME Roomy, StrExpanInv, Expand
    PROVE  StrExpanInv'
<1> USE DEF StrExpanInv
<1>1. PICK c \in ByteAt(pos) \intersect Refs :
          /\ dptr' = IF Found(Key(c)) = {} THEN dptr
                     ELSE Written(Append(Getvar(Key(c)), NUL))
          /\ finallen' = finallen + Len(Getvar(Key(c)))
  BY DEF Expand
<1>2. str' = str /\ pos' = pos + 1 /\ pc = "head" /\ pc' = "copy"
  BY DEF Expand
<1> DEFINE text == Getvar(Key(c))
<1>3. /\ text \in Seq(Plain) /\ Len(text) \in 0 .. Longest
      /\ Found(Key(c)) = {} => text = <<>>
  BY GetvarText
<1>4. /\ pos \in Nat \ {0} /\ Len(str) \in Nat /\ finallen \in Nat
      /\ Size \in Nat /\ MaxHeap \in Nat \ {0} /\ Longest \in Nat
  BY StrExpanAssumption DEF PosInv, RoomInv, Roomy, Longest
<1>5. pos <= Len(str) /\ c = str[pos] /\ c \in Refs
  BY <1>1, Bytes DEF Items
<1>6. PosInv'
  BY <1>2, <1>4, <1>5 DEF PosInv
<1>7. RoomInv'
  <2>1. Room(pos + 1) = Room(pos) + Longest
    <3>1. \A p \in 1 .. Len(str) : Room(p + 1) = Room(p) + Longest
      BY RoomGrows
    <3>2. QED
      BY <1>4, <1>5, <3>1
  <2>2. Room(pos) \in Nat
    BY <1>4, RoomGrows
  <2>3. Room(pos)' = Room(pos + 1)
    BY <1>2 DEF Room
  <2>4. finallen <= Room(pos)
    BY <1>2, <2>2 DEF RoomInv
  <2> HIDE DEF text
  <2>5. finallen' = finallen + Len(text)
    BY <1>1 DEF text
  <2>6. QED
    BY <1>2, <1>3, <1>4, <2>1, <2>2, <2>3, <2>4, <2>5 DEF RoomInv
<1>8. finallen + Len(text) < Size - 1
  <2>1. finallen + Longest < Size - 1
    BY <1>2, <1>5, RoomLeft
  <2> HIDE DEF text
  <2>2. QED
    BY <1>3, <1>4, <2>1
<1>9. /\ dptr' \in [1 .. Size -> Items \union {NUL, Stale, Heap}]
      /\ \A n \in 1 .. Size :
             /\ n <= finallen => dptr'[n] = dptr[n]
             /\ n > finallen + Len(text) + 1 => dptr'[n] = dptr[n]
             /\ n > finallen /\ n <= finallen + Len(text) =>
                    /\ n - finallen \in 1 .. Len(text)
                    /\ dptr'[n] = text[n - finallen]
  <2>1. dptr \in [1 .. Size -> Items \union {NUL, Stale, Heap}]
    BY DEF BufferInv
  <2> HIDE DEF text
  <2>2. CASE Found(Key(c)) = {}
    <3>1. dptr' = dptr /\ Len(text) = 0
      BY <1>1, <1>3, <2>2
    <3>2. QED
      BY <1>4, <2>1, <3>1
  <2>3. CASE Found(Key(c)) # {}
    <3> DEFINE s == Append(text, NUL)
    <3>1. dptr' = Written(s)
      BY <1>1, <2>3 DEF text
    <3>2. /\ s \in Seq(Items \union {NUL, Heap}) /\ Len(s) = Len(text) + 1
          /\ \A k \in 1 .. Len(text) : s[k] = text[k]
      BY <1>3 DEF Items
    <3> HIDE DEF s
    <3>3. /\ Written(s) \in [1 .. Size -> Items \union {NUL, Stale, Heap}]
          /\ \A n \in 1 .. Size :
                 /\ n <= finallen => Written(s)[n] = dptr[n]
                 /\ n > finallen + Len(s) => Written(s)[n] = dptr[n]
                 /\ n > finallen /\ n <= finallen + Len(s) =>
                        /\ n - finallen \in 1 .. Len(s)
                        /\ Written(s)[n] = s[n - finallen]
      BY <1>4, <2>1, <3>2, WrittenBytes
    <3>4. ASSUME NEW n \in 1 .. Size
          PROVE  /\ n <= finallen => dptr'[n] = dptr[n]
                 /\ n > finallen + Len(text) + 1 => dptr'[n] = dptr[n]
                 /\ n > finallen /\ n <= finallen + Len(text) =>
                        /\ n - finallen \in 1 .. Len(text)
                        /\ dptr'[n] = text[n - finallen]
      <4>1. Len(text) \in Nat /\ Len(s) = Len(text) + 1
            /\ \A k \in 1 .. Len(text) : s[k] = text[k]
        BY <1>3, <3>2
      <4>2. /\ n <= finallen => dptr'[n] = dptr[n]
            /\ n > finallen + Len(s) => dptr'[n] = dptr[n]
            /\ n > finallen /\ n <= finallen + Len(s) => dptr'[n] = s[n - finallen]
        BY <3>1, <3>3
      <4> HIDE DEF text
      <4>3. n > finallen + Len(text) + 1 => dptr'[n] = dptr[n]
        BY <1>4, <4>1, <4>2
      <4>4. ASSUME n > finallen, n <= finallen + Len(text)
            PROVE  /\ n - finallen \in 1 .. Len(text)
                   /\ dptr'[n] = text[n - finallen]
        <5>1. n - finallen \in 1 .. Len(text) /\ n <= finallen + Len(s)
          BY <1>4, <4>1, <4>4
        <5>2. QED
          BY <4>1, <4>2, <4>4, <5>1
      <4>5. QED
        BY <4>2, <4>3, <4>4
    <3>5. QED
      BY <3>1, <3>3, <3>4
  <2>4. QED
    BY <2>2, <2>3
<1>10. Len(text) \in Nat /\ \A k \in 1 .. Len(text) : text[k] \in Plain
  <2> HIDE DEF text
  <2>1. QED
    BY <1>3
<1> HIDE DEF text
<1>11. finallen' = finallen + Len(text)
  BY <1>1 DEF text
<1>12. BufferInv'
  <2>1. ASSUME NEW n \in 1 .. finallen + Len(text)
        PROVE  dptr'[n] # Stale
    <3>1. n \in 1 .. Size
      BY <1>4, <1>8, <1>10
    <3>2. CASE n <= finallen
      BY <1>4, <1>9, <3>1, <3>2 DEF BufferInv
    <3>3. CASE n > finallen
      <4>1. dptr'[n] \in Plain
        BY <1>4, <1>9, <1>10, <3>1, <3>3
      <4>2. QED
        BY <4>1, Distinct DEF Items
    <3>4. QED
      BY <1>4, <3>2, <3>3
  <2>2. ASSUME NEW n \in finallen + Len(text) + 1 .. Size
        PROVE  dptr'[n] = dptr'[Size] \/ n = finallen + Len(text) + 1
    <3>1. /\ n \in 1 .. Size /\ n > finallen /\ Size > finallen
          /\ Size \in 1 .. Size /\ Size > finallen + Len(text) + 1
          /\ n \in finallen + 1 .. Size
      BY <1>4, <1>8, <1>10
    <3>2. dptr[n] = dptr[Size]
      BY <1>2, <3>1 DEF BufferInv
    <3>3. dptr'[Size] = dptr[Size]
      BY <1>9, <3>1
    <3>4. n > finallen + Len(text) + 1 => dptr'[n] = dptr[n]
      BY <1>9, <3>1
    <3>5. QED
      BY <1>4, <1>10, <3>2, <3>3, <3>4
  <2>3. QED
    BY <1>2, <1>9, <1>11, <2>1, <2>2 DEF BufferInv
<1>13. SpacedInv'
  <2> SUFFICES ASSUME Spaced(str)
               PROVE  SpacedInv'
    BY <1>2 DEF SpacedInv
  <2> DEFINE u == Upto(str, pos - 1)
             v == Upto(str, pos)
  <2>1. /\ u \in Seq(Plain) /\ Len(u) = finallen
        /\ \A n \in 1 .. finallen : dptr[n] = u[n]
    BY <1>2 DEF SpacedInv
  <2>2. pos + 1 <= Len(str) /\ str[pos + 1] \in Plain
    BY <1>4, <1>5 DEF Spaced
  <2>3. Texts(str)[pos] = text
    <3>1. PICK key \in Keys : c = <<"{", key>>
      BY <1>5 DEF Refs
    <3>2. Key(c) = key
      BY <3>1 DEF Key
    <3>3. Meaning(Key(c)) = text
      BY <3>2, GetvarMeaning DEF text
    <3>4. QED
      BY <1>4, <1>5, <3>3 DEF Texts
  <2>4. /\ v \in Seq(Plain) /\ Len(v) = finallen + Len(text)
        /\ \A n \in 1 .. finallen : v[n] = u[n]
        /\ \A n \in 1 .. Len(text) : v[finallen + n] = text[n]
    <3>1. pos \in 1 .. Len(str) /\ str \in Seq(Items)
      BY <1>4, <1>5 DEF PosInv
    <3>2. /\ v \in Seq(Plain) /\ Len(v) = Len(u) + Len(text)
          /\ \A n \in 1 .. Len(u) : v[n] = u[n]
          /\ \A n \in 1 .. Len(text) : v[Len(u) + n] = text[n]
      BY <1>3, <2>1, <2>3, <3>1, FlattenNext
    <3> HIDE DEF u, v
    <3>3. QED
      BY <2>1, <3>2
  <2> HIDE DEF u, v
  <2>5. ASSUME NEW n \in 1 .. finallen + Len(text)
        PROVE  dptr'[n] = v[n]
    <3>1. n \in 1 .. Size
      BY <1>4, <1>8, <1>10
    <3>2. CASE n <= finallen
      BY <1>4, <1>9, <2>1, <2>4, <3>1, <3>2
    <3>3. CASE n > finallen
      <4>1. PICK k \in 1 .. Len(text) : n = finallen + k
        BY <1>4, <1>10, <3>3, n - finallen \in 1 .. Len(text)
      <4>2. n - finallen = k /\ n <= finallen + Len(text)
        BY <1>4, <1>10, <4>1
      <4>3. dptr'[n] = text[k]
        BY <1>9, <3>1, <3>3, <4>2
      <4>4. QED
        BY <2>4, <4>1, <4>3
    <3>4. QED
      BY <1>4, <3>2, <3>3
  <2>6. pos' - 1 = pos /\ pos' <= Len(str) + 1 /\ Upto(str', pos' - 1) = v
    BY <1>2, <1>4, <1>5 DEF v
  <2>7. QED
    BY <1>2, <1>11, <2>2, <2>4, <2>5, <2>6 DEF SpacedInv
<1>14. QED
  BY <1>6, <1>7, <1>12, <1>13

(* A '{' that is not closed: the output stays as it is. *)
LEMMA ExpandOpenInv ==
    ASSUME Roomy, StrExpanInv, ExpandOpen
    PROVE  StrExpanInv'
<1> USE DEF StrExpanInv
<1>1. /\ str' = str /\ dptr' = dptr /\ finallen' = finallen /\ pc = "head"
  BY DEF ExpandOpen
<1>2. pos \in Nat \ {0} /\ Len(str) \in Nat /\ MaxHeap \in Nat \ {0}
  BY StrExpanAssumption DEF PosInv
<1>3. pos <= Len(str) /\ str[pos] = Open
  BY <1>2, Bytes DEF ExpandOpen, Items
<1>4. \/ pc' = "wild" /\ pos' = pos
      \/ pc' = "copy" /\ pos' \in pos + 1 .. Len(str) + 1
  <2> DEFINE closed == {n \in pos + 1 .. Len(str) : str[n] \in Refs}
  <2>1. IF closed = {} THEN pc' = "wild" /\ pos' = pos
                       ELSE pc' = "copy" /\ pos' = Min(closed) + 1
    BY DEF ExpandOpen
  <2>2. closed \in SUBSET Nat /\ closed \subseteq pos + 1 .. Len(str)
    BY <1>2
  <2> HIDE DEF closed
  <2>3. closed # {} => Min(closed) \in pos + 1 .. Len(str)
    BY <2>2, Minimum
  <2>4. QED
    BY <1>2, <2>1, <2>3
<1>5. PosInv'
  BY <1>1, <1>2, <1>4 DEF PosInv
<1>6. RoomInv'
  <2>1. \A p \in 1 .. Len(str) + 1, q \in 1 .. Len(str) + 1 :
            p <= q => Room(p) <= Room(q)
    BY RoomGrows
  <2>2. /\ pos \in 1 .. Len(str) + 1 /\ pos' \in 1 .. Len(str) + 1 /\ pos <= pos'
        /\ pos \in Nat \ {0} /\ pos' \in Nat \ {0}
    BY <1>2, <1>3, <1>4
  <2>3. Room(pos) <= Room(pos') /\ Room(pos) \in Nat /\ Room(pos') \in Nat
    BY <2>1, <2>2, RoomGrows
  <2>4. Room(pos)' = Room(pos')
    BY <1>1 DEF Room
  <2>5. finallen \in Nat /\ finallen <= Room(pos)
    BY <1>1, <2>3 DEF RoomInv
  <2>6. QED
    BY <1>1, <1>4, <2>3, <2>4, <2>5 DEF RoomInv
<1>7. BufferInv'
  BY <1>1, <1>4 DEF BufferInv
<1>8. SpacedInv'
  <2>1. ~ Spaced(str)
    BY <1>2, <1>3 DEF Spaced
  <2>2. QED
    BY <1>1, <2>1 DEF SpacedInv
<1>9. QED
  BY <1>5, <1>6, <1>7, <1>8

LEMMA FinishInv ==
    ASSUME Roomy, StrExpanInv, Finish
    PROVE  StrExpanInv'
<1> USE DEF StrExpanInv
<1>1. /\ str' = str /\ pos' = pos /\ pc = "head" /\ pc' = "done"
      /\ finallen' = finallen + 1 /\ dptr' = Written(<<NUL>>)
      /\ NUL \in ByteAt(pos)
  BY DEF Finish
<1>2. /\ pos \in Nat \ {0} /\ Len(str) \in Nat /\ finallen \in Nat /\ Size \in Nat
  BY StrExpanAssumption DEF PosInv, RoomInv
<1>3. PosInv'
  BY <1>1 DEF PosInv
<1>4. RoomInv'
  <2>1. Room(pos)' = Room(pos) /\ Room(pos) \in Nat
    BY <1>1, <1>2, RoomGrows DEF Room
  <2>2. QED
    BY <1>1, <2>1 DEF RoomInv
<1>5. finallen + 1 < Size
  <2>1. pc # "done" /\ Size + 0 = Size
    BY <1>1, <1>2
  <2>2. QED
    BY <2>1, RoomLeft
<1>6. /\ dptr' \in [1 .. Size -> Items \union {NUL, Stale, Heap}]
      /\ \A n \in 1 .. Size : /\ n <= finallen => dptr'[n] = dptr[n]
                              /\ n > finallen + 1 => dptr'[n] = dptr[n]
                              /\ n = finallen + 1 => dptr'[n] = NUL
  <2>1. /\ <<NUL>> \in Seq(Items \union {NUL, Heap})
        /\ Len(<<NUL>>) = 1 /\ <<NUL>>[1] = NUL
    OBVIOUS
  <2>2. dptr \in [1 .. Size -> Items \union {NUL, Stale, Heap}]
    BY DEF BufferInv
  <2>3. /\ Written(<<NUL>>) \in [1 .. Size -> Items \union {NUL, Stale, Heap}]
        /\ \A n \in 1 .. Size :
               /\ n <= finallen => Written(<<NUL>>)[n] = dptr[n]
               /\ n > finallen + 1 => Written(<<NUL>>)[n] = dptr[n]
               /\ n > finallen /\ n <= finallen + 1 =>
                      Written(<<NUL>>)[n] = <<NUL>>[n - finallen]
    BY <1>2, <2>1, <2>2, WrittenBytes
  <2>4. QED
    BY <1>1, <1>2, <2>1, <2>3
<1>7. BufferInv'
  <2>1. \A n \in 1 .. finallen + 1 : dptr'[n] # Stale
    BY <1>2, <1>5, <1>6, Distinct DEF BufferInv
  <2>2. \A n \in finallen + 2 .. Size : dptr'[n] = dptr'[Size]
    BY <1>1, <1>2, <1>5, <1>6 DEF BufferInv
  <2>3. finallen + 1 + 1 = finallen + 2 /\ finallen + 1 \in 1 .. Size
    BY <1>2, <1>5
  <2>4. QED
    BY <1>1, <1>2, <1>6, <2>1, <2>2, <2>3 DEF BufferInv
<1>8. SpacedInv'
  <2> SUFFICES ASSUME Spaced(str)
               PROVE  SpacedInv'
    BY <1>1 DEF SpacedInv
  <2>1. /\ pos <= Len(str) + 1 /\ Upto(str, pos - 1) \in Seq(Plain)
        /\ Len(Upto(str, pos - 1)) = finallen
        /\ \A n \in 1 .. finallen : dptr[n] = Upto(str, pos - 1)[n]
    BY <1>1 DEF SpacedInv
  <2>2. pos = Len(str) + 1
    <3>1. pos <= Len(str) => NUL \in Items
      BY <1>1, Bytes
    <3>2. QED
      BY <1>2, <2>1, <3>1, Distinct
  <2>3. \A n \in 1 .. finallen : dptr'[n] = Upto(str, pos - 1)[n]
    BY <1>2, <1>5, <1>6, <2>1
  <2>4. finallen' - 1 = finallen
    BY <1>1, <1>2
  <2>5. QED
    BY <1>1, <2>1, <2>2, <2>3, <2>4 DEF SpacedInv
<1>9. QED
  BY <1>3, <1>4, <1>7, <1>8

-----------------------------------------------------------------------------
(* After every round of the loop the invariant holds, for any variables    *)
(* and any template that the buffer has room for.                          *)
THEOREM StrExpanInvariant ==
    ASSUME Roomy
    PROVE  Spec => []StrExpanInv
<1>1. Init => StrExpanInv
  BY InitStrExpanInv
<1>2. ASSUME StrExpanInv, [Next]_vars
      PROVE  StrExpanInv'
  <2>1. CASE Expand
    BY <1>2, <2>1, ExpandInv
  <2>2. CASE ExpandOpen
    BY <1>2, <2>2, ExpandOpenInv
  <2>3. CASE Literal
    BY <1>2, <2>3, CopyInv DEF Literal
  <2>4. CASE CopyNext
    BY <1>2, <2>4, CopyInv DEF CopyNext
  <2>5. CASE Finish
    BY <1>2, <2>5, FinishInv
  <2>6. CASE UNCHANGED vars
    BY <1>2, <2>6 DEF vars, StrExpanInv, PosInv, RoomInv, BufferInv, SpacedInv,
                      Room
  <2>7. QED
    BY <1>2, <2>1, <2>2, <2>3, <2>4, <2>5, <2>6 DEF Next
<1>3. QED
  BY <1>1, <1>2, PTL DEF Spec

(* The pointer stays within MaxHeap of the template and the buffer is      *)
(* large enough, although no code looks at either.                         *)
THEOREM TypeCorrect ==
    ASSUME Roomy
    PROVE  Spec => []TypeOK
<1>1. ASSUME StrExpanInv
      PROVE  TypeOK
  <2> USE <1>1 DEF StrExpanInv
  <2>1. str \in SeqOf(Items, MaxItems)
    BY DEF PosInv, SeqOf
  <2>2. finallen \in 0 .. Size
    <3>1. Size \in Nat /\ finallen \in Nat
      BY StrExpanAssumption DEF RoomInv
    <3>2. finallen + 1 < Size + 1
      BY <3>1, RoomLeft
    <3>3. QED
      BY <3>1, <3>2
  <2>3. QED
    BY <2>1, <2>2 DEF PosInv, BufferInv, TypeOK
<1>2. QED
  BY <1>1, StrExpanInvariant, PTL

(* What a caller reads was written by this call, up to the NUL and up to   *)
(* the returned length.                                                    *)
THEOREM NothingStaleIsRead ==
    ASSUME Roomy
    PROVE  Spec => []NothingStale
<1>1. ASSUME StrExpanInv
      PROVE  NothingStale
  BY <1>1 DEF StrExpanInv, RoomInv, BufferInv, NothingStale
<1>2. QED
  BY <1>1, StrExpanInvariant, PTL

(* Nothing is written behind the returned length. *)
THEOREM LengthIsTheLast ==
    ASSUME Roomy
    PROVE  Spec => []WritesWithinLength
<1>1. ASSUME StrExpanInv
      PROVE  WritesWithinLength
  <2> SUFFICES ASSUME pc = "done"
               PROVE  /\ finallen < Size
                      /\ \A n \in finallen + 1 .. Size : dptr[n] = dptr[Size]
    BY DEF WritesWithinLength
  <2>1. finallen < Size
    <3>1. Size \in Nat /\ finallen \in Nat
      BY <1>1, StrExpanAssumption DEF StrExpanInv, RoomInv
    <3>2. finallen + 1 < Size + 1
      BY <1>1, RoomLeft DEF StrExpanInv
    <3>3. QED
      BY <3>1, <3>2
  <2>2. QED
    BY <1>1, <2>1 DEF StrExpanInv, BufferInv
<1>2. QED
  BY <1>1, StrExpanInvariant, PTL

(* A template whose references are followed by plain characters is         *)
(* expanded to its meaning, whatever it is and whatever the buffer held.   *)
THEOREM SpacedTemplatesExpand ==
    ASSUME Roomy
    PROVE  Spec => []SpacedExpands
<1>1. ASSUME StrExpanInv
      PROVE  SpacedExpands
  <2> SUFFICES ASSUME pc \in {"done", "wild"}, Spaced(str)
               PROVE  /\ pc = "done"
                      /\ CString = Expansion(str)
                      /\ finallen = Len(Expansion(str)) + 1
                      /\ pos = Len(str) + 1
    BY DEF SpacedExpands
  <2> DEFINE text == Expansion(str)
             ends == {n \in 1 .. Size : dptr[n] = NUL}
  <2>1. str \in Seq(Items) /\ Len(str) \in Nat /\ finallen \in Nat \ {0}
        /\ Size \in Nat
    BY <1>1, StrExpanAssumption
       DEF StrExpanInv, PosInv, RoomInv, BufferInv, SpacedInv
  <2>2. /\ pc = "done" /\ pos = Len(str) + 1
        /\ Upto(str, pos - 1) \in Seq(Plain)
        /\ Len(Upto(str, pos - 1)) = finallen - 1
        /\ \A n \in 1 .. finallen - 1 : dptr[n] = Upto(str, pos - 1)[n]
    BY <1>1 DEF StrExpanInv, SpacedInv
  <2>3. Upto(str, pos - 1) = text
    <3>1. pos - 1 = Len(str)
      BY <2>1, <2>2
    <3>2. QED
      BY <2>1, <3>1, Flatten
  <2> HIDE DEF text
  <2>4. /\ text \in Seq(Plain) /\ Len(text) = finallen - 1
        /\ \A n \in 1 .. finallen - 1 : dptr[n] = text[n]
    BY <2>2, <2>3
  <2>5. finallen < Size /\ dptr[finallen] = NUL
    <3>1. finallen + 1 < Size + 1
      BY <1>1, <2>2, RoomLeft DEF StrExpanInv
    <3>2. QED
      BY <1>1, <2>1, <2>2, <3>1 DEF StrExpanInv, BufferInv
  <2>6. Min(ends) = finallen /\ ends # {}
    <3>1. finallen \in ends /\ ends \in SUBSET Nat
      BY <2>1, <2>5
    <3>2. ASSUME NEW n \in ends, n < finallen
          PROVE  FALSE
      <4>1. n \in 1 .. finallen - 1 /\ dptr[n] = NUL
        BY <2>1, <3>2
      <4>2. text[n] \in Plain /\ dptr[n] = text[n]
        BY <2>4, <4>1
      <4>3. QED
        BY <4>1, <4>2, Distinct DEF Items
    <3> HIDE DEF ends
    <3>3. Min(ends) \in ends /\ Min(ends) <= finallen /\ Min(ends) \in Nat
      BY <3>1, Minimum
    <3>4. ~ (Min(ends) < finallen)
      BY <3>2, <3>3
    <3>5. Min(ends) = finallen
      BY <2>1, <3>3, <3>4
    <3>6. QED
      BY <3>1, <3>5
  <2>7. CString = SubSeq(dptr, 1, finallen - 1)
    BY <2>6 DEF CString
  <2>8. SubSeq(dptr, 1, finallen - 1) = text
    <3>1. \A n \in 1 .. finallen - 1 : n \in DOMAIN dptr /\ 1 + n - 1 = n
      BY <1>1, <2>1, <2>5 DEF StrExpanInv, BufferInv
    <3>2. SubSeq(dptr, 1, finallen - 1) = [n \in 1 .. finallen - 1 |-> dptr[n]]
      BY <2>1, <3>1
    <3>3. text = [n \in 1 .. finallen - 1 |-> text[n]]
      BY <2>1, <2>4
    <3>4. QED
      BY <2>4, <3>2, <3>3
  <2>9. finallen = Len(text) + 1
    BY <2>1, <2>4
  <2>10. QED
    BY <2>2, <2>7, <2>8, <2>9 DEF text
<1>2. QED
  BY <1>1, StrExpanInvariant, PTL
=============================================================================
