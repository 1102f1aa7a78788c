---------------------------- MODULE NoteListProofs ----------------------------
(* Lemmas about the lists of NoteText: sequences without repetition, where *)
(* an item stands in them, and the order that Item.integrate keeps.        *)
EXTENDS NoteTextInvariant, SequenceTheorems, FiniteSetTheorems, TLAPS

-----------------------------------------------------------------------------
(* Numbers.                                                                *)

Smaller == {p \in Nat \X Nat : p[1] < p[2]}

LEMMA LeastOf ==
  ASSUME NEW S \in SUBSET Nat, S # {}
  PROVE  \E n \in S : \A m \in S : n <= m
<1>1. IsWellFoundedOn(Smaller, Nat)
  BY NatLessThanWellFounded, Zenon DEF OpToRel, Smaller
<1>2. PICK n \in S : \A m \in S : ~(<<m, n>> \in Smaller)
  BY <1>1, WFMin
<1>3. \A m \in Nat, k \in Nat : m < k => <<m, k>> \in Smaller
  BY DEF Smaller
<1>4. ASSUME NEW m \in S PROVE n <= m
  <2>1. m \in Nat /\ n \in Nat  OBVIOUS
  <2>2. ~(m < n)  BY <2>1, <1>2, <1>3, Zenon
  <2> QED BY <2>1, <2>2
<1> QED BY <1>4

LEMMA GreatestOf ==
  ASSUME NEW N \in Nat, NEW S \in SUBSET (0..N), S # {}
  PROVE  \E n \in S : \A m \in S : m <= n
<1> DEFINE T == {N - m : m \in S}
<1>1. T \in SUBSET Nat /\ T # {}
  <2>1. \A m \in S : N - m \in Nat  OBVIOUS
  <2> QED BY <2>1
<1>2. PICK k \in T : \A m \in T : k <= m
  BY <1>1, LeastOf
<1>3. PICK n \in S : k = N - n
  BY <1>2
<1>4. ASSUME NEW m \in S PROVE m <= n
  <2>1. N - m \in T  OBVIOUS
  <2>2. k <= N - m  BY <2>1, <1>2
  <2> QED BY <2>2, <1>3
<1> QED BY <1>4

\* Induction: a set that holds 0 and, up to N, the successor of what it holds.
LEMMA UpTo ==
  ASSUME NEW N \in Nat, NEW S, 0 \in S, \A i \in 0..(N - 1) : i \in S => i + 1 \in S
  PROVE  0..N \subseteq S
<1> SUFFICES ASSUME ~(0..N \subseteq S) PROVE FALSE
  OBVIOUS
<1> DEFINE T == (0..N) \ S
<1>1. T \in SUBSET Nat /\ T # {}
  OBVIOUS
<1>2. PICK n \in T : \A m \in T : n <= m
  BY <1>1, LeastOf
<1>3. n # 0 /\ n \in 0..N
  BY <1>2
<1>4. n - 1 \notin T /\ n - 1 \in 0..(N - 1)
  BY <1>2, <1>3
<1>5. n - 1 \in S
  BY <1>4, <1>3
<1>6. (n - 1) + 1 \in S
  BY <1>4, <1>5
<1> QED BY <1>6, <1>3, <1>2

-----------------------------------------------------------------------------
(* Sequences.                                                              *)

LEMMA PositionOf ==
  ASSUME NEW S, NEW seq \in Seq(S), IsInjective(seq)
  PROVE  /\ \A n \in 1..Len(seq) : seq[n] \in ToSet(seq) /\ Position(seq, seq[n]) = n
         /\ \A x \in ToSet(seq) : Position(seq, x) \in 1..Len(seq) /\ seq[Position(seq, x)] = x
<1>1. DOMAIN seq = 1..Len(seq)
  OBVIOUS
<1>2. ASSUME NEW x \in ToSet(seq)
      PROVE  Position(seq, x) \in 1..Len(seq) /\ seq[Position(seq, x)] = x
  <2>1. PICK n \in DOMAIN seq : seq[n] = x
    BY DEF ToSet
  <2> QED BY <2>1, <1>1 DEF Position
<1>3. ASSUME NEW n \in 1..Len(seq)
      PROVE  seq[n] \in ToSet(seq) /\ Position(seq, seq[n]) = n
  <2>1. seq[n] \in ToSet(seq)
    BY <1>1 DEF ToSet
  <2>2. Position(seq, seq[n]) \in DOMAIN seq /\ seq[Position(seq, seq[n])] = seq[n]
    BY <1>1, <1>2, <2>1
  <2> QED BY <2>1, <2>2, <1>1 DEF IsInjective
<1> QED BY <1>2, <1>3

LEMMA PositionsDiffer ==
  ASSUME NEW S, NEW seq \in Seq(S), IsInjective(seq),
         NEW x \in ToSet(seq), NEW y \in ToSet(seq), Position(seq, x) = Position(seq, y)
  PROVE  x = y
BY PositionOf

LEMMA SplicedProperties ==
  ASSUME NEW S, NEW seq \in Seq(S), NEW n \in 0..Len(seq), NEW word \in Seq(S)
  PROVE  /\ Spliced(seq, n, word) \in Seq(S)
         /\ Len(Spliced(seq, n, word)) = Len(seq) + Len(word)
         /\ \A i \in 1..(Len(seq) + Len(word)) :
              Spliced(seq, n, word)[i] =
                IF i <= n THEN seq[i]
                ELSE IF i <= n + Len(word) THEN word[i - n] ELSE seq[i - Len(word)]
<1> DEFINE a == SubSeq(seq, 1, n)
           c == SubSeq(seq, n + 1, Len(seq))
<1>1. a \in Seq(S) /\ Len(a) = n /\ \A i \in 1..n : a[i] = seq[i]
  BY SubSeqProperties
<1>2. c \in Seq(S) /\ Len(c) = Len(seq) - n /\ \A i \in 1..(Len(seq) - n) : c[i] = seq[n + i]
  BY SubSeqProperties
<1>3. Spliced(seq, n, word) = a \o word \o c
  BY DEF Spliced
<1> HIDE DEF a, c
<1>4. /\ a \o word \in Seq(S) /\ Len(a \o word) = n + Len(word)
      /\ \A i \in 1..(n + Len(word)) : (a \o word)[i] = IF i <= n THEN a[i] ELSE word[i - n]
  BY <1>1, ConcatProperties
<1> DEFINE b == a \o word
<1> HIDE DEF b
<1>5. /\ b \o c \in Seq(S)
      /\ Len(b \o c) = Len(b) + Len(c)
      /\ \A i \in 1..(Len(b) + Len(c)) :
           (b \o c)[i] = IF i <= Len(b) THEN b[i] ELSE c[i - Len(b)]
  BY <1>2, <1>4, ConcatProperties DEF b
<1>7. Len(b) = n + Len(word) /\ Len(b) + Len(c) = Len(seq) + Len(word)
  BY <1>2, <1>4, LenProperties DEF b
<1>6. ASSUME NEW i \in 1..(Len(seq) + Len(word))
      PROVE  (b \o c)[i] =
                IF i <= n THEN seq[i]
                ELSE IF i <= n + Len(word) THEN word[i - n] ELSE seq[i - Len(word)]
  <2>1. CASE i <= n
    <3>1. (b \o c)[i] = b[i]  BY <2>1, <1>5, <1>7, LenProperties
    <3>2. b[i] = a[i]  BY <2>1, <1>4, LenProperties DEF b
    <3> QED BY <3>1, <3>2, <2>1, <1>1
  <2>2. CASE i > n /\ i <= n + Len(word)
    <3>1. (b \o c)[i] = b[i]  BY <2>2, <1>5, <1>7, LenProperties
    <3>2. b[i] = word[i - n]  BY <2>2, <1>4, LenProperties DEF b
    <3> QED BY <3>1, <3>2, <2>2, LenProperties
  <2>3. CASE i > n + Len(word)
    <3> DEFINE k == i - (n + Len(word))
    <3>1. (b \o c)[i] = c[k]  BY <2>3, <1>5, <1>7, LenProperties
    <3>2. k \in 1..(Len(seq) - n) /\ n + k = i - Len(word)  BY <2>3, LenProperties
    <3>3. c[k] = seq[n + k]  BY <3>2, <1>2
    <3> QED BY <3>1, <3>2, <3>3, <2>3, LenProperties
  <2>4. i <= n \/ (i > n /\ i <= n + Len(word)) \/ i > n + Len(word)  BY LenProperties
  <2> QED BY <2>1, <2>2, <2>3, <2>4, Zenon
<1> QED BY <1>3, <1>5, <1>6, <1>7 DEF b

\* What a splice does to a list without repetition: the old items keep their order.
LEMMA SplicedPositions ==
  ASSUME NEW S, NEW seq \in Seq(S), IsInjective(seq), NEW n \in 0..Len(seq),
         NEW word \in Seq(S), IsInjective(word), ToSet(word) \cap ToSet(seq) = {}
  PROVE  LET new == Spliced(seq, n, word)
         IN  /\ new \in Seq(S) /\ IsInjective(new)
             /\ ToSet(new) = ToSet(seq) \cup ToSet(word)
             /\ \A x \in ToSet(seq) :
                  Position(new, x) = IF Position(seq, x) <= n THEN Position(seq, x)
                                     ELSE Position(seq, x) + Len(word)
             /\ \A i \in 1..Len(word) : Position(new, word[i]) = n + i
<1> DEFINE new == Spliced(seq, n, word)
           k   == Len(word)
<1>1. /\ new \in Seq(S) /\ Len(new) = Len(seq) + k
      /\ \A i \in 1..(Len(seq) + k) :
           new[i] = IF i <= n THEN seq[i] ELSE IF i <= n + k THEN word[i - n] ELSE seq[i - k]
  BY SplicedProperties
<1>2. /\ k \in Nat /\ Len(seq) \in Nat
      /\ DOMAIN new = 1..(Len(seq) + k) /\ DOMAIN seq = 1..Len(seq) /\ DOMAIN word = 1..k
  BY <1>1, LenProperties
<1> HIDE DEF new, k
<1>3. \A i \in 1..Len(seq) : new[IF i <= n THEN i ELSE i + k] = seq[i]
  <2> SUFFICES ASSUME NEW i \in 1..Len(seq) PROVE new[IF i <= n THEN i ELSE i + k] = seq[i]
    OBVIOUS
  <2>1. CASE i <= n
    BY <2>1, <1>1, <1>2
  <2>2. CASE i > n
    <3>1. i + k \in 1..(Len(seq) + k) /\ ~(i + k <= n) /\ ~(i + k <= n + k) /\ (i + k) - k = i
      BY <2>2, <1>2
    <3> QED BY <3>1, <2>2, <1>1
  <2> QED BY <2>1, <2>2, <1>2
<1>4. \A i \in 1..k : new[n + i] = word[i]
  <2> SUFFICES ASSUME NEW i \in 1..k PROVE new[n + i] = word[i]
    OBVIOUS
  <2>1. n + i \in 1..(Len(seq) + k) /\ ~(n + i <= n) /\ n + i <= n + k /\ (n + i) - n = i
    BY <1>2
  <2> QED BY <2>1, <1>1
<1>5. \A j \in 1..(Len(seq) + k) : new[j] \in ToSet(seq) \cup ToSet(word)
  <2> SUFFICES ASSUME NEW j \in 1..(Len(seq) + k) PROVE new[j] \in ToSet(seq) \cup ToSet(word)
    OBVIOUS
  <2>1. CASE j <= n
    <3>1. j \in 1..Len(seq) /\ new[j] = seq[j]  BY <2>1, <1>1, <1>2
    <3> QED BY <3>1, <1>2 DEF ToSet
  <2>2. CASE j > n /\ j <= n + k
    <3>1. j - n \in 1..k /\ new[j] = word[j - n]  BY <2>2, <1>1, <1>2
    <3> QED BY <3>1, <1>2 DEF ToSet
  <2>3. CASE j > n + k
    <3>1. ~(j <= n) /\ ~(j <= n + k) /\ j - k \in 1..Len(seq)  BY <2>3, <1>2
    <3>2. new[j] = seq[j - k]  BY <3>1, <1>1
    <3> QED BY <3>1, <3>2, <1>2 DEF ToSet
  <2>4. j <= n \/ (j > n /\ j <= n + k) \/ j > n + k  BY <1>2
  <2> QED BY <2>1, <2>2, <2>3, <2>4, Zenon
<1>6. ToSet(new) = ToSet(seq) \cup ToSet(word)
  <2>1. ToSet(new) \subseteq ToSet(seq) \cup ToSet(word)
    BY <1>5, <1>2 DEF ToSet
  <2>2. ASSUME NEW x \in ToSet(seq) PROVE x \in ToSet(new)
    <3>1. PICK i \in 1..Len(seq) : seq[i] = x  BY <1>2 DEF ToSet
    <3>2. (IF i <= n THEN i ELSE i + k) \in DOMAIN new  BY <1>2
    <3> QED BY <3>1, <3>2, <1>3 DEF ToSet
  <2>3. ASSUME NEW x \in ToSet(word) PROVE x \in ToSet(new)
    <3>1. PICK i \in 1..k : word[i] = x  BY <1>2 DEF ToSet
    <3>2. n + i \in DOMAIN new  BY <1>2
    <3> QED BY <3>1, <3>2, <1>4 DEF ToSet
  <2> QED BY <2>1, <2>2, <2>3
<1>7. IsInjective(new)
  <2> SUFFICES ASSUME NEW i \in 1..(Len(seq) + k), NEW j \in 1..(Len(seq) + k), new[i] = new[j]
               PROVE i = j
    BY <1>2 DEF IsInjective
  <2> DEFINE Old(m) == IF m <= n THEN m ELSE m - k
             Among(m) == n < m /\ m <= n + k
  <2>1. \A m \in 1..(Len(seq) + k) : ~Among(m) => Old(m) \in 1..Len(seq) /\ new[m] = seq[Old(m)]
    BY <1>1, <1>2
  <2>2. \A m \in 1..(Len(seq) + k) : Among(m) => m - n \in 1..k /\ new[m] = word[m - n]
    BY <1>1, <1>2
  <2>3. \A m \in 1..(Len(seq) + k) : ~Among(m) => new[m] \in ToSet(seq)
    BY <2>1, <1>2 DEF ToSet
  <2>4. \A m \in 1..(Len(seq) + k) : Among(m) => new[m] \in ToSet(word)
    BY <2>2, <1>2 DEF ToSet
  <2>5. Among(i) <=> Among(j)
    BY <2>3, <2>4
  <2>6. CASE Among(i)
    <3>1. i - n = j - n  BY <2>6, <2>5, <2>2, <1>2 DEF IsInjective
    <3> QED BY <3>1, <1>2
  <2>7. CASE ~Among(i)
    <3>1. Old(i) = Old(j)  BY <2>7, <2>5, <2>1, <1>2 DEF IsInjective
    <3>2. ~Among(i) /\ ~Among(j)  BY <2>7, <2>5
    <3> QED BY <3>1, <3>2, <1>2
  <2> QED BY <2>6, <2>7
<1>8. \A m \in 1..(Len(seq) + k) : Position(new, new[m]) = m
  BY <1>1, <1>7, PositionOf
<1>9. ASSUME NEW x \in ToSet(seq)
      PROVE  Position(new, x) = IF Position(seq, x) <= n THEN Position(seq, x)
                                ELSE Position(seq, x) + k
  <2> DEFINE i == Position(seq, x)
             m == IF i <= n THEN i ELSE i + k
  <2>1. i \in 1..Len(seq) /\ seq[i] = x
    BY PositionOf
  <2>2. m \in 1..(Len(seq) + k)
    BY <2>1, <1>2
  <2>3. new[m] = x
    BY <2>1, <1>3
  <2> QED BY <2>2, <2>3, <1>8
<1>10. ASSUME NEW i \in 1..k PROVE Position(new, word[i]) = n + i
  <2>1. n + i \in 1..(Len(seq) + k)  BY <1>2
  <2> QED BY <2>1, <1>4, <1>8
<1> QED BY <1>1, <1>6, <1>7, <1>9, <1>10 DEF new, k

\* Two sequences without repetition, with the same elements in the same order, are
\* the same.
LEMMA SameOrderSameList ==
  ASSUME NEW S, NEW seq \in Seq(S), NEW other \in Seq(S),
         IsInjective(seq), IsInjective(other), ToSet(seq) = ToSet(other),
         \A x, y \in ToSet(seq) :
           Position(seq, x) < Position(seq, y) <=> Position(other, x) < Position(other, y)
  PROVE  seq = other
<1>0. Len(seq) \in Nat /\ Len(other) \in Nat
  BY LenProperties
<1>1. /\ Len(seq) \in Nat /\ Len(other) \in Nat
      /\ DOMAIN seq = 1..Len(seq) /\ DOMAIN other = 1..Len(other)
  BY LenProperties
<1>2. /\ \A n \in 1..Len(seq) : seq[n] \in ToSet(seq) /\ Position(seq, seq[n]) = n
      /\ \A x \in ToSet(seq) : Position(seq, x) \in 1..Len(seq) /\ seq[Position(seq, x)] = x
  BY PositionOf
<1>3. /\ \A n \in 1..Len(other) : other[n] \in ToSet(seq) /\ Position(other, other[n]) = n
      /\ \A x \in ToSet(seq) : Position(other, x) \in 1..Len(other) /\ other[Position(other, x)] = x
  BY PositionOf
<1> DEFINE D == {n \in Nat \ {0} : n <= Len(seq) /\ n <= Len(other) /\ seq[n] # other[n]}
<1>4. D = {}
  <2> SUFFICES ASSUME D # {} PROVE FALSE  OBVIOUS
  <2>1. PICK n \in D : \A m \in D : n <= m
    BY LeastOf
  <2> DEFINE x == seq[n]
             y == other[n]
             i == Position(seq, y)
             j == Position(other, x)
  <2>2. n \in 1..Len(seq) /\ n \in 1..Len(other) /\ x # y
    BY <2>1, <1>1
  <2>3. x \in ToSet(seq) /\ y \in ToSet(seq) /\ Position(seq, x) = n /\ Position(other, y) = n
    BY <2>2, <1>2, <1>3
  <2>4. i \in 1..Len(seq) /\ seq[i] = y /\ j \in 1..Len(other) /\ other[j] = x
    BY <2>3, <1>2, <1>3
  <2> HIDE DEF x, y, i, j
  <2>5. i # n /\ j # n
    BY <2>2, <2>4 DEF x, y
  <2>6. n < i <=> j < n
    BY <2>3 DEF i, j
  <2>7. i < n <=> n < j
    BY <2>3 DEF i, j
  <2>8. CASE j < n
    <3>1. j \notin D /\ j \in 1..Len(seq)  BY <2>8, <2>1, <2>2, <2>4
    <3>2. seq[j] = x  BY <3>1, <2>4
    <3>3. Position(seq, x) = j  BY <3>1, <3>2, <1>2
    <3> QED BY <3>3, <2>3, <2>8, <2>2
  <2>9. CASE i < n
    <3>1. i \notin D /\ i \in 1..Len(other)  BY <2>9, <2>1, <2>2, <2>4
    <3>2. other[i] = y  BY <3>1, <2>4
    <3>3. Position(other, y) = i  BY <3>1, <3>2, <1>3
    <3> QED BY <3>3, <2>3, <2>9, <2>2
  <2> QED BY <2>8, <2>9, <2>5, <2>6, <2>7, <2>4, <2>2
<1>5. Len(seq) = Len(other)
  <2>1. CASE Len(seq) < Len(other)
    <3> DEFINE n == Len(other)
               x == other[n]
               m == Position(seq, x)
    <3>1. n \in 1..Len(other)  BY <2>1, <1>1
    <3>2. x \in ToSet(seq) /\ Position(other, x) = n  BY <3>1, <1>3
    <3>3. m \in 1..Len(seq) /\ seq[m] = x  BY <3>2, <1>2
    <3>4. m \in 1..Len(other) /\ m \notin D  BY <3>3, <2>1, <1>4, <1>1
    <3>5. other[m] = x  BY <3>3, <3>4
    <3>6. m = n  BY <3>2, <3>4, <3>5, <1>3
    <3>7. n \in Nat /\ n # Len(seq) /\ ~(n <= Len(seq))  BY <2>1, <1>0
    <3> HIDE DEF m, x, n
    <3> QED BY <3>6, <3>3, <3>7
  <2>2. CASE Len(other) < Len(seq)
    <3> DEFINE n == Len(seq)
               x == seq[n]
               m == Position(other, x)
    <3>1. n \in 1..Len(seq)  BY <2>2, <1>1
    <3>2. x \in ToSet(seq) /\ Position(seq, x) = n  BY <3>1, <1>2
    <3>3. m \in 1..Len(other) /\ other[m] = x  BY <3>2, <1>3
    <3>4. m \in 1..Len(seq) /\ m \notin D  BY <3>3, <2>2, <1>4, <1>1
    <3>5. seq[m] = x  BY <3>3, <3>4
    <3>6. m = n  BY <3>2, <3>4, <3>5, <1>2
    <3>7. n \in Nat /\ n # Len(other) /\ ~(n <= Len(other))  BY <2>2, <1>0
    <3> HIDE DEF m, x, n
    <3> QED BY <3>6, <3>3, <3>7
  <2>3. Len(seq) < Len(other) \/ Len(other) < Len(seq) \/ Len(seq) = Len(other)  BY <1>0
  <2> QED BY <2>1, <2>2, <2>3, Zenon
<1>6. \A n \in 1..Len(seq) : seq[n] = other[n]
  BY <1>4, <1>5, <1>1
<1> QED BY <1>5, <1>6, SeqEqual
-----------------------------------------------------------------------------
(* The place of an item is determined by the others.                       *)

\* The items of S stand at the positions p, and S holds what they were typed between.
Placing(S, p, o) ==
  /\ \A x \in S : p[x] \in Nat \ {0} /\ x[1] \in Nat /\ x[2] \in Nat
  /\ \A x, y \in S : p[x] = p[y] => x = y
  /\ \A x \in S : o[x].origin \in S \cup {NoId} /\ o[x].rightOrigin \in S \cup {NoId}

LEMMA StartProperties ==
  ASSUME NEW S, NEW p, NEW o, Placing(S, p, o), NEW x \in S
  PROVE  /\ Start(p, o, x) \in Nat
         /\ o[x].origin = NoId => Start(p, o, x) = 0
         /\ o[x].origin # NoId => /\ o[x].origin \in S /\ Start(p, o, x) = p[o[x].origin]
                                  /\ Start(p, o, x) > 0
BY DEF Placing, Start

\* Two items that start at the same position were typed behind the same item.
LEMMA SameStart ==
  ASSUME NEW S, NEW p, NEW o, Placing(S, p, o), NEW x \in S, NEW y \in S
  PROVE  Start(p, o, x) = Start(p, o, y) <=> o[x].origin = o[y].origin
BY DEF Placing, Start

\* No item is on different sides of x in two well placed orders that agree on all
\* the others, if nothing was typed next to x.
LEMMA NoneChangesSides ==
  ASSUME NEW C, NEW p, NEW q, NEW o, NEW x \in C, NEW N \in Nat,
         Placing(C, p, o), Placing(C, q, o), \A y \in C : p[y] <= N,
         WellPlaced(C, p, o), WellPlaced(C, q, o),
         \A y, z \in C \ {x} : p[y] < p[z] <=> q[y] < q[z],
         \A y \in C : o[y].origin # x /\ o[y].rightOrigin # x
  PROVE  \A y \in C : ~(p[y] < p[x] /\ q[x] < q[y])
<1> DEFINE D == {y \in C : p[y] < p[x] /\ q[x] < q[y]}
<1> SUFFICES ASSUME D # {} PROVE FALSE
  OBVIOUS
<1>1. \A y \in C : p[y] \in Nat /\ p[y] > 0 /\ q[y] \in Nat /\ q[y] > 0 /\ y[1] \in Nat
  BY DEF Placing
<1>2. \A y \in C : /\ o[y].origin \in (C \ {x}) \cup {NoId}
                   /\ o[y].rightOrigin \in (C \ {x}) \cup {NoId}
  BY DEF Placing
<1>3. /\ InItsGap(C, p, o) /\ Nested(C, p, o) /\ RightStartsBefore(C, p, o) /\ SiblingsInOrder(C, p, o)
      /\ InItsGap(C, q, o) /\ Nested(C, q, o) /\ SiblingsInOrder(C, q, o)
  BY DEF WellPlaced
<1>4. \A y \in D : y \in C \ {x} /\ p[y] < p[x] /\ q[x] < q[y]
  BY <1>1
<1>5. ASSUME NEW y \in D PROVE Start(p, o, x) < p[y] /\ ~EndsBy(q, o, x, q[y])
  <2>1. Start(p, o, x) < p[y]
    <3>1. CASE o[x].origin = NoId
      BY <3>1, <1>1, <1>4 DEF Start
    <3>2. CASE o[x].origin # NoId
      <4> DEFINE l == o[x].origin
      <4>1. l \in C \ {x}  BY <3>2, <1>2
      <4>2. Start(q, o, x) = q[l] /\ Start(p, o, x) = p[l]  BY <3>2 DEF Start
      <4>3. q[l] < q[x]  BY <4>2, <1>3 DEF InItsGap
      <4>4. q[l] < q[y]  BY <4>1, <4>3, <1>4, <1>1
      <4> QED BY <4>1, <4>2, <4>4, <1>4
    <3> QED BY <3>1, <3>2
  <2>2. ASSUME EndsBy(q, o, x, q[y]) PROVE FALSE
    <3> DEFINE v == o[x].rightOrigin
    <3>1. v \in C \ {x} /\ q[v] <= q[y]  BY <2>2, <1>2 DEF EndsBy
    <3>2. ~EndsBy(p, o, x, p[x])  BY <1>3 DEF InItsGap
    <3>3. p[x] < p[v]  BY <2>2, <3>1, <3>2, <1>1 DEF EndsBy
    <3>4. p[y] < p[v]  BY <3>1, <3>3, <1>4, <1>1
    <3>5. q[y] < q[v]  BY <3>1, <3>4, <1>4
    <3> QED BY <3>1, <3>5, <1>4, <1>1
  <2> QED BY <2>1, <2>2
<1>6. ASSUME NEW y \in D PROVE Start(p, o, x) <= Start(p, o, y)
  BY <1>3, <1>4, <1>5 DEF Nested
<1>7. PICK y \in D : \A z \in D : p[y] <= p[z]
  <2> DEFINE T == {p[z] : z \in D}
  <2>1. T \in SUBSET Nat /\ T # {}  BY <1>1
  <2>2. PICK n \in T : \A m \in T : n <= m  BY <2>1, LeastOf
  <2>3. PICK y \in D : n = p[y]  BY <2>2
  <2> QED BY <2>2, <2>3
<1>8. o[y].origin = o[x].origin
  <2> SUFFICES ASSUME o[y].origin # o[x].origin PROVE FALSE  OBVIOUS
  <2> DEFINE w == o[y].origin
             l == o[x].origin
  <2>1. Start(p, o, x) < Start(p, o, y)
    BY <1>6, <1>4, SameStart, StartProperties
  <2>2. w # NoId /\ w \in C \ {x} /\ Start(p, o, y) = p[w] /\ Start(q, o, y) = q[w]
    BY <2>1, <1>2, <1>4, StartProperties DEF Start
  <2>3. p[w] < p[y]
    BY <2>2, <1>3, <1>4 DEF InItsGap
  <2>4. p[w] < p[x]
    BY <2>3, <2>2, <1>4, <1>1
  <2>5. w \notin D
    BY <2>3, <2>2, <1>7, <1>1
  <2>6. q[w] < q[x]
    BY <2>2, <2>4, <2>5, <1>1 DEF Placing
  <2>7. q[w] <= Start(q, o, x)
    BY <2>2, <2>6, <1>3, <1>4 DEF Nested
  <2>8. l # NoId /\ l \in C \ {x} /\ Start(p, o, x) = p[l] /\ Start(q, o, x) = q[l]
    BY <2>7, <2>2, <1>1, <1>2 DEF Start
  <2>9. p[l] < p[w]
    BY <2>1, <2>2, <2>8
  <2>10. q[l] < q[w]
    BY <2>9, <2>2, <2>8
  <2> QED BY <2>10, <2>7, <2>8, <2>2, <1>1
<1> DEFINE E == {z \in D : o[z].origin = o[x].origin}
<1>9. PICK z \in E : \A u \in E : p[u] <= p[z]
  <2> DEFINE T == {p[u] : u \in E}
  <2>1. T \in SUBSET (0..N) /\ T # {}  BY <1>1, <1>7, <1>8
  <2>2. PICK n \in T : \A m \in T : m <= n  BY <2>1, GreatestOf
  <2>3. PICK u \in E : n = p[u]  BY <2>2
  <2> QED BY <2>2, <2>3
<1> DEFINE v == o[z].rightOrigin
<1>10. z \in C \ {x} /\ p[z] < p[x] /\ q[x] < q[z] /\ o[z].origin = o[x].origin
  BY <1>4, <1>9
<1>11. x[1] < z[1]
  BY <1>3, <1>5, <1>9, <1>10 DEF SiblingsInOrder
<1>12. EndsBy(p, o, z, p[x])
  <2>1. EndsBy(p, o, z, p[x]) \/ z[1] < x[1]
    BY <1>3, <1>10 DEF SiblingsInOrder
  <2> QED BY <2>1, <1>11, <1>1, <1>10
<1>13. v # NoId /\ v \in C \ {x} /\ p[v] <= p[x]
  BY <1>12, <1>2, <1>10 DEF EndsBy
<1>14. p[v] < p[x]
  BY <1>13, <1>1 DEF Placing
<1>15. p[z] < p[v]
  BY <1>13, <1>3, <1>10, <1>1 DEF InItsGap, EndsBy
<1>16. q[z] < q[v]
  BY <1>15, <1>13, <1>10
<1>17. v \in D
  BY <1>13, <1>14, <1>16, <1>10, <1>1
<1>18. Start(p, o, v) <= Start(p, o, z)
  BY <1>3, <1>10, <1>13 DEF RightStartsBefore
<1>19. Start(p, o, x) = Start(p, o, z)
  BY <1>10 DEF Start
<1>20. Start(p, o, v) = Start(p, o, x)
  BY <1>6, <1>17, <1>18, <1>19, <1>13, <1>10, StartProperties
<1>21. v \in E
  BY <1>17, <1>20, <1>13, SameStart
<1> QED BY <1>21, <1>9, <1>15, <1>13, <1>10, <1>1

LEMMA SamePlace ==
  ASSUME NEW C, NEW p, NEW q, NEW o, NEW x \in C, NEW N \in Nat,
         Placing(C, p, o), Placing(C, q, o), \A y \in C : p[y] <= N /\ q[y] <= N,
         WellPlaced(C, p, o), WellPlaced(C, q, o),
         \A y, z \in C \ {x} : p[y] < p[z] <=> q[y] < q[z],
         \A y \in C : o[y].origin # x /\ o[y].rightOrigin # x
  PROVE  \A y, z \in C : p[y] < p[z] <=> q[y] < q[z]
<1>1. \A y \in C : ~(p[y] < p[x] /\ q[x] < q[y])
  BY NoneChangesSides
<1>2. \A y \in C : ~(q[y] < q[x] /\ p[x] < p[y])
  BY NoneChangesSides
<1>3. /\ \A y \in C : p[y] \in Nat /\ q[y] \in Nat
      /\ \A y, z \in C : (p[y] = p[z] => y = z) /\ (q[y] = q[z] => y = z)
  BY DEF Placing
<1>4. \A y \in C : (p[y] < p[x] <=> q[y] < q[x]) /\ (p[x] < p[y] <=> q[x] < q[y])
  BY <1>1, <1>2, <1>3
<1> QED BY <1>4
-----------------------------------------------------------------------------
(* Item.integrate finds a place that keeps the order.                      *)

\* A function of an interval may be defined from each value to the next.
Stays(step, T, a, b) == \A n \in (a + 1)..b : \A t \in T : step[<<n, t>>] \in T

Runs(g, init, step, a, b) ==
  g[a] = init /\ \A n \in (a + 1)..b : g[n] = step[<<n, g[n - 1]>>]

LEMMA Recursion ==
  ASSUME NEW a \in Int, NEW b \in Int, a <= b, NEW T, NEW init \in T, NEW step,
         Stays(step, T, a, b)
  PROVE  \E g \in [a..b -> T] : Runs(g, init, step, a, b)
<1> USE DEF Stays, Runs
<1> DEFINE Run(g, c) == Runs(g, init, step, a, c)
           K == {k \in 0..(b - a) : \E g \in [a..(a + k) -> T] : Run(g, a + k)}
<1>1. 0 \in K
  <2> DEFINE g == [n \in a..a |-> init]
  <2>1. g \in [a..(a + 0) -> T] /\ Run(g, a + 0)  OBVIOUS
  <2>2. 0 \in 0..(b - a)  OBVIOUS
  <2> HIDE DEF Run, g
  <2> QED BY <2>1, <2>2
<1>2. ASSUME NEW k \in 0..((b - a) - 1), k \in K PROVE k + 1 \in K
  <2>1. PICK g \in [a..(a + k) -> T] : Run(g, a + k)
    BY <1>2
  <2> DEFINE c == a + k + 1
             h == [n \in a..c |-> IF n = c THEN step[<<c, g[c - 1]>>] ELSE g[n]]
  <2>2. c \in (a + 1)..b /\ c - 1 \in a..(a + k) /\ c - 1 = a + k /\ c # a
    OBVIOUS
  <2>3. step[<<c, g[c - 1]>>] \in T
    BY <2>2
  <2>4. \A n \in a..c : n # c => n \in a..(a + k)
    OBVIOUS
  <2>5. h \in [a..c -> T]
    BY <2>3, <2>4
  <2>6. h[a] = init
    BY <2>1, <2>2
  <2>7. ASSUME NEW n \in (a + 1)..c PROVE h[n] = step[<<n, h[n - 1]>>]
    <3>1. n - 1 \in a..c /\ n - 1 # c /\ n \in a..c  OBVIOUS
    <3>2. h[n - 1] = g[n - 1]  BY <3>1
    <3>3. CASE n = c  BY <3>1, <3>2, <3>3
    <3>4. CASE n # c
      <4>1. n \in (a + 1)..(a + k)  BY <3>4
      <4> QED BY <4>1, <3>1, <3>2, <3>4, <2>1
    <3> QED BY <3>3, <3>4
  <2>8. Run(h, c)
    BY <2>6, <2>7
  <2>9. c = a + (k + 1) /\ k + 1 \in 0..(b - a)
    OBVIOUS
  <2> HIDE DEF h, c, Run
  <2> QED BY <2>5, <2>8, <2>9
<1>3. b - a \in Nat
  OBVIOUS
<1> DEFINE N == b - a
<1>4. \A i \in 0..(N - 1) : i \in K => i + 1 \in K
  BY <1>2
<1> HIDE DEF K
<1>5. N \in K
  <2>1. 0..N \subseteq K
    BY <1>1, <1>3, <1>4, UpTo
  <2> QED BY <2>1, <1>3
<1>6. a + N = b
  OBVIOUS
<1> HIDE DEF N
<1>7. \E g \in [a..(a + N) -> T] : Run(g, a + N)
  BY <1>5 DEF K
<1> HIDE DEF Stays, Runs
<1> QED BY <1>6, <1>7

\* What id was typed between is in S and is what its maker saw when it was typed.
FitsIn(S, p, o, id) ==
  /\ id \notin S /\ id[1] \in Nat /\ id[2] \in Nat
  /\ o[id].origin \in S \cup {NoId} /\ o[id].rightOrigin \in S \cup {NoId}
  /\ ~EndsBy(p, o, id, Start(p, o, id))
  /\ o[id].rightOrigin # NoId => Start(p, o, o[id].rightOrigin) <= Start(p, o, id)
  /\ o[id].origin # NoId /\ o[o[id].origin].rightOrigin # NoId
       => EndsBy(p, o, id, p[o[o[id].origin].rightOrigin])
  /\ \A z \in S : z[1] = id[1] =>
       z[2] < id[2] /\ (o[z].origin = o[id].origin => EndsBy(p, o, id, p[z]))

\* Between the items at positions left and left + 1 is a place for id.
PlaceFor(S, p, o, id, left) ==
  /\ Start(p, o, id) <= left /\ ~EndsBy(p, o, id, left)
  /\ \A y \in S : Start(p, o, id) < p[y] /\ p[y] <= left => Start(p, o, id) <= Start(p, o, y)
  /\ \A y \in S : left < p[y] /\ Start(p, o, y) <= left => Start(p, o, y) <= Start(p, o, id)
  /\ \A y \in S : o[y].origin = o[id].origin =>
       /\ p[y] <= left => EndsBy(p, o, y, left) \/ y[1] < id[1]
       /\ left < p[y] => EndsBy(p, o, id, p[y]) \/ id[1] < y[1]

\* The loop of FindLeft, having looked at the positions up to m without a stop ...
Looked(S, p, o, id, m, left) ==
  \A y \in S : Start(p, o, id) < p[y] /\ p[y] <= m =>
    /\ Start(p, o, id) <= Start(p, o, y)
    /\ Start(p, o, id) < Start(p, o, y) /\ Start(p, o, y) <= left => p[y] <= left
    /\ o[y].origin = o[id].origin =>
         /\ p[y] <= left => EndsBy(p, o, y, left) \/ y[1] < id[1]
         /\ left < p[y] => id[1] < y[1]

\* ... and the item it stops at.
StopsAt(p, o, id, s) ==
  /\ Start(p, o, s) <= Start(p, o, id)
  /\ o[s].origin = o[id].origin => id[1] < s[1] /\ o[s].rightOrigin = o[id].rightOrigin

\* After position n.
LoopInvariant(seq, o, id, found, n) ==
  LET S == ToSet(seq)
      p == At(seq)
  IN  \E m \in Start(p, o, id)..n :
        /\ found.left \in Start(p, o, id)..m
        /\ Looked(S, p, o, id, m, found.left)
        /\ found.stopped => m < n /\ StopsAt(p, o, id, seq[m + 1])
        /\ ~found.stopped => m = n

LEMMA AtProperties ==
  ASSUME NEW S, NEW seq \in Seq(S), IsInjective(seq)
  PROVE  /\ \A x \in ToSet(seq) : /\ At(seq)[x] = Position(seq, x) /\ At(seq)[x] \in 1..Len(seq)
                                  /\ seq[At(seq)[x]] = x
         /\ \A n \in 1..Len(seq) : seq[n] \in ToSet(seq) /\ At(seq)[seq[n]] = n
BY PositionOf DEF At

\* The positions of the neighbours of an item.
LEMMA NeighbourPositions ==
  ASSUME NEW S, NEW seq \in Seq(S), IsInjective(seq), NEW o, NEW x,
         o[x].origin \in ToSet(seq) \cup {NoId}, o[x].rightOrigin \in ToSet(seq) \cup {NoId}
  PROVE  /\ Behind(seq, o[x].origin) = Start(At(seq), o, x) /\ Start(At(seq), o, x) \in 0..Len(seq)
         /\ Ahead(seq, o[x].rightOrigin) \in 1..(Len(seq) + 1)
         /\ \A n \in 0..Len(seq) : EndsBy(At(seq), o, x, n) <=> Ahead(seq, o[x].rightOrigin) <= n
<1>1. Len(seq) \in Nat
  BY LenProperties
<1>2. Behind(seq, o[x].origin) = Start(At(seq), o, x) /\ Start(At(seq), o, x) \in 0..Len(seq)
  BY AtProperties, <1>1 DEF Behind, Start
<1>3. CASE o[x].rightOrigin = NoId
  BY <1>1, <1>2, <1>3 DEF Ahead, EndsBy
<1>4. CASE o[x].rightOrigin # NoId
  BY <1>1, <1>2, <1>4, AtProperties DEF Ahead, EndsBy
<1> QED BY <1>3, <1>4

\* One round of the loop keeps its invariant.
LEMMA LookKeeps ==
  ASSUME NEW S, NEW seq \in Seq(S), IsInjective(seq), NEW o, NEW id,
         Placing(ToSet(seq), At(seq), o), WellPlaced(ToSet(seq), At(seq), o),
         FitsIn(ToSet(seq), At(seq), o, id),
         NEW n \in Int, Start(At(seq), o, id) < n, n < Ahead(seq, o[id].rightOrigin),
         NEW found \in [left : Nat, stopped : BOOLEAN],
         LoopInvariant(seq, o, id, found, n - 1)
  PROVE  LoopInvariant(seq, o, id, Look(seq, id, o, found, n), n)
<1> DEFINE A     == ToSet(seq)
           p     == At(seq)
           first == Start(p, o, id)
           x     == seq[n]
           next  == Look(seq, id, o, found, n)
<1>1. Len(seq) \in Nat /\ first \in Nat /\ n \in 1..Len(seq)
  BY LenProperties, NeighbourPositions DEF FitsIn
<1>2. x \in A /\ p[x] = n
  BY <1>1, AtProperties
<1>3. \A y \in A : p[y] \in Nat /\ Start(p, o, y) \in Nat /\ y[1] \in Nat
  BY StartProperties DEF Placing
<1>4. Behind(seq, o[x].origin) = Start(p, o, x) /\ Behind(seq, o[id].origin) = first
  BY <1>2, NeighbourPositions DEF FitsIn, Placing
<1>5. \A y \in A : p[y] <= n => ~EndsBy(p, o, id, p[y])
  <2> SUFFICES ASSUME NEW y \in A, p[y] <= n, EndsBy(p, o, id, p[y]) PROVE FALSE  OBVIOUS
  <2>1. p[y] \in 0..Len(seq)  BY AtProperties
  <2>2. Ahead(seq, o[id].rightOrigin) <= p[y]  BY <2>1, NeighbourPositions DEF FitsIn
  <2> QED BY <2>2, <1>3, <1>1, NeighbourPositions DEF FitsIn
<1>6. \A y \in A : o[y].origin = o[id].origin /\ p[y] <= n => y[1] # id[1]
  BY <1>5 DEF FitsIn
<1>7. id[1] \in Nat
  BY DEF FitsIn
<1>8. PICK m \in first..(n - 1) :
        /\ found.left \in first..m
        /\ Looked(A, p, o, id, m, found.left)
        /\ found.stopped => m < n - 1 /\ StopsAt(p, o, id, seq[m + 1])
        /\ ~found.stopped => m = n - 1
  BY DEF LoopInvariant
<1>9. ASSUME NEW k \in first..n, next.left \in first..k, Looked(A, p, o, id, k, next.left),
             next.stopped => k < n /\ StopsAt(p, o, id, seq[k + 1]), ~next.stopped => k = n
      PROVE  LoopInvariant(seq, o, id, next, n)
  BY <1>9 DEF LoopInvariant
<1> DEFINE old == found.left
<1>10. old \in Nat /\ first <= old /\ first < n
  BY <1>8, <1>1
<1>11. CASE found.stopped
  <2>1. next = found  BY <1>11 DEF Look
  <2>2. m \in first..n /\ m < n  BY <1>8, <1>1
  <2> QED BY <2>1, <2>2, <1>8, <1>9, <1>11
<1>12. CASE ~found.stopped
  <2>1. m = n - 1 /\ old <= n - 1
    BY <1>8, <1>12
  <2>2. \A y \in A : p[y] <= n => p[y] <= m \/ y = x
    <3> SUFFICES ASSUME NEW y \in A, p[y] <= n, ~(p[y] <= m) PROVE y = x  OBVIOUS
    <3>1. p[y] = n  BY <2>1, <1>3, <1>1
    <3> QED BY <3>1, <1>2 DEF Placing
  <2>3. CASE o[x].origin = o[id].origin /\ x[1] < id[1]
    <3>1. next.left = n /\ ~next.stopped  BY <2>3, <1>12 DEF Look
    <3>2. Start(p, o, x) = first  BY <2>3 DEF Start
    <3>3. Looked(A, p, o, id, n, n)
      <4> SUFFICES ASSUME NEW y \in A, first < p[y], p[y] <= n
                   PROVE  /\ first <= Start(p, o, y)
                          /\ o[y].origin = o[id].origin => EndsBy(p, o, y, n) \/ y[1] < id[1]
        BY <1>3, <1>1 DEF Looked
      <4>1. CASE y = x
        BY <4>1, <2>3, <3>2, <1>1
      <4>2. CASE y # x
        <5>1. p[y] <= m  BY <4>2, <2>2
        <5>2. first <= Start(p, o, y)  BY <5>1, <1>8 DEF Looked
        <5>3. ASSUME o[y].origin = o[id].origin, ~(y[1] < id[1]) PROVE EndsBy(p, o, y, n)
          <6>1. EndsBy(p, o, y, n) \/ y[1] < x[1]
            <7>1. p[x] = n /\ p[y] < p[x]  BY <5>1, <2>1, <1>1, <1>2, <1>3
            <7>2. o[y].origin = o[x].origin  BY <5>3, <2>3
            <7>3. SiblingsInOrder(A, p, o)  BY DEF WellPlaced
            <7> QED BY <7>1, <7>2, <7>3, <1>2 DEF SiblingsInOrder
          <6> QED BY <6>1, <5>3, <2>3, <1>2, <1>3, <1>7
        <5> QED BY <5>2, <5>3
      <4> QED BY <4>1, <4>2
    <3>4. n \in first..n  BY <1>1, <1>10
    <3> QED BY <3>1, <3>3, <3>4, <1>9
  <2>4. CASE o[x].origin = o[id].origin /\ ~(x[1] < id[1])
    <3>1. next.left = old /\ (next.stopped <=> o[x].rightOrigin = o[id].rightOrigin)
      BY <2>4, <1>12 DEF Look
    <3>2. Start(p, o, x) = first  BY <2>4 DEF Start
    <3>3. id[1] < x[1]  BY <2>4, <1>2, <1>3, <1>6, <1>7, <1>1
    <3>4. CASE next.stopped
      <4>1. StopsAt(p, o, id, x)  BY <3>1, <3>2, <3>3, <3>4, <1>1 DEF StopsAt
      <4>2. m + 1 = n /\ m \in first..n /\ m < n  BY <2>1, <1>1, <1>8
      <4> QED BY <3>1, <3>4, <4>1, <4>2, <1>8, <1>9
    <3>5. CASE ~next.stopped
      <4>1. Looked(A, p, o, id, n, old)
        <5> SUFFICES ASSUME NEW y \in A, first < p[y], p[y] <= n, y = x
                     PROVE  /\ first <= Start(p, o, y)
                            /\ ~(first < Start(p, o, y))
                            /\ ~(p[y] <= old)
                            /\ id[1] < y[1]
          BY <1>8, <2>2 DEF Looked
        <5> QED BY <3>2, <3>3, <2>1, <1>2, <1>1, <1>10
      <4>2. n \in first..n /\ old \in first..n  BY <1>1, <1>10, <2>1
      <4> QED BY <3>1, <3>5, <4>1, <4>2, <1>9
    <3> QED BY <3>4, <3>5
  <2>5. CASE o[x].origin # o[id].origin /\ Start(p, o, x) <= first
    <3>1. next.left = old /\ next.stopped  BY <2>5, <1>4, <1>12 DEF Look
    <3>2. StopsAt(p, o, id, x)  BY <2>5 DEF StopsAt
    <3>3. m + 1 = n /\ m \in first..n /\ m < n  BY <2>1, <1>1, <1>8
    <3> QED BY <3>1, <3>2, <3>3, <1>8, <1>9
  <2>6. CASE o[x].origin # o[id].origin /\ ~(Start(p, o, x) <= first) /\ Start(p, o, x) <= old
    <3>1. next.left = n /\ ~next.stopped  BY <2>6, <1>4, <1>12 DEF Look
    <3>2. Looked(A, p, o, id, n, n)
      <4> SUFFICES ASSUME NEW y \in A, first < p[y], p[y] <= n
                   PROVE  /\ first <= Start(p, o, y)
                          /\ o[y].origin = o[id].origin => EndsBy(p, o, y, n) \/ y[1] < id[1]
        BY <1>3, <1>1 DEF Looked
      <4>1. CASE y = x
        BY <4>1, <2>6, <1>1, <1>2, <1>3
      <4>2. CASE y # x
        <5>1. p[y] <= m  BY <4>2, <2>2
        <5>2. first <= Start(p, o, y)  BY <5>1, <1>8 DEF Looked
        <5>3. CASE p[y] <= old
          <6>1. EndsBy(p, o, y, old) => EndsBy(p, o, y, n)
            BY <2>1, <1>1, <1>3, <1>10 DEF EndsBy, Placing
          <6> QED BY <5>1, <5>2, <5>3, <6>1, <1>8 DEF Looked
        <5>4. CASE ~(p[y] <= old)
          <6>1. Start(p, o, x) < p[y] /\ p[y] < p[x]
            BY <5>4, <5>1, <2>6, <2>1, <1>1, <1>2, <1>3, <1>10
          <6>2. Start(p, o, x) <= Start(p, o, y)
            BY <6>1, <1>2 DEF WellPlaced, Nested
          <6>3. Start(p, o, y) # first
            BY <6>2, <2>6, <1>1, <1>2, <1>3
          <6>4. o[y].origin # o[id].origin
            BY <6>3 DEF Start
          <6> QED BY <6>4, <5>2
        <5> QED BY <5>3, <5>4
      <4> QED BY <4>1, <4>2
    <3>3. n \in first..n  BY <1>1, <1>10
    <3> QED BY <3>1, <3>2, <3>3, <1>9
  <2>7. CASE o[x].origin # o[id].origin /\ ~(Start(p, o, x) <= first) /\ ~(Start(p, o, x) <= old)
    <3>1. next.left = old /\ ~next.stopped  BY <2>7, <1>4, <1>12 DEF Look
    <3>2. Looked(A, p, o, id, n, old)
      <4> SUFFICES ASSUME NEW y \in A, first < p[y], p[y] <= n, y = x
                   PROVE  /\ first <= Start(p, o, y)
                          /\ ~(Start(p, o, y) <= old)
                          /\ o[y].origin # o[id].origin
        BY <1>8, <2>2 DEF Looked
      <4> QED BY <2>7, <1>1, <1>2, <1>3
    <3>3. n \in first..n /\ old \in first..n  BY <1>1, <1>10, <2>1
    <3> QED BY <3>1, <3>2, <3>3, <1>9
  <2> QED BY <2>3, <2>4, <2>5, <2>6, <2>7
<1> QED BY <1>11, <1>12
\* Where the loop ends is a place for the item.
LEMMA LoopFindsPlace ==
  ASSUME NEW S, NEW seq \in Seq(S), IsInjective(seq), NEW o, NEW id,
         Placing(ToSet(seq), At(seq), o), WellPlaced(ToSet(seq), At(seq), o),
         FitsIn(ToSet(seq), At(seq), o, id),
         NEW found \in [left : Nat, stopped : BOOLEAN],
         LoopInvariant(seq, o, id, found, Ahead(seq, o[id].rightOrigin) - 1)
  PROVE  found.left \in 0..Len(seq) /\ PlaceFor(ToSet(seq), At(seq), o, id, found.left)
<1> DEFINE A     == ToSet(seq)
           p     == At(seq)
           first == Start(p, o, id)
           end   == Ahead(seq, o[id].rightOrigin)
           left  == found.left
<1>1. Len(seq) \in Nat /\ first \in Nat /\ end \in 1..(Len(seq) + 1)
  BY LenProperties, NeighbourPositions DEF FitsIn
<1>2. \A y \in A : p[y] \in 1..Len(seq) /\ Start(p, o, y) \in Nat /\ y[1] \in Nat
  BY StartProperties, AtProperties DEF Placing
<1>3. \A n \in 0..Len(seq) : EndsBy(p, o, id, n) <=> end <= n
  BY NeighbourPositions DEF FitsIn
<1>4. PICK m \in first..(end - 1) :
        /\ left \in first..m
        /\ Looked(A, p, o, id, m, left)
        /\ found.stopped => m < end - 1 /\ StopsAt(p, o, id, seq[m + 1])
        /\ ~found.stopped => m = end - 1
  BY DEF LoopInvariant
<1>5. left \in 0..Len(seq) /\ first <= left /\ left <= m /\ m <= end - 1 /\ m \in Nat
  BY <1>1, <1>4
<1>6. ~EndsBy(p, o, id, left)
  BY <1>3, <1>5, <1>1
<1>7. ASSUME NEW y \in A, first < p[y], p[y] <= left PROVE first <= Start(p, o, y)
  BY <1>7, <1>4, <1>5, <1>1, <1>2 DEF Looked
\* Behind what was looked at stands an item that was typed no later than id.
<1>8. ASSUME NEW z \in A, m < p[z]
      PROVE  \E s \in A : /\ p[s] = m + 1 /\ Start(p, o, s) <= first
                          /\ found.stopped => StopsAt(p, o, id, s)
                          /\ ~found.stopped => EndsBy(p, o, id, p[s])
  <2>1. m + 1 \in 1..Len(seq)
    BY <1>8, <1>2, <1>5, <1>1
  <2>2. seq[m + 1] \in A /\ p[seq[m + 1]] = m + 1
    BY <2>1, AtProperties
  <2>3. CASE found.stopped
    BY <2>2, <2>3, <1>4 DEF StopsAt
  <2>4. CASE ~found.stopped
    <3> DEFINE v == o[id].rightOrigin
    <3>1. m + 1 = end  BY <2>4, <1>4, <1>1
    <3>2. EndsBy(p, o, id, m + 1)  BY <3>1, <2>1, <1>3, <1>1
    <3>3. v # NoId /\ v \in A /\ p[v] = m + 1
      BY <3>1, <3>2, AtProperties DEF EndsBy, FitsIn, Ahead
    <3>4. v = seq[m + 1]  BY <3>3, <2>2 DEF Placing
    <3>5. Start(p, o, v) <= first  BY <3>3 DEF FitsIn
    <3> QED BY <3>2, <3>4, <3>5, <2>2, <2>4
  <2> QED BY <2>3, <2>4
<1>9. ASSUME NEW z \in A, left < p[z], Start(p, o, z) <= left PROVE Start(p, o, z) <= first
  <2>1. CASE p[z] <= m
    BY <2>1, <1>9, <1>4, <1>5, <1>1, <1>2 DEF Looked
  <2>2. CASE ~(p[z] <= m)
    <3>1. PICK s \in A : p[s] = m + 1 /\ Start(p, o, s) <= first
      BY <2>2, <1>8, <1>2, <1>5
    <3>2. CASE p[z] = m + 1
      <4>1. z = s  BY <3>1, <3>2 DEF Placing
      <4> QED BY <4>1, <3>1
    <3>3. CASE p[z] # m + 1
      <4>1. Start(p, o, z) < p[s] /\ p[s] < p[z]
        BY <3>1, <3>3, <2>2, <1>9, <1>2, <1>5
      <4>2. Start(p, o, z) <= Start(p, o, s)
        BY <4>1 DEF WellPlaced, Nested
      <4> QED BY <4>2, <3>1, <1>2, <1>1
    <3> QED BY <3>2, <3>3
  <2> QED BY <2>1, <2>2
<1>10. ASSUME NEW y \in A, o[y].origin = o[id].origin
       PROVE  /\ p[y] <= left => EndsBy(p, o, y, left) \/ y[1] < id[1]
              /\ left < p[y] => EndsBy(p, o, id, p[y]) \/ id[1] < y[1]
  <2>1. Start(p, o, y) = first  BY <1>10 DEF Start
  <2>2. first < p[y]  BY <2>1 DEF WellPlaced, InItsGap
  <2>3. CASE p[y] <= m
    BY <2>2, <2>3, <1>10, <1>4 DEF Looked
  <2>4. CASE ~(p[y] <= m)
    <3>1. PICK s \in A : /\ p[s] = m + 1 /\ Start(p, o, s) <= first
                         /\ found.stopped => StopsAt(p, o, id, s)
                         /\ ~found.stopped => EndsBy(p, o, id, p[s])
      BY <2>4, <1>8, <1>2, <1>5
    <3>2. ~(p[y] <= left) /\ p[s] <= p[y]
      BY <2>4, <3>1, <1>2, <1>5
    <3>3. CASE ~found.stopped
      <4>1. EndsBy(p, o, id, p[y])
        <5>1. end <= p[s]  BY <3>1, <3>3, <1>2, <1>3, <1>1
        <5>2. end <= p[y]  BY <5>1, <3>2, <1>1, <1>2
        <5> QED BY <5>2, <1>2, <1>3, <1>1
      <4> QED BY <4>1, <3>2
    <3>4. CASE found.stopped /\ o[s].origin = o[id].origin
      <4>1. id[1] < s[1] /\ o[s].rightOrigin = o[id].rightOrigin
        BY <3>1, <3>4 DEF StopsAt
      <4>2. CASE y = s
        BY <4>1, <4>2, <3>2
      <4>3. CASE y # s
        <5>1. p[s] < p[y]  BY <4>3, <3>2, <1>2 DEF Placing
        <5>2. EndsBy(p, o, s, p[y]) \/ s[1] < y[1]
          BY <5>1, <3>4, <1>10 DEF WellPlaced, SiblingsInOrder
        <5>3. EndsBy(p, o, s, p[y]) => EndsBy(p, o, id, p[y])
          BY <4>1 DEF EndsBy
        <5>4. s[1] < y[1] => id[1] < y[1]
          BY <4>1, <1>2 DEF FitsIn
        <5> QED BY <5>2, <5>3, <5>4, <3>2
      <4> QED BY <4>2, <4>3
    <3>5. CASE found.stopped /\ o[s].origin # o[id].origin
      <4>1. o[s].origin # o[y].origin  BY <3>5, <1>10
      <4>2. Start(p, o, s) < first  BY <4>1, <2>1, <3>1, SameStart, <1>2, <1>1
      <4>3. s # y /\ p[s] < p[y]  BY <4>1, <3>2, <1>2 DEF Placing
      <4>4. Start(p, o, y) < p[s]  BY <2>1, <3>1, <1>5, <1>1
      <4>5. Start(p, o, y) <= Start(p, o, s)  BY <4>3, <4>4 DEF WellPlaced, Nested
      <4> QED BY <4>5, <4>2, <2>1, <1>1, <1>2
    <3> QED BY <3>3, <3>4, <3>5
  <2> QED BY <2>3, <2>4
<1> QED BY <1>5, <1>6, <1>7, <1>9, <1>10 DEF PlaceFor

\* FindLeft runs the loop to its end.
LEMMA FindLeftFindsPlace ==
  ASSUME NEW S, NEW seq \in Seq(S), IsInjective(seq), NEW o, NEW id,
         Placing(ToSet(seq), At(seq), o), WellPlaced(ToSet(seq), At(seq), o),
         FitsIn(ToSet(seq), At(seq), o, id)
  PROVE  /\ FindLeft(seq, id, o) \in 0..Len(seq)
         /\ PlaceFor(ToSet(seq), At(seq), o, id, FindLeft(seq, id, o))
<1> DEFINE first == Behind(seq, o[id].origin)
           last  == Ahead(seq, o[id].rightOrigin) - 1
           start == [left |-> first, stopped |-> FALSE]
           T     == [left : first..last, stopped : BOOLEAN]
           step  == [q \in ((first + 1)..last) \X T |-> Look(seq, id, o, q[2], q[1])]
           F(h)  == [n \in first..last |->
                       IF n = first THEN start ELSE Look(seq, id, o, h[n - 1], n)]
           found == CHOOSE h : h = F(h)
<1>1. Len(seq) \in Nat /\ first = Start(At(seq), o, id) /\ first \in Nat /\ last \in 0..Len(seq)
  BY LenProperties, NeighbourPositions DEF FitsIn
<1>2. first <= last
  <2>1. ~EndsBy(At(seq), o, id, first) /\ first \in 0..Len(seq)
    BY <1>1, NeighbourPositions DEF FitsIn
  <2>2. ~(Ahead(seq, o[id].rightOrigin) <= first)
    BY <2>1, NeighbourPositions DEF FitsIn
  <2> QED BY <2>2, <1>1, NeighbourPositions DEF FitsIn
<1>3. \A n \in (first + 1)..last, t \in T : Look(seq, id, o, t, n) \in T
  <2> SUFFICES ASSUME NEW n \in (first + 1)..last, NEW t \in T PROVE Look(seq, id, o, t, n) \in T
    OBVIOUS
  <2>1. n \in first..last /\ t.left \in first..last /\ t.stopped \in BOOLEAN
    BY <1>1
  <2> HIDE DEF first, last
  <2> QED BY <2>1 DEF Look
<1>4. start \in T
  BY <1>1, <1>2
<1>5. \E h : h = F(h)
  <2>1. Stays(step, T, first, last)
    BY <1>3 DEF Stays
  <2>2. PICK g \in [first..last -> T] :
          g[first] = start /\ \A n \in (first + 1)..last : g[n] = step[<<n, g[n - 1]>>]
    <3>1. first \in Int /\ last \in Int  BY <1>1
    <3> HIDE DEF first, last, start, T, step, F, found
    <3>2. \E g \in [first..last -> T] : Runs(g, start, step, first, last)
      BY <3>1, <1>2, <1>4, <2>1, Recursion
    <3> QED BY <3>2 DEF Runs
  <2>3. \A n \in (first + 1)..last : n \in first..last /\ n # first /\ n - 1 \in first..last
    BY <1>1
  <2>4. \A n \in (first + 1)..last : g[n] = Look(seq, id, o, g[n - 1], n)
    <3> SUFFICES ASSUME NEW n \in (first + 1)..last PROVE g[n] = Look(seq, id, o, g[n - 1], n)
      OBVIOUS
    <3>1. g[n - 1] \in T  BY <2>2, <2>3
    <3>2. step[<<n, g[n - 1]>>] = Look(seq, id, o, g[n - 1], n)  BY <3>1
    <3> QED BY <3>2, <2>2
  <2>5. \A n \in first..last : n = first \/ n \in (first + 1)..last
    BY <1>1
  <2>6. \A n \in first..last : g[n] = IF n = first THEN start ELSE Look(seq, id, o, g[n - 1], n)
    BY <2>2, <2>4, <2>5
  <2> HIDE DEF first, last, start, T, step
  <2>7. g = F(g)
    BY <2>2, <2>6
  <2> QED BY <2>7
<1>6. found = F(found)
  <2> HIDE DEF F
  <2> QED BY <1>5
<1>7. FindLeft(seq, id, o) = found[last].left
  BY DEF FindLeft
<1> HIDE DEF found
<1> DEFINE K == {k \in 0..(last - first) :
                   /\ found[first + k] \in T
                   /\ LoopInvariant(seq, o, id, found[first + k], first + k)}
<1>8. 0 \in K
  <2>1. first + 0 = first /\ first \in first..last /\ 0 \in 0..(last - first)  BY <1>1, <1>2
  <2>2. found[first] = start  BY <1>6, <2>1
  <2>3. \A y \in ToSet(seq) : At(seq)[y] \in Nat  BY DEF Placing
  <2>4. Looked(ToSet(seq), At(seq), o, id, first, first)
    BY <1>1, <2>3 DEF Looked
  <2>5. LoopInvariant(seq, o, id, start, first)
    BY <1>1, <2>1, <2>4 DEF LoopInvariant
  <2> QED BY <2>1, <2>2, <2>5, <1>4
<1>9. ASSUME NEW k \in 0..((last - first) - 1), k \in K PROVE k + 1 \in K
  <2> DEFINE n == first + (k + 1)
  <2>1. n \in (first + 1)..last /\ n \in first..last /\ n # first /\ n - 1 = first + k
        /\ k + 1 \in 0..(last - first)
    BY <1>1
  <2>2. found[n - 1] \in T /\ LoopInvariant(seq, o, id, found[n - 1], n - 1)
    BY <1>9, <2>1
  <2>3. found[n] = Look(seq, id, o, found[n - 1], n)
    BY <1>6, <2>1
  <2>4. found[n] \in T
    BY <2>1, <2>2, <2>3, <1>3
  <2>5. found[n - 1] \in [left : Nat, stopped : BOOLEAN]
    BY <2>2, <1>1
  <2>6. n \in Int /\ Start(At(seq), o, id) < n /\ n < Ahead(seq, o[id].rightOrigin)
    <3>1. Ahead(seq, o[id].rightOrigin) \in Int  BY <1>1, NeighbourPositions DEF FitsIn
    <3>2. first < n /\ n <= last /\ n \in Int  BY <2>1, <1>1
    <3>3. first < n /\ n < Ahead(seq, o[id].rightOrigin) /\ n \in Int
      <4> HIDE DEF n
      <4> QED BY <3>1, <3>2
    <3> QED BY <3>3, <1>1
  <2>7. LoopInvariant(seq, o, id, found[n], n)
    <3> HIDE DEF n
    <3> QED BY <2>2, <2>3, <2>5, <2>6, LookKeeps
  <2> HIDE DEF T
  <2> QED BY <2>1, <2>4, <2>7
<1> DEFINE N == last - first
<1>10. N \in Nat /\ first + N = last
  BY <1>1, <1>2
<1>11. N \in K
  <2>1. \A i \in 0..(N - 1) : i \in K => i + 1 \in K  BY <1>9
  <2> HIDE DEF K, N
  <2>2. 0..N \subseteq K  BY <1>8, <1>10, <2>1, UpTo
  <2> QED BY <2>2, <1>10
<1>12. found[last] \in T /\ LoopInvariant(seq, o, id, found[last], last)
  BY <1>10, <1>11
<1>13. found[last] \in [left : Nat, stopped : BOOLEAN]
  BY <1>12, <1>1
<1> HIDE DEF K, N, T
<1> QED BY <1>7, <1>12, <1>13, LoopFindsPlace
-----------------------------------------------------------------------------
(* Insertions keep the order.                                              *)

\* q is p with a gap of k positions behind position n.
Shifted(S, p, q, n, k) == \A y \in S : q[y] = IF p[y] <= n THEN p[y] ELSE p[y] + k

\* A shift changes nothing among the old items.
LEMMA ShiftKeeps ==
  ASSUME NEW S, NEW p, NEW q, NEW o, NEW n \in Nat, NEW k \in Nat,
         Placing(S, p, o), WellPlaced(S, p, o), Shifted(S, p, q, n, k)
  PROVE  /\ Placing(S, q, o) /\ WellPlaced(S, q, o)
         /\ \A y, z \in S : q[y] < q[z] <=> p[y] < p[z]
         /\ \A y \in S : Start(q, o, y) = IF Start(p, o, y) <= n THEN Start(p, o, y)
                                          ELSE Start(p, o, y) + k
<1>1. \A y \in S : p[y] \in Nat /\ p[y] > 0 /\ q[y] \in Nat /\ q[y] > 0
  BY DEF Placing, Shifted
<1>2. \A y, z \in S : /\ q[y] < q[z] <=> p[y] < p[z]
                      /\ q[y] <= q[z] <=> p[y] <= p[z]
                      /\ q[y] = q[z] <=> p[y] = p[z]
  BY <1>1 DEF Shifted
<1>3. Placing(S, q, o)
  BY <1>1, <1>2 DEF Placing
<1>4. \A y \in S : Start(q, o, y) = IF Start(p, o, y) <= n THEN Start(p, o, y)
                                    ELSE Start(p, o, y) + k
  BY <1>1 DEF Placing, Start, Shifted
<1>5. \A y \in S : Start(p, o, y) \in Nat
  BY StartProperties
<1>6. \A y, z \in S : /\ Start(q, o, y) < q[z] <=> Start(p, o, y) < p[z]
                      /\ Start(q, o, y) <= Start(q, o, z) <=> Start(p, o, y) <= Start(p, o, z)
  BY <1>1, <1>4, <1>5 DEF Shifted
<1>7. \A y, z \in S : EndsBy(q, o, y, q[z]) <=> EndsBy(p, o, y, p[z])
  BY <1>2 DEF Placing, EndsBy
<1>8. InItsGap(S, q, o)
  BY <1>6, <1>7 DEF WellPlaced, InItsGap
<1>9. Nested(S, q, o)
  BY <1>6, <1>2 DEF WellPlaced, Nested
<1>10. RightStartsBefore(S, q, o)
  BY <1>6 DEF WellPlaced, RightStartsBefore, Placing
<1>11. EndsWithin(S, q, o)
  BY <1>7 DEF WellPlaced, EndsWithin, Placing
<1>12. LatestFirst(S, q, o)
  BY <1>7 DEF WellPlaced, LatestFirst
<1>13. SiblingsInOrder(S, q, o)
  BY <1>7, <1>2 DEF WellPlaced, SiblingsInOrder
<1> QED BY <1>2, <1>3, <1>4, <1>8, <1>9, <1>10, <1>11, <1>12, <1>13 DEF WellPlaced

\* An item that fits in, put at a place for it.
LEMMA InsertPlaced ==
  ASSUME NEW S, NEW p, NEW q, NEW o, NEW id, NEW left \in Nat,
         Placing(S, p, o), WellPlaced(S, p, o), FitsIn(S, p, o, id), PlaceFor(S, p, o, id, left),
         Shifted(S, p, q, left, 1), q[id] = left + 1,
         \A y \in S : o[y].origin # id /\ o[y].rightOrigin # id
  PROVE  Placing(S \cup {id}, q, o) /\ WellPlaced(S \cup {id}, q, o)
<1> DEFINE T == S \cup {id}
<1>1. /\ Placing(S, q, o) /\ WellPlaced(S, q, o)
      /\ \A y, z \in S : q[y] < q[z] <=> p[y] < p[z]
      /\ \A y \in S : Start(q, o, y) = IF Start(p, o, y) <= left THEN Start(p, o, y)
                                       ELSE Start(p, o, y) + 1
  BY ShiftKeeps
<1>2. \A y \in S : p[y] \in Nat /\ p[y] > 0 /\ Start(p, o, y) \in Nat /\ y[1] \in Nat /\ y[2] \in Nat
  <2>1. \A y \in S : Start(p, o, y) \in Nat  BY StartProperties
  <2> QED BY <2>1 DEF Placing
<1>3. Start(p, o, id) \in Nat /\ Start(p, o, id) <= left /\ Start(q, o, id) = Start(p, o, id)
  BY <1>2 DEF FitsIn, PlaceFor, Start, Shifted
<1>4. \A y \in S : q[y] # left + 1 /\ q[y] \in Nat /\ (q[y] < left + 1 <=> p[y] <= left)
                   /\ (left + 1 < q[y] <=> left < p[y])
  BY <1>2 DEF Shifted
<1>5. Placing(T, q, o)
  BY <1>1, <1>4 DEF Placing, FitsIn
<1>6. \A y \in S : /\ EndsBy(q, o, y, left + 1) <=> EndsBy(p, o, y, left)
                   /\ EndsBy(q, o, id, q[y]) <=> EndsBy(p, o, id, p[y])
  <2> SUFFICES ASSUME NEW y \in S
               PROVE  /\ EndsBy(q, o, y, left + 1) <=> EndsBy(p, o, y, left)
                      /\ EndsBy(q, o, id, q[y]) <=> EndsBy(p, o, id, p[y])
    OBVIOUS
  <2>1. EndsBy(q, o, y, left + 1) <=> EndsBy(p, o, y, left)
    <3>1. CASE o[y].rightOrigin = NoId  BY <3>1 DEF EndsBy
    <3>2. CASE o[y].rightOrigin # NoId
      <4>1. o[y].rightOrigin \in S  BY <3>2 DEF Placing
      <4> QED BY <4>1, <3>2, <1>4, <1>2 DEF EndsBy
    <3> QED BY <3>1, <3>2
  <2>2. EndsBy(q, o, id, q[y]) <=> EndsBy(p, o, id, p[y])
    <3>1. CASE o[id].rightOrigin = NoId  BY <3>1 DEF EndsBy
    <3>2. CASE o[id].rightOrigin # NoId
      <4>1. o[id].rightOrigin \in S  BY <3>2 DEF FitsIn
      <4> QED BY <4>1, <3>2, <1>1, <1>2, <1>4 DEF EndsBy
    <3> QED BY <3>1, <3>2
  <2> QED BY <2>1, <2>2
<1>7. InItsGap(T, q, o)
  <2>1. ~EndsBy(q, o, id, left + 1)
    <3>1. CASE o[id].rightOrigin = NoId  BY <3>1 DEF EndsBy
    <3>2. CASE o[id].rightOrigin # NoId
      <4>1. o[id].rightOrigin \in S  BY <3>2 DEF FitsIn
      <4> QED BY <4>1, <3>2, <1>4, <1>2 DEF EndsBy, PlaceFor
    <3> QED BY <3>1, <3>2
  <2>2. Start(q, o, id) < q[id]
    BY <1>3
  <2> QED BY <2>1, <2>2, <1>1 DEF WellPlaced, InItsGap
<1>8. Nested(T, q, o)
  <2>1. ASSUME NEW x \in S, NEW y \in S, Start(q, o, x) < q[y], q[y] < q[x]
        PROVE Start(q, o, x) <= Start(q, o, y)
    BY <2>1, <1>1 DEF WellPlaced, Nested
  <2>2. ASSUME NEW y \in S, Start(q, o, id) < q[y], q[y] < q[id]
        PROVE Start(q, o, id) <= Start(q, o, y)
    <3>1. p[y] <= left /\ q[y] = p[y]  BY <2>2, <1>4, <1>2 DEF Shifted
    <3>2. Start(p, o, id) <= Start(p, o, y)  BY <3>1, <2>2, <1>3 DEF PlaceFor
    <3> QED BY <3>2, <1>1, <1>2, <1>3
  <2>3. ASSUME NEW x \in S, Start(q, o, x) < q[id], q[id] < q[x]
        PROVE Start(q, o, x) <= Start(q, o, id)
    <3>1. left < p[x] /\ Start(p, o, x) <= left  BY <2>3, <1>1, <1>2, <1>4
    <3>2. Start(p, o, x) <= Start(p, o, id)  BY <3>1 DEF PlaceFor
    <3> QED BY <3>1, <3>2, <1>1, <1>2, <1>3
  <2>4. ~(q[id] < q[id])
    OBVIOUS
  <2> QED BY <2>1, <2>2, <2>3, <2>4 DEF Nested
<1>9. RightStartsBefore(T, q, o)
  <2>1. ASSUME o[id].rightOrigin # NoId PROVE Start(q, o, o[id].rightOrigin) <= Start(q, o, id)
    <3>1. o[id].rightOrigin \in S /\ Start(p, o, o[id].rightOrigin) <= Start(p, o, id)
      BY <2>1 DEF FitsIn
    <3> QED BY <3>1, <1>1, <1>2, <1>3
  <2> QED BY <2>1, <1>1 DEF WellPlaced, RightStartsBefore
<1>10. EndsWithin(T, q, o)
  <2>1. ASSUME o[id].origin # NoId, o[o[id].origin].rightOrigin # NoId
        PROVE  EndsBy(q, o, id, q[o[o[id].origin].rightOrigin])
    <3>1. o[id].origin \in S  BY <2>1 DEF FitsIn
    <3>2. o[o[id].origin].rightOrigin \in S  BY <3>1, <2>1 DEF Placing
    <3> QED BY <3>2, <2>1, <1>6 DEF FitsIn
  <2> QED BY <2>1, <1>1 DEF WellPlaced, EndsWithin
<1>11. LatestFirst(T, q, o)
  <2>1. ASSUME NEW z \in S, o[id].origin = o[z].origin, id[1] = z[1] PROVE EndsBy(q, o, id, q[z])
    BY <2>1, <1>6 DEF FitsIn
  <2>2. ASSUME NEW x \in S, x[1] = id[1] PROVE ~(id[2] < x[2])
    BY <2>2, <1>2 DEF FitsIn
  <2>3. ~(id[2] < id[2])
    BY DEF FitsIn
  <2> QED BY <2>1, <2>2, <2>3, <1>1 DEF WellPlaced, LatestFirst
<1>12. SiblingsInOrder(T, q, o)
  <2>1. ASSUME NEW y \in S, o[y].origin = o[id].origin, q[y] < q[id]
        PROVE  EndsBy(q, o, y, q[id]) \/ y[1] < id[1]
    BY <2>1, <1>4, <1>6 DEF PlaceFor
  <2>2. ASSUME NEW z \in S, o[z].origin = o[id].origin, q[id] < q[z]
        PROVE  EndsBy(q, o, id, q[z]) \/ id[1] < z[1]
    BY <2>2, <1>4, <1>6 DEF PlaceFor
  <2>3. ~(q[id] < q[id])
    OBVIOUS
  <2> QED BY <2>1, <2>2, <2>3, <1>1 DEF WellPlaced, SiblingsInOrder
<1> QED BY <1>5, <1>7, <1>8, <1>9, <1>10, <1>11, <1>12 DEF WellPlaced

\* The word of k characters that client r types behind position n, between left and
\* right, having typed clock characters before.
TypedAt(S, p, q, o, n, k, word, left, right, r, clock) ==
  /\ Shifted(S, p, q, n, k) /\ NoId \notin S
  /\ IF n = 0 THEN left = NoId ELSE left \in S /\ p[left] = n
  /\ IF right = NoId THEN \A y \in S : p[y] <= n ELSE right \in S /\ p[right] = n + 1
  /\ \A i \in 1..k : /\ word[i] = <<r, clock + i>> /\ word[i] \notin S /\ q[word[i]] = n + i
                     /\ o[word[i]].origin = IF i = 1 THEN left ELSE word[i - 1]
                     /\ o[word[i]].rightOrigin = right
  /\ \A y \in S : y[1] = r => y[2] <= clock

\* It is well placed with the others.
LEMMA WordPlaced ==
  ASSUME NEW S, NEW p, NEW q, NEW o, NEW n \in Nat, NEW k \in Nat, NEW word, NEW left, NEW right,
         NEW r \in Nat, NEW clock \in Nat,
         Placing(S, p, o), WellPlaced(S, p, o),
         TypedAt(S, p, q, o, n, k, word, left, right, r, clock)
  PROVE  LET T == S \cup {word[i] : i \in 1..k}
         IN  Placing(T, q, o) /\ WellPlaced(T, q, o)
<1>0. /\ Shifted(S, p, q, n, k) /\ NoId \notin S
      /\ IF n = 0 THEN left = NoId ELSE left \in S /\ p[left] = n
      /\ IF right = NoId THEN \A y \in S : p[y] <= n ELSE right \in S /\ p[right] = n + 1
      /\ \A i \in 1..k : /\ word[i] = <<r, clock + i>> /\ word[i] \notin S /\ q[word[i]] = n + i
                         /\ o[word[i]].origin = IF i = 1 THEN left ELSE word[i - 1]
                         /\ o[word[i]].rightOrigin = right
      /\ \A y \in S : y[1] = r => y[2] <= clock
  BY DEF TypedAt
<1> USE <1>0
<1> DEFINE W == {word[i] : i \in 1..k}
           T == S \cup W
<1>1. /\ Placing(S, q, o) /\ WellPlaced(S, q, o)
      /\ \A y, z \in S : q[y] < q[z] <=> p[y] < p[z]
      /\ \A y \in S : Start(q, o, y) = IF Start(p, o, y) <= n THEN Start(p, o, y)
                                       ELSE Start(p, o, y) + k
  <2> HIDE DEF W, T
  <2>1. n \in Nat /\ k \in Nat /\ Placing(S, p, o) /\ WellPlaced(S, p, o) /\ Shifted(S, p, q, n, k)
    OBVIOUS
  <2> QED BY ONLY <2>1, ShiftKeeps
<1>2. \A y \in S : p[y] \in Nat /\ p[y] > 0 /\ Start(p, o, y) \in Nat /\ y[1] \in Nat /\ y[2] \in Nat
  <2>1. \A y \in S : Start(p, o, y) \in Nat  BY StartProperties
  <2> QED BY <2>1 DEF Placing
\* Each character of the word is behind the one before.
<1>3. \A i \in 1..k : word[i] \in W /\ q[word[i]] = n + i /\ Start(q, o, word[i]) = n + (i - 1)
  <2> SUFFICES ASSUME NEW i \in 1..k PROVE Start(q, o, word[i]) = n + (i - 1)
    OBVIOUS
  <2>1. CASE i # 1
    <3>1. i - 1 \in 1..k  BY <2>1
    <3>2. word[i - 1] # NoId  BY <3>1 DEF NoId
    <3> QED BY <2>1, <3>1, <3>2 DEF Start
  <2>2. CASE i = 1 /\ n = 0
    BY <2>2 DEF Start
  <2>3. CASE i = 1 /\ n # 0
    BY <2>3, <1>2 DEF Start, Shifted
  <2> QED BY <2>1, <2>2, <2>3
<1>4. \A y \in S : (q[y] <= n /\ q[y] = p[y]) \/ (n + k < q[y] /\ q[y] = p[y] + k /\ n < p[y])
  BY <1>2 DEF Shifted
<1>5. right # NoId => right \in S /\ q[right] = n + k + 1
  BY DEF Shifted
<1>6. \A y \in S : q[y] <= n \/ (right # NoId /\ q[right] <= q[y])
  BY <1>4, <1>5, <1>2
<1>7. \A i \in 1..k : ~EndsBy(q, o, word[i], q[word[i]])
  BY <1>3, <1>5 DEF EndsBy
\* What stands behind the word is behind what the word was typed before.
<1>8. \A i \in 1..k, y \in S : n < q[y] => EndsBy(q, o, word[i], q[y])
  BY <1>6, <1>4, <1>2 DEF EndsBy
<1>9. Placing(T, q, o)
  <2>1. \A i \in 1..k : q[word[i]] \in Nat \ {0} /\ word[i][1] \in Nat /\ word[i][2] \in Nat
    OBVIOUS
  <2>2. \A i \in 1..k : o[word[i]].origin \in T \cup {NoId} /\ o[word[i]].rightOrigin \in T \cup {NoId}
    <3> SUFFICES ASSUME NEW i \in 1..k
                 PROVE o[word[i]].origin \in T \cup {NoId} /\ o[word[i]].rightOrigin \in T \cup {NoId}
      OBVIOUS
    <3>1. i # 1 => i - 1 \in 1..k  OBVIOUS
    <3> QED BY <3>1
  <2>3. \A i, j \in 1..k : q[word[i]] = q[word[j]] => word[i] = word[j]
    <3> SUFFICES ASSUME NEW i \in 1..k, NEW j \in 1..k, q[word[i]] = q[word[j]] PROVE word[i] = word[j]
      OBVIOUS
    <3>1. i = j  BY <1>3
    <3> QED BY <3>1
  <2>4. \A i \in 1..k, y \in S : q[word[i]] # q[y]
    BY <1>3, <1>4
  <2> QED BY <2>1, <2>2, <2>3, <2>4, <1>1 DEF Placing
<1>10. InItsGap(T, q, o)
  BY <1>1, <1>3, <1>7 DEF WellPlaced, InItsGap
<1>11. Nested(T, q, o)
  <2>1. ASSUME NEW x \in S, NEW i \in 1..k, Start(q, o, x) < q[word[i]], q[word[i]] < q[x]
        PROVE  Start(q, o, x) <= Start(q, o, word[i])
    <3>1. Start(p, o, x) \in Nat /\ q[word[i]] = n + i /\ i \in Nat /\ i <= k /\ i > 0
      BY <1>2, <1>3
    <3>2. Start(q, o, x) = IF Start(p, o, x) <= n THEN Start(p, o, x) ELSE Start(p, o, x) + k
      BY <1>1
    <3>3. Start(q, o, x) <= n /\ Start(q, o, x) \in Nat  BY <3>1, <3>2, <2>1
    <3>4. Start(q, o, word[i]) = n + (i - 1)  BY <1>3
    <3> QED BY <3>1, <3>3, <3>4
  <2>2. ASSUME NEW i \in 1..k, NEW y \in S PROVE ~(Start(q, o, word[i]) < q[y] /\ q[y] < q[word[i]])
    BY <1>3, <1>4, <1>2
  <2>3. ASSUME NEW i \in 1..k, NEW j \in 1..k
        PROVE ~(Start(q, o, word[i]) < q[word[j]] /\ q[word[j]] < q[word[i]])
    BY <1>3
  <2> QED BY <2>1, <2>2, <2>3, <1>1 DEF WellPlaced, Nested
<1>12. RightStartsBefore(T, q, o)
  <2>1. ASSUME NEW i \in 1..k, right # NoId PROVE Start(q, o, right) <= Start(q, o, word[i])
    <3>1. right \in S /\ p[right] = n + 1  BY <2>1
    <3>2. Start(p, o, right) < p[right]  BY <3>1 DEF WellPlaced, InItsGap
    <3>3. Start(p, o, right) <= n  BY <3>1, <3>2, <1>2
    <3> QED BY <3>1, <3>3, <1>1, <1>2, <1>3
  <2> QED BY <2>1, <1>1 DEF WellPlaced, RightStartsBefore
<1>13. EndsWithin(T, q, o)
  <2>1. ASSUME NEW i \in 1..k, o[word[i]].origin # NoId, o[o[word[i]].origin].rightOrigin # NoId
        PROVE  EndsBy(q, o, word[i], q[o[o[word[i]].origin].rightOrigin])
    <3>1. CASE i # 1
      <4>1. i - 1 \in 1..k /\ o[word[i]].origin = word[i - 1]  BY <3>1
      <4>2. o[o[word[i]].origin].rightOrigin = right  BY <4>1
      <4> QED BY <4>2, <2>1, <1>5 DEF EndsBy
    <3>2. CASE i = 1
      <4> DEFINE v == o[left].rightOrigin
      <4>1. o[word[i]].origin = left /\ left \in S /\ n # 0 /\ p[left] = n  BY <3>2, <2>1
      <4>2. v \in S /\ v # NoId  BY <4>1, <2>1 DEF Placing
      <4>3. p[left] < p[v]  BY <4>1, <4>2, <1>2 DEF WellPlaced, InItsGap, EndsBy
      <4>4. n < q[v]  BY <4>1, <4>2, <4>3, <1>4, <1>2
      <4> QED BY <4>1, <4>2, <4>4, <1>8
    <3> QED BY <3>1, <3>2
  <2> QED BY <2>1, <1>1 DEF WellPlaced, EndsWithin
\* Nothing else was typed behind a character of the word, and nothing between the
\* word and what stands before it.
<1>14. ASSUME NEW i \in 1..k, NEW y \in S, o[y].origin = o[word[i]].origin
       PROVE  n < q[y]
  <2>1. CASE i # 1
    <3>1. i - 1 \in 1..k /\ o[y].origin = word[i - 1]  BY <2>1, <1>14
    <3>2. word[i - 1] # NoId /\ word[i - 1] \notin S  BY <3>1 DEF NoId
    <3> QED BY <3>1, <3>2 DEF Placing
  <2>2. CASE i = 1
    <3>1. Start(p, o, y) = n  BY <2>2, <1>14 DEF Start
    <3>2. n < p[y]  BY <3>1 DEF WellPlaced, InItsGap
    <3> QED BY <3>2, <1>4, <1>2
  <2> QED BY <2>1, <2>2
<1>15. \A i, j \in 1..k : o[word[i]].origin = o[word[j]].origin => word[i] = word[j]
  <2> SUFFICES ASSUME NEW i \in 1..k, NEW j \in 1..k, o[word[i]].origin = o[word[j]].origin
               PROVE  word[i] = word[j]
    OBVIOUS
  <2>1. Start(q, o, word[i]) = Start(q, o, word[j])  BY DEF Start
  <2>2. i = j  BY <2>1, <1>3
  <2> QED BY <2>2
<1>16. LatestFirst(T, q, o)
  <2>1. ASSUME NEW i \in 1..k, NEW z \in S, o[word[i]].origin = o[z].origin
        PROVE  EndsBy(q, o, word[i], q[z])
    BY <2>1, <1>8, <1>14
  <2>2. ASSUME NEW x \in S, NEW i \in 1..k, x[1] = word[i][1] PROVE ~(word[i][2] < x[2])
    <3>1. word[i] = <<r, clock + i>>  OBVIOUS
    <3>2. x[2] <= clock  BY <3>1, <2>2
    <3> QED BY <3>1, <3>2, <1>2
  <2>3. ASSUME NEW i \in 1..k, NEW j \in 1..k, o[word[i]].origin = o[word[j]].origin,
               word[j][2] < word[i][2]
        PROVE  FALSE
    BY <2>3, <1>15
  <2> QED BY <2>1, <2>2, <2>3, <1>1 DEF WellPlaced, LatestFirst
<1>17. SiblingsInOrder(T, q, o)
  <2>1. ASSUME NEW i \in 1..k, NEW z \in S, o[word[i]].origin = o[z].origin
        PROVE  EndsBy(q, o, word[i], q[z])
    BY <2>1, <1>8, <1>14
  <2>2. ASSUME NEW y \in S, NEW i \in 1..k, o[y].origin = o[word[i]].origin PROVE ~(q[y] < q[word[i]])
    BY <2>2, <1>14, <1>4, <1>3, <1>2
  <2>3. ASSUME NEW i \in 1..k, NEW j \in 1..k, o[word[i]].origin = o[word[j]].origin,
               q[word[i]] < q[word[j]]
        PROVE  FALSE
    <3>1. word[i] = word[j]  BY <2>3, <1>15
    <3> QED BY <3>1, <2>3, <1>3
  <2> QED BY <2>1, <2>2, <2>3, <1>1 DEF WellPlaced, SiblingsInOrder
<1> QED BY <1>9, <1>10, <1>11, <1>12, <1>13, <1>16, <1>17 DEF WellPlaced
=============================================================================
