---------------------------- MODULE NoteTextProofs ----------------------------
(* The invariants of NoteText hold for any clients and bounds.             *)
EXTENDS NoteListProofs

-----------------------------------------------------------------------------
(* Items and clocks.                                                       *)

LEMMA IdFacts ==
  /\ NoId \notin Id
  /\ \A id \in Id : /\ id = <<id[1], id[2]>> /\ id[1] \in Clients /\ id[1] \in Nat \ {0}
                    /\ id[2] \in Nat \ {0} /\ id[2] <= MaxItems[id[1]]
  /\ \A c \in Clients : MaxItems[c] \in Nat /\ c \in Nat \ {0}
  /\ \A c \in Clients : \A n \in 1..MaxItems[c] : <<c, n>> \in Id
BY ClientAssumption, BoundsAssumption DEF Id, NoId, Nobody

\* A set of items of one client that has, with an item, the one before it: its size
\* is the clock of the last.
LEMMA Counted ==
  ASSUME NEW c, NEW N \in Nat, NEW T \in SUBSET ({c} \X (1..N)),
         \A n \in 1..N : n > 1 /\ <<c, n>> \in T => <<c, n - 1>> \in T
  PROVE  Cardinality(T) \in 0..N /\ T = {c} \X (1..Cardinality(T))
<1>1. CASE T = {}
  <2>1. Cardinality(T) = 0  BY <1>1, FS_EmptySet
  <2> QED BY <2>1, <1>1
<1>2. CASE T # {}
  <2> DEFINE K == {n \in 1..N : <<c, n>> \in T}
  <2>1. K \in SUBSET (0..N) /\ K # {}
    BY <1>2
  <2>2. PICK g \in K : \A n \in K : n <= g
    <3> HIDE DEF K
    <3> QED BY <2>1, GreatestOf
  <2>3. g \in 1..N /\ <<c, g>> \in T
    BY <2>2
  <2> DEFINE D == {i \in 0..(g - 1) : <<c, g - i>> \in T}
  <2>4. 0 \in D
    BY <2>3
  <2>5. ASSUME NEW i \in 0..((g - 1) - 1), i \in D PROVE i + 1 \in D
    <3>1. g - i \in 1..N /\ g - i > 1 /\ <<c, g - i>> \in T /\ (g - i) - 1 = g - (i + 1)
          /\ i + 1 \in 0..(g - 1)
      BY <2>3, <2>5
    <3>2. <<c, (g - i) - 1>> \in T
      BY <3>1
    <3> QED BY <3>1, <3>2
  <2>6. g - 1 \in Nat
    BY <2>3
  <2>7. 0..(g - 1) \subseteq D
    <3>1. \A i \in 0..((g - 1) - 1) : i \in D => i + 1 \in D  BY <2>5
    <3> HIDE DEF D
    <3> QED BY <2>4, <2>6, <3>1, UpTo
  <2>8. \A n \in 1..g : <<c, n>> \in T
    <3> SUFFICES ASSUME NEW n \in 1..g PROVE <<c, n>> \in T
      OBVIOUS
    <3>1. g - n \in 0..(g - 1) /\ g - (g - n) = n  BY <2>3
    <3>2. g - n \in D  BY <3>1, <2>7
    <3> QED BY <3>1, <3>2
  <2>9. T = {c} \X (1..g)
    <3>1. ASSUME NEW x \in T PROVE x \in {c} \X (1..g)
      <4>1. x = <<c, x[2]>> /\ x[2] \in 1..N  OBVIOUS
      <4>2. x[2] \in K  BY <4>1
      <4>3. x[2] <= g  BY <4>2, <2>2
      <4>4. x[2] \in 1..g  BY <4>1, <4>3, <2>3
      <4> QED BY <4>1, <4>4
    <3>2. ASSUME NEW x \in {c} \X (1..g) PROVE x \in T
      <4>1. x = <<c, x[2]>> /\ x[2] \in 1..g  OBVIOUS
      <4> QED BY <4>1, <2>8
    <3> QED BY <3>1, <3>2
  <2>10. Cardinality(T) = g
    <3>1. IsFiniteSet({c}) /\ Cardinality({c}) = 1  BY FS_Singleton
    <3>2. IsFiniteSet(1..g) /\ Cardinality(1..g) = g  BY <2>3, FS_Interval
    <3>3. Cardinality({c} \X (1..g)) = Cardinality({c}) * Cardinality(1..g)
      BY <3>1, <3>2, FS_Product
    <3>4. g \in Nat /\ 1 * g = g  BY <2>3
    <3> QED BY <3>1, <3>2, <3>3, <3>4, <2>9
  <2> QED BY <2>9, <2>10, <2>3
<1> QED BY <1>1, <1>2

-----------------------------------------------------------------------------
(* One list.                                                               *)

\* The list of a replica is a sequence of items without repetition.
LEMMA ListFacts ==
  ASSUME TypeOK, NEW r \in Clients
  PROVE  /\ list[r] \in Seq(DOMAIN items) /\ IsInjective(list[r])
         /\ list[r] \in Seq(Id)
         /\ ToSet(list[r]) \subseteq DOMAIN items /\ ToSet(list[r]) \subseteq Id
         /\ NoId \notin ToSet(list[r])
         /\ Len(list[r]) \in Nat
<1>1. list[r] \in Seq(DOMAIN items) /\ IsInjective(list[r]) /\ DOMAIN items \subseteq Id
  BY DEF TypeOK
<1>2. ToSet(list[r]) \subseteq DOMAIN items
  BY <1>1 DEF ToSet
<1>3. Len(list[r]) \in Nat
  BY <1>1, LenProperties
<1>4. list[r] \in Seq(Id)
  BY <1>1
<1> QED BY <1>1, <1>2, <1>3, <1>4, IdFacts

\* The items that a list has of a client are its first ones: the state of the
\* client in it is the number of them.
LEMMA StateCounts ==
  ASSUME TypeOK, NeedsAreThere, NEW r \in Clients, NEW c \in Clients
  PROVE  /\ GetState(r, c) \in Nat
         /\ \A n \in Nat : Has(r, <<c, n>>) <=> 1 <= n /\ n <= GetState(r, c)
<1> DEFINE T == {id \in ToSet(list[r]) : id[1] = c}
           N == MaxItems[c]
<1>1. N \in Nat
  BY IdFacts
<1>2. ToSet(list[r]) \subseteq Id
  BY ListFacts
<1>3. \A id \in T : id = <<c, id[2]>> /\ id[2] \in 1..N
  BY <1>2, IdFacts
<1>4. T \in SUBSET ({c} \X (1..N))
  BY <1>3
<1>5. \A n \in 1..N : n > 1 /\ <<c, n>> \in T => <<c, n - 1>> \in T
  <2> SUFFICES ASSUME NEW n \in 1..N, n > 1, <<c, n>> \in T PROVE <<c, n - 1>> \in T
    OBVIOUS
  <2>1. <<c, n - 1>> \in Needs(<<c, n>>)  BY DEF Needs
  <2> QED BY <2>1 DEF NeedsAreThere
<1>6. GetState(r, c) = Cardinality(T)
  BY DEF GetState
<1>7. \A n : Has(r, <<c, n>>) <=> <<c, n>> \in T
  BY DEF Has
<1> HIDE DEF T, N
<1>8. Cardinality(T) \in 0..N /\ T = {c} \X (1..Cardinality(T))
  BY <1>1, <1>4, <1>5, Counted
<1> QED BY <1>6, <1>7, <1>8

\* What a new item needs was made before it, and so was all that any item needs.
LEMMA NeedsAreItems ==
  ASSUME TypeOK, NeedsAreThere, NEW id \in DOMAIN items
  PROVE  /\ id \in Id /\ Has(id[1], id) /\ Needs(id) \subseteq ToSet(list[id[1]])
         /\ Needs(id) \subseteq DOMAIN items
         /\ items[id].origin \in Id \cup {NoId} /\ items[id].rightOrigin \in Id \cup {NoId}
<1>1. id \in Id /\ items[id] \in Origin
  BY DEF TypeOK
<1>2. id[1] \in Clients
  BY <1>1, IdFacts
<1>3. Has(id[1], id)
  BY <1>2 DEF TypeOK
<1>4. Needs(id) \subseteq ToSet(list[id[1]])
  BY <1>2, <1>3 DEF NeedsAreThere, Has
<1> QED BY <1>1, <1>2, <1>3, <1>4, ListFacts DEF Origin

LEMMA NeighboursAreNeeded ==
  ASSUME NEW id
  PROVE  /\ items[id].origin \in Needs(id) \cup {NoId}
         /\ items[id].rightOrigin \in Needs(id) \cup {NoId}
         /\ id[2] > 1 => <<id[1], id[2] - 1>> \in Needs(id)
BY DEF Needs

\* The items of a set that holds what they need, at positions in a list.
LEMMA ListPlacing ==
  ASSUME TypeOK, NeedsAreThere, NEW r \in Clients
  PROVE  Placing(ToSet(list[r]), At(list[r]), items)
<1>1. /\ list[r] \in Seq(Id) /\ IsInjective(list[r]) /\ ToSet(list[r]) \subseteq Id
      /\ Len(list[r]) \in Nat
  BY ListFacts
<1>2. \A x \in ToSet(list[r]) : At(list[r])[x] \in 1..Len(list[r]) /\ list[r][At(list[r])[x]] = x
  BY <1>1, AtProperties
<1>3. \A x \in ToSet(list[r]) : x[1] \in Nat /\ x[2] \in Nat
  BY <1>1, IdFacts
<1>4. \A x \in ToSet(list[r]) : /\ items[x].origin \in ToSet(list[r]) \cup {NoId}
                                /\ items[x].rightOrigin \in ToSet(list[r]) \cup {NoId}
  BY NeighboursAreNeeded DEF NeedsAreThere
<1>5. \A x, y \in ToSet(list[r]) : At(list[r])[x] = At(list[r])[y] => x = y
  BY <1>2
<1>6. \A x \in ToSet(list[r]) : At(list[r])[x] \in Nat \ {0}
  BY <1>2
<1> QED BY <1>3, <1>4, <1>5, <1>6 DEF Placing

\* An item waits for nothing when what it needs is there, and only then; what it
\* waits for is not there and of another client.
LEMMA WaitsForNeeds ==
  ASSUME TypeOK, NeedsAreThere, OwnNeighboursAreOlder,
         NEW r \in Clients, NEW id \in DOMAIN items, ~Has(r, id)
  PROVE  /\ WaitsFor(r, id) = NoId <=> Needs(id) \subseteq ToSet(list[r])
         /\ WaitsFor(r, id) # NoId => /\ WaitsFor(r, id) \in Id /\ ~Has(r, WaitsFor(r, id))
                                      /\ WaitsFor(r, id)[1] # r
<1> DEFINE c == id[1]
           k == id[2]
           m == GetState(r, c)
           Lacks(o) == o # NoId /\ o[1] # c /\ ~Has(r, o)
           o1 == items[id].origin
           o2 == items[id].rightOrigin
           Next1(o) == <<o[1], GetState(r, o[1]) + 1>>
<1>1. /\ id \in Id /\ id = <<c, k>> /\ c \in Clients /\ k \in Nat /\ k > 0 /\ k <= MaxItems[c]
      /\ MaxItems[c] \in Nat
  BY NeedsAreItems, IdFacts
<1>2. m \in Nat /\ \A n \in Nat : Has(r, <<c, n>>) <=> 1 <= n /\ n <= m
  BY <1>1, StateCounts
<1>3. k > m
  BY <1>1, <1>2
<1>4. \A o \in DOMAIN items : o[1] = r => Has(r, o)
  BY DEF TypeOK
<1>5. c # r
  BY <1>4
<1>6. Needs(id) \subseteq DOMAIN items /\ o1 \in Needs(id) \cup {NoId} /\ o2 \in Needs(id) \cup {NoId}
  BY NeedsAreItems, NeighboursAreNeeded
\* An item of another client that is not there.
<1>7. ASSUME NEW o \in {o1, o2}, Lacks(o)
      PROVE  /\ o \in Needs(id) /\ ~(Needs(id) \subseteq ToSet(list[r])) /\ Next1(o) # NoId
             /\ Next1(o) \in Id /\ ~Has(r, Next1(o)) /\ Next1(o)[1] # r
  <2>1. o \in Needs(id) /\ o \in DOMAIN items  BY <1>6, <1>7
  <2>2. o \in Id  BY <2>1 DEF TypeOK
  <2>3. /\ o = <<o[1], o[2]>> /\ o[1] \in Clients /\ o[2] \in Nat /\ o[2] > 0
        /\ o[2] <= MaxItems[o[1]] /\ MaxItems[o[1]] \in Nat
    BY <2>2, IdFacts
  <2> DEFINE g == GetState(r, o[1])
  <2>4. g \in Nat /\ \A n \in Nat : Has(r, <<o[1], n>>) <=> 1 <= n /\ n <= g
    BY <2>3, StateCounts
  <2>5. o[2] > g  BY <2>3, <2>4, <1>7
  <2> HIDE DEF g
  <2>6. g + 1 \in 1..MaxItems[o[1]] /\ g + 1 \in Nat /\ ~(g + 1 <= g) /\ g + 1 # 0
    BY <2>3, <2>4, <2>5
  <2>7. <<o[1], g + 1>> \in Id /\ ~Has(r, <<o[1], g + 1>>)
    BY <2>3, <2>4, <2>6, IdFacts
  <2>8. o[1] # r  BY <2>1, <1>4, <1>7
  <2>9. <<o[1], g + 1>> # NoId  BY <2>6 DEF NoId
  <2>10. ~(Needs(id) \subseteq ToSet(list[r]))  BY <2>1, <1>7 DEF Has
  <2> QED BY <2>1, <2>7, <2>8, <2>9, <2>10 DEF g
<1>8. CASE k > m + 1
  <2>1. WaitsFor(r, id) = <<c, k - 1>>
    BY <1>8, <1>1, <1>2 DEF WaitsFor
  <2>2. k - 1 \in 1..MaxItems[c] /\ k - 1 \in Nat /\ ~(k - 1 <= m) /\ k > 1 /\ c # 0
    BY <1>1, <1>2, <1>8, IdFacts
  <2>3. <<c, k - 1>> \in Id /\ ~Has(r, <<c, k - 1>>) /\ <<c, k - 1>> # NoId
    BY <1>1, <1>2, <2>2, IdFacts DEF NoId
  <2>4. <<c, k - 1>> \in Needs(id)
    BY <2>2, NeighboursAreNeeded
  <2> QED BY <2>1, <2>3, <2>4, <1>5 DEF Has
<1>9. CASE k <= m + 1 /\ Lacks(o1)
  <2>1. WaitsFor(r, id) = Next1(o1)
    BY <1>9, <1>1, <1>2 DEF WaitsFor
  <2> HIDE DEF o1, Next1, Lacks
  <2> QED BY <2>1, <1>7, <1>9
<1>10. CASE k <= m + 1 /\ ~Lacks(o1) /\ Lacks(o2)
  <2>1. WaitsFor(r, id) = Next1(o2)
    BY <1>10, <1>1, <1>2 DEF WaitsFor
  <2> HIDE DEF o2, Next1, Lacks
  <2> QED BY <2>1, <1>7, <1>10
<1>11. CASE k <= m + 1 /\ ~Lacks(o1) /\ ~Lacks(o2)
  <2>1. WaitsFor(r, id) = NoId
    BY <1>11, <1>1, <1>2 DEF WaitsFor
  <2>2. k > 1 => Has(r, <<c, k - 1>>)
    BY <1>1, <1>2, <1>11
  <2>3. ASSUME NEW o \in {o1, o2}, o # NoId PROVE Has(r, o)
    <3>1. CASE o[1] # c  BY <3>1, <1>11, <2>3
    <3>2. CASE o[1] = c
      <4>1. o \in DOMAIN items  BY <2>3, <1>6
      <4>2. o \in Id  BY <4>1 DEF TypeOK
      <4>3. o = <<c, o[2]>> /\ o[2] \in Nat /\ o[2] > 0  BY <4>2, <3>2, IdFacts
      <4>4. o[2] < k  BY <3>2, <2>3 DEF OwnNeighboursAreOlder
      <4>5. o[2] <= m  BY <4>3, <4>4, <1>1, <1>2, <1>11
      <4> QED BY <4>3, <4>5, <1>2
    <3> QED BY <3>1, <3>2
  <2>4. Needs(id) \subseteq ToSet(list[r])
    BY <2>2, <2>3 DEF Needs, Has
  <2> QED BY <2>1, <2>4
<1>12. k > m + 1 \/ k <= m + 1
  BY <1>1, <1>2
<1> QED BY <1>8, <1>9, <1>10, <1>11, <1>12

-----------------------------------------------------------------------------
(* An item that is integrated.                                             *)

\* Two lists have what both hold in the same order.
LEMMA ListsAgree ==
  ASSUME TypeOK, SameOrder, NEW r \in Clients, NEW s \in Clients,
         NEW x \in ToSet(list[r]) \cap ToSet(list[s]), NEW y \in ToSet(list[r]) \cap ToSet(list[s])
  PROVE  /\ At(list[r])[x] < At(list[r])[y] <=> At(list[s])[x] < At(list[s])[y]
         /\ At(list[r])[x] <= At(list[r])[y] <=> At(list[s])[x] <= At(list[s])[y]
         /\ At(list[r])[x] \in Nat \ {0} /\ At(list[s])[x] \in Nat \ {0}
<1>1. /\ list[r] \in Seq(Id) /\ IsInjective(list[r]) /\ Len(list[r]) \in Nat
      /\ list[s] \in Seq(Id) /\ IsInjective(list[s]) /\ Len(list[s]) \in Nat
  BY ListFacts
<1>2. /\ At(list[r])[x] = Position(list[r], x) /\ At(list[r])[x] \in 1..Len(list[r])
      /\ At(list[r])[y] = Position(list[r], y) /\ At(list[r])[y] \in 1..Len(list[r])
      /\ At(list[s])[x] = Position(list[s], x) /\ At(list[s])[x] \in 1..Len(list[s])
      /\ At(list[s])[y] = Position(list[s], y) /\ At(list[s])[y] \in 1..Len(list[s])
  BY <1>1, AtProperties
<1>3. /\ At(list[r])[x] < At(list[r])[y] <=> At(list[s])[x] < At(list[s])[y]
      /\ At(list[r])[y] < At(list[r])[x] <=> At(list[s])[y] < At(list[s])[x]
  BY <1>2 DEF SameOrder
<1> QED BY <1>1, <1>2, <1>3

\* What its maker had next to an item when it was typed stands so in every list
\* that has what the item needs.
LEMMA ItemFitsIn ==
  ASSUME TypeOK, NeedsAreThere, EveryListWellPlaced, SameOrder,
         NEW r \in Clients, NEW id \in DOMAIN items, ~Has(r, id), Needs(id) \subseteq ToSet(list[r])
  PROVE  FitsIn(ToSet(list[r]), At(list[r]), items, id)
<1> DEFINE s  == id[1]
           R  == ToSet(list[r])
           M  == ToSet(list[s])
           p  == At(list[r])
           q  == At(list[s])
           o1 == items[id].origin
           o2 == items[id].rightOrigin
<1>1. id \in Id /\ s \in Clients /\ id \in M /\ id = <<s, id[2]>> /\ id[2] \in Nat /\ id[2] > 0
  BY NeedsAreItems, IdFacts DEF Has
<1>2. Needs(id) \subseteq M
  BY NeedsAreItems
<1>3. o1 \in (R \cap M) \cup {NoId} /\ o2 \in (R \cap M) \cup {NoId}
  BY <1>2, NeighboursAreNeeded
<1>4. NoId \notin R /\ NoId \notin M
  BY <1>1, ListFacts
<1>5. WellPlaced(M, q, items) /\ Placing(M, q, items) /\ Placing(R, p, items)
  BY <1>1, ListPlacing DEF EveryListWellPlaced
<1>6. \A x, y \in R \cap M : /\ p[x] < p[y] <=> q[x] < q[y]
                             /\ p[x] <= p[y] <=> q[x] <= q[y]
                             /\ p[x] \in Nat \ {0} /\ q[x] \in Nat \ {0}
  BY <1>1, ListsAgree
\* What two items that both lists hold were typed between is in both lists, too.
<1>7. \A x \in R \cap M : /\ items[x].origin \in (R \cap M) \cup {NoId}
                          /\ items[x].rightOrigin \in (R \cap M) \cup {NoId}
  BY <1>4, <1>5 DEF Placing
<1>8. q[id] \in Nat
  BY <1>1, <1>5 DEF Placing
<1> HIDE DEF s, R, M, p, q
<1>9. id \notin R /\ id[1] \in Nat /\ id[2] \in Nat
  BY <1>1, IdFacts DEF R, Has
<1>10. ~EndsBy(p, items, id, Start(p, items, id))
  <2> SUFFICES ASSUME o2 # NoId, p[o2] <= Start(p, items, id) PROVE FALSE
    BY DEF EndsBy
  <2>1. o2 \in R \cap M /\ p[o2] \in Nat \ {0}  BY <1>3, <1>6
  <2>2. o1 # NoId  BY <2>1 DEF Start
  <2>3. o1 \in R \cap M /\ p[o2] <= p[o1]  BY <2>2, <1>3 DEF Start
  <2>4. q[o2] <= q[o1] /\ q[o1] \in Nat /\ q[o2] \in Nat  BY <2>1, <2>3, <1>6
  <2>5. q[o1] < q[id]  BY <1>1, <1>5, <2>2 DEF WellPlaced, InItsGap, Start
  <2>6. ~(q[o2] <= q[id])  BY <1>1, <1>5 DEF WellPlaced, InItsGap, EndsBy
  <2> QED BY <2>4, <2>5, <2>6, <1>8
<1>11. ASSUME o2 # NoId PROVE Start(p, items, o2) <= Start(p, items, id)
  <2> DEFINE ro == items[o2].origin
  <2>1. o2 \in R \cap M  BY <1>3, <1>11
  <2>2. ro \in (R \cap M) \cup {NoId}  BY <2>1, <1>7
  <2>3. Start(q, items, o2) <= Start(q, items, id)
    BY <1>1, <1>5, <1>11 DEF WellPlaced, RightStartsBefore
  <2>4. CASE ro = NoId
    BY <2>4, <1>3, <1>6 DEF Start
  <2>5. CASE ro # NoId
    <3>1. ro \in R \cap M /\ q[ro] \in Nat \ {0} /\ q[ro] <= Start(q, items, id)
      BY <2>2, <2>3, <2>5, <1>6 DEF Start
    <3>2. o1 # NoId  BY <3>1 DEF Start
    <3>3. o1 \in R \cap M /\ q[ro] <= q[o1]  BY <3>1, <3>2, <1>3 DEF Start
    <3> QED BY <3>1, <3>2, <3>3, <2>5, <1>6 DEF Start
  <2> QED BY <2>4, <2>5
<1>12. ASSUME o1 # NoId, items[o1].rightOrigin # NoId
       PROVE  EndsBy(p, items, id, p[items[o1].rightOrigin])
  <2> DEFINE v == items[o1].rightOrigin
  <2>1. o1 \in R \cap M /\ v \in R \cap M  BY <1>3, <1>7, <1>12
  <2>2. o2 # NoId /\ q[o2] <= q[v]  BY <1>1, <1>5, <1>12 DEF WellPlaced, EndsWithin, EndsBy
  <2>3. o2 \in R \cap M  BY <2>2, <1>3
  <2> QED BY <2>1, <2>2, <2>3, <1>6 DEF EndsBy
<1>13. ASSUME NEW z \in R, z[1] = id[1]
       PROVE  z[2] < id[2] /\ (items[z].origin = o1 => EndsBy(p, items, id, p[z]))
  <2>1. z \in Id /\ z \in DOMAIN items  BY ListFacts DEF R
  <2>2. z \in M  BY <2>1, <1>13, <1>1 DEF M, s, TypeOK, Has
  <2>3. z = <<s, z[2]>> /\ z[2] \in Nat /\ z[2] > 0  BY <2>1, <1>13, IdFacts DEF s
  <2> DEFINE g == GetState(r, s)
  <2>4. g \in Nat /\ \A n \in Nat : Has(r, <<s, n>>) <=> 1 <= n /\ n <= g
    BY <1>1, StateCounts
  <2> HIDE DEF g
  <2>5. Has(r, <<s, z[2]>>) /\ ~Has(r, <<s, id[2]>>)  BY <2>3, <1>1 DEF R, Has
  <2>6. z[2] <= g /\ ~(id[2] <= g)  BY <2>3, <2>4, <2>5, <1>1
  <2>7. z[2] < id[2]  BY <2>3, <2>4, <2>6, <1>1
  <2>8. ASSUME items[z].origin = o1 PROVE EndsBy(p, items, id, p[z])
    <3>1. o2 # NoId /\ q[o2] <= q[z]
      BY <2>2, <2>7, <2>8, <1>1, <1>5, <1>13 DEF WellPlaced, LatestFirst, EndsBy
    <3>2. o2 \in R \cap M /\ z \in R \cap M  BY <3>1, <1>3, <2>2
    <3> QED BY <3>1, <3>2, <1>6 DEF EndsBy
  <2> QED BY <2>7, <2>8
<1>14. o1 \in R \cup {NoId} /\ o2 \in R \cup {NoId}
  BY <1>3
<1>15. FitsIn(R, p, items, id)
  BY <1>9, <1>10, <1>11, <1>12, <1>13, <1>14 DEF FitsIn
<1> QED BY <1>15 DEF R, p

\* What IntegrateItem makes of a list: the item is new in it, the others keep
\* their order, and all are well placed.
LEMMA ItemIntegrated ==
  ASSUME TypeOK, NeedsAreThere, EveryListWellPlaced, SameOrder,
         NEW r \in Clients, NEW id \in DOMAIN items, ~Has(r, id), Needs(id) \subseteq ToSet(list[r]),
         NEW new, new = Integrated(list[r], id, items)
  PROVE  /\ new \in Seq(DOMAIN items) /\ IsInjective(new)
         /\ ToSet(new) = ToSet(list[r]) \cup {id}
         /\ \A x, y \in ToSet(list[r]) : At(new)[x] < At(new)[y] <=> At(list[r])[x] < At(list[r])[y]
         /\ Placing(ToSet(new), At(new), items) /\ WellPlaced(ToSet(new), At(new), items)
<1> DEFINE seq  == list[r]
           left == FindLeft(seq, id, items)
           word == <<id>>
<1>1. /\ seq \in Seq(DOMAIN items) /\ IsInjective(seq) /\ Len(seq) \in Nat
  BY ListFacts
<1>2. Placing(ToSet(seq), At(seq), items) /\ WellPlaced(ToSet(seq), At(seq), items)
  BY ListPlacing DEF EveryListWellPlaced
<1>3. FitsIn(ToSet(seq), At(seq), items, id)
  BY ItemFitsIn
<1>4. id \notin ToSet(seq)
  BY DEF Has
<1>5. \A y \in ToSet(seq) : items[y].origin # id /\ items[y].rightOrigin # id
  <2>1. id # NoId  BY NeedsAreItems, IdFacts
  <2>2. \A y \in ToSet(seq) : Needs(y) \subseteq ToSet(seq)  BY DEF NeedsAreThere
  <2>3. \A y : /\ items[y].origin \in Needs(y) \cup {NoId}
               /\ items[y].rightOrigin \in Needs(y) \cup {NoId}
    BY NeighboursAreNeeded
  <2> QED BY <2>1, <2>2, <2>3, <1>4
<1> HIDE DEF seq
<1>6. left \in 0..Len(seq) /\ PlaceFor(ToSet(seq), At(seq), items, id, left)
  BY <1>1, <1>2, <1>3, FindLeftFindsPlace
<1> HIDE DEF left
<1>7. /\ word \in Seq(DOMAIN items) /\ IsInjective(word) /\ ToSet(word) = {id} /\ Len(word) = 1
      /\ word[1] = id
  BY DEF IsInjective, ToSet
<1>8. new = Spliced(seq, left, word)
  BY DEF Integrated, left, seq
<1> HIDE DEF word
<1>9. /\ new \in Seq(DOMAIN items) /\ IsInjective(new)
      /\ ToSet(new) = ToSet(seq) \cup ToSet(word)
      /\ \A x \in ToSet(seq) :
           Position(new, x) = IF Position(seq, x) <= left THEN Position(seq, x)
                              ELSE Position(seq, x) + Len(word)
      /\ \A i \in 1..Len(word) : Position(new, word[i]) = left + i
  <2>1. ToSet(word) \cap ToSet(seq) = {}  BY <1>4, <1>7
  <2> DEFINE D == DOMAIN items
  <2>2. seq \in Seq(D) /\ word \in Seq(D)  BY <1>1, <1>7
  <2> HIDE DEF D
  <2>3. /\ Spliced(seq, left, word) \in Seq(D) /\ IsInjective(Spliced(seq, left, word))
        /\ ToSet(Spliced(seq, left, word)) = ToSet(seq) \cup ToSet(word)
        /\ \A x \in ToSet(seq) :
             Position(Spliced(seq, left, word), x) =
               IF Position(seq, x) <= left THEN Position(seq, x) ELSE Position(seq, x) + Len(word)
        /\ \A i \in 1..Len(word) : Position(Spliced(seq, left, word), word[i]) = left + i
    <3>1. IsInjective(seq) /\ left \in 0..Len(seq) /\ IsInjective(word)
      BY <1>1, <1>6, <1>7
    <3> QED BY ONLY <3>1, <2>1, <2>2, SplicedPositions
  <2> QED BY <1>8, <2>3 DEF D
<1>10. /\ \A x \in ToSet(seq) : At(seq)[x] = Position(seq, x)
       /\ \A x \in ToSet(new) : At(new)[x] = Position(new, x)
  BY DEF At
<1>11. ToSet(new) = ToSet(seq) \cup {id}
  BY <1>7, <1>9
<1>12. Shifted(ToSet(seq), At(seq), At(new), left, 1)
  BY <1>7, <1>9, <1>10, <1>11 DEF Shifted
<1>13. At(new)[id] = left + 1
  <2>1. 1 \in 1..Len(word)  BY <1>7
  <2>2. Position(new, id) = left + 1  BY <2>1, <1>7, <1>9
  <2> QED BY <2>2, <1>10, <1>11
<1>14. left \in Nat /\ 1 \in Nat
  BY <1>6
<1>15. Placing(ToSet(seq) \cup {id}, At(new), items) /\ WellPlaced(ToSet(seq) \cup {id}, At(new), items)
  BY <1>2, <1>3, <1>5, <1>6, <1>12, <1>13, <1>14, InsertPlaced
<1>16. \A x, y \in ToSet(seq) : At(new)[x] < At(new)[y] <=> At(seq)[x] < At(seq)[y]
  BY <1>2, <1>12, <1>14, ShiftKeeps
<1> QED BY <1>9, <1>11, <1>15, <1>16 DEF seq

-----------------------------------------------------------------------------
(* A word that is typed.                                                   *)

\* Only what the items of a list were typed between counts for their order.
LEMMA SameOrigins ==
  ASSUME NEW S, NEW p, NEW o, NEW o2, Placing(S, p, o), \A x \in S : o2[x] = o[x], NoId \notin S
  PROVE  /\ Placing(S, p, o2)
         /\ \A x \in S : Start(p, o2, x) = Start(p, o, x)
         /\ \A x \in S : \A n : EndsBy(p, o2, x, n) <=> EndsBy(p, o, x, n)
         /\ WellPlaced(S, p, o) => WellPlaced(S, p, o2)
<1>1. Placing(S, p, o2)
  BY DEF Placing
<1>2. \A x \in S : Start(p, o2, x) = Start(p, o, x)
  BY DEF Start
<1>3. \A x \in S : \A n : EndsBy(p, o2, x, n) <=> EndsBy(p, o, x, n)
  BY DEF EndsBy
<1>4. \A x \in S : o[x].origin \in S \cup {NoId} /\ o[x].rightOrigin \in S \cup {NoId}
  BY DEF Placing
<1>5. ASSUME WellPlaced(S, p, o) PROVE WellPlaced(S, p, o2)
  <2>1. InItsGap(S, p, o2)
    BY <1>2, <1>3, <1>5 DEF WellPlaced, InItsGap
  <2>2. Nested(S, p, o2)
    BY <1>2, <1>5 DEF WellPlaced, Nested
  <2>3. RightStartsBefore(S, p, o2)
    BY <1>2, <1>4, <1>5 DEF WellPlaced, RightStartsBefore
  <2>4. EndsWithin(S, p, o2)
    BY <1>3, <1>4, <1>5 DEF WellPlaced, EndsWithin
  <2>5. LatestFirst(S, p, o2)
    BY <1>3, <1>5 DEF WellPlaced, LatestFirst
  <2>6. SiblingsInOrder(S, p, o2)
    BY <1>3, <1>5 DEF WellPlaced, SiblingsInOrder
  <2> QED BY <2>1, <2>2, <2>3, <2>4, <2>5, <2>6 DEF WellPlaced
<1> QED BY <1>1, <1>2, <1>3, <1>5

\* The characters of a new word are new.
LEMMA WordIsNew ==
  ASSUME TypeOK, NeedsAreThere, NEW r \in Clients, NEW size \in Nat,
         GetState(r, r) + size <= MaxItems[r]
  PROVE  /\ Word(r, size) \in Seq(Id) /\ Len(Word(r, size)) = size /\ IsInjective(Word(r, size))
         /\ \A i \in 1..size : Word(r, size)[i] = <<r, GetState(r, r) + i>>
         /\ ToSet(Word(r, size)) = {Word(r, size)[i] : i \in 1..size}
         /\ ToSet(Word(r, size)) \subseteq Id
         /\ ToSet(Word(r, size)) \cap DOMAIN items = {}
<1> DEFINE m    == GetState(r, r)
           word == Word(r, size)
<1>1. m \in Nat /\ \A n \in Nat : Has(r, <<r, n>>) <=> 1 <= n /\ n <= m
  BY StateCounts
<1> HIDE DEF m
<1>2. word = [n \in 1..size |-> <<r, m + n>>]
  BY DEF Word, m
<1> HIDE DEF word
<1>3. \A i \in 1..size : word[i] = <<r, m + i>> /\ <<r, m + i>> \in Id
  <2> SUFFICES ASSUME NEW i \in 1..size PROVE word[i] = <<r, m + i>> /\ <<r, m + i>> \in Id
    OBVIOUS
  <2>1. m + i \in 1..MaxItems[r]
    BY <1>1, IdFacts DEF m
  <2> QED BY <2>1, <1>2, IdFacts
<1>4. word \in Seq(Id) /\ Len(word) = size /\ DOMAIN word = 1..size
  BY <1>2, <1>3
<1>5. IsInjective(word)
  <2> SUFFICES ASSUME NEW i \in 1..size, NEW j \in 1..size, word[i] = word[j] PROVE i = j
    BY <1>4 DEF IsInjective
  <2>0. <<r, m + i>> = <<r, m + j>>  BY <1>3
  <2>1. m + i = m + j  BY <2>0
  <2> QED BY <2>1, <1>1
<1>6. ToSet(word) = {word[i] : i \in 1..size}
  BY <1>4 DEF ToSet
<1>7. \A i \in 1..size : word[i] \notin DOMAIN items
  <2> SUFFICES ASSUME NEW i \in 1..size, <<r, m + i>> \in DOMAIN items PROVE FALSE
    BY <1>3
  <2>1. Has(r, <<r, m + i>>)  BY DEF TypeOK
  <2>2. m + i \in Nat /\ ~(m + i <= m)  BY <1>1
  <2> QED BY <2>1, <2>2, <1>1
<1> QED BY <1>3, <1>4, <1>5, <1>6, <1>7 DEF word, m

\* Where a word is typed.
LEMMA TypingPlace ==
  ASSUME TypeOK, NEW r \in Clients, NEW right \in ToSet(list[r]) \cup {NoId}
  PROVE  LET n    == Ahead(list[r], right) - 1
             left == LeftOf(r, right)
         IN  /\ n \in 0..Len(list[r])
             /\ IF n = 0 THEN left = NoId ELSE left \in ToSet(list[r]) /\ At(list[r])[left] = n
             /\ IF right = NoId THEN \A y \in ToSet(list[r]) : At(list[r])[y] <= n
                ELSE right \in ToSet(list[r]) /\ At(list[r])[right] = n + 1
<1> DEFINE seq  == list[r]
           n    == Ahead(seq, right) - 1
           left == LeftOf(r, right)
<1>1. seq \in Seq(Id) /\ IsInjective(seq) /\ Len(seq) \in Nat /\ NoId \notin ToSet(seq)
  BY ListFacts
<1>2. /\ \A x \in ToSet(seq) : At(seq)[x] = Position(seq, x) /\ At(seq)[x] \in 1..Len(seq)
      /\ \A i \in 1..Len(seq) : seq[i] \in ToSet(seq) /\ At(seq)[seq[i]] = i
  BY <1>1, AtProperties
<1>3. left = IF n = 0 THEN NoId ELSE seq[n]
  BY DEF LeftOf
<1> HIDE DEF left, seq
<1>4. right = NoId => n = Len(seq)
  BY <1>1 DEF Ahead
<1>5. right # NoId => right \in ToSet(seq) /\ At(seq)[right] = n + 1 /\ n \in 0..Len(seq)
  <2> SUFFICES ASSUME right # NoId
               PROVE  right \in ToSet(seq) /\ At(seq)[right] = n + 1 /\ n \in 0..Len(seq)
    OBVIOUS
  <2>1. right \in ToSet(seq)  BY DEF seq
  <2>2. Ahead(seq, right) = At(seq)[right]  BY <2>1, <1>2 DEF Ahead
  <2>3. Ahead(seq, right) \in 1..Len(seq)  BY <2>1, <2>2, <1>2
  <2> QED BY <2>1, <2>2, <2>3, <1>1
<1>6. n \in 0..Len(seq)
  BY <1>1, <1>4, <1>5
<1> HIDE DEF n
<1>7. n # 0 => n \in 1..Len(seq)
  BY <1>6, <1>1
<1>8. right = NoId => \A y \in ToSet(seq) : At(seq)[y] <= n
  BY <1>2, <1>4, <1>1
<1>9. IF n = 0 THEN left = NoId ELSE left \in ToSet(seq) /\ At(seq)[left] = n
  BY <1>2, <1>3, <1>7
<1>10. IF right = NoId THEN \A y \in ToSet(seq) : At(seq)[y] <= n
       ELSE right \in ToSet(seq) /\ At(seq)[right] = n + 1
  BY <1>5, <1>8
<1> QED BY <1>6, <1>9, <1>10 DEF n, left, seq

\* The word as it is typed, the rest as it was.
Types(o, word, left, right) ==
  /\ \A id \in DOMAIN items : o[id] = items[id]
  /\ \A id \in ToSet(word) : o[id] = TypedBetween(id, word, left, right)

\* What the editor makes of a list: the word is new in it, the others keep their
\* order, all are well placed, and what stood behind the place is not before what
\* the word was typed before.
TypedInto(new, seq, word, o, left, right) ==
  /\ new \in Seq(DOMAIN items \cup ToSet(word)) /\ IsInjective(new)
  /\ ToSet(new) = ToSet(seq) \cup ToSet(word)
  /\ \A x, y \in ToSet(seq) : At(new)[x] < At(new)[y] <=> At(seq)[x] < At(seq)[y]
  /\ Placing(ToSet(new), At(new), o) /\ WellPlaced(ToSet(new), At(new), o)
  /\ \A b \in ToSet(seq) :
       left = NoId \/ At(seq)[left] < At(seq)[b] => right # NoId /\ At(new)[right] <= At(new)[b]

LEMMA WordTyped ==
  ASSUME TypeOK, NeedsAreThere, EveryListWellPlaced,
         NEW r \in Clients, NEW right \in ToSet(list[r]) \cup {NoId}, NEW size \in Nat,
         GetState(r, r) + size <= MaxItems[r],
         NEW word, word = Word(r, size),
         NEW new, new = Spliced(list[r], Ahead(list[r], right) - 1, word),
         NEW o, Types(o, word, LeftOf(r, right), right)
  PROVE  TypedInto(new, list[r], word, o, LeftOf(r, right), right)
<1> DEFINE seq  == list[r]
           n    == Ahead(seq, right) - 1
           left == LeftOf(r, right)
           m    == GetState(r, r)
           D    == DOMAIN items \cup ToSet(word)
<1>1. /\ seq \in Seq(DOMAIN items) /\ IsInjective(seq) /\ Len(seq) \in Nat
      /\ ToSet(seq) \subseteq DOMAIN items /\ NoId \notin ToSet(seq)
  BY ListFacts
<1>2. Placing(ToSet(seq), At(seq), items) /\ WellPlaced(ToSet(seq), At(seq), items)
  BY ListPlacing DEF EveryListWellPlaced
<1>3. Placing(ToSet(seq), At(seq), o) /\ WellPlaced(ToSet(seq), At(seq), o)
  <2>1. \A x \in ToSet(seq) : o[x] = items[x]  BY <1>1 DEF Types
  <2> HIDE DEF seq
  <2> QED BY <2>1, <1>1, <1>2, SameOrigins
<1>4. /\ n \in 0..Len(seq)
      /\ IF n = 0 THEN left = NoId ELSE left \in ToSet(seq) /\ At(seq)[left] = n
      /\ IF right = NoId THEN \A y \in ToSet(seq) : At(seq)[y] <= n
         ELSE right \in ToSet(seq) /\ At(seq)[right] = n + 1
  BY TypingPlace
<1>5. /\ word \in Seq(Id) /\ Len(word) = size /\ IsInjective(word)
      /\ \A i \in 1..size : word[i] = <<r, m + i>>
      /\ ToSet(word) = {word[i] : i \in 1..size}
      /\ ToSet(word) \cap DOMAIN items = {}
  BY WordIsNew
<1>6. m \in Nat /\ \A k \in Nat : Has(r, <<r, k>>) <=> 1 <= k /\ k <= m
  BY StateCounts
<1>7. new = Spliced(seq, n, word)
  OBVIOUS
<1>8. seq \in Seq(D) /\ word \in Seq(D)
  <2>1. seq \in Seq(D)  BY <1>1
  <2>2. \A i \in 1..Len(word) : word[i] \in D  BY <1>5
  <2>3. word \in Seq(D)  BY <2>2, <1>5
  <2> QED BY <2>1, <2>3
<1>9. \A y \in ToSet(seq) : y[1] = r => y[2] <= m
  <2> SUFFICES ASSUME NEW y \in ToSet(seq), y[1] = r PROVE y[2] <= m
    OBVIOUS
  <2>1. y \in Id  BY ListFacts
  <2>2. y = <<r, y[2]>> /\ y[2] \in Nat  BY <2>1, IdFacts
  <2> QED BY <2>2, <1>6 DEF Has
<1> HIDE DEF seq, n, left, m, D
<1>10. /\ new \in Seq(D) /\ IsInjective(new)
       /\ ToSet(new) = ToSet(seq) \cup ToSet(word)
       /\ \A x \in ToSet(seq) :
            Position(new, x) = IF Position(seq, x) <= n THEN Position(seq, x)
                               ELSE Position(seq, x) + Len(word)
       /\ \A i \in 1..Len(word) : Position(new, word[i]) = n + i
  <2>1. ToSet(word) \cap ToSet(seq) = {}  BY <1>1, <1>5
  <2>2. IsInjective(seq) /\ n \in 0..Len(seq) /\ IsInjective(word)  BY <1>1, <1>4, <1>5
  <2>3. /\ Spliced(seq, n, word) \in Seq(D) /\ IsInjective(Spliced(seq, n, word))
        /\ ToSet(Spliced(seq, n, word)) = ToSet(seq) \cup ToSet(word)
        /\ \A x \in ToSet(seq) :
             Position(Spliced(seq, n, word), x) =
               IF Position(seq, x) <= n THEN Position(seq, x) ELSE Position(seq, x) + Len(word)
        /\ \A i \in 1..Len(word) : Position(Spliced(seq, n, word), word[i]) = n + i
    BY ONLY <1>8, <2>1, <2>2, SplicedPositions
  <2> QED BY <1>7, <2>3
<1>11. /\ \A x \in ToSet(seq) : At(seq)[x] = Position(seq, x)
       /\ \A x \in ToSet(new) : At(new)[x] = Position(new, x)
  BY DEF At
<1>12. Shifted(ToSet(seq), At(seq), At(new), n, size)
  BY <1>5, <1>10, <1>11 DEF Shifted
<1>13. \A i \in 1..size : /\ word[i] = <<r, m + i>> /\ word[i] \notin ToSet(seq)
                          /\ At(new)[word[i]] = n + i
                          /\ o[word[i]].origin = IF i = 1 THEN left ELSE word[i - 1]
                          /\ o[word[i]].rightOrigin = right
  <2> SUFFICES ASSUME NEW i \in 1..size
               PROVE  /\ word[i] = <<r, m + i>> /\ word[i] \notin ToSet(seq)
                      /\ At(new)[word[i]] = n + i
                      /\ o[word[i]].origin = IF i = 1 THEN left ELSE word[i - 1]
                      /\ o[word[i]].rightOrigin = right
    OBVIOUS
  <2>1. word[i] \in ToSet(word) /\ word[i] = <<r, m + i>>  BY <1>5
  <2>2. word[i] \notin ToSet(seq)  BY <2>1, <1>1, <1>5
  <2>3. At(new)[word[i]] = n + i  BY <2>1, <1>5, <1>10, <1>11
  <2>4. o[word[i]] = TypedBetween(word[i], word, left, right)  BY <2>1 DEF left, Types
  <2>5. o[word[i]].rightOrigin = right  BY <2>4 DEF TypedBetween
  <2>6. word[1] = <<r, m + 1>>  BY <1>5
  <2>7. CASE i = 1  BY <2>4, <2>7, <2>1, <2>2, <2>3 DEF TypedBetween
  <2>8. CASE i # 1
    <3>1. i - 1 \in 1..size  BY <2>8
    <3>2. word[i - 1] = <<r, m + (i - 1)>>  BY <3>1, <1>5
    <3>3. m + i # m + 1 /\ (m + i) - 1 = m + (i - 1)  BY <2>8, <1>6
    <3>4. word[i] # word[1]  BY <2>1, <2>6, <3>3
    <3>5. o[word[i]].origin = <<r, (m + i) - 1>>  BY <2>1, <2>4, <3>4 DEF TypedBetween
    <3> QED BY <3>2, <3>3, <3>5, <2>1, <2>2, <2>3, <2>5, <2>8
  <2> QED BY <2>1, <2>2, <2>3, <2>5, <2>7, <2>8
<1>14. n \in Nat /\ r \in Nat
  BY <1>4, <1>1, IdFacts
<1>15. Placing(ToSet(new), At(new), o) /\ WellPlaced(ToSet(new), At(new), o)
  <2>1. /\ Placing(ToSet(seq) \cup {word[i] : i \in 1..size}, At(new), o)
        /\ WellPlaced(ToSet(seq) \cup {word[i] : i \in 1..size}, At(new), o)
    <3>1. NoId \notin ToSet(seq) /\ n \in Nat /\ r \in Nat /\ m \in Nat /\ size \in Nat
      BY <1>1, <1>6, <1>14
    <3>2. TypedAt(ToSet(seq), At(seq), At(new), o, n, size, word, left, right, r, m)
      BY <3>1, <1>4, <1>9, <1>12, <1>13 DEF TypedAt
    <3> QED BY ONLY <3>1, <3>2, <1>3, WordPlaced
  <2> QED BY <2>1, <1>5, <1>10
<1>16. \A x, y \in ToSet(seq) : At(new)[x] < At(new)[y] <=> At(seq)[x] < At(seq)[y]
  BY <1>2, <1>12, <1>14, ShiftKeeps
<1>17. ASSUME NEW b \in ToSet(seq), left = NoId \/ At(seq)[left] < At(seq)[b]
       PROVE  right # NoId /\ At(new)[right] <= At(new)[b]
  <2>1. \A y \in ToSet(seq) : At(seq)[y] \in Nat \ {0}  BY <1>2 DEF Placing
  <2>2. n < At(seq)[b]
    <3>1. CASE left = NoId
      <4>1. n = 0  BY <3>1, <1>1, <1>4
      <4> QED BY <4>1, <2>1
    <3>2. CASE left # NoId
      <4>1. At(seq)[left] = n  BY <3>2, <1>4
      <4> QED BY <4>1, <3>2, <1>17
    <3> QED BY <3>1, <3>2
  <2>3. right # NoId  BY <2>1, <2>2, <1>4, <1>14
  <2>4. right \in ToSet(seq) /\ At(seq)[right] = n + 1  BY <2>3, <1>4
  <2>5. ~(At(seq)[b] < At(seq)[right])  BY <2>1, <2>2, <2>4, <1>14
  <2>6. ~(At(new)[b] < At(new)[right])  BY <2>4, <2>5, <1>16
  <2>7. At(new)[b] \in Nat /\ At(new)[right] \in Nat
    BY <2>4, <1>10, <1>15 DEF Placing
  <2> QED BY <2>3, <2>6, <2>7
<1> QED BY <1>10, <1>15, <1>16, <1>17 DEF seq, left, D, TypedInto

-----------------------------------------------------------------------------
(* Reading keeps the invariant.                                            *)

\* What is said of the lists alone.
LEMMA ListsStay ==
  ASSUME Inductive, UNCHANGED <<items, updates, list>>
  PROVE  /\ NeedsAreThere' /\ NeedsAreOlder' /\ OwnNeighboursAreOlder'
         /\ EveryListWellPlaced' /\ SameOrder' /\ TypedOutsideWords'
<1>1. NeedsAreThere'
  BY DEF Inductive, NeedsAreThere, Needs
<1>2. NeedsAreOlder'
  BY DEF Inductive, NeedsAreOlder, Needs
<1>3. OwnNeighboursAreOlder'
  BY DEF Inductive, OwnNeighboursAreOlder
<1>4. EveryListWellPlaced'
  BY DEF Inductive, EveryListWellPlaced
<1>5. SameOrder'
  BY DEF Inductive, SameOrder
<1>6. TypedOutsideWords'
  BY DEF Inductive, TypedOutsideWords, Next2, Has
<1> QED BY <1>1, <1>2, <1>3, <1>4, <1>5, <1>6

LEMMA ReadKeeps ==
  ASSUME Inductive, NEW r \in Clients, NEW structs, NEW deletes, NEW from \in SUBSET updates,
         structs = UNION {u.items : u \in from}, deletes = UNION {u.deletes : u \in from},
         Read(r, structs, deletes, from)
  PROVE  Inductive'
<1>1. /\ TypeOK /\ WellTyped /\ Accounted /\ Awaited /\ WordsAreWhole
  BY DEF Inductive, WellTyped
<1>2. /\ reading = Nobody /\ reading' = r /\ arriving' = structs \ ToSet(list[r])
      /\ pendingDs' = [pendingDs EXCEPT ![r] = @ \cup deletes]
      /\ held' = [held EXCEPT ![r] = @ \cup from]
      /\ UNCHANGED <<items, updates, list, deleted, pendingStructs, missing>>
  BY DEF Read
<1>3. /\ held \in [Clients -> SUBSET updates] /\ pendingDs \in [Clients -> SUBSET DOMAIN items]
      /\ \A u \in updates : u.items \subseteq DOMAIN items /\ u.deletes \subseteq DOMAIN items
      /\ Nobody \notin Clients
  BY <1>1, ClientAssumption DEF TypeOK, WellTyped
<1>4. structs \subseteq DOMAIN items /\ deletes \subseteq DOMAIN items
  BY <1>3
<1>5. /\ held' \in [Clients -> SUBSET updates] /\ pendingDs' \in [Clients -> SUBSET DOMAIN items]
      /\ held'[r] = held[r] \cup from /\ pendingDs'[r] = pendingDs[r] \cup deletes
      /\ \A s \in Clients : s # r => held'[s] = held[s] /\ pendingDs'[s] = pendingDs[s]
  BY <1>2, <1>3, <1>4
<1>6. \A s \in Clients : ArrivingAt(s) = {} /\ ArrivingAt(s)' = IF s = r THEN arriving' ELSE {}
  BY <1>2, <1>3 DEF ArrivingAt
<1>7. WellTyped'
  <2>1. TypeOK'
    BY <1>1, <1>2, <1>4, <1>5 DEF TypeOK, Has
  <2>2. reading' # Nobody
    BY <1>2, <1>3
  <2> QED BY <2>1, <2>2, <1>2, <1>3 DEF WellTyped
<1>8. ArrivingIsNew'
  BY <1>2 DEF ArrivingIsNew
<1>9. Accounted'
  <2> SUFFICES ASSUME NEW s \in Clients
               PROVE  /\ ToSet(list[s]) \cup pendingStructs[s] \cup ArrivingAt(s)'
                           = UNION {u.items : u \in held'[s]}
                      /\ deleted[s] \cup pendingDs'[s] = UNION {u.deletes : u \in held'[s]}
                      /\ reading' # s => pendingDs'[s] \cap ToSet(list[s]) = {}
    BY <1>2 DEF Accounted, Idle
  <2>1. /\ ToSet(list[s]) \cup pendingStructs[s] = UNION {u.items : u \in held[s]}
        /\ deleted[s] \cup pendingDs[s] = UNION {u.deletes : u \in held[s]}
        /\ pendingDs[s] \cap ToSet(list[s]) = {}
    BY <1>1, <1>2, <1>3, <1>6 DEF Accounted, Idle
  <2>2. CASE s # r
    BY <2>1, <2>2, <1>5, <1>6
  <2>3. CASE s = r
    <3>1. UNION {u.items : u \in held[r] \cup from}
            = (UNION {u.items : u \in held[r]}) \cup (UNION {u.items : u \in from})
      OBVIOUS
    <3>2. UNION {u.deletes : u \in held[r] \cup from}
            = (UNION {u.deletes : u \in held[r]}) \cup (UNION {u.deletes : u \in from})
      OBVIOUS
    <3>3. ToSet(list[r]) \cup pendingStructs[r] \cup (structs \ ToSet(list[r]))
            = (ToSet(list[r]) \cup pendingStructs[r]) \cup structs
      OBVIOUS
    <3>4. deleted[r] \cup (pendingDs[r] \cup deletes) = (deleted[r] \cup pendingDs[r]) \cup deletes
      OBVIOUS
    <3>5. ToSet(list[r]) \cup pendingStructs[r] \cup ArrivingAt(r)' = UNION {u.items : u \in held'[r]}
      BY <2>1, <2>3, <3>1, <3>3, <1>2, <1>5, <1>6
    <3>6. deleted[r] \cup pendingDs'[r] = UNION {u.deletes : u \in held'[r]}
      BY <2>1, <2>3, <3>2, <3>4, <1>5
    <3> QED BY <2>3, <3>5, <3>6, <1>2
  <2> QED BY <2>2, <2>3
<1>10. Awaited'
  BY <1>1, <1>2, <1>3 DEF Awaited, Arrived, Idle, Has
<1>11. WordsAreWhole'
  <2> SUFFICES ASSUME NEW a \in DOMAIN items, NEW b \in DOMAIN items, Next2(a, b), NEW s \in Clients,
                      a \in ToSet(list[s]) \cup ArrivingAt(s)'
               PROVE  b \in ToSet(list[s]) \cup ArrivingAt(s)'
    BY <1>1, <1>2 DEF WordsAreWhole, Next2
  <2>1. /\ \A u \in updates : a \in u.items => b \in u.items
        /\ a \in ToSet(list[s]) => b \in ToSet(list[s])
    BY <1>1, <1>6 DEF WordsAreWhole
  <2>2. a \in structs => b \in structs
    BY <2>1
  <2> QED BY <2>1, <2>2, <1>2, <1>6
<1>12. UNCHANGED <<items, updates, list>>
  BY <1>2
<1> QED BY <1>7, <1>8, <1>9, <1>10, <1>11, <1>12, ListsStay DEF Inductive

\* An update, or the answer of another replica.
LEMMA ReceiveKeeps ==
  ASSUME Inductive, NEW r \in Clients, ReceiveUpdate(r) \/ ReceiveAnswer(r)
  PROVE  Inductive'
<1>1. CASE ReceiveUpdate(r)
  <2>1. PICK u \in updates : Read(r, u.items, u.deletes, {u})
    BY <1>1 DEF ReceiveUpdate
  <2>2. UNION {v.items : v \in {u}} = u.items /\ UNION {v.deletes : v \in {u}} = u.deletes
    OBVIOUS
  <2> QED BY <2>1, <2>2, ReadKeeps
<1>2. CASE ReceiveAnswer(r)
  <2>1. PICK s \in Clients \ {r} :
          Read(r, ToSet(list[s]) \cup pendingStructs[s], deleted[s] \cup pendingDs[s], held[s])
    BY <1>2 DEF ReceiveAnswer
  <2>2. held[s] \in SUBSET updates
    BY DEF Inductive, WellTyped, TypeOK
  <2>3. reading = Nobody /\ s # Nobody
    BY <2>1, ClientAssumption DEF Read
  <2>4. /\ ToSet(list[s]) \cup pendingStructs[s] = UNION {u.items : u \in held[s]}
        /\ deleted[s] \cup pendingDs[s] = UNION {u.deletes : u \in held[s]}
    BY <2>3 DEF Inductive, Accounted, ArrivingAt
  <2> QED BY <2>1, <2>2, <2>4, ReadKeeps
<1> QED BY <1>1, <1>2

\* What is left of a reading waits for something that is not there: of the clients
\* that have an item left, one waits for a client that has not, or for its own.
LEMMA SomethingIsMissing ==
  ASSUME Inductive, NEW r \in Clients, NEW rest \in SUBSET DOMAIN items,
         rest \cap ToSet(list[r]) = {}, \A id \in rest : WaitsFor(r, id) # NoId, rest # {}
  PROVE  MissingOf(r, rest) # {}
<1>1. TypeOK /\ NeedsAreThere /\ NeedsAreOlder /\ OwnNeighboursAreOlder
  BY DEF Inductive, WellTyped
<1> DEFINE T == {x \in DOMAIN items : ~Has(r, x) /\ \E j \in rest : j[1] = x[1]}
<1>2. T \in SUBSET DOMAIN items /\ T # {}
  BY DEF Has
<1>3. PICK x \in T : Needs(x) \cap T = {}
  <2> HIDE DEF T
  <2> QED BY <1>1, <1>2 DEF NeedsAreOlder
<1> DEFINE c == x[1]
           m == GetState(r, c)
<1>4. /\ x \in DOMAIN items /\ x \in Id /\ x = <<c, x[2]>> /\ c \in Clients /\ x[2] \in Nat /\ x[2] > 0
      /\ ~Has(r, x)
  BY <1>1, <1>3, IdFacts DEF TypeOK
<1>5. m \in Nat /\ \A n \in Nat : Has(r, <<c, n>>) <=> 1 <= n /\ n <= m
  BY <1>1, <1>4, StateCounts
<1> HIDE DEF m
\* x is the first item of its client that is not in the list.
<1>6. x[2] = m + 1
  <2>1. ~(x[2] <= m)  BY <1>4, <1>5
  <2>2. CASE x[2] = 1  BY <2>1, <2>2, <1>5
  <2>3. CASE x[2] # 1
    <3>1. x[2] > 1 /\ x[2] - 1 \in Nat  BY <2>3, <1>4
    <3>2. <<c, x[2] - 1>> \in Needs(x)  BY <3>1, NeighboursAreNeeded
    <3>3. <<c, x[2] - 1>> \in DOMAIN items  BY <3>2, <1>1, <1>4, NeedsAreItems
    <3>4. Has(r, <<c, x[2] - 1>>)  BY <1>3, <3>2, <3>3
    <3>5. x[2] - 1 <= m  BY <3>1, <3>4, <1>5
    <3> QED BY <3>1, <3>5, <2>1, <1>5, <1>4
  <2> QED BY <2>2, <2>3
\* The first item of its client that is left.
<1> DEFINE K == {j[2] : j \in {j \in rest : j[1] = c}}
<1>7. \A j \in rest : j \in Id /\ j = <<j[1], j[2]>> /\ j[2] \in Nat /\ j[2] > 0 /\ ~Has(r, j)
  BY <1>1, IdFacts DEF TypeOK, Has
<1>8. K \in SUBSET Nat /\ K # {}
  BY <1>3, <1>7
<1>9. PICK k \in K : \A n \in K : k <= n
  <2> HIDE DEF K
  <2> QED BY <1>8, LeastOf
<1>10. PICK i \in rest : i[1] = c /\ i[2] = k
  BY <1>9
<1>11. \A j \in rest : j[1] = i[1] => j[2] >= i[2]
  BY <1>7, <1>8, <1>9, <1>10
<1>12. i = <<c, i[2]>> /\ i[2] \in Nat /\ ~(i[2] <= m)
  BY <1>5, <1>7, <1>10
\* What i waits for is of its own client or of one that has nothing left.
<1>13. WaitsFor(r, i)[1] = i[1] \/ \A j \in rest : j[1] # WaitsFor(r, i)[1]
  <2>1. CASE i[2] > m + 1
    <3>1. WaitsFor(r, i) = <<i[1], i[2] - 1>>  BY <2>1, <1>5, <1>10, <1>12 DEF WaitsFor, m
    <3> QED BY <3>1
  <2>2. CASE i[2] <= m + 1
    <3>1. i = x  BY <2>2, <1>4, <1>5, <1>6, <1>12
    <3> DEFINE Lacks(o) == o # NoId /\ o[1] # c /\ ~Has(r, o)
    <3>2. ASSUME NEW o \in {items[x].origin, items[x].rightOrigin}, Lacks(o)
          PROVE  \A j \in rest : j[1] # o[1]
      <4>1. o \in Needs(x)  BY <3>2, NeighboursAreNeeded
      <4>2. o \in DOMAIN items  BY <4>1, <1>1, <1>4, NeedsAreItems
      <4>3. o \notin T  BY <4>1, <1>3
      <4> QED BY <3>2, <4>2, <4>3
    <3>3. WaitsFor(r, x) # NoId  BY <3>1
    <3>4. x[2] <= m + 1 /\ ~(x[2] > m + 1)  BY <1>5, <1>6
    <3>5. Lacks(items[x].origin) \/ Lacks(items[x].rightOrigin)
      BY <3>3, <3>4 DEF WaitsFor, m
    <3>6. CASE Lacks(items[x].origin)
      <4>1. WaitsFor(r, x)[1] = items[x].origin[1]  BY <3>4, <3>6 DEF WaitsFor, m
      <4> QED BY <4>1, <3>1, <3>2, <3>6
    <3>7. CASE ~Lacks(items[x].origin) /\ Lacks(items[x].rightOrigin)
      <4>1. WaitsFor(r, x)[1] = items[x].rightOrigin[1]  BY <3>4, <3>7 DEF WaitsFor, m
      <4> QED BY <4>1, <3>1, <3>2, <3>7
    <3> QED BY <3>5, <3>6, <3>7
  <2> QED BY <2>1, <2>2, <1>5, <1>12
<1>14. WaitsFor(r, i) \in MissingOf(r, rest)
  BY <1>11, <1>13 DEF MissingOf
<1> QED BY <1>14

LEMMA FinishKeeps ==
  ASSUME Inductive, NEW r \in Clients, FinishReading(r)
  PROVE  Inductive'
<1> DEFINE rest == arriving
           S    == ToSet(list[r])
<1>1. /\ TypeOK /\ WellTyped /\ Accounted /\ Awaited /\ WordsAreWhole /\ NeedsAreThere
      /\ OwnNeighboursAreOlder /\ ArrivingIsNew
  BY DEF Inductive, WellTyped
<1>2. /\ reading = r /\ \A id \in arriving : WaitsFor(r, id) # NoId
      /\ deleted' = Deletions(r) /\ pendingDs' = Undeleted(r)
      /\ UNCHANGED <<items, updates, held, list>>
  BY DEF FinishReading
<1>3. Arrived(r) => /\ arriving' = (pendingStructs[r] \cup rest) \ S
                    /\ pendingStructs' = [pendingStructs EXCEPT ![r] = {}]
                    /\ missing' = [missing EXCEPT ![r] = {}]
                    /\ reading' = reading
  BY DEF FinishReading
<1>4. ~Arrived(r) => /\ arriving' = {} /\ reading' = Nobody
                     /\ pendingStructs' = [pendingStructs EXCEPT ![r] = @ \cup rest]
                     /\ missing' = [missing EXCEPT ![r] = @ \cup MissingOf(r, rest)]
  BY DEF FinishReading
<1>5. /\ deleted \in [Clients -> SUBSET DOMAIN items] /\ pendingDs \in [Clients -> SUBSET DOMAIN items]
      /\ pendingStructs \in [Clients -> SUBSET DOMAIN items] /\ missing \in [Clients -> SUBSET Id]
      /\ rest \in SUBSET DOMAIN items /\ Nobody \notin Clients /\ S \subseteq DOMAIN items
      /\ rest \cap S = {}
  BY <1>1, <1>2, ClientAssumption, ListFacts DEF TypeOK, ArrivingIsNew
<1>6. \A id \in rest : /\ ~(Needs(id) \subseteq S)
                       /\ WaitsFor(r, id) \in Id /\ ~Has(r, WaitsFor(r, id)) /\ WaitsFor(r, id)[1] # r
  <2> SUFFICES ASSUME NEW id \in rest
               PROVE  /\ ~(Needs(id) \subseteq S)
                      /\ WaitsFor(r, id) \in Id /\ ~Has(r, WaitsFor(r, id)) /\ WaitsFor(r, id)[1] # r
    OBVIOUS
  <2>1. id \in DOMAIN items /\ ~Has(r, id) /\ WaitsFor(r, id) # NoId
    BY <1>2, <1>5 DEF Has
  <2> QED BY <2>1, <1>1, WaitsForNeeds
<1>7. \A id \in MissingOf(r, rest) : id \in Id /\ ~Has(r, id) /\ id[1] # r
  BY <1>6 DEF MissingOf
<1>8. /\ deleted' \in [Clients -> SUBSET DOMAIN items] /\ pendingDs' \in [Clients -> SUBSET DOMAIN items]
      /\ deleted'[r] = deleted[r] \cup (pendingDs[r] \cap S) /\ pendingDs'[r] = pendingDs[r] \ S
      /\ \A s \in Clients : s # r => deleted'[s] = deleted[s] /\ pendingDs'[s] = pendingDs[s]
  BY <1>2, <1>5 DEF Deletions, Undeleted
<1>9. /\ pendingStructs' \in [Clients -> SUBSET DOMAIN items] /\ missing' \in [Clients -> SUBSET Id]
      /\ \A s \in Clients : s # r => pendingStructs'[s] = pendingStructs[s] /\ missing'[s] = missing[s]
      /\ arriving' \subseteq DOMAIN items /\ arriving' \cap S = {}
      /\ reading' \in {r, Nobody} /\ (reading' = Nobody => arriving' = {})
  <2>1. CASE Arrived(r)
    BY <2>1, <1>2, <1>3, <1>5
  <2>2. CASE ~Arrived(r)
    <3>1. MissingOf(r, rest) \subseteq Id  BY <1>7
    <3> HIDE DEF rest
    <3> QED BY <2>2, <3>1, <1>4, <1>5
  <2> QED BY <2>1, <2>2
<1>10. WellTyped'
  <2>1. TypeOK'
    BY <1>1, <1>2, <1>8, <1>9, ListFacts DEF TypeOK, Has
  <2> QED BY <2>1, <1>1, <1>2, <1>9 DEF WellTyped
<1>11. ArrivingIsNew'
  BY <1>2, <1>9 DEF ArrivingIsNew
<1>12. \A s \in Clients : s # r => ArrivingAt(s) = {} /\ ArrivingAt(s)' = {}
  BY <1>2, <1>9 DEF ArrivingAt
<1>13. ArrivingAt(r) = rest /\ ArrivingAt(r)' = arriving'
  BY <1>2, <1>9 DEF ArrivingAt
\* What arrived and is not in the list is pending, or is read again.
<1>14. /\ S \cup pendingStructs'[r] \cup arriving' = S \cup pendingStructs[r] \cup rest
       /\ \/ pendingStructs'[r] = {} /\ missing'[r] = {} /\ reading' = r
             /\ arriving' = (pendingStructs[r] \cup rest) \ S
          \/ pendingStructs'[r] = pendingStructs[r] \cup rest /\ arriving' = {} /\ ~Arrived(r)
             /\ missing'[r] = missing[r] \cup MissingOf(r, rest)
  <2> HIDE DEF S, rest
  <2>1. CASE Arrived(r)
    <3>1. pendingStructs'[r] = {} /\ missing'[r] = {} /\ reading' = r
          /\ arriving' = (pendingStructs[r] \cup rest) \ S
      BY <2>1, <1>2, <1>3, <1>5
    <3> QED BY <3>1
  <2>2. CASE ~Arrived(r)
    <3>1. pendingStructs'[r] = pendingStructs[r] \cup rest /\ arriving' = {}
          /\ missing'[r] = missing[r] \cup MissingOf(r, rest)
      BY <2>2, <1>4, <1>5
    <3> QED BY <3>1, <2>2
  <2> QED BY <2>1, <2>2
<1> HIDE DEF S, rest
<1>15. Accounted'
  <2> SUFFICES ASSUME NEW s \in Clients
               PROVE  /\ ToSet(list[s]) \cup pendingStructs'[s] \cup ArrivingAt(s)'
                           = UNION {u.items : u \in held[s]}
                      /\ deleted'[s] \cup pendingDs'[s] = UNION {u.deletes : u \in held[s]}
                      /\ reading' # s => pendingDs'[s] \cap ToSet(list[s]) = {}
    BY <1>2 DEF Accounted, Idle
  <2>1. /\ ToSet(list[s]) \cup pendingStructs[s] \cup ArrivingAt(s) = UNION {u.items : u \in held[s]}
        /\ deleted[s] \cup pendingDs[s] = UNION {u.deletes : u \in held[s]}
        /\ s # r => pendingDs[s] \cap ToSet(list[s]) = {}
    BY <1>1, <1>2 DEF Accounted, Idle
  <2>2. CASE s # r
    BY <2>1, <2>2, <1>8, <1>9, <1>12
  <2>3. CASE s = r
    <3>1. deleted'[r] \cup pendingDs'[r] = deleted[r] \cup pendingDs[r] /\ pendingDs'[r] \cap S = {}
      BY <1>8
    <3>2. S \cup pendingStructs'[r] \cup ArrivingAt(r)' = S \cup pendingStructs[r] \cup ArrivingAt(r)
      BY <1>13, <1>14
    <3> QED BY <2>1, <2>3, <3>1, <3>2 DEF S
  <2> QED BY <2>2, <2>3
<1>16. Awaited'
  <2> SUFFICES ASSUME NEW s \in Clients
               PROVE  /\ pendingStructs'[s] # {} => missing'[s] # {}
                      /\ \A id \in missing'[s] : id[1] # s
                      /\ reading' # s => \A id \in missing'[s] : ~Has(s, id)
    BY <1>2 DEF Awaited, Idle, Arrived, Has
  <2>1. /\ pendingStructs[s] # {} => missing[s] # {}
        /\ \A id \in missing[s] : id[1] # s
        /\ s # r => \A id \in missing[s] : ~Has(s, id)
    BY <1>1, <1>2 DEF Awaited, Idle, Arrived
  <2>2. CASE s # r
    BY <2>1, <2>2, <1>9
  <2>4. CASE s = r /\ missing'[r] # {}
    <3>1. /\ pendingStructs'[r] = pendingStructs[r] \cup rest /\ ~Arrived(r)
          /\ missing'[r] = missing[r] \cup MissingOf(r, rest)
      BY <2>4, <1>14
    <3> QED BY <2>1, <2>4, <3>1, <1>7 DEF Arrived
  <2>5. CASE s = r /\ missing'[r] = {} /\ pendingStructs'[r] # {}
    <3>1. /\ pendingStructs'[r] = pendingStructs[r] \cup rest
          /\ missing'[r] = missing[r] \cup MissingOf(r, rest)
      BY <2>5, <1>14
    <3>2. rest # {}  BY <2>1, <2>5, <3>1
    <3>3. MissingOf(r, rest) # {}  BY <3>2, <1>2, <1>5, SomethingIsMissing DEF rest, S
    <3> QED BY <3>1, <3>3, <2>5
  <2>6. CASE s = r /\ missing'[r] = {} /\ pendingStructs'[r] = {}
    BY <2>6
  <2> QED BY <2>2, <2>4, <2>5, <2>6
<1>17. WordsAreWhole'
  <2> SUFFICES ASSUME NEW a \in DOMAIN items, NEW b \in DOMAIN items, Next2(a, b), NEW s \in Clients
               PROVE  /\ a \in ToSet(list[s]) \cup ArrivingAt(s)' => b \in ToSet(list[s]) \cup ArrivingAt(s)'
                      /\ a \in pendingStructs'[s] => b \in pendingStructs'[s] \cup ToSet(list[s])
    BY <1>1, <1>2 DEF WordsAreWhole, Next2
  <2>1. /\ a \in ToSet(list[s]) \cup ArrivingAt(s) => b \in ToSet(list[s]) \cup ArrivingAt(s)
        /\ a \in pendingStructs[s] => b \in pendingStructs[s] \cup ToSet(list[s])
        /\ items[b].origin = a /\ items[b].rightOrigin = items[a].rightOrigin
    BY <1>1 DEF WordsAreWhole
  <2>2. CASE s # r
    BY <2>1, <2>2, <1>9, <1>12
  <2>3. CASE s = r
    \* Had the first of the two been integrated, the second would wait for nothing.
    <3>1. ASSUME a \in S, b \in rest PROVE FALSE
      <4>1. Needs(a) \subseteq S  BY <3>1, <1>1 DEF NeedsAreThere, S
      <4>2. <<b[1], b[2] - 1>> = a
        <5>1. b = <<a[1], a[2] + 1>>  BY DEF Next2
        <5>2. a = <<a[1], a[2]>> /\ a[2] \in Nat  BY <1>1, IdFacts DEF TypeOK
        <5>3. b[1] = a[1] /\ b[2] - 1 = a[2]  BY <5>1, <5>2
        <5> QED BY <5>2, <5>3
      <4>3. items[a].rightOrigin \in Needs(a) \cup {NoId}  BY NeighboursAreNeeded
      <4>4. Needs(b) \subseteq S  BY <2>1, <3>1, <4>1, <4>2, <4>3 DEF Needs
      <4> QED BY <3>1, <4>4, <1>6
    <3> QED BY <2>1, <2>3, <3>1, <1>13, <1>14 DEF S
  <2> QED BY <2>2, <2>3
<1>18. UNCHANGED <<items, updates, list>>
  BY <1>2
<1> QED BY <1>10, <1>11, <1>15, <1>16, <1>17, <1>18, ListsStay DEF Inductive

\* IntegrateItem takes an item that waits for nothing.
LEMMA IntegrateKeeps ==
  ASSUME Inductive, NEW r \in Clients, IntegrateItem(r)
  PROVE  Inductive'
<1>1. /\ TypeOK /\ WellTyped /\ Accounted /\ Awaited /\ WordsAreWhole /\ NeedsAreThere
      /\ OwnNeighboursAreOlder /\ ArrivingIsNew /\ EveryListWellPlaced /\ SameOrder
      /\ NeedsAreOlder /\ TypedOutsideWords
  BY DEF Inductive, WellTyped
<1>2. PICK id \in arriving : /\ WaitsFor(r, id) = NoId
                             /\ list' = [list EXCEPT ![r] = Integrated(@, id, items)]
                             /\ arriving' = arriving \ {id}
  BY DEF IntegrateItem
<1>3. reading = r /\ UNCHANGED <<items, updates, held, deleted, pending, reading>>
  BY DEF IntegrateItem
<1> DEFINE new == list'[r]
           S   == ToSet(list[r])
<1>4. list \in [Clients -> Seq(DOMAIN items)] /\ arriving \subseteq DOMAIN items
  BY <1>1 DEF TypeOK
<1>5. new = Integrated(list[r], id, items) /\ \A s \in Clients : s # r => list'[s] = list[s]
  BY <1>2, <1>4
<1>6. id \in DOMAIN items /\ ~Has(r, id) /\ Needs(id) \subseteq S
  <2>1. id \in DOMAIN items /\ ~Has(r, id)
    BY <1>1, <1>2, <1>3, <1>4, ClientAssumption DEF ArrivingIsNew, Has
  <2> QED BY <2>1, <1>1, <1>2, WaitsForNeeds
<1>7. /\ new \in Seq(DOMAIN items) /\ IsInjective(new)
      /\ ToSet(new) = S \cup {id}
      /\ \A x, y \in S : At(new)[x] < At(new)[y] <=> At(list[r])[x] < At(list[r])[y]
      /\ Placing(ToSet(new), At(new), items) /\ WellPlaced(ToSet(new), At(new), items)
  <2> HIDE DEF new
  <2> QED BY <1>1, <1>5, <1>6, ItemIntegrated
<1> HIDE DEF new, S
<1>8. \A s \in Clients : s # r => list'[s] = list[s] /\ ToSet(list'[s]) = ToSet(list[s])
  BY <1>5
<1>9. list'[r] = new /\ ToSet(list'[r]) = S \cup {id} /\ ToSet(list[r]) = S
  BY <1>7 DEF new, S
<1>10. S \subseteq DOMAIN items
  BY <1>1, <1>9, ListFacts
<1>11. list' \in [Clients -> Seq(DOMAIN items)]
  BY <1>2, <1>4, <1>7, <1>9
<1>12. TypeOK'
  <2>1. ASSUME NEW s \in Clients
        PROVE  /\ IsInjective(list'[s]) /\ deleted[s] \subseteq ToSet(list'[s])
               /\ \A i \in DOMAIN items : i[1] = s => i \in ToSet(list'[s])
    <3>1. /\ IsInjective(list[s]) /\ deleted[s] \subseteq ToSet(list[s])
          /\ \A i \in DOMAIN items : i[1] = s => i \in ToSet(list[s])
      BY <1>1 DEF TypeOK, Has
    <3>2. CASE s = r  BY <3>1, <3>2, <1>7, <1>9
    <3>3. CASE s # r  BY <3>1, <3>3, <1>8
    <3> QED BY <3>2, <3>3
  <2>2. arriving' \subseteq DOMAIN items  BY <1>2, <1>4
  <2> QED BY <2>1, <2>2, <1>1, <1>3, <1>11 DEF TypeOK, Has, pending
<1>13. WellTyped'
  BY <1>1, <1>2, <1>3, <1>12, ClientAssumption DEF WellTyped
<1>14. ArrivingIsNew'
  <2>1. arriving \cap S = {}  BY <1>1, <1>3, <1>9, ClientAssumption DEF ArrivingIsNew
  <2>2. arriving' \cap ToSet(list'[r]) = {}  BY <2>1, <1>2, <1>9
  <2> QED BY <2>2, <1>3 DEF ArrivingIsNew
<1>15. NeedsAreThere'
  <2> SUFFICES ASSUME NEW s \in Clients, NEW x \in ToSet(list'[s]) PROVE Needs(x) \subseteq ToSet(list'[s])
    BY <1>3 DEF NeedsAreThere, Needs
  <2>1. \A y \in ToSet(list[s]) : Needs(y) \subseteq ToSet(list[s])  BY <1>1 DEF NeedsAreThere
  <2>2. CASE s = r  BY <2>1, <2>2, <1>6, <1>9
  <2>3. CASE s # r  BY <2>1, <2>3, <1>8
  <2> QED BY <2>2, <2>3
<1>16. NeedsAreOlder' /\ OwnNeighboursAreOlder'
  BY <1>1, <1>3 DEF NeedsAreOlder, OwnNeighboursAreOlder, Needs
<1>17. EveryListWellPlaced'
  <2> SUFFICES ASSUME NEW s \in Clients PROVE WellPlaced(ToSet(list'[s]), At(list'[s]), items)
    BY <1>3 DEF EveryListWellPlaced
  <2>1. CASE s = r  BY <2>1, <1>7, <1>9
  <2>2. CASE s # r  BY <2>2, <1>1, <1>8 DEF EveryListWellPlaced
  <2> QED BY <2>1, <2>2
\* The place of the item is the same in every list that has it.
<1>18. ASSUME NEW s \in Clients, s # r, NEW x \in ToSet(new) \cap ToSet(list[s]),
              NEW y \in ToSet(new) \cap ToSet(list[s])
       PROVE  At(new)[x] < At(new)[y] <=> At(list[s])[x] < At(list[s])[y]
  <2> DEFINE C == ToSet(new) \cap ToSet(list[s])
             p == At(new)
             q == At(list[s])
  <2>1. Placing(ToSet(list[s]), q, items) /\ WellPlaced(ToSet(list[s]), q, items)
    BY <1>1, ListPlacing DEF EveryListWellPlaced
  <2>2. \A u, v \in C \ {id} : p[u] < p[v] <=> q[u] < q[v]
    <3> SUFFICES ASSUME NEW u \in C \ {id}, NEW v \in C \ {id} PROVE p[u] < p[v] <=> q[u] < q[v]
      OBVIOUS
    <3>1. u \in S /\ v \in S  BY <1>7
    <3>2. p[u] < p[v] <=> At(list[r])[u] < At(list[r])[v]  BY <3>1, <1>7
    <3>3. At(list[r])[u] < At(list[r])[v] <=> q[u] < q[v]  BY <3>1, <1>1, <1>9, ListsAgree
    <3> QED BY <3>2, <3>3
  <2>3. CASE id \notin ToSet(list[s])
    BY <2>2, <2>3
  <2>4. CASE id \in ToSet(list[s])
    <3>1. id \in C  BY <2>4, <1>7
    <3>2. NoId \notin ToSet(new) /\ NoId \notin ToSet(list[s])
      BY <1>1, <1>6, <1>7, <1>9, ListFacts, NeedsAreItems, IdFacts
    <3>3. Placing(C, p, items) /\ Placing(C, q, items)
      <4> HIDE DEF p, q
      <4> QED BY <2>1, <3>2, <1>7 DEF Placing, p
    <3>4. WellPlaced(C, p, items) /\ WellPlaced(C, q, items)
      <4>1. WellPlaced(ToSet(new), p, items) /\ C \subseteq ToSet(new) /\ C \subseteq ToSet(list[s])
        BY <1>7
      <4> HIDE DEF p, q, C
      <4>2. WellPlaced(C, p, items)
        BY <4>1 DEF WellPlaced, InItsGap, Nested, RightStartsBefore, EndsWithin, LatestFirst,
                    SiblingsInOrder
      <4>3. WellPlaced(C, q, items)
        BY <4>1, <2>1 DEF WellPlaced, InItsGap, Nested, RightStartsBefore, EndsWithin, LatestFirst,
                          SiblingsInOrder
      <4> QED BY <4>2, <4>3
    <3>5. \A u \in C : items[u].origin # id /\ items[u].rightOrigin # id
      <4> SUFFICES ASSUME NEW u \in C PROVE items[u].origin # id /\ items[u].rightOrigin # id
        OBVIOUS
      <4>1. Needs(u) \subseteq S
        BY <1>1, <1>6, <1>7, <1>9 DEF NeedsAreThere
      <4>2. id \notin S /\ id # NoId  BY <1>6, <1>9, <1>1, NeedsAreItems, IdFacts DEF Has
      <4>3. items[u].origin \in Needs(u) \cup {NoId} /\ items[u].rightOrigin \in Needs(u) \cup {NoId}
        BY NeighboursAreNeeded
      <4> QED BY <4>1, <4>2, <4>3
    <3>6. PICK N \in Nat : \A u \in C : p[u] <= N /\ q[u] <= N
      <4>1. list[s] \in Seq(DOMAIN items) /\ IsInjective(list[s]) /\ Len(list[s]) \in Nat
        BY <1>1, ListFacts
      <4>2. Len(new) \in Nat  BY <1>7, LenProperties
      <4>3. \A u \in ToSet(list[s]) : q[u] \in 1..Len(list[s])  BY <4>1, AtProperties
      <4>4. \A u \in ToSet(new) : p[u] \in 1..Len(new)  BY <1>7, AtProperties
      <4>5. \A u \in C : p[u] <= Len(new) + Len(list[s]) /\ q[u] <= Len(new) + Len(list[s])
        <5> HIDE DEF p, q
        <5> QED BY <4>1, <4>2, <4>3, <4>4
      <4>6. Len(new) + Len(list[s]) \in Nat  BY <4>1, <4>2
      <4> HIDE DEF p, q, C
      <4> QED BY <4>5, <4>6
    <3>7. x \in C /\ y \in C  OBVIOUS
    <3>8. p[x] < p[y] <=> q[x] < q[y]
      <4> HIDE DEF p, q, C
      <4> QED BY ONLY <2>2, <3>1, <3>3, <3>4, <3>5, <3>6, <3>7, SamePlace
    <3> QED BY <3>8
  <2> QED BY <2>3, <2>4
<1>19. \A s \in Clients : \A x \in ToSet(list'[s]) : Position(list'[s], x) = At(list'[s])[x]
  BY DEF At
<1>20. SameOrder'
  <2> SUFFICES ASSUME NEW s \in Clients, NEW t \in Clients,
                      NEW x \in ToSet(list'[s]) \cap ToSet(list'[t]),
                      NEW y \in ToSet(list'[s]) \cap ToSet(list'[t])
               PROVE  At(list'[s])[x] < At(list'[s])[y] <=> At(list'[t])[x] < At(list'[t])[y]
    BY <1>19 DEF SameOrder
  <2>1. CASE s = t
    BY <2>1
  <2>2. CASE s = r /\ t # r
    BY <2>2, <1>8, <1>9, <1>18
  <2>3. CASE s # r /\ t = r
    <3>1. x \in ToSet(new) \cap ToSet(list[s]) /\ y \in ToSet(new) \cap ToSet(list[s])
      BY <2>3, <1>8, <1>9
    <3>2. At(new)[x] < At(new)[y] <=> At(list[s])[x] < At(list[s])[y]
      BY <2>3, <3>1, <1>18
    <3> QED BY <2>3, <3>2, <1>8, <1>9
  <2>4. CASE s # r /\ t # r
    BY <2>4, <1>1, <1>8, ListsAgree
  <2> QED BY <2>1, <2>2, <2>3, <2>4
<1>21. \A s \in Clients : s # r => ArrivingAt(s) = {} /\ ArrivingAt(s)' = {}
  BY <1>3 DEF ArrivingAt
<1>22. \A s \in Clients : ToSet(list'[s]) \cup ArrivingAt(s)' = ToSet(list[s]) \cup ArrivingAt(s)
  <2> SUFFICES ASSUME NEW s \in Clients
               PROVE  ToSet(list'[s]) \cup ArrivingAt(s)' = ToSet(list[s]) \cup ArrivingAt(s)
    OBVIOUS
  <2>1. CASE s = r
    <3>1. ArrivingAt(r) = arriving /\ ArrivingAt(r)' = arriving'  BY <1>3 DEF ArrivingAt
    <3>2. (S \cup {id}) \cup (arriving \ {id}) = S \cup arriving  BY <1>2
    <3> QED BY <2>1, <3>1, <3>2, <1>2, <1>9
  <2>2. CASE s # r
    BY <2>2, <1>8, <1>21
  <2> QED BY <2>1, <2>2
<1>23. Accounted'
  <2> SUFFICES ASSUME NEW s \in Clients
               PROVE  /\ ToSet(list'[s]) \cup pendingStructs[s] \cup ArrivingAt(s)'
                           = UNION {u.items : u \in held[s]}
                      /\ deleted[s] \cup pendingDs[s] = UNION {u.deletes : u \in held[s]}
                      /\ reading # s => pendingDs[s] \cap ToSet(list'[s]) = {}
    BY <1>3 DEF Accounted, Idle, pending
  <2>1. /\ ToSet(list[s]) \cup pendingStructs[s] \cup ArrivingAt(s) = UNION {u.items : u \in held[s]}
        /\ deleted[s] \cup pendingDs[s] = UNION {u.deletes : u \in held[s]}
        /\ reading # s => pendingDs[s] \cap ToSet(list[s]) = {}
    BY <1>1 DEF Accounted, Idle
  <2>2. /\ ToSet(list'[s]) \cup pendingStructs[s] \cup ArrivingAt(s)'
             = (ToSet(list'[s]) \cup ArrivingAt(s)') \cup pendingStructs[s]
        /\ ToSet(list[s]) \cup pendingStructs[s] \cup ArrivingAt(s)
             = (ToSet(list[s]) \cup ArrivingAt(s)) \cup pendingStructs[s]
    OBVIOUS
  <2>3. reading # s => ToSet(list'[s]) = ToSet(list[s])  BY <1>3, <1>8
  <2> QED BY <2>1, <2>2, <2>3, <1>22
<1>24. Awaited'
  <2> SUFFICES ASSUME NEW s \in Clients
               PROVE  /\ pendingStructs[s] # {} => missing[s] # {}
                      /\ \A i \in missing[s] : i[1] # s
                      /\ reading # s => \A i \in missing[s] : i \notin ToSet(list'[s])
    BY <1>3 DEF Awaited, Idle, Arrived, Has, pending
  <2>1. reading # s => ToSet(list'[s]) = ToSet(list[s])  BY <1>3, <1>8
  <2> QED BY <2>1, <1>1 DEF Awaited, Idle, Arrived, Has
<1>25. WordsAreWhole'
  <2> SUFFICES ASSUME NEW a \in DOMAIN items, NEW b \in DOMAIN items, Next2(a, b), NEW s \in Clients
               PROVE  /\ a \in ToSet(list'[s]) \cup ArrivingAt(s)' => b \in ToSet(list'[s]) \cup ArrivingAt(s)'
                      /\ a \in pendingStructs[s] => b \in pendingStructs[s] \cup ToSet(list'[s])
    BY <1>1, <1>3 DEF WordsAreWhole, Next2, pending
  <2>1. ToSet(list[s]) \subseteq ToSet(list'[s])  BY <1>8, <1>9
  <2> QED BY <2>1, <1>1, <1>22 DEF WordsAreWhole
\* Who typed x had what stands behind it, and the order is the same here.
<1>26. TypedOutsideWords'
  <2> SUFFICES ASSUME NEW s \in Clients, NEW x \in ToSet(list'[s]), NEW b \in DOMAIN items,
                      Next2(items[x].origin, b), x # b
               PROVE  /\ x[1] = s => b \in ToSet(list'[s])
                      /\ b \in ToSet(list'[s]) => EndsBy(At(list'[s]), items, x, At(list'[s])[b])
    BY <1>3, <1>19 DEF TypedOutsideWords, Next2, Has
  <2> DEFINE t == x[1]
  <2>1. x \in DOMAIN items /\ x \in ToSet(list'[t]) /\ t \in Clients
    <3>1. x \in DOMAIN items  BY <1>6, <1>8, <1>9, <1>10, <1>1, ListFacts
    <3>2. t \in Clients  BY <3>1, <1>1, IdFacts DEF TypeOK
    <3> QED BY <3>1, <3>2, <1>3, <1>12 DEF TypeOK, Has
  <2>2. x \in ToSet(list[t])
    BY <2>1, <1>1 DEF TypeOK, Has
  <2>3. b \in ToSet(list[t]) /\ EndsBy(At(list[t]), items, x, At(list[t])[b])
    <3>1. b \in ToSet(list[t])  BY <2>1, <2>2, <1>1 DEF TypedOutsideWords, Has
    <3>2. Position(list[t], b) = At(list[t])[b]  BY <3>1 DEF At
    <3> QED BY <3>1, <3>2, <2>1, <2>2, <1>1 DEF TypedOutsideWords, Has
  <2>4. b \in ToSet(list'[t])
    BY <2>1, <2>3, <1>8, <1>9
  <2> DEFINE v == items[x].rightOrigin
  <2>5. v # NoId /\ At(list[t])[v] <= At(list[t])[b] /\ v \in ToSet(list[t])
    BY <2>1, <2>2, <2>3, <1>1, NeighboursAreNeeded DEF EndsBy, NeedsAreThere
  <2>6. ASSUME b \in ToSet(list'[s]) PROVE EndsBy(At(list'[s]), items, x, At(list'[s])[b])
    <3>1. v \in ToSet(list'[s])
      <4>1. Needs(x) \subseteq ToSet(list'[s])  BY <1>3, <1>15 DEF NeedsAreThere, Needs
      <4> QED BY <4>1, <2>5, NeighboursAreNeeded
    <3>2. ~(At(list[t])[b] < At(list[t])[v])
      BY <2>3, <2>5, <2>1, <1>1, ListsAgree
    <3>3. ~(At(list'[t])[b] < At(list'[t])[v])
      <4>1. CASE t = r  BY <4>1, <3>2, <2>3, <2>5, <1>7, <1>9
      <4>2. CASE t # r  BY <4>2, <3>2, <2>1, <1>8
      <4> QED BY <4>1, <4>2
    <3>4. v \in ToSet(list'[t])  BY <2>1, <2>5, <1>8, <1>9
    <3>5. ~(At(list'[s])[b] < At(list'[s])[v])
      BY <2>1, <2>4, <2>6, <3>1, <3>3, <3>4, <1>19, <1>20 DEF SameOrder
    <3>6. At(list'[s])[b] \in Nat /\ At(list'[s])[v] \in Nat
      <4>1. list'[s] \in Seq(DOMAIN items) /\ IsInjective(list'[s])
        BY <1>3, <1>12 DEF TypeOK
      <4>2. At(list'[s])[b] \in 1..Len(list'[s]) /\ At(list'[s])[v] \in 1..Len(list'[s])
        BY <4>1, <2>6, <3>1, AtProperties
      <4> QED BY <4>2
    <3> QED BY <2>5, <3>5, <3>6 DEF EndsBy
  <2>7. x[1] = s => b \in ToSet(list'[s])
    BY <2>4
  <2> QED BY <2>6, <2>7
<1> QED BY <1>13, <1>14, <1>15, <1>16, <1>17, <1>20, <1>23, <1>24, <1>25, <1>26 DEF Inductive

-----------------------------------------------------------------------------
(* Editing keeps the invariant.                                            *)

LEMMA TransactKeeps ==
  ASSUME Inductive, NEW r \in Clients, NEW size \in Nat, NEW right \in ToSet(list[r]) \cup {NoId},
         NEW deletes \in SUBSET ToSet(list[r]), Transact(r, Word(r, size), right, deletes)
  PROVE  Inductive'
<1> DEFINE word == Word(r, size)
           W    == ToSet(word)
           S    == ToSet(list[r])
           m    == GetState(r, r)
           left == LeftOf(r, right)
           update == [items |-> W, deletes |-> deletes]
           new  == list'[r]
<1>1. /\ TypeOK /\ WellTyped /\ Accounted /\ Awaited /\ WordsAreWhole /\ NeedsAreThere
      /\ OwnNeighboursAreOlder /\ ArrivingIsNew /\ EveryListWellPlaced /\ SameOrder
      /\ NeedsAreOlder /\ TypedOutsideWords
  BY DEF Inductive, WellTyped
<1>2. /\ reading = Nobody /\ m + Len(word) <= MaxItems[r]
      /\ items' = [id \in DOMAIN items \cup W |->
                     IF id \in W THEN TypedBetween(id, word, left, right) ELSE items[id]]
      /\ list' = [list EXCEPT ![r] = Spliced(@, Ahead(@, right) - 1, word)]
      /\ deleted' = [deleted EXCEPT ![r] = @ \cup deletes]
      /\ updates' = updates \cup {update}
      /\ held' = [held EXCEPT ![r] = @ \cup {update}]
      /\ UNCHANGED <<pending, reading, arriving>>
  BY DEF Transact
<1>3. /\ list \in [Clients -> Seq(DOMAIN items)] /\ held \in [Clients -> SUBSET updates]
      /\ deleted \in [Clients -> SUBSET DOMAIN items] /\ DOMAIN items \subseteq Id
      /\ pendingStructs \in [Clients -> SUBSET DOMAIN items] /\ pendingDs \in [Clients -> SUBSET DOMAIN items]
      /\ missing \in [Clients -> SUBSET Id] /\ updates \subseteq Update
      /\ \A u \in updates : u.items \subseteq DOMAIN items /\ u.deletes \subseteq DOMAIN items
      /\ arriving = {} /\ Nobody \notin Clients
  BY <1>1, <1>2, ClientAssumption DEF TypeOK, WellTyped
<1>4. m \in Nat /\ \A n \in Nat : Has(r, <<r, n>>) <=> 1 <= n /\ n <= m
  BY <1>1, StateCounts
<1>5. /\ word \in Seq(Id) /\ Len(word) = size
      /\ \A i \in 1..size : word[i] = <<r, m + i>>
      /\ W = {word[i] : i \in 1..size} /\ W \subseteq Id /\ W \cap DOMAIN items = {}
  <2>1. Len(word) = size  BY DEF Word
  <2>2. GetState(r, r) + size <= MaxItems[r]  BY <2>1, <1>2
  <2> QED BY <2>2, <1>1, WordIsNew
<1> HIDE DEF word, W, m, left, new
<1>6. /\ DOMAIN items' = DOMAIN items \cup W
      /\ \A id \in DOMAIN items : items'[id] = items[id]
      /\ \A id \in W : items'[id] = TypedBetween(id, word, left, right)
  BY <1>2, <1>5
<1>7. new = Spliced(list[r], Ahead(list[r], right) - 1, word)
      /\ \A s \in Clients : s # r => list'[s] = list[s]
  BY <1>2, <1>3 DEF new
<1>8. /\ new \in Seq(DOMAIN items \cup W) /\ IsInjective(new)
      /\ ToSet(new) = S \cup W
      /\ \A x, y \in S : At(new)[x] < At(new)[y] <=> At(list[r])[x] < At(list[r])[y]
      /\ Placing(ToSet(new), At(new), items') /\ WellPlaced(ToSet(new), At(new), items')
      /\ \A b \in S : left = NoId \/ At(list[r])[left] < At(list[r])[b]
                        => right # NoId /\ At(new)[right] <= At(new)[b]
  <2> DEFINE o == items'
  <2>1. GetState(r, r) + size <= MaxItems[r] /\ word = Word(r, size)
    BY <1>2, <1>5 DEF word, m
  <2>2. Types(o, word, LeftOf(r, right), right)
    BY <1>6 DEF W, left, Types
  <2> HIDE DEF o
  <2>3. TypedInto(new, list[r], word, o, LeftOf(r, right), right)
    <3>1. /\ TypeOK /\ NeedsAreThere /\ EveryListWellPlaced /\ r \in Clients /\ size \in Nat
          /\ right \in ToSet(list[r]) \cup {NoId}
          /\ new = Spliced(list[r], Ahead(list[r], right) - 1, word)
      BY <1>1, <1>7
    <3> QED BY ONLY <3>1, <2>1, <2>2, WordTyped
  <2> QED BY <2>3 DEF o, W, left, TypedInto
<1>9. list'[r] = new /\ ToSet(list'[r]) = S \cup W /\ S \subseteq DOMAIN items
      /\ \A s \in Clients : s # r => list'[s] = list[s] /\ ToSet(list'[s]) = ToSet(list[s])
  BY <1>1, <1>7, <1>8, ListFacts DEF new
<1>10. \A s \in Clients : ToSet(list[s]) \subseteq DOMAIN items /\ ToSet(list[s]) \subseteq ToSet(list'[s])
  BY <1>1, <1>9, ListFacts
<1>11. list' \in [Clients -> Seq(DOMAIN items')]
  <2>1. new \in Seq(DOMAIN items')  BY <1>6, <1>8
  <2>3. \A s \in Clients : list[s] \in Seq(DOMAIN items')
    <3> SUFFICES ASSUME NEW s \in Clients PROVE list[s] \in Seq(DOMAIN items')
      OBVIOUS
    <3>1. list[s] \in Seq(DOMAIN items) /\ DOMAIN items \subseteq DOMAIN items'  BY <1>3, <1>6
    <3> QED BY <3>1
  <2>4. list \in [Clients -> Seq(DOMAIN items')]  BY <2>3, <1>3
  <2>5. list' = [list EXCEPT ![r] = new]  BY <1>2, <1>7
  <2> DEFINE Q == Seq(DOMAIN items')
  <2> HIDE DEF Q
  <2>6. list \in [Clients -> Q] /\ new \in Q  BY <2>1, <2>4 DEF Q
  <2>7. list' \in [Clients -> Q]  BY <2>5, <2>6
  <2> QED BY <2>7 DEF Q
\* The neighbours of the word were made before it.
<1>12. /\ left \in S \cup {NoId} /\ right \in S \cup {NoId}
       /\ left \in DOMAIN items \cup {NoId} /\ right \in DOMAIN items \cup {NoId}
  <2>1. IF Ahead(list[r], right) - 1 = 0 THEN left = NoId ELSE left \in S
    BY <1>1, TypingPlace DEF left
  <2> QED BY <2>1, <1>9
\* A character of the word.
<1>13. ASSUME NEW id \in W
       PROVE  \E i \in 1..size :
                /\ id = word[i] /\ id = <<r, m + i>> /\ id \in Id /\ id \notin DOMAIN items
                /\ items'[id].origin = IF i = 1 THEN left ELSE <<r, m + (i - 1)>>
                /\ items'[id].rightOrigin = right
  <2>1. PICK i \in 1..size : id = word[i]  BY <1>5
  <2>2. id = <<r, m + i>> /\ word[1] = <<r, m + 1>>  BY <2>1, <1>5
  <2>3. items'[id] = TypedBetween(id, word, left, right)  BY <1>6
  <2>4. i # 1 => id # word[1] /\ id[2] - 1 = m + (i - 1) /\ id[1] = r
    <3> SUFFICES ASSUME i # 1 PROVE id # word[1] /\ id[2] - 1 = m + (i - 1) /\ id[1] = r
      OBVIOUS
    <3>1. id[2] = m + i /\ id[1] = r /\ word[1][2] = m + 1  BY <2>2
    <3>2. m + i # m + 1 /\ (m + i) - 1 = m + (i - 1)  BY <1>4
    <3> QED BY <3>1, <3>2
  <2>5. items'[id].rightOrigin = right  BY <2>3 DEF TypedBetween
  <2>6. items'[id].origin = IF i = 1 THEN left ELSE <<r, m + (i - 1)>>
    BY <2>1, <2>3, <2>4 DEF TypedBetween
  <2> QED BY <2>1, <2>2, <2>5, <2>6, <1>5
<1>14. \A x \in DOMAIN items : Needs(x)' = Needs(x) /\ Needs(x) \subseteq DOMAIN items
  <2> SUFFICES ASSUME NEW x \in DOMAIN items PROVE Needs(x)' = Needs(x) /\ Needs(x) \subseteq DOMAIN items
    OBVIOUS
  <2>1. Needs(x)' = Needs(x)  BY <1>6 DEF Needs
  <2> QED BY <2>1, <1>1, NeedsAreItems
\* A character of the word needs the one before, and what is in the list.
<1>15. ASSUME NEW id \in W
       PROVE  /\ Needs(id)' \subseteq S \cup W
              /\ \A o \in Needs(id)' : o \in W => o[2] < id[2]
  <2>1. PICK i \in 1..size : /\ id = word[i] /\ id = <<r, m + i>>
                             /\ items'[id].origin = IF i = 1 THEN left ELSE <<r, m + (i - 1)>>
                             /\ items'[id].rightOrigin = right
    BY <1>13
  <2>2. id[1] = r /\ id[2] = m + i /\ i \in Nat /\ i > 0  BY <2>1
  <2> DEFINE before == <<r, m + (i - 1)>>
  <2>3. id[2] > 1 => /\ before \in S \cup W /\ <<id[1], id[2] - 1>> = before
                     /\ before[2] < id[2]
    <3> SUFFICES ASSUME id[2] > 1
                 PROVE  before \in S \cup W /\ <<id[1], id[2] - 1>> = before /\ before[2] < id[2]
      OBVIOUS
    <3>1. (m + i) - 1 = m + (i - 1) /\ m + (i - 1) < m + i  BY <1>4
    <3>2. CASE i = 1
      <4>1. m + (i - 1) \in Nat /\ 1 <= m + (i - 1) /\ m + (i - 1) <= m  BY <2>2, <3>2, <1>4
      <4> QED BY <4>1, <3>1, <2>2, <1>4 DEF Has
    <3>3. CASE i # 1
      <4>1. i - 1 \in 1..size  BY <3>3
      <4>2. word[i - 1] = before  BY <4>1, <1>5
      <4> QED BY <4>1, <4>2, <3>1, <2>2, <1>5
    <3> QED BY <3>2, <3>3
  <2>4. i # 1 => id[2] > 1  BY <2>2, <1>4
  <2>5. ASSUME NEW o \in Needs(id)' PROVE o \in S \/ (o = before /\ id[2] > 1)
    BY <2>1, <2>3, <2>4, <1>12 DEF Needs
  <2>6. \A o \in S : o \notin W  BY <1>5, <1>9
  <2> HIDE DEF before
  <2> QED BY <2>3, <2>5, <2>6
<1>16. TypeOK'
  <2>1. DOMAIN items' \subseteq Id  BY <1>3, <1>5, <1>6
  <2>2. \A id \in DOMAIN items' : items'[id] \in Origin
    <3> SUFFICES ASSUME NEW id \in DOMAIN items' PROVE items'[id] \in Origin
      OBVIOUS
    <3>1. CASE id \in DOMAIN items  BY <3>1, <1>1, <1>6 DEF TypeOK
    <3>2. CASE id \in W
      <4>1. PICK i \in 1..size : /\ items'[id].origin = IF i = 1 THEN left ELSE <<r, m + (i - 1)>>
                                 /\ items'[id].rightOrigin = right
        BY <3>2, <1>13
      <4>2. i # 1 => i - 1 \in 1..size  OBVIOUS
      <4>3. i # 1 => <<r, m + (i - 1)>> \in Id  BY <4>2, <1>5
      <4>4. items'[id] = [origin |-> items'[id].origin, rightOrigin |-> items'[id].rightOrigin]
        BY <3>2, <1>6 DEF TypedBetween
      <4>5. items'[id].origin \in Id \cup {NoId} /\ items'[id].rightOrigin \in Id \cup {NoId}
        BY <4>1, <4>3, <1>3, <1>12
      <4> QED BY <4>4, <4>5 DEF Origin
    <3> QED BY <3>1, <3>2, <1>6
  <2>3. update \in Update /\ updates' \subseteq Update
    <3>1. deletes \subseteq Id  BY <1>3, <1>9
    <3>2. update \in Update  BY <3>1, <1>5 DEF Update
    <3> QED BY <3>2, <1>2, <1>3
  <2>4. /\ held' \in [Clients -> SUBSET updates'] /\ deleted' \in [Clients -> SUBSET DOMAIN items']
        /\ pendingStructs' \in [Clients -> SUBSET DOMAIN items']
        /\ pendingDs' \in [Clients -> SUBSET DOMAIN items'] /\ missing' \in [Clients -> SUBSET Id]
    <3>1. held' \in [Clients -> SUBSET updates']  BY <1>2, <1>3
    <3>2. deletes \subseteq DOMAIN items'  BY <1>6, <1>9
    <3>3. deleted' \in [Clients -> SUBSET DOMAIN items']  BY <3>2, <1>2, <1>3, <1>6
    <3> QED BY <3>1, <3>3, <1>2, <1>3, <1>6 DEF pending
  <2>5. ASSUME NEW s \in Clients
        PROVE  /\ IsInjective(list'[s]) /\ deleted'[s] \subseteq ToSet(list'[s])
               /\ \A id \in DOMAIN items' : id[1] = s => id \in ToSet(list'[s])
    <3>1. /\ IsInjective(list[s]) /\ deleted[s] \subseteq ToSet(list[s])
          /\ \A id \in DOMAIN items : id[1] = s => id \in ToSet(list[s])
      BY <1>1 DEF TypeOK, Has
    <3>2. \A id \in W : id[1] = r
      <4> SUFFICES ASSUME NEW id \in W PROVE id[1] = r
        OBVIOUS
      <4>1. \E i \in 1..size : id = <<r, m + i>>  BY <1>13
      <4> QED BY <4>1
    <3>3. CASE s = r
      <4>1. deleted'[r] = deleted[r] \cup deletes  BY <1>2, <1>3
      <4> QED BY <4>1, <3>1, <3>3, <1>6, <1>8, <1>9
    <3>4. CASE s # r
      <4>1. deleted'[s] = deleted[s]  BY <3>4, <1>2, <1>3
      <4> QED BY <4>1, <3>1, <3>2, <3>4, <1>6, <1>9
    <3> QED BY <3>3, <3>4
  <2>6. reading' \in Clients \cup {Nobody} /\ arriving' \subseteq DOMAIN items'
    BY <1>2, <1>3
  <2> QED BY <2>1, <2>2, <2>3, <2>4, <2>5, <2>6, <1>11 DEF TypeOK, Has
<1>17. WellTyped' /\ ArrivingIsNew'
  <2>1. \A u \in updates' : u.items \subseteq DOMAIN items' /\ u.deletes \subseteq DOMAIN items'
    BY <1>2, <1>3, <1>6, <1>9
  <2> QED BY <2>1, <1>2, <1>3, <1>16 DEF WellTyped, ArrivingIsNew
<1>18. NeedsAreThere'
  <2> SUFFICES ASSUME NEW s \in Clients, NEW x \in ToSet(list'[s]) PROVE Needs(x)' \subseteq ToSet(list'[s])
    BY DEF NeedsAreThere
  <2>1. ASSUME x \in ToSet(list[s]) PROVE Needs(x)' \subseteq ToSet(list'[s])
    BY <2>1, <1>1, <1>10, <1>14 DEF NeedsAreThere
  <2>2. ASSUME s = r, x \in W PROVE Needs(x)' \subseteq ToSet(list'[s])
    BY <2>2, <1>9, <1>15
  <2> QED BY <2>1, <2>2, <1>9
<1>19. NeedsAreOlder'
  <2> SUFFICES ASSUME NEW T \in SUBSET DOMAIN items', T # {} PROVE \E x \in T : Needs(x)' \cap T = {}
    BY DEF NeedsAreOlder
  <2>1. CASE T \cap DOMAIN items # {}
    <3> DEFINE U == T \cap DOMAIN items
    <3>1. PICK x \in U : Needs(x) \cap U = {}
      <4>1. U \in SUBSET DOMAIN items /\ U # {}  BY <2>1
      <4> HIDE DEF U
      <4> QED BY <4>1, <1>1 DEF NeedsAreOlder
    <3> QED BY <3>1, <1>14
  <2>2. CASE T \cap DOMAIN items = {}
    <3>1. T \subseteq W  BY <2>2, <1>6
    <3> DEFINE K == {x[2] : x \in T}
    <3>2. K \in SUBSET Nat /\ K # {}  BY <3>1, <1>5, IdFacts
    <3>3. PICK k \in K : \A n \in K : k <= n
      <4> HIDE DEF K
      <4> QED BY <3>2, LeastOf
    <3>4. PICK x \in T : x[2] = k  BY <3>3
    <3>5. ASSUME NEW o \in Needs(x)', o \in T PROVE FALSE
      <4>1. o[2] < x[2]  BY <3>1, <3>5, <1>15
      <4>2. k <= o[2] /\ o[2] \in Nat /\ k \in Nat  BY <3>2, <3>3, <3>5
      <4> QED BY <4>1, <4>2, <3>4
    <3> QED BY <3>5
  <2> QED BY <2>1, <2>2
<1>20. OwnNeighboursAreOlder'
  <2> SUFFICES ASSUME NEW id \in DOMAIN items', NEW o \in {items'[id].origin, items'[id].rightOrigin},
                      o[1] = id[1]
               PROVE  o[2] < id[2]
    BY DEF OwnNeighboursAreOlder
  <2>1. CASE id \in DOMAIN items
    BY <2>1, <1>1, <1>6 DEF OwnNeighboursAreOlder
  <2>2. CASE id \in W
    <3>1. PICK i \in 1..size : /\ id = <<r, m + i>>
                               /\ items'[id].origin = IF i = 1 THEN left ELSE <<r, m + (i - 1)>>
                               /\ items'[id].rightOrigin = right
      BY <2>2, <1>13
    <3>2. id[1] = r /\ id[2] = m + i  BY <3>1
    <3>3. CASE o = <<r, m + (i - 1)>>
      <4>1. o[2] = m + (i - 1)  BY <3>3
      <4> QED BY <4>1, <3>2, <1>4
    <3>4. CASE o \in S
      <4>1. o \in Id  BY <3>4, <1>3, <1>9
      <4>2. o = <<r, o[2]>> /\ o[2] \in Nat  BY <4>1, <3>2, IdFacts
      <4>3. o[2] <= m  BY <4>2, <3>4, <1>4 DEF Has
      <4> QED BY <4>2, <4>3, <3>2, <1>4
    <3>5. o # NoId  BY <3>2, IdFacts DEF NoId
    <3> QED BY <3>1, <3>3, <3>4, <3>5, <1>12
  <2> QED BY <2>1, <2>2, <1>6
<1>21. EveryListWellPlaced'
  <2> SUFFICES ASSUME NEW s \in Clients PROVE WellPlaced(ToSet(list'[s]), At(list'[s]), items')
    BY DEF EveryListWellPlaced
  <2>1. CASE s = r  BY <2>1, <1>8, <1>9
  <2>2. CASE s # r
    <3>1. /\ Placing(ToSet(list[s]), At(list[s]), items) /\ WellPlaced(ToSet(list[s]), At(list[s]), items)
          /\ NoId \notin ToSet(list[s])
      BY <1>1, ListPlacing, ListFacts DEF EveryListWellPlaced
    <3> DEFINE o == items'
    <3>2. \A x \in ToSet(list[s]) : o[x] = items[x]  BY <1>6, <1>10
    <3> HIDE DEF o
    <3>3. WellPlaced(ToSet(list[s]), At(list[s]), o)  BY <3>1, <3>2, SameOrigins
    <3> QED BY <3>3, <2>2, <1>9 DEF o
  <2> QED BY <2>1, <2>2
<1>22. \A s \in Clients : \A x \in ToSet(list'[s]) : Position(list'[s], x) = At(list'[s])[x]
  BY DEF At
\* The old items keep their order, and the new ones are in no other list.
<1>23. ASSUME NEW s \in Clients, NEW x \in ToSet(list[s]), NEW y \in ToSet(list[s])
       PROVE  At(list'[s])[x] < At(list'[s])[y] <=> At(list[s])[x] < At(list[s])[y]
  <2>1. CASE s = r  BY <2>1, <1>8, <1>9
  <2>2. CASE s # r  BY <2>2, <1>9
  <2> QED BY <2>1, <2>2
<1>24. SameOrder'
  <2> SUFFICES ASSUME NEW s \in Clients, NEW t \in Clients,
                      NEW x \in ToSet(list'[s]) \cap ToSet(list'[t]),
                      NEW y \in ToSet(list'[s]) \cap ToSet(list'[t])
               PROVE  At(list'[s])[x] < At(list'[s])[y] <=> At(list'[t])[x] < At(list'[t])[y]
    BY <1>22 DEF SameOrder
  <2>1. CASE s = t
    BY <2>1
  <2>2. CASE s # t
    <3>1. \A z \in ToSet(list'[s]) \cap ToSet(list'[t]) : z \in ToSet(list[s]) \cap ToSet(list[t])
      BY <2>2, <1>5, <1>9, <1>10
    <3>2. /\ x \in ToSet(list[s]) \cap ToSet(list[t]) /\ y \in ToSet(list[s]) \cap ToSet(list[t])
      BY <3>1
    <3>3. At(list[s])[x] < At(list[s])[y] <=> At(list[t])[x] < At(list[t])[y]
      BY <3>2, <1>1, ListsAgree
    <3> QED BY <3>2, <3>3, <1>23
  <2> QED BY <2>1, <2>2
<1>25. \A s \in Clients : ArrivingAt(s) = {} /\ ArrivingAt(s)' = {}
  BY <1>2, <1>3 DEF ArrivingAt
<1>26. Accounted'
  <2> SUFFICES ASSUME NEW s \in Clients
               PROVE  /\ ToSet(list'[s]) \cup pendingStructs[s] = UNION {u.items : u \in held'[s]}
                      /\ deleted'[s] \cup pendingDs[s] = UNION {u.deletes : u \in held'[s]}
                      /\ pendingDs[s] \cap ToSet(list'[s]) = {}
    BY <1>2, <1>25 DEF Accounted, Idle, pending
  <2>1. /\ ToSet(list[s]) \cup pendingStructs[s] = UNION {u.items : u \in held[s]}
        /\ deleted[s] \cup pendingDs[s] = UNION {u.deletes : u \in held[s]}
        /\ pendingDs[s] \cap ToSet(list[s]) = {} /\ pendingDs[s] \subseteq DOMAIN items
    BY <1>1, <1>2, <1>3, <1>25 DEF Accounted, Idle
  <2>2. CASE s # r
    <3>1. held'[s] = held[s] /\ deleted'[s] = deleted[s]  BY <2>2, <1>2, <1>3
    <3> QED BY <3>1, <2>1, <2>2, <1>9
  <2>3. CASE s = r
    <3>1. held'[r] = held[r] \cup {update} /\ deleted'[r] = deleted[r] \cup deletes
      BY <1>2, <1>3
    <3>2. /\ UNION {u.items : u \in held[r] \cup {update}} = (UNION {u.items : u \in held[r]}) \cup W
          /\ UNION {u.deletes : u \in held[r] \cup {update}}
               = (UNION {u.deletes : u \in held[r]}) \cup deletes
      <4>1. update.items = W /\ update.deletes = deletes  OBVIOUS
      <4> HIDE DEF update
      <4> QED BY <4>1
    <3>3. ToSet(list'[r]) = S \cup W /\ pendingDs[r] \cap (S \cup W) = {}
      BY <2>1, <2>3, <1>5, <1>9
    <3>4. ToSet(list'[r]) \cup pendingStructs[r] = (S \cup pendingStructs[r]) \cup W
      BY <3>3
    <3>5. deleted'[r] \cup pendingDs[r] = (deleted[r] \cup pendingDs[r]) \cup deletes
      BY <3>1
    <3> HIDE DEF update
    <3> QED BY <3>1, <3>2, <3>3, <3>4, <3>5, <2>1, <2>3
  <2> QED BY <2>2, <2>3
<1>27. Awaited'
  <2> SUFFICES ASSUME NEW s \in Clients
               PROVE  /\ pendingStructs[s] # {} => missing[s] # {}
                      /\ \A id \in missing[s] : id[1] # s /\ id \notin ToSet(list'[s])
    BY <1>2 DEF Awaited, Idle, Arrived, Has, pending
  <2>1. /\ pendingStructs[s] # {} => missing[s] # {}
        /\ \A id \in missing[s] : id[1] # s /\ id \notin ToSet(list[s])
    BY <1>1, <1>2, <1>3 DEF Awaited, Idle, Arrived, Has
  <2>2. \A id \in W : id[1] = r
    <3> SUFFICES ASSUME NEW id \in W PROVE id[1] = r
      OBVIOUS
    <3>1. \E i \in 1..size : id = <<r, m + i>>  BY <1>13
    <3> QED BY <3>1
  <2> QED BY <2>1, <2>2, <1>9
\* Of two characters of a word both are new or none.
<1>28. ASSUME NEW a, NEW b, b = <<a[1], a[2] + 1>>, NEW u \in updates', a \in u.items, b \in u.items
       PROVE  \/ Next2(a, b) /\ a \in DOMAIN items /\ b \in DOMAIN items
              \/ a \in W /\ b \in W
  <2>1. CASE u \in updates
    BY <2>1, <1>3, <1>28 DEF Next2
  <2>2. CASE u = update
    BY <2>2, <1>28
  <2> QED BY <2>1, <2>2, <1>2
<1>29. WordsAreWhole'
  <2> SUFFICES ASSUME NEW a \in DOMAIN items', NEW b \in DOMAIN items', b = <<a[1], a[2] + 1>>,
                      NEW w \in updates', a \in w.items, b \in w.items
               PROVE  /\ items'[b].origin = a /\ items'[b].rightOrigin = items'[a].rightOrigin
                      /\ \A u \in updates' : a \in u.items => b \in u.items
                      /\ \A s \in Clients :
                           /\ a \in ToSet(list'[s]) => b \in ToSet(list'[s])
                           /\ a \in pendingStructs[s] => b \in pendingStructs[s] \cup ToSet(list'[s])
    <3>1. \A s \in Clients : ToSet(list'[s]) \cup ArrivingAt(s)' = ToSet(list'[s])
      BY <1>25
    <3>2. pendingStructs' = pendingStructs  BY <1>2 DEF pending
    <3> QED BY <3>1, <3>2 DEF WordsAreWhole, Next2
  <2>1. CASE Next2(a, b) /\ a \in DOMAIN items /\ b \in DOMAIN items
    <3>1. /\ items[b].origin = a /\ items[b].rightOrigin = items[a].rightOrigin
          /\ \A u \in updates : a \in u.items => b \in u.items
          /\ \A s \in Clients :
               /\ a \in ToSet(list[s]) => b \in ToSet(list[s])
               /\ a \in pendingStructs[s] => b \in pendingStructs[s] \cup ToSet(list[s])
      BY <2>1, <1>1, <1>25 DEF WordsAreWhole
    <3>2. a \notin W  BY <2>1, <1>5
    <3>3. \A u \in updates' : a \in u.items => b \in u.items
      BY <3>1, <3>2, <1>2
    <3>4. \A s \in Clients : a \in ToSet(list'[s]) => a \in ToSet(list[s])
      BY <3>2, <1>9
    <3>5. items'[b].origin = a /\ items'[b].rightOrigin = items'[a].rightOrigin
      BY <3>1, <2>1, <1>6
    <3> QED BY <3>1, <3>3, <3>4, <3>5, <1>10
  <2>2. CASE a \in W /\ b \in W
    <3>1. PICK i \in 1..size : a = <<r, m + i>> /\ items'[a].rightOrigin = right
      BY <2>2, <1>13
    <3>2. PICK j \in 1..size : /\ b = <<r, m + j>> /\ items'[b].rightOrigin = right
                               /\ items'[b].origin = IF j = 1 THEN left ELSE <<r, m + (j - 1)>>
      BY <2>2, <1>13
    <3>3. b = <<a[1], a[2] + 1>>  OBVIOUS
    <3>4. m + j = (m + i) + 1
      <4>1. a[2] = m + i /\ b[2] = m + j /\ b[2] = a[2] + 1  BY <3>1, <3>2, <3>3
      <4> QED BY <4>1
    <3>5. j # 1 /\ m + (j - 1) = m + i  BY <3>4, <1>4
    <3>6. items'[b].origin = a  BY <3>1, <3>2, <3>5
    <3>7. \A u \in updates' : a \in u.items => b \in u.items
      BY <2>2, <1>2, <1>3, <1>5
    <3>8. \A s \in Clients : /\ a \in ToSet(list'[s]) => b \in ToSet(list'[s])
                             /\ a \notin pendingStructs[s]
      <4>1. a \notin DOMAIN items /\ b \in ToSet(list'[r])  BY <2>2, <1>5, <1>9
      <4>2. \A s \in Clients : a \notin pendingStructs[s] /\ a \notin ToSet(list[s])
        BY <4>1, <1>3, <1>10
      <4>3. \A s \in Clients : s # r => list'[s] = list[s]  BY <1>9
      <4> QED BY <4>1, <4>2, <4>3
    <3> QED BY <3>1, <3>2, <3>6, <3>7, <3>8
  <2> QED BY <2>1, <2>2, <1>28
<1>30. TypedOutsideWords'
  <2> SUFFICES ASSUME NEW s \in Clients, NEW x \in ToSet(list'[s]), NEW b \in DOMAIN items',
                      b = <<items'[x].origin[1], items'[x].origin[2] + 1>>,
                      NEW w \in updates', items'[x].origin \in w.items, b \in w.items, x # b
               PROVE  /\ x[1] = s => b \in ToSet(list'[s])
                      /\ b \in ToSet(list'[s]) => EndsBy(At(list'[s]), items', x, At(list'[s])[b])
    BY <1>22 DEF TypedOutsideWords, Has, Next2
  <2> DEFINE a == items'[x].origin
  <2>1. /\ b = <<a[1], a[2] + 1>>
        /\ \/ Next2(a, b) /\ a \in DOMAIN items /\ b \in DOMAIN items
           \/ a \in W /\ b \in W
    <3> HIDE DEF a
    <3>1. b = <<a[1], a[2] + 1>> /\ a \in w.items  BY DEF a
    <3> QED BY <3>1, <1>28
  \* The order in the lists, as numbers.
  <2>2. \A z \in ToSet(list'[s]) : At(list'[s])[z] \in Nat
    <3>1. list'[s] \in Seq(DOMAIN items') /\ IsInjective(list'[s])
      BY <1>16 DEF TypeOK
    <3>2. \A z \in ToSet(list'[s]) : At(list'[s])[z] \in 1..Len(list'[s])
      BY <3>1, AtProperties
    <3> QED BY <3>2
  <2>3. CASE x \in ToSet(list[s])
    <3>1. x \in DOMAIN items /\ items'[x] = items[x]  BY <2>3, <1>6, <1>10
    <3>2. a \in DOMAIN items \cup {NoId} /\ a \notin W
      <4>1. a \in Needs(x) \cup {NoId}  BY <3>1, NeighboursAreNeeded
      <4>2. NoId \notin W  BY <1>5, IdFacts
      <4> QED BY <4>1, <4>2, <3>1, <1>5, <1>14
    <3>3. Next2(items[x].origin, b) /\ b \in DOMAIN items  BY <2>1, <3>1, <3>2
    <3>4. /\ x[1] = s => b \in ToSet(list[s])
          /\ b \in ToSet(list[s]) => EndsBy(At(list[s]), items, x, Position(list[s], b))
      BY <2>3, <3>3, <1>1 DEF TypedOutsideWords, Has
    <3>5. ASSUME b \in ToSet(list'[s]) PROVE EndsBy(At(list'[s]), items', x, At(list'[s])[b])
      <4>1. b \in ToSet(list[s])  BY <3>3, <3>5, <1>5, <1>9
      <4> DEFINE v == items[x].rightOrigin
      <4>2. v # NoId /\ At(list[s])[v] <= At(list[s])[b]
        BY <3>4, <4>1 DEF EndsBy, At
      <4>3. v \in ToSet(list[s])  BY <4>2, <2>3, <1>1, NeighboursAreNeeded DEF NeedsAreThere
      <4>8. At(list[s])[b] \in Nat /\ At(list[s])[v] \in Nat  BY <4>1, <4>3, <1>1, ListsAgree
      <4>4. ~(At(list[s])[b] < At(list[s])[v])  BY <4>2, <4>8
      <4>5. ~(At(list'[s])[b] < At(list'[s])[v])  BY <4>1, <4>3, <4>4, <1>23
      <4>6. v \in ToSet(list'[s])  BY <4>3, <1>10
      <4>7. At(list'[s])[v] <= At(list'[s])[b]  BY <4>5, <4>6, <3>5, <2>2
      <4> QED BY <4>2, <4>7, <3>1 DEF EndsBy
    <3> QED BY <3>4, <3>5, <1>10
  \* x is the first of the new word, typed right behind a.
  <2>4. CASE s = r /\ x \in W
    <3>1. PICK i \in 1..size : /\ x = <<r, m + i>> /\ items'[x].rightOrigin = right
                               /\ items'[x].origin = IF i = 1 THEN left ELSE <<r, m + (i - 1)>>
      BY <2>4, <1>13
    <3>2. i = 1
      <4> SUFFICES ASSUME i # 1 PROVE FALSE
        OBVIOUS
      <4>1. a = <<r, m + (i - 1)>>  BY <3>1
      <4>2. a[1] = r /\ a[2] = m + (i - 1)  BY <4>1
      <4>3. (m + (i - 1)) + 1 = m + i  BY <1>4
      <4>4. b = <<r, m + i>>  BY <2>1, <4>2, <4>3
      <4> QED BY <4>4, <3>1
    <3>3. a = left  BY <3>1, <3>2
    <3>4. a \in S /\ a \notin W /\ left # NoId
      <4>1. left \notin W /\ NoId \notin DOMAIN items  BY <1>3, <1>5, <1>12, IdFacts
      <4> QED BY <4>1, <3>3, <2>1, <1>12
    <3>5. Next2(a, b) /\ a \in DOMAIN items /\ b \in DOMAIN items  BY <2>1, <3>4
    <3>6. items[b].origin = a /\ b \in S
      <4> HIDE DEF a
      <4> QED BY <3>4, <3>5, <1>1, <1>25 DEF WordsAreWhole
    <3>7. At(list[r])[left] < At(list[r])[b]
      BY <3>3, <3>4, <3>6, <1>1 DEF EveryListWellPlaced, WellPlaced, InItsGap, Start
    <3>8. right # NoId /\ At(new)[right] <= At(new)[b]
      BY <3>6, <3>7, <1>8
    <3>9. b \in ToSet(list'[r])  BY <3>6, <1>9
    <3> QED BY <3>1, <3>8, <3>9, <2>4, <1>9 DEF EndsBy
  <2> QED BY <2>3, <2>4, <1>9
<1> QED BY <1>17, <1>18, <1>19, <1>20, <1>21, <1>24, <1>26, <1>27, <1>29, <1>30 DEF Inductive

\* Edit and Replace call Transact with what the replica shows.
LEMMA EditKeeps ==
  ASSUME Inductive, NEW r \in Clients, Edit(r) \/ Replace(r)
  PROVE  Inductive'
<1>1. Visible(r) \subseteq ToSet(list[r])
  BY DEF Visible
<1>2. \A size \in 0..MaxWord : size \in Nat
  BY BoundsAssumption
<1>3. CASE Edit(r)
  <2>1. PICK from \in Visible(r) \cup {NoId}, right \in Visible(r) \cup {NoId}, size \in 0..MaxWord :
          Change(r, from, right, size)
    BY <1>3 DEF Edit
  <2> DEFINE place(id) == Ahead(list[r], id)
             deletes   == {id \in Visible(r) : place(from) <= place(id) /\ place(id) < place(right)}
  <2>2. Transact(r, Word(r, size), right, deletes)
    BY <2>1 DEF Change
  <2>3. deletes \in SUBSET ToSet(list[r]) /\ right \in ToSet(list[r]) \cup {NoId} /\ size \in Nat
    BY <1>1, <1>2
  <2> HIDE DEF deletes
  <2> QED BY <2>2, <2>3, TransactKeeps
<1>4. CASE Replace(r)
  <2>1. PICK size \in 0..MaxWord : Transact(r, Word(r, size), NoId, Visible(r))
    BY <1>4 DEF Replace
  <2>2. Visible(r) \in SUBSET ToSet(list[r]) /\ NoId \in ToSet(list[r]) \cup {NoId} /\ size \in Nat
    BY <1>1, <1>2
  <2> QED BY <2>1, <2>2, TransactKeeps
<1> QED BY <1>3, <1>4

-----------------------------------------------------------------------------
(* The invariant.                                                          *)

LEMMA StutterKeeps ==
  ASSUME Inductive, UNCHANGED vars
  PROVE  Inductive'
<1>1. UNCHANGED <<items, updates, held, list, deleted, pendingStructs, missing, pendingDs,
                  reading, arriving>>
  BY DEF vars, pending
<1>2. WellTyped' /\ ArrivingIsNew'
  BY <1>1 DEF Inductive, WellTyped, TypeOK, ArrivingIsNew, Has
<1>3. \A s \in Clients : ArrivingAt(s)' = ArrivingAt(s)
  BY <1>1 DEF ArrivingAt
<1>4. Accounted'
  BY <1>1, <1>3 DEF Inductive, Accounted, Idle
<1>5. Awaited'
  BY <1>1 DEF Inductive, Awaited, Idle, Arrived, Has
<1>6. WordsAreWhole'
  BY <1>1, <1>3 DEF Inductive, WordsAreWhole, Next2
<1> QED BY <1>1, <1>2, <1>4, <1>5, <1>6, ListsStay DEF Inductive

LEMMA InitInductive ==
  ASSUME Init
  PROVE  Inductive
<1>1. /\ DOMAIN items = {} /\ updates = {} /\ reading = Nobody /\ arriving = {}
      /\ held = [r \in Clients |-> {}] /\ list = [r \in Clients |-> << >>]
      /\ deleted = [r \in Clients |-> {}] /\ pendingStructs = [r \in Clients |-> {}]
      /\ missing = [r \in Clients |-> {}] /\ pendingDs = [r \in Clients |-> {}]
  BY DEF Init
<1>2. \A r \in Clients : /\ ToSet(list[r]) = {} /\ held[r] = {} /\ deleted[r] = {}
                         /\ pendingStructs[r] = {} /\ missing[r] = {} /\ pendingDs[r] = {}
                         /\ ArrivingAt(r) = {} /\ IsInjective(list[r])
  BY <1>1 DEF ToSet, ArrivingAt, IsInjective
<1>3. list \in [Clients -> Seq(DOMAIN items)]
  BY <1>1
<1>4. WellTyped
  BY <1>1, <1>2, <1>3 DEF WellTyped, TypeOK
<1>5. ArrivingIsNew /\ NeedsAreThere /\ NeedsAreOlder /\ OwnNeighboursAreOlder
  BY <1>1, <1>2 DEF ArrivingIsNew, NeedsAreThere, NeedsAreOlder, OwnNeighboursAreOlder
<1>6. EveryListWellPlaced
  BY <1>2 DEF EveryListWellPlaced, WellPlaced, InItsGap, Nested, RightStartsBefore, EndsWithin,
              LatestFirst, SiblingsInOrder
<1>7. SameOrder
  BY <1>2 DEF SameOrder
<1>8. Accounted /\ Awaited
  BY <1>2 DEF Accounted, Awaited, Arrived
<1>9. WordsAreWhole /\ TypedOutsideWords
  BY <1>1, <1>2 DEF WordsAreWhole, TypedOutsideWords
<1> QED BY <1>4, <1>5, <1>6, <1>7, <1>8, <1>9 DEF Inductive

\* Every step of every replica keeps the lists well placed and in the same order,
\* loses nothing of what was received, and notes down what it waits for.
THEOREM InductiveHolds == Spec => []Inductive
<1>1. Init => Inductive
  BY InitInductive
<1>2. Inductive /\ [Next]_vars => Inductive'
  <2> SUFFICES ASSUME Inductive, [Next]_vars PROVE Inductive'
    OBVIOUS
  <2>1. ASSUME NEW r \in Clients, Edit(r) \/ Replace(r) PROVE Inductive'
    BY <2>1, EditKeeps
  <2>2. ASSUME NEW r \in Clients, ReceiveUpdate(r) \/ ReceiveAnswer(r) PROVE Inductive'
    BY <2>2, ReceiveKeeps
  <2>3. ASSUME NEW r \in Clients, IntegrateItem(r) PROVE Inductive'
    BY <2>3, IntegrateKeeps
  <2>4. ASSUME NEW r \in Clients, FinishReading(r) PROVE Inductive'
    BY <2>4, FinishKeeps
  <2>5. CASE UNCHANGED vars
    BY <2>5, StutterKeeps
  <2> QED BY <2>1, <2>2, <2>3, <2>4, <2>5 DEF Next
<1> QED BY <1>1, <1>2, PTL DEF Spec

\* The variables have their types, and no item is twice in a list.
THEOREM TypesHold == Spec => []TypeOK
<1>1. Inductive => TypeOK
  BY DEF Inductive, WellTyped
<1> QED BY <1>1, InductiveHolds, PTL

\* Two replicas have the items that both have in the same order.
THEOREM OrderIsTheSame == Spec => []SameOrder
<1>1. Inductive => SameOrder
  BY DEF Inductive
<1> QED BY <1>1, InductiveHolds, PTL

-----------------------------------------------------------------------------
(* What follows from it.                                                   *)

\* A replica that is idle has deleted, of what it has, what an update that it holds
\* deletes, and has all it received in its list, but for what waits.
LEMMA IdleReplica ==
  ASSUME Inductive, NEW r \in Clients, Idle(r)
  PROVE  /\ ToSet(list[r]) = (UNION {u.items : u \in held[r]}) \ Waiting(r)
         /\ deleted[r] = (UNION {u.deletes : u \in held[r]}) \cap ToSet(list[r])
<1>1. /\ ToSet(list[r]) \cup pendingStructs[r] \cup ArrivingAt(r) = UNION {u.items : u \in held[r]}
      /\ deleted[r] \cup pendingDs[r] = UNION {u.deletes : u \in held[r]}
      /\ pendingDs[r] \cap ToSet(list[r]) = {} /\ deleted[r] \subseteq ToSet(list[r])
  BY DEF Inductive, Accounted, WellTyped, TypeOK
<1>2. ArrivingAt(r) = {}
  BY DEF ArrivingAt, Idle
<1>3. ToSet(list[r]) = (ToSet(list[r]) \cup pendingStructs[r]) \ Waiting(r)
  BY DEF Waiting
<1>4. (deleted[r] \cup pendingDs[r]) \cap ToSet(list[r]) = deleted[r]
  BY <1>1
<1> QED BY <1>1, <1>2, <1>3, <1>4

\* Whatever the order in which two replicas read the same updates, alone or in
\* answers, they show the same text once they have the same items waiting.
THEOREM TextFollowsFromUpdates == Spec => []TextIsFunctionOfHeld
<1>1. Inductive => TextIsFunctionOfHeld
  <2> SUFFICES ASSUME Inductive, NEW r \in Clients, NEW s \in Clients, Idle(r), Idle(s),
                      held[r] = held[s], Waiting(r) = Waiting(s)
               PROVE  Text(r) = Text(s)
    BY DEF TextIsFunctionOfHeld
  <2>1. ToSet(list[r]) = ToSet(list[s]) /\ deleted[r] = deleted[s]
    BY IdleReplica
  <2>2. TypeOK /\ SameOrder
    BY DEF Inductive, WellTyped
  <2>3. /\ list[r] \in Seq(Id) /\ IsInjective(list[r]) /\ list[s] \in Seq(Id) /\ IsInjective(list[s])
    BY <2>2, ListFacts
  <2>4. \A x, y \in ToSet(list[r]) :
          Position(list[r], x) < Position(list[r], y) <=> Position(list[s], x) < Position(list[s], y)
    BY <2>1, <2>2 DEF SameOrder
  <2>5. list[r] = list[s]
    BY ONLY <2>1, <2>3, <2>4, SameOrderSameList
  <2> QED BY <2>1, <2>5 DEF Text
<1> QED BY <1>1, InductiveHolds, PTL

\* A replica that waits for an item has noted down a clock that it has not reached.
THEOREM NothingIsForgotten == Spec => []WaitsForSomething
<1>1. Inductive => WaitsForSomething
  BY DEF Inductive, WaitsForSomething, Accounted, Awaited, ArrivingAt, Idle
<1> QED BY <1>1, InductiveHolds, PTL

\* Between two neighbours of a word stands only what was typed there: whatever comes
\* after the first was typed after it or after something that stands in between, and
\* ends, as what it was typed after does, before the second.
THEOREM WordsHoldTogether == Spec => []WordsStayTogether
<1>1. Inductive => WordsStayTogether
  <2> SUFFICES ASSUME Inductive, NEW r \in Clients, NEW u \in held[r], NEW b \in u.items,
                      NEW a, a = <<b[1], b[2] - 1>>, a \in u.items, Has(r, b),
                      NEW x \in Between(list[r], a, b)
               PROVE  /\ items[x].origin \in {a} \cup Between(list[r], a, b)
                      /\ items[x].rightOrigin \in {b} \cup Between(list[r], a, b)
    BY DEF WordsStayTogether
  <2> DEFINE seq == list[r]
             S   == ToSet(seq)
             p   == At(seq)
             I   == Between(seq, a, b)
  <2>1. /\ TypeOK /\ NeedsAreThere /\ WordsAreWhole /\ TypedOutsideWords /\ WellTyped
        /\ WellPlaced(S, p, items) /\ Placing(S, p, items) /\ u \in updates
    BY ListPlacing DEF Inductive, WellTyped, EveryListWellPlaced, TypeOK
  <2>2. /\ seq \in Seq(Id) /\ IsInjective(seq) /\ Len(seq) \in Nat /\ NoId \notin S
    BY <2>1, ListFacts
  <2>3. a \in DOMAIN items /\ b \in DOMAIN items /\ Next2(a, b)
    <3>1. a \in DOMAIN items /\ b \in DOMAIN items  BY <2>1 DEF WellTyped
    <3>2. b = <<b[1], b[2]>> /\ b[2] \in Nat  BY <3>1, <2>1, IdFacts DEF TypeOK
    <3>3. b = <<a[1], a[2] + 1>>
      <4>1. a[1] = b[1] /\ a[2] = b[2] - 1 /\ (b[2] - 1) + 1 = b[2]  BY <3>2
      <4> QED BY <3>2, <4>1
    <3> QED BY <3>1, <3>3, <2>1 DEF Next2
  <2>4. items[b].origin = a /\ a # NoId /\ b \in S /\ a \in S
    <3>1. items[b].origin = a  BY <2>1, <2>3 DEF WordsAreWhole
    <3>2. a # NoId  BY <2>1, <2>3, IdFacts DEF TypeOK
    <3> QED BY <3>1, <3>2, <2>1 DEF Placing, Has
  <2>5. /\ \A y \in S : p[y] = Position(seq, y) /\ p[y] \in 1..Len(seq) /\ seq[p[y]] = y
        /\ \A n \in 1..Len(seq) : seq[n] \in S /\ p[seq[n]] = n
    BY <2>2, AtProperties
  <2>6. \A y : y \in I <=> y \in S /\ p[a] < p[y] /\ p[y] < p[b]
    <3> DEFINE m == p[a] + 1
               n == p[b] - 1
               sub == SubSeq(seq, m, n)
    <3>1. I = ToSet(sub) /\ m \in 1..(Len(seq) + 1) /\ n \in 0..Len(seq) /\ m - 1 = p[a] /\ n + 1 = p[b]
      BY <2>2, <2>4, <2>5 DEF Between
    <3>2. /\ Len(sub) = IF m <= n THEN (n - m) + 1 ELSE 0
          /\ \A i \in 1..Len(sub) : sub[i] = seq[m + i - 1]
          /\ DOMAIN sub = 1..Len(sub)
      <4>1. n <= Len(seq)  BY <3>1, <2>2
      <4> HIDE DEF m, n, S, p, I
      <4> QED BY <2>2, <3>1, <4>1 DEF sub
    <3>3. ASSUME NEW y \in I PROVE y \in S /\ p[a] < p[y] /\ p[y] < p[b]
      <4>1. PICK i \in 1..Len(sub) : y = sub[i]
        <5> HIDE DEF sub
        <5> QED BY <3>1, <3>2, <3>3 DEF ToSet
      <4> HIDE DEF sub
      <4>2. y = seq[m + i - 1] /\ m <= n /\ i <= (n - m) + 1 /\ i \in Nat /\ i > 0
        <5> HIDE DEF m, n
        <5> QED BY <4>1, <3>1, <3>2, <2>2
      <4>3. m + i - 1 \in 1..Len(seq) /\ p[a] < m + i - 1 /\ m + i - 1 < p[b]
        <5>1. m \in Int /\ n \in Int /\ 1 <= m /\ n <= Len(seq)  BY <3>1, <2>2
        <5>2. m - 1 = p[a] /\ n + 1 = p[b]  BY <3>1
        <5> HIDE DEF m, n, p, seq
        <5>3. /\ m + i - 1 \in 1..Len(seq)
              /\ m - 1 < m + i - 1 /\ m + i - 1 < n + 1
          BY ONLY <4>2, <5>1, <2>2
        <5> QED BY <5>2, <5>3
      <4> QED BY <4>2, <4>3, <2>5
    <3>4. ASSUME NEW y \in S, p[a] < p[y], p[y] < p[b] PROVE y \in I
      <4> DEFINE i == (p[y] - p[a])
      <4>1. p[y] \in Nat /\ p[a] \in Nat /\ p[b] \in Nat  BY <2>2, <2>4, <2>5
      <4>2. m <= n /\ i \in 1..((n - m) + 1) /\ m + i - 1 = p[y]
        <5> HIDE DEF p
        <5> QED BY <3>4, <4>1
      <4> HIDE DEF i, m, n, sub, p
      <4>3. i \in 1..Len(sub)  BY <4>2, <3>2
      <4>4. sub[i] = y  BY <4>2, <4>3, <3>2, <2>5
      <4> QED BY <3>1, <3>2, <4>3, <4>4 DEF ToSet
    <3> QED BY <3>3, <3>4
  <2> HIDE DEF seq, S, p, I
  <2>7. \A y \in S : p[y] \in Nat /\ Start(p, items, y) \in Nat
    BY <2>1, StartProperties DEF Placing
  \* What stands in between was typed behind the first or behind something in between.
  <2>8. ASSUME NEW y \in I
        PROVE  /\ p[a] <= Start(p, items, y) /\ Start(p, items, y) < p[y]
               /\ items[y].origin \in S /\ items[y].origin \in {a} \cup I
               /\ Start(p, items, y) = p[items[y].origin]
    <3>1. y \in S /\ p[a] < p[y] /\ p[y] < p[b]  BY <2>6
    <3>2. Start(p, items, b) = p[a]  BY <2>4 DEF Start
    <3>3. p[a] <= Start(p, items, y) /\ Start(p, items, y) < p[y]
      BY <3>1, <3>2, <2>1, <2>4 DEF WellPlaced, Nested, InItsGap
    <3>4. 0 < p[a]  BY <2>1, <2>4 DEF Placing
    <3>5. items[y].origin # NoId  BY <3>3, <3>4, <2>4, <2>7 DEF Start
    <3>6. items[y].origin \in S /\ Start(p, items, y) = p[items[y].origin]
      BY <3>1, <3>5, <2>1, StartProperties
    <3>7. p[a] < p[items[y].origin] \/ p[items[y].origin] = p[a]  BY <3>3, <3>6, <2>4, <2>7
    <3>8. p[items[y].origin] = p[a] => items[y].origin = a  BY <3>6, <2>1, <2>4 DEF Placing
    <3>9. p[items[y].origin] < p[b]  BY <3>1, <3>3, <3>6, <2>4, <2>7
    <3> QED BY <3>3, <3>6, <3>7, <3>8, <3>9, <2>6
  \* It ends before the second: if it was typed behind the first, by TypedOutsideWords,
  \* and otherwise because what it was typed behind does.
  <2>9. \A y \in I : EndsBy(p, items, y, p[b])
    <3> SUFFICES ASSUME NEW z \in I, ~EndsBy(p, items, z, p[b]) PROVE FALSE
      OBVIOUS
    <3> DEFINE K == {p[y] : y \in {y \in I : ~EndsBy(p, items, y, p[b])}}
    <3>1. K \in SUBSET Nat /\ K # {}  BY <2>6, <2>7
    <3>2. PICK k \in K : \A n \in K : k <= n
      <4> HIDE DEF K
      <4> QED BY <3>1, LeastOf
    <3>3. PICK y \in I : ~EndsBy(p, items, y, p[b]) /\ p[y] = k  BY <3>2
    <3>4. y \in S /\ y # b /\ p[y] < p[b]  BY <2>6, <2>7
    <3>5. CASE items[y].origin = a
      <4>1. EndsBy(At(seq), items, y, Position(seq, b))
        BY <3>4, <3>5, <2>1, <2>3, <2>4 DEF TypedOutsideWords, S, seq, Has
      <4>2. Position(seq, b) = p[b] /\ At(seq) = p  BY <2>4, <2>5 DEF p
      <4> QED BY <4>1, <4>2, <3>3
    <3>6. CASE items[y].origin # a
      <4> DEFINE w == items[y].origin
      <4>1. w \in I /\ w \in S /\ p[w] < p[y]  BY <3>6, <2>8
      <4>2. EndsBy(p, items, w, p[b])
        <5> SUFFICES ASSUME ~EndsBy(p, items, w, p[b]) PROVE FALSE
          OBVIOUS
        <5>1. p[w] \in K  BY <4>1
        <5>2. k <= p[w] /\ p[w] < k  BY <5>1, <4>1, <3>2, <3>3
        <5>3. k \in Nat /\ p[w] \in Nat  BY <4>1, <3>4, <3>3, <2>7
        <5> HIDE DEF K, w
        <5> QED BY ONLY <5>2, <5>3
      <4> DEFINE v == items[w].rightOrigin
      <4>3. v # NoId /\ p[v] <= p[b]  BY <4>2 DEF EndsBy
      <4>4. v \in S /\ w # NoId  BY <4>1, <4>3, <2>1, <2>2 DEF Placing
      <4>5. EndsBy(p, items, y, p[v])  BY <3>4, <4>3, <4>4, <2>1 DEF WellPlaced, EndsWithin
      <4>6. items[y].rightOrigin # NoId /\ p[items[y].rightOrigin] <= p[v]  BY <4>5 DEF EndsBy
      <4>7. items[y].rightOrigin \in S  BY <4>6, <3>4, <2>1 DEF Placing
      <4>8. p[items[y].rightOrigin] <= p[b]  BY <4>3, <4>4, <4>6, <4>7, <2>4, <2>7
      <4> QED BY <4>6, <4>8, <3>3 DEF EndsBy
    <3> QED BY <3>5, <3>6
  <2> DEFINE v == items[x].rightOrigin
  <2>10. x \in I  BY DEF I, seq
  <2>11. v # NoId /\ p[v] <= p[b]  BY <2>9, <2>10 DEF EndsBy
  <2>12. x \in S /\ p[a] < p[x]  BY <2>6, <2>10
  <2>13. v \in S  BY <2>1, <2>11, <2>12 DEF Placing
  <2>14. ~(p[v] <= p[x])  BY <2>1, <2>11, <2>12 DEF WellPlaced, InItsGap, EndsBy
  <2>15. p[a] < p[v] /\ (p[v] < p[b] \/ p[v] = p[b])  BY <2>4, <2>7, <2>11, <2>12, <2>13, <2>14
  <2>16. p[v] = p[b] => v = b  BY <2>1, <2>4, <2>13 DEF Placing
  <2>17. v \in {b} \cup I  BY <2>6, <2>13, <2>15, <2>16
  <2> QED BY <2>8, <2>10, <2>17 DEF I, seq
<1> QED BY <1>1, InductiveHolds, PTL
=============================================================================
