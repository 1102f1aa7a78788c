-------------------------- MODULE NoteTextInvariant --------------------------
(* The inductive invariant behind the properties of NoteText.              *)
EXTENDS NoteText

-----------------------------------------------------------------------------
(* What a list looks like: S is a set of items, p gives each its position  *)
(* and o is what they were typed between.                                  *)

At(seq) == [id \in ToSet(seq) |-> Position(seq, id)]

\* The position of the item that x was typed behind.
Start(p, o, x) == IF o[x].origin = NoId THEN 0 ELSE p[o[x].origin]

\* What x was typed before stands at position n or earlier.
EndsBy(p, o, x, n) == o[x].rightOrigin # NoId /\ p[o[x].rightOrigin] <= n

\* An item stands between the two it was typed between.
InItsGap(S, p, o) ==
  \A x \in S : Start(p, o, x) < p[x] /\ ~EndsBy(p, o, x, p[x])

\* What stands between an item and the one it was typed behind was typed there too.
Nested(S, p, o) ==
  \A x, y \in S : Start(p, o, x) < p[y] /\ p[y] < p[x] => Start(p, o, x) <= Start(p, o, y)

\* What an item was typed before was itself typed behind nothing later ...
RightStartsBefore(S, p, o) ==
  \A x \in S : o[x].rightOrigin # NoId => Start(p, o, o[x].rightOrigin) <= Start(p, o, x)

\* ... and what it was typed behind ends no earlier.
EndsWithin(S, p, o) ==
  \A x \in S : o[x].origin # NoId /\ o[o[x].origin].rightOrigin # NoId
    => EndsBy(p, o, x, p[o[o[x].origin].rightOrigin])

\* Who types at the same place again types before what he typed there.
LatestFirst(S, p, o) ==
  \A x, z \in S : o[x].origin = o[z].origin /\ x[1] = z[1] /\ z[2] < x[2]
    => EndsBy(p, o, x, p[z])

\* Of two items typed at the same place the one of the smaller client is first,
\* unless the other was typed after it.
SiblingsInOrder(S, p, o) ==
  \A y, z \in S : o[y].origin = o[z].origin /\ p[y] < p[z]
    => EndsBy(p, o, y, p[z]) \/ y[1] < z[1]

WellPlaced(S, p, o) ==
  /\ InItsGap(S, p, o) /\ Nested(S, p, o)
  /\ RightStartsBefore(S, p, o) /\ EndsWithin(S, p, o)
  /\ LatestFirst(S, p, o) /\ SiblingsInOrder(S, p, o)

-----------------------------------------------------------------------------
(* The parts of the invariant.                                             *)

\* A list holds what its items need.
NeedsAreThere == \A r \in Clients : \A id \in ToSet(list[r]) : Needs(id) \subseteq ToSet(list[r])

\* Items need only what was made before: any set of them has one that needs none
\* of the others.
NeedsAreOlder ==
  \A T \in SUBSET DOMAIN items : T # {} => \E x \in T : Needs(x) \cap T = {}

\* The neighbours of an item that are of its own client have smaller clocks.
OwnNeighboursAreOlder ==
  \A id \in DOMAIN items : \A o \in {items[id].origin, items[id].rightOrigin} :
    o[1] = id[1] => o[2] < id[2]

EveryListWellPlaced ==
  \A r \in Clients : WellPlaced(ToSet(list[r]), At(list[r]), items)

\* What is read is not in the list yet.
ArrivingIsNew == reading # Nobody => arriving \cap ToSet(list[reading]) = {}

ArrivingAt(r) == IF reading = r THEN arriving ELSE {}

\* Nothing a replica received is lost, neither an item nor a deletion.
Accounted ==
  \A r \in Clients :
    /\ ToSet(list[r]) \cup pendingStructs[r] \cup ArrivingAt(r) = UNION {u.items : u \in held[r]}
    /\ deleted[r] \cup pendingDs[r] = UNION {u.deletes : u \in held[r]}
    /\ Idle(r) => pendingDs[r] \cap ToSet(list[r]) = {}

\* b is the character after a of a word.
Next2(a, b) == b = <<a[1], a[2] + 1>> /\ \E u \in updates : a \in u.items /\ b \in u.items

\* The characters of a word were typed one behind the other, arrive together and
\* are integrated in one go.
WordsAreWhole ==
  \A a, b \in DOMAIN items : Next2(a, b) =>
    /\ items[b].origin = a /\ items[b].rightOrigin = items[a].rightOrigin
    /\ \A u \in updates : a \in u.items => b \in u.items
    /\ \A r \in Clients :
         /\ a \in ToSet(list[r]) \cup ArrivingAt(r) => b \in ToSet(list[r]) \cup ArrivingAt(r)
         /\ a \in pendingStructs[r] => b \in pendingStructs[r] \cup ToSet(list[r])

\* Who types behind a character of a word types before the next.
TypedOutsideWords ==
  \A r \in Clients : \A x \in ToSet(list[r]) : \A b \in DOMAIN items :
    Next2(items[x].origin, b) /\ x # b =>
      /\ x[1] = r => Has(r, b)
      /\ Has(r, b) => EndsBy(At(list[r]), items, x, Position(list[r], b))

\* While something is pending a clock is noted down, never one of the replica's own
\* and, between two readings, never one that was reached.
Awaited ==
  \A r \in Clients :
    /\ pendingStructs[r] # {} => missing[r] # {}
    /\ \A id \in missing[r] : id[1] # r
    /\ Idle(r) => ~Arrived(r)

WellTyped ==
  /\ TypeOK
  /\ (reading = Nobody) => arriving = {}
  /\ \A u \in updates : u.items \subseteq DOMAIN items /\ u.deletes \subseteq DOMAIN items

Inductive ==
  /\ WellTyped /\ ArrivingIsNew
  /\ NeedsAreThere /\ NeedsAreOlder /\ OwnNeighboursAreOlder
  /\ EveryListWellPlaced /\ SameOrder
  /\ Accounted /\ Awaited
  /\ WordsAreWhole /\ TypedOutsideWords

=============================================================================
