------------------------------- MODULE NoteText -------------------------------
(***************************************************************************)
(* One text of a note of realtime-collaboration (its content, title or     *)
(* tags) as the Yjs replica of every browser keeps it: a list of           *)
(* characters that are never taken out, only marked as deleted.            *)
(*                                                                         *)
(* An item is one character, named by its client and the client's clock.   *)
(* It remembers the neighbours it was typed between, origin and            *)
(* rightOrigin, and every replica finds the place for it on its own.  A    *)
(* longer insertion is a chain of such items, as Yjs cuts it when needed.  *)
(* What a client does in one transaction is an update; updates reach the   *)
(* others in any order and number, alone or in the answer to a sync        *)
(* question, which holds all that the answering replica has.               *)
(*                                                                         *)
(* NoteServer takes a document for the set of the updates it holds.  Here  *)
(* the text is seen to be a function of that set and of the items in it    *)
(* that still wait for others.                                             *)
(***************************************************************************)
EXTENDS Integers, Sequences, FiniteSets, SequencesExt

CONSTANTS
  Clients,      \* the clientIDs
  MaxItems,     \* bound on the items each client makes
  MaxWord,      \* bound on the characters typed at once
  MaxUpdates    \* bound on the updates

NoId   == <<0, 0>>
Nobody == 0

ASSUME ClientAssumption == Clients \subseteq Nat \ {Nobody}
ASSUME BoundsAssumption ==
  MaxItems \in [Clients -> Nat] /\ MaxWord \in Nat \ {0} /\ MaxUpdates \in Nat

VARIABLES
  items,          \* every item made: id -> origin and rightOrigin
  updates,        \* every update made: the items and the deletions in it
  held,           \* replica: the updates it has got
  list,           \* replica: its list of items, the deleted ones included
  deleted,        \* replica: the items in it that are marked as deleted
  pendingStructs, \* replica: items that wait for another one ...
  missing,        \* replica: ... and the clocks that are waited for
  pendingDs,      \* replica: deletions of items it does not have
  reading,        \* the replica that is in readUpdateV2, or Nobody
  arriving        \* what it has still to integrate

pending == <<pendingStructs, missing, pendingDs>>
vars == <<items, updates, held, list, deleted, pending, reading, arriving>>

Id     == UNION {{c} \X (1..MaxItems[c]) : c \in Clients}
Origin == [origin : Id \cup {NoId}, rightOrigin : Id \cup {NoId}]
Update == [items : SUBSET Id, deletes : SUBSET Id]

Init ==
  /\ items = [id \in {} |-> NoId]
  /\ updates = {}
  /\ held = [r \in Clients |-> {}]
  /\ list = [r \in Clients |-> << >>]
  /\ deleted = [r \in Clients |-> {}]
  /\ pendingStructs = [r \in Clients |-> {}]
  /\ missing = [r \in Clients |-> {}]
  /\ pendingDs = [r \in Clients |-> {}]
  /\ reading = Nobody /\ arriving = {}

-----------------------------------------------------------------------------
(* The list of one replica.                                                *)

Has(r, id) == id \in ToSet(list[r])
GetState(r, c) == Cardinality({id \in ToSet(list[r]) : id[1] = c})

Position(seq, id) == CHOOSE n \in DOMAIN seq : seq[n] = id

\* The position an item is typed behind, and the one it is typed before.
Behind(seq, id) == IF id = NoId THEN 0 ELSE Position(seq, id)
Ahead(seq, id)  == IF id = NoId THEN Len(seq) + 1 ELSE Position(seq, id)

Visible(r) == ToSet(list[r]) \ deleted[r]

\* What the replica shows.
Shown(seq, gone) == SelectSeq(seq, LAMBDA id : id \notin gone)
Text(r) == Shown(list[r], deleted[r])

\* A word goes behind position n.
Spliced(seq, n, word) == SubSeq(seq, 1, n) \o word \o SubSeq(seq, n + 1, Len(seq))

\* Mutant: an item goes right behind the one it was typed after.
FindLeftOfOrigin(seq, id, origins) == Behind(seq, origins[id].origin)

\* Mutant: only what was typed after the same item is compared.
FindLeftAmongSiblings(seq, id, origins) ==
  LET o        == origins[id]
      first    == Behind(seq, o.origin)
      smaller  == {n \in (first + 1)..Len(seq) :
                     origins[seq[n]].origin = o.origin /\ seq[n][1] < id[1]}
  IN  Max(smaller \cup {first})

\* One round of the loop of Item.integrate, at position n: an item typed in the
\* same place stays left if its client is smaller, one typed after an item that
\* stays left does too.  conflictingItems are the ones from found.left to n,
\* itemsBeforeOrigin those from the origin to n.
Look(seq, id, origins, found, n) ==
  LET o    == origins[id]
      p    == origins[seq[n]]
      from == Behind(seq, p.origin)
  IN  CASE found.stopped -> found
        [] ~found.stopped /\ p.origin = o.origin ->
             IF seq[n][1] < id[1] THEN [left |-> n, stopped |-> FALSE]
             ELSE [left |-> found.left, stopped |-> p.rightOrigin = o.rightOrigin]
        [] ~found.stopped /\ p.origin # o.origin ->
             IF from <= Behind(seq, o.origin) THEN [left |-> found.left, stopped |-> TRUE]
             ELSE [left |-> IF from <= found.left THEN n ELSE found.left, stopped |-> FALSE]

\* Item.integrate: the position in seq of the item that id goes after, 0 for the
\* start.  The items between the two it was typed between are looked at in turn.
FindLeft(seq, id, origins) ==
  LET first == Behind(seq, origins[id].origin)
      last  == Ahead(seq, origins[id].rightOrigin) - 1
      found[n \in first..last] ==
        IF n = first THEN [left |-> first, stopped |-> FALSE]
        ELSE Look(seq, id, origins, found[n - 1], n)
  IN  found[last].left

Integrated(seq, id, origins) == Spliced(seq, FindLeft(seq, id, origins), <<id>>)

-----------------------------------------------------------------------------
(* Editing: what the input listener of script.js and the editor call.      *)

\* The item right before the place, which is the end or before a visible item:
\* minimizeAttributeChanges has skipped the deleted ones.
LeftOf(r, right) ==
  LET n == Ahead(list[r], right) - 1
  IN  IF n = 0 THEN NoId ELSE list[r][n]

\* insertText: a word is a chain of new items, each typed after the one before
\* and all of them before the same item.
Word(r, size) == [n \in 1..size |-> <<r, GetState(r, r) + n>>]

TypedBetween(id, word, left, right) ==
  [origin      |-> IF id = word[1] THEN left ELSE <<id[1], id[2] - 1>>,
   rightOrigin |-> right]

\* The transaction of a client: a word before the item right, and deletions.
Transact(r, word, right, deletes) ==
  LET update == [items |-> ToSet(word), deletes |-> deletes]
  IN  /\ reading = Nobody /\ Cardinality(updates) < MaxUpdates
      /\ GetState(r, r) + Len(word) <= MaxItems[r]
      /\ items' = [id \in DOMAIN items \cup ToSet(word) |->
                     IF id \in ToSet(word) THEN TypedBetween(id, word, LeftOf(r, right), right)
                     ELSE items[id]]
      /\ list' = [list EXCEPT ![r] = Spliced(@, Ahead(@, right) - 1, word)]
      /\ deleted' = [deleted EXCEPT ![r] = @ \cup deletes]
      /\ updates' = updates \cup {update}
      /\ held' = [held EXCEPT ![r] = @ \cup {update}]
      /\ UNCHANGED <<pending, reading, arriving>>

\* What stands from one item to before another is replaced by a word of size: it is
\* deleted first, and the word goes behind it.
Change(r, from, right, size) ==
  LET place(id) == Ahead(list[r], id)
      deletes   == {id \in Visible(r) : place(from) <= place(id) /\ place(id) < place(right)}
  IN  Transact(r, Word(r, size), right, deletes) /\ size + Cardinality(deletes) > 0

\* The editor: something is typed, deleted or replaced.
Edit(r) ==
  \E from, right \in Visible(r) \cup {NoId} : \E size \in 0..MaxWord :
    Change(r, from, right, size) /\ Ahead(list[r], from) <= Ahead(list[r], right)

\* The input listener of title and tags: delete(0, length), insert(0, newValue).
Replace(r) ==
  \E size \in 0..MaxWord :
    Transact(r, Word(r, size), NoId, Visible(r)) /\ size + Cardinality(Visible(r)) > 0

-----------------------------------------------------------------------------
(* Reading an update: readUpdateV2.                                        *)

\* What an item waits for, NoId if for nothing: the one before it of its client,
\* or the next one of the client of its origin or rightOrigin.
WaitsFor(r, id) ==
  LET NextOf(c) == <<c, GetState(r, c) + 1>>
      Lacks(o)  == o # NoId /\ o[1] # id[1] /\ ~Has(r, o)
  IN  CASE id[2] > GetState(r, id[1]) + 1 -> <<id[1], id[2] - 1>>
        [] id[2] <= GetState(r, id[1]) + 1 /\ Lacks(items[id].origin) ->
             NextOf(items[id].origin[1])
        [] id[2] <= GetState(r, id[1]) + 1 /\ ~Lacks(items[id].origin)
             /\ Lacks(items[id].rightOrigin) -> NextOf(items[id].rightOrigin[1])
        [] OTHER -> NoId

\* Mutant: only what lacks the one before it of its client notes a clock.
MissingOfGaps(r, rest) == {WaitsFor(r, id) : id \in {i \in rest : WaitsFor(r, i)[1] = i[1]}}

\* Of the items that are left, what the first one of a client waits for.  The clients
\* are taken from the largest down; one whose item waits for an item of another that
\* has some left goes on the stack, and the other one is tried.  If that one waits
\* too all that is on the stack is left, and only its last wait is noted down.
MissingOf(r, rest) ==
  LET firsts      == {i \in rest : \A j \in rest : j[1] = i[1] => j[2] >= i[2]}
      left        == {i[1] : i \in rest}
      Closed(S)   == \A i \in firsts : i[1] \in S => WaitsFor(r, i)[1] \in S \cup (Clients \ left)
      Tries(c, k) == \A S \in SUBSET left : c \in S /\ Closed(S) => k \in S
      Turn(k)     == Max({c \in left : Tries(c, k)})
      Stacked(c, k) == k # c /\ k \in left /\ Turn(k) = Turn(c)
  IN  {WaitsFor(r, i) : i \in {i \in firsts : ~Stacked(i[1], WaitsFor(r, i)[1])}}

Deletions(r) == [deleted EXCEPT ![r] = @ \cup (pendingDs[r] \cap ToSet(list[r]))]

\* Mutant: deletions that cannot be applied are dropped.
NothingUndeleted(r) == [pendingDs EXCEPT ![r] = {}]

Undeleted(r) == [pendingDs EXCEPT ![r] = @ \ ToSet(list[r])]

\* Mutant: items that are there already are read again.
ReadTwice(r, structs, deletes, from) ==
  /\ reading = Nobody /\ ~(from \subseteq held[r])
  /\ reading' = r /\ arriving' = structs
  /\ pendingDs' = [pendingDs EXCEPT ![r] = @ \cup deletes]
  /\ held' = [held EXCEPT ![r] = @ \cup from]
  /\ UNCHANGED <<items, updates, list, deleted, pendingStructs, missing>>

\* An update, or what another replica has, arrives: readClientsStructRefs.
Read(r, structs, deletes, from) ==
  /\ reading = Nobody /\ ~(from \subseteq held[r])
  /\ reading' = r
  /\ arriving' = structs \ ToSet(list[r])
  /\ pendingDs' = [pendingDs EXCEPT ![r] = @ \cup deletes]
  /\ held' = [held EXCEPT ![r] = @ \cup from]
  /\ UNCHANGED <<items, updates, list, deleted, pendingStructs, missing>>

ReceiveUpdate(r) ==
  \E u \in updates : Read(r, u.items, u.deletes, {u})

\* encodeStateAsUpdate: the list and what is pending.
ReceiveAnswer(r) ==
  \E s \in Clients \ {r} :
    Read(r, ToSet(list[s]) \cup pendingStructs[s], deleted[s] \cup pendingDs[s], held[s])

\* integrateStructs takes an item that waits for nothing.  Its order is by client
\* with a stack for what has to come first; here it is any order.
IntegrateItem(r) ==
  /\ reading = r
  /\ \E id \in arriving :
       /\ WaitsFor(r, id) = NoId
       /\ list' = [list EXCEPT ![r] = Integrated(@, id, items)]
       /\ arriving' = arriving \ {id}
  /\ UNCHANGED <<items, updates, held, deleted, pending, reading>>

Arrived(r) == \E id \in missing[r] : Has(r, id)

\* Nothing more can be taken.  What is left joins what is pending; if something
\* that was waited for is there, all of that is read again as one update.
FinishReading(r) ==
  LET rest == arriving
  IN  /\ reading = r /\ \A id \in arriving : WaitsFor(r, id) # NoId
      /\ deleted' = Deletions(r) /\ pendingDs' = Undeleted(r)
      /\ IF Arrived(r)
           THEN /\ arriving' = (pendingStructs[r] \cup rest) \ ToSet(list[r])
                /\ pendingStructs' = [pendingStructs EXCEPT ![r] = {}]
                /\ missing' = [missing EXCEPT ![r] = {}]
                /\ UNCHANGED reading
           ELSE /\ arriving' = {} /\ reading' = Nobody
                /\ pendingStructs' = [pendingStructs EXCEPT ![r] = @ \cup rest]
                /\ missing' = [missing EXCEPT ![r] = @ \cup MissingOf(r, rest)]
      /\ UNCHANGED <<items, updates, held, list>>

Next ==
  \E r \in Clients :
    \/ Edit(r) \/ Replace(r)
    \/ ReceiveUpdate(r) \/ ReceiveAnswer(r) \/ IntegrateItem(r) \/ FinishReading(r)

Spec == Init /\ [][Next]_vars

-----------------------------------------------------------------------------
(* Properties.                                                             *)

\* The variables have their types, no item is twice in a list, and every item made
\* is in its maker's.
TypeOK ==
  /\ DOMAIN items \subseteq Id /\ \A id \in DOMAIN items : items[id] \in Origin
  /\ updates \subseteq Update
  /\ held \in [Clients -> SUBSET updates]
  /\ list \in [Clients -> Seq(DOMAIN items)]
  /\ deleted \in [Clients -> SUBSET DOMAIN items]
  /\ pendingStructs \in [Clients -> SUBSET DOMAIN items]
  /\ missing \in [Clients -> SUBSET Id] /\ pendingDs \in [Clients -> SUBSET DOMAIN items]
  /\ reading \in Clients \cup {Nobody} /\ arriving \subseteq DOMAIN items
  /\ \A r \in Clients :
       /\ IsInjective(list[r]) /\ deleted[r] \subseteq ToSet(list[r])
       /\ \A id \in DOMAIN items : id[1] = r => Has(r, id)

Idle(r) == reading # r

\* Two replicas have the items that both have in the same order, whatever either
\* of them lacks and in whatever order its items came.
SameOrder ==
  \A r, s \in Clients : \A x, y \in ToSet(list[r]) \cap ToSet(list[s]) :
    Position(list[r], x) < Position(list[r], y) <=> Position(list[s], x) < Position(list[s], y)

\* What a replica received and cannot integrate yet.
Waiting(r) == pendingStructs[r] \ ToSet(list[r])

\* Replicas that hold the same updates, and have the same items waiting, show the
\* same text: what one has read in one order, or as an answer, the other may have
\* read in any other.
TextIsFunctionOfHeld ==
  \A r, s \in Clients :
    Idle(r) /\ Idle(s) /\ held[r] = held[s] /\ Waiting(r) = Waiting(s) => Text(r) = Text(s)

\* Replicas that have got every update show the same text.
SameUpdatesSameText ==
  \A r, s \in Clients :
    Idle(r) /\ Idle(s) /\ held[r] = updates /\ held[s] = updates => Text(r) = Text(s)

Between(seq, a, b) ==
  ToSet(SubSeq(seq, Position(seq, a) + 1, Position(seq, b) - 1))

\* What is typed at once stays together: between two neighbours of a word stands
\* only what somebody typed between them, never a part of a word that somebody
\* else typed at the same place at the same time.
WordsStayTogether ==
  \A r \in Clients : \A u \in held[r] : \A b \in u.items :
    LET a == <<b[1], b[2] - 1>>
    IN  a \in u.items /\ Has(r, b) =>
          \A x \in Between(list[r], a, b) :
            /\ items[x].origin \in {a} \cup Between(list[r], a, b)
            /\ items[x].rightOrigin \in {b} \cup Between(list[r], a, b)

\* The items that have to be in the list before an item.
Needs(id) ==
  (IF id[2] > 1 THEN {<<id[1], id[2] - 1>>} ELSE {})
    \cup ({items[id].origin, items[id].rightOrigin} \ {NoId})

\* A replica that has finished reading has every item it received, in its list or
\* pending, and while one is pending, a clock is noted down that has not been
\* reached: what is noted never arrives unnoticed.
WaitsForSomething ==
  \A r \in Clients : Idle(r) =>
    /\ ToSet(list[r]) \cup pendingStructs[r] = UNION {u.items : u \in held[r]}
    /\ pendingStructs[r] # {} => missing[r] # {}
    /\ ~Arrived(r)

=============================================================================
