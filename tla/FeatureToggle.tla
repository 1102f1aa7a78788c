----------------------------- MODULE FeatureToggle -----------------------------
(***************************************************************************)
(* The state of one feature of spring-togglz-user: a row and parameters in *)
(* two tables (JDBCStreamedStateRepository), behind a cache                *)
(* (CachingStateRepository) that threads read and the console writes       *)
(* through (UserSwitchStateRepository).                                    *)
(*                                                                         *)
(* A cached state is an object, StreamFeatureState: it holds the row and   *)
(* loads a parameter from the table when it is asked for it first.  Every  *)
(* statement has a connection of its own.  The limit of the cache, 1256    *)
(* entries, is above the number of features and never met.                 *)
(***************************************************************************)
EXTENDS Integers, FiniteSets

CONSTANTS
  Readers,   \* threads that ask isActive or getValue, again and again
  Writers,   \* edits of the feature; a value is named by the one who writes it
  Params,    \* names of parameters
  Asks,      \* the parameters that a reader asks for
  Names,     \* the parameters that a writer writes
  Stored,    \* whether the feature has a row at the beginning
  MaxFaults  \* bound on the statements that fail

None     == "none"        \* no row, no value
Before   == "before"      \* what was stored before the edits
NoParam  == "noParameter"
NoObject == 0

Objects == 1..(Cardinality(Readers) + 1)
Value   == Writers \cup {None, Before}

ASSUME StoredAssumption == Stored \in BOOLEAN /\ MaxFaults \in Nat
ASSUME AsksAssumption ==
  Asks \in [Readers -> SUBSET Params] /\ Names \in [Writers -> SUBSET Params]
ASSUME NamesAssumption == NoParam \notin Params /\ {None, Before} \cap Writers = {}

VARIABLES
  row,        \* TGZ_FEATURE: FLG_ACTIVE and COD_STRATEGY
  parameter,  \* TGZ_FEATURE_PARAMETER
  objects,    \* the states that were loaded; overtaken is a history variable:
              \*   the cache was evicted between its load and its put
  cache,      \* the entry of the feature: its object and whether it is expired
  reader,     \* reader: its place, its object, the parameters it asks for
  writer,     \* writer: its place, the parameters to write, what it has found;
              \*   dirty: it has written and not evicted since
  faults

tables == <<row, parameter>>
vars == <<tables, objects, cache, reader, writer, faults>>

Object == [row : Value, parameter : [Params -> Value], overtaken : BOOLEAN]
Entry  == [object : Objects \cup {NoObject}, expired : BOOLEAN]
Reader == [at : {"idle", "evict", "load", "put", "ask", "store"},
           object : Objects \cup {NoObject}, asks : SUBSET Params,
           param : Params \cup {NoParam}, found : Value]
Writer == [at : {"idle", "checkRow", "writeRow", "checkParam", "writeParam", "evict",
                 "done", "failed"},
           todo : SUBSET Params, param : Params \cup {NoParam},
           found : Value, dirty : BOOLEAN]

Loaded(r) == [row |-> r, parameter |-> [p \in Params |-> None], overtaken |-> FALSE]
NoEntry   == [object |-> NoObject, expired |-> FALSE]

ReaderAt(place, o, asks) ==
  [at |-> place, object |-> o, asks |-> asks, param |-> NoParam, found |-> None]
Idle == ReaderAt("idle", NoObject, {})

WriterAt(place, todo, param, found, dirty) ==
  [at |-> place, todo |-> todo, param |-> param, found |-> found, dirty |-> dirty]

Init ==
  /\ row = IF Stored THEN Before ELSE None
  /\ parameter = [p \in Params |-> None]
  /\ objects = [o \in Objects |-> Loaded(None)]
  /\ cache = NoEntry
  /\ reader = [r \in Readers |-> Idle]
  /\ writer = [w \in Writers |-> WriterAt("idle", Names[w], NoParam, None, FALSE)]
  /\ faults = 0

-----------------------------------------------------------------------------
(* Reading.                                                                *)

HasState(o) == o # NoObject /\ objects[o].row # None

\* The cache has returned o to a reader: without a state it is a miss.
Returned(o, asks) ==
  IF HasState(o) THEN ReaderAt("ask", o, asks) ELSE ReaderAt("load", NoObject, asks)

\* Mutant: an entry that has expired stays in the cache.
GetForGood(r) ==
  /\ reader[r].at = "idle"
  /\ reader' = [reader EXCEPT ![r] = Returned(cache.object, Asks[r])]
  /\ UNCHANGED <<tables, objects, cache, writer, faults>>

\* getFeatureState, LRUTimedInMemoryCache.get: an entry that has expired will be
\* evicted and is returned all the same.
Get(r) ==
  /\ reader[r].at = "idle"
  /\ reader' = [reader EXCEPT ![r] =
       IF cache.expired THEN ReaderAt("evict", cache.object, Asks[r])
       ELSE Returned(cache.object, Asks[r])]
  /\ UNCHANGED <<tables, objects, cache, writer, faults>>

Used == {reader[r].object : r \in Readers} \cup {cache.object}

\* An object that nobody refers to any longer is forgotten.
Collected(states) == [o \in Objects |-> IF o \in Used' THEN states[o] ELSE Loaded(None)]

Overtaken(state) == [row |-> state.row, parameter |-> state.parameter, overtaken |-> TRUE]

\* evict: the loads that run do not know of it.
Evicted ==
  /\ cache' = NoEntry
  /\ objects' = Collected([o \in Objects |->
       IF \E r \in Readers : reader[r].at = "put" /\ reader[r].object = o
       THEN Overtaken(objects[o]) ELSE objects[o]])

EvictExpired(r) ==
  /\ reader[r].at = "evict"
  /\ reader' = [reader EXCEPT ![r] = Returned(@.object, @.asks)]
  /\ Evicted
  /\ UNCHANGED <<tables, writer, faults>>

\* The memory of the next object: one that nobody refers to, and always the first.
Free == {o \in Objects : o \notin Used /\ \A n \in Objects \ Used : o <= n}

\* Mutant: the object that is cached without a state is filled.
LoadInPlace(r) ==
  /\ reader[r].at = "load"
  /\ \E new \in IF cache.object = NoObject THEN Free ELSE {cache.object} :
       /\ objects' = [objects EXCEPT ![new] = Loaded(row)]
       /\ reader' = [reader EXCEPT ![r] = ReaderAt("put", new, @.asks)]
  /\ UNCHANGED <<tables, cache, writer, faults>>

\* fillFeatureAttrs(new StreamFeatureState(..)): the row, into a new object.
Load(r) ==
  /\ reader[r].at = "load"
  /\ \E new \in Free :
       /\ objects' = [objects EXCEPT ![new] = Loaded(row)]
       /\ reader' = [reader EXCEPT ![r] = ReaderAt("put", new, @.asks)]
  /\ UNCHANGED <<tables, cache, writer, faults>>

\* A caller of a feature without a row goes on with its default state.
Put(r) ==
  /\ reader[r].at = "put"
  /\ cache' = [object |-> reader[r].object, expired |-> FALSE]
  /\ reader' = [reader EXCEPT ![r] =
       IF HasState(@.object) THEN ReaderAt("ask", @.object, @.asks) ELSE Idle]
  /\ objects' = Collected(objects)
  /\ UNCHANGED <<tables, writer, faults>>

\* StreamFeatureState.getParameter: what the object does not have is read.
GetParameter(r) ==
  /\ reader[r].at = "ask"
  /\ \E p \in reader[r].asks :
       reader' = [reader EXCEPT ![r] =
         IF objects[@.object].parameter[p] # None THEN ReaderAt("ask", @.object, @.asks \ {p})
         ELSE [at |-> "store", object |-> @.object, asks |-> @.asks \ {p}, param |-> p,
               found |-> parameter[p]]]
  /\ UNCHANGED <<tables, objects, cache, writer, faults>>

StoreParameter(r) ==
  /\ reader[r].at = "store"
  /\ objects' = [objects EXCEPT ![reader[r].object] =
       [row |-> @.row, parameter |-> [@.parameter EXCEPT ![reader[r].param] = reader[r].found],
        overtaken |-> @.overtaken]]
  /\ reader' = [reader EXCEPT ![r] = ReaderAt("ask", @.object, @.asks)]
  /\ UNCHANGED <<tables, cache, writer, faults>>

Answer(r) ==
  /\ reader[r].at = "ask" /\ reader[r].asks = {}
  /\ reader' = [reader EXCEPT ![r] = Idle]
  /\ UNCHANGED <<tables, cache, writer, faults>>
  /\ objects' = Collected(objects)

\* A statement of a reader fails: nothing is put, or stored.
ReadFails(r) ==
  /\ faults < MaxFaults /\ faults' = faults + 1
  /\ reader[r].at = "load" \/ (reader[r].at = "ask" /\ reader[r].asks # {})
  /\ reader' = [reader EXCEPT ![r] = Idle]
  /\ UNCHANGED <<tables, cache, writer>>
  /\ objects' = Collected(objects)

\* The time to live of the entry ends.
Expire ==
  /\ cache.object # NoObject /\ ~cache.expired
  /\ cache' = [cache EXCEPT !.expired = TRUE]
  /\ UNCHANGED <<tables, objects, reader, writer, faults>>

-----------------------------------------------------------------------------
(* Writing.                                                                *)

Fail(w) ==
  writer' = [writer EXCEPT ![w] = WriterAt("failed", {}, NoParam, None, @.dirty)]

\* UserSwitchStateRepository.setFeatureState: the state is written once with every
\* parameter that is left, or without one if it has none.
NextState(w, todo) ==
  \E p \in todo : writer' = [writer EXCEPT ![w] = WriterAt("checkRow", todo \ {p}, p, None, FALSE)]

SetFeatureState(w) ==
  /\ writer[w].at = "idle"
  /\ \/ NextState(w, writer[w].todo)
     \/ /\ writer[w].todo = {}
        /\ writer' = [writer EXCEPT ![w] = WriterAt("checkRow", {}, NoParam, None, FALSE)]
  /\ UNCHANGED <<tables, objects, cache, reader, faults>>

\* JDBCStreamedStateRepository.setFeatureState: check, then insert or update.
CheckRow(w) ==
  /\ writer[w].at = "checkRow"
  /\ writer' = [writer EXCEPT ![w] = WriterAt("writeRow", @.todo, @.param, row, @.dirty)]
  /\ UNCHANGED <<tables, objects, cache, reader, faults>>

\* A writer that found nothing and comes second breaks the primary key.
Collides(w, stored) == writer[w].found = None /\ stored # None

WriteRow(w) ==
  /\ writer[w].at = "writeRow"
  /\ IF Collides(w, row)
       THEN Fail(w) /\ UNCHANGED row
       ELSE /\ row' = w
            /\ writer' = [writer EXCEPT ![w] =
                 WriterAt(IF @.param = NoParam THEN "evict" ELSE "checkParam",
                          @.todo, @.param, None, TRUE)]
  /\ UNCHANGED <<parameter, objects, cache, reader, faults>>

CheckParameter(w) ==
  /\ writer[w].at = "checkParam"
  /\ writer' = [writer EXCEPT ![w] =
       WriterAt("writeParam", @.todo, @.param, parameter[@.param], @.dirty)]
  /\ UNCHANGED <<tables, objects, cache, reader, faults>>

WriteParameter(w) ==
  LET p == writer[w].param
  IN  /\ writer[w].at = "writeParam"
      /\ IF Collides(w, parameter[p])
           THEN Fail(w) /\ UNCHANGED parameter
           ELSE /\ parameter' = [parameter EXCEPT ![p] = w]
                /\ writer' = [writer EXCEPT ![w] =
                     WriterAt("evict", @.todo, @.param, None, @.dirty)]
      /\ UNCHANGED <<row, objects, cache, reader, faults>>

\* The edit goes on with its next state, or returns.
Proceed(w) ==
  \/ NextState(w, writer[w].todo)
  \/ /\ writer[w].todo = {}
     /\ writer' = [writer EXCEPT ![w] = WriterAt("done", {}, NoParam, None, FALSE)]

\* Mutant: the edit leaves the cache as it is.
EvictNothing(w) ==
  /\ writer[w].at = "evict" /\ Proceed(w)
  /\ UNCHANGED <<tables, objects, cache, reader, faults>>

\* CachingStateRepository.setFeatureState: evict comes after the write.
Evict(w) ==
  /\ writer[w].at = "evict" /\ Proceed(w)
  /\ UNCHANGED <<tables, reader, faults>>
  /\ Evicted

\* A statement fails, and the rest of the edit is left out, the eviction too.
WriteFails(w) ==
  /\ faults < MaxFaults /\ faults' = faults + 1
  /\ writer[w].at \in {"checkRow", "writeRow", "checkParam", "writeParam"}
  /\ Fail(w)
  /\ UNCHANGED <<tables, objects, cache, reader>>

-----------------------------------------------------------------------------
Reads(r) ==
  \/ Get(r) \/ EvictExpired(r) \/ Load(r) \/ Put(r) \/ GetParameter(r)
  \/ StoreParameter(r) \/ Answer(r)

Writes(w) ==
  \/ CheckRow(w) \/ WriteRow(w) \/ CheckParameter(w) \/ WriteParameter(w) \/ Evict(w)

Next ==
  \/ \E r \in Readers : Reads(r) \/ ReadFails(r)
  \/ \E w \in Writers : SetFeatureState(w) \/ Writes(w) \/ WriteFails(w)
  \/ Expire

Spec == Init /\ [][Next]_vars

\* Threads that have started go on, the feature is asked for again and again, and
\* time passes.  Nobody has to edit, and no statement has to fail.
FairSpec ==
  /\ Spec /\ WF_vars(Expire)
  /\ \A r \in Readers : WF_vars(Reads(r))
  /\ \A w \in Writers : WF_vars(Writes(w))

-----------------------------------------------------------------------------
(* Properties.                                                             *)

\* The variables have their types, and no reader loads into an object in use.
TypeOK ==
  /\ row \in Value /\ parameter \in [Params -> Value]
  /\ objects \in [Objects -> Object] /\ cache \in Entry
  /\ reader \in [Readers -> Reader] /\ writer \in [Writers -> Writer]
  /\ \A r, s \in Readers :
       r # s /\ reader[r].at = "put" => reader[r].object \notin {reader[s].object, cache.object}

\* The object says something else than the tables.
Stale(o) ==
  \/ objects[o].row # row
  \/ \E p \in Params : objects[o].parameter[p] \notin {None, parameter[p]}

\* A stale state is in the cache only while an edit is under way, or because one
\* failed half way, or because the cache was evicted between its load and its put:
\* otherwise an edit that has returned is seen by everyone who asks from then on.
StaleHasACause ==
  cache.object # NoObject /\ Stale(cache.object) =>
    \/ objects[cache.object].overtaken
    \/ \E w \in Writers : writer[w].dirty

\* Whatever edits collided or failed and whichever load came late, after the last
\* edit there comes a time from which on the cache says what the tables say: a
\* stale entry expires, and though it is returned once more then it is not kept.
EventuallyFresh ==
  <>[](cache.object = NoObject \/ ~Stale(cache.object))

=============================================================================
