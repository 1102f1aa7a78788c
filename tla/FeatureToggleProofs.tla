-------------------------- MODULE FeatureToggleProofs --------------------------
(***************************************************************************)
(* A stale state is in the cache only for one of the causes that           *)
(* StaleHasACause names, for any number of threads, edits and parameters.  *)
(***************************************************************************)
EXTENDS FeatureToggle, TLAPS

TypesOK ==
  /\ row \in Value /\ parameter \in [Params -> Value]
  /\ objects \in [Objects -> Object] /\ cache \in Entry
  /\ reader \in [Readers -> Reader] /\ writer \in [Writers -> Writer]

SomeoneIsDirty == \E w \in Writers : writer[w].dirty

\* A stale object that is, or will be, in the cache has a cause.
Excused(o) == Stale(o) => objects[o].overtaken \/ SomeoneIsDirty

CachedIsExcused == cache.object # NoObject => Excused(cache.object)

LoadingIsExcused == \A r \in Readers : reader[r].at = "put" => Excused(reader[r].object)

\* A parameter on its way into a cached object is not older than what is stored.
StoringIsExcused ==
  \A r \in Readers :
    reader[r].at = "store" /\ reader[r].object = cache.object
      /\ reader[r].found \notin {None, parameter[reader[r].param]} =>
        SomeoneIsDirty \/ objects[cache.object].overtaken

\* An object is its reader's own until it has been put.
OwnUntilPut ==
  \A r, s \in Readers :
    r # s /\ reader[r].at = "put" => reader[r].object \notin {reader[s].object, cache.object}

OwnIsNotCached ==
  \A r \in Readers : reader[r].at = "put" => reader[r].object # cache.object

\* What a reader has at its place.
Holds(n) ==
  /\ n.at \in {"evict", "put", "ask", "store"} => n.object \in Objects
  /\ n.at = "store" => n.param \in Params
  /\ n.at \in {"idle", "load"} => n.object = NoObject

HoldsObject ==
  /\ cache.expired => cache.object # NoObject
  /\ \A r \in Readers : Holds(reader[r])

\* Whoever has written the row and not evicted is dirty.
Accounts(n) ==
  /\ n.at \in {"checkParam", "writeParam", "evict"} => n.dirty
  /\ n.at \in {"checkParam", "writeParam"} => n.param \in Params
  /\ n.at = "idle" => ~n.dirty

WroteIsDirty == \A w \in Writers : Accounts(writer[w])

IInv ==
  /\ TypesOK
  /\ CachedIsExcused /\ LoadingIsExcused /\ StoringIsExcused
  /\ OwnUntilPut /\ OwnIsNotCached /\ HoldsObject /\ WroteIsDirty


-----------------------------------------------------------------------------
\* NoObject is not an object.
LEMMA NoObjectIsNone == \A o \in Objects : o # NoObject
  BY DEF Objects, NoObject

-----------------------------------------------------------------------------
(* The steps of a writer: what they leave alone is the same for all.       *)

\* A step that writes nothing and leaves nobody clean who was dirty.
LEMMA WriterStepKeeps ==
  ASSUME IInv, NEW w \in Writers, NEW n \in Writer, Accounts(n),
         writer' = [writer EXCEPT ![w] = n], writer[w].dirty => n.dirty,
         UNCHANGED <<tables, objects, cache, reader>>
  PROVE  IInv'
  <1>1. TypesOK' BY DEF IInv, TypesOK, tables
  <1>2. SomeoneIsDirty => SomeoneIsDirty' BY DEF IInv, TypesOK, SomeoneIsDirty
  <1>3. CachedIsExcused' BY <1>2 DEF IInv, CachedIsExcused, Excused, Stale, tables
  <1>4. LoadingIsExcused' BY <1>2 DEF IInv, LoadingIsExcused, Excused, Stale, tables
  <1>5. StoringIsExcused' BY <1>2 DEF IInv, StoringIsExcused, tables
  <1>6. OwnUntilPut' /\ OwnIsNotCached' /\ HoldsObject'
    BY DEF IInv, OwnUntilPut, OwnIsNotCached, HoldsObject
  <1>7. WroteIsDirty' BY DEF IInv, TypesOK, WroteIsDirty, Accounts
  <1>8. QED BY <1>1, <1>3, <1>4, <1>5, <1>6, <1>7 DEF IInv

\* A step that writes makes its writer dirty, and that excuses everything.
LEMMA WritingKeeps ==
  ASSUME IInv, NEW w \in Writers, NEW n \in Writer, Accounts(n), n.dirty,
         writer' = [writer EXCEPT ![w] = n],
         row' \in Value, parameter' \in [Params -> Value],
         UNCHANGED <<objects, cache, reader>>
  PROVE  IInv'
  <1>1. TypesOK' BY DEF IInv, TypesOK
  <1>2. SomeoneIsDirty' BY DEF IInv, TypesOK, SomeoneIsDirty
  <1>3. CachedIsExcused' /\ LoadingIsExcused' /\ StoringIsExcused'
    BY <1>2 DEF CachedIsExcused, LoadingIsExcused, StoringIsExcused, Excused
  <1>4. OwnUntilPut' /\ OwnIsNotCached' /\ HoldsObject'
    BY DEF IInv, OwnUntilPut, OwnIsNotCached, HoldsObject
  <1>5. WroteIsDirty' BY DEF IInv, TypesOK, WroteIsDirty, Accounts
  <1>6. QED BY <1>1, <1>2, <1>3, <1>4, <1>5 DEF IInv

LEMMA WriterAtTyped ==
  ASSUME NEW place \in {"idle", "checkRow", "writeRow", "checkParam", "writeParam", "evict",
                        "done", "failed"},
         NEW todo \in SUBSET Params, NEW param \in Params \cup {NoParam},
         NEW found \in Value, NEW dirty \in BOOLEAN
  PROVE  WriterAt(place, todo, param, found, dirty) \in Writer
  BY DEF WriterAt, Writer

LEMMA NoneIsValue == None \in Value
  BY DEF Value

\* The fields of a writer.
LEMMA WriterFields ==
  ASSUME IInv, NEW w \in Writers
  PROVE  /\ writer[w] \in Writer
         /\ writer[w].todo \in SUBSET Params /\ writer[w].param \in Params \cup {NoParam}
         /\ writer[w].dirty \in BOOLEAN
  BY DEF IInv, TypesOK, Writer

LEMMA FailKeeps ==
  ASSUME IInv, NEW w \in Writers, Fail(w), UNCHANGED <<tables, objects, cache, reader>>
  PROVE  IInv'
  <1> DEFINE n == WriterAt("failed", {}, NoParam, None, writer[w].dirty)
  <1>1. n \in Writer BY WriterFields, WriterAtTyped, NoneIsValue
  <1>2. Accounts(n) BY DEF Accounts, WriterAt
  <1>3. writer' = [writer EXCEPT ![w] = n] BY DEF Fail
  <1>4. writer[w].dirty => n.dirty BY DEF WriterAt
  <1>5. QED BY <1>1, <1>2, <1>3, <1>4, WriterStepKeeps

LEMMA SetFeatureStateKeeps == ASSUME IInv, NEW w \in Writers, SetFeatureState(w) PROVE IInv'
  <1>1. PICK todo \in SUBSET Params, param \in Params \cup {NoParam} :
          writer' = [writer EXCEPT ![w] = WriterAt("checkRow", todo, param, None, FALSE)]
    BY WriterFields DEF SetFeatureState, NextState
  <1> DEFINE n == WriterAt("checkRow", todo, param, None, FALSE)
  <1>2. n \in Writer BY WriterAtTyped, NoneIsValue
  <1>3. Accounts(n) BY DEF Accounts, WriterAt
  <1>4. ~writer[w].dirty BY DEF IInv, WroteIsDirty, Accounts, SetFeatureState
  <1>5. UNCHANGED <<tables, objects, cache, reader>> BY DEF SetFeatureState
  <1>6. QED BY <1>1, <1>2, <1>3, <1>4, <1>5, WriterStepKeeps

LEMMA CheckRowKeeps == ASSUME IInv, NEW w \in Writers, CheckRow(w) PROVE IInv'
  <1> DEFINE n == WriterAt("writeRow", writer[w].todo, writer[w].param, row, writer[w].dirty)
  <1>1. row \in Value BY DEF IInv, TypesOK
  <1>2. n \in Writer BY <1>1, WriterFields, WriterAtTyped
  <1>3. Accounts(n) BY DEF Accounts, WriterAt
  <1>4. writer' = [writer EXCEPT ![w] = n] /\ UNCHANGED <<tables, objects, cache, reader>>
    BY DEF CheckRow
  <1>5. writer[w].dirty => n.dirty BY DEF WriterAt
  <1>6. QED BY <1>2, <1>3, <1>4, <1>5, WriterStepKeeps

LEMMA WriteRowKeeps == ASSUME IInv, NEW w \in Writers, WriteRow(w) PROVE IInv'
  <1>1. CASE Collides(w, row)
    <2>1. Fail(w) /\ UNCHANGED <<tables, objects, cache, reader>>
      BY <1>1 DEF WriteRow, tables
    <2>2. QED BY <2>1, FailKeeps
  <1>2. CASE ~Collides(w, row)
    <2> DEFINE place == IF writer[w].param = NoParam THEN "evict" ELSE "checkParam"
               n == WriterAt(place, writer[w].todo, writer[w].param, None, TRUE)
    <2>1. place \in {"evict", "checkParam"} OBVIOUS
    <2>2. n \in Writer BY <2>1, WriterFields, WriterAtTyped, NoneIsValue
    <2>3. Accounts(n) BY WriterFields DEF Accounts, WriterAt
    <2>4. n.dirty BY DEF WriterAt
    <2>5. /\ writer' = [writer EXCEPT ![w] = n] /\ row' = w
          /\ UNCHANGED <<parameter, objects, cache, reader>>
      BY <1>2 DEF WriteRow
    <2>6. row' \in Value /\ parameter' \in [Params -> Value]
      BY <2>5 DEF IInv, TypesOK, Value
    <2>7. QED BY <2>2, <2>3, <2>4, <2>5, <2>6, WritingKeeps
  <1>3. QED BY <1>1, <1>2

LEMMA CheckParameterKeeps == ASSUME IInv, NEW w \in Writers, CheckParameter(w) PROVE IInv'
  <1> DEFINE n == WriterAt("writeParam", writer[w].todo, writer[w].param,
                           parameter[writer[w].param], writer[w].dirty)
  <1>1. writer[w].param \in Params /\ writer[w].dirty
    BY DEF IInv, WroteIsDirty, Accounts, CheckParameter
  <1>2. parameter[writer[w].param] \in Value BY <1>1 DEF IInv, TypesOK
  <1>3. n \in Writer BY <1>2, WriterFields, WriterAtTyped
  <1>4. Accounts(n) BY <1>1 DEF Accounts, WriterAt
  <1>5. writer' = [writer EXCEPT ![w] = n] /\ UNCHANGED <<tables, objects, cache, reader>>
    BY DEF CheckParameter
  <1>6. writer[w].dirty => n.dirty BY DEF WriterAt
  <1>7. QED BY <1>3, <1>4, <1>5, <1>6, WriterStepKeeps

LEMMA WriteParameterKeeps == ASSUME IInv, NEW w \in Writers, WriteParameter(w) PROVE IInv'
  <1> DEFINE p == writer[w].param
  <1>1. CASE Collides(w, parameter[p])
    <2>1. Fail(w) /\ UNCHANGED <<tables, objects, cache, reader>>
      BY <1>1 DEF WriteParameter, tables
    <2>2. QED BY <2>1, FailKeeps
  <1>2. CASE ~Collides(w, parameter[p])
    <2> DEFINE n == WriterAt("evict", writer[w].todo, p, None, writer[w].dirty)
    <2>1. writer[w].dirty BY DEF IInv, WroteIsDirty, Accounts, WriteParameter
    <2>2. n \in Writer BY WriterFields, WriterAtTyped, NoneIsValue
    <2>3. Accounts(n) /\ n.dirty BY <2>1 DEF Accounts, WriterAt
    <2>4. /\ writer' = [writer EXCEPT ![w] = n]
          /\ parameter' = [parameter EXCEPT ![p] = w]
          /\ UNCHANGED <<row, objects, cache, reader>>
      BY <1>2 DEF WriteParameter
    <2>5. row' \in Value /\ parameter' \in [Params -> Value]
      BY <2>4 DEF IInv, TypesOK, Value
    <2>6. QED BY <2>2, <2>3, <2>4, <2>5, WritingKeeps
  <1>3. QED BY <1>1, <1>2

LEMMA WriteFailsKeeps == ASSUME IInv, NEW w \in Writers, WriteFails(w) PROVE IInv'
  BY FailKeeps DEF WriteFails

-----------------------------------------------------------------------------
(* Evicting.                                                               *)

\* After an eviction the cache is empty, a load that is under way is overtaken,
\* and the objects that are still referred to are the same.
LEMMA EvictedFacts ==
  ASSUME IInv, Evicted
  PROVE  /\ cache' = NoEntry /\ cache' \in Entry
         /\ objects' \in [Objects -> Object]
         /\ \A r \in Readers : reader[r].at = "put" /\ reader'[r] = reader[r] =>
              objects'[reader[r].object].overtaken
  <1>1. cache' = NoEntry /\ cache' \in Entry BY DEF Evicted, NoEntry, Entry
  <1>2. ASSUME NEW state \in Object PROVE Overtaken(state) \in Object
    BY DEF Overtaken, Object
  <1>3. Loaded(None) \in Object BY NoneIsValue DEF Loaded, Object
  <1>4. objects' \in [Objects -> Object]
    BY <1>2, <1>3 DEF IInv, TypesOK, Evicted, Collected
  <1>5. ASSUME NEW r \in Readers, reader[r].at = "put", reader'[r] = reader[r]
        PROVE  objects'[reader[r].object].overtaken
    <2>1. reader[r].object \in Objects BY <1>5 DEF IInv, HoldsObject, Holds
    <2>2. reader[r].object \in Used' BY <1>5 DEF Used
    <2>3. objects'[reader[r].object] = Overtaken(objects[reader[r].object])
      BY <1>5, <2>1, <2>2 DEF Evicted, Collected
    <2>4. QED BY <2>3 DEF Overtaken
  <1>6. QED BY <1>1, <1>4, <1>5

LEMMA EvictKeeps == ASSUME IInv, NEW w \in Writers, Evict(w) PROVE IInv'
  <1>1. PICK n \in Writer : writer' = [writer EXCEPT ![w] = n] /\ Accounts(n)
    <2>1. CASE NextState(w, writer[w].todo)
      <3>1. PICK p \in writer[w].todo : writer' =
              [writer EXCEPT ![w] = WriterAt("checkRow", writer[w].todo \ {p}, p, None, FALSE)]
        BY <2>1 DEF NextState
      <3> DEFINE n == WriterAt("checkRow", writer[w].todo \ {p}, p, None, FALSE)
      <3>2. n \in Writer BY WriterFields, WriterAtTyped, NoneIsValue
      <3>3. Accounts(n) BY DEF Accounts, WriterAt
      <3>4. QED BY <3>1, <3>2, <3>3
    <2>2. CASE writer' = [writer EXCEPT ![w] = WriterAt("done", {}, NoParam, None, FALSE)]
      <3> DEFINE n == WriterAt("done", {}, NoParam, None, FALSE)
      <3>1. n \in Writer BY WriterAtTyped, NoneIsValue
      <3>2. Accounts(n) BY DEF Accounts, WriterAt
      <3>3. QED BY <2>2, <3>1, <3>2
    <2>3. QED BY <2>1, <2>2 DEF Evict, Proceed
  <1>2. UNCHANGED <<row, parameter, reader>> BY DEF Evict, tables
  <1>3. cache' = NoEntry BY EvictedFacts DEF Evict
  <1>4. TypesOK' BY <1>1, <1>2, EvictedFacts DEF IInv, TypesOK, Evict
  <1>5. CachedIsExcused' BY <1>3 DEF CachedIsExcused, NoEntry
  <1>6. LoadingIsExcused' BY <1>2, EvictedFacts DEF LoadingIsExcused, Excused, Evict
  <1>7. StoringIsExcused' /\ OwnIsNotCached'
    BY <1>2, <1>3, NoObjectIsNone DEF IInv, HoldsObject, Holds, StoringIsExcused, OwnIsNotCached, NoEntry
  <1>8. OwnUntilPut'
    BY <1>2, <1>3, NoObjectIsNone DEF IInv, HoldsObject, Holds, OwnUntilPut, NoEntry
  <1>9. HoldsObject' BY <1>2, <1>3 DEF IInv, HoldsObject, NoEntry
  <1>10. WroteIsDirty' BY <1>1 DEF IInv, TypesOK, WroteIsDirty, Accounts
  <1>11. QED BY <1>4, <1>5, <1>6, <1>7, <1>8, <1>9, <1>10 DEF IInv

-----------------------------------------------------------------------------
(* The steps of a reader.                                                  *)

LEMMA ReaderAtTyped ==
  ASSUME NEW place \in {"idle", "evict", "load", "put", "ask", "store"},
         NEW o \in Objects \cup {NoObject}, NEW asks \in SUBSET Params
  PROVE  ReaderAt(place, o, asks) \in Reader
  BY NoneIsValue DEF ReaderAt, Reader

\* The fields of a reader.
LEMMA ReaderFields ==
  ASSUME IInv, NEW r \in Readers
  PROVE  /\ reader[r] \in Reader /\ reader[r].object \in Objects \cup {NoObject}
         /\ reader[r].asks \in SUBSET Params /\ reader[r].found \in Value
  BY DEF IInv, TypesOK, Reader

LEMMA CollectedTyped ==
  ASSUME IInv
  PROVE  Collected(objects) \in [Objects -> Object]
  <1>1. Loaded(None) \in Object BY NoneIsValue DEF Loaded, Object
  <1>2. QED BY <1>1 DEF IInv, TypesOK, Collected

\* A step of a reader that takes at most the cached object into its hands, loads at
\* most a parameter that is stored, and leaves the objects in use as they are.
LEMMA ReaderStepKeeps ==
  ASSUME IInv, NEW r \in Readers, NEW n \in Reader, Holds(n),
         reader' = [reader EXCEPT ![r] = n], UNCHANGED <<tables, cache, writer>>,
         n.at # "put", n.object \in {NoObject, cache.object, reader[r].object},
         reader[r].at = "put" => n.object # reader[r].object,
         n.at = "store" => n.found = parameter[n.param],
         objects' \in [Objects -> Object],
         \A o \in Objects : o \in Used' => objects'[o] = objects[o]
  PROVE  IInv'
  <1>1. TypesOK' BY DEF IInv, TypesOK, tables
  <1>2. /\ reader'[r] = n
        /\ \A s \in Readers : s # r => reader'[s] = reader[s]
    BY DEF IInv, TypesOK
  <1>3. SomeoneIsDirty' <=> SomeoneIsDirty BY DEF SomeoneIsDirty
  <1>4. ASSUME NEW o \in Objects, o \in Used', Excused(o) PROVE Excused(o)'
    BY <1>3, <1>4 DEF Excused, Stale, tables
  <1>5. cache.object \in Used' /\ \A s \in Readers : reader'[s].object \in Used'
    BY DEF Used
  <1>6. CachedIsExcused'
    BY <1>4, <1>5 DEF IInv, CachedIsExcused, TypesOK, Entry
  <1>7. LoadingIsExcused'
    BY <1>2, <1>4, <1>5 DEF IInv, LoadingIsExcused, HoldsObject, Holds
  <1>8. StoringIsExcused'
    <2> SUFFICES ASSUME NEW s \in Readers, reader'[s].at = "store",
                        reader'[s].object = cache.object,
                        reader'[s].found \notin {None, parameter[reader'[s].param]}
                 PROVE  SomeoneIsDirty' \/ objects'[cache.object].overtaken
      BY DEF StoringIsExcused, tables
    <2>1. s # r BY <1>2
    <2>2. SomeoneIsDirty \/ objects[cache.object].overtaken
      BY <1>2, <2>1 DEF IInv, StoringIsExcused
    <2>3. cache.object \in Objects
      BY <1>2, <2>1 DEF IInv, HoldsObject, Holds
    <2>4. QED BY <1>3, <1>5, <2>2, <2>3
  <1>9. OwnUntilPut' /\ OwnIsNotCached'
    BY <1>2, NoObjectIsNone DEF IInv, OwnUntilPut, OwnIsNotCached, HoldsObject, Holds
  <1>10. HoldsObject' BY <1>2 DEF IInv, HoldsObject
  <1>11. WroteIsDirty' BY DEF IInv, WroteIsDirty
  <1>12. QED BY <1>1, <1>6, <1>7, <1>8, <1>9, <1>10, <1>11 DEF IInv

LEMMA GetKeeps == ASSUME IInv, NEW r \in Readers, Get(r) PROVE IInv'
  <1>1. Asks[r] \in SUBSET Params BY AsksAssumption
  <1>2. cache.object \in Objects \cup {NoObject} BY DEF IInv, TypesOK, Entry
  <1>3. cache.expired => cache.object \in Objects
    BY <1>2 DEF IInv, HoldsObject
  <1>4. PICK place \in {"evict", "load", "ask"}, o \in {NoObject, cache.object} :
          /\ reader' = [reader EXCEPT ![r] = ReaderAt(place, o, Asks[r])]
          /\ IF place = "load" THEN o = NoObject ELSE o \in Objects
    BY <1>2, <1>3 DEF Get, Returned, HasState
  <1> DEFINE n == ReaderAt(place, o, Asks[r])
  <1>5. n \in Reader BY <1>1, <1>2, ReaderAtTyped
  <1>6. /\ Holds(n) /\ n.at \notin {"put", "store"}
        /\ n.object \in {NoObject, cache.object}
    BY <1>4 DEF Holds, ReaderAt
  <1>7. reader[r].at # "put" /\ UNCHANGED <<tables, objects, cache, writer>> BY DEF Get
  <1>8. objects' \in [Objects -> Object] BY <1>7 DEF IInv, TypesOK
  <1>9. QED BY <1>4, <1>5, <1>6, <1>7, <1>8, ReaderStepKeeps

LEMMA GetParameterKeeps == ASSUME IInv, NEW r \in Readers, GetParameter(r) PROVE IInv'
  <1>1. reader[r].object \in Objects BY DEF IInv, HoldsObject, Holds, GetParameter
  <1>2. PICK p \in reader[r].asks :
          \/ reader' = [reader EXCEPT ![r] =
               ReaderAt("ask", reader[r].object, reader[r].asks \ {p})]
          \/ reader' = [reader EXCEPT ![r] =
               [at |-> "store", object |-> reader[r].object, asks |-> reader[r].asks \ {p},
                param |-> p, found |-> parameter[p]]]
    BY DEF GetParameter
  <1>3. p \in Params /\ reader[r].asks \ {p} \in SUBSET Params BY ReaderFields
  <1>4. parameter[p] \in Value BY <1>3 DEF IInv, TypesOK
  <1>5. reader[r].at # "put" /\ UNCHANGED <<tables, objects, cache, writer>>
    BY DEF GetParameter
  <1>6. objects' \in [Objects -> Object] BY <1>5 DEF IInv, TypesOK
  <1>7. CASE reader' = [reader EXCEPT ![r] =
               ReaderAt("ask", reader[r].object, reader[r].asks \ {p})]
    <2> DEFINE n == ReaderAt("ask", reader[r].object, reader[r].asks \ {p})
    <2>1. n \in Reader BY <1>1, <1>3, ReaderAtTyped
    <2>2. Holds(n) /\ n.at = "ask" /\ n.object = reader[r].object
      BY <1>1 DEF Holds, ReaderAt
    <2>3. QED BY <1>5, <1>6, <1>7, <2>1, <2>2, ReaderStepKeeps
  <1>8. CASE reader' = [reader EXCEPT ![r] =
               [at |-> "store", object |-> reader[r].object, asks |-> reader[r].asks \ {p},
                param |-> p, found |-> parameter[p]]]
    <2> DEFINE n == [at |-> "store", object |-> reader[r].object,
                     asks |-> reader[r].asks \ {p}, param |-> p, found |-> parameter[p]]
    <2>1. n \in Reader BY <1>1, <1>3, <1>4 DEF Reader
    <2>2. Holds(n) BY <1>1, <1>3 DEF Holds
    <2>3. QED BY <1>5, <1>6, <1>8, <2>1, <2>2, ReaderStepKeeps
  <1>9. QED BY <1>2, <1>7, <1>8

\* A reader that goes away: what only it referred to is forgotten.
LEMMA LeavingKeeps ==
  ASSUME IInv, NEW r \in Readers, reader[r].at # "put",
         reader' = [reader EXCEPT ![r] = Idle], objects' = Collected(objects),
         UNCHANGED <<tables, cache, writer>>
  PROVE  IInv'
  <1>1. Idle \in Reader BY ReaderAtTyped DEF Idle
  <1>2. Holds(Idle) /\ Idle.at = "idle" /\ Idle.object = NoObject
    BY DEF Holds, Idle, ReaderAt
  <1>3. objects' \in [Objects -> Object] BY CollectedTyped
  <1>4. \A o \in Objects : o \in Used' => objects'[o] = objects[o] BY DEF Collected
  <1>5. QED BY <1>1, <1>2, <1>3, <1>4, ReaderStepKeeps

LEMMA AnswerKeeps == ASSUME IInv, NEW r \in Readers, Answer(r) PROVE IInv'
  BY LeavingKeeps DEF Answer

LEMMA ReadFailsKeeps == ASSUME IInv, NEW r \in Readers, ReadFails(r) PROVE IInv'
  BY LeavingKeeps DEF ReadFails

LEMMA EvictExpiredKeeps == ASSUME IInv, NEW r \in Readers, EvictExpired(r) PROVE IInv'
  <1> DEFINE n == Returned(reader[r].object, reader[r].asks)
  <1>1. reader[r].at = "evict" /\ reader[r].object \in Objects
    BY DEF IInv, HoldsObject, Holds, EvictExpired
  <1>2. /\ reader' = [reader EXCEPT ![r] = n] /\ Evicted
        /\ UNCHANGED <<row, parameter, writer>>
    BY DEF EvictExpired, tables
  <1>3. n \in Reader BY <1>1, ReaderFields, ReaderAtTyped DEF Returned
  <1>4. Holds(n) /\ n.at \in {"ask", "load"} /\ n.object \in {NoObject, reader[r].object}
    BY <1>1 DEF Returned, Holds, ReaderAt
  <1>5. reader'[r] = n /\ \A s \in Readers : s # r => reader'[s] = reader[s]
    BY <1>2 DEF IInv, TypesOK
  <1>6. cache' = NoEntry BY <1>2, EvictedFacts
  <1>7. TypesOK' BY <1>2, <1>3, EvictedFacts DEF IInv, TypesOK
  <1>8. CachedIsExcused' BY <1>6 DEF CachedIsExcused, NoEntry
  <1>9. LoadingIsExcused'
    BY <1>2, <1>4, <1>5, EvictedFacts DEF LoadingIsExcused, Excused
  <1>10. StoringIsExcused' /\ OwnIsNotCached'
    BY <1>4, <1>5, <1>6, NoObjectIsNone
    DEF IInv, HoldsObject, Holds, StoringIsExcused, OwnIsNotCached, NoEntry
  <1>11. OwnUntilPut'
    BY <1>4, <1>5, <1>6, NoObjectIsNone DEF IInv, HoldsObject, Holds, OwnUntilPut, NoEntry
  <1>12. HoldsObject' BY <1>4, <1>5, <1>6 DEF IInv, HoldsObject, NoEntry
  <1>13. WroteIsDirty' BY <1>2 DEF IInv, WroteIsDirty
  <1>14. QED BY <1>7, <1>8, <1>9, <1>10, <1>11, <1>12, <1>13 DEF IInv

\* A new object is nobody else's, and says what is stored.
LEMMA LoadKeeps == ASSUME IInv, NEW r \in Readers, Load(r) PROVE IInv'
  <1>1. PICK new \in Objects :
          /\ new \notin Used
          /\ objects' = [objects EXCEPT ![new] = Loaded(row)]
          /\ reader' = [reader EXCEPT ![r] = ReaderAt("put", new, reader[r].asks)]
    BY DEF Load, Free
  <1> DEFINE n == ReaderAt("put", new, reader[r].asks)
  <1>2. n \in Reader /\ Holds(n) /\ n.at = "put" /\ n.object = new
    <2>1. n \in Reader BY ReaderFields, ReaderAtTyped
    <2>2. QED BY <2>1 DEF Holds, ReaderAt
  <1>3. reader'[r] = n /\ \A s \in Readers : s # r => reader'[s] = reader[s]
    BY <1>1 DEF IInv, TypesOK
  <1>4. UNCHANGED <<row, parameter, cache, writer>> BY DEF Load, tables
  <1>5. /\ new # cache.object /\ \A s \in Readers : new # reader[s].object
    BY <1>1 DEF Used
  <1>6. Loaded(row) \in Object
    BY NoneIsValue DEF IInv, TypesOK, Loaded, Object
  <1>7. TypesOK' BY <1>1, <1>2, <1>4, <1>6 DEF IInv, TypesOK
  <1>8. /\ objects'[new] = Loaded(row)
        /\ \A o \in Objects : o # new => objects'[o] = objects[o]
    BY <1>1 DEF IInv, TypesOK
  <1>9. SomeoneIsDirty' <=> SomeoneIsDirty BY <1>4 DEF SomeoneIsDirty
  <1>10. ASSUME NEW o \in Objects, o # new, Excused(o) PROVE Excused(o)'
    BY <1>4, <1>8, <1>9, <1>10 DEF Excused, Stale
  <1>11. CachedIsExcused'
    BY <1>4, <1>5, <1>10 DEF IInv, CachedIsExcused, TypesOK, Entry
  <1>12. ~Stale(new)' BY <1>4, <1>8 DEF Stale, Loaded
  <1>13. LoadingIsExcused'
    <2>1. ASSUME NEW s \in Readers, s # r, reader'[s].at = "put" PROVE Excused(reader[s].object)'
      BY <1>3, <1>5, <1>10, <2>1 DEF IInv, LoadingIsExcused, HoldsObject, Holds
    <2>2. reader'[r].object = new BY <1>2, <1>3
    <2>3. Excused(new)' BY <1>12 DEF Excused
    <2>4. Excused(reader[r].object)' BY <2>2, <2>3 DEF Excused, Stale
    <2>5. QED BY <2>1, <2>4 DEF LoadingIsExcused
  <1>14. StoringIsExcused'
    BY <1>2, <1>3, <1>4, <1>5, <1>8, <1>9
    DEF IInv, StoringIsExcused, HoldsObject, Holds
  <1>15. OwnUntilPut' /\ OwnIsNotCached'
    BY <1>2, <1>3, <1>4, <1>5 DEF IInv, OwnUntilPut, OwnIsNotCached
  <1>16. HoldsObject' BY <1>2, <1>3, <1>4 DEF IInv, HoldsObject
  <1>17. WroteIsDirty' BY <1>4 DEF IInv, WroteIsDirty
  <1>18. QED BY <1>7, <1>11, <1>13, <1>14, <1>15, <1>16, <1>17 DEF IInv

LEMMA PutKeeps == ASSUME IInv, NEW r \in Readers, Put(r) PROVE IInv'
  <1> DEFINE own == reader[r].object
  <1>1. own \in Objects /\ reader[r].at = "put" BY DEF IInv, HoldsObject, Holds, Put
  <1>2. /\ cache' = [object |-> own, expired |-> FALSE]
        /\ UNCHANGED <<row, parameter, writer>> /\ objects' = Collected(objects)
    BY DEF Put, tables
  <1>3. PICK n \in Reader : /\ reader' = [reader EXCEPT ![r] = n]
                            /\ Holds(n) /\ n.at \in {"ask", "idle"}
    <2>1. ReaderAt("ask", own, reader[r].asks) \in Reader /\ Idle \in Reader
      BY <1>1, ReaderFields, ReaderAtTyped DEF Idle
    <2>2. Holds(ReaderAt("ask", own, reader[r].asks)) /\ Holds(Idle)
      BY <1>1 DEF Holds, ReaderAt, Idle
    <2>3. ReaderAt("ask", own, reader[r].asks).at = "ask" /\ Idle.at = "idle"
      BY DEF ReaderAt, Idle
    <2>4. QED BY <2>1, <2>2, <2>3 DEF Put
  <1>4. reader'[r] = n /\ \A s \in Readers : s # r => reader'[s] = reader[s]
    BY <1>3 DEF IInv, TypesOK
  <1>5. TypesOK' BY <1>1, <1>2, <1>3, CollectedTyped DEF IInv, TypesOK, Entry
  <1>6. \A o \in Objects : o \in Used' => objects'[o] = objects[o] BY <1>2 DEF Collected
  <1>7. cache'.object = own /\ own \in Used' /\ \A s \in Readers : reader'[s].object \in Used'
    BY <1>2 DEF Used
  <1>8. SomeoneIsDirty' <=> SomeoneIsDirty BY <1>2 DEF SomeoneIsDirty
  <1>9. ASSUME NEW o \in Objects, o \in Used', Excused(o) PROVE Excused(o)'
    BY <1>2, <1>6, <1>8, <1>9 DEF Excused, Stale
  <1>10. CachedIsExcused'
    BY <1>1, <1>7, <1>9 DEF IInv, LoadingIsExcused, CachedIsExcused
  <1>11. LoadingIsExcused'
    BY <1>3, <1>4, <1>7, <1>9 DEF IInv, LoadingIsExcused, HoldsObject, Holds
  <1>12. StoringIsExcused'
    <2>1. \A s \in Readers : s # r => reader[s].object # own
      BY <1>1 DEF IInv, OwnUntilPut
    <2>2. QED BY <1>3, <1>4, <1>7, <2>1 DEF StoringIsExcused
  <1>13. OwnUntilPut' /\ OwnIsNotCached'
    <2>1. \A s \in Readers : s # r => reader[s].object # own
      BY <1>1 DEF IInv, OwnUntilPut
    <2>2. n.object \in {own, NoObject} BY <1>3, <1>4 DEF Put, Idle, ReaderAt
    <2>3. QED BY <1>3, <1>4, <1>7, <2>1, <2>2, NoObjectIsNone
          DEF IInv, OwnUntilPut, OwnIsNotCached, HoldsObject, Holds
  <1>14. HoldsObject' BY <1>1, <1>2, <1>3, <1>4, NoObjectIsNone DEF IInv, HoldsObject
  <1>15. WroteIsDirty' BY <1>2 DEF IInv, WroteIsDirty
  <1>16. QED BY <1>5, <1>10, <1>11, <1>12, <1>13, <1>14, <1>15 DEF IInv

\* What is stored into an object in the cache is not stale without a cause; into any
\* other object it does no harm.
LEMMA StoreParameterKeeps == ASSUME IInv, NEW r \in Readers, StoreParameter(r) PROVE IInv'
  <1>1. PICK o \in Objects, p \in Params, found \in Value :
          reader[r].object = o /\ reader[r].param = p /\ reader[r].found = found
    BY ReaderFields DEF IInv, HoldsObject, Holds, StoreParameter
  <1> DEFINE n   == ReaderAt("ask", o, reader[r].asks)
             new == [row |-> objects[o].row,
                     parameter |-> [objects[o].parameter EXCEPT ![p] = found],
                     overtaken |-> objects[o].overtaken]
  <1>2. /\ reader' = [reader EXCEPT ![r] = n] /\ objects' = [objects EXCEPT ![o] = new]
        /\ UNCHANGED <<row, parameter, cache, writer>>
    BY <1>1 DEF StoreParameter, tables
  <1>3. n \in Reader /\ Holds(n) /\ n.at = "ask" /\ n.object = o
    <2>1. n \in Reader BY <1>1, ReaderFields, ReaderAtTyped
    <2>2. QED BY <1>1, <2>1 DEF Holds, ReaderAt
  <1>4. reader'[r] = n /\ \A s \in Readers : s # r => reader'[s] = reader[s]
    BY <1>2 DEF IInv, TypesOK
  <1>5. objects[o].row \in Value /\ objects[o].parameter \in [Params -> Value]
        /\ objects[o].overtaken \in BOOLEAN
    BY <1>1 DEF IInv, TypesOK, Object
  <1>6. new \in Object BY <1>1, <1>5, ReaderFields DEF Object
  <1>7. TypesOK' BY <1>1, <1>2, <1>3, <1>6 DEF IInv, TypesOK
  <1>8. objects'[o] = new /\ \A q \in Objects : q # o => objects'[q] = objects[q]
    BY <1>1, <1>2 DEF IInv, TypesOK
  <1>9. SomeoneIsDirty' <=> SomeoneIsDirty BY <1>2 DEF SomeoneIsDirty
  <1>10. ASSUME NEW q \in Objects, q # o, Excused(q) PROVE Excused(q)'
    BY <1>2, <1>8, <1>9, <1>10 DEF Excused, Stale
  <1>11. CachedIsExcused'
    <2>1. CASE cache.object # o
      BY <1>2, <1>10, <2>1 DEF IInv, CachedIsExcused, TypesOK, Entry
    <2>2. CASE cache.object = o
      <3>1. CASE found \in {None, parameter[p]}
        <4>1. Stale(o)' => Stale(o)
          BY <1>2, <1>5, <1>8, <3>1 DEF Stale
        <4>2. QED BY <1>1, <1>2, <1>8, <1>9, <2>2, <4>1, NoObjectIsNone
              DEF IInv, CachedIsExcused, Excused
      <3>2. CASE found \notin {None, parameter[p]}
        <4>1. SomeoneIsDirty \/ objects[o].overtaken
          BY <1>1, <2>2, <3>2 DEF IInv, StoringIsExcused, StoreParameter
        <4>2. QED BY <1>2, <1>8, <1>9, <2>2, <4>1 DEF CachedIsExcused, Excused
      <3>3. QED BY <3>1, <3>2
    <2>3. QED BY <2>1, <2>2
  <1>12. LoadingIsExcused'
    <2>1. \A s \in Readers : s # r /\ reader[s].at = "put" => reader[s].object # o
      BY <1>1 DEF IInv, OwnUntilPut
    <2>2. QED BY <1>3, <1>4, <1>10, <2>1 DEF IInv, LoadingIsExcused, HoldsObject, Holds
  <1>13. StoringIsExcused'
    <2>1. \A q \in Objects : objects'[q].overtaken = objects[q].overtaken BY <1>8
    <2>2. SUFFICES ASSUME NEW s \in Readers, reader'[s].at = "store",
                          reader'[s].object = cache.object,
                          reader'[s].found \notin {None, parameter[reader'[s].param]}
                   PROVE  SomeoneIsDirty' \/ objects'[cache.object].overtaken
      BY <1>2 DEF StoringIsExcused
    <2>3. s # r BY <1>3, <1>4, <2>2
    <2>4. SomeoneIsDirty \/ objects[cache.object].overtaken
      BY <1>4, <2>2, <2>3 DEF IInv, StoringIsExcused
    <2>5. cache.object \in Objects
      BY <1>4, <2>2, <2>3 DEF IInv, HoldsObject, Holds
    <2>6. QED BY <1>9, <2>1, <2>4, <2>5
  <1>14. OwnUntilPut' /\ OwnIsNotCached'
    BY <1>1, <1>2, <1>3, <1>4 DEF IInv, OwnUntilPut, OwnIsNotCached
  <1>15. HoldsObject' BY <1>2, <1>3, <1>4 DEF IInv, HoldsObject
  <1>16. WroteIsDirty' BY <1>2 DEF IInv, WroteIsDirty
  <1>17. QED BY <1>7, <1>11, <1>12, <1>13, <1>14, <1>15, <1>16 DEF IInv

LEMMA ExpireKeeps == ASSUME IInv, Expire PROVE IInv'
  <1>1. /\ cache' = [cache EXCEPT !.expired = TRUE] /\ cache.object # NoObject
        /\ UNCHANGED <<row, parameter, objects, reader, writer>>
    BY DEF Expire, tables
  <1>2. cache' \in Entry /\ cache'.object = cache.object
    BY <1>1 DEF IInv, TypesOK, Entry
  <1>3. TypesOK' BY <1>1, <1>2 DEF IInv, TypesOK
  <1>4. CachedIsExcused' /\ LoadingIsExcused' /\ StoringIsExcused'
    BY <1>1, <1>2 DEF IInv, CachedIsExcused, LoadingIsExcused, StoringIsExcused, Excused, Stale,
                      SomeoneIsDirty
  <1>5. OwnUntilPut' /\ OwnIsNotCached' BY <1>1, <1>2 DEF IInv, OwnUntilPut, OwnIsNotCached
  <1>6. HoldsObject' /\ WroteIsDirty' BY <1>1, <1>2 DEF IInv, HoldsObject, WroteIsDirty
  <1>7. QED BY <1>3, <1>4, <1>5, <1>6 DEF IInv

-----------------------------------------------------------------------------
(* The specification.                                                      *)

LEMMA InitEstablishes == Init => IInv
  <1> SUFFICES ASSUME Init PROVE IInv OBVIOUS
  <1>1. \A r \in Readers : reader[r] = Idle BY DEF Init
  <1>2. Idle \in Reader /\ Holds(Idle) /\ Idle.at = "idle"
    <2>1. Idle \in Reader BY ReaderAtTyped DEF Idle
    <2>2. QED BY <2>1 DEF Holds, Idle, ReaderAt
  <1>3. \A w \in Writers : writer[w] = WriterAt("idle", Names[w], NoParam, None, FALSE)
    BY DEF Init
  <1>4. ASSUME NEW w \in Writers
        PROVE  /\ WriterAt("idle", Names[w], NoParam, None, FALSE) \in Writer
               /\ Accounts(WriterAt("idle", Names[w], NoParam, None, FALSE))
    <2>1. Names[w] \in SUBSET Params BY AsksAssumption
    <2>2. WriterAt("idle", Names[w], NoParam, None, FALSE) \in Writer
      BY <2>1, WriterAtTyped, NoneIsValue
    <2>3. Accounts(WriterAt("idle", Names[w], NoParam, None, FALSE)) BY DEF Accounts, WriterAt
    <2>4. QED BY <2>2, <2>3
  <1>5. Loaded(None) \in Object /\ NoEntry \in Entry
    BY NoneIsValue DEF Loaded, Object, NoEntry, Entry
  <1>6. row \in Value /\ parameter \in [Params -> Value] BY NoneIsValue DEF Init, Value
  <1>7. TypesOK BY <1>2, <1>4, <1>5, <1>6 DEF Init, TypesOK
  <1>8. CachedIsExcused BY DEF Init, CachedIsExcused, NoEntry
  <1>9. LoadingIsExcused /\ StoringIsExcused /\ OwnUntilPut /\ OwnIsNotCached
    BY <1>1, <1>2 DEF LoadingIsExcused, StoringIsExcused, OwnUntilPut, OwnIsNotCached
  <1>10. HoldsObject BY <1>1, <1>2 DEF Init, HoldsObject, NoEntry
  <1>11. WroteIsDirty BY <1>3, <1>4 DEF WroteIsDirty
  <1>12. QED BY <1>7, <1>8, <1>9, <1>10, <1>11 DEF IInv

\* No step of the program ends the invariant.
LEMMA NextKeeps == IInv /\ [Next]_vars => IInv'
  <1> SUFFICES ASSUME IInv, [Next]_vars PROVE IInv' OBVIOUS
  <1>1. ASSUME NEW r \in Readers, Reads(r) \/ ReadFails(r) PROVE IInv'
    BY <1>1, GetKeeps, EvictExpiredKeeps, LoadKeeps, PutKeeps, GetParameterKeeps,
       StoreParameterKeeps, AnswerKeeps, ReadFailsKeeps DEF Reads
  <1>2. ASSUME NEW w \in Writers, SetFeatureState(w) \/ Writes(w) \/ WriteFails(w) PROVE IInv'
    BY <1>2, SetFeatureStateKeeps, CheckRowKeeps, WriteRowKeeps, CheckParameterKeeps,
       WriteParameterKeeps, EvictKeeps, WriteFailsKeeps DEF Writes
  <1>3. ASSUME UNCHANGED vars PROVE IInv'
    BY <1>3 DEF vars, tables, IInv, TypesOK, CachedIsExcused, LoadingIsExcused,
       StoringIsExcused, Excused, Stale, SomeoneIsDirty, OwnUntilPut, OwnIsNotCached,
       HoldsObject, WroteIsDirty
  <1>4. QED BY <1>1, <1>2, <1>3, ExpireKeeps DEF Next

\* The places of readers, edits and entry have their types always, and an object is
\* its reader's own until it has been put: no load fills an object in use.
THEOREM TypeIsOK == Spec => []TypeOK
  <1>1. IInv => TypeOK BY DEF IInv, TypesOK, OwnUntilPut, TypeOK
  <1>2. QED BY <1>1, InitEstablishes, NextKeeps, PTL DEF Spec

\* However many threads read and edit a feature, and wherever a statement fails, a
\* stale state is in the cache only for one of the three causes.
THEOREM StaleAlwaysHasACause == Spec => []StaleHasACause
  <1>1. IInv => StaleHasACause
    BY DEF IInv, CachedIsExcused, Excused, SomeoneIsDirty, StaleHasACause
  <1>2. QED BY <1>1, InitEstablishes, NextKeeps, PTL DEF Spec

=============================================================================
