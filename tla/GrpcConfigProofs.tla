--------------------------- MODULE GrpcConfigProofs ---------------------------
(***************************************************************************)
(* Proofs about GrpcConfig, for all limits, all names and keys and any     *)
(* batches and endpoints: what the builders let through, and what the      *)
(* server is sent.                                                         *)
(***************************************************************************)
EXTENDS GrpcConfig, FiniteSetTheorems, TLAPS

LEMMA LimitsType == MAX_NAMED_FILTERS \in Nat /\ MAX_KEYS_PER_FILTER \in Nat
  BY ConfigAssumption

-----------------------------------------------------------------------------
(* The builders.                                                           *)

\* The lists of a filter within its limit.
LEMMA ListsType ==
  ASSUME NEW f, FilterOK(f)
  PROVE  /\ f.include \in Seq(ValidKeys) /\ Len(f.include) \in Nat
         /\ f.exclude \in Seq(ValidKeys) /\ Len(f.exclude) \in Nat
         /\ f.required \in Seq(ValidKeys) /\ Len(f.required) \in Nat
         /\ Len(f.include) + Len(f.exclude) + Len(f.required) <= MAX_KEYS_PER_FILTER
  <1>1. f \in FilterType /\ KeyCount(f) <= MAX_KEYS_PER_FILTER
    BY DEF FilterOK
  <1>2. /\ f.include \in Seq(ValidKeys) /\ f.exclude \in Seq(ValidKeys)
        /\ f.required \in Seq(ValidKeys)
    BY <1>1 DEF FilterType
  <1>3. Len(f.include) \in Nat /\ Len(f.exclude) \in Nat /\ Len(f.required) \in Nat
    BY <1>2
  <1>4. Len(f.include) + Len(f.exclude) + Len(f.required) <= MAX_KEYS_PER_FILTER
    BY <1>1, <1>3 DEF KeyCount
  <1> QED
    BY <1>2, <1>3, <1>4

LEMMA KeyCountType ==
  ASSUME NEW f, FilterOK(f)
  PROVE  KeyCount(f) \in Nat /\ KeyCount(f) <= MAX_KEYS_PER_FILTER
  <1>1. Len(f.include) \in Nat /\ Len(f.exclude) \in Nat /\ Len(f.required) \in Nat
    BY ListsType
  <1> DEFINE a == Len(f.include)
             b == Len(f.exclude)
             c == Len(f.required)
  <1>2. KeyCount(f) = a + b + c
    BY DEF KeyCount
  <1>3. a \in Nat /\ b \in Nat /\ c \in Nat
    BY <1>1
  <1> HIDE DEF a, b, c
  <1>4. KeyCount(f) \in Nat
    BY <1>2, <1>3
  <1> QED
    BY <1>4 DEF FilterOK

LEMMA EmptyFilterOK == FilterOK(EmptyFilter)
  <1>1. <<>> \in Seq(ValidKeys) /\ Len(<<>>) = 0
    OBVIOUS
  <1> QED
    BY <1>1, LimitsType DEF FilterOK, FilterType, EmptyFilter, KeyCount

\* A batch that parses is a sequence of well-formed keys.
LEMMA BatchType ==
  ASSUME NEW batch \in Batches, ValidBatch(batch)
  PROVE  batch \in Seq(ValidKeys) /\ Len(batch) \in Nat
  <1>1. batch \in Seq(STRING)
    BY ConfigAssumption
  <1>2. /\ Len(batch) \in Nat /\ DOMAIN batch = 1..Len(batch)
        /\ batch = [i \in 1..Len(batch) |-> batch[i]]
    BY <1>1
  <1>3. \A i \in 1..Len(batch) : batch[i] \in ValidKeys
    BY <1>2 DEF ValidBatch, Range
  <1>4. batch \in [1..Len(batch) -> ValidKeys]
    BY <1>2, <1>3
  <1> QED
    BY <1>2, <1>4

\* A batch that is let through keeps the filter within its limit, whichever
\* list it goes to (filters.rs:63-80).
LEMMA ExtendedOK ==
  ASSUME NEW f, FilterOK(f), NEW list \in Lists, NEW batch \in Batches,
         ValidBatch(batch), ~TooLong(f, batch)
  PROVE  FilterOK(Extended(f, list, batch))
  <1>1. batch \in Seq(ValidKeys) /\ Len(batch) \in Nat
    BY BatchType
  <1>2. KeyCount(f) + Len(batch) <= MAX_KEYS_PER_FILTER
    <2>1. ~(KeyCount(f) + Len(batch) > MAX_KEYS_PER_FILTER)
      BY DEF TooLong
    <2> HIDE DEF KeyCount
    <2> QED
      BY <1>1, <2>1, KeyCountType, LimitsType
  <1>3. \A s \in Seq(ValidKeys) :
          s \o batch \in Seq(ValidKeys) /\ Len(s \o batch) = Len(s) + Len(batch)
    BY <1>1
  <1>4. f = [include |-> f.include, exclude |-> f.exclude, required |-> f.required]
    BY DEF FilterOK, FilterType
  <1> DEFINE g == Extended(f, list, batch)
  <1>5. CASE list = "include"
    <2>1. g = [include |-> f.include \o batch, exclude |-> f.exclude,
               required |-> f.required]
      <3>1. g = [f EXCEPT !.include = f.include \o batch]
        BY <1>5 DEF Extended
      <3> QED
        BY <1>4, <3>1
    <2> QED
      BY <1>1, <1>2, <1>3, <2>1, ListsType DEF FilterOK, FilterType, KeyCount
  <1>6. CASE list = "exclude"
    <2>1. g = [include |-> f.include, exclude |-> f.exclude \o batch,
               required |-> f.required]
      <3>1. g = [f EXCEPT !.exclude = f.exclude \o batch]
        BY <1>6 DEF Extended
      <3> QED
        BY <1>4, <3>1
    <2> QED
      BY <1>1, <1>2, <1>3, <2>1, ListsType DEF FilterOK, FilterType, KeyCount
  <1>7. CASE list = "required"
    <2>1. g = [include |-> f.include, exclude |-> f.exclude,
               required |-> f.required \o batch]
      <3>1. g = [f EXCEPT !.required = f.required \o batch]
        BY <1>7 DEF Extended
      <3> QED
        BY <1>4, <3>1
    <2> QED
      BY <1>1, <1>2, <1>3, <2>1, ListsType DEF FilterOK, FilterType, KeyCount
  <1> QED
    BY <1>5, <1>6, <1>7 DEF Lists

\* A finite map of filters that are each within the limit.
MapOK(map) == FiltersOK(map) /\ IsFiniteSet(DOMAIN map)

LEMMA EmptyMapOK == MapOK(<<>>)
  <1>1. DOMAIN <<>> = {}
    OBVIOUS
  <1> QED
    BY <1>1, FS_EmptySet DEF MapOK, FiltersOK

LEMMA AddedOK ==
  ASSUME NEW map, MapOK(map), NEW name \in Names, NEW f, FilterOK(f)
  PROVE  MapOK(Added(map, name, f))
  <1>1. DOMAIN Added(map, name, f) = DOMAIN map \cup {name}
    BY DEF Added
  <1>2. IsFiniteSet(DOMAIN map \cup {name})
    BY FS_AddElement DEF MapOK
  <1>3. \A n \in DOMAIN map \cup {name} : FilterOK(Added(map, name, f)[n])
    BY DEF MapOK, FiltersOK, Added
  <1> QED
    BY <1>1, <1>2, <1>3 DEF MapOK, FiltersOK

\* What validate accepts of such a map, and why it refuses (filters.rs:101-116):
\* never for the number of keys.
LEMMA FilterErrorSays ==
  ASSUME NEW map, MapOK(map)
  PROVE  /\ FilterError(map) \in {None, "Empty", "TooManyFilters"}
         /\ FilterError(map) = None =>
              DOMAIN map # {} /\ Cardinality(DOMAIN map) <= MAX_NAMED_FILTERS
  <1>1. Cardinality(DOMAIN map) \in Nat
    BY FS_CardinalityType DEF MapOK
  <1>2. ~\E n \in DOMAIN map : KeyCount(map[n]) > MAX_KEYS_PER_FILTER
    <2>1. ASSUME NEW n \in DOMAIN map
          PROVE  ~(KeyCount(map[n]) > MAX_KEYS_PER_FILTER)
      <3>1. FilterOK(map[n])
        BY DEF MapOK, FiltersOK
      <3> QED
        BY <3>1, KeyCountType, LimitsType
    <2> QED
      BY <2>1
  <1>3. CASE DOMAIN map = {}
    BY <1>3, <1>1 DEF FilterError, None
  <1>4. CASE DOMAIN map # {}
    BY <1>1, <1>2, <1>4, LimitsType DEF FilterError, None
  <1> QED
    BY <1>3, <1>4

-----------------------------------------------------------------------------
(* What is sent.                                                           *)

\* What RequestsSound asks of one request.
Sound(map) ==
  /\ DOMAIN map # {}
  /\ Cardinality(DOMAIN map) <= MAX_NAMED_FILTERS
  /\ \A n \in DOMAIN map :
       LET keys == map[n].account_include \o map[n].account_exclude
                     \o map[n].account_required
       IN  Len(keys) <= MAX_KEYS_PER_FILTER /\ Range(keys) \subseteq ValidKeys

\* Sequences in a row have all the lengths and no other elements.
LEMMA RowType ==
  ASSUME NEW S, NEW p \in Seq(S), NEW q \in Seq(S), NEW r \in Seq(S)
  PROVE  /\ Len(p \o q \o r) = Len(p) + Len(q) + Len(r)
         /\ Range(p \o q \o r) \subseteq S
  <1>1. \A s, t \in Seq(S) : s \o t \in Seq(S) /\ Len(s \o t) = Len(s) + Len(t)
    OBVIOUS
  <1> DEFINE pq == p \o q
  <1>2. pq \in Seq(S) /\ Len(pq) = Len(p) + Len(q)
    BY <1>1
  <1> HIDE DEF pq
  <1>3. pq \o r \in Seq(S) /\ Len(pq \o r) = Len(pq) + Len(r)
    BY <1>1, <1>2
  <1>4. \A t \in Seq(S) : Range(t) \subseteq S
    BY DEF Range
  <1> QED
    BY <1>2, <1>3, <1>4 DEF pq

\* A map that validate accepts makes a request that the server takes.
LEMMA ProtoSound ==
  ASSUME NEW map, MapOK(map), FilterError(map) = None
  PROVE  Sound(Proto(map))
  <1>1. DOMAIN Proto(map) = DOMAIN map
    BY DEF Proto
  <1>2. DOMAIN map # {} /\ Cardinality(DOMAIN map) <= MAX_NAMED_FILTERS
    BY FilterErrorSays
  <1>3. ASSUME NEW n \in DOMAIN map
        PROVE  LET keys == Proto(map)[n].account_include \o Proto(map)[n].account_exclude
                             \o Proto(map)[n].account_required
               IN  Len(keys) <= MAX_KEYS_PER_FILTER /\ Range(keys) \subseteq ValidKeys
    <2>1. FilterOK(map[n])
      BY DEF MapOK, FiltersOK
    <2> DEFINE p == map[n].include
               q == map[n].exclude
               r == map[n].required
    <2>2. /\ p \in Seq(ValidKeys) /\ q \in Seq(ValidKeys) /\ r \in Seq(ValidKeys)
          /\ Len(p) + Len(q) + Len(r) <= MAX_KEYS_PER_FILTER
      BY <2>1, ListsType
    <2>3. /\ Proto(map)[n].account_include = p
          /\ Proto(map)[n].account_exclude = q
          /\ Proto(map)[n].account_required = r
      BY DEF Proto
    <2> HIDE DEF p, q, r
    <2> QED
      BY <2>2, <2>3, RowType
  <1> QED
    BY <1>1, <1>2, <1>3 DEF Sound

-----------------------------------------------------------------------------
\* A filter under construction is within its limit, and so is every filter of
\* the maps; the map of a client that dials, or has a stream or had one, was
\* accepted by validate; what was sent is sound.
ConfigInv ==
  /\ filter = <<>> \/ (filter = <<filter[1]>> /\ FilterOK(filter[1]))
  /\ MapOK(draft) /\ MapOK(filters)
  /\ phase \in {"building", "dialing", "connected", "disconnected", "failed"}
  /\ phase \in {"dialing", "connected", "disconnected"} => FilterError(filters) = None
  /\ request = <<>> \/ (request = <<request[1]>> /\ Sound(request[1]))
  /\ endpoint \in Seq(STRING)
  /\ url \in {<<>>, Dialed(endpoint)}
  /\ error.by \in {None, "builder", "connect", "update_filters"}
  /\ error.what \in {None, "InvalidKey", "TooManyKeys", "Empty", "TooManyFilters",
                     "InvalidEndpoint", "InvalidToken", "Transport"}
  /\ RefusedForNumber

LEMMA ConfigInit == Init => ConfigInv
  <1> SUFFICES ASSUME Init PROVE ConfigInv
    OBVIOUS
  <1>1. /\ filter = <<>> /\ draft = <<>> /\ phase = "building" /\ endpoint = <<>>
        /\ url = <<>> /\ filters = <<>> /\ request = <<>> /\ error = NoError
    BY DEF Init
  <1>2. error.by = None /\ error.what = None
    BY <1>1 DEF NoError
  <1>3. MapOK(draft) /\ MapOK(filters)
    BY <1>1, EmptyMapOK
  <1>4. endpoint \in Seq(STRING)
    BY <1>1
  <1> QED
    BY <1>1, <1>2, <1>3, <1>4 DEF ConfigInv, RefusedForNumber, None

\* The builders (filters.rs:34-80, 101-107).
LEMMA BuilderKeeps ==
  ASSUME ConfigInv, BuilderStep
  PROVE  ConfigInv'
  <1> USE DEF clientVars
  <1>1. CASE NewFilter
    <2>1. filter' = <<EmptyFilter>> /\ UNCHANGED <<draft, clientVars, error>>
      BY <1>1 DEF NewFilter
    <2>2. filter' = <<filter'[1]>> /\ FilterOK(filter'[1])
      BY <2>1, EmptyFilterOK
    <2> QED
      BY <2>1, <2>2 DEF ConfigInv, RefusedForNumber
  <1>2. ASSUME NEW list \in Lists, NEW batch \in Batches, Extend(list, batch)
        PROVE  ConfigInv'
    <2> DEFINE longer == Extended(filter[1], list, batch)
    <2>1. FilterOK(filter[1])
      BY <1>2 DEF Extend, ConfigInv
    <2>2. \/ /\ ValidBatch(batch) /\ ~TooLong(filter[1], batch)
             /\ filter' = <<longer>> /\ error' = error
          \/ /\ filter' = <<>>
             /\ error'.by = "builder" /\ error'.what \in {"InvalidKey", "TooManyKeys"}
      BY <1>2 DEF Extend, None
    <2>3. ValidBatch(batch) /\ ~TooLong(filter[1], batch) => FilterOK(longer)
      BY <2>1, ExtendedOK
    <2> HIDE DEF longer
    <2>4. filter' = <<>> \/ (filter' = <<filter'[1]>> /\ FilterOK(filter'[1]))
      BY <2>2, <2>3
    <2>5. UNCHANGED <<draft, clientVars>>
      BY <1>2 DEF Extend
    <2> QED
      BY <2>2, <2>4, <2>5 DEF ConfigInv, RefusedForNumber
  <1>3. ASSUME NEW name \in Names, Add(name)
        PROVE  ConfigInv'
    <2>1. FilterOK(filter[1]) /\ MapOK(draft)
      BY <1>3 DEF Add, ConfigInv
    <2>2. /\ draft' = Added(draft, name, filter[1]) /\ filter' = <<>>
          /\ UNCHANGED <<clientVars, error>>
      BY <1>3 DEF Add
    <2>3. MapOK(draft')
      BY <2>1, <2>2, AddedOK
    <2> QED
      BY <2>2, <2>3 DEF ConfigInv, RefusedForNumber
  <1>4. CASE NewFilters
    <2>1. MapOK(draft')
      BY <1>4, EmptyMapOK DEF NewFilters
    <2> QED
      BY <1>4, <2>1 DEF NewFilters, ConfigInv, RefusedForNumber
  <1> QED
    BY <1>1, <1>2, <1>3, <1>4 DEF BuilderStep

\* connect, update_filters and the subscriptions (grpc.rs:128-174, 184-201,
\* 314-323).
LEMMA ClientKeeps ==
  ASSUME ConfigInv, ClientStep
  PROVE  ConfigInv'
  <1>1. /\ MapOK(draft) /\ MapOK(filters)
        /\ FilterError(draft) \in {None, "Empty", "TooManyFilters"}
    BY FilterErrorSays DEF ConfigInv
  <1>2. MapOK(<<>>)
    BY EmptyMapOK
  <1>3. ASSUME NEW given \in Endpoints, NEW tokenFits \in BOOLEAN,
               Connect(given, tokenFits)
        PROVE  ConfigInv'
    <2>1. given \in Seq(STRING)
      BY ConfigAssumption
    <2>2. /\ endpoint' = given /\ url' = Dialed(given) /\ draft' = <<>>
          /\ UNCHANGED <<filter, request>>
      BY <1>3 DEF Connect
    <2>3. \/ /\ FilterError(draft) = None /\ filters' = draft
             /\ phase' = "dialing" /\ error' = error
          \/ /\ filters' = filters /\ phase' = "failed" /\ error'.by = "connect"
             /\ error'.what \in {"Empty", "TooManyFilters", "InvalidEndpoint",
                                 "InvalidToken"}
      BY <1>1, <1>3 DEF Connect, None
    <2> QED
      BY <1>1, <1>2, <2>1, <2>2, <2>3 DEF ConfigInv, RefusedForNumber
  <1>4. CASE DialFails
    <2>1. /\ error'.by = "connect" /\ error'.what = "Transport" /\ phase' = "failed"
          /\ UNCHANGED <<filter, draft, endpoint, url, filters, request>>
      BY <1>4 DEF DialFails
    <2> QED
      BY <2>1 DEF ConfigInv, RefusedForNumber
  <1>5. CASE Subscribe
    <2>1. /\ request' = <<Proto(filters)>> /\ phase' = "connected"
          /\ endpoint' = <<>> /\ url' = <<>>
          /\ UNCHANGED <<filter, draft, filters, error>>
      BY <1>5 DEF Subscribe
    <2>2. FilterError(filters) = None
      BY <1>5 DEF Subscribe, ConfigInv
    <2>3. Sound(Proto(filters))
      BY <1>1, <2>2, ProtoSound
    <2>4. request' = <<request'[1]>> /\ Sound(request'[1])
      BY <2>1, <2>3
    <2>5. endpoint' \in Seq(STRING)
      BY <2>1
    <2> QED
      BY <2>1, <2>2, <2>4, <2>5 DEF ConfigInv, RefusedForNumber
  <1>6. CASE Disconnect
    BY <1>6 DEF Disconnect, ConfigInv, RefusedForNumber
  <1>7. CASE UpdateFilters
    <2>1. /\ phase \in {"connected", "disconnected"} /\ draft' = <<>>
          /\ UNCHANGED <<filter, phase, endpoint, url>>
      BY <1>7 DEF UpdateFilters
    <2>2. CASE FilterError(draft) = None
      <3>1. /\ filters' = draft /\ error' = error
            /\ request' = request \/ request' = <<Proto(draft)>>
        BY <1>7, <2>2 DEF UpdateFilters
      <3>2. Sound(Proto(draft))
        BY <1>1, <2>2, ProtoSound
      <3>3. request' = request \/ (request' = <<request'[1]>> /\ Sound(request'[1]))
        BY <3>1, <3>2
      <3> QED
        BY <1>1, <1>2, <2>1, <2>2, <3>1, <3>3 DEF ConfigInv, RefusedForNumber
    <2>3. CASE FilterError(draft) # None
      <3>1. /\ error'.by = "update_filters"
            /\ error'.what \in {"Empty", "TooManyFilters"}
            /\ UNCHANGED <<filters, request>>
        BY <1>1, <1>7, <2>3 DEF UpdateFilters
      <3> QED
        BY <1>1, <1>2, <2>1, <3>1 DEF ConfigInv, RefusedForNumber
    <2> QED
      BY <2>2, <2>3
  <1> QED
    BY <1>3, <1>4, <1>5, <1>6, <1>7 DEF ClientStep

LEMMA ConfigNext == ConfigInv /\ [Next]_vars => ConfigInv'
  <1>1. ASSUME ConfigInv, UNCHANGED vars
        PROVE  ConfigInv'
    BY <1>1 DEF vars, ConfigInv, RefusedForNumber
  <1> QED
    BY <1>1, BuilderKeeps, ClientKeeps DEF Next

LEMMA ConfigInvariant == Spec => []ConfigInv
  BY ConfigInit, ConfigNext, PTL DEF Spec

-----------------------------------------------------------------------------
\* What the builders let through is within its limit, for all limits and
\* batches (filters.rs:34-80, 101-116).
THEOREM TypeCorrect == Spec => []TypeOK
  <1>1. ConfigInv => TypeOK
    <2> SUFFICES ASSUME ConfigInv PROVE TypeOK
      OBVIOUS
    <2>1. Len(filter) <= 1 /\ \A f \in Range(filter) : FilterOK(f)
      <3>1. CASE filter = <<>>
        BY <3>1 DEF Range
      <3>2. CASE filter = <<filter[1]>> /\ FilterOK(filter[1])
        <4> DEFINE f == filter[1]
        <4>1. filter = <<f>> /\ FilterOK(f)
          BY <3>2
        <4> HIDE DEF f
        <4>2. Len(<<f>>) = 1 /\ Range(<<f>>) = {f}
          BY DEF Range
        <4> QED
          BY <4>1, <4>2
      <3> QED
        BY <3>1, <3>2 DEF ConfigInv
    <2>2. Len(request) <= 1
      <3> DEFINE map == request[1]
      <3>1. request = <<>> \/ request = <<map>>
        BY DEF ConfigInv
      <3> HIDE DEF map
      <3>2. CASE request = <<>>
        BY <3>2
      <3>3. CASE request = <<map>>
        <4>1. Len(<<map>>) = 1
          OBVIOUS
        <4> QED
          BY <3>3, <4>1
      <3> QED
        BY <3>1, <3>2, <3>3
    <2> QED
      BY <2>1, <2>2 DEF ConfigInv, TypeOK, MapOK
  <1> QED
    BY <1>1, ConfigInvariant, PTL

\* The server is only ever sent what it takes, for all limits, whatever was
\* built, refused or replaced before (grpc.rs:129, 186, 315-320).
THEOREM RequestsTaken == Spec => []RequestsSound
  <1>1. ConfigInv => RequestsSound
    <2> SUFFICES ASSUME ConfigInv, NEW map \in Range(request)
                 PROVE  Sound(map)
      BY DEF RequestsSound, Sound
    <2> DEFINE sent == request[1]
    <2>1. request = <<>> \/ (request = <<sent>> /\ Sound(sent))
      BY DEF ConfigInv
    <2> HIDE DEF sent
    <2>2. Range(<<>>) = {} /\ Range(<<sent>>) = {sent}
      BY DEF Range
    <2> QED
      BY <2>1, <2>2
  <1> QED
    BY <1>1, ConfigInvariant, PTL

\* The builders leave nothing to the second check of the number of keys, for
\* all limits (filters.rs:75-80 and 109-113).
THEOREM KeysCheckedOnce == Spec => []RefusedForNumber
  <1>1. ConfigInv => RefusedForNumber
    BY DEF ConfigInv
  <1> QED
    BY <1>1, ConfigInvariant, PTL
=============================================================================
