---------------------- MODULE StreamedExecutionProofs ----------------------
(***************************************************************************)
(* StreamedExecution for any prepared executions.  Two results hold of all *)
(* of them: the types, and that the staging ring is not overwritten.  The  *)
(* others are about executions without parallel groups and cached region   *)
(* whose schedule is as the preparation makes it (Scheduled, which the     *)
(* runs evaluate on what Preparation delivers): any program, prefetch      *)
(* distance, ring, resident constants and number of iterations.            *)
(*                                                                         *)
(* Their invariant, PlainInv, says where everything is: what was fetched   *)
(* (Fetches), how the entries of the main stream and the completion events *)
(* are ordered (Completions, MainQueue), that a kernel comes after its     *)
(* constants' copies (Awaited) and a copy after the kernels that used its  *)
(* slot (CopyQueue, Batches, Released), and from these that a value that   *)
(* was made and is still needed is in its place (InMemory).                *)
(*                                                                         *)
(* The last part shows that preparing a program as it is written           *)
(* (Preparation's AsWritten) gives such a schedule, so that what is proved *)
(* about its runs asks nothing of the schedule (PreparedRunsAreSound).     *)
(***************************************************************************)
EXTENDS StreamedExecution, FiniteSetTheorems, SequenceTheorems, TLAPS

(* A finite set put in some order: every element occurs, nothing else.     *)
LEMMA InSomeOrder ==
  ASSUME NEW S, IsFiniteSet(S)
  PROVE  /\ SetToSeq(S) \in Seq(S) /\ Len(SetToSeq(S)) \in Nat
         /\ DOMAIN SetToSeq(S) = 1 .. Len(SetToSeq(S))
         /\ \A k \in DOMAIN SetToSeq(S) : SetToSeq(S)[k] \in S
         /\ \A x \in S : \E k \in DOMAIN SetToSeq(S) : SetToSeq(S)[k] = x
<1> DEFINE n == Cardinality(S)
           f == SetToSeq(S)
<1>1. n \in Nat /\ ExistsBijection(1 .. n, S)
  BY FS_CardinalityType
<1>2. \E g \in [1 .. n -> S] : IsInjective(g)
  BY <1>1 DEF ExistsBijection, Bijection, Injection, IsInjective
<1>3. f \in [1 .. n -> S] /\ IsInjective(f)
  BY <1>2 DEF SetToSeq
<1>4. f \in Injection(1 .. n, S) /\ IsFiniteSet(1 .. n) /\ Cardinality(1 .. n) = n
  BY <1>1, <1>3, FS_Interval DEF Injection
<1>5. f \in Surjection(1 .. n, S)
  BY <1>4, FS_Injection
<1>6. \A x \in S : \E k \in 1 .. n : f[k] = x
  BY <1>5 DEF Surjection
<1> HIDE DEF f, n
<1>7. f \in Seq(S) /\ Len(f) = n
  BY <1>1, <1>3
<1>8. QED
  BY <1>1, <1>3, <1>6, <1>7 DEF f

-----------------------------------------------------------------------------
(* What the variables hold.                                                *)
All    == Operations(program)
Events == [stream : Streams, position : Nat]
Device == {run.place[t] : t \in Tensors} \cup {Cache(t) : t \in run.crossing}
Held    == [at : Places(run), holds : Int]
Written == [at : Device, holds : Int]
Entries ==
  [kind : {"wait"}, event : Events]
    \cup [kind : {"work"}, reads : SUBSET Held, writes : SUBSET Written, performs : SUBSET All]

HostTyped ==
  /\ host \in {"begin", "prime", "turn", "launch", "lanes", "ahead", "drain", "done"}
  /\ iteration \in Nat /\ turn \in 0 .. Count /\ target \in Nat
  /\ host \in {"launch", "lanes", "ahead"} => turn < Count
  /\ host = "lanes" => turn \in DOMAIN run.width /\ target \in turn + 1 .. turn + run.width[turn]
  /\ loaded \in BOOLEAN /\ cached \in BOOLEAN
EventsTyped ==
  /\ prefetched \subseteq All /\ performed \subseteq All
  /\ ready \in [All -> Events] /\ completion \in [All -> Events]
  /\ copied \in [Buffers -> Events]
DeviceTyped ==
  /\ queue \in [Streams -> Seq(Entries)] /\ retired \in [Streams -> Nat]
  /\ memory \in [Places(run) -> Int]
TypeInv == run \in Executions /\ HostTyped /\ EventsTyped /\ DeviceTyped

LEMMA RunTyped ==
  ASSUME run \in Executions
  PROVE  /\ Count \in Nat /\ All = 0 .. Count - 1 /\ program.inputs \in [All -> SUBSET Tensors]
         /\ program.outputs \in [All -> SUBSET Tensors]
         /\ run.depth \in Nat /\ run.staging \in Nat \ {0} /\ run.overlap \in BOOLEAN
         /\ run.resident \subseteq Tensors /\ run.lazy \subseteq run.resident
         /\ run.region \subseteq All /\ run.crossing \subseteq Tensors /\ run.skipped \subseteq All
         /\ DOMAIN run.width \subseteq All /\ run.followups \subseteq All
         /\ \A i \in DOMAIN run.width : run.width[i] \in Nat \ {0} /\ i + run.width[i] <= Count
         /\ run.launch \in [All -> [reads : SUBSET Tensors, writes : SUBSET Tensors,
                                    performs : SUBSET All]]
         /\ run.root \in [Tensors -> Tensors]
         /\ run.first \in [Tensors -> All \cup {None}]
         /\ run.release \in [Tensors -> All \cup {None}]
         /\ \A t \in Tensors : run.place[t] \in {"slot", "own"} \X Nat
         /\ run.iterations \in Nat /\ run.iterations = run.iterations
  BY ExecutionsAssumption DEF program, Count, All, Operations, None

(* Everything the shape of the state depends on stays what it is.          *)
LEMMA SameRun ==
  ASSUME run' = run
  PROVE  /\ program' = program /\ Count' = Count /\ Streams' = Streams /\ Buffers' = Buffers
         /\ All' = All /\ Events' = Events /\ Held' = Held /\ Device' = Device
         /\ Written' = Written /\ Entries' = Entries
         /\ Places(run)' = Places(run)
  BY DEF program, Count, Streams, Lanes, Buffers, All, Events, Held, Device, Written,
         Entries, Places

LEMMA StreamsTyped == Streams \subseteq Int /\ Copy \in Streams /\ Main \in Streams /\ Copy # Main
<1>1. Lanes \subseteq Int
  BY DEF Lanes
<1>2. QED
  BY <1>1 DEF Streams, Copy, Main

LEMMA PlacesTyped ==
  ASSUME run \in Executions
  PROVE  /\ \A t \in Tensors : HoldsTensor(t) \in Held \cap Written
         /\ \A t \in run.crossing : HoldsCached(t) \in Held \cap Written
         /\ \A i \in Int : HoldsStaged(i) \in Held /\ i % run.staging \in Buffers
         /\ \A b \in Buffers : Pinned(b) \in Places(run) \ Device
         /\ \A a, b \in Buffers : Pinned(a) = Pinned(b) => a = b
<1>1. Tensors \subseteq Int
  BY TensorsAssumption
<1>2. \A t \in Tensors : run.place[t] \in Places(run) \cap Device /\ run.root[t] \in Int
  BY <1>1, RunTyped DEF Places, Device
<1>3. \A t \in run.crossing : Cache(t) \in Places(run) \cap Device /\ run.root[t] \in Int
  BY <1>1, RunTyped DEF Places, Device
<1>4. \A b \in Buffers : Pinned(b) \in Places(run)
  BY DEF Places, Buffers
<1>5. \A b \in Buffers : Pinned(b) \notin Device
  BY RunTyped DEF Device, Pinned, Cache
<1>6. \A a, b \in Buffers : Pinned(a) = Pinned(b) => a = b
  BY DEF Pinned
<1>7. \A i \in Int : i % run.staging \in Buffers
  BY RunTyped DEF Buffers
<1>8. QED
  BY <1>2, <1>3, <1>4, <1>7, <1>5, <1>6 DEF HoldsTensor, HoldsCached, HoldsStaged, Held, Written

LEMMA WaitTyped == ASSUME NEW e \in Events PROVE Wait(e) \in Entries
  BY DEF Wait, Entries

LEMMA WorkTyped ==
  ASSUME NEW r \in SUBSET Held, NEW w \in SUBSET Written, NEW p \in SUBSET All
  PROVE  Work(r, w, p) \in Entries
  BY DEF Work, Entries

LEMMA RecordTyped ==
  ASSUME TypeInv, NEW s \in Streams, NEW q \in Seq(Entries) PROVE Record(s, q) \in Events
  BY DEF Record, Events, TypeInv, DeviceTyped

LEMMA WaitsTyped ==
  ASSUME NEW E \in SUBSET Events, IsFiniteSet(E)
  PROVE  /\ Waits(E) \in Seq(Entries)
         /\ \A k \in 1 .. Len(Waits(E)) : \E e \in E : Waits(E)[k] = Wait(e)
         /\ \A e \in E : \E k \in 1 .. Len(Waits(E)) : Waits(E)[k] = Wait(e)
<1> DEFINE order == SetToSeq(E)
<1>1. /\ order \in Seq(E) /\ Len(order) \in Nat /\ DOMAIN order = 1 .. Len(order)
      /\ \A k \in DOMAIN order : order[k] \in E
      /\ \A x \in E : \E k \in DOMAIN order : order[k] = x
  BY InSomeOrder
<1>2. Waits(E) = [k \in 1 .. Len(order) |-> Wait(order[k])]
  BY <1>1 DEF Waits
<1> HIDE DEF order
<1>3. \A k \in 1 .. Len(order) : Wait(order[k]) \in Entries
  BY <1>1, WaitTyped
<1>4. Waits(E) \in Seq(Entries) /\ Len(Waits(E)) = Len(order)
  BY <1>1, <1>2, <1>3
<1>5. QED
  BY <1>1, <1>2, <1>4

LEMMA AwaitTyped == ASSUME TypeInv, NEW i \in All PROVE Await(i) \in Seq(Entries)
  BY WaitTyped DEF Await, TypeInv, EventsTyped

LEMMA KernelOfTyped == ASSUME TypeInv, NEW i \in All PROVE KernelOf(i) \in Entries
<1> DEFINE l == run.launch[i]
<1>1. l \in [reads : SUBSET Tensors, writes : SUBSET Tensors, performs : SUBSET All]
  BY RunTyped DEF TypeInv
<1>2. {HoldsTensor(t) : t \in l.reads} \subseteq Held /\ {HoldsTensor(t) : t \in l.writes} \subseteq Written
  BY <1>1, PlacesTyped DEF TypeInv
<1>3. QED
  BY <1>1, <1>2, WorkTyped DEF KernelOf

LEMMA TensorsFinite == ASSUME NEW S \in SUBSET Tensors PROVE IsFiniteSet(S)
  BY TensorsAssumption, FS_Subset

LEMMA SavesTyped == ASSUME TypeInv, NEW i \in All PROVE Saves(i) \in Seq(Entries)
<1> DEFINE S == run.crossing \cap program.outputs[i]
           order == SetToSeq(S)
           save(t) == Work({HoldsTensor(t)}, {HoldsCached(t)}, {})
<1>1. S \subseteq Tensors /\ S \subseteq run.crossing
  BY RunTyped DEF TypeInv
<1>2. /\ Len(order) \in Nat /\ DOMAIN order = 1 .. Len(order)
      /\ \A k \in DOMAIN order : order[k] \in S
  BY <1>1, TensorsFinite, InSomeOrder
<1>3. \A t \in S : save(t) \in Entries
  BY <1>1, PlacesTyped, WorkTyped DEF TypeInv
<1>4. Saves(i) = [k \in 1 .. Len(order) |-> save(order[k])]
  BY <1>2 DEF Saves
<1> HIDE DEF order, S, save
<1>5. QED
  BY <1>2, <1>3, <1>4

LEMMA KernelsTyped == ASSUME TypeInv, NEW i \in All PROVE Kernels(i) \in Seq(Entries)
  BY KernelOfTyped, SavesTyped DEF Kernels

LEMMA FetchedTyped ==
  ASSUME TypeInv, NEW i \in All
  PROVE  Fetched(i) \subseteq Tensors /\ IsFiniteSet(Fetched(i))
<1>1. Fetched(i) \subseteq Tensors
  BY RunTyped DEF TypeInv, Fetched
<1>2. QED
  BY <1>1, TensorsFinite

LEMMA CopiesTyped ==
  ASSUME TypeInv, NEW i \in All
  PROVE  /\ Copies(i) \in Seq(Entries)
         /\ \A k \in 1 .. Len(Copies(i)) : \E t \in Fetched(i) : Copies(i)[k] = CopyOf(i, t)
         /\ \A t \in Fetched(i) : \E k \in 1 .. Len(Copies(i)) : Copies(i)[k] = CopyOf(i, t)
<1> DEFINE order == SetToSeq(Fetched(i))
<1>1. /\ Len(order) \in Nat /\ DOMAIN order = 1 .. Len(order)
      /\ \A k \in DOMAIN order : order[k] \in Fetched(i)
      /\ \A x \in Fetched(i) : \E k \in DOMAIN order : order[k] = x
  BY FetchedTyped, InSomeOrder
<1>2. \A t \in Fetched(i) : CopyOf(i, t) \in Entries
  <2>1. i \in Int
    BY RunTyped DEF TypeInv
  <2>2. QED
    BY <2>1, FetchedTyped, PlacesTyped, WorkTyped DEF TypeInv, CopyOf
<1>3. Copies(i) = [k \in 1 .. Len(order) |-> CopyOf(i, order[k])]
  BY <1>1 DEF Copies
<1> HIDE DEF order
<1>4. Copies(i) \in Seq(Entries) /\ Len(Copies(i)) = Len(order)
  BY <1>1, <1>2, <1>3
<1>5. QED
  BY <1>1, <1>3, <1>4

LEMMA ReleasesTyped ==
  ASSUME TypeInv, NEW i \in All
  PROVE  Releases(i) \subseteq Events /\ IsFiniteSet(Releases(i))
<1> DEFINE T == {u \in Fetched(i) : run.release[u] # None}
           f == [t \in T |-> completion[run.release[t]]]
<1>1. T \subseteq Tensors /\ IsFiniteSet(T)
  <2>1. T \subseteq Tensors
    BY FetchedTyped
  <2>2. QED
    BY <2>1, TensorsFinite
<1>2. \A t \in T : run.release[t] \in All
  BY <1>1, RunTyped DEF TypeInv
<1>3. Releases(i) = {completion[run.release[t]] : t \in T}
  BY DEF Releases
<1> HIDE DEF T
<1>4. Releases(i) \subseteq Events
  BY <1>2, <1>3 DEF TypeInv, EventsTyped
<1>5. f \in Surjection(T, Releases(i))
  BY <1>3 DEF Surjection
<1>6. QED
  BY <1>1, <1>4, <1>5, FS_Surjection

(* A call to prefetch() leaves everything it touches well formed.          *)
LEMMA PrefetchTyped ==
  ASSUME TypeInv, NEW i \in All, PrefetchIfAny(i)
  PROVE  /\ prefetched' \subseteq All /\ performed' \subseteq All
         /\ ready' \in [All -> Events] /\ copied' \in [Buffers -> Events]
         /\ queue' \in [Streams -> Seq(Entries)] /\ retired' \in [Streams -> Nat]
         /\ memory' \in [Places(run) -> Int]
<1>1. CASE UNCHANGED <<fetchVars, deviceVars>>
  BY <1>1 DEF TypeInv, EventsTyped, DeviceTyped, fetchVars, deviceVars
<1>2. CASE Prefetch(i)
  <2> DEFINE E == {e \in Releases(i) : Recorded(e)}
             q == queue[Copy] \o Waits(E) \o Copies(i)
             b == i % run.staging
  <2>1. i \in Int
    BY RunTyped DEF TypeInv
  <2>2. b \in Buffers /\ Pinned(b) \in Places(run)
    BY <2>1, PlacesTyped DEF TypeInv
  <2>3. E \in SUBSET Events /\ IsFiniteSet(E)
    BY ReleasesTyped, FS_Subset
  <2>4. Waits(E) \in Seq(Entries)
    BY <2>3, WaitsTyped
  <2>5. q \in Seq(Entries)
    BY <2>4, CopiesTyped, StreamsTyped DEF TypeInv, DeviceTyped
  <2>6. Record(Copy, q) \in Events
    BY <2>5, RecordTyped, StreamsTyped
  <2> HIDE DEF E
  <2>7. /\ memory' = [memory EXCEPT ![Pinned(b)] = i] /\ queue' = [queue EXCEPT ![Copy] = q]
        /\ ready' = [ready EXCEPT ![i] = Record(Copy, q)]
        /\ copied' = [copied EXCEPT ![b] = Record(Copy, q)]
        /\ prefetched' = prefetched \cup {i} /\ retired' = retired /\ performed' = performed
    BY <1>2 DEF Prefetch, E
  <2> HIDE DEF q, b
  <2>8. QED
    BY <2>1, <2>2, <2>5, <2>6, <2>7 DEF TypeInv, EventsTyped, DeviceTyped
<1>3. QED
  BY <1>1, <1>2 DEF PrefetchIfAny

(* The state after a step that changes no stream's shape.                  *)
LEMMA TypedAfter ==
  ASSUME TypeInv, run' = run,
         prefetched' \subseteq All, performed' \subseteq All,
         ready' \in [All -> Events], completion' \in [All -> Events],
         copied' \in [Buffers -> Events], queue' \in [Streams -> Seq(Entries)],
         retired' \in [Streams -> Nat], memory' \in [Places(run) -> Int]
  PROVE  run' \in Executions /\ EventsTyped' /\ DeviceTyped'
  BY SameRun DEF TypeInv, EventsTyped, DeviceTyped

LEMMA MainTyped ==
  ASSUME TypeInv, NEW q \in Seq(Entries)
  PROVE  /\ [queue EXCEPT ![Main] = q] \in [Streams -> Seq(Entries)]
         /\ \A i \in All : [completion EXCEPT ![i] = Record(Main, q)] \in [All -> Events]
  BY StreamsTyped, RecordTyped DEF TypeInv, DeviceTyped, EventsTyped

LEMMA InitTyped == Init => TypeInv
<1> SUFFICES ASSUME Init PROVE TypeInv
  OBVIOUS
<1>1. run \in Executions
  BY DEF Init
<1>2. HostTyped
  <2>1. Count \in Nat
    BY <1>1, RunTyped
  <2>2. iteration = 0 /\ host = "begin" /\ turn = 0 /\ target = 0 /\ loaded = FALSE /\ cached = FALSE
    BY DEF Init
  <2>3. iteration \in Nat /\ turn \in 0 .. Count /\ target \in Nat
    BY <2>1, <2>2
  <2>4. loaded \in BOOLEAN /\ cached \in BOOLEAN
    BY <2>2
  <2>5. QED
    BY <2>2, <2>3, <2>4, Zenon DEF HostTyped
<1>3. NoEvent \in Events
  BY StreamsTyped DEF NoEvent, Events
<1>4. EventsTyped
  BY <1>3 DEF Init, EventsTyped, All, program, Buffers
<1>5. queue \in [Streams -> Seq(Entries)] /\ retired \in [Streams -> Nat]
  BY DEF Init
<1>6. Tensors \subseteq Int /\ Garbage \in Int
  BY TensorsAssumption DEF Garbage
<1>7. memory \in [Places(run) -> Int]
  <2> DEFINE here(p) == \E t \in Tensors : run.place[t] = p /\ Uploaded(run, t)
             at(p) == CHOOSE t \in Tensors : run.place[t] = p /\ Uploaded(run, t)
  <2>1. \A p : here(p) => at(p) \in Tensors
    OBVIOUS
  <2>2. memory = [p \in Places(run) |-> IF here(p) THEN at(p) ELSE Garbage]
    BY DEF Init
  <2> HIDE DEF here, at
  <2>3. QED
    BY <1>6, <2>1, <2>2
<1>8. QED
  BY <1>1, <1>2, <1>4, <1>5, <1>7 DEF TypeInv, DeviceTyped

LEMMA PrimeTyped == ASSUME TypeInv, Prime PROVE TypeInv'
<1>1. target \in All /\ run' = run
  BY RunTyped DEF Prime, TypeInv, HostTyped
<1>2. PrefetchIfAny(target) \/ UNCHANGED <<fetchVars, deviceVars>>
  BY DEF Prime
<1>3. HostTyped'
  BY <1>1, SameRun DEF Prime, TypeInv, HostTyped
<1>4. EventsTyped' /\ DeviceTyped' /\ run' \in Executions
  BY <1>1, <1>2, PrefetchTyped, TypedAfter
     DEF Prime, TypeInv, EventsTyped, DeviceTyped, fetchVars, deviceVars
<1>5. QED
  BY <1>3, <1>4 DEF TypeInv

LEMMA FetchOwnTyped == ASSUME TypeInv, FetchOwn PROVE TypeInv'
<1>1. turn \in All /\ run' = run
  BY RunTyped DEF FetchOwn, TypeInv, HostTyped
<1>2. HostTyped'
  BY <1>1, SameRun DEF FetchOwn, TypeInv, HostTyped
<1>3. EventsTyped' /\ DeviceTyped' /\ run' \in Executions
  BY <1>1, PrefetchTyped, TypedAfter DEF FetchOwn, TypeInv, EventsTyped
<1>4. QED
  BY <1>2, <1>3 DEF TypeInv

LEMMA PrefetchLaneTyped == ASSUME TypeInv, PrefetchLane PROVE TypeInv'
<1>1. target \in All /\ run' = run
  BY RunTyped DEF PrefetchLane, TypeInv, HostTyped
<1>2. PrefetchIfAny(target) \/ UNCHANGED <<fetchVars, deviceVars>>
  BY DEF PrefetchLane
<1>3. HostTyped'
  <2>1. run.width[turn] \in Nat
    BY RunTyped DEF PrefetchLane, TypeInv, HostTyped
  <2>2. QED
    BY <1>1, <2>1, SameRun DEF PrefetchLane, TypeInv, HostTyped
<1>4. EventsTyped' /\ DeviceTyped' /\ run' \in Executions
  BY <1>1, <1>2, PrefetchTyped, TypedAfter
     DEF PrefetchLane, TypeInv, EventsTyped, DeviceTyped, fetchVars, deviceVars
<1>5. QED
  BY <1>3, <1>4 DEF TypeInv

LEMMA AheadTyped == ASSUME TypeInv, Ahead PROVE TypeInv'
<1>1. run' = run /\ turn < Count
  BY DEF Ahead, TypeInv, HostTyped
<1>2. \/ turn + run.depth \in All /\ PrefetchIfAny(turn + run.depth)
      \/ UNCHANGED <<fetchVars, deviceVars>>
  BY RunTyped DEF Ahead, TypeInv, HostTyped
<1>3. HostTyped'
  BY <1>1, SameRun, RunTyped DEF Ahead, TypeInv, HostTyped
<1>4. EventsTyped' /\ DeviceTyped' /\ run' \in Executions
  BY <1>1, <1>2, PrefetchTyped, TypedAfter
     DEF Ahead, TypeInv, EventsTyped, DeviceTyped, fetchVars, deviceVars
<1>5. QED
  BY <1>3, <1>4 DEF TypeInv

LEMMA BeginTyped == ASSUME TypeInv, Begin PROVE TypeInv'
<1> DEFINE restore == Work({HoldsCached(t) : t \in run.crossing},
                           {HoldsTensor(t) : t \in run.crossing}, run.region)
<1>1. restore \in Entries
  <2>1. {HoldsCached(t) : t \in run.crossing} \subseteq Held
        /\ {HoldsTensor(t) : t \in run.crossing} \subseteq Written
    BY PlacesTyped, RunTyped DEF TypeInv
  <2>2. QED
    BY <2>1, WorkTyped, RunTyped DEF TypeInv
<1>2. run' = run
  BY DEF Begin
<1>3. Append(queue[Main], restore) \in Seq(Entries)
  BY <1>1, StreamsTyped DEF TypeInv, DeviceTyped
<1>4. [queue EXCEPT ![Main] = Append(@, restore)] \in [Streams -> Seq(Entries)]
  BY <1>3, StreamsTyped DEF TypeInv, DeviceTyped
<1>5. queue' = queue \/ queue' = [queue EXCEPT ![Main] = Append(@, restore)]
  BY DEF Begin
<1> HIDE DEF restore
<1>6. queue' \in [Streams -> Seq(Entries)]
  BY <1>4, <1>5 DEF TypeInv, DeviceTyped
<1>7. HostTyped'
  BY <1>2, SameRun, RunTyped DEF Begin, TypeInv, HostTyped
<1>8. EventsTyped' /\ DeviceTyped' /\ run' \in Executions
  BY <1>2, <1>6, TypedAfter DEF Begin, TypeInv, EventsTyped, DeviceTyped
<1>9. QED
  BY <1>7, <1>8 DEF TypeInv

LEMMA AfterTurnTyped ==
  ASSUME TypeInv, AfterTurn, run' = run, turn < Count,
         UNCHANGED <<iteration, loaded, cached>>
  PROVE  HostTyped'
  BY SameRun, RunTyped DEF AfterTurn, TypeInv, HostTyped

LEMMA LaunchTyped == ASSUME TypeInv, Launch PROVE TypeInv'
<1> DEFINE q == queue[Main] \o Await(turn) \o Kernels(turn)
<1>1. turn \in All /\ run' = run
  BY RunTyped DEF Launch, AtLaunch, TypeInv, HostTyped
<1>2. q \in Seq(Entries)
  BY <1>1, AwaitTyped, KernelsTyped, StreamsTyped DEF TypeInv, DeviceTyped
<1>3. queue' = [queue EXCEPT ![Main] = q] /\ completion' = [completion EXCEPT ![turn] = Record(Main, q)]
  BY DEF Launch
<1> HIDE DEF q
<1>4. queue' \in [Streams -> Seq(Entries)] /\ completion' \in [All -> Events]
  BY <1>1, <1>2, <1>3, MainTyped
<1>5. HostTyped'
  BY <1>1, AfterTurnTyped DEF Launch, AtLaunch
<1>6. EventsTyped' /\ DeviceTyped' /\ run' \in Executions
  BY <1>1, <1>4, TypedAfter DEF Launch, TypeInv, EventsTyped, DeviceTyped, fetchVars
<1>7. QED
  BY <1>5, <1>6 DEF TypeInv


LEMMA LaunchGroupTyped == ASSUME TypeInv, LaunchGroup PROVE TypeInv'
<1> DEFINE n == run.width[turn] - 1
           lanes == LanesOf(turn)
           awaited == queue[Main] \o Await(turn)
           started == Record(Main, awaited)
           lane(k) == queue[k] \o Await(turn + k) \o <<Wait(started)>> \o Kernels(turn + k)
           first == awaited \o Kernels(turn)
           ends == {Record(k, lane(k)) : k \in lanes}
           joins == Waits(ends)
<1>1. /\ turn \in All /\ turn \in DOMAIN run.width /\ run' = run /\ n \in Nat /\ lanes = 1 .. n
      /\ \A k \in lanes : turn + k \in All
  BY RunTyped DEF LaunchGroup, LanesOf, TypeInv, HostTyped
<1>2. lanes \subseteq Streams
  BY <1>1 DEF LanesOf, Lanes, Streams
<1>3. awaited \in Seq(Entries) /\ first \in Seq(Entries)
  BY <1>1, AwaitTyped, KernelsTyped, StreamsTyped DEF TypeInv, DeviceTyped
<1>4. started \in Events
  BY <1>3, RecordTyped, StreamsTyped
<1>5. \A k \in lanes : lane(k) \in Seq(Entries)
  <2> SUFFICES ASSUME NEW k \in lanes PROVE lane(k) \in Seq(Entries)
    OBVIOUS
  <2>1. turn + k \in All
    BY <1>1
  <2>2. queue[k] \in Seq(Entries) /\ Await(turn + k) \in Seq(Entries)
        /\ Kernels(turn + k) \in Seq(Entries)
    BY <1>2, <2>1, AwaitTyped, KernelsTyped DEF TypeInv, DeviceTyped
  <2>3. Wait(started) \in Entries
    BY <1>4, WaitTyped
  <2> HIDE DEF started
  <2>4. QED
    BY <2>2, <2>3
<1>6. \A k \in lanes : Record(k, lane(k)) \in Events
  BY <1>2, <1>5, RecordTyped
<1>7. Record(Main, first) \in Events
  BY <1>3, RecordTyped, StreamsTyped
<1> HIDE DEF lane, first, awaited
<1>8. ends \subseteq Events /\ IsFiniteSet(ends)
  <2> DEFINE g == [k \in lanes |-> Record(k, lane(k))]
  <2>1. IsFiniteSet(lanes)
    BY <1>1, FS_Interval
  <2>2. g \in Surjection(lanes, ends)
    BY DEF Surjection
  <2>3. QED
    BY <1>6, <2>1, <2>2, FS_Surjection
<1>9. joins \in Seq(Entries)
  BY <1>8, WaitsTyped
<1>10. /\ queue' = [s \in Streams |-> CASE s = Main -> first \o joins
                                        [] s \in lanes -> lane(s)
                                        [] OTHER -> queue[s]]
       /\ completion' = [i \in DOMAIN completion |->
             CASE i = turn -> Record(Main, first)
               [] i - turn \in lanes -> Record(i - turn, lane(i - turn))
               [] OTHER -> completion[i]]
  BY DEF LaunchGroup, lane, first, awaited
<1> HIDE DEF joins, lanes, n
<1>11. first \o joins \in Seq(Entries)
  BY <1>3, <1>9
<1>12. queue' \in [Streams -> Seq(Entries)]
  BY <1>5, <1>10, <1>11 DEF TypeInv, DeviceTyped
<1>13. completion' \in [All -> Events]
  BY <1>6, <1>7, <1>10 DEF TypeInv, EventsTyped
<1>14. HostTyped'
  BY <1>1, SameRun, RunTyped DEF LaunchGroup, TypeInv, HostTyped
<1>15. EventsTyped' /\ DeviceTyped' /\ run' \in Executions
  BY <1>1, <1>12, <1>13, TypedAfter DEF LaunchGroup, TypeInv, EventsTyped, DeviceTyped, fetchVars
<1>16. QED
  BY <1>14, <1>15 DEF TypeInv

(* The steps that only move the host on, or record a completion.           *)
LEMMA OtherHostTyped ==
  ASSUME TypeInv, Primed \/ ReuseTurn \/ FollowupTurn \/ EnterGroup \/ EndTurns \/ Drain
  PROVE  TypeInv'
<1>1. run' = run
  BY DEF Primed, ReuseTurn, FollowupTurn, EnterGroup, EndTurns, Drain
<1>2. HostTyped'
  <2>1. CASE Primed
    BY <1>1, <2>1, SameRun DEF Primed, TypeInv, HostTyped
  <2>2. CASE ReuseTurn
    BY <1>1, <2>2, AfterTurnTyped DEF ReuseTurn
  <2>3. CASE FollowupTurn
    BY <1>1, <2>3, AfterTurnTyped DEF FollowupTurn
  <2>4. CASE EnterGroup
    <3>1. turn \in DOMAIN run.width /\ run.width[turn] \in Nat \ {0} /\ turn \in Nat
      BY <2>4, RunTyped DEF EnterGroup, Leader, TypeInv, HostTyped
    <3>2. QED
      BY <1>1, <2>4, <3>1, SameRun DEF EnterGroup, AtLaunch, TypeInv, HostTyped
  <2>5. CASE EndTurns
    BY <1>1, <2>5, SameRun DEF EndTurns, TypeInv, HostTyped
  <2>6. CASE Drain
    BY <1>1, <2>6, SameRun DEF Drain, TypeInv, HostTyped
  <2>7. QED
    BY <2>1, <2>2, <2>3, <2>4, <2>5, <2>6
<1>3. completion' \in [All -> Events]
  <2>1. CASE ReuseTurn
    <3>1. turn \in All /\ queue[Main] \in Seq(Entries)
      BY <2>1, RunTyped, StreamsTyped DEF ReuseTurn, TypeInv, HostTyped, DeviceTyped
    <3>2. QED
      BY <2>1, <3>1, MainTyped DEF ReuseTurn
  <2>2. CASE completion' = completion
    BY <2>2 DEF TypeInv, EventsTyped
  <2>3. QED
    BY <2>1, <2>2 DEF Primed, FollowupTurn, EnterGroup, EndTurns, Drain
<1>4. performed' \subseteq All
  BY DEF Primed, ReuseTurn, FollowupTurn, EnterGroup, EndTurns, Drain, deviceVars, TypeInv,
         EventsTyped
<1>5. UNCHANGED <<fetchVars, queue, retired, memory>>
  BY DEF Primed, ReuseTurn, FollowupTurn, EnterGroup, EndTurns, Drain, deviceVars
<1>6. EventsTyped' /\ DeviceTyped' /\ run' \in Executions
  BY <1>1, <1>3, <1>4, <1>5, TypedAfter DEF TypeInv, EventsTyped, DeviceTyped, fetchVars
<1>7. QED
  BY <1>2, <1>6 DEF TypeInv

LEMMA RetireTyped ==
  ASSUME TypeInv, NEW s \in Streams, queue[s] # <<>>, Retire(s)
  PROVE  /\ queue' \in [Streams -> Seq(Entries)] /\ retired' \in [Streams -> Nat]
         /\ run' = run /\ HostTyped'
<1>1. Tail(queue[s]) \in Seq(Entries)
  BY DEF TypeInv, DeviceTyped
<1>2. run' = run
  BY DEF Retire
<1>3. QED
  BY <1>1, <1>2, SameRun DEF Retire, TypeInv, DeviceTyped, HostTyped

LEMMA AdvanceTyped ==
  ASSUME TypeInv, NEW s \in Streams, Advance(s) PROVE TypeInv'
<1>1. queue[s] # <<>> /\ Retire(s)
  BY DEF Advance, PassWait, PerformWork, Head_is
<1>2. memory' \in [Places(run) -> Int] /\ performed' \subseteq All
  <2>1. CASE PassWait(s)
    BY <2>1 DEF PassWait, TypeInv, DeviceTyped, EventsTyped
  <2>2. CASE PerformWork(s)
    <3> DEFINE work == Head(queue[s])
               written(p) == {w \in work.writes : w.at = p}
               put(p) == (CHOOSE w \in written(p) : TRUE).holds
    <3>1. work \in Entries /\ work.kind = "work"
      BY <1>1, <2>2 DEF PerformWork, Head_is, TypeInv, DeviceTyped
    <3>2. work.writes \subseteq Written /\ work.performs \subseteq All
      BY <3>1 DEF Entries
    <3>3. \A p : written(p) # {} => put(p) \in Int
      BY <3>2 DEF Written
    <3>4. /\ memory' = [p \in DOMAIN memory |-> IF written(p) = {} THEN memory[p]
                          ELSE IF InPlace(work) THEN put(p) ELSE Garbage]
          /\ performed' = performed \cup work.performs
      BY <2>2 DEF PerformWork
    <3> HIDE DEF work, written, put
    <3>5. QED
      BY <3>2, <3>3, <3>4 DEF TypeInv, DeviceTyped, EventsTyped, Garbage
  <2>3. QED
    BY <2>1, <2>2 DEF Advance
<1>3. EventsTyped' /\ DeviceTyped' /\ run' \in Executions
  BY <1>1, <1>2, RetireTyped, TypedAfter DEF Retire, TypeInv, EventsTyped, DeviceTyped, fetchVars
<1>4. QED
  BY <1>1, <1>3, RetireTyped DEF TypeInv

LEMMA TypeStep == TypeInv /\ [Next]_vars => TypeInv'
<1> SUFFICES ASSUME TypeInv, [Next]_vars PROVE TypeInv'
  OBVIOUS
<1>1. CASE Begin
  BY <1>1, BeginTyped
<1>2. CASE Prime
  BY <1>2, PrimeTyped
<1>3. CASE FetchOwn
  BY <1>3, FetchOwnTyped
<1>4. CASE PrefetchLane
  BY <1>4, PrefetchLaneTyped
<1>5. CASE Ahead
  BY <1>5, AheadTyped
<1>6. CASE Launch
  BY <1>6, LaunchTyped
<1>7. CASE LaunchGroup
  BY <1>7, LaunchGroupTyped
<1>8. CASE Primed \/ ReuseTurn \/ FollowupTurn \/ EnterGroup \/ EndTurns \/ Drain
  BY <1>8, OtherHostTyped
<1>9. CASE \E s \in Streams : Advance(s)
  BY <1>9, AdvanceTyped
<1>10. CASE UNCHANGED vars
  BY <1>10, SameRun DEF vars, fetchVars, deviceVars, TypeInv, HostTyped, EventsTyped, DeviceTyped
<1>11. QED
  BY <1>1, <1>2, <1>3, <1>4, <1>5, <1>6, <1>7, <1>8, <1>9, <1>10 DEF Next, Host

(* The state of every run is well formed: the host stays within the        *)
(* program, events name streams of this execution, and what the streams    *)
(* hold refers to storage the execution has.                               *)
THEOREM StreamedTypeCorrect == Spec => []TypeInv
  BY InitTyped, TypeStep, PTL DEF Spec

-----------------------------------------------------------------------------
(* The ring of staging buffers: a copy that has still to read a buffer was *)
(* submitted before the event the host waits for to reuse it.              *)
Staged ==
  \A k \in DOMAIN queue[Copy] : queue[Copy][k].kind = "work" =>
    \A b \in Buffers : \A r \in queue[Copy][k].reads : r.at = Pinned(b) =>
      copied[b].stream = Copy /\ retired[Copy] + k <= copied[b].position

(* The entries of three sequences put behind one another.                  *)
Joined(a, b, c) == a \o b \o c

Consists(q, a, b, c) ==
  /\ Len(q) = Len(a) + Len(b) + Len(c)
  /\ \A k \in 1 .. Len(q) :
       \/ k \in 1 .. Len(a) /\ q[k] = a[k]
       \/ \E j \in 1 .. Len(b) : k = Len(a) + j /\ q[k] = b[j]
       \/ \E j \in 1 .. Len(c) : k = Len(a) + Len(b) + j /\ q[k] = c[j]
  /\ \A k \in 1 .. Len(a) : q[k] = a[k]
  /\ \A j \in 1 .. Len(b) : q[Len(a) + j] = b[j]
  /\ \A j \in 1 .. Len(c) : q[Len(a) + Len(b) + j] = c[j]

LEMMA InThree ==
  ASSUME NEW S, NEW a \in Seq(S), NEW b \in Seq(S), NEW c \in Seq(S)
  PROVE  Joined(a, b, c) \in Seq(S) /\ Consists(Joined(a, b, c), a, b, c)
<1> DEFINE q == a \o b \o c
<1>1. Len(a) \in Nat /\ Len(b) \in Nat /\ Len(c) \in Nat
  OBVIOUS
<1>2. a \o b \in Seq(S) /\ Len(a \o b) = Len(a) + Len(b) /\ q \in Seq(S)
  OBVIOUS
<1>3. Len(q) = Len(a) + Len(b) + Len(c)
  BY <1>2
<1>4. \A k \in 1 .. Len(a) : q[k] = a[k]
  BY <1>1, <1>2
<1>5. \A j \in 1 .. Len(b) : q[Len(a) + j] = b[j]
  BY <1>1, <1>2
<1>6. \A j \in 1 .. Len(c) : q[Len(a) + Len(b) + j] = c[j]
  BY <1>1, <1>2
<1>7. ASSUME NEW k \in 1 .. Len(q)
      PROVE  \/ k \in 1 .. Len(a) /\ q[k] = a[k]
             \/ \E j \in 1 .. Len(b) : k = Len(a) + j /\ q[k] = b[j]
             \/ \E j \in 1 .. Len(c) : k = Len(a) + Len(b) + j /\ q[k] = c[j]
  <2>1. CASE k <= Len(a)
    BY <1>1, <1>3, <1>4, <2>1
  <2>2. CASE k > Len(a) /\ k <= Len(a) + Len(b)
    <3>1. k - Len(a) \in 1 .. Len(b) /\ k = Len(a) + (k - Len(a))
      BY <1>1, <2>2
    <3>2. QED
      BY <1>5, <3>1
  <2>3. CASE k > Len(a) + Len(b)
    <3>1. k - (Len(a) + Len(b)) \in 1 .. Len(c)
          /\ k = Len(a) + Len(b) + (k - (Len(a) + Len(b)))
      BY <1>1, <1>3, <2>3
    <3>2. QED
      BY <1>6, <3>1
  <2>4. QED
    BY <1>1, <2>1, <2>2, <2>3
<1> HIDE DEF q
<1>8. q = Joined(a, b, c)
  BY DEF q, Joined
<1>9. QED
  BY <1>2, <1>3, <1>4, <1>5, <1>6, <1>7, <1>8 DEF Consists

(* A prefetch puts a batch of waits and copies behind the copy stream.     *)
Batch(i) == Waits({e \in Releases(i) : Recorded(e)})

LEMMA PrefetchEffect ==
  ASSUME TypeInv, NEW i \in All, Prefetch(i)
  PROVE  LET q == Joined(queue[Copy], Batch(i), Copies(i))
             b == i % run.staging
         IN  /\ i \in Int /\ b \in Buffers /\ Done(copied[b])
             /\ queue[Copy] \in Seq(Entries) /\ Batch(i) \in Seq(Entries) /\ Copies(i) \in Seq(Entries)
             /\ \A k \in 1 .. Len(Batch(i)) :
                  \E e \in Releases(i) : Recorded(e) /\ Batch(i)[k] = Wait(e)
             /\ \A e \in Releases(i) : Recorded(e) => \E k \in 1 .. Len(Batch(i)) : Batch(i)[k] = Wait(e)
             /\ queue'[Copy] = q /\ \A s \in Streams \ {Copy} : queue'[s] = queue[s]
             /\ memory'[Pinned(b)] = i
             /\ \A p \in Places(run) \ {Pinned(b)} : memory'[p] = memory[p]
             /\ \A j \in All : ready'[j] = IF j = i THEN Record(Copy, q) ELSE ready[j]
             /\ \A c \in Buffers : copied'[c] = IF c = b THEN Record(Copy, q) ELSE copied[c]
             /\ prefetched' = prefetched \cup {i} /\ retired' = retired /\ performed' = performed
<1> DEFINE E == {e \in Releases(i) : Recorded(e)}
           q == Joined(queue[Copy], Batch(i), Copies(i))
           b == i % run.staging
<1>1. i \in Int
  BY RunTyped DEF TypeInv
<1>2. b \in Buffers /\ Pinned(b) \in Places(run)
  BY <1>1, PlacesTyped DEF TypeInv
<1>3. E \in SUBSET Events /\ IsFiniteSet(E)
  BY ReleasesTyped, FS_Subset
<1>4. /\ Waits(E) \in Seq(Entries)
      /\ \A k \in 1 .. Len(Waits(E)) : \E e \in E : Waits(E)[k] = Wait(e)
      /\ \A e \in E : \E k \in 1 .. Len(Waits(E)) : Waits(E)[k] = Wait(e)
  BY <1>3, WaitsTyped
<1>5. queue[Copy] \in Seq(Entries) /\ Copies(i) \in Seq(Entries)
  BY CopiesTyped, StreamsTyped DEF TypeInv, DeviceTyped
<1>6. /\ memory' = [memory EXCEPT ![Pinned(b)] = i] /\ queue' = [queue EXCEPT ![Copy] = q]
      /\ ready' = [ready EXCEPT ![i] = Record(Copy, q)]
      /\ copied' = [copied EXCEPT ![b] = Record(Copy, q)]
      /\ prefetched' = prefetched \cup {i} /\ retired' = retired /\ performed' = performed
      /\ Done(copied[b])
  BY DEF Prefetch, BufferFree, Batch, Joined
<1>7. Batch(i) = Waits(E)
  BY DEF Batch
<1> HIDE DEF q, b
<1>8. /\ queue'[Copy] = q /\ \A s \in Streams \ {Copy} : queue'[s] = queue[s]
      /\ memory'[Pinned(b)] = i /\ \A p \in Places(run) \ {Pinned(b)} : memory'[p] = memory[p]
      /\ \A j \in All : ready'[j] = IF j = i THEN Record(Copy, q) ELSE ready[j]
      /\ \A c \in Buffers : copied'[c] = IF c = b THEN Record(Copy, q) ELSE copied[c]
  BY <1>2, <1>6, StreamsTyped DEF TypeInv, EventsTyped, DeviceTyped
<1>9. /\ Batch(i) \in Seq(Entries)
      /\ \A k \in 1 .. Len(Batch(i)) : \E e \in Releases(i) : Recorded(e) /\ Batch(i)[k] = Wait(e)
      /\ \A e \in Releases(i) : Recorded(e) => \E k \in 1 .. Len(Batch(i)) : Batch(i)[k] = Wait(e)
  BY <1>4, <1>7
<1> HIDE DEF E
<1>10. QED
  BY <1>1, <1>2, <1>5, <1>6, <1>8, <1>9 DEF q, b

LEMMA KindsDiffer ==
  /\ \A e : Wait(e).kind = "wait" /\ Wait(e).event = e
  /\ \A r, w, p : /\ Work(r, w, p).kind = "work" /\ Work(r, w, p).reads = r
                  /\ Work(r, w, p).writes = w /\ Work(r, w, p).performs = p
  BY DEF Wait, Work

LEMMA PrefetchStaged ==
  ASSUME TypeInv, Staged, NEW i \in All, PrefetchIfAny(i), run' = run
  PROVE  Staged'
<1>1. CASE UNCHANGED <<fetchVars, deviceVars>>
  BY <1>1, SameRun DEF Staged, fetchVars, deviceVars
<1>2. CASE Prefetch(i)
  <2> DEFINE W == Batch(i)
             C == Copies(i)
             q == Joined(queue[Copy], W, C)
             b0 == i % run.staging
  <2> USE StreamsTyped
  <2>1. /\ i \in Int /\ b0 \in Buffers
        /\ queue[Copy] \in Seq(Entries) /\ W \in Seq(Entries) /\ C \in Seq(Entries)
        /\ \A k \in 1 .. Len(W) : \E e \in Releases(i) : Recorded(e) /\ W[k] = Wait(e)
        /\ queue'[Copy] = q /\ retired' = retired
        /\ \A c \in Buffers : copied'[c] = IF c = b0 THEN Record(Copy, q) ELSE copied[c]
    BY <1>2, PrefetchEffect
  <2>2. \A k \in 1 .. Len(C) : \E t \in Fetched(i) : C[k] = CopyOf(i, t)
    BY CopiesTyped
  <2>3. retired[Copy] \in Nat
    BY DEF TypeInv, DeviceTyped
  <2> HIDE DEF W, C, b0
  <2>4. Record(Copy, q) = [stream |-> Copy, position |-> retired[Copy] + Len(q)]
    BY DEF Record
  <2>5. /\ queue[Copy] \in Seq(Entries) /\ W \in Seq(Entries) /\ C \in Seq(Entries)
        /\ q = Joined(queue[Copy], W, C)
    BY <2>1
  <2> HIDE DEF q
  <2>6. q \in Seq(Entries) /\ Consists(q, queue[Copy], W, C)
    BY <2>5, InThree
  <2> SUFFICES ASSUME NEW k \in 1 .. Len(q), q[k].kind = "work", NEW b \in Buffers,
                      NEW r \in q[k].reads, r.at = Pinned(b)
               PROVE  copied'[b].stream = Copy /\ retired[Copy] + k <= copied'[b].position
    <3>1. DOMAIN q = 1 .. Len(q)
      BY <2>6
    <3>2. QED
      BY <2>1, <3>1, SameRun DEF Staged
  <2>7. CASE k \in 1 .. Len(queue[Copy]) /\ q[k] = queue[Copy][k]
    <3>1. copied[b].stream = Copy /\ retired[Copy] + k <= copied[b].position
      BY <2>1, <2>7 DEF Staged
    <3>2. Len(queue[Copy]) \in Nat /\ Len(W) \in Nat /\ Len(C) \in Nat
      BY <2>1
    <3>3. k <= Len(q)
      BY <2>6, <2>7, <3>2 DEF Consists
    <3>4. QED
      BY <2>1, <2>3, <2>4, <3>1, <3>3
  <2>8. CASE \E j \in 1 .. Len(W) : q[k] = W[j]
    BY <2>1, <2>8, KindsDiffer
  <2>9. CASE \E j \in 1 .. Len(C) : q[k] = C[j]
    <3>1. PICK t \in Fetched(i) : q[k] = CopyOf(i, t)
      BY <2>2, <2>9
    <3>2. r = HoldsStaged(i)
      BY <3>1, KindsDiffer DEF CopyOf
    <3>3. r.at = Pinned(b0)
      BY <3>2 DEF HoldsStaged, b0
    <3>4. b = b0
      BY <2>1, <3>3, PlacesTyped DEF TypeInv
    <3>5. QED
      BY <2>1, <2>3, <2>4, <2>6, <3>4
  <2>10. QED
    BY <2>7, <2>8, <2>9, <2>6 DEF Consists
<1>3. QED
  BY <1>1, <1>2 DEF PrefetchIfAny

(* Which steps prefetch, and what the others leave alone.                  *)
LEMMA HostSteps ==
  ASSUME TypeInv, Host
  PROVE  /\ run' = run /\ retired' = retired
         /\ \/ \E i \in All : PrefetchIfAny(i)
            \/ UNCHANGED <<fetchVars, memory>> /\ queue'[Copy] = queue[Copy]
            \/ Begin /\ UNCHANGED <<ready, copied, memory>> /\ queue'[Copy] = queue[Copy]
<1>1. CASE Prime
  <2>1. target \in All
    BY <1>1, RunTyped DEF Prime, TypeInv, HostTyped
  <2>2. QED
    BY <1>1, <2>1 DEF Prime, PrefetchIfAny, Prefetch, fetchVars, deviceVars
<1>2. CASE FetchOwn
  <2>1. turn \in All
    BY <1>2, RunTyped DEF FetchOwn, TypeInv, HostTyped
  <2>2. QED
    BY <1>2, <2>1 DEF FetchOwn, PrefetchIfAny, Prefetch, fetchVars, deviceVars
<1>3. CASE PrefetchLane
  <2>1. target \in All
    BY <1>3, RunTyped DEF PrefetchLane, TypeInv, HostTyped
  <2>2. QED
    BY <1>3, <2>1 DEF PrefetchLane, PrefetchIfAny, Prefetch, fetchVars, deviceVars
<1>4. CASE Ahead
  <2>1. turn + run.depth < Count => turn + run.depth \in All
    BY <1>4, RunTyped DEF Ahead, TypeInv, HostTyped
  <2>2. turn + run.depth >= Count \/ turn + run.depth < Count
    BY RunTyped DEF TypeInv, HostTyped
  <2>3. run' = run /\ (PrefetchIfAny(turn + run.depth) \/ UNCHANGED <<fetchVars, deviceVars>>)
    BY <1>4 DEF Ahead
  <2>4. CASE UNCHANGED <<fetchVars, deviceVars>>
    BY <2>3, <2>4 DEF fetchVars, deviceVars
  <2>5. CASE turn + run.depth < Count /\ PrefetchIfAny(turn + run.depth)
    BY <2>1, <2>3, <2>5 DEF PrefetchIfAny, Prefetch, deviceVars
  <2>6. QED
    BY <1>4, <2>2, <2>3, <2>4, <2>5 DEF Ahead
<1>5. CASE Begin
  BY <1>5, StreamsTyped DEF Begin, TypeInv, DeviceTyped
<1>6. CASE Launch
  BY <1>6, StreamsTyped DEF Launch, fetchVars, TypeInv, DeviceTyped
<1>7. CASE LaunchGroup
  <2>1. Copy \notin LanesOf(turn)
    BY DEF LanesOf, Copy
  <2>2. queue'[Copy] = queue[Copy]
    BY <1>7, <2>1, StreamsTyped DEF LaunchGroup
  <2>3. QED
    BY <1>7, <2>2 DEF LaunchGroup, fetchVars
<1>8. CASE Primed \/ ReuseTurn \/ FollowupTurn \/ EnterGroup \/ EndTurns \/ Drain
  BY <1>8 DEF Primed, ReuseTurn, FollowupTurn, EnterGroup, EndTurns, Drain, fetchVars, deviceVars
<1>9. QED
  BY <1>1, <1>2, <1>3, <1>4, <1>5, <1>6, <1>7, <1>8 DEF Host

(* A stream that advances drops the first entry of its queue.              *)
LEMMA AdvanceEffect ==
  ASSUME TypeInv, NEW s \in Streams, Advance(s)
  PROVE  /\ queue[s] \in Seq(Entries) /\ queue[s] # <<>> /\ Len(queue[s]) \in Nat \ {0}
         /\ queue'[s] = Tail(queue[s]) /\ Len(queue'[s]) = Len(queue[s]) - 1
         /\ \A k \in 1 .. Len(queue'[s]) : k + 1 \in 1 .. Len(queue[s]) /\ queue'[s][k] = queue[s][k + 1]
         /\ retired[s] \in Nat /\ retired'[s] = retired[s] + 1
         /\ \A c \in Streams \ {s} : queue'[c] = queue[c] /\ retired'[c] = retired[c]
         /\ UNCHANGED <<run, iteration, host, turn, target, fetchVars, completion, loaded, cached>>
<1>1. queue[s] \in Seq(Entries) /\ queue[s] # <<>> /\ Retire(s) /\ retired[s] \in Nat
  BY DEF Advance, PassWait, PerformWork, Head_is, TypeInv, DeviceTyped
<1>2. queue'[s] = Tail(queue[s]) /\ retired'[s] = retired[s] + 1
      /\ \A c \in Streams \ {s} : queue'[c] = queue[c] /\ retired'[c] = retired[c]
  BY <1>1 DEF Retire, TypeInv, DeviceTyped
<1>3. Len(queue[s]) \in Nat \ {0} /\ Len(Tail(queue[s])) = Len(queue[s]) - 1
      /\ \A k \in 1 .. Len(queue[s]) - 1 : Tail(queue[s])[k] = queue[s][k + 1]
  BY <1>1
<1>4. /\ Len(queue'[s]) = Len(queue[s]) - 1
      /\ \A k \in 1 .. Len(queue'[s]) : k + 1 \in 1 .. Len(queue[s]) /\ queue'[s][k] = queue[s][k + 1]
  BY <1>2, <1>3
<1>5. UNCHANGED <<run, iteration, host, turn, target, fetchVars, completion, loaded, cached>>
  BY <1>1 DEF Retire
<1>6. QED
  BY <1>1, <1>2, <1>3, <1>4, <1>5

LEMMA StagedStep == TypeInv /\ Staged /\ [Next]_vars => Staged'
<1> SUFFICES ASSUME TypeInv, Staged, [Next]_vars PROVE Staged'
  OBVIOUS
<1>1. CASE UNCHANGED vars
  BY <1>1, SameRun DEF vars, Staged, fetchVars, deviceVars
<1>2. CASE Host
  <2>1. CASE \E i \in All : PrefetchIfAny(i)
    BY <1>2, <2>1, HostSteps, PrefetchStaged
  <2>2. CASE UNCHANGED copied /\ queue'[Copy] = queue[Copy]
    BY <1>2, <2>2, HostSteps, SameRun DEF Staged
  <2>3. QED
    BY <1>2, <2>1, <2>2, HostSteps DEF fetchVars
<1>3. ASSUME NEW s \in Streams, Advance(s) PROVE Staged'
  <2>1. run' = run /\ copied' = copied
    BY <1>3, AdvanceEffect DEF fetchVars
  <2>2. CASE s # Copy
    BY <1>3, <2>1, <2>2, AdvanceEffect, StreamsTyped, SameRun DEF Staged
  <2>3. CASE s = Copy
    <3>1. ASSUME NEW k \in 1 .. Len(queue'[Copy]), queue'[Copy][k].kind = "work",
                 NEW b \in Buffers, NEW r \in queue'[Copy][k].reads, r.at = Pinned(b)
          PROVE  copied[b].stream = Copy /\ retired'[Copy] + k <= copied[b].position
      <4>1. /\ k + 1 \in DOMAIN queue[Copy] /\ queue'[Copy][k] = queue[Copy][k + 1]
            /\ retired[Copy] \in Nat /\ retired'[Copy] = retired[Copy] + 1
        BY <1>3, <2>3, AdvanceEffect
      <4>2. copied[b].stream = Copy /\ retired[Copy] + (k + 1) <= copied[b].position
        BY <3>1, <4>1 DEF Staged
      <4>3. QED
        BY <4>1, <4>2, StreamsTyped DEF TypeInv, EventsTyped, Events
    <3>2. DOMAIN queue'[Copy] = 1 .. Len(queue'[Copy])
      BY <1>3, <2>3, AdvanceEffect
    <3>3. QED
      BY <2>1, <3>1, <3>2, SameRun DEF Staged
  <2>4. QED
    BY <2>2, <2>3
<1>4. QED
  BY <1>1, <1>2, <1>3 DEF Next

LEMMA StagedStart == Init => Staged
  BY StreamsTyped DEF Init, Staged

(* The ring buffers change only when the host stages into a free one.      *)
LEMMA BuffersKept ==
  ASSUME TypeInv, Staged, [Next]_vars, NEW b \in Buffers,
         memory'[Pinned(b)] # memory[Pinned(b)]
  PROVE  \A k \in DOMAIN queue[Copy] : queue[Copy][k].kind = "work" =>
           \A r \in queue[Copy][k].reads : r.at # Pinned(b)
<1>1. Pinned(b) \in Places(run) \ Device
  BY PlacesTyped DEF TypeInv
<1>2. ASSUME NEW s \in Streams, Advance(s) PROVE FALSE
  <2>1. CASE PassWait(s)
    BY <2>1 DEF PassWait
  <2>2. CASE PerformWork(s)
    <3> DEFINE work == Head(queue[s])
    <3>1. work \in Entries /\ work.kind = "work"
      BY <2>2 DEF PerformWork, Head_is, TypeInv, DeviceTyped
    <3>2. work.writes \subseteq Written
      BY <3>1 DEF Entries
    <3>3. {w \in work.writes : w.at = Pinned(b)} = {}
      BY <1>1, <3>2 DEF Written
    <3>4. Pinned(b) \in DOMAIN memory
      BY <1>1 DEF TypeInv, DeviceTyped
    <3>5. memory'[Pinned(b)] = memory[Pinned(b)]
      BY <2>2, <3>3, <3>4 DEF PerformWork
    <3>6. QED
      BY <3>5
  <2>3. QED
    BY <1>2, <2>1, <2>2 DEF Advance
<1>3. PICK i \in All : Prefetch(i)
  BY <1>2, HostSteps DEF Next, vars, deviceVars, PrefetchIfAny
<1>4. i % run.staging \in Buffers /\ Done(copied[i % run.staging])
      /\ \A p \in Places(run) \ {Pinned(i % run.staging)} : memory'[p] = memory[p]
  BY <1>3, PrefetchEffect
<1>5. i % run.staging = b
  BY <1>1, <1>4, PlacesTyped DEF TypeInv
<1>6. SUFFICES ASSUME NEW k \in DOMAIN queue[Copy], queue[Copy][k].kind = "work",
                      NEW r \in queue[Copy][k].reads, r.at = Pinned(b)
               PROVE  FALSE
  OBVIOUS
<1>7. copied[b].stream = Copy /\ retired[Copy] + k <= copied[b].position
  BY <1>6 DEF Staged
<1>8. copied[b] \in Events /\ retired[Copy] \in Nat /\ queue[Copy] \in Seq(Entries)
  BY StreamsTyped DEF TypeInv, EventsTyped, DeviceTyped
<1>9. QED
  BY <1>4, <1>7, <1>8, <1>5 DEF Done, Events

(* For every program, prefetch distance, ring and grouping the host never  *)
(* stages constants into a ring buffer that a copy already submitted has   *)
(* still to read: prefetch() waits for copy_done_ of the buffer, and no    *)
(* work on any stream writes the ring.                                     *)
THEOREM RingNotOverwritten == Spec => StagingNotOverwritten
<1>1. TypeInv /\ Staged /\ [Next]_vars =>
        \A b \in Buffers : memory'[Pinned(b)] # memory[Pinned(b)] =>
          \A k \in DOMAIN queue[Copy] : queue[Copy][k].kind = "work" =>
            \A r \in queue[Copy][k].reads : r.at # Pinned(b)
  BY BuffersKept
<1>2. Spec => [](TypeInv /\ Staged)
  BY InitTyped, TypeStep, StagedStart, StagedStep, PTL DEF Spec
<1>3. QED
  BY <1>1, <1>2, PTL DEF Spec, StagingNotOverwritten

-----------------------------------------------------------------------------
(* Executions without parallel groups and cached region, on a schedule as  *)
(* the preparation makes it.  Two streams are left, and the host goes      *)
(* through the operations in order.                                        *)
Plain       == Sequential(run) /\ Scheduled(run)
Kerneled    == Launches(run)
Launched(i) == i < turn \/ (i = turn /\ host = "ahead")
Over(i)     == Done(completion[i])

(* Constants brought in this iteration, the operation whose prefetch comes *)
(* next, and the constants whose copy is still queued.                     *)
Brought(t) == Streamed(run, t) /\ (t \in run.resident => iteration = 0)
Frontier ==
  IF run.overlap THEN IF host = "prime" THEN target ELSE turn + run.depth
  ELSE IF host = "launch" THEN turn + 1 ELSE turn
CopyFor(t)  == CopyOf(run.first[t], t)
Awaiting(t) == \E k \in DOMAIN queue[Copy] : queue[Copy][k] = CopyFor(t)

Hosted ==
  /\ host \in {"begin", "prime", "turn", "launch", "ahead", "drain", "done"}
  /\ host = "prime" => turn = 0 /\ target <= run.depth /\ run.overlap
  /\ host = "launch" => ~run.overlap
  /\ host = "ahead" => run.overlap
  /\ host \in {"drain", "done"} => turn = Count
  /\ loaded <=> (iteration > 0 \/ host \in {"drain", "done"})
  /\ host \in {"begin", "done"} => queue[Main] = <<>> /\ queue[Copy] = <<>>
  /\ ~cached

(* What was prefetched is all that is brought by operations before Frontier.  *)
Fetches ==
  host # "begin" =>
    /\ \A i \in prefetched : i < Frontier
    /\ \A t \in Tensors : Brought(t) /\ run.first[t] < Frontier => run.first[t] \in prefetched

(* Completions are recorded behind everything launched up to then.         *)
Completions ==
  \A i \in All : Launched(i) =>
    /\ completion[i].stream = Main
    /\ completion[i].position <= retired[Main] + Len(queue[Main])
    /\ \A j \in All : j < i =>
         /\ completion[j].position <= completion[i].position
         /\ i \in Kerneled => completion[j].position < completion[i].position

(* The main stream holds the wait for an operation's constants and then    *)
(* its kernel, at the place of its completion event.                       *)
AwaitAt(k, i) ==
  /\ i \in prefetched /\ Launched(i) /\ queue[Main][k] = Wait(ready[i])
  /\ retired[Main] + k <= completion[i].position
  /\ i \in Kerneled => retired[Main] + k < completion[i].position
  /\ \A j \in All : j < i => completion[j].position < retired[Main] + k
KernelAt(k, i) ==
  /\ Launched(i) /\ queue[Main][k] = KernelOf(i)
  /\ retired[Main] + k = completion[i].position
MainQueue ==
  \A k \in DOMAIN queue[Main] :
    (\E i \in All : AwaitAt(k, i)) \/ (\E i \in Kerneled : KernelAt(k, i))

(* No operation passes its constants' copies.                              *)
AwaitedBy(i) ==
  \/ Done(ready[i])
  \/ \E k \in DOMAIN queue[Main] : /\ queue[Main][k] = Wait(ready[i])
                                   /\ retired[Main] + k <= completion[i].position
Awaited == host # "begin" => \A i \in prefetched : Launched(i) => AwaitedBy(i)

(* The copy stream holds waits for launched operations and copies whose    *)
(* constants are in their ring buffer, each before its batch's event.      *)
CopyAt(k, i, t) ==
  /\ Brought(t) /\ run.first[t] = i /\ queue[Copy][k] = CopyOf(i, t)
  /\ copied[i % run.staging].stream = Copy
  /\ retired[Copy] + k <= copied[i % run.staging].position
  /\ memory[Pinned(i % run.staging)] = i
ReleaseAt(k) == \E j \in All : Launched(j) /\ queue[Copy][k] = Wait(completion[j])
CopyQueue ==
  \A k \in DOMAIN queue[Copy] : \E i \in prefetched :
    /\ retired[Copy] + k <= ready[i].position
    /\ ReleaseAt(k) \/ \E t \in Tensors : CopyAt(k, i, t)

(* Batches are copied in the order of the operations they are for.         *)
Batches ==
  /\ \A i \in prefetched : ready[i].stream = Copy
  /\ \A t, u \in Tensors : \A k, l \in DOMAIN queue[Copy] :
       /\ Streamed(run, t) /\ Streamed(run, u) /\ run.first[t] < run.first[u]
       /\ queue[Copy][k] = CopyFor(t) /\ queue[Copy][l] = CopyFor(u)
       => k < l
  /\ \A t, u \in Tensors :
       /\ Brought(t) /\ Brought(u) /\ run.first[t] < run.first[u] /\ run.first[u] \in prefetched
       /\ Awaiting(t)
       => Awaiting(u)

(* A constant's copy comes after the kernels that used its slot before.    *)
WaitsFirst(t) ==
  \A k \in DOMAIN queue[Copy] : queue[Copy][k] = CopyFor(t) =>
    \E l \in 1 .. k - 1 : queue[Copy][l] = Wait(completion[run.release[t]])
Released ==
  host # "begin" =>
    \A t \in Tensors : Brought(t) /\ run.release[t] # None /\ run.first[t] \in prefetched =>
      Over(run.release[t]) \/ (Awaiting(t) /\ WaitsFirst(t))

(* A value that was made and is still needed is in its place.              *)
Made(u) ==
  \/ Uploaded(run, u)
  \/ Streamed(run, u) /\ (Brought(u) => run.first[u] \in prefetched /\ ~Awaiting(u))
  \/ \E j \in Writers(run, u) : Launched(j) /\ Over(j)
Needed(u) == Lasting(run, u) \/ \E i \in Users(run, u) : ~(Launched(i) /\ Over(i))
InMemory  ==
  \A u \in Tensors : InUse(run, u) /\ Made(u) /\ Needed(u) => memory[run.place[u]] = u

Inner == Fetches /\ Completions /\ MainQueue /\ Awaited /\ CopyQueue /\ Batches /\ Released
           /\ InMemory
PlainInv == Hosted /\ Inner

-----------------------------------------------------------------------------
LEMMA SameSchedule ==
  ASSUME run' = run
  PROVE  /\ Plain' = Plain /\ Sequential(run)' = Sequential(run) /\ Scheduled(run)' = Scheduled(run)
         /\ Kerneled' = Kerneled
         /\ \A t : /\ Users(run, t)' = Users(run, t) /\ Writers(run, t)' = Writers(run, t)
                   /\ Streamed(run, t)' = Streamed(run, t) /\ Uploaded(run, t)' = Uploaded(run, t)
                   /\ Lasting(run, t)' = Lasting(run, t) /\ InUse(run, t)' = InUse(run, t)
                   /\ Output(run, t)' = Output(run, t)
         /\ \A i, t : CopyOf(i, t)' = CopyOf(i, t) /\ CopyFor(t)' = CopyFor(t)
         /\ \A i : KernelOf(i)' = KernelOf(i)
         /\ \A p : Pinned(p)' = Pinned(p)
         /\ \A e : Wait(e)' = Wait(e)
  BY DEF Plain, Sequential, Scheduled, Kerneled, Launches, Users, Writers, Streamed, Uploaded,
         Lasting, InUse, Output, CopyOf, CopyFor, KernelOf, Pinned, Wait, Work, HoldsStaged, HoldsTensor,
         Reads, Writes, Roots

LEMMA PlainSchedule ==
  ASSUME TypeInv, Plain
  PROVE  /\ RootsBound(run) /\ OperandsComeFirst(run) /\ WrittenOnce(run) /\ StreamedByFirst(run)
         /\ SlotsShared(run) /\ UploadsApart(run)
         /\ run.depth \in Nat \ {0} /\ Lead(run) \in Nat \ {0}
         /\ run.region = {} /\ run.crossing = {} /\ run.followups = {} /\ DOMAIN run.width = {}
         /\ Streams = {Copy, Main}
<1>1. run.depth \in Nat \ {0}
  BY RunTyped DEF TypeInv, Plain, Scheduled
<1>2. Lead(run) \in Nat \ {0}
  BY <1>1 DEF Lead
<1>3. DOMAIN run.width = {}
  BY DEF Plain, Sequential
<1>4. Lanes = {}
  BY <1>3 DEF Lanes
<1>5. QED
  BY <1>1, <1>2, <1>3, <1>4 DEF Plain, Sequential, Scheduled, Streams

(* Entries are told apart by what they are, and copies by their tensor.    *)
LEMMA EntriesDiffer ==
  ASSUME TypeInv, Plain
  PROVE  /\ \A e, i, t : Wait(e) # CopyOf(i, t)
         /\ \A e, i : Wait(e) # KernelOf(i)
         /\ \A t, u \in Tensors : \A i, j :
              Streamed(run, t) /\ Streamed(run, u) /\ CopyOf(i, t) = CopyOf(j, u) => i = j /\ t = u
         /\ \A e, t : Wait(e) # CopyFor(t)
         /\ \A t, u \in Tensors :
              Streamed(run, t) /\ Streamed(run, u) /\ CopyFor(t) = CopyFor(u) => t = u
         /\ \A t, u \in Tensors : \A i :
              Streamed(run, t) /\ Streamed(run, u) /\ CopyOf(i, u) = CopyFor(t) =>
                run.first[t] = i /\ u = t
<1>1. \A e, i, t : Wait(e) # CopyOf(i, t)
  BY KindsDiffer DEF CopyOf
<1>2. \A e, i : Wait(e) # KernelOf(i)
  BY KindsDiffer DEF KernelOf
<1>3. ASSUME NEW t \in Tensors, NEW u \in Tensors, NEW i, NEW j, Streamed(run, t), Streamed(run, u),
             CopyOf(i, t) = CopyOf(j, u)
      PROVE  i = j /\ t = u
  <2>1. {HoldsStaged(i)} = {HoldsStaged(j)} /\ {HoldsTensor(t)} = {HoldsTensor(u)}
    BY <1>3, KindsDiffer DEF CopyOf
  <2>2. HoldsStaged(i) = HoldsStaged(j) /\ HoldsTensor(t) = HoldsTensor(u)
    BY <2>1
  <2>3. i = j /\ run.root[t] = run.root[u]
    BY <2>2 DEF HoldsStaged, HoldsTensor
  <2>4. run.root[t] = t /\ run.root[u] = u
    BY <1>3, PlainSchedule DEF StreamedByFirst
  <2>5. QED
    BY <2>3, <2>4
<1>4. QED
  BY <1>1, <1>2, <1>3 DEF CopyFor

(* What the types say of the parts the arguments below are made of.        *)
LEMMA PlainTyped ==
  ASSUME TypeInv, Plain
  PROVE  /\ retired[Main] \in Nat /\ retired[Copy] \in Nat
         /\ queue[Main] \in Seq(Entries) /\ queue[Copy] \in Seq(Entries)
         /\ Len(queue[Main]) \in Nat /\ Len(queue[Copy]) \in Nat
         /\ DOMAIN queue[Main] = 1 .. Len(queue[Main]) /\ DOMAIN queue[Copy] = 1 .. Len(queue[Copy])
         /\ \A i \in All : /\ completion[i].position \in Nat /\ ready[i].position \in Nat
                           /\ completion[i].stream \in {Copy, Main} /\ i \in Nat
         /\ All = 0 .. Count - 1 /\ Count \in Nat /\ turn \in 0 .. Count /\ target \in Nat
         /\ prefetched \subseteq All /\ Kerneled \subseteq All
         /\ \A t \in Tensors : /\ Users(run, t) \subseteq Kerneled /\ Writers(run, t) \subseteq Users(run, t)
                               /\ Streamed(run, t) => run.first[t] \in All
                               /\ run.release[t] # None => run.release[t] \in All
         /\ iteration \in Nat
<1>1. /\ retired[Main] \in Nat /\ retired[Copy] \in Nat
      /\ queue[Main] \in Seq(Entries) /\ queue[Copy] \in Seq(Entries)
  BY StreamsTyped DEF TypeInv, DeviceTyped
<1>2. /\ Len(queue[Main]) \in Nat /\ Len(queue[Copy]) \in Nat
      /\ DOMAIN queue[Main] = 1 .. Len(queue[Main]) /\ DOMAIN queue[Copy] = 1 .. Len(queue[Copy])
  BY <1>1
<1>3. All = 0 .. Count - 1 /\ Count \in Nat
  BY RunTyped DEF TypeInv
<1>4. \A i \in All : /\ completion[i].position \in Nat /\ ready[i].position \in Nat
                     /\ completion[i].stream \in {Copy, Main} /\ i \in Nat
  BY <1>3, PlainSchedule DEF TypeInv, EventsTyped, Events
<1>5. turn \in 0 .. Count /\ target \in Nat /\ prefetched \subseteq All /\ iteration \in Nat
  BY DEF TypeInv, HostTyped, EventsTyped
<1>6. Kerneled \subseteq All
  BY DEF Kerneled, Launches, All, program
<1>7. ASSUME NEW t \in Tensors
      PROVE  /\ Users(run, t) \subseteq Kerneled /\ Writers(run, t) \subseteq Users(run, t)
             /\ Streamed(run, t) => run.first[t] \in All
             /\ run.release[t] # None => run.release[t] \in All
  BY RunTyped DEF TypeInv, Users, Writers, Kerneled, Streamed
<1>8. QED
  BY <1>1, <1>2, <1>3, <1>4, <1>5, <1>6, <1>7

(* An operation launched was passed by the front of the prefetches, and so *)
(* was, well before, the operation whose completion frees a slot.          *)
LEMMA LaunchedBehind ==
  ASSUME TypeInv, Plain, Hosted, NEW i \in All, Launched(i)
  PROVE  i < Frontier
<1>1. run.depth \in Nat \ {0} /\ run.overlap \in BOOLEAN
  BY PlainSchedule, RunTyped DEF TypeInv
<1>2. QED
  BY <1>1, PlainTyped DEF Launched, Frontier, Hosted

LEMMA FreedBefore ==
  ASSUME TypeInv, Plain, Hosted, NEW t \in Tensors, Streamed(run, t), run.release[t] # None,
         \/ run.first[t] < Frontier
         \/ /\ run.first[t] = Frontier
            /\ \/ host = "ahead"
               \/ host = "turn" /\ ~run.overlap
               \/ host = "prime" /\ target < run.depth
  PROVE  run.release[t] \in All /\ Launched(run.release[t])
<1>1. run.depth \in Nat \ {0} /\ run.overlap \in BOOLEAN
  BY PlainSchedule, RunTyped DEF TypeInv
<1>2. run.release[t] \in All /\ run.first[t] \in All /\ All = 0 .. Count - 1 /\ Count \in Nat
      /\ turn \in 0 .. Count /\ target \in Nat
  BY PlainTyped
<1>3. run.release[t] + Lead(run) <= run.first[t]
  BY PlainSchedule DEF StreamedByFirst
<1>4. run.release[t] \in Nat /\ run.first[t] \in Nat
  BY <1>2
<1>5. CASE run.overlap
  <2>1. run.release[t] + run.depth <= run.first[t]
    BY <1>3, <1>5 DEF Lead
  <2>2. CASE host = "prime"
    <3>1. run.first[t] < run.depth
      BY <1>1, <1>2, <1>4, <1>5, <2>2 DEF Frontier, Hosted
    <3>2. QED
      BY <1>1, <1>4, <2>1, <3>1
  <2>3. CASE host # "prime"
    <3>1. run.first[t] < turn + run.depth \/ (run.first[t] = turn + run.depth /\ host = "ahead")
      BY <1>5, <2>3 DEF Frontier
    <3>2. run.release[t] < turn \/ (run.release[t] <= turn /\ host = "ahead")
      BY <1>1, <1>2, <1>4, <2>1, <3>1
    <3>3. QED
      BY <1>2, <1>4, <3>2 DEF Launched
  <2>4. QED
    BY <2>2, <2>3
<1>6. CASE ~run.overlap
  <2>1. run.release[t] + 1 <= run.first[t]
    BY <1>3, <1>6 DEF Lead
  <2>2. run.first[t] <= turn
    BY <1>2, <1>4, <1>6 DEF Frontier
  <2>3. QED
    BY <1>2, <1>4, <2>1, <2>2 DEF Launched
<1>7. QED
  BY <1>5, <1>6

-----------------------------------------------------------------------------
(* What follows from the invariant.                                        *)
Good == TypeInv /\ Plain /\ PlainInv

(* A constant whose copy is queued was prefetched and is not ready.        *)
LEMMA NotReady ==
  ASSUME Good, NEW t \in Tensors, Streamed(run, t), Awaiting(t)
  PROVE  Brought(t) /\ run.first[t] \in prefetched /\ ~Done(ready[run.first[t]])
<1>1. PICK k \in DOMAIN queue[Copy] : queue[Copy][k] = CopyFor(t)
  BY DEF Awaiting
<1>2. PICK i \in prefetched : retired[Copy] + k <= ready[i].position
                              /\ (ReleaseAt(k) \/ \E u \in Tensors : CopyAt(k, i, u))
  BY <1>1 DEF Good, PlainInv, Inner, CopyQueue
<1>3. ~ReleaseAt(k)
  BY <1>1, EntriesDiffer DEF Good, ReleaseAt
<1>4. PICK u \in Tensors : CopyAt(k, i, u)
  BY <1>2, <1>3
<1>5. u = t /\ i = run.first[t]
  <2>1. CopyOf(i, u) = CopyFor(t) /\ Streamed(run, u)
    BY <1>1, <1>4 DEF CopyAt, Brought
  <2>2. QED
    BY <2>1, EntriesDiffer DEF Good
<1>6. ready[i].stream = Copy /\ i \in All
  BY <1>2, PlainTyped DEF Good, PlainInv, Inner, Batches
<1>7. k \in Nat \ {0} /\ retired[Copy] \in Nat /\ ready[i].position \in Nat
  BY <1>1, <1>6, PlainTyped DEF Good
<1>8. ~Done(ready[i])
  BY <1>2, <1>6, <1>7 DEF Done
<1>9. QED
  BY <1>2, <1>4, <1>5, <1>8 DEF CopyAt

(* The kernel at the head of the main stream: those before it are over,    *)
(* and those that are over are before it.                                  *)
LEMMA KernelHead ==
  ASSUME Good, NEW i \in Kerneled, KernelAt(1, i)
  PROVE  /\ Launched(i) /\ ~Over(i) /\ i \in All
         /\ \A j \in All : j < i => Launched(j) /\ Over(j)
         /\ \A j \in Kerneled : Launched(j) /\ Over(j) => j < i
<1>1. i \in All /\ Launched(i) /\ retired[Main] + 1 = completion[i].position
  BY PlainTyped DEF Good, KernelAt
<1>2. ~Over(i)
  BY <1>1, PlainTyped DEF Over, Done, Good, PlainInv, Inner, Completions
<1>3. ASSUME NEW j \in All, j < i PROVE Launched(j) /\ Over(j)
  <2>1. Launched(j)
    BY <1>1, <1>3, PlainTyped DEF Launched, Good
  <2>2. completion[j].stream = Main /\ completion[j].position < completion[i].position
    BY <1>1, <1>3, <2>1 DEF Good, PlainInv, Inner, Completions
  <2>3. QED
    BY <1>1, <2>1, <2>2, PlainTyped DEF Over, Done, Good
<1>4. ASSUME NEW j \in Kerneled, Launched(j), Over(j) PROVE j < i
  <2>1. j \in All /\ j # i
    BY <1>2, <1>4, PlainTyped DEF Good
  <2>2. CASE i < j
    <3>1. completion[i].position < completion[j].position /\ completion[j].stream = Main
      BY <1>1, <1>4, <2>1, <2>2 DEF Good, PlainInv, Inner, Completions
    <3>2. QED
      BY <1>1, <1>4, <2>1, <3>1, PlainTyped DEF Over, Done, Good
  <2>3. QED
    BY <1>1, <2>1, <2>2, PlainTyped DEF Good
<1>5. QED
  BY <1>1, <1>2, <1>3, <1>4

(* Constants prefetched for an operation not later than a kernel that is   *)
(* about to run, or that is over, are ready.                               *)
LEMMA ReadyForKernel ==
  ASSUME Good, NEW c \in prefetched, NEW i \in Kerneled, c <= i,
         (1 \in DOMAIN queue[Main] /\ KernelAt(1, i)) \/ (Launched(i) /\ Over(i)), host # "begin"
  PROVE  Done(ready[c])
<1>1. i \in All /\ c \in All /\ Launched(i)
  BY PlainTyped DEF Good, KernelAt
<1>2. Launched(c)
  BY <1>1, PlainTyped DEF Good, Launched
<1>3. AwaitedBy(c)
  BY <1>2 DEF Good, PlainInv, Inner, Awaited
<1>4. completion[c].position <= completion[i].position /\ completion[i].stream = Main
  BY <1>1, PlainTyped DEF Good, PlainInv, Inner, Completions
<1>5. ASSUME NEW k \in DOMAIN queue[Main], queue[Main][k] = Wait(ready[c]),
             retired[Main] + k <= completion[c].position
      PROVE  FALSE
  <2>1. k \in Nat \ {0} /\ retired[Main] \in Nat /\ completion[c].position \in Nat
        /\ completion[i].position \in Nat
    BY <1>1, PlainTyped DEF Good
  <2>2. CASE KernelAt(1, i)
    <3>1. k = 1
      BY <1>4, <1>5, <2>1, <2>2 DEF KernelAt
    <3>2. QED
      BY <1>5, <2>2, <3>1, EntriesDiffer DEF KernelAt, Good
  <2>3. CASE Over(i)
    BY <1>4, <1>5, <2>1, <2>3 DEF Over, Done
  <2>4. QED
    BY <2>2, <2>3
<1>6. QED
  BY <1>3, <1>5 DEF AwaitedBy

LEMMA BusyHost ==
  ASSUME Good PROVE /\ queue[Main] # <<>> => host \notin {"begin", "done"}
                    /\ queue[Copy] # <<>> => host \notin {"begin", "done"}
  BY DEF Good, PlainInv, Hosted

(* A constant first used by then has arrived.                              *)
LEMMA Arrived ==
  ASSUME Good, NEW i \in Kerneled, 1 \in DOMAIN queue[Main], KernelAt(1, i),
         NEW t \in Tensors, Streamed(run, t), run.first[t] <= i
  PROVE  ~Awaiting(t) /\ (Brought(t) => run.first[t] \in prefetched)
<1>1. host # "begin"
  BY BusyHost, PlainTyped DEF Good
<1>2. Launched(i) /\ i \in All /\ run.first[t] \in All
  BY PlainTyped, KernelHead DEF Good
<1>3. Launched(run.first[t])
  BY <1>2, PlainTyped DEF Launched, Good
<1>4. run.first[t] < Frontier
  BY <1>2, <1>3, LaunchedBehind DEF Good, PlainInv
<1>5. Brought(t) => run.first[t] \in prefetched
  BY <1>1, <1>4 DEF Good, PlainInv, Inner, Fetches
<1>6. ASSUME Awaiting(t) PROVE FALSE
  <2>1. run.first[t] \in prefetched /\ ~Done(ready[run.first[t]])
    BY <1>6, NotReady
  <2>2. \A c \in prefetched : c <= i => Done(ready[c])
    BY <1>1, ReadyForKernel
  <2>3. QED
    BY <2>1, <2>2
<1>7. QED
  BY <1>5, <1>6

(* A kernel about to run finds its operands.                               *)
LEMMA OperandInPlace ==
  ASSUME Good, NEW i \in Kerneled, 1 \in DOMAIN queue[Main], KernelAt(1, i),
         NEW u \in Reads(run, i)
  PROVE  u \in Tensors /\ InUse(run, u) /\ memory[run.place[u]] = u
<1>1. i \in All /\ Launched(i) /\ ~Over(i)
  BY KernelHead
<1>2. PICK t \in run.launch[i].reads : u = run.root[t]
  BY DEF Reads, Roots
<1>3. t \in Tensors /\ u \in Tensors
  BY <1>1, <1>2, RunTyped DEF Good, TypeInv
<1>4. run.root[u] = u
  BY <1>2, <1>3, PlainSchedule DEF Good, RootsBound
<1>5. i \in Users(run, u)
  BY DEF Users, Kerneled
<1>6. InUse(run, u)
  BY <1>4, <1>5 DEF InUse
<1>7. Needed(u)
  BY <1>1, <1>5 DEF Needed
<1>8. Made(u)
  <2>1. \/ Uploaded(run, u)
        \/ Streamed(run, u) /\ run.first[u] <= i
        \/ \E j \in Writers(run, u) : j < i
    <3>1. OperandsComeFirst(run)
      BY PlainSchedule DEF Good
    <3>2. QED
      BY <3>1 DEF OperandsComeFirst, Kerneled
  <2>2. CASE Streamed(run, u) /\ run.first[u] <= i
    BY <1>3, <2>2, Arrived DEF Made
  <2>3. CASE \E j \in Writers(run, u) : j < i
    BY <1>3, <2>3, KernelHead, PlainTyped DEF Made, Good
  <2>4. QED
    BY <2>1, <2>2, <2>3 DEF Made
<1>9. QED
  BY <1>3, <1>6, <1>7, <1>8 DEF Good, PlainInv, Inner, InMemory

(* A copy about to be made takes a slot nothing needs any more and nothing *)
(* later has got.                                                          *)
LEMMA SlotFree ==
  ASSUME Good, NEW i \in prefetched, NEW t \in Tensors, 1 \in DOMAIN queue[Copy], CopyAt(1, i, t),
         NEW u \in Tensors, InUse(run, u), u # t, run.place[u] = run.place[t]
  PROVE  /\ Precedes(run, t, u) \/ Precedes(run, u, t)
         /\ Precedes(run, u, t) => /\ run.release[t] # None => Over(run.release[t])
                                   /\ \A j \in Users(run, u) : Launched(j) /\ Over(j)
         /\ Precedes(run, t, u) => \A j \in Users(run, u) : ~(Launched(j) /\ Over(j))
<1>1. Brought(t) /\ Streamed(run, t) /\ run.first[t] = i /\ host # "begin" /\ Awaiting(t)
  BY BusyHost, PlainTyped DEF CopyAt, Brought, Good, Awaiting, CopyFor
<1>2. InUse(run, t)
  BY <1>1, PlainSchedule DEF InUse, Good, StreamedByFirst
<1>3. Precedes(run, t, u) \/ Precedes(run, u, t)
  BY <1>2, PlainSchedule DEF Good, SlotsShared
<1>4. ASSUME run.release[t] # None
      PROVE  Over(run.release[t]) /\ Launched(run.release[t]) /\ run.release[t] \in All
  <2>1. Over(run.release[t]) \/ WaitsFirst(t)
    BY <1>1, <1>4 DEF Good, PlainInv, Inner, Released
  <2>2. ~WaitsFirst(t)
    BY <1>1 DEF WaitsFirst, CopyAt, CopyFor
  <2>3. i < Frontier
    BY <1>1 DEF Good, PlainInv, Inner, Fetches
  <2>4. QED
    BY <1>1, <1>4, <2>1, <2>2, <2>3, FreedBefore DEF Good, PlainInv
<1>5. ASSUME Precedes(run, u, t), NEW j \in Users(run, u) PROVE Launched(j) /\ Over(j)
  <2>1. j <= run.release[t] /\ j \in All
    BY <1>1, <1>5, PlainTyped DEF Precedes, Good
  <2>2. run.release[t] # None
    BY <2>1, PlainTyped DEF None, Good
  <2>3. Over(run.release[t]) /\ Launched(run.release[t]) /\ run.release[t] \in All
    BY <1>4, <2>2
  <2>4. Launched(j)
    BY <2>1, <2>3, PlainTyped DEF Launched, Good
  <2>5. /\ completion[j].position <= completion[run.release[t]].position
        /\ completion[j].stream = Main /\ completion[run.release[t]].stream = Main
    <3>1. j < run.release[t] \/ j = run.release[t]
      BY <2>1, <2>3, PlainTyped DEF Good
    <3>2. completion[run.release[t]].position \in Nat
      BY <2>3, PlainTyped DEF Good
    <3>3. QED
      BY <2>1, <2>3, <2>4, <3>1, <3>2 DEF Good, PlainInv, Inner, Completions
  <2>6. QED
    BY <2>1, <2>3, <2>4, <2>5, PlainTyped DEF Over, Done, Good
<1>6. ASSUME Precedes(run, t, u), NEW j \in Users(run, u), Launched(j), Over(j) PROVE FALSE
  <2>1. i < j /\ j \in Kerneled
    BY <1>1, <1>6, PlainTyped DEF Precedes, Good
  <2>2. i <= j
    BY <2>1, PlainTyped DEF Good
  <2>3. Done(ready[i])
    BY <1>1, <1>6, <2>1, <2>2, ReadyForKernel
  <2>4. QED
    BY <1>1, <2>3, NotReady
<1>7. QED
  BY <1>3, <1>4, <1>5, <1>6

-----------------------------------------------------------------------------
(* The entries at the heads of the two streams.                            *)
LEMMA WorkAtHead ==
  ASSUME Good
  PROVE  /\ Working(Copy) => /\ 1 \in DOMAIN queue[Copy] /\ Head(queue[Copy]) = queue[Copy][1]
                             /\ \E i \in prefetched : \E t \in Tensors : CopyAt(1, i, t)
         /\ Working(Main) => /\ 1 \in DOMAIN queue[Main] /\ Head(queue[Main]) = queue[Main][1]
                             /\ \E i \in Kerneled : KernelAt(1, i)
<1>1. ASSUME NEW s \in Streams, Working(s)
      PROVE  1 \in DOMAIN queue[s] /\ Head(queue[s]) = queue[s][1] /\ queue[s][1].kind = "work"
  <2>1. queue[s] \in Seq(Entries) /\ queue[s] # <<>>
    BY <1>1 DEF Good, TypeInv, DeviceTyped, Working, Head_is
  <2>2. QED
    BY <1>1, <2>1 DEF Working, Head_is
<1>2. ASSUME Working(Copy) PROVE \E i \in prefetched : \E t \in Tensors : CopyAt(1, i, t)
  <2>1. 1 \in DOMAIN queue[Copy] /\ queue[Copy][1].kind = "work"
    BY <1>1, <1>2, StreamsTyped
  <2>2. ~ReleaseAt(1)
    BY <2>1, KindsDiffer DEF ReleaseAt
  <2>3. QED
    BY <2>1, <2>2 DEF Good, PlainInv, Inner, CopyQueue
<1>3. ASSUME Working(Main) PROVE \E i \in Kerneled : KernelAt(1, i)
  <2>1. 1 \in DOMAIN queue[Main] /\ queue[Main][1].kind = "work"
    BY <1>1, <1>3, StreamsTyped
  <2>2. ~\E i \in All : AwaitAt(1, i)
    BY <2>1, KindsDiffer DEF AwaitAt
  <2>3. QED
    BY <2>1, <2>2 DEF Good, PlainInv, Inner, MainQueue
<1>4. QED
  BY <1>1, <1>2, <1>3, StreamsTyped

LEMMA OperandsFollow == ASSUME Good PROVE OperandsReady
<1>1. ASSUME Working(Copy) PROVE InPlace(Head(queue[Copy]))
  <2>1. PICK i \in prefetched, t \in Tensors : CopyAt(1, i, t)
    BY <1>1, WorkAtHead
  <2>2. Head(queue[Copy]).reads = {HoldsStaged(i)}
    BY <1>1, <2>1, WorkAtHead, KindsDiffer DEF CopyAt, CopyOf
  <2>3. QED
    BY <2>1, <2>2 DEF InPlace, CopyAt, HoldsStaged
<1>2. ASSUME Working(Main) PROVE InPlace(Head(queue[Main]))
  <2>1. 1 \in DOMAIN queue[Main] /\ Head(queue[Main]) = queue[Main][1]
    BY <1>2, WorkAtHead
  <2>2. PICK i \in Kerneled : KernelAt(1, i)
    BY <1>2, WorkAtHead
  <2>3. Head(queue[Main]).reads = {HoldsTensor(t) : t \in run.launch[i].reads}
    BY <2>1, <2>2, KindsDiffer DEF KernelAt, KernelOf
  <2>4. ASSUME NEW t \in run.launch[i].reads PROVE memory[run.place[t]] = run.root[t]
    <3>1. run.root[t] \in Reads(run, i)
      BY DEF Reads, Roots
    <3>2. memory[run.place[run.root[t]]] = run.root[t]
      BY <2>1, <2>2, <3>1, OperandInPlace
    <3>3. t \in Tensors
      BY <2>1, <2>2, KernelHead, RunTyped DEF Good, TypeInv
    <3>4. run.place[run.root[t]] = run.place[t]
      BY <3>3, PlainSchedule DEF Good, RootsBound
    <3>5. QED
      BY <3>2, <3>4
  <2>5. QED
    BY <2>3, <2>4 DEF InPlace, HoldsTensor
<1>3. QED
  BY <1>1, <1>2, PlainSchedule DEF OperandsReady, Good

(* The parts of a kernel's work by the roots they belong to.               *)
LEMMA KernelParts ==
  ASSUME Good, NEW i \in Kerneled
  PROVE  /\ i \in All
         /\ KernelOf(i).reads = {HoldsTensor(t) : t \in run.launch[i].reads}
         /\ KernelOf(i).writes = {HoldsTensor(t) : t \in run.launch[i].writes}
         /\ \A t \in run.launch[i].reads \cup run.launch[i].writes :
              /\ t \in Tensors /\ run.root[t] \in Tensors
              /\ run.place[run.root[t]] = run.place[t] /\ InUse(run, run.root[t])
              /\ i \in Users(run, run.root[t])
         /\ \A t \in run.launch[i].reads : run.root[t] \in Reads(run, i)
         /\ \A t \in run.launch[i].writes : run.root[t] \in Writes(run, i) /\ i \in Writers(run, run.root[t])
<1>1. i \in All
  BY PlainTyped DEF Good
<1>2. run.launch[i].reads \subseteq Tensors /\ run.launch[i].writes \subseteq Tensors
  BY <1>1, RunTyped DEF Good, TypeInv
<1>3. /\ \A t \in run.launch[i].reads : run.root[t] \in Reads(run, i)
      /\ \A t \in run.launch[i].writes : run.root[t] \in Writes(run, i)
  BY DEF Reads, Writes, Roots
<1>4. ASSUME NEW t \in run.launch[i].reads \cup run.launch[i].writes
      PROVE  /\ t \in Tensors /\ run.root[t] \in Tensors
             /\ run.place[run.root[t]] = run.place[t] /\ InUse(run, run.root[t])
             /\ i \in Users(run, run.root[t])
  <2>1. t \in Tensors /\ run.root[t] \in Tensors
    BY <1>2, RunTyped DEF Good, TypeInv
  <2>2. run.place[run.root[t]] = run.place[t] /\ run.root[run.root[t]] = run.root[t]
    BY <2>1, PlainSchedule DEF Good, RootsBound
  <2>3. i \in Users(run, run.root[t])
    BY <1>3 DEF Users, Kerneled
  <2>4. QED
    BY <2>1, <2>2, <2>3 DEF InUse
<1>5. KernelOf(i).reads = {HoldsTensor(t) : t \in run.launch[i].reads}
      /\ KernelOf(i).writes = {HoldsTensor(t) : t \in run.launch[i].writes}
  BY KindsDiffer DEF KernelOf
<1>6. QED
  BY <1>1, <1>3, <1>4, <1>5 DEF Writers, Kerneled

(* Two tensors one kernel uses do not share storage.                       *)
LEMMA UsedApart ==
  ASSUME Good, NEW i \in Kerneled, NEW t \in Tensors, NEW u \in Tensors,
         InUse(run, t), InUse(run, u), i \in Users(run, t), i \in Users(run, u),
         run.place[t] = run.place[u]
  PROVE  t = u
<1>1. SUFFICES ASSUME t # u PROVE FALSE
  OBVIOUS
<1>2. Precedes(run, t, u) \/ Precedes(run, u, t)
  BY <1>1, PlainSchedule DEF Good, SlotsShared
<1>3. i < i
  BY <1>2 DEF Precedes
<1>4. QED
  BY <1>3, PlainTyped DEF Good

(* A kernel does not write what it reads.                                  *)
LEMMA KernelInOut ==
  ASSUME Good, NEW i \in Kerneled, NEW t \in run.launch[i].reads, NEW u \in run.launch[i].writes
  PROVE  run.place[t] # run.place[u]
<1>1. SUFFICES ASSUME run.place[t] = run.place[u] PROVE FALSE
  OBVIOUS
<1>2. run.root[t] = run.root[u]
  BY <1>1, KernelParts, UsedApart
<1>3. run.root[u] \in Tensors /\ i \in Writers(run, run.root[u]) /\ run.root[u] \in Reads(run, i)
  BY <1>2, KernelParts
<1>4. WrittenOnce(run) /\ OperandsComeFirst(run)
  BY PlainSchedule DEF Good
<1>5. ~Uploaded(run, run.root[u]) /\ ~Streamed(run, run.root[u])
  BY <1>3, <1>4 DEF WrittenOnce
<1>6. \E j \in Writers(run, run.root[u]) : j < i
  BY <1>3, <1>4, <1>5 DEF OperandsComeFirst, Kerneled
<1>7. i < i
  BY <1>3, <1>4, <1>6 DEF WrittenOnce
<1>8. QED
  BY <1>7, PlainTyped DEF Good

(* A copy and a kernel that are both about to run use different storage.   *)
LEMMA CopyAndKernel ==
  ASSUME Good, NEW i \in Kerneled, 1 \in DOMAIN queue[Main], KernelAt(1, i),
         NEW c \in prefetched, NEW t \in Tensors, 1 \in DOMAIN queue[Copy], CopyAt(1, c, t),
         NEW v \in run.launch[i].reads \cup run.launch[i].writes
  PROVE  run.place[v] # run.place[t]
<1>1. SUFFICES ASSUME run.place[v] = run.place[t] PROVE FALSE
  OBVIOUS
<1> DEFINE u == run.root[v]
<1>2. u \in Tensors /\ InUse(run, u) /\ i \in Users(run, u) /\ run.place[u] = run.place[t]
  BY <1>1, KernelParts
<1>3. Streamed(run, t) /\ Awaiting(t) /\ run.first[t] = c /\ host # "begin"
  BY BusyHost, PlainTyped DEF CopyAt, Brought, Awaiting, CopyFor, Good
<1>4. ~(Launched(i) /\ Over(i)) /\ Launched(i)
  BY KernelHead
<1>5. ~(c <= i)
  <2>1. ASSUME c <= i PROVE FALSE
    BY <1>3, <2>1, Arrived
  <2>2. QED
    BY <2>1
<1>6. CASE u = t
  <2>1. i \notin Writers(run, t)
    BY <1>3, PlainSchedule DEF Good, WrittenOnce
  <2>2. v \notin run.launch[i].writes
    BY <1>6, <2>1, KernelParts
  <2>3. t \in Reads(run, i)
    BY <1>6, <2>2, KernelParts
  <2>4. OperandsComeFirst(run) /\ ~Uploaded(run, t) /\ Writers(run, t) = {}
    BY <1>3, PlainSchedule DEF Good, StreamedByFirst, WrittenOnce
  <2>5. run.first[t] <= i
    BY <2>3, <2>4 DEF OperandsComeFirst, Kerneled
  <2>6. QED
    BY <1>3, <1>5, <2>5
<1>7. CASE u # t
  <2>1. CASE Precedes(run, u, t)
    BY <1>2, <1>4, <1>7, <2>1, SlotFree
  <2>2. CASE Precedes(run, t, u)
    <3>1. c < i
      BY <1>2, <1>3, <2>2 DEF Precedes
    <3>2. QED
      BY <1>5, <3>1, PlainTyped DEF Good
  <2>3. QED
    BY <1>2, <1>7, <2>1, <2>2, SlotFree
<1>8. QED
  BY <1>6, <1>7

LEMMA StagingApart ==
  ASSUME TypeInv, NEW t \in Tensors, NEW i \in Int PROVE run.place[t] # Pinned(i % run.staging)
<1>1. Pinned(i % run.staging) \notin Device
  BY PlacesTyped DEF TypeInv
<1>2. QED
  BY <1>1 DEF Device

LEMMA PlacesHeld ==
  /\ \A t : HoldsTensor(t).at = run.place[t]
  /\ \A i : HoldsStaged(i).at = Pinned(i % run.staging)
  /\ \A S : {w.at : w \in {HoldsTensor(t) : t \in S}} = {run.place[t] : t \in S}
<1>1. /\ \A t : HoldsTensor(t).at = run.place[t]
      /\ \A i : HoldsStaged(i).at = Pinned(i % run.staging)
  BY DEF HoldsTensor, HoldsStaged
<1>2. ASSUME NEW S PROVE {w.at : w \in {HoldsTensor(t) : t \in S}} = {run.place[t] : t \in S}
  BY <1>1
<1>3. QED
  BY <1>1, <1>2

LEMMA ConflictsFollow == ASSUME Good PROVE NoConflict
<1> DEFINE copy == Head(queue[Copy])
           kernel == Head(queue[Main])
<1>1. ASSUME Working(Copy)
      PROVE  \E i \in prefetched, t \in Tensors :
               /\ 1 \in DOMAIN queue[Copy] /\ CopyAt(1, i, t) /\ copy = CopyOf(i, t)
               /\ copy.reads = {HoldsStaged(i)} /\ copy.writes = {HoldsTensor(t)} /\ i \in Int
  <2>1. PICK i \in prefetched, t \in Tensors : CopyAt(1, i, t)
    BY <1>1, WorkAtHead
  <2>2. copy = CopyOf(i, t) /\ 1 \in DOMAIN queue[Copy]
    BY <1>1, <2>1, WorkAtHead DEF CopyAt
  <2>3. i \in Int
    BY PlainTyped DEF Good
  <2>4. CopyOf(i, t).reads = {HoldsStaged(i)} /\ CopyOf(i, t).writes = {HoldsTensor(t)}
    BY KindsDiffer DEF CopyOf
  <2>5. QED
    BY <2>1, <2>2, <2>3, <2>4
<1>2. ASSUME Working(Main)
      PROVE  \E i \in Kerneled : /\ 1 \in DOMAIN queue[Main] /\ KernelAt(1, i) /\ kernel = KernelOf(i)
                                 /\ kernel.reads = {HoldsTensor(t) : t \in run.launch[i].reads}
                                 /\ kernel.writes = {HoldsTensor(t) : t \in run.launch[i].writes}
  <2>1. PICK i \in Kerneled : KernelAt(1, i)
    BY <1>2, WorkAtHead
  <2>2. kernel = KernelOf(i) /\ 1 \in DOMAIN queue[Main]
    BY <1>2, <2>1, WorkAtHead DEF KernelAt
  <2>3. QED
    BY <2>1, <2>2, KernelParts
<1>3. ASSUME Working(Copy) PROVE \A r \in copy.reads : r.at \notin WritesTo(copy)
  <2>1. PICK i \in prefetched, t \in Tensors :
           copy.reads = {HoldsStaged(i)} /\ copy.writes = {HoldsTensor(t)} /\ i \in Int
    BY <1>1, <1>3
  <2>2. run.place[t] # Pinned(i % run.staging)
    BY <2>1, StagingApart DEF Good
  <2>3. QED
    BY <2>1, <2>2 DEF WritesTo, HoldsStaged, HoldsTensor
<1>4. ASSUME Working(Main) PROVE \A r \in kernel.reads : r.at \notin WritesTo(kernel)
  <2>1. PICK i \in Kerneled : /\ kernel.reads = {HoldsTensor(t) : t \in run.launch[i].reads}
                              /\ kernel.writes = {HoldsTensor(t) : t \in run.launch[i].writes}
    BY <1>2, <1>4
  <2>2. \A t \in run.launch[i].reads : \A u \in run.launch[i].writes : run.place[t] # run.place[u]
    BY KernelInOut
  <2>3. QED
    BY <2>1, <2>2 DEF WritesTo, HoldsTensor
<1>5. ASSUME Working(Copy), Working(Main)
      PROVE  WritesTo(copy) \cap Touches(kernel) = {} /\ WritesTo(kernel) \cap Touches(copy) = {}
  <2>1. PICK c \in prefetched, t \in Tensors :
           /\ 1 \in DOMAIN queue[Copy] /\ CopyAt(1, c, t)
           /\ copy.reads = {HoldsStaged(c)} /\ copy.writes = {HoldsTensor(t)} /\ c \in Int
    BY <1>1, <1>5
  <2>2. PICK i \in Kerneled : /\ 1 \in DOMAIN queue[Main] /\ KernelAt(1, i)
                              /\ kernel.reads = {HoldsTensor(u) : u \in run.launch[i].reads}
                              /\ kernel.writes = {HoldsTensor(u) : u \in run.launch[i].writes}
    BY <1>2, <1>5
  <2>3. \A v \in run.launch[i].reads \cup run.launch[i].writes : run.place[v] # run.place[t]
    BY <2>1, <2>2, CopyAndKernel
  <2>4. \A v \in run.launch[i].writes : run.place[v] # Pinned(c % run.staging)
    BY <2>1, KernelParts, StagingApart DEF Good
  <2>5. WritesTo(copy) = {run.place[t]} /\ Touches(copy) = {run.place[t], Pinned(c % run.staging)}
    <3> HIDE DEF copy
    <3>1. copy.writes = {HoldsTensor(t)} /\ copy.reads \cup copy.writes = {HoldsStaged(c), HoldsTensor(t)}
      BY <2>1
    <3>2. QED
      BY <3>1, PlacesHeld DEF WritesTo, Touches
  <2>6. /\ WritesTo(kernel) = {run.place[v] : v \in run.launch[i].writes}
        /\ Touches(kernel) = {run.place[v] : v \in run.launch[i].reads \cup run.launch[i].writes}
    <3> HIDE DEF kernel
    <3>1. kernel.reads \cup kernel.writes
            = {HoldsTensor(v) : v \in run.launch[i].reads \cup run.launch[i].writes}
      BY <2>2
    <3>2. QED
      BY <2>2, <3>1, PlacesHeld DEF WritesTo, Touches
  <2>7. QED
    BY <2>3, <2>4, <2>5, <2>6
<1>6. Streams = {Copy, Main}
  BY PlainSchedule DEF Good
<1> HIDE DEF copy, kernel
<1>7. QED
  BY <1>3, <1>4, <1>5, <1>6, StreamsTyped DEF NoConflict, copy, kernel

(* After the last iteration everything was launched and is over.           *)
LEMMA OverWhenEmpty ==
  ASSUME Good, turn = Count, queue[Main] = <<>>
  PROVE  \A i \in All : Launched(i) /\ Over(i)
<1>1. SUFFICES ASSUME NEW i \in All PROVE Launched(i) /\ Over(i)
  OBVIOUS
<1>2. Launched(i)
  BY PlainTyped DEF Launched, Good
<1>3. completion[i].stream = Main /\ completion[i].position <= retired[Main] + Len(queue[Main])
  BY <1>2 DEF Good, PlainInv, Inner, Completions
<1>4. QED
  BY <1>2, <1>3, PlainTyped DEF Over, Done, Good

LEMMA OutputsFollow == ASSUME Good PROVE OutputsDelivered
<1> SUFFICES ASSUME host = "done", NEW t \in Tensors, HasRole(program, t, "Output")
             PROVE  memory[run.place[t]] = run.root[t]
  BY DEF OutputsDelivered
<1> DEFINE u == run.root[t]
<1>1. u \in Tensors
  BY RunTyped DEF Good, TypeInv
<1>2. run.root[u] = u /\ run.place[u] = run.place[t]
  BY PlainSchedule DEF Good, RootsBound
<1>3. Output(run, u)
  BY DEF Output, program
<1>4. InUse(run, u) /\ Needed(u)
  BY <1>2, <1>3 DEF InUse, Needed, Lasting
<1>5. Uploaded(run, u) \/ Writers(run, u) # {}
  BY <1>1, <1>3, PlainSchedule DEF Good, WrittenOnce
<1>6. \A j \in All : Launched(j) /\ Over(j)
  BY OverWhenEmpty DEF Good, PlainInv, Hosted
<1>7. Made(u)
  BY <1>1, <1>5, <1>6, PlainTyped DEF Made, Good
<1>8. QED
  BY <1>1, <1>2, <1>4, <1>7 DEF Good, PlainInv, Inner, InMemory

-----------------------------------------------------------------------------
(* How the steps keep the invariant.  First what holds of the main stream  *)
(* while nothing is submitted to it, and of the copy stream likewise.      *)
SameLaunches == \A i \in All : Launched(i)' <=> Launched(i)

LEMMA MainKept ==
  ASSUME Good, run' = run, SameLaunches, completion' = completion,
         queue'[Main] = queue[Main], retired'[Main] = retired[Main],
         prefetched \subseteq prefetched', \A i \in prefetched : ready'[i] = ready[i]
  PROVE  Completions' /\ MainQueue'
<1>1. All' = All /\ Kerneled' = Kerneled /\ \A i : KernelOf(i)' = KernelOf(i)
  BY SameRun, SameSchedule
<1>2. Completions'
  BY <1>1 DEF Good, PlainInv, Inner, Completions, SameLaunches
<1>3. ASSUME NEW k \in DOMAIN queue[Main]
      PROVE  (\E i \in All : AwaitAt(k, i)') \/ (\E i \in Kerneled : KernelAt(k, i)')
  <2>1. (\E i \in All : AwaitAt(k, i)) \/ (\E i \in Kerneled : KernelAt(k, i))
    BY DEF Good, PlainInv, Inner, MainQueue
  <2>2. ASSUME NEW i \in All, AwaitAt(k, i) PROVE AwaitAt(k, i)'
    BY <1>1, <2>2 DEF AwaitAt, SameLaunches, Wait
  <2>3. ASSUME NEW i \in Kerneled, KernelAt(k, i) PROVE KernelAt(k, i)'
    BY <1>1, <2>3, PlainTyped DEF KernelAt, SameLaunches, Good
  <2>4. QED
    BY <2>1, <2>2, <2>3
<1>4. MainQueue'
  BY <1>1, <1>3 DEF MainQueue
<1>5. QED
  BY <1>2, <1>4

(* Launched operations stay launched, with the completion they have.       *)
LaunchesStay ==
  \A i \in All : Launched(i) => Launched(i)' /\ completion'[i] = completion[i]

LEMMA CopiesKept ==
  ASSUME Good, run' = run, iteration' = iteration, LaunchesStay,
         queue'[Copy] = queue[Copy], retired'[Copy] = retired[Copy],
         prefetched' = prefetched, ready' = ready, copied' = copied,
         \A b \in Buffers : memory'[Pinned(b)] = memory[Pinned(b)]
  PROVE  CopyQueue' /\ Batches' /\ \A t \in Tensors : Awaiting(t)' <=> Awaiting(t)
<1>1. /\ All' = All /\ \A i, t : CopyOf(i, t)' = CopyOf(i, t) /\ CopyFor(t)' = CopyFor(t)
      /\ \A t : Streamed(run, t)' = Streamed(run, t)
  BY SameRun, SameSchedule
<1>2. \A t \in Tensors : (Awaiting(t)' <=> Awaiting(t)) /\ (Brought(t)' <=> Brought(t))
  BY <1>1 DEF Awaiting, Brought
<1>3. Batches'
  BY <1>1, <1>2 DEF Good, PlainInv, Inner, Batches
<1>4. ASSUME NEW k \in DOMAIN queue[Copy]
      PROVE  \E i \in prefetched : /\ retired[Copy] + k <= ready[i].position
                                   /\ ReleaseAt(k)' \/ \E t \in Tensors : CopyAt(k, i, t)'
  <2>1. PICK i \in prefetched : /\ retired[Copy] + k <= ready[i].position
                                /\ ReleaseAt(k) \/ \E t \in Tensors : CopyAt(k, i, t)
    BY DEF Good, PlainInv, Inner, CopyQueue
  <2>2. ASSUME ReleaseAt(k) PROVE ReleaseAt(k)'
    BY <1>1, <2>2 DEF ReleaseAt, LaunchesStay, Wait
  <2>3. ASSUME NEW t \in Tensors, CopyAt(k, i, t) PROVE CopyAt(k, i, t)'
    <3>1. i % run.staging \in Buffers
      BY PlacesTyped, PlainTyped DEF Good, TypeInv
    <3>2. memory'[Pinned(i % run.staging)] = i
      BY <2>3, <3>1 DEF CopyAt
    <3>3. Brought(t)'
      BY <1>2, <2>3 DEF CopyAt
    <3>4. QED
      BY <1>1, <2>3, <3>2, <3>3 DEF CopyAt, Pinned
  <2>4. QED
    BY <2>1, <2>2, <2>3
<1>5. CopyQueue'
  BY <1>4 DEF CopyQueue
<1>6. QED
  BY <1>2, <1>3, <1>5

(* Only staging and the work of kernels and copies change memory.          *)
LEMMA MemoryKept ==
  ASSUME Good, run' = run, iteration' = iteration, prefetched \subseteq prefetched',
         \A u \in Tensors : memory'[run.place[u]] = memory[run.place[u]],
         \A u \in Tensors : Made(u)' => Made(u),
         \A i \in All : Launched(i) /\ Over(i) => (Launched(i) /\ Over(i))'
  PROVE  InMemory'
<1>1. \A u : /\ Lasting(run, u)' = Lasting(run, u) /\ Users(run, u)' = Users(run, u)
             /\ InUse(run, u)' = InUse(run, u)
  BY SameSchedule
<1>2. \A u \in Tensors : Needed(u)' => Needed(u)
  BY <1>1, PlainTyped DEF Needed, Good
<1>3. QED
  BY <1>1, <1>2 DEF Good, PlainInv, Inner, InMemory

(* The host moves on without submitting anything.                          *)
LEMMA QuietStep ==
  ASSUME Good, run' = run, iteration' = iteration, SameLaunches, completion' = completion,
         UNCHANGED <<fetchVars, queue, retired, memory>>, host # "begin", host' # "begin",
         \A i \in prefetched : i < Frontier',
         \A t \in Tensors : Brought(t) /\ run.first[t] < Frontier' => run.first[t] < Frontier
  PROVE  Inner'
<1>1. UNCHANGED <<prefetched, ready, copied, queue, retired, memory>>
  BY DEF fetchVars
<1>2. Completions' /\ MainQueue'
  BY <1>1, MainKept
<1>3. CopyQueue' /\ Batches' /\ \A t \in Tensors : Awaiting(t)' <=> Awaiting(t)
  <2>1. LaunchesStay
    BY DEF LaunchesStay, SameLaunches
  <2>2. QED
    BY <1>1, <2>1, CopiesKept
<1>4. /\ \A t : /\ Streamed(run, t)' = Streamed(run, t) /\ Uploaded(run, t)' = Uploaded(run, t)
                /\ Writers(run, t)' = Writers(run, t) /\ CopyFor(t)' = CopyFor(t)
      /\ \A i \in All : Over(i)' <=> Over(i)
  BY <1>1, SameSchedule DEF Over, Done
<1>5. \A t \in Tensors : Brought(t)' <=> Brought(t)
  BY <1>4 DEF Brought
<1>6. Fetches'
  BY <1>1, <1>5 DEF Good, PlainInv, Inner, Fetches
<1>7. Awaited'
  BY <1>1, PlainTyped DEF Good, PlainInv, Inner, Awaited, AwaitedBy, Done, Wait, SameLaunches
<1>8. Released'
  <2>1. \A t \in Tensors : WaitsFirst(t)' <=> WaitsFirst(t)
    BY <1>1, <1>4 DEF WaitsFirst, Wait
  <2>2. \A t \in Tensors : run.release[t] # None => (Over(run.release[t])' <=> Over(run.release[t]))
    BY <1>1 DEF Over, Done
  <2>3. QED
    BY <1>1, <1>3, <1>5, <2>1, <2>2 DEF Good, PlainInv, Inner, Released
<1>9. InMemory'
  <2>1. \A u \in Tensors : Made(u)' => Made(u)
    BY <1>1, <1>3, <1>4, <1>5, PlainTyped DEF Made, SameLaunches, Good
  <2>2. QED
    BY <1>1, <1>4, <2>1, MemoryKept DEF SameLaunches
<1>10. QED
  BY <1>2, <1>3, <1>6, <1>7, <1>8, <1>9 DEF Inner

(* The launch of an operation: the wait for its constants, then its kernel.*)
Own(i) == IF i \in run.skipped THEN <<>> ELSE <<KernelOf(i)>>

LEMMA OwnKernels == ASSUME Good, NEW i \in All PROVE Kernels(i) = Own(i) /\ Own(i) \in Seq(Entries)
<1>1. Own(i) \in Seq(Entries)
  BY KernelOfTyped DEF Own, Good
<1>2. Saves(i) = <<>>
  <2> DEFINE S == run.crossing \cap program.outputs[i]
  <2>1. S = {} /\ IsFiniteSet(S)
    BY PlainSchedule, FS_EmptySet DEF Good
  <2> HIDE DEF S
  <2>2. /\ Len(SetToSeq(S)) \in Nat /\ DOMAIN SetToSeq(S) = 1 .. Len(SetToSeq(S))
        /\ \A k \in DOMAIN SetToSeq(S) : SetToSeq(S)[k] \in S
    BY <2>1, InSomeOrder
  <2>3. DOMAIN SetToSeq(S) = {}
    BY <2>1, <2>2
  <2>4. DOMAIN Saves(i) = {}
    BY <2>3 DEF Saves, S
  <2>5. Saves(i) \in Seq(Entries)
    BY SavesTyped DEF Good
  <2>6. QED
    BY <2>4, <2>5
<1>3. QED
  BY <1>1, <1>2 DEF Kernels, Own

LEMMA LaunchEffect ==
  ASSUME Good, Launch
  PROVE  /\ turn \in All /\ ~Launched(turn) /\ host # "begin" /\ host' # "begin"
         /\ queue[Main] \in Seq(Entries) /\ Await(turn) \in Seq(Entries) /\ Own(turn) \in Seq(Entries)
         /\ queue'[Main] = Joined(queue[Main], Await(turn), Own(turn)) /\ queue'[Copy] = queue[Copy]
         /\ \A i \in All : completion'[i] = IF i = turn
              THEN [stream |-> Main, position |-> retired[Main] + Len(queue'[Main])]
              ELSE completion[i]
         /\ \A i \in All : (Launched(i)' <=> i <= turn) /\ (Launched(i) <=> i < turn)
         /\ Frontier' = Frontier
         /\ UNCHANGED <<run, iteration, prefetched, ready, copied, retired, memory, performed>>
<1>1. turn \in All /\ turn < Count /\ AtLaunch /\ AfterTurn
  BY RunTyped DEF Launch, AtLaunch, Good, TypeInv, HostTyped
<1>2. UNCHANGED <<run, iteration, prefetched, ready, copied, retired, memory, performed>>
  BY DEF Launch, fetchVars
<1>3. host = IF run.overlap THEN "turn" ELSE "launch"
  BY <1>1 DEF AtLaunch
<1>4. Kernels(turn) = Own(turn) /\ Own(turn) \in Seq(Entries) /\ Await(turn) \in Seq(Entries)
      /\ queue[Main] \in Seq(Entries)
  BY <1>1, OwnKernels, AwaitTyped, PlainTyped DEF Good
<1> DEFINE q == Joined(queue[Main], Await(turn), Own(turn))
<1>5. queue' = [queue EXCEPT ![Main] = q] /\ completion' = [completion EXCEPT ![turn] = Record(Main, q)]
  BY <1>4 DEF Launch, Joined
<1> HIDE DEF q
<1>6. queue'[Main] = q /\ queue'[Copy] = queue[Copy]
  BY <1>5, StreamsTyped DEF Good, TypeInv, DeviceTyped
<1>7. \A i \in All : completion'[i] = IF i = turn
        THEN [stream |-> Main, position |-> retired[Main] + Len(queue'[Main])] ELSE completion[i]
  BY <1>5, <1>6 DEF Record, Good, TypeInv, EventsTyped
<1>8. \A i \in All : (Launched(i)' <=> i <= turn) /\ (Launched(i) <=> i < turn)
  <2>1. (host' = "ahead" /\ turn' = turn) \/ (host' = "turn" /\ turn' = turn + 1)
    BY <1>1 DEF AfterTurn
  <2>2. host # "ahead"
    BY <1>3
  <2>3. turn \in Int /\ \A i \in All : i \in Int
    BY <1>1, PlainTyped DEF Good
  <2>4. QED
    BY <2>1, <2>2, <2>3 DEF Launched
<1>9. Frontier' = Frontier
  BY <1>1, <1>2, <1>3 DEF AfterTurn, Frontier
<1>10. host' # "begin" /\ host # "begin"
  BY <1>1, <1>3 DEF AfterTurn
<1>11. ~Launched(turn)
  BY <1>1, <1>8, PlainTyped DEF Good
<1>12. QED
  BY <1>1, <1>2, <1>4, <1>6, <1>7, <1>8, <1>9, <1>10, <1>11 DEF q

LEMMA LaunchStep == ASSUME Good, Launch PROVE Inner'
<1> DEFINE A == queue[Main]
           B == Await(turn)
           C == Own(turn)
           q == queue'[Main]
<1>1. /\ turn \in All /\ ~Launched(turn) /\ host # "begin" /\ host' # "begin"
      /\ q = Joined(A, B, C) /\ queue'[Copy] = queue[Copy]
      /\ \A i \in All : completion'[i] = IF i = turn
           THEN [stream |-> Main, position |-> retired[Main] + Len(q)] ELSE completion[i]
      /\ \A i \in All : (Launched(i)' <=> i <= turn) /\ (Launched(i) <=> i < turn)
      /\ Frontier' = Frontier
      /\ UNCHANGED <<run, iteration, prefetched, ready, copied, retired, memory, performed>>
  BY LaunchEffect
<1>2. A \in Seq(Entries) /\ B \in Seq(Entries) /\ C \in Seq(Entries)
  BY LaunchEffect
<1> HIDE DEF A, B, C, q
<1>3. q \in Seq(Entries) /\ Consists(q, A, B, C)
  BY <1>1, <1>2, InThree
<1>4. /\ Len(A) \in Nat /\ Len(B) \in Nat /\ Len(C) \in Nat /\ Len(q) = Len(A) + Len(B) + Len(C)
      /\ DOMAIN q = 1 .. Len(q) /\ DOMAIN A = 1 .. Len(A)
  BY <1>2, <1>3 DEF Consists
<1>5. (turn \in Kerneled => Len(C) = 1 /\ C[1] = KernelOf(turn)) /\ (turn \notin Kerneled => Len(C) = 0)
  BY <1>1 DEF C, Own, Kerneled, Launches, All, program
<1>6. (turn \in prefetched => Len(B) = 1 /\ B[1] = Wait(ready[turn])) /\ (turn \notin prefetched => Len(B) = 0)
  BY DEF B, Await
<1>7. All' = All /\ Kerneled' = Kerneled /\ (\A i : KernelOf(i)' = KernelOf(i))
  BY <1>1, SameRun, SameSchedule
<1>8. LaunchesStay
  BY <1>1, PlainTyped DEF LaunchesStay, Good
<1>9. CopyQueue' /\ Batches' /\ \A t \in Tensors : Awaiting(t)' <=> Awaiting(t)
  BY <1>1, <1>8, CopiesKept
<1>10. /\ \A t : /\ Streamed(run, t)' = Streamed(run, t) /\ Uploaded(run, t)' = Uploaded(run, t)
                 /\ Writers(run, t)' = Writers(run, t) /\ CopyFor(t)' = CopyFor(t)
       /\ \A t \in Tensors : Brought(t)' <=> Brought(t)
  <2>1. \A t : /\ Streamed(run, t)' = Streamed(run, t) /\ Uploaded(run, t)' = Uploaded(run, t)
               /\ Writers(run, t)' = Writers(run, t) /\ CopyFor(t)' = CopyFor(t)
    BY <1>1, SameSchedule
  <2>2. QED
    BY <1>1, <2>1 DEF Brought
<1>11. Fetches'
  BY <1>1, <1>10 DEF Good, PlainInv, Inner, Fetches
<1>12. PICK c \in All : c = turn
  BY <1>1
<1>13. /\ completion'[turn].stream = Main /\ completion'[turn].position = retired[Main] + Len(q)
       /\ \A i \in All : i # turn => completion'[i] = completion[i]
       /\ Launched(c)' /\ c \in Nat
  BY <1>1, <1>12, PlainTyped DEF Good
<1>14. /\ retired[Main] \in Nat /\ turn \in Nat /\ prefetched \subseteq All /\ Kerneled \subseteq All
       /\ \A i \in All : i \in Nat /\ completion[i].position \in Nat
  BY <1>1, PlainTyped DEF Good
<1>15. ASSUME NEW i \in All, Launched(i)
       PROVE  /\ i < turn /\ i # turn /\ completion'[i] = completion[i] /\ Launched(i)'
              /\ completion[i].stream = Main /\ completion[i].position <= retired[Main] + Len(A)
              /\ \A j \in All : j < i =>
                   /\ Launched(j) /\ completion'[j] = completion[j]
                   /\ completion[j].position <= completion[i].position
                   /\ i \in Kerneled => completion[j].position < completion[i].position
  <2>1. i < turn
    BY <1>1, <1>15
  <2>2. i # turn /\ Launched(i)'
    BY <1>1, <1>14, <2>1
  <2>3. \A j \in All : j < i => j < turn /\ j # turn
    BY <1>14, <2>1
  <2>4. /\ completion[i].stream = Main /\ completion[i].position <= retired[Main] + Len(A)
        /\ \A j \in All : j < i =>
             /\ completion[j].position <= completion[i].position
             /\ i \in Kerneled => completion[j].position < completion[i].position
    BY <1>15 DEF Good, PlainInv, Inner, Completions, A
  <2>5. QED
    BY <1>1, <1>13, <2>1, <2>2, <2>3, <2>4
<1>16. \A i \in All : i < turn => Launched(i)
  BY <1>1
<1>17. Completions'
  <2> SUFFICES ASSUME NEW i \in All, i <= turn
               PROVE  /\ completion'[i].stream = Main
                      /\ completion'[i].position <= retired[Main] + Len(q)
                      /\ \A j \in All : j < i =>
                           /\ completion'[j].position <= completion'[i].position
                           /\ i \in Kerneled => completion'[j].position < completion'[i].position
    BY <1>1, <1>7 DEF Completions, q
  <2>1. CASE i = turn
    <3>1. \A j \in All : j < i => /\ completion[j].position <= retired[Main] + Len(A)
                                  /\ completion'[j] = completion[j]
      BY <1>15, <1>16, <2>1
    <3>2. Len(A) <= Len(q) /\ (turn \in Kerneled => Len(A) < Len(q))
      BY <1>4, <1>5
    <3>3. completion'[i].stream = Main /\ completion'[i].position = retired[Main] + Len(q)
      BY <1>13, <2>1
    <3>4. ASSUME NEW j \in All, j < i
          PROVE  /\ completion'[j].position <= completion'[i].position
                 /\ i \in Kerneled => completion'[j].position < completion'[i].position
      <4>1. completion[j].position \in Nat /\ completion[j].position <= retired[Main] + Len(A)
            /\ completion'[j] = completion[j]
        BY <1>14, <3>1, <3>4
      <4>2. QED
        BY <1>4, <1>14, <2>1, <3>2, <3>3, <4>1
    <3>5. completion'[i].position <= retired[Main] + Len(q)
      BY <1>4, <1>14, <3>3
    <3>6. QED
      BY <3>3, <3>4, <3>5
  <2>2. CASE i < turn
    <3>1. Launched(i) /\ completion'[i] = completion[i] /\ completion[i].position <= retired[Main] + Len(A)
          /\ completion[i].stream = Main
      BY <1>15, <1>16, <2>2
    <3>2. completion'[i].position <= retired[Main] + Len(q)
      BY <1>4, <1>14, <3>1
    <3>3. QED
      BY <1>15, <3>1, <3>2
  <2>3. QED
    BY <1>14, <2>1, <2>2
<1>18. MainQueue'
  <2> SUFFICES ASSUME NEW k \in 1 .. Len(q)
               PROVE  (\E i \in All : AwaitAt(k, i)') \/ (\E i \in Kerneled : KernelAt(k, i)')
    BY <1>4, <1>7 DEF MainQueue, q
  <2>1. ASSUME k \in 1 .. Len(A), q[k] = A[k]
        PROVE  (\E i \in All : AwaitAt(k, i)') \/ (\E i \in Kerneled : KernelAt(k, i)')
    <3>1. (\E i \in All : AwaitAt(k, i)) \/ (\E i \in Kerneled : KernelAt(k, i))
      BY <1>4, <2>1 DEF Good, PlainInv, Inner, MainQueue, A
    <3>2. queue'[Main][k] = queue[Main][k]
      BY <2>1 DEF q, A
    <3>3. ASSUME NEW i \in All, AwaitAt(k, i) PROVE AwaitAt(k, i)'
      <4>1. Launched(i)' /\ completion'[i] = completion[i]
            /\ \A j \in All : j < i => completion'[j] = completion[j]
        BY <1>15, <3>3 DEF AwaitAt
      <4>2. QED
        BY <1>1, <1>7, <3>3, <3>2, <4>1 DEF AwaitAt, Wait
    <3>4. ASSUME NEW i \in Kerneled, KernelAt(k, i) PROVE KernelAt(k, i)'
      <4>1. Launched(i)' /\ completion'[i] = completion[i]
        BY <1>14, <1>15, <3>4 DEF KernelAt
      <4>2. QED
        BY <1>1, <1>7, <3>4, <3>2, <4>1 DEF KernelAt
    <3>5. QED
      BY <3>1, <3>3, <3>4
  <2>2. ASSUME NEW j \in 1 .. Len(B), k = Len(A) + j, q[k] = B[j] PROVE AwaitAt(k, c)'
    <3>1. turn \in prefetched /\ j = 1 /\ q[k] = Wait(ready[turn]) /\ k = Len(A) + 1
      BY <1>6, <2>2
    <3>2. k <= Len(q) /\ (turn \in Kerneled => k < Len(q))
      BY <1>4, <1>5, <1>6, <3>1
    <3>3. retired[Main] + k <= completion'[turn].position
          /\ (turn \in Kerneled => retired[Main] + k < completion'[turn].position)
      BY <1>4, <1>13, <1>14, <3>1, <3>2
    <3>4. ASSUME NEW i \in All, i < turn PROVE completion'[i].position < retired[Main] + k
      <4>1. completion'[i] = completion[i] /\ completion[i].position <= retired[Main] + Len(A)
        BY <1>15, <1>16, <3>4
      <4>2. QED
        BY <1>4, <1>14, <3>1, <4>1
    <3>5. queue'[Main][k] = Wait(ready[turn])
      BY <3>1 DEF q
    <3>6. QED
      BY <1>1, <1>7, <1>13, <1>12, <3>1, <3>3, <3>4, <3>5 DEF AwaitAt, Wait
  <2>3. ASSUME NEW j \in 1 .. Len(C), k = Len(A) + Len(B) + j, q[k] = C[j]
        PROVE  c \in Kerneled /\ KernelAt(k, c)'
    <3>1. turn \in Kerneled /\ j = 1 /\ q[k] = KernelOf(turn) /\ Len(C) = 1
      BY <1>4, <1>5, <2>3
    <3>2. k = Len(q)
      BY <1>4, <2>3, <3>1
    <3>3. queue'[Main][k] = KernelOf(turn)
      BY <3>1 DEF q
    <3>4. QED
      BY <1>1, <1>7, <1>13, <1>12, <3>1, <3>2, <3>3 DEF KernelAt
  <2>4. QED
    BY <1>1, <1>3, <2>1, <2>2, <2>3 DEF Consists
<1>19. Awaited'
  <2> SUFFICES ASSUME NEW i \in prefetched, i <= turn PROVE AwaitedBy(i)'
    BY <1>1, <1>14 DEF Awaited
  <2>1. CASE i = turn
    <3>1. turn \in prefetched
      BY <2>1
    <3>2. Len(B) = 1 /\ B[1] = Wait(ready[turn])
      BY <1>6, <3>1
    <3>3. Len(B) = 1 /\ 1 \in 1 .. Len(B) /\ B[1] = Wait(ready[i])
      BY <2>1, <3>2
    <3> DEFINE k == Len(A) + 1
    <3>4. q[k] = Wait(ready[i])
      BY <1>3, <3>3 DEF Consists
    <3>5. k \in 1 .. Len(q) /\ k <= Len(q)
      BY <1>4, <3>3
    <3> HIDE DEF k
    <3>6. retired[Main] + k <= completion'[i].position
      BY <1>4, <1>13, <1>14, <2>1, <3>5
    <3>7. queue'[Main][k] = Wait(ready[i]) /\ k \in DOMAIN queue'[Main]
      BY <1>4, <3>4, <3>5 DEF q
    <3>8. QED
      BY <1>1, <3>6, <3>7 DEF AwaitedBy, Wait
  <2>2. CASE i < turn
    <3>1. AwaitedBy(i) /\ completion'[i] = completion[i]
      BY <1>1, <1>14, <1>15, <1>16, <2>2 DEF Good, PlainInv, Inner, Awaited
    <3>2. CASE Done(ready[i])
      BY <1>1, <3>2 DEF AwaitedBy, Done
    <3>3. ASSUME NEW k \in DOMAIN queue[Main], queue[Main][k] = Wait(ready[i]),
                 retired[Main] + k <= completion[i].position
          PROVE  AwaitedBy(i)'
      <4>1. k \in 1 .. Len(A)
        BY <1>4, <3>3 DEF A
      <4>2. k \in 1 .. Len(q) /\ q[k] = A[k]
        BY <1>3, <1>4, <4>1 DEF Consists
      <4>3. k \in DOMAIN queue'[Main] /\ queue'[Main][k] = Wait(ready[i])
        BY <1>4, <3>3, <4>2 DEF q, A
      <4>4. QED
        BY <1>1, <3>1, <3>3, <4>3 DEF AwaitedBy, Wait
    <3>4. QED
      BY <3>1, <3>2, <3>3 DEF AwaitedBy
  <2>3. QED
    BY <1>14, <2>1, <2>2
<1>20. \A j \in All : Launched(j) => completion'[j] = completion[j] /\ (Over(j)' <=> Over(j))
  BY <1>1, <1>8 DEF LaunchesStay, Over, Done
<1>21. Released'
  <2> SUFFICES ASSUME NEW t \in Tensors, Brought(t), run.release[t] # None,
                      run.first[t] \in prefetched
               PROVE  Over(run.release[t])' \/ (Awaiting(t)' /\ WaitsFirst(t)')
    BY <1>1, <1>10 DEF Released
  <2>1. run.first[t] < Frontier
    BY <1>1 DEF Good, PlainInv, Inner, Fetches
  <2>2. run.release[t] \in All /\ Launched(run.release[t])
    BY <2>1, FreedBefore DEF Good, PlainInv, Brought
  <2>3. Over(run.release[t]) \/ (Awaiting(t) /\ WaitsFirst(t))
    BY <1>1 DEF Good, PlainInv, Inner, Released
  <2>4. completion'[run.release[t]] = completion[run.release[t]]
    BY <1>20, <2>2
  <2>5. Over(run.release[t]) => Over(run.release[t])'
    BY <1>1, <2>4 DEF Over, Done
  <2>6. WaitsFirst(t) => WaitsFirst(t)'
    BY <1>1, <1>10, <2>4 DEF WaitsFirst, Wait
  <2>7. QED
    BY <1>9, <2>3, <2>5, <2>6
<1>22. InMemory'
  <2>1. c \in Kerneled => ~Over(c)'
    <3>1. completion'[c].stream = Main /\ completion'[c].position = retired[Main] + Len(q)
      BY <1>13, <1>12
    <3>2. retired'[Main] = retired[Main]
      BY <1>1
    <3>3. c \in Kerneled => Len(q) > 0
      BY <1>4, <1>5, <1>12
    <3>4. QED
      BY <1>4, <1>14, <3>1, <3>2, <3>3 DEF Over, Done
  <2>2. ASSUME NEW u \in Tensors, Made(u)' PROVE Made(u)
    <3>1. ASSUME NEW j \in Writers(run, u), Launched(j)', Over(j)' PROVE Launched(j) /\ Over(j)
      <4>1. j \in Kerneled /\ j \in All
        BY <3>1, PlainTyped DEF Good
      <4>2. j \in Kerneled /\ j \in All /\ j # turn
        BY <1>12, <2>1, <3>1, <4>1
      <4>3. Launched(j)
        BY <1>1, <3>1, <4>2, PlainTyped DEF Good
      <4>4. QED
        BY <1>20, <3>1, <4>2, <4>3
    <3>2. QED
      BY <1>1, <1>9, <1>10, <2>2, <3>1 DEF Made
  <2>3. QED
    BY <1>1, <1>8, <1>20, <2>2, MemoryKept DEF LaunchesStay
<1>23. QED
  BY <1>9, <1>11, <1>17, <1>18, <1>19, <1>21, <1>22 DEF Inner

(* The prefetch of the operation at the front.                             *)
FetchReady(i) ==
  /\ i = Frontier /\ ~Launched(i) /\ host # "begin"
  /\ Fetched(i) = {t \in Tensors : Brought(t) /\ run.first[t] = i}
  /\ \A t \in Fetched(i) : run.release[t] # None =>
       run.release[t] \in All /\ Launched(run.release[t])

LEMMA FetchStep ==
  ASSUME Good, NEW i \in All, FetchReady(i), Prefetch(i), run' = run, iteration' = iteration,
         completion' = completion, SameLaunches, host' # "begin", Frontier' = i + 1
  PROVE  Inner'
<1> DEFINE A == queue[Copy]
           W == Batch(i)
           C == Copies(i)
           q == queue'[Copy]
           b == i % run.staging
<1>1. /\ i \in Int /\ b \in Buffers /\ Done(copied[b])
      /\ \A k \in 1 .. Len(W) : \E e \in Releases(i) : Recorded(e) /\ W[k] = Wait(e)
      /\ \A e \in Releases(i) : Recorded(e) => \E k \in 1 .. Len(W) : W[k] = Wait(e)
      /\ q = Joined(A, W, C)
      /\ memory'[Pinned(b)] = i
      /\ \A p \in Places(run) \ {Pinned(b)} : memory'[p] = memory[p]
      /\ \A j \in All : ready'[j] = IF j = i THEN Record(Copy, q) ELSE ready[j]
      /\ \A c \in Buffers : copied'[c] = IF c = b THEN Record(Copy, q) ELSE copied[c]
      /\ prefetched' = prefetched \cup {i} /\ retired' = retired
  BY PrefetchEffect DEF Good
<1>2. /\ A \in Seq(Entries) /\ W \in Seq(Entries) /\ C \in Seq(Entries)
      /\ queue'[Main] = queue[Main]
  BY PrefetchEffect, StreamsTyped DEF Good
<1>3. /\ \A k \in 1 .. Len(C) : \E t \in Fetched(i) : C[k] = CopyOf(i, t)
      /\ \A t \in Fetched(i) : \E k \in 1 .. Len(C) : C[k] = CopyOf(i, t)
  BY CopiesTyped DEF Good
<1> HIDE DEF A, W, C, q, b
<1>4. q \in Seq(Entries) /\ Consists(q, A, W, C)
  BY <1>1, <1>2, InThree
<1>5. /\ Len(A) \in Nat /\ Len(W) \in Nat /\ Len(C) \in Nat /\ Len(q) = Len(A) + Len(W) + Len(C)
      /\ DOMAIN q = 1 .. Len(q) /\ DOMAIN A = 1 .. Len(A)
  BY <1>2, <1>4 DEF Consists
<1>6. /\ retired[Copy] \in Nat /\ prefetched \subseteq All /\ \A j \in All : j \in Nat
      /\ \A t \in Tensors : Streamed(run, t) => run.first[t] \in All
  BY PlainTyped DEF Good
<1>7. /\ i \notin prefetched /\ \A j \in prefetched : j < i /\ ready'[j] = ready[j]
      /\ \A t \in Tensors : Brought(t) /\ run.first[t] < i => run.first[t] \in prefetched
  <2>1. /\ \A j \in prefetched : j < i
        /\ \A t \in Tensors : Brought(t) /\ run.first[t] < i => run.first[t] \in prefetched
    BY DEF Good, PlainInv, Inner, Fetches, FetchReady
  <2>2. \A j \in prefetched : j # i
    BY <1>6, <2>1
  <2>3. QED
    BY <1>1, <1>6, <2>1, <2>2
<1>8. Record(Copy, q) = [stream |-> Copy, position |-> retired[Copy] + Len(q)]
  BY DEF Record
<1>9. Completions' /\ MainQueue'
  BY <1>1, <1>2, <1>7, MainKept
<1>10. /\ All' = All /\ \A j, t : CopyOf(j, t)' = CopyOf(j, t) /\ CopyFor(t)' = CopyFor(t)
       /\ \A t : /\ Streamed(run, t)' = Streamed(run, t) /\ Uploaded(run, t)' = Uploaded(run, t)
                 /\ Writers(run, t)' = Writers(run, t)
  BY SameRun, SameSchedule
<1>11. \A t \in Tensors : Brought(t)' <=> Brought(t)
  BY <1>10 DEF Brought
<1>12. \A t \in Fetched(i) : /\ t \in Tensors /\ Brought(t) /\ Streamed(run, t) /\ run.first[t] = i
                             /\ CopyFor(t) = CopyOf(i, t)
  BY DEF FetchReady, Brought, CopyFor

(* Where a copy may be in the queue.                                       *)
<1>13. \A t \in Tensors : Streamed(run, t) /\ run.first[t] = i => \A k \in 1 .. Len(A) : A[k] # CopyFor(t)
  <2> SUFFICES ASSUME NEW t \in Tensors, Streamed(run, t), run.first[t] = i, NEW k \in 1 .. Len(A),
                      A[k] = CopyFor(t)
               PROVE  FALSE
    OBVIOUS
  <2>1. Awaiting(t)
    BY <1>5 DEF Awaiting, A
  <2>2. QED
    BY <1>7, <2>1, NotReady
<1>14. \A t \in Tensors : Streamed(run, t) /\ run.first[t] # i =>
         \A k \in 1 .. Len(q) : q[k] = CopyFor(t) => k \in 1 .. Len(A) /\ A[k] = CopyFor(t)
  <2> SUFFICES ASSUME NEW t \in Tensors, Streamed(run, t), run.first[t] # i, NEW k \in 1 .. Len(q),
                      q[k] = CopyFor(t)
               PROVE  k \in 1 .. Len(A) /\ A[k] = CopyFor(t)
    OBVIOUS
  <2>1. ASSUME NEW j \in 1 .. Len(W), q[k] = W[j] PROVE FALSE
    BY <1>1, <2>1, EntriesDiffer DEF Good
  <2>2. ASSUME NEW j \in 1 .. Len(C), q[k] = C[j] PROVE FALSE
    <3>1. PICK u \in Fetched(i) : q[k] = CopyOf(i, u)
      BY <1>3, <2>2
    <3>2. QED
      BY <1>12, <3>1, EntriesDiffer DEF Good
  <2>3. QED
    BY <1>4, <2>1, <2>2 DEF Consists
<1>15. \A t \in Tensors : Streamed(run, t) /\ run.first[t] = i =>
         \A k \in 1 .. Len(q) : q[k] = CopyFor(t) => k > Len(A) + Len(W)
  <2> SUFFICES ASSUME NEW t \in Tensors, Streamed(run, t), run.first[t] = i, NEW k \in 1 .. Len(q),
                      q[k] = CopyFor(t)
               PROVE  k > Len(A) + Len(W)
    OBVIOUS
  <2>1. ASSUME NEW j \in 1 .. Len(W), q[k] = W[j] PROVE FALSE
    BY <1>1, <2>1, EntriesDiffer DEF Good
  <2>2. ASSUME NEW j \in 1 .. Len(C), k = Len(A) + Len(W) + j PROVE k > Len(A) + Len(W)
    BY <1>5, <2>2
  <2>3. QED
    BY <1>4, <1>13, <2>1, <2>2 DEF Consists
<1>16. \A k \in 1 .. Len(A) : k \in 1 .. Len(q) /\ q[k] = A[k]
  BY <1>4, <1>5 DEF Consists
<1>17. \A t \in Tensors : Streamed(run, t) /\ run.first[t] # i => (Awaiting(t)' <=> Awaiting(t))
  <2> SUFFICES ASSUME NEW t \in Tensors, Streamed(run, t), run.first[t] # i
               PROVE  (\E k \in 1 .. Len(q) : q[k] = CopyFor(t))
                        <=> (\E k \in 1 .. Len(A) : A[k] = CopyFor(t))
    BY <1>5, <1>10 DEF Awaiting, A, q
  <2>1. QED
    BY <1>14, <1>16
<1>18. \A t \in Fetched(i) : Awaiting(t)'
  <2> SUFFICES ASSUME NEW t \in Fetched(i) PROVE \E k \in 1 .. Len(q) : q[k] = CopyFor(t)
    BY <1>5, <1>10, <1>12 DEF Awaiting, q
  <2>1. PICK j \in 1 .. Len(C) : C[j] = CopyOf(i, t)
    BY <1>3
  <2>2. Len(A) + Len(W) + j \in 1 .. Len(q)
    BY <1>5
  <2>3. q[Len(A) + Len(W) + j] = CopyFor(t)
    BY <1>4, <1>12, <2>1 DEF Consists
  <2>4. QED
    BY <2>2, <2>3
<1>19. Fetches'
  <2>1. \A j \in prefetched' : j < i + 1
    BY <1>1, <1>6, <1>7
  <2>2. ASSUME NEW t \in Tensors, Brought(t), run.first[t] < i + 1 PROVE run.first[t] \in prefetched'
    <3>1. run.first[t] \in Nat
      BY <1>6, <2>2 DEF Brought
    <3>2. run.first[t] < i \/ run.first[t] = i
      BY <1>1, <2>2, <3>1
    <3>3. QED
      BY <1>1, <1>7, <2>2, <3>2
  <2>3. QED
    BY <1>10, <1>11, <2>1, <2>2 DEF Fetches
<1>20. Awaited'
  <2> SUFFICES ASSUME NEW j \in prefetched', Launched(j)' PROVE AwaitedBy(j)'
    BY DEF Awaited
  <2>1. j \in prefetched /\ Launched(j) /\ ready'[j] = ready[j]
    BY <1>1, <1>6, <1>7 DEF SameLaunches, FetchReady
  <2>2. AwaitedBy(j)
    BY <2>1 DEF Good, PlainInv, Inner, Awaited, FetchReady
  <2>3. QED
    BY <1>1, <1>2, <2>1, <2>2 DEF AwaitedBy, Done, Wait
<1>21. CopyQueue'
  <2> SUFFICES ASSUME NEW k \in 1 .. Len(q)
               PROVE  \E j \in prefetched' : /\ retired[Copy] + k <= ready'[j].position
                                             /\ ReleaseAt(k)' \/ \E t \in Tensors : CopyAt(k, j, t)'
    BY <1>1, <1>5 DEF CopyQueue, q
  <2>1. ASSUME k \in 1 .. Len(A), q[k] = A[k]
        PROVE  \E j \in prefetched : /\ retired[Copy] + k <= ready'[j].position
                                     /\ ReleaseAt(k)' \/ \E t \in Tensors : CopyAt(k, j, t)'
    <3>1. PICK j \in prefetched : /\ retired[Copy] + k <= ready[j].position
                                  /\ ReleaseAt(k) \/ \E t \in Tensors : CopyAt(k, j, t)
      BY <1>5, <2>1 DEF Good, PlainInv, Inner, CopyQueue, A
    <3>2. queue'[Copy][k] = queue[Copy][k]
      BY <2>1 DEF q, A
    <3>3. ASSUME ReleaseAt(k) PROVE ReleaseAt(k)'
      BY <1>10, <3>2, <3>3 DEF ReleaseAt, SameLaunches, Wait
    <3>4. ASSUME NEW t \in Tensors, CopyAt(k, j, t) PROVE CopyAt(k, j, t)'
      <4> DEFINE c == j % run.staging
      <4>1. j \in Int
        BY <1>6
      <4>2. c \in Buffers /\ Pinned(c) \in Places(run) /\ (Pinned(c) = Pinned(b) => c = b)
        BY <1>1, <4>1, PlacesTyped DEF Good, TypeInv
      <4>3. copied[c].stream = Copy /\ retired[Copy] + k <= copied[c].position
        BY <3>4 DEF CopyAt
      <4>4. copied[c].position \in Nat
        BY <4>2 DEF Good, TypeInv, EventsTyped, Events
      <4>5. c # b
        BY <1>1, <1>6, <2>1, <4>3, <4>4 DEF Done
      <4>6. copied'[c] = copied[c] /\ memory'[Pinned(c)] = memory[Pinned(c)]
        BY <1>1, <4>2, <4>5
      <4>7. Brought(t)' /\ queue'[Copy][k] = CopyOf(j, t)
        BY <1>11, <3>2, <3>4 DEF CopyAt
      <4>8. QED
        BY <1>1, <1>10, <3>4, <4>6, <4>7 DEF CopyAt, Pinned
    <3>5. ready'[j] = ready[j]
      BY <1>7
    <3>6. QED
      BY <3>1, <3>3, <3>4, <3>5
  <2>2. ready'[i].position = retired[Copy] + Len(q) /\ retired[Copy] + k <= retired[Copy] + Len(q)
        /\ i \in prefetched'
    BY <1>1, <1>5, <1>6, <1>8
  <2>3. ASSUME NEW j \in 1 .. Len(W), q[k] = W[j] PROVE ReleaseAt(k)'
    <3>1. PICK e \in Releases(i) : q[k] = Wait(e)
      BY <1>1, <2>3
    <3>2. PICK t \in Fetched(i) : run.release[t] # None /\ e = completion[run.release[t]]
      BY DEF Releases
    <3>3. PICK r \in All : r = run.release[t] /\ Launched(r)
      BY <3>2 DEF FetchReady
    <3>4. Launched(r)' /\ queue'[Copy][k] = Wait(completion[r])
      BY <3>1, <3>2, <3>3 DEF SameLaunches, q
    <3>5. QED
      BY <1>10, <3>4 DEF ReleaseAt, Wait
  <2>4. ASSUME NEW j \in 1 .. Len(C), q[k] = C[j] PROVE \E t \in Tensors : CopyAt(k, i, t)'
    <3>1. PICK t \in Fetched(i) : q[k] = CopyOf(i, t)
      BY <1>3, <2>4
    <3>2. t \in Tensors /\ Brought(t)' /\ run.first[t] = i /\ queue'[Copy][k] = CopyOf(i, t)
      BY <1>11, <1>12, <3>1 DEF q
    <3>3. /\ copied'[b].stream = Copy /\ copied'[b].position = retired[Copy] + Len(q)
          /\ memory'[Pinned(b)] = i
      BY <1>1, <1>8
    <3>4. CopyAt(k, i, t)'
      BY <1>1, <1>10, <2>2, <3>2, <3>3 DEF CopyAt, Pinned, b
    <3>5. QED
      BY <3>2, <3>4
  <2>5. CASE k \in 1 .. Len(A) /\ q[k] = A[k]
    BY <1>1, <2>1, <2>5
  <2>6. CASE \E j \in 1 .. Len(W) : q[k] = W[j]
    BY <2>2, <2>3, <2>6
  <2>7. CASE \E j \in 1 .. Len(C) : q[k] = C[j]
    BY <2>2, <2>4, <2>7
  <2>8. QED
    BY <1>4, <2>5, <2>6, <2>7 DEF Consists
<1>22. Batches'
  <2>1. \A j \in prefetched' : ready'[j].stream = Copy
    BY <1>1, <1>7, <1>8 DEF Good, PlainInv, Inner, Batches
  <2>2. ASSUME NEW t \in Tensors, NEW u \in Tensors, NEW k \in 1 .. Len(q), NEW l \in 1 .. Len(q),
               Streamed(run, t), Streamed(run, u), run.first[t] < run.first[u],
               q[k] = CopyFor(t), q[l] = CopyFor(u)
        PROVE  k < l
    <3>1. run.first[t] \in Nat /\ run.first[u] \in Nat
      BY <1>6, <2>2
    <3>2. CASE run.first[t] # i /\ run.first[u] # i
      <4>1. k \in DOMAIN queue[Copy] /\ l \in DOMAIN queue[Copy] /\ queue[Copy][k] = CopyFor(t)
            /\ queue[Copy][l] = CopyFor(u)
        BY <1>5, <1>14, <2>2, <3>2 DEF A
      <4>2. QED
        BY <2>2, <4>1 DEF Good, PlainInv, Inner, Batches
    <3>3. CASE run.first[u] = i
      <4>1. l > Len(A) + Len(W)
        BY <1>15, <2>2, <3>3
      <4>2. run.first[t] # i
        BY <1>1, <2>2, <3>1, <3>3
      <4>3. k \in 1 .. Len(A)
        BY <1>14, <2>2, <4>2
      <4>4. QED
        BY <1>5, <4>1, <4>3
    <3>4. CASE run.first[t] = i
      <4>1. run.first[u] # i
        BY <1>1, <2>2, <3>1, <3>4
      <4>2. l \in 1 .. Len(A) /\ A[l] = CopyFor(u)
        BY <1>14, <2>2, <4>1
      <4>3. Awaiting(u)
        BY <1>5, <4>2 DEF Awaiting, A
      <4>4. run.first[u] \in prefetched
        BY <2>2, <4>3, NotReady
      <4>5. QED
        BY <1>1, <1>7, <2>2, <3>1, <3>4, <4>4
    <3>5. QED
      BY <3>2, <3>3, <3>4
  <2>3. ASSUME NEW t \in Tensors, NEW u \in Tensors, Brought(t), Brought(u),
               run.first[t] < run.first[u], run.first[u] \in prefetched', Awaiting(t)'
        PROVE  Awaiting(u)'
    <3>1. run.first[t] \in Nat /\ run.first[u] \in Nat /\ Streamed(run, t) /\ Streamed(run, u)
      BY <1>6, <2>3 DEF Brought
    <3>2. CASE run.first[u] = i
      BY <1>18, <2>3, <3>2 DEF FetchReady
    <3>3. CASE run.first[u] # i
      <4>1. run.first[u] \in prefetched /\ run.first[t] # i
        BY <1>1, <1>7, <2>3, <3>1, <3>3
      <4>2. Awaiting(t)
        BY <1>17, <2>3, <3>1, <4>1
      <4>3. Awaiting(u)
        BY <2>3, <4>1, <4>2 DEF Good, PlainInv, Inner, Batches
      <4>4. QED
        BY <1>17, <3>1, <3>3, <4>3
    <3>4. QED
      BY <3>2, <3>3
  <2>4. QED
    BY <1>5, <1>10, <1>11, <2>1, <2>2, <2>3 DEF Batches, q
<1>23. Released'
  <2> SUFFICES ASSUME NEW t \in Tensors, Brought(t), run.release[t] # None, run.first[t] \in prefetched'
               PROVE  Over(run.release[t])' \/ (Awaiting(t)' /\ WaitsFirst(t)')
    BY <1>11 DEF Released
  <2> DEFINE r == run.release[t]
  <2>1. Over(r)' <=> Over(r)
    BY <1>1 DEF Over, Done
  <2>2. Streamed(run, t)
    BY DEF Brought
  <2>3. SUFFICES ASSUME ~Over(r)
                 PROVE  /\ Awaiting(t)'
                        /\ \A k \in 1 .. Len(q) : q[k] = CopyFor(t) =>
                             \E l \in 1 .. k - 1 : q[l] = Wait(completion[r])
    BY <1>5, <1>10, <2>1 DEF WaitsFirst, q, Wait
  <2>4. CASE run.first[t] = i
    <3>1. t \in Fetched(i)
      BY <2>4 DEF FetchReady
    <3>2. completion[r] \in Releases(i) /\ r \in All
      BY <3>1 DEF Releases, FetchReady
    <3>3. Recorded(completion[r])
      <4>1. completion[r].position \in Nat /\ completion[r].stream \in Streams
        BY <3>2 DEF Good, TypeInv, EventsTyped, Events
      <4>2. retired[completion[r].stream] \in Nat
        BY <4>1 DEF Good, TypeInv, DeviceTyped
      <4>3. QED
        BY <2>3, <4>1, <4>2 DEF Recorded, Over, Done
    <3>4. PICK j \in 1 .. Len(W) : W[j] = Wait(completion[r])
      BY <1>1, <3>2, <3>3
    <3>5. q[Len(A) + j] = Wait(completion[r])
      BY <1>4, <3>4 DEF Consists
    <3>6. ASSUME NEW k \in 1 .. Len(q), q[k] = CopyFor(t)
          PROVE  \E l \in 1 .. k - 1 : q[l] = Wait(completion[r])
      <4>1. k > Len(A) + Len(W)
        BY <1>15, <2>2, <2>4, <3>6
      <4>2. Len(A) + j \in 1 .. k - 1
        BY <1>5, <4>1
      <4>3. QED
        BY <3>5, <4>2
    <3>7. QED
      BY <1>18, <3>1, <3>6
  <2>5. CASE run.first[t] # i
    <3>1. run.first[t] \in prefetched
      BY <1>1, <2>5
    <3>2. Awaiting(t) /\ WaitsFirst(t)
      BY <2>3, <3>1 DEF Good, PlainInv, Inner, Released, FetchReady
    <3>3. ASSUME NEW k \in 1 .. Len(q), q[k] = CopyFor(t)
          PROVE  \E l \in 1 .. k - 1 : q[l] = Wait(completion[r])
      <4>1. k \in 1 .. Len(A) /\ A[k] = CopyFor(t)
        BY <1>14, <2>2, <2>5, <3>3
      <4>2. PICK l \in 1 .. k - 1 : A[l] = Wait(completion[r])
        BY <1>5, <3>2, <4>1 DEF WaitsFirst, A
      <4>3. l \in 1 .. Len(A)
        BY <1>5, <4>1
      <4>4. QED
        BY <1>16, <4>2, <4>3
    <3>4. QED
      BY <1>17, <2>2, <2>5, <3>2, <3>3
  <2>6. QED
    BY <2>4, <2>5
<1>24. InMemory'
  <2>1. ASSUME NEW u \in Tensors PROVE memory'[run.place[u]] = memory[run.place[u]]
    <3>1. run.place[u] \in Places(run)
      BY DEF Places
    <3>2. run.place[u] # Pinned(b)
      BY <1>1, StagingApart DEF Good, b
    <3>3. QED
      BY <1>1, <3>1, <3>2
  <2>2. \A j \in All : Over(j)' <=> Over(j)
    BY <1>1 DEF Over, Done
  <2>3. ASSUME NEW u \in Tensors, Made(u)' PROVE Made(u)
    <3>1. ASSUME NEW j \in Writers(run, u), Launched(j)', Over(j)' PROVE Launched(j) /\ Over(j)
      BY <2>2, <3>1, PlainTyped DEF SameLaunches, Good
    <3>2. ASSUME Streamed(run, u), Brought(u), run.first[u] \in prefetched', ~Awaiting(u)'
          PROVE  run.first[u] \in prefetched /\ ~Awaiting(u)
      <4>1. run.first[u] # i
        BY <1>18, <3>2 DEF FetchReady
      <4>2. QED
        BY <1>1, <1>17, <3>2, <4>1
    <3>3. QED
      BY <1>10, <1>11, <2>3, <3>1, <3>2 DEF Made
  <2>4. QED
    BY <1>1, <2>1, <2>2, <2>3, MemoryKept DEF SameLaunches
<1>25. QED
  BY <1>9, <1>19, <1>20, <1>21, <1>22, <1>23, <1>24 DEF Inner

(* The copy stream drops its first entry: a wait for something that is     *)
(* over, or a copy that brings its constant.                               *)
Dropped(s) ==
  /\ 1 \in DOMAIN queue[s] /\ DOMAIN queue'[s] = 1 .. Len(queue'[s]) /\ Len(queue'[s]) \in Nat
  /\ Len(queue[s]) = Len(queue'[s]) + 1 /\ retired'[s] = retired[s] + 1
  /\ \A k \in DOMAIN queue'[s] :
       /\ k \in Nat \ {0} /\ k + 1 \in DOMAIN queue[s] /\ queue'[s][k] = queue[s][k + 1]
  /\ \A k \in DOMAIN queue[s] : k # 1 =>
       k \in Nat /\ k - 1 \in DOMAIN queue'[s] /\ queue'[s][k - 1] = queue[s][k]

LEMMA DroppedHead == ASSUME TypeInv, NEW s \in Streams, Advance(s) PROVE Dropped(s)
<1>1. /\ queue[s] \in Seq(Entries) /\ Len(queue[s]) \in Nat \ {0}
      /\ queue'[s] = Tail(queue[s]) /\ Len(queue'[s]) = Len(queue[s]) - 1
      /\ \A k \in 1 .. Len(queue'[s]) : k + 1 \in 1 .. Len(queue[s]) /\ queue'[s][k] = queue[s][k + 1]
      /\ retired'[s] = retired[s] + 1 /\ queue[s] # <<>>
  BY AdvanceEffect
<1>2. queue'[s] \in Seq(Entries)
  BY <1>1
<1>3. DOMAIN queue[s] = 1 .. Len(queue[s]) /\ DOMAIN queue'[s] = 1 .. Len(queue'[s])
  BY <1>1, <1>2
<1>4. Len(queue[s]) = Len(queue'[s]) + 1 /\ Len(queue'[s]) \in Nat /\ 1 \in DOMAIN queue[s]
  BY <1>1, <1>3
<1>5. ASSUME NEW k \in DOMAIN queue[s], k # 1
      PROVE  k \in Nat /\ k - 1 \in DOMAIN queue'[s] /\ queue'[s][k - 1] = queue[s][k]
  <2>1. k \in Nat /\ k - 1 \in 1 .. Len(queue'[s]) /\ (k - 1) + 1 = k
    BY <1>3, <1>4, <1>5
  <2>2. queue'[s][k - 1] = queue[s][(k - 1) + 1]
    BY <1>1, <2>1
  <2>3. QED
    BY <1>3, <2>1, <2>2
<1>6. \A k \in DOMAIN queue'[s] : k \in Nat \ {0}
  BY <1>3, <1>4
<1>7. QED
  BY <1>1, <1>3, <1>4, <1>5, <1>6 DEF Dropped

CopyPasses ==
  /\ memory' = memory /\ performed' = performed
  /\ \E j \in All : Launched(j) /\ Over(j) /\ queue[Copy][1] = Wait(completion[j])
CopyBrings(i, t) ==
  /\ CopyAt(1, i, t) /\ Streamed(run, t) /\ queue[Copy][1] = CopyFor(t) /\ InUse(run, t)
  /\ memory'[run.place[t]] = t /\ \A p \in Places(run) \ {run.place[t]} : memory'[p] = memory[p]
  /\ performed' = performed

LEMMA CopyEffect ==
  ASSUME Good, Advance(Copy)
  PROVE  CopyPasses \/ \E i \in prefetched, t \in Tensors : CopyBrings(i, t)
<1>1. Dropped(Copy) /\ queue[Copy] \in Seq(Entries) /\ queue[Copy] # <<>>
  BY DroppedHead, AdvanceEffect, StreamsTyped DEF Good
<1>2. 1 \in DOMAIN queue[Copy] /\ Head(queue[Copy]) = queue[Copy][1]
  BY <1>1 DEF Dropped
<1>3. CASE PassWait(Copy)
  <2>1. queue[Copy][1].kind = "wait" /\ Done(queue[Copy][1].event) /\ memory' = memory
        /\ performed' = performed
    BY <1>2, <1>3 DEF PassWait, Head_is
  <2>2. \A i, t : ~CopyAt(1, i, t)
    BY <2>1, KindsDiffer DEF CopyAt, CopyOf
  <2>3. ReleaseAt(1)
    BY <1>2, <2>2 DEF Good, PlainInv, Inner, CopyQueue
  <2>4. QED
    BY <2>1, <2>3, KindsDiffer DEF ReleaseAt, CopyPasses, Over
<1>4. CASE PerformWork(Copy)
  <2>1. Working(Copy)
    BY <1>4 DEF PerformWork, Working
  <2>2. PICK i \in prefetched, t \in Tensors : CopyAt(1, i, t)
    BY <2>1, WorkAtHead
  <2>3. queue[Copy][1] = CopyOf(i, t) /\ Streamed(run, t) /\ run.first[t] = i
    BY <2>2 DEF CopyAt, Brought
  <2>4. InUse(run, t) /\ run.root[t] = t
    BY <2>3, PlainSchedule DEF InUse, Good, StreamedByFirst
  <2> DEFINE work == Head(queue[Copy])
             written(p) == {w \in work.writes : w.at = p}
  <2>5. work.writes = {HoldsTensor(t)} /\ work.performs = {}
    BY <1>2, <2>3, KindsDiffer DEF CopyOf
  <2>6. performed' = performed
    BY <1>4, <2>5 DEF PerformWork
  <2>7. InPlace(work)
    BY <2>1, OperandsFollow, StreamsTyped DEF OperandsReady
  <2>8. memory' = [p \in DOMAIN memory |->
              IF written(p) = {} THEN memory[p]
              ELSE IF InPlace(work) THEN (CHOOSE w \in written(p) : TRUE).holds
              ELSE Garbage]
    BY <1>4 DEF PerformWork
  <2>9. DOMAIN memory = Places(run) /\ run.place[t] \in Places(run)
    BY DEF Good, TypeInv, DeviceTyped, Places
  <2>10. written(run.place[t]) = {HoldsTensor(t)} /\ \A p : p # run.place[t] => written(p) = {}
    BY <2>5, PlacesHeld
  <2> HIDE DEF work, written
  <2>11. (CHOOSE w \in written(run.place[t]) : TRUE) = HoldsTensor(t)
    BY <2>10
  <2>12. HoldsTensor(t).holds = t
    BY <2>4 DEF HoldsTensor
  <2>13. memory'[run.place[t]] = t
    BY <2>7, <2>8, <2>9, <2>10, <2>11, <2>12
  <2>14. \A p \in Places(run) \ {run.place[t]} : memory'[p] = memory[p]
    BY <2>8, <2>9, <2>10
  <2>15. CopyBrings(i, t)
    BY <2>2, <2>3, <2>4, <2>13, <2>14, <2>6 DEF CopyBrings, CopyFor
  <2>16. QED
    BY <2>15
<1>5. QED
  BY <1>3, <1>4 DEF Advance

LEMMA CopyStep == ASSUME Good, Advance(Copy) PROVE Inner'
<1>1. /\ UNCHANGED <<run, iteration, host, turn, target, prefetched, ready, copied, completion>>
      /\ queue'[Main] = queue[Main] /\ retired'[Main] = retired[Main]
  BY AdvanceEffect, StreamsTyped DEF Good, fetchVars
<1>2. Dropped(Copy)
  BY DroppedHead, StreamsTyped DEF Good
<1>3. CopyPasses \/ \E i \in prefetched, t \in Tensors : CopyBrings(i, t)
  BY CopyEffect
<1>4. host # "begin"
  BY <1>2, BusyHost, PlainTyped DEF Good, Dropped
<1>5. SameLaunches
  BY <1>1 DEF SameLaunches, Launched
<1>6. Completions' /\ MainQueue'
  BY <1>1, <1>5, MainKept
<1>7. /\ All' = All /\ \A j, t : CopyOf(j, t)' = CopyOf(j, t) /\ CopyFor(t)' = CopyFor(t)
      /\ \A t : /\ Streamed(run, t)' = Streamed(run, t) /\ Uploaded(run, t)' = Uploaded(run, t)
                /\ Writers(run, t)' = Writers(run, t) /\ Users(run, t)' = Users(run, t)
                /\ InUse(run, t)' = InUse(run, t) /\ Lasting(run, t)' = Lasting(run, t)
  BY <1>1, SameRun, SameSchedule
<1>8. \A t \in Tensors : Brought(t)' <=> Brought(t)
  BY <1>1, <1>7 DEF Brought
<1>9. retired[Copy] \in Nat /\ retired'[Copy] = retired[Copy] + 1 /\ retired'[Main] = retired[Main]
      /\ \A j \in All : /\ completion[j].position \in Nat /\ ready[j].position \in Nat
                        /\ completion[j].stream \in {Copy, Main} /\ j \in Nat
      /\ prefetched \subseteq All
  BY <1>1, <1>2, PlainTyped DEF Good, Dropped
<1>10. \A j \in prefetched : j \in All /\ j \in Int
  BY PlainTyped DEF Good
<1>11. \A j \in All : Over(j) => Over(j)'
  BY <1>1, <1>9, StreamsTyped DEF Over, Done
<1>12. \A j \in All : Launched(j) => (Over(j)' <=> Over(j))
  <2>1. \A j \in All : Launched(j) => completion[j].stream = Main
    BY DEF Good, PlainInv, Inner, Completions
  <2>2. QED
    BY <1>1, <1>9, <2>1 DEF Over, Done
<1>13. \A t \in Tensors : Awaiting(t)' => Awaiting(t)
  BY <1>2, <1>7 DEF Awaiting, Dropped
<1>14. \A t \in Tensors : Awaiting(t) /\ ~Awaiting(t)' => queue[Copy][1] = CopyFor(t)
  <2> SUFFICES ASSUME NEW t \in Tensors, NEW k \in DOMAIN queue[Copy], queue[Copy][k] = CopyFor(t),
                      ~Awaiting(t)'
               PROVE  queue[Copy][1] = CopyFor(t)
    BY DEF Awaiting
  <2>1. k # 1 => k - 1 \in DOMAIN queue'[Copy] /\ queue'[Copy][k - 1] = CopyFor(t)'
    BY <1>2, <1>7 DEF Dropped
  <2>2. k = 1
    BY <2>1 DEF Awaiting
  <2>3. QED
    BY <2>2
<1>15. Fetches'
  BY <1>1, <1>8 DEF Good, PlainInv, Inner, Fetches, Frontier
<1>16. Awaited'
  <2> SUFFICES ASSUME NEW j \in prefetched, Launched(j) PROVE AwaitedBy(j)'
    BY <1>1 DEF Awaited, Launched
  <2>1. AwaitedBy(j)
    BY <1>4 DEF Good, PlainInv, Inner, Awaited
  <2>2. j \in All
    BY <1>10
  <2>3. AwaitedBy(j) /\ j \in All /\ ready[j].stream = Copy
    BY <2>1, <2>2 DEF Good, PlainInv, Inner, Batches
  <2>4. Done(ready[j]) => Done(ready[j])'
    BY <1>1, <1>9, <2>3 DEF Done
  <2>5. QED
    BY <1>1, <2>3, <2>4 DEF AwaitedBy, Wait
<1>17. CopyQueue'
  <2> SUFFICES ASSUME NEW k \in DOMAIN queue'[Copy]
               PROVE  \E j \in prefetched : /\ retired'[Copy] + k <= ready[j].position
                                            /\ ReleaseAt(k)' \/ \E t \in Tensors : CopyAt(k, j, t)'
    BY <1>1 DEF CopyQueue
  <2>1. k \in Nat /\ k + 1 \in DOMAIN queue[Copy] /\ queue'[Copy][k] = queue[Copy][k + 1]
    BY <1>2 DEF Dropped
  <2>2. PICK j \in prefetched : /\ retired[Copy] + (k + 1) <= ready[j].position
                                /\ ReleaseAt(k + 1) \/ \E t \in Tensors : CopyAt(k + 1, j, t)
    BY <2>1 DEF Good, PlainInv, Inner, CopyQueue
  <2>3. ASSUME ReleaseAt(k + 1) PROVE ReleaseAt(k)'
    BY <1>1, <1>5, <1>7, <2>1, <2>3 DEF ReleaseAt, SameLaunches, Wait
  <2>4. ASSUME NEW t \in Tensors, CopyAt(k + 1, j, t) PROVE CopyAt(k, j, t)'
    <3> DEFINE b == j % run.staging
    <3>1. j \in Int
      BY <1>10
    <3>2. b \in Buffers /\ Pinned(b) \in Places(run)
      BY <3>1, PlacesTyped DEF Good, TypeInv
    <3>3. \A u \in Tensors : run.place[u] # Pinned(b)
      BY <3>1, StagingApart DEF Good
    <3>4. memory'[Pinned(b)] = memory[Pinned(b)]
      BY <1>3, <3>2, <3>3 DEF CopyPasses, CopyBrings
    <3>5. copied[b].stream = Copy /\ retired[Copy] + (k + 1) <= copied[b].position
      BY <2>4 DEF CopyAt
    <3>6. copied[b].position \in Nat
      BY <3>2 DEF Good, TypeInv, EventsTyped, Events
    <3>7. retired'[Copy] + k <= copied[b].position
      BY <1>9, <2>1, <3>5, <3>6
    <3>8. Brought(t)' /\ queue'[Copy][k] = CopyOf(j, t)
      BY <1>8, <2>1, <2>4 DEF CopyAt
    <3>9. memory'[Pinned(b)] = j
      BY <2>4, <3>4 DEF CopyAt
    <3> HIDE DEF b
    <3>10. (j % run.staging)' = b /\ Pinned(b)' = Pinned(b)
      BY <1>1 DEF b, Pinned
    <3>11. QED
      BY <1>1, <1>7, <2>4, <3>5, <3>7, <3>8, <3>9, <3>10 DEF CopyAt, Pinned, b
  <2>5. retired'[Copy] + k <= ready[j].position
    BY <1>9, <2>1, <2>2
  <2>6. QED
    BY <2>2, <2>3, <2>4, <2>5
<1>18. Batches'
  <2>1. ASSUME NEW t \in Tensors, NEW u \in Tensors, NEW k \in DOMAIN queue'[Copy],
               NEW l \in DOMAIN queue'[Copy], Streamed(run, t), Streamed(run, u),
               run.first[t] < run.first[u], queue'[Copy][k] = CopyFor(t), queue'[Copy][l] = CopyFor(u)
        PROVE  k < l
    <3>1. k + 1 \in DOMAIN queue[Copy] /\ l + 1 \in DOMAIN queue[Copy] /\ k \in Nat /\ l \in Nat
          /\ queue[Copy][k + 1] = CopyFor(t) /\ queue[Copy][l + 1] = CopyFor(u)
      BY <1>2, <2>1 DEF Dropped
    <3>2. k + 1 < l + 1
      BY <2>1, <3>1 DEF Good, PlainInv, Inner, Batches
    <3>3. QED
      BY <3>1, <3>2
  <2>2. ASSUME NEW t \in Tensors, NEW u \in Tensors, Brought(t), Brought(u),
               run.first[t] < run.first[u], run.first[u] \in prefetched, Awaiting(t)'
        PROVE  Awaiting(u)'
    <3>1. Awaiting(t) /\ Awaiting(u)
      BY <1>13, <2>2 DEF Good, PlainInv, Inner, Batches
    <3>2. PICK k \in DOMAIN queue[Copy] : queue[Copy][k] = CopyFor(t)
      BY <3>1 DEF Awaiting
    <3>3. k \in Nat \ {0}
      BY <3>2, PlainTyped DEF Good
    <3>4. ASSUME queue[Copy][1] = CopyFor(u) PROVE FALSE
      <4>1. k < 1
        BY <1>2, <2>2, <3>2, <3>4 DEF Good, PlainInv, Inner, Batches, Dropped, Brought
      <4>2. QED
        BY <3>3, <4>1
    <3>5. QED
      BY <1>14, <3>1, <3>4
  <2>3. QED
    BY <1>1, <1>7, <1>8, <2>1, <2>2 DEF Good, PlainInv, Inner, Batches
<1>19. Released'
  <2> SUFFICES ASSUME NEW t \in Tensors, Brought(t), run.release[t] # None, run.first[t] \in prefetched
               PROVE  Over(run.release[t])' \/ (Awaiting(t)' /\ WaitsFirst(t)')
    BY <1>1, <1>8 DEF Released
  <2>1. PICK r \in All : r = run.release[t]
    BY PlainTyped DEF Good
  <2>2. CASE Over(r)
    <3>1. Over(r)'
      BY <1>11, <2>2
    <3>2. Over(run.release[t])' <=> Over(r)'
      BY <1>1, <2>1 DEF Over, Done
    <3>3. QED
      BY <3>1, <3>2
  <2>3. CASE ~Over(r)
    <3>1. Awaiting(t) /\ WaitsFirst(t)
      BY <1>4, <2>1, <2>3 DEF Good, PlainInv, Inner, Released
    <3>2. ASSUME NEW k \in DOMAIN queue[Copy], queue[Copy][k] = CopyFor(t)
          PROVE  k # 1 /\ \E l \in 1 .. k - 1 : l # 1 /\ queue[Copy][l] = Wait(completion[r])
      <4>1. PICK l \in 1 .. k - 1 : queue[Copy][l] = Wait(completion[r])
        BY <2>1, <3>1, <3>2 DEF WaitsFirst
      <4>2. ASSUME queue[Copy][1] = Wait(completion[r]) PROVE FALSE
        <5>1. CopyPasses
          BY <1>3, <4>2, EntriesDiffer DEF CopyBrings, Good
        <5>2. PICK j \in All : Over(j) /\ Wait(completion[j]) = Wait(completion[r])
          BY <4>2, <5>1 DEF CopyPasses
        <5>3. completion[j] = completion[r]
          BY <5>2 DEF Wait
        <5>4. QED
          BY <2>3, <5>2, <5>3 DEF Over
      <4>3. k # 1
        BY <4>1
      <4>4. QED
        BY <4>1, <4>2, <4>3
    <3>3. Awaiting(t)'
      BY <1>2, <1>14, <3>1, <3>2 DEF Dropped
    <3>4. ASSUME NEW k \in DOMAIN queue'[Copy], queue'[Copy][k] = CopyFor(t)
          PROVE  \E l \in 1 .. k - 1 : queue'[Copy][l] = Wait(completion[r])
      <4>1. k \in Nat /\ k + 1 \in DOMAIN queue[Copy] /\ queue[Copy][k + 1] = CopyFor(t)
        BY <1>2, <3>4 DEF Dropped
      <4>2. PICK l \in 1 .. (k + 1) - 1 : l # 1 /\ queue[Copy][l] = Wait(completion[r])
        BY <3>2, <4>1
      <4>3. l \in DOMAIN queue[Copy] /\ l - 1 \in 1 .. k - 1
        BY <4>1, <4>2, PlainTyped DEF Good
      <4>4. queue'[Copy][l - 1] = queue[Copy][l]
        BY <1>2, <4>2, <4>3 DEF Dropped
      <4>5. QED
        BY <4>2, <4>3, <4>4
    <3>5. WaitsFirst(t)'
      BY <1>1, <1>7, <2>1, <3>4 DEF WaitsFirst, Wait
    <3>6. QED
      BY <3>3, <3>5
  <2>4. QED
    BY <2>2, <2>3
<1>20. ASSUME NEW u \in Tensors, Made(u)', Awaiting(u) => Awaiting(u)' PROVE Made(u)
  <2>1. \A j \in Writers(run, u) : (Launched(j) /\ Over(j))' => Launched(j) /\ Over(j)
    BY <1>5, <1>12, PlainTyped DEF SameLaunches, Good
  <2>2. QED
    BY <1>1, <1>7, <1>8, <1>20, <2>1 DEF Made
<1>21. InMemory'
  <2>1. CASE CopyPasses
    <3>1. \A u \in Tensors : Awaiting(u) => Awaiting(u)'
      BY <1>14, <2>1, EntriesDiffer DEF CopyPasses, Good
    <3>2. QED
      BY <1>1, <1>5, <1>11, <1>20, <2>1, <3>1, MemoryKept DEF CopyPasses, SameLaunches
  <2>2. ASSUME NEW i \in prefetched, NEW t \in Tensors, CopyBrings(i, t) PROVE InMemory'
    <3> SUFFICES ASSUME NEW u \in Tensors, InUse(run, u), Made(u)', Needed(u)'
                 PROVE  memory'[run.place[u]] = u
      BY <1>1, <1>7 DEF InMemory
    <3>1. CASE u = t
      BY <2>2, <3>1 DEF CopyBrings
    <3>2. CASE u # t
      <4>1. Awaiting(u) => Awaiting(u)'
        <5>1. ASSUME Awaiting(u), ~Awaiting(u)' PROVE FALSE
          <6>1. CopyFor(u) = CopyFor(t)
            BY <1>14, <2>2, <5>1 DEF CopyBrings
          <6>2. HoldsTensor(u) = HoldsTensor(t)
            BY <6>1, KindsDiffer DEF CopyFor, CopyOf
          <6>3. run.root[u] = u /\ run.root[t] = t
            BY <2>2 DEF CopyBrings, InUse
          <6>4. QED
            BY <3>2, <6>2, <6>3 DEF HoldsTensor
        <5>2. QED
          BY <5>1
      <4>2. Made(u)
        BY <1>20, <4>1
      <4>3. Needed(u)
        BY <1>1, <1>5, <1>7, <1>11, PlainTyped DEF Needed, SameLaunches, Good
      <4>4. memory[run.place[u]] = u
        BY <4>2, <4>3 DEF Good, PlainInv, Inner, InMemory
      <4>5. CASE run.place[u] # run.place[t]
        BY <2>2, <4>4, <4>5 DEF CopyBrings, Places
      <4>6. CASE run.place[u] = run.place[t]
        <5>1. CopyAt(1, i, t) /\ 1 \in DOMAIN queue[Copy] /\ Streamed(run, t) /\ Awaiting(t) /\ Brought(t)
          BY <1>2, <2>2 DEF CopyBrings, Dropped, Awaiting, CopyAt
        <5>2. CASE Precedes(run, u, t)
          <6>1. ~Lasting(run, u) /\ \A j \in Users(run, u) : Launched(j) /\ Over(j)
            BY <3>2, <4>6, <5>1, <5>2, SlotFree DEF Precedes
          <6>2. QED
            BY <4>3, <6>1 DEF Needed
        <5>3. CASE Precedes(run, t, u)
          <6>1. \A j \in Users(run, u) : ~(Launched(j) /\ Over(j))
            BY <3>2, <4>6, <5>1, <5>3, SlotFree
          <6>2. \A j \in Writers(run, u) : ~(Launched(j) /\ Over(j))
            BY <6>1, PlainTyped DEF Good
          <6>3. ~Uploaded(run, u) /\ u \notin run.resident
                /\ (Streamed(run, u) => run.first[t] < run.first[u])
            BY <5>1, <5>3 DEF Precedes
          <6>4. Brought(u) /\ run.first[u] \in prefetched /\ ~Awaiting(u)
            BY <4>2, <6>2, <6>3 DEF Made, Brought
          <6>5. run.first[t] < run.first[u]
            BY <6>3, <6>4 DEF Brought
          <6>6. QED
            BY <5>1, <6>4, <6>5 DEF Good, PlainInv, Inner, Batches
        <5>4. QED
          BY <3>2, <4>6, <5>1, <5>2, <5>3, SlotFree
      <4>7. QED
        BY <4>5, <4>6
    <3>3. QED
      BY <3>1, <3>2
  <2>3. QED
    BY <1>3, <2>1, <2>2
<1>22. QED
  BY <1>6, <1>15, <1>16, <1>17, <1>18, <1>19, <1>21 DEF Inner

(* The main stream drops its first entry: a wait for constants that are    *)
(* ready, or a kernel, which leaves its results in their places.           *)
MainPasses ==
  /\ memory' = memory /\ performed' = performed
  /\ \E i \in All : AwaitAt(1, i) /\ Done(ready[i])
MainRuns(i) ==
  /\ KernelAt(1, i) /\ performed' = performed \cup run.launch[i].performs
  /\ \A u \in Writes(run, i) : memory'[run.place[u]] = u
  /\ \A p \in Places(run) : (\A u \in Writes(run, i) : run.place[u] # p) => memory'[p] = memory[p]

LEMMA MainEffect ==
  ASSUME Good, Advance(Main)
  PROVE  MainPasses \/ \E i \in Kerneled : MainRuns(i)
<1>1. Dropped(Main) /\ queue[Main] \in Seq(Entries) /\ queue[Main] # <<>>
  BY DroppedHead, AdvanceEffect, StreamsTyped DEF Good
<1>2. 1 \in DOMAIN queue[Main] /\ Head(queue[Main]) = queue[Main][1]
  BY <1>1 DEF Dropped
<1>3. CASE PassWait(Main)
  <2>1. queue[Main][1].kind = "wait" /\ Done(queue[Main][1].event) /\ memory' = memory
        /\ performed' = performed
    BY <1>2, <1>3 DEF PassWait, Head_is
  <2>2. \A i : ~KernelAt(1, i)
    BY <2>1, KindsDiffer DEF KernelAt, KernelOf
  <2>3. PICK i \in All : AwaitAt(1, i)
    BY <1>2, <2>2 DEF Good, PlainInv, Inner, MainQueue
  <2>4. queue[Main][1].event = ready[i]
    BY <2>3, KindsDiffer DEF AwaitAt
  <2>5. QED
    BY <2>1, <2>3, <2>4 DEF MainPasses
<1>4. CASE PerformWork(Main)
  <2>1. Working(Main)
    BY <1>4 DEF PerformWork, Working
  <2>2. PICK i \in Kerneled : KernelAt(1, i)
    BY <2>1, WorkAtHead
  <2> DEFINE work == Head(queue[Main])
             written(p) == {w \in work.writes : w.at = p}
             T == run.launch[i].writes
  <2>3. work.writes = {HoldsTensor(t) : t \in T}
    BY <1>2, <2>2, KernelParts DEF KernelAt
  <2>4. performed' = performed \cup run.launch[i].performs
    <3>1. work = KernelOf(i)
      BY <1>2, <2>2 DEF KernelAt
    <3>2. work.performs = run.launch[i].performs
      BY <3>1, KindsDiffer DEF KernelOf
    <3>3. QED
      BY <1>4, <3>2 DEF PerformWork
  <2>5. InPlace(work)
    BY <2>1, OperandsFollow, StreamsTyped DEF OperandsReady
  <2>6. memory' = [p \in DOMAIN memory |->
              IF written(p) = {} THEN memory[p]
              ELSE IF InPlace(work) THEN (CHOOSE w \in written(p) : TRUE).holds
              ELSE Garbage]
    BY <1>4 DEF PerformWork
  <2>7. DOMAIN memory = Places(run)
    BY DEF Good, TypeInv, DeviceTyped
  <2>8. \A t \in T : /\ t \in Tensors /\ run.root[t] \in Tensors /\ run.place[run.root[t]] = run.place[t]
                     /\ InUse(run, run.root[t]) /\ i \in Users(run, run.root[t])
                     /\ run.root[t] \in Writes(run, i)
    BY KernelParts
  <2>9. Writes(run, i) = {run.root[t] : t \in T}
    BY DEF Writes, Roots
  <2>10. \A p : written(p) = {HoldsTensor(t) : t \in {v \in T : run.place[v] = p}}
    BY <2>3, PlacesHeld
  <2> HIDE DEF work, written, T
  <2>11. ASSUME NEW u \in Writes(run, i) PROVE memory'[run.place[u]] = u
    <3>1. PICK t \in T : u = run.root[t]
      BY <2>9
    <3>2. HoldsTensor(t) \in written(run.place[t]) /\ run.place[t] \in Places(run)
      BY <2>8, <2>10 DEF Places
    <3>3. PICK w \in written(run.place[t]) : w = CHOOSE x \in written(run.place[t]) : TRUE
      BY <3>2
    <3>4. PICK v \in T : run.place[v] = run.place[t] /\ w = HoldsTensor(v)
      BY <2>10, <3>3
    <3>5. run.root[v] = run.root[t]
      BY <2>8, <3>4, UsedApart
    <3>6. memory'[run.place[t]] = w.holds
      BY <2>5, <2>6, <2>7, <3>2, <3>3
    <3>7. w.holds = u
      BY <3>1, <3>4, <3>5 DEF HoldsTensor
    <3>8. QED
      BY <2>8, <3>1, <3>6, <3>7
  <2>12. ASSUME NEW p \in Places(run), \A u \in Writes(run, i) : run.place[u] # p
         PROVE  memory'[p] = memory[p]
    <3>1. written(p) = {}
      BY <2>8, <2>10, <2>12
    <3>2. QED
      BY <2>6, <2>7, <3>1
  <2>13. MainRuns(i)
    BY <2>2, <2>11, <2>12, <2>4 DEF MainRuns
  <2>14. QED
    BY <2>13
<1>5. QED
  BY <1>3, <1>4 DEF Advance

(* Kernels over after the step: those before, and the one that ran.        *)
LEMMA NewlyOver ==
  ASSUME Good, Advance(Main), NEW j \in Kerneled, Launched(j), Over(j)', ~Over(j)
  PROVE  /\ \A i \in Kerneled : MainRuns(i) => i = j
         /\ ~MainPasses
<1>1. /\ completion' = completion /\ retired'[Main] = retired[Main] + 1
      /\ retired[Main] \in Nat /\ j \in All /\ Kerneled \subseteq All
      /\ \A i \in All : completion[i].position \in Nat /\ i \in Nat
  BY AdvanceEffect, PlainTyped, StreamsTyped DEF Good
<1>2. completion[j].stream = Main
  BY <1>1 DEF Good, PlainInv, Inner, Completions
<1>3. completion[j].position = retired[Main] + 1
  BY <1>1, <1>2 DEF Over, Done
<1>4. ASSUME NEW i \in All, Launched(i), i < j PROVE completion[i].position < completion[j].position
  BY <1>1, <1>4 DEF Good, PlainInv, Inner, Completions
<1>5. ASSUME NEW i \in Kerneled, Launched(i), j < i PROVE completion[j].position < completion[i].position
  BY <1>1, <1>5 DEF Good, PlainInv, Inner, Completions
<1>6. ASSUME NEW i \in Kerneled, MainRuns(i) PROVE i = j
  <2>1. Launched(i) /\ completion[i].position = retired[Main] + 1 /\ i \in All
    BY <1>1, <1>6 DEF MainRuns, KernelAt
  <2>2. ~(i < j) /\ ~(j < i)
    BY <1>1, <1>3, <1>4, <1>5, <2>1
  <2>3. QED
    BY <1>1, <2>1, <2>2
<1>7. ASSUME NEW i \in All, AwaitAt(1, i) PROVE FALSE
  <2>1. /\ Launched(i) /\ retired[Main] + 1 <= completion[i].position
        /\ i \in Kerneled => retired[Main] + 1 < completion[i].position
        /\ j < i => completion[j].position < retired[Main] + 1
    BY <1>1, <1>7 DEF AwaitAt
  <2>2. ~(j < i)
    BY <1>1, <1>3, <2>1
  <2>3. i # j
    BY <1>1, <1>3, <2>1
  <2>4. ~(i < j)
    BY <1>1, <1>3, <1>4, <2>1
  <2>5. QED
    BY <1>1, <2>2, <2>3, <2>4
<1>8. QED
  BY <1>6, <1>7 DEF MainPasses

LEMMA MainStep == ASSUME Good, Advance(Main) PROVE Inner'
<1>1. /\ UNCHANGED <<run, iteration, host, turn, target, prefetched, ready, copied, completion>>
      /\ queue'[Copy] = queue[Copy] /\ retired'[Copy] = retired[Copy]
  BY AdvanceEffect, StreamsTyped DEF Good, fetchVars
<1>2. Dropped(Main)
  BY DroppedHead, StreamsTyped DEF Good
<1>3. MainPasses \/ \E i \in Kerneled : MainRuns(i)
  BY MainEffect
<1>4. host # "begin"
  BY <1>2, BusyHost, PlainTyped DEF Good, Dropped
<1>5. SameLaunches /\ LaunchesStay /\ \A i \in All : Launched(i)' <=> Launched(i)
  BY <1>1 DEF SameLaunches, LaunchesStay, Launched
<1>6. CopyQueue' /\ Batches' /\ \A t \in Tensors : Awaiting(t)' <=> Awaiting(t)
  <2>1. ASSUME NEW b \in Buffers PROVE memory'[Pinned(b)] = memory[Pinned(b)]
    <3>1. Pinned(b) \in Places(run) \ Device
      BY PlacesTyped DEF Good, TypeInv
    <3>2. \A u \in Tensors : run.place[u] # Pinned(b)
      BY <3>1 DEF Device
    <3>3. \A i \in Kerneled : \A u \in Writes(run, i) : u \in Tensors
      BY KernelParts DEF Writes, Roots
    <3>4. QED
      BY <1>3, <3>1, <3>2, <3>3 DEF MainPasses, MainRuns
  <2>2. QED
    BY <1>1, <1>5, <2>1, CopiesKept
<1>7. /\ All' = All /\ Kerneled' = Kerneled /\ \A i : KernelOf(i)' = KernelOf(i)
      /\ \A t : /\ Streamed(run, t)' = Streamed(run, t) /\ Uploaded(run, t)' = Uploaded(run, t)
                /\ Writers(run, t)' = Writers(run, t) /\ Users(run, t)' = Users(run, t)
                /\ InUse(run, t)' = InUse(run, t) /\ Lasting(run, t)' = Lasting(run, t)
                /\ CopyFor(t)' = CopyFor(t)
  BY <1>1, SameRun, SameSchedule
<1>8. \A t \in Tensors : Brought(t)' <=> Brought(t)
  BY <1>1, <1>7 DEF Brought
<1>9. /\ retired[Main] \in Nat /\ retired'[Main] = retired[Main] + 1 /\ retired'[Copy] = retired[Copy]
      /\ Len(queue'[Main]) \in Nat /\ Len(queue[Main]) = Len(queue'[Main]) + 1
      /\ \A j \in All : /\ completion[j].position \in Nat /\ ready[j].position \in Nat
                        /\ completion[j].stream \in {Copy, Main} /\ j \in Nat
  BY <1>1, <1>2, PlainTyped DEF Good, Dropped
<1>10. \A j \in prefetched : j \in All /\ ready[j].stream = Copy
  BY PlainTyped DEF Good, PlainInv, Inner, Batches
<1>11. \A j \in All : Over(j) => Over(j)'
  BY <1>1, <1>9, StreamsTyped DEF Over, Done
<1>12. Completions'
  <2>1. retired'[Main] + Len(queue'[Main]) = retired[Main] + Len(queue[Main])
    BY <1>9
  <2>2. QED
    BY <1>1, <1>5, <1>7, <2>1 DEF Good, PlainInv, Inner, Completions
<1>13. MainQueue'
  <2> SUFFICES ASSUME NEW k \in DOMAIN queue'[Main]
               PROVE  (\E i \in All : AwaitAt(k, i)') \/ (\E i \in Kerneled : KernelAt(k, i)')
    BY <1>7 DEF MainQueue
  <2>1. k \in Nat /\ k + 1 \in DOMAIN queue[Main] /\ queue'[Main][k] = queue[Main][k + 1]
    BY <1>2 DEF Dropped
  <2>2. /\ k \in Nat /\ k + 1 \in DOMAIN queue[Main] /\ queue'[Main][k] = queue[Main][k + 1]
        /\ retired'[Main] + k = retired[Main] + (k + 1)
    BY <1>9, <2>1
  <2>3. (\E i \in All : AwaitAt(k + 1, i)) \/ (\E i \in Kerneled : KernelAt(k + 1, i))
    BY <2>2 DEF Good, PlainInv, Inner, MainQueue
  <2>4. ASSUME NEW i \in All, AwaitAt(k + 1, i) PROVE AwaitAt(k, i)'
    BY <1>1, <1>5, <1>7, <2>2, <2>4 DEF AwaitAt, Wait
  <2>5. ASSUME NEW i \in Kerneled, KernelAt(k + 1, i) PROVE KernelAt(k, i)'
    BY <1>1, <1>5, <1>7, <2>2, <2>5, PlainTyped DEF KernelAt, Good
  <2>6. QED
    BY <2>3, <2>4, <2>5
<1>14. Fetches'
  BY <1>1, <1>8 DEF Good, PlainInv, Inner, Fetches, Frontier
<1>15. Awaited'
  <2> SUFFICES ASSUME NEW j \in prefetched, Launched(j) PROVE AwaitedBy(j)'
    BY <1>1 DEF Awaited, Launched
  <2>1. AwaitedBy(j)
    BY <1>4 DEF Good, PlainInv, Inner, Awaited
  <2>2. Done(ready[j]) => AwaitedBy(j)'
    BY <1>1, <1>9, <1>10 DEF AwaitedBy, Done
  <2>3. ASSUME NEW k \in DOMAIN queue[Main], queue[Main][k] = Wait(ready[j]),
               retired[Main] + k <= completion[j].position
        PROVE  AwaitedBy(j)'
    <3>1. CASE k = 1
      <4>1. MainPasses
        BY <1>3, <2>3, <3>1, EntriesDiffer DEF MainRuns, KernelAt, Good
      <4>2. PICK i \in All : Wait(ready[i]) = Wait(ready[j]) /\ Done(ready[i])
        BY <2>3, <3>1, <4>1 DEF MainPasses, AwaitAt
      <4>3. ready[i] = ready[j]
        BY <4>2 DEF Wait
      <4>4. QED
        BY <2>2, <4>2, <4>3
    <3>2. CASE k # 1
      <4>1. k \in Nat /\ k - 1 \in DOMAIN queue'[Main] /\ queue'[Main][k - 1] = Wait(ready[j])
        BY <1>2, <2>3, <3>2 DEF Dropped
      <4>2. retired'[Main] + (k - 1) <= completion[j].position
        BY <1>9, <2>3, <4>1
      <4>3. QED
        BY <1>1, <4>1, <4>2 DEF AwaitedBy, Wait
    <3>3. QED
      BY <3>1, <3>2
  <2>4. QED
    BY <2>1, <2>2, <2>3 DEF AwaitedBy
<1>16. Released'
  <2> SUFFICES ASSUME NEW t \in Tensors, Brought(t), run.release[t] # None, run.first[t] \in prefetched
               PROVE  Over(run.release[t])' \/ (Awaiting(t)' /\ WaitsFirst(t)')
    BY <1>1, <1>8 DEF Released
  <2>1. PICK r \in All : r = run.release[t]
    BY PlainTyped DEF Good
  <2>2. Over(run.release[t])' <=> Over(r)'
    BY <1>1, <2>1 DEF Over, Done
  <2>3. WaitsFirst(t)' <=> WaitsFirst(t)
    BY <1>1, <1>7 DEF WaitsFirst, Wait
  <2>4. Over(r) \/ (Awaiting(t) /\ WaitsFirst(t))
    BY <1>4, <2>1 DEF Good, PlainInv, Inner, Released
  <2>5. QED
    BY <1>6, <1>11, <2>2, <2>3, <2>4
<1>17. InMemory'
  <2>1. CASE MainPasses
    <3>1. ASSUME NEW u \in Tensors, Made(u)' PROVE Made(u)
      <4>1. ASSUME NEW j \in Writers(run, u), (Launched(j) /\ Over(j))' PROVE Launched(j) /\ Over(j)
        <5>1. j \in Kerneled /\ j \in All
          BY PlainTyped DEF Good
        <5>2. Launched(j)
          BY <1>5, <4>1, <5>1
        <5>3. QED
          BY <2>1, <4>1, <5>1, <5>2, NewlyOver
      <4>2. QED
        BY <1>1, <1>6, <1>7, <1>8, <3>1, <4>1 DEF Made
    <3>2. QED
      BY <1>1, <1>5, <1>11, <2>1, <3>1, MemoryKept DEF MainPasses
  <2>2. ASSUME NEW i \in Kerneled, MainRuns(i) PROVE InMemory'
    <3> SUFFICES ASSUME NEW u \in Tensors, InUse(run, u), Made(u)', Needed(u)'
                 PROVE  memory'[run.place[u]] = u
      BY <1>1, <1>7 DEF InMemory
    <3>1. CASE u \in Writes(run, i)
      BY <2>2, <3>1 DEF MainRuns
    <3>2. CASE u \notin Writes(run, i)
      <4>1. Made(u)
        <5>1. ASSUME NEW j \in Writers(run, u), (Launched(j) /\ Over(j))' PROVE Launched(j) /\ Over(j)
          <6>1. j \in Kerneled /\ j \in All /\ j # i
            BY <3>2, PlainTyped DEF Good, Writers
          <6>2. Launched(j)
            BY <1>5, <5>1, <6>1
          <6>3. QED
            BY <2>2, <5>1, <6>1, <6>2, NewlyOver
        <5>2. QED
          BY <1>1, <1>6, <1>7, <1>8, <5>1 DEF Made
      <4>2. PICK n : n = u /\ Needed(n)
        BY <1>5, <1>7, <1>11, PlainTyped DEF Needed, Good
      <4>3. memory[run.place[u]] = u
        BY <4>1, <4>2 DEF Good, PlainInv, Inner, InMemory
      <4>4. CASE \A w \in Writes(run, i) : run.place[w] # run.place[u]
        BY <2>2, <4>3, <4>4 DEF MainRuns, Places
      <4>5. ASSUME NEW w \in Writes(run, i), run.place[w] = run.place[u] PROVE FALSE
        <5>1. w \in Tensors /\ InUse(run, w) /\ i \in Users(run, w) /\ w # u
          BY <3>2, KernelParts DEF Writes, Roots
        <5>2. Precedes(run, w, u) \/ Precedes(run, u, w)
          BY <4>5, <5>1, PlainSchedule DEF Good, SlotsShared
        <5>3. /\ Launched(i) /\ ~Over(i) /\ i \in All
              /\ \A j \in All : j < i => Launched(j) /\ Over(j)
              /\ \A j \in Kerneled : Launched(j) /\ Over(j) => j < i
          BY <2>2, KernelHead DEF MainRuns
        <5>4. CASE Precedes(run, u, w)
          <6>1. ~Lasting(run, u) /\ \A j \in Users(run, u) : j < i
            BY <5>1, <5>4 DEF Precedes
          <6>2. \A j \in Users(run, u) : j \in All /\ (Launched(j) /\ Over(j))'
            BY <1>5, <1>11, <5>3, <6>1, PlainTyped DEF Good
          <6>3. QED
            BY <1>7, <6>1, <6>2 DEF Needed
        <5>5. CASE Precedes(run, w, u)
          <6>1. /\ ~Uploaded(run, u) /\ u \notin run.resident /\ \A j \in Users(run, u) : i < j
                /\ Streamed(run, u) => i <= run.release[u]
            BY <5>1, <5>5 DEF Precedes
          <6>2. \A j \in Writers(run, u) : ~(Launched(j) /\ Over(j))
            <7>1. ASSUME NEW j \in Writers(run, u), Launched(j), Over(j) PROVE FALSE
              <8>1. j \in Kerneled /\ j \in All /\ i < j
                BY <6>1, PlainTyped DEF Good
              <8>2. j < i
                BY <5>3, <7>1, <8>1
              <8>3. QED
                BY <1>9, <5>3, <8>1, <8>2
            <7>2. QED
              BY <7>1
          <6>3. Streamed(run, u) /\ Brought(u) /\ run.first[u] \in prefetched /\ ~Awaiting(u)
            BY <4>1, <6>1, <6>2 DEF Made, Brought
          <6>4. run.release[u] # None
            BY <1>9, <5>3, <6>1, <6>3 DEF None
          <6>5. Over(run.release[u])
            BY <1>4, <6>3, <6>4 DEF Good, PlainInv, Inner, Released
          <6>6. run.first[u] < Frontier
            BY <1>4, <6>3 DEF Good, PlainInv, Inner, Fetches
          <6>7. PICK r \in All : r = run.release[u] /\ Launched(r) /\ Over(r) /\ i <= r
            BY <6>1, <6>3, <6>4, <6>5, <6>6, FreedBefore DEF Good, PlainInv
          <6>8. i = r \/ i < r
            BY <1>9, <5>3, <6>7
          <6>9. completion[r].stream = Main /\ completion[i].stream = Main
                /\ completion[i].position <= completion[r].position
            BY <1>9, <5>3, <6>7, <6>8 DEF Good, PlainInv, Inner, Completions
          <6>10. QED
            BY <1>9, <5>3, <6>7, <6>9 DEF Over, Done
        <5>6. QED
          BY <5>2, <5>4, <5>5
      <4>6. QED
        BY <4>4, <4>5
    <3>3. QED
      BY <3>1, <3>2
  <2>3. QED
    BY <1>3, <2>1, <2>2
<1>18. QED
  BY <1>6, <1>12, <1>13, <1>14, <1>15, <1>16, <1>17 DEF Inner

(* When the host has gone through all operations and the main stream is    *)
(* done with them, the copy stream has nothing left either.                *)
LEMMA CopyEmpty ==
  ASSUME Good, host # "begin", turn = Count, queue[Main] = <<>>
  PROVE  queue[Copy] = <<>>
<1> SUFFICES ASSUME queue[Copy] # <<>> PROVE FALSE
  OBVIOUS
<1>1. 1 \in DOMAIN queue[Copy]
  BY PlainTyped DEF Good
<1>2. PICK i \in prefetched : retired[Copy] + 1 <= ready[i].position
  BY <1>1 DEF Good, PlainInv, Inner, CopyQueue
<1>3. i \in All /\ Launched(i)
  BY OverWhenEmpty, PlainTyped DEF Good
<1>4. AwaitedBy(i)
  BY <1>3 DEF Good, PlainInv, Inner, Awaited
<1>5. DOMAIN queue[Main] = {}
  BY PlainTyped DEF Good
<1>6. Done(ready[i]) /\ ready[i].stream = Copy
  BY <1>4, <1>5 DEF AwaitedBy, Good, PlainInv, Inner, Batches
<1>7. QED
  BY <1>2, <1>3, <1>6, PlainTyped DEF Done, Good

(* Where the host prefetches, it does for the operation at the front.      *)
LEMMA AtFront ==
  ASSUME Good, NEW i \in All, i = Frontier,
         \/ host = "ahead"
         \/ host = "turn" /\ ~run.overlap
         \/ host = "prime" /\ target < run.depth
  PROVE  FetchReady(i)
<1>1. host \notin {"begin", "drain", "done"} /\ i # None /\ i \in Nat
  BY PlainTyped DEF None, Good
<1>2. ~Launched(i)
  <2>1. Launched(i) => i < Frontier
    BY LaunchedBehind DEF Good, PlainInv
  <2>2. QED
    BY <1>1, <2>1
<1>3. Fetched(i) = {t \in Tensors : Brought(t) /\ run.first[t] = i}
  <2>1. loaded <=> iteration > 0
    BY <1>1 DEF Good, PlainInv, Hosted
  <2>2. ASSUME NEW t \in Tensors, run.first[t] = i
        PROVE  /\ t \in program.inputs[i] /\ Streamed(run, t)
               /\ t \in run.resident => t \in run.lazy
    BY <1>1, <2>2, PlainSchedule DEF Streamed, StreamedByFirst, Good, program
  <2>3. iteration \in Nat /\ program.inputs[i] \subseteq Tensors
    BY RunTyped, PlainTyped DEF Good, TypeInv
  <2>4. ASSUME NEW t \in Tensors, run.first[t] = i PROVE Brought(t) <=> Active(t)
    BY <2>1, <2>2, <2>3, <2>4 DEF Brought, Active
  <2>5. QED
    BY <2>2, <2>3, <2>4 DEF Fetched
<1>4. \A t \in Fetched(i) : run.release[t] # None =>
        run.release[t] \in All /\ Launched(run.release[t])
  <2> SUFFICES ASSUME NEW t \in Tensors, Brought(t), run.first[t] = i, run.release[t] # None
               PROVE  run.release[t] \in All /\ Launched(run.release[t])
    BY <1>3
  <2>1. QED
    BY FreedBefore DEF Good, PlainInv, Brought
<1>5. QED
  BY <1>1, <1>2, <1>3, <1>4 DEF FetchReady

LEMMA FrontStep ==
  ASSUME Good, NEW i \in All, FetchReady(i), PrefetchIfAny(i), run' = run, iteration' = iteration,
         completion' = completion, SameLaunches, host' # "begin", Frontier' = i + 1
  PROVE  Inner'
<1>1. CASE Fetched(i) # {}
  BY <1>1, FetchStep DEF PrefetchIfAny
<1>2. CASE Fetched(i) = {}
  <2>1. UNCHANGED <<fetchVars, queue, retired, memory>>
    BY <1>2 DEF PrefetchIfAny, deviceVars
  <2>2. \A j \in prefetched : j < i
    BY DEF Good, PlainInv, Inner, Fetches, FetchReady
  <2>3. prefetched \subseteq All /\ \A j \in All : j \in Nat
    BY PlainTyped DEF Good
  <2>4. \A j \in prefetched : j < Frontier'
    BY <2>2, <2>3
  <2>5. ASSUME NEW t \in Tensors, Brought(t), run.first[t] < Frontier' PROVE run.first[t] < i
    <3>1. run.first[t] # i
      BY <1>2, <2>5 DEF FetchReady
    <3>2. run.first[t] \in Nat
      BY <2>3, <2>5, PlainTyped DEF Brought, Good
    <3>3. QED
      BY <2>3, <2>5, <3>1, <3>2
  <2>6. host # "begin" /\ i = Frontier
    BY DEF FetchReady
  <2>7. QED
    BY <2>1, <2>4, <2>5, <2>6, QuietStep
<1>3. QED
  BY <1>1, <1>2

LEMMA PrimeStep == ASSUME Good, Prime PROVE PlainInv'
<1>1. /\ host = "prime" /\ host' = "prime" /\ target < run.depth /\ target < Count /\ ~cached
      /\ run.overlap /\ turn = 0 /\ turn' = turn /\ target' = target + 1
      /\ UNCHANGED <<run, iteration, completion, loaded, cached>>
  BY DEF Prime, Good, PlainInv, Hosted
<1>2. run.depth \in Nat /\ target \in Nat /\ target \in All /\ Count' = Count
  BY <1>1, PlainTyped, PlainSchedule, SameRun DEF Good
<1>3. PICK i \in All : i = target
  BY <1>2
<1>4. i = Frontier /\ Frontier' = i + 1
  BY <1>1, <1>3 DEF Frontier
<1>5. PrefetchIfAny(i)
  BY <1>1, <1>3 DEF Prime, Reused
<1>6. SameLaunches
  BY <1>1 DEF SameLaunches, Launched
<1>7. Inner'
  BY <1>1, <1>3, <1>4, <1>5, <1>6, AtFront, FrontStep
<1>8. Hosted'
  BY <1>1, <1>2 DEF Good, PlainInv, Hosted
<1>9. QED
  BY <1>7, <1>8 DEF PlainInv

LEMMA PrimedStep == ASSUME Good, Primed PROVE PlainInv'
<1>1. /\ host = "prime" /\ host' = "turn" /\ (target >= run.depth \/ target >= Count) /\ target <= run.depth
      /\ run.overlap /\ turn = 0
      /\ UNCHANGED <<run, iteration, turn, target, fetchVars, completion, loaded, cached, queue, retired,
                     memory>>
  BY DEF Primed, Good, PlainInv, Hosted, deviceVars
<1>2. run.depth \in Nat /\ target \in Nat /\ Count \in Nat /\ All = 0 .. Count - 1 /\ prefetched \subseteq All
      /\ \A t \in Tensors : Brought(t) => run.first[t] \in All
  BY PlainTyped, PlainSchedule DEF Good, Brought
<1>3. Frontier = target /\ Frontier' = run.depth
  BY <1>1, <1>2 DEF Frontier
<1>4. SameLaunches
  BY <1>1 DEF SameLaunches, Launched
<1>5. \A j \in prefetched : j < target
  BY <1>1, <1>3 DEF Good, PlainInv, Inner, Fetches
<1>6. Inner'
  BY <1>1, <1>2, <1>3, <1>4, <1>5, QuietStep
<1>7. Hosted'
  BY <1>1 DEF Good, PlainInv, Hosted
<1>8. QED
  BY <1>6, <1>7 DEF PlainInv

LEMMA FetchOwnStep == ASSUME Good, FetchOwn PROVE PlainInv'
<1>1. /\ host = "turn" /\ host' = "launch" /\ turn < Count /\ ~run.overlap /\ PrefetchIfAny(turn)
      /\ UNCHANGED <<run, iteration, turn, target, completion, loaded, cached>>
  BY DEF FetchOwn
<1>2. turn \in All
  BY <1>1, PlainTyped DEF Good
<1>3. PICK i \in All : i = turn
  BY <1>2
<1>4. i = Frontier /\ Frontier' = i + 1
  BY <1>1, <1>3 DEF Frontier
<1>5. SameLaunches
  BY <1>1 DEF SameLaunches, Launched
<1>6. Inner'
  BY <1>1, <1>3, <1>4, <1>5, AtFront, FrontStep
<1>7. Hosted'
  BY <1>1 DEF Good, PlainInv, Hosted
<1>8. QED
  BY <1>6, <1>7 DEF PlainInv

LEMMA AheadStep == ASSUME Good, Ahead PROVE PlainInv'
<1>1. /\ host = "ahead" /\ host' = "turn" /\ turn' = turn + 1 /\ run.overlap /\ ~cached
      /\ UNCHANGED <<run, iteration, target, completion, loaded, cached>>
  BY DEF Ahead, Good, PlainInv, Hosted
<1>2. run.depth \in Nat /\ Count \in Nat /\ All = 0 .. Count - 1 /\ prefetched \subseteq All /\ turn \in Nat
      /\ turn < Count
      /\ \A t \in Tensors : Brought(t) => run.first[t] \in All
  BY <1>1, PlainTyped, PlainSchedule DEF Good, Brought, TypeInv, HostTyped
<1>3. Frontier = turn + run.depth /\ Frontier' = (turn + run.depth) + 1
  <2>1. Frontier' = (turn + 1) + run.depth
    BY <1>1 DEF Frontier
  <2>2. QED
    BY <1>1, <1>2, <2>1 DEF Frontier
<1>4. SameLaunches
  BY <1>1, <1>2, SameRun DEF SameLaunches, Launched
<1>5. CASE turn + run.depth >= Count
  <2>1. UNCHANGED <<fetchVars, queue, retired, memory>>
    BY <1>5 DEF Ahead, deviceVars
  <2>2. \A j \in prefetched : j < Frontier'
    BY <1>2, <1>3, <1>5
  <2>3. \A t \in Tensors : Brought(t) /\ run.first[t] < Frontier' => run.first[t] < Frontier
    BY <1>2, <1>3, <1>5
  <2>4. QED
    BY <1>1, <1>4, <2>1, <2>2, <2>3, QuietStep DEF PlainInv, Good, Hosted
<1>6. CASE turn + run.depth < Count
  <2>1. PICK i \in All : i = turn + run.depth
    BY <1>2, <1>6
  <2>2. PrefetchIfAny(i)
    BY <1>1, <1>2, <1>6, <2>1 DEF Ahead, Reused
  <2>3. Inner'
    BY <1>1, <1>3, <1>4, <2>1, <2>2, AtFront, FrontStep
  <2>4. QED
    BY <1>1, <2>3 DEF PlainInv, Good, Hosted
<1>7. QED
  BY <1>2, <1>5, <1>6

LEMMA EndTurnsStep == ASSUME Good, EndTurns PROVE PlainInv'
<1>1. /\ host = "turn" /\ host' = "drain" /\ turn = Count /\ loaded' = TRUE /\ ~cached'
      /\ UNCHANGED <<run, iteration, turn, target, fetchVars, completion, queue, retired, memory>>
  BY PlainSchedule DEF EndTurns, Good, PlainInv, Hosted, deviceVars
<1>2. Frontier' = Frontier
  BY <1>1 DEF Frontier
<1>3. SameLaunches
  BY <1>1 DEF SameLaunches, Launched
<1>4. \A j \in prefetched : j < Frontier
  BY <1>1 DEF Good, PlainInv, Inner, Fetches
<1>5. Inner'
  BY <1>1, <1>2, <1>3, <1>4, QuietStep
<1>6. Hosted'
  BY <1>1, SameRun DEF Good, PlainInv, Hosted
<1>7. QED
  BY <1>5, <1>6 DEF PlainInv

LEMMA LaunchHosted == ASSUME Good, Launch PROVE Hosted'
<1>1. /\ turn \in All /\ turn < Count /\ AtLaunch /\ AfterTurn
      /\ UNCHANGED <<run, iteration, loaded, cached>>
  BY PlainTyped DEF Launch, AtLaunch, Good
<1>2. QED
  BY <1>1 DEF AtLaunch, AfterTurn, Good, PlainInv, Hosted

LEMMA DrainStep == ASSUME Good, Drain PROVE PlainInv'
<1>1. /\ host = "drain" /\ queue[Main] = <<>> /\ turn = Count /\ ~cached /\ loaded
      /\ UNCHANGED <<run, turn, target, fetchVars, completion, loaded, cached, queue, retired, memory>>
      /\ UNCHANGED <<prefetched, ready, copied>> /\ iteration \in Nat
  BY PlainTyped DEF Drain, Synchronized, Good, PlainInv, Hosted, fetchVars
<1>2. queue[Copy] = <<>>
  BY <1>1, CopyEmpty
<1>3. ASSUME host' \in {"begin", "done"} PROVE SameLaunches
  BY <1>1, <1>3 DEF SameLaunches, Launched
<1>4. CASE host' = "done" /\ iteration' = iteration
  <2>1. Frontier' = Frontier
    BY <1>1, <1>4 DEF Frontier
  <2>2. \A j \in prefetched : j < Frontier
    BY <1>1 DEF Good, PlainInv, Inner, Fetches
  <2>3. Inner'
    BY <1>1, <1>3, <1>4, <2>1, <2>2, QuietStep
  <2>4. Hosted'
    BY <1>1, <1>2, <1>4, SameRun DEF Hosted
  <2>5. QED
    BY <2>3, <2>4 DEF PlainInv
<1>5. CASE host' = "begin" /\ iteration' = iteration + 1
  <2>1. Hosted'
    BY <1>1, <1>2, <1>5, SameRun DEF Hosted
  <2>2. Completions' /\ MainQueue'
    BY <1>1, <1>3, <1>5, MainKept
  <2>3. DOMAIN queue[Copy] = {} /\ DOMAIN queue'[Copy] = {}
    BY <1>1, <1>2
  <2>4. /\ \A t : /\ Streamed(run, t)' = Streamed(run, t) /\ Uploaded(run, t)' = Uploaded(run, t)
                  /\ Writers(run, t)' = Writers(run, t) /\ Users(run, t)' = Users(run, t)
                  /\ Lasting(run, t)' = Lasting(run, t) /\ InUse(run, t)' = InUse(run, t)
        /\ \A j \in All : Over(j)' <=> Over(j)
    BY <1>1, SameSchedule DEF Over, Done
  <2>5. \A t \in Tensors : ~Awaiting(t)' /\ ~Awaiting(t)
    BY <2>3 DEF Awaiting
  <2>6. CopyQueue' /\ Batches'
    BY <1>1, <2>3, <2>5 DEF CopyQueue, Batches, Good, PlainInv, Inner
  <2>7. Fetches' /\ Awaited' /\ Released'
    BY <1>5 DEF Fetches, Awaited, Released
  <2>8. InMemory'
    <3> SUFFICES ASSUME NEW u \in Tensors, InUse(run, u), Made(u)', Needed(u)'
                 PROVE  memory[run.place[u]] = u
      BY <1>1, <2>4 DEF InMemory
    <3>1. \A j \in Users(run, u) : j \in All
      BY PlainTyped DEF Good
    <3>2. PICK n : n = u /\ Needed(n)
      BY <1>3, <1>5, <2>4, <3>1 DEF Needed, SameLaunches
    <3>3. ASSUME Streamed(run, u), Brought(u) PROVE run.first[u] \in prefetched
      <4>1. run.first[u] < Frontier
        BY <1>1, <3>3, PlainTyped, PlainSchedule, RunTyped DEF Frontier, Good, TypeInv
      <4>2. QED
        BY <1>1, <3>3, <4>1 DEF Good, PlainInv, Inner, Fetches
    <3>4. Made(u)
      <4>1. \A j \in Writers(run, u) : j \in All
        BY PlainTyped DEF Good
      <4>2. QED
        BY <1>3, <1>5, <2>4, <2>5, <3>3, <4>1 DEF Made, SameLaunches
    <3>5. QED
      BY <3>2, <3>4 DEF Good, PlainInv, Inner, InMemory
  <2>9. QED
    BY <2>1, <2>2, <2>6, <2>7, <2>8 DEF PlainInv, Inner
<1>6. QED
  BY <1>4, <1>5 DEF Drain

LEMMA BeginStep == ASSUME Good, Begin PROVE PlainInv'
<1>1. /\ host = "begin" /\ host' = (IF run.overlap THEN "prime" ELSE "turn") /\ turn' = 0 /\ target' = 0
      /\ prefetched' = {} /\ ~cached /\ queue[Main] = <<>> /\ queue[Copy] = <<>> /\ queue' = queue
      /\ UNCHANGED <<run, iteration, ready, copied, completion, loaded, cached, retired, memory>>
  BY DEF Begin, Good, PlainInv, Hosted
<1>2. /\ All' = All /\ (\A j \in All : j \in Nat)
      /\ \A t : /\ Streamed(run, t)' = Streamed(run, t) /\ Uploaded(run, t)' = Uploaded(run, t)
                /\ Writers(run, t)' = Writers(run, t) /\ Users(run, t)' = Users(run, t)
                /\ Lasting(run, t)' = Lasting(run, t) /\ InUse(run, t)' = InUse(run, t)
  BY <1>1, SameRun, SameSchedule, PlainTyped DEF Good
<1>3. \A j \in All : ~Launched(j)'
  BY <1>1, <1>2 DEF Launched
<1>4. DOMAIN queue'[Main] = {} /\ DOMAIN queue'[Copy] = {}
  BY <1>1
<1>5. \A t \in Tensors : ~Awaiting(t)'
  BY <1>4 DEF Awaiting
<1>6. Completions' /\ MainQueue' /\ Awaited' /\ CopyQueue' /\ Batches' /\ Released'
  BY <1>1, <1>2, <1>3, <1>4, <1>5 DEF Completions, MainQueue, Awaited, CopyQueue, Batches, Released
<1>7. Fetches'
  <2>1. Frontier' = 0
    BY <1>1 DEF Frontier
  <2>2. ASSUME NEW t \in Tensors, Brought(t)' PROVE run.first[t] \in Nat
    BY <1>2, <2>2, PlainTyped DEF Brought, Good
  <2>3. QED
    BY <1>1, <2>1, <2>2 DEF Fetches
<1>8. InMemory'
  <2> SUFFICES ASSUME NEW u \in Tensors, InUse(run, u), Made(u)' PROVE memory[run.place[u]] = u
    BY <1>1, <1>2 DEF InMemory
  <2>1. Brought(u)' <=> Brought(u)
    BY <1>1, <1>2 DEF Brought
  <2>2. \A j \in Writers(run, u) : ~Launched(j)'
    BY <1>3, PlainTyped DEF Good
  <2>3. Uploaded(run, u) \/ (Streamed(run, u) /\ ~Brought(u))
    BY <1>1, <1>2, <2>1, <2>2 DEF Made
  <2>4. Made(u)
    BY <2>3 DEF Made
  <2>5. Lasting(run, u)
    BY <2>3 DEF Lasting, Brought
  <2>6. QED
    BY <2>4, <2>5 DEF Needed, Good, PlainInv, Inner, InMemory
<1>9. Hosted'
  <2>1. run.depth \in Nat /\ 0 <= run.depth
    BY PlainSchedule DEF Good
  <2>2. loaded <=> iteration > 0
    BY <1>1 DEF Good, PlainInv, Hosted
  <2>3. QED
    BY <1>1, <2>1, <2>2 DEF Hosted
<1>10. QED
  BY <1>6, <1>7, <1>8, <1>9 DEF PlainInv, Inner

LEMMA HostStep == ASSUME Good, Host PROVE PlainInv'
<1>1. ~ReuseTurn /\ ~FollowupTurn /\ ~EnterGroup /\ ~PrefetchLane /\ ~LaunchGroup
  <2>1. ~cached /\ host # "lanes" /\ run.followups = {} /\ DOMAIN run.width = {}
    BY PlainSchedule DEF Good, PlainInv, Hosted
  <2>2. QED
    BY <2>1 DEF ReuseTurn, FollowupTurn, EnterGroup, PrefetchLane, LaunchGroup, Reused, Leader
<1>2. CASE Launch
  BY <1>2, LaunchStep, LaunchHosted DEF PlainInv
<1>3. QED
  BY <1>1, <1>2, BeginStep, PrimeStep, PrimedStep, FetchOwnStep, AheadStep, EndTurnsStep, DrainStep
     DEF Host

LEMMA AdvanceHosted == ASSUME Good, NEW s \in Streams, Advance(s) PROVE Hosted'
<1>1. /\ queue[s] # <<>> /\ s \in {Copy, Main}
      /\ UNCHANGED <<run, iteration, host, turn, target, loaded, cached>>
  BY AdvanceEffect, PlainSchedule DEF Good
<1>2. host \notin {"begin", "done"}
  BY <1>1, BusyHost
<1>3. QED
  BY <1>1, <1>2, SameRun DEF Good, PlainInv, Hosted

LEMMA PlainKept == ASSUME Good, vars' = vars PROVE PlainInv'
<1>1. /\ UNCHANGED <<run, iteration, host, turn, target, completion, loaded, cached>>
      /\ UNCHANGED <<fetchVars, queue, retired, memory>> /\ UNCHANGED <<prefetched, ready, copied>>
  BY DEF vars, fetchVars, deviceVars
<1>2. /\ All' = All /\ Kerneled' = Kerneled
      /\ \A t : /\ Streamed(run, t)' = Streamed(run, t) /\ Uploaded(run, t)' = Uploaded(run, t)
                /\ Writers(run, t)' = Writers(run, t) /\ Users(run, t)' = Users(run, t)
                /\ Lasting(run, t)' = Lasting(run, t) /\ InUse(run, t)' = InUse(run, t)
  BY <1>1, SameRun, SameSchedule
<1>3. Hosted'
  BY <1>1, SameRun DEF Good, PlainInv, Hosted
<1>4. Frontier' = Frontier /\ SameLaunches
  BY <1>1 DEF Frontier, SameLaunches, Launched
<1>5. CASE host # "begin"
  <2>1. \A j \in prefetched : j < Frontier
    BY <1>5 DEF Good, PlainInv, Inner, Fetches
  <2>2. QED
    BY <1>1, <1>3, <1>4, <1>5, <2>1, QuietStep DEF PlainInv
<1>6. CASE host = "begin"
  <2>1. Completions' /\ MainQueue'
    BY <1>1, <1>4, MainKept
  <2>2. CopyQueue' /\ Batches' /\ \A t \in Tensors : Awaiting(t)' <=> Awaiting(t)
    BY <1>1, <1>4, CopiesKept DEF LaunchesStay, SameLaunches
  <2>3. Fetches' /\ Awaited' /\ Released'
    BY <1>1, <1>6 DEF Fetches, Awaited, Released
  <2>4. \A t \in Tensors : Brought(t)' <=> Brought(t)
    BY <1>1, <1>2 DEF Brought
  <2>5. \A j \in All : Over(j)' <=> Over(j)
    BY <1>1 DEF Over, Done
  <2>6. \A u \in Tensors : Made(u)' => Made(u)
    BY <1>1, <1>2, <1>4, <2>2, <2>4, <2>5, PlainTyped DEF Made, SameLaunches, Good
  <2>7. InMemory'
    BY <1>1, <1>4, <2>5, <2>6, MemoryKept DEF SameLaunches
  <2>8. QED
    BY <1>3, <2>1, <2>2, <2>3, <2>7 DEF PlainInv, Inner
<1>7. QED
  BY <1>5, <1>6

LEMMA PlainStart == ASSUME TypeInv, Init, Plain PROVE PlainInv
<1>1. /\ host = "begin" /\ turn = 0 /\ iteration = 0 /\ loaded = FALSE /\ cached = FALSE /\ prefetched = {}
      /\ queue[Main] = <<>> /\ queue[Copy] = <<>>
  BY StreamsTyped DEF Init
<1>2. DOMAIN queue[Main] = {} /\ DOMAIN queue[Copy] = {} /\ \A i \in All : ~Launched(i)
  BY <1>1, PlainTyped DEF Launched
<1>3. Hosted
  BY <1>1 DEF Hosted
<1>4. \A t \in Tensors : ~Awaiting(t)
  BY <1>2 DEF Awaiting
<1>5. Fetches /\ Completions /\ MainQueue /\ Awaited /\ CopyQueue /\ Batches /\ Released
  BY <1>1, <1>2, <1>4 DEF Fetches, Completions, MainQueue, Awaited, CopyQueue, Batches, Released
<1>6. InMemory
  <2> SUFFICES ASSUME NEW u \in Tensors, InUse(run, u), Made(u) PROVE memory[run.place[u]] = u
    BY DEF InMemory
  <2>1. \A j \in Writers(run, u) : ~Launched(j)
    BY <1>2, PlainTyped
  <2>2. Uploaded(run, u)
    BY <1>1, <2>1 DEF Made, Brought
  <2>3. \A t \in Tensors : run.place[t] = run.place[u] /\ Uploaded(run, t) => t = u
    BY <2>2, PlainSchedule DEF UploadsApart
  <2>4. run.place[u] \in Places(run)
    BY DEF Places
  <2>5. memory[run.place[u]] = CHOOSE t \in Tensors : run.place[t] = run.place[u] /\ Uploaded(run, t)
    BY <2>2, <2>4 DEF Init
  <2>6. QED
    BY <2>2, <2>3, <2>5
<1>7. QED
  BY <1>3, <1>5, <1>6 DEF PlainInv, Inner

LEMMA PlainStep == TypeInv /\ (Plain => PlainInv) /\ [Next]_vars => (Plain => PlainInv)'
<1> SUFFICES ASSUME TypeInv, Plain => PlainInv, [Next]_vars, Plain' PROVE PlainInv'
  OBVIOUS
<1>1. run' = run
  BY HostSteps, AdvanceEffect DEF Next, vars
<1>2. Good
  BY <1>1 DEF Good, Plain
<1>3. CASE Host
  BY <1>2, <1>3, HostStep
<1>4. ASSUME NEW s \in Streams, Advance(s) PROVE PlainInv'
  <2>1. s \in {Copy, Main} /\ Hosted'
    BY <1>2, <1>4, AdvanceHosted, PlainSchedule DEF Good
  <2>2. CASE s = Copy
    BY <1>2, <1>4, <2>1, <2>2, CopyStep DEF PlainInv
  <2>3. CASE s = Main
    BY <1>2, <1>4, <2>1, <2>3, MainStep DEF PlainInv
  <2>4. QED
    BY <2>1, <2>2, <2>3
<1>5. QED
  BY <1>2, <1>3, <1>4, PlainKept DEF Next

(* On any schedule of any number of operations, with any prefetch distance *)
(* and ring, every step of the host and of either stream keeps PlainInv.   *)
THEOREM ScheduleKept == Spec => [](Plain => PlainInv)
<1>1. Init => TypeInv /\ (Plain => PlainInv)
  BY InitTyped, PlainStart
<1>2. (TypeInv /\ (Plain => PlainInv)) /\ [Next]_vars => (TypeInv /\ (Plain => PlainInv))'
  BY TypeStep, PlainStep
<1>3. QED
  BY <1>1, <1>2, PTL DEF Spec

(* A kernel or a copy that is about to run finds each of its operands in   *)
(* the storage it was bound to: prefetch()'s waits for the completions of  *)
(* the operations that used a slot, and launch's wait for ready_events_,   *)
(* are enough, however late each stream performs its work.                 *)
THEOREM KernelsFindOperands == Spec => [](Plain => OperandsReady)
<1>1. TypeInv /\ (Plain => PlainInv) => (Plain => OperandsReady)
  BY OperandsFollow DEF Good
<1>2. QED
  BY <1>1, StreamedTypeCorrect, ScheduleKept, PTL

(* What the compute and the copy stream may do at the same time touches    *)
(* different storage: no copy overwrites what a kernel still reads, and no *)
(* kernel overwrites a constant just copied.                               *)
THEOREM StreamsDoNotRace == Spec => [](Plain => NoConflict)
<1>1. TypeInv /\ (Plain => PlainInv) => (Plain => NoConflict)
  BY ConflictsFollow DEF Good
<1>2. QED
  BY <1>1, StreamedTypeCorrect, ScheduleKept, PTL

(* When run() returns, every output of the program is in the storage it    *)
(* is read back from, after any number of iterations.                      *)
THEOREM OutputsInPlace == Spec => [](Plain => OutputsDelivered)
<1>1. TypeInv /\ (Plain => PlainInv) => (Plain => OutputsDelivered)
  BY OutputsFollow DEF Good
<1>2. QED
  BY <1>1, StreamedTypeCorrect, ScheduleKept, PTL

-----------------------------------------------------------------------------
(* What was performed in this iteration is what the kernels that are over  *)
(* perform.                                                                *)
Finished == {i \in Kerneled : Launched(i) /\ Over(i)}
Tracked  == performed = IF host = "begin" THEN {} ELSE PerformedBy(run, Finished)

LEMMA TrackedKept ==
  ASSUME Good, Tracked, run' = run, performed' = performed, host # "begin", host' # "begin",
         \A i \in Kerneled : (Launched(i) /\ Over(i))' <=> Launched(i) /\ Over(i)
  PROVE  Tracked'
<1>1. Kerneled' = Kerneled
  BY SameSchedule
<1>2. Finished' = Finished
  BY <1>1 DEF Finished
<1>3. PerformedBy(run, Finished)' = PerformedBy(run, Finished)
  BY <1>2 DEF PerformedBy
<1>4. QED
  BY <1>3 DEF Tracked

(* The steps of the host that submit nothing to the main stream.           *)
LEMMA QuietlyTracked ==
  ASSUME Good, Tracked, run' = run, performed' = performed, SameLaunches,
         completion' = completion, retired' = retired, host # "begin", host' # "begin"
  PROVE  Tracked'
<1>1. \A i \in Kerneled : (Launched(i) /\ Over(i))' <=> Launched(i) /\ Over(i)
  BY PlainTyped DEF SameLaunches, Over, Done, Good
<1>2. QED
  BY <1>1, TrackedKept

LEMMA HostTracked == ASSUME Good, Tracked, Host PROVE Tracked'
<1>1. ~ReuseTurn /\ ~FollowupTurn /\ ~EnterGroup /\ ~PrefetchLane /\ ~LaunchGroup
  <2>1. ~cached /\ host # "lanes" /\ run.followups = {} /\ DOMAIN run.width = {}
    BY PlainSchedule DEF Good, PlainInv, Hosted
  <2>2. QED
    BY <2>1 DEF ReuseTurn, FollowupTurn, EnterGroup, PrefetchLane, LaunchGroup, Reused, Leader
<1>2. CASE Begin
  <2>1. host = "begin" /\ host' # "begin" /\ host' # "ahead" /\ turn' = 0 /\ run' = run
        /\ performed' = performed
    BY <1>2 DEF Begin
  <2>2. Kerneled' = Kerneled /\ \A i \in Kerneled : i \in Nat
    BY <2>1, SameSchedule, PlainTyped DEF Good
  <2>3. \A i \in Kerneled : ~Launched(i)'
    BY <2>1, <2>2 DEF Launched
  <2>4. Finished' = {}
    BY <2>2, <2>3 DEF Finished
  <2>5. QED
    BY <2>1, <2>4 DEF Tracked, PerformedBy
<1>3. CASE Launch
  <2>1. /\ turn \in All /\ ~Launched(turn) /\ host # "begin" /\ host' # "begin"
        /\ \A i \in All : completion'[i] = IF i = turn
             THEN [stream |-> Main, position |-> retired[Main] + Len(queue'[Main])]
             ELSE completion[i]
        /\ \A i \in All : (Launched(i)' <=> i <= turn) /\ (Launched(i) <=> i < turn)
        /\ queue'[Main] = Joined(queue[Main], Await(turn), Own(turn))
        /\ run' = run /\ retired' = retired /\ performed' = performed
    BY <1>3, LaunchEffect
  <2>2. queue[Main] \in Seq(Entries) /\ Await(turn) \in Seq(Entries) /\ Own(turn) \in Seq(Entries)
    BY <1>3, LaunchEffect
  <2>3. PICK c \in All : c = turn
    BY <2>1
  <2>4. ASSUME c \in Kerneled PROVE ~Over(c)'
    <3>1. Own(turn) = <<KernelOf(turn)>>
      BY <2>3, <2>4 DEF Own, Kerneled, Launches
    <3>2. Len(queue'[Main]) = Len(queue[Main]) + Len(Await(turn)) + 1
      BY <2>1, <2>2, <3>1 DEF Joined
    <3>3. Len(queue[Main]) \in Nat /\ Len(Await(turn)) \in Nat /\ retired[Main] \in Nat
      BY <2>2, PlainTyped DEF Good
    <3>4. completion'[c].stream = Main /\ completion'[c].position = retired[Main] + Len(queue'[Main])
      BY <2>1, <2>3
    <3>5. QED
      BY <2>1, <3>2, <3>3, <3>4 DEF Over, Done
  <2>5. ASSUME NEW i \in Kerneled PROVE (Launched(i) /\ Over(i))' <=> Launched(i) /\ Over(i)
    <3>1. i \in All /\ i \in Nat /\ turn \in Nat
      BY <2>1, PlainTyped DEF Good
    <3>2. CASE i = turn
      BY <2>1, <2>3, <2>4, <2>5, <3>2
    <3>3. CASE i # turn
      <4>1. Launched(i)' <=> Launched(i)
        BY <2>1, <3>1, <3>3
      <4>2. Over(i)' <=> Over(i)
        BY <2>1, <3>1, <3>3 DEF Over, Done
      <4>3. QED
        BY <4>1, <4>2
    <3>4. QED
      BY <3>2, <3>3
  <2>6. QED
    BY <2>1, <2>5, TrackedKept
<1>4. CASE Drain
  <2>1. /\ host = "drain" /\ run' = run /\ turn' = turn /\ completion' = completion /\ retired' = retired
        /\ (host' = "begin" /\ performed' = {}) \/ (host' = "done" /\ performed' = performed)
    BY <1>4 DEF Drain
  <2>2. host' = "done" => SameLaunches
    BY <2>1 DEF SameLaunches, Launched
  <2>3. CASE host' = "begin"
    BY <2>1, <2>3 DEF Tracked
  <2>4. CASE host' = "done"
    BY <2>1, <2>2, <2>4, QuietlyTracked
  <2>5. QED
    BY <2>1, <2>3, <2>4
<1>5. CASE Prime \/ FetchOwn \/ Primed \/ EndTurns
  <2>1. /\ run' = run /\ turn' = turn /\ completion' = completion /\ retired' = retired
        /\ performed' = performed /\ host \in {"prime", "turn"} /\ host' \in {"prime", "turn", "launch", "drain"}
    BY <1>5 DEF Prime, FetchOwn, Primed, EndTurns, PrefetchIfAny, Prefetch, deviceVars
  <2>2. SameLaunches
    BY <2>1 DEF SameLaunches, Launched
  <2>3. QED
    BY <2>1, <2>2, QuietlyTracked
<1>6. CASE Ahead
  <2>1. /\ run' = run /\ turn' = turn + 1 /\ completion' = completion /\ retired' = retired
        /\ performed' = performed /\ host = "ahead" /\ host' = "turn"
    BY <1>6 DEF Ahead, PrefetchIfAny, Prefetch, deviceVars
  <2>2. turn \in Nat /\ \A i \in All : i \in Nat
    BY PlainTyped DEF Good
  <2>3. SameLaunches
    BY <2>1, <2>2, SameRun DEF SameLaunches, Launched
  <2>4. QED
    BY <2>1, <2>3, QuietlyTracked
<1>7. QED
  BY <1>1, <1>2, <1>3, <1>4, <1>5, <1>6 DEF Host

(* What a stream's step does to the operations performed.                  *)
LEMMA AdvanceTracked == ASSUME Good, Tracked, NEW s \in Streams, Advance(s) PROVE Tracked'
<1>1. /\ UNCHANGED <<run, iteration, host, turn, target, completion>> /\ s \in {Copy, Main}
      /\ queue[s] # <<>>
  BY AdvanceEffect, PlainSchedule DEF Good
<1>2. host # "begin" /\ host' # "begin"
  BY <1>1, BusyHost
<1>3. /\ \A i : Launched(i)' <=> Launched(i)
      /\ Kerneled' = Kerneled
  BY <1>1, SameSchedule DEF Launched
<1>4. \A i \in Kerneled : /\ i \in All /\ completion[i].position \in Nat
                          /\ Launched(i) => completion[i].stream = Main
  BY PlainTyped DEF Good, PlainInv, Inner, Completions
<1>5. CASE s = Copy
  <2>1. retired'[Main] = retired[Main] /\ performed' = performed
    BY <1>5, AdvanceEffect, CopyEffect, StreamsTyped DEF Good, CopyPasses, CopyBrings
  <2>2. \A i \in Kerneled : (Launched(i) /\ Over(i))' <=> Launched(i) /\ Over(i)
    BY <1>1, <1>3, <1>4, <2>1 DEF Over, Done
  <2>3. QED
    BY <1>1, <1>2, <2>1, <2>2, TrackedKept
<1>6. CASE s = Main
  <2>1. retired'[Main] = retired[Main] + 1 /\ retired[Main] \in Nat
    BY <1>6, AdvanceEffect, PlainTyped DEF Good
  <2>2. \A i \in Kerneled : Launched(i) /\ Over(i) => Over(i)'
    BY <1>1, <1>4, <2>1 DEF Over, Done
  <2>3. CASE MainPasses
    <3>1. \A i \in Kerneled : (Launched(i) /\ Over(i))' <=> Launched(i) /\ Over(i)
      BY <1>3, <1>6, <2>2, <2>3, NewlyOver
    <3>2. QED
      BY <1>1, <1>2, <2>3, <3>1, TrackedKept DEF MainPasses
  <2>4. ASSUME NEW i \in Kerneled, MainRuns(i) PROVE Tracked'
    <3>1. Launched(i) /\ Over(i)'
      <4>1. Launched(i) /\ retired[Main] + 1 = completion[i].position
        BY <2>4 DEF MainRuns, KernelAt
      <4>2. QED
        BY <1>1, <1>4, <2>1, <4>1 DEF Over, Done
    <3>2. ASSUME NEW j \in Kerneled, j # i PROVE (Launched(j) /\ Over(j))' <=> Launched(j) /\ Over(j)
      BY <1>3, <1>6, <2>2, <2>4, <3>2, NewlyOver
    <3>3. Finished' = Finished \cup {i}
      <4>1. i \in Finished'
        BY <1>3, <3>1 DEF Finished
      <4>2. \A j \in Kerneled \ {i} : j \in Finished' <=> j \in Finished
        BY <1>3, <3>2 DEF Finished
      <4>3. Finished' \subseteq Kerneled /\ Finished \subseteq Kerneled
        BY <1>3 DEF Finished
      <4>4. QED
        BY <4>1, <4>2, <4>3
    <3> DEFINE F == Finished
    <3>4. PerformedBy(run, F \cup {i}) = PerformedBy(run, F) \cup run.launch[i].performs
      <4> HIDE DEF F
      <4>1. QED
        BY DEF PerformedBy
    <3>5. performed' = PerformedBy(run, F \cup {i})
      BY <1>2, <2>4, <3>4 DEF Tracked, MainRuns
    <3>6. PerformedBy(run, Finished)' = PerformedBy(run, F \cup {i})
      BY <1>1, <3>3 DEF PerformedBy
    <3>7. QED
      BY <1>2, <3>5, <3>6 DEF Tracked
  <2>5. QED
    BY <1>6, <2>3, <2>4, MainEffect
<1>7. QED
  BY <1>1, <1>5, <1>6

-----------------------------------------------------------------------------
(* The steps that do something map to steps of ProgramExecution.           *)
LEMMA Promised ==
  ASSUME Good, Tracked, [Next]_vars
  PROVE  [Abstract!Next]_(Abstract!vars)
<1> SUFFICES ASSUME ~UNCHANGED <<run, iteration, performed>> PROVE Abstract!Next
  BY DEF Abstract!vars
<1>1. PerformedOnce(run)
  BY DEF Good, Plain, Scheduled
<1>2. Kerneled = Launches(run) /\ All = Operations(program) /\ program = run.program
  BY DEF Kerneled, All, program
<1>3. /\ Abstract!All = Operations(run.program)
      /\ \A t : Abstract!Producers(run.program, t) = Producers(run.program, t)
  BY DEF Abstract!All, Abstract!Producers, Abstract!Operations, Producers, Operations
<1>4. CASE Host
  <2>1. run' = run /\ (Drain \/ UNCHANGED <<iteration, performed>>)
    BY <1>4, HostSteps
       DEF Host, Good, Begin, Prime, Primed, ReuseTurn, FollowupTurn, FetchOwn, Launch, EnterGroup,
           PrefetchLane, LaunchGroup, Ahead, EndTurns, PrefetchIfAny, Prefetch, deviceVars
  <2>2. host = "drain" /\ queue[Main] = <<>> /\ MoreIterations /\ iteration' = iteration + 1
        /\ performed' = {}
    BY <2>1 DEF Drain, Synchronized
  <2>3. turn = Count
    BY <2>2 DEF Good, PlainInv, Hosted
  <2>4. Finished = Kerneled
    BY <2>2, <2>3, OverWhenEmpty, PlainTyped DEF Finished, Good
  <2>5. performed = Operations(run.program)
    BY <1>1, <1>2, <2>2, <2>4 DEF Tracked, PerformedOnce
  <2>6. QED
    BY <1>3, <2>1, <2>2, <2>5 DEF Abstract!Next, Abstract!NextIteration, MoreIterations
<1>5. ASSUME NEW s \in Streams, Advance(s) PROVE Abstract!Next
  <2>1. UNCHANGED <<run, iteration, host>> /\ s \in {Copy, Main} /\ queue[s] # <<>>
    BY <1>5, AdvanceEffect, PlainSchedule DEF Good
  <2>2. s = Main /\ ~MainPasses
    BY <1>5, <2>1, CopyEffect DEF CopyPasses, CopyBrings, MainPasses
  <2>3. PICK i \in Kerneled : MainRuns(i)
    BY <1>5, <2>2, MainEffect
  <2> DEFINE S == run.launch[i].performs
  <2>4. performed' = performed \cup S
    BY <2>3 DEF MainRuns
  <2>5. host # "begin" /\ performed = PerformedBy(run, Finished)
    BY <2>1, BusyHost DEF Tracked
  <2>6. /\ Launched(i) /\ ~Over(i) /\ i \in All /\ \A j \in All : j < i => Launched(j) /\ Over(j)
    BY <2>3, KernelHead DEF MainRuns
  <2>7. S # {} /\ S \in SUBSET Operations(run.program)
    BY <1>1, <1>2, <2>6, RunTyped DEF PerformedOnce, Good, TypeInv
  <2>8. S \cap performed = {}
    <3>1. \A j \in Finished : j \in Launches(run) /\ j # i
      BY <1>2, <2>6 DEF Finished
    <3>2. \A j \in Finished : run.launch[j].performs \cap S = {}
      BY <1>1, <1>2, <3>1 DEF PerformedOnce
    <3>3. QED
      BY <2>5, <3>2 DEF PerformedBy
  <2>9. {j \in Launches(run) : j <= i} \subseteq Finished \cup {i}
    <3>1. ASSUME NEW j \in Launches(run), j <= i, j # i PROVE j \in Finished
      <4>1. j \in All /\ j < i
        BY <1>2, <2>6, <3>1, PlainTyped DEF Good
      <4>2. QED
        BY <1>2, <2>6, <4>1 DEF Finished
    <3>2. QED
      BY <3>1
  <2>10. ASSUME NEW k \in S PROVE Abstract!Needs(k) \subseteq performed \cup S
    <3>1. ASSUME NEW t \in run.program.inputs[k]
          PROVE  Producers(run.program, t) \subseteq performed \cup S
      <4>1. Producers(run.program, t) \subseteq PerformedBy(run, {j \in Launches(run) : j <= i})
        BY <1>1, <1>2 DEF PerformedOnce
      <4>2. PerformedBy(run, {j \in Launches(run) : j <= i}) \subseteq performed \cup S
        BY <2>5, <2>9 DEF PerformedBy
      <4>3. QED
        BY <4>1, <4>2
    <3>2. Abstract!Needs(k) = UNION {Producers(run.program, t) : t \in run.program.inputs[k]}
      BY <1>3 DEF Abstract!Needs
    <3>3. QED
      BY <3>1, <3>2
  <2>11. Abstract!Perform(S)
    BY <2>1, <2>4, <2>7, <2>8, <2>10 DEF Abstract!Perform
  <2>12. QED
    BY <1>3, <2>7, <2>11 DEF Abstract!Next
<1>6. QED
  BY <1>4, <1>5 DEF Next, vars, deviceVars

(* The order in which work is performed on the device is one the program   *)
(* allows: every step of the run is, seen from outside, an operation (or   *)
(* those of a fused launch) performed once and after what it depends on,   *)
(* the start of the next iteration when all operations were performed, or  *)
(* nothing.  That it goes on to the end is liveness and left to the runs.  *)
THEOREM RunsInOrder ==
  Spec /\ []Plain => Abstract!Init /\ [][Abstract!Next]_(Abstract!vars)
<1>1. Init => Abstract!Init
  BY DEF Init, Abstract!Init
<1>2. Init => Tracked
  BY DEF Init, Tracked
<1>3. TypeInv /\ (Plain => PlainInv) /\ Plain /\ Tracked /\ [Next]_vars => Tracked'
  <2> SUFFICES ASSUME Good, Tracked, [Next]_vars PROVE Tracked'
    BY DEF Good
  <2>1. CASE UNCHANGED vars
    <3>1. /\ UNCHANGED <<run, host, turn, completion, performed, retired>>
      BY <2>1 DEF vars, deviceVars
    <3>2. \A i \in Kerneled : (Launched(i) /\ Over(i))' <=> Launched(i) /\ Over(i)
      BY <3>1 DEF Launched, Over, Done
    <3>3. QED
      BY <3>1, <3>2, TrackedKept DEF Tracked
  <2>2. QED
    BY <2>1, HostTracked, AdvanceTracked DEF Next
<1>4. TypeInv /\ (Plain => PlainInv) /\ Plain /\ Tracked /\ [Next]_vars => [Abstract!Next]_(Abstract!vars)
  BY Promised DEF Good
<1>5. QED
  BY <1>1, <1>2, <1>3, <1>4, StreamedTypeCorrect, ScheduleKept, PTL DEF Spec

-----------------------------------------------------------------------------
(* Preparation delivers schedules: the theorems above without hypotheses   *)
(* about the run, for programs executed as they are written.               *)
P == INSTANCE ClosedFormProofs

(* What the proofs about the preparation assume of tensors.                *)
LEMMA TensorsAreIds == Tensors \subseteq Nat /\ P!IsFiniteSet(Tensors) /\ MaxU64 \in Nat
  BY TensorsAssumption, MaxU64Assumption DEF IsFiniteSet, P!IsFiniteSet

(* Programs mean the same to the preparation.                              *)
LEMMA SameWords ==
  ASSUME NEW p
  PROVE  /\ P!Operations(p) = Operations(p)
         /\ \A t : P!Consumers(p, t) = Consumers(p, t) /\ P!Producers(p, t) = Producers(p, t)
         /\ \A t, role : P!HasRole(p, t, role) <=> HasRole(p, t, role)
         /\ \A t : P!Bound(p, t) <=> Bound(p, t)
         /\ P!IsProgram(p) <=> IsProgram(p)
         /\ P!Verified(p) <=> Verified(p)
<1>1. P!Operations(p) = Operations(p)
  BY DEF P!Operations, Operations
<1>2. \A t : P!Consumers(p, t) = Consumers(p, t) /\ P!Producers(p, t) = Producers(p, t)
  BY <1>1 DEF P!Consumers, Consumers, P!Producers, Producers
<1>3. \A t, role : P!HasRole(p, t, role) <=> HasRole(p, t, role)
  BY DEF P!HasRole, HasRole
<1>4. \A t : P!Bound(p, t) <=> Bound(p, t)
  BY <1>3 DEF P!Bound, Bound
<1>5. P!IsProgram(p) <=> IsProgram(p)
  BY <1>1 DEF P!IsProgram, IsProgram, P!Roles, Roles
<1>6. P!Verified(p) <=> Verified(p)
  BY DEF P!Verified, Verified, P!HasRole, HasRole, P!Bound, Bound, P!Operations, Operations,
         P!Producers, Producers
<1>7. QED
  BY <1>1, <1>2, <1>3, <1>4, <1>5, <1>6

(* A verified program: who may write a tensor, and that it comes first.    *)
LEMMA Origins ==
  ASSUME NEW p, IsProgram(p), Verified(p), NEW t \in Tensors
  PROVE  /\ \A i, j \in Producers(p, t) : i = j
         /\ Producers(p, t) # {} => ~Bound(p, t)
         /\ HasRole(p, t, "Streamed") => Bound(p, t)
         /\ HasRole(p, t, "Output") => Bound(p, t) \/ Producers(p, t) # {}
         /\ \A i \in Consumers(p, t) : Bound(p, t) \/ \E j \in Producers(p, t) : j < i
  BY DEF Verified, Producers, Consumers, Bound

LEMMA AsWrittenRun ==
  ASSUME NEW o, P!AsWritten(o)
  PROVE  LET r == P!Prepared(o)
             p == o.program
         IN  /\ r.program = p /\ IsProgram(p) /\ Verified(p)
             /\ r.depth = o.depth /\ r.overlap = o.overlap /\ o.depth > 0 /\ o.depth \in Nat
             /\ r.resident = o.resident /\ r.lazy = (IF o.lazy THEN o.resident ELSE {})
             /\ r.region = {} /\ r.crossing = {} /\ DOMAIN r.width = {} /\ r.followups = {}
             /\ Launches(r) = Operations(p)
             /\ \A i \in Operations(p) : /\ Reads(r, i) = p.inputs[i] /\ Writes(r, i) = p.outputs[i]
                                         /\ r.launch[i].performs = {i}
             /\ \A t \in Tensors :
                  /\ r.root[t] = t
                  /\ r.first[t] = P!FirstUse(o, t)
                  /\ r.release[t] = P!OverwriteWait(o, P!Plan(P!Request(o)), t)
                  /\ Users(r, t) = P!Uses(o, t) /\ Writers(r, t) = Producers(p, t)
                  /\ Uploaded(r, t) <=> Bound(p, t) /\ (HasRole(p, t, "Streamed") =>
                                                          t \in o.resident /\ ~o.lazy)
                  /\ Output(r, t) <=> HasRole(p, t, "Output")
             /\ \A t, u \in Tensors : t # u /\ r.place[t] = r.place[u] => P!Shared(o, t, u)
<1> DEFINE r == P!Prepared(o)
           p == o.program
<1>1. /\ r.program = p /\ r.depth = o.depth /\ r.overlap = o.overlap /\ o.depth > 0
      /\ r.resident = o.resident /\ r.lazy = (IF o.lazy THEN o.resident ELSE {})
      /\ r.region = {} /\ r.crossing = {} /\ DOMAIN r.width = {} /\ r.followups = {}
      /\ r.skipped = {}
      /\ r.launch = [i \in P!Operations(p) |->
             [reads |-> p.inputs[i], writes |-> p.outputs[i], performs |-> {i}]]
      /\ r.root = [t \in Tensors |-> t]
      /\ r.place = [t \in Tensors |-> IF t \in o.resident THEN <<"own", t>>
                                      ELSE <<"slot", P!Plan(P!Request(o)).slot[t]>>]
      /\ r.first = [t \in Tensors |-> P!FirstUse(o, t)]
      /\ r.release = [t \in Tensors |-> P!OverwriteWait(o, P!Plan(P!Request(o)), t)]
  BY TensorsAreIds, P!PreparedFields
<1>2. IsProgram(p) /\ Verified(p) /\ o.depth \in Nat
  BY SameWords DEF P!AsWritten, P!Accepted
<1>3. P!Operations(p) = Operations(p)
  BY SameWords
<1> HIDE DEF r
<1>4. Launches(r) = Operations(p)
  BY <1>1 DEF Launches
<1>5. \A i \in Operations(p) : p.inputs[i] \subseteq Tensors /\ p.outputs[i] \subseteq Tensors
  BY <1>2 DEF IsProgram
<1>6. \A i \in Operations(p) : /\ Reads(r, i) = p.inputs[i] /\ Writes(r, i) = p.outputs[i]
                               /\ r.launch[i].performs = {i}
  BY <1>1, <1>3, <1>5 DEF Reads, Writes, Roots
<1>7. ASSUME NEW t \in Tensors
      PROVE  Users(r, t) = P!Uses(o, t) /\ Writers(r, t) = Producers(p, t)
  <2>1. P!Uses(o, t) = Consumers(p, t) \cup Producers(p, t)
    BY SameWords DEF P!Uses
  <2>2. QED
    BY <1>4, <1>6, <2>1 DEF Users, Writers, Consumers, Producers
<1>8. ASSUME NEW t \in Tensors
      PROVE  Uploaded(r, t) <=> Bound(p, t) /\ (HasRole(p, t, "Streamed") =>
                                                  t \in o.resident /\ ~o.lazy)
  BY <1>1 DEF Uploaded
<1>9. ASSUME NEW t \in Tensors PROVE Output(r, t) <=> HasRole(p, t, "Output")
  BY <1>1 DEF Output
<1>10. ASSUME NEW t \in Tensors, NEW u \in Tensors, t # u, r.place[t] = r.place[u]
       PROVE  P!Shared(o, t, u)
  BY <1>1, <1>10 DEF P!Shared
<1>11. \A t \in Tensors : /\ r.root[t] = t /\ r.first[t] = P!FirstUse(o, t)
                          /\ r.release[t] = P!OverwriteWait(o, P!Plan(P!Request(o)), t)
  BY <1>1
<1>12. QED
  BY <1>1, <1>2, <1>4, <1>6, <1>7, <1>8, <1>9, <1>10, <1>11 DEF r

(* What preparation makes of a verified program as it is written is a      *)
(* schedule.                                                               *)
LEMMA PreparedIsScheduled ==
  ASSUME NEW o, P!AsWritten(o)
  PROVE  Sequential(P!Prepared(o)) /\ Scheduled(P!Prepared(o))
<1> DEFINE r == P!Prepared(o)
           p == o.program
<1>1. /\ r.program = p /\ IsProgram(p) /\ Verified(p)
      /\ r.depth = o.depth /\ r.overlap = o.overlap /\ o.depth > 0 /\ o.depth \in Nat
      /\ r.resident = o.resident /\ r.lazy = (IF o.lazy THEN o.resident ELSE {})
      /\ r.region = {} /\ r.crossing = {} /\ DOMAIN r.width = {} /\ r.followups = {}
      /\ Launches(r) = Operations(p)
  BY AsWrittenRun
<1>2. \A i \in Operations(p) : /\ Reads(r, i) = p.inputs[i] /\ Writes(r, i) = p.outputs[i]
                               /\ r.launch[i].performs = {i}
  BY AsWrittenRun
<1>3. \A t \in Tensors :
        /\ r.root[t] = t
        /\ r.first[t] = P!FirstUse(o, t)
        /\ r.release[t] = P!OverwriteWait(o, P!Plan(P!Request(o)), t)
        /\ Users(r, t) = P!Uses(o, t) /\ Writers(r, t) = Producers(p, t)
        /\ Uploaded(r, t) <=> Bound(p, t) /\ (HasRole(p, t, "Streamed") =>
                                                t \in o.resident /\ ~o.lazy)
        /\ Output(r, t) <=> HasRole(p, t, "Output")
  BY AsWrittenRun
<1>4. \A t, u \in Tensors : t # u /\ r.place[t] = r.place[u] => P!Shared(o, t, u)
  BY AsWrittenRun
<1>5. /\ o.lazy \in BOOLEAN /\ o.overlap \in BOOLEAN /\ o.resident \subseteq Tensors
      /\ \A t \in Tensors : HasRole(p, t, "Streamed") /\ HasRole(p, t, "Output") =>
           t \in o.resident /\ ~o.lazy
  BY SameWords DEF P!AsWritten
<1>6. \A t \in Tensors :
        /\ r.first[t] \in Operations(p) \cup {-1}
        /\ r.first[t] # -1 => /\ HasRole(p, t, "Streamed")
                              /\ t \in o.resident => o.lazy
                              /\ r.first[t] \in Consumers(p, t)
        /\ HasRole(p, t, "Streamed") /\ (t \in o.resident => o.lazy) =>
             \A i \in Consumers(p, t) : r.first[t] # -1 /\ r.first[t] <= i
  <2>1. ASSUME NEW t \in Tensors
        PROVE  /\ P!FirstUse(o, t) \in P!Operations(p) \cup {-1}
               /\ P!FirstUse(o, t) # -1 => /\ P!HasRole(p, t, "Streamed")
                                           /\ t \in o.resident => o.lazy
                                           /\ P!FirstUse(o, t) \in P!Consumers(p, t)
               /\ P!HasRole(p, t, "Streamed") /\ (t \in o.resident => o.lazy) =>
                    \A i \in P!Consumers(p, t) : P!FirstUse(o, t) # -1 /\ P!FirstUse(o, t) <= i
    BY TensorsAreIds, P!FirstUseIs
  <2> HIDE DEF r, p
  <2>2. /\ P!Operations(p) = Operations(p)
        /\ \A t : P!Consumers(p, t) = Consumers(p, t)
        /\ \A t : P!HasRole(p, t, "Streamed") <=> HasRole(p, t, "Streamed")
    BY SameWords
  <2>3. ASSUME NEW t \in Tensors
        PROVE  /\ r.first[t] = P!FirstUse(o, t)
               /\ P!HasRole(p, t, "Streamed") <=> HasRole(p, t, "Streamed")
               /\ P!Consumers(p, t) = Consumers(p, t)
    BY <1>3, <2>2
  <2>4. ASSUME NEW t \in Tensors
        PROVE  /\ r.first[t] \in Operations(p) \cup {-1}
               /\ r.first[t] # -1 => /\ HasRole(p, t, "Streamed")
                                     /\ t \in o.resident => o.lazy
                                     /\ r.first[t] \in Consumers(p, t)
               /\ HasRole(p, t, "Streamed") /\ (t \in o.resident => o.lazy) =>
                    \A i \in Consumers(p, t) : r.first[t] # -1 /\ r.first[t] <= i
    <3>1. P!Operations(p) = Operations(p)
      BY <2>2
    <3>2. QED
      BY <2>1, <2>3, <3>1
  <2>5. QED
    BY <2>4
<1>7. \A t \in Tensors : r.first[t] # -1 =>
        /\ r.release[t] \in Int
        /\ t \in o.resident => r.release[t] = -1
        /\ r.release[t] # -1 => r.release[t] + (IF o.overlap THEN o.depth ELSE 1) <= r.first[t]
  <2>1. ASSUME NEW t \in Tensors, P!FirstUse(o, t) # -1
        PROVE  LET e == P!OverwriteWait(o, P!Plan(P!Request(o)), t)
               IN  /\ e \in Int
                   /\ t \in o.resident => e = -1
                   /\ e # -1 => e + (IF o.overlap THEN o.depth ELSE 1) <= P!FirstUse(o, t)
    BY <2>1, TensorsAreIds, P!ReleaseIs
  <2> HIDE DEF r, p
  <2>2. QED
    BY <1>3, <2>1
<1>8. \A t, u \in Tensors : P!Shared(o, t, u) =>
        /\ P!Over(o, t, u) \/ P!Over(o, u, t)
        /\ P!Passing(p, t) /\ P!Passing(p, u)
  <2>1. ASSUME NEW t \in Tensors, NEW u \in Tensors, P!Shared(o, t, u)
        PROVE  /\ P!Over(o, t, u) \/ P!Over(o, u, t)
               /\ P!Passing(p, t) /\ P!Passing(p, u)
    BY <2>1, TensorsAreIds, P!SharedInTurn
  <2>2. QED
    BY <2>1
<1>9. \A t \in Tensors :
        /\ \A i, j \in Producers(p, t) : i = j
        /\ Producers(p, t) # {} => ~Bound(p, t)
        /\ HasRole(p, t, "Streamed") => Bound(p, t)
        /\ HasRole(p, t, "Output") => Bound(p, t) \/ Producers(p, t) # {}
        /\ \A i \in Consumers(p, t) : Bound(p, t) \/ \E j \in Producers(p, t) : j < i
  BY <1>1, Origins
<1>10. \A i \in Operations(p) : p.inputs[i] \subseteq Tensors /\ p.outputs[i] \subseteq Tensors
  BY <1>1 DEF IsProgram
<1>11. Operations(p) \subseteq Nat
  BY <1>1 DEF IsProgram, Operations
<1>12. \A t, u \in Tensors : P!Over(o, t, u) <=>
          /\ \A i \in Users(r, t) : /\ r.first[u] # -1 => i <= r.release[u]
                                    /\ \A j \in Users(r, u) : i < j
          /\ r.first[t] # -1 => /\ \A j \in Users(r, u) : r.first[t] < j
                                /\ r.first[u] # -1 => r.first[t] < r.first[u]
  BY <1>3 DEF P!Over
<1> HIDE DEF r
<1>13. Sequential(r)
  BY <1>1 DEF Sequential
<1>14. RootsBound(r)
  BY <1>3 DEF RootsBound
<1>15. OperandsComeFirst(r)
  <2>1. SUFFICES ASSUME NEW i \in Operations(p), NEW t \in p.inputs[i]
                 PROVE  \/ Uploaded(r, t)
                        \/ Streamed(r, t) /\ r.first[t] <= i
                        \/ \E j \in Writers(r, t) : j < i
    BY <1>1, <1>2 DEF OperandsComeFirst
  <2>2. t \in Tensors /\ i \in Consumers(p, t)
    BY <1>10 DEF Consumers
  <2>3. CASE ~Bound(p, t)
    BY <1>3, <1>9, <2>2, <2>3
  <2>4. CASE Bound(p, t) /\ ~Uploaded(r, t)
    <3>1. HasRole(p, t, "Streamed") /\ (t \in o.resident => o.lazy)
      BY <1>3, <1>5, <2>2, <2>4
    <3>2. r.first[t] # -1 /\ r.first[t] <= i
      BY <1>6, <2>2, <3>1
    <3>3. QED
      BY <3>2 DEF Streamed, None
  <2>5. QED
    BY <2>3, <2>4
<1>16. WrittenOnce(r)
  <2>1. SUFFICES ASSUME NEW t \in Tensors
                 PROVE  /\ \A i, j \in Writers(r, t) : i = j
                        /\ Writers(r, t) # {} => ~Uploaded(r, t) /\ ~Streamed(r, t)
                        /\ Output(r, t) => Uploaded(r, t) \/ Writers(r, t) # {}
    BY DEF WrittenOnce
  <2>2. Writers(r, t) # {} => ~Uploaded(r, t) /\ ~Streamed(r, t)
    BY <1>3, <1>6, <1>9 DEF Streamed, None
  <2>3. Output(r, t) => Uploaded(r, t) \/ Writers(r, t) # {}
    BY <1>3, <1>5, <1>9
  <2>4. QED
    BY <1>3, <1>9, <2>2, <2>3
<1>17. StreamedByFirst(r)
  <2>1. SUFFICES ASSUME NEW t \in Tensors, r.first[t] # -1
                 PROVE  /\ t \in p.inputs[r.first[t]] /\ r.root[t] = t /\ ~Uploaded(r, t)
                        /\ t \in r.resident => t \in r.lazy /\ r.release[t] = None
                        /\ r.release[t] # None => r.release[t] + Lead(r) <= r.first[t]
    BY <1>1 DEF StreamedByFirst, Streamed, None
  <2>2. t \in p.inputs[r.first[t]]
    BY <1>6, <2>1 DEF Consumers
  <2>3. ~Uploaded(r, t)
    BY <1>3, <1>6, <2>1
  <2>4. t \in r.resident => t \in r.lazy /\ r.release[t] = None
    BY <1>1, <1>6, <1>7, <2>1 DEF None
  <2>5. Lead(r) = IF o.overlap THEN o.depth ELSE 1
    BY <1>1 DEF Lead
  <2>6. QED
    BY <1>3, <1>7, <2>1, <2>2, <2>3, <2>4, <2>5 DEF None
<1>18. ASSUME NEW t \in Tensors, NEW u \in Tensors, P!Shared(o, t, u), P!Over(o, t, u)
       PROVE  Precedes(r, t, u)
  <2>1. t \notin o.resident /\ u \notin o.resident
    BY <1>18 DEF P!Shared
  <2>2. ~Uploaded(r, t) /\ ~Uploaded(r, u) /\ ~Output(r, t)
    <3>1. \A v \in Tensors : P!Passing(p, v) =>
            ~HasRole(p, v, "Output") /\ (Bound(p, v) => HasRole(p, v, "Streamed"))
      BY SameWords DEF P!Passing
    <3>2. P!Passing(p, t) /\ P!Passing(p, u)
      BY <1>8, <1>18
    <3>3. QED
      BY <1>3, <2>1, <3>1, <3>2
  <2>3. ~Lasting(r, t) /\ ~Uploaded(r, u) /\ u \notin r.resident
    BY <1>1, <2>1, <2>2 DEF Lasting
  <2>4. QED
    BY <1>12, <1>18, <2>3 DEF Precedes, Streamed, None
<1>19. SlotsShared(r)
  <2>1. SUFFICES ASSUME NEW t \in Tensors, NEW u \in Tensors, t # u, r.place[t] = r.place[u]
                 PROVE  Precedes(r, t, u) \/ Precedes(r, u, t)
    BY DEF SlotsShared
  <2>2. P!Shared(o, t, u) /\ P!Shared(o, u, t)
    BY <1>4, <2>1
  <2>3. QED
    BY <1>8, <1>18, <2>2
<1>20. UploadsApart(r)
  <2>1. SUFFICES ASSUME NEW t \in Tensors, NEW u \in Tensors, Uploaded(r, t), t # u,
                        r.place[t] = r.place[u]
                 PROVE  FALSE
    BY DEF UploadsApart
  <2>2. P!Shared(o, t, u)
    BY <1>4, <2>1
  <2>3. t \notin o.resident
    BY <2>2 DEF P!Shared
  <2>4. Bound(p, t) => HasRole(p, t, "Streamed")
    <3>1. P!Passing(p, t)
      BY <1>8, <2>2
    <3>2. QED
      BY <3>1, SameWords DEF P!Passing
  <2>5. QED
    BY <1>3, <2>1, <2>3, <2>4
<1>21. PerformedOnce(r)
  <2>1. ASSUME NEW S, S \subseteq Operations(p) PROVE PerformedBy(r, S) = S
    BY <1>2, <2>1 DEF PerformedBy
  <2>2. ASSUME NEW i \in Operations(p), NEW t \in p.inputs[i]
        PROVE  Producers(p, t) \subseteq {j \in Operations(p) : j <= i}
    <3>1. t \in Tensors /\ i \in Consumers(p, t)
      BY <1>10 DEF Consumers
    <3>2. Producers(p, t) \subseteq Operations(p)
      BY DEF Producers
    <3>3. ASSUME NEW j \in Producers(p, t) PROVE j <= i
      <4>1. PICK k \in Producers(p, t) : k < i
        BY <1>9, <3>1
      <4>2. k = j /\ j \in Nat /\ i \in Nat
        BY <1>9, <1>11, <3>1, <3>2
      <4>3. QED
        BY <4>1, <4>2
    <3>4. QED
      BY <3>2, <3>3
  <2>3. \A i \in Launches(r) : \A k \in r.launch[i].performs : \A t \in r.program.inputs[k] :
          Producers(r.program, t) \subseteq PerformedBy(r, {j \in Launches(r) : j <= i})
    <3>1. SUFFICES ASSUME NEW i \in Operations(p), NEW t \in p.inputs[i]
                   PROVE  Producers(p, t) \subseteq PerformedBy(r, {j \in Operations(p) : j <= i})
      BY <1>1, <1>2
    <3>2. PerformedBy(r, {j \in Operations(p) : j <= i}) = {j \in Operations(p) : j <= i}
      BY <2>1
    <3>3. QED
      BY <2>2, <3>2
  <2>4. QED
    BY <1>1, <1>2, <2>1, <2>3 DEF PerformedOnce
<1>22. r.depth > 0
  BY <1>1
<1>23. QED
  BY <1>13, <1>14, <1>15, <1>16, <1>17, <1>19, <1>20, <1>21, <1>22 DEF Scheduled, r

(* Executions of verified programs as they are written, under any accepted *)
(* policy, are schedules; so they can be run.                              *)
AsTheyAreWritten(options) ==
  /\ \A o \in options : P!AsWritten(o)
  /\ Executions = {P!Prepared(o) : o \in options}

LEMMA RunIsScheduled ==
  ASSUME NEW options, AsTheyAreWritten(options)
  PROVE  Spec => []Plain
<1>1. TypeInv => Plain
  BY PreparedIsScheduled DEF TypeInv, AsTheyAreWritten, Plain
<1>2. QED
  BY <1>1, StreamedTypeCorrect, PTL

(* Whatever verified program the preparation accepts and does not lower,   *)
(* with any prefetch distance, ring of buffers, overlap and promoted       *)
(* constants: in the storage that plan_memory's slots give it, every       *)
(* kernel and copy finds its operands, no two streams meet in one place,   *)
(* and the outputs are delivered.  Nothing is assumed about the schedule.  *)
THEOREM PreparedRunsAreSound ==
  ASSUME NEW options, AsTheyAreWritten(options)
  PROVE  Spec => [](OperandsReady /\ NoConflict /\ OutputsDelivered)
<1>1. Spec => []Plain
  BY RunIsScheduled
<1>2. QED
  BY <1>1, KernelsFindOperands, StreamsDoNotRace, OutputsInPlace, PTL

(* And it performs the program: the operations of the iterations in an     *)
(* order that respects what they depend on.                                *)
THEOREM PreparedRunsInOrder ==
  ASSUME NEW options, AsTheyAreWritten(options)
  PROVE  Spec => Abstract!Init /\ [][Abstract!Next]_(Abstract!vars)
<1>1. Spec => []Plain
  BY RunIsScheduled
<1>2. QED
  BY <1>1, RunsInOrder, PTL
=============================================================================
