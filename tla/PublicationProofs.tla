------------------------- MODULE PublicationProofs -------------------------
(***************************************************************************)
(* Publication for every session of commands and any number of processes   *)
(* at work at the same time.                                               *)
(*                                                                         *)
(* The invariant is about two things.  What any file holds, whoever wrote  *)
(* it and however often it was interrupted (Typed, Apart, Parts): a name   *)
(* leads to files that only processes of its kind write, the digest in a   *)
(* database or a package is that of one whole value, and a checkpoint      *)
(* begins with a state of uninterrupted training.  And how far each        *)
(* process has got that nobody else was publishing with (Sole, Drafts):    *)
(* which of its files are drafts, which are in place, and what they hold.  *)
(* From these follow what is loaded (PublishedWhole, LoadedNow), that the  *)
(* files of a package belong together (Paired), and that the database      *)
(* keeps its records (RecordHas, Recorded).                                *)
(***************************************************************************)
EXTENDS Publication, TLAPS

-----------------------------------------------------------------------------
(* What the variables hold.  A file is a sequence of parts of any kind.    *)
IsSeq(c) == Len(c) \in Nat /\ c = [i \in 1 .. Len(c) |-> c[i]]
OutSet(r) == ToSet(Cmd(r).out)
Clean(r)  == OutSet(r) \cap contested = {}
Writing(r) == At(r, "write")

Shaped(x) ==
  x = [pc |-> x.pc, file |-> x.file, inode |-> x.inode, offset |-> x.offset, item |-> x.item,
       value |-> x.value, packed |-> x.packed, loaded |-> x.loaded]

Places(c) ==
  {"off", "done", "failed", "killed"}
    \cup (IF c.tool = "load" THEN {"use"} ELSE {"work", "open", "write", "rename"})
    \cup (IF c.tool = "sample" THEN {"use"} ELSE {})

RunTyped(r) ==
  /\ Shaped(runs[r])
  /\ runs[r].pc \in Places(Cmd(r))
  /\ runs[r].file \in DOMAIN Cmd(r).out
  /\ runs[r].inode \in 0 .. Len(files) /\ (Writing(r) => runs[r].inode # None)
  /\ runs[r].offset \in Nat /\ runs[r].item \in Nat
  /\ IsSeq(runs[r].loaded)
  /\ runs[r].pc \in {"off", "work"} => runs[r].file = 1
  /\ At(r, "off") \/ (Is(r, "sample") /\ runs[r].pc \in {"work", "open", "write", "rename"}) =>
       runs[r].loaded = <<>>
  /\ At(r, "use") => Len(runs[r].loaded) < Len(Cmd(r).out)
  /\ Is(r, "load") /\ At(r, "done") => Len(runs[r].loaded) = 3

FilesTyped ==
  /\ names \in [Paths -> 0 .. Len(files)]
  /\ IsSeq(files) /\ \A i \in 1 .. Len(files) : IsSeq(files[i])

Typed ==
  /\ session \in Sessions /\ FilesTyped
  /\ runs = [r \in Processes |-> runs[r]]
  /\ \A r \in Processes : RunTyped(r)
  /\ \A m \in saved : \E r \in Processes : Is(r, "record") /\ m.in \in OutSet(r)

-----------------------------------------------------------------------------
(* A file has at most one name, and whoever has it open publishes under    *)
(* the name it has: a file that was moved to its final name while another  *)
(* process still wrote it stays with that name.                            *)
Apart ==
  /\ \A p, q \in Paths : p # q /\ Exists(p) => names[p] # names[q]
  /\ \A r \in Processes : Writing(r) =>
       /\ \A p \in Paths : names[p] = runs[r].inode => p[1] = Out(r)
       /\ \A q \in Processes : Writing(q) /\ runs[q].inode = runs[r].inode => Out(q) = Out(r)

(* Processes that publish at the same time publish different, or           *)
(* contested, names.                                                       *)
Sole ==
  /\ \A q, r \in Processes :
       q # r /\ Publishing(q) /\ Publishing(r) => OutSet(q) \cap OutSet(r) \subseteq contested
  /\ \A r \in Processes : Clean(r) \/ OutSet(r) \subseteq contested

-----------------------------------------------------------------------------
(* Whatever was written where: digests are those of one value, apart from  *)
(* a checkpoint's; a checkpoint begins with a state of uninterrupted       *)
(* training.                                                               *)
Uninterrupted(state) ==
  /\ state = [program |-> state.program, steps |-> state.steps, inputs |-> state.inputs]
  /\ state.steps \in Nat /\ state.inputs = [k \in 1 .. state.steps |-> k - 1]
Sound(n, c) ==
  \A i \in DOMAIN c :
    /\ c[i].kind = "first" /\ (\A r \in Processes : n \in OutSet(r) => Is(r, "train"))
         => Uninterrupted(c[i].of)
    /\ c[i].kind = "digest" /\ (\A r \in Processes : n \in OutSet(r) => ~Is(r, "train"))
         => Whole(c[i].of)
Parts ==
  /\ \A p \in Paths : Exists(p) => Sound(p[1], Content(p))
  /\ \A r \in Processes : Writing(r) => Sound(Out(r), files[runs[r].inode])
  /\ \A r \in Processes : Is(r, "train") /\ runs[r].pc \in {"work", "open", "write", "rename"} =>
       Uninterrupted(runs[r].value)

-----------------------------------------------------------------------------
(* The j-th file of a process, as it is when nobody interferes.            *)
Intended(r, j) ==
  CASE ~Is(r, "quantize") -> runs[r].value
    [] Is(r, "quantize") /\ j = 1 -> <<Cmd(r).program>>
    [] Is(r, "quantize") /\ j = 2 -> Cmd(r).items
    [] Is(r, "quantize") /\ j = 3 -> <<Cmd(r).program, Body(Cmd(r).items)>>
Tensors(r, j) == Is(r, "sample") \/ (Is(r, "quantize") /\ j = 2)
Complete(r, j, c) ==
  /\ Len(c) >= 2 /\ SubSeq(c, 1, 2) = Body(Intended(r, j))
  /\ Tensors(r, j) => Len(c) = 2
  /\ ~Tensors(r, j) /\ Cmd(r).out[j] \notin spoiled =>
       Len(c) = 3 /\ c[3] = Digest(Body(Intended(r, j)))

Unpublished(r, j) == Is(r, "record") \/ ~Exists(Final(Cmd(r).out[j]))
Drafted(r, j) ==
  LET p == Partial(Cmd(r).out[j]) IN Exists(p) /\ Complete(r, j, Content(p))
Placed(r, j) ==
  LET p == Final(Cmd(r).out[j]) IN Exists(p) /\ Complete(r, j, Content(p))

(* How far a process has got that is alone with its names: before it       *)
(* writes, while it writes, with the stream it has open, while its files   *)
(* get their names, and when it has returned.                              *)
WorkSole(r) ==
  At(r, "work") /\ ~Is(r, "train") => \A j \in DOMAIN Cmd(r).out : Unpublished(r, j)
WriteSole(r) ==
  runs[r].pc \in {"open", "write"} =>
    /\ \A j \in DOMAIN Cmd(r).out : Unpublished(r, j)
    /\ \A j \in DOMAIN Cmd(r).out : j < runs[r].file => Drafted(r, j)
    /\ Is(r, "quantize") /\ runs[r].file = 3 => runs[r].packed = Body(Cmd(r).items)
StreamSole(r) ==
  Writing(r) =>
    /\ names[Partial(Out(r))] = runs[r].inode
    /\ Len(files[runs[r].inode]) = runs[r].offset /\ runs[r].offset <= Len(Stream(r))
    /\ \A i \in 1 .. runs[r].offset : files[runs[r].inode][i] = Stream(r)[i]
RenameSole(r) ==
  At(r, "rename") =>
    \A j \in DOMAIN Cmd(r).out :
      IF j < runs[r].file THEN Placed(r, j) ELSE Unpublished(r, j) /\ Drafted(r, j)
DoneSole(r) ==
  At(r, "done") /\ Is(r, "quantize") => \A j \in DOMAIN Cmd(r).out : Placed(r, j)
Own(r) == WorkSole(r) /\ WriteSole(r) /\ StreamSole(r) /\ RenameSole(r) /\ DoneSole(r)
Drafts == \A r \in Processes : Clean(r) => Own(r)

-----------------------------------------------------------------------------
(* What follows from it, at every name that was not contested: published   *)
(* files are whole, a loader still sees what it has loaded, the bundle     *)
(* belongs to the shard, and the records are in the database and in what   *)
(* its processes hold.                                                     *)
PublishedWhole ==
  \A n \in Names \ contested : Exists(Final(n)) => Whole(Read(n))
LoadedNow ==
  \A r \in Processes : Is(r, "load") /\ Clean(r) =>
    \A k \in DOMAIN runs[r].loaded :
      LET n == UseOrder(r)[k]
      IN  k \in 1 .. 3 /\ Exists(Final(n)) /\ runs[r].loaded[k] = Entry(n)
Paired ==
  \A r \in Processes : Packs(Cmd(r)) /\ Clean(r) /\ Exists(Final(Cmd(r).out[3])) =>
    Exists(Final(Cmd(r).out[2])) /\ Value(Read(Cmd(r).out[3]))[2] = Read(Cmd(r).out[2])
Recorded ==
  \A m \in saved : m.in \notin contested \cup spoiled =>
    /\ Exists(Final(m.in)) /\ Digested(Content(Final(m.in)))
    /\ m.candidate \in DOMAIN Value(Read(m.in))
    /\ \A r \in Processes : Live(r) /\ m.in \in OutSet(r) => m.candidate \in DOMAIN runs[r].value
RecordHas ==
  \A r \in Processes : Is(r, "record") /\ runs[r].pc \in {"open", "write", "rename"} =>
    Cmd(r).items[runs[r].item] \in DOMAIN runs[r].value

-----------------------------------------------------------------------------
(* Sequences of elements that have no common set.                          *)
LEMMA SeqIs == ASSUME NEW c, IsSeq(c) PROVE c \in Seq({c[i] : i \in 1 .. Len(c)}) /\ DOMAIN c = 1 .. Len(c)
  BY DEF IsSeq

LEMMA SeqBuilt ==
  ASSUME NEW n \in Nat, NEW f, f = [i \in 1 .. n |-> f[i]]
  PROVE  IsSeq(f) /\ Len(f) = n /\ DOMAIN f = 1 .. n
<1>1. f \in Seq({f[i] : i \in 1 .. n})
  OBVIOUS
<1>2. QED
  BY <1>1 DEF IsSeq

LEMMA SeqAppend ==
  ASSUME NEW s, IsSeq(s), NEW e
  PROVE  /\ IsSeq(Append(s, e)) /\ Len(Append(s, e)) = Len(s) + 1
         /\ \A i \in 1 .. Len(s) : Append(s, e)[i] = s[i]
         /\ Append(s, e)[Len(s) + 1] = e
<1> DEFINE S == {s[i] : i \in 1 .. Len(s)} \cup {e}
<1>1. s \in Seq(S) /\ e \in S
  BY SeqIs DEF IsSeq
<1> HIDE DEF S
<1> DEFINE a == Append(s, e)
<1>2. /\ a \in Seq(S) /\ Len(a) = Len(s) + 1 /\ a[Len(s) + 1] = e /\ Len(s) \in Nat
      /\ \A i \in 1 .. Len(s) : a[i] = s[i]
  BY <1>1
<1>3. IsSeq(a)
  <2> HIDE DEF a
  <2>1. Len(a) \in Nat /\ a = [i \in 1 .. Len(a) |-> a[i]]
    BY <1>2
  <2>2. QED
    BY <2>1 DEF IsSeq
<1>4. QED
  BY <1>2, <1>3

LEMMA FirstTwo ==
  ASSUME NEW c, IsSeq(c), Len(c) >= 2
  PROVE  SubSeq(c, 1, 2) = <<c[1], c[2]>>
<1> DEFINE S == {c[i] : i \in 1 .. Len(c)}
           d == SubSeq(c, 1, 2)
<1>1. c \in Seq(S) /\ Len(c) \in Nat
  BY SeqIs DEF IsSeq
<1> HIDE DEF S
<1>2. d \in Seq(S) /\ Len(d) = 2 /\ d[1] = c[1] /\ d[2] = c[2]
  BY <1>1
<1> HIDE DEF d
<1>3. d = [i \in 1 .. 2 |-> d[i]]
  BY <1>2
<1>4. <<c[1], c[2]>> = [i \in 1 .. 2 |-> d[i]]
  BY <1>2
<1>5. QED
  BY <1>3, <1>4 DEF d

LEMMA Bodies ==
  ASSUME NEW v
  PROVE  /\ IsSeq(Body(v)) /\ Len(Body(v)) = 2 /\ Value(Body(v)) = v /\ Whole(Body(v))
         /\ Body(v)[1].kind = "first" /\ Body(v)[1].of = v /\ Body(v)[2].kind = "second"
<1>1. IsSeq(Body(v)) /\ Len(Body(v)) = 2
  BY DEF Body, IsSeq
<1>2. Body(v)[1] = Part("first", v) /\ Body(v)[2] = Part("second", v)
  BY DEF Body
<1>3. QED
  BY <1>1, <1>2 DEF Value, Whole, Part

LEMMA StreamParts ==
  ASSUME NEW r
  PROVE  /\ IsSeq(Stream(r)) /\ Len(Stream(r)) = (IF Kind(r) = "encoded" THEN 3 ELSE 2)
         /\ Stream(r)[1] = Part("first", FileValue(r)) /\ Stream(r)[2] = Part("second", FileValue(r))
         /\ Kind(r) = "encoded" => Stream(r)[3] = Digest(Body(FileValue(r)))
<1>1. CASE Kind(r) = "encoded"
  BY <1>1 DEF Stream, Body, IsSeq
<1>2. CASE Kind(r) # "encoded"
  BY <1>2 DEF Stream, Body, IsSeq
<1>3. QED
  BY <1>1, <1>2

-----------------------------------------------------------------------------
LEMMA SeqDomain ==
  ASSUME NEW S, NEW c \in Seq(S)
  PROVE  DOMAIN c = 1 .. Len(c) /\ \A i \in DOMAIN c : c[i] \in S
  OBVIOUS

(* The commands of a session.                                              *)
LEMMA Commands ==
  ASSUME Typed, NEW r \in Processes
  PROVE  /\ Cmd(r).tool \in {"train", "record", "quantize", "sample", "load"}
         /\ Cmd(r).out \in Seq(Names) /\ DOMAIN Cmd(r).out = 1 .. Len(Cmd(r).out)
         /\ Len(Cmd(r).out) = IF Packs(Cmd(r)) THEN 3 ELSE 1
         /\ \A j \in DOMAIN Cmd(r).out : Cmd(r).out[j] \in OutSet(r) /\ Cmd(r).out[j] \in Names
         /\ \A i, j \in DOMAIN Cmd(r).out : Cmd(r).out[i] = Cmd(r).out[j] => i = j
         /\ \A n \in OutSet(r) : \E j \in DOMAIN Cmd(r).out : n = Cmd(r).out[j]
         /\ OutSet(r) \subseteq Names
         /\ Cmd(r).from \in Names \cup {""} /\ Len(Cmd(r).items) \in Nat
         /\ \A q \in Processes :
              /\ OutSet(q) \cap OutSet(r) # {} =>
                   Cmd(q).out = Cmd(r).out /\ (Packs(Cmd(q)) \/ Cmd(q).tool = Cmd(r).tool)
              /\ Cmd(r).from \in OutSet(q) => Is(q, "train")
<1> DEFINE s == session
<1>1. s \in Sessions /\ r \in DOMAIN s
  BY DEF Typed, Processes
<1>2. /\ s[r].tool \in {"train", "record", "quantize", "sample", "load"}
      /\ s[r].out \in Seq(Names) /\ Len(s[r].out) = (IF Packs(s[r]) THEN 3 ELSE 1)
      /\ IsInjective(s[r].out) /\ s[r].from \in Names \cup {""} /\ Len(s[r].items) \in Nat
      /\ \A q \in DOMAIN s :
           /\ ToSet(s[q].out) \cap ToSet(s[r].out) # {} =>
                s[q].out = s[r].out /\ (Packs(s[q]) \/ s[q].tool = s[r].tool)
           /\ s[r].from \in ToSet(s[q].out) => s[q].tool = "train"
  BY <1>1, SessionsAssumption
<1> HIDE DEF s
<1>3. DOMAIN s[r].out = 1 .. Len(s[r].out) /\ \A i \in DOMAIN s[r].out : s[r].out[i] \in Names
  BY <1>2, SeqDomain
<1>4. \A j \in DOMAIN s[r].out : s[r].out[j] \in ToSet(s[r].out) /\ s[r].out[j] \in Names
  BY <1>3 DEF ToSet
<1>5. \A n \in ToSet(s[r].out) : \E j \in DOMAIN s[r].out : n = s[r].out[j]
  BY DEF ToSet
<1>6. \A i, j \in DOMAIN s[r].out : s[r].out[i] = s[r].out[j] => i = j
  BY <1>2 DEF IsInjective
<1>7. ToSet(s[r].out) \subseteq Names
  BY <1>4, <1>5
<1>8. QED
  BY <1>2, <1>3, <1>4, <1>5, <1>6, <1>7 DEF s, Cmd, OutSet, Processes, Is

(* The name a process is at.                                               *)
LEMMA AtName ==
  ASSUME Typed, NEW r \in Processes
  PROVE  /\ runs[r].file \in DOMAIN Cmd(r).out /\ Out(r) \in OutSet(r) /\ Out(r) \in Names
         /\ Partial(Out(r)) \in Paths /\ Final(Out(r)) \in Paths
         /\ Partial(Out(r)) # Final(Out(r))
<1>1. runs[r].file \in DOMAIN Cmd(r).out
  BY DEF Typed, RunTyped
<1>2. Out(r) \in OutSet(r) /\ Out(r) \in Names
  BY <1>1, Commands DEF Out
<1>3. QED
  BY <1>1, <1>2, PathsAssumption DEF Partial, Final

LEMMA PathNames ==
  /\ \A p \in Paths : p[1] \in Names /\ (p = Final(p[1]) \/ p = Partial(p[1]))
  /\ \A n \in Names : /\ Final(n) \in Paths /\ Partial(n) \in Paths /\ Final(n) # Partial(n)
                      /\ Final(n)[1] = n /\ Partial(n)[1] = n
  BY PathsAssumption DEF Final, Partial

(* What a step of r does to the processes.                                 *)
Ran(r) == /\ runs' = [q \in Processes |-> runs'[q]] /\ session' = session
          /\ \A q \in Processes \ {r} : runs'[q] = runs[q]
          /\ Shaped(runs'[r])
(* ... and what only moves it to another place.                            *)
Same(r, fields) ==
  /\ "file" \in fields => runs'[r].file = runs[r].file
  /\ "inode" \in fields => runs'[r].inode = runs[r].inode
  /\ "offset" \in fields => runs'[r].offset = runs[r].offset
  /\ "item" \in fields => runs'[r].item = runs[r].item
  /\ "value" \in fields => runs'[r].value = runs[r].value
  /\ "packed" \in fields => runs'[r].packed = runs[r].packed
  /\ "loaded" \in fields => runs'[r].loaded = runs[r].loaded

LEMMA GoEffect ==
  ASSUME Typed, NEW r \in Processes, NEW pc, Go(r, pc), session' = session
  PROVE  /\ Ran(r) /\ runs'[r].pc = pc
         /\ Same(r, {"file", "inode", "offset", "item", "value", "packed", "loaded"})
<1>1. runs = [q \in Processes |-> runs[q]] /\ Shaped(runs[r])
  BY DEF Typed, RunTyped
<1>2. QED
  BY <1>1 DEF Go, Ran, Same, Shaped, Processes

-----------------------------------------------------------------------------
(* The operations of the file system.                                      *)
LEMMA OpenFiles ==
  ASSUME FilesTyped, NEW p \in Paths, OpenTruncated(p)
  PROVE  /\ FilesTyped' /\ Len(files') >= Len(files)
         /\ names'[p] = Opened(p) /\ Opened(p) \in 1 .. Len(files') /\ files'[Opened(p)] = <<>>
         /\ \A q \in Paths \ {p} : names'[q] = names[q]
         /\ \A i \in 1 .. Len(files) : i # Opened(p) => files'[i] = files[i]
         /\ Opened(p) = IF Exists(p) THEN names[p] ELSE Len(files) + 1
<1>1. IsSeq(files) /\ DOMAIN files = 1 .. Len(files) /\ Len(files) \in Nat
  BY SeqIs DEF FilesTyped, IsSeq
<1>2. IsSeq(<<>>)
  BY DEF IsSeq
<1>3. CASE Exists(p)
  <2>1. names[p] \in 1 .. Len(files)
    BY <1>3 DEF FilesTyped, Exists, None
  <2>2. names' = names /\ files' = [i \in 1 .. Len(files) |-> IF i = names[p] THEN <<>> ELSE files[i]]
    BY <1>1, <1>3, <2>1 DEF OpenTruncated, IsSeq
  <2>3. IsSeq(files') /\ Len(files') = Len(files)
    BY <1>1, <2>2, SeqBuilt
  <2>4. \A i \in 1 .. Len(files') : IsSeq(files'[i])
    BY <1>2, <2>2, <2>3 DEF FilesTyped
  <2>5. FilesTyped'
    BY <2>2, <2>3, <2>4 DEF FilesTyped
  <2>6. QED
    BY <1>1, <1>3, <2>1, <2>2, <2>3, <2>5 DEF Opened
<1>4. CASE ~Exists(p)
  <2>1. files' = Append(files, <<>>) /\ names' = [names EXCEPT ![p] = Len(files) + 1]
    BY <1>4 DEF OpenTruncated
  <2>2. /\ IsSeq(files') /\ Len(files') = Len(files) + 1 /\ files'[Len(files) + 1] = <<>>
        /\ \A i \in 1 .. Len(files) : files'[i] = files[i]
    BY <1>1, <2>1, SeqAppend
  <2>3. \A i \in 1 .. Len(files') : IsSeq(files'[i])
    BY <1>1, <1>2, <2>2 DEF FilesTyped
  <2>4. names' \in [Paths -> 0 .. Len(files')]
    BY <1>1, <2>1, <2>2 DEF FilesTyped
  <2>5. FilesTyped'
    BY <2>2, <2>3, <2>4 DEF FilesTyped
  <2>6. names'[p] = Len(files) + 1 /\ \A q \in Paths \ {p} : names'[q] = names[q]
    BY <2>1 DEF FilesTyped
  <2>7. QED
    BY <1>1, <1>4, <2>2, <2>5, <2>6 DEF Opened
<1>5. QED
  BY <1>3, <1>4

LEMMA WriteFiles ==
  ASSUME FilesTyped, NEW f \in 1 .. Len(files), NEW offset \in Nat, NEW part, WriteAt(f, offset, part)
  PROVE  /\ FilesTyped' /\ names' = names /\ Len(files') = Len(files)
         /\ \A i \in 1 .. Len(files) : i # f => files'[i] = files[i]
         /\ Len(files'[f]) = IF Len(files[f]) > offset THEN Len(files[f]) ELSE offset + 1
         /\ \A i \in 1 .. Len(files'[f]) : files'[f][i] =
              IF i = offset + 1 THEN part ELSE IF i <= Len(files[f]) THEN files[f][i] ELSE Hole
<1> DEFINE c == files[f]
           n == IF Len(c) > offset THEN Len(c) ELSE offset + 1
           d == [i \in 1 .. n |-> IF i = offset + 1 THEN part ELSE IF i <= Len(c) THEN c[i] ELSE Hole]
<1>1. IsSeq(files) /\ DOMAIN files = 1 .. Len(files) /\ Len(files) \in Nat /\ Len(c) \in Nat
  BY SeqIs DEF FilesTyped, IsSeq
<1>2. files' = [files EXCEPT ![f] = d] /\ names' = names
  BY DEF WriteAt
<1>3. n \in Nat
  BY <1>1
<1> HIDE DEF n
<1>4. IsSeq(d) /\ Len(d) = n
  BY <1>3, SeqBuilt
<1>5. \A i \in 1 .. n : d[i] = IF i = offset + 1 THEN part ELSE IF i <= Len(c) THEN c[i] ELSE Hole
  OBVIOUS
<1> HIDE DEF d
<1>6. files' = [i \in 1 .. Len(files) |-> IF i = f THEN d ELSE files[i]]
  BY <1>1, <1>2 DEF IsSeq
<1>7. IsSeq(files') /\ Len(files') = Len(files)
  BY <1>1, <1>6, SeqBuilt
<1>8. \A i \in 1 .. Len(files') : IsSeq(files'[i])
  BY <1>4, <1>6, <1>7 DEF FilesTyped
<1>9. FilesTyped'
  BY <1>2, <1>7, <1>8 DEF FilesTyped
<1>10. files'[f] = d /\ \A i \in 1 .. Len(files) : i # f => files'[i] = files[i]
  BY <1>6
<1>11. QED
  BY <1>2, <1>4, <1>5, <1>7, <1>9, <1>10 DEF n

LEMMA MoveFiles ==
  ASSUME FilesTyped, NEW p \in Paths, NEW q \in Paths, p # q, Move(p, q)
  PROVE  /\ FilesTyped' /\ files' = files /\ names'[q] = names[p] /\ names'[p] = None
         /\ \A x \in Paths \ {p, q} : names'[x] = names[x]
<1>1. names' = [names EXCEPT ![q] = names[p], ![p] = None] /\ files' = files
  BY DEF Move
<1>2. names' \in [Paths -> 0 .. Len(files)]
  BY <1>1 DEF FilesTyped, None, IsSeq
<1>3. QED
  BY <1>1, <1>2 DEF FilesTyped

LEMMA RemoveFiles ==
  ASSUME FilesTyped, NEW s, RemoveAll(s)
  PROVE  /\ FilesTyped' /\ files' = files
         /\ \A x \in Paths : names'[x] = IF x \in s THEN None ELSE names[x]
<1>1. names' = [x \in Paths |-> IF x \in s THEN None ELSE names[x]] /\ files' = files
  BY DEF RemoveAll
<1>2. names' \in [Paths -> 0 .. Len(files)]
  BY <1>1 DEF FilesTyped, None, IsSeq
<1>3. QED
  BY <1>1, <1>2 DEF FilesTyped

-----------------------------------------------------------------------------
(* A path that a step leaves alone, and the files other names are written  *)
(* to.                                                                     *)
Untouched(p) == names'[p] = names[p] /\ (Exists(p) => files'[names[p]] = files[names[p]])
Elsewhere(n) ==
  \A q \in Processes : Writing(q) /\ Out(q) # n => files'[runs[q].inode] = files[runs[q].inode]

LEMMA FileOf ==
  ASSUME Typed
  PROVE  /\ \A p \in Paths : Exists(p) => names[p] \in 1 .. Len(files)
         /\ \A p \in Paths : names[p] \in Nat
         /\ \A r \in Processes : Writing(r) => runs[r].inode \in 1 .. Len(files)
         /\ Len(files) \in Nat
<1>1. Len(files) \in Nat /\ names \in [Paths -> 0 .. Len(files)]
  BY DEF Typed, FilesTyped, IsSeq
<1>2. \A r \in Processes : runs[r].inode \in 0 .. Len(files) /\ (Writing(r) => runs[r].inode # None)
  BY DEF Typed, RunTyped
<1>3. QED
  BY <1>1, <1>2 DEF Exists, None

LEMMA OpenEffect ==
  ASSUME Typed, Apart, NEW r \in Processes, Open(r)
  PROVE  /\ Ran(r) /\ runs'[r].pc = "write" /\ runs'[r].inode = names'[Partial(Out(r))]
         /\ runs'[r].offset = 0 /\ Same(r, {"file", "item", "value", "packed", "loaded"})
         /\ FilesTyped' /\ Len(files') >= Len(files)
         /\ names'[Partial(Out(r))] \in 1 .. Len(files') /\ files'[names'[Partial(Out(r))]] = <<>>
         /\ \A p \in Paths : p # Partial(Out(r)) => Untouched(p)
         /\ Elsewhere(Out(r))
         /\ Apart'
<1> DEFINE P == Partial(Out(r))
<1>1. P \in Paths /\ P[1] = Out(r)
  BY AtName, PathNames
<1>2. OpenTruncated(P) /\ session' = session
  BY DEF Open, Unchanged
<1>3. runs = [q \in Processes |-> runs[q]] /\ Shaped(runs[r])
  BY DEF Typed, RunTyped
<1>4. /\ Ran(r) /\ runs'[r].pc = "write" /\ runs'[r].inode = Opened(P)
      /\ runs'[r].offset = 0 /\ Same(r, {"file", "item", "value", "packed", "loaded"})
  BY <1>2, <1>3 DEF Open, Ran, Same, Shaped, Processes
<1> HIDE DEF P
<1>5. /\ FilesTyped' /\ Len(files') >= Len(files)
      /\ names'[P] = Opened(P) /\ Opened(P) \in 1 .. Len(files') /\ files'[Opened(P)] = <<>>
      /\ \A q \in Paths \ {P} : names'[q] = names[q]
      /\ \A i \in 1 .. Len(files) : i # Opened(P) => files'[i] = files[i]
      /\ Opened(P) = IF Exists(P) THEN names[P] ELSE Len(files) + 1
  BY <1>1, <1>2, OpenFiles DEF Typed
<1>6. \A p \in Paths : p # P /\ Exists(p) => names[p] # Opened(P)
  BY <1>1, <1>5, FileOf DEF Apart
<1>7. \A q \in Processes : Writing(q) /\ runs[q].inode = Opened(P) => Out(q) = Out(r)
  BY <1>1, <1>5, FileOf DEF Apart
<1>8. \A p \in Paths : p # P => Untouched(p)
  BY <1>5, <1>6, FileOf DEF Untouched
<1>9. Elsewhere(Out(r))
  BY <1>5, <1>7, FileOf DEF Elsewhere
<1>10. \A q \in Processes : Out(q)' = Out(q)
  BY <1>4 DEF Ran, Same, Out, Cmd
<1>11. \A q \in Processes : q # r => (Writing(q)' <=> Writing(q)) /\ runs'[q].inode = runs[q].inode
  BY <1>4 DEF Ran, Writing, At
<1>12. Apart'
  <2>1. \A p, q \in Paths : p # q /\ Exists(p)' => names'[p] # names'[q]
    BY <1>1, <1>5, <1>6, FileOf DEF Apart, Exists, None
  <2>2. ASSUME NEW s \in Processes, Writing(s)', NEW p \in Paths, names'[p] = runs'[s].inode
        PROVE  p[1] = Out(s)'
    <3>1. CASE s = r
      BY <1>1, <1>4, <1>5, <1>6, <1>10, <2>2, <3>1 DEF Exists, None
    <3>2. CASE s # r
      BY <1>1, <1>5, <1>7, <1>10, <1>11, <2>2, <3>2 DEF Apart
    <3>3. QED
      BY <3>1, <3>2
  <2>3. ASSUME NEW s \in Processes, Writing(s)', NEW q \in Processes, Writing(q)',
               runs'[q].inode = runs'[s].inode
        PROVE  Out(q)' = Out(s)'
    BY <1>4, <1>7, <1>10, <1>11, <2>3 DEF Apart
  <2>4. Processes' = Processes
    BY <1>4 DEF Ran, Processes
  <2>5. QED
    BY <2>1, <2>2, <2>3, <2>4 DEF Apart
<1>13. QED
  BY <1>4, <1>5, <1>8, <1>9, <1>12 DEF P

LEMMA ApartStays ==
  ASSUME Typed, Apart, session' = session, \A p \in Paths : names'[p] \in {names[p], None},
         \A s \in Processes : Writing(s)' =>
           Writing(s) /\ runs'[s].inode = runs[s].inode /\ runs'[s].file = runs[s].file
  PROVE  Apart'
<1>1. \A s \in Processes : Writing(s)' => Out(s)' = Out(s) /\ runs'[s].inode # None
  BY DEF Out, Cmd, Typed, RunTyped
<1>2. Processes' = Processes
  BY DEF Processes
<1>3. \A p, q \in Paths : p # q /\ Exists(p)' => names'[p] # names'[q]
  BY DEF Apart, Exists
<1>4. ASSUME NEW s \in Processes, Writing(s)', NEW p \in Paths, names'[p] = runs'[s].inode
      PROVE  p[1] = Out(s)'
  BY <1>1, <1>4 DEF Apart
<1>5. ASSUME NEW s \in Processes, Writing(s)', NEW q \in Processes, Writing(q)',
             runs'[q].inode = runs'[s].inode
      PROVE  Out(q)' = Out(s)'
  BY <1>1, <1>5 DEF Apart
<1>6. QED
  BY <1>2, <1>3, <1>4, <1>5 DEF Apart

LEMMA WriteEffect ==
  ASSUME Typed, Apart, NEW r \in Processes, Write(r)
  PROVE  /\ Ran(r) /\ runs[r].pc = "write" /\ runs'[r].pc = "write"
         /\ runs'[r].offset = runs[r].offset + 1 /\ runs[r].offset < Len(Stream(r))
         /\ Same(r, {"file", "inode", "item", "value", "packed", "loaded"})
         /\ FilesTyped' /\ Len(files') = Len(files) /\ names' = names
         /\ LET f == runs[r].inode
                n == runs[r].offset
            IN  /\ f \in 1 .. Len(files)
                /\ Len(files'[f]) = IF Len(files[f]) > n THEN Len(files[f]) ELSE n + 1
                /\ \A i \in 1 .. Len(files'[f]) : files'[f][i] =
                     IF i = n + 1 THEN Stream(r)[n + 1]
                     ELSE IF i <= Len(files[f]) THEN files[f][i] ELSE Hole
                /\ \A i \in 1 .. Len(files) : i # f => files'[i] = files[i]
         /\ \A p \in Paths : p[1] # Out(r) => Untouched(p)
         /\ Elsewhere(Out(r))
         /\ Apart'
<1> DEFINE f == runs[r].inode
           n == runs[r].offset
           part == Stream(r)[n + 1]
<1>1. runs = [q \in Processes |-> runs[q]] /\ Shaped(runs[r]) /\ n \in Nat /\ Writing(r)
  BY DEF Typed, RunTyped, Write, Writing
<1>2. f \in 1 .. Len(files)
  BY <1>1, FileOf
<1>3. WriteAt(f, n, part) /\ session' = session
  BY DEF Write, Unchanged
<1>4. /\ Ran(r) /\ runs[r].pc = "write" /\ runs'[r].pc = "write"
      /\ runs'[r].offset = runs[r].offset + 1 /\ runs[r].offset < Len(Stream(r))
      /\ Same(r, {"file", "inode", "item", "value", "packed", "loaded"})
  BY <1>1, <1>3 DEF Write, At, Ran, Same, Shaped, Processes
<1> HIDE DEF f, n, part
<1>5. /\ FilesTyped' /\ names' = names /\ Len(files') = Len(files)
      /\ \A i \in 1 .. Len(files) : i # f => files'[i] = files[i]
      /\ Len(files'[f]) = IF Len(files[f]) > n THEN Len(files[f]) ELSE n + 1
      /\ \A i \in 1 .. Len(files'[f]) : files'[f][i] =
           IF i = n + 1 THEN part ELSE IF i <= Len(files[f]) THEN files[f][i] ELSE Hole
  BY <1>1, <1>2, <1>3, WriteFiles DEF Typed
<1>6. \A p \in Paths : p[1] # Out(r) => names[p] # f
  BY <1>1 DEF Apart, f
<1>7. \A p \in Paths : p[1] # Out(r) => Untouched(p)
  BY <1>5, <1>6, FileOf DEF Untouched
<1>8. Elsewhere(Out(r))
  BY <1>1, <1>5, FileOf DEF Elsewhere, Apart, f
<1>9. Apart'
  BY <1>1, <1>4, <1>5, ApartStays DEF Ran, Same, Writing, At
<1>10. QED
  BY <1>2, <1>4, <1>5, <1>7, <1>8, <1>9 DEF f, n, part

(* Steps that leave the files alone.                                       *)
LEMMA FilesKept ==
  ASSUME Typed, Apart, NEW r \in Processes, Ran(r), runs'[r].pc # "write", UNCHANGED <<names, files>>
  PROVE  /\ FilesTyped' /\ Apart' /\ \A p \in Paths : Untouched(p)
         /\ \A n : Elsewhere(n)
<1>1. FilesTyped'
  BY DEF Typed, FilesTyped
<1>2. Apart'
  BY ApartStays DEF Ran, Writing, At
<1>3. QED
  BY <1>1, <1>2 DEF Untouched, Elsewhere

LEMMA CloseEffect ==
  ASSUME Typed, Apart, NEW r \in Processes, Close(r)
  PROVE  /\ Ran(r) /\ runs[r].pc = "write" /\ runs[r].offset = Len(Stream(r))
         /\ runs'[r].pc = (IF LastFile(r) THEN "rename" ELSE "open")
         /\ runs'[r].file = (IF LastFile(r) THEN 1 ELSE runs[r].file + 1)
         /\ runs'[r].packed =
              (IF Kind(r) = "tensors" THEN Content(Partial(Out(r))) ELSE runs[r].packed)
         /\ Same(r, {"inode", "offset", "item", "value", "loaded"})
         /\ FilesTyped' /\ Len(files') = Len(files) /\ names' = names
         /\ Kind(r) = "tensors" => Exists(Partial(Out(r))) /\ Sized(Content(Partial(Out(r))))
         /\ Kind(r) # "checkpoint" => files' = files
         /\ Kind(r) = "checkpoint" =>
              LET c == Content(Partial(Out(r)))
                  d == files'[names[Partial(Out(r))]]
              IN  /\ Exists(Partial(Out(r))) /\ Len(c) >= 2 /\ Len(d) = Len(c) + 1
                  /\ \A i \in 1 .. Len(c) : d[i] = c[i]
                  /\ d[Len(d)] = Digest(SubSeq(c, 1, 2))
         /\ \A p \in Paths : p # Partial(Out(r)) => Untouched(p)
         /\ Elsewhere(Out(r))
         /\ Apart'
<1> DEFINE P == Partial(Out(r))
           c == Content(P)
<1>1. P \in Paths /\ P[1] = Out(r)
  BY AtName, PathNames
<1>2. runs = [q \in Processes |-> runs[q]] /\ Shaped(runs[r]) /\ session' = session
  BY DEF Typed, RunTyped, Close, Unchanged
<1>3. /\ Ran(r) /\ runs[r].pc = "write" /\ runs[r].offset = Len(Stream(r))
      /\ runs'[r].pc = (IF LastFile(r) THEN "rename" ELSE "open")
      /\ runs'[r].file = (IF LastFile(r) THEN 1 ELSE runs[r].file + 1)
      /\ runs'[r].packed = (IF Kind(r) = "tensors" THEN c ELSE runs[r].packed)
      /\ Same(r, {"inode", "offset", "item", "value", "loaded"})
  BY <1>2 DEF Close, AfterFile, At, Ran, Same, Shaped, Processes
<1>4. /\ Kind(r) = "checkpoint" => Exists(P) /\ Len(c) >= 2
      /\ Kind(r) = "tensors" => Exists(P) /\ Sized(c)
      /\ IF Kind(r) = "checkpoint" THEN AppendTo(P, Digest(SubSeq(c, 1, 2)))
         ELSE UNCHANGED <<names, files>>
  BY DEF Close
<1> HIDE DEF P, c
<1>5. names' = names /\ Len(files') = Len(files) /\ FilesTyped'
  <2>1. CASE Kind(r) = "checkpoint"
    <3>1. names[P] \in 1 .. Len(files) /\ Len(c) \in Nat
      BY <1>1, <1>4, <2>1, FileOf DEF c, Content, Typed, FilesTyped, IsSeq
    <3>2. QED
      BY <1>4, <2>1, <3>1, WriteFiles DEF AppendTo, c, Content, Typed
  <2>2. CASE Kind(r) # "checkpoint"
    BY <1>4, <2>2 DEF Typed, FilesTyped
  <2>3. QED
    BY <2>1, <2>2
<1>6. ASSUME Kind(r) = "checkpoint"
      PROVE  LET d == files'[names[P]]
             IN  /\ Exists(P) /\ Len(c) >= 2 /\ Len(d) = Len(c) + 1
                 /\ \A i \in 1 .. Len(c) : d[i] = c[i]
                 /\ d[Len(d)] = Digest(SubSeq(c, 1, 2))
                 /\ \A i \in 1 .. Len(files) : i # names[P] => files'[i] = files[i]
  <2>1. names[P] \in 1 .. Len(files) /\ Len(c) \in Nat
    BY <1>1, <1>4, <1>6, FileOf DEF c, Content, Typed, FilesTyped, IsSeq
  <2>2. WriteAt(names[P], Len(c), Digest(SubSeq(c, 1, 2)))
    BY <1>4, <1>6 DEF AppendTo, c
  <2>3. /\ Len(files'[names[P]]) = Len(c) + 1
        /\ \A i \in 1 .. Len(files'[names[P]]) : files'[names[P]][i] =
              IF i = Len(c) + 1 THEN Digest(SubSeq(c, 1, 2)) ELSE IF i <= Len(c) THEN c[i] ELSE Hole
        /\ \A i \in 1 .. Len(files) : i # names[P] => files'[i] = files[i]
    BY <2>1, <2>2, WriteFiles DEF c, Content, Typed
  <2>4. QED
    BY <1>4, <1>6, <2>1, <2>3
<1>7. \A p \in Paths : p # P => Untouched(p)
  <2>1. CASE Kind(r) = "checkpoint"
    BY <1>1, <1>5, <1>6, <2>1, FileOf DEF Untouched, Apart
  <2>2. CASE Kind(r) # "checkpoint"
    BY <1>4, <2>2 DEF Untouched
  <2>3. QED
    BY <2>1, <2>2
<1>8. Elsewhere(Out(r))
  <2>1. CASE Kind(r) = "checkpoint"
    BY <1>1, <1>5, <1>6, <2>1, FileOf DEF Elsewhere, Apart
  <2>2. CASE Kind(r) # "checkpoint"
    BY <1>4, <2>2 DEF Elsewhere
  <2>3. QED
    BY <2>1, <2>2
<1>9. Apart'
  BY <1>3, <1>5, ApartStays DEF Ran, Writing, At
<1>10. QED
  BY <1>3, <1>4, <1>5, <1>6, <1>7, <1>8, <1>9 DEF P, c

LEMMA CloseShortEffect ==
  ASSUME Typed, Apart, NEW r \in Processes, CloseShort(r)
  PROVE  /\ Ran(r) /\ runs[r].pc = "write" /\ runs[r].offset = 2
         /\ Kind(r) \in {"encoded", "checkpoint"} /\ spoiled' = spoiled \cup {Out(r)}
         /\ runs'[r].pc = (IF LastFile(r) THEN "rename" ELSE "open")
         /\ runs'[r].file = (IF LastFile(r) THEN 1 ELSE runs[r].file + 1)
         /\ Same(r, {"inode", "offset", "item", "value", "packed", "loaded"})
         /\ UNCHANGED <<names, files, session, saved, contested>>
         /\ FilesTyped' /\ Apart' /\ \A p \in Paths : Untouched(p)
         /\ \A n : Elsewhere(n)
<1>1. runs = [q \in Processes |-> runs[q]] /\ Shaped(runs[r]) /\ session' = session
  BY DEF Typed, RunTyped, CloseShort
<1>2. /\ Ran(r) /\ runs[r].pc = "write" /\ runs[r].offset = 2
      /\ runs'[r].pc = (IF LastFile(r) THEN "rename" ELSE "open")
      /\ runs'[r].file = (IF LastFile(r) THEN 1 ELSE runs[r].file + 1)
      /\ Same(r, {"inode", "offset", "item", "value", "packed", "loaded"})
  BY <1>1 DEF CloseShort, AfterFile, At, Ran, Same, Shaped, Processes
<1>3. /\ Kind(r) \in {"encoded", "checkpoint"} /\ spoiled' = spoiled \cup {Out(r)}
      /\ UNCHANGED <<names, files, session, saved, contested>>
  BY DEF CloseShort
<1>4. QED
  BY <1>2, <1>3, FilesKept

LEMMA RenameEffect ==
  ASSUME Typed, Apart, NEW r \in Processes, Rename(r)
  PROVE  /\ Ran(r) /\ runs[r].pc = "rename" /\ Exists(Partial(Out(r)))
         /\ Same(r, {"inode", "offset", "value", "packed", "loaded"})
         /\ \/ /\ ~LastFile(r) /\ runs'[r].pc = "rename" /\ runs'[r].file = runs[r].file + 1
               /\ runs'[r].item = runs[r].item
            \/ /\ LastFile(r) /\ Is(r, "record") /\ runs'[r].pc = "work"
               /\ runs'[r].file = runs[r].file /\ runs'[r].item = runs[r].item + 1
            \/ /\ LastFile(r) /\ runs'[r].pc = (IF Is(r, "sample") THEN "use" ELSE "done")
               /\ runs'[r].file = runs[r].file /\ runs'[r].item = runs[r].item
         /\ FilesTyped' /\ files' = files /\ names'[Partial(Out(r))] = None
         /\ names'[Final(Out(r))] = names[Partial(Out(r))]
         /\ \A p \in Paths : p # Partial(Out(r)) /\ p # Final(Out(r)) => Untouched(p)
         /\ \A n : Elsewhere(n)
         /\ Apart'
<1> DEFINE P == Partial(Out(r))
           F == Final(Out(r))
<1>1. P \in Paths /\ P[1] = Out(r) /\ F \in Paths /\ F[1] = Out(r) /\ P # F
  BY AtName, PathNames
<1>2. runs = [q \in Processes |-> runs[q]] /\ Shaped(runs[r]) /\ session' = session
  BY DEF Typed, RunTyped, Rename
<1>3. runs[r].pc = "rename" /\ Exists(P) /\ Move(P, F)
  BY DEF Rename, At
<1>4. /\ Ran(r) /\ Same(r, {"inode", "offset", "value", "packed", "loaded"})
      /\ \/ /\ ~LastFile(r) /\ runs'[r].pc = "rename" /\ runs'[r].file = runs[r].file + 1
            /\ runs'[r].item = runs[r].item
         \/ /\ LastFile(r) /\ Is(r, "record") /\ runs'[r].pc = "work"
            /\ runs'[r].file = runs[r].file /\ runs'[r].item = runs[r].item + 1
         \/ /\ LastFile(r) /\ runs'[r].pc = (IF Is(r, "sample") THEN "use" ELSE "done")
            /\ runs'[r].file = runs[r].file /\ runs'[r].item = runs[r].item
  <2>1. CASE ~LastFile(r)
    <3>1. runs' = [runs EXCEPT ![r].file = @ + 1]
      BY <2>1 DEF Rename
    <3>2. QED
      BY <1>2, <1>3, <2>1, <3>1 DEF Ran, Same, Shaped, Processes
  <2>2. CASE LastFile(r) /\ Is(r, "record") /\ runs[r].item < Len(Cmd(r).items)
    <3>1. runs' = [runs EXCEPT ![r].pc = "work", ![r].item = @ + 1]
      BY <2>2 DEF Rename
    <3>2. QED
      BY <1>2, <1>3, <2>2, <3>1 DEF Ran, Same, Shaped, Processes
  <2>3. CASE LastFile(r) /\ ~(Is(r, "record") /\ runs[r].item < Len(Cmd(r).items))
    <3>1. Go(r, IF Is(r, "sample") THEN "use" ELSE "done")
      BY <2>3 DEF Rename
    <3>2. QED
      BY <1>2, <1>3, <2>3, <3>1, GoEffect DEF Same
  <2>4. QED
    BY <2>1, <2>2, <2>3
<1> HIDE DEF P, F
<1>5. /\ FilesTyped' /\ files' = files /\ names'[F] = names[P] /\ names'[P] = None
      /\ \A x \in Paths \ {P, F} : names'[x] = names[x]
  BY <1>1, <1>3, MoveFiles DEF Typed
<1>6. \A p \in Paths : p # P /\ p # F => Untouched(p)
  BY <1>5 DEF Untouched
<1>7. \A n : Elsewhere(n)
  BY <1>5 DEF Elsewhere
<1>8. \A s \in Processes : Writing(s)' => s # r /\ Writing(s) /\ runs'[s].inode = runs[s].inode
                                         /\ Out(s)' = Out(s) /\ runs[s].inode # None
  BY <1>2, <1>4 DEF Ran, Writing, At, Out, Cmd, Typed, RunTyped
<1>9. Apart'
  <2>1. \A p, q \in Paths : p # q /\ Exists(p)' => names'[p] # names'[q]
    BY <1>1, <1>5 DEF Apart, Exists
  <2>2. ASSUME NEW s \in Processes, Writing(s)', NEW p \in Paths, names'[p] = runs'[s].inode
        PROVE  p[1] = Out(s)'
    BY <1>1, <1>5, <1>8, <2>2 DEF Apart
  <2>3. ASSUME NEW s \in Processes, Writing(s)', NEW q \in Processes, Writing(q)',
               runs'[q].inode = runs'[s].inode
        PROVE  Out(q)' = Out(s)'
    BY <1>8, <2>3 DEF Apart
  <2>4. Processes' = Processes
    BY <1>2 DEF Processes
  <2>5. QED
    BY <2>1, <2>2, <2>3, <2>4 DEF Apart
<1>10. QED
  BY <1>3, <1>4, <1>5, <1>6, <1>7, <1>9 DEF P, F

LEMMA FailEffect ==
  ASSUME Typed, Apart, NEW r \in Processes, Fail(r)
  PROVE  /\ Ran(r) /\ Live(r) /\ runs'[r].pc = "failed"
         /\ Same(r, {"file", "inode", "offset", "item", "value", "packed", "loaded"})
         /\ FilesTyped' /\ files' = files
         /\ \A p \in Paths : (\A n \in OutSet(r) : p # Partial(n)) => Untouched(p)
         /\ \A n : Elsewhere(n)
         /\ \A p \in Paths : names'[p] \in {names[p], None}
         /\ Apart'
<1>1. Ran(r) /\ Live(r) /\ runs'[r].pc = "failed"
      /\ Same(r, {"file", "inode", "offset", "item", "value", "packed", "loaded"})
  BY GoEffect DEF Fail, Unchanged
<1>2. RemoveAll(Leftover(r))
  BY DEF Fail
<1>3. /\ FilesTyped' /\ files' = files
      /\ \A x \in Paths : names'[x] = IF x \in Leftover(r) THEN None ELSE names[x]
  BY <1>2, RemoveFiles DEF Typed
<1>4. Leftover(r) \subseteq {Partial(n) : n \in OutSet(r)}
  BY DEF Leftover, OutSet
<1>5. \A p \in Paths : (\A n \in OutSet(r) : p # Partial(n)) => Untouched(p)
  BY <1>3, <1>4 DEF Untouched
<1>6. Apart'
  BY <1>1, <1>3, ApartStays DEF Ran, Writing, At
<1>7. QED
  BY <1>1, <1>3, <1>5, <1>6 DEF Elsewhere

LEMMA StartEffect ==
  ASSUME Typed, Apart, NEW r \in Processes, Start(r)
  PROVE  /\ Ran(r) /\ runs[r].pc = "off" /\ Same(r, {"file", "inode", "offset", "item", "packed"})
         /\ UNCHANGED <<names, files, session, saved, spoiled>>
         /\ contested' = contested \cup
              {n \in OutSet(r) : Publishing(r)' /\ \E q \in Processes : Publishing(q) /\ n \in OutSet(q)}
         /\ \/ runs'[r].pc = "failed" /\ Same(r, {"value", "loaded"})
            \/ /\ MayStart(Cmd(r))
               /\ \E s \in StartsFrom(r) : runs'[r].value = s.value /\ runs'[r].loaded = s.loaded
               /\ runs'[r].pc = IF Is(r, "load") \/ (Is(r, "sample") /\ Exists(Final(Out(r))))
                                THEN "use" ELSE "work"
         /\ FilesTyped' /\ Apart' /\ \A p \in Paths : Untouched(p)
         /\ \A n : Elsewhere(n)
<1>1. runs = [q \in Processes |-> runs[q]] /\ Shaped(runs[r]) /\ session' = session
  BY DEF Typed, RunTyped, Start
<1>2. /\ runs[r].pc = "off" /\ UNCHANGED <<names, files, session, saved, spoiled>>
      /\ contested' = contested \cup
           {n \in OutSet(r) : Publishing(r)' /\ \E q \in Processes : Publishing(q) /\ n \in OutSet(q)}
  BY DEF Start, At, OutSet
<1>3. /\ Ran(r) /\ Same(r, {"file", "inode", "offset", "item", "packed"})
      /\ \/ runs'[r].pc = "failed" /\ Same(r, {"value", "loaded"})
         \/ /\ MayStart(Cmd(r))
            /\ \E s \in StartsFrom(r) : runs'[r].value = s.value /\ runs'[r].loaded = s.loaded
            /\ runs'[r].pc = IF Is(r, "load") \/ (Is(r, "sample") /\ Exists(Final(Out(r))))
                             THEN "use" ELSE "work"
  <2>1. CASE MayStart(Cmd(r)) /\ StartsFrom(r) # {}
    <3>1. PICK s \in StartsFrom(r) : runs' = [runs EXCEPT
              ![r].pc = IF Is(r, "load") \/ (Is(r, "sample") /\ Exists(Final(Out(r))))
                        THEN "use" ELSE "work",
              ![r].value = s.value, ![r].loaded = s.loaded]
      BY <2>1 DEF Start
    <3>2. Ran(r) /\ Same(r, {"file", "inode", "offset", "item", "packed"})
      BY <1>1, <3>1 DEF Ran, Same, Shaped, Processes
    <3>3. /\ runs'[r].value = s.value /\ runs'[r].loaded = s.loaded
          /\ runs'[r].pc = IF Is(r, "load") \/ (Is(r, "sample") /\ Exists(Final(Out(r))))
                           THEN "use" ELSE "work"
      BY <1>1, <3>1 DEF Shaped, Processes
    <3>4. QED
      BY <2>1, <3>2, <3>3
  <2>2. CASE ~(MayStart(Cmd(r)) /\ StartsFrom(r) # {})
    <3>1. Go(r, "failed")
      BY <2>2 DEF Start
    <3>2. QED
      BY <1>1, <3>1, GoEffect DEF Same
  <2>3. QED
    BY <2>1, <2>2
<1>4. runs'[r].pc # "write"
  BY <1>3
<1>5. QED
  BY <1>2, <1>3, <1>4, FilesKept

LEMMA WorkEffect ==
  ASSUME Typed, Apart, NEW r \in Processes, Work(r)
  PROVE  /\ Ran(r) /\ runs[r].pc = "work" /\ runs'[r].pc = "open"
         /\ Same(r, {"file", "inode", "offset", "item", "packed", "loaded"})
         /\ Is(r, "train") => Free(Out(r))
         /\ runs'[r].value =
              CASE Is(r, "train") -> Trained(runs[r].value, Len(Cmd(r).items))
                [] Is(r, "record") -> Measured(runs[r].value, Cmd(r).items[runs[r].item], r)
                [] OTHER -> Cmd(r).items
         /\ UNCHANGED <<names, files, session, saved, contested, spoiled>>
         /\ FilesTyped' /\ Apart' /\ \A p \in Paths : Untouched(p)
         /\ \A n : Elsewhere(n)
<1>1. runs = [q \in Processes |-> runs[q]] /\ Shaped(runs[r]) /\ session' = session
  BY DEF Typed, RunTyped, Work, Unchanged
<1> DEFINE v == CASE Is(r, "train") -> Trained(runs[r].value, Len(Cmd(r).items))
                  [] Is(r, "record") -> Measured(runs[r].value, Cmd(r).items[runs[r].item], r)
                  [] OTHER -> Cmd(r).items
<1>2. runs' = [runs EXCEPT ![r].pc = "open", ![r].value = v]
  BY DEF Work
<1> HIDE DEF v
<1>3. /\ Ran(r) /\ runs'[r].pc = "open" /\ runs'[r].value = v
      /\ Same(r, {"file", "inode", "offset", "item", "packed", "loaded"})
  BY <1>1, <1>2 DEF Ran, Same, Shaped, Processes
<1>4. /\ runs[r].pc = "work"
      /\ Is(r, "train") => Free(Out(r))
      /\ UNCHANGED <<names, files, session, saved, contested, spoiled>>
  BY DEF Work, At, Unchanged
<1>5. /\ FilesTyped' /\ Apart' /\ \A p \in Paths : Untouched(p)
      /\ \A n : Elsewhere(n)
  BY <1>3, <1>4, FilesKept
<1>6. runs'[r].value =
        CASE Is(r, "train") -> Trained(runs[r].value, Len(Cmd(r).items))
          [] Is(r, "record") -> Measured(runs[r].value, Cmd(r).items[runs[r].item], r)
          [] OTHER -> Cmd(r).items
  BY <1>3 DEF v
<1>7. QED
  BY <1>3, <1>4, <1>5, <1>6

LEMMA UseEffect ==
  ASSUME Typed, Apart, NEW r \in Processes, Use(r)
  PROVE  /\ Ran(r) /\ runs[r].pc = "use"
         /\ Same(r, {"file", "inode", "offset", "item", "value", "packed"})
         /\ LET k == Len(runs[r].loaded)
                n == UseOrder(r)[k + 1]
            IN  /\ Readable(n, Sized) \/ Readable(n, Digested)
                /\ runs'[r].loaded = Append(runs[r].loaded, Entry(n))
                /\ runs'[r].pc = IF k + 1 = Len(UseOrder(r)) THEN "done" ELSE "use"
         /\ UNCHANGED <<names, files, session, saved, contested, spoiled>>
         /\ FilesTyped' /\ Apart' /\ \A p \in Paths : Untouched(p)
         /\ \A n : Elsewhere(n)
<1>1. runs = [q \in Processes |-> runs[q]] /\ Shaped(runs[r]) /\ session' = session
  BY DEF Typed, RunTyped, Use, Unchanged
<1> DEFINE k == Len(runs[r].loaded)
           n == UseOrder(r)[k + 1]
           l == Append(runs[r].loaded, Entry(n))
           pc == IF k + 1 = Len(UseOrder(r)) THEN "done" ELSE "use"
<1>2. runs' = [runs EXCEPT ![r].loaded = l, ![r].pc = pc] /\ (Readable(n, Sized) \/ Readable(n, Digested))
  BY DEF Use, UseOrder
<1>3. pc # "write"
  OBVIOUS
<1> HIDE DEF l, pc, n
<1>4. /\ Ran(r) /\ runs'[r].pc = pc /\ runs'[r].loaded = l
      /\ Same(r, {"file", "inode", "offset", "item", "value", "packed"})
  BY <1>1, <1>2 DEF Ran, Same, Shaped, Processes
<1>5. /\ runs[r].pc = "use"
      /\ UNCHANGED <<names, files, session, saved, contested, spoiled>>
  BY DEF Use, At, Unchanged
<1>6. /\ FilesTyped' /\ Apart' /\ \A p \in Paths : Untouched(p)
      /\ \A m : Elsewhere(m)
  BY <1>3, <1>4, <1>5, FilesKept
<1>7. QED
  BY <1>2, <1>4, <1>5, <1>6 DEF l, pc, n

LEMMA KillEffect ==
  ASSUME Typed, Apart, NEW r \in Processes, Kill(r)
  PROVE  /\ Ran(r) /\ Live(r) /\ runs'[r].pc = "killed"
         /\ Same(r, {"file", "inode", "offset", "item", "value", "packed", "loaded"})
         /\ UNCHANGED <<names, files, session, saved, contested, spoiled>>
         /\ FilesTyped' /\ Apart' /\ \A p \in Paths : Untouched(p)
         /\ \A n : Elsewhere(n)
<1>1. Ran(r) /\ Live(r) /\ runs'[r].pc = "killed"
      /\ Same(r, {"file", "inode", "offset", "item", "value", "packed", "loaded"})
  BY GoEffect DEF Kill, Unchanged
<1>2. UNCHANGED <<names, files, session, saved, contested, spoiled>>
  BY DEF Kill, Unchanged
<1>3. QED
  BY <1>1, <1>2, FilesKept

(* A step of r only has the types of r to answer for.                      *)
LEMMA TypedAfter ==
  ASSUME Typed, NEW r \in Processes, Ran(r), FilesTyped', Len(files') >= Len(files), RunTyped(r)',
         \A m \in saved' \ saved : Is(r, "record") /\ m.in \in OutSet(r)
  PROVE  Typed'
<1>1. Processes' = Processes /\ session' \in Sessions
  BY DEF Ran, Processes, Typed
<1>2. \A q \in Processes \ {r} : RunTyped(q)'
  <2>1. SUFFICES ASSUME NEW q \in Processes, q # r PROVE RunTyped(q)'
    OBVIOUS
  <2>2. runs'[q] = runs[q] /\ Cmd(q)' = Cmd(q) /\ Len(files) \in Nat /\ Len(files') \in Nat
    BY <2>1 DEF Ran, Cmd, Typed, FilesTyped, IsSeq
  <2>3. RunTyped(q)
    BY DEF Typed
  <2>4. runs'[q].inode \in 0 .. Len(files')
    BY <2>2, <2>3 DEF RunTyped
  <2>5. QED
    BY <2>2, <2>3, <2>4 DEF RunTyped, Writing, At, Is
<1>3. \A m \in saved' : \E q \in Processes : (Is(q, "record") /\ m.in \in OutSet(q))'
  BY DEF Ran, Typed, Is, OutSet, Cmd
<1>4. QED
  BY <1>1, <1>2, <1>3 DEF Ran, Typed

LEMMA StartsTyped ==
  ASSUME Typed, NEW r \in Processes, NEW s \in StartsFrom(r)
  PROVE  /\ IsSeq(s.loaded)
         /\ ~Is(r, "train") /\ ~Is(r, "record") => s.loaded = <<>>
         /\ s.loaded # <<>> =>
              \E n \in Names : /\ Readable(n, Digested) /\ s.value = Value(Read(n))
                               /\ s.loaded = <<Entry(n)>>
                               /\ Is(r, "train") => n = Cmd(r).from
                               /\ Is(r, "record") => n = Out(r)
         /\ Is(r, "record") /\ Exists(Final(Out(r))) => s.loaded # <<>>
         /\ Is(r, "train") /\ s.loaded = <<>> =>
              s.value = [program |-> Cmd(r).program, steps |-> 0, inputs |-> <<>>]
         /\ Is(r, "record") /\ s.loaded = <<>> => s.value = <<>>
<1>1. \A n : IsSeq(<<Entry(n)>>) /\ <<Entry(n)>> # <<>>
  BY DEF IsSeq
<1>2. IsSeq(<<>>)
  BY DEF IsSeq
<1>3. CASE Is(r, "train")
  <2>1. s \in Restored(Cmd(r))
    BY <1>3 DEF StartsFrom, Is
  <2>2. CASE Cmd(r).from = ""
    <3> DEFINE v == [program |-> Cmd(r).program, steps |-> 0, inputs |-> <<>>]
    <3>1. s = [value |-> v, loaded |-> <<>>]
      BY <2>1, <2>2 DEF Restored
    <3>2. s.value = v /\ s.loaded = <<>>
      BY <3>1
    <3>3. QED
      BY <1>2, <1>3, <3>2 DEF Is
  <2>3. CASE Cmd(r).from # ""
    <3>1. Cmd(r).from \in Names
      BY <2>3, Commands
    <3>2. Readable(Cmd(r).from, Digested) /\ s = From(Cmd(r).from)
      BY <2>1, <2>3 DEF Restored
    <3>3. QED
      BY <1>1, <1>3, <3>1, <3>2 DEF From, Is
  <2>4. QED
    BY <2>2, <2>3
<1>4. CASE Is(r, "record")
  <2>1. s \in Database(Out(r))
    BY <1>4 DEF StartsFrom, Is
  <2>2. CASE ~Exists(Final(Out(r)))
    BY <1>2, <1>4, <2>1, <2>2 DEF Database, Is
  <2>3. CASE Exists(Final(Out(r)))
    <3>1. Readable(Out(r), Digested) /\ s = From(Out(r))
      BY <2>1, <2>3 DEF Database
    <3>2. QED
      BY <1>1, <1>4, <3>1, AtName DEF From, Is
  <2>4. QED
    BY <2>2, <2>3
<1>5. CASE ~Is(r, "train") /\ ~Is(r, "record")
  BY <1>2, <1>5 DEF StartsFrom
<1>6. QED
  BY <1>3, <1>4, <1>5

(* The file after the current one.                                         *)
LEMMA NextFile ==
  ASSUME Typed, NEW r \in Processes
  PROVE  /\ ~LastFile(r) => runs[r].file + 1 \in DOMAIN Cmd(r).out
         /\ 1 \in DOMAIN Cmd(r).out
         /\ runs[r].file \in 1 .. Len(Cmd(r).out) /\ Len(Cmd(r).out) \in {1, 3}
         /\ Len(Cmd(r).out) = IF Is(r, "quantize") \/ Is(r, "load") THEN 3 ELSE 1
<1>1. Len(Cmd(r).out) = IF Packs(Cmd(r)) THEN 3 ELSE 1
  BY Commands
<1>2. Len(Cmd(r).out) = IF Is(r, "quantize") \/ Is(r, "load") THEN 3 ELSE 1
  BY <1>1 DEF Packs, Is
<1>3. DOMAIN Cmd(r).out = 1 .. Len(Cmd(r).out)
  BY Commands
<1>4. runs[r].file \in 1 .. Len(Cmd(r).out)
  BY <1>3, AtName
<1>5. QED
  BY <1>2, <1>3, <1>4 DEF LastFile

LEMMA StartTyped == ASSUME Typed, Apart, NEW r \in Processes, Start(r) PROVE Typed'
<1>1. RunTyped(r)
  BY DEF Typed
<1>2. Len(files') = Len(files) /\ Len(files) \in Nat
  BY StartEffect, FileOf
<1>3. Cmd(r)' = Cmd(r)
  BY StartEffect DEF Cmd, Ran
<1>4. runs'[r].pc \in Places(Cmd(r)) /\ runs'[r].pc \notin {"off", "write", "done"}
  BY StartEffect, Commands DEF Places, Is
<1>5. /\ IsSeq(runs'[r].loaded)
      /\ runs'[r].pc = "use" \/ (Is(r, "sample") /\ runs'[r].pc = "work") => runs'[r].loaded = <<>>
  <2>1. CASE runs'[r].pc = "failed" /\ Same(r, {"value", "loaded"})
    BY <1>1, <2>1 DEF RunTyped, Same
  <2>2. CASE \E s \in StartsFrom(r) : runs'[r].value = s.value /\ runs'[r].loaded = s.loaded
    BY <2>2, StartsTyped, StartEffect DEF Is
  <2>3. QED
    BY <2>1, <2>2, StartEffect
<1>6. runs[r].file = 1 /\ 0 < Len(Cmd(r).out)
  BY <1>1, StartEffect, NextFile DEF RunTyped
<1>7. RunTyped(r)'
  BY <1>1, <1>2, <1>3, <1>4, <1>5, <1>6, StartEffect DEF RunTyped, Ran, Same, Writing, At, Is
<1>8. QED
  BY <1>2, <1>7, StartEffect, TypedAfter

LEMMA WorkTyped == ASSUME Typed, Apart, NEW r \in Processes, Work(r) PROVE Typed'
<1>1. RunTyped(r) /\ Cmd(r)' = Cmd(r) /\ Len(files) \in Nat
  BY WorkEffect, FileOf DEF Typed, Cmd, Ran
<1>2. RunTyped(r)'
  BY <1>1, WorkEffect DEF RunTyped, Ran, Same, Writing, At, Is, Places
<1>3. QED
  BY <1>1, <1>2, WorkEffect, TypedAfter

LEMMA OpenTyped == ASSUME Typed, Apart, NEW r \in Processes, Open(r) PROVE Typed'
<1>1. RunTyped(r) /\ Cmd(r)' = Cmd(r) /\ runs[r].pc = "open"
  BY OpenEffect DEF Typed, Cmd, Ran, Open, At
<1>2. runs'[r].inode \in 1 .. Len(files')
  BY OpenEffect
<1>3. runs'[r].inode \in 0 .. Len(files') /\ runs'[r].inode # 0
  BY <1>2
<1>4. RunTyped(r)'
  BY <1>1, <1>3, OpenEffect DEF RunTyped, Ran, Same, Writing, At, Is, Places, None
<1>5. saved' = saved
  BY DEF Open, Unchanged
<1>6. QED
  BY <1>4, <1>5, OpenEffect, TypedAfter

LEMMA WriteTyped == ASSUME Typed, Apart, NEW r \in Processes, Write(r) PROVE Typed'
<1>1. RunTyped(r) /\ Cmd(r)' = Cmd(r) /\ Len(files) \in Nat
  BY WriteEffect, FileOf DEF Typed, Cmd, Ran
<1>2. Len(files') = Len(files)
  BY WriteEffect
<1>3. runs'[r].offset \in Nat
  BY <1>1, WriteEffect DEF RunTyped
<1>4. RunTyped(r)'
  BY <1>1, <1>2, <1>3, WriteEffect DEF RunTyped, Ran, Same, Writing, At, Is
<1>5. saved' = saved
  BY DEF Write, Unchanged
<1>6. QED
  BY <1>1, <1>2, <1>4, <1>5, WriteEffect, TypedAfter

LEMMA CloseTyped ==
  ASSUME Typed, Apart, NEW r \in Processes, Close(r) \/ CloseShort(r)
  PROVE  Typed'
<1>1. RunTyped(r) /\ Cmd(r)' = Cmd(r) /\ Len(files) \in Nat /\ Len(files') = Len(files) /\ Ran(r)
  BY CloseEffect, CloseShortEffect, FileOf DEF Typed, Cmd, Ran
<1>2. /\ runs[r].pc = "write" /\ runs'[r].pc \in {"rename", "open"}
      /\ runs'[r].file = (IF LastFile(r) THEN 1 ELSE runs[r].file + 1)
      /\ Same(r, {"inode", "offset", "item", "loaded"})
  BY CloseEffect, CloseShortEffect DEF Same
<1>3. runs'[r].file \in DOMAIN Cmd(r).out
  BY <1>2, NextFile
<1>4. RunTyped(r)'
  BY <1>1, <1>2, <1>3 DEF RunTyped, Ran, Same, Writing, At, Is, Places
<1>5. saved' = saved
  BY DEF Close, CloseShort, Unchanged
<1>6. FilesTyped'
  BY CloseEffect, CloseShortEffect
<1>7. QED
  BY <1>1, <1>4, <1>5, <1>6, TypedAfter

LEMMA RenameTyped == ASSUME Typed, Apart, NEW r \in Processes, Rename(r) PROVE Typed'
<1>1. RunTyped(r) /\ Cmd(r)' = Cmd(r) /\ Len(files) \in Nat /\ Len(files') = Len(files)
  BY RenameEffect, FileOf DEF Typed, Cmd, Ran
<1>2. runs'[r].file \in DOMAIN Cmd(r).out
  BY RenameEffect, NextFile
<1>3. runs'[r].pc \in Places(Cmd(r)) /\ runs'[r].pc \notin {"off", "write"}
  BY <1>1, RenameEffect DEF Places, RunTyped, Is
<1>4. runs'[r].item \in Nat
  BY <1>1, RenameEffect DEF RunTyped
<1>5. runs'[r].pc = "work" => runs'[r].file = 1
  BY RenameEffect, NextFile DEF Is, Packs, LastFile
<1>6. runs'[r].pc = "use" => Len(runs'[r].loaded) < Len(Cmd(r).out)
  BY <1>1, RenameEffect, NextFile DEF RunTyped, Is, Same
<1>7. ~Is(r, "load") /\ (runs'[r].pc = "work" => Is(r, "record"))
  BY <1>1, RenameEffect DEF Places, RunTyped, Is
<1>8. Same(r, {"inode", "offset", "loaded"}) /\ Ran(r)
  BY RenameEffect DEF Same
<1>9. RunTyped(r)'
  BY <1>1, <1>2, <1>3, <1>4, <1>5, <1>6, <1>7, <1>8, RenameEffect DEF RunTyped, Ran, Same, Writing, At, Is
<1>10. \A m \in saved' \ saved : Is(r, "record") /\ m.in \in OutSet(r)
  BY AtName DEF Rename
<1>11. QED
  BY <1>1, <1>9, <1>10, RenameEffect, TypedAfter

LEMMA Orders ==
  ASSUME Typed, NEW r \in Processes, runs[r].pc = "use"
  PROVE  /\ Len(UseOrder(r)) = Len(Cmd(r).out) /\ Len(runs[r].loaded) \in Nat
         /\ Len(runs[r].loaded) + 1 \in 1 .. Len(UseOrder(r))
         /\ \A k \in 1 .. Len(UseOrder(r)) : UseOrder(r)[k] \in OutSet(r)
         /\ IsSeq(runs[r].loaded)
<1>1. RunTyped(r) /\ IsSeq(runs[r].loaded) /\ Len(runs[r].loaded) < Len(Cmd(r).out)
  BY DEF Typed, RunTyped, At
<1>2. Len(runs[r].loaded) \in Nat
  BY <1>1 DEF IsSeq
<1>3. DOMAIN Cmd(r).out = 1 .. Len(Cmd(r).out) /\ \A j \in DOMAIN Cmd(r).out : Cmd(r).out[j] \in OutSet(r)
  BY Commands
<1>4. /\ Len(Cmd(r).out) \in Nat
      /\ \A j \in 1 .. Len(Cmd(r).out) : Cmd(r).out[j] \in OutSet(r)
      /\ Is(r, "load") => Len(Cmd(r).out) = 3
  BY <1>3, NextFile
<1>5. Len(UseOrder(r)) = Len(Cmd(r).out)
  BY <1>4 DEF UseOrder
<1>6. \A k \in 1 .. Len(UseOrder(r)) : UseOrder(r)[k] \in OutSet(r)
  <2>1. CASE Is(r, "load")
    <3>1. \A k \in 1 .. 3 : UseOrder(r)[k] \in {Cmd(r).out[1], Cmd(r).out[2], Cmd(r).out[3]}
      BY <2>1 DEF UseOrder
    <3>2. QED
      BY <1>4, <1>5, <2>1, <3>1
  <2>2. CASE ~Is(r, "load")
    BY <1>4, <2>2 DEF UseOrder
  <2>3. QED
    BY <2>1, <2>2
<1>7. QED
  BY <1>1, <1>2, <1>4, <1>5, <1>6

LEMMA UseTyped == ASSUME Typed, Apart, NEW r \in Processes, Use(r) PROVE Typed'
<1>1. RunTyped(r) /\ Cmd(r)' = Cmd(r) /\ Len(files) \in Nat /\ Len(files') = Len(files)
  BY UseEffect, FileOf DEF Typed, Cmd, Ran
<1> DEFINE k == Len(runs[r].loaded)
           l == runs'[r].loaded
           e == Entry(UseOrder(r)[k + 1])
<1>2. runs[r].pc = "use" /\ l = Append(runs[r].loaded, e)
      /\ runs'[r].pc = (IF k + 1 = Len(UseOrder(r)) THEN "done" ELSE "use")
  BY UseEffect
<1> HIDE DEF e
<1>3. IsSeq(l) /\ Len(l) = k + 1
  BY <1>2, Orders, SeqAppend
<1> HIDE DEF l
<1>4. /\ runs'[r].pc = "use" => Len(l) < Len(Cmd(r).out)
      /\ Is(r, "load") /\ runs'[r].pc = "done" => Len(l) = 3
  BY <1>2, <1>3, Orders, NextFile
<1>5. runs'[r].pc \in {"use", "done"} /\ runs'[r].pc \in Places(Cmd(r))
  BY <1>1, <1>2 DEF RunTyped, Places, At
<1>6. RunTyped(r)'
  BY <1>1, <1>3, <1>4, <1>5, UseEffect DEF RunTyped, Ran, Same, Writing, At, Is, l
<1>7. QED
  BY <1>1, <1>6, UseEffect, TypedAfter

LEMMA EndTyped ==
  ASSUME Typed, Apart, NEW r \in Processes, Fail(r) \/ Kill(r)
  PROVE  Typed'
<1>1. RunTyped(r) /\ Cmd(r)' = Cmd(r) /\ Len(files) \in Nat /\ Len(files') = Len(files) /\ Ran(r)
  BY FailEffect, KillEffect, FileOf DEF Typed, Cmd, Ran
<1>2. /\ runs'[r].pc \in {"failed", "killed"}
      /\ Same(r, {"file", "inode", "offset", "item", "value", "packed", "loaded"})
  BY FailEffect, KillEffect
<1>3. RunTyped(r)'
  BY <1>1, <1>2 DEF RunTyped, Ran, Same, Writing, At, Is, Places
<1>4. saved' = saved /\ FilesTyped'
  BY FailEffect, KillEffect DEF Fail, Unchanged
<1>5. QED
  BY <1>1, <1>3, <1>4, TypedAfter

LEMMA TidyEffect ==
  ASSUME Typed, Apart, Tidy
  PROVE  /\ FilesTyped' /\ Apart' /\ Typed' /\ files' = files
         /\ UNCHANGED <<session, runs, saved, contested, spoiled>>
         /\ \A q \in Processes : ~Live(q)
         /\ \A n \in Names : Untouched(Final(n))
         /\ \A p \in Paths : names'[p] \in {names[p], None}
<1>1. PICK n \in Names : RemoveAll({Partial(n)})
  BY DEF Tidy
<1>2. /\ FilesTyped' /\ files' = files
      /\ \A x \in Paths : names'[x] = IF x \in {Partial(n)} THEN None ELSE names[x]
  BY <1>1, RemoveFiles DEF Typed
<1>3. UNCHANGED <<session, runs, saved, contested, spoiled>> /\ \A q \in Processes : ~Live(q)
  BY DEF Tidy, Unchanged
<1>4. \A m \in Names : Untouched(Final(m))
  BY <1>2, PathNames DEF Untouched, Final, Partial
<1>5. Apart'
  BY <1>2, <1>3, ApartStays DEF Writing, At
<1>6. Typed'
  <2>1. Processes' = Processes /\ \A r \in Processes : RunTyped(r)'
    BY <1>2, <1>3 DEF Typed, RunTyped, Processes, Cmd, Is, At, Writing, Live
  <2>2. QED
    BY <1>2, <1>3, <2>1 DEF Typed, OutSet, Cmd, Is
<1>7. QED
  BY <1>2, <1>3, <1>4, <1>5, <1>6

LEMMA StepTyped == ASSUME Typed, Apart, NEW r \in Processes, Step(r) PROVE Typed' /\ Apart'
<1>1. Typed'
  BY StartTyped, WorkTyped, OpenTyped, WriteTyped, CloseTyped, RenameTyped, UseTyped, EndTyped
  DEF Step
<1>2. Apart'
  BY StartEffect, WorkEffect, OpenEffect, WriteEffect, CloseEffect, CloseShortEffect, RenameEffect,
     UseEffect, FailEffect, KillEffect DEF Step
<1>3. QED
  BY <1>1, <1>2

LEMMA NothingTyped ==
  ASSUME Typed, Apart, UNCHANGED vars
  PROVE  Typed' /\ Apart'
<1>1. FilesTyped' /\ Apart'
  BY DEF vars, Typed, FilesTyped, Apart, Exists, Writing, At, Out, Cmd, Processes
<1>2. Processes' = Processes /\ \A r \in Processes : RunTyped(r)'
  BY DEF vars, Typed, RunTyped, Processes, Cmd, Is, At, Writing, Live
<1>3. QED
  BY <1>1, <1>2 DEF vars, Typed, OutSet, Cmd, Is

LEMMA NextTyped == Typed /\ Apart /\ [Next]_vars => Typed' /\ Apart'
  BY StepTyped, TidyEffect, NothingTyped DEF Next, Finished

LEMMA InitTyped == Init => Typed /\ Apart
<1> SUFFICES ASSUME Init PROVE Typed /\ Apart
  OBVIOUS
<1>1. names = [p \in Paths |-> None] /\ files = <<>> /\ session \in Sessions
      /\ runs = [r \in Processes |-> Idle] /\ saved = {}
  BY DEF Init, NoFiles
<1>2. IsSeq(<<>>) /\ Len(<<>>) = 0
  BY DEF IsSeq
<1>3. FilesTyped
  BY <1>1, <1>2 DEF FilesTyped, None
<1>4. \A r \in Processes : 1 \in DOMAIN Cmd(r).out
  <2>1. SUFFICES ASSUME NEW r \in Processes PROVE 1 \in DOMAIN Cmd(r).out
    OBVIOUS
  <2>2. /\ session[r].out \in Seq(Names)
        /\ Len(session[r].out) = (IF Packs(session[r]) THEN 3 ELSE 1)
    BY <1>1, SessionsAssumption DEF Processes
  <2>3. DOMAIN session[r].out = 1 .. Len(session[r].out)
    BY <2>2, SeqDomain
  <2>4. QED
    BY <2>2, <2>3 DEF Cmd
<1>5. \A r \in Processes : RunTyped(r)
  <2>1. SUFFICES ASSUME NEW r \in Processes PROVE RunTyped(r)
    OBVIOUS
  <2>2. runs[r] = Idle
    BY <1>1
  <2>3. Shaped(Idle)
    BY DEF Idle, Shaped
  <2>4. QED
    BY <1>1, <1>2, <1>4, <2>2, <2>3 DEF RunTyped, Idle, Writing, At, Is, Places, None
<1>6. Typed
  BY <1>1, <1>3, <1>5 DEF Typed
<1>7. Apart
  BY <1>1 DEF Apart, Exists, None, Writing, At, Idle
<1>8. QED
  BY <1>6, <1>7

-----------------------------------------------------------------------------
(* Any step of a process: it leaves other processes and the files of other *)
(* names alone.                                                            *)
LEMMA StepFrame ==
  ASSUME Typed, Apart, NEW r \in Processes, Step(r)
  PROVE  /\ Ran(r) /\ contested \subseteq contested' /\ spoiled \subseteq spoiled'
         /\ Start(r) \/ (Live(r) /\ contested' = contested)
         /\ Start(r) \/ (Publishing(r)' => Publishing(r))
         /\ \A p \in Paths : p[1] \notin OutSet(r) => Untouched(p)
         /\ \A q \in Processes : Writing(q) /\ Out(q) \notin OutSet(r) =>
              files'[runs[q].inode] = files[runs[q].inode]
         /\ Len(files') >= Len(files)
<1>1. Out(r) \in OutSet(r) /\ Partial(Out(r))[1] = Out(r) /\ Final(Out(r))[1] = Out(r)
      /\ Len(files) \in Nat
  BY AtName, PathNames, FileOf
<1>2. CASE Start(r)
  BY <1>1, <1>2, StartEffect DEF Elsewhere
<1>3. CASE Work(r)
  BY <1>1, <1>3, WorkEffect DEF Elsewhere, Live, Publishing
<1>4. CASE Open(r)
  BY <1>1, <1>4, OpenEffect DEF Elsewhere, Live, Publishing, Open, At, Unchanged
<1>5. CASE Write(r)
  <2>1. /\ Ran(r) /\ runs[r].pc = "write" /\ Len(files') = Len(files) /\ Elsewhere(Out(r))
        /\ \A p \in Paths : p[1] # Out(r) => Untouched(p)
    BY <1>5, WriteEffect
  <2>2. contested' = contested /\ spoiled' = spoiled
    BY <1>5 DEF Write, Unchanged
  <2>3. QED
    BY <1>1, <2>1, <2>2 DEF Elsewhere, Live, Publishing
<1>6. CASE Close(r)
  BY <1>1, <1>6, CloseEffect DEF Elsewhere, Live, Publishing, Close, Unchanged
<1>7. CASE CloseShort(r)
  BY <1>1, <1>7, CloseShortEffect DEF Elsewhere, Live, Publishing
<1>8. CASE Rename(r)
  <2>1. /\ Ran(r) /\ runs[r].pc = "rename" /\ files' = files /\ Elsewhere(Out(r))
        /\ \A p \in Paths : p # Partial(Out(r)) /\ p # Final(Out(r)) => Untouched(p)
    BY <1>8, RenameEffect
  <2>2. contested' = contested /\ spoiled' = spoiled
    BY <1>8 DEF Rename
  <2>3. QED
    BY <1>1, <2>1, <2>2 DEF Elsewhere, Live, Publishing
<1>9. CASE Use(r)
  BY <1>1, <1>9, UseEffect DEF Elsewhere, Live, Publishing
<1>10. CASE Fail(r)
  <2>1. \A p \in Paths : p[1] \notin OutSet(r) => \A n \in OutSet(r) : p # Partial(n)
    BY DEF Partial
  <2>2. QED
    BY <1>1, <1>10, <2>1, FailEffect DEF Elsewhere, Publishing, Fail, Unchanged
<1>11. CASE Kill(r)
  BY <1>1, <1>11, KillEffect DEF Elsewhere, Publishing
<1>12. QED
  BY <1>2, <1>3, <1>4, <1>5, <1>6, <1>7, <1>8, <1>9, <1>10, <1>11 DEF Step

(* Names are shared by processes of one kind.                              *)
LEMMA Unshared ==
  ASSUME Typed, NEW q \in Processes, NEW r \in Processes, OutSet(q) \cap OutSet(r) # {}
  PROVE  /\ OutSet(q) = OutSet(r) /\ Cmd(q).out = Cmd(r).out
         /\ Is(r, "train") <=> Is(q, "train")
         /\ Is(r, "record") <=> Is(q, "record")
         /\ Packs(Cmd(r)) <=> Packs(Cmd(q))
<1>1. /\ Cmd(q).out = Cmd(r).out /\ (Packs(Cmd(q)) \/ Cmd(q).tool = Cmd(r).tool)
      /\ Packs(Cmd(r)) \/ Cmd(q).tool = Cmd(r).tool
  BY Commands
<1>2. QED
  BY <1>1 DEF OutSet, Is, Packs

(* Who only reads changes no file, when it starts, goes on or ends.        *)
LEMMA ReaderFrame ==
  ASSUME Typed, Apart, NEW r \in Processes, Step(r), ~Publishing(r)
  PROVE  files' = files /\ \A p \in Paths : Untouched(p)
<1>1. Start(r) \/ Use(r) \/ Fail(r) \/ Kill(r)
  BY DEF Step, Publishing, Work, Open, Write, Close, CloseShort, Rename, At
<1>2. CASE Start(r)
  BY <1>2, StartEffect
<1>3. CASE Use(r)
  BY <1>3, UseEffect
<1>4. CASE Fail(r)
  <2>1. Leftover(r) = {}
    BY DEF Leftover, Publishing
  <2>2. files' = files /\ \A x \in Paths : names'[x] = names[x]
    BY <1>4, <2>1, RemoveFiles DEF Fail, Typed
  <2>3. QED
    BY <2>2 DEF Untouched
<1>5. CASE Kill(r)
  BY <1>5, KillEffect
<1>6. QED
  BY <1>1, <1>2, <1>3, <1>4, <1>5

(* Processes that start to publish the names of one that does contest      *)
(* them.                                                                   *)
LEMMA SoleStep == ASSUME Typed, Apart, Sole, NEW r \in Processes, Step(r) PROVE Sole'
<1>1. /\ Ran(r) /\ contested \subseteq contested' /\ (Start(r) \/ contested' = contested)
      /\ Start(r) \/ (Publishing(r)' => Publishing(r))
  BY StepFrame
<1>2. Processes' = Processes /\ \A q \in Processes : OutSet(q)' = OutSet(q)
  BY <1>1 DEF Ran, Processes, OutSet, Cmd
<1>3. \A q \in Processes : q # r => (Publishing(q)' <=> Publishing(q))
  BY <1>1 DEF Ran, Publishing
<1> DEFINE more ==
      {n \in OutSet(r) : Publishing(r)' /\ \E t \in Processes : Publishing(t) /\ n \in OutSet(t)}
<1>4. Start(r) => contested' = contested \cup more
  BY StartEffect
<1>5. ASSUME NEW q \in Processes, NEW s \in Processes, q # s, Publishing(q)', Publishing(s)'
      PROVE  OutSet(q) \cap OutSet(s) \subseteq contested'
  <2>1. CASE Start(r)
    <3>1. CASE q # r /\ s # r
      BY <1>1, <1>3, <1>5, <3>1 DEF Sole
    <3>2. CASE q = r \/ s = r
      BY <1>3, <1>4, <1>5, <2>1, <3>2
    <3>3. QED
      BY <3>1, <3>2
  <2>2. CASE ~Start(r)
    BY <1>1, <1>3, <1>5, <2>2 DEF Sole
  <2>3. QED
    BY <2>1, <2>2
<1>6. ASSUME NEW s \in Processes PROVE Clean(s)' \/ OutSet(s) \subseteq contested'
  <2>1. CASE Start(r)
    <3>1. CASE OutSet(s) \cap more = {}
      BY <1>2, <1>4, <2>1, <3>1 DEF Sole, Clean
    <3>2. CASE OutSet(s) \cap more # {}
      <4>1. PICK t \in Processes : /\ Publishing(r)' /\ Publishing(t)
                                   /\ OutSet(r) \cap OutSet(t) # {} /\ OutSet(s) \cap OutSet(r) # {}
        BY <3>2
      <4>2. OutSet(t) = OutSet(r) /\ OutSet(s) = OutSet(r)
        BY <4>1, Unshared
      <4>3. more = OutSet(r)
        BY <4>1, <4>2
      <4>4. QED
        BY <1>4, <2>1, <4>2, <4>3
    <3>3. QED
      BY <3>1, <3>2
  <2>2. CASE contested' = contested
    BY <1>2, <2>2 DEF Sole, Clean
  <2>3. QED
    BY <1>1, <2>1, <2>2
<1>7. QED
  BY <1>2, <1>5, <1>6 DEF Sole

LEMMA SoleOther ==
  ASSUME Sole, UNCHANGED <<session, runs, contested>>
  PROVE  Sole'
  BY DEF Sole, Clean, OutSet, Cmd, Publishing, Processes

-----------------------------------------------------------------------------
(* What the files hold, whoever wrote them.                                *)
LEMMA Resumable ==
  ASSUME NEW state, Uninterrupted(state), NEW k \in Nat
  PROVE  Uninterrupted(Trained(state, k))
<1> DEFINE i == [j \in 1 .. k |-> StepInput(state, j - 1)]
           a == state.inputs
           n == state.steps
           b == [j \in 1 .. n + k |-> j - 1]
           new == Trained(state, k)
<1>1. n \in Nat /\ a = [j \in 1 .. n |-> j - 1]
  BY DEF Uninterrupted
<1>2. a \in Seq(Nat) /\ Len(a) = n
  BY <1>1
<1>3. i = [j \in 1 .. k |-> n + (j - 1)]
  BY DEF StepInput
<1> HIDE DEF i, n, a
<1>4. i \in Seq(Nat) /\ Len(i) = k
  <2>1. \A j \in 1 .. k : n + (j - 1) \in Nat
    BY <1>1
  <2>2. QED
    BY <1>3, <2>1
<1>5. b \in Seq(Nat) /\ Len(b) = n + k /\ b = [j \in 1 .. n + k |-> b[j]]
  BY <1>1
<1> USE DEF i, n, a
<1>6. new = [state EXCEPT !.steps = n + k, !.inputs = a \o i]
  BY DEF Trained
<1>7. new = [program |-> new.program, steps |-> new.steps, inputs |-> new.inputs]
      /\ new.steps = n + k /\ new.inputs = a \o i
  BY <1>6 DEF Uninterrupted
<1> HIDE DEF a, n, b, i, new
<1>8. a \o i \in Seq(Nat) /\ Len(a \o i) = n + k
  BY <1>2, <1>4
<1>9. \A j \in 1 .. n + k : (a \o i)[j] = b[j]
  <2>1. SUFFICES ASSUME NEW j \in 1 .. n + k PROVE (a \o i)[j] = b[j]
    OBVIOUS
  <2>2. (a \o i)[j] = IF j <= n THEN a[j] ELSE i[j - n]
    BY <1>1, <1>2, <1>4
  <2>3. CASE j <= n
    BY <1>1, <2>2, <2>3 DEF b
  <2>4. CASE ~(j <= n)
    <3>1. j - n \in 1 .. k /\ j - n \in Int /\ n + ((j - n) - 1) = j - 1
      BY <1>1, <2>4
    <3>2. i[j - n] = n + ((j - n) - 1)
      BY <1>3, <3>1
    <3>3. QED
      BY <2>2, <2>4, <3>1, <3>2 DEF b
  <2>5. QED
    BY <2>3, <2>4
<1>10. a \o i = b
  <2> DEFINE c == a \o i
  <2>1. c \in Seq(Nat) /\ Len(c) = n + k /\ \A j \in 1 .. n + k : c[j] = b[j]
    BY <1>8, <1>9
  <2> HIDE DEF c
  <2>2. c = [j \in 1 .. n + k |-> c[j]]
    BY <2>1
  <2>3. c = [j \in 1 .. n + k |-> b[j]]
    BY <2>1, <2>2
  <2>4. QED
    BY <1>5, <2>3 DEF c
<1>11. new.steps \in Nat /\ new.inputs = [j \in 1 .. new.steps |-> j - 1]
  <2>1. new.inputs = b /\ new.steps = n + k /\ n + k \in Nat
    BY <1>1, <1>7, <1>10
  <2>2. b = [j \in 1 .. n + k |-> j - 1]
    BY DEF b
  <2>3. QED
    BY <2>1, <2>2
<1>12. QED
  BY <1>7, <1>11 DEF Uninterrupted, new

LEMMA SoundKept ==
  ASSUME session' = session
  PROVE  \A n, c : Sound(n, c) => Sound(n, c)'
  BY DEF Sound, Processes, OutSet, Cmd, Is, Whole, Value, Body, Part, Uninterrupted

LEMMA ReadValue ==
  ASSUME Typed, NEW n \in Names, Readable(n, Digested) \/ Readable(n, Sized)
  PROVE  /\ Exists(Final(n)) /\ IsSeq(Content(Final(n))) /\ Len(Content(Final(n))) >= 2
         /\ Read(n) = <<Content(Final(n))[1], Content(Final(n))[2]>>
         /\ Value(Read(n)) = Content(Final(n))[1].of /\ Content(Final(n))[1].kind = "first"
<1> DEFINE c == Content(Final(n))
<1>1. Exists(Final(n)) /\ (Digested(c) \/ Sized(c))
  BY DEF Readable
<1>2. Final(n) \in Paths
  BY PathNames
<1>3. IsSeq(c)
  BY <1>1, <1>2, FileOf DEF Typed, FilesTyped, Content
<1> HIDE DEF c
<1>4. Len(c) >= 2 /\ c[1].kind = "first"
  BY <1>1 DEF Digested, Sized, Headed
<1>5. SubSeq(c, 1, 2) = <<c[1], c[2]>>
  BY <1>3, <1>4, FirstTwo
<1>6. QED
  BY <1>1, <1>3, <1>4, <1>5 DEF c, Read, Value

LEMMA StartParts == ASSUME Typed, Apart, Parts, NEW r \in Processes, Start(r) PROVE Parts'
<1>1. Ran(r) /\ names' = names /\ files' = files /\ runs'[r].pc \notin {"write", "open", "rename"}
  BY StartEffect
<1>2. \A n, c : Sound(n, c) => Sound(n, c)'
  BY <1>1, SoundKept DEF Ran
<1>3. \A p \in Paths : Exists(p)' => Sound(p[1], Content(p))'
  BY <1>1, <1>2 DEF Parts, Exists, Content
<1>4. ASSUME NEW s \in Processes, Writing(s)' PROVE Sound(Out(s), files[runs[s].inode])'
  <2>1. s # r /\ runs'[s] = runs[s] /\ Writing(s)
    BY <1>1, <1>4 DEF Ran, Writing, At
  <2>2. Sound(Out(s), files[runs[s].inode]) /\ Out(s)' = Out(s)
    BY <1>1, <2>1 DEF Parts, Out, Cmd, Ran
  <2>3. QED
    BY <1>1, <1>2, <2>1, <2>2
<1>5. ASSUME Is(r, "train"), runs'[r].pc = "work" PROVE Uninterrupted(runs'[r].value)
  <2>1. PICK s \in StartsFrom(r) : runs'[r].value = s.value /\ runs'[r].loaded = s.loaded
    BY <1>5, StartEffect
  <2>2. CASE s.loaded = <<>>
    <3>1. s.value = [program |-> Cmd(r).program, steps |-> 0, inputs |-> <<>>]
      BY <1>5, <2>2, StartsTyped
    <3>2. <<>> = [k \in 1 .. 0 |-> k - 1]
      OBVIOUS
    <3>3. QED
      BY <2>1, <3>1, <3>2 DEF Uninterrupted
  <2>3. CASE s.loaded # <<>>
    <3>1. PICK n \in Names : Readable(n, Digested) /\ s.value = Value(Read(n)) /\ n = Cmd(r).from
      BY <1>5, <2>3, StartsTyped
    <3>2. /\ Exists(Final(n)) /\ IsSeq(Content(Final(n))) /\ Len(Content(Final(n))) >= 2
          /\ s.value = Content(Final(n))[1].of /\ Content(Final(n))[1].kind = "first"
      BY <3>1, ReadValue
    <3>3. Sound(n, Content(Final(n)))
      BY <3>2, PathNames DEF Parts
    <3>4. \A q \in Processes : n \in OutSet(q) => Is(q, "train")
      BY <3>1, Commands
    <3>5. 1 \in DOMAIN Content(Final(n))
      BY <3>2, SeqIs DEF IsSeq
    <3>6. QED
      BY <2>1, <3>2, <3>3, <3>4, <3>5 DEF Sound
  <2>4. QED
    BY <2>2, <2>3
<1>6. QED
  BY <1>1, <1>3, <1>4, <1>5 DEF Parts, Ran, Is, Cmd, Processes

(* Steps that write no file and compute nothing.                           *)
LEMMA OtherParts ==
  ASSUME Typed, Apart, Parts, session' = session, files' = files,
         \A p \in Paths : names'[p] \in {names[p], None},
         \A s \in Processes :
           /\ Writing(s)' => Writing(s) /\ Out(s)' = Out(s) /\ runs'[s].inode = runs[s].inode
           /\ Is(s, "train") /\ runs'[s].pc \in {"work", "open", "write", "rename"} =>
                Uninterrupted(runs'[s].value)
  PROVE  Parts'
<1>1. \A n, c : Sound(n, c) => Sound(n, c)'
  BY SoundKept
<1>2. \A p \in Paths : Exists(p)' => Sound(p[1], Content(p))'
  BY <1>1 DEF Parts, Exists, Content
<1>3. \A s \in Processes : Writing(s)' => Sound(Out(s), files[runs[s].inode])'
  BY <1>1 DEF Parts
<1>4. QED
  BY <1>2, <1>3 DEF Parts, Is, Cmd, Processes

LEMMA WorkParts == ASSUME Typed, Apart, Parts, NEW r \in Processes, Work(r) PROVE Parts'
<1>1. Ran(r) /\ names' = names /\ files' = files /\ runs[r].pc = "work" /\ runs'[r].pc = "open"
  BY WorkEffect
<1>2. ASSUME Is(r, "train") PROVE Uninterrupted(runs'[r].value)
  <2>1. runs'[r].value = Trained(runs[r].value, Len(Cmd(r).items))
    BY <1>2, WorkEffect DEF Is
  <2>2. Len(Cmd(r).items) \in Nat
    BY Commands
  <2>3. Uninterrupted(runs[r].value)
    BY <1>1, <1>2 DEF Parts
  <2>4. QED
    BY <2>1, <2>2, <2>3, Resumable
<1>3. QED
  BY <1>1, <1>2, OtherParts DEF Ran, Writing, At, Out, Cmd, Parts

(* A step that changes one file, which only has names that r publishes.    *)
Rewrites(r, f, n) ==
  /\ Ran(r) /\ runs'[r].value = runs[r].value /\ runs[r].pc \in {"open", "write", "rename"}
  /\ \A i \in 1 .. Len(files) : i # f => files'[i] = files[i]
  /\ Sound(n, files'[f])
  /\ \A p \in Paths : names'[p] \in {names[p], f} /\ (names'[p] = f => p[1] = n)
  /\ \A s \in Processes : Writing(s)' =>
       /\ runs'[s].inode = f => Out(s)' = n
       /\ runs'[s].inode = f \/ (Writing(s) /\ runs'[s].inode = runs[s].inode /\ Out(s)' = Out(s))

LEMMA OneFile ==
  ASSUME Typed, Parts, NEW r \in Processes, NEW f, NEW n, Rewrites(r, f, n)
  PROVE  Parts'
<1>1. \A m, c : Sound(m, c) => Sound(m, c)'
  BY SoundKept DEF Ran, Rewrites
<1>2. ASSUME NEW p \in Paths, Exists(p)' PROVE Sound(p[1], Content(p))'
  <2>1. CASE names'[p] = f
    BY <1>1, <2>1 DEF Content, Rewrites
  <2>2. CASE names'[p] # f
    <3>1. names'[p] = names[p] /\ Exists(p)
      BY <1>2, <2>2 DEF Exists, Rewrites
    <3>2. Content(p)' = Content(p)
      BY <2>2, <3>1, FileOf DEF Content, Rewrites
    <3>3. Sound(p[1], Content(p))
      BY <3>1 DEF Parts
    <3>4. QED
      BY <1>1, <3>2, <3>3
  <2>3. QED
    BY <2>1, <2>2
<1>3. ASSUME NEW s \in Processes, Writing(s)' PROVE Sound(Out(s), files[runs[s].inode])'
  <2>1. CASE runs'[s].inode = f
    BY <1>1, <1>3, <2>1 DEF Rewrites
  <2>2. CASE runs'[s].inode # f
    <3>1. Writing(s) /\ runs'[s].inode = runs[s].inode /\ Out(s)' = Out(s)
      BY <1>3, <2>2 DEF Rewrites
    <3>2. files'[runs'[s].inode] = files[runs[s].inode]
      BY <2>2, <3>1, FileOf DEF Rewrites
    <3>3. Sound(Out(s), files[runs[s].inode])
      BY <3>1 DEF Parts
    <3>4. QED
      BY <1>1, <3>1, <3>2, <3>3
  <2>3. QED
    BY <2>1, <2>2
<1>4. ASSUME NEW s \in Processes, Is(s, "train"), runs'[s].pc \in {"work", "open", "write", "rename"}
      PROVE  Uninterrupted(runs'[s].value)
  BY <1>4 DEF Parts, Ran, Rewrites
<1>5. Processes' = Processes /\ \A s \in Processes : Is(s, "train")' = Is(s, "train")
  BY DEF Ran, Processes, Is, Cmd, Rewrites
<1>6. \A s \in Processes : Uninterrupted(runs[s].value)' <=> Uninterrupted(runs'[s].value)
  BY DEF Uninterrupted
<1>7. QED
  BY <1>2, <1>3, <1>4, <1>5, <1>6 DEF Parts

LEMMA OpenParts == ASSUME Typed, Apart, Parts, NEW r \in Processes, Open(r) PROVE Parts'
<1> DEFINE P == Partial(Out(r))
           f == Opened(P)
<1>1. P \in Paths /\ P[1] = Out(r) /\ OpenTruncated(P) /\ runs[r].pc = "open"
  BY AtName, PathNames DEF Open, At
<1>2. /\ Ran(r) /\ runs'[r].pc = "write" /\ runs'[r].inode = names'[P] /\ Apart'
      /\ runs'[r].file = runs[r].file /\ runs'[r].value = runs[r].value
  BY OpenEffect DEF Same
<1> HIDE DEF P, f
<1>3. /\ names'[P] = f /\ files'[f] = <<>>
      /\ \A q \in Paths \ {P} : names'[q] = names[q]
      /\ \A i \in 1 .. Len(files) : i # f => files'[i] = files[i]
  BY <1>1, OpenFiles DEF Typed, f
<1>4. Sound(Out(r), <<>>)
  BY DEF Sound
<1>5. Out(r)' = Out(r) /\ Writing(r)' /\ Processes' = Processes /\ runs'[r].inode = f
  BY <1>2, <1>3 DEF Out, Cmd, Ran, Writing, At, Processes
<1>6. \A p \in Paths : names'[p] = f => p[1] = Out(r)
  BY <1>2, <1>5 DEF Apart
<1>7. ASSUME NEW s \in Processes, Writing(s)'
      PROVE  /\ runs'[s].inode = f => Out(s)' = Out(r)
             /\ runs'[s].inode = f \/ (Writing(s) /\ runs'[s].inode = runs[s].inode /\ Out(s)' = Out(s))
  <2>1. runs'[s].inode = f => Out(s)' = Out(r)
    BY <1>2, <1>5, <1>7 DEF Apart
  <2>2. s # r => Writing(s) /\ runs'[s].inode = runs[s].inode /\ Out(s)' = Out(s)
    BY <1>2, <1>7 DEF Ran, Writing, At, Out, Cmd
  <2>3. QED
    BY <1>5, <2>1, <2>2
<1>8. \A p \in Paths : names'[p] \in {names[p], f}
  BY <1>3
<1>9. Sound(Out(r), files'[f])
  BY <1>3, <1>4
<1>10. Rewrites(r, f, Out(r))
  BY <1>1, <1>2, <1>3, <1>6, <1>7, <1>8, <1>9 DEF Rewrites
<1>11. QED
  BY <1>10, OneFile

LEMMA WriteParts == ASSUME Typed, Apart, Parts, NEW r \in Processes, Write(r) PROVE Parts'
<1> DEFINE f == runs[r].inode
           n == runs[r].offset
           c == files[f]
           d == files'[f]
<1>1. /\ Ran(r) /\ runs[r].pc = "write" /\ runs'[r].pc = "write" /\ names' = names /\ Apart'
      /\ Same(r, {"file", "inode", "item", "value", "packed", "loaded"})
      /\ n < Len(Stream(r)) /\ Len(files') = Len(files) /\ FilesTyped'
      /\ f \in 1 .. Len(files) /\ \A i \in 1 .. Len(files) : i # f => files'[i] = files[i]
      /\ \A i \in 1 .. Len(d) : d[i] = IF i = n + 1 THEN Stream(r)[n + 1]
                                       ELSE IF i <= Len(c) THEN c[i] ELSE Hole
  BY WriteEffect
<1>2. n \in Nat /\ Writing(r)
  BY <1>1 DEF Typed, RunTyped, Writing, At
<1>3. DOMAIN d = 1 .. Len(d) /\ DOMAIN c = 1 .. Len(c) /\ Len(c) \in Nat
  BY <1>1, SeqIs DEF FilesTyped, Typed, IsSeq
<1>4. Sound(Out(r), c)
  BY <1>2 DEF Parts
<1> HIDE DEF c, d
<1>5. Out(r) \in OutSet(r)
  BY AtName
<1>6. ASSUME NEW i \in DOMAIN d
      PROVE  /\ d[i].kind = "first" /\ (\A q \in Processes : Out(r) \in OutSet(q) => Is(q, "train"))
                  => Uninterrupted(d[i].of)
             /\ d[i].kind = "digest" /\ (\A q \in Processes : Out(r) \in OutSet(q) => ~Is(q, "train"))
                  => Whole(d[i].of)
  <2>1. CASE i = n + 1
    <3>1. d[i] = Stream(r)[i]
      BY <1>1, <1>3, <2>1
    <3>2. /\ i \in 1 .. Len(Stream(r)) /\ Len(Stream(r)) = (IF Kind(r) = "encoded" THEN 3 ELSE 2)
          /\ Stream(r)[1] = Part("first", FileValue(r)) /\ Stream(r)[2] = Part("second", FileValue(r))
          /\ Kind(r) = "encoded" => Stream(r)[3] = Digest(Body(FileValue(r)))
      BY <1>1, <1>2, <2>1, StreamParts DEF IsSeq
    <3>3. CASE i = 1
      <4>1. d[i] = Part("first", FileValue(r))
        BY <3>1, <3>2, <3>3
      <4>2. Is(r, "train") => Uninterrupted(FileValue(r))
        BY <1>1 DEF Parts, FileValue, Is
      <4>3. QED
        BY <1>5, <4>1, <4>2 DEF Part
    <3>4. CASE i = 2
      BY <3>1, <3>2, <3>4 DEF Part
    <3>5. CASE i = 3 /\ Kind(r) = "encoded"
      BY <3>1, <3>2, <3>5, Bodies DEF Digest, Part
    <3>6. QED
      BY <3>2, <3>3, <3>4, <3>5
  <2>2. CASE i # n + 1 /\ i <= Len(c)
    <3>1. d[i] = c[i] /\ i \in DOMAIN c
      BY <1>1, <1>3, <2>2
    <3>2. QED
      BY <1>4, <3>1 DEF Sound
  <2>3. CASE i # n + 1 /\ ~(i <= Len(c))
    <3>1. d[i] = Hole
      BY <1>1, <1>3, <2>3
    <3>2. QED
      BY <3>1 DEF Hole
  <2>4. QED
    BY <2>1, <2>2, <2>3
<1>7. Sound(Out(r), d)
  BY <1>6 DEF Sound
<1>8. \A p \in Paths : names'[p] = f => p[1] = Out(r)
  BY <1>1, <1>2 DEF Apart
<1>9. \A s \in Processes : Writing(s)' => Writing(s) /\ runs'[s].inode = runs[s].inode /\ Out(s)' = Out(s)
  BY <1>1 DEF Ran, Same, Writing, At, Out, Cmd
<1>10. \A s \in Processes : Writing(s)' =>
          /\ runs'[s].inode = f => Out(s)' = Out(r)
          /\ runs'[s].inode = f \/ (Writing(s) /\ runs'[s].inode = runs[s].inode /\ Out(s)' = Out(s))
  BY <1>2, <1>9 DEF Apart
<1>11. runs'[r].value = runs[r].value
  BY <1>1 DEF Same
<1>12. \A p \in Paths : names'[p] \in {names[p], f}
  BY <1>1
<1>13. Rewrites(r, f, Out(r))
  BY <1>1, <1>7, <1>8, <1>10, <1>11, <1>12 DEF d, Rewrites
<1>14. QED
  BY <1>13, OneFile

LEMMA CloseParts == ASSUME Typed, Apart, Parts, NEW r \in Processes, Close(r) PROVE Parts'
<1> DEFINE P == Partial(Out(r))
           f == names[P]
           c == Content(P)
           d == files'[f]
<1>1. P \in Paths /\ P[1] = Out(r) /\ Out(r) \in OutSet(r)
  BY AtName, PathNames
<1>2. /\ Ran(r) /\ runs[r].pc = "write" /\ runs'[r].pc \in {"rename", "open"} /\ names' = names
      /\ runs'[r].value = runs[r].value /\ FilesTyped' /\ Len(files') = Len(files)
  BY CloseEffect DEF Same
<1>3. \A s \in Processes : Writing(s)' =>
        s # r /\ Writing(s) /\ runs'[s].inode = runs[s].inode /\ Out(s)' = Out(s)
  BY <1>2 DEF Ran, Writing, At, Out, Cmd
<1>4. CASE Kind(r) # "checkpoint"
  <2>1. files' = files
    BY <1>4, CloseEffect
  <2>2. \A s \in Processes : Is(s, "train") /\ runs'[s].pc \in {"work", "open", "write", "rename"} =>
          Uninterrupted(runs'[s].value)
    BY <1>2 DEF Parts, Ran
  <2>3. session' = session /\ \A p \in Paths : names'[p] \in {names[p], None}
    BY <1>2 DEF Ran
  <2>4. QED
    BY <1>3, <2>1, <2>2, <2>3, OtherParts
<1>5. CASE Kind(r) = "checkpoint"
  <2>1. /\ Exists(P) /\ Len(c) >= 2 /\ Len(d) = Len(c) + 1
        /\ \A i \in 1 .. Len(c) : d[i] = c[i]
        /\ d[Len(d)] = Digest(SubSeq(c, 1, 2))
    BY <1>5, CloseEffect
  <2>2. \A i \in 1 .. Len(files) : i # f => files'[i] = files[i]
    <3>1. AppendTo(P, Digest(SubSeq(c, 1, 2)))
      BY <1>5 DEF Close
    <3>2. files' = [files EXCEPT ![f] = files'[f]]
      BY <3>1, <2>1, <1>1, FileOf, SeqIs DEF AppendTo, WriteAt, Typed, FilesTyped
    <3>3. QED
      BY <3>2, SeqIs DEF Typed, FilesTyped
  <2>3. f \in 1 .. Len(files)
    BY <1>1, <2>1, FileOf
  <2>4. IsSeq(c) /\ IsSeq(d) /\ DOMAIN c = 1 .. Len(c) /\ DOMAIN d = 1 .. Len(d) /\ Len(c) \in Nat
    BY <1>2, <2>3, SeqIs DEF Typed, FilesTyped, Content, IsSeq
  <2>5. Sound(Out(r), c)
    BY <1>1, <2>1 DEF Parts
  <2> HIDE DEF P, f, c, d
  <2>6. Is(r, "train")
    BY <1>5 DEF Kind, Is
  <2>7. Sound(Out(r), d)
    <3>1. ASSUME NEW i \in DOMAIN d
          PROVE  /\ d[i].kind = "first" /\ (\A q \in Processes : Out(r) \in OutSet(q) => Is(q, "train"))
                      => Uninterrupted(d[i].of)
                 /\ d[i].kind = "digest" /\ (\A q \in Processes : Out(r) \in OutSet(q) => ~Is(q, "train"))
                      => Whole(d[i].of)
      <4>1. CASE i <= Len(c)
        <5>1. i \in DOMAIN c /\ d[i] = c[i]
          BY <2>1, <2>4, <4>1
        <5>2. QED
          BY <2>5, <5>1 DEF Sound
      <4>2. CASE ~(i <= Len(c))
        <5>1. d[i] = Digest(SubSeq(c, 1, 2))
          BY <2>1, <2>4, <4>2
        <5>2. d[i].kind = "digest"
          BY <5>1 DEF Digest, Part
        <5>3. QED
          BY <1>1, <2>6, <5>2
      <4>3. QED
        BY <4>1, <4>2
    <3>2. QED
      BY <3>1 DEF Sound
  <2>8. \A p \in Paths : names'[p] = f => p[1] = Out(r)
    BY <1>1, <1>2, <2>1 DEF Apart, f
  <2>9. \A s \in Processes : Writing(s)' =>
          /\ runs'[s].inode = f => Out(s)' = Out(r)
          /\ runs'[s].inode = f \/ (Writing(s) /\ runs'[s].inode = runs[s].inode /\ Out(s)' = Out(s))
    BY <1>1, <1>3, <2>1 DEF Apart, f
  <2>10. \A p \in Paths : names'[p] \in {names[p], f}
    BY <1>2
  <2>11. Rewrites(r, f, Out(r))
    BY <1>2, <2>2, <2>7, <2>8, <2>9, <2>10 DEF d, Rewrites
  <2>12. QED
    BY <2>11, OneFile
<1>6. QED
  BY <1>4, <1>5

LEMMA RenameParts == ASSUME Typed, Apart, Parts, NEW r \in Processes, Rename(r) PROVE Parts'
<1> DEFINE P == Partial(Out(r))
           F == Final(Out(r))
<1>1. /\ Ran(r) /\ runs[r].pc = "rename" /\ runs'[r].value = runs[r].value /\ files' = files
      /\ runs'[r].pc \in {"rename", "work", "use", "done"} /\ Exists(P)
      /\ names'[P] = None /\ names'[F] = names[P]
      /\ \A p \in Paths : p # P /\ p # F => Untouched(p)
  BY RenameEffect DEF Same
<1>2. P \in Paths /\ F \in Paths /\ P[1] = Out(r) /\ F[1] = Out(r)
  BY AtName, PathNames
<1>3. \A n, c : Sound(n, c) => Sound(n, c)'
  BY <1>1, SoundKept DEF Ran
<1> HIDE DEF P, F
<1>4. ASSUME NEW p \in Paths, Exists(p)' PROVE Sound(p[1], Content(p))'
  <2>1. CASE p = F
    BY <1>1, <1>2, <1>3, <2>1 DEF Parts, Content
  <2>2. CASE p # F
    <3>1. Exists(p) /\ names'[p] = names[p]
      BY <1>1, <1>4, <2>2 DEF Exists, Untouched
    <3>2. QED
      BY <1>1, <1>3, <3>1 DEF Parts, Content
  <2>3. QED
    BY <2>1, <2>2
<1>5. ASSUME NEW s \in Processes, Writing(s)' PROVE Sound(Out(s), files[runs[s].inode])'
  <2>1. s # r /\ runs'[s] = runs[s] /\ Writing(s)
    BY <1>1, <1>5 DEF Ran, Writing, At
  <2>2. Sound(Out(s), files[runs[s].inode]) /\ Out(s)' = Out(s)
    BY <1>1, <2>1 DEF Parts, Out, Cmd, Ran
  <2>3. QED
    BY <1>1, <1>3, <2>1, <2>2
<1>6. \A s \in Processes : Is(s, "train") /\ runs'[s].pc \in {"work", "open", "write", "rename"} =>
        Uninterrupted(runs'[s].value)
  BY <1>1 DEF Parts, Ran
<1>7. Processes' = Processes /\ \A s \in Processes : Is(s, "train")' = Is(s, "train")
  BY <1>1 DEF Ran, Processes, Is, Cmd
<1>8. \A s \in Processes : Uninterrupted(runs[s].value)' <=> Uninterrupted(runs'[s].value)
  BY DEF Uninterrupted
<1>9. QED
  BY <1>4, <1>5, <1>6, <1>7, <1>8 DEF Parts

LEMMA QuietParts ==
  ASSUME Typed, Apart, Parts, NEW r \in Processes, CloseShort(r) \/ Use(r) \/ Fail(r) \/ Kill(r)
  PROVE  Parts'
<1>1. /\ Ran(r) /\ files' = files /\ runs'[r].value = runs[r].value
      /\ \A p \in Paths : names'[p] \in {names[p], None}
      /\ runs'[r].pc # "write"
      /\ runs'[r].pc \in {"open", "rename"} => runs[r].pc = "write"
      /\ runs'[r].pc # "work"
  BY CloseShortEffect, UseEffect, FailEffect, KillEffect DEF Same
<1>2. \A s \in Processes :
        /\ Writing(s)' => Writing(s) /\ Out(s)' = Out(s) /\ runs'[s].inode = runs[s].inode
        /\ Is(s, "train") /\ runs'[s].pc \in {"work", "open", "write", "rename"} =>
             Uninterrupted(runs'[s].value)
  BY <1>1 DEF Parts, Ran, Writing, At, Out, Cmd
<1>3. QED
  BY <1>1, <1>2, OtherParts DEF Ran

LEMMA StepParts == ASSUME Typed, Apart, Parts, NEW r \in Processes, Step(r) PROVE Parts'
  BY StartParts, WorkParts, OpenParts, WriteParts, CloseParts, RenameParts, QuietParts DEF Step

LEMMA NextParts == Typed /\ Apart /\ Parts /\ [Next]_vars => Parts'
<1> SUFFICES ASSUME Typed, Apart, Parts, [Next]_vars PROVE Parts'
  OBVIOUS
<1>1. CASE \E r \in Processes : Step(r)
  BY <1>1, StepParts
<1>2. CASE Tidy \/ UNCHANGED vars
  <2>1. /\ session' = session /\ files' = files /\ runs' = runs
        /\ \A p \in Paths : names'[p] \in {names[p], None}
    BY <1>2, TidyEffect DEF vars
  <2>2. QED
    BY <2>1, OtherParts DEF Parts, Writing, At, Out, Cmd
<1>3. QED
  BY <1>1, <1>2 DEF Next, Finished

LEMMA InitParts == Init => Parts
  BY DEF Init, NoFiles, Parts, Exists, Writing, At, Idle

-----------------------------------------------------------------------------
(* What a process has written under its own names, as long as nobody else  *)
(* was to publish them.                                                    *)
LEMMA CompleteKept ==
  ASSUME session' = session, spoiled \subseteq spoiled', NEW s, runs'[s].value = runs[s].value
  PROVE  \A j, c : Complete(s, j, c) => Complete(s, j, c)'
<1>1. \A j : Intended(s, j)' = Intended(s, j) /\ (Tensors(s, j)' <=> Tensors(s, j))
  BY DEF Intended, Tensors, Cmd, Is, Body, Part
<1>2. QED
  BY <1>1 DEF Complete, Cmd, Digest, Body, Part

(* The j-th file of s when a step leaves its two names alone.              *)
LEMMA FileStays ==
  ASSUME Typed, NEW s \in Processes, session' = session, spoiled \subseteq spoiled',
         runs'[s].value = runs[s].value, NEW j \in DOMAIN Cmd(s).out
  PROVE  /\ names'[Final(Cmd(s).out[j])] = names[Final(Cmd(s).out[j])] =>
              (Unpublished(s, j)' <=> Unpublished(s, j))
         /\ Untouched(Final(Cmd(s).out[j])) /\ Placed(s, j) => Placed(s, j)'
         /\ Untouched(Partial(Cmd(s).out[j])) /\ Drafted(s, j) => Drafted(s, j)'
<1>1. \A c : Complete(s, j, c) => Complete(s, j, c)'
  BY CompleteKept
<1>2. Cmd(s)' = Cmd(s)
  BY DEF Cmd
<1>3. names'[Final(Cmd(s).out[j])] = names[Final(Cmd(s).out[j])] =>
         (Unpublished(s, j)' <=> Unpublished(s, j))
  BY <1>2 DEF Unpublished, Exists, Is, Final
<1>4. Untouched(Final(Cmd(s).out[j])) /\ Placed(s, j) => Placed(s, j)'
  BY <1>1, <1>2 DEF Untouched, Placed, Exists, Content, Final
<1>5. Untouched(Partial(Cmd(s).out[j])) /\ Drafted(s, j) => Drafted(s, j)'
  BY <1>1, <1>2 DEF Untouched, Drafted, Exists, Content, Partial
<1>6. QED
  BY <1>3, <1>4, <1>5

(* The paths of the files of a process differ.                             *)
LEMMA OwnPaths ==
  ASSUME Typed, NEW s \in Processes, NEW j \in DOMAIN Cmd(s).out
  PROVE  /\ Final(Cmd(s).out[j]) \in Paths /\ Final(Cmd(s).out[j])[1] = Cmd(s).out[j]
         /\ Partial(Cmd(s).out[j]) \in Paths /\ Partial(Cmd(s).out[j])[1] = Cmd(s).out[j]
         /\ Cmd(s).out[j] \in OutSet(s) /\ Cmd(s).out[j] \in Names
         /\ Final(Cmd(s).out[j]) # Partial(Cmd(s).out[j])
         /\ \A k \in DOMAIN Cmd(s).out : k # j =>
              /\ Final(Cmd(s).out[j]) # Final(Cmd(s).out[k])
              /\ Partial(Cmd(s).out[j]) # Partial(Cmd(s).out[k])
         /\ \A n : Final(Cmd(s).out[j]) # Partial(n)
<1>1. /\ Cmd(s).out[j] \in OutSet(s) /\ Cmd(s).out[j] \in Names
      /\ \A k \in DOMAIN Cmd(s).out : Cmd(s).out[j] = Cmd(s).out[k] => j = k
  BY Commands
<1>2. QED
  BY <1>1, PathNames DEF Final, Partial

LEMMA OwnKept ==
  ASSUME Typed, NEW s \in Processes, Own(s), session' = session, spoiled \subseteq spoiled',
         runs'[s] = runs[s], \A p \in Paths : p[1] \in OutSet(s) => Untouched(p),
         Writing(s) => files'[runs[s].inode] = files[runs[s].inode]
  PROVE  Own(s)'
<1>1. ASSUME NEW j \in DOMAIN Cmd(s).out
      PROVE  /\ Unpublished(s, j)' <=> Unpublished(s, j)
             /\ Placed(s, j) => Placed(s, j)'
             /\ Drafted(s, j) => Drafted(s, j)'
  <2>1. Untouched(Final(Cmd(s).out[j])) /\ Untouched(Partial(Cmd(s).out[j]))
    BY OwnPaths
  <2>2. names'[Final(Cmd(s).out[j])] = names[Final(Cmd(s).out[j])]
    BY <2>1 DEF Untouched
  <2>3. QED
    BY <2>1, <2>2, FileStays
<1>2. Cmd(s)' = Cmd(s) /\ Out(s)' = Out(s) /\ Stream(s)' = Stream(s)
  BY DEF Cmd, Out, Stream, FileValue, Kind, Is, Body, Part, Digest
<1>3. WorkSole(s)'
  BY <1>1, <1>2 DEF Own, WorkSole, At, Is
<1>4. WriteSole(s)'
  BY <1>1, <1>2 DEF Own, WriteSole, Is, Body, Part
<1>5. StreamSole(s)'
  <2>1. Untouched(Partial(Out(s)))
    BY AtName, PathNames
  <2>2. QED
    BY <1>2, <2>1 DEF Own, StreamSole, Writing, At, Untouched, Partial
<1>6. RenameSole(s)'
  BY <1>1, <1>2 DEF Own, RenameSole, At
<1>7. DoneSole(s)'
  BY <1>1, <1>2 DEF Own, DoneSole, At, Is
<1>8. QED
  BY <1>3, <1>4, <1>5, <1>6, <1>7 DEF Own

(* What the file a process writes is to hold.                              *)
LEMMA Contents ==
  ASSUME Typed, NEW r \in Processes, Writing(r), WriteSole(r)
  PROVE  /\ FileValue(r) = Intended(r, runs[r].file)
         /\ (Kind(r) = "tensors") = Tensors(r, runs[r].file)
         /\ Kind(r) \in {"tensors", "checkpoint", "encoded"}
         /\ Kind(r) = "checkpoint" => ~Is(r, "quantize") /\ FileValue(r) = runs[r].value
         /\ Len(Cmd(r).out) = (IF Is(r, "quantize") THEN 3 ELSE 1)
         /\ runs[r].file \in 1 .. Len(Cmd(r).out)
<1>1. /\ Len(Cmd(r).out) = (IF Packs(Cmd(r)) THEN 3 ELSE 1)
      /\ runs[r].file \in 1 .. Len(Cmd(r).out)
  <2>1. Len(Cmd(r).out) = (IF Packs(Cmd(r)) THEN 3 ELSE 1) /\ DOMAIN Cmd(r).out = 1 .. Len(Cmd(r).out)
    BY Commands
  <2>2. runs[r].file \in DOMAIN Cmd(r).out
    BY AtName
  <2>3. QED
    BY <2>1, <2>2
<1>2. ~Is(r, "load")
  BY DEF Typed, RunTyped, Places, Writing, At, Is
<1>3. Len(Cmd(r).out) = (IF Is(r, "quantize") THEN 3 ELSE 1)
  BY <1>1, <1>2 DEF Packs, Is
<1>4. CASE Is(r, "quantize")
  <2>1. runs[r].file \in {1, 2, 3}
    BY <1>1, <1>3, <1>4
  <2>2. runs[r].file = 3 => runs[r].packed = Body(Cmd(r).items)
    BY <1>4 DEF WriteSole, Writing, At
  <2>3. FileValue(r) = Intended(r, runs[r].file)
    BY <1>4, <2>1, <2>2 DEF FileValue, Intended
  <2>4. Kind(r) = (IF runs[r].file = 2 THEN "tensors" ELSE "encoded")
    BY <1>4 DEF Kind, Is
  <2>5. (Kind(r) = "tensors") = Tensors(r, runs[r].file)
    BY <1>4, <2>4 DEF Tensors, Is
  <2>6. QED
    BY <1>1, <1>3, <1>4, <2>3, <2>4, <2>5
<1>5. CASE ~Is(r, "quantize")
  <2>1. FileValue(r) = runs[r].value /\ Intended(r, runs[r].file) = runs[r].value
    BY <1>5 DEF FileValue, Intended
  <2>2. Kind(r) = IF Is(r, "sample") THEN "tensors" ELSE IF Is(r, "train") THEN "checkpoint" ELSE "encoded"
    BY <1>5 DEF Kind, Is
  <2>3. (Kind(r) = "tensors") = Tensors(r, runs[r].file)
    BY <1>5, <2>2 DEF Tensors, Is
  <2>4. QED
    BY <1>1, <1>3, <1>5, <2>1, <2>2, <2>3
<1>6. QED
  BY <1>4, <1>5

(* The number of files a process writes.                                   *)
LEMMA OutLength ==
  ASSUME Typed, NEW r \in Processes, runs[r].pc \in {"work", "open", "write", "rename"}
  PROVE  /\ ~Is(r, "load") /\ Len(Cmd(r).out) = (IF Is(r, "quantize") THEN 3 ELSE 1)
         /\ DOMAIN Cmd(r).out = 1 .. Len(Cmd(r).out) /\ runs[r].file \in DOMAIN Cmd(r).out
<1>1. Len(Cmd(r).out) = (IF Packs(Cmd(r)) THEN 3 ELSE 1) /\ DOMAIN Cmd(r).out = 1 .. Len(Cmd(r).out)
  BY Commands
<1>2. runs[r].file \in DOMAIN Cmd(r).out
  BY AtName
<1>3. ~Is(r, "load")
  BY DEF Typed, RunTyped, Places, Is
<1>4. QED
  BY <1>1, <1>2, <1>3 DEF Packs, Is

LEMMA StartOwn ==
  ASSUME Typed, Apart, NEW r \in Processes, Own(r), Start(r) PROVE Own(r)'
<1>1. /\ Ran(r) /\ runs[r].pc = "off" /\ names' = names /\ runs'[r].file = runs[r].file
      /\ \/ runs'[r].pc \in {"failed", "use"}
         \/ /\ runs'[r].pc = "work" /\ MayStart(Cmd(r))
            /\ ~(Is(r, "sample") /\ Exists(Final(Out(r)))) /\ ~Is(r, "load")
  BY StartEffect DEF Same
<1>2. Cmd(r)' = Cmd(r)
  BY <1>1 DEF Cmd, Ran
<1>3. ASSUME runs'[r].pc = "work", ~Is(r, "train"), NEW j \in DOMAIN Cmd(r).out
      PROVE  Unpublished(r, j)
  <2>1. Cmd(r).tool \in {"train", "record", "quantize", "sample", "load"}
    BY Commands
  <2>2. CASE Is(r, "quantize")
    <3>1. \A n \in OutSet(r) : Free(n)
      BY <1>1, <1>3, <2>2 DEF MayStart, Is, OutSet
    <3>2. Cmd(r).out[j] \in OutSet(r)
      BY OwnPaths
    <3>3. QED
      BY <3>1, <3>2 DEF Free, Unpublished
  <2>3. CASE Is(r, "sample")
    <3>1. Len(Cmd(r).out) = (IF Packs(Cmd(r)) THEN 3 ELSE 1) /\ DOMAIN Cmd(r).out = 1 .. Len(Cmd(r).out)
      BY Commands
    <3>2. j = 1
      BY <3>1, <2>3, <1>3 DEF Packs, Is
    <3>3. runs[r].file = 1
      BY <1>1 DEF Typed, RunTyped
    <3>4. Out(r) = Cmd(r).out[j]
      BY <3>2, <3>3 DEF Out
    <3>5. QED
      BY <1>1, <1>3, <2>3, <3>4 DEF Unpublished
  <2>4. QED
    BY <1>1, <1>3, <2>1, <2>2, <2>3 DEF Is, Unpublished
<1>4. WorkSole(r)'
  BY <1>1, <1>2, <1>3 DEF WorkSole, Unpublished, Exists, Is, At
<1>5. QED
  BY <1>1, <1>4 DEF Own, WriteSole, StreamSole, RenameSole, DoneSole, At, Writing

LEMMA WorkOwn ==
  ASSUME Typed, Apart, NEW r \in Processes, Own(r), Work(r) PROVE Own(r)'
<1>1. /\ Ran(r) /\ runs[r].pc = "work" /\ runs'[r].pc = "open" /\ names' = names
      /\ runs'[r].file = runs[r].file /\ (Is(r, "train") => Free(Out(r)))
  BY WorkEffect DEF Same
<1>2. Cmd(r)' = Cmd(r) /\ runs[r].file = 1
  BY <1>1 DEF Cmd, Ran, Typed, RunTyped
<1>3. /\ ~Is(r, "load") /\ Len(Cmd(r).out) = (IF Is(r, "quantize") THEN 3 ELSE 1)
      /\ DOMAIN Cmd(r).out = 1 .. Len(Cmd(r).out)
  BY <1>1, OutLength
<1>4. ASSUME NEW j \in DOMAIN Cmd(r).out PROVE Unpublished(r, j)
  <2>1. CASE Is(r, "train")
    <3>1. j = 1
      BY <1>3, <2>1 DEF Is
    <3>2. QED
      BY <1>1, <1>2, <2>1, <3>1 DEF Unpublished, Free, Out
  <2>2. CASE ~Is(r, "train")
    BY <1>1, <2>2 DEF Own, WorkSole, At
  <2>3. QED
    BY <2>1, <2>2
<1>5. \A j \in DOMAIN Cmd(r).out : ~(j < 1)
  BY <1>3
<1>6. WriteSole(r)'
  BY <1>1, <1>2, <1>4, <1>5 DEF WriteSole, Unpublished, Exists, Is
<1>7. QED
  BY <1>1, <1>6 DEF Own, WorkSole, StreamSole, RenameSole, DoneSole, At, Writing

LEMMA OpenOwn ==
  ASSUME Typed, Apart, NEW r \in Processes, Own(r), Open(r) PROVE Own(r)'
<1>1. /\ Ran(r) /\ runs'[r].pc = "write" /\ runs'[r].inode = names'[Partial(Out(r))]
      /\ runs'[r].offset = 0 /\ Same(r, {"file", "item", "value", "packed", "loaded"})
      /\ names'[Partial(Out(r))] \in 1 .. Len(files') /\ files'[names'[Partial(Out(r))]] = <<>>
      /\ \A p \in Paths : p # Partial(Out(r)) => Untouched(p)
  BY OpenEffect
<1>2. runs[r].pc = "open" /\ spoiled' = spoiled
  BY DEF Open, Unchanged, At
<1>3. Cmd(r)' = Cmd(r) /\ runs'[r].file = runs[r].file /\ runs'[r].packed = runs[r].packed
      /\ runs'[r].value = runs[r].value /\ Out(r)' = Out(r) /\ session' = session
  BY <1>1 DEF Cmd, Ran, Same, Out
<1>4. WriteSole(r)'
  <2>1. ASSUME NEW j \in DOMAIN Cmd(r).out PROVE Unpublished(r, j)'
    <3>1. Untouched(Final(Cmd(r).out[j]))
      BY <1>1, OwnPaths
    <3>2. Unpublished(r, j)
      BY <1>2 DEF Own, WriteSole
    <3>3. QED
      BY <1>2, <1>3, <3>1, <3>2, FileStays DEF Untouched
  <2>2. ASSUME NEW j \in DOMAIN Cmd(r).out, j < runs[r].file PROVE Drafted(r, j)'
    <3>1. j # runs[r].file /\ runs[r].file \in DOMAIN Cmd(r).out
      BY <2>2, AtName, OutLength, <1>2
    <3>2. Untouched(Partial(Cmd(r).out[j]))
      BY <1>1, <3>1, OwnPaths DEF Out
    <3>3. Drafted(r, j)
      BY <1>2, <2>2 DEF Own, WriteSole
    <3>4. QED
      BY <1>2, <1>3, <3>2, <3>3, FileStays
  <2>3. QED
    BY <1>2, <1>3, <2>1, <2>2 DEF Own, WriteSole, Is, Body, Part
<1>5. StreamSole(r)'
  <2>1. IsSeq(Stream(r)') /\ Len(Stream(r)') \in Nat
    <3>1. Stream(r)' = Stream(r)
      BY <1>3 DEF Stream, FileValue, Kind, Is, Body, Part, Digest
    <3>2. QED
      BY <3>1, StreamParts DEF IsSeq
  <2>2. Len(<<>>) = 0
    OBVIOUS
  <2>3. QED
    BY <1>1, <1>3, <2>1, <2>2 DEF StreamSole, Writing, At, Partial
<1>6. QED
  BY <1>1, <1>4, <1>5 DEF Own, WorkSole, RenameSole, DoneSole, At

LEMMA WriteOwn ==
  ASSUME Typed, Apart, NEW r \in Processes, Own(r), Write(r) PROVE Own(r)'
<1> DEFINE f == runs[r].inode
           n == runs[r].offset
<1>1. /\ Ran(r) /\ runs[r].pc = "write" /\ runs'[r].pc = "write" /\ runs'[r].offset = n + 1
      /\ Same(r, {"file", "inode", "item", "value", "packed", "loaded"})
      /\ n < Len(Stream(r)) /\ names' = names /\ f \in 1 .. Len(files)
      /\ Len(files'[f]) = (IF Len(files[f]) > n THEN Len(files[f]) ELSE n + 1)
      /\ \A i \in 1 .. Len(files'[f]) : files'[f][i] =
           IF i = n + 1 THEN Stream(r)[n + 1] ELSE IF i <= Len(files[f]) THEN files[f][i] ELSE Hole
      /\ \A p \in Paths : p[1] # Out(r) => Untouched(p)
  BY WriteEffect
<1>2. spoiled' = spoiled /\ session' = session /\ n \in Nat
  BY <1>1 DEF Write, Unchanged, Typed, RunTyped
<1>3. Cmd(r)' = Cmd(r) /\ runs'[r].file = runs[r].file /\ runs'[r].packed = runs[r].packed
      /\ runs'[r].value = runs[r].value /\ Out(r)' = Out(r) /\ runs'[r].inode = f
  BY <1>1 DEF Cmd, Ran, Same, Out
<1>4. WriteSole(r)'
  <2>1. ASSUME NEW j \in DOMAIN Cmd(r).out PROVE Unpublished(r, j)'
    <3>1. Unpublished(r, j)
      BY <1>1 DEF Own, WriteSole
    <3>2. QED
      BY <1>1, <1>3, <3>1 DEF Unpublished, Exists, Is, Final
  <2>2. ASSUME NEW j \in DOMAIN Cmd(r).out, j < runs[r].file PROVE Drafted(r, j)'
    <3>1. j # runs[r].file /\ runs[r].file \in DOMAIN Cmd(r).out
      BY <2>2, <1>1, OutLength
    <3>2. Partial(Cmd(r).out[j])[1] # Out(r) /\ Partial(Cmd(r).out[j]) \in Paths
      <4>1. Cmd(r).out[j] # Cmd(r).out[runs[r].file]
        BY <3>1, Commands
      <4>2. QED
        BY <4>1, OwnPaths DEF Out
    <3>3. Drafted(r, j) /\ Untouched(Partial(Cmd(r).out[j]))
      BY <1>1, <2>2, <3>2 DEF Own, WriteSole
    <3>4. QED
      BY <1>2, <1>3, <3>3, FileStays
  <2>3. QED
    BY <1>1, <1>3, <2>1, <2>2 DEF Own, WriteSole, Is, Body, Part
<1>5. StreamSole(r)'
  <2>1. Stream(r)' = Stream(r) /\ Len(Stream(r)) \in Nat
    <3>1. Stream(r)' = Stream(r)
      BY <1>3 DEF Stream, FileValue, Kind, Is, Body, Part, Digest
    <3>2. QED
      BY <3>1, StreamParts DEF IsSeq
  <2>2. /\ names[Partial(Out(r))] = f /\ Len(files[f]) = n
        /\ \A i \in 1 .. n : files[f][i] = Stream(r)[i]
    BY <1>1 DEF Own, StreamSole, Writing, At
  <2> HIDE DEF f, n
  <2>3. Len(files'[f]) = n + 1
    BY <1>1, <1>2, <2>2
  <2>4. \A i \in 1 .. n + 1 : files'[f][i] = Stream(r)[i]
    BY <1>1, <1>2, <2>2, <2>3
  <2>5. n + 1 <= Len(Stream(r))
    BY <1>1, <1>2, <2>1
  <2>6. names'[Partial(Out(r))] = f
    BY <1>1, <2>2
  <2>7. QED
    BY <1>1, <1>3, <2>1, <2>3, <2>4, <2>5, <2>6 DEF StreamSole, Writing, At, Partial
<1>6. QED
  BY <1>1, <1>4, <1>5 DEF Own, WorkSole, RenameSole, DoneSole, At

(* A file that was written from beginning to end, or closed short.         *)
LEMMA Finishing ==
  ASSUME Typed, Apart, NEW r \in Processes, Own(r), Close(r) \/ CloseShort(r)
  PROVE  /\ Ran(r) /\ runs[r].pc = "write" /\ names' = names /\ spoiled \subseteq spoiled'
         /\ Same(r, {"inode", "offset", "item", "value", "loaded"})
         /\ runs'[r].pc = (IF LastFile(r) THEN "rename" ELSE "open")
         /\ runs'[r].file = (IF LastFile(r) THEN 1 ELSE runs[r].file + 1)
         /\ Is(r, "quantize") /\ runs[r].file = 2 => runs'[r].packed = Body(Cmd(r).items)
         /\ \A p \in Paths : p # Partial(Out(r)) => Untouched(p)
         /\ \A j : j = runs[r].file => Drafted(r, j)'
<1> DEFINE P == Partial(Out(r))
           c == Content(P)
           d == files'[names'[P]]
           v == FileValue(r)
<1>1. /\ Ran(r) /\ runs[r].pc = "write" /\ names' = names /\ spoiled \subseteq spoiled'
      /\ Same(r, {"inode", "offset", "item", "value", "loaded"})
      /\ runs'[r].pc = (IF LastFile(r) THEN "rename" ELSE "open")
      /\ runs'[r].file = (IF LastFile(r) THEN 1 ELSE runs[r].file + 1)
      /\ \A p \in Paths : p # P => Untouched(p)
  BY CloseEffect, CloseShortEffect DEF Close, Unchanged, Same
<1>2. WriteSole(r) /\ StreamSole(r) /\ Writing(r)
  BY <1>1 DEF Own, Writing, At
<1>3. /\ v = Intended(r, runs[r].file) /\ (Kind(r) = "tensors") = Tensors(r, runs[r].file)
      /\ Kind(r) \in {"tensors", "checkpoint", "encoded"}
      /\ runs[r].file \in 1 .. Len(Cmd(r).out)
  BY <1>2, Contents
<1>4. /\ names[P] = runs[r].inode /\ Len(files[runs[r].inode]) = runs[r].offset
      /\ \A i \in 1 .. runs[r].offset : files[runs[r].inode][i] = Stream(r)[i]
  BY <1>2 DEF StreamSole
<1>5. runs[r].inode \in 1 .. Len(files) /\ IsSeq(files[runs[r].inode]) /\ P \in Paths
  BY <1>2, FileOf, AtName DEF Typed, FilesTyped
<1>6. names[P] # None /\ names'[P] # None /\ IsSeq(c)
  BY <1>1, <1>4, <1>5, FileOf DEF None, Content
<1>7. Len(c) = runs[r].offset /\ \A i \in 1 .. Len(c) : c[i] = Stream(r)[i]
  BY <1>4 DEF Content
<1>8. /\ Len(Stream(r)) = (IF Kind(r) = "encoded" THEN 3 ELSE 2)
      /\ Stream(r)[1] = Part("first", v) /\ Stream(r)[2] = Part("second", v)
      /\ Kind(r) = "encoded" => Stream(r)[3] = Digest(Body(v))
  BY StreamParts
<1>9. \/ Close(r) /\ Len(c) = Len(Stream(r))
      \/ CloseShort(r) /\ Len(c) = 2 /\ Kind(r) # "tensors" /\ Out(r) \in spoiled' /\ files' = files
  BY <1>7, CloseEffect, CloseShortEffect
<1>10. /\ Kind(r) = "checkpoint" /\ Close(r) => /\ Len(d) = Len(c) + 1
                                                /\ \A i \in 1 .. Len(c) : d[i] = c[i]
                                                /\ d[Len(d)] = Digest(SubSeq(c, 1, 2))
       /\ Kind(r) # "checkpoint" \/ CloseShort(r) => d = c
  <2>1. Kind(r) # "checkpoint" \/ CloseShort(r) => files' = files
    BY CloseEffect, CloseShortEffect
  <2>2. Kind(r) = "checkpoint" /\ Close(r) =>
          /\ Len(files'[names[P]]) = Len(c) + 1
          /\ \A i \in 1 .. Len(c) : files'[names[P]][i] = c[i]
          /\ files'[names[P]][Len(files'[names[P]])] = Digest(SubSeq(c, 1, 2))
    BY CloseEffect
  <2>3. QED
    BY <1>1, <2>1, <2>2 DEF Content
<1>11. IsSeq(d)
  BY <1>1, <1>4, <1>5, CloseEffect, CloseShortEffect DEF FilesTyped, Content
<1> HIDE DEF P, c, d, v
<1>12. /\ Kind(r) = "encoded" /\ Close(r) => Len(c) = 3
       /\ Kind(r) \in {"tensors", "checkpoint"} \/ CloseShort(r) => Len(c) = 2
       /\ Len(c) = 2 \/ Len(c) = 3
  <2>1. Len(Stream(r)) = 2 \/ Len(Stream(r)) = 3
    BY <1>8
  <2>2. Kind(r) = "encoded" => Len(Stream(r)) = 3
    BY <1>8
  <2>3. Kind(r) \in {"tensors", "checkpoint"} => Len(Stream(r)) = 2
    BY <1>8
  <2>4. Close(r) => Len(c) = Len(Stream(r))
    BY <1>7, CloseEffect
  <2>5. CloseShort(r) => Len(c) = 2
    BY <1>7, CloseShortEffect
  <2>6. QED
    BY <2>1, <2>2, <2>3, <2>4, <2>5
<1>13. SubSeq(c, 1, 2) = Body(v)
  <2>1. Len(c) >= 2 /\ c[1] = Part("first", v) /\ c[2] = Part("second", v)
    BY <1>6, <1>7, <1>8, <1>9 DEF IsSeq
  <2>2. SubSeq(c, 1, 2) = <<c[1], c[2]>>
    BY <1>6, <2>1, FirstTwo
  <2>3. QED
    BY <2>1, <2>2 DEF Body
<1>14. /\ Len(d) >= 2 /\ SubSeq(d, 1, 2) = Body(v)
       /\ Kind(r) = "tensors" => Len(d) = 2
       /\ Kind(r) # "tensors" /\ Out(r) \notin spoiled' => Len(d) = 3 /\ d[3] = Digest(Body(v))
  <2>1. CASE Kind(r) = "tensors"
    <3>1. d = c /\ Len(c) = 2
      BY <1>10, <1>12, <2>1
    <3>2. QED
      BY <1>13, <2>1, <3>1
  <2>2. CASE Kind(r) = "encoded" /\ Close(r)
    <3>1. d = c /\ Len(c) = 3
      BY <1>10, <1>12, <2>2
    <3>2. c[3] = Digest(Body(v))
      BY <1>7, <1>8, <2>2, <3>1
    <3>3. QED
      BY <1>13, <2>2, <3>1, <3>2
  <2>3. CASE Kind(r) = "checkpoint" /\ Close(r)
    <3>1. Len(c) = 2 /\ Len(d) = Len(c) + 1
      BY <1>10, <1>12, <2>3
    <3>2. (\A i \in 1 .. Len(c) : d[i] = c[i]) /\ d[Len(d)] = Digest(SubSeq(c, 1, 2))
      BY <1>10, <2>3
    <3>3. Len(d) = 3 /\ 1 \in 1 .. Len(c) /\ 2 \in 1 .. Len(c)
      BY <3>1
    <3>4. d[1] = c[1] /\ d[2] = c[2]
      BY <3>2, <3>3
    <3>5. d[3] = Digest(Body(v))
      BY <3>2, <3>3, <1>13
    <3>6. Len(c) = 2 /\ Len(d) = 3 /\ d[1] = c[1] /\ d[2] = c[2] /\ d[3] = Digest(Body(v))
      BY <3>1, <3>3, <3>4, <3>5
    <3>7. Len(d) >= 2 /\ Len(c) >= 2
      BY <3>6
    <3>8. SubSeq(d, 1, 2) = <<d[1], d[2]>> /\ SubSeq(c, 1, 2) = <<c[1], c[2]>>
      BY <1>6, <1>11, <3>7, FirstTwo
    <3>9. QED
      BY <1>13, <2>3, <3>6, <3>8
  <2>4. CASE CloseShort(r)
    <3>1. d = c /\ Len(c) = 2 /\ Kind(r) # "tensors" /\ Out(r) \in spoiled'
      BY <1>10, <1>12, <2>4, CloseShortEffect
    <3>2. QED
      BY <1>13, <3>1
  <2>5. QED
    BY <1>3, <2>1, <2>2, <2>3, <2>4
<1>15. ASSUME NEW j, j = runs[r].file PROVE Drafted(r, j)'
  <2>1. Cmd(r)' = Cmd(r) /\ runs'[r].value = runs[r].value
    BY <1>1 DEF Cmd, Ran, Same
  <2>2. \A i : Intended(r, i)' = Intended(r, i) /\ (Tensors(r, i)' <=> Tensors(r, i))
    BY <2>1 DEF Intended, Tensors, Is, Body, Part
  <2>3. P = Partial(Cmd(r).out[j]) /\ Out(r) = Cmd(r).out[j]
    BY <1>15 DEF P, Out
  <2>4. Intended(r, j)' = v /\ (Tensors(r, j)' <=> Kind(r) = "tensors")
    BY <1>3, <1>15, <2>2
  <2>5. ASSUME NEW e, e = d PROVE Complete(r, j, e)'
    BY <1>14, <2>1, <2>3, <2>4, <2>5 DEF Complete, Digest, Body, Part
  <2>6. Drafted(r, j)'
    BY <1>6, <2>1, <2>3, <2>5 DEF Drafted, Exists, Content, d, Partial
  <2>7. QED
    BY <2>6
<1>16. Is(r, "quantize") /\ runs[r].file = 2 => runs'[r].packed = Body(Cmd(r).items)
  <2>1. SUFFICES ASSUME Is(r, "quantize"), runs[r].file = 2 PROVE runs'[r].packed = Body(Cmd(r).items)
    OBVIOUS
  <2>2. Kind(r) = "tensors"
    BY <2>1 DEF Kind, Is
  <2>3. Close(r) /\ Len(c) = 2
    BY <1>12, <2>2, CloseShortEffect
  <2>4. runs'[r].packed = c
    BY <2>2, <2>3, CloseEffect DEF c, P
  <2>5. v = Cmd(r).items
    BY <2>1, <1>3 DEF Intended
  <2>6. c = Body(v)
    <3>1. c = [i \in 1 .. 2 |-> c[i]]
      BY <1>6, <2>3 DEF IsSeq
    <3>2. c[1] = Part("first", v) /\ c[2] = Part("second", v)
      BY <1>7, <1>8, <2>3
    <3>3. QED
      BY <3>1, <3>2 DEF Body
  <2>7. QED
    BY <2>4, <2>5, <2>6
<1>17. QED
  BY <1>1, <1>15, <1>16 DEF P

LEMMA CloseOwn ==
  ASSUME Typed, Apart, NEW r \in Processes, Own(r), Close(r) \/ CloseShort(r) PROVE Own(r)'
<1>1. /\ Ran(r) /\ runs[r].pc = "write" /\ names' = names /\ spoiled \subseteq spoiled'
      /\ Same(r, {"inode", "offset", "item", "value", "loaded"})
      /\ runs'[r].pc = (IF LastFile(r) THEN "rename" ELSE "open")
      /\ runs'[r].file = (IF LastFile(r) THEN 1 ELSE runs[r].file + 1)
      /\ Is(r, "quantize") /\ runs[r].file = 2 => runs'[r].packed = Body(Cmd(r).items)
      /\ \A p \in Paths : p # Partial(Out(r)) => Untouched(p)
      /\ \A j : j = runs[r].file => Drafted(r, j)'
  BY Finishing
<1>2. Cmd(r)' = Cmd(r) /\ runs'[r].value = runs[r].value /\ session' = session
  BY <1>1 DEF Cmd, Ran, Same
<1>3. /\ Len(Cmd(r).out) = (IF Is(r, "quantize") THEN 3 ELSE 1)
      /\ DOMAIN Cmd(r).out = 1 .. Len(Cmd(r).out) /\ runs[r].file \in DOMAIN Cmd(r).out
  BY <1>1, OutLength
<1>4. \A j \in DOMAIN Cmd(r).out : Unpublished(r, j)'
  <2>1. SUFFICES ASSUME NEW j \in DOMAIN Cmd(r).out PROVE Unpublished(r, j)'
    OBVIOUS
  <2>2. Unpublished(r, j)
    BY <1>1 DEF Own, WriteSole
  <2>3. QED
    BY <1>1, <1>2, <2>2 DEF Unpublished, Exists, Is
<1>5. ASSUME NEW j \in DOMAIN Cmd(r).out, j <= runs[r].file PROVE Drafted(r, j)'
  <2>1. CASE j = runs[r].file
    BY <1>1, <2>1
  <2>2. CASE j # runs[r].file
    <3>1. Drafted(r, j)
      <4>1. j < runs[r].file
        BY <1>3, <1>5, <2>2
      <4>2. QED
        BY <1>1, <4>1 DEF Own, WriteSole
    <3>2. Untouched(Partial(Cmd(r).out[j]))
      BY <1>1, <1>3, <2>2, OwnPaths DEF Out
    <3>3. QED
      BY <1>1, <1>2, <3>1, <3>2, FileStays
  <2>3. QED
    BY <2>1, <2>2
<1>6. CASE LastFile(r)
  <2>1. runs'[r].pc = "rename" /\ runs'[r].file = 1 /\ runs[r].file = Len(Cmd(r).out)
    BY <1>1, <1>6 DEF LastFile
  <2>2. \A j \in DOMAIN Cmd(r).out : j <= runs[r].file /\ ~(j < 1)
    BY <1>3, <2>1
  <2>3. RenameSole(r)'
    BY <1>2, <1>4, <1>5, <2>1, <2>2 DEF RenameSole, At
  <2>4. QED
    BY <2>1, <2>3 DEF Own, WorkSole, WriteSole, StreamSole, DoneSole, At, Writing
<1>7. CASE ~LastFile(r)
  <2>1. runs'[r].pc = "open" /\ runs'[r].file = runs[r].file + 1
    BY <1>1, <1>7
  <2>2. \A j \in DOMAIN Cmd(r).out : j < runs'[r].file => j <= runs[r].file
    BY <1>3, <2>1
  <2>3. Is(r, "quantize") /\ runs'[r].file = 3 => runs'[r].packed = Body(Cmd(r).items)
    <3>1. runs'[r].file = 3 => runs[r].file = 2
      BY <1>3, <2>1
    <3>2. QED
      BY <1>1, <3>1
  <2>4. WriteSole(r)'
    BY <1>2, <1>4, <1>5, <2>1, <2>2, <2>3 DEF WriteSole, Is, Body, Part
  <2>5. QED
    BY <2>1, <2>4 DEF Own, WorkSole, StreamSole, RenameSole, DoneSole, At, Writing
<1>8. QED
  BY <1>6, <1>7

LEMMA RenameOwn ==
  ASSUME Typed, Apart, NEW r \in Processes, Own(r), Rename(r) PROVE Own(r)'
<1>1. /\ Ran(r) /\ runs[r].pc = "rename" /\ Same(r, {"inode", "offset", "value", "packed", "loaded"})
      /\ \/ /\ ~LastFile(r) /\ runs'[r].pc = "rename" /\ runs'[r].file = runs[r].file + 1
            /\ runs'[r].item = runs[r].item
         \/ /\ LastFile(r) /\ Is(r, "record") /\ runs'[r].pc = "work"
            /\ runs'[r].file = runs[r].file /\ runs'[r].item = runs[r].item + 1
         \/ /\ LastFile(r) /\ runs'[r].pc = (IF Is(r, "sample") THEN "use" ELSE "done")
            /\ runs'[r].file = runs[r].file /\ runs'[r].item = runs[r].item
      /\ files' = files /\ names'[Final(Out(r))] = names[Partial(Out(r))]
      /\ \A p \in Paths : p # Partial(Out(r)) /\ p # Final(Out(r)) => Untouched(p)
  BY RenameEffect
<1>2. Cmd(r)' = Cmd(r) /\ runs'[r].value = runs[r].value /\ session' = session /\ spoiled' = spoiled
  BY <1>1 DEF Cmd, Ran, Same, Rename
<1>3. DOMAIN Cmd(r).out = 1 .. Len(Cmd(r).out) /\ runs[r].file \in DOMAIN Cmd(r).out
  BY <1>1, OutLength
<1>4. ASSUME NEW j \in DOMAIN Cmd(r).out
      PROVE  IF j <= runs[r].file THEN Placed(r, j)' ELSE Unpublished(r, j)' /\ Drafted(r, j)'
  <2>1. IF j < runs[r].file THEN Placed(r, j) ELSE Unpublished(r, j) /\ Drafted(r, j)
    BY <1>1 DEF Own, RenameSole, At
  <2>2. CASE j = runs[r].file
    <3>1. Drafted(r, j) /\ Out(r) = Cmd(r).out[j]
      BY <2>1, <2>2, <1>3 DEF Out
    <3>2. \A c : Complete(r, j, c) => Complete(r, j, c)'
      BY <1>2, CompleteKept
    <3>3. /\ names'[Final(Cmd(r).out[j])] # None
          /\ Complete(r, j, files'[names'[Final(Cmd(r).out[j])]])
      BY <1>1, <3>1 DEF Drafted, Exists, Content
    <3>4. ASSUME NEW e, e = files'[names'[Final(Cmd(r).out[j])]] PROVE Complete(r, j, e)'
      BY <3>2, <3>3, <3>4
    <3>5. Placed(r, j)'
      BY <1>2, <3>3, <3>4 DEF Placed, Exists, Content, Final
    <3>6. QED
      BY <1>3, <2>2, <3>5
  <2>3. CASE j # runs[r].file
    <3>1. Untouched(Partial(Cmd(r).out[j])) /\ Untouched(Final(Cmd(r).out[j]))
      <4>1. /\ Final(Cmd(r).out[j]) \in Paths /\ Partial(Cmd(r).out[j]) \in Paths
            /\ Final(Cmd(r).out[j]) # Final(Out(r)) /\ Partial(Cmd(r).out[j]) # Partial(Out(r))
            /\ Final(Cmd(r).out[j]) # Partial(Out(r))
        BY <1>3, <2>3, OwnPaths DEF Out
      <4>2. Partial(Cmd(r).out[j]) # Final(Out(r))
        BY DEF Partial, Final
      <4>3. QED
        BY <1>1, <4>1, <4>2
    <3>2. names'[Final(Cmd(r).out[j])] = names[Final(Cmd(r).out[j])]
      BY <3>1 DEF Untouched
    <3>3. /\ Unpublished(r, j)' <=> Unpublished(r, j)
          /\ Placed(r, j) => Placed(r, j)'
          /\ Drafted(r, j) => Drafted(r, j)'
      BY <1>2, <3>1, <3>2, FileStays
    <3>4. (j < runs[r].file) = (j <= runs[r].file)
      BY <1>3, <2>3
    <3>5. QED
      BY <2>1, <3>3, <3>4
  <2>4. QED
    BY <2>2, <2>3
<1>5. CASE ~LastFile(r)
  <2>1. runs'[r].pc = "rename" /\ runs'[r].file = runs[r].file + 1
    BY <1>1, <1>5
  <2>2. \A j \in DOMAIN Cmd(r).out : (j < runs'[r].file) = (j <= runs[r].file)
    BY <1>3, <2>1
  <2>3. RenameSole(r)'
    BY <1>2, <1>4, <2>1, <2>2 DEF RenameSole, At
  <2>4. QED
    BY <2>1, <2>3 DEF Own, WorkSole, WriteSole, StreamSole, DoneSole, At, Writing
<1>6. CASE LastFile(r)
  <2>1. \A j \in DOMAIN Cmd(r).out : Placed(r, j)'
    BY <1>3, <1>4, <1>6 DEF LastFile
  <2>2. DoneSole(r)'
    BY <1>2, <2>1 DEF DoneSole
  <2>3. WorkSole(r)'
    BY <1>1, <1>2, <1>6 DEF WorkSole, At, Is, Unpublished
  <2>4. runs'[r].pc \in {"work", "done", "use"}
    BY <1>1, <1>6
  <2>5. QED
    BY <2>2, <2>3, <2>4 DEF Own, WriteSole, StreamSole, RenameSole, At, Writing
<1>7. QED
  BY <1>5, <1>6

LEMMA EndOwn ==
  ASSUME Typed, Apart, NEW r \in Processes, Own(r), Use(r) \/ Fail(r) \/ Kill(r) PROVE Own(r)'
<1>1. /\ Ran(r) /\ runs'[r].pc \in {"use", "done", "failed", "killed"}
      /\ runs'[r].pc = "done" => runs[r].pc = "use"
  BY UseEffect, FailEffect, KillEffect
<1>2. runs[r].pc = "use" => ~Is(r, "quantize")
  BY DEF Typed, RunTyped, Places, Is
<1>3. Is(r, "quantize")' = Is(r, "quantize")
  BY <1>1 DEF Ran, Is, Cmd
<1>4. QED
  BY <1>1, <1>2, <1>3 DEF Own, WorkSole, WriteSole, StreamSole, RenameSole, DoneSole, At, Writing

LEMMA SelfOwn == ASSUME Typed, Apart, NEW r \in Processes, Own(r), Step(r) PROVE Own(r)'
  BY StartOwn, WorkOwn, OpenOwn, WriteOwn, CloseOwn, RenameOwn, EndOwn DEF Step

(* What becomes of a published file that only one process at a time was to *)
(* publish: only a rename to its name may change it.                       *)
LEMMA FinalSteps ==
  ASSUME Typed, Apart, Sole, Drafts, NEW r \in Processes, Step(r), NEW n \in Names, n \notin contested
  PROVE  \/ Untouched(Final(n))
         \/ /\ Rename(r) /\ n = Out(r) /\ Clean(r) /\ Own(r) /\ At(r, "rename")
            /\ Drafted(r, runs[r].file) /\ Unpublished(r, runs[r].file)
<1>1. Final(n) \in Paths /\ Final(n)[1] = n /\ Final(n) # Partial(Out(r))
  BY PathNames DEF Final, Partial
<1>2. CASE n \notin OutSet(r)
  BY <1>1, <1>2, StepFrame
<1>3. CASE n \in OutSet(r)
  <2>1. Clean(r) /\ Own(r)
    BY <1>3 DEF Sole, Drafts
  <2>2. CASE Start(r) \/ Work(r) \/ Use(r) \/ Kill(r) \/ CloseShort(r)
    BY <1>1, <2>2, StartEffect, WorkEffect, UseEffect, KillEffect, CloseShortEffect
  <2>3. CASE Open(r)
    BY <1>1, <2>3, OpenEffect
  <2>4. CASE Close(r)
    BY <1>1, <2>4, CloseEffect
  <2>5. CASE Fail(r)
    <3>1. \A m \in OutSet(r) : Final(n) # Partial(m)
      BY DEF Final, Partial
    <3>2. QED
      BY <1>1, <2>5, <3>1, FailEffect
  <2>6. CASE Write(r)
    <3>1. /\ names' = names /\ runs[r].pc = "write"
          /\ \A i \in 1 .. Len(files) : i # runs[r].inode => files'[i] = files[i]
      BY <2>6, WriteEffect
    <3>2. names[Partial(Out(r))] = runs[r].inode /\ runs[r].inode # None
      BY <2>1, <3>1 DEF Own, StreamSole, Writing, At, Typed, RunTyped
    <3>3. Partial(Out(r)) \in Paths /\ Exists(Partial(Out(r)))
      BY <3>2, AtName DEF Exists
    <3>4. names[Final(n)] # runs[r].inode
      BY <1>1, <3>2, <3>3 DEF Apart
    <3>5. QED
      BY <1>1, <3>1, <3>4, FileOf DEF Untouched
  <2>7. CASE Rename(r)
    <3>1. /\ runs[r].pc = "rename"
          /\ \A p \in Paths : p # Partial(Out(r)) /\ p # Final(Out(r)) => Untouched(p)
      BY <2>7, RenameEffect
    <3>2. runs[r].file \in DOMAIN Cmd(r).out /\ runs[r].file \in Nat
      BY <3>1, OutLength
    <3>3. ~(runs[r].file < runs[r].file)
      BY <3>2
    <3>4. Drafted(r, runs[r].file) /\ Unpublished(r, runs[r].file)
      BY <2>1, <3>1, <3>2, <3>3 DEF Own, RenameSole, At
    <3>5. n = Out(r) \/ Final(n) # Final(Out(r))
      BY DEF Final
    <3>6. QED
      BY <1>1, <2>1, <2>7, <3>1, <3>4, <3>5 DEF At
  <2>8. QED
    BY <2>2, <2>3, <2>4, <2>5, <2>6, <2>7 DEF Step
<1>4. QED
  BY <1>2, <1>3

(* Files of the other tools stay.                                          *)
LEMMA FinalStays ==
  ASSUME Typed, Apart, Sole, Drafts, NEW r \in Processes, Step(r), NEW n \in Names, n \notin contested,
         Exists(Final(n)), \A q \in Processes : n \in OutSet(q) => ~Is(q, "record")
  PROVE  Untouched(Final(n))
<1>1. ~(Rename(r) /\ n = Out(r) /\ Unpublished(r, runs[r].file))
  <2>1. n = Out(r) => ~Is(r, "record")
    BY AtName
  <2>2. QED
    BY <2>1 DEF Unpublished, Out
<1>2. QED
  BY <1>1, FinalSteps

LEMMA DraftsStep == ASSUME Typed, Apart, Sole, Drafts, NEW r \in Processes, Step(r) PROVE Drafts'
<1>1. /\ Ran(r) /\ contested \subseteq contested' /\ spoiled \subseteq spoiled'
      /\ Start(r) \/ (Live(r) /\ contested' = contested)
      /\ \A p \in Paths : p[1] \notin OutSet(r) => Untouched(p)
      /\ \A q \in Processes : Writing(q) /\ Out(q) \notin OutSet(r) =>
           files'[runs[q].inode] = files[runs[q].inode]
  BY StepFrame
<1>2. Processes' = Processes /\ \A s \in Processes : Cmd(s)' = Cmd(s) /\ OutSet(s)' = OutSet(s)
  BY <1>1 DEF Ran, Processes, OutSet, Cmd
<1>3. ASSUME NEW s \in Processes, Clean(s)' PROVE Own(s)'
  <2>1. Clean(s) /\ Own(s)
    BY <1>1, <1>2, <1>3 DEF Clean, Drafts
  <2>2. CASE s = r
    BY <2>1, <2>2, SelfOwn
  <2>3. CASE s # r /\ OutSet(s) \cap OutSet(r) = {}
    <3>1. Out(s) \in OutSet(s)
      BY AtName
    <3>2. \A p \in Paths : p[1] \in OutSet(s) => Untouched(p)
      BY <1>1, <2>3
    <3>3. runs'[s] = runs[s] /\ session' = session
      BY <1>1, <2>3 DEF Ran
    <3>4. Writing(s) => files'[runs[s].inode] = files[runs[s].inode]
      BY <1>1, <2>3, <3>1
    <3>5. QED
      BY <1>1, <2>1, <3>2, <3>3, <3>4, OwnKept
  <2>4. CASE s # r /\ Publishing(r) /\ OutSet(s) \cap OutSet(r) # {}
    <3>1. OutSet(s) = OutSet(r) /\ (Is(r, "record") <=> Is(s, "record"))
      BY <2>4, Unshared
    <3>2. ~Publishing(s)
      BY <2>1, <2>4 DEF Sole, Clean
    <3>3. runs'[s] = runs[s] /\ session' = session
      BY <1>1, <2>4 DEF Ran
    <3>4. DoneSole(s)'
      <4>1. SUFFICES ASSUME At(s, "done"), Is(s, "quantize"), NEW j \in DOMAIN Cmd(s).out
                     PROVE  Placed(s, j)'
        BY <1>2, <3>3 DEF DoneSole, At, Is
      <4>2. Placed(s, j)
        BY <2>1, <4>1 DEF Own, DoneSole
      <4>3. Cmd(s).out[j] \in Names /\ Cmd(s).out[j] \in OutSet(s)
        BY OwnPaths
      <4>4. Cmd(s).out[j] \notin contested /\ Exists(Final(Cmd(s).out[j]))
        BY <2>1, <4>2, <4>3 DEF Clean, Placed
      <4>5. ASSUME NEW q \in Processes, Cmd(s).out[j] \in OutSet(q) PROVE ~Is(q, "record")
        <5>1. Is(q, "record") <=> Is(s, "record")
          BY <4>3, <4>5, Unshared
        <5>2. QED
          BY <4>1, <5>1 DEF Is
      <4>6. Untouched(Final(Cmd(s).out[j]))
        BY <4>3, <4>4, <4>5, FinalStays
      <4>7. runs'[s].value = runs[s].value
        BY <3>3
      <4>8. QED
        BY <1>1, <3>3, <4>2, <4>6, <4>7, FileStays
    <3>5. QED
      BY <3>2, <3>3, <3>4 DEF Publishing, Own, WorkSole, WriteSole, StreamSole, RenameSole, At, Writing
  <2>5. CASE s # r /\ ~Publishing(r)
    <3>1. files' = files /\ \A p \in Paths : Untouched(p)
      BY <2>5, ReaderFrame
    <3>2. runs'[s] = runs[s] /\ session' = session
      BY <1>1, <2>5 DEF Ran
    <3>3. QED
      BY <1>1, <2>1, <3>1, <3>2, OwnKept
  <2>6. QED
    BY <2>2, <2>3, <2>4, <2>5
<1>4. QED
  BY <1>2, <1>3 DEF Drafts

(* Between the commands, and when nothing happens.                         *)
LEMMA RestingOwn ==
  ASSUME Typed, Drafts, UNCHANGED <<session, runs, contested, spoiled>>,
         \A n \in Names : Untouched(Final(n)), \A q \in Processes : ~Live(q)
  PROVE  Drafts'
<1>1. ASSUME NEW s \in Processes, Clean(s)' PROVE Own(s)'
  <2>1. Cmd(s)' = Cmd(s) /\ runs'[s] = runs[s] /\ ~Live(s) /\ Own(s)
    BY <1>1 DEF Cmd, Clean, OutSet, Drafts
  <2>2. DoneSole(s)'
    <3>1. SUFFICES ASSUME At(s, "done"), Is(s, "quantize"), NEW j \in DOMAIN Cmd(s).out
                   PROVE  Placed(s, j)'
      BY <2>1 DEF DoneSole, At, Is
    <3>2. Placed(s, j)
      BY <2>1, <3>1 DEF Own, DoneSole
    <3>3. Untouched(Final(Cmd(s).out[j])) /\ runs'[s].value = runs[s].value
      BY <2>1, OwnPaths
    <3>4. QED
      BY <3>2, <3>3, FileStays
  <2>3. QED
    BY <2>1, <2>2 DEF Live, Own, WorkSole, WriteSole, StreamSole, RenameSole, At, Writing
<1>2. QED
  BY <1>1 DEF Drafts, Processes

LEMMA UnchangedOwn ==
  ASSUME UNCHANGED vars, Drafts PROVE Drafts'
<1>1. ASSUME NEW s \in Processes, Clean(s)' PROVE Own(s)'
  <2>1. /\ names' = names /\ files' = files /\ runs' = runs /\ Cmd(s)' = Cmd(s) /\ Own(s)
        /\ spoiled' = spoiled
    BY <1>1 DEF vars, Cmd, Clean, OutSet, Drafts
  <2>2. Out(s)' = Out(s) /\ Stream(s)' = Stream(s)
    BY <2>1 DEF Out, Stream, FileValue, Kind, Is, Body, Part, Digest
  <2>3. \A j, c : Complete(s, j, c)' <=> Complete(s, j, c)
    BY <2>1 DEF Complete, Intended, Tensors, Is, Body, Part, Digest
  <2>4. \A j : /\ Placed(s, j)' <=> Placed(s, j)
               /\ Drafted(s, j)' <=> Drafted(s, j)
               /\ Unpublished(s, j)' <=> Unpublished(s, j)
    BY <2>1, <2>3 DEF Placed, Drafted, Unpublished, Exists, Content, Is, Final, Partial
  <2>5. WorkSole(s)' /\ WriteSole(s)' /\ RenameSole(s)' /\ DoneSole(s)'
    BY <2>1, <2>4 DEF Own, WorkSole, WriteSole, RenameSole, DoneSole, At, Is, Body, Part
  <2>6. StreamSole(s)'
    BY <2>1, <2>2 DEF Own, StreamSole, Writing, At, Partial
  <2>7. QED
    BY <2>5, <2>6 DEF Own
<1>2. QED
  BY <1>1 DEF Drafts, Processes, vars

-----------------------------------------------------------------------------
(* The inductive invariant of who writes what.                             *)
Base == Typed /\ Apart /\ Sole /\ Parts /\ Drafts

LEMMA NextBase == Base /\ [Next]_vars => Base'
<1> SUFFICES ASSUME Base, [Next]_vars PROVE Base'
  OBVIOUS
<1>1. Typed' /\ Apart' /\ Parts'
  BY NextTyped, NextParts DEF Base
<1>2. CASE \E r \in Processes : Step(r)
  BY <1>1, <1>2, SoleStep, DraftsStep DEF Base
<1>3. CASE Tidy
  BY <1>1, <1>3, TidyEffect, SoleOther, RestingOwn DEF Base
<1>4. CASE UNCHANGED vars
  BY <1>1, <1>4, SoleOther, UnchangedOwn DEF Base, vars
<1>5. QED
  BY <1>2, <1>3, <1>4 DEF Next, Finished

LEMMA InitBase == Init => Base
<1> SUFFICES ASSUME Init PROVE Base
  OBVIOUS
<1>1. Typed /\ Apart /\ Parts
  BY InitTyped, InitParts
<1>2. \A r \in Processes : runs[r].pc = "off"
  BY DEF Init, Idle
<1>3. Sole
  BY <1>2 DEF Sole, Publishing, Clean, Init
<1>4. Drafts
  BY <1>2 DEF Drafts, Own, WorkSole, WriteSole, StreamSole, RenameSole, DoneSole, At, Writing
<1>5. QED
  BY <1>1, <1>3, <1>4 DEF Base

(* The invariant holds always.                                             *)
THEOREM BaseAlways == Spec => []Base
  BY InitBase, NextBase, PTL DEF Spec

(* Type correctness: what require_new and the readers rely on of files,    *)
(* processes and names.                                                    *)
THEOREM PublicationTypeCorrect == Spec => []Typed
<1>1. Base => Typed
  BY DEF Base
<1>2. QED
  BY <1>1, BaseAlways, PTL

(* A checkpoint that can be loaded holds the state that uninterrupted      *)
(* training to its step count gives: train_run's resume, whatever failed,  *)
(* was killed or wrote the same names in between.  It needs no more than   *)
(* Parts.                                                                  *)
THEOREM ResumeIsExact == Spec => []ResumedIsUninterrupted
<1>1. Base => ResumedIsUninterrupted
  <2> SUFFICES ASSUME Base, NEW n \in PublishedBy("train") \ contested, Readable(n, Digested)
               PROVE  Value(Read(n)).inputs = [k \in 1 .. Value(Read(n)).steps |-> k - 1]
    BY DEF ResumedIsUninterrupted
  <2>1. PICK r \in Processes : Is(r, "train") /\ n \in OutSet(r)
    BY DEF PublishedBy, OutSet
  <2>2. n \in Names
    BY <2>1, Commands DEF Base
  <2>3. /\ Exists(Final(n)) /\ IsSeq(Content(Final(n))) /\ Len(Content(Final(n))) >= 2
        /\ Value(Read(n)) = Content(Final(n))[1].of /\ Content(Final(n))[1].kind = "first"
    BY <2>2, ReadValue DEF Base
  <2>4. Sound(n, Content(Final(n)))
    BY <2>2, <2>3, PathNames DEF Parts, Base
  <2>5. \A q \in Processes : n \in OutSet(q) => Is(q, "train")
    BY <2>1, Unshared DEF Base
  <2>6. 1 \in DOMAIN Content(Final(n))
    BY <2>3, SeqIs DEF IsSeq
  <2>7. QED
    BY <2>3, <2>4, <2>5, <2>6 DEF Sound, Uninterrupted
<1>2. QED
  BY <1>1, BaseAlways, PTL

(* Checkpoints, packages and caches are published once: no step, crash or  *)
(* cleaning up changes or removes them.                                    *)
THEOREM PublishedFilesStay == Spec => PublishedStays
<1>1. Base /\ [Next]_vars =>
        [\A n \in Names \ (contested' \cup PublishedBy("record")) :
           Exists(Final(n)) => Exists(Final(n))' /\ Content(Final(n))' = Content(Final(n))]_vars
  <2> SUFFICES ASSUME Base, Next, NEW n \in Names, n \notin contested', n \notin PublishedBy("record"),
                      Exists(Final(n))
               PROVE  Exists(Final(n))' /\ Content(Final(n))' = Content(Final(n))
    OBVIOUS
  <2>1. CASE \E r \in Processes : Step(r)
    <3>1. PICK r \in Processes : Step(r)
      BY <2>1
    <3>2. n \notin contested
      BY <3>1, StepFrame DEF Base
    <3>3. \A q \in Processes : n \in OutSet(q) => ~Is(q, "record")
      BY DEF PublishedBy, OutSet
    <3>4. Untouched(Final(n))
      BY <3>1, <3>2, <3>3, FinalStays DEF Base
    <3>5. QED
      BY <3>4 DEF Untouched, Exists, Content, Final
  <2>2. CASE Tidy
    <3>1. Untouched(Final(n))
      BY <2>2, TidyEffect DEF Base
    <3>2. QED
      BY <3>1 DEF Untouched, Exists, Content, Final
  <2>3. CASE UNCHANGED vars
    BY <2>3 DEF vars, Exists, Content, Final
  <2>4. QED
    BY <2>1, <2>2, <2>3 DEF Next, Finished
<1>2. QED
  BY <1>1, BaseAlways, PTL DEF Spec, PublishedStays

-----------------------------------------------------------------------------
(* What is read of a file that is complete.                                *)
LEMMA CompleteRead ==
  ASSUME NEW r, NEW j, NEW c, Complete(r, j, c)
  PROVE  /\ SubSeq(c, 1, 2) = Body(Intended(r, j)) /\ Len(c) >= 2
         /\ Whole(SubSeq(c, 1, 2)) /\ Value(SubSeq(c, 1, 2)) = Intended(r, j)
  BY Bodies DEF Complete

(* What is read under a name after a step: what was, or the file renamed.  *)
LEMMA ReadsAfter ==
  ASSUME Base, NEW r \in Processes, Step(r), NEW n \in Names, n \notin contested
  PROVE  \/ /\ Untouched(Final(n)) /\ (Exists(Final(n))' <=> Exists(Final(n)))
            /\ Exists(Final(n)) => Content(Final(n))' = Content(Final(n)) /\ Read(n)' = Read(n)
         \/ /\ Rename(r) /\ n = Out(r) /\ Clean(r) /\ Own(r) /\ At(r, "rename")
            /\ Unpublished(r, runs[r].file)
            /\ Exists(Final(n))' /\ Complete(r, runs[r].file, Content(Final(n))')
            /\ Read(n)' = Body(Intended(r, runs[r].file))
<1>1. CASE Untouched(Final(n))
  BY <1>1 DEF Untouched, Exists, Content, Read, Final
<1>2. CASE /\ Rename(r) /\ n = Out(r) /\ Clean(r) /\ Own(r) /\ At(r, "rename")
           /\ Drafted(r, runs[r].file) /\ Unpublished(r, runs[r].file)
  <2>1. files' = files /\ names'[Final(n)] = names[Partial(n)]
    BY <1>2, RenameEffect DEF Base
  <2>2. Exists(Partial(n)) /\ Complete(r, runs[r].file, Content(Partial(n)))
    BY <1>2 DEF Drafted, Out
  <2>3. Content(Final(n))' = Content(Partial(n)) /\ Exists(Final(n))'
    BY <2>1, <2>2 DEF Content, Exists, Final
  <2>4. Read(n)' = SubSeq(Content(Partial(n)), 1, 2)
    BY <2>1 DEF Read, Content, Final
  <2>5. QED
    BY <1>2, <2>2, <2>3, <2>4, CompleteRead
<1>3. QED
  BY <1>1, <1>2, FinalSteps DEF Base

LEMMA PublishedWholeStep ==
  ASSUME Base, PublishedWhole, NEW r \in Processes, Step(r) PROVE PublishedWhole'
<1>1. SUFFICES ASSUME NEW n \in Names, n \notin contested', Exists(Final(n))' PROVE Whole(Read(n))'
  BY DEF PublishedWhole
<1>2. n \notin contested
  BY <1>1, StepFrame DEF Base
<1>3. (Read(n)' = Read(n) /\ Whole(Read(n))) \/ \E v : Read(n)' = Body(v)
  BY <1>1, <1>2, ReadsAfter DEF PublishedWhole
<1>4. ASSUME NEW b, Read(n)' = b, Whole(b) PROVE Whole(Read(n))'
  BY <1>4 DEF Whole, Value, Body, Part
<1>5. QED
  BY <1>3, <1>4, Bodies

(* Between the commands only temporary names go.                           *)
LEMMA FinalsSame ==
  ASSUME \A n \in Names : Untouched(Final(n))
  PROVE  \A n \in Names : /\ Exists(Final(n))' <=> Exists(Final(n))
                          /\ Exists(Final(n)) => Content(Final(n))' = Content(Final(n)) /\ Read(n)' = Read(n)
<1>1. SUFFICES ASSUME NEW n \in Names
               PROVE /\ Exists(Final(n))' <=> Exists(Final(n))
                     /\ Exists(Final(n)) => Content(Final(n))' = Content(Final(n)) /\ Read(n)' = Read(n)
  OBVIOUS
<1>2. Untouched(Final(n))
  OBVIOUS
<1>3. QED
  BY <1>2 DEF Untouched, Exists, Content, Read, Final

LEMMA RestFrame ==
  ASSUME Base, Tidy \/ UNCHANGED vars
  PROVE  /\ UNCHANGED <<session, runs, saved, contested, spoiled>>
         /\ \A n \in Names : Untouched(Final(n))
  BY TidyEffect DEF Base, vars, Untouched

LEMMA PublishedWholeNext == Base /\ PublishedWhole /\ [Next]_vars => PublishedWhole'
<1> SUFFICES ASSUME Base, PublishedWhole, [Next]_vars PROVE PublishedWhole'
  OBVIOUS
<1>1. CASE \E r \in Processes : Step(r)
  BY <1>1, PublishedWholeStep
<1>2. CASE Tidy \/ UNCHANGED vars
  <2>1. contested' = contested /\ \A n \in Names : Untouched(Final(n))
    BY <1>2, RestFrame
  <2>2. SUFFICES ASSUME NEW n \in Names, n \notin contested, Exists(Final(n))' PROVE Whole(Read(n))'
    BY <2>1 DEF PublishedWhole
  <2>3. Read(n)' = Read(n) /\ Whole(Read(n))
    BY <2>1, <2>2, FinalsSame DEF PublishedWhole
  <2>4. QED
    BY <2>3 DEF Whole, Value, Body, Part
<1>3. QED
  BY <1>1, <1>2 DEF Next, Finished

(* A digest of one value was compared.                                     *)
LEMMA DigestedWhole ==
  ASSUME Base, NEW r \in Processes, Is(r, "record"), NEW n \in OutSet(r), Readable(n, Digested)
  PROVE  Whole(Read(n))
<1> DEFINE c == Content(Final(n))
<1>1. n \in Names
  BY Commands DEF Base
<1>2. Exists(Final(n)) /\ Digested(c) /\ IsSeq(c)
  BY <1>1, ReadValue DEF Readable, Base
<1>3. Sound(n, c)
  BY <1>1, <1>2, PathNames DEF Parts, Base
<1> HIDE DEF c
<1>4. Len(c) = 3 /\ c[3] = Digest(SubSeq(c, 1, 2))
  BY <1>2 DEF Digested
<1>5. 3 \in DOMAIN c
  BY <1>2, <1>4, SeqIs
<1>6. ASSUME NEW q \in Processes, n \in OutSet(q) PROVE ~Is(q, "train")
  <2>1. Is(q, "train") <=> Is(r, "train")
    BY <1>6, Unshared DEF Base
  <2>2. QED
    BY <2>1 DEF Is
<1>7. c[3].kind = "digest" /\ c[3].of = SubSeq(c, 1, 2)
  BY <1>4 DEF Digest, Part
<1>8. Whole(SubSeq(c, 1, 2))
  BY <1>3, <1>5, <1>6, <1>7 DEF Sound
<1>9. QED
  BY <1>8 DEF Read, c

(* What a process loads in a step.                                         *)
LEMMA Loads ==
  ASSUME Base, NEW r \in Processes, Step(r)
  PROVE  \/ runs'[r].loaded = runs[r].loaded
         \/ /\ Start(r) /\ ~Is(r, "load")
            /\ runs'[r].loaded = <<>> \/ \E n \in Names : /\ Readable(n, Digested) /\ runs'[r].loaded = <<Entry(n)>>
                                                          /\ Is(r, "record") => n \in OutSet(r)
         \/ /\ Use(r) /\ ~Is(r, "record")
            /\ \E n \in OutSet(r) : /\ Readable(n, Sized) \/ Readable(n, Digested)
                                    /\ runs'[r].loaded = Append(runs[r].loaded, Entry(n))
<1> USE DEF Base
<1>1. CASE Start(r)
  <2>1. CASE runs'[r].pc = "failed" /\ Same(r, {"value", "loaded"})
    BY <2>1 DEF Same
  <2>2. CASE \E s \in StartsFrom(r) : runs'[r].value = s.value /\ runs'[r].loaded = s.loaded
    <3>1. PICK s \in StartsFrom(r) : runs'[r].loaded = s.loaded
      BY <2>2
    <3>2. CASE Is(r, "load")
      <4>1. s.loaded = <<>>
        BY <3>2, StartsTyped DEF Is
      <4>2. runs[r].loaded = <<>>
        BY <1>1, StartEffect DEF Typed, RunTyped, At
      <4>3. QED
        BY <3>1, <4>1, <4>2
    <3>3. CASE ~Is(r, "load") /\ s.loaded # <<>>
      <4>1. PICK n \in Names : /\ Readable(n, Digested) /\ s.loaded = <<Entry(n)>>
                               /\ Is(r, "record") => n = Out(r)
        BY <3>3, StartsTyped
      <4>2. Out(r) \in OutSet(r)
        BY AtName
      <4>3. QED
        BY <1>1, <3>1, <3>3, <4>1, <4>2
    <3>4. CASE ~Is(r, "load") /\ s.loaded = <<>>
      BY <1>1, <3>1, <3>4
    <3>5. QED
      BY <3>2, <3>3, <3>4
  <2>3. QED
    BY <1>1, <2>1, <2>2, StartEffect
<1>2. CASE Use(r)
  <2>1. /\ runs[r].pc = "use"
        /\ LET n == UseOrder(r)[Len(runs[r].loaded) + 1]
           IN  /\ Readable(n, Sized) \/ Readable(n, Digested)
               /\ runs'[r].loaded = Append(runs[r].loaded, Entry(n))
    BY <1>2, UseEffect
  <2>2. UseOrder(r)[Len(runs[r].loaded) + 1] \in OutSet(r)
    BY <2>1, Orders
  <2>3. ~Is(r, "record")
    BY <2>1 DEF Typed, RunTyped, Places, Is
  <2>4. QED
    BY <1>2, <2>1, <2>2, <2>3
<1>3. CASE ~Start(r) /\ ~Use(r)
  BY <1>3, WorkEffect, OpenEffect, CloseEffect, CloseShortEffect, RenameEffect, FailEffect, KillEffect,
     WriteEffect DEF Step, Same
<1>4. QED
  BY <1>1, <1>2, <1>3

LEMMA LoadedStep ==
  ASSUME Base, PublishedWhole, LoadedIsWhole, NEW r \in Processes, Step(r) PROVE LoadedIsWhole'
<1>1. Ran(r) /\ contested \subseteq contested'
  BY StepFrame DEF Base
<1>2. Processes' = Processes /\ \A s \in Processes : Is(s, "record")' = Is(s, "record")
  BY <1>1 DEF Ran, Processes, Is, Cmd
<1>3. \A n \in Names : /\ Readable(n, Digested) \/ Readable(n, Sized)
                       /\ \/ Is(r, "record") /\ n \in OutSet(r) /\ Readable(n, Digested)
                          \/ n \notin contested'
        => Whole(Read(n))
  BY <1>1, DigestedWhole DEF PublishedWhole, Readable
<1>4. \A b : Whole(b)' <=> Whole(b)
  BY DEF Whole, Value, Body, Part
<1>5. SUFFICES ASSUME NEW s \in Processes, NEW k \in DOMAIN runs'[s].loaded,
                      Is(s, "record") \/ runs'[s].loaded[k].name \notin contested'
               PROVE  Whole(runs'[s].loaded[k].body)
  BY <1>2, <1>4 DEF LoadedIsWhole
<1>6. CASE s # r \/ runs'[s].loaded = runs[s].loaded
  <2>1. runs'[s].loaded = runs[s].loaded
    BY <1>1, <1>6 DEF Ran
  <2>2. QED
    BY <1>1, <1>5, <2>1 DEF LoadedIsWhole
<1>7. CASE s = r /\ runs'[r].loaded # runs[r].loaded
  <2>1. CASE /\ Start(r)
             /\ runs'[r].loaded = <<>> \/ \E n \in Names : /\ Readable(n, Digested) /\ runs'[r].loaded = <<Entry(n)>>
                                                           /\ Is(r, "record") => n \in OutSet(r)
    <3>1. PICK n \in Names : /\ Readable(n, Digested) /\ runs'[r].loaded = <<Entry(n)>>
                             /\ Is(r, "record") => n \in OutSet(r)
      BY <1>5, <1>7, <2>1
    <3>2. runs'[r].loaded[k] = Entry(n)
      BY <1>5, <1>7, <3>1
    <3>3. QED
      BY <1>3, <1>5, <1>7, <3>1, <3>2 DEF Entry
  <2>2. CASE /\ Use(r) /\ ~Is(r, "record")
             /\ \E n \in OutSet(r) : /\ Readable(n, Sized) \/ Readable(n, Digested)
                                     /\ runs'[r].loaded = Append(runs[r].loaded, Entry(n))
    <3>1. PICK n \in OutSet(r) : /\ Readable(n, Sized) \/ Readable(n, Digested)
                                 /\ runs'[r].loaded = Append(runs[r].loaded, Entry(n))
      BY <2>2
    <3>2. n \in Names
      BY Commands DEF Base
    <3>3. IsSeq(runs[r].loaded)
      BY DEF Base, Typed, RunTyped
    <3> DEFINE l == runs[r].loaded
    <3>4. /\ DOMAIN runs'[r].loaded = 1 .. Len(l) + 1 /\ Len(l) \in Nat /\ DOMAIN l = 1 .. Len(l)
          /\ \A i \in 1 .. Len(l) : runs'[r].loaded[i] = l[i]
          /\ runs'[r].loaded[Len(l) + 1] = Entry(n)
      <4>1. /\ IsSeq(Append(l, Entry(n))) /\ Len(Append(l, Entry(n))) = Len(l) + 1
            /\ \A i \in 1 .. Len(l) : Append(l, Entry(n))[i] = l[i]
            /\ Append(l, Entry(n))[Len(l) + 1] = Entry(n)
        BY <3>3, SeqAppend
      <4>2. DOMAIN Append(l, Entry(n)) = 1 .. Len(Append(l, Entry(n))) /\ DOMAIN l = 1 .. Len(l)
        BY <3>3, <4>1, SeqIs
      <4>3. QED
        BY <3>1, <3>3, <4>1, <4>2 DEF IsSeq
    <3>5. CASE k = Len(l) + 1
      BY <1>3, <1>5, <1>7, <2>2, <3>1, <3>2, <3>4, <3>5 DEF Entry
    <3>6. CASE k # Len(l) + 1
      <4>1. k \in DOMAIN l /\ runs'[r].loaded[k] = l[k]
        BY <1>7, <3>4, <3>6
      <4>2. QED
        BY <1>1, <1>5, <1>7, <4>1 DEF LoadedIsWhole
    <3>7. QED
      BY <3>5, <3>6
  <2>3. QED
    BY <1>7, <2>1, <2>2, Loads
<1>8. QED
  BY <1>6, <1>7

LEMMA LoadedNext == Base /\ PublishedWhole /\ LoadedIsWhole /\ [Next]_vars => LoadedIsWhole'
<1> SUFFICES ASSUME Base, PublishedWhole, LoadedIsWhole, [Next]_vars PROVE LoadedIsWhole'
  OBVIOUS
<1>1. CASE \E r \in Processes : Step(r)
  BY <1>1, LoadedStep
<1>2. CASE Tidy \/ UNCHANGED vars
  <2>1. UNCHANGED <<session, runs, contested>>
    BY <1>2, RestFrame
  <2>2. QED
    BY <2>1 DEF LoadedIsWhole, Processes, Is, Cmd, Whole, Value, Body, Part
<1>3. QED
  BY <1>1, <1>2 DEF Next, Finished

(* What a reader accepts is the whole of one value: a file is renamed only *)
(* when it is complete, and the database's digest is that of one value     *)
(* even where processes wrote over each other.                             *)
THEOREM LoadedAreWhole == Spec => []LoadedIsWhole
<1>1. Init => PublishedWhole /\ LoadedIsWhole
  <2> SUFFICES ASSUME Init PROVE PublishedWhole /\ LoadedIsWhole
    OBVIOUS
  <2>1. \A n \in Names : ~Exists(Final(n))
    BY PathNames DEF Init, NoFiles, Exists
  <2>2. \A r \in Processes : runs[r].loaded = <<>>
    BY DEF Init, Idle
  <2>3. QED
    BY <2>1, <2>2 DEF PublishedWhole, LoadedIsWhole
<1>2. QED
  BY <1>1, BaseAlways, PublishedWholeNext, LoadedNext, PTL DEF Spec

-----------------------------------------------------------------------------
(* A package is published once.                                            *)
LEMMA PackStays ==
  ASSUME Base, NEW r \in Processes, Step(r), NEW s \in Processes, Packs(Cmd(s)), Clean(s),
         NEW n \in OutSet(s), Exists(Final(n))
  PROVE  Exists(Final(n))' /\ Content(Final(n))' = Content(Final(n)) /\ Read(n)' = Read(n)
<1>1. n \in Names /\ n \notin contested
  BY Commands DEF Base, Clean
<1>2. ASSUME NEW q \in Processes, n \in OutSet(q) PROVE ~Is(q, "record")
  <2>1. Packs(Cmd(q)) <=> Packs(Cmd(s))
    BY <1>2, Unshared DEF Base
  <2>2. QED
    BY <2>1 DEF Packs, Is
<1>3. Untouched(Final(n))
  BY <1>1, <1>2, FinalStays DEF Base
<1>4. QED
  BY <1>3 DEF Untouched, Exists, Content, Read, Final

LEMMA PackNames ==
  ASSUME Typed, NEW s \in Processes, Packs(Cmd(s))
  PROVE  /\ Len(Cmd(s).out) = 3 /\ DOMAIN Cmd(s).out = 1 .. 3
         /\ \A j \in 1 .. 3 : Cmd(s).out[j] \in OutSet(s) /\ Cmd(s).out[j] \in Names
         /\ Is(s, "load") => /\ Len(UseOrder(s)) = 3 /\ \A k \in 1 .. 3 : UseOrder(s)[k] \in OutSet(s)
                             /\ UseOrder(s)[2] = Cmd(s).out[3] /\ UseOrder(s)[3] = Cmd(s).out[2]
<1>1. Len(Cmd(s).out) = 3 /\ DOMAIN Cmd(s).out = 1 .. Len(Cmd(s).out)
  BY Commands
<1>2. \A j \in 1 .. 3 : Cmd(s).out[j] \in OutSet(s) /\ Cmd(s).out[j] \in Names
  BY <1>1, OwnPaths
<1>3. ASSUME Is(s, "load")
      PROVE  /\ Len(UseOrder(s)) = 3 /\ \A k \in 1 .. 3 : UseOrder(s)[k] \in OutSet(s)
             /\ UseOrder(s)[2] = Cmd(s).out[3] /\ UseOrder(s)[3] = Cmd(s).out[2]
  <2> DEFINE o == <<Cmd(s).out[1], Cmd(s).out[3], Cmd(s).out[2]>>
  <2>1. UseOrder(s) = o
    BY <1>3 DEF UseOrder
  <2>2. Len(o) = 3 /\ o[1] = Cmd(s).out[1] /\ o[2] = Cmd(s).out[3] /\ o[3] = Cmd(s).out[2]
    OBVIOUS
  <2> HIDE DEF o
  <2>3. \A k \in 1 .. 3 : k = 1 \/ k = 2 \/ k = 3
    OBVIOUS
  <2>4. QED
    BY <1>2, <2>1, <2>2, <2>3
<1>4. QED
  BY <1>1, <1>2, <1>3

LEMMA LoadedNowStep ==
  ASSUME Base, LoadedNow, NEW r \in Processes, Step(r) PROVE LoadedNow'
<1>1. Ran(r) /\ contested \subseteq contested'
  BY StepFrame DEF Base
<1>2. Processes' = Processes /\ \A s \in Processes : Cmd(s)' = Cmd(s) /\ OutSet(s)' = OutSet(s)
  BY <1>1 DEF Ran, Processes, OutSet, Cmd
<1>3. SUFFICES ASSUME NEW s \in Processes, Is(s, "load"), Clean(s), NEW k \in DOMAIN runs'[s].loaded
               PROVE  /\ k \in 1 .. 3 /\ Exists(Final(UseOrder(s)[k]))'
                      /\ runs'[s].loaded[k] = Entry(UseOrder(s)[k])'
  BY <1>1, <1>2 DEF LoadedNow, Clean, Is, UseOrder
<1>4. Packs(Cmd(s)) /\ \A i \in 1 .. 3 : UseOrder(s)[i] \in OutSet(s)
  BY <1>3, PackNames DEF Packs, Is, Base
<1>5. UseOrder(s)' = UseOrder(s)
  BY <1>2 DEF UseOrder, Is
<1>6. ASSUME k \in 1 .. 3, Exists(Final(UseOrder(s)[k])), runs'[s].loaded[k] = Entry(UseOrder(s)[k])
      PROVE  Exists(Final(UseOrder(s)[k]))' /\ runs'[s].loaded[k] = Entry(UseOrder(s)[k])'
  <2>1. ASSUME NEW n, n = UseOrder(s)[k]
        PROVE  Exists(Final(n))' /\ runs'[s].loaded[k] = Entry(n)'
    <3>1. n \in OutSet(s) /\ Exists(Final(n)) /\ runs'[s].loaded[k] = Entry(n)
      BY <1>4, <1>6, <2>1
    <3>2. Exists(Final(n))' /\ Read(n)' = Read(n)
      BY <1>3, <1>4, <3>1, PackStays
    <3>3. QED
      BY <3>1, <3>2 DEF Entry
  <2>2. QED
    BY <1>5, <2>1 DEF Exists, Entry, Read, Content, Final
<1>7. CASE runs'[s].loaded = runs[s].loaded
  BY <1>3, <1>6, <1>7 DEF LoadedNow
<1>8. CASE s = r /\ runs'[r].loaded # runs[r].loaded
  <2>1. Use(r)
    BY <1>3, <1>8, Loads
  <2> DEFINE l == runs[r].loaded
             n == UseOrder(r)[Len(l) + 1]
  <2>2. /\ runs[r].pc = "use" /\ (Readable(n, Sized) \/ Readable(n, Digested))
        /\ runs'[r].loaded = Append(l, Entry(n)) /\ names' = names /\ files' = files
    BY <2>1, UseEffect DEF Base
  <2>3. /\ IsSeq(l) /\ Len(l) \in Nat /\ Len(l) + 1 \in 1 .. Len(UseOrder(r))
    BY <2>2, Orders DEF Base
  <2>4. Len(UseOrder(r)) = 3
    BY <1>3, <1>4, <1>8, PackNames DEF Base
  <2>5. /\ DOMAIN runs'[r].loaded = 1 .. Len(l) + 1 /\ DOMAIN l = 1 .. Len(l)
        /\ \A i \in 1 .. Len(l) : runs'[r].loaded[i] = l[i]
        /\ runs'[r].loaded[Len(l) + 1] = Entry(n)
    <3>1. /\ IsSeq(Append(l, Entry(n))) /\ Len(Append(l, Entry(n))) = Len(l) + 1
          /\ \A i \in 1 .. Len(l) : Append(l, Entry(n))[i] = l[i]
          /\ Append(l, Entry(n))[Len(l) + 1] = Entry(n)
      BY <2>3, SeqAppend
    <3>2. DOMAIN Append(l, Entry(n)) = 1 .. Len(Append(l, Entry(n))) /\ DOMAIN l = 1 .. Len(l)
      BY <2>3, <3>1, SeqIs
    <3>3. QED
      BY <2>2, <3>1, <3>2
  <2>6. CASE k = Len(l) + 1
    BY <1>6, <1>8, <2>2, <2>3, <2>4, <2>5, <2>6 DEF Readable
  <2>7. CASE k # Len(l) + 1
    <3>1. k \in DOMAIN l /\ runs'[r].loaded[k] = l[k]
      BY <1>8, <2>3, <2>5, <2>7
    <3>2. QED
      BY <1>3, <1>6, <1>8, <3>1 DEF LoadedNow
  <2>8. QED
    BY <2>6, <2>7
<1>9. QED
  BY <1>1, <1>7, <1>8 DEF Ran

(* The two names of a package are those of before the step.                *)
LEMMA PairedAfter ==
  ASSUME session' = session, \A s \in Processes : Clean(s)' => Clean(s),
         \A s \in Processes : \A n2, n3 :
           /\ Packs(Cmd(s)) /\ Clean(s) /\ n2 = Cmd(s).out[2] /\ n3 = Cmd(s).out[3] /\ Exists(Final(n3))'
           => Exists(Final(n2))' /\ Value(Read(n3)')[2] = Read(n2)'
  PROVE  Paired'
<1>1. SUFFICES ASSUME NEW s \in Processes, Packs(Cmd(s)), Clean(s)', names'[Final(Cmd(s).out[3])] # None
               PROVE  /\ names'[Final(Cmd(s).out[2])] # None
                      /\ Value(SubSeq(files'[names'[Final(Cmd(s).out[3])]], 1, 2))[2]
                           = SubSeq(files'[names'[Final(Cmd(s).out[2])]], 1, 2)
  BY DEF Paired, Packs, Processes, Cmd, Exists, Read, Content, Final, Value
<1>2. PICK n2, n3 : n2 = Cmd(s).out[2] /\ n3 = Cmd(s).out[3]
  OBVIOUS
<1>3. Exists(Final(n3))'
  BY <1>1, <1>2 DEF Exists, Final
<1>4. Exists(Final(n2))' /\ Value(Read(n3)')[2] = Read(n2)'
  BY <1>1, <1>2, <1>3
<1>5. QED
  BY <1>2, <1>4 DEF Exists, Read, Content, Final

LEMMA PairedStep ==
  ASSUME Base, Paired, NEW r \in Processes, Step(r) PROVE Paired'
<1>1. Ran(r) /\ contested \subseteq contested'
  BY StepFrame DEF Base
<1>2. Processes' = Processes /\ \A s \in Processes : Cmd(s)' = Cmd(s) /\ OutSet(s)' = OutSet(s)
  BY <1>1 DEF Ran, Processes, OutSet, Cmd
<1>3. ASSUME NEW s \in Processes, Packs(Cmd(s)), Clean(s), NEW n2, n2 = Cmd(s).out[2],
             NEW n3, n3 = Cmd(s).out[3], Exists(Final(n3))'
      PROVE  Exists(Final(n2))' /\ Value(Read(n3)')[2] = Read(n2)'
  <2>1. /\ n2 \in OutSet(s) /\ n2 \in Names /\ n3 \in OutSet(s) /\ n3 \in Names
        /\ DOMAIN Cmd(s).out = 1 .. 3
    BY <1>3, PackNames DEF Base
  <2>2. n3 \notin contested
    BY <1>3, <2>1 DEF Clean
  <2>3. CASE Untouched(Final(n3))
    <3>1. Exists(Final(n3))
      BY <1>3, <2>3 DEF Untouched, Exists, Final
    <3>2. Read(n3)' = Read(n3)
      BY <1>3, <2>1, <3>1, PackStays
    <3>3. Exists(Final(n2)) /\ Value(Read(n3))[2] = Read(n2)
      BY <1>3, <3>1 DEF Paired
    <3>4. Exists(Final(n2))' /\ Read(n2)' = Read(n2)
      BY <1>3, <2>1, <3>3, PackStays
    <3>5. QED
      BY <3>2, <3>3, <3>4
  <2>4. CASE /\ Rename(r) /\ n3 = Out(r) /\ Own(r) /\ At(r, "rename")
             /\ Read(n3)' = Body(Intended(r, runs[r].file))
    <3>1. Out(r) \in OutSet(r) /\ runs[r].file \in DOMAIN Cmd(r).out
      BY AtName DEF Base
    <3>2. Cmd(r).out = Cmd(s).out /\ Packs(Cmd(r))
      BY <1>3, <2>1, <2>4, <3>1, Unshared DEF Base
    <3>3. runs[r].file = 3
      <4>1. \A i, j \in DOMAIN Cmd(r).out : Cmd(r).out[i] = Cmd(r).out[j] => i = j
        BY Commands DEF Base
      <4>2. 3 \in DOMAIN Cmd(r).out /\ Cmd(r).out[runs[r].file] = Cmd(r).out[3]
        <5>1. DOMAIN Cmd(r).out = 1 .. 3 /\ Cmd(r).out[3] = n3
          BY <1>3, <2>1, <3>2
        <5>2. n3 = Cmd(r).out[runs[r].file]
          BY <2>4 DEF Out
        <5>3. QED
          BY <5>1, <5>2
      <4>3. QED
        BY <3>1, <4>1, <4>2
    <3>4. Is(r, "quantize")
      BY <2>4, <3>2, OutLength DEF Packs, Is, At, Base
    <3>5. 2 \in DOMAIN Cmd(r).out /\ 2 < runs[r].file
      BY <2>1, <3>2, <3>3
    <3>6. Placed(r, 2)
      BY <2>4, <3>5 DEF Own, RenameSole
    <3>7. Exists(Final(n2)) /\ Complete(r, 2, Content(Final(n2)))
      BY <1>3, <3>2, <3>6 DEF Placed
    <3>8. Read(n2) = Body(Cmd(r).items)
      <4>1. Intended(r, 2) = Cmd(r).items
        BY <3>4 DEF Intended
      <4>2. QED
        BY <3>7, <4>1, CompleteRead DEF Read
    <3>9. Exists(Final(n2))' /\ Read(n2)' = Read(n2)
      BY <1>3, <2>1, <3>7, PackStays
    <3>10. Value(Read(n3)') = <<Cmd(r).program, Body(Cmd(r).items)>>
      BY <2>4, <3>3, <3>4, Bodies DEF Intended
    <3>11. QED
      BY <3>8, <3>9, <3>10
  <2>5. QED
    BY <2>1, <2>2, <2>3, <2>4, ReadsAfter
<1>4. session' = session /\ \A s \in Processes : Clean(s)' => Clean(s)
  BY <1>1, <1>2 DEF Clean, Ran
<1>5. QED
  BY <1>3, <1>4, PairedAfter

LEMMA CompleteDigested ==
  ASSUME NEW r, NEW j, NEW c, IsSeq(c), Complete(r, j, c), ~Tensors(r, j), Cmd(r).out[j] \notin spoiled
  PROVE  Digested(c)
<1>1. /\ Len(c) = 3 /\ c[3] = Digest(Body(Intended(r, j))) /\ SubSeq(c, 1, 2) = Body(Intended(r, j))
  BY DEF Complete
<1>2. Len(c) >= 2
  BY <1>1
<1>3. SubSeq(c, 1, 2) = <<c[1], c[2]>>
  BY <1>2, FirstTwo
<1>4. c[1] = Part("first", Intended(r, j))
  BY <1>1, <1>3 DEF Body
<1>5. Headed(c)
  <2>1. Len(c) >= 1 /\ c[1].kind = "first"
    BY <1>1, <1>4 DEF Part
  <2>2. QED
    BY <2>1 DEF Headed
<1>6. QED
  BY <1>1, <1>5 DEF Digested

LEMMA ConsistentNow == Base /\ LoadedNow /\ Paired => PackageConsistent
<1> SUFFICES ASSUME Base, LoadedNow, Paired, NEW r \in Processes
             PROVE  /\ Is(r, "load") /\ At(r, "done") /\ OutSet(r) \cap contested = {} =>
                         Value(runs[r].loaded[2].body)[2] = runs[r].loaded[3].body
                    /\ Is(r, "quantize") /\ At(r, "done") /\ OutSet(r) \cap (contested \cup spoiled) = {} =>
                         LET out == Cmd(r).out
                         IN  /\ Readable(out[1], Digested) /\ Readable(out[3], Digested)
                             /\ Value(Read(out[3])) = <<Value(Read(out[1]))[1], Content(Final(out[2]))>>
  BY DEF PackageConsistent, OutSet
<1>1. ASSUME Is(r, "load"), At(r, "done"), OutSet(r) \cap contested = {}
      PROVE  Value(runs[r].loaded[2].body)[2] = runs[r].loaded[3].body
  <2>1. /\ Packs(Cmd(r)) /\ Clean(r)
        /\ UseOrder(r)[2] = Cmd(r).out[3] /\ UseOrder(r)[3] = Cmd(r).out[2]
    BY <1>1, PackNames DEF Packs, Is, Clean, Base
  <2>2. IsSeq(runs[r].loaded) /\ Len(runs[r].loaded) = 3
    BY <1>1 DEF Base, Typed, RunTyped
  <2>3. 2 \in DOMAIN runs[r].loaded /\ 3 \in DOMAIN runs[r].loaded
    BY <2>2, SeqIs
  <2>4. /\ Exists(Final(Cmd(r).out[3])) /\ runs[r].loaded[2] = Entry(Cmd(r).out[3])
        /\ runs[r].loaded[3] = Entry(Cmd(r).out[2])
    BY <1>1, <2>1, <2>3 DEF LoadedNow
  <2>5. Value(Read(Cmd(r).out[3]))[2] = Read(Cmd(r).out[2])
    BY <2>1, <2>4 DEF Paired
  <2>6. QED
    BY <2>4, <2>5 DEF Entry
<1>2. ASSUME Is(r, "quantize"), At(r, "done"), OutSet(r) \cap (contested \cup spoiled) = {}
      PROVE  LET out == Cmd(r).out
             IN  /\ Readable(out[1], Digested) /\ Readable(out[3], Digested)
                 /\ Value(Read(out[3])) = <<Value(Read(out[1]))[1], Content(Final(out[2]))>>
  <2>1. /\ DOMAIN Cmd(r).out = 1 .. 3
        /\ \A j \in 1 .. 3 : Cmd(r).out[j] \in OutSet(r) /\ Cmd(r).out[j] \in Names
    BY <1>2, PackNames DEF Packs, Is, Base
  <2>2. Clean(r) /\ \A j \in 1 .. 3 : Cmd(r).out[j] \notin spoiled
    BY <1>2, <2>1 DEF Clean
  <2>3. \A j \in 1 .. 3 : Placed(r, j)
    BY <1>2, <2>1, <2>2 DEF Base, Drafts, Own, DoneSole
  <2> DEFINE c(j) == Content(Final(Cmd(r).out[j]))
  <2>4. ASSUME NEW j \in 1 .. 3
        PROVE  /\ Exists(Final(Cmd(r).out[j])) /\ Complete(r, j, c(j)) /\ IsSeq(c(j))
               /\ Read(Cmd(r).out[j]) = Body(Intended(r, j)) /\ Value(Read(Cmd(r).out[j])) = Intended(r, j)
    <3>1. Exists(Final(Cmd(r).out[j])) /\ Complete(r, j, c(j))
      BY <2>3 DEF Placed
    <3>2. IsSeq(c(j))
      BY <2>1, <3>1, PathNames, FileOf DEF Base, Typed, FilesTyped, Content
    <3>3. QED
      BY <3>1, <3>2, CompleteRead DEF Read
  <2>5. ASSUME NEW j \in {1, 3} PROVE Readable(Cmd(r).out[j], Digested)
    <3>1. ~Tensors(r, j)
      BY <1>2, <2>5 DEF Tensors, Is
    <3>2. Digested(c(j))
      BY <2>2, <2>4, <3>1, CompleteDigested
    <3>3. QED
      BY <2>4, <3>2 DEF Readable
  <2>6. c(2) = Body(Cmd(r).items)
    <3>1. IsSeq(c(2)) /\ Len(c(2)) = 2 /\ SubSeq(c(2), 1, 2) = Body(Cmd(r).items)
      BY <1>2, <2>4 DEF Complete, Tensors, Intended
    <3>2. SubSeq(c(2), 1, 2) = <<c(2)[1], c(2)[2]>>
      BY <3>1, FirstTwo
    <3>3. c(2) = [i \in 1 .. 2 |-> c(2)[i]]
      BY <3>1 DEF IsSeq
    <3>4. QED
      BY <3>1, <3>2, <3>3
  <2>7. /\ Value(Read(Cmd(r).out[1])) = <<Cmd(r).program>>
        /\ Value(Read(Cmd(r).out[3])) = <<Cmd(r).program, Body(Cmd(r).items)>>
    BY <1>2, <2>4 DEF Intended
  <2>8. Value(Read(Cmd(r).out[1]))[1] = Cmd(r).program
    BY <2>7
  <2>9. QED
    BY <2>5, <2>6, <2>7, <2>8
<1>3. QED
  BY <1>1, <1>2

LEMMA PackagesNext == Base /\ LoadedNow /\ Paired /\ [Next]_vars => (LoadedNow /\ Paired)'
<1> SUFFICES ASSUME Base, LoadedNow, Paired, [Next]_vars PROVE LoadedNow' /\ Paired'
  OBVIOUS
<1>1. CASE \E r \in Processes : Step(r)
  BY <1>1, LoadedNowStep, PairedStep
<1>2. CASE Tidy \/ UNCHANGED vars
  <2>1. /\ UNCHANGED <<session, runs, contested>>
        /\ \A n \in Names : /\ Exists(Final(n))' <=> Exists(Final(n))
                            /\ Exists(Final(n)) => Content(Final(n))' = Content(Final(n)) /\ Read(n)' = Read(n)
    BY <1>2, RestFrame, FinalsSame
  <2>2. /\ Processes' = Processes
        /\ \A s \in Processes : /\ Cmd(s)' = Cmd(s) /\ UseOrder(s)' = UseOrder(s)
                                /\ Clean(s)' = Clean(s) /\ Is(s, "load")' = Is(s, "load")
    BY <2>1 DEF Processes, Cmd, UseOrder, Clean, OutSet, Is
  <2>3. LoadedNow'
    <3>1. SUFFICES ASSUME NEW s \in Processes, Is(s, "load"), Clean(s), NEW k \in DOMAIN runs[s].loaded,
                          NEW n, n = UseOrder(s)[k]
                   PROVE  k \in 1 .. 3 /\ Exists(Final(n))' /\ runs[s].loaded[k] = Entry(n)'
      BY <2>1, <2>2 DEF LoadedNow, Exists, Entry, Read, Content, Final
    <3>2. k \in 1 .. 3 /\ Exists(Final(n)) /\ runs[s].loaded[k] = Entry(n)
      BY <3>1 DEF LoadedNow
    <3>3. n \in OutSet(s)
      BY <3>1, <3>2, PackNames DEF Packs, Is, Base
    <3>4. n \in Names
      BY <3>3, Commands DEF Base
    <3>5. QED
      BY <2>1, <3>2, <3>4 DEF Entry
  <2>4. Paired'
    <3>1. ASSUME NEW s \in Processes, Packs(Cmd(s)), Clean(s), NEW n2, n2 = Cmd(s).out[2],
                 NEW n3, n3 = Cmd(s).out[3], Exists(Final(n3))'
          PROVE  Exists(Final(n2))' /\ Value(Read(n3)')[2] = Read(n2)'
      <4>1. n2 \in Names /\ n3 \in Names
        BY <3>1, PackNames DEF Base
      <4>2. Exists(Final(n3)) /\ Read(n3)' = Read(n3)
        BY <2>1, <3>1, <4>1
      <4>3. Exists(Final(n2)) /\ Value(Read(n3))[2] = Read(n2)
        BY <3>1, <4>2 DEF Paired
      <4>4. QED
        BY <2>1, <4>1, <4>2, <4>3
    <3>2. QED
      BY <2>1, <2>2, <3>1, PairedAfter
  <2>5. QED
    BY <2>3, <2>4
<1>3. QED
  BY <1>1, <1>2 DEF Next, Finished

(* A package that loads, or that a quantizer has returned from publishing, *)
(* is the work of one quantizer, although only the shard's size is         *)
(* compared, and wherever the loads fall between the renames.              *)
THEOREM PackagesMatch == Spec => []PackageConsistent
<1>1. Init => LoadedNow /\ Paired
  <2> SUFFICES ASSUME Init PROVE LoadedNow /\ Paired
    OBVIOUS
  <2>1. \A n \in Names : ~Exists(Final(n))
    BY PathNames DEF Init, NoFiles, Exists
  <2>2. \A r \in Processes : runs[r].loaded = <<>>
    BY DEF Init, Idle
  <2>3. \A s \in Processes : Packs(Cmd(s)) => Cmd(s).out[3] \in Names
    BY InitTyped, PackNames
  <2>4. QED
    BY <2>1, <2>2, <2>3 DEF LoadedNow, Paired
<1>2. QED
  BY <1>1, BaseAlways, PackagesNext, ConsistentNow, PTL DEF Spec

-----------------------------------------------------------------------------
(* The tuning database.                                                    *)
(* Steps of a recording process that go on with what it holds.             *)
LEMMA RecordSteps ==
  ASSUME Typed, Apart, NEW r \in Processes, Is(r, "record"), Step(r)
  PROVE  \/ Start(r) /\ runs'[r].pc \in {"work", "use", "failed"}
         \/ Work(r) /\ runs'[r].value = Measured(runs[r].value, Cmd(r).items[runs[r].item], r)
              /\ runs'[r].item = runs[r].item /\ Live(r)
         \/ /\ ~Work(r) /\ Live(r) /\ runs'[r].value = runs[r].value
            /\ runs'[r].pc \in {"open", "write", "rename"} =>
                 runs[r].pc \in {"open", "write", "rename"} /\ runs'[r].item = runs[r].item
<1>1. CASE Start(r)
  BY <1>1, StartEffect
<1>2. CASE Work(r)
  <2>1. runs'[r].value = Measured(runs[r].value, Cmd(r).items[runs[r].item], r)
    BY <1>2, WorkEffect DEF Is
  <2>2. runs'[r].item = runs[r].item /\ runs[r].pc = "work"
    BY <1>2, WorkEffect DEF Same
  <2>3. QED
    BY <1>2, <2>1, <2>2 DEF Live
<1>3. CASE Open(r)
  <2>1. runs[r].pc = "open"
    BY <1>3 DEF Open, At
  <2>2. QED
    BY <1>3, <2>1, OpenEffect DEF Same, Live, Work, At
<1>4. CASE Write(r)
  <2>1. /\ runs[r].pc = "write" /\ runs'[r].pc = "write"
        /\ Same(r, {"file", "inode", "item", "value", "packed", "loaded"})
    BY <1>4, WriteEffect
  <2>2. QED
    BY <2>1 DEF Same, Live, Work, At
<1>5. CASE Close(r) \/ CloseShort(r)
  BY <1>5, CloseEffect, CloseShortEffect DEF Same, Live, Work, At
<1>6. CASE Rename(r)
  BY <1>6, RenameEffect DEF Same, Live, Work, At
<1>7. CASE Use(r)
  BY <1>7, UseEffect DEF Same, Live, Work, At
<1>8. CASE Fail(r) \/ Kill(r)
  <2>1. /\ runs'[r].pc \in {"failed", "killed"} /\ Live(r) /\ runs'[r].value = runs[r].value
    BY <1>8, FailEffect, KillEffect DEF Same
  <2>2. ~Work(r)
    <3>1. runs'[r].pc # "open"
      BY <2>1
    <3>2. QED
      BY <3>1, WorkEffect
  <2>3. QED
    BY <2>1, <2>2
<1>9. QED
  BY <1>1, <1>2, <1>3, <1>4, <1>5, <1>6, <1>7, <1>8 DEF Step

LEMMA RecordHasStep ==
  ASSUME Base, RecordHas, NEW r \in Processes, Step(r) PROVE RecordHas'
<1>1. Ran(r)
  BY StepFrame DEF Base
<1>2. SUFFICES ASSUME NEW s \in Processes, Is(s, "record"), runs'[s].pc \in {"open", "write", "rename"}
               PROVE  Cmd(s).items[runs'[s].item] \in DOMAIN runs'[s].value
  BY <1>1 DEF Ran, RecordHas, Processes, Is, Cmd
<1>3. CASE s # r
  BY <1>1, <1>2, <1>3 DEF Ran, RecordHas
<1>4. CASE s = r
  <2>1. CASE Start(r) /\ runs'[r].pc \in {"work", "use", "failed"}
    BY <1>2, <1>4, <2>1
  <2>2. CASE /\ runs'[r].value = Measured(runs[r].value, Cmd(r).items[runs[r].item], r)
             /\ runs'[r].item = runs[r].item
    <3>1. DOMAIN runs'[r].value = DOMAIN runs[r].value \cup {Cmd(r).items[runs[r].item]}
      BY <2>2 DEF Measured
    <3>2. QED
      BY <1>4, <2>2, <3>1
  <2>3. CASE /\ runs'[r].value = runs[r].value
             /\ runs'[r].pc \in {"open", "write", "rename"} =>
                  runs[r].pc \in {"open", "write", "rename"} /\ runs'[r].item = runs[r].item
    BY <1>2, <1>4, <2>3 DEF RecordHas
  <2>4. QED
    BY <1>2, <1>4, <2>1, <2>2, <2>3, RecordSteps DEF Base
<1>5. QED
  BY <1>3, <1>4

(* The file a process renames, when it was alone.                          *)
LEMMA RenameReads ==
  ASSUME Base, NEW r \in Processes, Rename(r), Clean(r), NEW n, n = Out(r)
  PROVE  /\ Exists(Final(n))' /\ Complete(r, runs[r].file, Content(Final(n))')
         /\ Read(n)' = Body(Intended(r, runs[r].file)) /\ At(r, "rename")
<1>1. Own(r) /\ runs[r].pc = "rename"
  BY RenameEffect DEF Base, Drafts
<1>2. runs[r].file \in DOMAIN Cmd(r).out /\ runs[r].file \in Nat
  BY <1>1, OutLength DEF Base
<1>3. ~(runs[r].file < runs[r].file)
  BY <1>2
<1>4. Drafted(r, runs[r].file)
  BY <1>1, <1>2, <1>3 DEF Own, RenameSole, At
<1>5. files' = files /\ names'[Final(n)] = names[Partial(n)]
  BY RenameEffect DEF Base
<1>6. Exists(Partial(n)) /\ Complete(r, runs[r].file, Content(Partial(n)))
  BY <1>4 DEF Drafted, Out
<1>7. Content(Final(n))' = Content(Partial(n)) /\ Exists(Final(n))'
  BY <1>5, <1>6 DEF Content, Exists, Final
<1>8. Read(n)' = SubSeq(Content(Partial(n)), 1, 2)
  BY <1>5 DEF Read, Content, Final
<1>9. QED
  BY <1>1, <1>6, <1>7, <1>8, CompleteRead DEF At

(* ... holds what a record process holds, and can be loaded.               *)
LEMMA RecordReads ==
  ASSUME Base, NEW r \in Processes, Rename(r), Is(r, "record"), Clean(r), NEW n, n = Out(r), n \notin spoiled
  PROVE  /\ Exists(Final(n))' /\ Digested(Content(Final(n))') /\ Value(Read(n)') = runs[r].value
         /\ runs'[r].value = runs[r].value /\ Live(r)
<1>1. /\ Exists(Final(n))' /\ Complete(r, runs[r].file, Content(Final(n))')
      /\ Read(n)' = Body(Intended(r, runs[r].file)) /\ At(r, "rename")
  BY RenameReads
<1>2. Intended(r, runs[r].file) = runs[r].value /\ ~Tensors(r, runs[r].file)
  BY DEF Intended, Tensors, Is
<1>3. IsSeq(Content(Final(n))')
  <2>1. FilesTyped' /\ Len(files') \in Nat
    BY StepTyped DEF Base, Typed, FilesTyped, IsSeq, Step
  <2>2. Final(n) \in Paths
    BY AtName DEF Base
  <2>3. names'[Final(n)] \in 0 .. Len(files') /\ names'[Final(n)] # 0
    BY <1>1, <2>1, <2>2 DEF FilesTyped, Exists, Final, None
  <2>4. IsSeq(files'[names'[Final(n)]])
    BY <2>1, <2>3 DEF FilesTyped
  <2>5. QED
    BY <2>4 DEF Content, Final
<1>4. Cmd(r).out[runs[r].file] \notin spoiled
  BY DEF Out
<1>5. Digested(Content(Final(n))')
  BY <1>1, <1>2, <1>3, <1>4, CompleteDigested
<1>6. runs'[r].value = runs[r].value /\ runs[r].pc = "rename"
  BY RenameEffect DEF Same, Base
<1>7. QED
  BY <1>1, <1>2, <1>5, <1>6, Bodies DEF Live

LEMMA RecordNames ==
  ASSUME Base, NEW r \in Processes, NEW q \in Processes, Is(q, "record"), NEW n \in OutSet(q), n \in OutSet(r)
  PROVE  Is(r, "record") /\ n = Out(r) /\ n \in Names
<1>1. Is(r, "record")
  BY Unshared DEF Base
<1>2. /\ Len(Cmd(r).out) = (IF Packs(Cmd(r)) THEN 3 ELSE 1) /\ DOMAIN Cmd(r).out = 1 .. Len(Cmd(r).out)
      /\ \A m \in OutSet(r) : \E j \in DOMAIN Cmd(r).out : m = Cmd(r).out[j]
      /\ OutSet(r) \subseteq Names
  BY Commands DEF Base
<1>3. DOMAIN Cmd(r).out = 1 .. 1
  BY <1>1, <1>2 DEF Packs, Is
<1>4. runs[r].file \in DOMAIN Cmd(r).out
  BY AtName DEF Base
<1>5. QED
  BY <1>1, <1>2, <1>3, <1>4 DEF Out

LEMMA RecordedStep ==
  ASSUME Base, RecordHas, Recorded, NEW r \in Processes, Step(r),
         NEW m \in saved', m.in \notin contested' \cup spoiled', NEW n, n = m.in,
         NEW c, c = m.candidate
  PROVE  /\ Exists(Final(n))' /\ Digested(Content(Final(n))') /\ c \in DOMAIN Value(Read(n)')
         /\ \A s \in Processes : Live(s)' /\ n \in OutSet(s) => c \in DOMAIN runs'[s].value
<1>1. /\ Ran(r) /\ contested \subseteq contested' /\ spoiled \subseteq spoiled'
      /\ n \notin contested /\ n \notin spoiled
      /\ Start(r) \/ (Live(r) /\ contested' = contested)
  BY StepFrame DEF Base
<1>2. PICK q \in Processes : Is(q, "record") /\ n \in OutSet(q)
  <2>1. Typed'
    BY StepTyped DEF Base
  <2>2. \E q \in Processes' : (Is(q, "record") /\ n \in OutSet(q))'
    BY <2>1 DEF Typed
  <2>3. QED
    BY <1>1, <2>2 DEF Ran, Processes, Is, OutSet, Cmd
<1>3. n \in Names
  BY <1>2, RecordNames
<1>4. ASSUME NEW s \in Processes, n \in OutSet(s)
      PROVE  Is(s, "record") /\ n = Out(s) /\ Clean(s)
  <2>1. Is(s, "record") /\ n = Out(s)
    BY <1>2, <1>4, RecordNames
  <2>2. Clean(s)
    BY <1>1, <1>4 DEF Base, Sole
  <2>3. QED
    BY <2>1, <2>2
<1>5. CASE m \in saved
  <2>1. /\ Exists(Final(n)) /\ Digested(Content(Final(n))) /\ c \in DOMAIN Value(Read(n))
        /\ \A s \in Processes : Live(s) /\ n \in OutSet(s) => c \in DOMAIN runs[s].value
    BY <1>1, <1>5 DEF Recorded
  <2>2. Exists(Final(n))' /\ Digested(Content(Final(n))') /\ c \in DOMAIN Value(Read(n)')
    <3>1. CASE /\ Untouched(Final(n)) /\ (Exists(Final(n))' <=> Exists(Final(n)))
               /\ Exists(Final(n)) => Content(Final(n))' = Content(Final(n)) /\ Read(n)' = Read(n)
      BY <2>1, <3>1
    <3>2. CASE Rename(r) /\ n = Out(r)
      <4>1. n \in OutSet(r)
        BY <3>2, AtName DEF Base
      <4>2. /\ Exists(Final(n))' /\ Digested(Content(Final(n))') /\ Value(Read(n)') = runs[r].value
            /\ Live(r)
        BY <1>1, <1>4, <3>2, <4>1, RecordReads
      <4>3. QED
        BY <2>1, <4>1, <4>2
    <3>3. QED
      BY <1>1, <1>3, <3>1, <3>2, ReadsAfter
  <2>3. ASSUME NEW s \in Processes, Live(s)', n \in OutSet(s) PROVE c \in DOMAIN runs'[s].value
    <3>1. CASE s # r
      BY <1>1, <2>1, <2>3, <3>1 DEF Ran, Live
    <3>2. CASE s = r
      <4>1. Is(r, "record") /\ n = Out(r)
        BY <1>4, <2>3, <3>2
      <4>2. CASE Start(r)
        <5>1. PICK t \in StartsFrom(r) : runs'[r].value = t.value
          BY <2>3, <3>2, <4>2, StartEffect DEF Base, Live
        <5>2. t.value = Value(Read(n))
          BY <2>1, <4>1, StartsTyped DEF Base
        <5>3. QED
          BY <2>1, <3>2, <5>1, <5>2
      <4>3. CASE Work(r) /\ runs'[r].value = Measured(runs[r].value, Cmd(r).items[runs[r].item], r) /\ Live(r)
        <5>1. DOMAIN runs'[r].value = DOMAIN runs[r].value \cup {Cmd(r).items[runs[r].item]}
          BY <4>3 DEF Measured
        <5>2. c \in DOMAIN runs[r].value
          BY <2>1, <2>3, <3>2, <4>3
        <5>3. QED
          BY <3>2, <5>1, <5>2
      <4>4. CASE Live(r) /\ runs'[r].value = runs[r].value
        BY <2>1, <2>3, <3>2, <4>4
      <4>5. QED
        BY <4>1, <4>2, <4>3, <4>4, RecordSteps DEF Base
    <3>3. QED
      BY <3>1, <3>2
  <2>4. QED
    BY <2>2, <2>3
<1>6. CASE m \notin saved
  <2>1. /\ Rename(r) /\ Is(r, "record") /\ m = [in |-> Out(r), candidate |-> Cmd(r).items[runs[r].item]]
    <3>1. Rename(r)
      BY <1>6, StartEffect, WorkEffect, CloseShortEffect, UseEffect, KillEffect
         DEF Base, Step, Open, Write, Close, Fail, Unchanged
    <3>2. QED
      BY <1>6, <3>1 DEF Rename
  <2>2. n = Out(r) /\ c = Cmd(r).items[runs[r].item] /\ n \in OutSet(r) /\ Clean(r)
    BY <1>4, <2>1, AtName DEF Base
  <2>3. /\ Exists(Final(n))' /\ Digested(Content(Final(n))') /\ Value(Read(n)') = runs[r].value
        /\ runs'[r].value = runs[r].value /\ Live(r)
    BY <1>1, <2>1, <2>2, RecordReads
  <2>4. c \in DOMAIN runs[r].value
    <3>1. runs[r].pc = "rename"
      BY <2>1, RenameEffect DEF Base
    <3>2. QED
      BY <2>1, <2>2, <3>1 DEF RecordHas
  <2>5. ASSUME NEW s \in Processes, Live(s)', n \in OutSet(s) PROVE s = r
    <3>1. CASE s # r
      <4>1. Live(s) /\ Is(s, "record")
        BY <1>1, <1>4, <2>5, <3>1 DEF Ran, Live
      <4>2. Publishing(s) /\ Publishing(r)
        BY <2>1, <2>3, <4>1 DEF Base, Typed, RunTyped, Places, Live, Publishing, Is
      <4>3. QED
        BY <1>1, <2>2, <2>5, <3>1, <4>2 DEF Base, Sole
    <3>2. QED
      BY <3>1
  <2>6. QED
    BY <2>3, <2>4, <2>5
<1>7. QED
  BY <1>5, <1>6

LEMMA RecordsNext == Base /\ RecordHas /\ Recorded /\ [Next]_vars => (RecordHas /\ Recorded)'
<1> SUFFICES ASSUME Base, RecordHas, Recorded, [Next]_vars PROVE RecordHas' /\ Recorded'
  OBVIOUS
<1>1. CASE \E r \in Processes : Step(r)
  <2>1. PICK r \in Processes : Step(r)
    BY <1>1
  <2>2. Ran(r)
    BY <2>1, StepFrame DEF Base
  <2>3. SUFFICES ASSUME NEW m \in saved', m.in \notin contested' \cup spoiled'
                 PROVE  /\ Exists(Final(m.in))' /\ Digested(Content(Final(m.in)))'
                        /\ m.candidate \in DOMAIN Value(Read(m.in))'
                        /\ \A s \in Processes : Live(s)' /\ m.in \in OutSet(s) => m.candidate \in DOMAIN runs'[s].value
    BY <2>1, <2>2, RecordHasStep DEF Recorded, Ran, Processes, OutSet, Cmd
  <2>4. PICK n, c : n = m.in /\ c = m.candidate
    OBVIOUS
  <2>5. /\ Exists(Final(n))' /\ Digested(Content(Final(n))') /\ c \in DOMAIN Value(Read(n)')
        /\ \A s \in Processes : Live(s)' /\ n \in OutSet(s) => c \in DOMAIN runs'[s].value
    BY <2>1, <2>3, <2>4, RecordedStep
  <2>6. \A b : Digested(b)' <=> Digested(b)
    BY DEF Digested, Headed, Digest, Part
  <2>7. QED
    BY <2>4, <2>5 DEF Digested, Headed, Digest, Part, Value
<1>2. CASE Tidy \/ UNCHANGED vars
  <2>1. /\ UNCHANGED <<session, runs, saved, contested, spoiled>>
        /\ \A n \in Names : /\ Exists(Final(n))' <=> Exists(Final(n))
                            /\ Exists(Final(n)) => Content(Final(n))' = Content(Final(n)) /\ Read(n)' = Read(n)
    BY <1>2, RestFrame, FinalsSame
  <2>2. RecordHas'
    BY <2>1 DEF RecordHas, Processes, Is, Cmd
  <2>3. \A m \in saved : m.in \in Names
    <3>1. SUFFICES ASSUME NEW m \in saved PROVE m.in \in Names
      OBVIOUS
    <3>2. PICK q \in Processes : Is(q, "record") /\ m.in \in OutSet(q)
      BY DEF Base, Typed
    <3>3. QED
      BY <3>2, RecordNames
  <2>4. ASSUME NEW m \in saved', m.in \notin contested' \cup spoiled'
        PROVE  /\ Exists(Final(m.in))' /\ Digested(Content(Final(m.in)))'
               /\ m.candidate \in DOMAIN Value(Read(m.in))'
               /\ \A s \in Processes : Live(s)' /\ m.in \in OutSet(s) => m.candidate \in DOMAIN runs'[s].value
    <3>1. /\ Exists(Final(m.in)) /\ Digested(Content(Final(m.in)))
          /\ m.candidate \in DOMAIN Value(Read(m.in))
          /\ \A s \in Processes : Live(s) /\ m.in \in OutSet(s) => m.candidate \in DOMAIN runs[s].value
      BY <2>1, <2>4 DEF Recorded
    <3>2. /\ Exists(Final(m.in))'
          /\ Content(Final(m.in))' = Content(Final(m.in)) /\ Read(m.in)' = Read(m.in)
      BY <2>1, <2>3, <2>4, <3>1
    <3>3. QED
      BY <2>1, <3>1, <3>2 DEF Digested, Headed, Digest, Part, Value, Live
  <2>5. Recorded'
    BY <2>1, <2>4 DEF Recorded, Processes, OutSet, Cmd
  <2>6. QED
    BY <2>2, <2>5
<1>3. QED
  BY <1>1, <1>2 DEF Next, Finished

(* Once record() has returned, the database can be loaded and has the      *)
(* candidate.                                                              *)
THEOREM RecordsAreKept == Spec => []RecordsSurvive
<1>1. Init => RecordHas /\ Recorded
  BY DEF Init, RecordHas, Recorded, Idle
<1>2. Recorded => RecordsSurvive
  BY DEF Recorded, RecordsSurvive, Readable
<1>3. QED
  BY <1>1, <1>2, BaseAlways, RecordsNext, PTL DEF Spec
=============================================================================
