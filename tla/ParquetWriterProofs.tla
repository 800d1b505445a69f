------------------------- MODULE ParquetWriterProofs -------------------------
(***************************************************************************)
(* ParquetWriter for any appenders, rotation, queue limit and number of     *)
(* records and failures: what readers see is an initial piece of what was   *)
(* accepted, cut into consecutive runs; at most MaxPending segments and no  *)
(* buffer beyond them are missing; a successful close misses nothing; and   *)
(* no retry or crash changes a visible file.  So the writer is a RecordLog. *)
(***************************************************************************)
EXTENDS ParquetWriter, SequenceTheorems, WellFoundedInduction, TLAPS

\* The records after a up to b.
Between(a, b) == [i \in 1 .. b - a |-> a + i]

\* The parts that left the queue.
Published == lastPart - Len(pending)

\* The queue holds the last parts, in order, and is never longer than its limit;
\* nothing is buffered behind a full queue.
QueueInOrder ==
    /\ Len(pending) <= MaxPending /\ Len(pending) <= lastPart
    /\ Len(pending) = MaxPending => buffer = <<>>
    /\ \A i \in 1 .. Len(pending) : pending[i].part = Published + i

\* A thread works on the first segment of the queue, which stays there.
ThreadOnHead ==
    /\ writer = "thread" <=> thread # "none"
    /\ inflight # NoPart <=> thread # "none"
    /\ thread # "none" => pending # <<>> /\ inflight = Published + 1
    /\ thread \in {"visible", "ok"} => parts[inflight] = pending[1].records

\* Ends(e, n): the ends of n parts, each of at least one and at most MaxSegment records.
Ends(e, n) ==
    /\ e[0] = 0
    /\ \A p \in 1 .. n : e[p - 1] < e[p] /\ p <= e[p] /\ e[p] <= e[p - 1] + MaxSegment

\* Part p holds the records after ends[p - 1] up to ends[p], wherever it is.
Chain(ends) ==
    /\ Ends(ends, lastPart)
    /\ \A p \in 1 .. Published : parts[p] = Between(ends[p - 1], ends[p])
    /\ \A i \in 1 .. Len(pending) :
           pending[i].records = Between(ends[Published + i - 1], ends[Published + i])
    /\ \A p \in 0 .. lastPart : ends[p] <= accepted
    /\ accepted < ends[lastPart] + MaxSegment
    /\ buffer = Between(ends[lastPart], accepted)

\* A part that is queued is visible only as the first of the queue; later ones are not.
AheadHidden ==
    \A p \in PartNumbers : p > Published =>
        parts[p] = <<>> \/ (pending # <<>> /\ p = Published + 1 /\ parts[p] = pending[1].records)

WriterInv ==
    /\ WriterTypeOK
    /\ accepted <= MaxRecords /\ lastPart <= accepted
    /\ QueueInOrder
    /\ ThreadOnHead
    /\ \E ends \in [Nat -> Nat] : Chain(ends)
    /\ AheadHidden
    /\ lifecycle = "closed" => pending = <<>> /\ buffer = <<>>

-----------------------------------------------------------------------------
(* Runs of records.                                                        *)

LEMMA BetweenIsSeq ==
    ASSUME NEW a \in Nat, NEW b \in Nat, a <= b
    PROVE  Between(a, b) \in Seq(Nat) /\ Len(Between(a, b)) = b - a
BY DEF Between

LEMMA BetweenEmpty ==
    ASSUME NEW a \in Nat, NEW b \in Nat, a <= b
    PROVE  Between(a, b) = <<>> <=> a = b
<1>1. Between(a, b) \in Seq(Nat) /\ Len(Between(a, b)) = b - a
  BY BetweenIsSeq
<1> QED  BY <1>1, EmptySeq

LEMMA BetweenGrows ==
    ASSUME NEW a \in Nat, NEW b \in Nat, a <= b
    PROVE  Append(Between(a, b), b + 1) = Between(a, b + 1)
<1> DEFINE s == Append(Between(a, b), b + 1)  t == Between(a, b + 1)
<1>1. Between(a, b) \in Seq(Nat) /\ Len(Between(a, b)) = b - a
  BY BetweenIsSeq
<1>2. t \in Seq(Nat) /\ Len(t) = b + 1 - a
  BY BetweenIsSeq
<1>3. s \in Seq(Nat) /\ Len(s) = b + 1 - a
  BY <1>1
<1>4. ASSUME NEW i \in 1 .. b + 1 - a PROVE s[i] = t[i]
  <2>1. CASE i \in 1 .. b - a
    BY <1>1, <2>1 DEF Between
  <2>2. CASE i = b + 1 - a
    BY <1>1, <2>2 DEF Between
  <2>3. i \in 1 .. b - a \/ i = b + 1 - a
    OBVIOUS
  <2> HIDE DEF s, t
  <2> QED  BY <2>1, <2>2, <2>3
<1> QED  BY <1>2, <1>3, <1>4, SeqEqual

-----------------------------------------------------------------------------
(* The queue grows by a segment.                                           *)

\* What the queue and the files promise, without the callers.
QueueInv ==
    /\ accepted \in Nat /\ lastPart \in Nat /\ buffer \in Seq(Nat) /\ pending \in Seq(Segments)
    /\ lastPart <= accepted /\ accepted <= MaxRecords
    /\ QueueInOrder
    /\ \E ends \in [Nat -> Nat] : Chain(ends)
    /\ AheadHidden

LEMMA QueuePart == WriterInv => QueueInv
BY DEF WriterInv, WriterTypeOK, QueueInv

LEMMA EnqueueNumbers ==
    ASSUME QueueInv, Room, NEW records \in Seq(Nat), Enqueue(records)
    PROVE  /\ pending' \in Seq(Segments) /\ Len(pending') = Len(pending) + 1
           /\ \A i \in 1 .. Len(pending) : pending'[i] = pending[i]
           /\ pending'[Len(pending) + 1] = [records |-> records, part |-> lastPart + 1]
           /\ Published' = Published /\ Published \in Nat
           /\ buffer' = <<>> /\ buffer' \in Seq(Nat) /\ lastPart' = lastPart + 1
<1> DEFINE segment == [records |-> records, part |-> lastPart + 1]
<1>1. segment \in Segments
  BY DEF QueueInv, Segments
<1>2. pending' = Append(pending, segment) /\ buffer' = <<>> /\ lastPart' = lastPart + 1
  BY DEF Enqueue
<1> HIDE DEF segment
<1>3. pending' \in Seq(Segments) /\ Len(pending') = Len(pending) + 1
      /\ (\A i \in 1 .. Len(pending) : pending'[i] = pending[i])
      /\ pending'[Len(pending) + 1] = segment
  BY <1>1, <1>2 DEF QueueInv
<1>4. Published' = Published /\ Published \in Nat
  BY <1>2, <1>3 DEF Published, QueueInv, QueueInOrder
<1>5. buffer' \in Seq(Nat)
  BY <1>2, EmptySeq
<1> QED  BY <1>2, <1>3, <1>4, <1>5 DEF segment

LEMMA EnqueueInOrder ==
    ASSUME QueueInv, Room, NEW records \in Seq(Nat), Enqueue(records)
    PROVE  QueueInOrder'
<1>n. /\ pending' \in Seq(Segments) /\ Len(pending') = Len(pending) + 1
      /\ \A i \in 1 .. Len(pending) : pending'[i] = pending[i]
      /\ pending'[Len(pending) + 1] = [records |-> records, part |-> lastPart + 1]
      /\ Published' = Published /\ Published \in Nat
      /\ buffer' = <<>> /\ lastPart' = lastPart + 1
  BY EnqueueNumbers
<1> USE <1>n, WriterBounds
<1>1. Len(pending') <= MaxPending /\ Len(pending') <= lastPart'
  BY DEF Room, QueueInv, QueueInOrder
<1>2. ASSUME NEW i \in 1 .. Len(pending')
      PROVE  pending'[i].part = Published' + i
  <2>1. CASE i \in 1 .. Len(pending)
    BY <2>1 DEF QueueInv, QueueInOrder
  <2>2. CASE i = Len(pending) + 1
    BY <2>2 DEF Published, QueueInv
  <2>3. i \in 1 .. Len(pending) \/ i = Len(pending) + 1
    BY DEF QueueInv
  <2> QED  BY <2>1, <2>2, <2>3
<1> QED  BY <1>1, <1>2 DEF QueueInOrder

LEMMA EnqueueHidden ==
    ASSUME QueueInv, Room, NEW records \in Seq(Nat), Enqueue(records), parts' = parts
    PROVE  AheadHidden'
<1>n. /\ pending' \in Seq(Segments) /\ Len(pending') = Len(pending) + 1
      /\ \A i \in 1 .. Len(pending) : pending'[i] = pending[i]
      /\ pending'[Len(pending) + 1] = [records |-> records, part |-> lastPart + 1]
      /\ Published' = Published /\ Published \in Nat
      /\ buffer' = <<>> /\ lastPart' = lastPart + 1
  BY EnqueueNumbers
<1> USE <1>n
<1> SUFFICES ASSUME NEW p \in PartNumbers, p > Published, parts[p] # <<>>
             PROVE  pending' # <<>> /\ p = Published + 1 /\ parts[p] = pending'[1].records
  BY DEF AheadHidden
<1>1. pending # <<>> /\ p = Published + 1 /\ parts[p] = pending[1].records
  BY DEF QueueInv, AheadHidden
<1>2. Len(pending) \in Nat \ {0}
  BY <1>1, EmptySeq DEF QueueInv
<1>3. pending'[1] = pending[1] /\ pending' # <<>>
  BY <1>2, EmptySeq
<1> QED  BY <1>1, <1>3

LEMMA ExtendEnds ==
    ASSUME NEW e \in [Nat -> Nat], NEW n \in Nat, NEW v \in Nat, Ends(e, n),
           e[n] < v, v <= e[n] + MaxSegment
    PROVE  \E g \in [Nat -> Nat] : /\ Ends(g, n + 1) /\ g[n + 1] = v /\ n + 1 <= v
                                  /\ \A p \in 0 .. n : g[p] = e[p]
<1> DEFINE g == [e EXCEPT ![n + 1] = v]
<1>1. g \in [Nat -> Nat] /\ g[n + 1] = v /\ \A p \in 0 .. n : g[p] = e[p]
  OBVIOUS
<1> HIDE DEF g
<1>2. n <= e[n]
  BY DEF Ends
<1>3. ASSUME NEW p \in 1 .. n + 1
      PROVE  g[p - 1] < g[p] /\ p <= g[p] /\ g[p] <= g[p - 1] + MaxSegment
  <2>1. CASE p \in 1 .. n
    BY <1>1, <2>1 DEF Ends
  <2>2. CASE p = n + 1
    BY <1>1, <1>2, <2>2
  <2> QED  BY <2>1, <2>2
<1>4. Ends(g, n + 1)
  BY <1>1, <1>3 DEF Ends
<1> QED  BY <1>1, <1>2, <1>4

LEMMA EnqueueChain ==
    ASSUME QueueInv, Room, NEW records \in Seq(Nat), Enqueue(records), parts' = parts,
           NEW v \in Nat, accepted' = v, NEW ends \in [Nat -> Nat], Chain(ends),
           records = Between(ends[lastPart], v),
           ends[lastPart] < v, v <= ends[lastPart] + MaxSegment, accepted <= v
    PROVE  (\E g \in [Nat -> Nat] : Chain(g)') /\ lastPart' <= v
<1>0. PICK q \in Nat, k \in Nat : Published = q /\ Len(pending) = k /\ lastPart = q + k
  <2>1. Published \in Nat /\ Len(pending) \in Nat /\ lastPart = Published + Len(pending)
    BY DEF QueueInv, QueueInOrder, Published
  <2> QED  BY <2>1
<1>a. /\ Ends(ends, q + k) /\ \A p \in 1 .. q : parts[p] = Between(ends[p - 1], ends[p])
      /\ \A i \in 1 .. k : pending[i].records = Between(ends[q + i - 1], ends[q + i])
      /\ records = Between(ends[q + k], v) /\ ends[q + k] < v /\ v <= ends[q + k] + MaxSegment
  BY <1>0 DEF Chain
<1>1. PICK g \in [Nat -> Nat] :
          /\ Ends(g, q + k + 1) /\ g[q + k + 1] = v /\ q + k + 1 <= v
          /\ \A p \in 0 .. q + k : g[p] = ends[p]
  <2>1. PICK n \in Nat : n = q + k
    OBVIOUS
  <2>2. Ends(ends, n) /\ ends[n] < v /\ v <= ends[n] + MaxSegment
    BY <1>a, <2>1
  <2>3. \E g \in [Nat -> Nat] : /\ Ends(g, n + 1) /\ g[n + 1] = v /\ n + 1 <= v
                                /\ \A p \in 0 .. n : g[p] = ends[p]
    BY <2>2, ExtendEnds
  <2> QED  BY <2>1, <2>3
<1>2. /\ Len(pending') = k + 1 /\ Published' = q /\ lastPart' = q + k + 1
      /\ \A i \in 1 .. k : pending'[i] = pending[i]
      /\ pending'[k + 1] = [records |-> records, part |-> q + k + 1]
      /\ buffer' = <<>>
  BY <1>0, EnqueueNumbers
<1>3. ASSUME NEW p \in 1 .. q
      PROVE  parts[p] = Between(g[p - 1], g[p])
  <2>1. p - 1 \in 0 .. q + k /\ p \in 0 .. q + k
    OBVIOUS
  <2>2. g[p - 1] = ends[p - 1] /\ g[p] = ends[p]
    BY <1>1, <2>1
  <2> QED  BY <1>a, <2>2
<1>4. ASSUME NEW i \in 1 .. k + 1
      PROVE  pending'[i].records = Between(g[q + i - 1], g[q + i])
  <2>1. CASE i \in 1 .. k
    <3>1. q + i - 1 \in 0 .. q + k /\ q + i \in 0 .. q + k
      BY <2>1
    <3>2. g[q + i - 1] = ends[q + i - 1] /\ g[q + i] = ends[q + i]
      BY <1>1, <3>1
    <3>3. pending'[i].records = pending[i].records
      BY <1>2, <2>1
    <3> QED  BY <1>a, <2>1, <3>2, <3>3
  <2>2. CASE i = k + 1
    <3>1. g[q + i - 1] = ends[q + k] /\ g[q + i] = v
      BY <1>1, <2>2
    <3>2. pending'[i].records = records
      BY <1>2, <2>2
    <3> QED  BY <1>a, <3>1, <3>2
  <2>3. i \in 1 .. k \/ i = k + 1
    OBVIOUS
  <2> QED  BY <2>1, <2>2, <2>3
<1>5. buffer' = Between(g[q + k + 1], v) /\ g[q + k + 1] <= v /\ v < g[q + k + 1] + MaxSegment
  <2>1. Between(v, v) = <<>> /\ v < v + MaxSegment
    BY BetweenEmpty, WriterBounds
  <2> QED  BY <1>1, <1>2, <2>1
<1>6. ASSUME NEW p \in 0 .. q + k + 1
      PROVE  g[p] <= v
  <2>1. CASE p \in 0 .. q + k
    <3>1. g[p] = ends[p]
      BY <1>1, <2>1
    <3>2. ends[p] <= accepted
      BY <1>0, <2>1 DEF Chain
    <3>3. accepted \in Nat
      BY DEF QueueInv
    <3> QED  BY <2>1, <3>1, <3>2, <3>3
  <2>2. CASE p = q + k + 1
    BY <1>1, <2>2
  <2> QED  BY <2>1, <2>2
<1>7. Chain(g)'
  BY <1>1, <1>2, <1>3, <1>4, <1>5, <1>6 DEF Chain
<1> QED  BY <1>1, <1>2, <1>7

\* Handing a segment over while a thread may be at work on the head of the queue.
LEMMA EnqueueThread ==
    ASSUME WriterInv, Room, NEW records \in Seq(Nat), Enqueue(records),
           UNCHANGED <<parts, inflight, thread>>
    PROVE  ThreadOnHead' /\ writer' \in {"none", "top", "thread"}
<1>n. /\ pending' \in Seq(Segments) /\ Len(pending') = Len(pending) + 1
      /\ \A i \in 1 .. Len(pending) : pending'[i] = pending[i]
      /\ pending'[Len(pending) + 1] = [records |-> records, part |-> lastPart + 1]
      /\ Published' = Published /\ Published \in Nat
      /\ buffer' = <<>> /\ lastPart' = lastPart + 1
  BY QueuePart, EnqueueNumbers
<1> USE <1>n, QueuePart
<1>1. writer' = "thread" <=> writer = "thread"
  BY DEF Enqueue, EnsureWriter, WriterNeeded, WriterInv, ThreadOnHead
<1>2. thread # "none" => pending' # <<>> /\ pending'[1] = pending[1]
  <2>1. thread # "none" => Len(pending) \in Nat \ {0}
    BY EmptySeq DEF WriterInv, ThreadOnHead, QueueInv
  <2> QED  BY <2>1, EmptySeq
<1>3. writer' \in {"none", "top", "thread"}
  BY DEF Enqueue, EnsureWriter, WriterInv, WriterTypeOK
<1> QED  BY <1>1, <1>2, <1>3 DEF WriterInv, ThreadOnHead

LEMMA EnqueueKeeps ==
    ASSUME WriterInv, Room, NEW records \in Seq(Nat), Enqueue(records),
           UNCHANGED <<parts, inflight, thread>>,
           NEW v \in Nat, accepted' = v, v <= MaxRecords, NEW ends \in [Nat -> Nat],
           Chain(ends), records = Between(ends[lastPart], v),
           ends[lastPart] < v, v <= ends[lastPart] + MaxSegment, accepted <= v
    PROVE  QueueInv' /\ ThreadOnHead' /\ writer' \in {"none", "top", "thread"}
<1>1. QueueInv
  BY QueuePart
<1>2. QueueInOrder' /\ AheadHidden' /\ (\E g \in [Nat -> Nat] : Chain(g)')
      /\ lastPart' <= v
  BY <1>1, EnqueueInOrder, EnqueueHidden, EnqueueChain
<1>3. buffer' \in Seq(Nat) /\ pending' \in Seq(Segments) /\ lastPart' \in Nat
  <2>1. buffer' \in Seq(Nat) /\ pending' \in Seq(Segments) /\ lastPart' = lastPart + 1
    BY <1>1, EnqueueNumbers
  <2> QED  BY <1>1, <2>1 DEF QueueInv
<1>4. QueueInv'
  BY <1>2, <1>3 DEF QueueInv
<1> QED  BY <1>4, EnqueueThread

LEMMA EnqueueBufferKeeps ==
    ASSUME WriterInv, EnqueueBuffer, UNCHANGED <<accepted, parts, inflight, thread>>
    PROVE  QueueInv' /\ ThreadOnHead' /\ writer' \in {"none", "top", "thread"}
<1>1. CASE buffer # <<>>
  <2>1. QueueInv /\ Enqueue(buffer) /\ buffer \in Seq(Nat) /\ accepted \in Nat
    BY <1>1, QueuePart DEF EnqueueBuffer, QueueInv
  <2>2. Room
    BY <1>1, <2>1, WriterBounds DEF Room, QueueInv, QueueInOrder
  <2>3. PICK ends \in [Nat -> Nat] : Chain(ends)
    BY <2>1 DEF QueueInv
  <2>4. buffer = Between(ends[lastPart], accepted) /\ ends[lastPart] < accepted
        /\ accepted < ends[lastPart] + MaxSegment /\ accepted <= MaxRecords
        /\ ends[lastPart] \in Nat
    <3>1. buffer = Between(ends[lastPart], accepted) /\ ends[lastPart] <= accepted
          /\ accepted < ends[lastPart] + MaxSegment /\ ends[lastPart] \in Nat
      BY <2>1, <2>3 DEF Chain, QueueInv
    <3>2. ends[lastPart] # accepted
      BY <1>1, <2>1, <3>1, BetweenEmpty
    <3> QED  BY <2>1, <3>1, <3>2 DEF QueueInv
  <2>5. accepted <= ends[lastPart] + MaxSegment /\ accepted <= accepted
    <3>1. PICK n \in Nat, b \in Nat : accepted = n /\ ends[lastPart] = b
      BY <2>1, <2>4
    <3>2. MaxSegment \in Nat
      BY WriterBounds
    <3>3. n < b + MaxSegment
      BY ONLY <2>4, <3>1
    <3>4. n <= b + MaxSegment /\ n <= n
      BY ONLY <3>2, <3>3
    <3> QED  BY ONLY <3>1, <3>4
  <2>6. accepted' = accepted /\ UNCHANGED <<parts, inflight, thread>> /\ accepted <= MaxRecords
    BY <2>4
  <2> QED  BY ONLY WriterInv, <2>1, <2>2, <2>3, <2>4, <2>5, <2>6, EnqueueKeeps
<1>2. CASE buffer = <<>>
  <2>1. UNCHANGED <<buffer, pending, lastPart, writer, accepted, parts, inflight, thread>>
    BY <1>2 DEF EnqueueBuffer
  <2>2. QueueInv /\ ThreadOnHead /\ writer \in {"none", "top", "thread"}
    BY QueuePart DEF WriterInv, WriterTypeOK
  <2>3. QueueInv'
    BY <2>1, <2>2 DEF QueueInv, QueueInOrder, Published, Chain, AheadHidden
  <2> QED  BY <2>1, <2>2, <2>3 DEF ThreadOnHead, Published
<1> QED  BY <1>1, <1>2

-----------------------------------------------------------------------------
(* Steps that leave the queue and the files alone.                         *)

LEMMA QueueKept ==
    ASSUME QueueInv, UNCHANGED <<accepted, buffer, pending, lastPart, parts>>
    PROVE  QueueInv'
<1>1. \A e : Chain(e) => Chain(e)'
  BY DEF Chain, Published
<1>2. QueueInOrder' /\ AheadHidden'
  BY DEF QueueInv, QueueInOrder, AheadHidden, Published
<1> QED  BY <1>1, <1>2 DEF QueueInv

\* The part a thread works on is one of those a reader may see.
LEMMA InflightNumber ==
    ASSUME QueueInv, pending # <<>>
    PROVE  Published + 1 \in PartNumbers /\ Published \in Nat
<1>1. PICK q \in Nat, k \in Nat, n \in Nat :
          /\ Published = q /\ Len(pending) = k /\ lastPart = q + k /\ accepted = n
          /\ q + k <= n /\ n <= MaxRecords
  <2>1. Published \in Nat /\ Len(pending) \in Nat /\ lastPart = Published + Len(pending)
        /\ accepted \in Nat /\ lastPart <= accepted /\ accepted <= MaxRecords
    BY DEF QueueInv, QueueInOrder, Published
  <2> QED  BY <2>1
<1>2. k # 0
  BY <1>1, EmptySeq DEF QueueInv
<1>3. MaxRecords \in Nat
  BY WriterBounds
<1> QED  BY <1>1, <1>2, <1>3 DEF PartNumbers

\* The callers' sections: places, sleepers, the error flag and the lifecycle change.
LEMMA CallerSteps ==
    ASSUME WriterInv,
           \/ \E a \in Appenders : AppendWaits(a) \/ AppendRaises(a)
           \/ WaitToSettle("flusher") \/ WaitToSettle("closer") \/ FlushReturns
           \/ CloseRetries \/ CloseEnds \/ WriterDies \/ WriterLeaves
    PROVE  WriterInv'
<1>1. QueueInv /\ ThreadOnHead /\ WriterTypeOK
      /\ (lifecycle = "closed" => pending = <<>> /\ buffer = <<>>)
  BY QueuePart DEF WriterInv
<1>2. UNCHANGED <<accepted, buffer, pending, lastPart, parts, inflight, thread, failures>>
  BY DEF AppendWaits, AppendRaises, WaitToSettle, FlushReturns, CloseRetries, CloseEnds,
         WriterDies, WriterLeaves, task, disk
<1>3. lifecycle' = lifecycle \/ lifecycle' \in {"failed", "crashed"}
      \/ (lifecycle' = "closed" /\ pending = <<>> /\ buffer = <<>>)
  BY DEF AppendWaits, AppendRaises, WaitToSettle, FlushReturns, CloseRetries, CloseEnds,
         WriterDies, WriterLeaves
<1>4. writer' = writer \/ (writer = "none" /\ writer' = "top")
      \/ (writer = "top" /\ writer' = "none")
  BY DEF AppendWaits, AppendRaises, WaitToSettle, FlushReturns, CloseRetries, CloseEnds,
         WriterDies, WriterLeaves, EnsureWriter, WriterNeeded
<1>5. failed' = failed \/ failed' = FALSE
  BY DEF AppendWaits, AppendRaises, WaitToSettle, FlushReturns, CloseRetries, CloseEnds,
         WriterDies, WriterLeaves
<1>6. place' \in [Callers -> {"idle", "append", "settle", "first", "second", "last"}]
      /\ asleep' \subseteq Callers
  <2>1. /\ place \in [Callers -> {"idle", "append", "settle", "first", "second", "last"}]
        /\ asleep \subseteq Callers
    BY <1>1 DEF WriterTypeOK
  <2>2. CASE \E a \in Appenders : AppendWaits(a) \/ AppendRaises(a)
    BY <2>1, <2>2 DEF AppendWaits, AppendRaises, Callers
  <2>3. CASE WaitToSettle("flusher") \/ WaitToSettle("closer") \/ WriterDies \/ WriterLeaves
    BY <2>1, <2>3 DEF WaitToSettle, WriterDies, WriterLeaves, NotifyAll, Callers
  <2>4. CASE FlushReturns
    BY <2>1, <2>4 DEF FlushReturns
  <2>5. CASE CloseRetries \/ CloseEnds
    BY <2>1, <2>5 DEF CloseRetries, CloseEnds, NotifyAll
  <2> QED  BY <2>2, <2>3, <2>4, <2>5
<1>7. partials' \subseteq PartNumbers
  <2>1. CASE partials' = partials
    BY <1>1, <2>1 DEF WriterTypeOK
  <2>2. CASE WriterDies /\ thread = "writing" /\ partials' = partials \cup {inflight}
    <3>1. pending # <<>> /\ inflight = Published + 1
      BY <1>1, <2>2 DEF ThreadOnHead
    <3>2. inflight \in PartNumbers
      BY <1>1, <3>1, InflightNumber
    <3> QED  BY <1>1, <2>2, <3>2 DEF WriterTypeOK
  <2> QED  BY <2>1, <2>2 DEF AppendWaits, AppendRaises, WaitToSettle, FlushReturns,
                CloseRetries, CloseEnds, WriterDies, WriterLeaves, disk
<1>8. QueueInv'
  BY <1>1, <1>2, QueueKept
<1>9. ThreadOnHead'
  BY <1>1, <1>2, <1>4 DEF ThreadOnHead, Published
<1>10. WriterTypeOK'
  <2>1. failed' \in BOOLEAN
    BY <1>1, <1>5 DEF WriterTypeOK
  <2>2. writer' \in {"none", "top", "thread"}
        /\ lifecycle' \in {"open", "closing", "closed", "failed", "crashed"}
    BY <1>1, <1>3, <1>4 DEF WriterTypeOK
  <2> QED  BY <1>1, <1>2, <1>6, <1>7, <2>1, <2>2 DEF WriterTypeOK
<1>11. lifecycle' = "closed" => pending' = <<>> /\ buffer' = <<>>
  BY <1>1, <1>2, <1>3
<1> QED  BY <1>8, <1>9, <1>10, <1>11 DEF QueueInv, WriterInv

-----------------------------------------------------------------------------
(* Steps that fill the buffer or hand it over.                             *)

LEMMA HandOverSteps == ASSUME WriterInv, Flush \/ Close PROVE WriterInv'
<1>1. EnqueueBuffer /\ UNCHANGED <<accepted, parts, inflight, thread, failures, failed, asleep,
                                   partials>>
  BY DEF Flush, Close, task, disk
<1>2. QueueInv' /\ ThreadOnHead' /\ writer' \in {"none", "top", "thread"}
  BY <1>1, EnqueueBufferKeeps
<1>3. WriterTypeOK /\ (lifecycle = "closed" => pending = <<>> /\ buffer = <<>>)
  BY DEF WriterInv
<1>4. lifecycle' \in {"open", "closing"}
  BY <1>3 DEF Flush, Close
<1>5. place' \in [Callers -> {"idle", "append", "settle", "first", "second", "last"}]
  BY <1>3 DEF Flush, Close, WriterTypeOK
<1>6. WriterTypeOK'
  BY <1>1, <1>2, <1>3, <1>4, <1>5 DEF WriterTypeOK, QueueInv
<1> QED  BY <1>2, <1>4, <1>6 DEF QueueInv, WriterInv

LEMMA AppendTakesStep ==
    ASSUME WriterInv, NEW a \in Appenders, AppendTakes(a)
    PROVE  WriterInv'
<1> DEFINE filled == Append(buffer, accepted + 1)
<1>1. /\ Room /\ lifecycle = "open" /\ accepted < MaxRecords /\ accepted' = accepted + 1
      /\ UNCHANGED <<parts, inflight, thread, failures, failed, asleep, partials, lifecycle>>
      /\ place' = [place EXCEPT ![a] = "idle"]
      /\ \/ Enqueue(filled)
         \/ /\ ~ (Len(filled) >= MaxSegment)
            /\ buffer' = filled /\ UNCHANGED <<pending, lastPart, writer>>
  BY DEF AppendTakes, task, disk
<1>2. QueueInv /\ ThreadOnHead /\ WriterTypeOK
  BY QueuePart DEF WriterInv
<1>3. PICK ends \in [Nat -> Nat] : Chain(ends)
  BY <1>2 DEF QueueInv
<1>4. PICK n \in Nat, b \in Nat :
          /\ accepted = n /\ ends[lastPart] = b /\ b <= n /\ n < b + MaxSegment
          /\ buffer = Between(b, n)
  <2>1. accepted \in Nat /\ lastPart \in Nat
    BY <1>2 DEF QueueInv
  <2>2. ends[lastPart] \in Nat /\ lastPart \in 0 .. lastPart
    BY <2>1
  <2>3. /\ ends[lastPart] <= accepted /\ accepted < ends[lastPart] + MaxSegment
        /\ buffer = Between(ends[lastPart], accepted)
    BY <1>3, <2>2 DEF Chain
  <2> QED  BY <2>1, <2>2, <2>3
<1>5. filled = Between(b, n + 1) /\ filled \in Seq(Nat) /\ Len(filled) = n + 1 - b
  <2>1. filled = Append(Between(b, n), n + 1)
    BY <1>4
  <2>2. Append(Between(b, n), n + 1) = Between(b, n + 1)
    BY <1>4, BetweenGrows
  <2>3. b <= n + 1 /\ n + 1 \in Nat
    BY <1>4
  <2>4. Between(b, n + 1) \in Seq(Nat) /\ Len(Between(b, n + 1)) = n + 1 - b
    BY <2>3, BetweenIsSeq
  <2> HIDE DEF filled
  <2> QED  BY <2>1, <2>2, <2>4
<1>6. n + 1 \in Nat /\ accepted' = n + 1 /\ n + 1 <= MaxRecords /\ b < n + 1
      /\ n + 1 <= b + MaxSegment /\ accepted <= n + 1
  BY <1>1, <1>4, WriterBounds
<1> HIDE DEF filled
<1>7. QueueInv' /\ ThreadOnHead' /\ writer' \in {"none", "top", "thread"}
  <2>1. CASE Enqueue(filled)
    BY <1>1, <1>3, <1>4, <1>5, <1>6, <2>1, EnqueueKeeps
  <2>2. CASE /\ ~ (Len(filled) >= MaxSegment)
             /\ buffer' = filled /\ UNCHANGED <<pending, lastPart, writer>>
    <3>1. n + 1 < b + MaxSegment
      BY <1>4, <1>5, <2>2, WriterBounds
    <3>2. Published' = Published
      BY <2>2 DEF Published
    <3>3. Chain(ends)'
      <4>1. /\ Ends(ends, lastPart)
            /\ \A p \in 1 .. Published : parts[p] = Between(ends[p - 1], ends[p])
            /\ \A i \in 1 .. Len(pending) :
                   pending[i].records = Between(ends[Published + i - 1], ends[Published + i])
        BY <1>3 DEF Chain
      <4>2. \A p \in 0 .. lastPart : ends[p] <= n + 1
        <5> SUFFICES ASSUME NEW p \in 0 .. lastPart PROVE ends[p] <= n + 1
          OBVIOUS
        <5>1. ends[p] <= n
          BY <1>3, <1>4 DEF Chain
        <5>2. p \in Nat
          BY <1>2 DEF QueueInv
        <5>3. ends[p] \in Nat
          BY <5>2
        <5> QED  BY <1>4, <5>1, <5>3
      <4>3. UNCHANGED <<lastPart, pending, parts>> /\ ends[lastPart'] = b
            /\ buffer' = Between(b, n + 1) /\ accepted' = n + 1 /\ b <= n + 1
        BY <1>1, <1>4, <1>5, <1>6, <2>2
      <4> QED  BY <3>1, <3>2, <4>1, <4>2, <4>3 DEF Chain
    <3>4. QueueInOrder'
      BY <1>1, <1>2, <2>2, <3>2 DEF QueueInv, QueueInOrder, Room
    <3>5. AheadHidden'
      BY <1>1, <1>2, <2>2, <3>2 DEF QueueInv, AheadHidden
    <3>6. lastPart' <= accepted' /\ lastPart' \in Nat /\ pending' \in Seq(Segments)
      BY <1>2, <1>4, <1>6, <2>2 DEF QueueInv
    <3>7. QueueInv'
      BY <1>5, <1>6, <2>2, <3>3, <3>4, <3>5, <3>6 DEF QueueInv
    <3>8. ThreadOnHead'
      BY <1>1, <1>2, <2>2, <3>2 DEF ThreadOnHead
    <3> QED  BY <1>2, <2>2, <3>7, <3>8 DEF WriterTypeOK
  <2> QED  BY <1>1, <2>1, <2>2
<1>8. WriterTypeOK'
  BY <1>1, <1>2, <1>7 DEF WriterTypeOK, QueueInv
<1> QED  BY <1>1, <1>7, <1>8 DEF QueueInv, WriterInv

-----------------------------------------------------------------------------
(* The writer task and its thread.                                         *)

LEMMA ThreadWorks ==
    ASSUME WriterInv, WriterStarts \/ ThreadSyncs \/ ThreadFails
    PROVE  WriterInv'
<1>1. QueueInv /\ ThreadOnHead /\ WriterTypeOK
      /\ (lifecycle = "closed" => pending = <<>> /\ buffer = <<>>)
  BY QueuePart DEF WriterInv
<1>2. UNCHANGED <<accepted, buffer, pending, lastPart, parts, lifecycle, failed, place, asleep,
                  partials>>
  BY DEF WriterStarts, ThreadSyncs, ThreadFails, disk
<1>3. QueueInv'
  BY <1>1, <1>2, QueueKept
<1>4. Published' = Published
  BY <1>2 DEF Published
<1>5. CASE WriterStarts
  <2>1. /\ writer' = "thread" /\ thread' = "writing" /\ pending # <<>> /\ failures' = failures
        /\ inflight' = Head(pending).part
    BY <1>5 DEF WriterStarts
  <2>2. Head(pending) = pending[1] /\ 1 \in 1 .. Len(pending)
    BY <1>1, <2>1, EmptySeq DEF QueueInv
  <2>3. inflight' = Published + 1
    BY <1>1, <2>1, <2>2 DEF QueueInv, QueueInOrder
  <2>4. inflight' \in Nat /\ inflight' # NoPart
    BY <1>1, <2>1, <2>3, InflightNumber DEF NoPart
  <2>5. ThreadOnHead'
    BY <1>2, <1>4, <2>1, <2>3, <2>4 DEF ThreadOnHead
  <2>6. WriterTypeOK'
    BY <1>1, <1>2, <2>1, <2>4 DEF WriterTypeOK
  <2> QED  BY <1>1, <1>2, <1>3, <2>5, <2>6 DEF QueueInv, WriterInv
<1>6. CASE ThreadSyncs \/ ThreadFails
  <2>1. /\ thread \in {"writing", "visible"} /\ thread' \in {"ok", "error"}
        /\ thread' = "ok" => thread = "visible"
        /\ UNCHANGED <<inflight, writer>> /\ failures' \in {failures, failures + 1}
    BY <1>6 DEF ThreadSyncs, ThreadFails
  <2>2. ThreadOnHead'
    BY <1>1, <1>2, <1>4, <2>1 DEF ThreadOnHead
  <2>3. WriterTypeOK'
    BY <1>1, <1>2, <2>1 DEF WriterTypeOK
  <2> QED  BY <1>1, <1>2, <1>3, <2>2, <2>3 DEF QueueInv, WriterInv
<1> QED  BY <1>5, <1>6

\* The file of the head of the queue appears.
LEMMA ThreadShowsStep == ASSUME WriterInv, ThreadShows PROVE WriterInv'
<1>1. QueueInv /\ ThreadOnHead /\ WriterTypeOK
      /\ (lifecycle = "closed" => pending = <<>> /\ buffer = <<>>)
  BY QueuePart DEF WriterInv
<1>2. /\ thread = "writing" /\ thread' = "visible"
      /\ parts' = [parts EXCEPT ![inflight] = Head(pending).records]
      /\ UNCHANGED <<accepted, buffer, pending, lastPart, lifecycle, failed, inflight, writer,
                     place, asleep, partials, failures>>
  BY DEF ThreadShows
<1>3. pending # <<>> /\ inflight = Published + 1 /\ inflight \in PartNumbers
  BY <1>1, <1>2, InflightNumber DEF ThreadOnHead
<1>4. Head(pending) = pending[1] /\ pending[1] \in Segments
  BY <1>1, <1>3, EmptySeq DEF QueueInv
<1>5. /\ parts' \in [PartNumbers -> Seq(Nat)] /\ parts'[inflight] = pending[1].records
      /\ \A p \in PartNumbers : p # inflight => parts'[p] = parts[p]
  BY <1>1, <1>2, <1>3, <1>4 DEF WriterTypeOK, Segments
<1>6. Published' = Published /\ Published \in Nat /\ Published + 1 <= MaxRecords
  BY <1>1, <1>2, <1>3, InflightNumber, WriterBounds DEF Published, PartNumbers
<1>7. ASSUME NEW ends, Chain(ends) PROVE Chain(ends)'
  <2>1. \A p \in 1 .. Published : parts'[p] = parts[p]
    <3> SUFFICES ASSUME NEW p \in 1 .. Published PROVE parts'[p] = parts[p]
      OBVIOUS
    <3>1. p \in PartNumbers /\ p # inflight
      BY <1>3, <1>6, WriterBounds DEF PartNumbers
    <3> QED  BY <1>5, <3>1
  <2> QED  BY <1>2, <1>6, <1>7, <2>1 DEF Chain
<1>8. AheadHidden'
  <2> SUFFICES ASSUME NEW p \in PartNumbers, p > Published
               PROVE  parts'[p] = <<>> \/ (p = Published + 1 /\ parts'[p] = pending[1].records)
    BY <1>2, <1>3, <1>6 DEF AheadHidden
  <2>1. CASE p = inflight
    BY <1>3, <1>5, <2>1
  <2>2. CASE p # inflight
    BY <1>1, <1>5, <2>2 DEF QueueInv, AheadHidden
  <2> QED  BY <2>1, <2>2
<1>9. QueueInOrder'
  BY <1>1, <1>2, <1>6 DEF QueueInv, QueueInOrder
<1>10. QueueInv'
  BY <1>1, <1>2, <1>7, <1>8, <1>9 DEF QueueInv
<1>11. ThreadOnHead'
  BY <1>1, <1>2, <1>5, <1>6 DEF ThreadOnHead
<1>12. WriterTypeOK'
  BY <1>1, <1>2, <1>5 DEF WriterTypeOK
<1> QED  BY <1>1, <1>2, <1>10, <1>11, <1>12 DEF QueueInv, WriterInv

\* A written segment leaves the queue; a failed one stays its first.
LEMMA CommitStep == ASSUME WriterInv, Commit PROVE WriterInv'
<1>1. QueueInv /\ ThreadOnHead /\ WriterTypeOK
      /\ (lifecycle = "closed" => pending = <<>> /\ buffer = <<>>)
  BY QueuePart DEF WriterInv
<1>2. /\ thread \in {"ok", "error"} /\ writer' = "top" /\ thread' = "none" /\ inflight' = NoPart
      /\ failed' = (failed \/ thread = "error") /\ asleep' = {}
      /\ UNCHANGED <<accepted, buffer, lastPart, lifecycle, place, parts, partials, failures>>
  BY DEF Commit, NotifyAll, disk
<1>3. pending # <<>> /\ inflight = Published + 1
      /\ (thread = "ok" => parts[inflight] = pending[1].records)
  BY <1>1, <1>2 DEF ThreadOnHead
<1>4. ThreadOnHead'
  BY <1>2 DEF ThreadOnHead
<1>5. QueueInv'
  <2>1. CASE pending' = pending
    BY <1>1, <1>2, <2>1, QueueKept
  <2>2. CASE thread = "ok" /\ pending' = Tail(pending)
    <3>1. PICK q \in Nat, k \in Nat :
              Published = q /\ Len(pending) = k + 1 /\ lastPart = q + k + 1
      <4>1. Published \in Nat /\ Len(pending) - 1 \in Nat /\ lastPart = Published + Len(pending)
        BY <1>1, <1>3, EmptySeq DEF QueueInv, QueueInOrder, Published
      <4> QED  BY <4>1
    <3>2. /\ Len(pending') = k /\ pending' \in Seq(Segments)
          /\ \A i \in 1 .. k : pending'[i] = pending[i + 1]
      BY <1>1, <1>3, <2>2, <3>1, HeadTailProperties DEF QueueInv
    <3>3. Published' = q + 1
      BY <1>2, <3>1, <3>2 DEF Published
    <3>4. QueueInOrder'
      <4>1. k + 1 <= MaxPending /\ \A i \in 1 .. k + 1 : pending[i].part = q + i
        BY <1>1, <3>1 DEF QueueInv, QueueInOrder
      <4>2. k < MaxPending /\ k <= lastPart
        BY <3>1, <4>1, WriterBounds
      <4>3. ASSUME NEW i \in 1 .. k PROVE pending'[i].part = q + 1 + i
        <5>1. i + 1 \in 1 .. k + 1 /\ q + (i + 1) = q + 1 + i
          OBVIOUS
        <5> QED  BY <3>2, <4>1, <5>1
      <4> QED  BY <1>2, <3>2, <3>3, <4>2, <4>3, WriterBounds DEF QueueInOrder
    <3>5. ASSUME NEW ends \in [Nat -> Nat], Chain(ends) PROVE Chain(ends)'
      <4>1. /\ Ends(ends, lastPart)
            /\ \A p \in 1 .. q : parts[p] = Between(ends[p - 1], ends[p])
            /\ \A i \in 1 .. k + 1 :
                   pending[i].records = Between(ends[q + i - 1], ends[q + i])
            /\ \A p \in 0 .. lastPart : ends[p] <= accepted
            /\ accepted < ends[lastPart] + MaxSegment
            /\ buffer = Between(ends[lastPart], accepted)
        BY <3>1, <3>5 DEF Chain
      <4>2. ASSUME NEW p \in 1 .. q + 1 PROVE parts[p] = Between(ends[p - 1], ends[p])
        <5>1. CASE p = q + 1
          <6>1. parts[q + 1] = pending[1].records
            BY <1>3, <2>2, <3>1
          <6>2. pending[1].records = Between(ends[q], ends[q + 1])
            BY <4>1
          <6> QED  BY <5>1, <6>1, <6>2
        <5>2. CASE p \in 1 .. q
          BY <4>1, <5>2
        <5> QED  BY <5>1, <5>2
      <4>3. ASSUME NEW i \in 1 .. k
            PROVE  pending'[i].records = Between(ends[q + 1 + i - 1], ends[q + 1 + i])
        <5>1. i + 1 \in 1 .. k + 1 /\ q + (i + 1) - 1 = q + 1 + i - 1 /\ q + (i + 1) = q + 1 + i
          OBVIOUS
        <5>2. pending[i + 1].records = Between(ends[q + (i + 1) - 1], ends[q + (i + 1)])
          BY <4>1, <5>1
        <5> QED  BY <3>2, <5>1, <5>2
      <4> QED  BY <1>2, <3>2, <3>3, <4>1, <4>2, <4>3 DEF Chain
    <3>6. AheadHidden'
      <4> SUFFICES ASSUME NEW p \in PartNumbers, p > q + 1 PROVE parts[p] = <<>>
        BY <1>2, <3>3 DEF AheadHidden
      <4>1. p > q /\ p # q + 1
        BY WriterBounds DEF PartNumbers
      <4> QED  BY <1>1, <3>1, <4>1 DEF QueueInv, AheadHidden
    <3> QED  BY <1>1, <1>2, <3>2, <3>4, <3>5, <3>6 DEF QueueInv
  <2> QED  BY <2>1, <2>2 DEF Commit
<1>6. WriterTypeOK'
  <2>1. failed' \in BOOLEAN
    BY <1>2
  <2> QED  BY <1>1, <1>2, <1>5, <2>1 DEF WriterTypeOK, QueueInv, NoPart
<1>7. lifecycle' = "closed" => pending' = <<>> /\ buffer' = <<>>
  BY <1>1, <1>2, <1>3
<1> QED  BY <1>4, <1>5, <1>6, <1>7 DEF QueueInv, WriterInv

-----------------------------------------------------------------------------
LEMMA WriterStartsEmpty == WriterInit => WriterInv
<1> SUFFICES ASSUME WriterInit PROVE WriterInv
  OBVIOUS
<1> USE WriterBounds DEF WriterInit
<1>1. WriterTypeOK
  <2>1. <<>> \in Seq(Nat) /\ <<>> \in Seq(Segments)
    BY EmptySeq
  <2> QED  BY <2>1 DEF WriterTypeOK, NoPart
<1>2. Len(<<>>) = 0 /\ Len(pending) = 0
  BY EmptySeq
<1>3. QueueInOrder /\ ThreadOnHead /\ AheadHidden
  BY <1>2 DEF QueueInOrder, ThreadOnHead, AheadHidden, NoPart
<1>4. \E ends \in [Nat -> Nat] : Chain(ends)
  <2> DEFINE ends == [p \in Nat |-> 0]
  <2>1. ends \in [Nat -> Nat] /\ ends[0] = 0
    OBVIOUS
  <2>2. Published = 0 /\ lastPart = 0
    <3>1. lastPart = 0 /\ Published = lastPart - Len(pending)
      BY DEF Published
    <3> HIDE DEF WriterInit
    <3> QED  BY <1>2, <3>1
  <2>3. Between(0, 0) = <<>>
    BY BetweenEmpty
  <2>4. Chain(ends)
    BY <1>2, <2>1, <2>2, <2>3 DEF Chain, Ends
  <2> HIDE DEF ends, WriterInit
  <2> QED  BY ONLY <2>1, <2>4
<1>5. accepted <= MaxRecords /\ lastPart <= accepted
      /\ (lifecycle = "closed" => pending = <<>> /\ buffer = <<>>)
  OBVIOUS
<1> HIDE DEF WriterInit
<1> QED  BY <1>1, <1>3, <1>4, <1>5 DEF WriterInv

LEMMA WriterInductive == WriterInv /\ [WriterNext]_writerVars => WriterInv'
<1> SUFFICES ASSUME WriterInv, [WriterNext]_writerVars PROVE WriterInv'
  OBVIOUS
<1>1. CASE UNCHANGED writerVars
  <2>0. UNCHANGED <<accepted, buffer, pending, lastPart, parts, lifecycle>>
    BY <1>1 DEF writerVars
  <2>1. QueueInv' /\ lifecycle' = lifecycle
    BY <2>0, QueuePart, QueueKept
  <2>2. ThreadOnHead' /\ WriterTypeOK'
    BY <1>1 DEF writerVars, WriterInv, ThreadOnHead, WriterTypeOK, Published
  <2> QED  BY <1>1, <2>1, <2>2 DEF writerVars, QueueInv, WriterInv
<1>2. CASE WriterNext
  BY <1>2, CallerSteps, HandOverSteps, AppendTakesStep, ThreadWorks, ThreadShowsStep, CommitStep
     DEF WriterNext, CloseTask, WriterTask, Thread
<1> QED  BY <1>1, <1>2

-----------------------------------------------------------------------------
(* What the visible files hold together.                                   *)

\* A set of natural numbers has a least one.
LEMMA LeastNumber ==
    ASSUME NEW T \in SUBSET Nat, T # {}
    PROVE  \E x \in T : \A y \in T : x <= y
<1> DEFINE R == OpToRel(<, Nat)
<1>1. IsWellFoundedOn(R, Nat)
  BY NatLessThanWellFounded
<1>2. \A x, y \in Nat : x < y => <<x, y>> \in R
  BY DEF OpToRel
<1> HIDE DEF R
<1>3. PICK x \in T : \A y \in T : ~ (<<y, x>> \in R)
  BY <1>1, WFMin
<1>4. ASSUME NEW y \in T PROVE x <= y
  <2>1. x \in Nat /\ y \in Nat /\ ~ (y < x)
    BY <1>2, <1>3
  <2> QED  BY <2>1
<1> QED  BY <1>4

\* So a set that holds 0 and the successor of each of its numbers holds all of them:
\* the induction that what the files hold together needs.
LEMMA EveryNumber ==
    ASSUME NEW S, 0 \in S, \A n \in Nat : n \in S => n + 1 \in S
    PROVE  \A n \in Nat : n \in S
<1> DEFINE T == {n \in Nat : n \notin S}
<1>1. SUFFICES ASSUME T # {} PROVE FALSE
  OBVIOUS
<1>2. PICK m \in T : \A y \in T : m <= y
  <2>1. T \in SUBSET Nat
    OBVIOUS
  <2> HIDE DEF T
  <2> QED  BY <1>1, <2>1, LeastNumber
<1>3. m # 0 /\ m - 1 \in Nat /\ m - 1 \notin T
  BY <1>2
<1> QED  BY <1>2, <1>3

\* Together(f, n): f[p] is the files 1 to p, one after the other, for p up to n.
Together(f, n) == f = [p \in 0 .. n |-> IF p = 0 THEN <<>> ELSE f[p - 1] \o parts[p]]

\* Files can be taken together, however many.
LEMMA TogetherExists == \A n \in Nat : \E f : Together(f, n)
<1> DEFINE S == {n \in Nat : \E f : Together(f, n)}
<1>1. 0 \in S
  <2>1. Together([p \in 0 .. 0 |-> <<>>], 0)
    BY DEF Together
  <2> QED  BY <2>1
<1>2. ASSUME NEW n \in Nat, n \in S PROVE n + 1 \in S
  <2>1. PICK f : Together(f, n)
    BY <1>2
  <2>2. PICK k \in Nat : k = n + 1 /\ k # 0 /\ k - 1 = n
    OBVIOUS
  <2>3. PICK last : last = f[n] \o parts[k]
    OBVIOUS
  <2> DEFINE g == [p \in 0 .. k |-> IF p = k THEN last ELSE f[p]]
  <2>4. /\ g = [p \in 0 .. k |-> g[p]] /\ g[k] = last
        /\ \A p \in 0 .. n : g[p] = f[p]
    BY ONLY <2>2, n \in Nat
  <2> HIDE DEF g
  <2>5. ASSUME NEW p \in 0 .. k
        PROVE  g[p] = IF p = 0 THEN <<>> ELSE g[p - 1] \o parts[p]
    <3>1. CASE p = k
      <4>1. p # 0 /\ p - 1 = n /\ g[p] = last
        BY <2>2, <2>4, <3>1
      <4>2. g[n] = f[n]
        BY <2>4
      <4> QED  BY ONLY <2>3, <3>1, <4>1, <4>2
    <3>2. CASE p \in 0 .. n
      <4>1. f[p] = IF p = 0 THEN <<>> ELSE f[p - 1] \o parts[p]
        BY <2>1, <3>2 DEF Together
      <4>2. p # 0 => p - 1 \in 0 .. n
        BY <3>2
      <4>3. g[p] = f[p] /\ (p # 0 => g[p - 1] = f[p - 1])
        BY <2>4, <3>2, <4>2
      <4> QED  BY ONLY <4>1, <4>3
    <3>3. p = k \/ p \in 0 .. n
      BY <2>2
    <3> QED  BY <3>1, <3>2, <3>3
  <2>6. Together(g, k)
    BY <2>4, <2>5 DEF Together
  <2> QED  BY <2>2, <2>6
<1> HIDE DEF S
<1>3. \A n \in Nat : n \in S
  BY <1>1, <1>2, EveryNumber
<1> QED  BY <1>3 DEF S

\* So Seen is what its definition says.
LEMMA SeenTogether == \E f : Together(f, MaxRecords) /\ Seen = f[MaxRecords]
<1> DEFINE upTo == CHOOSE f : f = [p \in 0 .. MaxRecords |-> IF p = 0 THEN <<>> ELSE f[p - 1] \o parts[p]]
<1>1. Seen = upTo[MaxRecords]
  BY DEF Seen
<1>2. \E f : Together(f, MaxRecords)
  BY TogetherExists, WriterBounds
<1>3. Together(upTo, MaxRecords)
  BY <1>2 DEF Together
<1> QED  BY <1>1, <1>3

\* Runs that follow one another are one run.
LEMMA BetweenJoins ==
    ASSUME NEW a \in Nat, NEW b \in Nat, NEW c \in Nat, a <= b, b <= c
    PROVE  Between(a, b) \o Between(b, c) = Between(a, c)
<1> DEFINE s == Between(a, b)  t == Between(b, c)  u == Between(a, c)
<1>1. /\ s \in Seq(Nat) /\ Len(s) = b - a /\ t \in Seq(Nat) /\ Len(t) = c - b
      /\ u \in Seq(Nat) /\ Len(u) = c - a
  <2>1. a <= c
    OBVIOUS
  <2>2. s \in Seq(Nat) /\ Len(s) = b - a
    BY BetweenIsSeq
  <2>3. t \in Seq(Nat) /\ Len(t) = c - b
    BY BetweenIsSeq
  <2>4. u \in Seq(Nat) /\ Len(u) = c - a
    BY <2>1, BetweenIsSeq
  <2> QED  BY <2>2, <2>3, <2>4
<1>2. /\ \A i \in 1 .. b - a : s[i] = a + i
      /\ \A i \in 1 .. c - b : t[i] = b + i
      /\ \A i \in 1 .. c - a : u[i] = a + i
  BY DEF Between
<1> HIDE DEF s, t, u
<1>3. s \o t \in Seq(Nat) /\ Len(s \o t) = c - a
  BY <1>1, ConcatProperties
<1>4. ASSUME NEW i \in 1 .. c - a PROVE (s \o t)[i] = u[i]
  <2>1. (s \o t)[i] = IF i <= b - a THEN s[i] ELSE t[i - (b - a)]
    BY <1>1, ConcatProperties
  <2> QED  BY <1>2, <2>1
<1>5. s \o t = u
  BY <1>1, <1>3, <1>4, SeqEqual
<1> QED  BY <1>5 DEF s, t, u

\* ShownTo(ends, n): files 1 to n are visible and no other.
ShownTo(ends, n) ==
    \A p \in PartNumbers : parts[p] = IF p <= n THEN Between(ends[p - 1], ends[p]) ELSE <<>>

\* The ends of parts rise with their numbers.
LEMMA EndsRise ==
    ASSUME NEW ends \in [Nat -> Nat], NEW n \in Nat, Ends(ends, n)
    PROVE  \A p \in 0 .. n : p <= ends[p] /\ ends[p] <= ends[n]
<1> DEFINE S == {d \in Nat : d <= n => ends[n - d] <= ends[n]}
<1>1. 0 \in S
  OBVIOUS
<1>2. ASSUME NEW d \in Nat, d \in S PROVE d + 1 \in S
  <2> SUFFICES ASSUME d + 1 <= n PROVE ends[n - (d + 1)] <= ends[n]
    OBVIOUS
  <2>1. n - d \in 1 .. n /\ n - d - 1 = n - (d + 1)
    OBVIOUS
  <2>2. ends[n - d - 1] < ends[n - d] /\ ends[n - d] <= ends[n]
    BY <1>2, <2>1 DEF Ends
  <2>3. ends[n - (d + 1)] \in Nat /\ ends[n - d] \in Nat /\ ends[n] \in Nat
    BY <2>1
  <2> QED  BY <2>1, <2>2, <2>3
<1> HIDE DEF S
<1>3. \A d \in Nat : d \in S
  BY <1>1, <1>2, EveryNumber
<1>4. ASSUME NEW p \in 0 .. n PROVE p <= ends[p] /\ ends[p] <= ends[n]
  <2>1. p <= ends[p]
    BY DEF Ends
  <2>2. n - p \in Nat /\ n - p \in S /\ n - (n - p) = p /\ n - p <= n
    BY <1>3
  <2>3. ends[n - (n - p)] <= ends[n]
    BY <2>2 DEF S
  <2> QED  BY <2>1, <2>2, <2>3
<1> QED  BY <1>4

\* What a reader sees of the first n parts: the records up to the end of the last.
LEMMA SeenShown ==
    ASSUME NEW ends \in [Nat -> Nat], NEW n \in Nat, n <= MaxRecords, Ends(ends, n),
           ShownTo(ends, n)
    PROVE  Seen = Between(0, ends[n])
<1>1. PICK f : Together(f, MaxRecords) /\ Seen = f[MaxRecords]
  BY SeenTogether
<1> DEFINE End(m) == ends[IF m <= n THEN m ELSE n]
           S == {m \in Nat : m <= MaxRecords => f[m] = Between(0, End(m))}
<1>2. MaxRecords \in Nat
  BY WriterBounds
<1>3. 0 \in S
  <2>1. f[0] = <<>>
    BY <1>1, <1>2 DEF Together
  <2>2. End(0) = 0
    BY DEF Ends
  <2>3. Between(0, 0) = <<>>
    BY BetweenEmpty
  <2> QED  BY <2>1, <2>2, <2>3
<1>4. ASSUME NEW m \in Nat, m \in S PROVE m + 1 \in S
  <2>1. PICK k \in Nat : k = m + 1 /\ k # 0 /\ k - 1 = m
    OBVIOUS
  <2>2. SUFFICES ASSUME k <= MaxRecords PROVE f[k] = Between(0, End(k))
    BY <2>1
  <2>3. k \in PartNumbers /\ f[m] = Between(0, End(m))
    BY <1>2, <1>4, <2>1, <2>2 DEF PartNumbers
  <2>4. f[k] = f[m] \o parts[k]
    <3>1. k \in 0 .. MaxRecords
      BY <1>2, <2>2
    <3>2. f[k] = IF k = 0 THEN <<>> ELSE f[k - 1] \o parts[k]
      BY <1>1, <3>1 DEF Together
    <3> QED  BY ONLY <2>1, <3>2
  <2>5. parts[k] = IF k <= n THEN Between(ends[k - 1], ends[k]) ELSE <<>>
    BY <2>3 DEF ShownTo
  <2>6. CASE k <= n
    <3>1. parts[k] = Between(ends[m], ends[k])
      BY ONLY <2>1, <2>5, <2>6
    <3>2. End(m) = ends[m] /\ End(k) = ends[k]
      BY <2>1, <2>6
    <3>3. ends[m] \in Nat /\ ends[k] \in Nat /\ ends[m] <= ends[k] /\ 0 <= ends[m]
      <4>1. k \in 1 .. n
        BY <2>1, <2>6
      <4>2. ends[k - 1] < ends[k] /\ ends[m] \in Nat /\ ends[k] \in Nat
        BY <4>1 DEF Ends
      <4> QED  BY <2>1, <4>2
    <3>4. PICK x \in Nat, y \in Nat : x = ends[m] /\ y = ends[k] /\ 0 <= x /\ x <= y
      BY <3>3
    <3>5. Between(0, x) \o Between(x, y) = Between(0, y)
      BY <3>4, BetweenJoins
    <3> HIDE DEF End
    <3> QED  BY ONLY <2>3, <2>4, <3>1, <3>2, <3>4, <3>5
  <2>7. CASE ~ (k <= n)
    <3>1. parts[k] = <<>>
      BY ONLY <2>5, <2>7
    <3>2. End(m) = ends[n] /\ End(k) = ends[n]
      <4>1. m <= n => m = n
        BY <2>1, <2>7
      <4> QED  BY <2>7, <4>1
    <3>3. f[m] \in Seq(Nat)
      <4>1. ends[n] \in Nat /\ 0 <= ends[n]
        OBVIOUS
      <4>2. Between(0, ends[n]) \in Seq(Nat)
        BY <4>1, BetweenIsSeq
      <4> QED  BY <2>3, <3>2, <4>2
    <3>4. f[m] \o <<>> = f[m]
      BY <3>3, ConcatEmptySeq
    <3> HIDE DEF End
    <3> QED  BY ONLY <2>3, <2>4, <3>1, <3>2, <3>4
  <2> QED  BY <2>6, <2>7
<1> HIDE DEF S, End
<1>5. MaxRecords \in S
  BY <1>2, <1>3, <1>4, EveryNumber
<1>6. f[MaxRecords] = Between(0, End(MaxRecords))
  BY <1>2, <1>5 DEF S
<1>7. End(MaxRecords) = ends[n]
  <2>1. MaxRecords <= n => MaxRecords = n
    BY <1>2
  <2> QED  BY <2>1 DEF End
<1> QED  BY <1>1, <1>6, <1>7

\* What a reader sees: the parts that left the queue, and perhaps the first that is queued.
SeenFrom(ends, n) ==
    /\ Chain(ends)
    /\ n \in Nat /\ Published <= n /\ n <= lastPart
    /\ n = Published \/ (pending # <<>> /\ n = Published + 1)
    /\ ShownTo(ends, n)

\* There is no other file.
LEMMA ShownFiles ==
    ASSUME WriterInv, NEW ends \in [Nat -> Nat], Chain(ends)
    PROVE  \E n \in Nat : SeenFrom(ends, n)
<1>1. QueueInv
  BY QueuePart
<1>2. PICK q \in Nat, k \in Nat : Published = q /\ Len(pending) = k /\ lastPart = q + k
  <2>1. Published \in Nat /\ Len(pending) \in Nat /\ lastPart = Published + Len(pending)
    BY <1>1 DEF QueueInv, QueueInOrder, Published
  <2> QED  BY <2>1
<1>3. k = 0 <=> pending = <<>>
  BY <1>1, <1>2, EmptySeq DEF QueueInv
<1>4. /\ \A p \in 1 .. q : parts[p] = Between(ends[p - 1], ends[p])
      /\ \A i \in 1 .. k : pending[i].records = Between(ends[q + i - 1], ends[q + i])
  BY <1>2 DEF Chain
<1>5. \A p \in PartNumbers : p > q =>
          parts[p] = <<>> \/ (k # 0 /\ p = q + 1 /\ parts[p] = pending[1].records)
  BY <1>1, <1>2, <1>3 DEF QueueInv, AheadHidden
<1>6. PartNumbers \subseteq Nat \ {0}
  BY WriterBounds DEF PartNumbers
<1>7. CASE k # 0 /\ q + 1 \in PartNumbers /\ parts[q + 1] = pending[1].records
  <2>1. parts[q + 1] = Between(ends[q], ends[q + 1])
    BY <1>4, <1>7
  <2>2. ASSUME NEW p \in PartNumbers
        PROVE  parts[p] = IF p <= q + 1 THEN Between(ends[p - 1], ends[p]) ELSE <<>>
    <3>1. CASE p = q + 1
      <4>1. p - 1 = q /\ p <= q + 1
        BY <3>1
      <4> QED  BY <2>1, <3>1, <4>1
    <3>2. CASE p \in 1 .. q
      <4>1. parts[p] = Between(ends[p - 1], ends[p]) /\ p <= q + 1
        BY <1>4, <3>2
      <4> QED  BY <4>1
    <3>3. CASE p > q + 1
      <4>1. p > q /\ ~ (p = q + 1) /\ ~ (p <= q + 1)
        BY <1>6, <3>3
      <4> QED  BY <1>5, <4>1
    <3> QED  BY <1>6, <3>1, <3>2, <3>3
  <2>3. PICK m \in Nat : m = q + 1
    OBVIOUS
  <2>4. ShownTo(ends, m)
    BY <2>2, <2>3 DEF ShownTo
  <2>5. SeenFrom(ends, m)
    BY <1>2, <1>3, <1>7, <2>3, <2>4 DEF SeenFrom
  <2> QED  BY <2>5
<1>8. CASE ~ (k # 0 /\ q + 1 \in PartNumbers /\ parts[q + 1] = pending[1].records)
  <2>1. ASSUME NEW p \in PartNumbers
        PROVE  parts[p] = IF p <= q THEN Between(ends[p - 1], ends[p]) ELSE <<>>
    <3>1. CASE p \in 1 .. q
      <4>1. parts[p] = Between(ends[p - 1], ends[p]) /\ p <= q
        BY <1>4, <3>1
      <4> QED  BY <4>1
    <3>2. CASE p > q
      <4>1. ~ (p <= q) /\ parts[p] = <<>>
        BY <1>5, <1>6, <1>8, <3>2
      <4> QED  BY <4>1
    <3> QED  BY <1>6, <3>1, <3>2
  <2> QED  BY <1>2, <2>1 DEF SeenFrom, ShownTo
<1> QED  BY <1>7, <1>8

\* n parts that follow one another hold at most n segments' worth of records.
LEMMA PartsBounded ==
    ASSUME NEW e \in [Nat -> Nat], NEW n \in Nat, Ends(e, n), NEW q \in Nat, NEW k \in Nat,
           q + k <= n
    PROVE  e[q + k] <= e[q] + k * MaxSegment
<1> DEFINE S == {d \in Nat : q + d <= n => e[q + d] <= e[q] + d * MaxSegment}
<1>1. 0 \in S
  BY WriterBounds
<1>2. ASSUME NEW d \in Nat, d \in S PROVE d + 1 \in S
  <2> SUFFICES ASSUME q + (d + 1) <= n PROVE e[q + (d + 1)] <= e[q] + (d + 1) * MaxSegment
    OBVIOUS
  <2>1. PICK m \in Nat, x \in Nat : m = MaxSegment /\ x = d * m /\ (d + 1) * m = x + m
    <3>1. MaxSegment \in Nat
      BY WriterBounds
    <3>2. d * MaxSegment \in Nat /\ (d + 1) * MaxSegment = d * MaxSegment + MaxSegment
      BY <3>1
    <3> QED  BY <3>1, <3>2
  <2>2. e[q + d] <= e[q] + x
    BY <1>2, <2>1
  <2>3. PICK p \in 1 .. n : p = q + (d + 1) /\ p - 1 = q + d
    OBVIOUS
  <2>4. e[p] <= e[p - 1] + m
    BY <2>1, <2>3 DEF Ends
  <2>5. e[p] \in Nat /\ e[p - 1] \in Nat /\ e[q] \in Nat
    BY <2>3
  <2> QED  BY <2>1, <2>2, <2>3, <2>4, <2>5
<1> HIDE DEF S
<1>3. k \in S
  BY <1>1, <1>2, EveryNumber
<1> QED  BY <1>3 DEF S

\* What a reader sees is the records up to the end of the last visible part.
LEMMA SeenIsPrefix ==
    ASSUME WriterInv, NEW ends \in [Nat -> Nat], NEW n \in Nat, SeenFrom(ends, n)
    PROVE  /\ Seen = Log!FirstRecords(ends[n]) /\ Len(Seen) = ends[n]
           /\ ends[n] <= accepted
<1>1. accepted \in Nat /\ lastPart \in Nat /\ lastPart <= accepted /\ accepted <= MaxRecords
      /\ MaxRecords \in Nat
  BY WriterBounds DEF WriterInv, WriterTypeOK
<1>2. n <= MaxRecords /\ n <= lastPart /\ ShownTo(ends, n) /\ Chain(ends)
  BY <1>1 DEF SeenFrom
<1>3. Ends(ends, n) /\ ends[n] <= accepted
  <2>1. /\ ends[0] = 0
        /\ \A p \in 1 .. lastPart :
              ends[p - 1] < ends[p] /\ p <= ends[p] /\ ends[p] <= ends[p - 1] + MaxSegment
        /\ \A p \in 0 .. lastPart : ends[p] <= accepted
    BY <1>2 DEF Chain, Ends
  <2>2. n \in 0 .. lastPart /\ \A p \in 1 .. n : p \in 1 .. lastPart
    BY <1>1, <1>2
  <2> QED  BY <2>1, <2>2 DEF Ends
<1>4. Seen = Between(0, ends[n])
  BY <1>2, <1>3, SeenShown
<1>5. ends[n] \in Nat /\ 0 <= ends[n]
  OBVIOUS
<1>6. Len(Between(0, ends[n])) = ends[n]
  BY <1>5, BetweenIsSeq
<1>7. Between(0, ends[n]) = Log!FirstRecords(ends[n])
  BY <1>5 DEF Between, Log!FirstRecords
<1> QED  BY <1>3, <1>4, <1>6, <1>7

\* What readers see: the first n parts, whole, consecutive from record 1 on; with the
\* buffer at most MaxPending segments are missing, and a closed writer misses none.
VisibleIsPrefix ==
    \E n \in 0 .. lastPart, ends \in [Nat -> Nat] :
        /\ Ends(ends, lastPart)
        /\ \A p \in PartNumbers :
               parts[p] = IF p <= n THEN Between(ends[p - 1], ends[p]) ELSE <<>>
        /\ ends[n] <= accepted /\ ends[lastPart] <= accepted
        /\ lastPart <= n + MaxPending
        /\ lastPart = n + MaxPending => ends[lastPart] = accepted
        /\ accepted < ends[lastPart] + MaxSegment
        /\ lifecycle = "closed" => n = lastPart /\ ends[n] = accepted

\* The invariant holds in every reachable state of every writer.
\* (append, flush, aclose, _writer_loop, _write_segment.)
THEOREM WriterCorrect == WriterSpec => []WriterInv
BY WriterStartsEmpty, WriterInductive, PTL DEF WriterSpec

\* For every run of the writer: the visible files are an initial piece of the accepted
\* records, and a successful close leaves nothing behind. (append, aclose, _writer_loop.)
THEOREM VisibleFilesArePrefix == WriterSpec => []VisibleIsPrefix
<1>1. WriterInv => VisibleIsPrefix
  <2> SUFFICES ASSUME WriterInv PROVE VisibleIsPrefix
    OBVIOUS
  <2>1. QueueInv /\ WriterTypeOK /\ (lifecycle = "closed" => pending = <<>> /\ buffer = <<>>)
    BY QueuePart DEF WriterInv
  <2>2. PICK ends \in [Nat -> Nat] : Chain(ends)
    BY <2>1 DEF QueueInv
  <2>3. PICK n \in Nat : SeenFrom(ends, n)
    BY <2>2, ShownFiles
  <2>4. PICK q \in Nat, k \in Nat :
            Published = q /\ Len(pending) = k /\ lastPart = q + k /\ k <= MaxPending
    <3>1. Published \in Nat /\ Len(pending) \in Nat /\ lastPart = Published + Len(pending)
          /\ Len(pending) <= MaxPending
      BY <2>1 DEF QueueInv, QueueInOrder, Published
    <3> QED  BY <3>1
  <2>5. /\ Ends(ends, lastPart) /\ ShownTo(ends, n) /\ n \in 0 .. lastPart /\ q <= n
        /\ n = q \/ (pending # <<>> /\ n = q + 1)
        /\ \A p \in 0 .. lastPart : ends[p] <= accepted
        /\ accepted < ends[lastPart] + MaxSegment /\ buffer = Between(ends[lastPart], accepted)
    BY <2>3, <2>4 DEF SeenFrom, Chain
  <2>6. ends[n] <= accepted /\ ends[lastPart] <= accepted /\ lastPart <= n + MaxPending
    BY <2>4, <2>5, WriterBounds
  <2>7. buffer = <<>> => ends[lastPart] = accepted
    <3>1. ends[lastPart] \in Nat /\ accepted \in Nat
      BY <2>1 DEF QueueInv
    <3> QED  BY <2>5, <2>6, <3>1, BetweenEmpty
  <2>8. lastPart = n + MaxPending => ends[lastPart] = accepted
    <3>1. lastPart = n + MaxPending => k = MaxPending
      BY <2>4, <2>5, WriterBounds
    <3> QED  BY <2>1, <2>4, <2>7, <3>1 DEF QueueInv, QueueInOrder
  <2>9. lifecycle = "closed" => n = lastPart /\ ends[n] = accepted
    <3>1. pending = <<>> => k = 0 /\ n = lastPart
      BY <2>4, <2>5, EmptySeq
    <3> QED  BY <2>1, <2>7, <3>1
  <2> QED  BY <2>5, <2>6, <2>8, <2>9 DEF VisibleIsPrefix, ShownTo
<1> QED  BY <1>1, WriterCorrect, PTL

\* A visible file keeps its records: no retry, crash or later segment rewrites it.
\* (_write_segment, aclose.)
VisibleStays ==
    \A p \in PartNumbers : parts[p] # <<>> => parts'[p] = parts[p]

\* For every step of every writer: what is visible stays as it is.
\* (_write_segment, aclose.)
THEOREM VisibleFilesStay == WriterSpec => [][VisibleStays]_writerVars
<1>1. WriterInv /\ [WriterNext]_writerVars => [VisibleStays]_writerVars
  <2> SUFFICES ASSUME WriterInv, WriterNext PROVE VisibleStays
    BY DEF VisibleStays
  <2>1. CASE parts' = parts
    BY <2>1 DEF VisibleStays
  <2>2. CASE ThreadShows
    <3>1. QueueInv /\ ThreadOnHead /\ WriterTypeOK
      BY QueuePart DEF WriterInv
    <3>2. thread = "writing" /\ parts' = [parts EXCEPT ![inflight] = Head(pending).records]
      BY <2>2 DEF ThreadShows
    <3>3. pending # <<>> /\ inflight = Published + 1 /\ inflight \in PartNumbers
          /\ Published \in Nat
      BY <3>1, <3>2, InflightNumber DEF ThreadOnHead
    <3>4. Head(pending) = pending[1]
      BY <3>1, <3>3, EmptySeq DEF QueueInv
    <3>5. parts[inflight] = <<>> \/ parts[inflight] = pending[1].records
      BY <3>1, <3>3 DEF QueueInv, AheadHidden
    <3> QED  BY <3>1, <3>2, <3>3, <3>4, <3>5 DEF VisibleStays, WriterTypeOK
  <2>3. parts' = parts \/ ThreadShows
    BY DEF WriterNext, AppendWaits, AppendRaises, AppendTakes, Flush, WaitToSettle,
           FlushReturns, Close, CloseTask, CloseRetries, CloseEnds, WriterTask, WriterLeaves,
           WriterStarts, Commit, Thread, ThreadSyncs, ThreadFails, WriterDies, disk
  <2> QED  BY <2>1, <2>2, <2>3
<1> QED  BY <1>1, WriterCorrect, PTL DEF WriterSpec

-----------------------------------------------------------------------------
(* The writer is a log.                                                    *)

\* After a close nothing is written: no thread is at work, the queue is empty or its
\* writer stopped on an error; and the close task runs only while the writer closes.
ClosedIsDone ==
    /\ lifecycle \in {"closed", "failed"} => inflight = NoPart /\ (failed \/ pending = <<>>)
    /\ Alive /\ place["closer"] # "idle" => lifecycle = "closing"

LogInv == WriterInv /\ ClosedIsDone

LEMMA ClosedStaysDone ==
    ASSUME WriterInv, ClosedIsDone, [WriterNext]_writerVars
    PROVE  ClosedIsDone'
<1>1. WriterTypeOK /\ ThreadOnHead
  BY DEF WriterInv
<1>2. "closer" \notin Appenders /\ "closer" # "flusher"
  BY AppendersAssumption
<1>3. place \in [Callers -> {"idle", "append", "settle", "first", "second", "last"}]
      /\ "closer" \in Callers /\ "flusher" \in Callers /\ Appenders \subseteq Callers
  BY <1>1 DEF WriterTypeOK, Callers
<1>4. ASSUME NEW c \in Callers, NEW x, c # "closer", place' = [place EXCEPT ![c] = x]
      PROVE  place'["closer"] = place["closer"]
  BY <1>3, <1>4
<1> USE DEF ClosedIsDone, Alive
<1>5. CASE UNCHANGED writerVars
  BY <1>5 DEF writerVars
<1>6. ASSUME NEW a \in Appenders, AppendWaits(a) \/ AppendRaises(a) \/ AppendTakes(a)
      PROVE  ClosedIsDone'
  <2>1. place'["closer"] = place["closer"]
    BY <1>2, <1>3, <1>4, <1>6 DEF AppendWaits, AppendRaises, AppendTakes
  <2>2. CASE AppendWaits(a) \/ AppendRaises(a)
    BY <2>1, <2>2 DEF AppendWaits, AppendRaises, task
  <2>3. CASE AppendTakes(a)
    BY <2>1, <2>3 DEF AppendTakes, task
  <2> QED  BY <1>6, <2>2, <2>3
<1>7. CASE Flush
  <2>1. place'["closer"] = place["closer"]
    BY <1>2, <1>3, <1>4, <1>7 DEF Flush
  <2> QED  BY <1>7, <2>1 DEF Flush, task
<1>8. CASE Close
  BY <1>8 DEF Close
<1>9. CASE FlushReturns
  <2>1. place'["closer"] = place["closer"]
    BY <1>2, <1>3, <1>4, <1>9 DEF FlushReturns
  <2> QED  BY <1>9, <2>1 DEF FlushReturns, task
<1>10. CASE WaitToSettle("flusher") \/ WaitToSettle("closer")
  BY <1>10 DEF WaitToSettle, task
<1>11. CASE CloseRetries
  BY <1>11 DEF CloseRetries, Awake
<1>12. CASE CloseEnds
  <2>1. place'["closer"] = "idle"
    BY <1>3, <1>12 DEF CloseEnds
  <2>2. inflight' = NoPart /\ (failed' \/ pending' = <<>>)
    BY <1>12 DEF CloseEnds, Settled, task
  <2> QED  BY <2>1, <2>2
<1>13. CASE WriterLeaves \/ WriterStarts
  BY <1>13 DEF WriterLeaves, WriterStarts, task
<1>14. CASE Commit
  <2>1. inflight # NoPart
    BY <1>1, <1>14 DEF Commit, ThreadOnHead
  <2> QED  BY <1>14, <2>1 DEF Commit
<1>15. CASE ThreadShows \/ ThreadSyncs \/ ThreadFails
  BY <1>15 DEF ThreadShows, ThreadSyncs, ThreadFails
<1>16. CASE WriterDies
  BY <1>16 DEF WriterDies
<1> QED
  BY <1>5, <1>6, <1>7, <1>8, <1>9, <1>10, <1>11, <1>12, <1>13, <1>14, <1>15, <1>16
     DEF WriterNext, CloseTask, WriterTask, Thread

\* Of the steps of the writer, those that leave the log as it is.
LEMMA LogKept ==
    ASSUME parts' = parts, UNCHANGED <<accepted, lifecycle>>
    PROVE  UNCHANGED Log!logVars
<1>1. Seen' = Seen
  BY DEF Seen
<1> QED  BY <1>1 DEF Log!logVars

\* There is always a description of what a reader sees.
LEMMA SeenSomehow ==
    ASSUME WriterInv
    PROVE  \E ends \in [Nat -> Nat], n \in Nat : SeenFrom(ends, n)
<1>1. PICK ends \in [Nat -> Nat] : Chain(ends)
  BY DEF WriterInv
<1> QED  BY <1>1, ShownFiles

\* A record is accepted only while fewer than MaxPending segments' worth are unseen.
LEMMA AppendAccepts ==
    ASSUME WriterInv, NEW a \in Appenders, AppendTakes(a)
    PROVE  Log!Accept
<1>1. PICK ends \in [Nat -> Nat], n \in Nat : SeenFrom(ends, n)
  BY SeenSomehow
<1>2. QueueInv
  BY QueuePart
<1>3. PICK q \in Nat, k \in Nat, m \in Nat, r \in Nat :
          /\ Published = q /\ Len(pending) = k /\ lastPart = q + k
          /\ m = MaxSegment /\ r = MaxPending /\ k < r
  <2>1. Published \in Nat /\ Len(pending) \in Nat /\ lastPart = Published + Len(pending)
    BY <1>2 DEF QueueInv, QueueInOrder, Published
  <2>2. Len(pending) < MaxPending /\ MaxSegment \in Nat /\ MaxPending \in Nat
    BY WriterBounds DEF AppendTakes, Room
  <2> QED  BY <2>1, <2>2
<1>4. /\ Ends(ends, q + k) /\ accepted < ends[q + k] + m /\ q <= n /\ n <= q + k
  BY <1>1, <1>3 DEF SeenFrom, Chain
<1>5. ends[q + k] <= ends[n] + (q + k - n) * m
  <2>1. PICK d \in Nat : d = q + k - n /\ n + d = q + k
    BY <1>4
  <2>2. PICK w \in Nat : w = q + k /\ n + d <= w /\ n + d = w
    BY <2>1
  <2>3. Ends(ends, w)
    BY <1>4, <2>2
  <2>4. ends[n + d] <= ends[n] + d * MaxSegment
    BY <2>2, <2>3, PartsBounded
  <2> QED  BY <1>3, <2>1, <2>4
<1>6. accepted < ends[n] + r * m
  <2>1. PICK d \in Nat : d = q + k - n /\ d + 1 <= r
    BY <1>3, <1>4
  <2>2. PICK x \in Nat, y \in Nat, z \in Nat :
            x = d * m /\ y = (d + 1) * m /\ z = r * m
    OBVIOUS
  <2>3. y = x + m
    BY <2>2
  <2>4. y <= z
    <3>1. \A u, v, s \in Nat : u <= v => u * s <= v * s
      OBVIOUS
    <3> QED  BY <2>1, <2>2, <3>1
  <2>5. ends[q + k] <= ends[n] + x
    <3>1. (q + k - n) * m = x
      BY ONLY <2>1, <2>2
    <3> QED  BY ONLY <1>5, <3>1
  <2>6. accepted \in Nat /\ ends[q + k] \in Nat /\ ends[n] \in Nat
    <3>1. accepted \in Nat
      BY <1>2 DEF QueueInv
    <3>2. q + k \in Nat
      OBVIOUS
    <3> QED  BY <3>1, <3>2
  <2> QED  BY <1>4, <2>2, <2>3, <2>4, <2>5, <2>6
<1>7. Len(Seen) = ends[n]
  BY <1>1, SeenIsPrefix
<1>8. lifecycle = "open" /\ accepted' = accepted + 1 /\ UNCHANGED <<parts, lifecycle>>
  BY DEF AppendTakes, disk
<1>9. Seen' = Seen
  BY <1>8 DEF Seen
<1> QED  BY <1>3, <1>6, <1>7, <1>8, <1>9 DEF Log!Accept

\* What a reader of the visible files up to n sees, whatever the files are.
SeenRight ==
    \A ends \in [Nat -> Nat], n \in Nat :
        n <= MaxRecords /\ Ends(ends, n) /\ ShownTo(ends, n) => Seen = Log!FirstRecords(ends[n])

LEMMA SeenIsRight == SeenRight
<1> SUFFICES ASSUME NEW ends \in [Nat -> Nat], NEW n \in Nat,
                    n <= MaxRecords, Ends(ends, n), ShownTo(ends, n)
             PROVE  Seen = Log!FirstRecords(ends[n])
  BY DEF SeenRight
<1>1. Seen = Between(0, ends[n])
  BY SeenShown
<1>2. ends[n] \in Nat
  OBVIOUS
<1> QED  BY <1>1, <1>2 DEF Between, Log!FirstRecords

\* The file of a segment shows the records that follow those that are visible; a retry of
\* one that is visible shows nothing new.
LEMMA FileShows ==
    ASSUME LogInv, WriterInv', ThreadShows
    PROVE  Log!Show \/ UNCHANGED Log!logVars
<1>1. WriterInv /\ QueueInv /\ ThreadOnHead /\ WriterTypeOK /\ ClosedIsDone
  BY QueuePart DEF LogInv, WriterInv
<1>2. /\ thread = "writing" /\ parts' = [parts EXCEPT ![inflight] = Head(pending).records]
      /\ UNCHANGED <<accepted, lifecycle, pending, lastPart>> /\ Alive
  BY DEF ThreadShows
<1>3. pending # <<>> /\ inflight = Published + 1 /\ inflight \in PartNumbers /\ inflight # NoPart
      /\ Published \in Nat
  BY <1>1, <1>2, InflightNumber DEF ThreadOnHead
<1>4. lifecycle \in {"open", "closing"}
  BY <1>1, <1>2, <1>3 DEF ClosedIsDone, WriterTypeOK, Alive
<1>5. PICK ends \in [Nat -> Nat], n \in Nat : SeenFrom(ends, n)
  BY <1>1, SeenSomehow
<1>6. PICK q \in Nat, k \in Nat : /\ Published = q /\ lastPart = q + k + 1 /\ Len(pending) = k + 1
                                /\ q + 1 <= MaxRecords
  <2>1. Len(pending) \in Nat \ {0} /\ lastPart = Published + Len(pending)
    BY <1>1, <1>3, EmptySeq DEF QueueInv, QueueInOrder, Published
  <2>2. Published + 1 <= MaxRecords
    BY <1>3, WriterBounds DEF PartNumbers
  <2>3. PICK q \in Nat, l \in Nat \ {0} : Published = q /\ Len(pending) = l /\ lastPart = q + l
    BY <1>3, <2>1
  <2>4. l - 1 \in Nat /\ l = (l - 1) + 1 /\ lastPart = q + (l - 1) + 1 /\ q + 1 <= MaxRecords
    BY <2>2, <2>3
  <2> QED  BY <2>3, <2>4
<1>7. Head(pending) = pending[1] /\ pending[1].records = Between(ends[q], ends[q + 1])
  <2>1. Head(pending) = pending[1]
    BY <1>1, <1>3, EmptySeq DEF QueueInv
  <2>2. pending[1].records = Between(ends[q + 1 - 1], ends[q + 1])
    BY <1>5, <1>6 DEF SeenFrom, Chain
  <2> QED  BY <2>1, <2>2
<1>8. /\ parts'[q + 1] = Between(ends[q], ends[q + 1])
      /\ \A p \in PartNumbers : p # q + 1 => parts'[p] = parts[p]
  BY <1>1, <1>2, <1>3, <1>6, <1>7 DEF WriterTypeOK
<1>9. /\ ShownTo(ends, n) /\ n \in {q, q + 1}
      /\ Ends(ends, lastPart) /\ \A p \in 0 .. lastPart : ends[p] <= accepted
  BY <1>5, <1>6 DEF SeenFrom, Chain
<1>10. CASE n = q + 1
  <2>1. parts[q + 1] = Between(ends[q], ends[q + 1])
    <3>1. n \in PartNumbers /\ n - 1 = q /\ n <= n
      BY <1>3, <1>6, <1>10
    <3>2. parts[n] = Between(ends[n - 1], ends[n])
      BY <1>9, <3>1 DEF ShownTo
    <3> QED  BY ONLY <1>10, <3>1, <3>2
  <2>2. \A p \in PartNumbers : parts'[p] = parts[p]
    BY <1>8, <2>1
  <2>3. parts \in [PartNumbers -> Seq(Nat)] /\ parts' \in [PartNumbers -> Seq(Nat)]
    BY <1>1 DEF WriterTypeOK, WriterInv
  <2>4. parts' = parts
    BY <2>2, <2>3
  <2> QED  BY <1>2, <2>4, LogKept
<1>11. CASE n = q
  <2>1. PICK m \in Nat : m = q + 1 /\ m - 1 = q /\ m <= MaxRecords /\ m \in 1 .. lastPart
    BY <1>6
  <2>2. ShownTo(ends, m)'
    <3> SUFFICES ASSUME NEW p \in PartNumbers
                 PROVE  parts'[p] = IF p <= m THEN Between(ends[p - 1], ends[p]) ELSE <<>>
      BY DEF ShownTo, Between
    <3>1. parts[p] = IF p <= q THEN Between(ends[p - 1], ends[p]) ELSE <<>>
      BY <1>9, <1>11 DEF ShownTo
    <3>2. CASE p = m
      <4>1. p <= m /\ p - 1 = q
        BY <2>1, <3>2
      <4> QED  BY <1>8, <2>1, <3>2, <4>1
    <3>3. CASE p # m
      <4>1. parts'[p] = parts[p] /\ (p <= m <=> p <= q)
        BY <1>8, <2>1, <3>3, WriterBounds DEF PartNumbers
      <4> QED  BY <3>1, <4>1
    <3> QED  BY <3>2, <3>3
  <2>3. Ends(ends, m)
    <3>1. \A p \in 1 .. m : p \in 1 .. lastPart
      BY <1>6, <2>1
    <3> QED  BY <1>9, <3>1 DEF Ends
  <2>4. Seen' = Log!FirstRecords(ends[m])
    <3>1. SeenRight'
      BY SeenIsRight, PTL
    <3>2. Ends(ends, m)'
      BY <2>3 DEF Ends
    <3>3. (m <= MaxRecords /\ Ends(ends, m) /\ ShownTo(ends, m) => Seen = Log!FirstRecords(ends[m]))'
      BY <3>1 DEF SeenRight
    <3> QED  BY <2>1, <2>2, <3>2, <3>3
  <2>5. Len(Seen) = ends[q] /\ ends[m] <= accepted /\ ends[q] < ends[m]
    BY <1>1, <1>5, <1>9, <1>11, <2>1, SeenIsPrefix DEF Ends
  <2>6. ends[m] \in Len(Seen) + 1 .. accepted
    <3>1. ends[m] \in Nat /\ ends[q] \in Nat /\ accepted \in Nat
      BY <1>1 DEF QueueInv
    <3> QED  BY <2>5, <3>1
  <2> QED  BY <1>2, <1>4, <2>4, <2>6 DEF Log!Show
<1> QED  BY <1>9, <1>10, <1>11

\* A successful close leaves every record visible.
LEMMA CloseShowsAll ==
    ASSUME WriterInv, pending = <<>>, buffer = <<>>
    PROVE  Seen = Log!FirstRecords(accepted)
<1>1. QueueInv
  BY QueuePart
<1>2. PICK ends \in [Nat -> Nat], n \in Nat : SeenFrom(ends, n)
  BY SeenSomehow
<1>3. n = lastPart
  <2>1. Len(pending) = 0
    BY EmptySeq
  <2>2. Published = lastPart
    BY <1>1, <2>1 DEF Published, QueueInv
  <2> QED  BY <1>2, <2>2 DEF SeenFrom
<1>4. ends[lastPart] \in Nat /\ ends[lastPart] <= accepted /\ Between(ends[lastPart], accepted) = <<>>
  <2>1. lastPart \in 0 .. lastPart
    BY <1>1 DEF QueueInv
  <2> QED  BY <1>1, <1>2, <2>1 DEF SeenFrom, Chain, QueueInv
<1>5. ends[lastPart] = accepted
  BY <1>1, <1>4, BetweenEmpty DEF QueueInv
<1>6. Seen = Log!FirstRecords(ends[n])
  BY <1>2, SeenIsPrefix
<1> QED  BY <1>3, <1>5, <1>6

\* The end of a close is the end of the log's.
LEMMA CloseEndsLog ==
    ASSUME LogInv, CloseEnds
    PROVE  Log!EndClose
<1>1. lifecycle = "closing"
  BY DEF LogInv, ClosedIsDone, CloseEnds, Awake
<1>2. Seen' = Seen /\ accepted' = accepted
  BY DEF CloseEnds, disk, Seen
<1>3. CASE failed \/ pending # <<>> \/ buffer # <<>>
  BY <1>1, <1>2, <1>3 DEF CloseEnds, Log!EndClose
<1>4. CASE ~ (failed \/ pending # <<>> \/ buffer # <<>>)
  <2>1. Seen = Log!FirstRecords(accepted)
    BY <1>4, CloseShowsAll DEF LogInv
  <2> QED  BY <1>1, <1>2, <1>4, <2>1 DEF CloseEnds, Log!EndClose
<1> QED  BY <1>3, <1>4

\* Every step of the writer is one of the log, or leaves the log as it is.
LEMMA LogStep ==
    ASSUME LogInv, [WriterNext]_writerVars
    PROVE  [Log!LogNext]_Log!logVars
<1>1. CASE UNCHANGED writerVars
  BY <1>1, LogKept DEF writerVars
<1>2. ASSUME NEW a \in Appenders, AppendTakes(a)
      PROVE  Log!LogNext
  BY <1>2, AppendAccepts DEF LogInv, Log!LogNext
<1>3. CASE Close
  <2>1. Seen' = Seen
    BY <1>3 DEF Close, disk, Seen
  <2>2. Log!BeginClose
    BY <1>3, <2>1 DEF Close, Log!BeginClose
  <2> QED  BY <2>2 DEF Log!LogNext
<1>4. CASE CloseEnds
  BY <1>4, CloseEndsLog DEF Log!LogNext
<1>5. CASE ThreadShows
  <2>1. WriterInv'
    BY WriterInductive DEF LogInv
  <2> QED  BY <1>5, <2>1, FileShows DEF Log!LogNext
<1>6. CASE WriterDies
  <2>1. parts' = parts /\ accepted' = accepted /\ lifecycle' = "crashed" /\ lifecycle # "crashed"
    BY <1>6 DEF WriterDies, Alive
  <2>2. Seen' = Seen
    BY <2>1 DEF Seen
  <2>3. Log!Crash
    BY <2>1, <2>2 DEF Log!Crash
  <2> QED  BY <2>3 DEF Log!LogNext
<1>7. ASSUME UNCHANGED <<parts, accepted, lifecycle>>
      PROVE  UNCHANGED Log!logVars
  BY <1>7, LogKept
<1>8. ASSUME NEW a \in Appenders, AppendWaits(a) \/ AppendRaises(a)
      PROVE  UNCHANGED <<parts, accepted, lifecycle>>
  BY <1>8 DEF AppendWaits, AppendRaises, disk
<1>9. CASE Flush \/ WaitToSettle("flusher") \/ WaitToSettle("closer") \/ FlushReturns
  <2>1. UNCHANGED <<parts, accepted, lifecycle>>
    BY <1>9 DEF Flush, WaitToSettle, FlushReturns, disk
  <2> QED  BY <1>7, <2>1
<1>10. CASE CloseRetries \/ WriterLeaves \/ WriterStarts \/ Commit \/ ThreadSyncs \/ ThreadFails
  <2>1. UNCHANGED <<parts, accepted, lifecycle>>
    BY <1>10 DEF CloseRetries, WriterLeaves, WriterStarts, Commit, ThreadSyncs, ThreadFails, disk
  <2> QED  BY <1>7, <2>1
<1> QED
  BY <1>1, <1>2, <1>3, <1>4, <1>5, <1>6, <1>7, <1>8, <1>9, <1>10
     DEF WriterNext, CloseTask, WriterTask, Thread

\* The writer implements the log its capture expects, but for the liveness of its close:
\* what is visible is a prefix of the accepted records that only grows, at most
\* MaxPending segments are missing, and only a close that shows every record succeeds.
\* (append, flush, aclose, _writer_loop, _write_segment.)
THEOREM ImplementsLog == WriterSpec => Log!SafeLogSpec
<1>1. WriterInit => LogInv
  BY WriterStartsEmpty DEF LogInv, ClosedIsDone, WriterInit, Callers
<1>2. LogInv /\ [WriterNext]_writerVars => LogInv'
  BY WriterInductive, ClosedStaysDone DEF LogInv
<1>3. WriterInit => Log!LogInit
  <2> SUFFICES ASSUME WriterInit PROVE Log!LogInit
    OBVIOUS
  <2>1. WriterInv /\ pending = <<>> /\ buffer = <<>> /\ accepted = 0 /\ lifecycle = "open"
    BY WriterStartsEmpty DEF WriterInit
  <2>2. Seen = Log!FirstRecords(0)
    BY <2>1, CloseShowsAll
  <2>3. Log!FirstRecords(0) = <<>>
    BY DEF Log!FirstRecords
  <2> QED  BY <2>1, <2>2, <2>3 DEF Log!LogInit
<1> QED  BY <1>1, <1>2, <1>3, LogStep, PTL DEF WriterSpec, Log!SafeLogSpec
=============================================================================
