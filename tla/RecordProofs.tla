----------------------------- MODULE RecordProofs -----------------------------
(***************************************************************************)
(* Proofs about the record writers, for every number of goroutines, every  *)
(* profile and every sequence of calls: their limits, the nonces of their  *)
(* records, that the records of a call stand together and carry all of it, *)
(* that no packet within the WriterMTU is refused, and that a pause resets *)
(* the limits.                                                             *)
(***************************************************************************)
EXTENDS RecordProperties, SequenceTheorems, WellFoundedInduction, TLAPS

-----------------------------------------------------------------------------
(***************************************************************************)
(* Payload limits.                                                         *)
(***************************************************************************)

\* The pacing fields of a writer stay within a record's length field, and its limit is
\* a whole frame once it has grown.
WindowOK(w) ==
  /\ w \in Window
  /\ w.next = 0 \/ w.next \in Step .. MaxPayload
  /\ w.stream \in 0 .. MaxPayload /\ w.room \in 0 .. Batch
  /\ w.room > 0 => w.stream > 0
  /\ w.chunk \in 0 .. ChunkMax

\* An update that stays within the bounds.
LEMMA Updates ==
  ASSUME NEW w, WindowOK(w), NEW time \in Int
  PROVE  /\ WindowOK([w EXCEPT !.last = time]) /\ [w EXCEPT !.last = time].last = time
         /\ [w EXCEPT !.last = time].room = w.room /\ [w EXCEPT !.last = time].stream = w.stream
         /\ \A k \in Step .. MaxPayload :
              WindowOK([w EXCEPT !.last = time, !.next = k])
         /\ \A k \in 0 .. ChunkMax : WindowOK([w EXCEPT !.last = time, !.chunk = k])
         /\ \A k \in 1 .. MaxPayload :
              /\ WindowOK([w EXCEPT !.stream = k, !.room = Batch])
              /\ [w EXCEPT !.stream = k, !.room = Batch].stream = k
              /\ [w EXCEPT !.stream = k, !.room = Batch].room = Batch
              /\ [w EXCEPT !.stream = k, !.room = Batch].last = w.last
         /\ \A k \in 0 .. w.room :
              /\ WindowOK([w EXCEPT !.room = k, !.fresh = FALSE])
              /\ [w EXCEPT !.room = k, !.fresh = FALSE].last = w.last
         /\ WindowOK([w EXCEPT !.fresh = FALSE])
         /\ ~[w EXCEPT !.fresh = FALSE].fresh
<1>1. w \in Window
  BY DEF WindowOK
<1>2. /\ WindowOK([w EXCEPT !.last = time]) /\ [w EXCEPT !.last = time].last = time
      /\ [w EXCEPT !.last = time].room = w.room /\ [w EXCEPT !.last = time].stream = w.stream
  BY <1>1 DEF WindowOK, Window
<1>3. ASSUME NEW k \in Step .. MaxPayload
      PROVE  WindowOK([w EXCEPT !.last = time, !.next = k])
  <2> DEFINE v == [w EXCEPT !.last = time, !.next = k]
  <2>1. v \in Window /\ v.last = time /\ v.next = k /\ v.stream = w.stream /\ v.room = w.room /\ v.chunk = w.chunk
    <3>1. k \in Nat /\ Batch \in Nat
      BY StreamAssumption DEF WindowOK
    <3> QED BY <1>1, <3>1 DEF Window
  <2> HIDE DEF v
  <2>2. WindowOK(v)
    BY <2>1, StreamAssumption DEF WindowOK
  <2> QED BY <2>1, <2>2 DEF v
<1>4. ASSUME NEW k \in 0 .. ChunkMax
      PROVE  WindowOK([w EXCEPT !.last = time, !.chunk = k])
  <2> DEFINE v == [w EXCEPT !.last = time, !.chunk = k]
  <2>1. v \in Window /\ v.next = w.next /\ v.stream = w.stream /\ v.room = w.room /\ v.chunk = k
    <3>1. k \in Nat /\ Batch \in Nat
      BY StreamAssumption DEF WindowOK
    <3> QED BY <1>1, <3>1 DEF Window
  <2> HIDE DEF v
  <2>2. WindowOK(v)
    BY <2>1, StreamAssumption DEF WindowOK
  <2> QED BY <2>1, <2>2 DEF v
<1>5. ASSUME NEW k \in 1 .. MaxPayload
      PROVE  /\ WindowOK([w EXCEPT !.stream = k, !.room = Batch])
             /\ [w EXCEPT !.stream = k, !.room = Batch].stream = k
             /\ [w EXCEPT !.stream = k, !.room = Batch].room = Batch
             /\ [w EXCEPT !.stream = k, !.room = Batch].last = w.last
  <2> DEFINE v == [w EXCEPT !.stream = k, !.room = Batch]
  <2>1. v \in Window /\ v.last = w.last /\ v.next = w.next /\ v.stream = k /\ v.room = Batch /\ v.chunk = w.chunk
    <3>1. k \in Nat /\ Batch \in Nat
      BY StreamAssumption DEF WindowOK
    <3> QED BY <1>1, <3>1 DEF Window
  <2> HIDE DEF v
  <2>2. WindowOK(v)
    BY <2>1, StreamAssumption DEF WindowOK
  <2> QED BY <2>1, <2>2 DEF v
<1>6. ASSUME NEW k \in 0 .. w.room
      PROVE  /\ WindowOK([w EXCEPT !.room = k, !.fresh = FALSE])
             /\ [w EXCEPT !.room = k, !.fresh = FALSE].last = w.last
  <2> DEFINE v == [w EXCEPT !.room = k, !.fresh = FALSE]
  <2>1. v \in Window /\ v.last = w.last /\ v.next = w.next /\ v.stream = w.stream /\ v.room = k /\ v.chunk = w.chunk
    <3>1. k \in Nat /\ Batch \in Nat
      BY StreamAssumption DEF WindowOK
    <3> QED BY <1>1, <3>1 DEF Window
  <2> HIDE DEF v
  <2>2. WindowOK(v)
    BY <2>1, StreamAssumption DEF WindowOK
  <2> QED BY <2>1, <2>2 DEF v
<1>7. WindowOK([w EXCEPT !.fresh = FALSE]) /\ ~[w EXCEPT !.fresh = FALSE].fresh
  BY <1>1, StreamAssumption DEF WindowOK, Window
<1> QED BY <1>2, <1>3, <1>4, <1>5, <1>6, <1>7

LEMMA Limit4Type ==
  ASSUME NEW w, WindowOK(w), NEW time \in Int, firstLimit \in FirstLimits
  PROVE  /\ Limit4(w, time) \in 1 .. MaxPayload
         /\ ~w.fresh => Limit4(w, time) >= Step
         /\ WindowOK(Advance4(w, time))
         /\ WindowOK([Advance4(w, time) EXCEPT !.fresh = FALSE])
<1>1. Limit4(w, time) \in 1 .. MaxPayload /\ (~w.fresh => Limit4(w, time) >= Step)
  BY StreamAssumption DEF WindowOK, Limit4, Window
<1> DEFINE next == Least(Limit4(w, time) + Step, MaxPayload)
<1>2. next \in Step .. MaxPayload
  BY <1>1, StreamAssumption DEF Least
<1>3. Advance4(w, time) = [w EXCEPT !.last = time, !.next = next]
  BY DEF Advance4
<1> HIDE DEF next
<1>4. WindowOK(Advance4(w, time))
  <2>1. WindowOK([w EXCEPT !.last = time, !.next = next])
    BY <1>2, Updates, Zenon
  <2> QED BY <1>3, <2>1, Zenon
<1>5. WindowOK([Advance4(w, time) EXCEPT !.fresh = FALSE])
  BY <1>4, Updates
<1> QED BY <1>1, <1>4, <1>5

LEMMA Limit5Type ==
  ASSUME NEW w, WindowOK(w), NEW time \in Int, firstLimit \in FirstLimits
  PROVE  /\ Limit5(w, time) \in 1 .. MaxPayload
         /\ w.last # 0 => Limit5(w, time) >= Step
         /\ WindowOK(Advance5(w, time)) /\ Advance5(w, time).last = time
         /\ WindowOK([Advance5(w, time) EXCEPT !.room = 0, !.fresh = FALSE])
<1>1. Limit5(w, time) \in 1 .. MaxPayload /\ (w.last # 0 => Limit5(w, time) >= Step)
  BY StreamAssumption DEF WindowOK, Limit5, Window
<1> DEFINE next == Least(Limit5(w, time) + Step, MaxPayload)
<1>2. next \in Step .. MaxPayload
  BY <1>1, StreamAssumption DEF Least
<1>3. Advance5(w, time) = [w EXCEPT !.last = time, !.next = next]
  BY DEF Advance5
<1> HIDE DEF next
<1>4. WindowOK(Advance5(w, time)) /\ Advance5(w, time).last = time
  <2>1. WindowOK([w EXCEPT !.last = time, !.next = next])
    BY <1>2, Updates, Zenon
  <2>2. Advance5(w, time).last = time
    BY DEF Advance5, WindowOK, Window
  <2> QED BY <1>3, <2>1, <2>2, Zenon
<1>5. 0 \in 0 .. Advance5(w, time).room
  BY <1>4, StreamAssumption DEF WindowOK
<1>6. WindowOK([Advance5(w, time) EXCEPT !.room = 0, !.fresh = FALSE])
  BY <1>4, <1>5, Updates
<1> QED BY <1>1, <1>4, <1>6

\* A virtual batch is never empty, and has a limit to be cut by.
LEMMA BatchType ==
  ASSUME NEW w, WindowOK(w), NEW time \in Int, firstLimit \in FirstLimits
  PROVE  /\ WindowOK(NextBatch(w, time))
         /\ NextBatch(w, time).room > 0
         /\ NextBatch(w, time).stream \in 1 .. MaxPayload
         /\ NextBatch(w, time).last = time
<1> DEFINE n == NextBatch(w, time)
           a == Advance5(w, time)
           l == Limit5(w, time)
<1>1. CASE w.room = 0 \/ (w.last # 0 /\ time - w.last >= ResetAfter)
  <2>1. n = [a EXCEPT !.stream = l, !.room = Batch]
    BY <1>1 DEF NextBatch
  <2>2. WindowOK(a) /\ l \in 1 .. MaxPayload /\ a.last = time
    BY Limit5Type
  <2> HIDE DEF a, l, n
  <2>3. WindowOK(n) /\ n.stream = l /\ n.room = Batch /\ n.last = time
    <3>1. /\ WindowOK([a EXCEPT !.stream = l, !.room = Batch])
          /\ [a EXCEPT !.stream = l, !.room = Batch].stream = l
          /\ [a EXCEPT !.stream = l, !.room = Batch].room = Batch
          /\ [a EXCEPT !.stream = l, !.room = Batch].last = a.last
      BY <2>2, Updates, Zenon
    <3> QED BY <2>1, <2>2, <3>1, Zenon
  <2> QED BY <2>2, <2>3, StreamAssumption DEF n
<1>2. CASE ~(w.room = 0 \/ (w.last # 0 /\ time - w.last >= ResetAfter))
  <2>1. n = [w EXCEPT !.last = time]
    BY <1>2 DEF NextBatch
  <2> HIDE DEF n
  <2>2. WindowOK(n) /\ n.last = time /\ n.room = w.room
    BY <2>1, Updates, ZenonT(40)
  <2>3. n.room > 0 /\ n.stream \in 1 .. MaxPayload
    BY <1>2, <2>2, StreamAssumption DEF WindowOK
  <2> QED BY <2>2, <2>3 DEF n
<1> QED BY <1>1, <1>2

LEMMA ShapedType ==
  ASSUME NEW w, WindowOK(w), NEW time \in Int
  PROVE  /\ ShapedLimits(w, time) \subseteq 1 .. MaxPayload
         /\ WindowOK(AdvanceShaped(w, time))
         /\ WindowOK([AdvanceShaped(w, time) EXCEPT !.fresh = FALSE])
<1>1. Chunk(w, time) \in 1 .. ChunkMax
  BY StreamAssumption DEF WindowOK, Window, Chunk
<1> DEFINE chunks == IF ChunkBuckets # {} THEN ChunkBuckets
                     ELSE (Chunk(w, time) - ChunkJitter) .. (Chunk(w, time) + ChunkJitter)
<1>2. ChunkLimits(Chunk(w, time)) \subseteq Int
  <2>1. \A c \in chunks : c \in Int
    BY <1>1, StreamAssumption
  <2>2. ChunkLimits(Chunk(w, time)) = {Most(ChunkMin, Least(c, ChunkMax)) : c \in chunks}
    BY DEF ChunkLimits
  <2>3. \A c \in Int : Most(ChunkMin, Least(c, ChunkMax)) \in Int
    BY StreamAssumption DEF Most, Least
  <2> HIDE DEF chunks
  <2> QED BY <2>1, <2>2, <2>3
<1>3. ShapedLimits(w, time) \subseteq 1 .. MaxPayload
  <2>1. \A l \in Int : Most(1, Least(IF w.fresh THEN Least(l, FirstCap) ELSE l, MaxPayload))
                       \in 1 .. MaxPayload
    BY StreamAssumption DEF Most, Least
  <2> QED BY <1>2, <2>1 DEF ShapedLimits
<1> DEFINE chunk == Least(Chunk(w, time) + ChunkStep, ChunkMax)
<1>4. chunk \in 0 .. ChunkMax
  BY <1>1, StreamAssumption DEF Least
<1>5. AdvanceShaped(w, time) = [w EXCEPT !.last = time, !.chunk = chunk]
  BY DEF AdvanceShaped
<1> HIDE DEF chunk
<1>6. WindowOK(AdvanceShaped(w, time))
  <2>1. WindowOK([w EXCEPT !.last = time, !.chunk = chunk])
    BY <1>4, Updates, Zenon
  <2> QED BY <1>5, <2>1, Zenon
<1>7. WindowOK([AdvanceShaped(w, time) EXCEPT !.fresh = FALSE])
  BY <1>6, Updates
<1> QED BY <1>3, <1>6, <1>7

LEMMA SpendType ==
  ASSUME WindowOK(window), NEW time \in Int, firstLimit \in FirstLimits
  PROVE  /\ WindowOK(Spend(window, time))
         /\ kind = "v4" => ~Spend(window, time).fresh
         /\ kind = "v5" => Spend(window, time).last = time
<1>1. CASE kind = "v4"
  BY <1>1, Limit4Type, Updates DEF Spend
<1>2. CASE kind = "v5"
  <2> DEFINE a == Advance5(window, time)
  <2>1. WindowOK(a) /\ a.last = time
    BY Limit5Type
  <2>2. WindowOK([a EXCEPT !.room = 0, !.fresh = FALSE])
    BY Limit5Type
  <2>3. [a EXCEPT !.room = 0, !.fresh = FALSE].last = time
    BY <2>1 DEF WindowOK, Window
  <2> HIDE DEF a
  <2> QED BY <1>2, <2>2, <2>3 DEF Spend, a
<1>3. CASE kind = "shaped"
  BY <1>3, ShapedType DEF Spend
<1> QED BY <1>1, <1>2, <1>3 DEF Spend

-----------------------------------------------------------------------------
(***************************************************************************)
(* Induction by a least counterexample.                                    *)
(***************************************************************************)
LEMMA LeastElement ==
  ASSUME NEW T, T \subseteq Nat, T # {}
  PROVE  \E n \in T : \A m \in T : n <= m
<1> DEFINE Below == {p \in Nat \X Nat : p[1] < p[2]}
<1>1. Below = OpToRel(<, Nat)
  BY DEF OpToRel
<1>2. IsWellFoundedOn(Below, Nat)
  BY <1>1, NatLessThanWellFounded, Zenon
<1> HIDE DEF Below
<1>3. PICK n \in T : \A m \in T : ~(<<m, n>> \in Below)
  BY <1>2, WFMin
<1>4. ASSUME NEW m \in T PROVE n <= m
  <2>1. m \in Nat /\ n \in Nat /\ ~(<<m, n>> \in Below)
    BY <1>3
  <2>2. m < n => << m, n >> \in Below
    BY <2>1 DEF Below
  <2> QED BY <2>1, <2>2
<1> QED BY <1>4

\* What holds of 0, and of each number with the one before, holds up to n.
LEMMA Climb ==
  ASSUME NEW n \in Nat, NEW P, 0 \in P, \A i \in 1 .. n : i - 1 \in P => i \in P
  PROVE  0 .. n \subseteq P
<1> SUFFICES ASSUME ~(0 .. n \subseteq P) PROVE FALSE
  OBVIOUS
<1> DEFINE T == {i \in 0 .. n : i \notin P}
<1>1. T \subseteq Nat /\ T # {}
  OBVIOUS
<1>2. PICK m \in T : \A i \in T : m <= i
  BY <1>1, LeastElement, Zenon
<1>3. m \in 1 .. n /\ m - 1 \in 0 .. n /\ ~(m <= m - 1)
  BY <1>2
<1>4. m - 1 \in P
  BY <1>2, <1>3
<1> QED BY <1>2, <1>3, <1>4

-----------------------------------------------------------------------------
(***************************************************************************)
(* Records and their nonces.                                               *)
(***************************************************************************)

\* The records of s are opened one after another by a reader that starts at first,
\* which is then at End(s, first).
Chain(s, first) == \A i \in 1 .. Len(s) : s[i].nonce = IF i = 1 THEN first ELSE After(s[i - 1])
End(s, first)   == IF Len(s) = 0 THEN first ELSE After(s[Len(s)])

LEMMA AfterType ==
  ASSUME NEW r \in Record
  PROVE  After(r) \in Nat
BY DEF After, Record

LEMMA EndType ==
  ASSUME NEW s \in Seq(Record), NEW first \in Nat
  PROVE  End(s, first) \in Nat
BY AfterType, LenProperties, ElementOfSeq DEF End

LEMMA ChainConcat ==
  ASSUME NEW s \in Seq(Record), NEW u \in Seq(Record), NEW first \in Nat,
         Chain(s, first), Chain(u, End(s, first))
  PROVE  Chain(s \o u, first) /\ End(s \o u, first) = End(u, End(s, first))
<1> DEFINE m == Len(s)
           k == Len(u)
           v == s \o u
<1>1. m \in Nat /\ k \in Nat
  BY LenProperties
<1>2. /\ Len(v) = m + k
      /\ \A i \in 1 .. m + k : v[i] = IF i <= m THEN s[i] ELSE u[i - m]
  BY ConcatProperties
<1> HIDE DEF v
<1>3. Chain(v, first)
  <2> SUFFICES ASSUME NEW i \in 1 .. m + k
               PROVE  v[i].nonce = IF i = 1 THEN first ELSE After(v[i - 1])
    BY <1>2 DEF Chain
  <2>1. CASE i <= m
    <3>1. i = 1 \/ (i - 1 \in 1 .. m + k /\ i - 1 <= m /\ i # 1)
      BY <1>1, <2>1
    <3>2. v[i] = s[i] /\ (i # 1 => v[i - 1] = s[i - 1])
      BY <1>2, <2>1, <3>1
    <3>3. s[i].nonce = IF i = 1 THEN first ELSE After(s[i - 1])
      BY <1>1, <2>1 DEF Chain
    <3> QED BY <3>1, <3>2, <3>3
  <2>2. CASE i = m + 1
    BY <1>1, <1>2, <2>2 DEF Chain, End
  <2>3. CASE i > m + 1
    <3>1. /\ i - m \in 1 .. k /\ i - m # 1 /\ i - 1 \in 1 .. m + k /\ i # 1
          /\ ~(i <= m) /\ ~(i - 1 <= m) /\ (i - 1) - m = (i - m) - 1
      BY <1>1, <2>3
    <3>2. v[i] = u[i - m] /\ v[i - 1] = u[(i - m) - 1]
      BY <1>2, <3>1
    <3> QED BY <3>1, <3>2 DEF Chain
  <2> QED BY <1>1, <2>1, <2>2, <2>3
<1>4. End(v, first) = End(u, End(s, first))
  <2>1. CASE k = 0
    BY <1>1, <1>2, <2>1 DEF End
  <2>2. CASE k # 0
    BY <1>1, <1>2, <2>2 DEF End
  <2> QED BY <2>1, <2>2
<1> QED BY <1>3, <1>4 DEF v

\* The reader has moved on with each record it has opened.
LEMMA ChainRises ==
  ASSUME NEW s \in Seq(Record), NEW first \in Nat, Chain(s, first), NEW k \in 0 .. Len(s) - 1
  PROVE  End(s, first) > (IF k = 0 THEN first ELSE After(s[k]))
<1> DEFINE e(i) == IF i = 0 THEN first ELSE After(s[i])
           n == Len(s)
           P == {d \in Nat : d > 0 /\ k + d <= n => e(k + d) > e(k)}
<1>1. n \in Nat /\ \A i \in 0 .. n : e(i) \in Nat
  BY AfterType, LenProperties, ElementOfSeq
<1>2. ASSUME NEW i \in 1 .. n PROVE e(i) > e(i - 1)
  <2>1. s[i] \in Record /\ i # 0
    BY <1>1, ElementOfSeq
  <2>2. s[i].nonce = e(i - 1)
    BY <1>1 DEF Chain
  <2>3. s[i].nonce \in Nat /\ After(s[i]) > s[i].nonce
    BY <2>1 DEF After, Record
  <2> QED BY <2>1, <2>2, <2>3
<1> HIDE DEF e
<1>3. 0 \in P
  OBVIOUS
<1>4. ASSUME NEW d \in 1 .. n - k, d - 1 \in P PROVE d \in P
  <2>1. k + d \in 1 .. n /\ (k + d) - 1 = k + (d - 1) /\ k + (d - 1) \in 0 .. n /\ k \in 0 .. n /\ d \in Nat
    BY <1>1
  <2>2. e(k + d) > e(k + (d - 1))
    BY <1>2, <2>1
  <2>3. d - 1 = 0 \/ e(k + (d - 1)) > e(k)
    BY <1>4, <2>1
  <2>4. d - 1 = 0 => k + (d - 1) = k
    BY <2>1
  <2> QED BY <1>1, <2>1, <2>2, <2>3, <2>4
<1>5. n - k \in Nat /\ n - k > 0 /\ k + (n - k) = n
  BY <1>1
<1>6. n - k \in P
  <2> HIDE DEF P
  <2>1. \A d \in 1 .. n - k : d - 1 \in P => d \in P
    BY <1>4
  <2>2. 0 .. n - k \subseteq P
    BY <1>3, <1>5, <2>1, Climb, Zenon
  <2>3. n - k \in 0 .. n - k
    BY <1>5
  <2> QED BY <2>2, <2>3
<1>7. e(n) > e(k)
  BY <1>5, <1>6
<1> QED BY <1>1, <1>5, <1>7 DEF End, e

\* A buffer is cut into records that are neither empty nor too long.
LEMMA CutType ==
  ASSUME NEW n \in Nat \ {0}, NEW len \in 1 .. MaxPayload
  PROVE  /\ Cut(n, len) \in Seq(1 .. MaxPayload)
         /\ Len(Cut(n, len)) \in Nat \ {0}
<1> DEFINE q == (n + len - 1) \div len
<1>1. len \in Nat \ {0} /\ MaxPayload \in Nat
  BY StreamAssumption
<1>2. q \in Nat /\ q >= 1 /\ q * len <= n + len - 1
  BY <1>1
<1>3. ASSUME NEW i \in 1 .. q
      PROVE  Least(len, n - (i - 1) * len) \in 1 .. MaxPayload
  <2>1. i * len <= q * len
    BY <1>1, <1>2
  <2>2. (i - 1) * len = i * len - len
    BY <1>1
  <2>3. (i - 1) * len <= n - 1 /\ (i - 1) * len \in Int
    BY <1>1, <1>2, <2>1, <2>2
  <2> QED BY <1>1, <2>3 DEF Least
<1> HIDE DEF q
<1>4. Cut(n, len) = [i \in 1 .. q |-> Least(len, n - (i - 1) * len)]
  BY DEF Cut, q
<1>5. Cut(n, len) \in [1 .. q -> 1 .. MaxPayload]
  BY <1>3, <1>4
<1>6. Cut(n, len) \in Seq(1 .. MaxPayload)
  BY <1>2, <1>5, SeqDef
<1>7. Len(Cut(n, len)) = q
  BY <1>2, <1>5, <1>6, LenProperties
<1> QED BY <1>2, <1>6, <1>7

-----------------------------------------------------------------------------
(***************************************************************************)
(* Types and limits.  A goroutine that has something to seal or to write   *)
(* is in a call, and what it has sealed is not too long.                   *)
(***************************************************************************)
Busy  == \A t \in Threads : left[t] # <<>> \/ out[t] # <<>> => Running(t) # {}
Short == \A t \in Threads : \A i \in DOMAIN out[t] : out[t][i].len \in 0 .. MaxPayload

Types == /\ TypeOK /\ clock > 0
         /\ WindowOK(window) /\ limit \in 0 .. MaxPayload
         /\ Busy /\ Short

LEMMA CurrentType ==
  ASSUME TypeOK, NEW t \in Threads, Running(t) # {}
  PROVE  /\ Current(t) \in 1 .. Len(calls)
         /\ calls[Current(t)].by = t /\ calls[Current(t)].result = "running"
<1>1. Current(t) \in Running(t)
  BY DEF Current
<1> QED BY <1>1, LenProperties DEF Running, TypeOK

LEMMA BuffersType ==
  ASSUME NEW op \in Ops, NEW bufs \in Buffers(op)
  PROVE  bufs \in Seq(Nat)
<1> \A n \in Nat : <<n>> \in Seq(Nat)
  OBVIOUS
<1>1. CASE op = "zero"
  <2>1. bufs = << 0 >>
    BY <1>1 DEF Buffers
  <2> QED BY <2>1
<1>2. CASE op = "first"
  <2>1. PICK n \in Sizes \cup {0} : bufs = <<n>>
    BY <1>2 DEF Buffers
  <2> QED BY <2>1, StreamAssumption
<1>3. CASE op \in {"write", "packet"}
  <2>1. PICK n \in Sizes : bufs = <<n>>
    BY <1>3 DEF Buffers
  <2> QED BY <2>1, StreamAssumption
<1>4. CASE op \in {"vector", "packets"}
  <2>1. bufs \in Seq(Nat \ {0})
    BY <1>4, StreamAssumption DEF Buffers
  <2> QED BY <2>1, SeqMonotonic
<1> QED BY <1>1, <1>2, <1>3, <1>4 DEF Ops

\* A new call is one of its goroutine, and no call of another changes.
LEMMA CallRuns ==
  ASSUME TypeOK, NEW t \in Threads, Call(t)
  PROVE  /\ calls' \in Seq([by : Threads, op : Ops, bufs : Seq(Nat), result : Results])
         /\ Running(t)' = {Len(calls) + 1}
         /\ \A u \in Threads \ {t} : Running(u)' = Running(u) /\ Current(u)' = Current(u)
         /\ \A i \in 1 .. Len(calls) : calls'[i] = calls[i]
<1> DEFINE R == [by : Threads, op : Ops, bufs : Seq(Nat), result : Results]
           n == Len(calls)
<1>1. PICK op \in Ops : \E bufs \in Buffers(op) :
        calls' = Append(calls, [by |-> t, op |-> op, bufs |-> bufs, result |-> "running"])
  BY DEF Call
<1>2. PICK bufs \in Buffers(op) :
        calls' = Append(calls, [by |-> t, op |-> op, bufs |-> bufs, result |-> "running"])
  BY <1>1
<1> DEFINE c == [by |-> t, op |-> op, bufs |-> bufs, result |-> "running"]
<1>3. c \in R
  BY BuffersType DEF Results
<1>4. calls \in Seq(R) /\ n \in Nat /\ DOMAIN calls = 1 .. n
  BY LenProperties DEF TypeOK
<1>5. /\ calls' \in Seq(R) /\ Len(calls') = n + 1 /\ DOMAIN calls' = 1 .. n + 1
      /\ \A i \in 1 .. n : calls'[i] = calls[i]
      /\ calls'[n + 1] = c
  BY <1>2, <1>3, <1>4, AppendProperties, LenProperties
<1>6. c.by = t /\ c.result = "running"
  OBVIOUS
<1> HIDE DEF c
<1>7. Running(t) = {}
  BY DEF Call
<1>8. Running(t)' = {n + 1}
  <2>1. \A i \in 1 .. n : ~(calls[i].by = t /\ calls[i].result = "running")
    BY <1>4, <1>7 DEF Running
  <2>2. \A i \in 1 .. n + 1 :
          (calls'[i].by = t /\ calls'[i].result = "running") <=> i = n + 1
    <3>1. calls'[n + 1].by = t /\ calls'[n + 1].result = "running"
      BY <1>5, <1>6
    <3>2. \A i \in 1 .. n : calls'[i] = calls[i]
      BY <1>5
    <3> HIDE DEF n
    <3> QED BY <1>4, <2>1, <3>1, <3>2
  <2> HIDE DEF n
  <2> QED BY <1>4, <1>5, <2>2 DEF Running
<1>9. \A u \in Threads \ {t} : Running(u)' = Running(u)
  BY <1>4, <1>5, <1>6 DEF Running
<1>10. \A u \in Threads \ {t} : Current(u)' = Current(u)
  BY <1>9 DEF Current
<1> QED BY <1>5, <1>8, <1>9, <1>10

LEMMA ReturnRuns ==
  ASSUME TypeOK, NEW t \in Threads, Running(t) # {}, NEW result \in Results, Return(t, result)
  PROVE  /\ calls' \in Seq([by : Threads, op : Ops, bufs : Seq(Nat), result : Results])
         /\ \A u \in Threads \ {t} : Running(u)' = Running(u) /\ Current(u)' = Current(u)
         /\ \A i \in 1 .. Len(calls) : calls'[i].op = calls[i].op
<1> DEFINE R == [by : Threads, op : Ops, bufs : Seq(Nat), result : Results]
           n == Len(calls)
           m == Current(t)
<1>1. m \in 1 .. n /\ calls[m].by = t
  BY CurrentType
<1>2. calls' = [calls EXCEPT ![m].result = result]
  BY DEF Return
<1>3. calls \in Seq(R) /\ n \in Nat /\ calls \in [1 .. n -> R]
  BY LenProperties DEF TypeOK
<1> HIDE DEF m
<1>4. /\ calls' \in [1 .. n -> R]
      /\ \A i \in 1 .. n : /\ calls'[i].by = calls[i].by /\ calls'[i].op = calls[i].op
                           /\ i # m => calls'[i] = calls[i]
  BY <1>1, <1>2, <1>3
<1> HIDE DEF R, n
<1>5. calls' \in Seq(R)
  BY <1>3, <1>4, SeqDef
<1> USE DEF R, n
<1>6. \A u \in Threads \ {t} : Running(u)' = Running(u)
  BY <1>1, <1>3, <1>4 DEF Running
<1>7. \A u \in Threads \ {t} : Current(u)' = Current(u)
  BY <1>6 DEF Current
<1> QED BY <1>4, <1>5, <1>6, <1>7

\* What a goroutine has sealed, and what it has left, after it has sealed n bytes.
LEMMA SealType ==
  ASSUME Types, NEW t \in Threads, left[t] # <<>>,
         NEW lens \in Seq(0 .. MaxPayload), NEW n \in 0 .. Head(left[t]), NEW time \in Nat,
         Seal(t, lens, n, time)
  PROVE  /\ Records(t, lens, time) \in Seq(Record)
         /\ Len(Records(t, lens, time)) = Len(lens)
         /\ \A i \in 1 .. Len(lens) :
              /\ Records(t, lens, time)[i].len = lens[i]
              /\ Records(t, lens, time)[i].nonce = nonce + 2 * (i - 1)
         /\ out' = [out EXCEPT ![t] = @ \o Records(t, lens, time)]
         /\ out' \in [Threads -> Seq(Record)] /\ nonce' \in Nat
         /\ left' \in [Threads -> Seq(Nat)] /\ now' \in Nat /\ holder' \in Threads
         /\ Busy' /\ Short'
<1> DEFINE r == Records(t, lens, time)
           k == Len(lens)
           c == Current(t)
<1>1. k \in Nat /\ DOMAIN lens = 1 .. k /\ \A i \in 1 .. k : lens[i] \in 0 .. MaxPayload
  BY LenProperties, ElementOfSeq
<1>2. c \in Nat /\ nonce \in Nat /\ MaxPayload \in Nat
  BY CurrentType, LenProperties, StreamAssumption DEF Types, TypeOK, Busy
<1>3. r = [i \in 1 .. k |-> [call |-> c, len |-> lens[i], at |-> time, nonce |-> nonce + 2 * (i - 1)]]
  BY <1>1 DEF Records
<1> HIDE DEF c, r
<1>4. r \in [1 .. k -> Record]
  BY <1>1, <1>2, <1>3 DEF Record
<1>5. r \in Seq(Record) /\ Len(r) = k
  <2>1. r \in Seq(Record)
    BY <1>1, <1>4, SeqDef
  <2> QED BY <1>1, <1>4, <2>1, LenProperties
<1>6. \A i \in 1 .. k : r[i].len = lens[i] /\ r[i].nonce = nonce + 2 * (i - 1)
  BY <1>3
<1>7. out' = [out EXCEPT ![t] = @ \o r]
  BY DEF Seal, r
<1>8. out \in [Threads -> Seq(Record)] /\ left \in [Threads -> Seq(Nat)]
  BY DEF Types, TypeOK
<1>9. out[t] \o r \in Seq(Record)
  BY <1>5, <1>8, ConcatProperties
<1>10. out' \in [Threads -> Seq(Record)]
  BY <1>7, <1>8, <1>9
<1>11. nonce' \in Nat
  BY <1>1, <1>2 DEF Seal
<1>12. left' \in [Threads -> Seq(Nat)]
  <2>1. Head(left[t]) \in Nat /\ Tail(left[t]) \in Seq(Nat)
    BY <1>8, HeadTailProperties
  <2>2. <<Head(left[t]) - n>> \in Seq(Nat)
    BY <2>1
  <2>3. <<Head(left[t]) - n>> \o Tail(left[t]) \in Seq(Nat)
    BY <2>1, <2>2, ConcatProperties
  <2>4. left' = [left EXCEPT ![t] = IF n = Head(left[t]) THEN Tail(left[t])
                                    ELSE <<Head(left[t]) - n>> \o Tail(left[t])]
    BY DEF Seal
  <2> QED BY <1>8, <2>1, <2>3, <2>4
<1>13. now' \in Nat /\ holder' \in Threads
  BY DEF Seal
<1>14. Busy'
  <2> SUFFICES ASSUME NEW u \in Threads, left'[u] # <<>> \/ out'[u] # <<>>
               PROVE  Running(u)' # {}
    BY DEF Busy
  <2>1. Running(u)' = Running(u)
    BY DEF Seal, Running
  <2>2. CASE u = t
    BY <2>1, <2>2 DEF Types, Busy
  <2>3. CASE u # t
    BY <1>8, <2>1, <2>3 DEF Types, Busy, Seal
  <2> QED BY <2>2, <2>3
<1>15. Short'
  <2> SUFFICES ASSUME NEW u \in Threads, NEW i \in DOMAIN out'[u]
               PROVE  out'[u][i].len \in 0 .. MaxPayload
    BY DEF Short
  <2>1. CASE u = t
    <3> DEFINE m == Len(out[t])
    <3>1. out'[u] = out[t] \o r
      BY <1>7, <1>8, <2>1
    <3>2. m \in Nat /\ DOMAIN out[t] = 1 .. m /\ DOMAIN out'[u] = 1 .. m + k
      <4>1. m \in Nat /\ DOMAIN out[t] = 1 .. m
        BY <1>8, LenProperties
      <4>2. out[t] \in Seq(Record) /\ r \in Seq(Record) /\ Len(r) = k
        BY <1>5, <1>8
      <4>3. out'[u] \in Seq(Record) /\ Len(out'[u]) = m + k
        <5>1. /\ out[t] \o r \in Seq(Record)
              /\ Len(out[t] \o r) = Len(out[t]) + Len(r)
          BY <4>2, ConcatProperties
        <5> QED BY <3>1, <4>2, <5>1
      <4> QED BY <4>1, <4>3, LenProperties
    <3>3. out'[u][i] = IF i <= m THEN out[t][i] ELSE r[i - m]
      BY <1>5, <1>8, <3>1, <3>2, ConcatProperties
    <3>4. CASE i <= m
      BY <3>2, <3>3, <3>4 DEF Types, Short
    <3>5. CASE i > m
      <4>1. i - m \in 1 .. k /\ ~(i <= m)
        BY <1>1, <3>2, <3>5
      <4> QED BY <1>1, <1>6, <3>3, <4>1
    <3> QED BY <3>2, <3>4, <3>5
  <2>2. CASE u # t
    BY <1>7, <1>8, <2>2 DEF Types, Short
  <2> QED BY <2>1, <2>2
<1> QED BY <1>5, <1>6, <1>7, <1>10, <1>11, <1>12, <1>13, <1>14, <1>15 DEF r

LEMMA MomentType ==
  ASSUME Types, NEW t \in Threads
  PROVE  Moment(t) \in Nat
BY DEF Moment, Types, TypeOK

\* Each way of sealing keeps the limits.
LEMMA SealKeepsTypes ==
  ASSUME Types, NEW t \in Threads,
         NEW lens \in Seq(0 .. MaxPayload), NEW n \in 0 .. Head(left[t]), NEW time \in Nat,
         left[t] # <<>>, Seal(t, lens, n, time),
         WindowOK(window'), limit' \in 0 .. MaxPayload
  PROVE  Types'
<1>1. /\ out' \in [Threads -> Seq(Record)] /\ nonce' \in Nat
      /\ left' \in [Threads -> Seq(Nat)] /\ now' \in Nat /\ holder' \in Threads
      /\ Busy' /\ Short'
  BY SealType
<1>2. UNCHANGED <<kind, firstLimit, clock, calls, wire, breaks, up>>
  BY DEF Seal
<1>3. limit' \in Nat /\ window' \in Window
  BY StreamAssumption DEF WindowOK
<1>4. TypeOK'
  BY <1>1, <1>2, <1>3 DEF Types, TypeOK
<1> QED BY <1>1, <1>2, <1>4 DEF Types

\* The bytes of a call that are cut into one record.
LEMMA HeadCut ==
  ASSUME Types, NEW t \in Threads, left[t] # <<>>, Head(left[t]) > 0, NEW l \in 1 .. MaxPayload
  PROVE  /\ Least(Head(left[t]), l) \in 1 .. Head(left[t])
         /\ <<Least(Head(left[t]), l)>> \in Seq(1 .. MaxPayload)
<1>1. Head(left[t]) \in Nat
  BY HeadTailProperties DEF Types, TypeOK
<1>2. Least(Head(left[t]), l) \in 1 .. Head(left[t])
  BY <1>1 DEF Least
<1>3. Least(Head(left[t]), l) \in 1 .. MaxPayload
  BY <1>1, StreamAssumption DEF Least
<1> QED BY <1>2, <1>3

LEMMA SealV4Seals ==
  ASSUME Types, NEW t \in Threads, SealV4(t)
  PROVE  /\ WindowOK(window') /\ limit' \in 0 .. MaxPayload
         /\ \E lens \in Seq(1 .. MaxPayload), n \in 1 .. Head(left[t]) :
              Len(lens) > 0 /\ Seal(t, lens, n, Moment(t))
<1>1. left[t] # <<>> /\ Head(left[t]) > 0
  BY HeadTailProperties DEF SealV4, Data, Sealing
<1>2. Moment(t) \in Int /\ firstLimit \in FirstLimits /\ WindowOK(window) /\ limit \in 0 .. MaxPayload
  BY MomentType DEF Types, TypeOK
<1>3. limit' \in 1 .. MaxPayload /\ WindowOK(window')
  BY <1>2, Limit4Type DEF SealV4
<1> DEFINE n == Least(Head(left[t]), limit')
<1>4. n \in 1 .. Head(left[t]) /\ <<n>> \in Seq(1 .. MaxPayload)
  BY <1>1, <1>3, HeadCut
<1>5. Seal(t, <<n>>, n, Moment(t))
  BY DEF SealV4
<1>6. Len(<<n>>) > 0
  OBVIOUS
<1> HIDE DEF n
<1>7. limit' \in 0 .. MaxPayload
  BY <1>3, StreamAssumption
<1> QED BY <1>3, <1>4, <1>5, <1>6, <1>7

LEMMA SealV5Seals ==
  ASSUME Types, NEW t \in Threads, SealV5(t)
  PROVE  /\ WindowOK(window') /\ limit' \in 0 .. MaxPayload
         /\ \E lens \in Seq(1 .. MaxPayload), n \in 1 .. Head(left[t]) :
              Len(lens) > 0 /\ Seal(t, lens, n, clock)
<1>1. left[t] # <<>> /\ Head(left[t]) \in Nat /\ Head(left[t]) > 0
  BY HeadTailProperties DEF SealV5, Data, Sealing, Types, TypeOK
<1>2. clock \in Int /\ firstLimit \in FirstLimits /\ WindowOK(window)
  BY DEF Types, TypeOK
<1> DEFINE w == NextBatch(window, clock)
           n == Least(Head(left[t]), w.room)
<1>3. WindowOK(w) /\ w.room > 0 /\ w.stream \in 1 .. MaxPayload
  BY <1>2, BatchType
<1>4. /\ window' = [w EXCEPT !.room = @ - n, !.fresh = FALSE]
      /\ Seal(t, Cut(n, w.stream), n, clock)
      /\ limit' = limit
  BY DEF SealV5
<1> HIDE DEF w
<1>5. w.room \in Nat
  BY <1>3 DEF WindowOK
<1>6. n \in 1 .. Head(left[t]) /\ n <= w.room
  BY <1>1, <1>3, <1>5 DEF Least
<1> HIDE DEF n
<1>7. WindowOK(window')
  <2>1. w.room - n \in 0 .. w.room
    BY <1>5, <1>6
  <2>2. WindowOK([w EXCEPT !.room = w.room - n, !.fresh = FALSE])
    BY <1>2, <1>3, <2>1, Updates, Zenon
  <2> QED BY <1>4, <2>2, Zenon
<1>8. Cut(n, w.stream) \in Seq(1 .. MaxPayload) /\ Len(Cut(n, w.stream)) > 0
  BY <1>1, <1>3, <1>6, CutType, SMTT(30)
<1> QED BY <1>4, <1>6, <1>7, <1>8 DEF Types

LEMMA SealShapedSeals ==
  ASSUME Types, NEW t \in Threads, SealShaped(t)
  PROVE  /\ WindowOK(window') /\ limit' \in 0 .. MaxPayload
         /\ \E lens \in Seq(1 .. MaxPayload), n \in 1 .. Head(left[t]) :
              Len(lens) > 0 /\ Seal(t, lens, n, Moment(t))
<1>1. left[t] # <<>> /\ Head(left[t]) > 0
  BY DEF SealShaped, Data, Sealing
<1>2. Moment(t) \in Int /\ WindowOK(window)
  BY MomentType DEF Types
<1>3. WindowOK(window') /\ limit' \in 0 .. MaxPayload
  BY <1>2, ShapedType DEF SealShaped, Types
<1>4. PICK l \in ShapedLimits(window, Moment(t)) :
        LET n == Least(Head(left[t]), l) IN Seal(t, <<n>>, n, Moment(t))
  BY DEF SealShaped
<1> DEFINE n == Least(Head(left[t]), l)
<1>5. n \in 1 .. Head(left[t]) /\ <<n>> \in Seq(1 .. MaxPayload)
  BY <1>1, <1>2, <1>4, ShapedType, HeadCut
<1>6. Seal(t, <<n>>, n, Moment(t)) /\ Len(<<n>>) > 0
  BY <1>4
<1> HIDE DEF n
<1> QED BY <1>3, <1>5, <1>6

LEMMA SealPlainSeals ==
  ASSUME Types, NEW t \in Threads, SealPlain(t)
  PROVE  /\ WindowOK(window') /\ limit' \in 0 .. MaxPayload
         /\ \E lens \in Seq(1 .. MaxPayload), n \in 1 .. Head(left[t]) :
              Len(lens) > 0 /\ Seal(t, lens, n, Moment(t))
<1>1. left[t] # <<>> /\ Head(left[t]) > 0
  BY DEF SealPlain, Data, Sealing
<1>2. WindowOK(window') /\ limit' \in 0 .. MaxPayload
  BY DEF SealPlain, Types
<1> DEFINE n == Least(Head(left[t]), MaxPayload)
<1>3. n \in 1 .. Head(left[t]) /\ <<n>> \in Seq(1 .. MaxPayload)
  BY <1>1, StreamAssumption, HeadCut
<1>4. Seal(t, <<n>>, n, Moment(t)) /\ Len(<<n>>) > 0
  BY DEF SealPlain
<1> HIDE DEF n
<1> QED BY <1>2, <1>3, <1>4

LEMMA SealZeroSeals ==
  ASSUME Types, NEW t \in Threads, SealZero(t)
  PROVE  /\ WindowOK(window') /\ limit' \in 0 .. MaxPayload
         /\ left[t] # <<>> /\ Head(left[t]) = 0
         /\ << 0 >> \in Seq(0 .. MaxPayload)
         /\ Seal(t, << 0 >>, 0, Moment(t))
BY MomentType, SpendType, StreamAssumption DEF SealZero, Sealing, Types, TypeOK

LEMMA SealPacketSeals ==
  ASSUME Types, NEW t \in Threads, SealPacket(t)
  PROVE  /\ WindowOK(window') /\ limit' \in 0 .. MaxPayload
         /\ left[t] # <<>>
         /\ Head(left[t]) \in 0 .. MaxPayload
         /\ <<Head(left[t])>> \in Seq(0 .. MaxPayload)
         /\ Seal(t, <<Head(left[t])>>, Head(left[t]), Moment(t))
<1>1. left[t] # <<>> /\ Head(left[t]) \in Nat /\ Head(left[t]) = left[t][1] /\ 1 \in DOMAIN left[t]
  BY HeadTailProperties, EmptySeq, LenProperties DEF SealPacket, Packet, Sealing, Types, TypeOK
<1>2. Moment(t) \in Int /\ firstLimit \in FirstLimits /\ WindowOK(window) /\ limit \in 0 .. MaxPayload
  BY MomentType DEF Types, TypeOK
<1>3. PacketLimit(window, Moment(t)) \in 1 .. MaxPayload
  <2>1. Limit4(window, Moment(t)) \in 1 .. MaxPayload /\ Limit5(window, Moment(t)) \in 1 .. MaxPayload
    BY <1>2, Limit4Type, Limit5Type
  <2> QED BY <2>1, StreamAssumption, SMTT(30) DEF PacketLimit
<1>4. Head(left[t]) <= MaxPayload
  <2>1. CASE kind \in {"v4", "v5"}
    <3>1. ~(Head(left[t]) > PacketLimit(window, Moment(t)))
      BY <2>1 DEF SealPacket, TooLarge
    <3> QED BY <1>1, <1>3, <3>1, StreamAssumption
  <2>2. CASE kind \notin {"v4", "v5"}
    <3>1. ~(left[t][1] > MaxPayload)
      BY <1>1, <2>2 DEF SealPacket, TooLarge
    <3> QED BY <1>1, <3>1, StreamAssumption
  <2> QED BY <2>1, <2>2
<1>5. <<Head(left[t])>> \in Seq(0 .. MaxPayload)
  BY <1>1, <1>4, StreamAssumption
<1>6. WindowOK(window') /\ limit' = limit /\ Seal(t, <<Head(left[t])>>, Head(left[t]), Moment(t))
  BY <1>2, SpendType DEF SealPacket
<1> QED BY <1>1, <1>2, <1>4, <1>5, <1>6, StreamAssumption

\* The end of a call leaves nothing of it behind.
LEMMA ReturnKeepsTypes ==
  ASSUME Types, NEW t \in Threads, left[t] # <<>> \/ out[t] # <<>>,
         NEW result \in Results, Return(t, result),
         wire' \in Seq(Record), breaks' \subseteq 0 .. Len(wire'), up' \in BOOLEAN,
         UNCHANGED <<kind, firstLimit, clock, window, nonce>>
  PROVE  Types'
<1>1. Running(t) # {}
  BY DEF Types, Busy
<1>2. /\ calls' \in Seq([by : Threads, op : Ops, bufs : Seq(Nat), result : Results])
      /\ \A u \in Threads \ {t} : Running(u)' = Running(u)
  BY <1>1, ReturnRuns DEF Types
<1>3. /\ left' = [left EXCEPT ![t] = <<>>] /\ out' = [out EXCEPT ![t] = <<>>]
      /\ holder' = "free" /\ now' = 0 /\ limit' = 0
  BY DEF Return
<1>4. left \in [Threads -> Seq(Nat)] /\ out \in [Threads -> Seq(Record)]
  BY DEF Types, TypeOK
<1>5. /\ left' \in [Threads -> Seq(Nat)] /\ out' \in [Threads -> Seq(Record)]
      /\ left'[t] = <<>> /\ out'[t] = <<>>
      /\ \A u \in Threads \ {t} : left'[u] = left[u] /\ out'[u] = out[u]
  BY <1>3, <1>4
<1>6. TypeOK'
  BY <1>2, <1>3, <1>5 DEF Types, TypeOK
<1>7. Busy'
  BY <1>2, <1>5 DEF Types, Busy
<1>8. Short'
  <2> SUFFICES ASSUME NEW u \in Threads, NEW i \in DOMAIN out'[u]
               PROVE  out'[u][i].len \in 0 .. MaxPayload
    BY DEF Short
  <2>1. u # t
    BY <1>5
  <2> QED BY <1>5, <2>1 DEF Types, Short
<1>9. limit' \in 0 .. MaxPayload
  BY <1>3, StreamAssumption
<1> QED BY <1>6, <1>7, <1>8, <1>9 DEF Types

LEMMA CallKeepsTypes ==
  ASSUME Types, NEW t \in Threads, Call(t)
  PROVE  Types'
<1>1. /\ calls' \in Seq([by : Threads, op : Ops, bufs : Seq(Nat), result : Results])
      /\ Running(t)' # {}
      /\ \A u \in Threads \ {t} : Running(u)' = Running(u)
  BY CallRuns DEF Types
<1> PICK op \in Ops : \E bufs \in Buffers(op) : left' = [left EXCEPT ![t] = bufs]
  BY DEF Call
<1>2. PICK bufs \in Buffers(op) : left' = [left EXCEPT ![t] = bufs]
  OBVIOUS
<1>3. bufs \in Seq(Nat)
  BY BuffersType
<1>4. UNCHANGED <<kind, firstLimit, clock, wire, breaks, up, holder, now, limit, window, nonce, out>>
  BY DEF Call
<1>5. left \in [Threads -> Seq(Nat)]
  BY DEF Types, TypeOK
<1>6. left' \in [Threads -> Seq(Nat)] /\ \A u \in Threads \ {t} : left'[u] = left[u]
  BY <1>2, <1>3, <1>5
<1>7. TypeOK'
  BY <1>1, <1>4, <1>6 DEF Types, TypeOK
<1>8. Busy'
  BY <1>1, <1>4, <1>6 DEF Types, Busy
<1>9. Short'
  BY <1>4 DEF Types, Short
<1> QED BY <1>4, <1>7, <1>8, <1>9 DEF Types

\* The records of a call that reach the connection.
LEMMA WireType ==
  ASSUME Types, NEW t \in Threads, NEW k \in 0 .. Len(out[t])
  PROVE  /\ wire \o out[t] \in Seq(Record)
         /\ SubSeq(out[t], 1, k) \in Seq(Record)
         /\ wire \o SubSeq(out[t], 1, k) \in Seq(Record)
         /\ breaks \subseteq 0 .. Len(wire \o out[t])
         /\ breaks \subseteq 0 .. Len(wire \o SubSeq(out[t], 1, k))
<1>1. wire \in Seq(Record) /\ out[t] \in Seq(Record)
  BY DEF Types, TypeOK
<1>2. \A i \in 1 .. k : out[t][i] \in Record
  BY <1>1, LenProperties, ElementOfSeq
<1>3. SubSeq(out[t], 1, k) \in Seq(Record)
  BY <1>2, SubSeqProperties
<1>4. ASSUME NEW s \in Seq(Record)
      PROVE  wire \o s \in Seq(Record) /\ breaks \subseteq 0 .. Len(wire \o s)
  <2>1. /\ wire \o s \in Seq(Record) /\ Len(wire \o s) = Len(wire) + Len(s)
        /\ Len(wire) \in Nat /\ Len(s) \in Nat
    BY <1>1, ConcatProperties, LenProperties
  <2>2. breaks \subseteq 0 .. Len(wire)
    BY DEF Types, TypeOK
  <2> QED BY <2>1, <2>2
<1> QED BY <1>1, <1>3, <1>4

LEMMA FlushKeepsTypes ==
  ASSUME Types, NEW t \in Threads, Flush(t)
  PROVE  Types'
<1>1. wire \o out[t] \in Seq(Record) /\ breaks \subseteq 0 .. Len(wire \o out[t])
  <2>1. 0 \in 0 .. Len(out[t])
    BY LenProperties DEF Types, TypeOK
  <2> QED BY <2>1, WireType
<1>2. CASE left[t] = <<>>
  <2>1. Return(t, "ok")
    BY <1>2 DEF Flush
  <2>2. /\ out[t] # <<>> /\ wire' \in Seq(Record) /\ up' \in BOOLEAN
        /\ breaks' \subseteq 0 .. Len(wire')
        /\ UNCHANGED <<kind, firstLimit, clock, window, nonce>>
    BY <1>1 DEF Flush, Types, TypeOK
  <2> QED BY <2>1, <2>2, ReturnKeepsTypes DEF Results
<1>3. CASE left[t] # <<>>
  <2>1. /\ out' = [out EXCEPT ![t] = <<>>]
        /\ holder' \in {"free", holder} /\ now' \in {0, now}
        /\ UNCHANGED <<calls, left, limit, kind, firstLimit, clock, breaks, up, window, nonce>>
        /\ wire' = wire \o out[t]
    BY <1>3 DEF Flush
  <2>2. out \in [Threads -> Seq(Record)]
    BY DEF Types, TypeOK
  <2>3. /\ out' \in [Threads -> Seq(Record)] /\ out'[t] = <<>>
        /\ \A u \in Threads \ {t} : out'[u] = out[u]
    BY <2>1, <2>2
  <2>4. TypeOK'
    BY <1>1, <2>1, <2>3 DEF Types, TypeOK
  <2>5. Busy'
    <3>1. \A u \in Threads : Running(u)' = Running(u)
      BY <2>1 DEF Running
    <3> QED BY <2>1, <2>3, <3>1 DEF Types, Busy
  <2>6. Short'
    <3> SUFFICES ASSUME NEW u \in Threads, NEW i \in DOMAIN out'[u]
                 PROVE  out'[u][i].len \in 0 .. MaxPayload
      BY DEF Short
    <3>1. u # t
      BY <2>3
    <3> QED BY <2>3, <3>1 DEF Types, Short
  <2> QED BY <2>1, <2>4, <2>5, <2>6 DEF Types
<1> QED BY <1>2, <1>3

LEMMA FlushFailsKeepsTypes ==
  ASSUME Types, NEW t \in Threads, FlushFails(t)
  PROVE  Types'
<1>1. Len(out[t]) \in Nat /\ out[t] # <<>> /\ Len(out[t]) # 0
  BY EmptySeq, LenProperties DEF FlushFails, Types, TypeOK
<1>2. PICK k \in 0 .. (IF up THEN Len(out[t]) - 1 ELSE 0) : wire' = wire \o SubSeq(out[t], 1, k)
  BY DEF FlushFails
<1> k \in 0 .. Len(out[t])
  BY <1>1
<1>3. wire' \in Seq(Record) /\ breaks \subseteq 0 .. Len(wire') /\ Len(wire') \in Nat
  BY <1>2, WireType, LenProperties
<1>4. breaks' \subseteq 0 .. Len(wire')
  <2>1. breaks' \subseteq breaks \cup {Len(wire')}
    BY DEF FlushFails, GiveUp
  <2> QED BY <1>3, <2>1
<1>5. /\ Return(t, "failed") /\ up' \in BOOLEAN
      /\ UNCHANGED <<kind, firstLimit, clock, window, nonce>>
  BY DEF FlushFails, Types, TypeOK
<1> QED BY <1>1, <1>3, <1>4, <1>5, ReturnKeepsTypes DEF Results

LEMMA RefuseKeepsTypes ==
  ASSUME Types, NEW t \in Threads, Refuse(t)
  PROVE  Types'
<1>1. /\ left[t] # <<>> /\ Return(t, "refused")
      /\ UNCHANGED <<kind, firstLimit, clock, wire, up, window, nonce>>
  BY DEF Refuse, Packet, Sealing
<1>2. wire \in Seq(Record) /\ Len(wire) \in Nat /\ breaks \subseteq 0 .. Len(wire) /\ up \in BOOLEAN
  BY LenProperties DEF Types, TypeOK
<1>3. breaks' \subseteq 0 .. Len(wire')
  <2>1. breaks' \subseteq breaks \cup {Len(wire)}
    BY DEF Refuse, GiveUp
  <2> QED BY <1>1, <1>2, <2>1
<1> QED BY <1>1, <1>2, <1>3, ReturnKeepsTypes DEF Results

LEMMA InitTypes == Init => Types
<1> SUFFICES ASSUME Init PROVE Types
  OBVIOUS
<1>1. window = [last |-> 0, next |-> 0, stream |-> 0, room |-> 0, chunk |-> 0, fresh |-> TRUE]
  BY DEF Init
<1>2. WindowOK(window)
  BY <1>1, StreamAssumption DEF WindowOK, Window
<1>3. TypeOK
  BY <1>2 DEF Init, TypeOK, WindowOK
<1>4. Busy /\ Short
  BY DEF Init, Busy, Short
<1> QED BY <1>2, <1>3, <1>4, StreamAssumption DEF Init, Types

LEMMA StepTypes == Types /\ [Next]_vars => Types'
<1> SUFFICES ASSUME Types, [Next]_vars PROVE Types'
  OBVIOUS
<1> USE DEF vars, writerVars
<1>1. ASSUME NEW t \in Threads, Call(t) PROVE Types'
  BY <1>1, CallKeepsTypes
<1>2. ASSUME NEW t \in Threads, NEW time \in Nat, WindowOK(window'), limit' \in 0 .. MaxPayload,
             left[t] # <<>>,
             \E lens \in Seq(1 .. MaxPayload), n \in 1 .. Head(left[t]) : Seal(t, lens, n, time)
      PROVE  Types'
  <2>1. PICK lens \in Seq(1 .. MaxPayload), n \in 1 .. Head(left[t]) : Seal(t, lens, n, time)
    BY <1>2
  <2>2. lens \in Seq(0 .. MaxPayload) /\ n \in 0 .. Head(left[t])
    <3>1. 1 .. MaxPayload \subseteq 0 .. MaxPayload
      BY StreamAssumption
    <3>2. Head(left[t]) \in Nat
      BY <1>2, HeadTailProperties DEF Types, TypeOK
    <3>3. lens \in Seq(0 .. MaxPayload)
      BY <3>1, SeqMonotonic, Zenon
    <3> QED BY <3>2, <3>3
  <2> QED BY <1>2, <2>1, <2>2, SealKeepsTypes
<1>3. ASSUME NEW t \in Threads, SealV4(t) PROVE Types'
  <2>1. left[t] # <<>>
    BY <1>3 DEF SealV4, Data, Sealing
  <2> QED BY <1>2, <1>3, <2>1, SealV4Seals, MomentType
<1>4. ASSUME NEW t \in Threads, SealV5(t) PROVE Types'
  <2>1. left[t] # <<>> /\ clock \in Nat
    BY <1>4 DEF SealV5, Data, Sealing, Types, TypeOK
  <2> QED BY <1>2, <1>4, <2>1, SealV5Seals
<1>5. ASSUME NEW t \in Threads, SealShaped(t) PROVE Types'
  <2>1. left[t] # <<>>
    BY <1>5 DEF SealShaped, Data, Sealing
  <2> QED BY <1>2, <1>5, <2>1, SealShapedSeals, MomentType
<1>6. ASSUME NEW t \in Threads, SealPlain(t) PROVE Types'
  <2>1. left[t] # <<>>
    BY <1>6 DEF SealPlain, Data, Sealing
  <2> QED BY <1>2, <1>6, <2>1, SealPlainSeals, MomentType
<1>7. ASSUME NEW t \in Threads, SealZero(t) PROVE Types'
  <2>1. /\ WindowOK(window') /\ limit' \in 0 .. MaxPayload
        /\ left[t] # <<>> /\ Head(left[t]) = 0
        /\ << 0 >> \in Seq(0 .. MaxPayload) /\ Seal(t, << 0 >>, 0, Moment(t))
    BY <1>7, SealZeroSeals
  <2>2. 0 \in 0 .. Head(left[t]) /\ Moment(t) \in Nat
    BY <2>1, MomentType
  <2> QED BY <2>1, <2>2, SealKeepsTypes
<1>8. ASSUME NEW t \in Threads, SealPacket(t) PROVE Types'
  <2>1. /\ WindowOK(window') /\ limit' \in 0 .. MaxPayload
        /\ left[t] # <<>> /\ Head(left[t]) \in 0 .. MaxPayload
        /\ <<Head(left[t])>> \in Seq(0 .. MaxPayload)
        /\ Seal(t, <<Head(left[t])>>, Head(left[t]), Moment(t))
    BY <1>8, SealPacketSeals
  <2>2. Head(left[t]) \in 0 .. Head(left[t]) /\ Moment(t) \in Nat
    BY <2>1, MomentType
  <2> QED BY <2>1, <2>2, SealKeepsTypes
<1>9. ASSUME NEW t \in Threads, Refuse(t) PROVE Types'
  BY <1>9, RefuseKeepsTypes
<1>10. ASSUME NEW t \in Threads, Flush(t) PROVE Types'
  BY <1>10, FlushKeepsTypes
<1>11. ASSUME NEW t \in Threads, FlushFails(t) PROVE Types'
  BY <1>11, FlushFailsKeepsTypes
<1>12. CASE Tick
  <2>1. clock' \in Nat /\ clock' > 0
    BY <1>12, StreamAssumption DEF Tick
  <2>2. UNCHANGED <<kind, firstLimit, calls, wire, breaks, up, holder, left, now, limit, window, nonce, out>>
    BY <1>12 DEF Tick
  <2>3. TypeOK' /\ WindowOK(window') /\ limit' \in 0 .. MaxPayload
    BY <2>1, <2>2 DEF Types, TypeOK
  <2>4. Busy' /\ Short'
    BY <2>2 DEF Types, Busy, Short, Running
  <2> QED BY <2>1, <2>3, <2>4 DEF Types
<1>13. CASE UNCHANGED vars
  BY <1>13 DEF Types, TypeOK, Busy, Short, Running
<1> QED BY <1>1, <1>3, <1>4, <1>5, <1>6, <1>7, <1>8, <1>9, <1>10, <1>11, <1>12, <1>13 DEF Next

LEMMA TypesHold == Spec => []Types
<1> QED BY InitTypes, StepTypes, PTL DEF Spec

\* Every field of the writers keeps its type, for every profile and every sequence of
\* calls.
THEOREM RecordTypeCorrect == Spec => []TypeOK
<1>1. Types => TypeOK
  BY DEF Types
<1> QED BY TypesHold, <1>1, PTL

\* Whatever is written and however the clock jumps, a payload limit is between one and
\* the largest payload of a record: no writer panics on an invalid limit or divides by
\* zero, and no length overflows its field.
THEOREM LimitsStayValid == Spec => []LimitsValid
<1>1. Types => LimitsValid
  <2> SUFFICES ASSUME Types PROVE LimitsValid
    OBVIOUS
  <2>1. clock \in Int /\ firstLimit \in FirstLimits /\ WindowOK(window)
    BY DEF Types, TypeOK
  <2>2. Limit4(window, clock) \in 1 .. MaxPayload /\ Limit5(window, clock) \in 1 .. MaxPayload
    BY <2>1, Limit4Type, Limit5Type
  <2>3. ShapedLimits(window, clock) \subseteq 1 .. MaxPayload
    BY <2>1, ShapedType
  <2>4. window.room \in 0 .. Batch /\ (window.room > 0 => window.stream \in 1 .. MaxPayload)
    BY <2>1, StreamAssumption DEF WindowOK
  <2> QED BY <2>2, <2>3, <2>4 DEF LimitsValid, Types, Short
<1> QED BY TypesHold, <1>1, PTL

-----------------------------------------------------------------------------
(***************************************************************************)
(* Nonces.  What is sealed and not yet written belongs to the goroutine    *)
(* that has the lock, and goes on where the reader of the wire will be, or *)
(* beyond when records before it were given up.                            *)
(***************************************************************************)
Locked == \A t \in Threads : out[t] # <<>> => holder = t

Pending == IF holder = "free" THEN <<>> ELSE out[holder]

InOrder ==
  \A i \in 1 .. Len(wire) :
    IF i - 1 \in breaks THEN wire[i].nonce > Due(i) ELSE wire[i].nonce = Due(i)

\* A record with this nonce may come next.
Follows(first) ==
  /\ first \in Nat
  /\ IF Len(wire) \in breaks THEN first > End(wire, 0) ELSE first = End(wire, 0)

InStep == \E first \in Nat :
  Follows(first) /\ Chain(Pending, first) /\ End(Pending, first) = nonce

Ordered == Types /\ Locked /\ InOrder /\ InStep

\* Records take the nonces one after another.
LEMMA RecordsChain ==
  ASSUME Types, NEW t \in Threads, left[t] # <<>>,
         NEW lens \in Seq(0 .. MaxPayload), NEW n \in 0 .. Head(left[t]), NEW time \in Nat,
         Seal(t, lens, n, time),
         n = 0 => lens = << 0 >>,
         n # 0 => lens \in Seq(1 .. MaxPayload) /\ Len(lens) > 0
  PROVE  /\ Chain(Records(t, lens, time), nonce)
         /\ End(Records(t, lens, time), nonce) = nonce'
<1> DEFINE r == Records(t, lens, time)
           k == Len(lens)
<1>1. /\ r \in Seq(Record) /\ Len(r) = k
      /\ \A i \in 1 .. k : r[i].len = lens[i] /\ r[i].nonce = nonce + 2 * (i - 1)
  BY SealType, SMTT(30)
<1>2. nonce \in Nat /\ k \in Nat /\ nonce' = nonce + (IF n = 0 THEN 1 ELSE 2 * k)
  BY LenProperties DEF Types, TypeOK, Seal
<1> HIDE DEF r, k
<1>3. CASE n = 0
  <2>1. k = 1 /\ lens[1] = 0
    BY <1>3 DEF k
  <2>2. r[1].len = 0 /\ r[1].nonce = nonce
    BY <1>1, <1>2, <2>1
  <2> QED BY <1>1, <1>2, <1>3, <2>1, <2>2 DEF Chain, End, After, r
<1>4. CASE n # 0
  <2>1. k > 0 /\ \A i \in 1 .. k : lens[i] \in 1 .. MaxPayload
    BY <1>4, ElementOfSeq DEF k
  <2>2. \A i \in 1 .. k : After(r[i]) = nonce + 2 * i
    <3> SUFFICES ASSUME NEW i \in 1 .. k
                 PROVE  After(r[i]) = nonce + 2 * i
      OBVIOUS
    <3>1. r[i].len # 0 /\ r[i].nonce = nonce + 2 * (i - 1)
      BY <1>1, <2>1
    <3> QED BY <1>2, <3>1 DEF After
  <2>3. Chain(r, nonce)
    <3> SUFFICES ASSUME NEW i \in 1 .. k
                 PROVE  r[i].nonce = IF i = 1 THEN nonce ELSE After(r[i - 1])
      BY <1>1 DEF Chain
    <3>1. CASE i = 1
      BY <1>1, <1>2, <3>1
    <3>2. CASE i # 1
      <4>1. i - 1 \in 1 .. k
        BY <1>2, <3>2
      <4> QED BY <1>1, <1>2, <2>2, <3>2, <4>1
    <3> QED BY <3>1, <3>2
  <2>4. End(r, nonce) = nonce'
    BY <1>1, <1>2, <1>4, <2>1, <2>2 DEF End
  <2> QED BY <2>3, <2>4 DEF r
<1> QED BY <1>3, <1>4

\* The holder of the lock goes on where its last record ended.
LEMMA SealOrder ==
  ASSUME Ordered, NEW t \in Threads, Sealing(t),
         NEW lens \in Seq(0 .. MaxPayload), NEW n \in 0 .. Head(left[t]), NEW time \in Nat,
         Seal(t, lens, n, time),
         n = 0 => lens = << 0 >>,
         n # 0 => lens \in Seq(1 .. MaxPayload) /\ Len(lens) > 0
  PROVE  Locked' /\ InOrder' /\ InStep'
<1> DEFINE r == Records(t, lens, time)
<1>1. left[t] # <<>> /\ holder \in {"free", t} /\ "free" \notin Threads
  BY StreamAssumption DEF Sealing
<1>2. /\ r \in Seq(Record) /\ out' = [out EXCEPT ![t] = @ \o r]
      /\ Chain(r, nonce) /\ End(r, nonce) = nonce'
  BY <1>1, SealType, RecordsChain DEF Ordered
<1>3. out \in [Threads -> Seq(Record)] /\ wire \in Seq(Record) /\ nonce \in Nat
  BY DEF Ordered, Types, TypeOK
<1>4. holder' = t /\ wire' = wire /\ breaks' = breaks
  BY DEF Seal
<1>5. Pending = out[t]
  BY <1>1 DEF Pending, Ordered, Locked
<1> HIDE DEF r
<1>6. Pending' = out[t] \o r
  BY <1>1, <1>2, <1>3, <1>4 DEF Pending
<1>7. Locked'
  BY <1>1, <1>2, <1>3, <1>4 DEF Ordered, Locked
<1>8. InOrder'
  BY <1>4 DEF Ordered, InOrder, Due
<1>9. InStep'
  <2>1. PICK first \in Nat :
          Follows(first) /\ Chain(out[t], first) /\ End(out[t], first) = nonce
    BY <1>5 DEF Ordered, InStep
  <2>2. out[t] \in Seq(Record)
    BY <1>3
  <2>3. /\ Chain(out[t] \o r, first)
        /\ End(out[t] \o r, first) = End(r, End(out[t], first))
    BY <1>2, <2>1, <2>2, ChainConcat
  <2>4. Follows(first)' /\ Chain(Pending, first)' /\ End(Pending, first)' = nonce'
    BY <1>2, <1>4, <1>6, <2>1, <2>3 DEF Follows, End, Chain
  <2> QED BY <2>4 DEF InStep
<1> QED BY <1>7, <1>8, <1>9

LEMMA EmptyInStep ==
  ASSUME NEW e \in Nat
  PROVE  Chain(<<>>, e) /\ End(<<>>, e) = e
BY DEF Chain, End

\* The end of a call leaves nothing sealed.
LEMMA ReturnOrdered ==
  ASSUME Ordered, Types', NEW t \in Threads, holder \in {"free", t},
         NEW result \in Results, Return(t, result), InOrder', Follows(nonce)'
  PROVE  Ordered'
<1>1. out' = [out EXCEPT ![t] = <<>>] /\ holder' = "free"
  BY DEF Return
<1>2. \A u \in Threads : out'[u] = <<>>
  BY <1>1, StreamAssumption DEF Ordered, Locked, Types, TypeOK
<1>3. Locked' /\ Pending' = <<>>
  BY <1>1, <1>2 DEF Locked, Pending
<1>4. nonce' \in Nat
  BY DEF Follows
<1>5. InStep'
  BY <1>3, <1>4, EmptyInStep DEF InStep
<1> QED BY <1>3, <1>5 DEF Ordered

\* The nonce of the writer may follow what the wire ends with.
LEMMA NothingPending ==
  ASSUME Ordered, Pending = <<>>
  PROVE  Follows(nonce)
<1>1. PICK first \in Nat : Follows(first) /\ End(<<>>, first) = nonce
  BY DEF Ordered, InStep
<1> QED BY <1>1, EmptyInStep

\* What was sealed first goes on where the wire ends, and where records are given up, at
\* the end of the new wire, the writer is beyond all of them.
LEMMA WriteOrder ==
  ASSUME Ordered, NEW t \in Threads, out[t] # <<>>, NEW k \in 0 .. Len(out[t]),
         wire' = wire \o SubSeq(out[t], 1, k), nonce' = nonce,
         IF k = Len(out[t]) THEN breaks' = breaks ELSE breaks' = breaks \cup {Len(wire')}
  PROVE  InOrder' /\ Follows(nonce)'
<1> DEFINE s == out[t]
           p == SubSeq(s, 1, k)
           m == Len(wire)
<1>1. wire \in Seq(Record) /\ s \in Seq(Record) /\ nonce \in Nat /\ breaks \subseteq 0 .. m /\ m \in Nat
  BY LenProperties DEF Ordered, Types, TypeOK
<1>2. Pending = s
  BY StreamAssumption DEF Ordered, Locked, Pending
<1>3. PICK first \in Nat : Follows(first) /\ Chain(s, first) /\ End(s, first) = nonce
  BY <1>2 DEF Ordered, InStep
<1>4. Len(s) \in Nat /\ Len(s) > 0 /\ k \in Nat /\ k <= Len(s) /\ \A i \in 1 .. k : s[i] \in Record
  BY <1>1, LenProperties, EmptySeq, ElementOfSeq
<1>5. p \in Seq(Record) /\ Len(p) = k /\ \A i \in 1 .. k : p[i] = s[i]
  BY <1>1, <1>4, SubSeqProperties
<1>6. /\ Len(wire') = m + k
      /\ \A i \in 1 .. m + k : wire'[i] = IF i <= m THEN wire[i] ELSE s[i - m]
  <2>1. /\ Len(wire \o p) = m + Len(p)
        /\ \A i \in 1 .. m + Len(p) : (wire \o p)[i] = IF i <= m THEN wire[i] ELSE p[i - m]
    BY <1>1, <1>5, ConcatProperties
  <2>2. \A i \in 1 .. m + k : ~(i <= m) => i - m \in 1 .. k
    BY <1>1
  <2> QED BY <1>5, <2>1, <2>2
<1> HIDE DEF s, p, m
<1>7. ASSUME NEW i \in 1 .. m + k
      PROVE  IF i - 1 \in breaks' THEN wire'[i].nonce > Due(i)' ELSE wire'[i].nonce = Due(i)'
  <2>1. i - 1 \in breaks' <=> i - 1 \in breaks
    BY <1>1, <1>6
  <2>2. CASE i <= m
    <3>1. wire'[i] = wire[i] /\ (i # 1 => i - 1 \in 1 .. m + k /\ i - 1 <= m /\ wire'[i - 1] = wire[i - 1])
      BY <1>1, <1>6, <2>2
    <3>2. Due(i)' = Due(i)
      BY <3>1 DEF Due
    <3>3. i \in 1 .. Len(wire)
      BY <1>1, <2>2 DEF m
    <3> QED BY <2>1, <3>1, <3>2, <3>3 DEF Ordered, InOrder
  <2>3. CASE i = m + 1
    <3>1. wire'[i] = s[1] /\ 1 \in 1 .. Len(s)
      <4>1. i - m = 1 /\ ~(i <= m) /\ 1 \in 1 .. Len(s)
        BY <1>1, <1>4, <2>3
      <4>2. wire'[i] = s[i - m]
        BY <1>6, <4>1
      <4> QED BY <4>1, <4>2
    <3>2. s[1].nonce = first
      BY <1>3, <3>1 DEF Chain
    <3>3. Due(i)' = End(wire, 0)
      <4>1. (i = 1 <=> m = 0) /\ i - 1 = m /\ m <= m /\ (m # 0 => m \in 1 .. m + k)
        BY <1>1, <1>4, <2>3
      <4>2. m # 0 => wire'[m] = wire[m]
        BY <1>6, <4>1
      <4> QED BY <4>1, <4>2 DEF Due, End, m
    <3>4. i - 1 = m
      BY <1>1, <2>3
    <3> QED BY <1>3, <2>1, <3>1, <3>2, <3>3, <3>4 DEF Follows, m
  <2>4. CASE i > m + 1
    <3>1. /\ i - m \in 1 .. Len(s) /\ i - m # 1 /\ i - 1 \in 1 .. m + k /\ i # 1
          /\ ~(i <= m) /\ ~(i - 1 <= m) /\ (i - 1) - m = (i - m) - 1
      BY <1>1, <1>4, <2>4
    <3>2. wire'[i] = s[i - m] /\ wire'[i - 1] = s[(i - m) - 1]
      BY <1>6, <3>1
    <3>3. s[i - m].nonce = After(s[(i - m) - 1])
      BY <1>3, <3>1 DEF Chain
    <3>4. i - 1 \notin breaks
      BY <1>1, <3>1
    <3> QED BY <2>1, <3>1, <3>2, <3>3, <3>4 DEF Due
  <2>5. i <= m \/ i = m + 1 \/ i > m + 1
    BY <1>1, <1>4
  <2> QED BY <2>2, <2>3, <2>4, <2>5
<1>8. InOrder'
  BY <1>6, <1>7 DEF InOrder
<1>9. End(wire, 0)' = IF k = 0 THEN End(wire, 0) ELSE After(s[k])
  <2>1. CASE k = 0
    <3>1. \A i \in 1 .. m : wire'[i] = wire[i]
      BY <1>1, <1>6, <2>1
    <3>2. Len(wire') = m /\ (m # 0 => wire'[m] = wire[m])
      BY <1>1, <1>6, <2>1, <3>1
    <3> QED BY <2>1, <3>2 DEF End, m
  <2>2. CASE k # 0
    <3>1. m + k \in 1 .. m + k /\ ~(m + k <= m) /\ (m + k) - m = k /\ m + k # 0
      <4>1. m \in Nat /\ k \in Nat /\ k # 0
        BY <1>1, <1>4, <2>2
      <4> QED BY <4>1
    <3>2. wire'[m + k] = s[k]
      BY <1>6, <3>1
    <3> QED BY <1>6, <2>2, <3>1, <3>2 DEF End
  <2> QED BY <2>1, <2>2
<1>10. CASE k = Len(s)
  <2>1. End(wire, 0)' = nonce
    BY <1>3, <1>4, <1>9, <1>10 DEF End
  <2>2. Len(wire') \notin breaks'
    BY <1>1, <1>4, <1>6, <1>10 DEF s
  <2> QED BY <1>1, <1>8, <2>1, <2>2 DEF Follows
<1>11. CASE k # Len(s)
  <2>1. k \in 0 .. Len(s) - 1
    BY <1>4, <1>11 DEF s
  <2>2. nonce > (IF k = 0 THEN first ELSE After(s[k]))
    BY <1>1, <1>3, <2>1, ChainRises
  <2>3. End(wire, 0) \in Nat
    BY <1>1, EndType
  <2>4. first >= End(wire, 0)
    BY <1>3, <2>3 DEF Follows
  <2>5. nonce > End(wire, 0)'
    BY <1>1, <1>9, <2>2, <2>3, <2>4
  <2>6. Len(wire') \in breaks'
    BY <1>11 DEF s
  <2> QED BY <1>1, <1>8, <2>5, <2>6 DEF Follows
<1> QED BY <1>10, <1>11

LEMMA FlushOrdered ==
  ASSUME Ordered, NEW t \in Threads, Flush(t)
  PROVE  Ordered'
<1>1. out[t] # <<>> /\ wire' = wire \o out[t] /\ UNCHANGED <<breaks, nonce>>
  BY DEF Flush
<1>2. Types' /\ holder = t
  BY <1>1, FlushKeepsTypes DEF Ordered, Locked
<1>3. InOrder' /\ Follows(nonce)'
  <2>1. Len(out[t]) \in 0 .. Len(out[t]) /\ SubSeq(out[t], 1, Len(out[t])) = out[t]
    BY LenProperties, SubSeqFull DEF Ordered, Types, TypeOK
  <2> QED BY <1>1, <2>1, WriteOrder
<1>4. CASE left[t] = <<>>
  <2>1. Return(t, "ok")
    BY <1>4 DEF Flush
  <2> QED BY <1>2, <1>3, <2>1, ReturnOrdered DEF Results
<1>5. CASE left[t] # <<>>
  <2>1. out' = [out EXCEPT ![t] = <<>>] /\ holder' \in {"free", t}
    BY <1>2, <1>5 DEF Flush
  <2>2. out'[t] = <<>> /\ \A u \in Threads \ {t} : out'[u] = out[u] /\ out[u] = <<>>
    BY <1>2, <2>1 DEF Ordered, Types, TypeOK, Locked
  <2>3. Locked' /\ Pending' = <<>>
    BY <2>1, <2>2 DEF Locked, Pending
  <2>4. nonce' \in Nat
    BY <1>3 DEF Follows
  <2>5. InStep'
    BY <1>3, <2>3, <2>4, EmptyInStep DEF InStep
  <2> QED BY <1>2, <1>3, <2>3, <2>5 DEF Ordered
<1> QED BY <1>4, <1>5

LEMMA FlushFailsOrdered ==
  ASSUME Ordered, NEW t \in Threads, FlushFails(t)
  PROVE  Ordered'
<1>1. out[t] # <<>> /\ Return(t, "failed") /\ breaks' = breaks \cup {Len(wire')} /\ nonce' = nonce
  BY DEF FlushFails, GiveUp
<1>2. Len(out[t]) \in Nat /\ Len(out[t]) # 0
  BY <1>1, EmptySeq, LenProperties DEF Ordered, Types, TypeOK
<1>3. PICK k \in 0 .. (IF up THEN Len(out[t]) - 1 ELSE 0) : wire' = wire \o SubSeq(out[t], 1, k)
  BY DEF FlushFails
<1>4. k \in 0 .. Len(out[t]) /\ k # Len(out[t])
  BY <1>2
<1>5. InOrder' /\ Follows(nonce)'
  BY <1>1, <1>3, <1>4, WriteOrder
<1>6. Types' /\ holder = t
  BY <1>1, FlushFailsKeepsTypes DEF Ordered, Locked
<1> QED BY <1>1, <1>5, <1>6, ReturnOrdered DEF Results

LEMMA RefuseOrdered ==
  ASSUME Ordered, NEW t \in Threads, Refuse(t)
  PROVE  Ordered'
<1>1. /\ holder \in {"free", t} /\ Return(t, "refused") /\ wire' = wire /\ nonce' = nonce
      /\ breaks' = IF out[t] = <<>> THEN breaks ELSE breaks \cup {Len(wire)}
  BY DEF Refuse, Packet, Sealing, GiveUp
<1>2. Types'
  BY RefuseKeepsTypes DEF Ordered
<1>3. InOrder' /\ Follows(nonce)'
  <2>1. CASE out[t] = <<>>
    <3>1. Pending = <<>> /\ breaks' = breaks
      BY <1>1, <2>1 DEF Pending
    <3>2. Follows(nonce)
      BY <3>1, NothingPending
    <3> QED BY <1>1, <3>1, <3>2 DEF Ordered, InOrder, Due, Follows, End
  <2>2. CASE out[t] # <<>>
    <3>1. wire \in Seq(Record) /\ out[t] \in Seq(Record)
      BY DEF Ordered, Types, TypeOK
    <3>2. 0 \in 0 .. Len(out[t]) /\ 0 # Len(out[t])
      BY <2>2, <3>1, LenProperties, EmptySeq
    <3>3. wire \o SubSeq(out[t], 1, 0) = wire
      BY <3>1, SubSeqEmpty, ConcatEmptySeq
    <3>4. wire' = wire \o SubSeq(out[t], 1, 0) /\ breaks' = breaks \cup {Len(wire')}
      BY <1>1, <2>2, <3>3
    <3> QED BY <1>1, <2>2, <3>2, <3>4, WriteOrder
  <2> QED BY <2>1, <2>2
<1> QED BY <1>1, <1>2, <1>3, ReturnOrdered DEF Results

LEMMA StepOrdered == Ordered /\ [Next]_vars => Ordered'
<1> SUFFICES ASSUME Ordered, [Next]_vars PROVE Ordered'
  OBVIOUS
<1>1. Types /\ Types'
  BY StepTypes DEF Ordered
<1>2. ASSUME NEW t \in Threads, Sealing(t), NEW time \in Nat,
             \E lens \in Seq(1 .. MaxPayload), n \in 1 .. Head(left[t]) :
               Len(lens) > 0 /\ Seal(t, lens, n, time)
      PROVE  Ordered'
  <2>1. PICK lens \in Seq(1 .. MaxPayload), n \in 1 .. Head(left[t]) :
          Len(lens) > 0 /\ Seal(t, lens, n, time)
    BY <1>2
  <2>2. n \in 0 .. Head(left[t]) /\ n # 0
    <3>1. Head(left[t]) \in Nat
      BY <1>1, <1>2, HeadTailProperties DEF Sealing, Types, TypeOK
    <3> QED BY <3>1
  <2>3. lens \in Seq(0 .. MaxPayload)
    <3>1. 1 .. MaxPayload \subseteq 0 .. MaxPayload
      BY StreamAssumption
    <3> QED BY <3>1, SeqMonotonic, Zenon
  <2>4. Locked' /\ InOrder' /\ InStep'
    BY <1>2, <2>1, <2>2, <2>3, SealOrder
  <2> QED BY <1>1, <2>4 DEF Ordered
<1>3. ASSUME NEW t \in Threads, SealV4(t) PROVE Ordered'
  <2>1. Sealing(t)
    BY <1>3 DEF SealV4, Data
  <2> QED BY <1>1, <1>2, <1>3, <2>1, SealV4Seals, MomentType
<1>4. ASSUME NEW t \in Threads, SealV5(t) PROVE Ordered'
  <2>1. Sealing(t) /\ clock \in Nat
    BY <1>1, <1>4 DEF SealV5, Data, Types, TypeOK
  <2> QED BY <1>1, <1>2, <1>4, <2>1, SealV5Seals
<1>5. ASSUME NEW t \in Threads, SealShaped(t) PROVE Ordered'
  <2>1. Sealing(t)
    BY <1>5 DEF SealShaped, Data
  <2> QED BY <1>1, <1>2, <1>5, <2>1, SealShapedSeals, MomentType
<1>6. ASSUME NEW t \in Threads, SealPlain(t) PROVE Ordered'
  <2>1. Sealing(t)
    BY <1>6 DEF SealPlain, Data
  <2> QED BY <1>1, <1>2, <1>6, <2>1, SealPlainSeals, MomentType
<1>7. ASSUME NEW t \in Threads, SealZero(t) PROVE Ordered'
  <2>1. Sealing(t) /\ Moment(t) \in Nat
    BY <1>1, <1>7, MomentType DEF SealZero
  <2>2. /\ left[t] # <<>> /\ Head(left[t]) = 0
        /\ << 0 >> \in Seq(0 .. MaxPayload) /\ Seal(t, << 0 >>, 0, Moment(t))
    BY <1>1, <1>7, SealZeroSeals
  <2>3. 0 \in 0 .. Head(left[t])
    BY <2>2
  <2>4. Locked' /\ InOrder' /\ InStep'
    BY <2>1, <2>2, <2>3, SealOrder
  <2> QED BY <1>1, <2>4 DEF Ordered
<1>8. ASSUME NEW t \in Threads, SealPacket(t) PROVE Ordered'
  <2> DEFINE h == Head(left[t])
  <2>1. Sealing(t) /\ Moment(t) \in Nat
    BY <1>1, <1>8, MomentType DEF SealPacket, Packet
  <2>2. /\ h \in 0 .. MaxPayload
        /\ <<h>> \in Seq(0 .. MaxPayload) /\ Seal(t, <<h>>, h, Moment(t))
    BY <1>1, <1>8, SealPacketSeals
  <2>3. h \in 0 .. Head(left[t])
    BY <2>2
  <2> HIDE DEF h
  <2>4. h = 0 => <<h>> = << 0 >>
    OBVIOUS
  <2>5. h # 0 => <<h>> \in Seq(1 .. MaxPayload) /\ Len(<<h>>) > 0
    <3> SUFFICES ASSUME h \in 1 .. MaxPayload PROVE <<h>> \in Seq(1 .. MaxPayload) /\ Len(<<h>>) > 0
      BY <2>2
    <3> QED OBVIOUS
  <2>6. Locked' /\ InOrder' /\ InStep'
    BY <2>1, <2>2, <2>3, <2>4, <2>5, SealOrder
  <2> QED BY <1>1, <2>6 DEF Ordered
<1>9. ASSUME NEW t \in Threads, Refuse(t) PROVE Ordered'
  BY <1>9, RefuseOrdered
<1>10. ASSUME NEW t \in Threads, Flush(t) PROVE Ordered'
  BY <1>10, FlushOrdered
<1>11. ASSUME NEW t \in Threads, FlushFails(t) PROVE Ordered'
  BY <1>11, FlushFailsOrdered
<1>12. CASE (\E t \in Threads : Call(t)) \/ Tick \/ UNCHANGED vars
  <2>1. UNCHANGED <<wire, breaks, holder, nonce, out>>
    BY <1>12 DEF Call, Tick, vars, writerVars
  <2>2. Locked' /\ InOrder' /\ InStep'
    BY <2>1 DEF Ordered, Locked, InOrder, Due, InStep, Follows, Chain, Pending, End
  <2> QED BY <1>1, <2>2 DEF Ordered
<1> QED BY <1>3, <1>4, <1>5, <1>6, <1>7, <1>8, <1>9, <1>10, <1>11, <1>12 DEF Next

LEMMA InitOrdered == Init => Ordered
<1> SUFFICES ASSUME Init PROVE Ordered
  OBVIOUS
<1>1. Types
  BY InitTypes
<1>2. /\ wire = <<>> /\ breaks = {} /\ holder = "free" /\ nonce = 0
      /\ \A t \in Threads : out[t] = <<>>
  BY DEF Init
<1>3. Locked /\ InOrder
  BY <1>2 DEF Locked, InOrder
<1>4. InStep
  <2>1. Follows(0)
    BY <1>2 DEF Follows, End
  <2> QED BY <1>2, <2>1, EmptyInStep DEF InStep, Pending
<1> QED BY <1>1, <1>3, <1>4 DEF Ordered

\* Behind a gap the nonces only grow.
LEMMA BeyondGap ==
  ASSUME Ordered, NEW i \in 1 .. Len(wire), wire[i].nonce > Due(i)
  PROVE  \A j \in i .. Len(wire) : wire[j].nonce > Due(i)
<1> DEFINE n == Len(wire)
           P == {d \in Nat : i + d <= n => wire[i + d].nonce > Due(i)}
<1>1. wire \in Seq(Record) /\ n \in Nat /\ i \in Nat
  BY LenProperties DEF Ordered, Types, TypeOK
<1>2. \A j \in 1 .. n : wire[j] \in Record /\ wire[j].nonce \in Nat
  <2>1. \A j \in 1 .. n : wire[j] \in Record
    BY <1>1, ElementOfSeq
  <2> QED BY <2>1 DEF Record
<1>3. Due(i) \in Nat
  <2>1. i # 1 => i - 1 \in 1 .. n
    BY <1>1
  <2> QED BY <1>2, <2>1, AfterType DEF Due
<1>4. 0 \in P
  BY <1>1
<1>5. ASSUME NEW d \in 1 .. n - i, d - 1 \in P PROVE d \in P
  <2>1. i + d \in 1 .. n /\ i + (d - 1) \in 1 .. n /\ (i + d) - 1 = i + (d - 1) /\ i + d # 1 /\ d \in Nat
    BY <1>1
  <2>2. wire[i + (d - 1)].nonce > Due(i)
    BY <1>5, <2>1
  <2>3. Due(i + d) > wire[i + (d - 1)].nonce /\ Due(i + d) \in Nat
    <3>1. wire[i + (d - 1)] \in Record
      BY <1>2, <2>1
    <3>2. Due(i + d) = After(wire[i + (d - 1)])
      BY <2>1 DEF Due
    <3> QED BY <3>1, <3>2 DEF After, Record
  <2>4. wire[i + d].nonce >= Due(i + d)
    <3> DEFINE j == i + d
    <3>1. j \in 1 .. Len(wire) /\ Due(j) \in Nat /\ wire[j].nonce \in Nat
      BY <1>2, <2>1, <2>3
    <3>2. wire[j].nonce > Due(j) \/ wire[j].nonce = Due(j)
      <4> HIDE DEF j
      <4> QED BY <3>1 DEF Ordered, InOrder
    <3> QED BY <3>1, <3>2
  <2>5. wire[i + d].nonce > Due(i)
    <3>1. wire[i + d].nonce \in Nat /\ wire[i + (d - 1)].nonce \in Nat
      BY <1>2, <2>1
    <3> QED BY <1>3, <2>2, <2>3, <2>4, <3>1
  <2> QED BY <2>1, <2>5
<1>6. n - i \in Nat
  BY <1>1
<1>7. 0 .. n - i \subseteq P
  <2> HIDE DEF P
  <2> QED BY <1>4, <1>5, <1>6, Climb
<1>8. ASSUME NEW j \in i .. n PROVE wire[j].nonce > Due(i)
  <2>1. j - i \in 0 .. n - i /\ i + (j - i) = j /\ j <= n
    BY <1>1
  <2>2. j - i \in P
    BY <1>7, <2>1
  <2> QED BY <2>1, <2>2
<1> QED BY <1>8

\* The reader opens every record with the nonce that it was sealed with, however the
\* goroutines interleave.  Where records were given up, because a write failed or a batch
\* was refused, the nonce that is due there is of none that comes later, though the writer
\* goes on.
THEOREM NoncesStayInStep == Spec => []NoncesAgree
<1>1. Ordered => NoncesAgree
  <2> SUFFICES ASSUME Ordered, NEW i \in DOMAIN wire
               PROVE  IF i - 1 \in breaks THEN \A j \in i .. Len(wire) : wire[j].nonce > Due(i)
                      ELSE wire[i].nonce = Due(i)
    BY DEF NoncesAgree
  <2>1. i \in 1 .. Len(wire)
    BY LenProperties DEF Ordered, Types, TypeOK
  <2> QED BY <2>1, BeyondGap DEF Ordered, InOrder
<1>2. Ordered /\ [Next]_vars => Ordered'
  BY StepOrdered
<1> QED BY <1>1, <1>2, InitOrdered, PTL DEF Spec
-----------------------------------------------------------------------------
(***************************************************************************)
(* Calls and their records.  A call that does not let go of the lock       *)
(* between two records has it for as long as its last record is the last   *)
(* of the wire.                                                            *)
(***************************************************************************)

\* A goroutine has one call at a time, the first record of a tunnel is written before
\* there are others, and packets come behind it.
CallsApart ==
  /\ \A i, j \in 1 .. Len(calls) :
       calls[i].by = calls[j].by /\ calls[i].result = "running" /\ calls[j].result = "running" => i = j
  /\ \A i \in 2 .. Len(calls) : calls[i].op # "first" /\ (calls[1].op = "first" => calls[1].result = "ok")
  /\ \A i \in 1 .. Len(calls) : calls[i].op \in PacketOps =>
       i > 1 /\ calls[1].op \in {"first", "write"} /\ calls[1].result = "ok"

\* What is sealed and not written belongs to the call of the goroutine, what is written
\* to some call.
Owned  == \A t \in Threads : \A i \in 1 .. Len(out[t]) : out[t][i].call = Current(t)
Placed == \A i \in 1 .. Len(wire) : wire[i].call \in 1 .. Len(calls)

\* A zero chunk and a packet are one record.
Single(t) ==
  left[t] # << >> \/ out[t] # << >> =>
    /\ OpOf(t) = "packet" => Len(left[t]) <= 1
    /\ OpOf(t) = "zero" => left[t] \in {<< >>, << 0 >>}
    /\ OpOf(t) \in {"packet", "zero"} /\ out[t] # << >> => left[t] = << >>

\* The calls that let others write between their records.
Yields(c) == kind \in {"unshaped", "raw"} /\ calls[c].op = "write"

Unbroken(c) ==
  /\ wire[Len(wire)].call = c
  /\ holder = calls[c].by \/ calls[c].op = "first"

HoldsOn ==
  \A i \in 1 .. Len(wire) :
    calls[wire[i].call].result = "running" /\ ~Yields(wire[i].call) => Unbroken(wire[i].call)

WholeInv == CallsApart /\ Locked /\ Owned /\ Placed /\ (\A t \in Threads : Single(t)) /\ HoldsOn /\ WholeCalls

\* A call begins behind all others, and ends where it is.
LEMMA Called ==
  ASSUME TypeOK, NEW t \in Threads, Call(t)
  PROVE  /\ Len(calls) \in Nat /\ Len(calls') = Len(calls) + 1 /\ Running(t) = {}
         /\ \A i \in 1 .. Len(calls) : calls'[i] = calls[i]
         /\ Current(t)' = Len(calls) + 1
         /\ \A u \in Threads \ {t} : Current(u)' = Current(u) /\ Running(u)' = Running(u)
         /\ \E op \in Ops, bufs \in UNION {Buffers(o) : o \in Ops} :
              /\ calls'[Len(calls) + 1] = [by |-> t, op |-> op, bufs |-> bufs, result |-> "running"]
              /\ bufs \in Buffers(op) /\ bufs \in Seq(Nat) /\ Allowed(op)
              /\ left' = [left EXCEPT ![t] = bufs]
<1> DEFINE R == [by : Threads, op : Ops, bufs : Seq(Nat), result : Results]
           n == Len(calls)
<1>1. PICK op \in Ops : \E bufs \in Buffers(op) :
        /\ Running(t) = {} /\ Allowed(op)
        /\ calls' = Append(calls, [by |-> t, op |-> op, bufs |-> bufs, result |-> "running"])
        /\ left' = [left EXCEPT ![t] = bufs]
  BY DEF Call
<1>2. PICK bufs \in Buffers(op) :
        /\ Running(t) = {} /\ Allowed(op)
        /\ calls' = Append(calls, [by |-> t, op |-> op, bufs |-> bufs, result |-> "running"])
        /\ left' = [left EXCEPT ![t] = bufs]
  BY <1>1
<1> DEFINE c == [by |-> t, op |-> op, bufs |-> bufs, result |-> "running"]
<1>3. bufs \in Seq(Nat) /\ c \in R
  BY BuffersType DEF Results
<1>4. calls \in Seq(R) /\ n \in Nat
  BY LenProperties DEF TypeOK
<1> HIDE DEF c, R
<1>5. Len(calls') = n + 1 /\ calls'[n + 1] = c /\ \A i \in 1 .. n : calls'[i] = calls[i]
  BY <1>2, <1>3, <1>4, AppendProperties DEF c
<1>6. /\ Running(t)' = {n + 1}
      /\ \A u \in Threads \ {t} : Running(u)' = Running(u) /\ Current(u)' = Current(u)
  BY CallRuns
<1>7. Current(t)' = n + 1
  BY <1>6 DEF Current
<1> QED BY <1>2, <1>3, <1>4, <1>5, <1>6, <1>7 DEF c

LEMMA Returned ==
  ASSUME TypeOK, NEW t \in Threads, Running(t) # {}, NEW result \in Results, Return(t, result)
  PROVE  /\ Len(calls) \in Nat /\ Len(calls') = Len(calls)
         /\ Current(t) \in 1 .. Len(calls)
         /\ calls[Current(t)].by = t /\ calls[Current(t)].result = "running"
         /\ calls'[Current(t)].result = result
         /\ \A i \in 1 .. Len(calls) :
              /\ calls'[i].by = calls[i].by /\ calls'[i].op = calls[i].op /\ calls'[i].bufs = calls[i].bufs
              /\ i # Current(t) => calls'[i] = calls[i]
         /\ \A u \in Threads \ {t} : Current(u)' = Current(u) /\ Running(u)' = Running(u)
<1> DEFINE R == [by : Threads, op : Ops, bufs : Seq(Nat), result : Results]
           n == Len(calls)
           m == Current(t)
<1>1. m \in 1 .. n /\ calls[m].by = t /\ calls[m].result = "running"
  BY CurrentType
<1>2. calls' = [calls EXCEPT ![m].result = result]
  BY DEF Return
<1>3. calls \in Seq(R) /\ n \in Nat /\ calls \in [1 .. n -> R]
  BY LenProperties DEF TypeOK
<1>4. calls' \in Seq(R) /\ \A u \in Threads \ {t} : Running(u)' = Running(u) /\ Current(u)' = Current(u)
  BY ReturnRuns
<1> HIDE DEF m
<1>5. /\ calls' \in [1 .. n -> R] /\ calls'[m].result = result
      /\ \A i \in 1 .. n : /\ calls'[i].by = calls[i].by /\ calls'[i].op = calls[i].op /\ calls'[i].bufs = calls[i].bufs
                           /\ i # m => calls'[i] = calls[i]
  BY <1>1, <1>2, <1>3
<1>6. Len(calls') = n
  BY <1>3, <1>4, <1>5, LenProperties
<1> QED BY <1>1, <1>3, <1>4, <1>5, <1>6 DEF m

\* Whoever seals takes from the front of its call: all of a zero chunk or a packet.
LEMMA AnySeal ==
  ASSUME Types, NEW t \in Threads,
         SealV4(t) \/ SealV5(t) \/ SealShaped(t) \/ SealPlain(t) \/ SealZero(t) \/ SealPacket(t)
  PROVE  /\ Sealing(t) /\ WindowOK(window')
         /\ \E lens \in Seq(0 .. MaxPayload), n \in 0 .. Head(left[t]), time \in Nat :
              /\ Seal(t, lens, n, time) /\ Len(lens) > 0
              /\ n = Head(left[t]) \/ (Head(left[t]) > 0 /\ OpOf(t) \notin PacketOps)
<1>1. Sealing(t) /\ left[t] # << >>
  BY DEF SealV4, SealV5, SealShaped, SealPlain, SealZero, SealPacket, Data, Packet, Sealing
<1>2. Head(left[t]) \in Nat /\ Moment(t) \in Nat /\ clock \in Nat
  BY <1>1, HeadTailProperties, MomentType DEF Types, TypeOK
<1>3. Seq(1 .. MaxPayload) \subseteq Seq(0 .. MaxPayload)
  <2>1. 1 .. MaxPayload \subseteq 0 .. MaxPayload
    BY StreamAssumption
  <2> QED BY <2>1, SeqMonotonic, Zenon
<1>4. CASE SealV4(t) \/ SealV5(t) \/ SealShaped(t) \/ SealPlain(t)
  <2>1. Head(left[t]) > 0 /\ OpOf(t) \notin PacketOps
    BY <1>4 DEF SealV4, SealV5, SealShaped, SealPlain, Data
  <2>2. WindowOK(window') /\ \E time \in Nat : \E lens \in Seq(1 .. MaxPayload), n \in 1 .. Head(left[t]) :
          Len(lens) > 0 /\ Seal(t, lens, n, time)
    BY <1>2, <1>4, SealV4Seals, SealV5Seals, SealShapedSeals, SealPlainSeals
  <2>3. PICK time \in Nat : \E lens \in Seq(1 .. MaxPayload), n \in 1 .. Head(left[t]) :
          Len(lens) > 0 /\ Seal(t, lens, n, time)
    BY <2>2
  <2>4. PICK lens \in Seq(1 .. MaxPayload), n \in 1 .. Head(left[t]) : Len(lens) > 0 /\ Seal(t, lens, n, time)
    BY <2>3
  <2>5. lens \in Seq(0 .. MaxPayload) /\ n \in 0 .. Head(left[t])
    BY <1>2, <1>3
  <2> QED BY <1>1, <2>1, <2>2, <2>4, <2>5
<1>5. CASE SealZero(t)
  <2>1. /\ WindowOK(window') /\ Head(left[t]) = 0
        /\ << 0 >> \in Seq(0 .. MaxPayload) /\ Seal(t, << 0 >>, 0, Moment(t))
    BY <1>5, SealZeroSeals
  <2>2. 0 \in 0 .. Head(left[t]) /\ Len(<< 0 >>) > 0
    BY <2>1
  <2> QED BY <1>1, <1>2, <2>1, <2>2
<1>6. CASE SealPacket(t)
  <2> DEFINE h == Head(left[t])
  <2>1. WindowOK(window') /\ <<h>> \in Seq(0 .. MaxPayload) /\ Seal(t, <<h>>, h, Moment(t))
    BY <1>6, SealPacketSeals
  <2>2. h \in 0 .. h /\ Len(<<h>>) > 0
    BY <1>2
  <2> HIDE DEF h
  <2> QED BY <1>1, <1>2, <2>1, <2>2 DEF h
<1> QED BY <1>4, <1>5, <1>6

LEMMA WholeSeal ==
  ASSUME Types, WholeInv, NEW t \in Threads, Sealing(t),
         NEW lens \in Seq(0 .. MaxPayload), NEW n \in 0 .. Head(left[t]), NEW time \in Nat,
         Seal(t, lens, n, time),
         n = Head(left[t]) \/ (Head(left[t]) > 0 /\ OpOf(t) \notin PacketOps)
  PROVE  WholeInv'
<1> DEFINE r == Records(t, lens, time)
           k == Len(lens)
<1>1. left[t] # << >> /\ holder \in {"free", t} /\ "free" \notin Threads
  BY StreamAssumption DEF Sealing
<1>2. UNCHANGED <<kind, calls, wire>> /\ holder' = t
  BY DEF Seal
<1>3. /\ r \in Seq(Record) /\ Len(r) = k /\ k \in Nat
      /\ out' = [out EXCEPT ![t] = @ \o r] /\ out \in [Threads -> Seq(Record)]
      /\ left \in [Threads -> Seq(Nat)]
  <2>1. /\ Records(t, lens, time) \in Seq(Record) /\ Len(Records(t, lens, time)) = Len(lens)
        /\ out' = [out EXCEPT ![t] = @ \o Records(t, lens, time)]
    BY <1>1, SealType
  <2>2. k \in Nat /\ out \in [Threads -> Seq(Record)] /\ left \in [Threads -> Seq(Nat)]
    BY LenProperties DEF Types, TypeOK
  <2> QED BY <2>1, <2>2
<1>4. \A i \in 1 .. k : r[i].call = Current(t)
  <2>1. DOMAIN lens = 1 .. k
    BY LenProperties
  <2> QED BY <2>1 DEF Records
<1> HIDE DEF r, k
<1>5. out'[t] = out[t] \o r /\ \A u \in Threads \ {t} : out'[u] = out[u] /\ out[u] = << >> /\ left'[u] = left[u]
  <2>1. \A u \in Threads \ {t} : left'[u] = left[u]
    BY <1>3 DEF Seal
  <2>2. \A u \in Threads \ {t} : out[u] = << >>
    BY <1>1 DEF WholeInv, Locked
  <2> QED BY <1>3, <2>1, <2>2
<1>6. \A u \in Threads : Current(u)' = Current(u) /\ OpOf(u)' = OpOf(u)
  BY <1>2 DEF OpOf, Current, Running
<1>7. Locked'
  BY <1>2, <1>5 DEF WholeInv, Locked
<1>8. Owned'
  <2>a. \A u \in Threads \ {t} : \A i \in 1 .. Len(out'[u]) : out'[u][i].call = Current(u)'
    BY <1>5, <1>6 DEF WholeInv, Owned
  <2> SUFFICES ASSUME NEW i \in 1 .. Len(out'[t]) PROVE out'[t][i].call = Current(t)
    <3>1. (\A i \in 1 .. Len(out'[t]) : out'[t][i].call = Current(t)) => \A i \in 1 .. Len(out'[t]) : out'[t][i].call = Current(t)'
      BY <1>6
    <3> QED BY <2>a, <3>1 DEF Owned
  <2> DEFINE m == Len(out[t])
  <2>0. out[t] \in Seq(Record) /\ m \in Nat
    BY <1>3, LenProperties
  <2>b. /\ Len(out[t] \o r) = m + Len(r)
        /\ \A j \in 1 .. m + Len(r) : (out[t] \o r)[j] = IF j <= m THEN out[t][j] ELSE r[j - m]
    BY <1>3, <2>0, ConcatProperties, ZenonT(40)
  <2>1. m \in Nat /\ Len(out'[t]) = m + k /\ out'[t][i] = IF i <= m THEN out[t][i] ELSE r[i - m]
    BY <1>3, <1>5, <2>0, <2>b
  <2> HIDE DEF m
  <2>2. CASE i <= m
    BY <2>1, <2>2 DEF WholeInv, Owned, m
  <2>3. CASE i > m
    <3>1. i - m \in 1 .. k /\ ~(i <= m)
      BY <1>3, <2>1, <2>3
    <3> QED BY <1>4, <2>1, <3>1
  <2> QED BY <2>1, <2>2, <2>3
<1>9. Single(t)'
  <2>1. Single(t) /\ left[t] \in Seq(Nat)
    BY <1>3 DEF WholeInv
  <2>2. Head(left[t]) = left[t][1] /\ Len(Tail(left[t])) = Len(left[t]) - 1 /\ Tail(left[t]) \in Seq(Nat) /\ Len(left[t]) \in Nat
    BY <1>1, <2>1, HeadTailProperties, LenProperties
  <2>3. OpOf(t) = "zero" => left[t] = << 0 >>
    BY <1>1, <2>1 DEF Single
  <2>4. OpOf(t) = "packet" => Len(left[t]) <= 1
    BY <1>1, <2>1 DEF Single
  <2>5. OpOf(t) \in {"packet", "zero"} => n = Head(left[t]) /\ Len(left[t]) <= 1
    <3>1. left[t] = << 0 >> => Head(left[t]) = 0 /\ Len(left[t]) <= 1
      OBVIOUS
    <3> QED BY <2>3, <2>4, <3>1 DEF PacketOps
  <2>6. n = Head(left[t]) => left'[t] = Tail(left[t])
    BY <1>3 DEF Seal
  <2>7. Len(left[t]) <= 1 => Tail(left[t]) = << >>
    <3>1. Len(left[t]) <= 1 => Len(Tail(left[t])) <= 0
      BY <2>2
    <3> QED BY <2>2, <3>1, EmptySeq, LenProperties
  <2>8. OpOf(t) \in {"packet", "zero"} => left'[t] = << >>
    BY <2>5, <2>6, <2>7
  <2>9. OpOf(t)' = OpOf(t) /\ Len(<< >>) <= 1
    BY <1>6
  <2> QED BY <2>8, <2>9 DEF Single
<1>10. \A u \in Threads : Single(u)'
  BY <1>5, <1>6, <1>9 DEF WholeInv, Single
<1>11. HoldsOn'
  <2> SUFFICES ASSUME NEW i \in 1 .. Len(wire), calls[wire[i].call].result = "running", ~Yields(wire[i].call)
               PROVE  Unbroken(wire[i].call)'
    BY <1>2 DEF HoldsOn, Yields
  <2>1. Unbroken(wire[i].call)
    BY DEF WholeInv, HoldsOn
  <2>2. wire[i].call \in 1 .. Len(calls)
    BY DEF WholeInv, Placed
  <2>3. calls[wire[i].call].by \in Threads
    <3>1. calls \in Seq([by : Threads, op : Ops, bufs : Seq(Nat), result : Results])
      BY DEF Types, TypeOK
    <3> PICK c \in 1 .. Len(calls) : c = wire[i].call
      BY <2>2
    <3>2. calls[c] \in [by : Threads, op : Ops, bufs : Seq(Nat), result : Results]
      BY <3>1, ElementOfSeq
    <3> QED BY <3>2
  <2> QED BY <1>1, <1>2, <2>1, <2>3 DEF Unbroken
<1>12. CallsApart' /\ Placed' /\ WholeCalls'
  BY <1>2 DEF WholeInv, CallsApart, Placed, WholeCalls
<1> QED BY <1>7, <1>8, <1>10, <1>11, <1>12 DEF WholeInv

\* While a goroutine has the lock or could take it, no other is between two records
\* of a call.
LEMMA Alone ==
  ASSUME Types, CallsApart, Placed, HoldsOn, NEW t \in Threads, Running(t) # {}, holder \in {"free", t},
         NEW i \in 1 .. Len(wire), calls[wire[i].call].result = "running", ~Yields(wire[i].call)
  PROVE  wire[i].call = Current(t) /\ Unbroken(Current(t))
<1> PICK c \in 1 .. Len(calls) : c = wire[i].call
  BY DEF Placed
<1> PICK m \in 1 .. Len(calls) : m = Current(t)
  BY CurrentType DEF Types
<1>1. calls[m].by = t /\ calls[m].result = "running" /\ Len(calls) \in Nat
  BY CurrentType, LenProperties DEF Types, TypeOK
<1>2. Unbroken(c)
  BY DEF HoldsOn
<1>3. calls[c].by \in Threads
  <2>1. calls \in Seq([by : Threads, op : Ops, bufs : Seq(Nat), result : Results])
    BY DEF Types, TypeOK
  <2>2. calls[c] \in [by : Threads, op : Ops, bufs : Seq(Nat), result : Results]
    BY <2>1, ElementOfSeq
  <2> QED BY <2>2
<1>4. CASE holder = calls[c].by
  <2>1. calls[c].by = t
    BY <1>3, <1>4, StreamAssumption
  <2> QED BY <1>1, <1>2, <2>1 DEF CallsApart
<1>5. CASE calls[c].op = "first"
  <2>1. c = 1
    <3>1. c = 1 \/ c \in 2 .. Len(calls)
      BY <1>1
    <3> QED BY <1>5, <3>1 DEF CallsApart
  <2>2. 2 \notin 2 .. Len(calls)
    BY <1>5, <2>1 DEF CallsApart
  <2>3. m = 1
    BY <1>1, <2>2
  <2> QED BY <1>2, <2>1, <2>3
<1> QED BY <1>2, <1>4, <1>5 DEF Unbroken

\* Records of its call go on the wire of whoever could take the lock.
LEMMA Extended ==
  ASSUME Types, CallsApart, Placed, HoldsOn, WholeCalls,
         NEW t \in Threads, Running(t) # {}, holder \in {"free", t},
         NEW r \in Seq(Record), \A i \in 1 .. Len(r) : r[i].call = Current(t)
  PROVE  /\ Len(wire) \in Nat /\ Len(r) \in Nat /\ Len(wire \o r) = Len(wire) + Len(r)
         /\ wire \o r \in Seq(Record)
         /\ \A i \in 1 .. Len(wire \o r) :
              IF i <= Len(wire) THEN (wire \o r)[i] = wire[i] ELSE (wire \o r)[i].call = Current(t)
         /\ \A i, k \in DOMAIN (wire \o r) : \A j \in i .. k :
              /\ (wire \o r)[i].call = (wire \o r)[k].call /\ (wire \o r)[j].call # (wire \o r)[i].call
              => Yields((wire \o r)[i].call)
<1> DEFINE w == wire \o r
           n == Len(wire)
           m == Current(t)
<1>1. wire \in Seq(Record)
  BY DEF Types, TypeOK
<1>2. /\ n \in Nat /\ Len(r) \in Nat /\ Len(w) = n + Len(r) /\ w \in Seq(Record)
      /\ \A i \in 1 .. n + Len(r) : w[i] = IF i <= n THEN wire[i] ELSE r[i - n]
  BY <1>1, LenProperties, ConcatProperties
<1> HIDE DEF w
<1>3. DOMAIN w = 1 .. n + Len(r) /\ DOMAIN wire = 1 .. n
  BY <1>1, <1>2, LenProperties
<1>4. \A i \in 1 .. n + Len(r) : IF i <= n THEN w[i] = wire[i] ELSE w[i].call = m
  <2> SUFFICES ASSUME NEW i \in 1 .. n + Len(r), ~(i <= n) PROVE w[i].call = m
    BY <1>2
  <2>1. i - n \in 1 .. Len(r)
    BY <1>2
  <2> QED BY <1>2, <2>1
<1> HIDE DEF n
<1>5. ASSUME NEW i \in DOMAIN w, NEW k \in DOMAIN w, NEW j \in i .. k,
             w[i].call = w[k].call, w[j].call # w[i].call
      PROVE  Yields(w[i].call)
  <2>1. j \in 1 .. n + Len(r) /\ i <= j /\ j <= k
    BY <1>2, <1>3
  <2>2. CASE k <= n
    <3>1. i \in DOMAIN wire /\ k \in DOMAIN wire /\ w[i] = wire[i] /\ w[k] = wire[k] /\ w[j] = wire[j]
      BY <1>2, <1>3, <1>4, <2>1, <2>2
    <3> QED BY <1>5, <3>1 DEF WholeCalls, Yields
  <2>3. CASE ~(k <= n)
    <3>1. w[k].call = m
      BY <1>3, <1>4, <2>3
    <3>2. j <= n /\ i <= n
      BY <1>2, <1>3, <1>4, <1>5, <2>1, <3>1
    <3>3. i \in 1 .. n /\ n \in DOMAIN wire /\ j \in i .. n /\ w[i] = wire[i] /\ w[j] = wire[j]
      BY <1>2, <1>3, <1>4, <2>1, <3>2
    <3>4. SUFFICES ASSUME ~Yields(m) PROVE FALSE
      BY <1>5, <3>1
    <3>5. calls[m].result = "running"
      BY CurrentType DEF Types
    <3>6. wire[n].call = m
      BY <1>5, <3>1, <3>3, <3>4, <3>5, Alone DEF Unbroken, n
    <3>7. i \in DOMAIN wire
      BY <1>3, <3>3
    <3> QED BY <1>5, <3>1, <3>3, <3>4, <3>6, <3>7 DEF WholeCalls, Yields
  <2> QED BY <2>2, <2>3
<1> QED BY <1>2, <1>3, <1>4, <1>5 DEF n, w

LEMMA WholeCall ==
  ASSUME Types, WholeInv, NEW t \in Threads, Call(t)
  PROVE  WholeInv'
<1> DEFINE n == Len(calls)
<1>1. /\ n \in Nat /\ Len(calls') = n + 1 /\ Running(t) = {}
      /\ \A i \in 1 .. n : calls'[i] = calls[i]
      /\ Current(t)' = n + 1
      /\ \A u \in Threads \ {t} : Current(u)' = Current(u) /\ Running(u)' = Running(u)
  BY Called DEF Types
<1>2. PICK op \in Ops, bufs \in UNION {Buffers(o) : o \in Ops} :
        /\ calls'[n + 1] = [by |-> t, op |-> op, bufs |-> bufs, result |-> "running"]
        /\ bufs \in Buffers(op) /\ bufs \in Seq(Nat) /\ Allowed(op)
        /\ left' = [left EXCEPT ![t] = bufs]
  BY Called DEF Types
<1> DEFINE c == [by |-> t, op |-> op, bufs |-> bufs, result |-> "running"]
<1>3. c.by = t /\ c.op = op /\ c.bufs = bufs /\ c.result = "running" /\ calls'[n + 1] = c
  BY <1>2
<1> HIDE DEF c
<1>4. UNCHANGED <<kind, wire, holder, out>>
  BY DEF Call
<1>5. calls \in Seq([by : Threads, op : Ops, bufs : Seq(Nat), result : Results]) /\ DOMAIN calls = 1 .. n
  BY LenProperties DEF Types, TypeOK
<1> HIDE DEF n
<1>6. out[t] = << >> /\ left'[t] = bufs /\ \A u \in Threads \ {t} : left'[u] = left[u]
  BY <1>1, <1>2 DEF Types, TypeOK, Busy
<1>7. CallsApart'
  <2>1. ASSUME NEW i \in 1 .. n + 1, NEW j \in 1 .. n + 1,
               calls'[i].by = calls'[j].by, calls'[i].result = "running", calls'[j].result = "running"
        PROVE  i = j
    <3>1. \A x \in 1 .. n : ~(calls[x].by = t /\ calls[x].result = "running")
      BY <1>1, <1>5 DEF Running
    <3>2. (i \in 1 .. n \/ i = n + 1) /\ (j \in 1 .. n \/ j = n + 1)
      BY <1>1
    <3> QED BY <1>1, <1>3, <2>1, <3>1, <3>2 DEF WholeInv, CallsApart, n
  <2>2. ASSUME NEW i \in 2 .. n + 1
        PROVE  calls'[i].op # "first" /\ (calls'[1].op = "first" => calls'[1].result = "ok")
    <3>1. 1 \in 1 .. n /\ calls # << >> /\ calls'[1] = calls[1]
      BY <1>1, <1>5
    <3>2. CASE i \in 2 .. n
      <4>1. calls'[i] = calls[i]
        BY <1>1, <3>2
      <4> QED BY <3>1, <3>2, <4>1 DEF WholeInv, CallsApart, n
    <3>3. CASE i = n + 1
      BY <1>2, <1>3, <3>1, <3>3 DEF Allowed
    <3> QED BY <1>1, <3>2, <3>3
  <2>3. ASSUME NEW i \in 1 .. n + 1, calls'[i].op \in PacketOps
        PROVE  i > 1 /\ calls'[1].op \in {"first", "write"} /\ calls'[1].result = "ok"
    <3>1. CASE i \in 1 .. n
      BY <1>1, <2>3, <3>1 DEF WholeInv, CallsApart, n
    <3>2. CASE i = n + 1
      <4>1. calls # << >> /\ calls[1].op \in {"first", "write"} /\ calls[1].result = "ok"
        BY <1>2, <1>3, <2>3, <3>2 DEF Allowed
      <4>2. n # 0
        BY <1>5, <4>1, EmptySeq DEF n
      <4> QED BY <1>1, <3>2, <4>1, <4>2
    <3> QED BY <1>1, <3>1, <3>2
  <2> QED BY <1>1, <2>1, <2>2, <2>3 DEF CallsApart
<1>8. \A i \in 1 .. Len(wire) : wire[i].call \in 1 .. n /\ calls'[wire[i].call] = calls[wire[i].call]
  BY <1>1 DEF WholeInv, Placed, n
<1>9. Placed' /\ Locked'
  BY <1>1, <1>4, <1>8 DEF WholeInv, Locked, Placed, n
<1>10. Owned'
  <2> SUFFICES ASSUME NEW u \in Threads \ {t} PROVE \A i \in 1 .. Len(out[u]) : out[u][i].call = Current(u)'
    <3>1. \A i \in 1 .. Len(out[t]) : out[t][i].call = Current(t)'
      BY <1>6
    <3> QED BY <1>4, <3>1 DEF Owned
  <2> QED BY <1>1 DEF WholeInv, Owned
<1>11. \A u \in Threads : Single(u)'
  <2>1. OpOf(t)' = op
    BY <1>1, <1>3 DEF OpOf
  <2>2. Single(t)'
    <3>1. op = "packet" => Len(bufs) <= 1
      <4> SUFFICES ASSUME op = "packet" PROVE Len(bufs) <= 1
        OBVIOUS
      <4>1. PICK k \in Sizes : bufs = <<k>>
        BY <1>2 DEF Buffers
      <4> QED BY <4>1
    <3>2. op = "zero" => bufs = << 0 >>
      BY <1>2 DEF Buffers
    <3> QED BY <1>4, <1>6, <2>1, <3>1, <3>2 DEF Single
  <2>3. ASSUME NEW u \in Threads \ {t} PROVE Single(u)'
    <3>1. CASE left[u] = << >> /\ out[u] = << >>
      BY <1>4, <1>6, <3>1 DEF Single
    <3>2. CASE ~(left[u] = << >> /\ out[u] = << >>)
      <4>1. Running(u) # {}
        BY <3>2 DEF Types, Busy
      <4>2. Current(u) \in 1 .. n
        BY <4>1, CurrentType DEF Types, n
      <4>3. OpOf(u)' = OpOf(u)
        BY <1>1, <4>2 DEF OpOf
      <4> QED BY <1>4, <1>6, <4>3 DEF WholeInv, Single
    <3> QED BY <3>1, <3>2
  <2> QED BY <2>2, <2>3
<1>12. HoldsOn'
  <2> SUFFICES ASSUME NEW i \in 1 .. Len(wire), calls'[wire[i].call].result = "running", ~Yields(wire[i].call)'
               PROVE  Unbroken(wire[i].call)'
    BY <1>4 DEF HoldsOn, Yields
  <2>1. Unbroken(wire[i].call)
    BY <1>4, <1>8 DEF WholeInv, HoldsOn, Yields
  <2> QED BY <1>4, <1>8, <2>1 DEF Unbroken
<1>13. WholeCalls'
  <2>1. DOMAIN wire = 1 .. Len(wire)
    BY LenProperties DEF Types, TypeOK
  <2> QED BY <1>4, <1>8, <2>1 DEF WholeInv, WholeCalls
<1> QED BY <1>7, <1>9, <1>10, <1>11, <1>12, <1>13 DEF WholeInv

LEMMA WholeReturn ==
  ASSUME Types, WholeInv, NEW t \in Threads, left[t] # << >> \/ out[t] # << >>, holder \in {"free", t},
         NEW result \in Results \ {"running"}, Return(t, result),
         NEW k \in 0 .. Len(out[t]), wire' = wire \o SubSeq(out[t], 1, k), UNCHANGED kind
  PROVE  WholeInv'
<1> DEFINE m == Current(t)
           n == Len(calls)
           r == SubSeq(out[t], 1, k)
<1>1. Running(t) # {}
  BY DEF Types, Busy
<1>2. /\ n \in Nat /\ Len(calls') = n /\ m \in 1 .. n
      /\ calls[m].by = t /\ calls[m].result = "running" /\ calls'[m].result = result
      /\ \A i \in 1 .. n :
           /\ calls'[i].by = calls[i].by /\ calls'[i].op = calls[i].op /\ calls'[i].bufs = calls[i].bufs
           /\ i # m => calls'[i] = calls[i]
      /\ \A u \in Threads \ {t} : Current(u)' = Current(u) /\ Running(u)' = Running(u)
  BY <1>1, Returned DEF Types
<1>3. /\ left' = [left EXCEPT ![t] = << >>] /\ out' = [out EXCEPT ![t] = << >>] /\ holder' = "free"
  BY DEF Return
<1>4. left \in [Threads -> Seq(Nat)] /\ out \in [Threads -> Seq(Record)]
  BY DEF Types, TypeOK
<1>5. /\ left'[t] = << >> /\ \A u \in Threads : out'[u] = << >>
      /\ \A u \in Threads \ {t} : left'[u] = left[u]
  BY <1>3, <1>4, StreamAssumption DEF WholeInv, Locked
<1>6. r \in Seq(Record) /\ Len(r) = k /\ \A i \in 1 .. k : r[i].call = m
  <2>1. /\ Len(out[t]) \in Nat /\ out[t] \in Seq(Record)
        /\ \A i \in 1 .. k : out[t][i] \in Record /\ out[t][i].call = m
    BY <1>4, LenProperties, ElementOfSeq DEF WholeInv, Owned
  <2> QED BY <2>1, SubSeqProperties
<1> HIDE DEF m, n, r
<1>7. /\ Len(wire) \in Nat /\ Len(r) \in Nat /\ Len(wire \o r) = Len(wire) + Len(r)
      /\ wire \o r \in Seq(Record)
      /\ \A i \in 1 .. Len(wire \o r) :
           IF i <= Len(wire) THEN (wire \o r)[i] = wire[i] ELSE (wire \o r)[i].call = m
      /\ \A i, l \in DOMAIN (wire \o r) : \A j \in i .. l :
           /\ (wire \o r)[i].call = (wire \o r)[l].call /\ (wire \o r)[j].call # (wire \o r)[i].call
           => Yields((wire \o r)[i].call)
  BY <1>1, <1>6, Extended DEF WholeInv, m
<1>8. wire' = wire \o r
  BY DEF r
<1>9. \A i \in 1 .. Len(wire') : wire'[i].call \in 1 .. n /\ (i <= Len(wire) => wire'[i] = wire[i])
                                /\ (~(i <= Len(wire)) => wire'[i].call = m)
  <2> SUFFICES ASSUME NEW i \in 1 .. Len(wire')
               PROVE  /\ wire'[i].call \in 1 .. n /\ (i <= Len(wire) => wire'[i] = wire[i])
                      /\ (~(i <= Len(wire)) => wire'[i].call = m)
    OBVIOUS
  <2>1. IF i <= Len(wire) THEN wire'[i] = wire[i] ELSE wire'[i].call = m
    BY <1>7, <1>8
  <2>2. i <= Len(wire) => wire[i].call \in 1 .. n
    BY <1>7 DEF WholeInv, Placed, n
  <2> QED BY <1>2, <2>1, <2>2
<1>10. Placed' /\ Locked' /\ Owned'
  BY <1>2, <1>5, <1>9 DEF Placed, Locked, Owned, n
<1>11. CallsApart'
  <2>1. ASSUME NEW i \in 1 .. n, NEW j \in 1 .. n,
               calls'[i].by = calls'[j].by, calls'[i].result = "running", calls'[j].result = "running"
        PROVE  i = j
    <3>1. i # m /\ j # m
      BY <1>2, <2>1
    <3> QED BY <1>2, <2>1, <3>1 DEF WholeInv, CallsApart, n
  <2>2. n > 0 /\ (calls[1].result = "ok" => calls'[1] = calls[1]) /\ calls'[1].op = calls[1].op
    BY <1>2
  <2>3. \A i \in 2 .. n : calls'[i].op # "first" /\ (calls'[1].op = "first" => calls'[1].result = "ok")
    <3>1. \A i \in 2 .. n : i \in 1 .. n
      BY <1>2
    <3> QED BY <1>2, <2>2, <3>1 DEF WholeInv, CallsApart, n
  <2>4. \A i \in 1 .. n : calls'[i].op \in PacketOps =>
          i > 1 /\ calls'[1].op \in {"first", "write"} /\ calls'[1].result = "ok"
    BY <1>2, <2>2 DEF WholeInv, CallsApart, n
  <2> QED BY <1>2, <2>1, <2>3, <2>4 DEF CallsApart, n
<1>12. \A u \in Threads : Single(u)'
  <2>1. Single(t)'
    BY <1>5 DEF Single
  <2>2. ASSUME NEW u \in Threads \ {t} PROVE Single(u)'
    <3>1. CASE left[u] = << >>
      BY <1>5, <3>1 DEF Single
    <3>2. CASE left[u] # << >>
      <4>1. Running(u) # {}
        BY <3>2 DEF Types, Busy
      <4>2. Current(u) \in 1 .. n
        BY <4>1, CurrentType DEF Types, n
      <4>3. OpOf(u)' = OpOf(u)
        BY <1>2, <4>2 DEF OpOf
      <4>4. Len(<< >>) = 0 /\ Single(u)
        BY DEF WholeInv
      <4> QED BY <1>5, <3>2, <4>3, <4>4 DEF Single
    <3> QED BY <3>1, <3>2
  <2> QED BY <2>1, <2>2
<1>13. HoldsOn'
  <2> SUFFICES ASSUME NEW i \in 1 .. Len(wire'), calls'[wire'[i].call].result = "running",
                      ~(kind' \in {"unshaped", "raw"} /\ calls'[wire'[i].call].op = "write")
               PROVE  FALSE
    BY Zenon DEF HoldsOn, Yields
  <2>1. wire'[i].call # m /\ wire'[i].call \in 1 .. n
    BY <1>2, <1>9
  <2>2. i \in 1 .. Len(wire) /\ wire'[i] = wire[i]
    <3>1. i <= Len(wire) /\ wire'[i] = wire[i]
      BY <1>9, <2>1
    <3>2. Len(wire) \in Nat
      BY <1>7
    <3> QED BY <3>1, <3>2
  <2>3. calls[wire[i].call].result = "running" /\ ~Yields(wire[i].call)
    BY <1>2, <2>1, <2>2 DEF Yields
  <2> QED BY <1>1, <2>1, <2>2, <2>3, Alone DEF WholeInv, m
<1>14. WholeCalls'
  <2> SUFFICES ASSUME NEW i \in DOMAIN wire', NEW l \in DOMAIN wire', NEW j \in i .. l,
                      wire'[i].call = wire'[l].call, wire'[j].call # wire'[i].call
               PROVE  kind \in {"unshaped", "raw"} /\ calls'[wire'[i].call].op = "write"
    BY DEF WholeCalls
  <2>1. Yields(wire'[i].call)
    BY <1>7, <1>8
  <2>2. wire'[i].call \in 1 .. n
    <3>1. DOMAIN wire' = 1 .. Len(wire')
      BY <1>7, <1>8, LenProperties
    <3> QED BY <1>9, <3>1
  <2> QED BY <1>2, <2>1, <2>2 DEF Yields
<1> QED BY <1>10, <1>11, <1>12, <1>13, <1>14 DEF WholeInv

\* A write that is not the last of its call.
LEMMA WholeFlush ==
  ASSUME Types, WholeInv, NEW t \in Threads, Flush(t)
  PROVE  WholeInv'
<1> DEFINE m == Current(t)
           n == Len(calls)
<1>1. out[t] # << >> /\ (left[t] = << >> \/ ~Gathers(t)) /\ wire' = wire \o out[t] /\ UNCHANGED kind
  BY DEF Flush
<1>2. Running(t) # {} /\ holder = t
  BY <1>1 DEF Types, Busy, WholeInv, Locked
<1>3. out[t] \in Seq(Record) /\ Len(out[t]) \in Nat /\ Len(out[t]) # 0
      /\ out \in [Threads -> Seq(Record)] /\ left \in [Threads -> Seq(Nat)]
  BY <1>1, EmptySeq, LenProperties DEF Types, TypeOK
<1>4. CASE left[t] = << >>
  <2>1. Return(t, "ok")
    BY <1>4 DEF Flush
  <2>2. SubSeq(out[t], 1, Len(out[t])) = out[t]
    BY <1>3, SubSeqFull
  <2>3. "ok" \in Results \ {"running"} /\ Len(out[t]) \in 0 .. Len(out[t])
    BY <1>3 DEF Results
  <2> QED BY <1>1, <1>2, <2>1, <2>2, <2>3, WholeReturn
<1>5. CASE left[t] # << >>
  <2>1. /\ out' = [out EXCEPT ![t] = << >>] /\ UNCHANGED <<calls, left>>
        /\ kind \notin {"unshaped", "raw"} => holder' = holder
    BY <1>5 DEF Flush
  <2>2. \A u \in Threads : out'[u] = << >>
    BY <1>2, <1>3, <2>1 DEF WholeInv, Locked
  <2>3. \A i \in 1 .. Len(out[t]) : out[t][i].call = m
    BY DEF WholeInv, Owned
  <2>4. m \in 1 .. n /\ calls[m].by = t
    BY <1>2, CurrentType DEF Types
  <2> HIDE DEF m, n
  <2>5. /\ Len(wire) \in Nat /\ Len(wire') = Len(wire) + Len(out[t])
        /\ wire' \in Seq(Record)
        /\ \A i \in 1 .. Len(wire') : IF i <= Len(wire) THEN wire'[i] = wire[i] ELSE wire'[i].call = m
        /\ \A i, l \in DOMAIN wire' : \A j \in i .. l :
             /\ wire'[i].call = wire'[l].call /\ wire'[j].call # wire'[i].call
             => Yields(wire'[i].call)
    BY <1>1, <1>2, <1>3, <2>3, Extended DEF WholeInv, m
  <2>6. ASSUME NEW i \in 1 .. Len(wire')
        PROVE  wire'[i].call \in 1 .. n /\ (wire'[i].call # m => i \in 1 .. Len(wire) /\ wire'[i] = wire[i])
    <3>1. IF i <= Len(wire) THEN wire'[i] = wire[i] ELSE wire'[i].call = m
      BY <2>5
    <3>2. i <= Len(wire) => wire[i].call \in 1 .. n
      BY <2>5 DEF WholeInv, Placed, n
    <3> QED BY <2>4, <2>5, <3>1, <3>2
  <2>7. Placed' /\ Locked' /\ Owned' /\ CallsApart'
    <3>1. Len(<< >>) = 0
      OBVIOUS
    <3> QED BY <2>1, <2>2, <2>6, <3>1 DEF WholeInv, Placed, Locked, Owned, CallsApart, n
  <2>8. \A u \in Threads : Single(u)'
    <3>1. \A u \in Threads : OpOf(u)' = OpOf(u)
      BY <2>1 DEF OpOf, Current, Running
    <3>2. Len(<< >>) = 0
      OBVIOUS
    <3> QED BY <2>1, <2>2, <3>1, <3>2 DEF WholeInv, Single
  <2>9. HoldsOn'
    <3> SUFFICES ASSUME NEW i \in 1 .. Len(wire'), calls'[wire'[i].call].result = "running",
                        ~(kind' \in {"unshaped", "raw"} /\ calls'[wire'[i].call].op = "write")
                 PROVE  /\ wire'[Len(wire')].call = wire'[i].call
                        /\ holder' = calls'[wire'[i].call].by \/ calls'[wire'[i].call].op = "first"
      BY DEF HoldsOn, Yields, Unbroken
    <3>1. CASE wire'[i].call = m
      <4>1. wire'[Len(wire')].call = m
        <5>1. Len(wire') \in 1 .. Len(wire') /\ ~(Len(wire') <= Len(wire))
          BY <1>3, <2>5
        <5> QED BY <2>5, <5>1
      <4>2. CASE kind \notin {"unshaped", "raw"}
        BY <1>2, <2>1, <2>4, <3>1, <4>1, <4>2
      <4>3. CASE kind \in {"unshaped", "raw"}
        <5>1. OpOf(t) \in Ops /\ OpOf(t) = calls[m].op
          <6>1. calls \in Seq([by : Threads, op : Ops, bufs : Seq(Nat), result : Results])
            BY DEF Types, TypeOK
          <6>2. calls[m] \in [by : Threads, op : Ops, bufs : Seq(Nat), result : Results]
            BY <2>4, <6>1, ElementOfSeq DEF n
          <6> QED BY <6>2 DEF OpOf, m
        <5>2. OpOf(t) \notin {"vector", "packets", "packet", "zero"}
          BY <1>1, <1>5 DEF Gathers, WholeInv, Single
        <5>3. OpOf(t) # "write"
          BY <1>1, <2>1, <3>1, <4>3, <5>1
        <5> QED BY <2>1, <3>1, <4>1, <5>1, <5>2, <5>3 DEF Ops
      <4> QED BY <4>2, <4>3
    <3>2. CASE wire'[i].call # m
      <4>1. i \in 1 .. Len(wire) /\ wire'[i] = wire[i]
        BY <2>6, <3>2
      <4>2. calls[wire[i].call].result = "running" /\ ~Yields(wire[i].call)
        BY <1>1, <2>1, <4>1 DEF Yields
      <4> QED BY <1>2, <3>2, <4>1, <4>2, Alone DEF WholeInv, m
    <3> QED BY <3>1, <3>2
  <2>10. WholeCalls'
    BY <1>1, <2>1, <2>5 DEF WholeCalls, Yields
  <2> QED BY <2>7, <2>8, <2>9, <2>10 DEF WholeInv
<1> QED BY <1>4, <1>5

LEMMA StepWhole == Types /\ WholeInv /\ [Next]_vars => WholeInv'
<1> SUFFICES ASSUME Types, WholeInv, [Next]_vars PROVE WholeInv'
  OBVIOUS
<1>1. ASSUME NEW t \in Threads, Call(t) PROVE WholeInv'
  BY <1>1, WholeCall
<1>2. ASSUME NEW t \in Threads,
             SealV4(t) \/ SealV5(t) \/ SealShaped(t) \/ SealPlain(t) \/ SealZero(t) \/ SealPacket(t)
      PROVE  WholeInv'
  <2>1. PICK lens \in Seq(0 .. MaxPayload), n \in 0 .. Head(left[t]), time \in Nat :
          /\ Seal(t, lens, n, time) /\ Len(lens) > 0
          /\ n = Head(left[t]) \/ (Head(left[t]) > 0 /\ OpOf(t) \notin PacketOps)
    BY <1>2, AnySeal
  <2>2. Sealing(t)
    BY <1>2, AnySeal
  <2> QED BY <2>1, <2>2, WholeSeal
<1>3. ASSUME NEW t \in Threads, Refuse(t) PROVE WholeInv'
  <2>1. /\ left[t] # << >> /\ holder \in {"free", t} /\ Return(t, "refused") /\ UNCHANGED <<kind, wire>>
    BY <1>3 DEF Refuse, Packet, Sealing
  <2>2. out[t] \in Seq(Record) /\ wire \in Seq(Record) /\ Len(out[t]) \in Nat
    BY LenProperties DEF Types, TypeOK
  <2>3. SubSeq(out[t], 1, 0) = << >> /\ 0 \in 0 .. Len(out[t])
    BY <2>2, SubSeqEmpty
  <2>4. wire' = wire \o SubSeq(out[t], 1, 0)
    BY <2>1, <2>2, <2>3, ConcatEmptySeq
  <2>5. "refused" \in Results \ {"running"}
    BY DEF Results
  <2> QED BY <2>1, <2>3, <2>4, <2>5, WholeReturn
<1>4. ASSUME NEW t \in Threads, Flush(t) PROVE WholeInv'
  BY <1>4, WholeFlush
<1>5. ASSUME NEW t \in Threads, FlushFails(t) PROVE WholeInv'
  <2>1. /\ out[t] # << >> /\ Return(t, "failed") /\ UNCHANGED kind
        /\ \E k \in 0 .. (IF up THEN Len(out[t]) - 1 ELSE 0) : wire' = wire \o SubSeq(out[t], 1, k)
    BY <1>5 DEF FlushFails
  <2>2. Len(out[t]) \in Nat /\ Len(out[t]) # 0 /\ holder = t
    BY <2>1, EmptySeq, LenProperties DEF Types, TypeOK, WholeInv, Locked
  <2>3. PICK k \in 0 .. (IF up THEN Len(out[t]) - 1 ELSE 0) : wire' = wire \o SubSeq(out[t], 1, k)
    BY <2>1
  <2>4. k \in 0 .. Len(out[t]) /\ "failed" \in Results \ {"running"}
    BY <2>2 DEF Results
  <2> QED BY <2>1, <2>2, <2>3, <2>4, WholeReturn
<1>6. CASE Tick \/ UNCHANGED vars
  <2>1. UNCHANGED <<kind, calls, wire, holder, left, out>>
    BY <1>6 DEF Tick, vars, writerVars
  <2>2. \A u \in Threads : Current(u)' = Current(u) /\ OpOf(u)' = OpOf(u)
    BY <2>1 DEF OpOf, Current, Running
  <2>3. Locked' /\ Owned' /\ \A u \in Threads : Single(u)'
    BY <2>1, <2>2 DEF WholeInv, Locked, Owned, Single
  <2>4. CallsApart' /\ Placed' /\ HoldsOn' /\ WholeCalls'
    BY <2>1 DEF WholeInv, CallsApart, Placed, HoldsOn, WholeCalls, Unbroken, Yields
  <2> QED BY <2>3, <2>4 DEF WholeInv
<1> QED BY <1>1, <1>2, <1>3, <1>4, <1>5, <1>6 DEF Next

LEMMA InitWhole == Init => WholeInv
<1> SUFFICES ASSUME Init PROVE WholeInv
  OBVIOUS
<1>1. Len(calls) = 0 /\ Len(wire) = 0 /\ wire = << >> /\ \A t \in Threads : left[t] = << >> /\ out[t] = << >>
  BY DEF Init
<1>2. CallsApart /\ Placed /\ HoldsOn
  BY <1>1 DEF CallsApart, Placed, HoldsOn
<1>3. Locked /\ Owned /\ \A t \in Threads : Single(t)
  BY <1>1 DEF Locked, Owned, Single
<1>4. WholeCalls
  <2>1. DOMAIN wire = 1 .. 0
    BY <1>1, InitTypes, LenProperties DEF Types, TypeOK
  <2> QED BY <2>1 DEF WholeCalls
<1> QED BY <1>2, <1>3, <1>4 DEF WholeInv

LEMMA WholeHolds == Spec => [](Types /\ WholeInv)
<1> QED BY InitTypes, StepTypes, InitWhole, StepWhole, PTL DEF Spec

\* The records of a call stand together on the wire, however the goroutines interleave
\* and wherever the connection fails.
THEOREM CallsStayWhole == Spec => []WholeCalls
<1>1. WholeInv => WholeCalls
  BY DEF WholeInv
<1> QED BY WholeHolds, <1>1, PTL

-----------------------------------------------------------------------------
(***************************************************************************)
(* Packets that fit.  Packets come behind a request or reply that was      *)
(* written, and a writer that has written takes at least a step.           *)
(***************************************************************************)
Started == (kind = "v4" => ~window.fresh) /\ (kind = "v5" => window.last # 0)

\* What a packet call has left is of its packets.
Parts(t) ==
  left[t] # << >> /\ OpOf(t) \in PacketOps =>
    \A i \in 1 .. Len(left[t]) :
      \E j \in 1 .. Len(calls[Current(t)].bufs) : calls[Current(t)].bufs[j] = left[t][i]

FitInv ==
  /\ \/ \E i \in 1 .. Len(calls) : calls[i].result = "ok"
     \/ \E t \in Threads : out[t] # << >>
     \/ limit # 0
     => Started
  /\ \A t \in Threads : Parts(t)
  /\ MTUAccepted

\* Whatever is sealed, the writer has started.
LEMMA SealStarts ==
  ASSUME Types, FitInv, NEW t \in Threads,
         SealV4(t) \/ SealV5(t) \/ SealShaped(t) \/ SealPlain(t) \/ SealZero(t) \/ SealPacket(t)
  PROVE  Started'
<1>1. UNCHANGED kind
  BY ZenonT(40) DEF SealV4, SealV5, SealShaped, SealPlain, SealZero, SealPacket, Seal
<1>2. /\ Moment(t) \in Int /\ clock \in Int /\ clock # 0 /\ firstLimit \in FirstLimits /\ WindowOK(window)
      /\ kind = "v5" => Moment(t) = clock
  BY MomentType DEF Types, TypeOK, Moment
<1>3. CASE SealZero(t) \/ SealPacket(t)
  <2>1. window' = Spend(window, Moment(t))
    BY <1>3 DEF SealZero, SealPacket
  <2> QED BY <1>1, <1>2, <2>1, SpendType DEF Started
<1>4. CASE SealV4(t)
  <2>1. kind = "v4"
    BY <1>4 DEF SealV4
  <2>2. ~window'.fresh
    <3>1. CASE limit = 0
      <4> DEFINE a == Advance4(window, Moment(t))
      <4>1. window' = [a EXCEPT !.fresh = FALSE]
        BY <1>4, <3>1 DEF SealV4
      <4>2. WindowOK(a)
        BY <1>2, Limit4Type
      <4> HIDE DEF a
      <4> QED BY <4>1, <4>2 DEF WindowOK, Window
    <3>2. CASE limit # 0
      <4>1. window' = window
        BY <1>4, <3>2 DEF SealV4
      <4> QED BY <2>1, <3>2, <4>1 DEF FitInv, Started
    <3> QED BY <3>1, <3>2
  <2> QED BY <1>1, <2>1, <2>2 DEF Started
<1>5. CASE SealV5(t)
  <2>1. kind = "v5"
    BY <1>5 DEF SealV5
  <2> DEFINE w == NextBatch(window, clock)
             n == Least(Head(left[t]), w.room)
  <2>2. w \in Window /\ w.last = clock
    BY <1>2, BatchType DEF WindowOK
  <2>3. window' = [w EXCEPT !.room = @ - n, !.fresh = FALSE]
    BY <1>5 DEF SealV5
  <2> HIDE DEF w, n
  <2>4. window'.last = clock
    BY <2>2, <2>3 DEF Window
  <2> QED BY <1>1, <1>2, <2>1, <2>4 DEF Started
<1>6. CASE SealShaped(t) \/ SealPlain(t)
  BY <1>1, <1>6 DEF SealShaped, SealPlain, Started
<1> QED BY <1>3, <1>4, <1>5, <1>6, SMTT(30)

LEMMA FitSeal ==
  ASSUME Types, FitInv, NEW t \in Threads,
         SealV4(t) \/ SealV5(t) \/ SealShaped(t) \/ SealPlain(t) \/ SealZero(t) \/ SealPacket(t)
  PROVE  FitInv'
<1>1. Sealing(t) /\ left[t] # << >>
  BY AnySeal DEF Sealing
<1>2. PICK lens \in Seq(0 .. MaxPayload), n \in 0 .. Head(left[t]), time \in Nat :
        /\ Seal(t, lens, n, time)
        /\ n = Head(left[t]) \/ (Head(left[t]) > 0 /\ OpOf(t) \notin PacketOps)
  BY AnySeal
<1>3. UNCHANGED calls /\ \A u \in Threads : Current(u)' = Current(u) /\ OpOf(u)' = OpOf(u)
  BY <1>2 DEF Seal, OpOf, Current, Running
<1>4. left \in [Threads -> Seq(Nat)] /\ left[t] \in Seq(Nat)
  BY DEF Types, TypeOK
<1>5. \A u \in Threads \ {t} : left'[u] = left[u]
  BY <1>2, <1>4 DEF Seal
<1>6. Parts(t)'
  <2> SUFFICES ASSUME OpOf(t) \in PacketOps, NEW i \in 1 .. Len(left'[t])
               PROVE  \E j \in 1 .. Len(calls[Current(t)].bufs) : calls[Current(t)].bufs[j] = left'[t][i]
    BY <1>3 DEF Parts
  <2>1. left'[t] = Tail(left[t])
    BY <1>2, <1>4 DEF Seal
  <2>2. /\ Len(left[t]) \in Nat /\ Len(Tail(left[t])) = Len(left[t]) - 1
        /\ \A k \in 1 .. Len(left[t]) - 1 : Tail(left[t])[k] = left[t][k + 1]
    BY <1>1, <1>4, HeadTailProperties, LenProperties
  <2>3. i + 1 \in 1 .. Len(left[t]) /\ left'[t][i] = left[t][i + 1]
    BY <2>1, <2>2
  <2> QED BY <1>1, <2>3 DEF FitInv, Parts
<1>7. ASSUME NEW u \in Threads PROVE Parts(u)'
  <2>1. CASE u # t
    <3>1. Parts(u) /\ left'[u] = left[u]
      BY <1>5, <2>1 DEF FitInv
    <3>2. Current(u)' = Current(u) /\ OpOf(u)' = OpOf(u) /\ UNCHANGED calls
      BY <1>3
    <3> QED BY <3>1, <3>2 DEF Parts
  <2> QED BY <1>6, <2>1
<1>8. MTUAccepted'
  BY <1>2, <1>3 DEF Seal, FitInv, MTUAccepted, MTU
<1> QED BY <1>7, <1>8, SealStarts DEF FitInv

LEMMA FitCall ==
  ASSUME Types, FitInv, NEW t \in Threads, Call(t)
  PROVE  FitInv'
<1> DEFINE n == Len(calls)
<1>1. /\ n \in Nat /\ Len(calls') = n + 1 /\ Running(t) = {}
      /\ \A i \in 1 .. n : calls'[i] = calls[i]
      /\ Current(t)' = n + 1
      /\ \A u \in Threads \ {t} : Current(u)' = Current(u) /\ Running(u)' = Running(u)
  BY Called DEF Types
<1>2. PICK op \in Ops, bufs \in UNION {Buffers(o) : o \in Ops} :
        /\ calls'[n + 1] = [by |-> t, op |-> op, bufs |-> bufs, result |-> "running"]
        /\ bufs \in Seq(Nat) /\ left' = [left EXCEPT ![t] = bufs]
  BY Called DEF Types
<1>3. calls'[n + 1].bufs = bufs /\ calls'[n + 1].result = "running"
  BY <1>2
<1>4. UNCHANGED <<kind, window, limit, out>>
  BY DEF Call
<1>5. calls \in Seq([by : Threads, op : Ops, bufs : Seq(Nat), result : Results]) /\ DOMAIN calls = 1 .. n
      /\ DOMAIN calls' = 1 .. n + 1
  <2>1. calls' \in Seq([by : Threads, op : Ops, bufs : Seq(Nat), result : Results])
    BY CallRuns DEF Types
  <2> QED BY <1>1, <2>1, LenProperties DEF Types, TypeOK
<1> HIDE DEF n
<1>6. left'[t] = bufs /\ \A u \in Threads \ {t} : left'[u] = left[u]
  BY <1>2 DEF Types, TypeOK
<1>7. Parts(t)'
  <2>1. \A i \in 1 .. Len(bufs) : \E j \in 1 .. Len(bufs) : bufs[j] = bufs[i]
    OBVIOUS
  <2> QED BY <1>1, <1>3, <1>6, <2>1 DEF Parts
<1>8. ASSUME NEW u \in Threads \ {t} PROVE Parts(u)'
  <2>1. CASE left[u] = << >>
    BY <1>6, <2>1 DEF Parts
  <2>2. CASE left[u] # << >>
    <3>1. Running(u) # {}
      BY <2>2 DEF Types, Busy
    <3>2. Current(u) \in 1 .. n
      BY <3>1, CurrentType DEF Types, n
    <3>3. OpOf(u)' = OpOf(u) /\ calls'[Current(u)] = calls[Current(u)]
      BY <1>1, <3>2 DEF OpOf
    <3>4. Parts(u) /\ Current(u)' = Current(u) /\ left'[u] = left[u]
      BY <1>1, <1>6 DEF FitInv
    <3> QED BY <3>3, <3>4 DEF Parts
  <2> QED BY <2>1, <2>2
<1>9. MTUAccepted'
  <2> SUFFICES ASSUME NEW c \in 1 .. n + 1, calls'[c].result = "refused"
               PROVE  \E i \in DOMAIN calls'[c].bufs : calls'[c].bufs[i] > MTU
    BY <1>4, <1>5 DEF MTUAccepted, MTU
  <2>1. c \in 1 .. n /\ calls'[c] = calls[c]
    BY <1>1, <1>3
  <2> QED BY <1>5, <2>1 DEF FitInv, MTUAccepted
<1>10. (\E i \in 1 .. Len(calls') : calls'[i].result = "ok") => \E i \in 1 .. n : calls[i].result = "ok"
  <2> SUFFICES ASSUME NEW i \in 1 .. n + 1, calls'[i].result = "ok" PROVE \E j \in 1 .. n : calls[j].result = "ok"
    BY <1>1
  <2>1. i \in 1 .. n
    BY <1>1, <1>3
  <2> QED BY <1>1, <2>1
<1> QED BY <1>4, <1>7, <1>8, <1>9, <1>10 DEF FitInv, Started, n

\* A call that ends with an error of its own has a packet that is larger than the MTU.
LEMMA FitReturn ==
  ASSUME Types, FitInv, NEW t \in Threads, left[t] # << >> \/ out[t] # << >>,
         NEW result \in Results, Return(t, result), UNCHANGED <<kind, window>>,
         result = "ok" => Started,
         result = "refused" =>
           \E j \in 1 .. Len(calls[Current(t)].bufs) : calls[Current(t)].bufs[j] > MTU
  PROVE  FitInv'
<1> DEFINE m == Current(t)
           n == Len(calls)
<1>1. Running(t) # {}
  BY DEF Types, Busy
<1>2. /\ n \in Nat /\ Len(calls') = n /\ m \in 1 .. n
      /\ calls'[m].result = result
      /\ \A i \in 1 .. n :
           /\ calls'[i].by = calls[i].by /\ calls'[i].op = calls[i].op /\ calls'[i].bufs = calls[i].bufs
           /\ i # m => calls'[i] = calls[i]
      /\ \A u \in Threads \ {t} : Current(u)' = Current(u) /\ Running(u)' = Running(u)
  BY <1>1, Returned DEF Types
<1>3. /\ left' = [left EXCEPT ![t] = << >>] /\ out' = [out EXCEPT ![t] = << >>] /\ limit' = 0
  BY DEF Return
<1>4. left \in [Threads -> Seq(Nat)] /\ out \in [Threads -> Seq(Record)]
  BY DEF Types, TypeOK
<1>5. /\ left'[t] = << >> /\ out'[t] = << >>
      /\ \A u \in Threads \ {t} : left'[u] = left[u] /\ out'[u] = out[u]
  BY <1>3, <1>4
<1>6. calls \in Seq([by : Threads, op : Ops, bufs : Seq(Nat), result : Results]) /\ DOMAIN calls = 1 .. n
      /\ DOMAIN calls' = 1 .. n
  <2>1. calls' \in Seq([by : Threads, op : Ops, bufs : Seq(Nat), result : Results])
    BY <1>1, ReturnRuns DEF Types
  <2> QED BY <1>2, <2>1, LenProperties DEF Types, TypeOK
<1>7. calls[m].bufs \in Seq(Nat)
  <2>1. calls[m] \in [by : Threads, op : Ops, bufs : Seq(Nat), result : Results]
    BY <1>2, <1>6, ElementOfSeq
  <2> QED BY <2>1
<1>8. result = "refused" => \E j \in DOMAIN calls[m].bufs : calls[m].bufs[j] > MTU
  BY <1>7, LenProperties
<1> HIDE DEF m, n
<1>9. ASSUME NEW u \in Threads PROVE Parts(u)'
  <2>1. CASE u = t \/ left[u] = << >>
    BY <1>5, <2>1 DEF Parts
  <2>2. CASE u # t /\ left[u] # << >>
    <3>1. Running(u) # {}
      BY <2>2 DEF Types, Busy
    <3>2. Current(u) \in 1 .. n
      BY <3>1, CurrentType DEF Types, n
    <3>3. Current(u)' = Current(u) /\ OpOf(u)' = OpOf(u) /\ calls'[Current(u)].bufs = calls[Current(u)].bufs
      BY <1>2, <2>2, <3>2 DEF OpOf
    <3> QED BY <1>5, <2>2, <3>3, SMTT(30) DEF FitInv, Parts
  <2> QED BY <2>1, <2>2
<1>10. MTUAccepted'
  <2> SUFFICES ASSUME NEW c \in 1 .. n, calls'[c].result = "refused"
               PROVE  \E i \in DOMAIN calls[c].bufs : calls[c].bufs[i] > MTU
    <3>1. \A c \in 1 .. n : calls'[c].bufs = calls[c].bufs
      BY <1>2
    <3> QED BY <1>6, <3>1 DEF MTUAccepted, MTU
  <2>1. CASE c = m
    BY <1>2, <1>8, <2>1
  <2>2. CASE c # m
    BY <1>2, <1>6, <2>2, ZenonT(40) DEF FitInv, MTUAccepted
  <2> QED BY <2>1, <2>2
<1>11. ASSUME (\E i \in 1 .. Len(calls') : calls'[i].result = "ok") \/ (\E u \in Threads : out'[u] # << >>)
       PROVE  Started
  <2>1. CASE \E i \in 1 .. Len(calls') : calls'[i].result = "ok"
    <3> PICK i \in 1 .. n : calls'[i].result = "ok"
      BY <1>2, <2>1
    <3>1. i = m => result = "ok"
      BY <1>2
    <3>2. i # m => calls[i].result = "ok"
      BY <1>2
    <3> QED BY <3>1, <3>2 DEF FitInv, n
  <2>2. CASE \E u \in Threads : out'[u] # << >>
    BY <1>5, <2>2 DEF FitInv
  <2> QED BY <1>11, <2>1, <2>2
<1> QED BY <1>3, <1>9, <1>10, <1>11 DEF FitInv, Started

\* A packet call that is refused has one.
LEMMA FitRefuse ==
  ASSUME Types, WholeInv, FitInv, NEW t \in Threads, Refuse(t)
  PROVE  \E j \in 1 .. Len(calls[Current(t)].bufs) : calls[Current(t)].bufs[j] > MTU
<1>1. left[t] # << >> /\ OpOf(t) \in PacketOps /\ TooLarge(t)
  BY DEF Refuse, Packet, Sealing
<1>2. left[t] \in Seq(Nat) /\ Running(t) # {}
  BY <1>1 DEF Types, TypeOK, Busy
<1>3. /\ 1 \in 1 .. Len(left[t]) /\ DOMAIN left[t] = 1 .. Len(left[t])
      /\ Head(left[t]) = left[t][1]
  BY <1>1, <1>2, LenProperties, EmptySeq, HeadTailProperties
<1>4. Started
  <2> PICK m \in 1 .. Len(calls) : m = Current(t)
    BY <1>2, CurrentType DEF Types
  <2>1. calls[m].op \in PacketOps
    BY <1>1 DEF OpOf
  <2>2. m > 1 /\ calls[1].result = "ok" /\ Len(calls) \in Nat
    BY <2>1, LenProperties DEF WholeInv, CallsApart, Types, TypeOK
  <2>3. 1 \in 1 .. Len(calls)
    BY <2>2
  <2> QED BY <2>2, <2>3 DEF FitInv
<1>5. Moment(t) \in Int /\ firstLimit \in FirstLimits /\ WindowOK(window)
  BY MomentType DEF Types, TypeOK
<1>6. \E i \in 1 .. Len(left[t]) : left[t][i] > MTU
  <2>1. CASE kind \in {"v4", "v5"}
    <3>1. Head(left[t]) > PacketLimit(window, Moment(t))
      BY <1>1, <2>1 DEF TooLarge
    <3>2. PacketLimit(window, Moment(t)) \in Nat /\ PacketLimit(window, Moment(t)) >= Step
      <4>1. CASE kind = "v4"
        <5>1. Limit4(window, Moment(t)) \in 1 .. MaxPayload /\ Limit4(window, Moment(t)) >= Step
          BY <1>4, <1>5, <4>1, Limit4Type DEF Started
        <5> QED BY <4>1, <5>1, StreamAssumption DEF PacketLimit
      <4>2. CASE kind = "v5"
        <5>1. Limit5(window, Moment(t)) \in 1 .. MaxPayload /\ Limit5(window, Moment(t)) >= Step
          BY <1>4, <1>5, <4>2, Limit5Type DEF Started
        <5> QED BY <4>2, <5>1, StreamAssumption DEF PacketLimit
      <4> QED BY <2>1, <4>1, <4>2
    <3>3. left[t][1] \in Nat
      BY <1>2, <1>3, ElementOfSeq
    <3>4. left[t][1] > MTU
      BY <1>3, <2>1, <3>1, <3>2, <3>3, StreamAssumption DEF MTU
    <3> QED BY <1>3, <3>4
  <2>2. CASE kind \notin {"v4", "v5"}
    <3>1. PICK i \in 1 .. Len(left[t]) : left[t][i] > MaxPayload
      BY <1>1, <1>3, <2>2 DEF TooLarge
    <3> QED BY <2>2, <3>1 DEF MTU
  <2> QED BY <2>1, <2>2
<1> QED BY <1>1, <1>6 DEF FitInv, Parts

LEMMA StepFits == Types /\ WholeInv /\ FitInv /\ [Next]_vars => FitInv'
<1> SUFFICES ASSUME Types, WholeInv, FitInv, [Next]_vars PROVE FitInv'
  OBVIOUS
<1>1. ASSUME NEW t \in Threads, Call(t) PROVE FitInv'
  BY <1>1, FitCall
<1>2. ASSUME NEW t \in Threads,
             SealV4(t) \/ SealV5(t) \/ SealShaped(t) \/ SealPlain(t) \/ SealZero(t) \/ SealPacket(t)
      PROVE  FitInv'
  BY <1>2, FitSeal
<1>3. ASSUME NEW t \in Threads, Refuse(t) PROVE FitInv'
  <2>1. left[t] # << >> /\ Return(t, "refused") /\ UNCHANGED <<kind, window>>
    BY <1>3 DEF Refuse, Packet, Sealing
  <2>2. "refused" \in Results /\ "refused" # "ok"
    BY DEF Results
  <2> QED BY <1>3, <2>1, <2>2, FitRefuse, FitReturn
<1>4. ASSUME NEW t \in Threads, Flush(t) PROVE FitInv'
  <2>1. out[t] # << >> /\ UNCHANGED <<kind, window>>
    BY <1>4 DEF Flush
  <2>2. Started
    BY <2>1 DEF FitInv
  <2>3. CASE left[t] = << >>
    <3>1. Return(t, "ok") /\ "ok" \in Results /\ "ok" # "refused"
      BY <1>4, <2>3 DEF Flush, Results
    <3> QED BY <2>1, <2>2, <3>1, FitReturn
  <2>4. CASE left[t] # << >>
    <3>1. UNCHANGED <<calls, left>>
      BY <1>4, <2>4 DEF Flush
    <3>2. \A u \in Threads : Current(u)' = Current(u) /\ OpOf(u)' = OpOf(u)
      BY <3>1 DEF OpOf, Current, Running
    <3> QED BY <2>1, <2>2, <3>1, <3>2 DEF FitInv, Parts, MTUAccepted, MTU, Started
  <2> QED BY <2>3, <2>4
<1>5. ASSUME NEW t \in Threads, FlushFails(t) PROVE FitInv'
  <2>1. out[t] # << >> /\ Return(t, "failed") /\ UNCHANGED <<kind, window>>
    BY <1>5 DEF FlushFails
  <2>2. "failed" \in Results /\ "failed" # "ok" /\ "failed" # "refused"
    BY DEF Results
  <2> QED BY <2>1, <2>2, FitReturn
<1>6. CASE Tick \/ UNCHANGED vars
  <2>1. UNCHANGED <<kind, calls, left, out, limit, window>>
    BY <1>6 DEF Tick, vars, writerVars
  <2>2. \A u \in Threads : Current(u)' = Current(u) /\ OpOf(u)' = OpOf(u)
    BY <2>1 DEF OpOf, Current, Running
  <2> QED BY <2>1, <2>2 DEF FitInv, Parts, MTUAccepted, MTU, Started
<1> QED BY <1>1, <1>2, <1>3, <1>4, <1>5, <1>6 DEF Next

LEMMA InitFits == Init => FitInv
<1> SUFFICES ASSUME Init PROVE FitInv
  OBVIOUS
<1>1. Len(calls) = 0 /\ limit = 0 /\ \A t \in Threads : left[t] = << >> /\ out[t] = << >>
  BY DEF Init
<1>2. DOMAIN calls = 1 .. 0
  BY <1>1, InitTypes, LenProperties DEF Types, TypeOK
<1> QED BY <1>1, <1>2 DEF FitInv, Parts, MTUAccepted

\* No packet within the WriterMTU of the packet connection is refused, whatever was
\* written before it and however long ago.
THEOREM PacketsAccepted == Spec => []MTUAccepted
<1>1. FitInv => MTUAccepted
  BY DEF FitInv
<1> QED BY InitTypes, StepTypes, InitWhole, StepWhole, InitFits, StepFits, <1>1, PTL DEF Spec

-----------------------------------------------------------------------------
(***************************************************************************)
(* Pauses.  The writer knows the time of the last record it sealed, and    *)
(* what it sealed is what the wire ends with, where nothing was given up.  *)
(***************************************************************************)

\* Record r may follow p.
Paces(p, r) ==
  /\ kind \in {"v4", "v5"} /\ r.at - p.at >= ResetAfter => r.len <= Step
  /\ kind = "shaped" /\ ChunkBuckets = {} /\ r.at - p.at > IdleReset /\ calls[r.call].op \notin PacketOps
     => r.len <= ChunkInitial + ChunkJitter

Paced(s) == \A i \in 2 .. Len(s) : i - 1 \notin breaks => Paces(s[i - 1], s[i])

\* The limit of a v4 call is from the time of its first record.
LimitNow == kind = "v4" /\ limit # 0 => window.last = now /\ now # 0

Timed == kind \in {"v4", "v5", "shaped"}

\* The writer knows the time of the last record of s.
Knows(s) ==
  Timed /\ s # << >> /\ Len(s) \notin breaks => window.last # 0 /\ window.last = s[Len(s)].at

PaceInv == Paced(wire \o Pending) /\ Knows(wire \o Pending) /\ LimitNow

\* Lengths that may follow a record of time last.
Slow(len, time, last, op) ==
  /\ kind \in {"v4", "v5"} /\ time - last >= ResetAfter => len <= Step
  /\ kind = "shaped" /\ ChunkBuckets = {} /\ time - last > IdleReset /\ op \notin PacketOps
     => len <= ChunkInitial + ChunkJitter

\* After a pause the limits are those of a new stream.
LEMMA SlowLimits ==
  ASSUME NEW w, WindowOK(w), w.last # 0, NEW time \in Int, firstLimit \in FirstLimits
  PROVE  /\ time - w.last >= ResetAfter =>
              /\ Limit4(w, time) <= Step /\ Limit5(w, time) <= Step
              /\ NextBatch(w, time).stream <= Step
         /\ time - w.last > IdleReset /\ ChunkBuckets = {} =>
              \A l \in ShapedLimits(w, time) : l <= ChunkInitial + ChunkJitter
<1>1. w.last \in Int /\ ResetAfter \in Nat /\ Step \in Nat /\ firstLimit <= Step
  BY StreamAssumption DEF WindowOK, Window
<1>2. ASSUME time - w.last >= ResetAfter
      PROVE  /\ Limit4(w, time) <= Step /\ Limit5(w, time) <= Step
             /\ NextBatch(w, time).stream <= Step
  <2>1. ~Recent(w, time)
    BY <1>1, <1>2 DEF Recent
  <2>2. Limit4(w, time) <= Step /\ Limit5(w, time) <= Step
    BY <1>1, <2>1 DEF Limit4, Limit5
  <2> DEFINE a == Advance5(w, time)
             l == Limit5(w, time)
  <2>3. NextBatch(w, time) = [a EXCEPT !.stream = l, !.room = Batch]
    BY <1>2 DEF NextBatch
  <2>4. a \in Window
    BY Limit5Type DEF WindowOK
  <2> HIDE DEF a, l
  <2>5. NextBatch(w, time).stream = l
    BY <2>3, <2>4 DEF Window
  <2> QED BY <2>2, <2>5 DEF l
<1>3. ASSUME time - w.last > IdleReset, ChunkBuckets = {}, NEW l \in ShapedLimits(w, time)
      PROVE  l <= ChunkInitial + ChunkJitter
  <2>1. Chunk(w, time) = ChunkInitial
    BY <1>3 DEF Chunk
  <2>2. PICK k \in ChunkLimits(ChunkInitial) :
          l = Most(1, Least(IF w.fresh THEN Least(k, FirstCap) ELSE k, MaxPayload))
    BY <1>3, <2>1 DEF ShapedLimits
  <2>3. PICK c \in (ChunkInitial - ChunkJitter) .. (ChunkInitial + ChunkJitter) :
          k = Most(ChunkMin, Least(c, ChunkMax))
    BY <1>3 DEF ChunkLimits
  <2>4. k \in Int /\ k <= ChunkInitial + ChunkJitter
    BY <2>3, StreamAssumption DEF Most, Least
  <2> QED BY <2>2, <2>4, StreamAssumption DEF Most, Least
<1> QED BY <1>2, <1>3

\* No piece is longer than the limit.
LEMMA CutShort ==
  ASSUME NEW n \in Nat \ {0}, NEW len \in 1 .. MaxPayload, NEW i \in 1 .. Len(Cut(n, len))
  PROVE  Cut(n, len)[i] <= len
<1> DEFINE q == (n + len - 1) \div len
<1>1. len \in Nat \ {0} /\ len \in Int
  BY StreamAssumption
<1>2. Cut(n, len) \in Seq(1 .. MaxPayload)
  BY CutType
<1>3. Cut(n, len) = [j \in 1 .. q |-> Least(len, n - (j - 1) * len)]
  BY DEF Cut
<1>4. i \in 1 .. q /\ i \in Int
  <2>1. DOMAIN Cut(n, len) = 1 .. Len(Cut(n, len)) /\ Len(Cut(n, len)) \in Nat
    BY <1>2, LenProperties
  <2>2. DOMAIN Cut(n, len) = 1 .. q
    BY <1>3
  <2>3. i \in DOMAIN Cut(n, len) /\ i \in Int
    BY <2>1
  <2> QED BY <2>2, <2>3
<1> HIDE DEF q
<1>5. Cut(n, len)[i] = Least(len, n - (i - 1) * len)
  BY <1>3, <1>4
<1>6. (i - 1) * len \in Int
  BY <1>1, <1>4
<1>7. n - (i - 1) * len \in Int
  BY <1>6
<1> QED BY <1>1, <1>5, <1>7 DEF Least

\* What each way of sealing knows of the time.
LEMMA SealPace ==
  ASSUME Types, LimitNow, NEW t \in Threads,
         SealV4(t) \/ SealV5(t) \/ SealShaped(t) \/ SealPlain(t) \/ SealZero(t) \/ SealPacket(t)
  PROVE  /\ \E lens \in Seq(0 .. MaxPayload), n \in 0 .. Head(left[t]), time \in Nat :
              /\ Seal(t, lens, n, time) /\ Len(lens) > 0
              /\ Timed => time # 0 /\ window'.last = time
              /\ window.last # 0 =>
                   \A i \in 1 .. Len(lens) : Slow(lens[i], time, window.last, OpOf(t))
         /\ Sealing(t) /\ left[t] # << >>
<1>1. Sealing(t) /\ left[t] # << >>
  BY AnySeal DEF Sealing
<1>2. /\ Moment(t) \in Nat /\ Moment(t) \in Int /\ (Timed => Moment(t) # 0) /\ clock \in Nat \ {0} /\ clock \in Int
      /\ firstLimit \in FirstLimits /\ WindowOK(window) /\ window \in Window
      /\ Head(left[t]) \in Nat
  <2>1. Moment(t) \in Nat /\ clock \in Nat /\ clock # 0 /\ now \in Nat
    BY MomentType DEF Types, TypeOK
  <2>2. Timed => Moment(t) # 0
    BY <2>1 DEF Moment, Timed
  <2>3. Head(left[t]) \in Nat
    BY <1>1, HeadTailProperties DEF Types, TypeOK
  <2> QED BY <2>1, <2>2, <2>3 DEF Types, TypeOK
<1>t. /\ window.last \in Int /\ Moment(t) \in Int /\ clock \in Int
      /\ ResetAfter \in Nat /\ ResetAfter > 0 /\ Step \in Nat /\ IdleReset \in Nat
      /\ ChunkInitial + ChunkJitter \in Nat
  BY <1>2, StreamAssumption DEF Window
<1>3. ASSUME NEW h \in 0 .. MaxPayload
      PROVE  <<h>> \in Seq(0 .. MaxPayload) /\ Len(<<h>>) > 0 /\ Len(<<h>>) = 1 /\ <<h>>[1] = h
  OBVIOUS
<1>4. ASSUME NEW h \in 0 .. MaxPayload, NEW n \in 0 .. Head(left[t]), NEW time \in Nat,
             Seal(t, <<h>>, n, time), Timed => time # 0 /\ window'.last = time,
             window.last # 0 => Slow(h, time, window.last, OpOf(t))
      PROVE  \E lens \in Seq(0 .. MaxPayload), k \in 0 .. Head(left[t]), moment \in Nat :
               /\ Seal(t, lens, k, moment) /\ Len(lens) > 0
               /\ Timed => moment # 0 /\ window'.last = moment
               /\ window.last # 0 =>
                    \A i \in 1 .. Len(lens) : Slow(lens[i], moment, window.last, OpOf(t))
  <2> DEFINE lens == <<h>>
  <2>1. lens \in Seq(0 .. MaxPayload) /\ Len(lens) > 0 /\ Len(lens) = 1 /\ lens[1] = h
    BY <1>3
  <2>2. Seal(t, lens, n, time)
    BY <1>4
  <2> HIDE DEF lens
  <2>3. \A i \in 1 .. Len(lens) : lens[i] = h
    BY <2>1
  <2>4. window.last # 0 => \A i \in 1 .. Len(lens) : Slow(lens[i], time, window.last, OpOf(t))
    BY <1>4, <2>3
  <2> QED BY <1>4, <2>1, <2>2, <2>4
<1>5. /\ Limit4(window, Moment(t)) \in 1 .. MaxPayload /\ WindowOK(Advance4(window, Moment(t)))
      /\ Limit5(window, Moment(t)) \in 1 .. MaxPayload
      /\ window.last # 0 /\ Moment(t) - window.last >= ResetAfter =>
           Limit4(window, Moment(t)) <= Step /\ Limit5(window, Moment(t)) <= Step
  BY <1>2, Limit4Type, Limit5Type, SlowLimits
<1>6. Advance4(window, Moment(t)).last = Moment(t) /\ AdvanceShaped(window, Moment(t)).last = Moment(t)
  BY <1>2 DEF Advance4, AdvanceShaped, Window
<1>7. Timed => Spend(window, Moment(t)).last = Moment(t)
  <2>1. kind = "v5" => Spend(window, Moment(t)).last = Moment(t)
    BY <1>2, SpendType
  <2> DEFINE a == Advance4(window, Moment(t))
             b == AdvanceShaped(window, Moment(t))
  <2>2. a \in Window /\ b \in Window
    BY <1>2, Limit4Type, ShapedType DEF WindowOK
  <2> HIDE DEF a, b
  <2>3. [a EXCEPT !.fresh = FALSE].last = a.last /\ [b EXCEPT !.fresh = FALSE].last = b.last
    BY <2>2 DEF Window
  <2>4. CASE kind = "v4"
    BY <1>6, <2>3, <2>4 DEF Spend, a
  <2>5. CASE kind = "shaped"
    BY <1>6, <2>3, <2>5 DEF Spend, b
  <2> QED BY <2>1, <2>4, <2>5 DEF Timed
<1>8. CASE SealZero(t)
  <2>1. window' = Spend(window, Moment(t)) /\ Seal(t, << 0 >>, 0, Moment(t))
    BY <1>8 DEF SealZero
  <2>2. Slow(0, Moment(t), window.last, OpOf(t))
    BY StreamAssumption DEF Slow
  <2>3. 0 \in 0 .. MaxPayload /\ 0 \in 0 .. Head(left[t])
    BY <1>2, StreamAssumption
  <2> QED BY <1>1, <1>2, <1>4, <1>7, <2>1, <2>2, <2>3
<1>9. CASE SealPacket(t)
  <2> DEFINE h == Head(left[t])
  <2>1. /\ window' = Spend(window, Moment(t)) /\ Seal(t, <<h>>, h, Moment(t))
        /\ OpOf(t) \in PacketOps /\ ~TooLarge(t)
    BY <1>9 DEF SealPacket, Packet
  <2>2. h \in 0 .. MaxPayload
    BY <1>9, SealPacketSeals
  <2>3. window.last # 0 => Slow(h, Moment(t), window.last, OpOf(t))
    <3>1. kind = "v4" => h <= Limit4(window, Moment(t))
      BY <1>2, <1>5, <2>1 DEF TooLarge, PacketLimit
    <3>2. kind = "v5" => h <= Limit5(window, Moment(t))
      BY <1>2, <1>5, <2>1 DEF TooLarge, PacketLimit
    <3> HIDE DEF h
    <3> QED BY <1>2, <1>5, <2>1, <2>2, <3>1, <3>2, StreamAssumption DEF Slow
  <2> HIDE DEF h
  <2>4. h \in 0 .. Head(left[t])
    BY <1>2 DEF h
  <2> QED BY <1>1, <1>2, <1>4, <1>7, <2>1, <2>2, <2>3, <2>4
<1>10. CASE SealV4(t)
  <2> DEFINE h == Least(Head(left[t]), limit')
  <2>1. kind = "v4" /\ Data(t) /\ Seal(t, <<h>>, h, Moment(t)) /\ Head(left[t]) > 0
        /\ limit' = IF limit = 0 THEN Limit4(window, Moment(t)) ELSE limit
    BY <1>10 DEF SealV4, Data
  <2>2. limit' \in 1 .. MaxPayload
    BY <1>5, <2>1 DEF Types
  <2>3. h \in 0 .. MaxPayload /\ h \in 0 .. Head(left[t]) /\ h <= limit'
    <3>1. Head(left[t]) \in Nat
      BY <1>2
    <3> QED BY <2>2, <3>1, StreamAssumption DEF Least
  <2> HIDE DEF h
  <2>4. CASE limit = 0
    <3> DEFINE a == Advance4(window, Moment(t))
    <3>1. window' = [a EXCEPT !.fresh = FALSE]
      BY <1>10, <2>4 DEF SealV4
    <3>2. a \in Window /\ a.last = Moment(t)
      BY <1>5, <1>6 DEF WindowOK
    <3> HIDE DEF a
    <3>3. window'.last = Moment(t)
      BY <3>1, <3>2 DEF Window
    <3>4. window.last # 0 => Slow(h, Moment(t), window.last, OpOf(t))
      BY <1>2, <1>5, <2>1, <2>2, <2>3, <2>4, StreamAssumption DEF Slow
    <3> QED BY <1>1, <1>2, <1>4, <2>1, <2>3, <3>3, <3>4
  <2>5. CASE limit # 0
    <3>1. Moment(t) = now
      BY <2>1, <2>5 DEF LimitNow, Moment, Data, PacketOps
    <3>2. window' = window /\ window.last = Moment(t)
      BY <1>10, <2>1, <2>5, <3>1 DEF SealV4, LimitNow
    <3>3. Slow(h, Moment(t), window.last, OpOf(t))
      BY <1>t, <2>1, <3>2 DEF Slow
    <3> QED BY <1>1, <1>2, <1>4, <2>1, <2>3, <3>2, <3>3
  <2> QED BY <2>4, <2>5
<1>11. CASE SealV5(t)
  <2> DEFINE w == NextBatch(window, clock)
             n == Least(Head(left[t]), w.room)
  <2>1. /\ kind = "v5" /\ Head(left[t]) > 0 /\ window' = [w EXCEPT !.room = @ - n, !.fresh = FALSE]
        /\ Seal(t, Cut(n, w.stream), n, clock)
    BY <1>11 DEF SealV5, Data
  <2>2. WindowOK(w) /\ w \in Window /\ w.last = clock /\ w.room > 0 /\ w.room \in Nat /\ w.stream \in 1 .. MaxPayload
    BY <1>2, BatchType DEF WindowOK, Window
  <2>3. window.last # 0 /\ clock - window.last >= ResetAfter => w.stream <= Step
    BY <1>2, SlowLimits
  <2> HIDE DEF w
  <2>4. n \in Nat \ {0} /\ n \in 0 .. Head(left[t])
    BY <1>2, <2>1, <2>2 DEF Least
  <2> HIDE DEF n
  <2>5. window'.last = clock
    BY <2>1, <2>2 DEF Window
  <2> DEFINE lens == Cut(n, w.stream)
  <2>6. lens \in Seq(1 .. MaxPayload) /\ Len(lens) \in Nat \ {0}
    BY <2>2, <2>4, CutType
  <2>7. lens \in Seq(0 .. MaxPayload)
    <3>1. 1 .. MaxPayload \subseteq 0 .. MaxPayload
      BY StreamAssumption
    <3> HIDE DEF lens
    <3> QED BY <2>6, <3>1, SeqMonotonic, Zenon
  <2>8. ASSUME window.last # 0, NEW i \in 1 .. Len(lens) PROVE Slow(lens[i], clock, window.last, OpOf(t))
    <3>1. lens[i] <= w.stream
      BY <2>2, <2>4, CutShort
    <3>2. lens[i] \in 1 .. MaxPayload
      <4> HIDE DEF lens
      <4> QED BY <2>6, ElementOfSeq
    <3> HIDE DEF lens
    <3>3. clock - window.last >= ResetAfter => lens[i] <= Step
      BY <1>t, <2>2, <2>3, <2>8, <3>1, <3>2
    <3> QED BY <2>1, <3>3 DEF Slow
  <2>9. Seal(t, lens, n, clock)
    BY <2>1
  <2> HIDE DEF lens
  <2>10. Len(lens) > 0
    BY <2>6
  <2> QED BY <1>1, <1>2, <2>4, <2>5, <2>7, <2>8, <2>9, <2>10
<1>12. CASE SealShaped(t)
  <2>1. /\ kind = "shaped" /\ Head(left[t]) > 0
        /\ window' = [AdvanceShaped(window, Moment(t)) EXCEPT !.fresh = FALSE]
    BY <1>12 DEF SealShaped, Data
  <2>2. PICK l \in ShapedLimits(window, Moment(t)) :
          LET n == Least(Head(left[t]), l) IN Seal(t, <<n>>, n, Moment(t))
    BY <1>12 DEF SealShaped
  <2>3. l \in 1 .. MaxPayload
    BY <1>2, <2>2, ShapedType
  <2>4. /\ window.last # 0 /\ Moment(t) - window.last > IdleReset /\ ChunkBuckets = {} =>
             l <= ChunkInitial + ChunkJitter
    BY <1>2, <2>2, SlowLimits
  <2> DEFINE h == Least(Head(left[t]), l)
  <2>5. h \in 0 .. MaxPayload /\ h \in 0 .. Head(left[t]) /\ h <= l
    <3>1. Head(left[t]) \in Nat
      BY <1>2
    <3> QED BY <2>3, <3>1, StreamAssumption DEF Least
  <2>6. Seal(t, <<h>>, h, Moment(t))
    BY <2>2
  <2> HIDE DEF h
  <2> DEFINE a == AdvanceShaped(window, Moment(t))
  <2>7. a \in Window /\ a.last = Moment(t) /\ window' = [a EXCEPT !.fresh = FALSE]
    BY <1>2, <1>6, <2>1, ShapedType DEF WindowOK
  <2> HIDE DEF a
  <2>8. window'.last = Moment(t)
    BY <2>7 DEF Window
  <2>9. window.last # 0 => Slow(h, Moment(t), window.last, OpOf(t))
    <3>1. h \in Int /\ l \in Int
      BY <2>3, <2>5
    <3> QED BY <1>t, <2>1, <2>4, <2>5, <3>1 DEF Slow
  <2> QED BY <1>1, <1>2, <1>4, <2>5, <2>6, <2>8, <2>9
<1>13. CASE SealPlain(t)
  <2> DEFINE h == Least(Head(left[t]), MaxPayload)
  <2>1. kind \in {"unshaped", "raw"} /\ Head(left[t]) > 0 /\ Seal(t, <<h>>, h, Moment(t))
    BY <1>13 DEF SealPlain, Data
  <2>2. h \in 0 .. MaxPayload /\ h \in 0 .. Head(left[t])
    BY <1>2, StreamAssumption DEF Least
  <2> HIDE DEF h
  <2>3. ~Timed /\ Slow(h, Moment(t), window.last, OpOf(t))
    BY <2>1 DEF Timed, Slow
  <2> QED BY <1>1, <1>2, <1>4, <2>1, <2>2, <2>3
<1> QED BY <1>8, <1>9, <1>10, <1>11, <1>12, <1>13

\* Records that are sealed behind others.
LEMMA PacedJoin ==
  ASSUME NEW s \in Seq(Record), NEW r \in Seq(Record), Paced(s), Len(r) > 0,
         \A i \in 2 .. Len(r) : Paces(r[i - 1], r[i]),
         Len(s) > 0 /\ Len(s) \notin breaks => Paces(s[Len(s)], r[1])
  PROVE  Paced(s \o r)
<1> DEFINE v == s \o r
           m == Len(s)
           k == Len(r)
<1>1. m \in Nat /\ k \in Nat
  BY LenProperties
<1>2. Len(v) = m + k /\ \A i \in 1 .. m + k : v[i] = IF i <= m THEN s[i] ELSE r[i - m]
  BY ConcatProperties
<1> HIDE DEF v
<1>3. ASSUME NEW i \in 2 .. m + k, i - 1 \notin breaks
      PROVE  Paces(v[i - 1], v[i])
  <2>1. i \in 1 .. m + k /\ i - 1 \in 1 .. m + k
    BY <1>1
  <2>2. CASE i <= m
    <3>1. i \in 2 .. m /\ v[i] = s[i] /\ v[i - 1] = s[i - 1]
      BY <1>1, <1>2, <2>1, <2>2
    <3> QED BY <1>3, <3>1 DEF Paced
  <2>3. CASE i = m + 1
    <3>1. m > 0 /\ v[i] = r[1] /\ v[i - 1] = s[m] /\ i - 1 = m
      BY <1>1, <1>2, <2>1, <2>3
    <3> QED BY <1>3, <3>1
  <2>4. CASE i > m + 1
    <3>1. /\ i - m \in 2 .. k /\ ~(i <= m) /\ ~(i - 1 <= m) /\ (i - 1) - m = (i - m) - 1
      BY <1>1, <2>1, <2>4
    <3>2. v[i] = r[i - m] /\ v[i - 1] = r[(i - m) - 1]
      BY <1>2, <2>1, <3>1
    <3> QED BY <3>1, <3>2
  <2> QED BY <1>1, <2>1, <2>2, <2>3, <2>4
<1> QED BY <1>2, <1>3 DEF Paced, v

\* A part of what is sealed gets through.
LEMMA PacedPart ==
  ASSUME NEW s \in Seq(Record), NEW r \in Seq(Record), Paced(s \o r), NEW k \in 0 .. Len(r)
  PROVE  /\ Paced(s \o SubSeq(r, 1, k)) /\ s \o SubSeq(r, 1, k) \in Seq(Record)
         /\ \A i \in 1 .. Len(s \o SubSeq(r, 1, k)) :
              i \in 1 .. Len(s \o r) /\ (s \o SubSeq(r, 1, k))[i] = (s \o r)[i]
<1> DEFINE p == SubSeq(r, 1, k)
           m == Len(s)
<1>1. m \in Nat /\ Len(r) \in Nat /\ \A i \in 1 .. k : r[i] \in Record
  BY LenProperties, ElementOfSeq
<1>2. p \in Seq(Record) /\ Len(p) = k /\ \A i \in 1 .. k : p[i] = r[i]
  BY <1>1, SubSeqProperties
<1> HIDE DEF p
<1>3. /\ s \o p \in Seq(Record) /\ Len(s \o p) = m + k /\ Len(s \o r) = m + Len(r)
      /\ \A i \in 1 .. m + k : (s \o p)[i] = IF i <= m THEN s[i] ELSE p[i - m]
      /\ \A i \in 1 .. m + Len(r) : (s \o r)[i] = IF i <= m THEN s[i] ELSE r[i - m]
  BY <1>2, ConcatProperties
<1> HIDE DEF m
<1>4. ASSUME NEW i \in 1 .. m + k PROVE (s \o p)[i] = (s \o r)[i] /\ i \in 1 .. m + Len(r)
  <2>1. i \in 1 .. m + Len(r)
    BY <1>1
  <2>2. ~(i <= m) => i - m \in 1 .. k
    BY <1>1
  <2> QED BY <1>2, <1>3, <2>1, <2>2
<1>5. \A i \in 2 .. m + k : i \in 1 .. m + k /\ i - 1 \in 1 .. m + k /\ i \in 2 .. m + Len(r)
  BY <1>1
<1> QED BY <1>3, <1>4, <1>5 DEF Paced, p

\* The records so far belong to calls so far, and what a call is does not change.
LEMMA PacedKept ==
  ASSUME NEW s \in Seq(Record), Paced(s), UNCHANGED kind, breaks \subseteq breaks',
         \A i \in 1 .. Len(s) : calls'[s[i].call].op = calls[s[i].call].op
  PROVE  Paced(s)'
<1> SUFFICES ASSUME NEW i \in 2 .. Len(s), i - 1 \notin breaks PROVE Paces(s[i - 1], s[i])'
  BY DEF Paced
<1>1. i \in 1 .. Len(s)
  BY LenProperties
<1>2. Paces(s[i - 1], s[i])
  BY DEF Paced
<1> QED BY <1>1, <1>2 DEF Paces

LEMMA AllPlaced ==
  ASSUME Types, Placed, Owned, holder \in Threads \cup {"free"}
  PROVE  /\ wire \in Seq(Record) /\ Pending \in Seq(Record) /\ wire \o Pending \in Seq(Record)
         /\ \A i \in 1 .. Len(wire \o Pending) : (wire \o Pending)[i].call \in 1 .. Len(calls)
<1>1. wire \in Seq(Record) /\ Pending \in Seq(Record)
  BY DEF Types, TypeOK, Pending
<1>2. \A i \in 1 .. Len(Pending) : Pending[i].call \in 1 .. Len(calls)
  <2> SUFFICES ASSUME NEW i \in 1 .. Len(Pending) PROVE Pending[i].call \in 1 .. Len(calls)
    OBVIOUS
  <2>1. CASE holder = "free"
    <3>1. Len(Pending) = 0
      BY <2>1 DEF Pending
    <3> QED BY <3>1
  <2>2. CASE holder # "free"
    <3>1. holder \in Threads /\ Pending = out[holder]
      BY <2>2 DEF Pending
    <3>2. out[holder] # << >>
      BY <1>1, <3>1, EmptySeq
    <3>3. Current(holder) \in 1 .. Len(calls)
      BY <3>1, <3>2, CurrentType DEF Types, Busy
    <3> QED BY <3>1, <3>3 DEF Owned
  <2> QED BY <2>1, <2>2
<1> DEFINE m == Len(wire)
           k == Len(Pending)
           v == wire \o Pending
<1>3. /\ m \in Nat /\ k \in Nat /\ v \in Seq(Record) /\ Len(v) = m + k
      /\ \A i \in 1 .. m + k : v[i] = IF i <= m THEN wire[i] ELSE Pending[i - m]
  BY <1>1, LenProperties, ConcatProperties
<1> HIDE DEF v
<1>4. ASSUME NEW i \in 1 .. m + k PROVE v[i].call \in 1 .. Len(calls)
  <2>1. i <= m => wire[i].call \in 1 .. Len(calls)
    BY DEF Placed
  <2>2. ~(i <= m) => i - m \in 1 .. k
    BY <1>3
  <2> QED BY <1>2, <1>3, <2>1, <2>2
<1> QED BY <1>1, <1>3, <1>4 DEF v

\* Concatenation, where the provers are to use this lemma and not the definition.
Behind(a, b) == a \o b

LEMMA Regroup ==
  ASSUME NEW S, NEW a \in Seq(S), NEW b \in Seq(S), NEW c \in Seq(S)
  PROVE  Behind(a, Behind(b, c)) = Behind(Behind(a, b), c)
BY ConcatAssociative, SMTT(30) DEF Behind

\* What is sealed goes behind what was.
LEMMA SealedBehind ==
  ASSUME Types, NEW t \in Threads, NEW r \in Seq(Record), UNCHANGED wire,
         Pending = out[t], Pending' = out[t] \o r
  PROVE  (wire \o Pending)' = (wire \o Pending) \o r
<1>1. wire \in Seq(Record) /\ out[t] \in Seq(Record)
  BY DEF Types, TypeOK
<1>2. \A a, b, c \in Seq(Record) : Behind(a, Behind(b, c)) = Behind(Behind(a, b), c)
  BY Regroup
<1>3. Behind(wire, Behind(out[t], r)) = Behind(Behind(wire, out[t]), r)
  BY <1>1, <1>2
<1> QED BY <1>3 DEF Behind

\* Whatever is sealed may follow what was sealed before it.
LEMMA PaceSeal ==
  ASSUME Ordered, WholeInv, PaceInv, NEW t \in Threads,
         SealV4(t) \/ SealV5(t) \/ SealShaped(t) \/ SealPlain(t) \/ SealZero(t) \/ SealPacket(t)
  PROVE  PaceInv'
<1>1. Types /\ LimitNow /\ Sealing(t) /\ left[t] # << >>
  BY SealPace DEF Ordered, PaceInv
<1>2. PICK lens \in Seq(0 .. MaxPayload), n \in 0 .. Head(left[t]), time \in Nat :
        /\ Seal(t, lens, n, time) /\ Len(lens) > 0
        /\ Timed => time # 0 /\ window'.last = time
        /\ window.last # 0 =>
             \A i \in 1 .. Len(lens) : Slow(lens[i], time, window.last, OpOf(t))
  BY <1>1, SealPace
<1>3. UNCHANGED <<kind, calls, wire, breaks>> /\ now' = time /\ holder' = t
  BY <1>2 DEF Seal
<1> DEFINE q == Records(t, lens, time)
           k == Len(lens)
<1>4. /\ q \in Seq(Record) /\ Len(q) = k /\ k \in Nat
      /\ out' = [out EXCEPT ![t] = @ \o q] /\ out \in [Threads -> Seq(Record)]
      /\ \A i \in 1 .. k : q[i].len = lens[i]
  <2>1. /\ Records(t, lens, time) \in Seq(Record)
        /\ Len(Records(t, lens, time)) = Len(lens)
        /\ \A i \in 1 .. Len(lens) : Records(t, lens, time)[i].len = lens[i]
        /\ out' = [out EXCEPT ![t] = @ \o Records(t, lens, time)]
    <3>1. Types /\ left[t] # << >> /\ Seal(t, lens, n, time)
      BY <1>1, <1>2
    <3> QED BY <3>1, SealType
  <2> QED BY <1>1, <2>1, LenProperties DEF Types, TypeOK
<1>5. \A i \in 1 .. k : q[i].at = time /\ q[i].call = Current(t)
  <2>1. DOMAIN lens = 1 .. k
    BY LenProperties
  <2> QED BY <2>1 DEF Records
<1>6. PICK r \in Seq(Record) : r = q
  BY <1>4
<1> HIDE DEF q
<1>7. Len(r) = k /\ k > 0 /\ 1 \in 1 .. k /\ k \in 1 .. k
      /\ \A i \in 1 .. k : r[i].at = time /\ r[i].call = Current(t) /\ r[i].len = lens[i]
  BY <1>2, <1>4, <1>5, <1>6
<1> HIDE DEF k
<1>8. holder \in {"free", t} /\ "free" \notin Threads
  BY <1>1, StreamAssumption DEF Sealing
<1>9. Pending = out[t] /\ Pending' = out[t] \o r
  BY <1>3, <1>4, <1>6, <1>8 DEF Pending, Ordered, Locked
<1>10. PICK s \in Seq(Record) : s = wire \o Pending /\ \A i \in 1 .. Len(s) : s[i].call \in 1 .. Len(calls)
  BY <1>1, AllPlaced DEF WholeInv, Types, TypeOK
<1>11. (wire \o Pending)' = s \o r
  <2>1. (wire \o Pending)' = (wire \o Pending) \o r
    BY <1>1, <1>3, <1>9, SealedBehind
  <2> QED BY <1>10, <2>1
<1>12. Len(s) \in Nat /\ (s # << >> => Len(s) # 0) /\ IdleReset \in Nat /\ ResetAfter \in Nat \ {0}
  BY EmptySeq, LenProperties, StreamAssumption
<1>13. Paced(wire \o Pending)'
  <2>1. Paced(s)
    BY <1>10 DEF PaceInv
  <2>2. \A i \in 2 .. Len(r) : Paces(r[i - 1], r[i])
    <3> SUFFICES ASSUME NEW i \in 2 .. k PROVE Paces(r[i - 1], r[i])
      BY <1>7
    <3>1. i \in 1 .. k /\ i - 1 \in 1 .. k
      BY <1>4 DEF k
    <3>2. r[i].at - r[i - 1].at = 0
      BY <1>7, <3>1
    <3> QED BY <1>12, <3>2 DEF Paces
  <2>3. Len(s) > 0 /\ Len(s) \notin breaks => Paces(s[Len(s)], r[1])
    <3> SUFFICES ASSUME Len(s) > 0, Len(s) \notin breaks, Timed PROVE Paces(s[Len(s)], r[1])
      BY DEF Paces, Timed
    <3>1. window.last # 0 /\ window.last = s[Len(s)].at
      BY <1>10 DEF PaceInv, Knows
    <3>2. Slow(lens[1], time, window.last, OpOf(t))
      BY <1>2, <1>7, <3>1 DEF k
    <3>3. r[1].at = time /\ r[1].len = lens[1] /\ calls[r[1].call].op = OpOf(t)
      BY <1>7 DEF OpOf
    <3> QED BY <3>1, <3>2, <3>3 DEF Slow, Paces
  <2>4. Paced(s \o r)
    BY <1>7, <2>1, <2>2, <2>3, PacedJoin
  <2> QED BY <1>3, <1>11, <2>4 DEF Paced, Paces
<1>14. Timed => window'.last # 0 /\ window'.last = (s \o r)[Len(s \o r)].at
  <2>1. /\ Len(s \o r) = Len(s) + k
        /\ (s \o r)[Len(s) + k] = r[k]
    <3>1. /\ Len(s \o r) = Len(s) + Len(r)
          /\ \A i \in 1 .. Len(s) + Len(r) : (s \o r)[i] = IF i <= Len(s) THEN s[i] ELSE r[i - Len(s)]
      BY ConcatProperties
    <3>2. Len(s) + k \in 1 .. Len(s) + Len(r) /\ ~(Len(s) + k <= Len(s)) /\ (Len(s) + k) - Len(s) = k
      BY <1>7, <1>12
    <3> QED BY <1>7, <3>1, <3>2
  <2> QED BY <1>2, <1>7, <2>1
<1>15. LimitNow'
  BY <1>2, <1>3 DEF LimitNow, Timed
<1> QED BY <1>3, <1>11, <1>13, <1>14, <1>15 DEF PaceInv, Knows, Timed

\* What is written was sealed, and a call that goes well drops nothing of it.
LEMMA PaceFlush ==
  ASSUME Ordered, WholeInv, PaceInv, NEW t \in Threads, Flush(t)
  PROVE  PaceInv'
<1>1. out[t] # << >> /\ wire' = wire \o out[t] /\ UNCHANGED <<kind, breaks, window>>
  BY DEF Flush
<1>2. Types /\ holder = t /\ Pending = out[t] /\ Running(t) # {}
  <2>1. holder = t /\ Types
    BY <1>1 DEF Ordered, Locked
  <2> QED BY <1>1, <2>1, StreamAssumption DEF Pending, Types, Busy
<1>3. PICK s \in Seq(Record) : s = wire \o Pending /\ \A i \in 1 .. Len(s) : s[i].call \in 1 .. Len(calls)
  BY <1>2, AllPlaced DEF WholeInv, Types, TypeOK
<1>4. /\ \A u \in Threads : out'[u] = << >>
      /\ \A i \in 1 .. Len(calls) : calls'[i].op = calls[i].op
      /\ limit' = 0 \/ (limit' = limit /\ (kind = "v4" => now' = now))
  <2>1. out \in [Threads -> Seq(Record)] /\ \A u \in Threads \ {t} : out[u] = << >>
    BY <1>2 DEF Ordered, Locked, Types, TypeOK
  <2>2. CASE left[t] = << >>
    <3>1. Return(t, "ok")
      BY <2>2 DEF Flush
    <3>2. \A i \in 1 .. Len(calls) : calls'[i].op = calls[i].op
      BY <1>2, <3>1, ReturnRuns DEF Types, Results
    <3> QED BY <2>1, <3>1, <3>2 DEF Return
  <2>3. CASE left[t] # << >>
    BY <2>1, <2>3 DEF Flush
  <2> QED BY <2>2, <2>3
<1>5. wire' = s /\ Pending' = << >>
  BY <1>1, <1>2, <1>3, <1>4 DEF Pending, Types, TypeOK, Return, Flush
<1>6. Paced(s)'
  <2>1. Paced(s)
    BY <1>3 DEF PaceInv
  <2> QED BY <1>1, <1>3, <1>4, <2>1, PacedKept
<1>7. (wire \o Pending)' = s
  BY <1>5, ConcatEmptySeq
<1>8. Paced(wire \o Pending)'
  BY <1>6, <1>7 DEF Paced
<1>9. Knows(wire \o Pending)'
  <2>1. Knows(s)
    BY <1>3 DEF PaceInv
  <2> QED BY <1>1, <1>7, <2>1 DEF Knows, Timed
<1>10. LimitNow'
  BY <1>1, <1>4 DEF PaceInv, LimitNow
<1> QED BY <1>8, <1>9, <1>10 DEF PaceInv

\* A call that gives up a part of what it sealed leaves a gap.
LEMMA PaceGiveUp ==
  ASSUME Ordered, WholeInv, PaceInv, NEW t \in Threads, left[t] # << >> \/ out[t] # << >>,
         holder \in {"free", t}, NEW result \in Results, Return(t, result), UNCHANGED <<kind, window>>,
         NEW k \in 0 .. Len(out[t]), wire' = wire \o SubSeq(out[t], 1, k), GiveUp(out[t], wire')
  PROVE  PaceInv'
<1>1. Types /\ Running(t) # {} /\ out[t] \in Seq(Record) /\ wire \in Seq(Record)
  BY DEF Ordered, Types, TypeOK, Busy
<1>2. Pending = out[t]
  BY StreamAssumption DEF Ordered, Locked, Pending
<1>3. /\ wire \o Pending \in Seq(Record)
      /\ \A i \in 1 .. Len(wire \o Pending) : (wire \o Pending)[i].call \in 1 .. Len(calls)
  BY <1>1, AllPlaced DEF WholeInv, Types, TypeOK
<1>4. PICK v \in Seq(Record) :
        /\ v = wire \o SubSeq(out[t], 1, k) /\ Paced(v)
        /\ \A i \in 1 .. Len(v) : v[i].call \in 1 .. Len(calls)
  <2> DEFINE w == wire \o SubSeq(out[t], 1, k)
             z == wire \o out[t]
  <2>1. Paced(z)
    BY <1>2 DEF PaceInv
  <2>2. /\ w \in Seq(Record) /\ Paced(w)
        /\ \A i \in 1 .. Len(w) : i \in 1 .. Len(z) /\ w[i] = z[i]
    BY <1>1, <2>1, PacedPart
  <2>3. \A i \in 1 .. Len(z) : z[i].call \in 1 .. Len(calls)
    BY <1>2, <1>3
  <2> HIDE DEF w, z
  <2>4. \A i \in 1 .. Len(w) : w[i].call \in 1 .. Len(calls)
    BY <2>2, <2>3
  <2> QED BY <2>2, <2>4 DEF w
<1>5. \A i \in 1 .. Len(calls) : calls'[i].op = calls[i].op
  BY <1>1, ReturnRuns DEF Types
<1>6. Paced(v)'
  <2>1. breaks \subseteq breaks'
    BY DEF GiveUp
  <2> QED BY <1>4, <1>5, <2>1, PacedKept
<1>7. wire' = v /\ (wire \o Pending)' = v
  <2>1. Pending' = << >>
    BY DEF Return, Pending
  <2> QED BY <1>4, <2>1, ConcatEmptySeq
<1>8. Knows(v)'
  <2>1. CASE out[t] = << >>
    <3>1. v = wire \o << >> /\ breaks' = breaks
      <4>1. k = 0
        BY <2>1
      <4> QED BY <1>4, <2>1, <4>1, SubSeqEmpty DEF GiveUp
    <3>2. Knows(v)
      BY <1>2, <2>1, <3>1 DEF PaceInv
    <3> QED BY <3>1, <3>2 DEF Knows, Timed
  <2>2. CASE out[t] # << >>
    BY <1>7, <2>2 DEF GiveUp, Knows
  <2> QED BY <2>1, <2>2
<1>9. LimitNow'
  BY DEF LimitNow, Return
<1> QED BY <1>6, <1>7, <1>8, <1>9 DEF PaceInv, Paced, Knows, Timed

LEMMA PaceFlushFails ==
  ASSUME Ordered, WholeInv, PaceInv, NEW t \in Threads, FlushFails(t)
  PROVE  PaceInv'
<1>1. out[t] # << >> /\ Return(t, "failed") /\ UNCHANGED <<kind, window>> /\ GiveUp(out[t], wire')
  BY DEF FlushFails
<1>2. Len(out[t]) \in Nat /\ Len(out[t]) # 0 /\ holder = t
  BY <1>1, EmptySeq, LenProperties DEF Ordered, Locked, Types, TypeOK
<1>3. PICK k \in 0 .. (IF up THEN Len(out[t]) - 1 ELSE 0) : wire' = wire \o SubSeq(out[t], 1, k)
  BY DEF FlushFails
<1>4. k \in 0 .. Len(out[t])
  BY <1>2
<1> QED BY <1>1, <1>2, <1>3, <1>4, PaceGiveUp DEF Results

LEMMA PaceRefuse ==
  ASSUME Ordered, WholeInv, PaceInv, NEW t \in Threads, Refuse(t)
  PROVE  PaceInv'
<1>1. /\ left[t] # << >> /\ holder \in {"free", t} /\ Return(t, "refused")
      /\ UNCHANGED <<kind, wire, window>> /\ GiveUp(out[t], wire')
  BY DEF Refuse, Packet, Sealing, GiveUp
<1>2. 0 \in 0 .. Len(out[t]) /\ wire \in Seq(Record)
  BY LenProperties DEF Ordered, Types, TypeOK
<1>3. wire' = wire \o SubSeq(out[t], 1, 0)
  BY <1>1, <1>2, SubSeqEmpty, ConcatEmptySeq
<1> QED BY <1>1, <1>2, <1>3, PaceGiveUp DEF Results

LEMMA PaceCall ==
  ASSUME Ordered, WholeInv, PaceInv, NEW t \in Threads, Call(t)
  PROVE  PaceInv'
<1>1. UNCHANGED <<kind, wire, breaks, holder, now, limit, window, out>> /\ Types
  BY DEF Call, Ordered
<1>2. PICK s \in Seq(Record) : s = wire \o Pending /\ \A i \in 1 .. Len(s) : s[i].call \in 1 .. Len(calls)
  BY <1>1, AllPlaced DEF WholeInv, Types, TypeOK
<1>3. \A i \in 1 .. Len(calls) : calls'[i].op = calls[i].op
  BY <1>1, Called DEF Types
<1>4. Paced(s)'
  <2>1. Paced(s)
    BY <1>2 DEF PaceInv
  <2> QED BY <1>1, <1>2, <1>3, <2>1, PacedKept
<1>5. (wire \o Pending)' = s
  BY <1>1, <1>2 DEF Pending
<1>6. Knows(s)'
  <2>1. Knows(s)
    BY <1>2 DEF PaceInv
  <2> QED BY <1>1, <2>1 DEF Knows, Timed
<1>7. LimitNow'
  BY <1>1 DEF PaceInv, LimitNow
<1> QED BY <1>4, <1>5, <1>6, <1>7 DEF PaceInv, Paced, Knows

LEMMA StepPaces == Ordered /\ WholeInv /\ PaceInv /\ [Next]_vars => PaceInv'
<1> SUFFICES ASSUME Ordered, WholeInv, PaceInv, [Next]_vars PROVE PaceInv'
  OBVIOUS
<1>1. CASE Tick \/ UNCHANGED vars
  <2>1. UNCHANGED <<kind, calls, wire, breaks, holder, now, limit, window, out>>
    BY <1>1 DEF Tick, vars, writerVars
  <2>2. Pending' = Pending
    BY <2>1 DEF Pending
  <2> QED BY <2>1, <2>2 DEF PaceInv, Paced, Paces, Knows, Timed, LimitNow
<1> QED BY <1>1, PaceCall, PaceSeal, PaceRefuse, PaceFlush, PaceFlushFails DEF Next

LEMMA InitPaces == Init => PaceInv
<1> SUFFICES ASSUME Init PROVE PaceInv
  OBVIOUS
<1>1. wire = << >> /\ Pending = << >> /\ limit = 0
  BY DEF Init, Pending
<1>2. << >> \o << >> = << >> /\ Len(<< >>) = 0
  OBVIOUS
<1> QED BY <1>1, <1>2 DEF PaceInv, Paced, Knows, LimitNow

\* After a pause the stream starts with small records again, however the goroutines
\* interleave, whatever fails or is refused and however the clock jumps.
THEOREM PausesStartSlow == Spec => []SlowStart
<1>1. Ordered /\ PaceInv => SlowStart
  <2> SUFFICES ASSUME Ordered, PaceInv, NEW i \in 2 .. Len(wire), i - 1 \notin breaks
               PROVE  Paces(wire[i - 1], wire[i])
    BY DEF SlowStart, Paces
  <2>1. wire \in Seq(Record) /\ Pending \in Seq(Record)
    BY DEF Ordered, Types, TypeOK, Pending
  <2>2. 0 \in 0 .. Len(Pending)
    BY <2>1, LenProperties
  <2>3. wire \o SubSeq(Pending, 1, 0) = wire
    BY <2>1, SubSeqEmpty, ConcatEmptySeq
  <2>4. Paced(wire)
    BY <2>1, <2>2, <2>3, PacedPart DEF PaceInv
  <2> QED BY <2>4 DEF Paced
<1>2. Ordered /\ WholeInv /\ PaceInv /\ [Next]_vars => (Ordered /\ WholeInv /\ PaceInv)'
  <2>1. Ordered => Types
    BY DEF Ordered
  <2> QED BY <2>1, StepOrdered, StepWhole, StepPaces
<1>3. Init => Ordered /\ WholeInv /\ PaceInv
  BY InitOrdered, InitWhole, InitPaces
<1> QED BY <1>1, <1>2, <1>3, PTL DEF Spec

-----------------------------------------------------------------------------
(***************************************************************************)
(* Sums.                                                                   *)
(***************************************************************************)
\* The steps of a sum.
Adds(f, s) == /\ f \in [0 .. Len(s) -> Nat] /\ f[0] = 0
              /\ \A i \in 1 .. Len(s) : f[i] = f[i - 1] + s[i]

LEMMA AddsExists ==
  ASSUME NEW s \in Seq(Nat)
  PROVE  \E f : Adds(f, s)
<1> DEFINE n == Len(s)
           P == {k \in Nat : k <= n => \E f \in [0 .. k -> Nat] :
                               f[0] = 0 /\ \A i \in 1 .. k : f[i] = f[i - 1] + s[i]}
<1>1. n \in Nat /\ \A i \in 1 .. n : s[i] \in Nat
  BY LenProperties, ElementOfSeq
<1>2. 0 \in P
  <2> DEFINE f == [i \in 0 .. 0 |-> 0]
  <2>1. f \in [0 .. 0 -> Nat] /\ f[0] = 0 /\ \A i \in 1 .. 0 : f[i] = f[i - 1] + s[i]
    OBVIOUS
  <2> QED BY <2>1
<1>3. ASSUME NEW k \in 1 .. n, k - 1 \in P
      PROVE  k \in P
  <2>1. PICK f \in [0 .. k - 1 -> Nat] : f[0] = 0 /\ \A i \in 1 .. k - 1 : f[i] = f[i - 1] + s[i]
    <3>1. k - 1 <= n
      BY <1>1
    <3> QED BY <1>3, <3>1
  <2> DEFINE g == [i \in 0 .. k |-> IF i < k THEN f[i] ELSE f[k - 1] + s[k]]
  <2>2. \A i \in 0 .. k : g[i] = IF i < k THEN f[i] ELSE f[k - 1] + s[k]
    OBVIOUS
  <2>3. f[k - 1] + s[k] \in Nat
    BY <1>1
  <2>4. g \in [0 .. k -> Nat]
    BY <2>3
  <2> HIDE DEF g
  <2>5. g[0] = 0
    BY <2>1, <2>2
  <2>6. ASSUME NEW i \in 1 .. k PROVE g[i] = g[i - 1] + s[i]
    <3>1. i \in 0 .. k /\ i - 1 \in 0 .. k /\ i - 1 < k /\ g[i - 1] = f[i - 1]
      BY <2>2
    <3>2. CASE i < k
      BY <2>1, <2>2, <3>1, <3>2
    <3>3. CASE i = k
      BY <2>2, <3>1, <3>3
    <3> QED BY <3>1, <3>2, <3>3
  <2>7. \E h \in [0 .. k -> Nat] : h[0] = 0 /\ \A i \in 1 .. k : h[i] = h[i - 1] + s[i]
    BY <2>4, <2>5, <2>6
  <2>8. k \in Nat
    BY <1>1
  <2> QED BY <2>7, <2>8, Zenon
<1> HIDE DEF P
<1>4. 0 .. n \subseteq P
  BY <1>1, <1>2, <1>3, Climb
<1>5. n \in P
  BY <1>1, <1>4
<1> USE DEF P
<1>6. PICK f \in [0 .. n -> Nat] : f[0] = 0 /\ \A i \in 1 .. n : f[i] = f[i - 1] + s[i]
  BY <1>1, <1>5
<1> QED BY <1>6 DEF Adds

LEMMA SumAdds ==
  ASSUME NEW s \in Seq(Nat)
  PROVE  \E f : Adds(f, s) /\ Sum(s) = f[Len(s)]
<1> DEFINE n == Len(s)
           Step1(f) == [i \in 0 .. n |-> IF i = 0 THEN 0 ELSE f[i - 1] + s[i]]
           sum == CHOOSE f : f = Step1(f)
<1>1. n \in Nat
  BY LenProperties
<1>2. PICK f : Adds(f, s)
  BY AddsExists
<1>3. f = Step1(f)
  <2>1. f \in [0 .. n -> Nat] /\ f[0] = 0 /\ \A i \in 1 .. n : f[i] = f[i - 1] + s[i]
    BY <1>2 DEF Adds
  <2>2. \A i \in 0 .. n : f[i] = IF i = 0 THEN 0 ELSE f[i - 1] + s[i]
    BY <1>1, <2>1
  <2> HIDE DEF n
  <2> QED BY <2>1, <2>2
<1>4. sum = Step1(sum)
  BY <1>3, Zenon
<1>5. Sum(s) = sum[n]
  BY DEF Sum
<1> HIDE DEF sum
<1>6. \A i \in 0 .. n : sum[i] = IF i = 0 THEN 0 ELSE sum[i - 1] + s[i]
  BY <1>4
<1>7. \A i \in 1 .. n : s[i] \in Nat
  BY ElementOfSeq
<1> DEFINE P == {k \in Nat : k <= n => sum[k] \in Nat}
<1>8. 0 .. n \subseteq P
  <2>1. 0 \in P
    BY <1>1, <1>6
  <2>2. ASSUME NEW k \in 1 .. n, k - 1 \in P PROVE k \in P
    BY <1>1, <1>6, <1>7, <2>2
  <2> HIDE DEF P
  <2> QED BY <1>1, <2>1, <2>2, Climb
<1>9. Adds(sum, s)
  <2>1. \A i \in 0 .. n : sum[i] \in Nat
    BY <1>1, <1>8
  <2>2. sum \in [0 .. n -> Nat]
    BY <1>4, <2>1
  <2>3. sum[0] = 0 /\ \A i \in 1 .. n : sum[i] = sum[i - 1] + s[i]
    BY <1>1, <1>6
  <2> QED BY <2>2, <2>3 DEF Adds
<1> QED BY <1>5, <1>9

\* Two functions that grow alike.
LEMMA Alike ==
  ASSUME NEW n \in Nat, NEW f, NEW g,
         \A i \in 0 .. n : f[i] \in Int /\ g[i] \in Int,
         \A i \in 1 .. n : f[i] - f[i - 1] = g[i] - g[i - 1]
  PROVE  f[n] - f[0] = g[n] - g[0]
<1> DEFINE P == {k \in Nat : k <= n => f[k] - f[0] = g[k] - g[0]}
<1>1. 0 \in P
  OBVIOUS
<1>2. ASSUME NEW k \in 1 .. n, k - 1 \in P PROVE k \in P
  <2>1. f[k - 1] - f[0] = g[k - 1] - g[0] /\ f[k] - f[k - 1] = g[k] - g[k - 1]
    BY <1>2
  <2>2. k \in 0 .. n /\ k - 1 \in 0 .. n /\ 0 \in 0 .. n
    OBVIOUS
  <2>3. f[k] \in Int /\ f[k - 1] \in Int /\ f[0] \in Int /\ g[k] \in Int /\ g[k - 1] \in Int /\ g[0] \in Int
    BY <2>2
  <2> QED BY <2>1, <2>3
<1> HIDE DEF P
<1>3. n \in P
  BY <1>1, <1>2, Climb
<1> QED BY <1>3 DEF P

LEMMA SumJoin ==
  ASSUME NEW s \in Seq(Nat), NEW r \in Seq(Nat)
  PROVE  Sum(s \o r) = Sum(s) + Sum(r) /\ Sum(s) \in Nat /\ Sum(r) \in Nat
<1> DEFINE m == Len(s)
           n == Len(r)
           v == s \o r
<1>1. m \in Nat /\ n \in Nat
  BY LenProperties
<1>2. /\ v \in Seq(Nat) /\ Len(v) = m + n
      /\ \A i \in 1 .. m : v[i] = s[i]
      /\ \A i \in 1 .. n : v[m + i] = r[i]
  <2>1. \A i \in 1 .. m + n : v[i] = IF i <= m THEN s[i] ELSE r[i - m]
    BY ConcatProperties
  <2>2. \A i \in 1 .. m : i \in 1 .. m + n /\ i <= m
    BY <1>1
  <2>3. \A i \in 1 .. n : m + i \in 1 .. m + n /\ ~(m + i <= m) /\ (m + i) - m = i
    BY <1>1
  <2> HIDE DEF m, n
  <2>4. \A i \in 1 .. m : v[i] = s[i]
    BY <2>1, <2>2
  <2>5. \A i \in 1 .. n : v[m + i] = r[i]
    BY <2>1, <2>3
  <2>6. v \in Seq(Nat) /\ Len(v) = m + n
    BY ConcatProperties DEF m, n
  <2> QED BY <2>4, <2>5, <2>6
<1>3. PICK f : Adds(f, s) /\ Sum(s) = f[m]
  BY SumAdds
<1>4. PICK g : Adds(g, r) /\ Sum(r) = g[n]
  BY SumAdds
<1> HIDE DEF v
<1>5. PICK h : Adds(h, v) /\ Sum(v) = h[m + n]
  BY <1>2, SumAdds
<1>6. /\ f \in [0 .. m -> Nat] /\ f[0] = 0 /\ \A i \in 1 .. m : f[i] = f[i - 1] + s[i]
      /\ g \in [0 .. n -> Nat] /\ g[0] = 0 /\ \A i \in 1 .. n : g[i] = g[i - 1] + r[i]
  BY <1>3, <1>4 DEF Adds
<1>7. h \in [0 .. m + n -> Nat] /\ h[0] = 0 /\ \A i \in 1 .. m + n : h[i] = h[i - 1] + v[i]
  BY <1>2, <1>5 DEF Adds
<1> HIDE DEF m, n
<1>8. \A i \in 0 .. m + n : h[i] \in Nat
  BY <1>7
<1>9. h[m] = f[m]
  <2>1. ASSUME NEW i \in 0 .. m PROVE h[i] \in Int /\ f[i] \in Int
    <3>1. i \in 0 .. m + n
      BY <1>1
    <3>2. h[i] \in Nat /\ f[i] \in Nat
      BY <1>6, <1>8, <3>1
    <3> QED BY <3>2
  <2>2. ASSUME NEW i \in 1 .. m PROVE h[i] - h[i - 1] = f[i] - f[i - 1]
    <3>1. i \in 1 .. m + n /\ i - 1 \in 0 .. m /\ i \in 0 .. m
      BY <1>1
    <3>2. h[i] = h[i - 1] + v[i] /\ f[i] = f[i - 1] + v[i]
      BY <1>2, <1>6, <1>7, <3>1
    <3>3. h[i] \in Int /\ h[i - 1] \in Int /\ f[i] \in Int /\ f[i - 1] \in Int /\ v[i] \in Int
      <4>1. v[i] \in Nat
        BY <1>2, <3>1, ElementOfSeq
      <4> QED BY <2>1, <3>1, <4>1
    <3> QED BY <3>2, <3>3
  <2>3. h[m] - h[0] = f[m] - f[0]
    BY <1>1, <2>1, <2>2, Alike
  <2>4. m \in 0 .. m
    BY <1>1
  <2> QED BY <1>6, <1>7, <2>1, <2>3, <2>4
<1> DEFINE e == [i \in 0 .. n |-> h[m + i]]
<1>10. \A i \in 0 .. n : e[i] = h[m + i] /\ m + i \in 0 .. m + n
  BY <1>1
<1> HIDE DEF e
<1>11. e[n] - e[0] = g[n] - g[0]
  <2>1. ASSUME NEW i \in 0 .. n PROVE e[i] \in Int /\ g[i] \in Int
    <3>1. e[i] = h[m + i] /\ h[m + i] \in Nat /\ g[i] \in Nat
      BY <1>6, <1>8, <1>10
    <3> QED BY <3>1
  <2>2. ASSUME NEW i \in 1 .. n PROVE e[i] - e[i - 1] = g[i] - g[i - 1]
    <3>1. i \in 0 .. n /\ i - 1 \in 0 .. n /\ m + i \in 1 .. m + n /\ m + (i - 1) = (m + i) - 1
      BY <1>1
    <3>2. h[m + i] = h[(m + i) - 1] + v[m + i]
      BY <1>7, <3>1
    <3>3. e[i] = e[i - 1] + v[m + i]
      BY <1>10, <3>1, <3>2
    <3>4. g[i] = g[i - 1] + v[m + i]
      BY <1>2, <1>6
    <3>5. v[m + i] \in Nat
      BY <1>2, <3>1, ElementOfSeq
    <3> QED BY <2>1, <3>1, <3>3, <3>4, <3>5
  <2> QED BY <1>1, <2>1, <2>2, Alike
<1>12. e[n] = h[m + n] /\ e[0] = h[m] /\ g[n] \in Nat /\ f[m] \in Nat /\ h[m + n] \in Nat
  <2>1. n \in 0 .. n /\ 0 \in 0 .. n /\ m \in 0 .. m /\ m + 0 = m /\ m + n \in 0 .. m + n
    BY <1>1
  <2> QED BY <1>6, <1>8, <1>10, <2>1
<1>13. h[m + n] = f[m] + g[n]
  BY <1>6, <1>9, <1>11, <1>12
<1> QED BY <1>3, <1>4, <1>5, <1>12, <1>13 DEF v

LEMMA SumEmpty == Sum(<< >>) = 0
<1>1. << >> \in Seq(Nat) /\ Len(<< >>) = 0
  OBVIOUS
<1>2. PICK f : Adds(f, << >>) /\ Sum(<< >>) = f[Len(<< >>)]
  BY <1>1, SumAdds
<1> QED BY <1>1, <1>2 DEF Adds

LEMMA SumOne ==
  ASSUME NEW n \in Nat
  PROVE  Sum(<<n>>) = n
<1>1. <<n>> \in Seq(Nat) /\ Len(<<n>>) = 1 /\ <<n>>[1] = n
  OBVIOUS
<1>2. PICK f : Adds(f, <<n>>) /\ Sum(<<n>>) = f[Len(<<n>>)]
  BY <1>1, SumAdds
<1>3. f[0] = 0 /\ \A i \in 1 .. 1 : f[i] = f[i - 1] + <<n>>[i]
  BY <1>1, <1>2 DEF Adds
<1>4. f[1] = f[0] + n
  BY <1>1, <1>3
<1> QED BY <1>1, <1>2, <1>3, <1>4

LEMMA SumZeros ==
  ASSUME NEW s \in Seq(Nat), \A i \in 1 .. Len(s) : s[i] = 0
  PROVE  Sum(s) = 0
<1> DEFINE n == Len(s)
           zero == [i \in 0 .. n |-> 0]
<1>1. n \in Nat
  BY LenProperties
<1>2. PICK f : Adds(f, s) /\ Sum(s) = f[n]
  BY SumAdds
<1>3. f \in [0 .. n -> Nat] /\ f[0] = 0 /\ \A i \in 1 .. n : f[i] = f[i - 1] + 0
  BY <1>2 DEF Adds
<1> HIDE DEF n
<1>4. \A i \in 0 .. n : zero[i] = 0
  OBVIOUS
<1> HIDE DEF zero
<1>5. ASSUME NEW i \in 1 .. n PROVE f[i] - f[i - 1] = zero[i] - zero[i - 1]
  <2>1. i \in 0 .. n /\ i - 1 \in 0 .. n
    BY <1>1
  <2> QED BY <1>3, <1>4, <2>1
<1>6. f[n] - f[0] = zero[n] - zero[0]
  <2>1. ASSUME NEW i \in 0 .. n PROVE f[i] \in Int /\ zero[i] \in Int
    <3>1. f[i] \in Nat /\ zero[i] = 0
      BY <1>3, <1>4
    <3> QED BY <3>1
  <2> QED BY <1>1, <1>5, <2>1, Alike
<1> QED BY <1>1, <1>2, <1>3, <1>4, <1>6

\* A buffer is cut, and nothing of it dropped.
LEMMA SumCut ==
  ASSUME NEW n \in Nat \ {0}, NEW len \in 1 .. MaxPayload
  PROVE  Sum(Cut(n, len)) = n
<1> DEFINE q == (n + len - 1) \div len
           s == Cut(n, len)
           g == [i \in 0 .. q |-> Least(n, i * len)]
<1>1. len \in Nat \ {0} /\ MaxPayload \in Nat
  BY StreamAssumption
<1>2. q \in Nat /\ q >= 1 /\ q * len <= n + len - 1 /\ n <= q * len
  BY <1>1
<1> HIDE DEF q
<1>3. s = [i \in 1 .. q |-> Least(len, n - (i - 1) * len)]
  BY DEF Cut, q
<1>4. s \in Seq(Nat) /\ Len(s) = q /\ \A i \in 1 .. q : s[i] = Least(len, n - (i - 1) * len)
  <2>1. s \in Seq(1 .. MaxPayload)
    BY CutType
  <2>2. 1 .. MaxPayload \subseteq Nat
    BY <1>1
  <2>3. s \in Seq(Nat)
    BY <2>1, <2>2, SeqMonotonic, Zenon
  <2>4. \A i \in 1 .. q : s[i] = Least(len, n - (i - 1) * len)
    BY <1>3
  <2>5. DOMAIN s = 1 .. q
    BY <1>3
  <2> HIDE DEF s
  <2> QED BY <1>2, <2>3, <2>4, <2>5, LenProperties
<1> HIDE DEF s
<1>5. PICK f : Adds(f, s) /\ Sum(s) = f[q]
  BY <1>4, SumAdds
<1>6. f \in [0 .. q -> Nat] /\ f[0] = 0 /\ \A i \in 1 .. q : f[i] = f[i - 1] + s[i]
  BY <1>4, <1>5 DEF Adds
<1>7. \A i \in 0 .. q : g[i] = Least(n, i * len) /\ i * len \in Nat
  BY <1>1
<1> HIDE DEF g
<1>8. ASSUME NEW i \in 1 .. q PROVE f[i] - f[i - 1] = g[i] - g[i - 1]
  <2>1. i * len <= q * len /\ (i - 1) * len = i * len - len /\ i * len \in Nat
    BY <1>1, <1>2
  <2>2. (i - 1) * len <= n - 1
    BY <1>1, <1>2, <2>1
  <2> DEFINE a == i * len
  <2>3. i \in 0 .. q /\ i - 1 \in 0 .. q /\ g[i] = Least(n, a) /\ g[i - 1] = Least(n, a - len)
    BY <1>2, <1>7, <2>1
  <2>4. s[i] = Least(len, n - (a - len))
    BY <1>4, <2>1
  <2>5. f[i] = f[i - 1] + s[i] /\ f[i] \in Nat /\ f[i - 1] \in Nat
    BY <1>6, <2>3
  <2>6. a \in Nat /\ a - len <= n - 1
    BY <2>1, <2>2
  <2> HIDE DEF a
  <2>7. s[i] = g[i] - g[i - 1] /\ s[i] \in Int
    BY <1>1, <2>3, <2>4, <2>6 DEF Least
  <2> QED BY <2>5, <2>7
<1>9. f[q] - f[0] = g[q] - g[0]
  <2>1. \A i \in 0 .. q : f[i] \in Int /\ g[i] \in Int
    BY <1>6, <1>7 DEF Least
  <2> QED BY <1>2, <1>8, <2>1, Alike
<1>10. g[q] = n /\ g[0] = 0 /\ f[q] \in Nat
  <2>1. q \in 0 .. q /\ 0 \in 0 .. q /\ 0 * len = 0
    BY <1>1, <1>2
  <2>2. g[q] = Least(n, q * len) /\ q * len \in Nat /\ g[0] = Least(n, 0 * len) /\ f[q] \in Nat
    BY <1>6, <1>7, <2>1
  <2> QED BY <1>2, <2>1, <2>2 DEF Least
<1> QED BY <1>5, <1>6, <1>9, <1>10 DEF s

-----------------------------------------------------------------------------
(***************************************************************************)
(* Complete calls.  What a call has on the wire, has sealed and has still  *)
(* to seal adds up to its buffers, and a packet call has nothing on the    *)
(* wire before all its packets are sealed, each in one record.             *)
(***************************************************************************)
Lens(records) == [i \in 1 .. Len(records) |-> records[i].len]

LEMMA LensType ==
  ASSUME NEW s \in Seq(Record)
  PROVE  Lens(s) \in Seq(Nat) /\ Len(Lens(s)) = Len(s)
<1>1. Len(s) \in Nat /\ \A i \in 1 .. Len(s) : s[i].len \in Nat
  <2>1. \A i \in 1 .. Len(s) : s[i] \in Record
    BY ElementOfSeq
  <2> QED BY <2>1, LenProperties DEF Record
<1>2. Lens(s) \in [1 .. Len(s) -> Nat]
  BY <1>1 DEF Lens
<1>3. Lens(s) \in Seq(Nat)
  BY <1>1, <1>2, SeqDef
<1> QED BY <1>1, <1>2, <1>3, LenProperties

LEMMA ShareType ==
  ASSUME NEW s \in Seq(Record), NEW c
  PROVE  /\ Share(c, s) \in Seq(Nat) /\ Len(Share(c, s)) = Len(s)
         /\ \A i \in 1 .. Len(s) : Share(c, s)[i] = IF s[i].call = c THEN s[i].len ELSE 0
<1>1. DOMAIN s = 1 .. Len(s) /\ Len(s) \in Nat /\ \A i \in 1 .. Len(s) : s[i].len \in Nat
  <2>1. \A i \in 1 .. Len(s) : s[i] \in Record
    BY ElementOfSeq
  <2> QED BY <2>1, LenProperties DEF Record
<1>2. /\ Share(c, s) \in [1 .. Len(s) -> Nat]
      /\ \A i \in 1 .. Len(s) : Share(c, s)[i] = IF s[i].call = c THEN s[i].len ELSE 0
  BY <1>1 DEF Share
<1>3. Share(c, s) \in Seq(Nat)
  BY <1>1, <1>2, SeqDef
<1> QED BY <1>1, <1>2, <1>3, LenProperties

\* The elements of a concatenation.
LEMMA Joined ==
  ASSUME NEW S, NEW a \in Seq(S), NEW b \in Seq(S)
  PROVE  /\ a \o b \in Seq(S) /\ Len(a) \in Nat /\ Len(b) \in Nat /\ Len(a \o b) = Len(a) + Len(b)
         /\ \A i \in 1 .. Len(a) + Len(b) : (a \o b)[i] = IF i <= Len(a) THEN a[i] ELSE b[i - Len(a)]
BY ConcatProperties, LenProperties

LEMMA LensJoin ==
  ASSUME NEW a \in Seq(Record), NEW b \in Seq(Record)
  PROVE  Lens(a \o b) = Lens(a) \o Lens(b)
<1> DEFINE m == Len(a)
           n == Len(b)
           v == a \o b
           w == Lens(a) \o Lens(b)
<1>1. /\ m \in Nat /\ n \in Nat /\ v \in Seq(Record) /\ Len(v) = m + n
      /\ \A i \in 1 .. m + n : v[i] = IF i <= m THEN a[i] ELSE b[i - m]
  BY Joined
<1>2. /\ Lens(a) \in Seq(Nat) /\ Len(Lens(a)) = m /\ Lens(b) \in Seq(Nat) /\ Len(Lens(b)) = n
      /\ Lens(v) \in Seq(Nat) /\ Len(Lens(v)) = m + n
  BY <1>1, LensType
<1>3. /\ w \in Seq(Nat) /\ Len(w) = m + n
      /\ \A i \in 1 .. m + n : w[i] = IF i <= m THEN Lens(a)[i] ELSE Lens(b)[i - m]
  <2>1. /\ w \in Seq(Nat) /\ Len(w) = Len(Lens(a)) + Len(Lens(b))
        /\ \A i \in 1 .. Len(Lens(a)) + Len(Lens(b)) :
             w[i] = IF i <= Len(Lens(a)) THEN Lens(a)[i] ELSE Lens(b)[i - Len(Lens(a))]
    <3>1. Lens(a) \in Seq(Nat) /\ Lens(b) \in Seq(Nat)
      BY <1>2
    <3> QED BY <3>1, Joined
  <2> HIDE DEF w, m, n
  <2> QED BY <1>2, <2>1
<1> HIDE DEF v, w
<1>4. ASSUME NEW i \in 1 .. m + n PROVE Lens(v)[i] = w[i]
  <2>1. Lens(v)[i] = v[i].len
    BY <1>1 DEF Lens
  <2>2. CASE i <= m
    <3>1. i \in 1 .. m
      BY <1>1, <2>2
    <3> QED BY <1>1, <1>3, <2>1, <2>2, <3>1 DEF Lens
  <2>3. CASE ~(i <= m)
    <3>1. i - m \in 1 .. n
      BY <1>1, <2>3
    <3> QED BY <1>1, <1>3, <2>1, <2>3, <3>1 DEF Lens
  <2> QED BY <2>2, <2>3
<1>5. Lens(v) = w
  BY <1>2, <1>3, <1>4, SeqEqual
<1> QED BY <1>5 DEF v, w

LEMMA ShareJoin ==
  ASSUME NEW a \in Seq(Record), NEW b \in Seq(Record), NEW c
  PROVE  /\ Sum(Share(c, a \o b)) = Sum(Share(c, a)) + Sum(Share(c, b))
         /\ Sum(Share(c, a)) \in Nat
<1> DEFINE m == Len(a)
           n == Len(b)
           v == a \o b
           w == Share(c, a) \o Share(c, b)
<1>1. /\ m \in Nat /\ n \in Nat /\ v \in Seq(Record) /\ Len(v) = m + n
      /\ \A i \in 1 .. m + n : v[i] = IF i <= m THEN a[i] ELSE b[i - m]
  BY Joined
<1>2. /\ Share(c, a) \in Seq(Nat) /\ Len(Share(c, a)) = m
      /\ \A i \in 1 .. m : Share(c, a)[i] = IF a[i].call = c THEN a[i].len ELSE 0
  BY ShareType
<1>3. /\ Share(c, b) \in Seq(Nat) /\ Len(Share(c, b)) = n
      /\ \A i \in 1 .. n : Share(c, b)[i] = IF b[i].call = c THEN b[i].len ELSE 0
  BY ShareType
<1> HIDE DEF v
<1>4. /\ Share(c, v) \in Seq(Nat) /\ Len(Share(c, v)) = m + n
      /\ \A i \in 1 .. m + n : Share(c, v)[i] = IF v[i].call = c THEN v[i].len ELSE 0
  <2>1. v \in Seq(Record) /\ Len(v) = m + n
    BY <1>1
  <2>2. /\ Share(c, v) \in Seq(Nat) /\ Len(Share(c, v)) = Len(v)
        /\ \A i \in 1 .. Len(v) : Share(c, v)[i] = IF v[i].call = c THEN v[i].len ELSE 0
    BY <2>1, ShareType
  <2> HIDE DEF m, n
  <2> QED BY <2>1, <2>2
<1>5. /\ w \in Seq(Nat) /\ Len(w) = m + n
      /\ \A i \in 1 .. m + n : w[i] = IF i <= m THEN Share(c, a)[i] ELSE Share(c, b)[i - m]
  <2>1. /\ w \in Seq(Nat) /\ Len(w) = Len(Share(c, a)) + Len(Share(c, b))
        /\ \A i \in 1 .. Len(Share(c, a)) + Len(Share(c, b)) :
             w[i] = IF i <= Len(Share(c, a)) THEN Share(c, a)[i] ELSE Share(c, b)[i - Len(Share(c, a))]
    BY <1>2, <1>3, Joined
  <2> HIDE DEF w, m, n
  <2> QED BY <1>2, <1>3, <2>1
<1>6. Sum(w) = Sum(Share(c, a)) + Sum(Share(c, b)) /\ Sum(Share(c, a)) \in Nat
  BY <1>2, <1>3, SumJoin
<1> HIDE DEF w, m, n
<1>7. ASSUME NEW i \in 1 .. m + n PROVE Share(c, v)[i] = w[i]
  <2>1. CASE i <= m
    <3>1. i \in 1 .. m
      BY <1>1, <2>1
    <3> QED BY <1>1, <1>2, <1>4, <1>5, <2>1, <3>1
  <2>2. CASE ~(i <= m)
    <3>1. i - m \in 1 .. n
      BY <1>1, <2>2
    <3> QED BY <1>1, <1>3, <1>4, <1>5, <2>2, <3>1
  <2> QED BY <2>1, <2>2
<1>8. Share(c, v) = w
  BY <1>4, <1>5, <1>7, SeqEqual
<1> QED BY <1>6, <1>8 DEF v

LEMMA ShareMine ==
  ASSUME NEW s \in Seq(Record), NEW c, \A i \in 1 .. Len(s) : s[i].call = c
  PROVE  Share(c, s) = Lens(s)
<1>1. /\ Share(c, s) \in Seq(Nat) /\ Len(Share(c, s)) = Len(s)
      /\ \A i \in 1 .. Len(s) : Share(c, s)[i] = s[i].len
  BY ShareType
<1>2. Lens(s) \in Seq(Nat) /\ Len(Lens(s)) = Len(s) /\ \A i \in 1 .. Len(s) : Lens(s)[i] = s[i].len
  BY LensType DEF Lens
<1> QED BY <1>1, <1>2, SeqEqual

LEMMA ShareNone ==
  ASSUME NEW s \in Seq(Record), NEW c, \A i \in 1 .. Len(s) : s[i].call # c
  PROVE  Sum(Share(c, s)) = 0
BY ShareType, SumZeros

Accounted(t) ==
  /\ Sum(Share(Current(t), wire)) + Sum(Lens(out[t])) + Sum(left[t]) = Sum(calls[Current(t)].bufs)
  /\ OpOf(t) \in PacketOps =>
       /\ \A i \in 1 .. Len(wire) : wire[i].call # Current(t)
       /\ Lens(out[t]) \o left[t] = calls[Current(t)].bufs

CountInv == CallsComplete /\ \A t \in Threads : Running(t) # {} => Accounted(t)

\* Whoever seals n bytes of its call seals records of n bytes, for a packet call one of
\* its next packet.
LEMMA SealCounts ==
  ASSUME Types, NEW t \in Threads,
         SealV4(t) \/ SealV5(t) \/ SealShaped(t) \/ SealPlain(t) \/ SealZero(t) \/ SealPacket(t)
  PROVE  /\ left[t] # << >> /\ Head(left[t]) \in Nat /\ holder \in {"free", t}
         /\ \E lens \in Seq(0 .. MaxPayload), n \in 0 .. Head(left[t]), time \in Nat :
              /\ Seal(t, lens, n, time) /\ Sum(lens) = n
              /\ OpOf(t) \in PacketOps => lens = <<n>> /\ n = Head(left[t])
<1>1. left[t] # << >> /\ Head(left[t]) \in Nat /\ Moment(t) \in Nat /\ clock \in Nat /\ holder \in {"free", t}
  <2>1. left[t] # << >> /\ holder \in {"free", t}
    BY DEF SealV4, SealV5, SealShaped, SealPlain, SealZero, SealPacket, Data, Packet, Sealing
  <2> QED BY <2>1, HeadTailProperties, MomentType DEF Types, TypeOK
<1>2. MaxPayload \in Nat
  BY StreamAssumption
<1>3. ASSUME NEW l \in 1 .. MaxPayload, Head(left[t]) > 0
      PROVE  LET n == Least(Head(left[t]), l)
             IN  <<n>> \in Seq(0 .. MaxPayload) /\ n \in 0 .. Head(left[t]) /\ Sum(<<n>>) = n
  <2> DEFINE n == Least(Head(left[t]), l)
  <2>1. n \in 0 .. Head(left[t]) /\ n \in 0 .. MaxPayload /\ n \in Nat
    BY <1>1, <1>2, <1>3 DEF Least
  <2> HIDE DEF n
  <2>2. <<n>> \in Seq(0 .. MaxPayload) /\ Sum(<<n>>) = n
    BY <2>1, SumOne
  <2> QED BY <2>1, <2>2 DEF n
<1>4. CASE SealV4(t)
  <2>1. Head(left[t]) > 0 /\ OpOf(t) \notin PacketOps
    BY <1>4 DEF SealV4, Data
  <2>2. limit' \in 1 .. MaxPayload
    <3>1. Moment(t) \in Int /\ firstLimit \in FirstLimits /\ WindowOK(window) /\ limit \in 0 .. MaxPayload
      BY MomentType DEF Types, TypeOK
    <3> QED BY <1>4, <3>1, Limit4Type DEF SealV4
  <2>3. LET n == Least(Head(left[t]), limit') IN Seal(t, <<n>>, n, Moment(t))
    BY <1>4 DEF SealV4
  <2>4. PICK n \in 0 .. Head(left[t]) : <<n>> \in Seq(0 .. MaxPayload) /\ Sum(<<n>>) = n /\ Seal(t, <<n>>, n, Moment(t))
    BY <1>3, <2>1, <2>2, <2>3
  <2> QED BY <1>1, <2>1, <2>4
<1>5. CASE SealV5(t)
  <2>1. Head(left[t]) > 0 /\ OpOf(t) \notin PacketOps
    BY <1>5 DEF SealV5, Data
  <2> DEFINE w == NextBatch(window, clock)
             n == Least(Head(left[t]), w.room)
  <2>2. WindowOK(w) /\ w.room > 0 /\ w.stream \in 1 .. MaxPayload
    <3>1. clock \in Int /\ firstLimit \in FirstLimits /\ WindowOK(window)
      BY DEF Types, TypeOK
    <3> QED BY <3>1, BatchType
  <2>3. Seal(t, Cut(n, w.stream), n, clock)
    BY <1>5 DEF SealV5
  <2> HIDE DEF w
  <2>4. n \in 0 .. Head(left[t]) /\ n \in Nat \ {0}
    BY <1>1, <2>1, <2>2 DEF WindowOK, Least
  <2> HIDE DEF n
  <2>5. Cut(n, w.stream) \in Seq(1 .. MaxPayload) /\ Sum(Cut(n, w.stream)) = n
    BY <2>2, <2>4, CutType, SumCut
  <2>6. Cut(n, w.stream) \in Seq(0 .. MaxPayload)
    <3>1. 1 .. MaxPayload \subseteq 0 .. MaxPayload
      BY <1>2
    <3> QED BY <2>5, <3>1, SeqMonotonic, Zenon
  <2> QED BY <1>1, <2>1, <2>3, <2>4, <2>5, <2>6
<1>6. CASE SealShaped(t)
  <2>1. Head(left[t]) > 0 /\ OpOf(t) \notin PacketOps
    BY <1>6 DEF SealShaped, Data
  <2>2. PICK l \in ShapedLimits(window, Moment(t)) :
          LET n == Least(Head(left[t]), l) IN Seal(t, <<n>>, n, Moment(t))
    BY <1>6 DEF SealShaped
  <2>3. l \in 1 .. MaxPayload
    <3>1. Moment(t) \in Int /\ WindowOK(window)
      BY <1>1 DEF Types
    <3>2. ShapedLimits(window, Moment(t)) \subseteq 1 .. MaxPayload
      BY <3>1, ShapedType
    <3> QED BY <2>2, <3>2
  <2>4. PICK n \in 0 .. Head(left[t]) : <<n>> \in Seq(0 .. MaxPayload) /\ Sum(<<n>>) = n /\ Seal(t, <<n>>, n, Moment(t))
    BY <1>3, <2>1, <2>2, <2>3
  <2> QED BY <1>1, <2>1, <2>4
<1>7. CASE SealPlain(t)
  <2>1. Head(left[t]) > 0 /\ OpOf(t) \notin PacketOps /\ MaxPayload \in 1 .. MaxPayload
    BY <1>7, StreamAssumption DEF SealPlain, Data
  <2>2. LET n == Least(Head(left[t]), MaxPayload) IN Seal(t, <<n>>, n, Moment(t))
    BY <1>7 DEF SealPlain
  <2>3. PICK n \in 0 .. Head(left[t]) : <<n>> \in Seq(0 .. MaxPayload) /\ Sum(<<n>>) = n /\ Seal(t, <<n>>, n, Moment(t))
    BY <1>3, <2>1, <2>2
  <2> QED BY <1>1, <2>1, <2>3
<1>8. CASE SealZero(t)
  <2>1. Head(left[t]) = 0 /\ << 0 >> \in Seq(0 .. MaxPayload) /\ Seal(t, << 0 >>, 0, Moment(t))
    BY <1>8, SealZeroSeals
  <2>2. 0 \in 0 .. Head(left[t]) /\ Sum(<< 0 >>) = 0
    BY <2>1, SumOne
  <2> QED BY <1>1, <2>1, <2>2
<1>9. CASE SealPacket(t)
  <2> DEFINE h == Head(left[t])
  <2>1. <<h>> \in Seq(0 .. MaxPayload) /\ Seal(t, <<h>>, h, Moment(t))
    BY <1>9, SealPacketSeals
  <2>2. h \in 0 .. h /\ Sum(<<h>>) = h
    BY <1>1, SumOne
  <2> HIDE DEF h
  <2> QED BY <1>1, <2>1, <2>2 DEF h
<1> QED BY <1>4, <1>5, <1>6, <1>7, <1>8, <1>9

\* Records of one call go behind those of all others, and leave their sums alone.
LEMMA OthersStay ==
  ASSUME NEW w \in Seq(Record), NEW p \in Seq(Record), NEW c, \A i \in 1 .. Len(p) : p[i].call # c
  PROVE  /\ Sum(Share(c, w \o p)) = Sum(Share(c, w))
         /\ (\A i \in 1 .. Len(w) : w[i].call # c) => \A i \in 1 .. Len(w \o p) : (w \o p)[i].call # c
<1>1. Sum(Share(c, w \o p)) = Sum(Share(c, w)) + Sum(Share(c, p)) /\ Sum(Share(c, w)) \in Nat
  BY ShareJoin
<1>2. Sum(Share(c, p)) = 0
  BY ShareNone
<1>3. /\ Len(w) \in Nat /\ Len(p) \in Nat /\ Len(w \o p) = Len(w) + Len(p)
      /\ \A i \in 1 .. Len(w) + Len(p) : (w \o p)[i] = IF i <= Len(w) THEN w[i] ELSE p[i - Len(w)]
  BY Joined
<1>4. ASSUME \A i \in 1 .. Len(w) : w[i].call # c, NEW i \in 1 .. Len(w \o p)
      PROVE  (w \o p)[i].call # c
  <2>1. CASE i <= Len(w)
    BY <1>3, <1>4, <2>1
  <2>2. CASE ~(i <= Len(w))
    <3>1. i - Len(w) \in 1 .. Len(p)
      BY <1>3, <2>2
    <3> QED BY <1>3, <2>2, <3>1
  <2> QED BY <2>1, <2>2
<1> QED BY <1>1, <1>2, <1>4

\* A packet call that is complete stays so when the wire grows by records of another.
LEMMA EachStays ==
  ASSUME TypeOK, NEW p \in Seq(Record), NEW m, \A i \in 1 .. Len(p) : p[i].call = m,
         NEW c, c # m, calls'[c].bufs = calls[c].bufs, wire' = wire \o p,
         Len(calls[c].bufs) \in Nat, DOMAIN calls[c].bufs = 1 .. Len(calls[c].bufs),
         \E k \in 0 .. Len(wire) - Len(calls[c].bufs) : OneEach(c, k)
  PROVE  \E k \in 0 .. Len(wire') - Len(calls'[c].bufs) : OneEach(c, k)'
<1> DEFINE bufs == calls[c].bufs
           n == Len(bufs)
<1>1. PICK k \in 0 .. Len(wire) - n : OneEach(c, k)
  OBVIOUS
<1>2. /\ Len(wire) \in Nat /\ Len(p) \in Nat /\ Len(wire') = Len(wire) + Len(p) /\ wire' \in Seq(Record)
      /\ \A i \in 1 .. Len(wire) + Len(p) : wire'[i] = IF i <= Len(wire) THEN wire[i] ELSE p[i - Len(wire)]
  BY Joined DEF TypeOK
<1>3. DOMAIN wire = 1 .. Len(wire) /\ DOMAIN wire' = 1 .. Len(wire) + Len(p)
  BY <1>2, LenProperties DEF TypeOK
<1>4. /\ \A i \in 1 .. Len(wire) : wire[i].call = c <=> i \in k + 1 .. k + n
      /\ \A i \in 1 .. n : wire[k + i].len = bufs[i]
  BY <1>1, <1>3 DEF OneEach
<1>5. calls'[c].bufs = bufs /\ n \in Nat /\ DOMAIN bufs = 1 .. n /\ Len(bufs) = n
  OBVIOUS
<1> HIDE DEF bufs, n
<1>6. ASSUME NEW i \in 1 .. Len(wire) + Len(p)
      PROVE  wire'[i].call = c <=> i \in k + 1 .. k + n
  <2>1. CASE i <= Len(wire)
    BY <1>2, <1>4, <2>1
  <2>2. CASE ~(i <= Len(wire))
    <3>1. i - Len(wire) \in 1 .. Len(p)
      BY <1>2, <2>2
    <3>2. wire'[i].call = m
      BY <1>2, <2>2, <3>1
    <3>3. ~(i \in k + 1 .. k + n)
      BY <1>1, <1>2, <1>5, <2>2
    <3> QED BY <3>2, <3>3
  <2> QED BY <2>1, <2>2
<1>7. \A i \in 1 .. n : wire'[k + i].len = bufs[i]
  <2> SUFFICES ASSUME NEW i \in 1 .. n PROVE wire'[k + i].len = bufs[i]
    OBVIOUS
  <2>1. k + i \in 1 .. Len(wire) + Len(p) /\ k + i <= Len(wire)
    BY <1>1, <1>2, <1>5
  <2> QED BY <1>2, <1>4, <2>1
<1>8. k \in 0 .. Len(wire') - n
  BY <1>1, <1>2, <1>5
<1>9. OneEach(c, k)'
  <2>1. OneEach(c, k)' <=>
          /\ \A i \in DOMAIN wire' : wire'[i].call = c <=> i \in k + 1 .. k + Len(calls'[c].bufs)
          /\ \A i \in DOMAIN calls'[c].bufs : wire'[k + i].len = calls'[c].bufs[i]
    BY DEF OneEach
  <2> QED BY <1>3, <1>5, <1>6, <1>7, <2>1
<1> QED BY <1>5, <1>8, <1>9

\* The buffers of a call.
LEMMA CallBuffers ==
  ASSUME TypeOK, NEW c \in 1 .. Len(calls)
  PROVE  /\ calls[c].bufs \in Seq(Nat) /\ Len(calls[c].bufs) \in Nat
         /\ DOMAIN calls[c].bufs = 1 .. Len(calls[c].bufs)
<1>1. calls[c] \in [by : Threads, op : Ops, bufs : Seq(Nat), result : Results]
  BY ElementOfSeq DEF TypeOK
<1> QED BY <1>1, LenProperties

\* The sum of what a goroutine has sealed and left, before and after.
LEMMA SealSums ==
  ASSUME Types, NEW t \in Threads, left[t] # << >>, Head(left[t]) \in Nat,
         NEW lens \in Seq(0 .. MaxPayload), NEW n \in 0 .. Head(left[t]), NEW time \in Nat,
         Seal(t, lens, n, time), Sum(lens) = n
  PROVE  /\ Sum(Lens(out'[t])) + Sum(left'[t]) = Sum(Lens(out[t])) + Sum(left[t])
         /\ lens = <<n>> /\ n = Head(left[t]) =>
              Lens(out'[t]) \o left'[t] = Lens(out[t]) \o left[t]
<1> DEFINE q == Records(t, lens, time)
<1>1. /\ q \in Seq(Record) /\ Len(q) = Len(lens)
      /\ \A i \in 1 .. Len(lens) : q[i].len = lens[i]
      /\ out' = [out EXCEPT ![t] = @ \o q]
  <2>1. /\ Records(t, lens, time) \in Seq(Record)
        /\ Len(Records(t, lens, time)) = Len(lens)
        /\ \A i \in 1 .. Len(lens) : Records(t, lens, time)[i].len = lens[i]
        /\ out' = [out EXCEPT ![t] = @ \o Records(t, lens, time)]
    <3>1. Types /\ left[t] # << >> /\ Seal(t, lens, n, time)
      OBVIOUS
    <3> QED BY <3>1, SealType, SMTT(60)
  <2> QED BY <2>1
<1>2. PICK r \in Seq(Record) : r = q
  BY <1>1
<1>3. out[t] \in Seq(Record) /\ out'[t] = out[t] \o r /\ left[t] \in Seq(Nat)
  BY <1>1, <1>2 DEF Types, TypeOK
<1>4. Lens(r) = lens /\ lens \in Seq(Nat)
  <2>1. 0 .. MaxPayload \subseteq Nat
    BY StreamAssumption
  <2>2. lens \in Seq(Nat)
    BY <2>1, SeqMonotonic, Zenon
  <2>3. /\ Lens(r) \in Seq(Nat) /\ Len(Lens(r)) = Len(lens)
        /\ \A i \in 1 .. Len(lens) : Lens(r)[i] = lens[i]
    BY <1>1, <1>2, LensType DEF Lens
  <2> QED BY <2>2, <2>3, SeqEqual
<1> HIDE DEF q
<1>5. Lens(out'[t]) = Lens(out[t]) \o lens /\ Lens(out[t]) \in Seq(Nat)
  BY <1>3, <1>4, LensJoin, LensType
<1> DEFINE h == Head(left[t])
           s == Tail(left[t])
<1>6. /\ s \in Seq(Nat) /\ <<h>> \in Seq(Nat) /\ left[t] = <<h>> \o s
      /\ left'[t] = IF n = h THEN s ELSE <<h - n>> \o s
  <2>1. s \in Seq(Nat) /\ left[t] = <<h>> \o s
    BY <1>3, HeadTailProperties, SMTT(30)
  <2>2. left'[t] = IF n = h THEN s ELSE <<h - n>> \o s
    BY DEF Seal, Types, TypeOK
  <2> HIDE DEF h, s
  <2>3. h \in Nat
    BY DEF h
  <2> QED BY <2>1, <2>2, <2>3
<1>7. h \in Nat /\ n \in 0 .. h
  OBVIOUS
<1> HIDE DEF h, s
<1>8. Sum(left[t]) = h + Sum(s) /\ Sum(s) \in Nat
  <2>1. Sum(<<h>> \o s) = Sum(<<h>>) + Sum(s) /\ Sum(s) \in Nat
    BY <1>6, SumJoin
  <2>2. Sum(<<h>>) = h
    BY <1>7, SumOne
  <2> QED BY <1>6, <2>1, <2>2
<1>9. Sum(left'[t]) = (h - n) + Sum(s)
  <2>1. CASE n = h
    BY <1>6, <1>7, <1>8, <2>1
  <2>2. CASE n # h
    <3>1. h - n \in Nat
      BY <1>7
    <3>2. <<h - n>> \in Seq(Nat) /\ Sum(<<h - n>>) = h - n
      BY <3>1, SumOne
    <3>3. Sum(<<h - n>> \o s) = Sum(<<h - n>>) + Sum(s)
      BY <1>6, <3>2, SumJoin
    <3> QED BY <1>6, <2>2, <3>2, <3>3
  <2> QED BY <2>1, <2>2
<1>10. Sum(Lens(out'[t])) = Sum(Lens(out[t])) + n /\ Sum(Lens(out[t])) \in Nat
  BY <1>4, <1>5, SumJoin
<1>11. ASSUME lens = <<n>>, n = h
       PROVE  Lens(out'[t]) \o left'[t] = Lens(out[t]) \o left[t]
  <2>1. lens = <<h>> /\ left'[t] = s /\ left[t] = lens \o s
    BY <1>6, <1>11
  <2>2. \A a, b, c \in Seq(Nat) : Behind(a, Behind(b, c)) = Behind(Behind(a, b), c)
    BY Regroup
  <2>3. Behind(Lens(out[t]), Behind(lens, s)) = Behind(Behind(Lens(out[t]), lens), s)
    BY <1>4, <1>5, <1>6, <2>2
  <2>4. (Lens(out[t]) \o lens) \o s = Lens(out[t]) \o (lens \o s)
    BY <2>3 DEF Behind
  <2> QED BY <1>5, <2>1, <2>4
<1>12. Sum(Lens(out'[t])) + Sum(left'[t]) = Sum(Lens(out[t])) + Sum(left[t])
  BY <1>7, <1>8, <1>9, <1>10
<1> QED BY <1>11, <1>12 DEF h

LEMMA CountSeal ==
  ASSUME Types, WholeInv, CountInv, NEW t \in Threads,
         SealV4(t) \/ SealV5(t) \/ SealShaped(t) \/ SealPlain(t) \/ SealZero(t) \/ SealPacket(t)
  PROVE  CountInv'
<1>1. left[t] # << >> /\ Head(left[t]) \in Nat /\ holder \in {"free", t}
  BY SealCounts
<1>2. PICK lens \in Seq(0 .. MaxPayload), n \in 0 .. Head(left[t]), time \in Nat :
        /\ Seal(t, lens, n, time) /\ Sum(lens) = n
        /\ OpOf(t) \in PacketOps => lens = <<n>> /\ n = Head(left[t])
  BY SealCounts
<1>3. UNCHANGED <<calls, wire>> /\ \A u \in Threads \ {t} : out'[u] = out[u] /\ left'[u] = left[u]
  BY <1>2 DEF Seal, Types, TypeOK
<1>4. /\ Sum(Lens(out'[t])) + Sum(left'[t]) = Sum(Lens(out[t])) + Sum(left[t])
      /\ OpOf(t) \in PacketOps => Lens(out'[t]) \o left'[t] = Lens(out[t]) \o left[t]
  BY <1>1, <1>2, SealSums
<1>5. \A u \in Threads : Running(u)' = Running(u) /\ Current(u)' = Current(u) /\ OpOf(u)' = OpOf(u)
  BY <1>3 DEF OpOf, Current, Running
<1>6. CallsComplete'
  <2>1. \A c, k : OneEach(c, k)' <=> OneEach(c, k)
    BY <1>3 DEF OneEach
  <2> QED BY <1>3, <2>1 DEF CountInv, CallsComplete
<1>7. \A u \in Threads \ {t} : Running(u)' # {} => Accounted(u)'
  BY <1>3, <1>5 DEF CountInv, Accounted
<1>8. Running(t) # {} => Accounted(t)'
  <2> SUFFICES ASSUME Running(t) # {} PROVE Accounted(t)'
    OBVIOUS
  <2>1. /\ Sum(Share(Current(t), wire)) + Sum(Lens(out[t])) + Sum(left[t]) = Sum(calls[Current(t)].bufs)
        /\ OpOf(t) \in PacketOps =>
             /\ \A i \in 1 .. Len(wire) : wire[i].call # Current(t)
             /\ Lens(out[t]) \o left[t] = calls[Current(t)].bufs
    BY DEF CountInv, Accounted
  <2>2. Sum(Share(Current(t), wire)) \in Nat /\ Sum(Lens(out[t])) \in Nat /\ Sum(left[t]) \in Nat
    <3>1. wire \in Seq(Record) /\ out[t] \in Seq(Record) /\ left[t] \in Seq(Nat)
      BY DEF Types, TypeOK
    <3>2. Share(Current(t), wire) \in Seq(Nat) /\ Lens(out[t]) \in Seq(Nat)
      BY <3>1, ShareType, LensType
    <3> QED BY <3>1, <3>2, SumJoin
  <2>3. Sum(Lens(out'[t])) \in Nat /\ Sum(left'[t]) \in Nat
    <3>1. out' \in [Threads -> Seq(Record)] /\ left' \in [Threads -> Seq(Nat)]
      BY <1>1, <1>2, SealType
    <3>2. out'[t] \in Seq(Record) /\ left'[t] \in Seq(Nat)
      BY <3>1
    <3>3. Lens(out'[t]) \in Seq(Nat)
      BY <3>2, LensType
    <3> QED BY <3>2, <3>3, SumJoin
  <2>4. Sum(Share(Current(t), wire)) + Sum(Lens(out'[t])) + Sum(left'[t]) = Sum(calls[Current(t)].bufs)
    <3> DEFINE onWire == Sum(Share(Current(t), wire))
               taken == Sum(Lens(out[t]))
               rest == Sum(left[t])
               takenNow == Sum(Lens(out'[t]))
               restNow == Sum(left'[t])
               all == Sum(calls[Current(t)].bufs)
    <3>1. onWire \in Nat /\ taken \in Nat /\ rest \in Nat /\ takenNow \in Nat /\ restNow \in Nat
      BY <2>2, <2>3
    <3>2. onWire + taken + rest = all /\ takenNow + restNow = taken + rest
      BY <1>4, <2>1
    <3> HIDE DEF onWire, taken, rest, takenNow, restNow, all
    <3>3. onWire + takenNow + restNow = all
      BY <3>1, <3>2
    <3> QED BY <3>3 DEF onWire, takenNow, restNow, all
  <2> QED BY <1>3, <1>4, <1>5, <2>1, <2>4 DEF Accounted
<1> QED BY <1>5, <1>6, <1>7, <1>8 DEF CountInv

LEMMA CountCall ==
  ASSUME Types, WholeInv, CountInv, NEW t \in Threads, Call(t)
  PROVE  CountInv'
<1> DEFINE n == Len(calls)
<1>1. /\ n \in Nat /\ Len(calls') = n + 1 /\ Running(t) = {}
      /\ \A i \in 1 .. n : calls'[i] = calls[i]
      /\ Current(t)' = n + 1
      /\ \A u \in Threads \ {t} : Current(u)' = Current(u) /\ Running(u)' = Running(u)
  BY Called DEF Types
<1>2. PICK op \in Ops, bufs \in UNION {Buffers(o) : o \in Ops} :
        /\ calls'[n + 1] = [by |-> t, op |-> op, bufs |-> bufs, result |-> "running"]
        /\ bufs \in Seq(Nat) /\ left' = [left EXCEPT ![t] = bufs]
  BY Called DEF Types
<1>3. calls'[n + 1].bufs = bufs /\ calls'[n + 1].result = "running"
  BY <1>2
<1>4. UNCHANGED <<wire, out>> /\ left'[t] = bufs /\ \A u \in Threads \ {t} : left'[u] = left[u]
  BY <1>2 DEF Call, Types, TypeOK
<1>5. DOMAIN calls = 1 .. n /\ DOMAIN calls' = 1 .. n + 1
  <2>1. calls' \in Seq([by : Threads, op : Ops, bufs : Seq(Nat), result : Results])
    BY CallRuns DEF Types
  <2> QED BY <1>1, <2>1, LenProperties DEF Types, TypeOK
<1> HIDE DEF n
<1>6. CallsComplete'
  <2> SUFFICES ASSUME NEW c \in 1 .. n + 1, calls'[c].result = "ok"
               PROVE  /\ Sum(Share(c, wire)) = Sum(calls'[c].bufs)
                      /\ calls'[c].op \in PacketOps =>
                           \E k \in 0 .. Len(wire) - Len(calls'[c].bufs) : OneEach(c, k)'
    BY <1>4, <1>5 DEF CallsComplete
  <2>1. c \in 1 .. n
    BY <1>1, <1>3
  <2>2. calls'[c] = calls[c]
    BY <1>1, <2>1
  <2>3. \A k : OneEach(c, k)' <=> OneEach(c, k)
    BY <1>4, <2>2 DEF OneEach
  <2> QED BY <1>5, <2>1, <2>2, <2>3 DEF CountInv, CallsComplete
<1>7. out[t] = << >>
  BY <1>1 DEF Types, Busy
<1>8. Accounted(t)'
  <2>1. \A i \in 1 .. Len(wire) : wire[i].call # n + 1
    <3>1. \A i \in 1 .. Len(wire) : wire[i].call \in 1 .. n
      BY DEF WholeInv, Placed, n
    <3>2. ~(n + 1 \in 1 .. n)
      BY <1>1
    <3> QED BY <3>1, <3>2
  <2>2. Sum(Share(n + 1, wire)) = 0
    <3>1. wire \in Seq(Record)
      BY DEF Types, TypeOK
    <3> QED BY <2>1, <3>1, ShareNone
  <2>3. Lens(<< >>) = << >>
    BY DEF Lens
  <2>4. Sum(bufs) \in Nat /\ << >> \o bufs = bufs /\ Sum(<< >>) = 0
    BY <1>2, SumJoin, SumEmpty, ConcatEmptySeq
  <2>5. 0 + 0 + Sum(bufs) = Sum(bufs)
    BY <2>4
  <2> QED BY <1>1, <1>3, <1>4, <1>7, <2>1, <2>2, <2>3, <2>4, <2>5 DEF Accounted
<1>9. ASSUME NEW u \in Threads \ {t}, Running(u)' # {}
      PROVE  Accounted(u)'
  <2>1. Running(u) # {} /\ Current(u)' = Current(u)
    BY <1>1, <1>9
  <2>2. Current(u) \in 1 .. n
    BY <2>1, CurrentType DEF Types, n
  <2>3. calls'[Current(u)] = calls[Current(u)] /\ Accounted(u)
    BY <1>1, <2>1, <2>2 DEF CountInv
  <2> QED BY <1>4, <2>1, <2>3 DEF Accounted, OpOf
<1> QED BY <1>6, <1>8, <1>9 DEF CountInv

\* The end of a call, with some of its records written: the others do not notice.
LEMMA CountOthers ==
  ASSUME Types, WholeInv, CountInv, NEW t \in Threads, Running(t) # {},
         NEW result \in Results \ {"running"}, Return(t, result),
         NEW p \in Seq(Record), \A i \in 1 .. Len(p) : p[i].call = Current(t), wire' = wire \o p
  PROVE  /\ Running(t)' = {}
         /\ \A u \in Threads \ {t} : Running(u)' # {} => Accounted(u)'
         /\ \A c \in 1 .. Len(calls) : c # Current(t) /\ calls'[c].result = "ok" =>
              /\ Sum(Share(c, wire')) = Sum(calls'[c].bufs)
              /\ calls'[c].op \in PacketOps =>
                   \E k \in 0 .. Len(wire') - Len(calls'[c].bufs) : OneEach(c, k)'
<1> DEFINE m == Current(t)
           n == Len(calls)
<1>1. /\ n \in Nat /\ Len(calls') = n /\ m \in 1 .. n
      /\ calls[m].by = t /\ calls[m].result = "running" /\ calls'[m].result = result
      /\ \A i \in 1 .. n :
           /\ calls'[i].by = calls[i].by
           /\ i # m => calls'[i] = calls[i]
      /\ \A u \in Threads \ {t} : Current(u)' = Current(u) /\ Running(u)' = Running(u)
  BY Returned DEF Types
<1>2. DOMAIN calls = 1 .. n /\ DOMAIN calls' = 1 .. n /\ wire \in Seq(Record)
  <2>1. calls' \in Seq([by : Threads, op : Ops, bufs : Seq(Nat), result : Results])
    BY ReturnRuns DEF Types
  <2> QED BY <1>1, <2>1, LenProperties DEF Types, TypeOK
<1>3. \A u \in Threads \ {t} : out'[u] = out[u] /\ left'[u] = left[u]
  BY DEF Return, Types, TypeOK
<1>4. \A i \in 1 .. Len(p) : p[i].call = m
  OBVIOUS
<1> HIDE DEF m, n
<1>5. Running(t)' = {}
  <2> SUFFICES ASSUME NEW i \in 1 .. n, calls'[i].by = t, calls'[i].result = "running" PROVE FALSE
    BY <1>2 DEF Running
  <2>1. i # m
    BY <1>1
  <2>2. calls[i].by = t /\ calls[i].result = "running"
    BY <1>1, <2>1
  <2> QED BY <1>1, <2>1, <2>2 DEF WholeInv, CallsApart, n
<1>6. ASSUME NEW u \in Threads \ {t}, Running(u)' # {}
      PROVE  Accounted(u)'
  <2>1. Running(u) # {} /\ Current(u)' = Current(u)
    BY <1>1, <1>6
  <2>2. Current(u) \in 1 .. n /\ Current(u) # m
    BY <1>1, <2>1, CurrentType DEF Types, n
  <2>3. calls'[Current(u)] = calls[Current(u)] /\ Accounted(u)
    BY <1>1, <2>1, <2>2 DEF CountInv
  <2>4. /\ Sum(Share(Current(u), wire')) = Sum(Share(Current(u), wire))
        /\ (\A i \in 1 .. Len(wire) : wire[i].call # Current(u)) =>
             \A i \in 1 .. Len(wire') : wire'[i].call # Current(u)
    <3>1. /\ Sum(Share(Current(u), wire \o p)) = Sum(Share(Current(u), wire))
          /\ (\A i \in 1 .. Len(wire) : wire[i].call # Current(u)) =>
               \A i \in 1 .. Len(wire \o p) : (wire \o p)[i].call # Current(u)
      <4>1. wire \in Seq(Record) /\ \A i \in 1 .. Len(p) : p[i].call # Current(u)
        BY <1>2, <1>4, <2>2
      <4> QED BY <4>1, OthersStay
    <3> QED BY <3>1
  <2> QED BY <1>3, <2>1, <2>3, <2>4 DEF Accounted, OpOf
<1>7. ASSUME NEW c \in 1 .. n, c # m, calls'[c].result = "ok"
      PROVE  /\ Sum(Share(c, wire')) = Sum(calls'[c].bufs)
             /\ calls'[c].op \in PacketOps =>
                  \E k \in 0 .. Len(wire') - Len(calls'[c].bufs) : OneEach(c, k)'
  <2>1. calls'[c] = calls[c]
    BY <1>1, <1>7
  <2>2. /\ Sum(Share(c, wire)) = Sum(calls[c].bufs)
        /\ calls[c].op \in PacketOps => \E k \in 0 .. Len(wire) - Len(calls[c].bufs) : OneEach(c, k)
    BY <1>2, <1>7, <2>1 DEF CountInv, CallsComplete
  <2>3. Sum(Share(c, wire')) = Sum(Share(c, wire))
    <3>1. Sum(Share(c, wire \o p)) = Sum(Share(c, wire))
      <4>1. wire \in Seq(Record) /\ \A i \in 1 .. Len(p) : p[i].call # c
        BY <1>2, <1>4, <1>7
      <4> QED BY <4>1, OthersStay
    <3> QED BY <3>1
  <2>4. Len(calls[c].bufs) \in Nat /\ DOMAIN calls[c].bufs = 1 .. Len(calls[c].bufs)
    BY CallBuffers DEF Types, n
  <2>5. ASSUME calls'[c].op \in PacketOps
        PROVE  \E k \in 0 .. Len(wire') - Len(calls'[c].bufs) : OneEach(c, k)'
    BY <1>4, <1>7, <2>1, <2>2, <2>4, <2>5, EachStays DEF Types
  <2> QED BY <2>1, <2>2, <2>3, <2>5
<1> QED BY <1>5, <1>6, <1>7 DEF m, n

\* A call that ends without success.
LEMMA CountReturn ==
  ASSUME Types, WholeInv, CountInv, NEW t \in Threads, Running(t) # {},
         NEW result \in {"failed", "refused"}, Return(t, result),
         NEW k \in 0 .. Len(out[t]), wire' = wire \o SubSeq(out[t], 1, k)
  PROVE  CountInv'
<1> DEFINE p == SubSeq(out[t], 1, k)
<1>1. p \in Seq(Record) /\ \A i \in 1 .. Len(p) : p[i].call = Current(t)
  <2>1. /\ Len(out[t]) \in Nat /\ out[t] \in Seq(Record)
        /\ \A i \in 1 .. k : out[t][i] \in Record /\ out[t][i].call = Current(t)
    BY LenProperties, ElementOfSeq DEF WholeInv, Owned, Types, TypeOK
  <2> QED BY <2>1, SubSeqProperties
<1>2. wire' = wire \o p
  OBVIOUS
<1> HIDE DEF p
<1>3. result \in Results \ {"running"}
  BY DEF Results
<1>4. /\ Running(t)' = {}
      /\ \A u \in Threads \ {t} : Running(u)' # {} => Accounted(u)'
      /\ \A c \in 1 .. Len(calls) : c # Current(t) /\ calls'[c].result = "ok" =>
           /\ Sum(Share(c, wire')) = Sum(calls'[c].bufs)
           /\ calls'[c].op \in PacketOps =>
                \E j \in 0 .. Len(wire') - Len(calls'[c].bufs) : OneEach(c, j)'
  BY <1>1, <1>2, <1>3, CountOthers
<1>5. calls'[Current(t)].result = result /\ DOMAIN calls' = 1 .. Len(calls)
  <2>1. calls' \in Seq([by : Threads, op : Ops, bufs : Seq(Nat), result : Results]) /\ Len(calls') = Len(calls)
    BY <1>3, Returned, ReturnRuns DEF Types
  <2> QED BY <1>3, <2>1, Returned, LenProperties DEF Types
<1>6. CallsComplete'
  <2> SUFFICES ASSUME NEW c \in 1 .. Len(calls), calls'[c].result = "ok"
               PROVE  /\ Sum(Share(c, wire')) = Sum(calls'[c].bufs)
                      /\ calls'[c].op \in PacketOps =>
                           \E j \in 0 .. Len(wire') - Len(calls'[c].bufs) : OneEach(c, j)'
    BY <1>5 DEF CallsComplete
  <2>1. c # Current(t)
    BY <1>5
  <2> QED BY <1>4, <2>1
<1> QED BY <1>4, <1>6 DEF CountInv

\* A packet call whose records are all written behind what was there.
OnlyOf(c, records) == \A i \in 1 .. Len(records) : records[i].call = c
NoneOf(c, records) == \A i \in 1 .. Len(records) : records[i].call # c

LEMMA EachWritten ==
  ASSUME NEW w \in Seq(Record), NEW p \in Seq(Record), NEW c, NoneOf(c, w), OnlyOf(c, p)
  PROVE  /\ Len(w) \in 0 .. Len(w \o p) - Len(Lens(p))
         /\ \A i \in DOMAIN (w \o p) : (w \o p)[i].call = c <=> i \in Len(w) + 1 .. Len(w) + Len(Lens(p))
         /\ \A i \in DOMAIN Lens(p) : (w \o p)[Len(w) + i].len = Lens(p)[i]
<1> DEFINE v == w \o p
<1>1. /\ Len(w) \in Nat /\ Len(p) \in Nat /\ v \in Seq(Record) /\ Len(v) = Len(w) + Len(p)
      /\ \A i \in 1 .. Len(w) + Len(p) : v[i] = IF i <= Len(w) THEN w[i] ELSE p[i - Len(w)]
  BY Joined
<1>2. Len(Lens(p)) = Len(p) /\ DOMAIN Lens(p) = 1 .. Len(p) /\ \A i \in 1 .. Len(p) : Lens(p)[i] = p[i].len
  BY LensType DEF Lens
<1>3. DOMAIN v = 1 .. Len(w) + Len(p)
  BY <1>1, LenProperties
<1> HIDE DEF v
<1>4. ASSUME NEW i \in 1 .. Len(w) + Len(p)
      PROVE  v[i].call = c <=> i \in Len(w) + 1 .. Len(w) + Len(p)
  <2>1. CASE i <= Len(w)
    BY <1>1, <2>1 DEF NoneOf
  <2>2. CASE ~(i <= Len(w))
    <3>1. i - Len(w) \in 1 .. Len(p)
      BY <1>1, <2>2
    <3> QED BY <1>1, <2>2, <3>1 DEF OnlyOf
  <2> QED BY <2>1, <2>2
<1>5. ASSUME NEW i \in 1 .. Len(p)
      PROVE  v[Len(w) + i].len = Lens(p)[i]
  <2>1. Len(w) + i \in 1 .. Len(w) + Len(p) /\ ~(Len(w) + i <= Len(w)) /\ (Len(w) + i) - Len(w) = i
    BY <1>1
  <2> QED BY <1>1, <1>2, <2>1
<1>6. Len(w) \in 0 .. Len(v) - Len(p)
  BY <1>1
<1> QED BY <1>2, <1>3, <1>4, <1>5, <1>6 DEF v

LEMMA CountFlush ==
  ASSUME Types, WholeInv, CountInv, NEW t \in Threads, Flush(t)
  PROVE  CountInv'
<1> DEFINE m == Current(t)
           n == Len(calls)
           p == out[t]
<1>1. p # << >> /\ (left[t] = << >> \/ ~Gathers(t)) /\ wire' = wire \o p
  BY DEF Flush
<1>2. Running(t) # {}
  BY <1>1 DEF Types, Busy
<1>3. p \in Seq(Record) /\ wire \in Seq(Record) /\ left[t] \in Seq(Nat) /\ \A i \in 1 .. Len(p) : p[i].call = m
  BY DEF WholeInv, Owned, Types, TypeOK
<1>4. /\ Sum(Share(m, wire)) + Sum(Lens(p)) + Sum(left[t]) = Sum(calls[m].bufs)
      /\ OpOf(t) \in PacketOps =>
           (\A i \in 1 .. Len(wire) : wire[i].call # m) /\ Lens(p) \o left[t] = calls[m].bufs
  BY <1>2 DEF CountInv, Accounted
<1>5. /\ Sum(Share(m, wire')) = Sum(Share(m, wire)) + Sum(Lens(p))
      /\ Sum(Share(m, wire)) \in Nat /\ Sum(Lens(p)) \in Nat /\ Sum(left[t]) \in Nat
  <2>1. Sum(Share(m, wire \o p)) = Sum(Share(m, wire)) + Sum(Share(m, p)) /\ Sum(Share(m, wire)) \in Nat
    BY <1>3, ShareJoin
  <2>2. Share(m, p) = Lens(p)
    BY <1>3, ShareMine
  <2>3. Lens(p) \in Seq(Nat)
    BY <1>3, LensType
  <2>4. Sum(Lens(p)) \in Nat /\ Sum(left[t]) \in Nat
    BY <1>3, <2>3, SumJoin
  <2> QED BY <1>1, <2>1, <2>2, <2>4
<1>6. m \in 1 .. n /\ calls[m].by = t /\ OpOf(t) = calls[m].op
  BY <1>2, CurrentType DEF Types, OpOf
<1> HIDE DEF m, n, p
<1>7. CASE left[t] = << >>
  <2>1. Return(t, "ok") /\ "ok" \in Results \ {"running"}
    BY <1>7 DEF Flush, Results
  <2>2. /\ Running(t)' = {}
        /\ \A u \in Threads \ {t} : Running(u)' # {} => Accounted(u)'
        /\ \A c \in 1 .. Len(calls) : c # Current(t) /\ calls'[c].result = "ok" =>
             /\ Sum(Share(c, wire')) = Sum(calls'[c].bufs)
             /\ calls'[c].op \in PacketOps =>
                  \E k \in 0 .. Len(wire') - Len(calls'[c].bufs) : OneEach(c, k)'
    BY <1>1, <1>2, <1>3, <2>1, CountOthers DEF m
  <2>3. /\ calls'[m].bufs = calls[m].bufs /\ calls'[m].op = calls[m].op
        /\ DOMAIN calls' = 1 .. n
    <3>1. /\ calls' \in Seq([by : Threads, op : Ops, bufs : Seq(Nat), result : Results]) /\ Len(calls') = n
          /\ calls'[m].bufs = calls[m].bufs /\ calls'[m].op = calls[m].op
      BY <1>2, <1>6, <2>1, Returned, ReturnRuns DEF Types, n
    <3> QED BY <3>1, LenProperties
  <2>4. Sum(Share(m, wire')) = Sum(calls'[m].bufs)
    BY <1>4, <1>5, <1>7, <2>3, SumEmpty
  <2>5. ASSUME NEW c, c = m, calls'[c].op \in PacketOps
        PROVE  \E k \in 0 .. Len(wire') - Len(calls'[c].bufs) : OneEach(c, k)'
    <3>1. (\A i \in 1 .. Len(wire) : wire[i].call # c) /\ Lens(p) = calls'[c].bufs
      <4>1. Lens(p) \o << >> = Lens(p)
        BY <1>3, LensType, ConcatEmptySeq
      <4> QED BY <1>4, <1>6, <1>7, <2>3, <2>5, <4>1
    <3>2. /\ Len(wire) \in 0 .. Len(wire \o p) - Len(Lens(p))
          /\ \A i \in DOMAIN (wire \o p) :
               (wire \o p)[i].call = c <=> i \in Len(wire) + 1 .. Len(wire) + Len(Lens(p))
          /\ \A i \in DOMAIN Lens(p) : (wire \o p)[Len(wire) + i].len = Lens(p)[i]
      <4>1. wire \in Seq(Record) /\ p \in Seq(Record) /\ NoneOf(c, wire) /\ OnlyOf(c, p)
        BY <1>3, <2>5, <3>1 DEF NoneOf, OnlyOf
      <4> QED BY <4>1, EachWritten, Zenon
    <3>3. PICK k : k = Len(wire)
      OBVIOUS
    <3>4. /\ k \in 0 .. Len(wire') - Len(calls'[c].bufs)
          /\ \A i \in DOMAIN wire' : wire'[i].call = c <=> i \in k + 1 .. k + Len(calls'[c].bufs)
          /\ \A i \in DOMAIN calls'[c].bufs : wire'[k + i].len = calls'[c].bufs[i]
      BY <1>1, <3>1, <3>2, <3>3
    <3>5. OneEach(c, k)'
      BY <3>4 DEF OneEach
    <3> QED BY <3>4, <3>5
  <2>6. CallsComplete'
    <3> SUFFICES ASSUME NEW c \in 1 .. n, calls'[c].result = "ok"
                 PROVE  /\ Sum(Share(c, wire')) = Sum(calls'[c].bufs)
                        /\ calls'[c].op \in PacketOps =>
                             \E k \in 0 .. Len(wire') - Len(calls'[c].bufs) : OneEach(c, k)'
      BY <2>3 DEF CallsComplete
    <3>1. CASE c = m
      BY <2>4, <2>5, <3>1
    <3>2. CASE c # m
      BY <2>2, <3>2 DEF m, n
    <3> QED BY <3>1, <3>2
  <2> QED BY <2>2, <2>6 DEF CountInv
<1>8. CASE left[t] # << >>
  <2>1. out' = [out EXCEPT ![t] = << >>] /\ UNCHANGED <<calls, left>>
    BY <1>8 DEF Flush
  <2>2. \A u \in Threads : Running(u)' = Running(u) /\ Current(u)' = Current(u) /\ OpOf(u)' = OpOf(u)
    BY <2>1 DEF OpOf, Current, Running
  <2>3. out'[t] = << >> /\ \A u \in Threads \ {t} : out'[u] = out[u]
    BY <2>1 DEF Types, TypeOK
  <2>4. ASSUME NEW c, c # m
        PROVE  /\ Sum(Share(c, wire')) = Sum(Share(c, wire))
               /\ (\A i \in 1 .. Len(wire) : wire[i].call # c) => \A i \in 1 .. Len(wire') : wire'[i].call # c
    <3>1. \A i \in 1 .. Len(p) : p[i].call # c
      BY <1>3, <2>4
    <3>2. /\ Sum(Share(c, wire \o p)) = Sum(Share(c, wire))
          /\ (\A i \in 1 .. Len(wire) : wire[i].call # c) =>
               \A i \in 1 .. Len(wire \o p) : (wire \o p)[i].call # c
      BY <1>3, <3>1, OthersStay
    <3> QED BY <1>1, <3>2
  <2>5. OpOf(t) \notin PacketOps
    BY <1>1, <1>8 DEF Gathers, PacketOps, WholeInv, Single, p
  <2>6. Accounted(t)'
    <3>1. Lens(<< >>) = << >> /\ Sum(<< >>) = 0
      BY SumEmpty DEF Lens
    <3>2. Sum(Share(m, wire')) + 0 + Sum(left[t]) = Sum(calls[m].bufs)
      BY <1>4, <1>5
    <3> QED BY <2>1, <2>2, <2>3, <2>5, <3>1, <3>2 DEF Accounted, m
  <2>7. ASSUME NEW u \in Threads \ {t}, Running(u) # {}
        PROVE  Accounted(u)'
    <3>1. Current(u) # m
      <4>1. calls[Current(u)].by = u
        BY <2>7, CurrentType DEF Types
      <4> QED BY <1>6, <4>1
    <3>2. Accounted(u)
      BY <2>7 DEF CountInv
    <3>3. /\ Sum(Share(Current(u), wire')) = Sum(Share(Current(u), wire))
          /\ (\A i \in 1 .. Len(wire) : wire[i].call # Current(u)) =>
               \A i \in 1 .. Len(wire') : wire'[i].call # Current(u)
      BY <2>4, <3>1
    <3> QED BY <2>1, <2>2, <2>3, <3>2, <3>3 DEF Accounted
  <2>8. CallsComplete'
    <3> SUFFICES ASSUME NEW c \in DOMAIN calls, calls[c].result = "ok"
                 PROVE  /\ Sum(Share(c, wire')) = Sum(calls[c].bufs)
                        /\ calls[c].op \in PacketOps =>
                             \E k \in 0 .. Len(wire') - Len(calls[c].bufs) : OneEach(c, k)'
      BY <2>1 DEF CallsComplete
    <3>1. c # m /\ c \in 1 .. Len(calls)
      <4>1. calls[m].result = "running"
        BY <1>2, CurrentType DEF Types, m
      <4> QED BY <4>1, LenProperties DEF Types, TypeOK
    <3>2. /\ Sum(Share(c, wire)) = Sum(calls[c].bufs)
          /\ calls[c].op \in PacketOps => \E k \in 0 .. Len(wire) - Len(calls[c].bufs) : OneEach(c, k)
      BY DEF CountInv, CallsComplete
    <3>3. Len(calls[c].bufs) \in Nat /\ DOMAIN calls[c].bufs = 1 .. Len(calls[c].bufs)
      BY <3>1, CallBuffers DEF Types
    <3>4. ASSUME calls[c].op \in PacketOps
          PROVE  \E k \in 0 .. Len(wire') - Len(calls'[c].bufs) : OneEach(c, k)'
      BY <1>1, <1>3, <2>1, <3>1, <3>2, <3>3, <3>4, EachStays DEF Types
    <3> QED BY <2>1, <2>4, <3>1, <3>2, <3>4
  <2> QED BY <2>2, <2>6, <2>7, <2>8 DEF CountInv
<1> QED BY <1>7, <1>8

LEMMA StepCounts == Types /\ WholeInv /\ CountInv /\ [Next]_vars => CountInv'
<1> SUFFICES ASSUME Types, WholeInv, CountInv, [Next]_vars PROVE CountInv'
  OBVIOUS
<1>1. ASSUME NEW t \in Threads, Refuse(t) PROVE CountInv'
  <2>1. left[t] # << >> /\ Return(t, "refused") /\ UNCHANGED wire
    BY <1>1 DEF Refuse, Packet, Sealing
  <2>2. out[t] \in Seq(Record) /\ wire \in Seq(Record) /\ Len(out[t]) \in Nat /\ Running(t) # {}
    BY <2>1, LenProperties DEF Types, TypeOK, Busy
  <2>3. SubSeq(out[t], 1, 0) = << >> /\ 0 \in 0 .. Len(out[t])
    BY <2>2, SubSeqEmpty
  <2>4. wire' = wire \o SubSeq(out[t], 1, 0)
    BY <2>1, <2>2, <2>3, ConcatEmptySeq
  <2>5. "refused" \in {"failed", "refused"}
    OBVIOUS
  <2> QED BY <2>1, <2>2, <2>3, <2>4, <2>5, CountReturn
<1>2. ASSUME NEW t \in Threads, FlushFails(t) PROVE CountInv'
  <2>1. /\ out[t] # << >> /\ Return(t, "failed")
        /\ \E k \in 0 .. (IF up THEN Len(out[t]) - 1 ELSE 0) : wire' = wire \o SubSeq(out[t], 1, k)
    BY <1>2 DEF FlushFails
  <2>2. Len(out[t]) \in Nat /\ Len(out[t]) # 0 /\ Running(t) # {}
    BY <2>1, EmptySeq, LenProperties DEF Types, TypeOK, Busy
  <2>3. PICK k \in 0 .. (IF up THEN Len(out[t]) - 1 ELSE 0) : wire' = wire \o SubSeq(out[t], 1, k)
    BY <2>1
  <2>4. k \in 0 .. Len(out[t]) /\ "failed" \in {"failed", "refused"}
    BY <2>2
  <2> QED BY <2>1, <2>2, <2>3, <2>4, CountReturn
<1>3. CASE Tick \/ UNCHANGED vars
  <2>1. UNCHANGED <<calls, wire, left, out>>
    BY <1>3 DEF Tick, vars, writerVars
  <2>2. \A u \in Threads : Running(u)' = Running(u) /\ Current(u)' = Current(u) /\ OpOf(u)' = OpOf(u)
    BY <2>1 DEF OpOf, Current, Running
  <2>3. \A u \in Threads : Accounted(u)' = Accounted(u)
    BY <2>1, <2>2 DEF Accounted
  <2>4. \A c, k : OneEach(c, k)' <=> OneEach(c, k)
    BY <2>1 DEF OneEach
  <2>5. CallsComplete'
    BY <2>1, <2>4 DEF CountInv, CallsComplete
  <2> QED BY <2>2, <2>3, <2>5 DEF CountInv
<1> QED BY <1>1, <1>2, <1>3, CountCall, CountSeal, CountFlush DEF Next

LEMMA InitCounts == Init => CountInv
<1> SUFFICES ASSUME Init PROVE CountInv
  OBVIOUS
<1>1. calls = << >>
  BY DEF Init
<1>2. DOMAIN calls = {}
  BY <1>1
<1>3. \A t \in Threads : Running(t) = {}
  BY <1>2 DEF Running
<1> QED BY <1>2, <1>3 DEF CountInv, CallsComplete

\* A call that returns no error has written each of its bytes once, and a packet call one
\* record for each packet in their order, however its buffers are cut into records,
\* whoever writes between them, and wherever other calls fail.
THEOREM NothingDropped == Spec => []CallsComplete
<1>1. CountInv => CallsComplete
  BY DEF CountInv
<1>2. Types /\ WholeInv /\ CountInv /\ [Next]_vars => (Types /\ WholeInv /\ CountInv)'
  BY StepTypes, StepWhole, StepCounts
<1>3. Init => Types /\ WholeInv /\ CountInv
  BY InitTypes, InitWhole, InitCounts
<1> QED BY <1>1, <1>2, <1>3, PTL DEF Spec

=============================================================================
