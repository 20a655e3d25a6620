------------------------------- MODULE Profile --------------------------------
(***************************************************************************)
(* The Profile of snellv6: numbers drawn from the key that shape the       *)
(* records of the default mode.  Which of its range a number takes is a    *)
(* pseudorandom function of the key and the record; here it is any of      *)
(* them, and an operator that depends on such numbers returns the set of   *)
(* its possible values.  The record writer trusts that their sums fit the  *)
(* headroom it announces and the header's padding field, and that the      *)
(* reader undoes what mixing does to padding and payload.                  *)
(***************************************************************************)
EXTENDS Integers

Least(a, b) == IF a < b THEN a ELSE b
Most(a, b)  == IF a < b THEN b ELSE a

MaxExtraPadding == 730     \* maxExtraPadding
MaxField        == 65535   \* the padding and payload fields of a header
HeaderCipherLen == 23
AEADTagLen      == 16
SaltLen         == 16

\* Every raw value gives one of the range; pick and pickU32 panic when it is empty.
Pick(lo, hi) == lo .. hi

\* What NewProfile draws from fixed ranges.
Drawn ==
  [padMin : Pick(24, 160), padSpan : Pick(160, 960),
   prefixMinHS : Pick(16, 96), prefixSpanHS : Pick(16, 160),
   prefixMin : Pick(8, 80), prefixSpan : Pick(16, 160),
   initial : Pick(512, 1460), firstCap : Pick(256, 768), chunkMax : Pick(8192, 16383),
   step : Pick(1024, 4096), chunkJitter : Pick(16, 192),
   padCount : Pick(2, 8), padInterval : Pick(2, 11), smallLimit : Pick(96, 768),
   writeFirst : Pick(4, 8), writeJitter : Pick(8, 96), writeJitterPct : Pick(8, 48),
   mixRounds : Pick(1, 3), mixStride : Pick(2, 13), mixOffsetBase : Pick(0, 15),
   mixBlock : Pick(8, 64)]

\* The ends of the range that the length of the salt's prefix is drawn from.
PrefixMaxHS(d) == Least(d.prefixMinHS + d.prefixSpanHS, 128)
PrefixMinHS(d) == Least(d.prefixMinHS, PrefixMaxHS(d))

\* NewProfile: what follows from the numbers drawn.
PadMax(d)          == Least(d.padMin + d.padSpan, MaxExtraPadding)
PrefixMaxRecord(d) == Least(d.prefixMin + d.prefixSpan, 128)
InitialChunk(d)    == Most(96, Least(d.initial, 1460))
FirstRecordCap(d)  == Most(256, Least(d.firstCap, Least(InitialChunk(d), 768)))
LargestChunk(d)    == Most(d.chunkMax, InitialChunk(d))

\* NewProfile, from the numbers drawn from fixed ranges and those whose ranges depend
\* on them.
NewProfile(d, saltPrefixLen, chunkBuckets, writeBuckets, writeSeq) ==
  [padMin          |-> d.padMin,
   padMax          |-> PadMax(d),
   padCount        |-> d.padCount,
   padInterval     |-> d.padInterval,
   smallLimit      |-> d.smallLimit,
   prefixMinRecord |-> Least(d.prefixMin, PrefixMaxRecord(d)),
   prefixMaxRecord |-> PrefixMaxRecord(d),
   mixRounds       |-> d.mixRounds,
   mixStride       |-> d.mixStride,
   mixOffsetBase   |-> d.mixOffsetBase,
   mixBlock        |-> d.mixBlock,
   chunkInitial    |-> InitialChunk(d),
   firstRecordCap  |-> FirstRecordCap(d),
   chunkMax        |-> LargestChunk(d),
   chunkStep       |-> Least(d.step, 2920),
   chunkJitter     |-> Least(d.chunkJitter, 182),
   writeFirst      |-> d.writeFirst,
   writeJitter     |-> d.writeJitter,
   writeJitterPct  |-> d.writeJitterPct,
   chunkBuckets    |-> chunkBuckets,
   writeBuckets    |-> writeBuckets,
   writeSeq        |-> writeSeq,
   saltBlockLen    |-> SaltLen + saltPrefixLen,
   recordPrefixMax |-> PrefixMaxRecord(d),
   padMaxHeadroom  |-> PadMax(d) + MaxExtraPadding]

\* Any profile that NewProfile returns.
IsProfile(p) ==
  \E d \in Drawn : \E s \in Pick(PrefixMinHS(d), PrefixMaxHS(d)),
                      cb \in [0 .. 7 -> Pick(4096, LargestChunk(d))],
                      wb \in [0 .. 7 -> Pick(320, 1460)], ws \in [0 .. 7 -> Pick(360, 1460)] :
    p = NewProfile(d, s, cb, wb, ws)

-----------------------------------------------------------------------------
\* Padding.
PrefixLens(p) == Pick(p.prefixMinRecord, p.prefixMaxRecord)

\* paddingLen, its first part: early, small and every so many records are padded.
BasePads(p, seq, payload) ==
  IF seq < p.padCount \/ payload \in 1 .. p.smallLimit \/ seq % p.padInterval = 0
  THEN Pick(p.padMin, p.padMax) ELSE {0}

\* writeTarget: the target before its jitter and spread.
Planned(p, seq) ==
  IF seq < p.writeFirst THEN {p.writeSeq[seq]} ELSE {p.writeBuckets[i] : i \in 0 .. 7}

\* The jitter of write policy 2.
Jittered(p, policy, target) ==
  IF policy = 2 THEN {Most(target + j, 1) : j \in -p.writeJitter .. p.writeJitter} ELSE {target}

Spread(p, frame) == Least(MaxExtraPadding, (frame * p.writeJitterPct) \div 100)

\* A spread wider, or half of it narrower.
SpreadTargets(p, frame, target) ==
  LET s == Spread(p, frame)
  IN  {Least(target + s, MaxField), IF target > s \div 2 THEN target - s \div 2 ELSE target}

StartTargets(p, policy, seq, frame) ==
  UNION {SpreadTargets(p, frame, t) : t \in UNION {Jittered(p, policy, b) : b \in Planned(p, seq)}}

\* One turn of the loop of writeTarget: a bucket that is larger, or padMax more.
NextTargets(p, target) ==
  {IF p.writeBuckets[i] <= target THEN Least(target + p.padMax, MaxField) ELSE p.writeBuckets[i] :
     i \in 0 .. 7}

\* writeTarget.  Its loop ends with the turn that reaches the frame; the target that
\* turn starts from is any from the first on that does not.
WriteTargets(p, policy, seq, frame) ==
  IF frame > 1459 THEN {Least(frame, MaxField)}
  ELSE UNION {IF t >= frame THEN {t}
              ELSE {n \in UNION {NextTargets(p, m) : m \in t .. frame - 1} : n >= frame} :
                t \in StartTargets(p, policy, seq, frame)}

\* firstRecordPaddingLen.
FirstRecordPaddingLen(p, padding, prefix, saltPrefix, payload) ==
  LET input     == payload + (IF payload = 0 THEN 39 ELSE 55)
      threshold == Most((input * 25 + 74) \div 75, 192)
      wanted    == Least(threshold - saltPrefix - prefix, p.padMax + MaxExtraPadding)
  IN  IF saltPrefix + prefix + padding >= threshold \/ wanted > MaxField - 1 THEN padding ELSE wanted

FrameLen(total, prefix, padding, payload) ==
  total + prefix + HeaderCipherLen + padding + payload + (IF payload > 0 THEN AEADTagLen ELSE 0)

\* paddingLen: base padding, what is missing to the target, and more for the record
\* behind the salt (total, the length of the salt block, is 0 for the others).
PaddingLens(p, policy, seq, payload, prefix, saltPrefix, total) ==
  UNION {LET frame == FrameLen(total, prefix, base, payload)
         IN  {LET wide == base + (IF t > frame THEN Least(t - frame, MaxExtraPadding) ELSE 0)
                  all  == IF total > 0
                          THEN FirstRecordPaddingLen(p, wide, prefix, saltPrefix, payload) ELSE wide
              IN  Least(all, MaxField) : t \in WriteTargets(p, policy, seq, frame)} :
           base \in BasePads(p, seq, payload)}

\* makeBufferRecord: what it puts in front of the payload; ExtendHeader panics when the
\* buffer has less room there.
FrontLens(p, policy, seq, payload, saltSent) ==
  LET total == IF saltSent THEN 0 ELSE p.saltBlockLen
      saltPrefix == IF saltSent THEN 0 ELSE p.saltBlockLen - SaltLen
  IN  UNION {{total + prefix + HeaderCipherLen + padding :
                padding \in PaddingLens(p, policy, seq, payload, prefix, saltPrefix, total)} :
               prefix \in PrefixLens(p)}

\* shapedWriter.FrontHeadroom: the room the caller is asked to leave.
FrontHeadroom(p, saltSent) ==
  p.recordPrefixMax + HeaderCipherLen + p.padMaxHeadroom + (IF saltSent THEN 0 ELSE p.saltBlockLen)

-----------------------------------------------------------------------------
\* Mixing.  padding and payload are functions from their offsets to bytes.

Stride(p, round) == Most(p.mixStride + (round % 3), 1)

\* mixFixedStride, and mixPRFStride, whose offset is drawn with the sequence number:
\* draw[round] is that number.
StrideOffsets(start, stride, n) == {i \in 0 .. n - 1 : i >= start /\ (i - start) % stride = 0}

\* mixAlternatingBlock: every other whole block.
BlockOffsets(p, round, n) ==
  LET first == (round % 2) * p.mixBlock
  IN  {i \in first .. n - 1 :
         /\ ((i - first) \div p.mixBlock) % 2 = 0
         /\ first + ((i - first) \div p.mixBlock + 1) * p.mixBlock <= n}

\* The offsets at which a round exchanges padding and payload.
Mixed(p, mode, draw, round, n) ==
  CASE mode = 0 -> StrideOffsets(p.mixOffsetBase % Stride(p, round), Stride(p, round), n)
    [] mode = 1 -> BlockOffsets(p, round, n)
    [] mode = 2 -> StrideOffsets((draw[round] + p.mixOffsetBase) % Stride(p, round),
                                 Stride(p, round), n)

Exchange(at, x) ==
  [padding |-> [i \in DOMAIN x.padding |-> IF i \in at THEN x.payload[i] ELSE x.padding[i]],
   payload |-> [i \in DOMAIN x.payload |-> IF i \in at THEN x.padding[i] ELSE x.payload[i]]]

\* mixPaddingPayload, with n the shorter of the two lengths; mixRounds is 1 to 3.
MixPaddingPayload(p, mode, draw, n, x) ==
  LET one   == Exchange(Mixed(p, mode, draw, 0, n), x)
      two   == IF p.mixRounds > 1 THEN Exchange(Mixed(p, mode, draw, 1, n), one) ELSE one
      three == IF p.mixRounds > 2 THEN Exchange(Mixed(p, mode, draw, 2, n), two) ELSE two
  IN  IF n = 0 THEN x ELSE three
=============================================================================
