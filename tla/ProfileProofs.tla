----------------------------- MODULE ProfileProofs -----------------------------
(***************************************************************************)
(* Theorems about every Profile that NewProfile can make: its ranges are   *)
(* never empty, the loop of writeTarget ends, a record fits the room its   *)
(* writer asks for, and the reader undoes the mixing.                      *)
(***************************************************************************)
EXTENDS Profile, TLAPS

Within(x, lo, hi) == x \in Int /\ lo <= x /\ x <= hi

LEMMA PickWithin ==
  ASSUME NEW lo \in Int, NEW hi \in Int, NEW x \in Pick(lo, hi)
  PROVE  Within(x, lo, hi)
  BY DEF Pick, Within

\* What the other theorems use of a profile; the panic of pick is out of reach.
Sound(p) ==
  /\ Within(p.padMin, 24, 160) /\ Within(p.padMax, p.padMin, MaxExtraPadding)
  /\ p.padCount \in Nat /\ p.padInterval \in Nat \ {0} /\ p.smallLimit \in Nat
  /\ Within(p.prefixMinRecord, 8, p.prefixMaxRecord) /\ Within(p.prefixMaxRecord, 8, 128)
  /\ p.recordPrefixMax = p.prefixMaxRecord /\ p.padMaxHeadroom = p.padMax + MaxExtraPadding
  /\ Within(p.saltBlockLen, SaltLen + 16, SaltLen + 128)
  /\ Within(p.chunkInitial, 64, p.chunkMax) /\ Within(p.chunkMax, 8192, 16383)
  /\ Within(p.firstRecordCap, 256, 768)
  /\ p.chunkStep \in Nat \ {0} /\ p.chunkJitter \in Nat
  /\ \A i \in 0 .. 7 : Within(p.chunkBuckets[i], 4096, p.chunkMax)
  /\ \A i \in 0 .. 7 : Within(p.writeBuckets[i], 320, 1460) /\ Within(p.writeSeq[i], 360, 1460)
  /\ Within(p.writeFirst, 4, 8) /\ Within(p.writeJitter, 8, 96) /\ Within(p.writeJitterPct, 8, 48)
  /\ Within(p.mixRounds, 1, 3) /\ Within(p.mixStride, 2, 13) /\ Within(p.mixOffsetBase, 0, 15)
  /\ Within(p.mixBlock, 8, 64)

\* NewProfile never asks pick for an empty range, whatever it has drawn so far.
THEOREM RangesNotEmpty ==
  ASSUME NEW d \in Drawn
  PROVE  /\ PrefixMinHS(d) <= PrefixMaxHS(d) /\ 4096 <= LargestChunk(d)
         /\ d.padMin <= PadMax(d)
         /\ Least(d.prefixMin, PrefixMaxRecord(d)) <= PrefixMaxRecord(d)
<1>1. /\ Within(d.padMin, 24, 160) /\ Within(d.padSpan, 160, 960)
      /\ Within(d.prefixMinHS, 16, 96) /\ Within(d.prefixSpanHS, 16, 160)
      /\ Within(d.prefixMin, 8, 80) /\ Within(d.prefixSpan, 16, 160)
      /\ Within(d.initial, 512, 1460) /\ Within(d.chunkMax, 8192, 16383)
  BY PickWithin DEF Drawn
<1>2. PrefixMinHS(d) <= PrefixMaxHS(d) /\ d.padMin <= PadMax(d)
  BY <1>1 DEF Within, PrefixMinHS, PrefixMaxHS, PadMax, Least, MaxExtraPadding
<1>3. Least(d.prefixMin, PrefixMaxRecord(d)) <= PrefixMaxRecord(d)
  BY <1>1 DEF Within, PrefixMaxRecord, Least
<1>4. 4096 <= LargestChunk(d)
  BY <1>1 DEF Within, LargestChunk, InitialChunk, Least, Most
<1> QED
  BY <1>2, <1>3, <1>4

\* Every profile has its numbers where the shaped writer counts on them: buckets that are
\* indexed exist, nothing is divided by zero, the limits of the record writer
\* (chunkInitial, chunkMax, firstRecordCap) are ordered, the salt block's positions fit
\* a byte.
THEOREM ProfileSound ==
  ASSUME NEW p, IsProfile(p)
  PROVE  Sound(p)
<1>0. PICK d \in Drawn :
        \E s \in Pick(PrefixMinHS(d), PrefixMaxHS(d)),
           cb \in [0 .. 7 -> Pick(4096, LargestChunk(d))],
           wb \in [0 .. 7 -> Pick(320, 1460)], ws \in [0 .. 7 -> Pick(360, 1460)] :
          p = NewProfile(d, s, cb, wb, ws)
  BY DEF IsProfile
<1>1. PICK s \in Pick(PrefixMinHS(d), PrefixMaxHS(d)),
           cb \in [0 .. 7 -> Pick(4096, LargestChunk(d))],
           wb \in [0 .. 7 -> Pick(320, 1460)], ws \in [0 .. 7 -> Pick(360, 1460)] :
        p = NewProfile(d, s, cb, wb, ws)
  BY <1>0
<1>2. /\ Within(d.padMin, 24, 160) /\ Within(d.padSpan, 160, 960)
      /\ Within(d.prefixMinHS, 16, 96) /\ Within(d.prefixSpanHS, 16, 160)
      /\ Within(d.prefixMin, 8, 80) /\ Within(d.prefixSpan, 16, 160)
      /\ Within(d.initial, 512, 1460) /\ Within(d.firstCap, 256, 768) /\ Within(d.chunkMax, 8192, 16383)
      /\ Within(d.step, 1024, 4096) /\ Within(d.chunkJitter, 16, 192)
  BY PickWithin DEF Drawn
<1>3. /\ Within(d.padCount, 2, 8) /\ Within(d.padInterval, 2, 11) /\ Within(d.smallLimit, 96, 768)
      /\ Within(d.writeFirst, 4, 8) /\ Within(d.writeJitter, 8, 96) /\ Within(d.writeJitterPct, 8, 48)
      /\ Within(d.mixRounds, 1, 3) /\ Within(d.mixStride, 2, 13) /\ Within(d.mixOffsetBase, 0, 15)
      /\ Within(d.mixBlock, 8, 64)
  BY PickWithin DEF Drawn
<1>4. /\ Within(PadMax(d), d.padMin, MaxExtraPadding)
      /\ Within(PrefixMaxRecord(d), 8, 128)
      /\ Within(Least(d.prefixMin, PrefixMaxRecord(d)), 8, PrefixMaxRecord(d))
      /\ Within(PrefixMinHS(d), 16, 128) /\ Within(PrefixMaxHS(d), 16, 128)
  BY <1>2 DEF Within, PadMax, PrefixMaxRecord, PrefixMinHS, PrefixMaxHS, Least, MaxExtraPadding
<1>5. /\ Within(InitialChunk(d), 512, 1460) /\ Within(FirstRecordCap(d), 256, 768)
      /\ Within(LargestChunk(d), 8192, 16383) /\ InitialChunk(d) <= LargestChunk(d)
      /\ Least(d.step, 2920) \in Nat \ {0} /\ Least(d.chunkJitter, 182) \in Nat
  BY <1>2 DEF Within, InitialChunk, FirstRecordCap, LargestChunk, Least, Most
<1>6. Within(s, 16, 128)
  BY <1>4, PickWithin DEF Within
<1>7. /\ p.padMin = d.padMin /\ p.padMax = PadMax(d) /\ p.padCount = d.padCount
      /\ p.padInterval = d.padInterval /\ p.smallLimit = d.smallLimit
      /\ p.prefixMinRecord = Least(d.prefixMin, PrefixMaxRecord(d))
      /\ p.prefixMaxRecord = PrefixMaxRecord(d) /\ p.recordPrefixMax = PrefixMaxRecord(d)
      /\ p.padMaxHeadroom = PadMax(d) + MaxExtraPadding /\ p.saltBlockLen = SaltLen + s
  BY <1>1 DEF NewProfile
<1>8. /\ p.chunkInitial = InitialChunk(d) /\ p.firstRecordCap = FirstRecordCap(d)
      /\ p.chunkMax = LargestChunk(d) /\ p.chunkStep = Least(d.step, 2920)
      /\ p.chunkJitter = Least(d.chunkJitter, 182)
      /\ p.chunkBuckets = cb /\ p.writeBuckets = wb /\ p.writeSeq = ws
      /\ p.writeFirst = d.writeFirst /\ p.writeJitter = d.writeJitter
      /\ p.writeJitterPct = d.writeJitterPct
      /\ p.mixRounds = d.mixRounds /\ p.mixStride = d.mixStride
      /\ p.mixOffsetBase = d.mixOffsetBase /\ p.mixBlock = d.mixBlock
  BY <1>1 DEF NewProfile
<1>9. /\ \A i \in 0 .. 7 : Within(cb[i], 4096, LargestChunk(d))
      /\ \A i \in 0 .. 7 : Within(wb[i], 320, 1460) /\ Within(ws[i], 360, 1460)
  BY <1>5, PickWithin DEF Within
<1>10. /\ Within(p.padMin, 24, 160) /\ Within(p.padMax, p.padMin, MaxExtraPadding)
       /\ p.padCount \in Nat /\ p.padInterval \in Nat \ {0} /\ p.smallLimit \in Nat
       /\ Within(p.prefixMinRecord, 8, p.prefixMaxRecord) /\ Within(p.prefixMaxRecord, 8, 128)
       /\ p.recordPrefixMax = p.prefixMaxRecord /\ p.padMaxHeadroom = p.padMax + MaxExtraPadding
       /\ Within(p.saltBlockLen, SaltLen + 16, SaltLen + 128)
  BY <1>2, <1>3, <1>4, <1>6, <1>7 DEF Within, SaltLen
<1>11. /\ Within(p.chunkInitial, 64, p.chunkMax) /\ Within(p.chunkMax, 8192, 16383)
       /\ Within(p.firstRecordCap, 256, 768)
       /\ p.chunkStep \in Nat \ {0} /\ p.chunkJitter \in Nat
       /\ Within(p.writeFirst, 4, 8) /\ Within(p.writeJitter, 8, 96) /\ Within(p.writeJitterPct, 8, 48)
       /\ Within(p.mixRounds, 1, 3) /\ Within(p.mixStride, 2, 13) /\ Within(p.mixOffsetBase, 0, 15)
       /\ Within(p.mixBlock, 8, 64)
  BY <1>3, <1>5, <1>8 DEF Within
<1>12. /\ \A i \in 0 .. 7 : Within(p.chunkBuckets[i], 4096, p.chunkMax)
       /\ \A i \in 0 .. 7 : Within(p.writeBuckets[i], 320, 1460) /\ Within(p.writeSeq[i], 360, 1460)
  BY <1>8, <1>9
<1> QED
  BY <1>10, <1>11, <1>12 DEF Sound

-----------------------------------------------------------------------------
\* Every turn of the loop of writeTarget raises the target, so the loop reaches the frame.
THEOREM TargetGrows ==
  ASSUME NEW p, IsProfile(p), NEW target \in Nat, target < 1459, NEW n \in NextTargets(p, target)
  PROVE  Within(n, target + 1, MaxField)
<1>1. Sound(p)
  BY ProfileSound
<1>2. PICK i \in 0 .. 7 :
        n = IF p.writeBuckets[i] <= target
            THEN Least(target + p.padMax, MaxField) ELSE p.writeBuckets[i]
  BY DEF NextTargets
<1>3. Within(p.writeBuckets[i], 320, 1460) /\ Within(p.padMax, 24, 730)
  BY <1>1 DEF Sound, Within, MaxExtraPadding
<1> QED
  BY <1>2, <1>3 DEF Within, Least, MaxField

LEMMA SpreadSize ==
  ASSUME NEW p, Sound(p), NEW frame \in Nat, frame <= 1459
  PROVE  Within(Spread(p, frame), 0, MaxExtraPadding)
<1>1. Within(p.writeJitterPct, 8, 48)
  BY DEF Sound
<1>2. frame * p.writeJitterPct \in Nat
  BY <1>1 DEF Within
<1>3. (frame * p.writeJitterPct) \div 100 \in Nat
  BY <1>2
<1> QED
  BY <1>3 DEF Within, Spread, Least, MaxExtraPadding

\* The first target is at least one, so the loop's test for a negative one never holds.
LEMMA StartsPositive ==
  ASSUME NEW p, Sound(p), NEW policy, NEW seq \in Nat, NEW frame \in Nat, frame <= 1459,
         NEW t \in StartTargets(p, policy, seq, frame)
  PROVE  t \in Nat \ {0}
<1>0. PICK b \in Planned(p, seq) : \E j \in Jittered(p, policy, b) : t \in SpreadTargets(p, frame, j)
  BY DEF StartTargets
<1>1. PICK j \in Jittered(p, policy, b) : t \in SpreadTargets(p, frame, j)
  BY <1>0
<1>2. Within(b, 320, 1460)
  <2>1. CASE seq < p.writeFirst
    <3>1. seq \in 0 .. 7
      BY <2>1 DEF Sound, Within
    <3> QED
      BY <2>1, <3>1 DEF Within, Planned, Sound
  <2>2. CASE ~(seq < p.writeFirst)
    BY <2>2 DEF Within, Planned, Sound
  <2> QED
    BY <2>1, <2>2
<1>3. j \in Nat \ {0}
  BY <1>1, <1>2 DEF Within, Jittered, Most, Sound
<1>4. Within(Spread(p, frame), 0, 730)
  BY SpreadSize DEF MaxExtraPadding
<1>5. /\ Spread(p, frame) \div 2 \in Nat
      /\ Least(j + Spread(p, frame), MaxField) \in Nat \ {0}
  BY <1>3, <1>4 DEF Within, Least, MaxField
<1> QED
  BY <1>1, <1>3, <1>5 DEF SpreadTargets

LEMMA TargetType ==
  ASSUME NEW p, IsProfile(p), NEW policy, NEW seq \in Nat, NEW frame \in Nat,
         NEW t \in WriteTargets(p, policy, seq, frame)
  PROVE  t \in Nat
<1>1. Sound(p)
  BY ProfileSound
<1>2. CASE frame > 1459
  BY <1>2 DEF WriteTargets, Least, MaxField
<1>3. CASE ~(frame > 1459)
  <2>1. frame \in Nat /\ frame <= 1459
    BY <1>3
  <2>2. PICK s \in StartTargets(p, policy, seq, frame) :
          t \in IF s >= frame THEN {s}
                ELSE {n \in UNION {NextTargets(p, m) : m \in s .. frame - 1} : n >= frame}
    BY <1>3 DEF WriteTargets
  <2>3. s \in Nat \ {0}
    BY <1>1, <2>1, StartsPositive
  <2>4. CASE s >= frame
    BY <2>2, <2>3, <2>4
  <2>5. CASE ~(s >= frame)
    <3>1. PICK m \in s .. frame - 1 : t \in NextTargets(p, m)
      BY <2>2, <2>5
    <3>2. m \in Nat /\ m < 1459
      BY <2>1, <2>3, <3>1
    <3>3. Within(t, m + 1, MaxField)
      BY <3>1, <3>2, TargetGrows
    <3> QED
      BY <3>2, <3>3 DEF Within, MaxField
  <2> QED
    BY <2>4, <2>5
<1> QED
  BY <1>2, <1>3

\* firstRecordPaddingLen keeps to padMax + maxExtraPadding when it is given no more.
LEMMA FirstPaddingFits ==
  ASSUME NEW p, Sound(p), NEW padding, Within(padding, 0, p.padMaxHeadroom),
         NEW prefix, Within(prefix, 8, 128),
         NEW saltPrefix, Within(saltPrefix, 16, 128), NEW payload \in Nat
  PROVE  Within(FirstRecordPaddingLen(p, padding, prefix, saltPrefix, payload), 0, p.padMaxHeadroom)
<1> DEFINE input     == payload + (IF payload = 0 THEN 39 ELSE 55)
           threshold == Most((input * 25 + 74) \div 75, 192)
           wanted    == Least(threshold - saltPrefix - prefix, p.padMax + MaxExtraPadding)
<1>1. p.padMaxHeadroom = p.padMax + MaxExtraPadding /\ p.padMaxHeadroom \in Nat
  BY DEF Sound, Within, MaxExtraPadding
<1>2. input \in Nat
  OBVIOUS
<1>3. (input * 25 + 74) \div 75 \in Nat
  BY <1>2
<1>4. threshold \in Nat
  BY <1>3 DEF Most
<1>5. saltPrefix + prefix + padding < threshold => Within(wanted, 0, p.padMaxHeadroom)
  <2> HIDE DEF threshold
  <2> QED
    BY <1>1, <1>4 DEF Within, Least
<1>6. FirstRecordPaddingLen(p, padding, prefix, saltPrefix, payload)
        = IF saltPrefix + prefix + padding >= threshold \/ wanted > MaxField - 1 THEN padding ELSE wanted
  BY DEF FirstRecordPaddingLen
<1> HIDE DEF wanted, threshold, input
<1>7. CASE saltPrefix + prefix + padding >= threshold
  BY <1>6, <1>7
<1>8. CASE ~(saltPrefix + prefix + padding >= threshold)
  <2>1. saltPrefix + prefix + padding < threshold
    BY <1>1, <1>4, <1>8 DEF Within
  <2> QED
    BY <1>5, <1>6, <2>1
<1> QED
  BY <1>7, <1>8

\* paddingLen never exceeds padMaxHeadroom, in whatever way its three rules combine; so it
\* fits the padding field and its last min never cuts anything.
THEOREM PaddingFits ==
  ASSUME NEW p, IsProfile(p), NEW policy, NEW seq \in Nat, NEW payload \in Nat,
         NEW prefix \in PrefixLens(p), NEW total \in Nat, NEW saltPrefix \in Nat,
         total > 0 => Within(saltPrefix, 16, 128),
         NEW len \in PaddingLens(p, policy, seq, payload, prefix, saltPrefix, total)
  PROVE  Within(len, 0, p.padMaxHeadroom) /\ p.padMaxHeadroom < MaxField
<1>1. Sound(p)
  BY ProfileSound
<1>2. /\ p.padMaxHeadroom = p.padMax + 730 /\ p.padMax \in Nat /\ p.padMax <= 730
      /\ p.padMin \in Nat /\ p.padMin <= p.padMax /\ Within(prefix, 8, 128)
  <2>1. /\ Within(p.padMin, 24, 160) /\ Within(p.padMax, p.padMin, 730)
        /\ p.padMaxHeadroom = p.padMax + 730
        /\ Within(p.prefixMinRecord, 8, p.prefixMaxRecord) /\ Within(p.prefixMaxRecord, 8, 128)
    BY <1>1 DEF Sound, MaxExtraPadding
  <2>2. Within(prefix, p.prefixMinRecord, p.prefixMaxRecord)
    BY <2>1, PickWithin DEF PrefixLens, Within
  <2> QED
    BY <2>1, <2>2 DEF Within
<1>0. PICK base \in BasePads(p, seq, payload) :
        LET frame == FrameLen(total, prefix, base, payload)
        IN  \E t \in WriteTargets(p, policy, seq, frame) :
              LET wide == base + (IF t > frame THEN Least(t - frame, MaxExtraPadding) ELSE 0)
                  all  == IF total > 0
                          THEN FirstRecordPaddingLen(p, wide, prefix, saltPrefix, payload) ELSE wide
              IN  len = Least(all, MaxField)
  BY DEF PaddingLens
<1> DEFINE frame == FrameLen(total, prefix, base, payload)
<1>3. PICK t \in WriteTargets(p, policy, seq, frame) :
        LET wide == base + (IF t > frame THEN Least(t - frame, MaxExtraPadding) ELSE 0)
            all  == IF total > 0
                    THEN FirstRecordPaddingLen(p, wide, prefix, saltPrefix, payload) ELSE wide
        IN  len = Least(all, MaxField)
  BY <1>0
<1> DEFINE wide  == base + (IF t > frame THEN Least(t - frame, MaxExtraPadding) ELSE 0)
           all   == IF total > 0
                    THEN FirstRecordPaddingLen(p, wide, prefix, saltPrefix, payload) ELSE wide
<1>4. Within(base, 0, p.padMax)
  BY <1>2, PickWithin DEF BasePads, Within
<1>5. base \in Nat /\ frame \in Nat
  BY <1>2, <1>4 DEF Within, FrameLen, HeaderCipherLen, AEADTagLen
<1>6. t \in Nat
  <2> HIDE DEF frame
  <2> QED
    BY <1>5, TargetType
<1>7. Within(wide, 0, p.padMaxHeadroom)
  <2> HIDE DEF frame
  <2> QED
    BY <1>2, <1>4, <1>5, <1>6 DEF Within, Least, MaxExtraPadding
<1>8. Within(all, 0, p.padMaxHeadroom)
  <2> HIDE DEF wide
  <2>1. CASE total > 0
    BY <1>1, <1>2, <1>7, <2>1, FirstPaddingFits
  <2>2. CASE ~(total > 0)
    BY <1>7, <2>2
  <2> QED
    BY <2>1, <2>2
<1>9. len = Least(all, MaxField)
  BY <1>3
<1> HIDE DEF all
<1> QED
  BY <1>2, <1>8, <1>9 DEF Within, Least, MaxField

\* What makeBufferRecord puts in front of a payload never exceeds the room FrontHeadroom
\* asks for, before and after the salt is sent: ExtendHeader does not panic.
THEOREM HeadroomSuffices ==
  ASSUME NEW p, IsProfile(p), NEW policy, NEW seq \in Nat, NEW payload \in Nat,
         NEW saltSent \in BOOLEAN, NEW len \in FrontLens(p, policy, seq, payload, saltSent)
  PROVE  Within(len, 0, FrontHeadroom(p, saltSent))
<1>1. Sound(p)
  BY ProfileSound
<1> DEFINE total      == IF saltSent THEN 0 ELSE p.saltBlockLen
           saltPrefix == IF saltSent THEN 0 ELSE p.saltBlockLen - SaltLen
<1>0. PICK prefix \in PrefixLens(p) :
        \E padding \in PaddingLens(p, policy, seq, payload, prefix, saltPrefix, total) :
          len = total + prefix + HeaderCipherLen + padding
  BY DEF FrontLens
<1>2. PICK padding \in PaddingLens(p, policy, seq, payload, prefix, saltPrefix, total) :
        len = total + prefix + HeaderCipherLen + padding
  BY <1>0
<1>3. total \in Nat /\ saltPrefix \in Nat /\ (total > 0 => Within(saltPrefix, 16, 128))
  BY <1>1 DEF Sound, Within, SaltLen
<1>4. Within(prefix, 8, p.recordPrefixMax)
  <2>1. /\ Within(p.prefixMinRecord, 8, p.prefixMaxRecord) /\ Within(p.prefixMaxRecord, 8, 128)
        /\ p.recordPrefixMax = p.prefixMaxRecord
    BY <1>1 DEF Sound
  <2>2. Within(prefix, p.prefixMinRecord, p.prefixMaxRecord)
    BY <2>1, PickWithin DEF PrefixLens, Within
  <2> QED
    BY <2>1, <2>2 DEF Within
<1>5. Within(padding, 0, p.padMaxHeadroom)
  <2> HIDE DEF total, saltPrefix
  <2> QED
    BY <1>2, <1>3, PaddingFits
<1>6. p.recordPrefixMax \in Nat /\ p.padMaxHeadroom \in Nat
  BY <1>1 DEF Sound, Within, MaxExtraPadding
<1>7. FrontHeadroom(p, saltSent) = p.recordPrefixMax + HeaderCipherLen + p.padMaxHeadroom + total
  BY DEF FrontHeadroom
<1> HIDE DEF total, saltPrefix
<1> QED
  BY <1>2, <1>3, <1>4, <1>5, <1>6, <1>7 DEF Within, HeaderCipherLen

-----------------------------------------------------------------------------

\* Padding and payload of a record, with the lengths l and k.
Regions(Byte, l, k) == [padding : [0 .. l - 1 -> Byte], payload : [0 .. k - 1 -> Byte]]

\* y is x with the offsets at exchanged.
Exchanged(at, x, y, l, k) ==
  /\ \A i \in 0 .. l - 1 : y.padding[i] = IF i \in at THEN x.payload[i] ELSE x.padding[i]
  /\ \A i \in 0 .. k - 1 : y.payload[i] = IF i \in at THEN x.padding[i] ELSE x.payload[i]

\* Offsets that lie in both.
Shared(at, l, k) == \A i \in at : i \in 0 .. l - 1 /\ i \in 0 .. k - 1

LEMMA ExchangeType ==
  ASSUME NEW Byte, NEW l \in Nat, NEW k \in Nat, NEW x \in Regions(Byte, l, k),
         NEW at, Shared(at, l, k)
  PROVE  Exchange(at, x) \in Regions(Byte, l, k) /\ Exchanged(at, x, Exchange(at, x), l, k)
<1>1. /\ x.padding \in [0 .. l - 1 -> Byte] /\ x.payload \in [0 .. k - 1 -> Byte]
      /\ DOMAIN x.padding = 0 .. l - 1 /\ DOMAIN x.payload = 0 .. k - 1
  BY DEF Regions
<1> DEFINE u == [i \in DOMAIN x.padding |-> IF i \in at THEN x.payload[i] ELSE x.padding[i]]
           v == [i \in DOMAIN x.payload |-> IF i \in at THEN x.padding[i] ELSE x.payload[i]]
<1>3. u \in [0 .. l - 1 -> Byte] /\ v \in [0 .. k - 1 -> Byte]
  BY <1>1 DEF Shared
<1>4. Exchange(at, x) = [padding |-> u, payload |-> v]
  BY DEF Exchange
<1>5. /\ \A i \in 0 .. l - 1 : u[i] = IF i \in at THEN x.payload[i] ELSE x.padding[i]
      /\ \A i \in 0 .. k - 1 : v[i] = IF i \in at THEN x.padding[i] ELSE x.payload[i]
  BY <1>1
<1> HIDE DEF u, v
<1> QED
  BY <1>3, <1>4, <1>5 DEF Regions, Exchanged

LEMMA SameRegions ==
  ASSUME NEW Byte, NEW l \in Nat, NEW k \in Nat,
         NEW x \in Regions(Byte, l, k), NEW y \in Regions(Byte, l, k),
         \A i \in 0 .. l - 1 : x.padding[i] = y.padding[i],
         \A i \in 0 .. k - 1 : x.payload[i] = y.payload[i]
  PROVE  x = y
<1>1. x.padding = y.padding /\ x.payload = y.payload
  BY DEF Regions
<1> QED
  BY <1>1 DEF Regions

\* Exchanging the same offsets twice changes nothing.
LEMMA ExchangeTwice ==
  ASSUME NEW Byte, NEW l \in Nat, NEW k \in Nat, NEW x \in Regions(Byte, l, k),
         NEW at, Shared(at, l, k)
  PROVE  Exchange(at, Exchange(at, x)) = x
<1>1. PICK y \in Regions(Byte, l, k) : y = Exchange(at, x) /\ Exchanged(at, x, y, l, k)
  BY ExchangeType
<1>2. PICK z \in Regions(Byte, l, k) : z = Exchange(at, y) /\ Exchanged(at, y, z, l, k)
  BY ExchangeType
<1>3. /\ \A i \in 0 .. l - 1 : z.padding[i] = x.padding[i]
      /\ \A i \in 0 .. k - 1 : z.payload[i] = x.payload[i]
  BY <1>1, <1>2 DEF Exchanged, Shared
<1>4. z = x
  BY <1>3, SameRegions
<1> QED
  BY <1>1, <1>2, <1>4

\* Exchanges commute.
LEMMA ExchangesCommute ==
  ASSUME NEW Byte, NEW l \in Nat, NEW k \in Nat, NEW x \in Regions(Byte, l, k),
         NEW one, Shared(one, l, k), NEW two, Shared(two, l, k)
  PROVE  Exchange(one, Exchange(two, x)) = Exchange(two, Exchange(one, x))
<1>1. PICK a \in Regions(Byte, l, k) : a = Exchange(one, x) /\ Exchanged(one, x, a, l, k)
  BY ExchangeType
<1>2. PICK b \in Regions(Byte, l, k) : b = Exchange(two, x) /\ Exchanged(two, x, b, l, k)
  BY ExchangeType
<1>3. PICK ba \in Regions(Byte, l, k) : ba = Exchange(two, a) /\ Exchanged(two, a, ba, l, k)
  BY ExchangeType
<1>4. PICK ab \in Regions(Byte, l, k) : ab = Exchange(one, b) /\ Exchanged(one, b, ab, l, k)
  BY ExchangeType
<1>5. \A i \in 0 .. l - 1 : ab.padding[i] = ba.padding[i]
  BY <1>1, <1>2, <1>3, <1>4 DEF Exchanged, Shared
<1>6. \A i \in 0 .. k - 1 : ab.payload[i] = ba.payload[i]
  BY <1>1, <1>2, <1>3, <1>4 DEF Exchanged, Shared
<1>7. ab = ba
  BY <1>5, <1>6, SameRegions
<1> QED
  BY <1>1, <1>2, <1>3, <1>4, <1>7

\* The offsets of a round are below the shorter length.
LEMMA MixedShared ==
  ASSUME NEW p, Sound(p), NEW mode \in {0, 1, 2}, NEW draw, NEW round \in {0, 1, 2},
         NEW l \in Nat, NEW k \in Nat
  PROVE  Shared(Mixed(p, mode, draw, round, Least(l, k)), l, k)
<1> DEFINE n == Least(l, k)
<1>1. n \in Nat /\ n <= l /\ n <= k
  BY DEF Least
<1> HIDE DEF n
<1>2. Mixed(p, mode, draw, round, n) \subseteq 0 .. n - 1
  <2>1. CASE mode = 0
    BY <2>1 DEF Mixed, StrideOffsets
  <2>2. CASE mode = 1
    <3>1. p.mixBlock \in Nat
      BY DEF Sound, Within
    <3>2. (round % 2) * p.mixBlock \in Nat
      BY <3>1
    <3> QED
      BY <1>1, <2>2, <3>2 DEF Mixed, BlockOffsets
  <2>3. CASE mode = 2
    BY <2>3 DEF Mixed, StrideOffsets
  <2> QED
    BY <2>1, <2>2, <2>3
<1> QED
  BY <1>1, <1>2 DEF Shared, n

\* The reader, which mixes once more what it received, has padding and payload as the
\* writer sealed them: in every mode, for every profile, any lengths and whatever the
\* offsets drawn for the record.
THEOREM MixingUndone ==
  ASSUME NEW p, IsProfile(p), NEW mode \in {0, 1, 2}, NEW draw, NEW Byte,
         NEW l \in Nat, NEW k \in Nat, NEW x \in Regions(Byte, l, k)
  PROVE  LET n == Least(l, k)
         IN  MixPaddingPayload(p, mode, draw, n, MixPaddingPayload(p, mode, draw, n, x)) = x
<1> DEFINE n == Least(l, k)
           M(r) == Mixed(p, mode, draw, r, n)
           A(y) == Exchange(M(0), y)
           B(y) == Exchange(M(1), y)
           C(y) == Exchange(M(2), y)
           R == Regions(Byte, l, k)
<1>1. Sound(p)
  BY ProfileSound
<1>2. Shared(M(0), l, k) /\ Shared(M(1), l, k) /\ Shared(M(2), l, k)
  BY <1>1, MixedShared
<1>3. p.mixRounds \in Int /\ 1 <= p.mixRounds /\ p.mixRounds <= 3
  BY <1>1 DEF Sound, Within
<1> HIDE DEF M, R, n
<1>4. \A y \in R : A(y) \in R /\ B(y) \in R /\ C(y) \in R
  BY <1>2, ExchangeType DEF R
<1>5. \A y \in R : A(A(y)) = y /\ B(B(y)) = y /\ C(C(y)) = y
  BY <1>2, ExchangeTwice DEF R
<1>6. \A y \in R : A(B(y)) = B(A(y)) /\ A(C(y)) = C(A(y)) /\ B(C(y)) = C(B(y))
  BY <1>2, ExchangesCommute DEF R
<1>7. x \in R
  BY DEF R
<1> DEFINE Mix(y) == MixPaddingPayload(p, mode, draw, n, y)
<1>8. CASE n = 0
  BY <1>8 DEF MixPaddingPayload, n
<1>9. CASE n # 0 /\ p.mixRounds = 1
  <2>1. \A y : Mix(y) = A(y)
    BY <1>9 DEF MixPaddingPayload, M
  <2> QED
    BY <1>5, <1>7, <2>1 DEF n
<1>10. CASE n # 0 /\ p.mixRounds = 2
  <2>1. \A y : Mix(y) = B(A(y))
    BY <1>10 DEF MixPaddingPayload, M
  <2> HIDE DEF A, B, Mix
  <2>2. Mix(Mix(x)) = B(A(B(A(x))))
    BY <2>1
  <2>3. B(A(B(A(x)))) = B(B(A(A(x))))
    BY <1>4, <1>6, <1>7
  <2>4. B(B(A(A(x)))) = x
    BY <1>5, <1>7
  <2> QED
    BY <2>2, <2>3, <2>4 DEF Mix, n
<1>11. CASE n # 0 /\ p.mixRounds = 3
  <2>1. \A y : Mix(y) = C(B(A(y)))
    BY <1>11 DEF MixPaddingPayload, M
  <2> HIDE DEF A, B, C, Mix
  <2>2. Mix(Mix(x)) = C(B(A(C(B(A(x))))))
    BY <2>1
  <2>3. A(C(B(A(x)))) = C(A(B(A(x))))
    BY <1>4, <1>6, <1>7
  <2>4. A(B(A(x))) = B(x)
    <3>1. A(B(A(x))) = B(A(A(x)))
      BY <1>4, <1>6, <1>7
    <3> QED
      BY <1>5, <1>7, <3>1
  <2>5. B(C(B(x))) = C(x)
    <3>1. B(C(B(x))) = C(B(B(x)))
      BY <1>4, <1>6, <1>7
    <3> QED
      BY <1>5, <1>7, <3>1
  <2>6. C(C(x)) = x
    BY <1>5, <1>7
  <2> QED
    BY <2>2, <2>3, <2>4, <2>5, <2>6 DEF Mix, n
<1> QED
  BY <1>3, <1>8, <1>9, <1>10, <1>11
=============================================================================
