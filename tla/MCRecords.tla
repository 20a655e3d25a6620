------------------------------ MODULE MCRecords ------------------------------
EXTENDS RecordProperties
Pairs == {<<2, 3>>}
Symmetry == Permutations(Threads)

\* A profile, to see the definitions of module Profile at work; its theorems are about
\* every profile.
Shaping == INSTANCE Profile

Numbers ==
  [padMin |-> 24, padSpan |-> 160, prefixMinHS |-> 96, prefixSpanHS |-> 160,
   prefixMin |-> 80, prefixSpan |-> 160, initial |-> 512, firstCap |-> 768, chunkMax |-> 8192,
   step |-> 1024, chunkJitter |-> 16, padCount |-> 2, padInterval |-> 2, smallLimit |-> 96,
   writeFirst |-> 4, writeJitter |-> 8, writeJitterPct |-> 48, mixRounds |-> 3,
   mixStride |-> 2, mixOffsetBase |-> 15, mixBlock |-> 8]

Sample ==
  Shaping!NewProfile(Numbers, 128, [i \in 0 .. 7 |-> 4096 + i],
                     [i \in 0 .. 7 |-> 320 + 160 * i], [i \in 0 .. 7 |-> 1460])

Bytes(start, len) == [i \in 0 .. len - 1 |-> start + i]

\* Records below and above the targets, behind the salt and later.
ASSUME SampleFits ==
  /\ Shaping!PaddingLens(Sample, 0, 3, 1300, 80, 0, 0) \subseteq 0 .. Sample.padMaxHeadroom
  /\ Shaping!PaddingLens(Sample, 0, 3, 1500, 80, 128, 144) \subseteq 0 .. Sample.padMaxHeadroom

ASSUME SampleUnmixes ==
  \A mode \in 0 .. 2, l \in {0, 1, 20, 40}, k \in {17, 40} :
    LET x      == [padding |-> Bytes(100, l), payload |-> Bytes(500, k)]
        mix(y) == Shaping!MixPaddingPayload(Sample, mode, <<7>> @@ (0 :> 3) @@ (2 :> 5), Least(l, k), y)
    IN  mix(mix(x)) = x /\ (l = 40 => mix(x) # x)
=============================================================================
