--------------------------- MODULE RecordProperties ---------------------------
(***************************************************************************)
(* What the record layer promises to the connections above it.             *)
(***************************************************************************)
EXTENDS RecordStream, SequencesExt, FiniteSets

\* The payload limits stay within a record's length field, whatever the clock does: the
\* panic "invalid payload limit" of v4 and the division by the limit in v5 are out of
\* reach.
LimitsValid ==
  /\ kind = "v4" => Limit4(window, clock) \in 1 .. MaxPayload
  /\ kind = "v5" =>
       /\ Limit5(window, clock) \in 1 .. MaxPayload
       /\ window.room \in 0 .. Batch /\ (window.room > 0 => window.stream \in 1 .. MaxPayload)
  /\ kind = "shaped" => ShapedLimits(window, clock) \subseteq 1 .. MaxPayload
  /\ limit \in 0 .. MaxPayload
  /\ \A t \in Threads : \A i \in DOMAIN out[t] : out[t][i].len \in 0 .. MaxPayload

TypeOK ==
  /\ kind \in Kinds /\ firstLimit \in FirstLimits /\ up \in BOOLEAN
  /\ clock \in Nat /\ now \in Nat /\ limit \in Nat /\ nonce \in Nat
  /\ holder \in Threads \cup {"free"}
  /\ calls \in Seq([by : Threads, op : Ops, bufs : Seq(Nat), result : Results])
  /\ left \in [Threads -> Seq(Nat)]
  /\ window \in Window
  /\ out \in [Threads -> Seq(Record)] /\ wire \in Seq(Record)
  /\ breaks \subseteq 0 .. Len(wire)

\* The nonce of the reader that has opened the records before the i-th.
Due(i) == IF i = 1 THEN 0 ELSE After(wire[i - 1])

\* The reader opens every record with the nonce it was sealed with: records reach the
\* connection in the order their nonces were taken, by whichever goroutine.  Where a failed
\* write or a refused batch has given records up, the nonce that is due there is of none
\* that comes later: the reader fails, and takes no record in the place of another.  (The
\* raw writer's numbers are in this order too, but its reader has none to compare.)
NoncesAgree ==
  \A i \in DOMAIN wire :
    IF i - 1 \in breaks THEN \A j \in i .. Len(wire) : wire[j].nonce > Due(i)
    ELSE wire[i].nonce = Due(i)

\* The records of a call are not interrupted by another's.  Only a Write of the v6
\* writers without shaping lets go of the lock between two records.
WholeCalls ==
  \A i, k \in DOMAIN wire : \A j \in i .. k :
    /\ wire[i].call = wire[k].call /\ wire[j].call # wire[i].call
    => kind \in {"unshaped", "raw"} /\ calls[wire[i].call].op = "write"

Sum(s) == LET sum[i \in 0 .. Len(s)] == IF i = 0 THEN 0 ELSE sum[i - 1] + s[i]
          IN  sum[Len(s)]

\* The bytes of call c in each of the records.
Share(c, records) ==
  [i \in DOMAIN records |-> IF records[i].call = c THEN records[i].len ELSE 0]

\* The records of call c, and no others, are those behind the k-th, one for each packet.
OneEach(c, k) ==
  LET packets == calls[c].bufs
  IN  /\ \A i \in DOMAIN wire : wire[i].call = c <=> i \in k + 1 .. k + Len(packets)
      /\ \A i \in DOMAIN packets : wire[k + i].len = packets[i]

\* A call that returns no error has written each of its bytes once, and a packet call
\* one record for each packet, in their order.
CallsComplete ==
  \A c \in DOMAIN calls : calls[c].result = "ok" =>
    /\ Sum(Share(c, wire)) = Sum(calls[c].bufs)
    /\ calls[c].op \in PacketOps => \E k \in 0 .. Len(wire) - Len(calls[c].bufs) : OneEach(c, k)

\* After a pause the stream starts with small records again.  (Behind a gap the pause on
\* the wire is not the writer's.)
SlowStart ==
  \A i \in 2 .. Len(wire) : i - 1 \notin breaks =>
    LET pause == wire[i].at - wire[i - 1].at
    IN  /\ kind \in {"v4", "v5"} /\ pause >= ResetAfter => wire[i].len <= Step
        /\ kind = "shaped" /\ ChunkBuckets = {} /\ pause > IdleReset /\ calls[wire[i].call].op \notin PacketOps
           => wire[i].len <= ChunkInitial + ChunkJitter

\* The WriterMTU of the packet connection, with the address it puts before a packet.
MTU == IF kind \in {"v4", "v5"} THEN Step ELSE MaxPayload

\* A packet within the WriterMTU of the packet connection is never refused.
MTUAccepted ==
  \A c \in DOMAIN calls : calls[c].result = "refused" =>
    \E i \in DOMAIN calls[c].bufs : calls[c].bufs[i] > MTU
=============================================================================
