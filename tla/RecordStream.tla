----------------------------- MODULE RecordStream -----------------------------
(***************************************************************************)
(* One direction of a tunnel: the record writers of snellv4, snellv5 and   *)
(* snellv6 with the goroutines that share one, and the nonce of the reader *)
(* at the other end.  A writer seals records under its lock, each with the *)
(* next nonce, and hands them to the TCP connection at once or when the    *)
(* call is complete; what it seals is cut to the payload limit of the      *)
(* moment.                                                                 *)
(*                                                                         *)
(* kind is the writer at hand: "v4" (of the client), "v5" (of the server   *)
(* that serves v4 clients), and the three modes of snellv6, "shaped",      *)
(* "unshaped" and "raw".                                                   *)
(***************************************************************************)
EXTENDS Integers, Sequences

CONSTANTS
  Threads,      \* goroutines that write
  MaxPayload,   \* snell.MaxPayloadLen
  Step,         \* frameSize - resetRecordOverhead, framePayloadStep
  FirstLimits,  \* frameSize - firstRecordOverhead - initialPaddingLen, for every padding
  ResetAfter,   \* framePayloadResetInterval
  Batch,        \* streamPayloadBatchSize
  ChunkMin,     \* 0x40 in chunkPayloadLimit
  ChunkInitial, ChunkStep, ChunkMax, ChunkJitter, ChunkBuckets, FirstCap, IdleReset, \* of the Profile
  Sizes,        \* bound: lengths of the buffers written
  Vectors,      \* bound: pairs of lengths written together
  MaxCalls,     \* bound: calls of the writer
  MaxClock      \* bound: the clock, in the unit of ResetAfter

ASSUME StreamAssumption ==
  /\ "free" \notin Threads
  /\ MaxPayload \in Nat \ {0}
  /\ Step \in 1 .. MaxPayload
  /\ FirstLimits # {} /\ FirstLimits \subseteq 1 .. Step
  /\ ResetAfter \in Nat \ {0} /\ IdleReset \in Nat
  /\ Batch \in Nat \ {0}
  /\ ChunkMin \in Nat \ {0} /\ ChunkMax \in ChunkMin .. MaxPayload
  /\ ChunkInitial \in ChunkMin .. ChunkMax
  /\ ChunkStep \in Nat /\ ChunkJitter \in Nat /\ FirstCap \in Nat \ {0}
  /\ ChunkBuckets \subseteq Nat
  /\ Sizes \subseteq Nat \ {0} /\ Vectors \subseteq Seq(Nat \ {0})
  /\ MaxCalls \in Nat /\ MaxClock \in Nat

Kinds == {"v4", "v5", "shaped", "unshaped", "raw"}

\* The methods: Write, WriteVectorised of a stream, WritePacketBuffer, WriteVectorised
\* of a packet batch, WriteZeroChunk; and the first record of a tunnel.
\* WriteBuffer cuts and writes as Write does.
Ops     == {"write", "vector", "packet", "packets", "zero", "first"}
Results == {"running", "ok", "failed", "refused"}

VARIABLES
  kind, firstLimit,
  clock,    \* time.Now().Unix()
  calls,    \* every call so far: its goroutine, operation, buffers and result
  holder,   \* the goroutine that has access, or "free"
  left,     \* of each goroutine: what its call has still to seal
  now,      \* of the holder: the time its payload limit is taken at, 0 before
  limit,    \* of the holder: its payload limit
  window,   \* the pacing fields of the writer
  nonce,    \* of the writer; raw seals nothing, its records are numbered all the same
  out,      \* of each goroutine: records sealed and not yet written
  wire,     \* every record written
  breaks,   \* history: how many were when sealed records were given up
  up        \* the TCP connection

writerVars == <<holder, left, now, limit, window, nonce, out>>

vars == <<kind, firstLimit, clock, calls, wire, breaks, up, writerVars>>

\* last: lastWriteUnix, lastFrameUnix.  next: payloadLimit of v4, framePayloadLen.
\* stream, room: streamPayloadLen, streamPayloadLeft.  chunk: chunkSize.
\* fresh: saltSent is false.
Window == [last : Int, next : Nat, stream : Nat, room : Nat, chunk : Nat, fresh : BOOLEAN]
Record == [call : Nat, len : Nat, at : Nat, nonce : Nat]

\* The reader opens the header with one nonce and the payload with another: the nonce
\* it has then for the next record.
After(record) == record.nonce + (IF record.len = 0 THEN 1 ELSE 2)

Init ==
  /\ kind \in Kinds /\ firstLimit \in FirstLimits
  /\ clock = 1 /\ calls = <<>> /\ wire = <<>> /\ breaks = {} /\ up = TRUE
  /\ holder = "free" /\ left = [t \in Threads |-> <<>>] /\ now = 0 /\ limit = 0
  /\ window = [last |-> 0, next |-> 0, stream |-> 0, room |-> 0, chunk |-> 0, fresh |-> TRUE]
  /\ nonce = 0 /\ out = [t \in Threads |-> <<>>]

-----------------------------------------------------------------------------
\* Payload limits.
Least(a, b) == IF a < b THEN a ELSE b
Most(a, b)  == IF a < b THEN b ELSE a

Recent(w, time) == w.last # 0 /\ time - w.last < ResetAfter

\* payloadLimitFor of v4.
Limit4(w, time) ==
  IF w.fresh THEN firstLimit
  ELSE IF Recent(w, time) /\ w.next > 0 THEN w.next ELSE Step

\* Mutant: the next limit is not capped.
Advance4NoCap(w, time) == [w EXCEPT !.last = time, !.next = Limit4(w, time) + Step]

\* advancePayloadLimit of v4.
Advance4(w, time) ==
  [w EXCEPT !.last = time, !.next = Least(Limit4(w, time) + Step, MaxPayload)]

\* nextPayloadLimit of v5, the value.
Limit5(w, time) ==
  IF w.last = 0 THEN firstLimit
  ELSE IF Recent(w, time) /\ w.next > 0 THEN w.next ELSE Step

\* markPayloadLimitUsed.
Advance5(w, time) ==
  [w EXCEPT !.last = time, !.next = Least(Limit5(w, time) + Step, MaxPayload)]

\* Mutant: a pause does not end the virtual batch.
NextBatchGoesOn(w, time) ==
  IF w.room = 0
  THEN [Advance5(w, time) EXCEPT !.stream = Limit5(w, time), !.room = Batch]
  ELSE [w EXCEPT !.last = time]

\* nextStreamPayloadBatch of v5: a new virtual batch, or the rest of the last one.
NextBatch(w, time) ==
  IF w.room = 0 \/ (w.last # 0 /\ time - w.last >= ResetAfter)
  THEN [Advance5(w, time) EXCEPT !.stream = Limit5(w, time), !.room = Batch]
  ELSE [w EXCEPT !.last = time]

\* chunkSize of the shaped writer after an idle reset.
Chunk(w, time) ==
  IF w.last = 0 \/ time - w.last > IdleReset \/ w.chunk = 0 THEN ChunkInitial ELSE w.chunk

\* chunkPayloadLimit: by the profile's policy one of its buckets, or the chunk with
\* its jitter.
ChunkLimits(chunk) ==
  {Most(ChunkMin, Least(c, ChunkMax)) :
     c \in IF ChunkBuckets # {} THEN ChunkBuckets ELSE (chunk - ChunkJitter) .. (chunk + ChunkJitter)}

\* payloadLimitFor of the shaped writer, the values.
ShapedLimits(w, time) ==
  {Most(1, Least(IF w.fresh THEN Least(l, FirstCap) ELSE l, MaxPayload)) :
     l \in ChunkLimits(Chunk(w, time))}

\* payloadLimitFor of the shaped writer, the effect; nextChunkSize.
AdvanceShaped(w, time) ==
  [w EXCEPT !.last = time, !.chunk = Least(Chunk(w, time) + ChunkStep, ChunkMax)]

-----------------------------------------------------------------------------
\* Calls.
Running(t) == {i \in DOMAIN calls : calls[i].by = t /\ calls[i].result = "running"}
Current(t) == CHOOSE i \in Running(t) : TRUE
OpOf(t)    == calls[Current(t)].op

Buffers(op) ==
  CASE op = "zero"                  -> {<<0>>}
    [] op = "first"                 -> {<<n>> : n \in Sizes \cup {0}}
    [] op \in {"write", "packet"}   -> {<<n>> : n \in Sizes}
    [] op \in {"vector", "packets"} -> Vectors

PacketOps == {"packet", "packets"}

\* The connection makes its writer with the first record, and lets nobody else write
\* before; a v4 writer sends the salt with whatever comes first.  A tunnel carries a
\* stream or packets; packets follow the request or the reply.
Allowed(op) ==
  /\ op = "first" <=> calls = <<>> /\ kind # "v4"
  /\ calls # <<>> /\ calls[1].op = "first" => calls[1].result = "ok"
  /\ op \in PacketOps =>
       calls # <<>> /\ calls[1].op \in {"first", "write"} /\ calls[1].result = "ok"
  /\ \A i \in 2 .. Len(calls) : calls[i].op \in PacketOps <=> op \in PacketOps

Call(t) == \E op \in Ops : \E bufs \in Buffers(op) :
  /\ Len(calls) < MaxCalls /\ Running(t) = {} /\ Allowed(op)
  /\ calls' = Append(calls, [by |-> t, op |-> op, bufs |-> bufs, result |-> "running"])
  /\ left' = [left EXCEPT ![t] = bufs]
  /\ UNCHANGED <<kind, firstLimit, clock, wire, breaks, up, holder, now, limit, window, nonce, out>>

Return(t, result) ==
  /\ calls' = [calls EXCEPT ![Current(t)].result = result]
  /\ left' = [left EXCEPT ![t] = <<>>]
  /\ out' = [out EXCEPT ![t] = <<>>]
  /\ holder' = "free" /\ now' = 0 /\ limit' = 0

\* Records that wait for the rest of the call before they are written.
Gathers(t) ==
  \/ OpOf(t) \in {"vector", "packets"}
  \/ kind = "shaped"
  \/ OpOf(t) = "first" /\ kind = "unshaped"

\* A call takes the lock before it seals, and seals when what it sealed before is
\* written, or gathered.
Sealing(t) == holder \in {"free", t} /\ left[t] # <<>> /\ (out[t] = <<>> \/ Gathers(t))

\* The time a limit is taken at: once for a call of v4 and a Write of the shaped writer,
\* and again for each packet, batch or record otherwise.  Without shaping none is taken.
Moment(t) ==
  CASE kind \in {"unshaped", "raw"} -> 0
    [] kind = "v5" \/ OpOf(t) = "packets" \/ (kind = "shaped" /\ OpOf(t) = "vector") -> clock
    [] OTHER -> IF now = 0 THEN clock ELSE now

\* Mutant: the rest that does not fill a record is dropped.
CutDropsRest(n, len) == [i \in 1 .. n \div len |-> len]

\* Records of len bytes at most, for n bytes.
Cut(n, len) ==
  [i \in 1 .. (n + len - 1) \div len |-> Least(len, n - (i - 1) * len)]

Records(t, lens, time) ==
  [i \in DOMAIN lens |->
     [call |-> Current(t), len |-> lens[i], at |-> time, nonce |-> nonce + 2 * (i - 1)]]

\* Seals records for the next n bytes of the call.
Seal(t, lens, n, time) ==
  /\ out' = [out EXCEPT ![t] = @ \o Records(t, lens, time)]
  /\ nonce' = nonce + (IF n = 0 THEN 1 ELSE 2 * Len(lens))
  /\ left' = [left EXCEPT ![t] = IF n = Head(@) THEN Tail(@) ELSE <<Head(@) - n>> \o Tail(@)]
  /\ now' = time /\ holder' = t
  /\ UNCHANGED <<kind, firstLimit, clock, calls, wire, breaks, up>>

Data(t) == Sealing(t) /\ OpOf(t) \notin PacketOps /\ Head(left[t]) > 0

\* Mutant: saltSent is not set.
SealV4StaysFresh(t) ==
  /\ kind = "v4" /\ Data(t)
  /\ limit' = IF limit = 0 THEN Limit4(window, Moment(t)) ELSE limit
  /\ window' = IF limit = 0 THEN Advance4(window, Moment(t)) ELSE window
  /\ LET n == Least(Head(left[t]), limit') IN Seal(t, <<n>>, n, Moment(t))

\* v4: one limit for the call, one record after another.
SealV4(t) ==
  /\ kind = "v4" /\ Data(t)
  /\ limit' = IF limit = 0 THEN Limit4(window, Moment(t)) ELSE limit
  /\ window' = IF limit = 0 THEN [Advance4(window, Moment(t)) EXCEPT !.fresh = FALSE] ELSE window
  /\ LET n == Least(Head(left[t]), limit') IN Seal(t, <<n>>, n, Moment(t))

\* Mutant: the batch is not cut to streamPayloadLeft.
SealV5Overdraws(t) ==
  /\ kind = "v5" /\ Data(t)
  /\ LET w == NextBatch(window, clock)
         n == Head(left[t])
     IN  /\ window' = [w EXCEPT !.room = @ - n, !.fresh = FALSE]
         /\ Seal(t, Cut(n, w.stream), n, clock)
  /\ UNCHANGED limit

\* v5: what the virtual batch has room for, in records of its limit.
SealV5(t) ==
  /\ kind = "v5" /\ Data(t)
  /\ LET w == NextBatch(window, clock)
         n == Least(Head(left[t]), w.room)
     IN  /\ window' = [w EXCEPT !.room = @ - n, !.fresh = FALSE]
         /\ Seal(t, Cut(n, w.stream), n, clock)
  /\ UNCHANGED limit

\* v6, default mode: a limit for each record.
SealShaped(t) ==
  /\ kind = "shaped" /\ Data(t)
  /\ \E l \in ShapedLimits(window, Moment(t)) :
       LET n == Least(Head(left[t]), l) IN Seal(t, <<n>>, n, Moment(t))
  /\ window' = [AdvanceShaped(window, Moment(t)) EXCEPT !.fresh = FALSE]
  /\ UNCHANGED limit

\* v6, the other modes: records as large as they may be.
SealPlain(t) ==
  /\ kind \in {"unshaped", "raw"} /\ Data(t)
  /\ LET n == Least(Head(left[t]), MaxPayload) IN Seal(t, <<n>>, n, Moment(t))
  /\ UNCHANGED <<limit, window>>

\* A zero chunk or a packet takes a step of the window and ends the virtual batch.
Spend(w, time) ==
  CASE kind = "v4"     -> [Advance4(w, time) EXCEPT !.fresh = FALSE]
    [] kind = "v5"     -> [Advance5(w, time) EXCEPT !.room = 0, !.fresh = FALSE]
    [] kind = "shaped" -> [AdvanceShaped(w, time) EXCEPT !.fresh = FALSE]
    [] OTHER           -> w

SealZero(t) ==
  /\ Sealing(t) /\ Head(left[t]) = 0
  /\ window' = Spend(window, Moment(t))
  /\ Seal(t, <<0>>, 0, Moment(t))
  /\ UNCHANGED limit

PacketLimit(w, time) ==
  CASE kind = "v4" -> Limit4(w, time)
    [] kind = "v5" -> Limit5(w, time)
    [] OTHER       -> MaxPayload

\* A v6 batch is looked through before anything is sealed.
TooLarge(t) ==
  IF kind \in {"v4", "v5"} THEN Head(left[t]) > PacketLimit(window, Moment(t))
  ELSE \E i \in DOMAIN left[t] : left[t][i] > MaxPayload

Packet(t) == Sealing(t) /\ OpOf(t) \in PacketOps

\* A packet is one record.
SealPacket(t) ==
  /\ Packet(t) /\ ~TooLarge(t)
  /\ window' = Spend(window, Moment(t))
  /\ Seal(t, <<Head(left[t])>>, Head(left[t]), Moment(t))
  /\ UNCHANGED limit

\* What is sealed and will not be written.  Its nonces are spent.
GiveUp(records, written) ==
  breaks' = IF records = <<>> THEN breaks ELSE breaks \cup {Len(written)}

\* ErrPayloadTooLarge: what the batch sealed before is released unwritten.  (v6 looks
\* before it locks.)
Refuse(t) ==
  /\ Packet(t) /\ TooLarge(t)
  /\ GiveUp(out[t], wire)
  /\ Return(t, "refused")
  /\ UNCHANGED <<kind, firstLimit, clock, wire, up, window, nonce>>

\* Mutant: every writer lets go of the lock after each write.
FlushUnlocks(t) ==
  /\ out[t] # <<>> /\ (left[t] = <<>> \/ ~Gathers(t))
  /\ up /\ wire' = wire \o out[t]
  /\ IF left[t] = <<>> THEN Return(t, "ok")
     ELSE /\ out' = [out EXCEPT ![t] = <<>>]
          /\ holder' = "free" /\ now' = 0
          /\ UNCHANGED <<calls, left, limit>>
  /\ UNCHANGED <<kind, firstLimit, clock, breaks, up, window, nonce>>

\* upstream.Write.  Write of the unshaped and raw writers holds the lock for one record
\* at a time.
Flush(t) ==
  /\ out[t] # <<>> /\ (left[t] = <<>> \/ ~Gathers(t))
  /\ up /\ wire' = wire \o out[t]
  /\ IF left[t] = <<>> THEN Return(t, "ok")
     ELSE /\ out' = [out EXCEPT ![t] = <<>>]
          /\ IF kind \in {"unshaped", "raw"}
             THEN holder' = "free" /\ now' = 0
             ELSE UNCHANGED <<holder, now>>
          /\ UNCHANGED <<calls, left, limit>>
  /\ UNCHANGED <<kind, firstLimit, clock, breaks, up, window, nonce>>

\* Mutant: a failed write gives back the nonces of what it has not written.
FlushFailsGivesBack(t) ==
  /\ out[t] # <<>> /\ (left[t] = <<>> \/ ~Gathers(t))
  /\ \E k \in 0 .. (IF up THEN Len(out[t]) - 1 ELSE 0) :
       wire' = wire \o SubSeq(out[t], 1, k) /\ nonce' = out[t][k + 1].nonce
  /\ GiveUp(out[t], wire')
  /\ up' \in {FALSE, up}
  /\ Return(t, "failed")
  /\ UNCHANGED <<kind, firstLimit, clock, window>>

\* A write fails: some of the records have got through, and perhaps a part of the next.
\* The connection is gone, or a deadline has passed and the writer goes on behind the gap.
FlushFails(t) ==
  /\ out[t] # <<>> /\ (left[t] = <<>> \/ ~Gathers(t))
  /\ \E k \in 0 .. (IF up THEN Len(out[t]) - 1 ELSE 0) : wire' = wire \o SubSeq(out[t], 1, k)
  /\ GiveUp(out[t], wire')
  /\ up' \in {FALSE, up}
  /\ Return(t, "failed")
  /\ UNCHANGED <<kind, firstLimit, clock, window, nonce>>

-----------------------------------------------------------------------------
\* The wall clock may be set back.
Tick ==
  /\ clock' \in 1 .. MaxClock
  /\ UNCHANGED <<kind, firstLimit, calls, wire, breaks, up, writerVars>>

Next ==
  \/ \E t \in Threads :
       \/ Call(t)
       \/ SealV4(t) \/ SealV5(t) \/ SealShaped(t) \/ SealPlain(t)
       \/ SealZero(t) \/ SealPacket(t) \/ Refuse(t)
       \/ Flush(t) \/ FlushFails(t)
  \/ Tick

Spec == Init /\ [][Next]_vars
=============================================================================
