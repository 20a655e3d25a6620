----------------------------- MODULE ReuseProofs -----------------------------
(***************************************************************************)
(* Proofs about the reusing client, for every number of sessions and       *)
(* connections, every pool size and every behaviour of the server.         *)
(***************************************************************************)
EXTENDS ReuseProperties, SequenceTheorems, FiniteSetTheorems, TLAPS

-----------------------------------------------------------------------------
(***************************************************************************)
(* Type correctness, together with what the threads of a connection know   *)
(* of each other: a Read decrements the count it incremented, and a        *)
(* connection that moves to the pool has a session to move.                *)
(***************************************************************************)

\* The critical sections of the pool, whoever runs them.
LEMMA PoolSteps ==
  ASSUME PoolTypeOK, NEW t \in Threads, NEW s \in Sessions, NEW drain \in BOOLEAN
  PROVE  /\ TakeReady(t, s) => PoolTypeOK'
         /\ MoveToPool(t, s, drain) => PoolTypeOK'
         /\ ClosePending(t) => PoolTypeOK'
<1> USE PoolAssumption DEF PoolTypeOK, SetEntries, Hold, Threads
<1>1. Live \in SUBSET Sessions /\ Expired \in SUBSET Sessions
  BY DEF Live, Expired
<1>2. ASSUME TakeReady(t, s) PROVE PoolTypeOK'
  BY <1>1, <1>2 DEF TakeReady, SessionState
<1>3. ASSUME MoveToPool(t, s, drain) PROVE PoolTypeOK'
  BY <1>1, <1>3 DEF MoveToPool
<1>4. ASSUME ClosePending(t) PROVE PoolTypeOK'
  BY <1>4 DEF ClosePending, SwapClosed, SessionState
<1> QED BY <1>2, <1>3, <1>4

LEMMA TakeNoneType ==
  ASSUME PoolTypeOK, NEW t \in Threads, TakeNone(t)
  PROVE  PoolTypeOK'
<1>1. Live \in SUBSET Sessions /\ Expired \in SUBSET Sessions
  BY DEF Live, Expired, PoolTypeOK
<1> QED BY <1>1, PoolAssumption DEF TakeNone, PoolTypeOK, SetEntries, Hold, Threads

LEMMA ResetType ==
  ASSUME PoolTypeOK, ResetPool
  PROVE  PoolTypeOK'
BY PoolAssumption DEF ResetPool, PoolTypeOK, SetEntries, Hold, Threads

\* The steps of the pool's own threads.
LEMMA PoolThreads ==
  ASSUME PoolTypeOK, PoolWork \/ PoolCall
  PROVE  PoolTypeOK'
<1> USE PoolAssumption DEF PoolTypeOK, SetEntries, Hold, Threads
<1>1. Live \in SUBSET Sessions /\ Expired \in SUBSET Sessions
  BY DEF Live, Expired
<1>2. CASE ExpireTick
  BY <1>1, <1>2 DEF ExpireTick
<1>3. CASE ExpireStop
  <2>1. loops' \in Nat
    BY <1>3 DEF ExpireStop
  <2>2. ticking' \in BOOLEAN
    BY <1>3, Zenon DEF ExpireStop
  <2> QED BY <1>3, <2>1, <2>2 DEF ExpireStop
<1>4. CASE CloseWait
  BY <1>4 DEF CloseWait
<1>5. CASE CloseReturn
  BY <1>5 DEF CloseReturn
<1>6. CASE ResetPool
  BY <1>6, ResetType
<1>7. CASE ClosePool
  BY <1>7 DEF ClosePool
<1>8. CASE ClockTick
  BY <1>8 DEF ClockTick
<1> QED BY <1>2, <1>3, <1>4, <1>5, <1>6, <1>7, <1>8 DEF PoolWork, PoolCall

\* Sending and receiving keep the streams streams of records.
LEMMA RecordType ==
  ASSUME NEW c \in Conns, NEW k \in Kinds
  PROVE  Record(c, k) \in Records /\ <<Record(c, k)>> \in Seq(Records)
BY DEF Record, Records

LEMMA SendType ==
  ASSUME TunnelTypeOK, NEW s, NEW r \in Seq(Records), Send(s, r)
  PROVE  outbound' \in [Sessions -> Seq(Records)]
<1>1. \A q \in Seq(Records) : q \o r \in Seq(Records)
  BY ConcatProperties
<1> QED BY <1>1 DEF TunnelTypeOK, Send

LEMMA ReceiveType ==
  ASSUME TunnelTypeOK, NEW s, NEW kind, Receive(s, kind)
  PROVE  inbound' \in [Sessions -> Seq(Records)]
<1> USE DEF TunnelTypeOK
<1>1. CASE UNCHANGED inbound
  BY <1>1
<1>2. CASE inbound[s] # <<>> /\ inbound' = [inbound EXCEPT ![s] = Tail(@)]
  <2>1. CASE s \in Sessions
    <3>1. Tail(inbound[s]) \in Seq(Records)
      BY <1>2, <2>1, HeadTailProperties
    <3> QED BY <1>2, <3>1
  <2>2. CASE s \notin Sessions
    BY <1>2, <2>2
  <2> QED BY <2>1, <2>2
<1> QED BY <1>1, <1>2 DEF Receive

LEMMA EndWriteType ==
  ASSUME TunnelTypeOK, NEW c \in Conns, EndWrite(c)
  PROVE  outbound' \in [Sessions -> Seq(Records)]
<1>1. <<Record(c, "eof")>> \in Seq(Records) /\ <<Record(c, "request")>> \in Seq(Records)
  BY RecordType DEF Kinds
<1>2. (IF requested[c] THEN <<>> ELSE <<Record(c, "request")>>) \in Seq(Records)
  BY <1>1
<1>3. (IF requested[c] THEN <<>> ELSE <<Record(c, "request")>>) \o <<Record(c, "eof")>> \in Seq(Records)
  BY <1>1, <1>2, ConcatProperties
<1> QED BY <1>3, SendType DEF EndWrite, TunnelTypeOK


\* The far end.
LEMMA PeerType ==
  ASSUME TunnelTypeOK, NEW s \in Sessions, PeerStep(s)
  PROVE  TunnelTypeOK'
<1> USE TunnelAssumption DEF TunnelTypeOK
<1>1. outbound[s] # <<>> => Head(outbound[s]) \in Records /\ Tail(outbound[s]) \in Seq(Records)
  BY HeadTailProperties
<1>2. ASSUME NEW kind \in Kinds
      PROVE  Append(inbound[s], Record(serving[s], kind)) \in Seq(Records)
  <2>1. Record(serving[s], kind) \in Records
    BY DEF Record, Records
  <2> QED BY <2>1, AppendProperties
<1>3. CASE PeerRequest(s)
  <2>1. misread' \in [Sessions -> BOOLEAN]
    BY <1>3, Zenon DEF PeerRequest
  <2>2. outbound' \in [Sessions -> Seq(Records)] /\ UNCHANGED inbound
    BY <1>1, <1>3 DEF PeerRequest
  <2>3. phase' \in [Sessions -> {"idle", "called", "replied", "ended"}]
    BY <1>3, ZenonT(40) DEF PeerRequest
  <2>4. sent' = [sent EXCEPT ![s] = 0] \/ UNCHANGED sent
    BY <1>3 DEF PeerRequest
  <2>5. sent' \in [Sessions -> 0 .. MaxData]
    <3>1. 0 \in 0 .. MaxData
      BY TunnelAssumption
    <3>2. CASE UNCHANGED sent
      BY <3>2
    <3>3. CASE sent' = [sent EXCEPT ![s] = 0]
      BY <3>1, <3>3
    <3> QED BY <2>4, <3>2, <3>3
  <2>6. /\ serving' \in [Sessions -> Conns \cup {Nobody}]
        /\ clientEOF' \in [Sessions -> BOOLEAN]
        /\ peerUp' \in [Sessions -> BOOLEAN]
    BY <1>1, <1>3 DEF PeerRequest, Records
  <2> QED BY <2>1, <2>2, <2>6, <2>3, <2>5
<1>4. CASE PeerRead(s)
  BY <1>1, <1>4 DEF PeerRead, NextPhase
<1>5. CASE PeerReply(s)
  BY <1>2, <1>5 DEF PeerReply, Reply, Kinds
<1>6. CASE PeerData(s)
  BY <1>2, <1>6 DEF PeerData, Reply, Kinds
<1>7. CASE PeerEnd(s)
  BY <1>2, <1>7 DEF PeerEnd, Reply, Kinds, NextPhase
<1>8. CASE PeerAbort(s)
  BY <1>2, <1>8 DEF PeerAbort, Reply, Kinds
<1>9. CASE PeerGone(s)
  BY <1>9 DEF PeerGone
<1> QED BY <1>3, <1>4, <1>5, <1>6, <1>7, <1>8, <1>9 DEF PeerStep


\* The application that dials, writes and calls Close.
LEMMA AppTypes ==
  ASSUME TypeOK, ThreadsAgree, NEW c \in Conns, App(c)
  PROVE  TypeOK' /\ ThreadsAgree'
<1> USE DEF TypeOK, ThreadsAgree, Goto, ReadGoto, Leave, SwapClosed, Settle, SpendKeep
<1> USE DEF poolOnly, readVars, drainVars, writeVars, idleVars, appVars, connVars,
            tunnelVars, poolVars
<1>1. CASE Dial(c)
  <2>1. PoolTypeOK'
    <3>1. CASE TakeNone(c)
      BY <3>1, TakeNoneType DEF Threads
    <3>2. ASSUME NEW s \in Sessions, TakeReady(c, s) PROVE PoolTypeOK'
      BY <3>2, PoolSteps DEF Threads
    <3>3. CASE UNCHANGED poolVars
      BY <3>3 DEF PoolTypeOK
    <3> QED BY <1>1, <3>1, <3>2, <3>3 DEF Dial
  <2>2. TunnelTypeOK'
    BY <1>1 DEF Dial, TunnelTypeOK
  <2>3. ConnTypeOK'
    BY <1>1 DEF Dial, ConnTypeOK, AppPc
  <2>4. ASSUME NEW d \in Conns PROVE Agree(d)'
    BY <1>1 DEF Dial, ConnTypeOK, Agree
  <2> QED BY <2>1, <2>2, <2>3, <2>4
<1>2. CASE Taken(c)
  <2>1. PoolTypeOK'
    BY <1>2 DEF Taken, PoolTypeOK, SessionState
  <2>2. TunnelTypeOK'
    BY <1>2 DEF Taken, TunnelTypeOK
  <2>3. ConnTypeOK'
    BY <1>2, ZenonT(40) DEF Taken, ConnTypeOK, AppPc, ReadPc, DrainPc
  <2>4. ASSUME NEW d \in Conns PROVE Agree(d)'
    BY <1>2 DEF Taken, ConnTypeOK, Agree
  <2> QED BY <2>1, <2>2, <2>3, <2>4
<1>3. CASE Dialed(c)
  <2>1. PoolTypeOK'
    BY <1>3 DEF Dialed, PoolTypeOK, SessionState
  <2>2. TunnelTypeOK'
    BY <1>3 DEF Dialed, TunnelTypeOK
  <2>3. ConnTypeOK'
    BY <1>3 DEF Dialed, ConnTypeOK, AppPc, ReadPc, DrainPc
  <2>4. ASSUME NEW d \in Conns PROVE Agree(d)'
    BY <1>3 DEF Dialed, ConnTypeOK, Agree
  <2> QED BY <2>1, <2>2, <2>3, <2>4
<1>4. CASE Open(c)
  <2>1. PoolTypeOK'
    BY <1>4 DEF Open, PoolTypeOK, SessionState
  <2>2. TunnelTypeOK'
    BY <1>4 DEF Open, TunnelTypeOK
  <2>3. ConnTypeOK'
    BY <1>4 DEF Open, ConnTypeOK, AppPc, ReadPc, DrainPc
  <2>4. ASSUME NEW d \in Conns PROVE Agree(d)'
    BY <1>4 DEF Open, ConnTypeOK, Agree
  <2> QED BY <2>1, <2>2, <2>3, <2>4
<1>5. CASE WriteRequest(c)
  <2>1. outbound' \in [Sessions -> Seq(Records)]
    BY <1>5, SendType, RecordType DEF WriteRequest, Kinds, TunnelTypeOK
  <2>2. PoolTypeOK'
    BY <1>5 DEF WriteRequest, PoolTypeOK, SessionState
  <2>3. TunnelTypeOK'
    BY <1>5, <2>1 DEF WriteRequest, TunnelTypeOK
  <2>4. ConnTypeOK'
    BY <1>5 DEF WriteRequest, ConnTypeOK, AppPc, ReadPc, DrainPc
  <2>5. ASSUME NEW d \in Conns PROVE Agree(d)'
    BY <1>5 DEF WriteRequest, ConnTypeOK, Agree
  <2> QED BY <2>2, <2>3, <2>4, <2>5
<1>6. CASE WriteData(c)
  <2>1. outbound' \in [Sessions -> Seq(Records)]
    BY <1>6, SendType, RecordType DEF WriteData, Kinds, TunnelTypeOK
  <2>2. PoolTypeOK'
    BY <1>6 DEF WriteData, PoolTypeOK, SessionState
  <2>3. TunnelTypeOK'
    BY <1>6, <2>1 DEF WriteData, TunnelTypeOK
  <2>4. ConnTypeOK'
    BY <1>6 DEF WriteData, ConnTypeOK, AppPc, ReadPc, DrainPc
  <2>5. ASSUME NEW d \in Conns PROVE Agree(d)'
    BY <1>6 DEF WriteData, ConnTypeOK, Agree
  <2> QED BY <2>2, <2>3, <2>4, <2>5
<1>7. CASE CloseWrite(c)
  <2>1. outbound' \in [Sessions -> Seq(Records)]
    BY <1>7, EndWriteType DEF CloseWrite
  <2>2. PoolTypeOK'
    BY <1>7 DEF CloseWrite, EndWrite, PoolTypeOK, SessionState
  <2>3. TunnelTypeOK'
    BY <1>7, <2>1 DEF CloseWrite, TunnelTypeOK
  <2>4. ConnTypeOK'
    BY <1>7 DEF CloseWrite, EndWrite, ConnTypeOK
  <2>5. ASSUME NEW d \in Conns PROVE Agree(d)'
    BY <1>7 DEF CloseWrite, ConnTypeOK, Agree
  <2> QED BY <2>2, <2>3, <2>4, <2>5
<1>8. CASE Close(c)
  <2>1. PoolTypeOK'
    BY <1>8 DEF Close, PoolTypeOK, SessionState
  <2>2. TunnelTypeOK'
    BY <1>8 DEF Close, TunnelTypeOK
  <2>3. ConnTypeOK'
    BY <1>8 DEF Close, ConnTypeOK, AppPc, ReadPc, DrainPc
  <2>4. ASSUME NEW d \in Conns PROVE Agree(d)'
    BY <1>8 DEF Close, ConnTypeOK, Agree
  <2> QED BY <2>1, <2>2, <2>3, <2>4
<1> QED BY <1>1, <1>2, <1>3, <1>4, <1>5, <1>6, <1>7, <1>8 DEF App

\* The steps of Close.
LEMMA ClosingTypes ==
  ASSUME TypeOK, ThreadsAgree, NEW c \in Conns, Closing(c)
  PROVE  TypeOK' /\ ThreadsAgree'
<1> USE DEF TypeOK, ThreadsAgree, Goto, ReadGoto, Leave, SwapClosed, Settle, SpendKeep
<1> USE DEF poolOnly, readVars, drainVars, writeVars, idleVars, appVars, connVars,
            tunnelVars, poolVars
<1>1. CASE CheckReply(c)
  <2>1. PoolTypeOK'
    BY <1>1 DEF CheckReply, PoolTypeOK, SessionState
  <2>2. TunnelTypeOK'
    BY <1>1 DEF CheckReply, TunnelTypeOK
  <2>3. ConnTypeOK'
    BY <1>1 DEF CheckReply, ConnTypeOK, AppPc, ReadPc, DrainPc
  <2>4. ASSUME NEW d \in Conns PROVE Agree(d)'
    BY <1>1 DEF CheckReply, ConnTypeOK, Agree
  <2> QED BY <2>1, <2>2, <2>3, <2>4
<1>2. CASE CloseEndWrite(c)
  <2>1. outbound' \in [Sessions -> Seq(Records)]
    BY <1>2, EndWriteType DEF CloseEndWrite
  <2>2. PoolTypeOK'
    BY <1>2 DEF CloseEndWrite, EndWrite, PoolTypeOK, SessionState
  <2>3. TunnelTypeOK'
    BY <1>2, <2>1 DEF CloseEndWrite, TunnelTypeOK
  <2>4. ConnTypeOK'
    BY <1>2 DEF CloseEndWrite, EndWrite, ConnTypeOK
  <2>5. ASSUME NEW d \in Conns PROVE Agree(d)'
    BY <1>2 DEF CloseEndWrite, ConnTypeOK, Agree
  <2> QED BY <2>2, <2>3, <2>4, <2>5
<1>3. CASE CheckRead(c)
  <2>1. PoolTypeOK'
    BY <1>3 DEF CheckRead, PoolTypeOK, SessionState
  <2>2. TunnelTypeOK'
    BY <1>3 DEF CheckRead, TunnelTypeOK
  <2>3. ConnTypeOK'
    BY <1>3 DEF CheckRead, ConnTypeOK, AppPc, ReadPc, DrainPc
  <2>4. ASSUME NEW d \in Conns PROVE Agree(d)'
    BY <1>3 DEF CheckRead, ConnTypeOK, Agree
  <2> QED BY <2>1, <2>2, <2>3, <2>4
<1>4. CASE Release(c)
  <2>1. PoolTypeOK'
    BY <1>4 DEF Release, PoolTypeOK, SessionState
  <2>2. TunnelTypeOK'
    BY <1>4 DEF Release, TunnelTypeOK
  <2>3. ConnTypeOK'
    BY <1>4 DEF Release, ConnTypeOK, AppPc, ReadPc, DrainPc
  <2>4. ASSUME NEW d \in Conns PROVE Agree(d)'
    BY <1>4 DEF Release, ConnTypeOK, Agree
  <2> QED BY <2>1, <2>2, <2>3, <2>4
<1>5. CASE AskIdle(c)
  <2>1. PoolTypeOK'
    BY <1>5 DEF AskIdle, PoolTypeOK, SessionState
  <2>2. TunnelTypeOK'
    BY <1>5 DEF AskIdle, TunnelTypeOK
  <2>3. ConnTypeOK'
    BY <1>5 DEF AskIdle, ConnTypeOK, AppPc, ReadPc, DrainPc
  <2>4. ASSUME NEW d \in Conns PROVE Agree(d)'
    BY <1>5 DEF AskIdle, ConnTypeOK, Agree
  <2> QED BY <2>1, <2>2, <2>3, <2>4
<1>6. CASE AskReader(c)
  <2>1. PoolTypeOK'
    BY <1>6 DEF AskReader, PoolTypeOK, SessionState
  <2>2. TunnelTypeOK'
    BY <1>6 DEF AskReader, TunnelTypeOK
  <2>3. ConnTypeOK'
    BY <1>6 DEF AskReader, ConnTypeOK, AppPc, ReadPc, DrainPc
  <2>4. ASSUME NEW d \in Conns PROVE Agree(d)'
    BY <1>6 DEF AskReader, ConnTypeOK, Agree
  <2> QED BY <2>1, <2>2, <2>3, <2>4
<1>7. CASE Wait(c)
  <2>1. PoolTypeOK'
    BY <1>7 DEF Wait, PoolTypeOK, SessionState
  <2>2. TunnelTypeOK'
    BY <1>7 DEF Wait, TunnelTypeOK
  <2>3. ConnTypeOK'
    BY <1>7 DEF Wait, ConnTypeOK, AppPc, ReadPc, DrainPc
  <2>4. ASSUME NEW d \in Conns PROVE Agree(d)'
    BY <1>7 DEF Wait, ConnTypeOK, Agree
  <2> QED BY <2>1, <2>2, <2>3, <2>4
<1>8. CASE Recheck(c)
  <2>1. PoolTypeOK'
    BY <1>8 DEF Recheck, PoolTypeOK, SessionState
  <2>2. TunnelTypeOK'
    BY <1>8 DEF Recheck, TunnelTypeOK
  <2>3. ConnTypeOK'
    BY <1>8 DEF Recheck, ConnTypeOK, AppPc, ReadPc, DrainPc
  <2>4. ASSUME NEW d \in Conns PROVE Agree(d)'
    BY <1>8 DEF Recheck, ConnTypeOK, Agree
  <2> QED BY <2>1, <2>2, <2>3, <2>4
<1>9. CASE StartDrain(c)
  <2>1. PoolTypeOK'
    BY <1>9 DEF StartDrain, PoolTypeOK, SessionState
  <2>2. TunnelTypeOK'
    BY <1>9 DEF StartDrain, TunnelTypeOK
  <2>3. ConnTypeOK'
    BY <1>9 DEF StartDrain, ConnTypeOK, AppPc, ReadPc, DrainPc
  <2>4. ASSUME NEW d \in Conns PROVE Agree(d)'
    BY <1>9 DEF StartDrain, ConnTypeOK, Agree
  <2> QED BY <2>1, <2>2, <2>3, <2>4
<1>10. CASE Pool(c)
  <2>1. PoolTypeOK'
    BY <1>10, PoolSteps, ZenonT(40) DEF Pool, Threads, Agree, ConnTypeOK
  <2>2. TunnelTypeOK'
    BY <1>10 DEF Pool, TunnelTypeOK
  <2>3. ConnTypeOK'
    BY <1>10 DEF Pool, ConnTypeOK, AppPc, ReadPc, DrainPc
  <2>4. ASSUME NEW d \in Conns PROVE Agree(d)'
    BY <1>10 DEF Pool, ConnTypeOK, Agree
  <2> QED BY <2>1, <2>2, <2>3, <2>4
<1>11. CASE PoolDrain(c)
  <2>1. PoolTypeOK'
    BY <1>11, PoolSteps, ZenonT(40) DEF PoolDrain, Threads, Agree, ConnTypeOK
  <2>2. TunnelTypeOK'
    BY <1>11 DEF PoolDrain, TunnelTypeOK
  <2>3. ConnTypeOK'
    BY <1>11 DEF PoolDrain, ConnTypeOK, AppPc, ReadPc, DrainPc
  <2>4. ASSUME NEW d \in Conns PROVE Agree(d)'
    BY <1>11 DEF PoolDrain, ConnTypeOK, Agree
  <2> QED BY <2>1, <2>2, <2>3, <2>4
<1>12. CASE Closed(c)
  <2>1. PoolTypeOK'
    BY <1>12 DEF Closed, PoolTypeOK, SessionState
  <2>2. TunnelTypeOK'
    BY <1>12 DEF Closed, TunnelTypeOK
  <2>3. ConnTypeOK'
    BY <1>12 DEF Closed, ConnTypeOK, AppPc, ReadPc, DrainPc
  <2>4. ASSUME NEW d \in Conns PROVE Agree(d)'
    BY <1>12 DEF Closed, ConnTypeOK, Agree
  <2> QED BY <2>1, <2>2, <2>3, <2>4
<1> QED BY <1>1, <1>2, <1>3, <1>4, <1>5, <1>6, <1>7, <1>8, <1>9, <1>10, <1>11, <1>12 DEF Closing

\* The steps of a Read.
LEMMA ReadingTypes ==
  ASSUME TypeOK, ThreadsAgree, NEW c \in Conns, Read(c) \/ Reading(c)
  PROVE  TypeOK' /\ ThreadsAgree'
<1> USE DEF TypeOK, ThreadsAgree, Goto, ReadGoto, Leave, SwapClosed, Settle, SpendKeep
<1> USE DEF poolOnly, readVars, drainVars, writeVars, idleVars, appVars, connVars,
            tunnelVars, poolVars
<1>1. CASE Read(c)
  <2>1. PoolTypeOK'
    BY <1>1 DEF Read, PoolTypeOK, SessionState
  <2>2. TunnelTypeOK'
    BY <1>1 DEF Read, TunnelTypeOK
  <2>3. ConnTypeOK'
    BY <1>1 DEF Read, ConnTypeOK, AppPc, ReadPc, DrainPc
  <2>4. ASSUME NEW d \in Conns PROVE Agree(d)'
    BY <1>1 DEF Read, ConnTypeOK, Agree
  <2> QED BY <2>1, <2>2, <2>3, <2>4
<1>2. CASE CountRead(c)
  <2>1. PoolTypeOK'
    BY <1>2 DEF CountRead, PoolTypeOK, SessionState
  <2>2. TunnelTypeOK'
    BY <1>2 DEF CountRead, TunnelTypeOK
  <2>3. ConnTypeOK'
    BY <1>2 DEF CountRead, ConnTypeOK, ReadPc, Agree
  <2>4. ASSUME NEW d \in Conns PROVE Agree(d)'
    BY <1>2 DEF CountRead, ConnTypeOK, Agree
  <2> QED BY <2>1, <2>2, <2>3, <2>4
<1>3. CASE RecheckClosed(c)
  <2>1. PoolTypeOK'
    BY <1>3 DEF RecheckClosed, PoolTypeOK, SessionState
  <2>2. TunnelTypeOK'
    BY <1>3 DEF RecheckClosed, TunnelTypeOK
  <2>3. ConnTypeOK'
    BY <1>3 DEF RecheckClosed, ConnTypeOK, AppPc, ReadPc, DrainPc
  <2>4. ASSUME NEW d \in Conns PROVE Agree(d)'
    BY <1>3 DEF RecheckClosed, ConnTypeOK, Agree
  <2> QED BY <2>1, <2>2, <2>3, <2>4
<1>4. CASE ReadReply(c)
  <2>1. inbound' \in [Sessions -> Seq(Records)]
    BY <1>4, ReceiveType DEF ReadReply
  <2>2. PoolTypeOK'
    BY <1>4 DEF ReadReply, PoolTypeOK, SessionState
  <2>3. TunnelTypeOK'
    BY <1>4, <2>1 DEF ReadReply, TunnelTypeOK
  <2>4. ConnTypeOK'
    BY <1>4 DEF ReadReply, ConnTypeOK, ReadPc, DrainPc, Kinds
  <2>5. ASSUME NEW d \in Conns PROVE Agree(d)'
    BY <1>4 DEF ReadReply, ConnTypeOK, Agree
  <2> QED BY <2>2, <2>3, <2>4, <2>5
<1>5. CASE ReadRecord(c)
  <2>1. inbound' \in [Sessions -> Seq(Records)]
    BY <1>5, ReceiveType DEF ReadRecord
  <2>2. PoolTypeOK'
    BY <1>5 DEF ReadRecord, PoolTypeOK, SessionState
  <2>3. TunnelTypeOK'
    BY <1>5, <2>1 DEF ReadRecord, TunnelTypeOK
  <2>4. ConnTypeOK'
    BY <1>5 DEF ReadRecord, ConnTypeOK, ReadPc, DrainPc, Kinds
  <2>5. ASSUME NEW d \in Conns PROVE Agree(d)'
    BY <1>5 DEF ReadRecord, ConnTypeOK, Agree
  <2> QED BY <2>2, <2>3, <2>4, <2>5
<1>6. CASE ResultOpen(c)
  <2>1. PoolTypeOK'
    BY <1>6 DEF ResultOpen, PoolTypeOK, SessionState
  <2>2. TunnelTypeOK'
    BY <1>6 DEF ResultOpen, TunnelTypeOK
  <2>3. ConnTypeOK'
    BY <1>6 DEF ResultOpen, ConnTypeOK, AppPc, ReadPc, DrainPc
  <2>4. ASSUME NEW d \in Conns PROVE Agree(d)'
    BY <1>6 DEF ResultOpen, ConnTypeOK, Agree
  <2> QED BY <2>1, <2>2, <2>3, <2>4
<1>7. CASE MarkEOF(c)
  <2>1. PoolTypeOK'
    BY <1>7 DEF MarkEOF, PoolTypeOK, SessionState
  <2>2. TunnelTypeOK'
    BY <1>7 DEF MarkEOF, TunnelTypeOK
  <2>3. ConnTypeOK'
    BY <1>7 DEF MarkEOF, ConnTypeOK, AppPc, ReadPc, DrainPc
  <2>4. ASSUME NEW d \in Conns PROVE Agree(d)'
    BY <1>7 DEF MarkEOF, ConnTypeOK, Agree
  <2> QED BY <2>1, <2>2, <2>3, <2>4
<1>8. CASE ResultEOF(c)
  <2>1. PoolTypeOK'
    BY <1>8 DEF ResultEOF, PoolTypeOK, SessionState
  <2>2. TunnelTypeOK'
    BY <1>8 DEF ResultEOF, TunnelTypeOK
  <2>3. ConnTypeOK'
    BY <1>8 DEF ResultEOF, ConnTypeOK, AppPc, ReadPc, DrainPc
  <2>4. ASSUME NEW d \in Conns PROVE Agree(d)'
    BY <1>8 DEF ResultEOF, ConnTypeOK, Agree
  <2> QED BY <2>1, <2>2, <2>3, <2>4
<1>9. CASE SettleRead(c)
  <2>1. PoolTypeOK'
    BY <1>9 DEF SettleRead, PoolTypeOK, SessionState
  <2>2. TunnelTypeOK'
    BY <1>9 DEF SettleRead, TunnelTypeOK
  <2>3. ConnTypeOK'
    BY <1>9 DEF SettleRead, ConnTypeOK, AppPc, ReadPc, DrainPc
  <2>4. ASSUME NEW d \in Conns PROVE Agree(d)'
    BY <1>9 DEF SettleRead, ConnTypeOK, Agree
  <2> QED BY <2>1, <2>2, <2>3, <2>4
<1>10. CASE ResultClosed(c)
  <2>1. PoolTypeOK'
    BY <1>10 DEF ResultClosed, PoolTypeOK, SessionState
  <2>2. TunnelTypeOK'
    BY <1>10 DEF ResultClosed, TunnelTypeOK
  <2>3. ConnTypeOK'
    BY <1>10, ClientAssumption DEF ResultClosed, ConnTypeOK, ReadPc, Kinds, Agree
  <2>4. ASSUME NEW d \in Conns PROVE Agree(d)'
    BY <1>10, ClientAssumption DEF ResultClosed, ConnTypeOK, Agree
  <2> QED BY <2>1, <2>2, <2>3, <2>4
<1>11. CASE LeaveRead(c)
  <2>1. PoolTypeOK'
    BY <1>11 DEF LeaveRead, PoolTypeOK, SessionState
  <2>2. TunnelTypeOK'
    BY <1>11 DEF LeaveRead, TunnelTypeOK
  <2>3. ConnTypeOK'
    BY <1>11, ClientAssumption DEF LeaveRead, ConnTypeOK, ReadPc, Agree
  <2>4. ASSUME NEW d \in Conns PROVE Agree(d)'
    BY <1>11, ClientAssumption DEF LeaveRead, ConnTypeOK, Agree
  <2> QED BY <2>1, <2>2, <2>3, <2>4
<1> QED BY <1>1, <1>2, <1>3, <1>4, <1>5, <1>6, <1>7, <1>8, <1>9, <1>10, <1>11 DEF Reading

\* The steps of a drain.
LEMMA DrainingTypes ==
  ASSUME TypeOK, ThreadsAgree, NEW c \in Conns, Draining(c)
  PROVE  TypeOK' /\ ThreadsAgree'
<1> USE DEF TypeOK, ThreadsAgree, Goto, ReadGoto, Leave, SwapClosed, Settle, SpendKeep
<1> USE DEF poolOnly, readVars, drainVars, writeVars, idleVars, appVars, connVars,
            tunnelVars, poolVars
<1>1. CASE DrainRecord(c)
  <2>1. inbound' \in [Sessions -> Seq(Records)]
    BY <1>1, ReceiveType DEF DrainRecord
  <2>2. PoolTypeOK'
    BY <1>1 DEF DrainRecord, PoolTypeOK, SessionState
  <2>3. TunnelTypeOK'
    BY <1>1, <2>1 DEF DrainRecord, TunnelTypeOK
  <2>4. ConnTypeOK'
    BY <1>1, ClientAssumption DEF DrainRecord, ConnTypeOK, ReadPc, DrainPc, Kinds, Agree
  <2>5. ASSUME NEW d \in Conns PROVE Agree(d)'
    BY <1>1, ClientAssumption DEF DrainRecord, ConnTypeOK, Agree
  <2> QED BY <2>2, <2>3, <2>4, <2>5
<1>2. CASE DrainDone(c)
  <2>1. PoolTypeOK'
    BY <1>2 DEF DrainDone, PoolTypeOK, SessionState
  <2>2. TunnelTypeOK'
    BY <1>2 DEF DrainDone, TunnelTypeOK
  <2>3. ConnTypeOK'
    BY <1>2 DEF DrainDone, ConnTypeOK, AppPc, ReadPc, DrainPc
  <2>4. ASSUME NEW d \in Conns PROVE Agree(d)'
    BY <1>2 DEF DrainDone, ConnTypeOK, Agree
  <2> QED BY <2>1, <2>2, <2>3, <2>4
<1> QED BY <1>1, <1>2 DEF Draining

-----------------------------------------------------------------------------
LEMMA InitTypes == Init => TypeOK /\ ThreadsAgree
<1> SUFFICES ASSUME Init PROVE TypeOK /\ ThreadsAgree
  OBVIOUS
<1>1. PoolTypeOK
  <2>1. age \in [Sessions -> 0 .. MaxAge + 1] /\ loops \in Nat /\ drainWg \in Int
    BY PoolAssumption DEF Init, PoolInit
  <2>2. state \in [Sessions -> SessionState] /\ pending \in [Threads -> SUBSET Sessions]
    BY DEF Init, PoolInit, SessionState
  <2> QED BY <2>1, <2>2 DEF Init, PoolInit, PoolTypeOK
<1>2. TunnelTypeOK
  BY TunnelAssumption DEF Init, TunnelInit, TunnelTypeOK
<1>3. ConnTypeOK
  <2>1. 0 \in 0 .. DiscardLimit
    BY ClientAssumption
  <2>2. /\ discarded \in [Conns -> 0 .. DiscardLimit]
        /\ drained \in [Conns -> 0 .. DiscardLimit]
    BY <2>1 DEF Init
  <2> QED BY <2>2 DEF Init, ConnTypeOK, AppPc, ReadPc, DrainPc
<1>4. ThreadsAgree
  BY ClientAssumption DEF Init, ThreadsAgree, Agree
<1> QED BY <1>1, <1>2, <1>3, <1>4 DEF TypeOK

LEMMA StepTypes == TypeOK /\ ThreadsAgree /\ [Next]_vars => TypeOK' /\ ThreadsAgree'
<1> SUFFICES ASSUME TypeOK, ThreadsAgree, [Next]_vars PROVE TypeOK' /\ ThreadsAgree'
  OBVIOUS
<1>1. ASSUME NEW c \in Conns, App(c) \/ Closing(c) \/ Read(c) \/ Reading(c) \/ Draining(c)
      PROVE  TypeOK' /\ ThreadsAgree'
  BY <1>1, AppTypes, ClosingTypes, ReadingTypes, DrainingTypes
<1>2. ASSUME NEW t \in Threads, ClosePending(t), UNCHANGED <<tunnelVars, connVars>>
      PROVE  TypeOK' /\ ThreadsAgree'
  <2>1. PoolTypeOK'
    BY <1>2 DEF ClosePending, SwapClosed, TypeOK, PoolTypeOK, SessionState
  <2> QED BY <1>2, <2>1 DEF TypeOK, TunnelTypeOK, ConnTypeOK, ThreadsAgree, Agree, tunnelVars, connVars
<1>3. ASSUME PoolWork \/ PoolCall, UNCHANGED <<tunnelVars, connVars>>
      PROVE  TypeOK' /\ ThreadsAgree'
  <2>1. PoolTypeOK'
    BY <1>3, PoolThreads DEF TypeOK
  <2> QED BY <1>3, <2>1 DEF TypeOK, TunnelTypeOK, ConnTypeOK, ThreadsAgree, Agree, tunnelVars, connVars
<1>4. ASSUME NEW keep \in BOOLEAN, SetKeepIdleConnections(keep)
      PROVE  TypeOK' /\ ThreadsAgree'
  BY <1>4 DEF SetKeepIdleConnections, TypeOK, PoolTypeOK, TunnelTypeOK, ConnTypeOK, ThreadsAgree, Agree,
              readVars, drainVars, writeVars, appVars, tunnelVars, poolVars
<1>5. ASSUME CloseIdleConnections
      PROVE  TypeOK' /\ ThreadsAgree'
  <2>1. PoolTypeOK'
    <3>1. CASE ResetPool
      BY <3>1, ResetType DEF TypeOK
    <3>2. CASE UNCHANGED poolVars
      BY <3>2 DEF TypeOK, PoolTypeOK, poolVars
    <3> QED BY <1>5, <3>1, <3>2 DEF CloseIdleConnections
  <2> QED BY <1>5, <2>1 DEF CloseIdleConnections, TypeOK, TunnelTypeOK, ConnTypeOK, ThreadsAgree, Agree,
              readVars, drainVars, writeVars, appVars, tunnelVars
<1>6. ASSUME Peer, UNCHANGED connVars
      PROVE  TypeOK' /\ ThreadsAgree'
  <2>1. TunnelTypeOK'
    BY <1>6, PeerType DEF Peer, TypeOK
  <2> QED BY <1>6, <2>1 DEF Peer, TypeOK, PoolTypeOK, ConnTypeOK, ThreadsAgree, Agree, connVars, poolVars
<1>7. CASE UNCHANGED vars
  BY <1>7 DEF vars, TypeOK, PoolTypeOK, TunnelTypeOK, ConnTypeOK, ThreadsAgree, Agree,
              connVars, tunnelVars, poolVars
<1> QED BY <1>1, <1>2, <1>3, <1>4, <1>6, <1>7, <1>5 DEF Next

\* Type correctness.  In particular readActionCount of a connection is 0 or 1.
THEOREM TypeCorrect == Spec => []TypeOK
<1>1. Spec => [](TypeOK /\ ThreadsAgree)
  BY InitTypes, StepTypes, PTL DEF Spec
<1> QED BY <1>1, PTL

-----------------------------------------------------------------------------
(***************************************************************************)
(* Who holds a session.  What a step does to that is one of five things:   *)
(* the pool lends a session or has none to lend, a dialer makes one, the   *)
(* connection returns its session to the pool, or it works on, closing the *)
(* session when it lets go of it.                                          *)
(***************************************************************************)
Starting == {"new", "taken", "dialing", "dialed"}
Frame == UNCHANGED <<sess, entries, pending>>

Moves(c) == \A d \in Conns \ {c} : app'[d] = app[d] /\ closed'[d] = closed[d]

Lends(c, s) == /\ app[c] = "new" /\ TakeReady(c, s)
               /\ app'[c] = "taken" /\ Moves(c) /\ sess' = [sess EXCEPT ![c] = s] /\ UNCHANGED closed

Misses(c) == /\ app[c] = "new" /\ TakeNone(c)
             /\ app'[c] = "taken" /\ Moves(c) /\ UNCHANGED <<sess, closed>>

Makes(c, s) == /\ app[c] = "dialing" /\ state[s] = "None" /\ s \notin {sess[d] : d \in Conns}
               /\ app'[c] = "dialed" /\ Moves(c) /\ sess' = [sess EXCEPT ![c] = s]
               /\ UNCHANGED <<poolVars, closed>>

Gives(c, drain) == /\ app[c] \in {"pool", "poolDrain"} /\ MoveToPool(c, sess[c], drain)
                   /\ app'[c] \in {"purge", "purgeDrain"} /\ Moves(c) /\ UNCHANGED <<sess, closed>>

\* What a working step may do to the sessions' states, and when c may let go.
Touches(c) ==
  \A s \in Sessions : /\ s # sess[c] => state'[s] = state[s]
                      /\ state'[s] # state[s] => state'[s] # "None"
                      /\ state[s] = "Closed" /\ app[c] # "dialed" => state'[s] = "Closed"

Keeps(c) ==
  /\ Holds(c)' => Holds(c)
  /\ Holds(c) /\ ~Holds(c)' => state'[sess[c]] = "Closed"
  /\ app'[c] = "dialed" => app[c] = "dialed" /\ state' = state
  /\ app[c] = "dialed" /\ app'[c] # "dialed" => state'[sess[c]] # "None"
  /\ app'[c] \in Starting => app[c] \in Starting /\ closed'[c] = closed[c]

Works(c) == Frame /\ Moves(c) /\ Touches(c) /\ Keeps(c)

\* A session exists once it can be reached, and nobody has closed a connection that
\* is still being opened.
Created ==
  /\ \A s \in entries : state[s] # "None"
  /\ \A t \in Threads : \A s \in pending[t] : state[s] # "None"
  /\ \A c \in Conns : /\ sess[c] # Nowhere => (state[sess[c]] = "None" <=> app[c] = "dialed")
                      /\ app[c] \in Starting => ~closed[c]


\* The application, between Take and Close.
LEMMA AppWorks ==
  ASSUME TypeOK, ThreadsAgree, Created, NEW c \in Conns, Taken(c) \/ Open(c) \/ WriteRequest(c) \/ WriteData(c) \/ CloseWrite(c) \/ Close(c)
  PROVE  Works(c)
<1> USE DEF Created, ThreadsAgree, Agree, TypeOK, PoolTypeOK, ConnTypeOK
<1> USE DEF Goto, ReadGoto, Leave, SwapClosed, Settle, SpendKeep
<1> USE DEF poolOnly, readVars, drainVars, writeVars, idleVars, appVars, connVars, poolVars
<1>1. CASE Taken(c)
  <2>1. Frame /\ Moves(c)
    BY <1>1 DEF Taken, Frame, Moves
  <2>2. Touches(c)
    BY <1>1 DEF Taken, Touches
  <2>3. Keeps(c)
    BY <1>1 DEF Taken, Keeps, Holds, Starting
  <2> QED
    BY <2>1, <2>2, <2>3 DEF Works
<1>2. CASE Open(c)
  <2>1. Frame /\ Moves(c)
    BY <1>2 DEF Open, Frame, Moves
  <2>2. Touches(c)
    BY <1>2 DEF Open, Touches
  <2>3. Keeps(c)
    BY <1>2 DEF Open, Keeps, Holds, Starting
  <2> QED
    BY <2>1, <2>2, <2>3 DEF Works
<1>3. CASE WriteRequest(c)
  <2>1. Frame /\ Moves(c)
    BY <1>3 DEF WriteRequest, Frame, Moves
  <2>2. Touches(c)
    BY <1>3 DEF WriteRequest, Touches
  <2>3. Keeps(c)
    BY <1>3 DEF WriteRequest, Keeps, Holds, Starting
  <2> QED
    BY <2>1, <2>2, <2>3 DEF Works
<1>4. CASE WriteData(c)
  <2>1. Frame /\ Moves(c)
    BY <1>4 DEF WriteData, Frame, Moves
  <2>2. Touches(c)
    BY <1>4 DEF WriteData, Touches
  <2>3. Keeps(c)
    BY <1>4 DEF WriteData, Keeps, Holds, Starting
  <2> QED
    BY <2>1, <2>2, <2>3 DEF Works
<1>5. CASE CloseWrite(c)
  <2>1. Frame /\ Moves(c)
    BY <1>5 DEF CloseWrite, EndWrite, Frame, Moves
  <2>2. Touches(c)
    BY <1>5 DEF CloseWrite, EndWrite, Touches
  <2>3. Keeps(c)
    BY <1>5 DEF CloseWrite, EndWrite, Keeps, Holds, Starting
  <2> QED
    BY <2>1, <2>2, <2>3 DEF Works
<1>6. CASE Close(c)
  <2>1. Frame /\ Moves(c)
    BY <1>6 DEF Close, Frame, Moves
  <2>2. Touches(c)
    BY <1>6 DEF Close, Touches
  <2>3. Keeps(c)
    BY <1>6 DEF Close, Keeps, Holds, Starting
  <2> QED
    BY <2>1, <2>2, <2>3 DEF Works
<1> QED
  BY <1>1, <1>2, <1>3, <1>4, <1>5, <1>6

\* The steps of Close up to the pool.
LEMMA ClosingWorks ==
  ASSUME TypeOK, ThreadsAgree, Created, NEW c \in Conns, CheckReply(c) \/ CloseEndWrite(c) \/ CheckRead(c) \/ Release(c) \/ AskIdle(c) \/ AskReader(c) \/ Wait(c) \/ Recheck(c) \/ StartDrain(c) \/ Closed(c)
  PROVE  Works(c)
<1> USE DEF Created, ThreadsAgree, Agree, TypeOK, PoolTypeOK, ConnTypeOK
<1> USE DEF Goto, ReadGoto, Leave, SwapClosed, Settle, SpendKeep
<1> USE DEF poolOnly, readVars, drainVars, writeVars, idleVars, appVars, connVars, poolVars
<1>1. CASE CheckReply(c)
  <2>1. Frame /\ Moves(c)
    BY <1>1 DEF CheckReply, Frame, Moves
  <2>2. Touches(c)
    BY <1>1 DEF CheckReply, Touches
  <2>3. Keeps(c)
    BY <1>1 DEF CheckReply, Keeps, Holds, Starting
  <2> QED
    BY <2>1, <2>2, <2>3 DEF Works
<1>2. CASE CloseEndWrite(c)
  <2>1. Frame /\ Moves(c)
    BY <1>2 DEF CloseEndWrite, EndWrite, Frame, Moves
  <2>2. Touches(c)
    BY <1>2 DEF CloseEndWrite, EndWrite, Touches
  <2>3. Keeps(c)
    BY <1>2 DEF CloseEndWrite, EndWrite, Keeps, Holds, Starting
  <2> QED
    BY <2>1, <2>2, <2>3 DEF Works
<1>3. CASE CheckRead(c)
  <2>1. Frame /\ Moves(c)
    BY <1>3 DEF CheckRead, Frame, Moves
  <2>2. Touches(c)
    BY <1>3 DEF CheckRead, Touches
  <2>3. Keeps(c)
    BY <1>3 DEF CheckRead, Keeps, Holds, Starting
  <2> QED
    BY <2>1, <2>2, <2>3 DEF Works
<1>4. CASE Release(c)
  <2>1. Frame /\ Moves(c)
    BY <1>4 DEF Release, Frame, Moves
  <2>2. Touches(c)
    BY <1>4 DEF Release, Touches
  <2>3. Keeps(c)
    BY <1>4 DEF Release, Keeps, Holds, Starting
  <2> QED
    BY <2>1, <2>2, <2>3 DEF Works
<1>5. CASE AskIdle(c)
  <2>1. Frame /\ Moves(c)
    BY <1>5 DEF AskIdle, Frame, Moves
  <2>2. Touches(c)
    BY <1>5 DEF AskIdle, Touches
  <2>3. Keeps(c)
    BY <1>5 DEF AskIdle, Keeps, Holds, Starting
  <2> QED
    BY <2>1, <2>2, <2>3 DEF Works
<1>6. CASE AskReader(c)
  <2>1. Frame /\ Moves(c)
    BY <1>6 DEF AskReader, Frame, Moves
  <2>2. Touches(c)
    BY <1>6 DEF AskReader, Touches
  <2>3. Keeps(c)
    BY <1>6 DEF AskReader, Keeps, Holds, Starting
  <2> QED
    BY <2>1, <2>2, <2>3 DEF Works
<1>7. CASE Wait(c)
  <2>1. Frame /\ Moves(c)
    BY <1>7 DEF Wait, Frame, Moves
  <2>2. Touches(c)
    BY <1>7 DEF Wait, Touches
  <2>3. Keeps(c)
    BY <1>7 DEF Wait, Keeps, Holds, Starting
  <2> QED
    BY <2>1, <2>2, <2>3 DEF Works
<1>8. CASE Recheck(c)
  <2>1. Frame /\ Moves(c)
    BY <1>8 DEF Recheck, Frame, Moves
  <2>2. Touches(c)
    BY <1>8 DEF Recheck, Touches
  <2>3. Keeps(c)
    BY <1>8 DEF Recheck, Keeps, Holds, Starting
  <2> QED
    BY <2>1, <2>2, <2>3 DEF Works
<1>9. CASE StartDrain(c)
  <2>1. Frame /\ Moves(c)
    BY <1>9 DEF StartDrain, Frame, Moves
  <2>2. Touches(c)
    BY <1>9 DEF StartDrain, Touches
  <2>3. Keeps(c)
    BY <1>9 DEF StartDrain, Keeps, Holds, Starting
  <2> QED
    BY <2>1, <2>2, <2>3 DEF Works
<1>10. CASE Closed(c)
  <2>1. Frame /\ Moves(c)
    BY <1>10 DEF Closed, Frame, Moves
  <2>2. Touches(c)
    BY <1>10 DEF Closed, Touches
  <2>3. Keeps(c)
    BY <1>10 DEF Closed, Keeps, Holds, Starting
  <2> QED
    BY <2>1, <2>2, <2>3 DEF Works
<1> QED
  BY <1>1, <1>2, <1>3, <1>4, <1>5, <1>6, <1>7, <1>8, <1>9, <1>10

\* The steps of a Read.
LEMMA ReadingWorks ==
  ASSUME TypeOK, ThreadsAgree, Created, NEW c \in Conns, Read(c) \/ Reading(c)
  PROVE  Works(c)
<1> USE DEF Created, ThreadsAgree, Agree, TypeOK, PoolTypeOK, ConnTypeOK
<1> USE DEF Goto, ReadGoto, Leave, SwapClosed, Settle, SpendKeep
<1> USE DEF poolOnly, readVars, drainVars, writeVars, idleVars, appVars, connVars, poolVars
<1>1. CASE Read(c)
  <2>1. Frame /\ Moves(c)
    BY <1>1 DEF Read, Frame, Moves
  <2>2. Touches(c)
    BY <1>1 DEF Read, Touches
  <2>3. Keeps(c)
    BY <1>1 DEF Read, Keeps, Holds, Starting
  <2> QED
    BY <2>1, <2>2, <2>3 DEF Works
<1>2. CASE CountRead(c)
  <2>1. Frame /\ Moves(c)
    BY <1>2 DEF CountRead, Frame, Moves
  <2>2. Touches(c)
    BY <1>2 DEF CountRead, Touches
  <2>3. Keeps(c)
    BY <1>2 DEF CountRead, Keeps, Holds, Starting
  <2> QED
    BY <2>1, <2>2, <2>3 DEF Works
<1>3. CASE RecheckClosed(c)
  <2>1. Frame /\ Moves(c)
    BY <1>3 DEF RecheckClosed, Frame, Moves
  <2>2. Touches(c)
    BY <1>3 DEF RecheckClosed, Touches
  <2>3. Keeps(c)
    BY <1>3 DEF RecheckClosed, Keeps, Holds, Starting
  <2> QED
    BY <2>1, <2>2, <2>3 DEF Works
<1>4. CASE ReadReply(c)
  <2>1. Frame /\ Moves(c)
    BY <1>4 DEF ReadReply, Frame, Moves
  <2>2. Touches(c)
    BY <1>4 DEF ReadReply, Touches
  <2>3. Keeps(c)
    BY <1>4 DEF ReadReply, Keeps, Holds, Starting
  <2> QED
    BY <2>1, <2>2, <2>3 DEF Works
<1>5. CASE ReadRecord(c)
  <2>1. Frame /\ Moves(c)
    BY <1>5 DEF ReadRecord, Frame, Moves
  <2>2. Touches(c)
    BY <1>5 DEF ReadRecord, Touches
  <2>3. Keeps(c)
    BY <1>5 DEF ReadRecord, Keeps, Holds, Starting
  <2> QED
    BY <2>1, <2>2, <2>3 DEF Works
<1>6. CASE ResultOpen(c)
  <2>1. Frame /\ Moves(c)
    BY <1>6 DEF ResultOpen, Frame, Moves
  <2>2. Touches(c)
    BY <1>6 DEF ResultOpen, Touches
  <2>3. Keeps(c)
    BY <1>6 DEF ResultOpen, Keeps, Holds, Starting
  <2> QED
    BY <2>1, <2>2, <2>3 DEF Works
<1>7. CASE MarkEOF(c)
  <2>1. Frame /\ Moves(c)
    BY <1>7 DEF MarkEOF, Frame, Moves
  <2>2. Touches(c)
    BY <1>7 DEF MarkEOF, Touches
  <2>3. Keeps(c)
    BY <1>7 DEF MarkEOF, Keeps, Holds, Starting
  <2> QED
    BY <2>1, <2>2, <2>3 DEF Works
<1>8. CASE ResultEOF(c)
  <2>1. Frame /\ Moves(c)
    BY <1>8 DEF ResultEOF, Frame, Moves
  <2>2. Touches(c)
    BY <1>8 DEF ResultEOF, Touches
  <2>3. Keeps(c)
    BY <1>8 DEF ResultEOF, Keeps, Holds, Starting
  <2> QED
    BY <2>1, <2>2, <2>3 DEF Works
<1>9. CASE SettleRead(c)
  <2>1. Frame /\ Moves(c)
    BY <1>9 DEF SettleRead, Frame, Moves
  <2>2. Touches(c)
    BY <1>9 DEF SettleRead, Touches
  <2>3. Keeps(c)
    BY <1>9 DEF SettleRead, Keeps, Holds, Starting
  <2> QED
    BY <2>1, <2>2, <2>3 DEF Works
<1>10. CASE ResultClosed(c)
  <2>1. Frame /\ Moves(c)
    BY <1>10 DEF ResultClosed, Frame, Moves
  <2>2. Touches(c)
    BY <1>10 DEF ResultClosed, Touches
  <2>3. Keeps(c)
    BY <1>10 DEF ResultClosed, Keeps, Holds, Starting
  <2> QED
    BY <2>1, <2>2, <2>3 DEF Works
<1>11. CASE LeaveRead(c)
  <2>1. Frame /\ Moves(c)
    BY <1>11 DEF LeaveRead, Frame, Moves
  <2>2. Touches(c)
    BY <1>11 DEF LeaveRead, Touches
  <2>3. Keeps(c)
    BY <1>11 DEF LeaveRead, Keeps, Holds, Starting
  <2> QED
    BY <2>1, <2>2, <2>3 DEF Works
<1> QED
  BY <1>1, <1>2, <1>3, <1>4, <1>5, <1>6, <1>7, <1>8, <1>9, <1>10, <1>11 DEF Reading

\* The steps of a drain.
LEMMA DrainingWorks ==
  ASSUME TypeOK, ThreadsAgree, Created, NEW c \in Conns, Draining(c)
  PROVE  Works(c)
<1> USE DEF Created, ThreadsAgree, Agree, TypeOK, PoolTypeOK, ConnTypeOK
<1> USE DEF Goto, ReadGoto, Leave, SwapClosed, Settle, SpendKeep
<1> USE DEF poolOnly, readVars, drainVars, writeVars, idleVars, appVars, connVars, poolVars
<1>1. CASE DrainRecord(c)
  <2>1. Frame /\ Moves(c)
    BY <1>1 DEF DrainRecord, Frame, Moves
  <2>2. Touches(c)
    BY <1>1 DEF DrainRecord, Touches
  <2>3. Keeps(c)
    BY <1>1 DEF DrainRecord, Keeps, Holds, Starting
  <2> QED
    BY <2>1, <2>2, <2>3 DEF Works
<1>2. CASE DrainDone(c)
  <2>1. Frame /\ Moves(c)
    BY <1>2 DEF DrainDone, Frame, Moves
  <2>2. Touches(c)
    BY <1>2 DEF DrainDone, Touches
  <2>3. Keeps(c)
    BY <1>2 DEF DrainDone, Keeps, Holds, Starting
  <2> QED
    BY <2>1, <2>2, <2>3 DEF Works
<1> QED
  BY <1>1, <1>2 DEF Draining

LEMMA ConnSteps ==
  ASSUME TypeOK, ThreadsAgree, Created, NEW c \in Conns,
         App(c) \/ Closing(c) \/ Read(c) \/ Reading(c) \/ Draining(c)
  PROVE  \/ Works(c) \/ Misses(c)
         \/ \E s \in Sessions : Lends(c, s) \/ Makes(c, s)
         \/ \E drain \in BOOLEAN : Gives(c, drain)
<1>1. CASE Dial(c)
  <2>1. CASE poolClosed /\ Goto(c, "over") /\ UNCHANGED <<poolVars, sess>>
    <3>1. Frame /\ Moves(c)
      BY <1>1, <2>1 DEF Dial, Goto, Frame, Moves, poolVars, TypeOK, ConnTypeOK
    <3>2. Touches(c)
      BY <2>1 DEF Touches, poolVars
    <3>3. Keeps(c)
      BY <1>1, <2>1 DEF Dial, Goto, Keeps, Holds, Starting, TypeOK, ConnTypeOK, poolVars
    <3> QED
      BY <3>1, <3>2, <3>3 DEF Works
  <2> QED
    BY <1>1, <2>1 DEF Dial, Lends, Misses, Moves, Goto, TypeOK, ConnTypeOK
<1>2. CASE Dialed(c)
  <2>1. CASE Goto(c, "over") /\ UNCHANGED sess
    <3>1. Frame /\ Moves(c)
      BY <1>2, <2>1 DEF Dialed, Goto, Frame, Moves, poolVars, TypeOK, ConnTypeOK
    <3>2. Touches(c)
      BY <1>2 DEF Dialed, Touches, poolVars
    <3>3. Keeps(c)
      BY <1>2, <2>1 DEF Dialed, Goto, Keeps, Holds, Starting, TypeOK, ConnTypeOK, poolVars, ThreadsAgree, Agree
    <3> QED
      BY <3>1, <3>2, <3>3 DEF Works
  <2> QED
    BY <1>2, <2>1 DEF Dialed, Makes, Moves, Goto, TypeOK, ConnTypeOK
<1>3. CASE Pool(c) \/ PoolDrain(c)
  BY <1>3 DEF Pool, PoolDrain, Gives, Moves, Goto, TypeOK, ConnTypeOK
<1> QED
  BY <1>1, <1>2, <1>3, AppWorks, ClosingWorks, ReadingWorks, DrainingWorks DEF App, Closing

\* A critical section drops entries that are closed, or that a thread takes along to
\* close them.
Drops ==
  /\ entries' \subseteq entries
  /\ \A t \in Threads : pending[t] \subseteq pending'[t] /\ pending'[t] \subseteq pending[t] \cup entries
  /\ \A s \in entries \ entries' : state[s] = "Closed" \/ \E t \in Threads : s \in pending'[t]

\* The pool's own steps.
LEMMA PoolDrops ==
  ASSUME TypeOK, PoolWork \/ PoolCall
  PROVE  Drops /\ state' = state
<1> USE PoolAssumption DEF TypeOK, PoolTypeOK, Drops, SetEntries, Hold, Threads, Live, Expired
<1>1. CASE ExpireTick
  BY <1>1 DEF ExpireTick
<1>2. CASE ExpireStop \/ CloseWait \/ CloseReturn \/ ClockTick
  BY <1>2 DEF ExpireStop, CloseWait, CloseReturn, ClockTick
<1>3. CASE ResetPool
  BY <1>3 DEF ResetPool
<1>4. CASE ClosePool
  BY <1>4 DEF ClosePool
<1> QED
  BY <1>1, <1>2, <1>3, <1>4 DEF PoolWork, PoolCall

\* What the threads other than the connections' do.
Tidies == /\ UNCHANGED <<app, sess, closed>>
          /\ \/ Drops /\ state' = state
             \/ \E t \in Threads : ClosePending(t)

LEMMA OtherSteps ==
  ASSUME TypeOK, [Next]_vars,
         ~\E c \in Conns : App(c) \/ Closing(c) \/ Read(c) \/ Reading(c) \/ Draining(c)
  PROVE  Tidies
<1>1. ASSUME NEW t \in Threads, ClosePending(t), UNCHANGED <<tunnelVars, connVars>> PROVE Tidies
  BY <1>1 DEF Tidies, connVars
<1>2. ASSUME PoolWork \/ PoolCall, UNCHANGED <<tunnelVars, connVars>> PROVE Tidies
  BY <1>2, PoolDrops DEF Tidies, connVars
<1>3. UNCHANGED poolVars => Drops /\ state' = state
  BY DEF Drops, poolVars
<1>4. ASSUME NEW keep \in BOOLEAN, SetKeepIdleConnections(keep) PROVE Tidies
  BY <1>3, <1>4 DEF Tidies, SetKeepIdleConnections, appVars
<1>5. CASE CloseIdleConnections
  <2>1. ResetPool => Drops /\ state' = state
    BY PoolAssumption DEF ResetPool, TypeOK, PoolTypeOK, Drops, SetEntries, Hold, Threads
  <2> QED
    BY <1>3, <1>5, <2>1 DEF CloseIdleConnections, Tidies, appVars
<1>6. ASSUME Peer, UNCHANGED connVars PROVE Tidies
  BY <1>3, <1>6 DEF Peer, Tidies, connVars
<1>7. CASE UNCHANGED vars
  BY <1>3, <1>7 DEF vars, Tidies, connVars
<1> QED
  BY <1>1, <1>2, <1>4, <1>5, <1>6, <1>7 DEF Next

LEMMA MissDrops ==
  ASSUME PoolTypeOK, NEW c \in Conns, Misses(c)
  PROVE  Drops /\ state' = state
<1> USE PoolAssumption DEF Misses, TakeNone, PoolTypeOK, SetEntries, Hold, Threads
<1>1. entries' = Live /\ c \in Threads /\ pending' = [pending EXCEPT ![c] = @ \cup Expired] /\ state' = state
  OBVIOUS
<1>2. Live \subseteq entries /\ Expired \subseteq entries
  BY DEF Live, Expired
<1>3. \A s \in entries \ Live : state[s] = "Closed" \/ s \in Expired
  BY DEF Live, Expired
<1> QED
  BY <1>1, <1>2, <1>3 DEF Drops

-----------------------------------------------------------------------------
LEMMA InitHolds == Init => Created /\ SoleHolder /\ NoneLost
BY DEF Init, PoolInit, Created, SoleHolder, NoneLost, Holds, Starting

LEMMA CreatedStep ==
  ASSUME TypeOK, ThreadsAgree, Created, SoleHolder, [Next]_vars
  PROVE  Created'
<1>0. ASSUME NEW c \in Conns, App(c) \/ Closing(c) \/ Read(c) \/ Reading(c) \/ Draining(c)
      PROVE  \/ Works(c) \/ Misses(c)
             \/ \E s \in Sessions : Lends(c, s) \/ Makes(c, s)
             \/ \E drain \in BOOLEAN : Gives(c, drain)
  BY <1>0, ConnSteps
<1> USE DEF Created, TypeOK, PoolTypeOK, ConnTypeOK
<1>1. ASSUME NEW c \in Conns, Works(c) PROVE Created'
  <2>1. ASSUME NEW s \in Sessions, state'[s] = "None" PROVE state[s] = "None"
    BY <1>1, <2>1 DEF Works, Touches
  <2>2. (\A s \in entries' : state'[s] # "None") /\ \A t \in Threads : \A s \in pending'[t] : state'[s] # "None"
    BY <1>1, <2>1 DEF Works, Frame
  <2>3. ASSUME NEW d \in Conns, sess'[d] # Nowhere PROVE state'[sess'[d]] = "None" <=> app'[d] = "dialed"
    <3>1. CASE d = c
      BY <1>1, <2>1, <2>3, <3>1 DEF Works, Frame, Keeps
    <3>2. CASE d # c /\ sess[d] # sess[c]
      BY <1>1, <2>3, <3>2 DEF Works, Frame, Moves, Touches
    <3>3. CASE d # c /\ sess[d] = sess[c]
      <4>1. ~(Holds(c) /\ Holds(d))
        BY <3>3 DEF SoleHolder
      <4>2. app[d] # "dialed"
        BY <2>3, <3>3, <4>1, <1>1 DEF Holds, Works, Frame
      <4> QED
        BY <1>1, <2>1, <2>3, <3>3, <4>2 DEF Works, Frame, Moves
    <3> QED
      BY <3>1, <3>2, <3>3
  <2>4. ASSUME NEW d \in Conns, app'[d] \in Starting PROVE ~closed'[d]
    BY <1>1, <2>4 DEF Works, Moves, Keeps
  <2> QED
    BY <2>2, <2>3, <2>4
<1>2. ASSUME UNCHANGED <<app, sess, closed>>, Drops, state' = state PROVE Created'
  BY <1>2 DEF Drops, Starting
<1>3. ASSUME NEW t \in Threads, ClosePending(t), UNCHANGED <<app, sess, closed>> PROVE Created'
  BY <1>3, ClientAssumption DEF ClosePending, SwapClosed, Starting
<1>4. ASSUME NEW c \in Conns, Misses(c) PROVE Created'
  <2>1. Drops /\ state' = state
    BY <1>4, MissDrops DEF TypeOK
  <2> QED
    BY <1>4, <2>1 DEF Misses, Moves, Drops, Starting
<1>5. ASSUME NEW c \in Conns, NEW s \in Sessions, Lends(c, s) PROVE Created'
  <2>1. /\ \A r \in entries' : r \in entries
        /\ \A t \in Threads : \A r \in pending'[t] : r \in pending[t] \cup entries
    BY <1>5, PoolAssumption DEF Lends, TakeReady, SetEntries, Hold, Live, Expired, Threads
  <2>2. state' = [state EXCEPT ![s] = "Active"] /\ state[s] # "None"
    BY <1>5 DEF Lends, TakeReady, FrontReady, Live
  <2>3. ASSUME NEW d \in Conns, sess'[d] # Nowhere PROVE state'[sess'[d]] = "None" <=> app'[d] = "dialed"
    BY <1>5, <2>2, <2>3 DEF Lends, Moves
  <2> QED
    BY <1>5, <2>1, <2>2, <2>3 DEF Lends, Moves, Starting
<1>6. ASSUME NEW c \in Conns, NEW s \in Sessions, Makes(c, s) PROVE Created'
  BY <1>6 DEF Makes, Moves, poolVars, Starting
<1>7. ASSUME NEW c \in Conns, NEW drain \in BOOLEAN, Gives(c, drain) PROVE Created'
  <2>1. sess[c] \in Sessions /\ state[sess[c]] # "None"
    BY <1>7 DEF Gives, ThreadsAgree, Agree
  <2>2. /\ \A r \in entries' : r \in entries \cup {sess[c]}
        /\ \A t \in Threads : \A r \in pending'[t] : r \in pending[t] \cup entries \cup {sess[c]}
        /\ state' = state
    BY <1>7, PoolAssumption, SMTT(30) DEF Gives, MoveToPool, SetEntries, Hold, Live, Expired, Threads
  <2> QED
    BY <1>7, <2>1, <2>2, SMTT(30) DEF Gives, Moves, Starting
<1>8. ASSUME NEW c \in Conns, App(c) \/ Closing(c) \/ Read(c) \/ Reading(c) \/ Draining(c) PROVE Created'
  BY <1>0, <1>1, <1>4, <1>5, <1>6, <1>7, <1>8
<1> QED
  BY <1>2, <1>3, <1>8, OtherSteps DEF Tidies

\* No session has two holders, and none that is held is in the pool.
LEMMA HolderStep ==
  ASSUME TypeOK, ThreadsAgree, Created, SoleHolder, [Next]_vars
  PROVE  SoleHolder'
<1> USE DEF SoleHolder, TypeOK, PoolTypeOK, ConnTypeOK
<1>1. ASSUME UNCHANGED sess, \A c \in Conns : Holds(c)' => Holds(c), entries' \subseteq entries
      PROVE  SoleHolder'
  BY <1>1
<1>2. ASSUME NEW c \in Conns, Works(c) PROVE SoleHolder'
  BY <1>1, <1>2 DEF Works, Frame, Moves, Keeps, Holds
<1>3. CASE Tidies
  BY <1>1, <1>3 DEF Tidies, Drops, ClosePending, Holds
<1>4. ASSUME NEW c \in Conns, Misses(c) PROVE SoleHolder'
  <2>1. Drops
    BY <1>4, MissDrops DEF TypeOK
  <2>2. sess[c] = Nowhere
    BY <1>4 DEF Misses, ThreadsAgree, Agree
  <2>3. \A d \in Conns : Holds(d)' => Holds(d)
    BY <1>4, <2>2 DEF Misses, Moves, Holds
  <2> QED
    BY <1>1, <1>4, <2>1, <2>3 DEF Misses, Drops
<1>5. ASSUME NEW c \in Conns, NEW s \in Sessions, Lends(c, s) PROVE SoleHolder'
  <2>1. s \in entries /\ entries' \subseteq entries \ {s}
    BY <1>5 DEF Lends, TakeReady, FrontReady, SetEntries, Live
  <2>2. \A d \in Conns \ {c} : (Holds(d)' <=> Holds(d)) /\ sess'[d] = sess[d]
    BY <1>5 DEF Lends, Moves, Holds
  <2>3. sess'[c] = s
    BY <1>5 DEF Lends
  <2> QED
    BY <2>1, <2>2, <2>3
<1>6. ASSUME NEW c \in Conns, NEW s \in Sessions, Makes(c, s) PROVE SoleHolder'
  <2>1. s \notin entries /\ entries' = entries /\ \A d \in Conns : sess[d] # s
    BY <1>6 DEF Makes, Created, poolVars
  <2>2. \A d \in Conns \ {c} : (Holds(d)' <=> Holds(d)) /\ sess'[d] = sess[d]
    BY <1>6 DEF Makes, Moves, Holds
  <2>3. sess'[c] = s
    BY <1>6 DEF Makes
  <2> QED
    BY <2>1, <2>2, <2>3
<1>7. ASSUME NEW c \in Conns, NEW drain \in BOOLEAN, Gives(c, drain) PROVE SoleHolder'
  <2>1. Holds(c) /\ ~Holds(c)'
    BY <1>7 DEF Gives, Holds, ThreadsAgree, Agree
  <2>2. \A d \in Conns \ {c} : (Holds(d)' <=> Holds(d))
    BY <1>7 DEF Gives, Moves, Holds
  <2>3. sess' = sess /\ entries' \subseteq entries \cup {sess[c]}
    BY <1>7 DEF Gives, MoveToPool, SetEntries, Live
  <2> QED
    BY <2>1, <2>2, <2>3
<1>8. ASSUME NEW c \in Conns, App(c) \/ Closing(c) \/ Read(c) \/ Reading(c) \/ Draining(c) PROVE SoleHolder'
  BY <1>2, <1>4, <1>5, <1>6, <1>7, <1>8, ConnSteps
<1> QED
  BY <1>3, <1>8, OtherSteps

\* Every open session stays within somebody's reach.
LEMMA NoneLostStep ==
  ASSUME TypeOK, ThreadsAgree, Created, SoleHolder, NoneLost, [Next]_vars
  PROVE  NoneLost'
<1> USE DEF TypeOK, PoolTypeOK, ConnTypeOK
<1> DEFINE Reached(s) == \/ s \in entries
                         \/ \E c \in Conns : Holds(c) /\ sess[c] = s
                         \/ \E t \in Threads : s \in pending[t]
<1> SUFFICES ASSUME NEW s \in Sessions, state'[s] \notin {"None", "Closed"} PROVE Reached(s)'
  BY DEF NoneLost
<1>1. state[s] \notin {"None", "Closed"} => Reached(s)
  BY DEF NoneLost
<1>2. ASSUME NEW c \in Conns, Works(c) PROVE Reached(s)'
  <2>1. \A d \in Conns \ {c} : (Holds(d)' <=> Holds(d)) /\ sess'[d] = sess[d]
    BY <1>2 DEF Works, Frame, Moves, Holds
  <2>2. CASE s = sess[c]
    <3>1. CASE app[c] = "dialed"
      <4>1. Holds(c) /\ Holds(c)'
        BY <1>2, <2>2, <3>1, ClientAssumption DEF Works, Keeps, Holds
      <4> QED
        BY <1>2, <2>2, <4>1 DEF Works, Frame
    <3>2. CASE app[c] # "dialed"
      <4>1. Reached(s)
        BY <1>1, <1>2, <2>2, <3>2, ClientAssumption DEF Works, Touches, Created
      <4>2. Holds(c) => Holds(c)'
        BY <1>2, <2>2 DEF Works, Keeps
      <4> QED
        BY <1>2, <2>1, <4>1, <4>2 DEF Works, Frame
    <3> QED
      BY <3>1, <3>2
  <2>3. CASE s # sess[c]
    <3>1. Reached(s)
      BY <1>1, <1>2, <2>3 DEF Works, Touches
    <3> QED
      BY <1>2, <2>1, <2>3, <3>1 DEF Works, Frame
  <2> QED
    BY <2>2, <2>3
<1>3. ASSUME UNCHANGED sess, \A c \in Conns : sess[c] = s /\ Holds(c) => Holds(c)', Drops, state' = state PROVE Reached(s)'
  <2>1. CASE s \in entries
    BY <1>3, <2>1 DEF Drops
  <2>2. CASE s \notin entries
    BY <1>1, <1>3, <2>2 DEF Drops
  <2> QED
    BY <2>1, <2>2
<1>4. CASE Tidies
  <2>1. CASE Drops /\ state' = state
    BY <1>3, <1>4, <2>1 DEF Tidies, Holds
  <2>2. ASSUME NEW t \in Threads, ClosePending(t) PROVE Reached(s)'
    <3>1. Reached(s)
      BY <1>1, <2>2 DEF ClosePending, SwapClosed
    <3>2. \A u \in Threads : s \in pending[u] => s \in pending'[u]
      BY <2>2 DEF ClosePending, SwapClosed
    <3> QED
      BY <1>4, <2>2, <3>1, <3>2 DEF Tidies, ClosePending, Holds
  <2> QED
    BY <1>4, <2>1, <2>2 DEF Tidies
<1>5. ASSUME NEW c \in Conns, Misses(c) PROVE Reached(s)'
  <2>1. Drops /\ state' = state
    BY <1>5, MissDrops DEF TypeOK
  <2> QED
    BY <1>3, <1>5, <2>1 DEF Misses, Moves, Holds
<1>6. ASSUME NEW c \in Conns, NEW r \in Sessions, Lends(c, r) PROVE Reached(s)'
  <2>1. \A d \in Conns \ {c} : (Holds(d)' <=> Holds(d)) /\ sess'[d] = sess[d]
    BY <1>6 DEF Lends, Moves, Holds
  <2>2. CASE s = r
    BY <1>6, <2>2, ClientAssumption DEF Lends, Holds
  <2>3. CASE s # r
    <3>1. Reached(s)
      BY <1>1, <1>6, <2>3 DEF Lends, TakeReady
    <3>2. s \in entries => s \in entries' \/ s \in pending'[c]
      <4>1. state[s] # "Closed"
        BY <1>6, <2>3 DEF Lends, TakeReady
      <4>2. s \in entries => s \in Live \/ s \in Expired
        BY <4>1, PoolAssumption DEF Live, Expired
      <4> QED
        BY <1>6, <2>3, <4>2 DEF Lends, TakeReady, SetEntries, Hold, Threads
    <3>3. \A t \in Threads : pending[t] \subseteq pending'[t]
      BY <1>6 DEF Lends, TakeReady, Hold
    <3>4. ~Holds(c)
      BY <1>6 DEF Lends, Holds
    <3> QED
      BY <2>1, <3>1, <3>2, <3>3, <3>4 DEF Threads
  <2> QED
    BY <2>2, <2>3
<1>7. ASSUME NEW c \in Conns, NEW r \in Sessions, Makes(c, r) PROVE Reached(s)'
  <2>1. \A d \in Conns \ {c} : (Holds(d)' <=> Holds(d)) /\ sess'[d] = sess[d]
    BY <1>7 DEF Makes, Moves, Holds
  <2>2. ~Holds(c)
    BY <1>7 DEF Makes, Holds, ThreadsAgree, Agree
  <2> QED
    BY <1>1, <1>7, <2>1, <2>2 DEF Makes, poolVars
<1>8. ASSUME NEW c \in Conns, NEW drain \in BOOLEAN, Gives(c, drain) PROVE Reached(s)'
  <2>1. \A d \in Conns \ {c} : (Holds(d)' <=> Holds(d)) /\ sess'[d] = sess[d]
    BY <1>8 DEF Gives, Moves, Holds
  <2>2. sess[c] \in Sessions /\ c \in Threads
    BY <1>8 DEF Gives, ThreadsAgree, Agree, Threads
  <2>3. Reached(s) /\ state' = state
    BY <1>1, <1>8 DEF Gives, MoveToPool
  <2>4. s \in entries \/ s = sess[c] => s \in entries' \/ s \in pending'[c]
    <3>1. s \in entries => s \in Live \/ s \in Expired
      BY <2>3, PoolAssumption DEF Live, Expired
    <3> QED
      BY <1>8, <2>2, <3>1 DEF Gives, MoveToPool, SetEntries, Hold
  <2>5. \A t \in Threads : pending[t] \subseteq pending'[t]
    BY <1>8 DEF Gives, MoveToPool, Hold
  <2> QED
    BY <2>1, <2>2, <2>3, <2>4, <2>5
<1>9. ASSUME NEW c \in Conns, App(c) \/ Closing(c) \/ Read(c) \/ Reading(c) \/ Draining(c) PROVE Reached(s)'
  BY <1>2, <1>5, <1>6, <1>7, <1>8, <1>9, ConnSteps
<1> QED
  BY <1>4, <1>9, OtherSteps

\* No step revives a closed session.
LEMMA ClosedStep ==
  ASSUME TypeOK, ThreadsAgree, Created, [Next]_vars, NEW s \in Sessions, state[s] = "Closed"
  PROVE  state'[s] = "Closed"
<1>1. ASSUME NEW c \in Conns, Works(c) PROVE state'[s] = "Closed"
  <2>1. s = sess[c] => app[c] # "dialed"
    BY ClientAssumption DEF Created
  <2> QED
    BY <1>1, <2>1 DEF Works, Touches
<1>2. CASE Tidies
  BY <1>2 DEF Tidies, ClosePending, SwapClosed, TypeOK, PoolTypeOK
<1>3. ASSUME NEW c \in Conns,
             \/ Misses(c) \/ \E r \in Sessions : Lends(c, r) \/ Makes(c, r)
             \/ \E drain \in BOOLEAN : Gives(c, drain)
      PROVE  state'[s] = "Closed"
  <2>1. state' = state \/ \E r \in Sessions : state[r] = "Ready" /\ state' = [state EXCEPT ![r] = "Active"]
    BY <1>3 DEF Misses, TakeNone, Lends, TakeReady, FrontReady, Makes, poolVars, Gives, MoveToPool
  <2> QED
    BY <2>1 DEF TypeOK, PoolTypeOK
<1>4. ASSUME NEW c \in Conns, App(c) \/ Closing(c) \/ Read(c) \/ Reading(c) \/ Draining(c)
      PROVE  state'[s] = "Closed"
  BY <1>1, <1>3, <1>4, ConnSteps
<1> QED
  BY <1>2, <1>4, OtherSteps

HolderInv == TypeOK /\ ThreadsAgree /\ Created /\ SoleHolder

LEMMA HolderKept == Spec => []HolderInv
<1>1. Init => HolderInv
  BY InitTypes, InitHolds DEF HolderInv
<1>2. HolderInv /\ [Next]_vars => HolderInv'
  BY StepTypes, CreatedStep, HolderStep DEF HolderInv
<1> QED
  BY <1>1, <1>2, PTL DEF Spec

\* No session is lent twice, or lent while it lies in the pool.
THEOREM HoldersExclude == Spec => []SoleHolder
<1>1. HolderInv => SoleHolder
  BY DEF HolderInv
<1> QED
  BY <1>1, HolderKept, PTL

\* Whatever the order of Take, MoveToPool, Reset, Close and the ticks, no open session
\* is forgotten: it is in the pool, or held, or about to be closed.
THEOREM NoSessionLost == Spec => []NoneLost
<1>1. Init => NoneLost
  BY InitHolds
<1>2. HolderInv /\ NoneLost /\ [Next]_vars => NoneLost'
  BY NoneLostStep DEF HolderInv
<1> QED
  BY <1>1, <1>2, HolderKept, PTL DEF Spec

\* A session that is closed stays closed, whoever still has a reference to it.
THEOREM ClosingIsFinal == Spec => ClosedIsFinal
<1>1. HolderInv /\ [Next]_vars => [\A s \in Sessions : state[s] = "Closed" => state'[s] = "Closed"]_state
  BY ClosedStep DEF HolderInv
<1> QED
  BY <1>1, HolderKept, PTL DEF Spec, ClosedIsFinal

-----------------------------------------------------------------------------
(***************************************************************************)
(* The pool's counters.  Only three steps of a connection reach them: Take *)
(* purges the list, MoveToPool starts the loop and counts a drain, and     *)
(* DrainDone uncounts it.                                                  *)
(***************************************************************************)
Counted == {c \in Conns : dr[c] # "off" \/ app[c] = "purgeDrain"}
CountInv == DrainsCounted /\ IsFiniteSet(Counted)

\* What the other steps of connection c leave alone.
Uncounted(c) ==
  /\ UNCHANGED <<entries, poolClosed, ticking, loops, drainWg>>
  /\ \A d \in Conns : (dr'[d] # "off" \/ app'[d] = "purgeDrain") <=> (dr[d] # "off" \/ app[d] = "purgeDrain")

LEMMA AppUncounted ==
  ASSUME TypeOK, NEW c \in Conns,
         \/ Taken(c) \/ Dialed(c) \/ Open(c) \/ WriteRequest(c) \/ WriteData(c) \/ CloseWrite(c) \/ Close(c)
         \/ CheckReply(c) \/ CloseEndWrite(c) \/ CheckRead(c) \/ Release(c) \/ AskIdle(c)
         \/ AskReader(c) \/ Wait(c) \/ Recheck(c) \/ StartDrain(c) \/ Closed(c)
  PROVE  Uncounted(c)
<1> USE DEF TypeOK, ConnTypeOK, Uncounted, Goto, Leave, poolOnly, drainVars, appVars, connVars, poolVars
<1>1. CASE Taken(c) \/ Dialed(c) \/ Open(c)
  BY <1>1 DEF Taken, Dialed, Open
<1>2. CASE WriteRequest(c) \/ WriteData(c) \/ CloseWrite(c) \/ CloseEndWrite(c)
  BY <1>2 DEF WriteRequest, WriteData, CloseWrite, CloseEndWrite
<1>3. CASE Close(c) \/ CheckReply(c) \/ CheckRead(c) \/ AskReader(c) \/ Recheck(c)
  BY <1>3 DEF Close, CheckReply, CheckRead, AskReader, Recheck
<1>4. CASE Release(c) \/ AskIdle(c) \/ Wait(c) \/ StartDrain(c)
  BY <1>4 DEF Release, AskIdle, Wait, StartDrain
<1>5. CASE Closed(c)
  BY <1>5 DEF Closed
<1> QED
  BY <1>1, <1>2, <1>3, <1>4, <1>5

LEMMA ReadUncounted ==
  ASSUME TypeOK, NEW c \in Conns, Read(c) \/ Reading(c) \/ DrainRecord(c)
  PROVE  Uncounted(c)
<1> USE DEF TypeOK, ConnTypeOK, Uncounted, ReadGoto, poolOnly, drainVars, appVars, connVars, poolVars
<1>1. CASE Read(c) \/ CountRead(c) \/ RecheckClosed(c) \/ LeaveRead(c) \/ MarkEOF(c) \/ ResultOpen(c)
  BY <1>1 DEF Read, CountRead, RecheckClosed, LeaveRead, MarkEOF, ResultOpen
<1>2. CASE ReadReply(c) \/ ReadRecord(c)
  BY <1>2 DEF ReadReply, ReadRecord
<1>3. CASE ResultEOF(c) \/ SettleRead(c) \/ ResultClosed(c)
  BY <1>3 DEF ResultEOF, SettleRead, ResultClosed
<1>4. CASE DrainRecord(c)
  BY <1>4 DEF DrainRecord
<1> QED
  BY <1>1, <1>2, <1>3, <1>4 DEF Reading

-----------------------------------------------------------------------------
LEMMA LoopStep ==
  ASSUME TypeOK, ExpireLoopRuns, [Next]_vars
  PROVE  ExpireLoopRuns'
<1> USE DEF ExpireLoopRuns, TypeOK, PoolTypeOK
<1>1. ASSUME UNCHANGED <<entries, poolClosed, ticking, loops>> PROVE ExpireLoopRuns'
  BY <1>1
<1>2. ASSUME NEW c \in Conns, Dial(c) PROVE ExpireLoopRuns'
  <2>1. UNCHANGED <<poolClosed, ticking, loops>> /\ entries' \subseteq entries
    BY <1>2 DEF Dial, TakeReady, TakeNone, SetEntries, Live, poolVars
  <2> QED
    BY <2>1
<1>3. ASSUME NEW c \in Conns, Pool(c) \/ PoolDrain(c) PROVE ExpireLoopRuns'
  <2>1. PICK drain \in BOOLEAN : MoveToPool(c, sess[c], drain)
    BY <1>3 DEF Pool, PoolDrain
  <2>2. CASE Fits
    <3>1. ~poolClosed /\ ticking' = TRUE /\ loops' = IF ~ticking THEN loops + 1 ELSE loops
      BY <2>1, <2>2, Zenon DEF MoveToPool, Fits
    <3> QED
      BY <3>1
  <2>3. CASE ~Fits /\ ~poolClosed
    <3>1. UNCHANGED <<poolClosed, ticking, loops>> /\ entries' = Live
      BY <2>1, <2>3 DEF MoveToPool, SetEntries
    <3> QED
      BY <3>1 DEF Live
  <2>4. CASE poolClosed
    BY <2>1, <2>4 DEF MoveToPool
  <2> QED
    BY <2>2, <2>3, <2>4
<1>4. ASSUME NEW c \in Conns, DrainDone(c) PROVE ExpireLoopRuns'
  BY <1>4 DEF DrainDone
<1>5. CASE \E t \in Threads : ClosePending(t)
  BY <1>5 DEF ClosePending
<1>6. CASE PoolWork \/ PoolCall
  <2>1. CASE ExpireTick
    BY <2>1 DEF ExpireTick, SetEntries
  <2>2. CASE ResetPool
    BY <2>2 DEF ResetPool, SetEntries
  <2>3. CASE ExpireStop \/ ClosePool
    BY <2>3 DEF ExpireStop, ClosePool
  <2>4. CASE CloseWait \/ CloseReturn \/ ClockTick
    BY <2>4 DEF CloseWait, CloseReturn, ClockTick
  <2> QED
    BY <1>6, <2>1, <2>2, <2>3, <2>4 DEF PoolWork, PoolCall
<1>7. CASE CloseIdleConnections
  BY <1>7 DEF CloseIdleConnections, ResetPool, SetEntries, poolVars
<1>8. CASE UNCHANGED poolVars
  BY <1>8 DEF poolVars
<1>9. ASSUME NEW c \in Conns, Uncounted(c) PROVE ExpireLoopRuns'
  BY <1>9 DEF Uncounted
<1> QED
  BY <1>2, <1>3, <1>4, <1>5, <1>6, <1>7, <1>8, <1>9, AppUncounted, ReadUncounted
     DEF Next, App, Closing, Draining, SetKeepIdleConnections, Peer, vars

LEMMA CountStep ==
  ASSUME TypeOK, ThreadsAgree, CountInv, [Next]_vars
  PROVE  CountInv'
<1> USE DEF TypeOK, ConnTypeOK
<1>0. drainWg = Cardinality(Counted) /\ IsFiniteSet(Counted)
  BY DEF CountInv, DrainsCounted, Counted
<1>1. ASSUME drainWg' = Cardinality(Counted'), IsFiniteSet(Counted')
      PROVE  CountInv'
  BY <1>1 DEF CountInv, DrainsCounted, Counted
<1>2. ASSUME UNCHANGED drainWg,
             \A d \in Conns : (dr'[d] # "off" \/ app'[d] = "purgeDrain") <=> (dr[d] # "off" \/ app[d] = "purgeDrain")
      PROVE  CountInv'
  <2>1. Counted' = Counted
    BY <1>2 DEF Counted
  <2> QED
    BY <1>0, <1>1, <1>2, <2>1
<1>3. ASSUME NEW c \in Conns, Dial(c) \/ Pool(c) PROVE CountInv'
  <2>1. UNCHANGED <<drainWg, dr>>
    BY <1>3 DEF Dial, TakeReady, TakeNone, Pool, MoveToPool, drainVars, poolVars
  <2>2. \A d \in Conns : app'[d] = "purgeDrain" <=> app[d] = "purgeDrain"
    BY <1>3 DEF Dial, Pool, Goto
  <2> QED
    BY <1>2, <2>1, <2>2
<1>4. ASSUME NEW c \in Conns, PoolDrain(c) PROVE CountInv'
  <2>1. CASE Fits
    <3>1. drainWg' = drainWg + 1
      BY <1>4, <2>1 DEF PoolDrain, MoveToPool
    <3>2. c \notin Counted
      BY <1>4 DEF PoolDrain, Counted, ThreadsAgree, Agree
    <3>3. Counted' = Counted \cup {c}
      BY <1>4, <2>1 DEF PoolDrain, Goto, Counted, drainVars
    <3> QED
      BY <1>0, <1>1, <3>1, <3>2, <3>3, FS_AddElement
  <2>2. CASE ~Fits
    <3>1. UNCHANGED <<drainWg, dr>>
      BY <1>4, <2>2 DEF PoolDrain, MoveToPool, drainVars
    <3>2. \A d \in Conns : app'[d] = "purgeDrain" <=> app[d] = "purgeDrain"
      BY <1>4, <2>2 DEF PoolDrain, Goto
    <3> QED
      BY <1>2, <3>1, <3>2
  <2> QED
    BY <2>1, <2>2
<1>5. ASSUME NEW c \in Conns, DrainDone(c) PROVE CountInv'
  <2>1. drainWg' = drainWg - 1
    BY <1>5 DEF DrainDone
  <2>2. c \in Counted
    BY <1>5 DEF DrainDone, Counted
  <2>3. Counted' = Counted \ {c}
    BY <1>5 DEF DrainDone, Counted, ThreadsAgree, Agree, appVars
  <2> QED
    BY <1>0, <1>1, <2>1, <2>2, <2>3, FS_RemoveElement
<1>6. CASE (PoolWork \/ PoolCall \/ \E t \in Threads : ClosePending(t)) /\ UNCHANGED connVars
  <2>1. UNCHANGED drainWg
    BY <1>6 DEF PoolWork, PoolCall, ClosePending, ExpireTick, ExpireStop, CloseWait, CloseReturn, ResetPool, ClosePool, ClockTick
  <2> QED
    BY <1>2, <1>6, <2>1 DEF connVars
<1>7. CASE CloseIdleConnections \/ \E keep \in BOOLEAN : SetKeepIdleConnections(keep)
  <2>1. UNCHANGED <<drainWg, dr, app>>
    BY <1>7 DEF CloseIdleConnections, SetKeepIdleConnections, ResetPool, poolVars, drainVars, appVars
  <2> QED
    BY <1>2, <2>1
<1>8. CASE UNCHANGED poolVars /\ UNCHANGED connVars
  BY <1>2, <1>8 DEF poolVars, connVars
<1>9. ASSUME NEW c \in Conns, Uncounted(c) PROVE CountInv'
  BY <1>2, <1>9 DEF Uncounted
<1> QED
  BY <1>3, <1>4, <1>5, <1>6, <1>7, <1>8, <1>9, AppUncounted, ReadUncounted
     DEF Next, App, Closing, Draining, Peer, vars

\* While the pool is open its ExpireLoop runs exactly when something may be in the
\* list: startLoop never starts a second one and none ends with an entry left.
THEOREM OneExpireLoop == Spec => []ExpireLoopRuns
<1>1. Init => ExpireLoopRuns
  BY DEF Init, PoolInit, ExpireLoopRuns
<1>2. TypeOK /\ ExpireLoopRuns /\ [Next]_vars => ExpireLoopRuns'
  BY LoopStep
<1> QED
  BY <1>1, <1>2, TypeCorrect, PTL DEF Spec

\* The WaitGroup that Close waits for counts the drains that run or are about to, so
\* it is never negative and Wait never returns under a drain.
THEOREM WaitGroupExact == Spec => []DrainsCounted
<1>1. Init => HolderInv /\ CountInv
  <2> SUFFICES ASSUME Init PROVE HolderInv /\ CountInv
    OBVIOUS
  <2>1. Counted = {}
    BY DEF Init, Counted
  <2>2. drainWg = Cardinality(Counted) /\ IsFiniteSet(Counted)
    BY <2>1, FS_EmptySet DEF Init, PoolInit
  <2> QED
    BY <2>2, InitTypes, InitHolds DEF HolderInv, CountInv, DrainsCounted, Counted
<1>2. HolderInv /\ CountInv /\ [Next]_vars
        => CountInv'
  BY CountStep DEF HolderInv
<1>3. CountInv => DrainsCounted
  BY DEF CountInv
<1> QED
  BY <1>1, <1>2, <1>3, HolderKept, PTL DEF Spec

-----------------------------------------------------------------------------
(***************************************************************************)
(* The request streams.  A tunnel carries one request stream after         *)
(* another, each of which begins with a request and ends with a zero       *)
(* chunk.  "inside" says that the far end has read the beginning of one    *)
(* and not its end.                                                        *)
(***************************************************************************)

\* A request stream begins at record i.
OpensAt(q, inside, i) == IF i = 1 THEN ~inside ELSE q[i - 1].kind = "eof"

\* Requests stand where streams begin, and nowhere else.
Alternates(q, inside) == \A i \in 1 .. Len(q) : q[i].kind = "request" <=> OpensAt(q, inside, i)

\* The last stream is complete.
EndsStream(q, inside) == OpensAt(q, inside, Len(q) + 1)

LEMMA EmptyStream ==
  ASSUME NEW inside \in BOOLEAN
  PROVE  Alternates(<<>>, inside) /\ (EndsStream(<<>>, inside) <=> ~inside)
BY DEF Alternates, EndsStream, OpensAt

LEMMA TailStream ==
  ASSUME NEW q \in Seq(Records), q # <<>>, NEW inside \in BOOLEAN, Alternates(q, inside)
  PROVE  /\ Head(q).kind = "request" <=> ~inside
         /\ Alternates(Tail(q), Head(q).kind # "eof")
         /\ EndsStream(Tail(q), Head(q).kind # "eof") <=> EndsStream(q, inside)
<1>1. /\ Len(q) \in Nat \ {0} /\ Len(Tail(q)) = Len(q) - 1
      /\ Head(q) = q[1] /\ \A i \in 1 .. Len(q) - 1 : Tail(q)[i] = q[i + 1]
  BY HeadTailProperties
<1>2. Head(q).kind = "request" <=> ~inside
  BY <1>1 DEF Alternates, OpensAt
<1>3. \A i \in 1 .. Len(q) : OpensAt(Tail(q), Head(q).kind # "eof", i) <=> OpensAt(q, inside, i + 1)
  BY <1>1 DEF OpensAt
<1>4. Alternates(Tail(q), Head(q).kind # "eof")
  BY <1>1, <1>3 DEF Alternates
<1>5. EndsStream(Tail(q), Head(q).kind # "eof") <=> EndsStream(q, inside)
  BY <1>1, <1>3 DEF EndsStream
<1> QED
  BY <1>2, <1>4, <1>5

LEMMA AppendStream ==
  ASSUME NEW q \in Seq(Records), NEW r \in Records, NEW inside \in BOOLEAN, Alternates(q, inside),
         r.kind = "request" <=> EndsStream(q, inside)
  PROVE  /\ q \o <<r>> \in Seq(Records)
         /\ Alternates(q \o <<r>>, inside)
         /\ EndsStream(q \o <<r>>, inside) <=> r.kind = "eof"
<1>1. /\ Len(q) \in Nat /\ Len(q \o <<r>>) = Len(q) + 1 /\ q \o <<r>> \in Seq(Records)
      /\ (q \o <<r>>)[Len(q) + 1] = r /\ \A i \in 1 .. Len(q) : (q \o <<r>>)[i] = q[i]
  OBVIOUS
<1>2. \A i \in 1 .. Len(q) + 1 : OpensAt(q \o <<r>>, inside, i) <=> OpensAt(q, inside, i)
  BY <1>1 DEF OpensAt
<1>3. Alternates(q \o <<r>>, inside)
  BY <1>1, <1>2 DEF Alternates, EndsStream
<1>4. EndsStream(q \o <<r>>, inside) <=> r.kind = "eof"
  BY <1>1 DEF EndsStream, OpensAt
<1> QED
  BY <1>1, <1>3, <1>4

-----------------------------------------------------------------------------
Inside(s) == phase[s] # "idle" /\ ~clientEOF[s]
Up(s) == peerUp[s] /\ state[s] # "Closed"
Complete(s) == EndsStream(outbound[s], Inside(s))
Leaving == {"release", "askIdle", "askReader", "wait", "recheck", "drain", "pool", "poolDrain"}

\* The request streams of session s: complete whenever it is in the pool.
Streams(s) ==
  /\ ~misread[s]
  /\ Up(s) => Alternates(outbound[s], Inside(s))
  /\ state[s] = "None" => outbound[s] = <<>> /\ phase[s] = "idle"
  /\ s \in entries /\ Up(s) => Complete(s)

\* What connection c knows of the stream it writes.
Writes(c) ==
  /\ Holds(c) /\ Up(sess[c]) => /\ requested[c] /\ wroteEOF[c] = "no" => ~Complete(sess[c])
                                /\ ~requested[c] \/ wroteEOF[c] = "ok" => Complete(sess[c])
  /\ app[c] \in Starting => ~requested[c] /\ wroteEOF[c] = "no"
  /\ app[c] \in Leaving => wroteEOF[c] = "ok"
  /\ wroteEOF[c] = "ok" => requested[c]

RequestInv == (\A s \in Sessions : Streams(s)) /\ (\A c \in Conns : Writes(c))

\* The step writes nothing, and the far end reads nothing.
Silent == /\ UNCHANGED <<outbound, misread, requested, wroteEOF>>
          /\ \A s \in Sessions : /\ Inside(s)' = Inside(s)
                                 /\ peerUp'[s] => peerUp[s]
                                 /\ state[s] = "None" => phase'[s] = phase[s]
          /\ \A c \in Conns : app'[c] \in Leaving => app[c] \in Leaving \/ wroteEOF[c] = "ok"

LEMMA SilentStep ==
  ASSUME TypeOK, RequestInv, Silent,
         \A s \in Sessions : /\ state[s] = "Closed" => state'[s] = "Closed"
                             /\ state'[s] = "None" => state[s] = "None"
                             /\ s \in entries' => s \in entries
         ,
         \A c \in Conns : /\ Holds(c)' => Holds(c) /\ sess'[c] = sess[c]
                          /\ app'[c] \in Starting => app[c] \in Starting
  PROVE  RequestInv'
<1>1. \A s \in Sessions : /\ Up(s)' => Up(s)
                          /\ Complete(s)' = Complete(s)
                          /\ Alternates(outbound[s], Inside(s))' = Alternates(outbound[s], Inside(s))
  BY DEF Up, Complete, Silent
<1>2. ASSUME NEW s \in Sessions PROVE Streams(s)'
  BY <1>1 DEF Streams, RequestInv, Silent
<1>3. ASSUME NEW c \in Conns PROVE Writes(c)'
  <2>1. Holds(c)' => sess[c] \in Sessions /\ sess'[c] = sess[c] /\ Holds(c)
    BY DEF Holds, TypeOK, ConnTypeOK
  <2>2. Writes(c) /\ requested'[c] = requested[c] /\ wroteEOF'[c] = wroteEOF[c]
    BY DEF RequestInv, Silent
  <2> QED
    BY <1>1, <2>1, <2>2 DEF Writes, Silent
<1> QED
  BY <1>2, <1>3 DEF RequestInv

\* All but the writes of a connection are silent.
LEMMA AppSilent ==
  ASSUME TypeOK, NEW c \in Conns, Writes(c),
         \/ Dial(c) \/ Taken(c) \/ Dialed(c) \/ Open(c) \/ Close(c)
         \/ CheckReply(c) \/ CheckRead(c) \/ Release(c) \/ AskIdle(c) \/ AskReader(c)
         \/ Wait(c) \/ Recheck(c) \/ StartDrain(c) \/ Pool(c) \/ PoolDrain(c) \/ Closed(c)
  PROVE  Silent
<1> USE DEF TypeOK, ConnTypeOK, Goto, Leave
<1>1. ASSUME UNCHANGED <<tunnelVars, writeVars>>, \A d \in Conns \ {c} : app'[d] = app[d],
             app'[c] \in Leaving => app[c] \in Leaving \/ wroteEOF[c] = "ok"
      PROVE  Silent
  BY <1>1 DEF Silent, Inside, tunnelVars, writeVars
<1>2. UNCHANGED <<tunnelVars, writeVars>> /\ \A d \in Conns \ {c} : app'[d] = app[d]
  BY DEF Dial, Taken, Dialed, Open, Close, CheckReply, CheckRead, Release, AskIdle, AskReader,
         Wait, Recheck, StartDrain, Pool, PoolDrain, Closed
<1>3. CASE Dial(c) \/ Taken(c) \/ Dialed(c) \/ Open(c) \/ Close(c) \/ CheckReply(c)
  BY <1>1, <1>2, <1>3 DEF Dial, Taken, Dialed, Open, Close, CheckReply, Leaving
<1>4. CASE CheckRead(c)
  BY <1>1, <1>2, <1>4 DEF CheckRead, Leaving
<1>5. CASE app[c] \in Leaving
  BY <1>1, <1>2, <1>5
<1>6. CASE Closed(c)
  BY <1>1, <1>2, <1>6 DEF Closed, Leaving
<1> QED
  BY <1>3, <1>4, <1>5, <1>6
     DEF Release, AskIdle, AskReader, Wait, Recheck, StartDrain, Pool, PoolDrain, Leaving

LEMMA ReadSilent ==
  ASSUME NEW c \in Conns, Read(c) \/ Reading(c) \/ Draining(c)
  PROVE  Silent
<1>1. ASSUME UNCHANGED <<outbound, misread, phase, clientEOF, peerUp, requested, wroteEOF, app>>
      PROVE  Silent
  BY <1>1 DEF Silent, Inside
<1>2. CASE Read(c) \/ CountRead(c) \/ RecheckClosed(c) \/ LeaveRead(c) \/ MarkEOF(c) \/ ResultOpen(c)
  BY <1>1, <1>2 DEF Read, CountRead, RecheckClosed, LeaveRead, MarkEOF, ResultOpen, tunnelVars, writeVars, appVars
<1>3. CASE ReadReply(c) \/ ReadRecord(c) \/ ResultEOF(c) \/ SettleRead(c) \/ ResultClosed(c)
  BY <1>1, <1>3 DEF ReadReply, ReadRecord, ResultEOF, SettleRead, ResultClosed, tunnelVars, writeVars, appVars
<1>4. CASE Draining(c)
  BY <1>1, <1>4 DEF Draining, DrainRecord, DrainDone, tunnelVars, writeVars, appVars
<1> QED
  BY <1>2, <1>3, <1>4 DEF Reading

-----------------------------------------------------------------------------
\* A write extends the stream of the connection that holds the session.
LEMMA WriterStep ==
  ASSUME TypeOK, TypeOK', Created, SoleHolder, RequestInv, NEW c \in Conns, Holds(c),
         app[c] \in {"open", "closeWrite"},
         UNCHANGED <<entries, app, sess, phase, clientEOF, peerUp, misread>>,
         \A s \in Sessions : /\ s # sess[c] => state'[s] = state[s]
                             /\ state'[s] # state[s] => state'[s] = "Closed",
         \A s \in Sessions : s # sess[c] \/ ~Up(s) => outbound'[s] = outbound[s],
         \A d \in Conns \ {c} : requested'[d] = requested[d] /\ wroteEOF'[d] = wroteEOF[d],
         wroteEOF'[c] = "ok" => requested'[c],
         Up(sess[c])' =>
           /\ Alternates(outbound[sess[c]], Inside(sess[c]))'
           /\ requested'[c] /\ wroteEOF'[c] = "no" => ~Complete(sess[c])'
           /\ ~requested'[c] \/ wroteEOF'[c] = "ok" => Complete(sess[c])'
  PROVE  RequestInv'
<1> USE DEF RequestInv
<1>1. sess[c] \in Sessions /\ sess[c] \notin entries /\ state[sess[c]] # "None"
  BY DEF Holds, SoleHolder, Created, TypeOK, ConnTypeOK
<1>2. \A s \in Sessions : Up(s)' => Up(s)
  BY DEF Up, TypeOK, PoolTypeOK
<1>3. ASSUME NEW s \in Sessions PROVE Streams(s)'
  <2>1. CASE s = sess[c]
    BY <1>1, <2>1 DEF Streams, TypeOK, PoolTypeOK
  <2>2. CASE s # sess[c]
    BY <1>2, <2>2 DEF Streams, Up, Inside, Complete
  <2> QED
    BY <2>1, <2>2
<1>4. ASSUME NEW d \in Conns PROVE Writes(d)'
  <2>1. CASE d = c
    BY <2>1 DEF Writes, Starting, Leaving
  <2>2. CASE d # c
    <3>1. Holds(d)' => Holds(d) /\ sess[d] # sess[c] /\ sess[d] \in Sessions
      BY <2>2 DEF Holds, SoleHolder, TypeOK, ConnTypeOK
    <3> QED
      BY <1>2, <2>2, <3>1 DEF Writes, Up, Inside, Complete
  <2> QED
    BY <2>1, <2>2
<1> QED
  BY <1>3, <1>4

LEMMA WritesStep ==
  ASSUME LateWrites = FALSE, TypeOK, TypeOK', ThreadsAgree, Created, SoleHolder, RequestInv, NEW c \in Conns,
         WriteRequest(c) \/ WriteData(c) \/ CloseWrite(c) \/ CloseEndWrite(c)
  PROVE  RequestInv'
<1> DEFINE s == sess[c]
           q == outbound[s]
<1>1. app[c] \in {"open", "closeWrite"} /\ Holds(c) /\ s \in Sessions
  <2>1. app[c] \in {"open", "closeWrite"}
    BY DEF WriteRequest, WriteData, CloseWrite, CloseEndWrite
  <2> QED
    BY <2>1 DEF Holds, ThreadsAgree, Agree, TypeOK, ConnTypeOK
<1>2. q \in Seq(Records) /\ Inside(s) \in BOOLEAN
  BY <1>1 DEF TypeOK, TunnelTypeOK, Inside
<1>3. Up(s) => Alternates(q, Inside(s))
  BY <1>1 DEF RequestInv, Streams
<1>4. Writes(c)
  BY DEF RequestInv
<1>5. UNCHANGED <<entries, app, sess, phase, clientEOF, peerUp, misread>>
  BY DEF WriteRequest, WriteData, CloseWrite, CloseEndWrite, poolOnly, poolVars, connVars, appVars
<1>6. Inside(s)' = Inside(s)
  BY <1>5 DEF Inside
<1>7. \A r \in Sessions : /\ r # s => state'[r] = state[r]
                          /\ state'[r] # state[r] => state'[r] = "Closed"
  BY DEF WriteRequest, WriteData, CloseWrite, CloseEndWrite, EndWrite, SwapClosed, poolVars, TypeOK, PoolTypeOK
<1>8. \A r \in Sessions : r # s \/ ~Up(s) => outbound'[r] = outbound[r]
  BY DEF WriteRequest, WriteData, CloseWrite, CloseEndWrite, EndWrite, Send, Up, TypeOK, TunnelTypeOK
<1>9. \A d \in Conns \ {c} : requested'[d] = requested[d] /\ wroteEOF'[d] = wroteEOF[d]
  BY ZenonT(40) DEF WriteRequest, WriteData, CloseWrite, CloseEndWrite, EndWrite, connVars, TypeOK, ConnTypeOK
<1>10. \A k \in Kinds : Record(c, k) \in Records /\ Record(c, k).kind = k
  BY DEF Record, Records
<1>11. wroteEOF'[c] = "ok" => requested'[c]
  BY <1>4 DEF WriteRequest, WriteData, CloseWrite, CloseEndWrite, EndWrite, connVars, TypeOK, ConnTypeOK, Writes
<1>12. ASSUME Up(s)'
       PROVE  /\ Alternates(outbound[s], Inside(s))'
              /\ requested'[c] /\ wroteEOF'[c] = "no" => ~Complete(s)'
              /\ ~requested'[c] \/ wroteEOF'[c] = "ok" => Complete(s)'
  <2>1. Up(s) /\ ~MayFail(s)
    BY <1>1, <1>5, <1>7, <1>12 DEF Up, MayFail
  <2>2. CASE WriteRequest(c)
    <3>1. outbound'[s] = q \o <<Record(c, "request")>> /\ requested'[c] /\ wroteEOF'[c] = wroteEOF[c]
      BY <1>1, <2>1, <2>2, SMTT(30) DEF WriteRequest, Send, Up, TypeOK, TunnelTypeOK, ConnTypeOK
    <3>2. Complete(s) /\ wroteEOF[c] # "ok"
      BY <1>1, <1>4, <2>1, <2>2 DEF WriteRequest, Writes
    <3> QED
      BY <1>2, <1>3, <1>5, <1>6, <1>10, <2>1, <3>1, <3>2, AppendStream DEF Complete, Kinds
  <2>3. CASE WriteData(c)
    <3>1. outbound'[s] = q \o <<Record(c, "data")>> /\ requested[c] /\ wroteEOF[c] = "no"
      BY <1>1, <2>1, <2>3 DEF WriteData, Send, Up, TypeOK, TunnelTypeOK, ConnTypeOK
    <3>2. ~Complete(s) /\ requested'[c] /\ wroteEOF'[c] = "no"
      BY <1>1, <1>4, <2>1, <2>3, <3>1 DEF WriteData, Writes, connVars
    <3> QED
      BY <1>2, <1>3, <1>5, <1>6, <1>10, <2>1, <3>1, <3>2, AppendStream DEF Complete, Kinds
  <2>4. CASE EndWrite(c) /\ wroteEOF[c] = "no"
    <3>1. requested'[c] /\ wroteEOF'[c] = "ok"
      BY <1>1, <2>1, <2>4 DEF EndWrite, TypeOK, ConnTypeOK
    <3>2. outbound'[s] = q \o ((IF requested[c] THEN <<>> ELSE <<Record(c, "request")>>) \o <<Record(c, "eof")>>)
      BY <1>1, <2>1, <2>4 DEF EndWrite, Send, Up, TypeOK, TunnelTypeOK
    <3>3. CASE requested[c]
      <4>1. outbound'[s] = q \o <<Record(c, "eof")>>
        BY <1>2, <1>10, <3>2, <3>3, ConcatEmptySeq DEF Kinds
      <4>2. ~Complete(s)
        BY <1>1, <1>4, <2>1, <2>4, <3>3 DEF Writes
      <4> QED
        BY <1>2, <1>3, <1>5, <1>6, <1>10, <2>1, <3>1, <4>1, <4>2, AppendStream DEF Complete, Kinds
    <3>4. CASE ~requested[c]
      <4> DEFINE r == q \o <<Record(c, "request")>>
      <4>1. outbound'[s] = r \o <<Record(c, "eof")>>
        BY <1>2, <1>10, <3>2, <3>4, ConcatAssociative DEF Kinds
      <4>2. Complete(s)
        BY <1>1, <1>4, <2>1, <3>4 DEF Writes
      <4>3. r \in Seq(Records) /\ Alternates(r, Inside(s)) /\ ~EndsStream(r, Inside(s))
        BY <1>2, <1>3, <1>10, <2>1, <4>2, AppendStream DEF Complete, Kinds
      <4> HIDE DEF r
      <4> QED
        BY <1>2, <1>5, <1>6, <1>10, <3>1, <4>1, <4>3, AppendStream DEF Complete, Kinds
    <3> QED
      BY <3>3, <3>4
  <2> QED
    BY <2>2, <2>3, <2>4 DEF CloseWrite, CloseEndWrite
<1> QED
  BY <1>1, <1>5, <1>7, <1>8, <1>9, <1>11, <1>12, WriterStep

\* A step of a connection's threads that writes nothing.
LEMMA QuietConnStep ==
  ASSUME TypeOK, TypeOK', HolderInv, RequestInv, [Next]_vars, Silent, NEW c \in Conns,
         App(c) \/ Closing(c) \/ Read(c) \/ Reading(c) \/ Draining(c)
  PROVE  RequestInv'
<1>1. \A s \in Sessions : state[s] = "Closed" => state'[s] = "Closed"
  BY ClosedStep DEF HolderInv
<1>2. \/ Works(c) \/ Misses(c)
      \/ \E s \in Sessions : Lends(c, s) \/ Makes(c, s)
      \/ \E drain \in BOOLEAN : Gives(c, drain)
  BY ConnSteps DEF HolderInv
<1> USE DEF TypeOK, PoolTypeOK, ConnTypeOK
<1>3. CASE Works(c)
  <2>1. \A s \in Sessions : (state'[s] = "None" => state[s] = "None") /\ (s \in entries' => s \in entries)
    BY <1>3 DEF Works, Touches, Frame
  <2>2. \A d \in Conns : (Holds(d)' => Holds(d) /\ sess'[d] = sess[d]) /\ (app'[d] \in Starting => app[d] \in Starting)
    BY <1>3 DEF Works, Frame, Moves, Keeps, Holds
  <2> QED
    BY <1>1, <2>1, <2>2, SilentStep
<1>4. CASE Misses(c)
  <2>1. Drops /\ state' = state
    BY <1>4, MissDrops
  <2>2. sess[c] = Nowhere
    BY <1>4 DEF Misses, HolderInv, ThreadsAgree, Agree
  <2>3. \A d \in Conns : (Holds(d)' => Holds(d) /\ sess'[d] = sess[d]) /\ (app'[d] \in Starting => app[d] \in Starting)
    BY <1>4, <2>2 DEF Misses, Moves, Holds, Starting
  <2> QED
    BY <1>1, <2>1, <2>3, SilentStep DEF Drops
<1>5. \A s \in Sessions : (Up(s)' => Up(s)) /\ Complete(s)' = Complete(s)
                          /\ Alternates(outbound[s], Inside(s))' = Alternates(outbound[s], Inside(s))
  BY <1>1 DEF Up, Complete, Silent
<1>6. UNCHANGED <<outbound, misread, requested, wroteEOF>>
  BY DEF Silent
<1>7. ASSUME NEW s \in Sessions, Lends(c, s) \/ Makes(c, s) PROVE RequestInv'
  <2>1. /\ entries' \subseteq entries /\ \A r \in Sessions : state'[r] = "None" => state[r] = "None"
        /\ sess' = [sess EXCEPT ![c] = s] /\ app'[c] \in {"taken", "dialed"} /\ app[c] \in {"new", "dialing"}
        /\ \A d \in Conns \ {c} : app'[d] = app[d]
    BY <1>7 DEF Lends, Makes, Moves, TakeReady, SetEntries, Live, poolVars
  <2>2. Up(s) => Complete(s)
    <3>1. CASE Lends(c, s)
      BY <3>1 DEF Lends, TakeReady, FrontReady, Live, RequestInv, Streams
    <3>2. CASE Makes(c, s)
      BY <3>2 DEF Makes, RequestInv, Streams, Complete, EndsStream, OpensAt, Inside
    <3> QED
      BY <1>7, <3>1, <3>2
  <2>3. ASSUME NEW r \in Sessions PROVE Streams(r)'
    <3>1. r \in entries' /\ Up(r)' => Complete(r)'
      BY <1>5, <2>1, SMTT(30) DEF Streams, RequestInv
    <3> QED
      BY <1>5, <2>1, <3>1, ZenonT(40) DEF Streams, RequestInv, Silent
  <2>4. ASSUME NEW d \in Conns PROVE Writes(d)'
    <3>1. CASE d = c
      BY <1>5, <1>6, <2>1, <2>2, <3>1 DEF Writes, RequestInv, Starting, Leaving
    <3>2. CASE d # c
      <4>1. Holds(d)' => Holds(d) /\ sess[d] \in Sessions /\ sess'[d] = sess[d]
        BY <2>1, <3>2 DEF Holds
      <4> QED
        BY <1>5, <1>6, <2>1, <3>2, <4>1 DEF Writes, RequestInv
    <3> QED
      BY <3>1, <3>2
  <2> QED
    BY <2>3, <2>4 DEF RequestInv
<1>8. ASSUME NEW drain \in BOOLEAN, Gives(c, drain) PROVE RequestInv'
  <2>1. /\ \A r \in entries' : r \in entries \cup {sess[c]}
        /\ state' = state /\ sess' = sess /\ app'[c] \in {"purge", "purgeDrain"} /\ app[c] \in {"pool", "poolDrain"}
        /\ \A d \in Conns \ {c} : app'[d] = app[d]
    BY <1>8 DEF Gives, Moves, MoveToPool, SetEntries, Live
  <2>2. Up(sess[c]) => Complete(sess[c])
    BY <2>1 DEF RequestInv, Writes, Leaving, Holds, HolderInv, ThreadsAgree, Agree
  <2>3. ASSUME NEW r \in Sessions PROVE Streams(r)'
    <3>1. r \in entries' /\ Up(r)' => Complete(r)'
      BY <1>5, <2>1, <2>2 DEF Streams, RequestInv
    <3> QED
      BY <1>5, <2>1, <3>1, ZenonT(40) DEF Streams, RequestInv, Silent
  <2>4. ASSUME NEW d \in Conns PROVE Writes(d)'
    <3>1. Holds(d)' => Holds(d) /\ sess[d] \in Sessions /\ sess'[d] = sess[d]
      BY <2>1 DEF Holds
    <3> QED
      BY <1>5, <1>6, <2>1, <3>1 DEF Writes, RequestInv, Starting, Leaving
  <2> QED
    BY <2>3, <2>4 DEF RequestInv
<1> QED
  BY <1>2, <1>3, <1>4, <1>7, <1>8

\* Serve takes what the streams offer.
LEMMA ServeStep ==
  ASSUME TypeOK, RequestInv, NEW s \in Sessions, PeerRequest(s) \/ PeerRead(s),
         UNCHANGED poolVars, UNCHANGED connVars
  PROVE  RequestInv'
<1> USE DEF TypeOK, TunnelTypeOK, RequestInv
<1>1. Up(s) /\ state[s] # "None" /\ outbound[s] \in Seq(Records) /\ outbound[s] # <<>>
  BY DEF PeerRequest, PeerRead, Serving, Up
<1>2. Inside(s) \in BOOLEAN
  BY DEF Inside
<1>3. Alternates(outbound[s], Inside(s))
  BY <1>1 DEF Streams
<1> DEFINE h == Head(outbound[s])
           t == Tail(outbound[s])
<1>4. /\ h.kind = "request" <=> ~Inside(s)
      /\ Alternates(t, h.kind # "eof")
      /\ EndsStream(t, h.kind # "eof") <=> Complete(s)
  BY <1>1, <1>2, <1>3, TailStream DEF Complete
<1>5. /\ outbound' = [outbound EXCEPT ![s] = t]
      /\ \A r \in Sessions \ {s} : phase'[r] = phase[r] /\ clientEOF'[r] = clientEOF[r] /\ peerUp'[r] = peerUp[r]
                                   /\ misread'[r] = misread[r]
  BY DEF PeerRequest, PeerRead
<1>6. ~misread'[s] /\ peerUp'[s] /\ Inside(s)' = (h.kind # "eof")
  <2>1. CASE PeerRequest(s)
    <3>1. h.kind = "request"
      BY <1>4, <2>1 DEF PeerRequest, Inside
    <3> QED
      BY <1>1, <2>1, <3>1 DEF PeerRequest, Inside, Up, Streams
  <2>2. CASE PeerRead(s)
    <3>1. h.kind # "request"
      BY <1>4, <2>2 DEF PeerRead, Inside
    <3> QED
      BY <1>1, <2>2, <3>1 DEF PeerRead, NextPhase, Inside, Up, Streams
  <2> QED
    BY <2>1, <2>2
<1>7. \A r \in Sessions : /\ Up(r)' = Up(r)
                          /\ Up(r) => Alternates(outbound[r], Inside(r))'
                          /\ Complete(r)' = Complete(r)
  <2> SUFFICES ASSUME NEW r \in Sessions
               PROVE  /\ Up(r)' = Up(r)
                      /\ Up(r) => Alternates(outbound[r], Inside(r))'
                      /\ Complete(r)' = Complete(r)
    OBVIOUS
  <2>1. CASE r = s
    <3>1. outbound'[s] = t /\ Up(s)'
      BY <1>1, <1>5, <1>6 DEF Up, poolVars
    <3>2. Alternates(outbound[s], Inside(s))'
      BY <1>4, <1>6, <3>1, Zenon
    <3>3. Complete(s)' = EndsStream(t, h.kind # "eof")
      BY <1>6, <3>1, Zenon DEF Complete
    <3>4. Complete(s)' = Complete(s)
      <4>1. Complete(s)' \in BOOLEAN /\ Complete(s) \in BOOLEAN
        BY DEF Complete, EndsStream, OpensAt
      <4> QED
        BY <1>4, <3>3, <4>1
    <3> QED
      BY <1>1, <2>1, <3>1, <3>2, <3>4
  <2>2. CASE r # s
    BY <1>5, <2>2 DEF Up, Complete, Inside, Streams, poolVars
  <2> QED
    BY <2>1, <2>2
<1>8. ASSUME NEW r \in Sessions PROVE Streams(r)'
  BY <1>1, <1>5, <1>6, <1>7 DEF Streams, poolVars
<1>9. ASSUME NEW c \in Conns PROVE Writes(c)'
  BY <1>7 DEF Writes, Holds, connVars, ConnTypeOK
<1> QED
  BY <1>8, <1>9

LEMMA InitRequests == Init => RequestInv
<1> SUFFICES ASSUME Init PROVE RequestInv
  OBVIOUS
<1>1. ASSUME NEW s \in Sessions PROVE Streams(s)
  BY EmptyStream DEF Init, PoolInit, TunnelInit, Streams, Inside, Complete, Up
<1>2. ASSUME NEW c \in Conns PROVE Writes(c)
  BY DEF Init, Writes, Holds, Starting, Leaving
<1> QED
  BY <1>1, <1>2 DEF RequestInv

LEMMA RequestStep ==
  ASSUME LateWrites = FALSE, HolderInv, RequestInv, [Next]_vars
  PROVE  RequestInv'
<1>1. TypeOK /\ TypeOK' /\ ThreadsAgree /\ Created /\ SoleHolder /\ \A c \in Conns : Writes(c)
  BY StepTypes DEF HolderInv, RequestInv
<1>2. ASSUME NEW c \in Conns, App(c) \/ Closing(c) \/ Read(c) \/ Reading(c) \/ Draining(c) PROVE RequestInv'
  <2>1. CASE WriteRequest(c) \/ WriteData(c) \/ CloseWrite(c) \/ CloseEndWrite(c)
    BY <1>1, <2>1, WritesStep
  <2>2. CASE Silent
    BY <1>1, <1>2, <2>2, QuietConnStep
  <2> QED
    BY <1>1, <1>2, <2>1, <2>2, AppSilent, ReadSilent DEF App, Closing
<1>3. CASE Peer /\ UNCHANGED connVars
  <2>1. PICK s \in Sessions : PeerStep(s)
    BY <1>3 DEF Peer
  <2>2. CASE PeerRequest(s) \/ PeerRead(s)
    BY <1>1, <1>3, <2>2, ServeStep DEF Peer
  <2>3. CASE PeerReply(s) \/ PeerData(s) \/ PeerEnd(s) \/ PeerAbort(s) \/ PeerGone(s)
    <3>1. Silent
      <4>1. UNCHANGED <<outbound, misread, clientEOF, requested, wroteEOF, app>>
        BY <1>3, <2>3 DEF PeerReply, PeerData, PeerEnd, PeerAbort, PeerGone, connVars
      <4>2. \A r \in Sessions : peerUp'[r] => peerUp[r]
        BY <1>1, <2>3 DEF PeerReply, PeerData, PeerEnd, PeerAbort, PeerGone, TypeOK, TunnelTypeOK
      <4>3. \A r \in Sessions : Inside(r)' = Inside(r) /\ (state[r] = "None" => phase'[r] = phase[r])
        BY <1>1, <2>3, ZenonT(40) DEF PeerReply, PeerData, PeerEnd, PeerAbort, PeerGone, NextPhase, Serving, Inside, TypeOK, TunnelTypeOK
      <4> QED
        BY <4>1, <4>2, <4>3 DEF Silent
    <3> QED
      BY <1>1, <1>3, <3>1, SilentStep DEF Peer, poolVars, connVars, Holds
  <2> QED
    BY <2>1, <2>2, <2>3 DEF PeerStep
<1>4. CASE Tidies /\ Silent
  <2>1. \A s \in Sessions : /\ state[s] = "Closed" => state'[s] = "Closed"
                            /\ state'[s] = "None" => state[s] = "None"
                            /\ s \in entries' => s \in entries
    BY <1>1, <1>4 DEF Tidies, Drops, ClosePending, SwapClosed, TypeOK, PoolTypeOK
  <2> QED
    BY <1>1, <1>4, <2>1, SilentStep DEF Tidies, Holds
<1>5. ASSUME ~\E c \in Conns : App(c) \/ Closing(c) \/ Read(c) \/ Reading(c) \/ Draining(c), ~(Peer /\ UNCHANGED connVars)
      PROVE  Silent
  <2>1. UNCHANGED <<tunnelVars, writeVars, appVars>>
    BY <1>5 DEF Next, SetKeepIdleConnections, CloseIdleConnections, vars, connVars, tunnelVars, writeVars, appVars
  <2> QED
    BY <2>1 DEF Silent, Inside, tunnelVars, writeVars, appVars
<1> QED
  BY <1>1, <1>2, <1>3, <1>4, <1>5, OtherSteps

\* Serve never takes data for a request, nor a request for data, provided that no
\* write follows the zero chunk of its own request stream.
THEOREM NoRequestMisread ==
  ASSUME LateWrites = FALSE
  PROVE  Spec => []NoMisread
<1>1. Init => RequestInv
  BY InitRequests
<1>2. HolderInv /\ RequestInv /\ [Next]_vars => RequestInv'
  BY RequestStep
<1>3. RequestInv => NoMisread
  BY DEF RequestInv, Streams, NoMisread
<1> QED
  BY <1>1, <1>2, <1>3, HolderKept, PTL DEF Spec

=============================================================================
