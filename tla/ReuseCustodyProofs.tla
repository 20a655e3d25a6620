-------------------------- MODULE ReuseCustodyProofs --------------------------
(***************************************************************************)
(* The custody of a tunnel, for every number of sessions and connections,  *)
(* every pool size and every behaviour of the server and of Pool.Reset,    *)
(* Pool.Close and the clock: no two threads are ever inside its record     *)
(* reader, a drain only reads a session that waits for the server's EOF,   *)
(* whoever reads it meets the answers to its own request and no others,    *)
(* and it is offered for reuse only when both its streams are at an end.   *)
(*                                                                         *)
(* It is proved of a client whose reader runs its statements together      *)
(* (ReaderPauses = FALSE) and does not call Read again after an EOF        *)
(* (ReadsPastEOF = FALSE), and the last two of an application that does    *)
(* not write after CloseWrite or Close (LateWrites = FALSE): the runs show *)
(* what happens otherwise.                                                 *)
(*                                                                         *)
(* Custody is the inductive invariant of the first part: one connection at *)
(* most is busy with a session, and it passes the session on only when its *)
(* own Read and drain take no further record.  ResponseInv adds what is in *)
(* the tunnel meanwhile.                                                   *)
(***************************************************************************)
EXTENDS ReuseProofs

Orderly == ReaderPauses = FALSE /\ ReadsPastEOF = FALSE

\* Custody, but for ThreadsAgree, which ReuseProofs shows to be preserved.
Exclusive == ReadsEnd /\ OneBusy /\ StateTells /\ PooledExist

\* A step that makes nobody busier leaves one connection busy at most.
LEMMA NobodyBusier ==
  ASSUME OneBusy, UNCHANGED sess, \A d \in Conns : Busy(d)' => Busy(d)
  PROVE  OneBusy'
BY DEF OneBusy

\* The application that dials, writes and calls Close.
LEMMA AppCustody ==
  ASSUME Orderly, TypeOK, ThreadsAgree, Exclusive, TypeOK', ThreadsAgree', NEW c \in Conns, App(c)
  PROVE  Exclusive'
<1> USE DEF TypeOK, PoolTypeOK, ConnTypeOK, ThreadsAgree, Exclusive, ReadsEnd, StateTells, PooledExist
<1> USE DEF Goto, ReadGoto, Leave, SwapClosed, Settle, SpendKeep
<1> USE DEF poolOnly, readVars, drainVars, writeVars, idleVars, appVars, connVars,
            tunnelVars, poolVars
<1>1. CASE Dial(c)
  <2>1. ASSUME NEW d \in Conns PROVE Alone(d)'
    BY <1>1 DEF Dial, Alone, Agree, Reads, Orderly
  <2>2. ASSUME NEW s \in Sessions, TakeReady(c, s), NEW d \in Conns, sess[d] = s PROVE ~Busy(d)
    BY <2>2, ClientAssumption DEF TakeReady, FrontReady, Live, Tells, Busy, Holds
  <2>3. ASSUME NEW d \in Conns, d # c PROVE Busy(d)' = Busy(d)
    BY <2>3, <1>1 DEF Dial, Busy, Holds, Reads
  <2>4. OneBusy'
    <3>1. CASE UNCHANGED sess
      <4>1. ~Busy(c)'
        BY <1>1, <3>1 DEF Dial, Busy, Holds, Reads, Agree
      <4>2. \A d \in Conns : Busy(d)' => Busy(d)
        BY <2>3, <4>1
      <4> QED BY <3>1, <4>2, NobodyBusier
    <3>2. ASSUME NEW s \in Sessions, TakeReady(c, s), sess' = [sess EXCEPT ![c] = s] PROVE OneBusy'
      BY <3>2, <2>2, <2>3 DEF OneBusy
    <3> QED BY <1>1, <3>1, <3>2 DEF Dial
  <2>5. ASSUME NEW d \in Conns PROVE Tells(d)'
    BY <1>1 DEF Dial, TakeReady, TakeNone, FrontReady, Live, SetEntries, Tells, Busy, Holds, Reads, Agree
  <2>6. PooledExist'
    BY <1>1 DEF Dial, TakeReady, TakeNone, Live, SetEntries
  <2> QED BY <2>1, <2>4, <2>5, <2>6
<1>2. CASE Taken(c)
  <2>1. ASSUME NEW d \in Conns PROVE Alone(d)'
    BY <1>2 DEF Taken, Alone, Agree, Reads, Orderly
  <2>2. ASSUME NEW d \in Conns PROVE Busy(d)' => Busy(d)
    BY <1>2 DEF Taken, Alone, Agree, Busy, Holds, Reads
  <2>3. OneBusy'
    BY <1>2, <2>2, NobodyBusier DEF Taken
  <2>4. ASSUME NEW d \in Conns PROVE Tells(d)'
    BY <1>2, <2>2 DEF Taken, Alone, Agree, Busy, Holds, Reads, Tells, OneBusy
  <2>5. PooledExist'
    BY <1>2 DEF Taken, Tells, Agree
  <2> QED BY <2>1, <2>3, <2>4, <2>5
<1>3. CASE Dialed(c)
  <2>1. ASSUME NEW d \in Conns PROVE Alone(d)'
    BY <1>3 DEF Dialed, Alone, Agree, Reads, Orderly
  <2>2. OneBusy'
    BY <1>3 DEF Dialed, OneBusy, Busy, Holds, Reads
  <2>3. ASSUME NEW d \in Conns PROVE Tells(d)'
    BY <1>3 DEF Dialed, Tells, Busy, Holds, Reads, Agree
  <2>4. PooledExist'
    BY <1>3 DEF Dialed
  <2> QED BY <2>1, <2>2, <2>3, <2>4
<1>4. CASE Open(c)
  <2>1. ASSUME NEW d \in Conns PROVE Alone(d)'
    BY <1>4 DEF Open, Alone, Agree, Reads, Orderly
  <2>2. ASSUME NEW d \in Conns PROVE Busy(d)' => Busy(d)
    BY <1>4 DEF Open, Alone, Agree, Busy, Holds, Reads
  <2>3. OneBusy'
    BY <1>4, <2>2, NobodyBusier DEF Open
  <2>4. ASSUME NEW d \in Conns PROVE Tells(d)'
    BY <1>4, <2>2 DEF Open, Alone, Agree, Busy, Holds, Reads, Tells, OneBusy
  <2>5. PooledExist'
    BY <1>4 DEF Open, Tells, Agree
  <2> QED BY <2>1, <2>3, <2>4, <2>5
<1>5. CASE WriteRequest(c)
  <2>1. ASSUME NEW d \in Conns PROVE Alone(d)'
    BY <1>5 DEF WriteRequest, Alone, Agree, Reads, Orderly
  <2>2. ASSUME NEW d \in Conns PROVE Busy(d)' => Busy(d)
    BY <1>5 DEF WriteRequest, Alone, Agree, Busy, Holds, Reads
  <2>3. OneBusy'
    BY <1>5, <2>2, NobodyBusier DEF WriteRequest
  <2>4. ASSUME NEW d \in Conns PROVE Tells(d)'
    BY <1>5, <2>2 DEF WriteRequest, Alone, Agree, Busy, Holds, Reads, Tells, OneBusy
  <2>5. PooledExist'
    BY <1>5 DEF WriteRequest, Tells, Agree
  <2> QED BY <2>1, <2>3, <2>4, <2>5
<1>6. CASE WriteData(c)
  <2>1. ASSUME NEW d \in Conns PROVE Alone(d)'
    BY <1>6 DEF WriteData, Alone, Agree, Reads, Orderly
  <2>2. ASSUME NEW d \in Conns PROVE Busy(d)' => Busy(d)
    BY <1>6 DEF WriteData, Alone, Agree, Busy, Holds, Reads
  <2>3. OneBusy'
    BY <1>6, <2>2, NobodyBusier DEF WriteData
  <2>4. ASSUME NEW d \in Conns PROVE Tells(d)'
    BY <1>6, <2>2 DEF WriteData, Alone, Agree, Busy, Holds, Reads, Tells, OneBusy
  <2>5. PooledExist'
    BY <1>6 DEF WriteData, Tells, Agree
  <2> QED BY <2>1, <2>3, <2>4, <2>5
<1>7. CASE CloseWrite(c)
  <2>1. ASSUME NEW d \in Conns PROVE Alone(d)'
    BY <1>7 DEF CloseWrite, EndWrite, Alone, Agree, Reads, Orderly
  <2>2. ASSUME NEW d \in Conns PROVE Busy(d)' => Busy(d)
    BY <1>7 DEF CloseWrite, EndWrite, Alone, Agree, Busy, Holds, Reads
  <2>3. OneBusy'
    BY <1>7, <2>2, NobodyBusier DEF CloseWrite
  <2>4. ASSUME NEW d \in Conns PROVE Tells(d)'
    BY <1>7, <2>2 DEF CloseWrite, EndWrite, Alone, Agree, Busy, Holds, Reads, Tells, OneBusy
  <2>5. PooledExist'
    BY <1>7 DEF CloseWrite, EndWrite, Tells, Agree
  <2> QED BY <2>1, <2>3, <2>4, <2>5
<1>8. CASE Close(c)
  <2>1. ASSUME NEW d \in Conns PROVE Alone(d)'
    BY <1>8 DEF Close, Alone, Agree, Reads, Orderly
  <2>2. ASSUME NEW d \in Conns PROVE Busy(d)' => Busy(d)
    BY <1>8 DEF Close, Alone, Agree, Busy, Holds, Reads
  <2>3. OneBusy'
    BY <1>8, <2>2, NobodyBusier DEF Close
  <2>4. ASSUME NEW d \in Conns PROVE Tells(d)'
    BY <1>8, <2>2 DEF Close, Alone, Agree, Busy, Holds, Reads, Tells, OneBusy
  <2>5. PooledExist'
    BY <1>8 DEF Close, Tells, Agree
  <2> QED BY <2>1, <2>3, <2>4, <2>5
<1> QED BY <1>1, <1>2, <1>3, <1>4, <1>5, <1>6, <1>7, <1>8 DEF App

\* The steps of Close.
LEMMA ClosingCustody ==
  ASSUME Orderly, TypeOK, ThreadsAgree, Exclusive, TypeOK', ThreadsAgree', NEW c \in Conns, Closing(c)
  PROVE  Exclusive'
<1> USE DEF TypeOK, PoolTypeOK, ConnTypeOK, ThreadsAgree, Exclusive, ReadsEnd, StateTells, PooledExist
<1> USE DEF Goto, ReadGoto, Leave, SwapClosed, Settle, SpendKeep
<1> USE DEF poolOnly, readVars, drainVars, writeVars, idleVars, appVars, connVars,
            tunnelVars, poolVars
<1>1. CASE CheckReply(c)
  <2>1. ASSUME NEW d \in Conns PROVE Alone(d)'
    BY <1>1 DEF CheckReply, Alone, Agree, Reads, Orderly
  <2>2. ASSUME NEW d \in Conns PROVE Busy(d)' => Busy(d)
    BY <1>1 DEF CheckReply, Alone, Agree, Busy, Holds, Reads
  <2>3. OneBusy'
    BY <1>1, <2>2, NobodyBusier DEF CheckReply
  <2>4. ASSUME NEW d \in Conns PROVE Tells(d)'
    BY <1>1, <2>2 DEF CheckReply, Alone, Agree, Busy, Holds, Reads, Tells, OneBusy
  <2>5. PooledExist'
    BY <1>1 DEF CheckReply, Tells, Agree
  <2> QED BY <2>1, <2>3, <2>4, <2>5
<1>2. CASE CloseEndWrite(c)
  <2>1. ASSUME NEW d \in Conns PROVE Alone(d)'
    BY <1>2 DEF CloseEndWrite, EndWrite, Alone, Agree, Reads, Orderly
  <2>2. ASSUME NEW d \in Conns PROVE Busy(d)' => Busy(d)
    BY <1>2 DEF CloseEndWrite, EndWrite, Alone, Agree, Busy, Holds, Reads
  <2>3. OneBusy'
    BY <1>2, <2>2, NobodyBusier DEF CloseEndWrite
  <2>4. ASSUME NEW d \in Conns PROVE Tells(d)'
    BY <1>2, <2>2 DEF CloseEndWrite, EndWrite, Alone, Agree, Busy, Holds, Reads, Tells, OneBusy
  <2>5. PooledExist'
    BY <1>2 DEF CloseEndWrite, EndWrite, Tells, Agree
  <2> QED BY <2>1, <2>3, <2>4, <2>5
<1>3. CASE CheckRead(c)
  <2>1. ASSUME NEW d \in Conns PROVE Alone(d)'
    BY <1>3 DEF CheckRead, Alone, Agree, Reads, Orderly
  <2>2. ASSUME NEW d \in Conns PROVE Busy(d)' => Busy(d)
    BY <1>3 DEF CheckRead, Alone, Agree, Busy, Holds, Reads
  <2>3. OneBusy'
    BY <1>3, <2>2, NobodyBusier DEF CheckRead
  <2>4. ASSUME NEW d \in Conns PROVE Tells(d)'
    BY <1>3, <2>2 DEF CheckRead, Alone, Agree, Busy, Holds, Reads, Tells, OneBusy
  <2>5. PooledExist'
    BY <1>3 DEF CheckRead, Tells, Agree
  <2> QED BY <2>1, <2>3, <2>4, <2>5
<1>4. CASE Release(c)
  <2>1. ASSUME NEW d \in Conns PROVE Alone(d)'
    BY <1>4 DEF Release, Alone, Agree, Reads, Orderly
  <2>2. ASSUME NEW d \in Conns PROVE Busy(d)' => Busy(d)
    BY <1>4 DEF Release, Alone, Agree, Busy, Holds, Reads
  <2>3. OneBusy'
    BY <1>4, <2>2, NobodyBusier DEF Release
  <2>4. ASSUME NEW d \in Conns PROVE Tells(d)'
    BY <1>4, <2>2 DEF Release, Alone, Agree, Busy, Holds, Reads, Tells, OneBusy
  <2>5. PooledExist'
    BY <1>4 DEF Release, Tells, Agree
  <2> QED BY <2>1, <2>3, <2>4, <2>5
<1>5. CASE AskIdle(c)
  <2>1. ASSUME NEW d \in Conns PROVE Alone(d)'
    BY <1>5 DEF AskIdle, Alone, Agree, Reads, Orderly
  <2>2. ASSUME NEW d \in Conns PROVE Busy(d)' => Busy(d)
    BY <1>5 DEF AskIdle, Alone, Agree, Busy, Holds, Reads
  <2>3. OneBusy'
    BY <1>5, <2>2, NobodyBusier DEF AskIdle
  <2>4. ASSUME NEW d \in Conns PROVE Tells(d)'
    BY <1>5, <2>2 DEF AskIdle, Alone, Agree, Busy, Holds, Reads, Tells, OneBusy
  <2>5. PooledExist'
    BY <1>5 DEF AskIdle, Tells, Agree
  <2> QED BY <2>1, <2>3, <2>4, <2>5
<1>6. CASE AskReader(c)
  <2>1. ASSUME NEW d \in Conns PROVE Alone(d)'
    BY <1>6 DEF AskReader, Alone, Agree, Reads, Orderly
  <2>2. ASSUME NEW d \in Conns PROVE Busy(d)' => Busy(d)
    BY <1>6 DEF AskReader, Alone, Agree, Busy, Holds, Reads
  <2>3. OneBusy'
    BY <1>6, <2>2, NobodyBusier DEF AskReader
  <2>4. ASSUME NEW d \in Conns PROVE Tells(d)'
    BY <1>6, <2>2 DEF AskReader, Alone, Agree, Busy, Holds, Reads, Tells, OneBusy
  <2>5. PooledExist'
    BY <1>6 DEF AskReader, Tells, Agree
  <2> QED BY <2>1, <2>3, <2>4, <2>5
<1>7. CASE Wait(c)
  <2>1. ASSUME NEW d \in Conns PROVE Alone(d)'
    BY <1>7 DEF Wait, Alone, Agree, Reads, Orderly
  <2>2. ASSUME NEW d \in Conns PROVE Busy(d)' => Busy(d)
    BY <1>7 DEF Wait, Alone, Agree, Busy, Holds, Reads
  <2>3. OneBusy'
    BY <1>7, <2>2, NobodyBusier DEF Wait
  <2>4. ASSUME NEW d \in Conns PROVE Tells(d)'
    BY <1>7, <2>2 DEF Wait, Alone, Agree, Busy, Holds, Reads, Tells, OneBusy
  <2>5. PooledExist'
    BY <1>7 DEF Wait, Tells, Agree
  <2> QED BY <2>1, <2>3, <2>4, <2>5
<1>8. CASE Recheck(c)
  <2>1. ASSUME NEW d \in Conns PROVE Alone(d)'
    BY <1>8 DEF Recheck, Alone, Agree, Reads, Orderly
  <2>2. ASSUME NEW d \in Conns PROVE Busy(d)' => Busy(d)
    BY <1>8 DEF Recheck, Alone, Agree, Busy, Holds, Reads
  <2>3. OneBusy'
    BY <1>8, <2>2, NobodyBusier DEF Recheck
  <2>4. ASSUME NEW d \in Conns PROVE Tells(d)'
    BY <1>8, <2>2 DEF Recheck, Alone, Agree, Busy, Holds, Reads, Tells, OneBusy
  <2>5. PooledExist'
    BY <1>8 DEF Recheck, Tells, Agree
  <2> QED BY <2>1, <2>3, <2>4, <2>5
<1>9. CASE StartDrain(c)
  <2>1. ASSUME NEW d \in Conns PROVE Alone(d)'
    BY <1>9 DEF StartDrain, Alone, Agree, Reads, Orderly
  <2>2. ASSUME NEW d \in Conns PROVE Busy(d)' => Busy(d)
    BY <1>9 DEF StartDrain, Alone, Agree, Busy, Holds, Reads
  <2>3. OneBusy'
    BY <1>9, <2>2, NobodyBusier DEF StartDrain
  <2>4. ASSUME NEW d \in Conns PROVE Tells(d)'
    BY <1>9, <2>2 DEF StartDrain, Alone, Agree, Busy, Holds, Reads, Tells, OneBusy
  <2>5. PooledExist'
    BY <1>9 DEF StartDrain, Tells, Agree
  <2> QED BY <2>1, <2>3, <2>4, <2>5
<1>10. CASE Pool(c)
  <2>1. ASSUME NEW d \in Conns PROVE Alone(d)'
    BY <1>10 DEF Pool, MoveToPool, SetEntries, Hold, Live, Expired, Fits, Alone, Agree, Reads, Orderly
  <2>2. ASSUME NEW d \in Conns PROVE Busy(d)' => Busy(d)
    BY <1>10 DEF Pool, MoveToPool, SetEntries, Hold, Live, Expired, Fits, Alone, Agree, Busy, Holds, Reads
  <2>3. OneBusy'
    BY <1>10, <2>2, NobodyBusier DEF Pool
  <2>4. ASSUME NEW d \in Conns PROVE Tells(d)'
    BY <1>10, <2>2 DEF Pool, MoveToPool, SetEntries, Hold, Live, Expired, Fits, Alone, Agree, Busy, Holds, Reads, Tells, OneBusy
  <2>5. PooledExist'
    BY <1>10 DEF Pool, MoveToPool, SetEntries, Hold, Live, Expired, Fits, Tells, Agree
  <2> QED BY <2>1, <2>3, <2>4, <2>5
<1>11. CASE PoolDrain(c)
  <2>1. ASSUME NEW d \in Conns PROVE Alone(d)'
    BY <1>11 DEF PoolDrain, MoveToPool, SetEntries, Hold, Live, Expired, Fits, Alone, Agree, Reads, Orderly
  <2>2. ASSUME NEW d \in Conns PROVE Busy(d)' => Busy(d)
    BY <1>11 DEF PoolDrain, MoveToPool, SetEntries, Hold, Live, Expired, Fits, Alone, Agree, Busy, Holds, Reads
  <2>3. OneBusy'
    BY <1>11, <2>2, NobodyBusier DEF PoolDrain
  <2>4. ASSUME NEW d \in Conns PROVE Tells(d)'
    BY <1>11, <2>2 DEF PoolDrain, MoveToPool, SetEntries, Hold, Live, Expired, Fits, Alone, Agree, Busy, Holds, Reads, Tells, OneBusy
  <2>5. PooledExist'
    BY <1>11 DEF PoolDrain, MoveToPool, SetEntries, Hold, Live, Expired, Fits, Tells, Agree
  <2> QED BY <2>1, <2>3, <2>4, <2>5
<1>12. CASE Closed(c)
  <2>1. ASSUME NEW d \in Conns PROVE Alone(d)'
    BY <1>12 DEF Closed, Alone, Agree, Reads, Orderly
  <2>2. ASSUME NEW d \in Conns PROVE Busy(d)' => Busy(d)
    BY <1>12 DEF Closed, Alone, Agree, Busy, Holds, Reads
  <2>3. OneBusy'
    BY <1>12, <2>2, NobodyBusier DEF Closed
  <2>4. ASSUME NEW d \in Conns PROVE Tells(d)'
    BY <1>12, <2>2 DEF Closed, Alone, Agree, Busy, Holds, Reads, Tells, OneBusy
  <2>5. PooledExist'
    BY <1>12 DEF Closed, Tells, Agree
  <2> QED BY <2>1, <2>3, <2>4, <2>5
<1> QED BY <1>1, <1>2, <1>3, <1>4, <1>5, <1>6, <1>7, <1>8, <1>9, <1>10, <1>11, <1>12 DEF Closing

\* The steps of a Read.
LEMMA ReadingCustody ==
  ASSUME Orderly, TypeOK, ThreadsAgree, Exclusive, TypeOK', ThreadsAgree', NEW c \in Conns, Read(c) \/ Reading(c)
  PROVE  Exclusive'
<1> USE DEF TypeOK, PoolTypeOK, ConnTypeOK, ThreadsAgree, Exclusive, ReadsEnd, StateTells, PooledExist
<1> USE DEF Goto, ReadGoto, Leave, SwapClosed, Settle, SpendKeep
<1> USE DEF poolOnly, readVars, drainVars, writeVars, idleVars, appVars, connVars,
            tunnelVars, poolVars
<1>1. CASE Read(c)
  <2>1. ASSUME NEW d \in Conns PROVE Alone(d)'
    BY <1>1 DEF Read, Alone, Agree, Reads, Orderly
  <2>2. ASSUME NEW d \in Conns PROVE Busy(d)' => Busy(d)
    BY <1>1 DEF Read, Alone, Agree, Busy, Holds, Reads
  <2>3. OneBusy'
    BY <1>1, <2>2, NobodyBusier DEF Read
  <2>4. ASSUME NEW d \in Conns PROVE Tells(d)'
    BY <1>1, <2>2 DEF Read, Alone, Agree, Busy, Holds, Reads, Tells, OneBusy
  <2>5. PooledExist'
    BY <1>1 DEF Read, Tells, Agree
  <2> QED BY <2>1, <2>3, <2>4, <2>5
<1>2. CASE CountRead(c)
  <2>1. ASSUME NEW d \in Conns PROVE Alone(d)'
    BY <1>2 DEF CountRead, Alone, Agree, Reads, Orderly
  <2>2. ASSUME NEW d \in Conns PROVE Busy(d)' => Busy(d)
    BY <1>2 DEF CountRead, Alone, Agree, Busy, Holds, Reads
  <2>3. OneBusy'
    BY <1>2, <2>2, NobodyBusier DEF CountRead
  <2>4. ASSUME NEW d \in Conns PROVE Tells(d)'
    BY <1>2, <2>2 DEF CountRead, Alone, Agree, Busy, Holds, Reads, Tells, OneBusy
  <2>5. PooledExist'
    BY <1>2 DEF CountRead, Tells, Agree
  <2> QED BY <2>1, <2>3, <2>4, <2>5
<1>3. CASE RecheckClosed(c)
  <2>1. ASSUME NEW d \in Conns PROVE Alone(d)'
    BY <1>3 DEF RecheckClosed, Alone, Agree, Reads, Orderly
  <2>2. ASSUME NEW d \in Conns PROVE Busy(d)' => Busy(d)
    BY <1>3 DEF RecheckClosed, Alone, Agree, Busy, Holds, Reads
  <2>3. OneBusy'
    BY <1>3, <2>2, NobodyBusier DEF RecheckClosed
  <2>4. ASSUME NEW d \in Conns PROVE Tells(d)'
    BY <1>3, <2>2 DEF RecheckClosed, Alone, Agree, Busy, Holds, Reads, Tells, OneBusy
  <2>5. PooledExist'
    BY <1>3 DEF RecheckClosed, Tells, Agree
  <2> QED BY <2>1, <2>3, <2>4, <2>5
<1>4. CASE ReadReply(c)
  <2>1. ASSUME NEW d \in Conns PROVE Alone(d)'
    BY <1>4 DEF ReadReply, Alone, Agree, Reads, Orderly
  <2>2. ASSUME NEW d \in Conns PROVE Busy(d)' => Busy(d)
    BY <1>4 DEF ReadReply, Alone, Agree, Busy, Holds, Reads
  <2>3. OneBusy'
    BY <1>4, <2>2, NobodyBusier DEF ReadReply
  <2>4. ASSUME NEW d \in Conns PROVE Tells(d)'
    BY <1>4, <2>2 DEF ReadReply, Alone, Agree, Busy, Holds, Reads, Tells, OneBusy
  <2>5. PooledExist'
    BY <1>4 DEF ReadReply, Tells, Agree
  <2> QED BY <2>1, <2>3, <2>4, <2>5
<1>5. CASE ReadRecord(c)
  <2>1. ASSUME NEW d \in Conns PROVE Alone(d)'
    BY <1>5 DEF ReadRecord, Alone, Agree, Reads, Orderly
  <2>2. ASSUME NEW d \in Conns PROVE Busy(d)' => Busy(d)
    BY <1>5 DEF ReadRecord, Alone, Agree, Busy, Holds, Reads
  <2>3. OneBusy'
    BY <1>5, <2>2, NobodyBusier DEF ReadRecord
  <2>4. ASSUME NEW d \in Conns PROVE Tells(d)'
    BY <1>5, <2>2 DEF ReadRecord, Alone, Agree, Busy, Holds, Reads, Tells, OneBusy
  <2>5. PooledExist'
    BY <1>5 DEF ReadRecord, Tells, Agree
  <2> QED BY <2>1, <2>3, <2>4, <2>5
<1>6. CASE ResultOpen(c)
  <2>1. ASSUME NEW d \in Conns PROVE Alone(d)'
    BY <1>6 DEF ResultOpen, Alone, Agree, Reads, Orderly
  <2>2. ASSUME NEW d \in Conns PROVE Busy(d)' => Busy(d)
    BY <1>6 DEF ResultOpen, Alone, Agree, Busy, Holds, Reads
  <2>3. OneBusy'
    BY <1>6, <2>2, NobodyBusier DEF ResultOpen
  <2>4. ASSUME NEW d \in Conns PROVE Tells(d)'
    BY <1>6, <2>2 DEF ResultOpen, Alone, Agree, Busy, Holds, Reads, Tells, OneBusy
  <2>5. PooledExist'
    BY <1>6 DEF ResultOpen, Tells, Agree
  <2> QED BY <2>1, <2>3, <2>4, <2>5
<1>7. CASE MarkEOF(c)
  <2>1. ASSUME NEW d \in Conns PROVE Alone(d)'
    BY <1>7 DEF MarkEOF, Alone, Agree, Reads, Orderly
  <2>2. ASSUME NEW d \in Conns PROVE Busy(d)' => Busy(d)
    BY <1>7 DEF MarkEOF, Alone, Agree, Busy, Holds, Reads
  <2>3. OneBusy'
    BY <1>7, <2>2, NobodyBusier DEF MarkEOF
  <2>4. ASSUME NEW d \in Conns PROVE Tells(d)'
    BY <1>7, <2>2 DEF MarkEOF, Alone, Agree, Busy, Holds, Reads, Tells, OneBusy
  <2>5. PooledExist'
    BY <1>7 DEF MarkEOF, Tells, Agree
  <2> QED BY <2>1, <2>3, <2>4, <2>5
<1>8. CASE ResultEOF(c)
  <2>1. ASSUME NEW d \in Conns PROVE Alone(d)'
    BY <1>8 DEF ResultEOF, Alone, Agree, Reads, Orderly
  <2>2. ASSUME NEW d \in Conns PROVE Busy(d)' => Busy(d)
    BY <1>8 DEF ResultEOF, Alone, Agree, Busy, Holds, Reads
  <2>3. OneBusy'
    BY <1>8, <2>2, NobodyBusier DEF ResultEOF
  <2>4. ASSUME NEW d \in Conns PROVE Tells(d)'
    BY <1>8, <2>2 DEF ResultEOF, Alone, Agree, Busy, Holds, Reads, Tells, OneBusy
  <2>5. PooledExist'
    BY <1>8 DEF ResultEOF, Tells, Agree
  <2> QED BY <2>1, <2>3, <2>4, <2>5
<1>9. CASE SettleRead(c)
  <2>1. ASSUME NEW d \in Conns PROVE Alone(d)'
    BY <1>9 DEF SettleRead, Alone, Agree, Reads, Orderly
  <2>2. ASSUME NEW d \in Conns PROVE Busy(d)' => Busy(d)
    BY <1>9 DEF SettleRead, Alone, Agree, Busy, Holds, Reads
  <2>3. OneBusy'
    BY <1>9, <2>2, NobodyBusier DEF SettleRead
  <2>4. ASSUME NEW d \in Conns PROVE Tells(d)'
    BY <1>9, <2>2 DEF SettleRead, Alone, Agree, Busy, Holds, Reads, Tells, OneBusy
  <2>5. PooledExist'
    BY <1>9 DEF SettleRead, Tells, Agree
  <2> QED BY <2>1, <2>3, <2>4, <2>5
<1>10. CASE ResultClosed(c)
  <2>1. ASSUME NEW d \in Conns PROVE Alone(d)'
    BY <1>10 DEF ResultClosed, Alone, Agree, Reads, Orderly
  <2>2. ASSUME NEW d \in Conns PROVE Busy(d)' => Busy(d)
    BY <1>10 DEF ResultClosed, Alone, Agree, Busy, Holds, Reads
  <2>3. OneBusy'
    BY <1>10, <2>2, NobodyBusier DEF ResultClosed
  <2>4. ASSUME NEW d \in Conns PROVE Tells(d)'
    BY <1>10, <2>2 DEF ResultClosed, Alone, Agree, Busy, Holds, Reads, Tells, OneBusy
  <2>5. PooledExist'
    BY <1>10 DEF ResultClosed, Tells, Agree
  <2> QED BY <2>1, <2>3, <2>4, <2>5
<1>11. CASE LeaveRead(c)
  <2>1. ASSUME NEW d \in Conns PROVE Alone(d)'
    BY <1>11 DEF LeaveRead, Alone, Agree, Reads, Orderly
  <2>2. ASSUME NEW d \in Conns PROVE Busy(d)' => Busy(d)
    BY <1>11 DEF LeaveRead, Alone, Agree, Busy, Holds, Reads
  <2>3. OneBusy'
    BY <1>11, <2>2, NobodyBusier DEF LeaveRead
  <2>4. ASSUME NEW d \in Conns PROVE Tells(d)'
    BY <1>11, <2>2 DEF LeaveRead, Alone, Agree, Busy, Holds, Reads, Tells, OneBusy
  <2>5. PooledExist'
    BY <1>11 DEF LeaveRead, Tells, Agree
  <2> QED BY <2>1, <2>3, <2>4, <2>5
<1> QED BY <1>1, <1>2, <1>3, <1>4, <1>5, <1>6, <1>7, <1>8, <1>9, <1>10, <1>11 DEF Reading

\* The steps of a drain.
LEMMA DrainingCustody ==
  ASSUME Orderly, TypeOK, ThreadsAgree, Exclusive, TypeOK', ThreadsAgree', NEW c \in Conns, Draining(c)
  PROVE  Exclusive'
<1> USE DEF TypeOK, PoolTypeOK, ConnTypeOK, ThreadsAgree, Exclusive, ReadsEnd, StateTells, PooledExist
<1> USE DEF Goto, ReadGoto, Leave, SwapClosed, Settle, SpendKeep
<1> USE DEF poolOnly, readVars, drainVars, writeVars, idleVars, appVars, connVars,
            tunnelVars, poolVars
<1>1. CASE DrainRecord(c)
  <2>1. ASSUME NEW d \in Conns PROVE Alone(d)'
    BY <1>1 DEF DrainRecord, Alone, Agree, Reads, Orderly
  <2>2. ASSUME NEW d \in Conns PROVE Busy(d)' => Busy(d)
    BY <1>1 DEF DrainRecord, Alone, Agree, Busy, Holds, Reads
  <2>3. OneBusy'
    BY <1>1, <2>2, NobodyBusier DEF DrainRecord
  <2>4. ASSUME NEW d \in Conns PROVE Tells(d)'
    BY <1>1, <2>2 DEF DrainRecord, Alone, Agree, Busy, Holds, Reads, Tells, OneBusy
  <2>5. PooledExist'
    BY <1>1 DEF DrainRecord, Tells, Agree
  <2> QED BY <2>1, <2>3, <2>4, <2>5
<1>2. CASE DrainDone(c)
  <2>1. ASSUME NEW d \in Conns PROVE Alone(d)'
    BY <1>2 DEF DrainDone, Alone, Agree, Reads, Orderly
  <2>2. ASSUME NEW d \in Conns PROVE Busy(d)' => Busy(d)
    BY <1>2 DEF DrainDone, Alone, Agree, Busy, Holds, Reads
  <2>3. OneBusy'
    BY <1>2, <2>2, NobodyBusier DEF DrainDone
  <2>4. ASSUME NEW d \in Conns PROVE Tells(d)'
    BY <1>2, <2>2 DEF DrainDone, Alone, Agree, Busy, Holds, Reads, Tells, OneBusy
  <2>5. PooledExist'
    BY <1>2 DEF DrainDone, Tells, Agree
  <2> QED BY <2>1, <2>3, <2>4, <2>5
<1> QED BY <1>1, <1>2 DEF Draining

\* The pool's own threads close sessions and take them off the list, no more.
LEMMA PoolCustody ==
  ASSUME TypeOK, ThreadsAgree, Exclusive, UNCHANGED connVars,
         \A s \in Sessions : state'[s] = state[s] \/ state'[s] = "Closed",
         entries' \subseteq entries
  PROVE  Exclusive'
<1> USE DEF Exclusive, connVars, TypeOK, PoolTypeOK, ConnTypeOK
<1>1. ReadsEnd'
  BY DEF ReadsEnd, Alone, Reads
<1>2. OneBusy'
  BY DEF OneBusy, Busy, Holds, Reads
<1>3. ASSUME NEW d \in Conns PROVE Tells(d)'
  BY <1>3 DEF StateTells, Tells, Busy, Holds, Reads
<1>4. PooledExist'
  BY DEF PooledExist
<1> QED BY <1>1, <1>2, <1>3, <1>4 DEF StateTells

-----------------------------------------------------------------------------
LEMMA InitCustody == Init => Exclusive
BY DEF Init, PoolInit, Exclusive, ReadsEnd, Alone, Reads, OneBusy, StateTells, Tells, PooledExist

LEMMA StepCustody ==
  ASSUME Orderly, TypeOK, ThreadsAgree, Exclusive, [Next]_vars
  PROVE  Exclusive'
<1>1. TypeOK' /\ ThreadsAgree'
  BY StepTypes
<1>2. ASSUME NEW c \in Conns, App(c) \/ Closing(c) \/ Read(c) \/ Reading(c) \/ Draining(c)
      PROVE  Exclusive'
  BY <1>1, <1>2, AppCustody, ClosingCustody, ReadingCustody, DrainingCustody
<1>3. ASSUME NEW t \in Threads, ClosePending(t), UNCHANGED <<tunnelVars, connVars>>
      PROVE  Exclusive'
  BY <1>3, PoolCustody DEF ClosePending, SwapClosed, TypeOK, PoolTypeOK
<1>4. ASSUME PoolWork \/ PoolCall, UNCHANGED <<tunnelVars, connVars>>
      PROVE  Exclusive'
  <2>1. UNCHANGED state /\ entries' \subseteq entries
    BY <1>4 DEF PoolWork, PoolCall, ExpireTick, ExpireStop, CloseWait, CloseReturn, ResetPool,
                ClosePool, ClockTick, SetEntries, Live
  <2> QED BY <1>4, <2>1, PoolCustody
<1>5. ASSUME NEW keep \in BOOLEAN, SetKeepIdleConnections(keep)
      PROVE  Exclusive'
  BY <1>5 DEF SetKeepIdleConnections, Exclusive, ReadsEnd, Alone, Reads, OneBusy, Busy, Holds,
              StateTells, Tells, PooledExist, readVars, drainVars, appVars, poolVars
<1>6. ASSUME CloseIdleConnections
      PROVE  Exclusive'
  <2>1. UNCHANGED <<state, app, rd, dr, sess, closed, readClosed>> /\ entries' \subseteq entries
    BY <1>6 DEF CloseIdleConnections, ResetPool, SetEntries, poolVars, readVars, drainVars, appVars
  <2> QED BY <2>1 DEF Exclusive, ReadsEnd, Alone, Reads, OneBusy, Busy, Holds, StateTells, Tells, PooledExist
<1>7. ASSUME Peer, UNCHANGED connVars
      PROVE  Exclusive'
  BY <1>7, PoolCustody DEF Peer, poolVars
<1>8. CASE UNCHANGED vars
  BY <1>8, PoolCustody DEF vars, poolVars
<1> QED BY <1>2, <1>3, <1>4, <1>5, <1>7, <1>8, <1>6 DEF Next

\* Custody of a tunnel passes from connection to connection without overlap.
THEOREM CustodyKept ==
  ASSUME Orderly
  PROVE  Spec => []Custody
<1>1. Spec => [](TypeOK /\ ThreadsAgree /\ Exclusive)
  <2>1. Init => TypeOK /\ ThreadsAgree /\ Exclusive
    BY InitTypes, InitCustody
  <2>2. TypeOK /\ ThreadsAgree /\ Exclusive /\ [Next]_vars => TypeOK' /\ ThreadsAgree' /\ Exclusive'
    BY StepTypes, StepCustody
  <2> QED BY <2>1, <2>2, PTL DEF Spec
<1>2. TypeOK /\ ThreadsAgree /\ Exclusive => Custody
  BY DEF Custody, Exclusive
<1> QED BY <1>1, <1>2, PTL

\* Two readers of one tunnel belong to one connection, and its drain only runs
\* when its Read has stopped.
LEMMA CustodyExcludes == TypeOK /\ Custody => SingleReader
<1> SUFFICES ASSUME TypeOK, Custody, NEW s \in Sessions, NEW x \in Readers(s), NEW y \in Readers(s)
             PROVE  x = y
  BY DEF SingleReader
<1>1. PICK c \in Conns : /\ sess[c] = s
                           /\ \/ x = <<"read", c>> /\ rd[c] \in {"reply", "record"}
                              \/ x = <<"drain", c>> /\ dr[c] = "record"
  BY DEF Readers
<1>2. PICK d \in Conns : /\ sess[d] = s
                           /\ \/ y = <<"read", d>> /\ rd[d] \in {"reply", "record"}
                              \/ y = <<"drain", d>> /\ dr[d] = "record"
  BY DEF Readers
<1>3. c = d
  BY <1>1, <1>2, ClientAssumption DEF Custody, OneBusy, Busy, Reads
<1>4. dr[c] = "record" => rd[c] \notin {"reply", "record"}
  BY DEF Custody, ReadsEnd, Alone, Reads
<1> QED BY <1>1, <1>2, <1>3, <1>4

\* The record reader of a tunnel never has two threads in it.
THEOREM OneReader ==
  ASSUME Orderly
  PROVE  Spec => []SingleReader
BY TypeCorrect, CustodyKept, CustodyExcludes, PTL

-----------------------------------------------------------------------------
(***************************************************************************)
(* The response streams.  A connection that is busy with a session has the *)
(* tunnel to itself in both directions: every record it may receive is an  *)
(* answer to its own request, because at most one request is on its way,   *)
(* the far end serves nobody while it is, and a connection that has yet to *)
(* ask, or that has read its zero chunk, leaves the tunnel empty.          *)
(***************************************************************************)
NoRequest(q)     == \A i \in 1 .. Len(q) : q[i].kind # "request"
OneRequest(q)    == \A i, j \in 1 .. Len(q) : q[i].kind = "request" /\ q[j].kind = "request" => i = j
RequestsOf(q, c) == \A i \in 1 .. Len(q) : q[i].kind = "request" => q[i].conn = c
NoEOF(q)         == \A i \in 1 .. Len(q) : q[i].kind # "eof"
EOFLast(q)       == \A i \in 1 .. Len(q) : q[i].kind = "eof" => i = Len(q)
AllOf(q, c)      == \A i \in 1 .. Len(q) : q[i].conn = c

\* The far end answers nobody.
Rests(s) == phase[s] \in {"idle", "ended"}

\* Nothing is on its way to the client, nor will anything be before the next request.
Clean(s) == inbound[s] = <<>> /\ (Up(s) => NoRequest(outbound[s]) /\ Rests(s))

Flow(s) ==
  /\ EOFLast(inbound[s])
  /\ Up(s) => /\ OneRequest(outbound[s])
              /\ NoRequest(outbound[s]) \/ (Rests(s) /\ inbound[s] = <<>>)
              /\ Rests(s) \/ NoEOF(inbound[s])
  /\ state[s] = "None" => Clean(s)
  /\ state[s] = "Ready" => Clean(s)

\* The Read of c has met the zero chunk.
ReadEOF(c) == readClosed[c] \/ rd[c] = "markEOF" \/ (rd[c] = "result" /\ got[c] = "eof")

Uses(c) == Holds(c) \/ Reads(c)

\* Everything in the tunnel of s belongs to c.
OwnTunnel(s, c) == /\ AllOf(inbound[s], c)
                   /\ Up(s) => RequestsOf(outbound[s], c) /\ (Rests(s) \/ serving[s] = c)

Owns(c) ==
  sess[c] # Nowhere =>
    /\ Busy(c) => OwnTunnel(sess[c], c)
    /\ Uses(c) /\ (~requested[c] \/ ReadEOF(c)) => Clean(sess[c])

FlowInv == (\A s \in Sessions : Flow(s)) /\ (\A c \in Conns : Owns(c))

\* A reply is only read by a connection that asked for one.
Asked(c) == /\ rd[c] \in {"record", "result", "markEOF", "settle"} \/ readClosed[c] => replyRead[c]
            /\ replyRead[c] => requested[c]

\* A session that is drained, or is about to be, waits.
DrainsWaiting(c) ==
  dr[c] = "record" \/ app[c] \in {"poolDrain", "purgeDrain"} => state[sess[c]] \in {"Waiting", "Closed"}

\* A connection lets go of an open session with its request stream complete.
Finished(c) == sess[c] # Nowhere /\ ~Holds(c) => wroteEOF[c] = "ok" \/ state[sess[c]] = "Closed"

ResponseInv == FlowInv /\ \A c \in Conns : Asked(c) /\ DrainsWaiting(c) /\ Finished(c)


LEMMA EmptyShapes ==
  /\ NoRequest(<<>>) /\ OneRequest(<<>>) /\ NoEOF(<<>>) /\ EOFLast(<<>>)
  /\ \A c : RequestsOf(<<>>, c) /\ AllOf(<<>>, c)
BY DEF NoRequest, OneRequest, NoEOF, EOFLast, RequestsOf, AllOf

LEMMA TailShapes ==
  ASSUME NEW q \in Seq(Records), q # <<>>
  PROVE  /\ Tail(q) \in Seq(Records)
         /\ NoRequest(q) => NoRequest(Tail(q))
         /\ OneRequest(q) => OneRequest(Tail(q)) /\ (Head(q).kind = "request" => NoRequest(Tail(q)))
         /\ \A c : RequestsOf(q, c) => RequestsOf(Tail(q), c) /\ (Head(q).kind = "request" => Head(q).conn = c)
         /\ NoEOF(q) => NoEOF(Tail(q)) /\ Head(q).kind # "eof"
         /\ EOFLast(q) => EOFLast(Tail(q)) /\ (Head(q).kind = "eof" => Tail(q) = <<>>)
         /\ \A c : AllOf(q, c) => AllOf(Tail(q), c)
<1>1. /\ Tail(q) \in Seq(Records) /\ Len(q) \in Nat \ {0} /\ Len(Tail(q)) = Len(q) - 1
      /\ Head(q) = q[1] /\ \A i \in 1 .. Len(q) - 1 : Tail(q)[i] = q[i + 1]
  BY HeadTailProperties
<1>2. Len(q) = 1 => Tail(q) = <<>>
  <2>1. Tail(q) # <<>> => Len(Tail(q)) \in Nat \ {0}
    BY <1>1, EmptySeq
  <2> QED
    BY <1>1, <2>1
<1>3. NoRequest(q) => NoRequest(Tail(q))
  BY <1>1 DEF NoRequest
<1>4. OneRequest(q) => OneRequest(Tail(q))
  BY <1>1 DEF OneRequest
<1>5. OneRequest(q) /\ Head(q).kind = "request" => NoRequest(Tail(q))
  BY <1>1 DEF OneRequest, NoRequest
<1>6. \A c : RequestsOf(q, c) => RequestsOf(Tail(q), c) /\ (Head(q).kind = "request" => Head(q).conn = c)
  BY <1>1 DEF RequestsOf
<1>7. NoEOF(q) => NoEOF(Tail(q)) /\ Head(q).kind # "eof"
  BY <1>1 DEF NoEOF
<1>8. EOFLast(q) => EOFLast(Tail(q)) /\ (Head(q).kind = "eof" => Tail(q) = <<>>)
  <2>1. ASSUME EOFLast(q), NEW i \in 1 .. Len(Tail(q)), Tail(q)[i].kind = "eof" PROVE i = Len(Tail(q))
    <3>1. i \in Nat /\ i + 1 \in 1 .. Len(q) /\ q[i + 1].kind = "eof"
      BY <1>1, <2>1
    <3>2. i + 1 = Len(q)
      BY <2>1, <3>1, SMTT(30) DEF EOFLast
    <3>3. PICK n \in Nat : n = Len(q)
      BY <1>1, ZenonT(40)
    <3>4. i + 1 = n /\ Len(Tail(q)) = n - 1
      BY <1>1, <3>2, <3>3, ZenonT(40)
    <3>5. i = n - 1
      BY <3>1, <3>4
    <3> QED
      BY <3>4, <3>5
  <2>2. ASSUME EOFLast(q), Head(q).kind = "eof" PROVE Len(q) = 1
    <3>1. 1 \in 1 .. Len(q) /\ q[1].kind = "eof"
      BY <1>1, <2>2
    <3> QED
      BY <2>2, <3>1 DEF EOFLast
  <2> QED
    BY <1>2, <2>1, <2>2 DEF EOFLast
<1>9. \A c : AllOf(q, c) => AllOf(Tail(q), c)
  BY <1>1 DEF AllOf
<1> QED
  BY <1>1, <1>3, <1>4, <1>5, <1>6, <1>7, <1>8, <1>9

LEMMA AppendShapes ==
  ASSUME NEW q \in Seq(Records), NEW r \in Records
  PROVE  /\ q \o <<r>> \in Seq(Records)
         /\ NoRequest(q) => OneRequest(q \o <<r>>)
         /\ r.kind # "request" => /\ NoRequest(q) => NoRequest(q \o <<r>>)
                                  /\ OneRequest(q) => OneRequest(q \o <<r>>)
         /\ \A c : RequestsOf(q, c) /\ (r.kind = "request" => r.conn = c) => RequestsOf(q \o <<r>>, c)
         /\ NoEOF(q) => EOFLast(q \o <<r>>) /\ (r.kind # "eof" => NoEOF(q \o <<r>>))
         /\ \A c : AllOf(q, c) /\ r.conn = c => AllOf(q \o <<r>>, c)
<1>1. /\ Len(q) \in Nat /\ Len(q \o <<r>>) = Len(q) + 1 /\ q \o <<r>> \in Seq(Records)
      /\ (q \o <<r>>)[Len(q) + 1] = r /\ \A i \in 1 .. Len(q) : (q \o <<r>>)[i] = q[i]
  OBVIOUS
<1>2. NoRequest(q) => OneRequest(q \o <<r>>)
  BY <1>1 DEF NoRequest, OneRequest
<1>3. r.kind # "request" /\ NoRequest(q) => NoRequest(q \o <<r>>)
  BY <1>1 DEF NoRequest
<1>4. r.kind # "request" /\ OneRequest(q) => OneRequest(q \o <<r>>)
  BY <1>1 DEF OneRequest
<1>5. \A c : RequestsOf(q, c) /\ (r.kind = "request" => r.conn = c) => RequestsOf(q \o <<r>>, c)
  BY <1>1 DEF RequestsOf
<1>6. NoEOF(q) => EOFLast(q \o <<r>>) /\ (r.kind # "eof" => NoEOF(q \o <<r>>))
  BY <1>1 DEF NoEOF, EOFLast
<1>7. \A c : AllOf(q, c) /\ r.conn = c => AllOf(q \o <<r>>, c)
  BY <1>1 DEF AllOf
<1> QED
  BY <1>1, <1>2, <1>3, <1>4, <1>5, <1>6, <1>7

-----------------------------------------------------------------------------
\* A step that sends nothing, and takes at most one record of each tunnel.
LEMMA StillStep ==
  ASSUME TypeOK, FlowInv, UNCHANGED <<outbound, phase, serving>>,
         \A s \in Sessions : /\ inbound'[s] = inbound[s] \/ (inbound[s] # <<>> /\ inbound'[s] = Tail(inbound[s]))
                             /\ peerUp'[s] => peerUp[s]
                             /\ state[s] = "Closed" => state'[s] = "Closed"
                             /\ state'[s] = "None" => state[s] = "None"
                             /\ state'[s] = "Ready" => Clean(s) \/ Clean(s)',
         \A c \in Conns : sess'[c] # Nowhere =>
           \/ Clean(sess'[c])
           \/ /\ sess'[c] = sess[c]
              /\ requested'[c] = requested[c]
              /\ Busy(c)' => Busy(c)
              /\ Uses(c)' => Uses(c)
              /\ Uses(c)' /\ ReadEOF(c)' => ReadEOF(c) \/ Clean(sess[c])',
         \A c \in Conns : sess'[c] \in Sessions \cup {Nowhere}
  PROVE  FlowInv'
<1>1. ASSUME NEW s \in Sessions
      PROVE  /\ EOFLast(inbound[s]) => EOFLast(inbound'[s])
             /\ NoEOF(inbound[s]) => NoEOF(inbound'[s])
             /\ inbound[s] = <<>> => inbound'[s] = <<>>
             /\ \A c : AllOf(inbound[s], c) => AllOf(inbound'[s], c)
  <2>1. inbound[s] \in Seq(Records)
    BY DEF TypeOK, TunnelTypeOK
  <2>2. CASE inbound[s] # <<>> /\ inbound'[s] = Tail(inbound[s])
    BY <2>1, <2>2, TailShapes
  <2>3. CASE inbound'[s] = inbound[s]
    BY <2>3
  <2> QED
    BY <2>2, <2>3
<1>2. \A s \in Sessions : (Up(s)' => Up(s)) /\ (Rests(s)' <=> Rests(s))
  BY DEF Up, Rests
<1>3. \A s \in Sessions : Clean(s) => Clean(s)'
  BY <1>1, <1>2 DEF Clean
<1>4. ASSUME NEW s \in Sessions PROVE Flow(s)'
  BY <1>1, <1>2, <1>3 DEF Flow, FlowInv
<1>5. ASSUME NEW c \in Conns, sess'[c] # Nowhere PROVE Owns(c)'
  <2>1. CASE Clean(sess'[c])
    <3>1. Clean(sess[c])'
      BY <1>3, <1>5, <2>1
    <3>2. AllOf(inbound[sess[c]], c)' /\ (Up(sess[c])' => RequestsOf(outbound[sess[c]], c)' /\ Rests(sess[c])')
      BY <3>1 DEF Clean, AllOf, RequestsOf, NoRequest
    <3> QED
      BY <3>1, <3>2 DEF Owns, OwnTunnel
  <2>2. CASE /\ sess'[c] = sess[c]
             /\ requested'[c] = requested[c]
             /\ Busy(c)' => Busy(c)
             /\ Uses(c)' => Uses(c)
             /\ Uses(c)' /\ ReadEOF(c)' => ReadEOF(c) \/ Clean(sess[c])'
    <3>1. Owns(c) /\ sess[c] \in Sessions /\ sess[c] # Nowhere
      <4>1. sess[c] # Nowhere
        BY <1>5, <2>2
      <4> QED
        BY <4>1 DEF FlowInv, TypeOK, ConnTypeOK
    <3>2. OwnTunnel(sess[c], c) => OwnTunnel(sess[c], c)'
      BY <1>1, <1>2, <2>2, <3>1 DEF OwnTunnel
    <3>3. Clean(sess[c]) => Clean(sess[c])'
      BY <1>3, <2>2, <3>1
    <3> QED
      BY <2>2, <3>1, <3>2, <3>3 DEF Owns
  <2> QED
    BY <1>5, <2>1, <2>2
<1> QED
  BY <1>4, <1>5 DEF FlowInv, Owns

\* Whoever reads the zero chunk leaves the tunnel clean.
LEMMA ReceiveStep ==
  ASSUME TypeOK, FlowInv, NEW s \in Sessions, NEW kind, Receive(s, kind), UNCHANGED <<outbound, phase, peerUp>>,
         \A r \in Sessions : state[r] = "Closed" => state'[r] = "Closed"
  PROVE  /\ \A r \in Sessions : inbound'[r] = inbound[r] \/ (inbound[r] # <<>> /\ inbound'[r] = Tail(inbound[r]))
         /\ kind = "eof" => Clean(s)'
<1>1. \A r \in Sessions : inbound'[r] = inbound[r] \/ (inbound[r] # <<>> /\ inbound'[r] = Tail(inbound[r]))
  BY DEF Receive, TypeOK, TunnelTypeOK
<1>2. ASSUME kind = "eof" PROVE Clean(s)'
  <2>1. Up(s)' => Up(s)
    BY DEF Up
  <2>2. CASE inbound[s] # <<>> /\ kind = Head(inbound[s]).kind /\ inbound' = [inbound EXCEPT ![s] = Tail(@)]
    <3>1. inbound[s] \in Seq(Records)
      BY DEF TypeOK, TunnelTypeOK
    <3>2. EOFLast(inbound[s]) /\ ~NoEOF(inbound[s]) /\ inbound'[s] = Tail(inbound[s])
      BY <1>2, <2>2, <3>1, TailShapes DEF FlowInv, Flow, TypeOK, TunnelTypeOK
    <3>3. inbound'[s] = <<>>
      BY <1>2, <2>2, <3>1, <3>2, TailShapes
    <3>4. Up(s) => NoRequest(outbound[s]) /\ Rests(s)
      BY <2>2, <3>2 DEF FlowInv, Flow
    <3> QED
      BY <2>1, <3>3, <3>4 DEF Clean, Rests
  <2>3. CASE inbound[s] = <<>> /\ ~peerUp[s] /\ UNCHANGED inbound
    BY <2>3 DEF Clean, Up
  <2> QED
    BY <1>2, <2>2, <2>3 DEF Receive
<1> QED
  BY <1>1, <1>2

\* The state words move one way between "None" and "Closed".
StatesFinal == \A s \in Sessions : /\ state[s] = "Closed" => state'[s] = "Closed"
                                   /\ state'[s] = "None" => state[s] = "None"

LEMMA StatesStep == HolderInv /\ [Next]_vars => StatesFinal
<1> SUFFICES ASSUME HolderInv, [Next]_vars PROVE StatesFinal
  OBVIOUS
<1>1. \A s \in Sessions : state[s] = "Closed" => state'[s] = "Closed"
  BY ClosedStep DEF HolderInv
<1>2. ASSUME NEW c \in Conns, App(c) \/ Closing(c) \/ Read(c) \/ Reading(c) \/ Draining(c),
             NEW s \in Sessions, state'[s] = "None"
      PROVE  state[s] = "None"
  <2>1. \/ Works(c) \/ Misses(c)
        \/ \E r \in Sessions : Lends(c, r) \/ Makes(c, r)
        \/ \E drain \in BOOLEAN : Gives(c, drain)
    BY <1>2, ConnSteps DEF HolderInv
  <2> QED
    BY <1>2, <2>1 DEF Works, Touches, Misses, TakeNone, Lends, TakeReady, Makes, Gives, MoveToPool, poolVars,
       HolderInv, TypeOK, PoolTypeOK
<1>3. ASSUME Tidies, NEW s \in Sessions, state'[s] = "None" PROVE state[s] = "None"
  BY <1>3 DEF Tidies, ClosePending, SwapClosed, HolderInv, TypeOK, PoolTypeOK
<1>4. TypeOK
  BY DEF HolderInv
<1> QED
  BY <1>1, <1>2, <1>3, <1>4, OtherSteps DEF StatesFinal

\* A step of c that leaves the tunnels alone.
LEMMA QuietStep ==
  ASSUME TypeOK, TypeOK', FlowInv, StatesFinal, NEW c \in Conns,
         UNCHANGED <<inbound, outbound, phase, serving, peerUp, sess, requested>>,
         \A d \in Conns : /\ Busy(d)' => Busy(d)
                          /\ Uses(d)' => Uses(d)
                          /\ Uses(d)' /\ ReadEOF(d)' => ReadEOF(d),
         \A s \in Sessions : state'[s] = "Ready" => state[s] = "Ready" \/ (s = sess[c] /\ Uses(c) /\ ReadEOF(c))
  PROVE  FlowInv'
<1>1. \A s \in Sessions : state'[s] = "Ready" => Clean(s)
  BY ClientAssumption DEF FlowInv, Flow, Owns
<1>2. \A d \in Conns : sess'[d] \in Sessions \cup {Nowhere}
  BY DEF TypeOK, ConnTypeOK
<1> QED
  BY <1>1, <1>2, StillStep DEF StatesFinal

\* The application that opens and closes a connection.
LEMMA AppFlow ==
  ASSUME Orderly, TypeOK, TypeOK', ThreadsAgree, Exclusive, FlowInv, StatesFinal, NEW c \in Conns,
         Taken(c) \/ Open(c) \/ Close(c)
  PROVE  FlowInv'
<1>0. ASSUME UNCHANGED <<inbound, outbound, phase, serving, peerUp, sess, requested>>,
             \A d \in Conns : /\ Busy(d)' => Busy(d)
                              /\ Uses(d)' => Uses(d)
                              /\ Uses(d)' /\ ReadEOF(d)' => ReadEOF(d),
             \A s \in Sessions : state'[s] = "Ready" => state[s] = "Ready" \/ (s = sess[c] /\ Uses(c) /\ ReadEOF(c))
      PROVE  FlowInv'
  BY <1>0, QuietStep
<1> USE DEF TypeOK, PoolTypeOK, ConnTypeOK, ThreadsAgree, Exclusive, ReadsEnd, Goto, ReadGoto, Leave, SwapClosed, Settle
<1> USE DEF poolOnly, readVars, drainVars, writeVars, idleVars, appVars, connVars, tunnelVars, poolVars
<1>1. CASE Taken(c)
  <2>1. UNCHANGED <<inbound, outbound, phase, serving, peerUp, sess, requested>>
    BY <1>1 DEF Taken
  <2>2. ASSUME NEW d \in Conns
        PROVE  /\ Busy(d)' => Busy(d)
               /\ Uses(d)' => Uses(d)
               /\ Uses(d)' /\ ReadEOF(d)' => ReadEOF(d)
    BY <1>1 DEF Taken, Agree, Alone, Uses, Busy, Holds, Reads, ReadEOF
  <2>3. \A s \in Sessions : state'[s] = "Ready" => state[s] = "Ready" \/ (s = sess[c] /\ Uses(c) /\ ReadEOF(c))
    BY <1>1 DEF Taken, Agree, Alone, Uses, Holds, Reads, ReadEOF
  <2> QED
    BY <1>0, <2>1, <2>2, <2>3
<1>2. CASE Open(c)
  <2>1. UNCHANGED <<inbound, outbound, phase, serving, peerUp, sess, requested>>
    BY <1>2 DEF Open
  <2>2. ASSUME NEW d \in Conns
        PROVE  /\ Busy(d)' => Busy(d)
               /\ Uses(d)' => Uses(d)
               /\ Uses(d)' /\ ReadEOF(d)' => ReadEOF(d)
    BY <1>2 DEF Open, Agree, Alone, Uses, Busy, Holds, Reads, ReadEOF
  <2>3. \A s \in Sessions : state'[s] = "Ready" => state[s] = "Ready" \/ (s = sess[c] /\ Uses(c) /\ ReadEOF(c))
    BY <1>2 DEF Open, Agree, Alone, Uses, Holds, Reads, ReadEOF
  <2> QED
    BY <1>0, <2>1, <2>2, <2>3
<1>3. CASE Close(c)
  <2>1. UNCHANGED <<inbound, outbound, phase, serving, peerUp, sess, requested>>
    BY <1>3 DEF Close
  <2>2. ASSUME NEW d \in Conns
        PROVE  /\ Busy(d)' => Busy(d)
               /\ Uses(d)' => Uses(d)
               /\ Uses(d)' /\ ReadEOF(d)' => ReadEOF(d)
    BY <1>3 DEF Close, Agree, Alone, Uses, Busy, Holds, Reads, ReadEOF
  <2>3. \A s \in Sessions : state'[s] = "Ready" => state[s] = "Ready" \/ (s = sess[c] /\ Uses(c) /\ ReadEOF(c))
    BY <1>3 DEF Close, Agree, Alone, Uses, Holds, Reads, ReadEOF
  <2> QED
    BY <1>0, <2>1, <2>2, <2>3
<1> QED
  BY <1>1, <1>2, <1>3

\* The steps of Close, but for the write.
LEMMA ClosingFlow ==
  ASSUME Orderly, TypeOK, TypeOK', ThreadsAgree, Exclusive, FlowInv, StatesFinal, NEW c \in Conns,
         CheckReply(c) \/ CheckRead(c) \/ Release(c) \/ AskIdle(c) \/ AskReader(c) \/ Wait(c) \/ Recheck(c) \/ StartDrain(c) \/ Closed(c)
  PROVE  FlowInv'
<1>0. ASSUME UNCHANGED <<inbound, outbound, phase, serving, peerUp, sess, requested>>,
             \A d \in Conns : /\ Busy(d)' => Busy(d)
                              /\ Uses(d)' => Uses(d)
                              /\ Uses(d)' /\ ReadEOF(d)' => ReadEOF(d),
             \A s \in Sessions : state'[s] = "Ready" => state[s] = "Ready" \/ (s = sess[c] /\ Uses(c) /\ ReadEOF(c))
      PROVE  FlowInv'
  BY <1>0, QuietStep
<1> USE DEF TypeOK, PoolTypeOK, ConnTypeOK, ThreadsAgree, Exclusive, ReadsEnd, Goto, ReadGoto, Leave, SwapClosed, Settle
<1> USE DEF poolOnly, readVars, drainVars, writeVars, idleVars, appVars, connVars, tunnelVars, poolVars
<1>1. CASE CheckReply(c)
  <2>1. UNCHANGED <<inbound, outbound, phase, serving, peerUp, sess, requested>>
    BY <1>1 DEF CheckReply
  <2>2. ASSUME NEW d \in Conns
        PROVE  /\ Busy(d)' => Busy(d)
               /\ Uses(d)' => Uses(d)
               /\ Uses(d)' /\ ReadEOF(d)' => ReadEOF(d)
    BY <1>1 DEF CheckReply, Agree, Alone, Uses, Busy, Holds, Reads, ReadEOF
  <2>3. \A s \in Sessions : state'[s] = "Ready" => state[s] = "Ready" \/ (s = sess[c] /\ Uses(c) /\ ReadEOF(c))
    BY <1>1 DEF CheckReply, Agree, Alone, Uses, Holds, Reads, ReadEOF
  <2> QED
    BY <1>0, <2>1, <2>2, <2>3
<1>2. CASE CheckRead(c)
  <2>1. UNCHANGED <<inbound, outbound, phase, serving, peerUp, sess, requested>>
    BY <1>2 DEF CheckRead
  <2>2. ASSUME NEW d \in Conns
        PROVE  /\ Busy(d)' => Busy(d)
               /\ Uses(d)' => Uses(d)
               /\ Uses(d)' /\ ReadEOF(d)' => ReadEOF(d)
    BY <1>2 DEF CheckRead, Agree, Alone, Uses, Busy, Holds, Reads, ReadEOF
  <2>3. \A s \in Sessions : state'[s] = "Ready" => state[s] = "Ready" \/ (s = sess[c] /\ Uses(c) /\ ReadEOF(c))
    BY <1>2 DEF CheckRead, Agree, Alone, Uses, Holds, Reads, ReadEOF
  <2> QED
    BY <1>0, <2>1, <2>2, <2>3
<1>3. CASE Release(c)
  <2>1. UNCHANGED <<inbound, outbound, phase, serving, peerUp, sess, requested>>
    BY <1>3 DEF Release
  <2>2. ASSUME NEW d \in Conns
        PROVE  /\ Busy(d)' => Busy(d)
               /\ Uses(d)' => Uses(d)
               /\ Uses(d)' /\ ReadEOF(d)' => ReadEOF(d)
    BY <1>3 DEF Release, Agree, Alone, Uses, Busy, Holds, Reads, ReadEOF
  <2>3. \A s \in Sessions : state'[s] = "Ready" => state[s] = "Ready" \/ (s = sess[c] /\ Uses(c) /\ ReadEOF(c))
    BY <1>3 DEF Release, Agree, Alone, Uses, Holds, Reads, ReadEOF
  <2> QED
    BY <1>0, <2>1, <2>2, <2>3
<1>4. CASE AskIdle(c)
  <2>1. UNCHANGED <<inbound, outbound, phase, serving, peerUp, sess, requested>>
    BY <1>4 DEF AskIdle
  <2>2. ASSUME NEW d \in Conns
        PROVE  /\ Busy(d)' => Busy(d)
               /\ Uses(d)' => Uses(d)
               /\ Uses(d)' /\ ReadEOF(d)' => ReadEOF(d)
    BY <1>4 DEF AskIdle, Agree, Alone, Uses, Busy, Holds, Reads, ReadEOF
  <2>3. \A s \in Sessions : state'[s] = "Ready" => state[s] = "Ready" \/ (s = sess[c] /\ Uses(c) /\ ReadEOF(c))
    BY <1>4 DEF AskIdle, Agree, Alone, Uses, Holds, Reads, ReadEOF
  <2> QED
    BY <1>0, <2>1, <2>2, <2>3
<1>5. CASE AskReader(c)
  <2>1. UNCHANGED <<inbound, outbound, phase, serving, peerUp, sess, requested>>
    BY <1>5 DEF AskReader
  <2>2. ASSUME NEW d \in Conns
        PROVE  /\ Busy(d)' => Busy(d)
               /\ Uses(d)' => Uses(d)
               /\ Uses(d)' /\ ReadEOF(d)' => ReadEOF(d)
    BY <1>5 DEF AskReader, Agree, Alone, Uses, Busy, Holds, Reads, ReadEOF
  <2>3. \A s \in Sessions : state'[s] = "Ready" => state[s] = "Ready" \/ (s = sess[c] /\ Uses(c) /\ ReadEOF(c))
    BY <1>5 DEF AskReader, Agree, Alone, Uses, Holds, Reads, ReadEOF
  <2> QED
    BY <1>0, <2>1, <2>2, <2>3
<1>6. CASE Wait(c)
  <2>1. UNCHANGED <<inbound, outbound, phase, serving, peerUp, sess, requested>>
    BY <1>6 DEF Wait
  <2>2. ASSUME NEW d \in Conns
        PROVE  /\ Busy(d)' => Busy(d)
               /\ Uses(d)' => Uses(d)
               /\ Uses(d)' /\ ReadEOF(d)' => ReadEOF(d)
    BY <1>6 DEF Wait, Agree, Alone, Uses, Busy, Holds, Reads, ReadEOF
  <2>3. \A s \in Sessions : state'[s] = "Ready" => state[s] = "Ready" \/ (s = sess[c] /\ Uses(c) /\ ReadEOF(c))
    BY <1>6 DEF Wait, Agree, Alone, Uses, Holds, Reads, ReadEOF
  <2> QED
    BY <1>0, <2>1, <2>2, <2>3
<1>7. CASE Recheck(c)
  <2>1. UNCHANGED <<inbound, outbound, phase, serving, peerUp, sess, requested>>
    BY <1>7 DEF Recheck
  <2>2. ASSUME NEW d \in Conns
        PROVE  /\ Busy(d)' => Busy(d)
               /\ Uses(d)' => Uses(d)
               /\ Uses(d)' /\ ReadEOF(d)' => ReadEOF(d)
    BY <1>7 DEF Recheck, Agree, Alone, Uses, Busy, Holds, Reads, ReadEOF
  <2>3. \A s \in Sessions : state'[s] = "Ready" => state[s] = "Ready" \/ (s = sess[c] /\ Uses(c) /\ ReadEOF(c))
    BY <1>7 DEF Recheck, Agree, Alone, Uses, Holds, Reads, ReadEOF
  <2> QED
    BY <1>0, <2>1, <2>2, <2>3
<1>8. CASE StartDrain(c)
  <2>1. UNCHANGED <<inbound, outbound, phase, serving, peerUp, sess, requested>>
    BY <1>8 DEF StartDrain
  <2>2. ASSUME NEW d \in Conns
        PROVE  /\ Busy(d)' => Busy(d)
               /\ Uses(d)' => Uses(d)
               /\ Uses(d)' /\ ReadEOF(d)' => ReadEOF(d)
    BY <1>8 DEF StartDrain, Agree, Alone, Uses, Busy, Holds, Reads, ReadEOF
  <2>3. \A s \in Sessions : state'[s] = "Ready" => state[s] = "Ready" \/ (s = sess[c] /\ Uses(c) /\ ReadEOF(c))
    BY <1>8 DEF StartDrain, Agree, Alone, Uses, Holds, Reads, ReadEOF
  <2> QED
    BY <1>0, <2>1, <2>2, <2>3
<1>9. CASE Closed(c)
  <2>1. UNCHANGED <<inbound, outbound, phase, serving, peerUp, sess, requested>>
    BY <1>9 DEF Closed
  <2>2. ASSUME NEW d \in Conns
        PROVE  /\ Busy(d)' => Busy(d)
               /\ Uses(d)' => Uses(d)
               /\ Uses(d)' /\ ReadEOF(d)' => ReadEOF(d)
    BY <1>9 DEF Closed, Agree, Alone, Uses, Busy, Holds, Reads, ReadEOF
  <2>3. \A s \in Sessions : state'[s] = "Ready" => state[s] = "Ready" \/ (s = sess[c] /\ Uses(c) /\ ReadEOF(c))
    BY <1>9 DEF Closed, Agree, Alone, Uses, Holds, Reads, ReadEOF
  <2> QED
    BY <1>0, <2>1, <2>2, <2>3
<1> QED
  BY <1>1, <1>2, <1>3, <1>4, <1>5, <1>6, <1>7, <1>8, <1>9

\* The steps of a Read between two records.
LEMMA ReadingFlow ==
  ASSUME Orderly, TypeOK, TypeOK', ThreadsAgree, Exclusive, FlowInv, StatesFinal, NEW c \in Conns,
         Read(c) \/ CountRead(c) \/ RecheckClosed(c) \/ ResultOpen(c) \/ MarkEOF(c) \/ ResultEOF(c) \/ SettleRead(c) \/ ResultClosed(c) \/ LeaveRead(c)
  PROVE  FlowInv'
<1>0. ASSUME UNCHANGED <<inbound, outbound, phase, serving, peerUp, sess, requested>>,
             \A d \in Conns : /\ Busy(d)' => Busy(d)
                              /\ Uses(d)' => Uses(d)
                              /\ Uses(d)' /\ ReadEOF(d)' => ReadEOF(d),
             \A s \in Sessions : state'[s] = "Ready" => state[s] = "Ready" \/ (s = sess[c] /\ Uses(c) /\ ReadEOF(c))
      PROVE  FlowInv'
  BY <1>0, QuietStep
<1> USE DEF TypeOK, PoolTypeOK, ConnTypeOK, ThreadsAgree, Exclusive, ReadsEnd, Goto, ReadGoto, Leave, SwapClosed, Settle
<1> USE DEF poolOnly, readVars, drainVars, writeVars, idleVars, appVars, connVars, tunnelVars, poolVars
<1>1. CASE Read(c)
  <2>1. UNCHANGED <<inbound, outbound, phase, serving, peerUp, sess, requested>>
    BY <1>1 DEF Read
  <2>2. ASSUME NEW d \in Conns
        PROVE  /\ Busy(d)' => Busy(d)
               /\ Uses(d)' => Uses(d)
               /\ Uses(d)' /\ ReadEOF(d)' => ReadEOF(d)
    BY <1>1 DEF Read, Agree, Alone, Uses, Busy, Holds, Reads, ReadEOF
  <2>3. \A s \in Sessions : state'[s] = "Ready" => state[s] = "Ready" \/ (s = sess[c] /\ Uses(c) /\ ReadEOF(c))
    BY <1>1 DEF Read, Agree, Alone, Uses, Holds, Reads, ReadEOF
  <2> QED
    BY <1>0, <2>1, <2>2, <2>3
<1>2. CASE CountRead(c)
  <2>1. UNCHANGED <<inbound, outbound, phase, serving, peerUp, sess, requested>>
    BY <1>2 DEF CountRead
  <2>2. ASSUME NEW d \in Conns
        PROVE  /\ Busy(d)' => Busy(d)
               /\ Uses(d)' => Uses(d)
               /\ Uses(d)' /\ ReadEOF(d)' => ReadEOF(d)
    BY <1>2 DEF CountRead, Agree, Alone, Uses, Busy, Holds, Reads, ReadEOF
  <2>3. \A s \in Sessions : state'[s] = "Ready" => state[s] = "Ready" \/ (s = sess[c] /\ Uses(c) /\ ReadEOF(c))
    BY <1>2 DEF CountRead, Agree, Alone, Uses, Holds, Reads, ReadEOF
  <2> QED
    BY <1>0, <2>1, <2>2, <2>3
<1>3. CASE RecheckClosed(c)
  <2>1. UNCHANGED <<inbound, outbound, phase, serving, peerUp, sess, requested>>
    BY <1>3 DEF RecheckClosed
  <2>2. ASSUME NEW d \in Conns
        PROVE  /\ Busy(d)' => Busy(d)
               /\ Uses(d)' => Uses(d)
               /\ Uses(d)' /\ ReadEOF(d)' => ReadEOF(d)
    BY <1>3 DEF RecheckClosed, Agree, Alone, Uses, Busy, Holds, Reads, ReadEOF
  <2>3. \A s \in Sessions : state'[s] = "Ready" => state[s] = "Ready" \/ (s = sess[c] /\ Uses(c) /\ ReadEOF(c))
    BY <1>3 DEF RecheckClosed, Agree, Alone, Uses, Holds, Reads, ReadEOF
  <2> QED
    BY <1>0, <2>1, <2>2, <2>3
<1>4. CASE ResultOpen(c)
  <2>1. UNCHANGED <<inbound, outbound, phase, serving, peerUp, sess, requested>>
    BY <1>4 DEF ResultOpen
  <2>2. ASSUME NEW d \in Conns
        PROVE  /\ Busy(d)' => Busy(d)
               /\ Uses(d)' => Uses(d)
               /\ Uses(d)' /\ ReadEOF(d)' => ReadEOF(d)
    BY <1>4 DEF ResultOpen, Agree, Alone, Uses, Busy, Holds, Reads, ReadEOF
  <2>3. \A s \in Sessions : state'[s] = "Ready" => state[s] = "Ready" \/ (s = sess[c] /\ Uses(c) /\ ReadEOF(c))
    BY <1>4 DEF ResultOpen, Agree, Alone, Uses, Holds, Reads, ReadEOF
  <2> QED
    BY <1>0, <2>1, <2>2, <2>3
<1>5. CASE MarkEOF(c)
  <2>1. UNCHANGED <<inbound, outbound, phase, serving, peerUp, sess, requested>>
    BY <1>5 DEF MarkEOF
  <2>2. ASSUME NEW d \in Conns
        PROVE  /\ Busy(d)' => Busy(d)
               /\ Uses(d)' => Uses(d)
               /\ Uses(d)' /\ ReadEOF(d)' => ReadEOF(d)
    BY <1>5 DEF MarkEOF, Agree, Alone, Uses, Busy, Holds, Reads, ReadEOF
  <2>3. \A s \in Sessions : state'[s] = "Ready" => state[s] = "Ready" \/ (s = sess[c] /\ Uses(c) /\ ReadEOF(c))
    BY <1>5 DEF MarkEOF, Agree, Alone, Uses, Holds, Reads, ReadEOF
  <2> QED
    BY <1>0, <2>1, <2>2, <2>3
<1>6. CASE ResultEOF(c)
  <2>1. UNCHANGED <<inbound, outbound, phase, serving, peerUp, sess, requested>>
    BY <1>6 DEF ResultEOF
  <2>2. ASSUME NEW d \in Conns
        PROVE  /\ Busy(d)' => Busy(d)
               /\ Uses(d)' => Uses(d)
               /\ Uses(d)' /\ ReadEOF(d)' => ReadEOF(d)
    BY <1>6 DEF ResultEOF, Agree, Alone, Uses, Busy, Holds, Reads, ReadEOF
  <2>3. \A s \in Sessions : state'[s] = "Ready" => state[s] = "Ready" \/ (s = sess[c] /\ Uses(c) /\ ReadEOF(c))
    BY <1>6 DEF ResultEOF, Agree, Alone, Uses, Holds, Reads, ReadEOF, Orderly
  <2> QED
    BY <1>0, <2>1, <2>2, <2>3
<1>7. CASE SettleRead(c)
  <2>1. UNCHANGED <<inbound, outbound, phase, serving, peerUp, sess, requested>>
    BY <1>7 DEF SettleRead
  <2>2. ASSUME NEW d \in Conns
        PROVE  /\ Busy(d)' => Busy(d)
               /\ Uses(d)' => Uses(d)
               /\ Uses(d)' /\ ReadEOF(d)' => ReadEOF(d)
    BY <1>7 DEF SettleRead, Agree, Alone, Uses, Busy, Holds, Reads, ReadEOF
  <2>3. \A s \in Sessions : state'[s] = "Ready" => state[s] = "Ready" \/ (s = sess[c] /\ Uses(c) /\ ReadEOF(c))
    BY <1>7 DEF SettleRead, Agree, Alone, Uses, Holds, Reads, ReadEOF
  <2> QED
    BY <1>0, <2>1, <2>2, <2>3
<1>8. CASE ResultClosed(c)
  <2>1. UNCHANGED <<inbound, outbound, phase, serving, peerUp, sess, requested>>
    BY <1>8 DEF ResultClosed
  <2>2. ASSUME NEW d \in Conns
        PROVE  /\ Busy(d)' => Busy(d)
               /\ Uses(d)' => Uses(d)
               /\ Uses(d)' /\ ReadEOF(d)' => ReadEOF(d)
    BY <1>8 DEF ResultClosed, Agree, Alone, Uses, Busy, Holds, Reads, ReadEOF
  <2>3. \A s \in Sessions : state'[s] = "Ready" => state[s] = "Ready" \/ (s = sess[c] /\ Uses(c) /\ ReadEOF(c))
    BY <1>8 DEF ResultClosed, Agree, Alone, Uses, Holds, Reads, ReadEOF
  <2> QED
    BY <1>0, <2>1, <2>2, <2>3
<1>9. CASE LeaveRead(c)
  <2>1. UNCHANGED <<inbound, outbound, phase, serving, peerUp, sess, requested>>
    BY <1>9 DEF LeaveRead
  <2>2. ASSUME NEW d \in Conns
        PROVE  /\ Busy(d)' => Busy(d)
               /\ Uses(d)' => Uses(d)
               /\ Uses(d)' /\ ReadEOF(d)' => ReadEOF(d)
    BY <1>9 DEF LeaveRead, Agree, Alone, Uses, Busy, Holds, Reads, ReadEOF
  <2>3. \A s \in Sessions : state'[s] = "Ready" => state[s] = "Ready" \/ (s = sess[c] /\ Uses(c) /\ ReadEOF(c))
    BY <1>9 DEF LeaveRead, Agree, Alone, Uses, Holds, Reads, ReadEOF
  <2> QED
    BY <1>0, <2>1, <2>2, <2>3
<1> QED
  BY <1>1, <1>2, <1>3, <1>4, <1>5, <1>6, <1>7, <1>8, <1>9

\* Take and the dialer give a connection a clean tunnel, and MoveToPool takes it back.
LEMMA HandFlow ==
  ASSUME TypeOK, TypeOK', ThreadsAgree, FlowInv, StatesFinal, NEW c \in Conns,
         Dial(c) \/ Dialed(c) \/ Pool(c) \/ PoolDrain(c) \/ DrainDone(c)
  PROVE  FlowInv'
<1>1. UNCHANGED <<inbound, outbound, phase, serving, peerUp, requested, readClosed, rd, got>>
  BY DEF Dial, Dialed, Pool, PoolDrain, DrainDone, tunnelVars, readVars, writeVars
<1>2. \A s \in Sessions : state'[s] = "Ready" => Clean(s)
  BY DEF Dial, TakeReady, TakeNone, Dialed, Pool, PoolDrain, MoveToPool, DrainDone, poolVars, FlowInv, Flow,
         TypeOK, PoolTypeOK
<1>3. \A d \in Conns : sess'[d] \in Sessions \cup {Nowhere}
  BY DEF TypeOK, ConnTypeOK
<1>4. ASSUME UNCHANGED sess, \A d \in Conns : (Busy(d)' => Busy(d)) /\ (Uses(d)' => Uses(d))
      PROVE  FlowInv'
  BY <1>1, <1>2, <1>3, <1>4, StillStep DEF StatesFinal, ReadEOF
<1>5. ASSUME NEW s \in Sessions, Clean(s), sess' = [sess EXCEPT ![c] = s], UNCHANGED dr,
             \A d \in Conns \ {c} : app'[d] = app[d]
      PROVE  FlowInv'
  <2>1. sess'[c] = s
    BY <1>5 DEF TypeOK, ConnTypeOK
  <2>2. ASSUME NEW d \in Conns, d # c
        PROVE  sess'[d] = sess[d] /\ (Busy(d)' => Busy(d)) /\ (Uses(d)' => Uses(d))
    BY <1>1, <1>5, <2>2 DEF TypeOK, ConnTypeOK, Busy, Uses, Holds, Reads
  <2>3. \A d \in Conns : sess'[d] # Nowhere =>
           \/ Clean(sess'[d])
           \/ /\ sess'[d] = sess[d]
              /\ requested'[d] = requested[d]
              /\ Busy(d)' => Busy(d)
              /\ Uses(d)' => Uses(d)
              /\ Uses(d)' /\ ReadEOF(d)' => ReadEOF(d) \/ Clean(sess[d])'
    BY <1>1, <1>5, <2>1, <2>2 DEF ReadEOF
  <2> QED
    BY <1>1, <1>2, <1>3, <2>3, StillStep DEF StatesFinal
<1>6. CASE Dial(c)
  <2>1. ASSUME NEW s \in Sessions, TakeReady(c, s), sess' = [sess EXCEPT ![c] = s] PROVE FlowInv'
    <3>1. Clean(s)
      BY <2>1 DEF TakeReady, FrontReady, FlowInv, Flow
    <3> QED
      BY <1>5, <1>6, <2>1, <3>1 DEF Dial, Goto, drainVars, TypeOK, ConnTypeOK
  <2>2. CASE UNCHANGED sess
    <3>1. \A d \in Conns : (Busy(d)' => Busy(d)) /\ (Uses(d)' => Uses(d))
      BY <1>1, <1>6, <2>2 DEF Dial, Goto, drainVars, TypeOK, ConnTypeOK, Busy, Uses, Holds, Reads, ThreadsAgree, Agree
    <3> QED
      BY <1>4, <2>2, <3>1
  <2> QED
    BY <1>6, <2>1, <2>2 DEF Dial
<1>7. CASE Dialed(c)
  <2>1. ASSUME NEW s \in Sessions, state[s] = "None", sess' = [sess EXCEPT ![c] = s] PROVE FlowInv'
    <3>1. Clean(s)
      BY <2>1 DEF FlowInv, Flow
    <3> QED
      BY <1>5, <1>7, <2>1, <3>1 DEF Dialed, Goto, drainVars, TypeOK, ConnTypeOK
  <2>2. CASE UNCHANGED sess
    <3>1. \A d \in Conns : (Busy(d)' => Busy(d)) /\ (Uses(d)' => Uses(d))
      BY <1>1, <1>7, <2>2 DEF Dialed, Goto, drainVars, TypeOK, ConnTypeOK, Busy, Uses, Holds, Reads, ThreadsAgree, Agree
    <3> QED
      BY <1>4, <2>2, <3>1
  <2> QED
    BY <1>7, <2>1, <2>2 DEF Dialed
<1>8. CASE Pool(c) \/ PoolDrain(c) \/ DrainDone(c)
  <2>1. UNCHANGED sess /\ \A d \in Conns : (Busy(d)' => Busy(d)) /\ (Uses(d)' => Uses(d))
    <3> USE DEF TypeOK, ConnTypeOK, Busy, Uses, Holds, Reads, ThreadsAgree, Agree
    <3>1. CASE Pool(c)
      BY <1>1, <3>1 DEF Pool, Goto, drainVars
    <3>2. CASE PoolDrain(c)
      BY <1>1, <3>2 DEF PoolDrain, Goto, drainVars
    <3>3. CASE DrainDone(c)
      BY <1>1, <3>3 DEF DrainDone, appVars
    <3> QED
      BY <1>8, <3>1, <3>2, <3>3
  <2> QED
    BY <1>4, <2>1
<1> QED
  BY <1>6, <1>7, <1>8

\* The steps that take a record of the response.
LEMMA ReceivingFlow ==
  ASSUME TypeOK, TypeOK', ThreadsAgree, FlowInv, StatesFinal, NEW c \in Conns,
         ReadReply(c) \/ ReadRecord(c) \/ DrainRecord(c)
  PROVE  FlowInv'
<1>1. UNCHANGED <<outbound, phase, serving, peerUp, sess, requested, app, readClosed>>
  BY DEF ReadReply, ReadRecord, DrainRecord, writeVars, readVars, appVars
<1>2. PICK s \in Sessions : s = sess[c]
  BY DEF ReadReply, ReadRecord, DrainRecord, ThreadsAgree, Agree, TypeOK, ConnTypeOK
<1>3. \A d \in Conns : sess'[d] \in Sessions \cup {Nowhere}
  BY DEF TypeOK, ConnTypeOK
<1>4. \A d \in Conns : (Busy(d)' => Busy(d)) /\ (Uses(d)' => Uses(d))
  BY <1>1 DEF ReadReply, ReadRecord, DrainRecord, ReadGoto, drainVars, readVars, TypeOK, ConnTypeOK, Busy, Uses, Holds, Reads
<1>5. ASSUME NEW kind, Receive(s, kind),
             \A r \in Sessions : state'[r] = "Ready" => state[r] = "Ready" \/ (r = s /\ kind = "eof"),
             \A d \in Conns : ReadEOF(d)' => ReadEOF(d) \/ (d = c /\ kind = "eof")
      PROVE  FlowInv'
  <2>1. /\ \A r \in Sessions : inbound'[r] = inbound[r] \/ (inbound[r] # <<>> /\ inbound'[r] = Tail(inbound[r]))
        /\ kind = "eof" => Clean(s)'
    BY <1>1, <1>5, ReceiveStep DEF StatesFinal
  <2>2. \A r \in Sessions : state'[r] = "Ready" => Clean(r) \/ Clean(r)'
    BY <1>5, <2>1 DEF FlowInv, Flow
  <2>3. ASSUME NEW d \in Conns, sess'[d] # Nowhere
        PROVE  /\ sess'[d] = sess[d]
               /\ requested'[d] = requested[d]
               /\ Busy(d)' => Busy(d)
               /\ Uses(d)' => Uses(d)
               /\ Uses(d)' /\ ReadEOF(d)' => ReadEOF(d) \/ Clean(sess[d])'
    <3>1. d = c /\ kind = "eof" => Clean(sess[d])'
      BY <1>1, <1>2, <2>1
    <3> QED
      BY <1>1, <1>4, <1>5, <3>1
  <2> QED
    BY <1>1, <1>3, <2>1, <2>2, <2>3, StillStep DEF StatesFinal
<1>6. CASE ReadReply(c)
  <2>1. PICK kind \in Kinds \cup {"fail"} : Receive(s, kind)
    BY <1>2, <1>6 DEF ReadReply
  <2>2. \A d \in Conns : ReadEOF(d)' => ReadEOF(d)
    BY <1>1, <1>6 DEF ReadReply, ReadGoto, ReadEOF, TypeOK, ConnTypeOK
  <2> QED
    BY <1>5, <1>6, <2>1, <2>2 DEF ReadReply, poolVars
<1>7. CASE ReadRecord(c)
  <2>1. PICK kind \in Kinds \cup {"fail"} : Receive(s, kind) /\ got' = [got EXCEPT ![c] = kind]
    BY <1>2, <1>7 DEF ReadRecord
  <2>2. \A d \in Conns : ReadEOF(d)' => ReadEOF(d) \/ (d = c /\ kind = "eof")
    BY <1>1, <1>7, <2>1 DEF ReadRecord, ReadGoto, ReadEOF, TypeOK, ConnTypeOK
  <2> QED
    BY <1>5, <1>7, <2>1, <2>2 DEF ReadRecord, poolVars
<1>8. CASE DrainRecord(c)
  <2>1. PICK kind \in Kinds \cup {"fail"} :
          /\ Receive(s, kind)
          /\ IF kind = "eof"
             THEN Settle(s)
             ELSE SwapClosed(s) \/ UNCHANGED state
    BY <1>2, <1>8 DEF DrainRecord
  <2>2. \A r \in Sessions : state'[r] = "Ready" => state[r] = "Ready" \/ (r = s /\ kind = "eof")
    BY <2>1 DEF Settle, SwapClosed, TypeOK, PoolTypeOK
  <2>3. \A d \in Conns : ReadEOF(d)' => ReadEOF(d)
    BY <1>1, <1>8 DEF DrainRecord, readVars, ReadEOF
  <2> QED
    BY <1>5, <2>1, <2>2, <2>3
<1> QED
  BY <1>6, <1>7, <1>8

-----------------------------------------------------------------------------
\* A write adds to the request stream of the connection that holds the session: its
\* request, when the tunnel is clean, and then no other.
LEMMA WritingFlow ==
  ASSUME TypeOK, TypeOK', ThreadsAgree, Exclusive, FlowInv, StatesFinal, LateWrites = FALSE,
         \A d \in Conns : Asked(d), NEW c \in Conns,
         WriteRequest(c) \/ WriteData(c) \/ CloseWrite(c) \/ CloseEndWrite(c)
  PROVE  FlowInv'
<1>1. PICK s \in Sessions : s = sess[c]
  BY ZenonT(40) DEF WriteRequest, WriteData, CloseWrite, CloseEndWrite, ThreadsAgree, Agree, TypeOK, ConnTypeOK
<1> DEFINE q == outbound[s]
<1>2. /\ app[c] \in {"open", "closeWrite"} /\ Holds(c) /\ Busy(c) /\ Uses(c)
  BY <1>1, ClientAssumption DEF WriteRequest, WriteData, CloseWrite, CloseEndWrite, Holds, Busy, Uses
<1>3. q \in Seq(Records) /\ \A k \in Kinds : Record(c, k) \in Records /\ Record(c, k).kind = k /\ Record(c, k).conn = c
  BY DEF TypeOK, TunnelTypeOK, Record, Records
<1>4. UNCHANGED <<inbound, phase, serving, peerUp, sess, app, dr, rd, readClosed, got>>
  BY DEF WriteRequest, WriteData, CloseWrite, CloseEndWrite, readVars, drainVars, appVars, connVars
<1>5. /\ \A r \in Sessions : state'[r] = state[r] \/ state'[r] = "Closed"
      /\ \A r \in Sessions : r # s => state'[r] = state[r] /\ outbound'[r] = outbound[r]
      /\ \A d \in Conns \ {c} : requested'[d] = requested[d]
      /\ requested[c] => requested'[c]
  <2>1. state' = state \/ state' = [state EXCEPT ![s] = "Closed"]
    BY <1>1 DEF WriteRequest, WriteData, CloseWrite, CloseEndWrite, EndWrite, SwapClosed, poolVars
  <2>2. outbound' = outbound \/ \E q2 : outbound' = [outbound EXCEPT ![s] = q2]
    BY <1>1 DEF WriteRequest, WriteData, CloseWrite, CloseEndWrite, EndWrite, Send
  <2>3. requested' = requested \/ requested' = [requested EXCEPT ![c] = TRUE]
    BY DEF WriteRequest, WriteData, CloseWrite, CloseEndWrite, EndWrite, connVars
  <2>4. \A r \in Sessions : state'[r] = state[r] \/ (r = s /\ state'[r] = "Closed")
    BY <2>1 DEF TypeOK, PoolTypeOK
  <2>5. \A r \in Sessions : r # s => outbound'[r] = outbound[r]
    BY <2>2 DEF TypeOK, TunnelTypeOK
  <2>6. \A d \in Conns : requested'[d] = requested[d] \/ (d = c /\ requested'[d])
    BY <2>3 DEF TypeOK, ConnTypeOK
  <2> QED
    BY <2>4, <2>5, <2>6
<1>6. Up(s)' => Up(s) /\ ~MayFail(s)
  BY <1>4, <1>5 DEF Up, MayFail
<1>7. Flow(s) /\ Owns(c) /\ OwnTunnel(s, c)
  BY <1>1, <1>2, ClientAssumption DEF FlowInv, Owns
<1>8. ASSUME NEW d \in Conns, d # c, sess[d] = s PROVE ~Busy(d)
  BY <1>1, <1>2, <1>8, ClientAssumption DEF Exclusive, OneBusy
<1>9. state[s] \notin {"None", "Ready"}
  BY <1>1, <1>2, ClientAssumption DEF Exclusive, StateTells, Tells
\* When it arrives it is a record of a stream whose request is written, or it begins one.
<1>10. ASSUME Up(s)'
       PROVE  \/ requested[c] /\ \E k \in Kinds \ {"request"} : outbound'[s] = q \o <<Record(c, k)>>
              \/ /\ ~requested[c] /\ requested'[c]
                 /\ \/ outbound'[s] = q \o <<Record(c, "request")>>
                    \/ outbound'[s] = (q \o <<Record(c, "request")>>) \o <<Record(c, "eof")>>
  <2>1. Up(s) /\ ~MayFail(s)
    BY <1>6, <1>10
  <2>2. CASE WriteRequest(c)
    <3>1. ~requested[c] /\ Send(s, <<Record(c, "request")>>) /\ requested' = [requested EXCEPT ![c] = TRUE]
      BY <1>1, <2>1, <2>2 DEF WriteRequest
    <3>2. requested'[c]
      BY <3>1 DEF TypeOK, ConnTypeOK
    <3>3. outbound'[s] = q \o <<Record(c, "request")>>
      BY <1>1, <2>1, <3>1 DEF Send, Up, TypeOK, TunnelTypeOK
    <3> QED
      BY <3>1, <3>2, <3>3
  <2>3. CASE WriteData(c)
    <3>1. requested[c] /\ outbound'[s] = q \o <<Record(c, "data")>>
      BY <1>1, <2>1, <2>3 DEF WriteData, Send, Up, TypeOK, TunnelTypeOK
    <3> QED
      BY <3>1 DEF Kinds
  <2>4. CASE EndWrite(c)
    <3>1. outbound'[s] = q \o ((IF requested[c] THEN <<>> ELSE <<Record(c, "request")>>) \o <<Record(c, "eof")>>)
      BY <1>1, <2>1, <2>4 DEF EndWrite, Send, Up, TypeOK, TunnelTypeOK
    <3>2. requested'[c]
      BY <1>1, <2>1, <2>4 DEF EndWrite, TypeOK, ConnTypeOK
    <3>3. CASE requested[c]
      <4>1. outbound'[s] = q \o <<Record(c, "eof")>>
        BY <1>3, <3>1, <3>3, ConcatEmptySeq DEF Kinds
      <4> QED
        BY <3>3, <4>1 DEF Kinds
    <3>4. CASE ~requested[c]
      BY <1>3, <3>1, <3>2, <3>4, ConcatAssociative DEF Kinds
    <3> QED
      BY <3>3, <3>4
  <2> QED
    BY <2>2, <2>3, <2>4 DEF CloseWrite, CloseEndWrite
<1>11. ASSUME Up(s)', ~requested[c] PROVE NoRequest(q) /\ Rests(s) /\ inbound[s] = <<>> /\ ~ReadEOF(c) /\ requested'[c]
  <2>1. Clean(s)
    BY <1>1, <1>2, <1>7, <1>11, ClientAssumption DEF Owns
  <2>2. ~ReadEOF(c)
    BY <1>11 DEF ReadEOF, Asked
  <2> QED
    BY <1>6, <1>10, <1>11, <2>1, <2>2 DEF Clean
<1>12. ASSUME Up(s)'
       PROVE  /\ OneRequest(outbound'[s]) /\ RequestsOf(outbound'[s], c)
              /\ NoRequest(outbound'[s]) \/ (Rests(s) /\ inbound[s] = <<>>)
              /\ requested[c] /\ NoRequest(q) => NoRequest(outbound'[s])
  <2>1. /\ OneRequest(q) /\ RequestsOf(q, c)
        /\ NoRequest(q) \/ (Rests(s) /\ inbound[s] = <<>>)
    BY <1>6, <1>7, <1>12 DEF Flow, OwnTunnel
  <2>2. CASE requested[c]
    <3>1. PICK k \in Kinds \ {"request"} : outbound'[s] = q \o <<Record(c, k)>>
      BY <1>10, <1>12, <2>2
    <3> QED
      BY <1>3, <2>1, <3>1, AppendShapes
  <2>3. CASE ~requested[c]
    <3> DEFINE r == q \o <<Record(c, "request")>>
    <3>1. NoRequest(q) /\ Rests(s) /\ inbound[s] = <<>>
      BY <1>11, <1>12, <2>3
    <3>2. r \in Seq(Records) /\ OneRequest(r) /\ RequestsOf(r, c)
      BY <1>3, <2>1, <3>1, AppendShapes DEF Kinds
    <3>3. OneRequest(r \o <<Record(c, "eof")>>) /\ RequestsOf(r \o <<Record(c, "eof")>>, c)
      <4> HIDE DEF r
      <4> QED
        BY <1>3, <3>2, AppendShapes DEF Kinds
    <3> QED
      BY <1>10, <1>12, <2>3, <3>1, <3>2, <3>3
  <2> QED
    BY <2>2, <2>3
<1> HIDE DEF q
<1>13. Rests(s)' = Rests(s) /\ (Up(s)' => Up(s))
  BY <1>4, <1>6 DEF Rests
<1>14. Flow(s)'
  <2>1. state'[s] \notin {"None", "Ready"}
    BY <1>5, <1>9
  <2> QED
    BY <1>4, <1>7, <1>12, <1>13, <2>1 DEF Flow
<1>15. requested[c] \/ ~Up(s)' => (Clean(s) => Clean(s)')
  BY <1>4, <1>12, <1>13 DEF Clean, q
<1>16. Owns(c)'
  <2>1. OwnTunnel(s, c)'
    BY <1>4, <1>7, <1>12, <1>13 DEF OwnTunnel
  <2>2. ASSUME Uses(c)', ~requested'[c] \/ ReadEOF(c)' PROVE Clean(s)'
    <3>1. ReadEOF(c)' = ReadEOF(c)
      BY <1>4 DEF ReadEOF
    <3>2. ~Up(s)' \/ requested[c]
      BY <1>11, <2>2, <3>1
    <3>3. Clean(s)
      BY <1>1, <1>2, <1>5, <1>7, <2>2, <3>1, ClientAssumption DEF Owns
    <3> QED
      BY <1>15, <3>2, <3>3
  <2> QED
    BY <1>1, <1>4, <2>1, <2>2 DEF Owns
<1>17. ASSUME NEW r \in Sessions, r # s PROVE Flow(r)' /\ Clean(r)' = Clean(r) /\ \A d : OwnTunnel(r, d)' = OwnTunnel(r, d)
  BY <1>4, <1>5, <1>17 DEF FlowInv, Flow, Clean, OwnTunnel, Up, Rests
<1>18. ASSUME NEW d \in Conns, d # c PROVE Owns(d)'
  <2>1. sess'[d] = sess[d] /\ Busy(d)' = Busy(d) /\ Uses(d)' = Uses(d) /\ ReadEOF(d)' = ReadEOF(d)
    BY <1>4 DEF Busy, Uses, Holds, Reads, ReadEOF
  <2>2. CASE sess[d] = s
    BY <1>8, <1>18, <2>1, <2>2 DEF Owns, Uses, Busy
  <2>3. CASE sess[d] # s
    BY <1>5, <1>17, <1>18, <2>1, <2>3 DEF FlowInv, Owns, TypeOK, ConnTypeOK
  <2> QED
    BY <2>2, <2>3
<1> QED
  BY <1>14, <1>16, <1>17, <1>18 DEF FlowInv


\* The far end answers the request it took, and rests when it has.
LEMMA ServingFlow ==
  ASSUME TypeOK, FlowInv, NEW s \in Sessions, PeerStep(s), UNCHANGED <<poolVars, connVars>>
  PROVE  FlowInv'
<1> DEFINE Good == /\ Flow(s)'
                   /\ Clean(s) => Clean(s)'
                   /\ \A c \in Conns : OwnTunnel(s, c) => OwnTunnel(s, c)'
<1>1. Up(s) /\ state[s] # "None" /\ (state[s] = "Ready" => Clean(s)) /\ Flow(s)
  BY DEF PeerStep, PeerRequest, PeerRead, PeerReply, PeerData, PeerEnd, PeerAbort, PeerGone, Serving, Up, FlowInv, Flow
<1>2. outbound[s] \in Seq(Records) /\ inbound[s] \in Seq(Records) /\ state' = state /\ serving[s] \in Conns \cup {Nobody}
  BY DEF TypeOK, TunnelTypeOK, poolVars
<1>3. ASSUME PeerRequest(s) PROVE Good
  <2> DEFINE h == Head(outbound[s])
             t == Tail(outbound[s])
  <2>1. outbound[s] # <<>> /\ outbound'[s] = t /\ inbound' = inbound /\ Rests(s)
    BY <1>3 DEF PeerRequest, TypeOK, TunnelTypeOK, Rests
  <2>2. CASE h.kind = "request"
    <3>1. phase'[s] = "called" /\ serving'[s] = h.conn /\ Up(s)' /\ ~Rests(s)'
      BY <1>1, <1>2, <1>3, <2>2 DEF PeerRequest, TypeOK, TunnelTypeOK, Up, Rests
    <3>2. ~NoRequest(outbound[s])
      <4>1. 1 \in 1 .. Len(outbound[s]) /\ h = outbound[s][1]
        BY <1>2, <2>1
      <4> QED
        BY <2>2, <4>1 DEF NoRequest
    <3>3. NoRequest(t) /\ OneRequest(t) /\ inbound[s] = <<>> /\ ~Clean(s)
      BY <1>1, <1>2, <2>1, <2>2, <3>2, TailShapes DEF Flow, Clean
    <3>4. Flow(s)'
      BY <1>1, <1>2, <2>1, <3>1, <3>3, EmptyShapes DEF Flow
    <3>5. ASSUME NEW c \in Conns, OwnTunnel(s, c) PROVE OwnTunnel(s, c)'
      <4>1. RequestsOf(t, c) /\ h.conn = c
        BY <1>1, <1>2, <2>1, <2>2, <3>5, TailShapes DEF OwnTunnel
      <4> QED
        BY <2>1, <3>1, <3>5, <4>1 DEF OwnTunnel
    <3> QED
      BY <3>3, <3>4, <3>5
  <2>3. CASE h.kind # "request"
    <3>1. ~Up(s)'
      BY <1>3, <2>3 DEF PeerRequest, TypeOK, TunnelTypeOK, Up
    <3> QED
      BY <1>1, <1>2, <2>1, <3>1 DEF Flow, Clean, OwnTunnel
  <2> QED
    BY <2>2, <2>3
<1>4. ASSUME PeerRead(s) PROVE Good
  <2>1. /\ outbound[s] # <<>> /\ outbound'[s] = Tail(outbound[s])
        /\ UNCHANGED <<inbound, serving, peerUp>> /\ Rests(s)' = Rests(s)
    BY <1>4 DEF PeerRead, NextPhase, Rests, TypeOK, TunnelTypeOK
  <2>2. Up(s)'
    BY <1>1, <1>2, <2>1 DEF Up
  <2>3. /\ NoRequest(outbound[s]) => NoRequest(outbound'[s])
        /\ OneRequest(outbound'[s])
        /\ \A c : RequestsOf(outbound[s], c) => RequestsOf(outbound'[s], c)
    BY <1>1, <1>2, <2>1, TailShapes DEF Flow
  <2> QED
    BY <1>1, <1>2, <2>1, <2>2, <2>3 DEF Flow, Clean, OwnTunnel
<1>5. ASSUME PeerReply(s) \/ PeerData(s) \/ PeerEnd(s) \/ PeerAbort(s) PROVE Good
  <2>1. /\ ~Rests(s) /\ UNCHANGED <<outbound, serving>>
        /\ \E k \in Kinds : /\ inbound'[s] = inbound[s] \o <<Record(serving[s], k)>>
                            /\ k = "eof" => Rests(s)'
    <3> USE <1>2 DEF Reply, Rests, NextPhase, Kinds, TypeOK, TunnelTypeOK
    <3>1. CASE PeerReply(s)
      <4>1. inbound'[s] = inbound[s] \o <<Record(serving[s], "reply")>>
        BY <3>1 DEF PeerReply
      <4> QED
        BY <3>1, <4>1 DEF PeerReply
    <3>2. CASE PeerData(s)
      BY <3>2, SMTT(30) DEF PeerData
    <3>3. CASE PeerEnd(s)
      BY <3>3, SMTT(30) DEF PeerEnd
    <3>4. CASE PeerAbort(s)
      <4>1. inbound'[s] = inbound[s] \o <<Record(serving[s], "error")>>
        BY <3>4 DEF PeerAbort
      <4> QED
        BY <3>4, <4>1 DEF PeerAbort
    <3> QED
      BY <1>5, <3>1, <3>2, <3>3, <3>4
  <2>2. PICK k \in Kinds : inbound'[s] = inbound[s] \o <<Record(serving[s], k)>> /\ (k = "eof" => Rests(s)')
    BY <2>1
  <2>3. Record(serving[s], k) \in Records /\ Record(serving[s], k).kind = k /\ Record(serving[s], k).conn = serving[s]
    BY <1>2 DEF Record, Records
  <2>4. NoEOF(inbound[s]) /\ NoRequest(outbound[s]) /\ OneRequest(outbound[s]) /\ ~Clean(s)
    BY <1>1, <2>1 DEF Flow, Clean
  <2>5. EOFLast(inbound'[s]) /\ (k # "eof" => NoEOF(inbound'[s]))
    BY <1>2, <2>2, <2>3, <2>4, AppendShapes
  <2>6. Flow(s)'
    BY <1>1, <1>2, <2>1, <2>2, <2>4, <2>5 DEF Flow
  <2>7. ASSUME NEW c \in Conns, OwnTunnel(s, c) PROVE OwnTunnel(s, c)'
    <3>1. AllOf(inbound[s], c) /\ RequestsOf(outbound[s], c) /\ serving[s] = c
      BY <1>1, <2>1, <2>7 DEF OwnTunnel
    <3>2. AllOf(inbound'[s], c)
      BY <1>2, <2>2, <2>3, <3>1, AppendShapes
    <3> QED
      BY <2>1, <3>1, <3>2 DEF OwnTunnel
  <2> QED
    BY <2>4, <2>6, <2>7
<1>6. ASSUME PeerGone(s) PROVE Good
  <2>1. ~Up(s)' /\ UNCHANGED inbound
    BY <1>6 DEF PeerGone, Up, TypeOK, TunnelTypeOK
  <2> QED
    BY <1>1, <1>2, <2>1 DEF Flow, Clean, OwnTunnel
<1>7. Good
  BY <1>3, <1>4, <1>5, <1>6 DEF PeerStep
<1> HIDE DEF Good
<1>8. ASSUME NEW r \in Sessions, r # s
      PROVE  /\ Flow(r)' = Flow(r) /\ Clean(r)' = Clean(r)
             /\ \A c \in Conns : OwnTunnel(r, c)' = OwnTunnel(r, c)
  <2>1. /\ inbound'[r] = inbound[r] /\ outbound'[r] = outbound[r] /\ state'[r] = state[r]
        /\ phase'[r] = phase[r] /\ serving'[r] = serving[r] /\ peerUp'[r] = peerUp[r]
    BY <1>2, <1>8 DEF PeerStep, PeerRequest, PeerRead, PeerReply, PeerData, PeerEnd, PeerAbort, PeerGone, Reply,
       TypeOK, TunnelTypeOK
  <2> QED
    BY <2>1 DEF Flow, Clean, OwnTunnel, Up, Rests
<1>9. ASSUME NEW r \in Sessions
      PROVE  Flow(r)' /\ (Clean(r) => Clean(r)') /\ \A c \in Conns : OwnTunnel(r, c) => OwnTunnel(r, c)'
  BY <1>7, <1>8 DEF Good, FlowInv
<1>10. ASSUME NEW c \in Conns PROVE Owns(c)'
  <2>1. /\ sess'[c] = sess[c] /\ requested'[c] = requested[c]
        /\ Busy(c)' = Busy(c) /\ Uses(c)' = Uses(c) /\ ReadEOF(c)' = ReadEOF(c)
    BY DEF connVars, Busy, Uses, Holds, Reads, ReadEOF
  <2> QED
    BY <1>9, <2>1 DEF Owns, FlowInv, TypeOK, ConnTypeOK
<1> QED
  BY <1>9, <1>10 DEF FlowInv


ConnStep(c) == App(c) \/ Closing(c) \/ Read(c) \/ Reading(c) \/ Draining(c)

\* What the steps of the pool, of its callers and of the far end leave alone.
LEMMA OthersFrame ==
  ASSUME [Next]_vars, ~\E c \in Conns : ConnStep(c)
  PROVE  /\ UNCHANGED <<app, rd, dr, sess, closed, replyRead, readClosed, readCount, requested, wroteEOF, got>>
         /\ UNCHANGED tunnelVars \/ (Peer /\ UNCHANGED connVars)
BY DEF ConnStep, Next, SetKeepIdleConnections, CloseIdleConnections, vars, connVars, readVars, drainVars, writeVars, appVars,
   tunnelVars

LEMMA FlowStep ==
  ASSUME Orderly, LateWrites = FALSE, HolderInv, Exclusive, FlowInv, \A c \in Conns : Asked(c), [Next]_vars
  PROVE  FlowInv'
<1>1. TypeOK /\ TypeOK' /\ ThreadsAgree /\ StatesFinal
  BY StepTypes, StatesStep DEF HolderInv
<1>2. ASSUME NEW c \in Conns, ConnStep(c) PROVE FlowInv'
  <2>1. CASE Taken(c) \/ Open(c) \/ Close(c)
    BY <1>1, <2>1, AppFlow
  <2>2. CASE \/ CheckReply(c) \/ CheckRead(c) \/ Release(c) \/ AskIdle(c) \/ AskReader(c) \/ Wait(c) \/ Recheck(c)
             \/ StartDrain(c) \/ Closed(c)
    BY <1>1, <2>2, ClosingFlow
  <2>3. CASE \/ Read(c) \/ CountRead(c) \/ RecheckClosed(c) \/ ResultOpen(c) \/ MarkEOF(c) \/ ResultEOF(c)
             \/ SettleRead(c) \/ ResultClosed(c) \/ LeaveRead(c)
    BY <1>1, <2>3, ReadingFlow
  <2>4. CASE Dial(c) \/ Dialed(c) \/ Pool(c) \/ PoolDrain(c) \/ DrainDone(c)
    BY <1>1, <2>4, HandFlow
  <2>5. CASE ReadReply(c) \/ ReadRecord(c) \/ DrainRecord(c)
    BY <1>1, <2>5, ReceivingFlow
  <2>6. CASE WriteRequest(c) \/ WriteData(c) \/ CloseWrite(c) \/ CloseEndWrite(c)
    BY <1>1, <2>6, WritingFlow
  <2> QED
    BY <1>2, <2>1, <2>2, <2>3, <2>4, <2>5, <2>6 DEF ConnStep, App, Closing, Reading, Draining
<1>3. CASE Peer /\ UNCHANGED connVars
  BY <1>1, <1>3, ServingFlow DEF Peer
<1>4. ASSUME ~\E c \in Conns : ConnStep(c), UNCHANGED tunnelVars PROVE FlowInv'
  <2>1. UNCHANGED <<app, rd, dr, sess, closed, replyRead, readClosed, readCount, requested, wroteEOF, got>>
    BY <1>4, OthersFrame
  <2>2. Tidies
    BY <1>1, <1>4, OtherSteps DEF ConnStep
  <2>3. \A s \in Sessions : state'[s] = state[s] \/ state'[s] = "Closed"
    BY <1>1, <2>2 DEF Tidies, ClosePending, SwapClosed, TypeOK, PoolTypeOK
  <2>4. \A s \in Sessions : state'[s] = "Ready" => Clean(s)
    BY <2>3 DEF FlowInv, Flow
  <2>5. \A c \in Conns : /\ sess'[c] = sess[c] /\ requested'[c] = requested[c] /\ sess'[c] \in Sessions \cup {Nowhere}
                         /\ Busy(c)' = Busy(c) /\ Uses(c)' = Uses(c) /\ ReadEOF(c)' = ReadEOF(c)
    BY <1>1, <2>1 DEF Busy, Uses, Holds, Reads, ReadEOF, TypeOK, ConnTypeOK
  <2> QED
    BY <1>1, <1>4, <2>4, <2>5, StillStep DEF StatesFinal, tunnelVars
<1> QED
  BY <1>2, <1>3, <1>4, OthersFrame

\* Only a reply lets a Read go on to the records, and only a request has a reply.
LEMMA AskedStep ==
  ASSUME HolderInv, Exclusive, FlowInv, \A c \in Conns : Asked(c), [Next]_vars
  PROVE  \A c \in Conns : Asked(c)'
<1> USE DEF HolderInv, TypeOK, ConnTypeOK
<1>1. ASSUME UNCHANGED readVars, \A d \in Conns : requested[d] => requested'[d]
      PROVE  \A d \in Conns : Asked(d)'
  BY <1>1 DEF Asked, readVars
<1>2. ASSUME NEW c \in Conns, App(c) PROVE \A d \in Conns : Asked(d)'
  <2>1. UNCHANGED readVars
    BY <1>2 DEF App, Dial, Taken, Dialed, Open, WriteRequest, WriteData, CloseWrite, Close, readVars, connVars
  <2>2. requested' = requested \/ requested' = [requested EXCEPT ![c] = TRUE]
    BY <1>2 DEF App, Dial, Taken, Dialed, Open, WriteRequest, WriteData, CloseWrite, EndWrite, Close, writeVars, connVars
  <2> QED
    BY <1>1, <2>1, <2>2
<1>3. ASSUME NEW c \in Conns, Closing(c) \/ Draining(c) PROVE \A d \in Conns : Asked(d)'
  <2>1. UNCHANGED readVars
    BY <1>3 DEF Closing, CheckReply, CloseEndWrite, CheckRead, Release, AskIdle, AskReader, Wait, Recheck, StartDrain, Pool,
       PoolDrain, Closed, Draining, DrainRecord, DrainDone
  <2>2. requested' = requested \/ requested' = [requested EXCEPT ![c] = TRUE]
    BY <1>3 DEF Closing, CheckReply, CloseEndWrite, EndWrite, CheckRead, Release, AskIdle, AskReader, Wait, Recheck,
       StartDrain, Pool, PoolDrain, Closed, Draining, DrainRecord, DrainDone, writeVars
  <2> QED
    BY <1>1, <2>1, <2>2
<1>4. ASSUME NEW c \in Conns, Read(c) \/ Reading(c) PROVE \A d \in Conns : Asked(d)'
  <2>1. UNCHANGED requested
    BY <1>4 DEF Read, Reading, CountRead, RecheckClosed, ReadReply, ReadRecord, ResultOpen, MarkEOF, ResultEOF, SettleRead,
       ResultClosed, LeaveRead, writeVars
  <2>2. ASSUME NEW d \in Conns, d # c PROVE Asked(d)'
    BY <1>4, <2>1, <2>2 DEF Read, Reading, CountRead, RecheckClosed, ReadReply, ReadRecord, ResultOpen, MarkEOF, ResultEOF,
       SettleRead, ResultClosed, LeaveRead, ReadGoto, Asked
  <2>3. CASE ReadReply(c)
    <3>1. PICK kind \in Kinds \cup {"fail"} :
            Receive(sess[c], kind) /\ replyRead'[c] = (kind = "reply") /\ rd'[c] = (IF kind = "reply" THEN "record" ELSE "leave")
      BY <2>3 DEF ReadReply, ReadGoto
    <3>2. ~readClosed[c] /\ readClosed' = readClosed
      BY <2>3 DEF ReadReply, Exclusive, ReadsEnd, Alone
    <3>3. kind = "reply" => requested[c]
      <4>1. Uses(c) /\ sess[c] \in Sessions /\ sess[c] # Nowhere
        BY <2>3, ClientAssumption DEF ReadReply, Uses, Reads, ThreadsAgree, Agree
      <4>2. ~requested[c] => inbound[sess[c]] = <<>>
        BY <4>1 DEF FlowInv, Owns, Clean
      <4> QED
        BY <3>1, <4>2 DEF Receive
    <3>4. Asked(c)'
      BY <2>1, <3>1, <3>2, <3>3 DEF Asked
    <3> QED
      BY <2>2, <3>4
  <2>4. CASE ~ReadReply(c)
    <3>1. UNCHANGED replyRead
      BY <1>4, <2>4 DEF Read, Reading, CountRead, RecheckClosed, ReadRecord, ResultOpen, MarkEOF, ResultEOF, SettleRead,
         ResultClosed, LeaveRead
    <3>2. Asked(c)'
      BY <1>4, <2>1, <2>4, <3>1 DEF Read, Reading, CountRead, RecheckClosed, ReadRecord, ResultOpen, MarkEOF, ResultEOF,
         SettleRead, ResultClosed, LeaveRead, ReadGoto, Asked
    <3> QED
      BY <2>2, <3>2
  <2> QED
    BY <2>3, <2>4
<1>5. ASSUME ~\E c \in Conns : ConnStep(c) PROVE \A c \in Conns : Asked(c)'
  BY <1>5, OthersFrame DEF Asked
<1> QED
  BY <1>2, <1>3, <1>4, <1>5 DEF ConnStep


-----------------------------------------------------------------------------
\* Who touches the state word of a session: whoever closes it, Take when it is
\* ready, and the connection that is busy with it.
Swaps(c) == app[c] \in {"taken", "dialed", "release", "wait", "recheck", "drain"}

Turns(c, s) ==
  \/ state'[s] = state[s]
  \/ state'[s] = "Closed"
  \/ state[s] = "Ready"
  \/ s = sess[c] /\ (Swaps(c) \/ Reads(c) \/ (dr[c] = "record" /\ dr'[c] = "finish"))

LEMMA AppTurns ==
  ASSUME TypeOK, NEW c \in Conns, App(c) \/ Closing(c), NEW s \in Sessions
  PROVE  Turns(c, s)
<1> USE DEF TypeOK, PoolTypeOK, ConnTypeOK, Turns, Swaps, Leave, Settle, SwapClosed
<1>1. CASE Dial(c)
  BY <1>1 DEF Dial, TakeReady, TakeNone, FrontReady, poolVars
<1>2. CASE Taken(c) \/ Open(c) \/ Release(c) \/ Wait(c) \/ Recheck(c) \/ StartDrain(c)
  BY <1>2 DEF Taken, Open, Release, Wait, Recheck, StartDrain
<1>3. CASE Dialed(c) \/ Close(c) \/ WriteData(c) \/ AskReader(c) \/ Closed(c)
  BY <1>3 DEF Dialed, Close, WriteData, AskReader, Closed, poolVars
<1>4. CASE WriteRequest(c) \/ CloseWrite(c) \/ CloseEndWrite(c)
  BY <1>4 DEF WriteRequest, CloseWrite, CloseEndWrite, EndWrite
<1>5. CASE CheckReply(c) \/ CheckRead(c) \/ AskIdle(c)
  BY <1>5 DEF CheckReply, CheckRead, AskIdle
<1>6. CASE Pool(c) \/ PoolDrain(c)
  BY <1>6 DEF Pool, PoolDrain, MoveToPool
<1> QED
  BY <1>1, <1>2, <1>3, <1>4, <1>5, <1>6 DEF App, Closing

LEMMA ReadTurns ==
  ASSUME TypeOK, Exclusive, NEW c \in Conns, Read(c) \/ Reading(c) \/ Draining(c), NEW s \in Sessions
  PROVE  Turns(c, s)
<1> USE DEF TypeOK, PoolTypeOK, ConnTypeOK, Turns, Settle, SwapClosed
<1>1. CASE ResultEOF(c) \/ ResultClosed(c)
  BY <1>1 DEF ResultEOF, ResultClosed, Reads
<1>2. CASE SettleRead(c)
  BY <1>2 DEF SettleRead, Exclusive, ReadsEnd, Alone
<1>3. CASE DrainRecord(c)
  BY <1>3 DEF DrainRecord
<1>4. CASE Read(c) \/ CountRead(c) \/ RecheckClosed(c) \/ ReadReply(c) \/ ReadRecord(c)
  BY <1>4 DEF Read, CountRead, RecheckClosed, ReadReply, ReadRecord, poolVars
<1>5. CASE ResultOpen(c) \/ MarkEOF(c) \/ LeaveRead(c) \/ DrainDone(c)
  BY <1>5 DEF ResultOpen, MarkEOF, LeaveRead, DrainDone, poolVars
<1> QED
  BY <1>1, <1>2, <1>3, <1>4, <1>5 DEF Reading, Draining

Drains(c) == dr[c] = "record" \/ app[c] \in {"poolDrain", "purgeDrain"}

\* A drain begins with the swap to StateWaiting.
LEMMA DrainBegins ==
  ASSUME TypeOK, ThreadsAgree, NEW c \in Conns, ConnStep(c), NEW d \in Conns, Drains(d)'
  PROVE  /\ sess'[d] = sess[d]
         /\ Drains(d) \/ (d = c /\ app[c] = "drain" /\ state'[sess[c]] = "Waiting")
<1> USE DEF TypeOK, PoolTypeOK, ConnTypeOK, Drains, Goto
<1>1. CASE App(c)
  <2>1. CASE Dial(c)
    BY <2>1 DEF Dial, drainVars, ThreadsAgree, Agree
  <2>2. CASE Dialed(c)
    BY <2>2 DEF Dialed, drainVars, ThreadsAgree, Agree
  <2>3. CASE Taken(c) \/ Open(c) \/ Close(c)
    BY <2>3 DEF Taken, Open, Close, Leave, drainVars
  <2>4. CASE WriteRequest(c) \/ WriteData(c) \/ CloseWrite(c)
    BY <2>4 DEF WriteRequest, WriteData, CloseWrite, drainVars, appVars, connVars
  <2> QED
    BY <1>1, <2>1, <2>2, <2>3, <2>4 DEF App
<1>2. CASE Closing(c)
  <2>1. CASE StartDrain(c)
    <3>1. sess[c] \in Sessions
      BY <2>1 DEF StartDrain, ThreadsAgree, Agree
    <3> QED
      BY <2>1, <3>1 DEF StartDrain, Leave, drainVars
  <2>2. CASE CheckReply(c) \/ CheckRead(c) \/ Release(c) \/ AskIdle(c) \/ AskReader(c)
    BY <2>2 DEF CheckReply, CheckRead, Release, AskIdle, AskReader, Leave, drainVars
  <2>3. CASE Wait(c) \/ Recheck(c) \/ Pool(c) \/ PoolDrain(c)
    BY <2>3, ZenonT(40) DEF Wait, Recheck, Pool, PoolDrain, Leave, drainVars
  <2>4. CASE CloseEndWrite(c)
    BY <2>4 DEF CloseEndWrite, drainVars, appVars
  <2>5. CASE Closed(c)
    BY <2>5 DEF Closed
  <2> QED
    BY <1>2, <2>1, <2>2, <2>3, <2>4, <2>5 DEF Closing
<1>3. CASE Read(c) \/ Reading(c)
  BY <1>3 DEF Read, Reading, CountRead, RecheckClosed, ReadReply, ReadRecord, ResultOpen, MarkEOF, ResultEOF, SettleRead,
     ResultClosed, LeaveRead, drainVars, appVars
<1>4. CASE Draining(c)
  BY <1>4 DEF Draining, DrainRecord, DrainDone, appVars
<1> QED
  BY <1>1, <1>2, <1>3, <1>4 DEF ConnStep

LEMMA DrainsStep ==
  ASSUME HolderInv, Exclusive, \A c \in Conns : DrainsWaiting(c), [Next]_vars
  PROVE  \A c \in Conns : DrainsWaiting(c)'
<1>0. ThreadsAgree'
  BY StepTypes DEF HolderInv
<1>1. TypeOK /\ ThreadsAgree /\ StatesFinal
  BY StatesStep DEF HolderInv
<1>2. \A d \in Conns : Drains(d) => /\ sess[d] \in Sessions /\ sess[d] # Nowhere /\ Busy(d) /\ ~Reads(d) /\ ~Swaps(d)
                                    /\ state[sess[d]] \in {"Waiting", "Closed"}
  BY <1>1, ClientAssumption DEF Drains, DrainsWaiting, Busy, Holds, Swaps, ThreadsAgree, Agree, Exclusive, ReadsEnd, Alone,
     TypeOK, ConnTypeOK
<1>3. ASSUME NEW c \in Conns, ConnStep(c), NEW d \in Conns, Drains(d)' PROVE state'[sess'[d]] \in {"Waiting", "Closed"}
  <2>1. sess'[d] = sess[d] /\ (Drains(d) \/ (d = c /\ state'[sess[c]] = "Waiting"))
    BY <1>1, <1>3, DrainBegins
  <2>2. CASE Drains(d)
    <3>1. Turns(c, sess[d])
      BY <1>1, <1>2, <1>3, <2>2, AppTurns, ReadTurns DEF ConnStep
    <3>2. sess[c] = sess[d] /\ (Swaps(c) \/ Reads(c) \/ dr[c] = "record") => c = d
      BY <1>1, <1>2, <2>2 DEF Exclusive, OneBusy, Busy, Holds, Swaps
    <3>3. ~(dr[d] = "record" /\ dr'[d] = "finish")
      <4>1. ASSUME dr[d] = "record", dr'[d] = "finish" PROVE FALSE
        <5>1. app'[d] = "over" /\ dr'[d] # "record"
          BY <1>0, <4>1 DEF ThreadsAgree, Agree
        <5> QED
          BY <1>3, <5>1 DEF Drains
      <4> QED
        BY <4>1
    <3> QED
      BY <1>1, <1>2, <2>1, <2>2, <3>1, <3>2, <3>3 DEF Turns, StatesFinal
  <2> QED
    BY <2>1, <2>2
<1>4. ASSUME ~\E c \in Conns : ConnStep(c), NEW d \in Conns, Drains(d)' PROVE state'[sess'[d]] \in {"Waiting", "Closed"}
  <2>1. Tidies
    BY <1>1, <1>4, OtherSteps DEF ConnStep
  <2>2. \A s \in Sessions : state'[s] = state[s] \/ state'[s] = "Closed"
    BY <1>1, <2>1 DEF Tidies, ClosePending, SwapClosed, TypeOK, PoolTypeOK
  <2>3. Drains(d) /\ sess'[d] = sess[d]
    BY <1>4, OthersFrame DEF Drains
  <2> QED
    BY <1>2, <2>2, <2>3
<1> QED
  BY <1>3, <1>4 DEF DrainsWaiting, Drains


-----------------------------------------------------------------------------
\* A zero chunk that is written stays written.
LEMMA EndsStay ==
  ASSUME TypeOK, [Next]_vars, NEW c \in Conns, wroteEOF[c] = "ok"
  PROVE  wroteEOF'[c] = "ok"
<1>1. ASSUME NEW d \in Conns, App(d) PROVE wroteEOF'[c] = "ok"
  BY <1>1 DEF App, Dial, Taken, Dialed, Open, WriteRequest, WriteData, CloseWrite, EndWrite, Close, writeVars, connVars, TypeOK,
     ConnTypeOK
<1>2. ASSUME NEW d \in Conns, Closing(d) PROVE wroteEOF'[c] = "ok"
  BY <1>2 DEF Closing, CheckReply, CloseEndWrite, EndWrite, CheckRead, Release, AskIdle, AskReader, Wait, Recheck, StartDrain,
     Pool, PoolDrain, Closed, writeVars, TypeOK, ConnTypeOK
<1>3. ASSUME NEW d \in Conns, Read(d) \/ Reading(d) \/ Draining(d) PROVE wroteEOF'[c] = "ok"
  BY <1>3 DEF Read, Reading, CountRead, RecheckClosed, ReadReply, ReadRecord, ResultOpen, MarkEOF, ResultEOF, SettleRead,
     ResultClosed, LeaveRead, Draining, DrainRecord, DrainDone, writeVars
<1> QED
  BY <1>1, <1>2, <1>3, OthersFrame DEF ConnStep

LEMMA FinishedStep ==
  ASSUME HolderInv, RequestInv, \A c \in Conns : Finished(c), [Next]_vars
  PROVE  \A c \in Conns : Finished(c)'
<1> SUFFICES ASSUME NEW c \in Conns, sess'[c] # Nowhere, ~Holds(c)'
             PROVE  wroteEOF'[c] = "ok" \/ state'[sess'[c]] = "Closed"
  BY DEF Finished
<1>1. TypeOK /\ ThreadsAgree /\ StatesFinal
  BY StatesStep DEF HolderInv
<1>2. ASSUME sess'[c] = sess[c], ~Holds(c) PROVE wroteEOF'[c] = "ok" \/ state'[sess'[c]] = "Closed"
  BY <1>1, <1>2, EndsStay DEF Finished, StatesFinal, TypeOK, ConnTypeOK
<1>3. ASSUME NEW d \in Conns, ConnStep(d) PROVE wroteEOF'[c] = "ok" \/ state'[sess'[c]] = "Closed"
  <2>1. \/ Works(d) \/ Misses(d)
        \/ \E s \in Sessions : Lends(d, s) \/ Makes(d, s)
        \/ \E drain \in BOOLEAN : Gives(d, drain)
    BY <1>3, ConnSteps DEF ConnStep, HolderInv
  <2>2. ASSUME d # c PROVE sess'[c] = sess[c] /\ Holds(c)' = Holds(c)
    BY <1>1, <2>1, <2>2 DEF Works, Frame, Moves, Misses, Lends, Makes, Gives, Holds, TypeOK, ConnTypeOK
  <2>3. CASE Works(c)
    BY <1>2, <2>3 DEF Works, Frame, Keeps, Holds
  <2>4. CASE Misses(c) \/ \E s \in Sessions : Lends(c, s) \/ Makes(c, s)
    BY <1>1, <2>4 DEF Misses, Lends, Makes, Holds, ThreadsAgree, Agree
  <2>5. CASE \E drain \in BOOLEAN : Gives(c, drain)
    <3>1. wroteEOF[c] = "ok"
      BY <2>5 DEF Gives, RequestInv, Writes, Leaving
    <3> QED
      BY <1>1, <3>1, EndsStay
  <2> QED
    BY <1>2, <2>1, <2>2, <2>3, <2>4, <2>5
<1>4. ASSUME ~\E d \in Conns : ConnStep(d) PROVE wroteEOF'[c] = "ok" \/ state'[sess'[c]] = "Closed"
  BY <1>2, <1>4, OthersFrame DEF Holds
<1> QED
  BY <1>3, <1>4

LEMMA InitResponse == Init => ResponseInv
<1> SUFFICES ASSUME Init PROVE ResponseInv
  OBVIOUS
<1>1. ASSUME NEW s \in Sessions PROVE Flow(s)
  BY EmptyShapes DEF Init, PoolInit, TunnelInit, Flow, Clean, Rests
<1>2. ASSUME NEW c \in Conns PROVE Owns(c) /\ Asked(c) /\ DrainsWaiting(c) /\ Finished(c)
  BY DEF Init, Owns, Asked, DrainsWaiting, Finished
<1> QED
  BY <1>1, <1>2 DEF ResponseInv, FlowInv

\* The inductive invariant: who holds the sessions, who reads them, and what is in
\* their two streams.
FullInv == HolderInv /\ RequestInv /\ Exclusive /\ ResponseInv

LEMMA FullKept ==
  ASSUME Orderly, LateWrites = FALSE
  PROVE  Spec => []FullInv
<1>1. Init => FullInv
  BY InitTypes, InitHolds, InitRequests, InitCustody, InitResponse DEF FullInv, HolderInv
<1>2. ASSUME FullInv, [Next]_vars PROVE FullInv'
  <2>1. HolderInv' /\ RequestInv'
    BY <1>2, StepTypes, CreatedStep, HolderStep, RequestStep DEF FullInv, HolderInv
  <2>2. Exclusive'
    BY <1>2, StepCustody DEF FullInv, HolderInv
  <2>3. FlowInv' /\ \A c \in Conns : Asked(c)'
    BY <1>2, FlowStep, AskedStep DEF FullInv, ResponseInv
  <2>4. \A c \in Conns : DrainsWaiting(c)'
    BY <1>2, DrainsStep DEF FullInv, ResponseInv
  <2>5. \A c \in Conns : Finished(c)'
    BY <1>2, FinishedStep DEF FullInv, ResponseInv
  <2> QED
    BY <2>1, <2>2, <2>3, <2>4, <2>5 DEF FullInv, ResponseInv
<1> QED
  BY <1>1, <1>2, PTL DEF Spec

\* A Read and a drain only ever meet the records that answer their own connection's
\* request, although the tunnel carries the responses of all of them.
THEOREM ResponsesKeptApart ==
  ASSUME Orderly, LateWrites = FALSE
  PROVE  Spec => []OwnResponse
<1>1. FullInv => OwnResponse
  <2> SUFFICES ASSUME FullInv, NEW c \in Conns, rd[c] \in {"reply", "record"} \/ dr[c] = "record", inbound[sess[c]] # <<>>
               PROVE  Head(inbound[sess[c]]).conn = c
    BY DEF OwnResponse
  <2>1. Busy(c) /\ sess[c] # Nowhere /\ sess[c] \in Sessions
    BY ClientAssumption DEF Busy, Reads, FullInv, HolderInv, ThreadsAgree, Agree, TypeOK, ConnTypeOK
  <2>2. AllOf(inbound[sess[c]], c) /\ inbound[sess[c]] \in Seq(Records)
    BY <2>1 DEF FullInv, ResponseInv, FlowInv, Owns, OwnTunnel, HolderInv, TypeOK, TunnelTypeOK
  <2>3. 1 \in 1 .. Len(inbound[sess[c]]) /\ Head(inbound[sess[c]]) = inbound[sess[c]][1]
    BY <2>2
  <2> QED
    BY <2>2, <2>3 DEF AllOf
<1> QED
  BY <1>1, FullKept, PTL

\* A session is offered for reuse only when both of its streams are at their end
\* and nobody reads it any more.
THEOREM ReadyMeansClean ==
  ASSUME Orderly, LateWrites = FALSE
  PROVE  Spec => []ReadyIsClean
<1>1. FullInv => ReadyIsClean
  <2> SUFFICES ASSUME FullInv, NEW s \in Sessions, state[s] = "Ready"
               PROVE  /\ Readers(s) = {}
                      /\ inbound[s] = <<>>
                      /\ \A c \in Conns : sess[c] = s /\ ~Holds(c) => wroteEOF[c] = "ok"
    BY DEF ReadyIsClean
  <2>1. \A c \in Conns : sess[c] = s => ~Reads(c) /\ dr[c] # "record"
    BY ClientAssumption DEF FullInv, Exclusive, StateTells, Tells, Busy
  <2>2. Readers(s) = {}
    BY <2>1 DEF Readers, Reads
  <2>3. inbound[s] = <<>>
    BY DEF FullInv, ResponseInv, FlowInv, Flow, Clean
  <2>4. \A c \in Conns : sess[c] = s /\ ~Holds(c) => wroteEOF[c] = "ok"
    BY ClientAssumption DEF FullInv, ResponseInv, Finished
  <2> QED
    BY <2>2, <2>3, <2>4
<1> QED
  BY <1>1, FullKept, PTL

DrainInv == Exclusive /\ \A c \in Conns : DrainsWaiting(c)

\* What a drain discards arrived while its session waited for the server's zero chunk:
\* no other connection has been given the session meanwhile.
THEOREM DrainsOnlyWait ==
  ASSUME Orderly
  PROVE  Spec => []DrainWaits
<1>1. Init => DrainInv
  BY InitCustody, InitResponse DEF DrainInv, ResponseInv
<1>2. HolderInv /\ DrainInv /\ [Next]_vars => DrainInv'
  BY StepCustody, DrainsStep DEF DrainInv, HolderInv
<1>3. DrainInv => DrainWaits
  BY DEF DrainInv, DrainsWaiting, DrainWaits
<1> QED
  BY <1>1, <1>2, <1>3, HolderKept, PTL DEF Spec

=============================================================================
