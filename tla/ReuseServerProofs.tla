-------------------------- MODULE ReuseServerProofs --------------------------
(***************************************************************************)
(* Proofs about the reusing server, for every number of connections, every *)
(* size of the streams and every behaviour of the client: the responses,   *)
(* then the requests, then that it is the far end of ReuseTunnel.          *)
(***************************************************************************)
EXTENDS ReuseServerProperties, SequenceTheorems, TLAPS

\* Type correctness and the order of writes hold together: a record is written for
\* the current connection because Held says that there is one.
Inv == TypeOK /\ WriteOrder

-----------------------------------------------------------------------------
(***************************************************************************)
(* The record streams.                                                     *)
(***************************************************************************)

LEMMA RecordType ==
  ASSUME NEW c \in Conns, NEW k \in Kinds
  PROVE  Record(c, k) \in Records /\ Record(c, k).kind = k /\ Record(c, k).conn = c
BY DEF Record, Records

LEMMA TakeType ==
  ASSUME TypeOK, Take
  PROVE  toServer' \in Seq(Records)
BY HeadTailProperties DEF TypeOK, Take

\* A record written behind one that it may follow keeps the responses in order.
LEMMA PutOrder ==
  ASSUME TypeOK, ResponseOrder, cur # Nobody, NEW k \in Kinds, Put(k),
         clientUp /\ toClient # <<>> => Follows(toClient[Len(toClient)], Record(cur, k))
  PROVE  /\ toClient' \in Seq(Records)
         /\ ResponseOrder'
         /\ clientUp => toClient' # <<>> /\ toClient'[Len(toClient')] = Record(cur, k)
<1>1. Record(cur, k) \in Records
  BY RecordType DEF TypeOK
<1>2. CASE ~clientUp
  BY <1>2 DEF Put, TypeOK, ResponseOrder
<1>3. CASE clientUp
  <2> DEFINE n == Len(toClient)
  <2>1. toClient \in Seq(Records) /\ n \in Nat
    BY LenProperties DEF TypeOK
  <2>2. toClient' = Append(toClient, Record(cur, k))
    BY <1>3 DEF Put
  <2>3. /\ toClient' \in Seq(Records)
        /\ Len(toClient') = n + 1
        /\ \A i \in 1 .. n : toClient'[i] = toClient[i]
        /\ toClient'[n + 1] = Record(cur, k)
    BY <1>1, <2>1, <2>2, AppendProperties
  <2>4. ResponseOrder'
    <3> SUFFICES ASSUME NEW i \in 1 .. n
                 PROVE  Follows(toClient'[i], toClient'[i + 1])
      BY <2>1, <2>3 DEF ResponseOrder, Follows
    <3>1. CASE i = n
      <4>1. toClient # <<>>
        BY <2>1, EmptySeq
      <4> QED BY <1>3, <2>1, <2>3, <3>1, <4>1
    <3>2. CASE i # n
      BY <2>1, <2>3, <3>2 DEF ResponseOrder
    <3> QED BY <3>1, <3>2
  <2> QED BY <2>1, <2>3, <2>4
<1> QED BY <1>2, <1>3 DEF TypeOK

\* What is left of responses in order is in order, and ends as it did.
LEMMA TailOrder ==
  ASSUME TypeOK, ResponseOrder, Ending, toClient # <<>>, toClient' = Tail(toClient),
         UNCHANGED <<connUp, clientUp, replyWritten, ended, cur>>
  PROVE  toClient' \in Seq(Records) /\ ResponseOrder' /\ Ending'
<1> DEFINE n == Len(toClient)
<1>1. toClient \in Seq(Records) /\ n \in Nat /\ n # 0
  BY LenProperties, EmptySeq DEF TypeOK
<1>2. /\ toClient' \in Seq(Records)
      /\ Len(toClient') = n - 1
      /\ \A i \in 1 .. n - 1 : toClient'[i] = toClient[i + 1]
  BY <1>1, HeadTailProperties
<1>3. ResponseOrder'
  <2> SUFFICES ASSUME NEW i \in 1 .. n - 2
               PROVE  Follows(toClient'[i], toClient'[i + 1])
    BY <1>1, <1>2 DEF ResponseOrder, Follows
  <2> QED BY <1>1, <1>2 DEF ResponseOrder
<1>4. Ending'
  <2>1. CASE n = 1
    BY <1>2, <2>1, EmptySeq DEF Ending
  <2>2. CASE n # 1
    <3>1. toClient'[Len(toClient')] = toClient[n]
      BY <1>1, <1>2, <2>2
    <3> QED BY <3>1 DEF Ending
  <2> QED BY <2>1, <2>2
<1> QED BY <1>2, <1>3, <1>4

LEMMA TakeConn ==
  ASSUME TypeOK, Take
  PROVE  Head(toServer).conn \in Conns /\ Head(toServer).conn # Nobody
<1>1. Head(toServer) \in Records
  BY HeadTailProperties DEF TypeOK, Take
<1> QED BY <1>1, ServerAssumption DEF Records

LEMMA PutType ==
  ASSUME TypeOK, cur # Nobody, NEW k \in Kinds, Put(k)
  PROVE  toClient' \in Seq(Records) /\ UNCHANGED <<toServer, clientUp, wrote, uploaded>>
<1>1. Record(cur, k) \in Records
  BY RecordType DEF TypeOK
<1> QED BY <1>1, AppendProperties DEF Put, TypeOK

LEMMA CloseWriteType ==
  ASSUME TypeOK, cur # Nobody, CloseWrite
  PROVE  /\ toClient' \in Seq(Records) /\ UNCHANGED <<toServer, clientUp, wrote, uploaded>>
         /\ ended' \in {"no", "ok", "failed"}
<1>1. (IF replyWritten THEN "eof" ELSE "error") \in Kinds
  BY DEF Kinds
<1>2. CASE UNCHANGED networkVars
  BY <1>2 DEF CloseWrite, networkVars, TypeOK
<1>3. CASE Put(IF replyWritten THEN "eof" ELSE "error")
  BY <1>1, <1>3, PutType DEF CloseWrite, TypeOK
<1> QED BY <1>2, <1>3 DEF CloseWrite

LEMMA ClientType ==
  ASSUME TypeOK, Client
  PROVE  /\ toServer' \in Seq(Records) /\ toClient' \in Seq(Records)
         /\ wrote' \in [Conns -> {"nothing", "request", "eof"}]
         /\ uploaded' \in [Conns -> 0 .. MaxUpload]
<1> USE DEF TypeOK
<1>1. ASSUME NEW c \in Conns, NEW k \in {"request", "data", "eof"}, ClientWrite(c, k)
      PROVE  /\ toServer' \in Seq(Records) /\ toClient' \in Seq(Records)
             /\ wrote' \in [Conns -> {"nothing", "request", "eof"}]
             /\ uploaded' \in [Conns -> 0 .. MaxUpload]
  <2>1. Record(c, k) \in Records
    BY RecordType DEF Kinds
  <2>2. toServer' \in Seq(Records)
    BY <1>1, <2>1, AppendProperties DEF ClientWrite
  <2>3. wrote' \in [Conns -> {"nothing", "request", "eof"}]
    BY <1>1 DEF ClientWrite, MayWrite
  <2>4. uploaded' \in [Conns -> 0 .. MaxUpload]
    BY <1>1, ServerAssumption DEF ClientWrite, MayWrite
  <2> QED BY <1>1, <2>2, <2>3, <2>4 DEF ClientWrite
<1>2. CASE ClientRead
  BY <1>2, HeadTailProperties DEF ClientRead
<1>3. CASE ClientGone
  BY <1>3 DEF ClientGone
<1> QED BY <1>1, <1>2, <1>3 DEF Client

-----------------------------------------------------------------------------
(***************************************************************************)
(* Type correctness.                                                       *)
(***************************************************************************)

LEMMA CloseWriteFlags ==
  ASSUME Flags, CloseWrite
  PROVE  clientUp' = clientUp /\ connUp' \in BOOLEAN /\ writeClosed' \in BOOLEAN /\ aborted' \in BOOLEAN
BY Zenon DEF Flags, CloseWrite, Put, networkVars

LEMMA FlagsStep ==
  ASSUME Flags, [Next]_vars
  PROVE  Flags'
<1> USE DEF Flags, networkVars, serveVars, connVars, historyVars
<1>1. CASE Accept
  BY <1>1, ZenonT(40) DEF Accept, Take
<1>2. CASE ServeNext
  <2>1. ctxDone' = ctxDone /\ (connUp' = connUp \/ connUp' = FALSE)
    BY <1>2, ZenonT(40) DEF ServeNext, Fail, Return
  <2>2. clientUp' = clientUp
    BY <1>2, ZenonT(40) DEF ServeNext, Take
  <2>3. UNCHANGED connVars \/ FreshConn
    BY <1>2, ZenonT(40) DEF ServeNext
  <2>4. /\ replyWritten' \in BOOLEAN /\ writeClosed' \in BOOLEAN /\ aborted' \in BOOLEAN
        /\ readClosed' \in BOOLEAN /\ locked' \in BOOLEAN /\ completed' \in BOOLEAN
    BY <2>3, ZenonT(40) DEF FreshConn
  <2>5. requestEOF' = requestEOF \/ requestEOF' = FALSE
    BY <1>2, ZenonT(40) DEF ServeNext
  <2>6. misread' = misread \/ misread' = (Head(toServer).kind = "data")
    BY <1>2, ZenonT(40) DEF ServeNext
  <2>7. misread' \in BOOLEAN
    BY <2>6, Zenon
  <2> QED
    BY <2>1, <2>2, <2>4, <2>5, <2>7, Zenon
<1>3. CASE ServeRefuse
  BY <1>3, ZenonT(40) DEF ServeRefuse, Fail, Return
<1>4. CASE ServePing
  BY <1>4, ZenonT(40) DEF ServePing, Put, Fail, Return
<1>5. CASE ServePacket
  BY <1>5, ZenonT(40) DEF ServePacket, Put, Fail, Return
<1>6. CASE FirstPacket
  BY <1>6, ZenonT(40) DEF FirstPacket, TakeData, Take, Fail, Return
<1>7. CASE PacketEnd
  BY <1>7, ZenonT(40) DEF PacketEnd, Fail, Return
<1>8. CASE ServeConnect
  BY <1>8, ZenonT(40) DEF ServeConnect
<1>9. CASE ServeHandler
  BY <1>9, ZenonT(40) DEF ServeHandler, Fail, Return
<1>10. CASE ServeCloseWrite
  BY <1>10, CloseWriteFlags, ZenonT(40) DEF ServeCloseWrite
<1>11. CASE ServeAfter
  BY <1>11, ZenonT(40) DEF ServeAfter, Fail, Return
<1>12. CASE ServeDrain
  BY <1>12, ZenonT(40) DEF ServeDrain, TakeData, Take, Fail, Return
<1>13. CASE UpRead
  BY <1>13, ZenonT(40) DEF UpRead, TakeData, Take
<1>14. CASE UpStop
  BY <1>14, ZenonT(40) DEF UpStop
<1>15. CASE UpStore
  BY <1>15, ZenonT(40) DEF UpStore
<1>16. CASE UpClose
  BY <1>16, CloseWriteFlags, ZenonT(40) DEF UpClose
<1>17. CASE DownClose
  BY <1>17, CloseWriteFlags, ZenonT(40) DEF DownClose
<1>18. CASE DownWrite
  BY <1>18, ZenonT(40) DEF DownWrite
<1>19. CASE DownRecord
  BY <1>19, ZenonT(40) DEF DownRecord, Put
<1>20. CASE DownStop
  BY <1>20, ZenonT(40) DEF DownStop
<1>21. CASE Complete
  BY <1>21, ZenonT(40) DEF Complete
<1>22. CASE Client
  <2>1. clientUp' \in BOOLEAN
    BY <1>22, ZenonT(40) DEF Client, ClientWrite, ClientRead, ClientGone
  <2> QED BY <1>22, <2>1, ZenonT(40) DEF Client
<1>23. CASE Cancel
  BY <1>23, ZenonT(40) DEF Cancel
<1>24. CASE UNCHANGED vars
  BY <1>24, ZenonT(40) DEF vars
<1> QED
  BY <1>1, <1>2, <1>3, <1>4, <1>5, <1>6, <1>7, <1>8, <1>9, <1>10, <1>11, <1>12, <1>13, <1>14, <1>15, <1>16, <1>17, <1>18, <1>19, <1>20, <1>21, <1>22, <1>23, <1>24
  DEF Next, Serve, Handler, Upload, Download

LEMMA TypeStep ==
  ASSUME TypeOK, Held, [Next]_vars
  PROVE  TypeOK'
<1>0. Flags'
  BY FlagsStep DEF TypeOK
<1> USE <1>0, ServerAssumption
    DEF TypeOK, Held, ServePc, networkVars, serveVars, connVars, historyVars
<1>1. CASE Accept
  <2>1. CASE Take
    <3>1. Head(toServer) \in Records
      BY <2>1, HeadTailProperties DEF Take
    <3>2. cur' \in Conns \cup {Nobody}
      BY <1>1, <3>1 DEF Accept, Records
    <3> QED BY <1>1, <2>1, <3>2, TakeType DEF Accept, Take
  <2>2. CASE ~Take
    BY <1>1, <2>2 DEF Accept
  <2> QED BY <2>1, <2>2
<1>2. CASE ServeNext
  <2>1. CASE Take
    <3>1. Head(toServer) \in Records
      BY <2>1, HeadTailProperties DEF Take
    <3>2. CASE cur' = Head(toServer).conn /\ serve' = "dispatch" /\ FreshConn
               /\ UNCHANGED <<connUp, onCloses, misread>>
      BY <1>2, <2>1, <3>1, <3>2, TakeType, SMTT(30) DEF ServeNext, Take, FreshConn, Records
    <3>3. CASE /\ serve' = "done" /\ onCloses' = onCloses + 1
               /\ UNCHANGED <<cur, up, down, connVars, requestEOF>>
      BY <1>2, <2>1, <3>3, TakeType DEF ServeNext, Take
    <3> QED BY <1>2, <2>1, <3>2, <3>3 DEF ServeNext, Fail, Return
  <2>2. CASE ~Take
    <3>1. /\ serve' = "done" /\ onCloses' = onCloses + 1
          /\ UNCHANGED <<networkVars, cur, up, down, connVars, historyVars, ctxDone, drained>>
      BY <1>2, <2>2, Zenon DEF ServeNext, Fail, Return
    <3> QED BY <3>1
  <2> QED BY <2>1, <2>2
<1>3. CASE ServeRefuse
  BY <1>3 DEF ServeRefuse, Fail, Return
<1>4. CASE ServePing
  BY <1>4, PutType DEF ServePing, Kinds, Fail, Return
<1>5. CASE ServePacket
  BY <1>5, PutType DEF ServePacket, Kinds, Fail, Return
<1>6. CASE FirstPacket
  BY <1>6, TakeType DEF FirstPacket, TakeData, Take, Fail, Return
<1>7. CASE PacketEnd
  BY <1>7 DEF PacketEnd, Fail, Return
<1>8. CASE ServeConnect
  BY <1>8 DEF ServeConnect
<1>9. CASE ServeHandler
  BY <1>9 DEF ServeHandler, Fail, Return
<1>10. CASE ServeCloseWrite
  BY <1>10, CloseWriteType DEF ServeCloseWrite
<1>11. CASE ServeAfter
  BY <1>11 DEF ServeAfter, Fail, Return
<1>12. CASE ServeDrain
  BY <1>12, TakeType, SMTT(30) DEF ServeDrain, TakeData, Take, Fail, Return
<1>13. CASE UpRead
  BY <1>13, TakeType DEF UpRead, TakeData, Take
<1>14. CASE UpStop
  BY <1>14 DEF UpStop
<1>15. CASE UpStore
  BY <1>15 DEF UpStore
<1>16. CASE UpClose
  BY <1>16, CloseWriteType DEF UpClose
<1>17. CASE DownClose
  BY <1>17, CloseWriteType DEF DownClose
<1>18. CASE DownWrite
  BY <1>18 DEF DownWrite
<1>19. CASE DownRecord
  <2>1. CASE WriteFails /\ UNCHANGED <<networkVars, replyWritten, sent>>
    BY <1>19, <2>1 DEF DownRecord
  <2>2. CASE Put(IF replyWritten THEN "data" ELSE "reply")
    <3>1. (IF replyWritten THEN "data" ELSE "reply") \in Kinds
      BY DEF Kinds
    <3>2. toClient' \in Seq(Records) /\ UNCHANGED <<toServer, clientUp, wrote, uploaded>>
      BY <1>19, <2>2, <3>1, PutType DEF DownRecord
    <3>3. sent' \in 0 .. MaxData
      <4>1. CASE replyWritten
        <5>1. sent < MaxData
          BY <1>19, <4>1, Zenon DEF DownRecord
        <5>2. sent' = sent + 1 \/ sent' = sent
          BY <1>19, <4>1, Zenon DEF DownRecord
        <5> QED BY <5>1, <5>2
      <4>2. CASE ~replyWritten
        BY <1>19, <2>2, <4>2 DEF DownRecord
      <4> QED BY <4>1, <4>2
    <3>4. down' \in {"off", "idle", "write", "close", "done"}
      BY <1>19 DEF DownRecord
    <3> QED BY <1>19, <3>2, <3>3, <3>4 DEF DownRecord
  <2> QED BY <1>19, <2>1, <2>2 DEF DownRecord
<1>20. CASE DownStop
  BY <1>20 DEF DownStop
<1>21. CASE Complete
  BY <1>21 DEF Complete
<1>22. CASE Client
  BY <1>22, ClientType DEF Client
<1>23. CASE Cancel
  BY <1>23 DEF Cancel
<1>24. CASE UNCHANGED vars
  BY <1>24 DEF vars
<1> QED
  BY <1>1, <1>2, <1>3, <1>4, <1>5, <1>6, <1>7, <1>8, <1>9, <1>10, <1>11, <1>12, <1>13, <1>14, <1>15, <1>16, <1>17, <1>18, <1>19, <1>20, <1>21, <1>22, <1>23, <1>24
  DEF Next, Serve, Handler, Upload, Download

-----------------------------------------------------------------------------
(***************************************************************************)
(* What the goroutines know of each other.                                 *)
(***************************************************************************)

\* CloseWrite comes when nobody writes, and leaves the connection ended.
LEMMA CloseWriteHeld ==
  ASSUME Flags, Held, CloseWrite, UNCHANGED <<replyWritten, locked>>
  PROVE  /\ down # "write"
         /\ ended' # "no" /\ writeClosed' /\ clientUp' = clientUp
         /\ ended' = "failed" => ~connUp' \/ ~clientUp'
         /\ ended' = "ok" => IF aborted' THEN ~connUp' ELSE replyWritten'
         /\ ended # "no" => ended' = ended /\ aborted' = aborted
<1> USE DEF Flags, Held
<1>1. CASE ended # "no" /\ UNCHANGED <<networkVars, connUp, writeClosed, ended, aborted>>
  BY <1>1, Zenon DEF networkVars
<1>2. CASE /\ ended = "no" /\ ~locked /\ writeClosed' = TRUE
           /\ WriteFails /\ ended' = "failed" /\ UNCHANGED <<networkVars, connUp, aborted>>
  BY <1>2, Zenon DEF networkVars, WriteFails
<1>3. CASE /\ ended = "no" /\ ~locked /\ writeClosed' = TRUE
           /\ clientUp' = clientUp
           /\ ended' = "ok" /\ aborted' = ~replyWritten /\ connUp' = replyWritten
  BY <1>3, Zenon
<1> QED BY <1>1, <1>2, <1>3, Zenon DEF CloseWrite, Put

LEMMA HeldStep ==
  ASSUME TypeOK, Held, [Next]_vars
  PROVE  Held'
<1> USE DEF TypeOK, Flags, Held, networkVars, serveVars, connVars, historyVars
<1>1. CASE Accept
  <2>1. CASE Take /\ cur' = Head(toServer).conn /\ serve' = "dispatch"
    BY <1>1, <2>1, TakeConn DEF Accept, Take
  <2>2. CASE serve' = "rejected" /\ UNCHANGED <<networkVars, cur>>
    BY <1>1, <2>2 DEF Accept
  <2> QED BY <1>1, <2>1, <2>2 DEF Accept
<1>2. CASE ServeNext
  <2>1. CASE Take /\ cur' = Head(toServer).conn /\ serve' = "dispatch" /\ FreshConn
    BY <1>2, <2>1, TakeConn DEF ServeNext, Take, FreshConn
  <2>2. CASE Take /\ serve' = "done" /\ UNCHANGED <<cur, up, down, connVars>>
    <3>1. connUp' => connUp
      BY <1>2, <2>2, Zenon DEF ServeNext, Fail, Return
    <3> QED BY <1>2, <2>2, <3>1 DEF ServeNext, Take
  <2>3. CASE /\ serve' = "done" /\ (connUp' => connUp)
             /\ UNCHANGED <<networkVars, cur, up, down, connVars>>
    <3>1. serve = "next"
      BY <1>2 DEF ServeNext
    <3>2. cur # Nobody
      BY <3>1
    <3> QED BY <2>3, <3>1, <3>2
  <2>4. CASE Take
    <3>1. \/ cur' = Head(toServer).conn /\ serve' = "dispatch" /\ FreshConn
          \/ serve' = "done" /\ UNCHANGED <<cur, up, down, connVars>>
      BY <1>2, <2>4, Zenon DEF ServeNext, Fail, Return
    <3> QED BY <2>1, <2>2, <2>4, <3>1
  <2>5. CASE ~Take
    <3>1. UNCHANGED <<networkVars, cur, up, down, connVars, historyVars>>
      BY <1>2, <2>5 DEF ServeNext
    <3>2. serve' = "done"
      BY <1>2, <2>5 DEF ServeNext, Fail, Return
    <3>3. connUp' = FALSE \/ connUp' = connUp
      BY <1>2, <2>5 DEF ServeNext, Fail
    <3> QED BY <2>3, <3>1, <3>2, <3>3
  <2> QED BY <2>4, <2>5
<1>3. CASE ServeRefuse
  BY <1>3 DEF ServeRefuse, Fail, Return
<1>4. CASE ServePing
  BY <1>4 DEF ServePing, Put, Fail, Return
<1>5. CASE ServePacket
  BY <1>5 DEF ServePacket, Put, Fail, Return
<1>6. CASE FirstPacket
  BY <1>6 DEF FirstPacket, TakeData, Take, Fail, Return
<1>7. CASE PacketEnd
  BY <1>7 DEF PacketEnd, Fail, Return
<1>8. CASE ServeConnect
  BY <1>8 DEF ServeConnect
<1>9. CASE ServeHandler
  BY <1>9 DEF ServeHandler, Fail, Return
<1>10. CASE ServeCloseWrite
  BY <1>10, CloseWriteHeld DEF ServeCloseWrite
<1>11. CASE ServeAfter
  BY <1>11 DEF ServeAfter, Fail, Return
<1>12. CASE ServeDrain
  BY <1>12 DEF ServeDrain, TakeData, Take, Fail, Return
<1>13. CASE UpRead
  BY <1>13 DEF UpRead, TakeData, Take
<1>14. CASE UpStop
  BY <1>14 DEF UpStop
<1>15. CASE UpStore
  BY <1>15 DEF UpStore
<1>16. CASE UpClose
  BY <1>16, CloseWriteHeld DEF UpClose
<1>17. CASE DownClose
  BY <1>17, CloseWriteHeld DEF DownClose
<1>18. CASE DownWrite
  BY <1>18 DEF DownWrite
<1>19. CASE DownRecord
  BY <1>19 DEF DownRecord, Put
<1>20. CASE DownStop
  BY <1>20 DEF DownStop
<1>21. CASE Complete
  BY <1>21 DEF Complete
<1>22. CASE Client
  BY <1>22 DEF Client, ClientWrite, ClientRead, ClientGone
<1>23. CASE Cancel
  BY <1>23 DEF Cancel
<1>24. CASE UNCHANGED vars
  BY <1>24 DEF vars
<1> QED
  BY <1>1, <1>2, <1>3, <1>4, <1>5, <1>6, <1>7, <1>8, <1>9, <1>10, <1>11, <1>12, <1>13, <1>14, <1>15, <1>16, <1>17, <1>18, <1>19, <1>20, <1>21, <1>22, <1>23, <1>24
  DEF Next, Serve, Handler, Upload, Download

-----------------------------------------------------------------------------
(***************************************************************************)
(* The order of the response stream.                                       *)
(***************************************************************************)

\* A step that writes nothing and opens nothing keeps the order.
LEMMA OrderKept ==
  ASSUME Ending, ResponseOrder, UNCHANGED <<toClient, replyWritten, ended, cur>>,
         connUp' => connUp, clientUp' => clientUp
  PROVE  Ending' /\ ResponseOrder'
BY DEF Ending, ResponseOrder

\* CloseWrite writes the zero chunk behind a reply, and closes behind an error.
LEMMA CloseWriteOrder ==
  ASSUME TypeOK, Held, Ending, ResponseOrder, cur # Nobody, CloseWrite,
         UNCHANGED <<replyWritten, cur>>
  PROVE  Ending' /\ ResponseOrder'
<1> DEFINE kind == IF replyWritten THEN "eof" ELSE "error"
<1>1. CASE ended # "no" /\ UNCHANGED <<networkVars, connUp, ended>>
  BY <1>1, OrderKept DEF networkVars
<1>2. CASE ended = "no" /\ WriteFails /\ UNCHANGED <<networkVars, connUp>>
  <2>1. ~connUp' \/ ~clientUp'
    BY <1>2 DEF WriteFails, networkVars
  <2> QED BY <1>2, <2>1 DEF Ending, ResponseOrder, networkVars
<1>3. CASE ended = "no" /\ Put(kind) /\ ended' = "ok" /\ connUp' = replyWritten
  <2>1. kind \in Kinds
    BY DEF Kinds
  <2>2. clientUp /\ toClient # <<>> => Follows(toClient[Len(toClient)], Record(cur, kind))
    BY <1>3 DEF Ending, Follows, Record, Put
  <2>3. /\ ResponseOrder'
        /\ clientUp => toClient'[Len(toClient')] = Record(cur, kind)
    BY <1>3, <2>1, <2>2, PutOrder
  <2>4. clientUp' = clientUp
    BY <1>3 DEF Put
  <2>5. CASE replyWritten
    BY <1>3, <2>3, <2>4, <2>5 DEF Ending, Record
  <2>6. CASE ~replyWritten
    BY <1>3, <2>3, <2>6 DEF Ending
  <2> QED BY <2>5, <2>6
<1> QED BY <1>1, <1>2, <1>3 DEF CloseWrite

LEMMA OrderStep ==
  ASSUME TypeOK, Held, Ending, ResponseOrder, [Next]_vars
  PROVE  Ending' /\ ResponseOrder'
<1> USE DEF networkVars, serveVars, connVars, historyVars
<1>1. CASE Accept
  BY <1>1 DEF Accept, Take, Held, Ending, ResponseOrder
<1>2. CASE ServeNext
  <2>1. CASE FreshConn
    BY <1>2, <2>1 DEF ServeNext, Take, FreshConn, Held, Ending, ResponseOrder
  <2>2. CASE UNCHANGED <<cur, connVars>>
    <3>1. UNCHANGED <<toClient, clientUp>> /\ (connUp' => connUp)
      BY <1>2 DEF ServeNext, Take, Fail, Return
    <3> QED BY <2>2, <3>1, OrderKept
  <2> QED BY <1>2, <2>1, <2>2 DEF ServeNext
<1>3. CASE ServeRefuse
  <2>1. UNCHANGED <<toClient, clientUp, replyWritten, ended, cur>> /\ (connUp' => connUp)
    BY <1>3, Zenon DEF ServeRefuse, Fail, Return
  <2> QED BY <2>1, OrderKept
<1>4. CASE ServePing
  <2>1. CASE Put("error")
    <3>1. ResponseOrder'
      BY <1>4, <2>1, PutOrder DEF ServePing, Held, Ending, Follows, Kinds, Record, Put
    <3> QED BY <1>4, <3>1 DEF ServePing, Fail, Ending
  <2>2. CASE UNCHANGED networkVars
    BY <1>4, <2>2, OrderKept DEF ServePing, Fail
  <2> QED BY <1>4, <2>1, <2>2 DEF ServePing
<1>5. CASE ServePacket
  <2>1. CASE Put("reply") /\ replyWritten' = TRUE /\ UNCHANGED connUp
    <3>1. cur # Nobody /\ "reply" \in Kinds /\ serve = "dispatch"
      BY <1>5 DEF ServePacket, Held, Kinds
    <3>2. clientUp /\ toClient # <<>> => Follows(toClient[Len(toClient)], Record(cur, "reply"))
      BY <2>1, <3>1 DEF Held, Ending, Follows, Record, Put
    <3>3. /\ ResponseOrder'
          /\ clientUp => toClient'[Len(toClient')] = Record(cur, "reply")
      BY <2>1, <3>1, <3>2, PutOrder
    <3>4. UNCHANGED <<clientUp, cur, ended>> /\ ended = "no"
      BY <1>5, <2>1, <3>1 DEF ServePacket, Put, Held
    <3> QED BY <2>1, <3>3, <3>4 DEF Ending, Record
  <2>2. CASE UNCHANGED <<networkVars, replyWritten>> /\ connUp' = FALSE
    BY <1>5, <2>2, OrderKept DEF ServePacket
  <2> QED BY <1>5, <2>1, <2>2 DEF ServePacket, Fail
<1>6. CASE FirstPacket
  <2>1. UNCHANGED <<toClient, clientUp, replyWritten, ended, cur>> /\ (connUp' => connUp)
    BY <1>6, Zenon DEF FirstPacket, TakeData, Take, Fail, Return
  <2> QED BY <2>1, OrderKept
<1>7. CASE PacketEnd
  <2>1. UNCHANGED <<toClient, clientUp, replyWritten, ended, cur>> /\ (connUp' => connUp)
    BY <1>7, Zenon DEF PacketEnd, Fail, Return
  <2> QED BY <2>1, OrderKept
<1>8. CASE ServeConnect
  <2>1. UNCHANGED <<toClient, clientUp, replyWritten, ended, cur>> /\ (connUp' => connUp)
    BY <1>8, Zenon DEF ServeConnect
  <2> QED BY <2>1, OrderKept
<1>9. CASE ServeHandler
  <2>1. UNCHANGED <<toClient, clientUp, replyWritten, ended, cur>>
    BY <1>9 DEF ServeHandler, Fail, Return
  <2>2. connUp' = FALSE \/ connUp' = connUp
    BY <1>9 DEF ServeHandler, Fail
  <2> QED BY <2>1, <2>2, OrderKept
<1>10. CASE ServeCloseWrite
  BY <1>10, CloseWriteOrder DEF ServeCloseWrite, Held, connVars
<1>11. CASE ServeAfter
  <2>1. UNCHANGED <<toClient, clientUp, replyWritten, ended, cur>>
    BY <1>11 DEF ServeAfter, Fail, Return
  <2>2. connUp' = FALSE \/ connUp' = connUp
    BY <1>11 DEF ServeAfter, Fail
  <2> QED BY <2>1, <2>2, OrderKept
<1>12. CASE ServeDrain
  <2>1. UNCHANGED <<toClient, clientUp, replyWritten, ended, cur>>
    BY <1>12 DEF ServeDrain, TakeData, Take, Fail, Return
  <2>2. connUp' = FALSE \/ connUp' = connUp
    BY <1>12 DEF ServeDrain, TakeData, Take, Fail
  <2> QED BY <2>1, <2>2, OrderKept
<1>13. CASE UpRead
  <2>1. UNCHANGED <<toClient, clientUp, replyWritten, ended, cur>> /\ (connUp' => connUp)
    BY <1>13, Zenon DEF UpRead, TakeData, Take
  <2> QED BY <2>1, OrderKept
<1>14. CASE UpStop
  <2>1. UNCHANGED <<toClient, clientUp, replyWritten, ended, cur>> /\ (connUp' => connUp)
    BY <1>14, Zenon DEF UpStop
  <2> QED BY <2>1, OrderKept
<1>15. CASE UpStore
  <2>1. UNCHANGED <<toClient, clientUp, replyWritten, ended, cur>> /\ (connUp' => connUp)
    BY <1>15, Zenon DEF UpStore
  <2> QED BY <2>1, OrderKept
<1>16. CASE UpClose
  BY <1>16, CloseWriteOrder DEF UpClose, Held, connVars
<1>17. CASE DownClose
  BY <1>17, CloseWriteOrder DEF DownClose, Held, connVars
<1>18. CASE DownWrite
  <2>1. UNCHANGED <<toClient, clientUp, replyWritten, ended, cur>> /\ (connUp' => connUp)
    BY <1>18, Zenon DEF DownWrite
  <2> QED BY <2>1, OrderKept
<1>19. CASE DownRecord
  <2> DEFINE kind == IF replyWritten THEN "data" ELSE "reply"
  <2>1. CASE Put(kind) /\ replyWritten' = TRUE
    <3>1. kind \in {"data", "reply"} /\ kind \in Kinds
      BY DEF Kinds
    <3>2. clientUp /\ toClient # <<>> => Follows(toClient[Len(toClient)], Record(cur, kind))
      BY <1>19, <2>1 DEF DownRecord, Held, Ending, Follows, Record, Put
    <3>3. /\ ResponseOrder'
          /\ clientUp => toClient'[Len(toClient')] = Record(cur, kind)
      BY <1>19, <2>1, <3>1, <3>2, PutOrder DEF DownRecord, Held
    <3>4. UNCHANGED <<connUp, clientUp, ended, cur>>
      BY <1>19, <2>1 DEF DownRecord, Put
    <3>5. replyWritten' = TRUE /\ ended = "no"
      BY <1>19, <2>1 DEF DownRecord, Held
    <3> QED BY <3>1, <3>3, <3>4, <3>5 DEF Ending, Record
  <2>2. CASE UNCHANGED <<networkVars, replyWritten, sent>>
    BY <1>19, <2>2, OrderKept DEF DownRecord
  <2> QED BY <1>19, <2>1, <2>2 DEF DownRecord
<1>20. CASE DownStop
  <2>1. UNCHANGED <<toClient, clientUp, replyWritten, ended, cur>> /\ (connUp' => connUp)
    BY <1>20, Zenon DEF DownStop
  <2> QED BY <2>1, OrderKept
<1>21. CASE Complete
  <2>1. UNCHANGED <<toClient, clientUp, replyWritten, ended, cur>> /\ (connUp' => connUp)
    BY <1>21, Zenon DEF Complete
  <2> QED BY <2>1, OrderKept
<1>22. CASE Client
  <2>1. UNCHANGED <<connUp, replyWritten, ended, cur>>
    BY <1>22 DEF Client
  <2>2. CASE ClientRead
    BY <2>1, <2>2, TailOrder DEF ClientRead
  <2>3. CASE UNCHANGED toClient /\ (clientUp' => clientUp)
    BY <2>1, <2>3, OrderKept
  <2> QED BY <1>22, <2>2, <2>3 DEF Client, ClientWrite, ClientGone
<1>23. CASE Cancel
  <2>1. UNCHANGED <<toClient, clientUp, replyWritten, ended, cur>> /\ (connUp' => connUp)
    BY <1>23, Zenon DEF Cancel
  <2> QED BY <2>1, OrderKept
<1>24. CASE UNCHANGED vars
  BY <1>24, OrderKept DEF vars
<1> QED
  BY <1>1, <1>2, <1>3, <1>4, <1>5, <1>6, <1>7, <1>8, <1>9, <1>10, <1>11, <1>12, <1>13, <1>14, <1>15, <1>16, <1>17, <1>18, <1>19, <1>20, <1>21, <1>22, <1>23, <1>24
  DEF Next, Serve, Handler, Upload, Download

-----------------------------------------------------------------------------
LEMMA InitInv == Init => Inv
<1> SUFFICES ASSUME Init PROVE Inv
  OBVIOUS
<1> USE ServerAssumption DEF Init
<1>1. Flags
  BY DEF Flags
<1>2. TypeOK
  BY <1>1, EmptySeq DEF TypeOK, ServePc
<1>3. Held /\ Ending
  BY DEF Held, Ending
<1>4. ResponseOrder
  BY EmptySeq DEF ResponseOrder
<1> QED BY <1>2, <1>3, <1>4 DEF Inv, WriteOrder

LEMMA StepInv == Inv /\ [Next]_vars => Inv'
BY TypeStep, HeldStep, OrderStep DEF Inv, WriteOrder

LEMMA AlwaysInv == Spec => []Inv
BY InitInv, StepInv, PTL DEF Spec

\* Every variable of the server keeps its type; in particular the drain reads no
\* more than WaitingDiscardLimit and a response has no more than its bound.
THEOREM ServerTypeCorrect == Spec => []TypeOK
<1>1. Inv => TypeOK
  BY DEF Inv
<1> QED BY <1>1, AlwaysInv, PTL

\* No goroutine writes behind the zero chunk or the error another one wrote, for any
\* number of connections and any client.
THEOREM ResponsesOrdered == Spec => []ResponseOrder
<1>1. Inv => ResponseOrder
  BY DEF Inv, WriteOrder
<1> QED BY <1>1, AlwaysInv, PTL

\* The lock and closeWriteOnce keep the goroutines of a connection apart.
THEOREM WritersAgree == Spec => []WriteOrder
<1>1. Inv => WriteOrder
  BY DEF Inv
<1> QED BY <1>1, AlwaysInv, PTL

\* onClose runs when Serve returns, or when the packet handler is done, and once.
THEOREM OnClosedOnce == Spec => []OnCloseOnce
<1>1. Init => OnCloseOnce
  BY DEF Init, OnCloseOnce
<1>2. OnCloseOnce /\ [Next]_vars => OnCloseOnce'
  <2> SUFFICES ASSUME OnCloseOnce, [Next]_vars PROVE OnCloseOnce'
    OBVIOUS
  <2> USE DEF OnCloseOnce, serveVars
  <2>1. CASE Accept \/ ServeNext
    BY <2>1 DEF Accept, ServeNext, Return, Fail
  <2>2. CASE ServeRefuse \/ ServePing \/ PacketEnd
    BY <2>2 DEF ServeRefuse, ServePing, PacketEnd, Return, Fail
  <2>3. CASE ServePacket \/ FirstPacket
    BY <2>3 DEF ServePacket, FirstPacket, Return, Fail
  <2>4. CASE ServeConnect \/ ServeHandler \/ ServeCloseWrite
    BY <2>4 DEF ServeConnect, ServeHandler, ServeCloseWrite, Return, Fail
  <2>5. CASE ServeAfter \/ ServeDrain
    BY <2>5 DEF ServeAfter, ServeDrain, Return, Fail
  <2>6. CASE Handler
    BY <2>6 DEF Handler, Upload, Download, UpRead, UpStop, UpStore, UpClose, DownWrite,
                DownRecord, DownStop, DownClose, Complete
  <2>7. CASE Client \/ Cancel \/ UNCHANGED vars
    BY <2>7 DEF Client, Cancel, vars
  <2> QED BY <2>1, <2>2, <2>3, <2>4, <2>5, <2>6, <2>7 DEF Next, Serve
<1> QED BY <1>1, <1>2, PTL DEF Spec

-----------------------------------------------------------------------------
(***************************************************************************)
(* The request streams.  The client writes one after another; the handler, *)
(* its drain and Serve divide them among themselves at the zero chunks.    *)
(***************************************************************************)

\* Serve has taken a request, and its stream is not read to the end.
Inside == cur # Nobody /\ ~requestEOF

\* A request stream begins at record i, or it goes on with a record of connection d.
OpensAt(i)    == IF i = 1 THEN ~Inside ELSE toServer[i - 1].kind = "eof"
GoesOn(i, d)  == IF i = 1 THEN Inside /\ cur = d
                          ELSE toServer[i - 1].kind # "eof" /\ toServer[i - 1].conn = d

\* What is on its way: requests stand where streams begin, every other record belongs
\* to the stream before it, and the client goes on where the last one stops.
Carries ==
  /\ \A i \in 1 .. Len(toServer) : toServer[i].kind = "request" <=> OpensAt(i)
  /\ \A i \in 1 .. Len(toServer) : OpensAt(i) \/ GoesOn(i, toServer[i].conn)
  /\ \A d \in Conns : wrote[d] = "request" <=> GoesOn(Len(toServer) + 1, d)

\* How far the handler and Serve are with the stream.
Dried == requestEOF \/ (~clientUp /\ toServer = <<>>)

Uploads ==
  /\ serve \in {"accept", "rejected"} => cur = Nobody
  /\ serve \in {"accept", "dispatch", "first", "drain"} => ~requestEOF /\ ~readClosed
  /\ serve \in {"accept", "dispatch"} => ~completed
  /\ completed => up = "done"
  /\ serve \in {"closeWrite", "after", "drain", "next"} => up = "done"
  /\ up = "read" => ~requestEOF
  /\ serve \in {"handler", "closeWrite", "after"} /\ requestEOF => readClosed \/ up = "store"
  /\ serve = "next" \/ readClosed \/ up = "store" => Dried

UploadInv == Uploads /\ (OrderlyClient /\ connUp => Carries)


\* Who reads how far.
LEMMA UploadsStep ==
  ASSUME TypeOK, Held, Uploads, [Next]_vars
  PROVE  Uploads'
<1> USE DEF TypeOK, Flags, Held, Uploads, Dried, networkVars, serveVars, connVars, historyVars
<1>0. Take => toServer # <<>>
  BY DEF Take
<1>1. CASE Accept
  <2>1. CASE Take /\ serve' = "dispatch"
    BY <1>1, <2>1 DEF Accept, Take
  <2>2. CASE serve' = "rejected" /\ UNCHANGED <<networkVars, cur>>
    BY <1>1, <2>2 DEF Accept
  <2> QED
    BY <1>1, <2>1, <2>2 DEF Accept
<1>2. CASE ServeNext
  <2>1. CASE serve' = "dispatch" /\ requestEOF' = FALSE /\ FreshConn
    BY <2>1 DEF FreshConn
  <2>2. CASE serve' = "done" /\ UNCHANGED <<cur, up, connVars, requestEOF>>
    <3>1. Dried /\ up = "done"
      BY <1>2 DEF ServeNext
    <3>2. Dried'
      BY <1>2, <2>2, <3>1 DEF ServeNext, Take
    <3> QED
      BY <2>2, <3>1, <3>2
  <2> QED
    BY <1>2, <2>1, <2>2 DEF ServeNext, Fail, Return
<1>3. CASE ServeRefuse
  BY <1>3 DEF ServeRefuse, Fail, Return
<1>4. CASE ServePing
  BY <1>4 DEF ServePing, Put, Fail, Return
<1>5. CASE ServePacket
  BY <1>5 DEF ServePacket, Put, Fail, Return
<1>6. CASE FirstPacket
  BY <1>6 DEF FirstPacket, TakeData, Take, Fail, Return
<1>7. CASE PacketEnd
  BY <1>7 DEF PacketEnd, Fail, Return
<1>8. CASE ServeConnect
  BY <1>8 DEF ServeConnect
<1>9. CASE ServeHandler
  BY <1>9 DEF ServeHandler, Fail, Return
<1>10. CASE ServeCloseWrite
  <2>1. UNCHANGED <<toServer, clientUp>>
    BY <1>10 DEF ServeCloseWrite, CloseWrite, Put
  <2> QED
    BY <1>10, <2>1 DEF ServeCloseWrite
<1>11. CASE ServeAfter
  BY <1>11 DEF ServeAfter, Fail, Return
<1>12. CASE ServeDrain
  BY <1>12 DEF ServeDrain, TakeData, Take, StreamEnds, Fail, Return
<1>13. CASE UpRead
  BY <1>13 DEF UpRead, TakeData, Take, StreamEnds
<1>14. CASE UpStop
  BY <1>14 DEF UpStop
<1>15. CASE UpStore
  BY <1>15 DEF UpStore
<1>16. CASE UpClose
  <2>1. UNCHANGED <<toServer, clientUp>>
    BY <1>16 DEF UpClose, CloseWrite, Put
  <2> QED
    BY <1>16, <2>1 DEF UpClose
<1>17. CASE DownClose
  <2>1. UNCHANGED <<toServer, clientUp>>
    BY <1>17 DEF DownClose, CloseWrite, Put
  <2> QED
    BY <1>17, <2>1 DEF DownClose
<1>18. CASE DownWrite
  BY <1>18 DEF DownWrite
<1>19. CASE DownRecord
  <2>1. UNCHANGED <<toServer, clientUp>>
    BY <1>19 DEF DownRecord, Put
  <2> QED
    BY <1>19, <2>1 DEF DownRecord
<1>20. CASE DownStop
  BY <1>20 DEF DownStop
<1>21. CASE Complete
  BY <1>21 DEF Complete
<1>22. CASE Client
  <2>1. Dried => Dried'
    BY <1>22 DEF Client, ClientWrite, ClientRead, ClientGone
  <2> QED
    BY <1>22, <2>1 DEF Client
<1>23. CASE Cancel
  BY <1>23 DEF Cancel
<1>24. CASE UNCHANGED vars
  BY <1>24 DEF vars
<1> QED
  BY <1>1, <1>2, <1>3, <1>4, <1>5, <1>6, <1>7, <1>8, <1>9, <1>10, <1>11, <1>12, <1>13, <1>14, <1>15, <1>16, <1>17, <1>18, <1>19, <1>20, <1>21, <1>22, <1>23, <1>24
  DEF Next, Serve, Handler, Upload, Download

\* What a reader takes off the front of the streams.
LEMMA TakeCarries ==
  ASSUME TypeOK, Carries, Take,
         cur' = IF Inside THEN cur ELSE Head(toServer).conn,
         requestEOF' <=> (Head(toServer).kind = "eof")
  PROVE  Carries' /\ (Head(toServer).kind = "request" <=> ~Inside) /\ (Inside => Head(toServer).conn = cur)
<1> DEFINE q == toServer
           n == Len(toServer)
<1>1. /\ q \in Seq(Records) /\ n \in Nat \ {0} /\ q' = Tail(q) /\ Len(q') = n - 1
      /\ Head(q) = q[1] /\ \A i \in 1 .. n - 1 : q'[i] = q[i + 1]
  BY HeadTailProperties DEF TypeOK, Take
<1>2. q[1] \in Records /\ q[1].conn \in Conns /\ q[1].conn # Nobody
  <2>1. q[1] \in Records
    BY <1>1, ElementOfSeq
  <2> QED
    BY <2>1, ServerAssumption DEF Records
<1>3. (q[1].kind = "request" <=> ~Inside) /\ (Inside => q[1].conn = cur)
  BY <1>1 DEF Carries, OpensAt, GoesOn
<1>4. (Inside' <=> q[1].kind # "eof") /\ cur' = q[1].conn
  BY <1>1, <1>2, <1>3 DEF Inside
<1>5. ASSUME NEW i \in 1 .. n
      PROVE  /\ OpensAt(i)' <=> OpensAt(i + 1)
             /\ \A d : GoesOn(i, d)' <=> GoesOn(i + 1, d)
  BY <1>1, <1>4 DEF OpensAt, GoesOn
<1>6. wrote' = wrote
  BY DEF Take
<1>7. \A i \in 1 .. n - 1 : q'[i].kind = "request" <=> OpensAt(i)'
  BY <1>1, <1>5 DEF Carries
<1>8. ASSUME NEW i \in 1 .. n - 1 PROVE OpensAt(i)' \/ GoesOn(i, toServer[i].conn)'
  <2>1. i + 1 \in 1 .. n /\ i \in 1 .. n /\ q'[i].conn = q[i + 1].conn
    BY <1>1
  <2>2. PICK d : d = q[i + 1].conn
    OBVIOUS
  <2>3. OpensAt(i + 1) \/ GoesOn(i + 1, d)
    BY <2>1, <2>2 DEF Carries
  <2>4. OpensAt(i)' \/ GoesOn(i, d)'
    BY <1>5, <2>1, <2>3
  <2> QED
    BY <2>1, <2>2, <2>4 DEF GoesOn
<1>9. ASSUME NEW d \in Conns PROVE wrote'[d] = "request" <=> GoesOn(Len(toServer) + 1, d)'
  <2>0. n \in 1 .. n
    BY <1>1
  <2> PICK m \in 1 .. n : m = n
    BY <2>0
  <2>1. wrote[d] = "request" <=> GoesOn(m + 1, d)
    BY DEF Carries
  <2>2. GoesOn(m, d)' <=> GoesOn(m + 1, d)
    BY <1>5
  <2>3. Len(q') + 1 = m
    BY <1>1
  <2> QED
    BY <1>6, <2>1, <2>2, <2>3 DEF GoesOn
<1> HIDE DEF q, n
<1>10. Len(toServer') = n - 1
  BY <1>1 DEF q
<1> QED
  BY <1>3, <1>7, <1>8, <1>9, <1>10 DEF Carries, q

\* What an orderly client adds at the end.
LEMMA WriteCarries ==
  ASSUME TypeOK, Carries, OrderlyClient, connUp, NEW c \in Conns, NEW kind \in {"request", "data", "eof"},
         ClientWrite(c, kind), UNCHANGED <<cur, requestEOF>>
  PROVE  Carries'
<1> DEFINE q == toServer
           n == Len(toServer)
           r == Record(c, kind)
<1>1. r \in Records /\ r.kind = kind /\ r.conn = c
  BY RecordType DEF Kinds
<1>2. /\ q \in Seq(Records) /\ n \in Nat /\ Len(q') = n + 1
      /\ q'[n + 1] = r /\ \A i \in 1 .. n : q'[i] = q[i]
  BY <1>1, AppendProperties DEF TypeOK, ClientWrite
<1>3. ASSUME NEW i \in 1 .. n + 1
      PROVE  (OpensAt(i)' <=> OpensAt(i)) /\ \A d : GoesOn(i, d)' <=> GoesOn(i, d)
  BY <1>2 DEF OpensAt, GoesOn, Inside
<1>4. \A d : GoesOn(Len(toServer) + 1, d)' <=> (kind # "eof" /\ d = c)
  BY <1>1, <1>2 DEF GoesOn
<1>5. (kind = "request" <=> OpensAt(n + 1)) /\ (OpensAt(n + 1) \/ GoesOn(n + 1, c))
  <2>1. CASE wrote[c] = "request"
    <3>1. GoesOn(n + 1, c) /\ kind # "request"
      BY <2>1 DEF Carries, ClientWrite, MayWrite
    <3> QED
      BY <1>2, <3>1 DEF GoesOn, OpensAt
  <2>2. CASE wrote[c] # "request"
    <3>1. kind = "request" /\ \A d \in Conns : wrote[d] # "request"
      BY <2>2 DEF ClientWrite, MayWrite
    <3>2. \A d \in Conns : ~GoesOn(n + 1, d)
      BY <3>1 DEF Carries
    <3>3. OpensAt(n + 1)
      <4>1. CASE n = 0
        BY <3>2, <4>1 DEF OpensAt, GoesOn, Inside, TypeOK
      <4>2. CASE n # 0
        <5>0. n \in 1 .. n /\ q \in Seq(Records)
          BY <1>2, <4>2
        <5>1. PICK m \in 1 .. Len(toServer) : m = n
          BY <5>0
        <5>2. toServer[m] \in Records
          BY <5>0, <5>1, ElementOfSeq
        <5>3. toServer[m].conn \in Conns
          BY <5>2 DEF Records
        <5> HIDE DEF n, q
        <5> QED
          BY <1>2, <3>2, <4>2, <5>1, <5>3 DEF OpensAt, GoesOn, n, q
      <4> QED
        BY <4>1, <4>2
    <3> QED
      BY <3>1, <3>3
  <2> QED
    BY <2>1, <2>2
<1>6. ASSUME NEW d \in Conns PROVE wrote'[d] = "request" <=> (kind # "eof" /\ d = c)
  <2>1. wrote' = [wrote EXCEPT ![c] = IF kind = "data" THEN @ ELSE kind] /\ MayWrite(c, kind)
    BY DEF ClientWrite
  <2>2. CASE d = c
    BY <2>1, <2>2 DEF MayWrite, TypeOK
  <2>3. CASE d # c
    <3>1. wrote[d] # "request"
      <4>1. CASE kind = "request"
        BY <2>1, <4>1 DEF MayWrite
      <4>2. CASE kind # "request"
        <5>1. GoesOn(n + 1, c)
          BY <2>1, <4>2 DEF MayWrite, Carries
        <5>2. ~GoesOn(n + 1, d)
          BY <1>2, <2>3, <5>1 DEF GoesOn
        <5> QED
          BY <5>2 DEF Carries
      <4> QED
        BY <4>1, <4>2
    <3> QED
      BY <2>1, <2>3, <3>1 DEF TypeOK
  <2> QED
    BY <2>2, <2>3
<1>7. \A i \in 1 .. n + 1 : q'[i].kind = "request" <=> OpensAt(i)'
  BY <1>1, <1>2, <1>3, <1>5 DEF Carries
<1>8. ASSUME NEW i \in 1 .. n + 1 PROVE OpensAt(i)' \/ GoesOn(i, toServer[i].conn)'
  <2>1. PICK d : d = q'[i].conn
    OBVIOUS
  <2>2. OpensAt(i) \/ GoesOn(i, d)
    BY <1>1, <1>2, <1>5, <2>1 DEF Carries
  <2>3. OpensAt(i)' \/ GoesOn(i, d)'
    BY <1>3, <2>2
  <2> QED
    BY <2>1, <2>3 DEF GoesOn
<1> HIDE DEF q, n
<1>9. Len(toServer') = n + 1
  BY <1>2 DEF q
<1> QED
  BY <1>4, <1>6, <1>7, <1>8, <1>9 DEF Carries, q

\* A step that neither reads nor writes the request stream, and leaves Serve with the
\* connection it has.
LEMMA FrameCarries ==
  ASSUME Carries, UNCHANGED <<toServer, wrote, cur, requestEOF>>
  PROVE  Carries'
BY DEF Carries, OpensAt, GoesOn, Inside

\* What is taken while the stream of the connection goes on is its next record.
LEMMA DataCarries ==
  ASSUME TypeOK, Carries, TakeData, Inside, cur' = cur
  PROVE  Carries' /\ Head(toServer).conn = cur
BY TakeCarries DEF TakeData

\* A broken connection stays broken.
LEMMA BrokenStays ==
  ASSUME TypeOK, connUp', [Next]_vars
  PROVE  connUp
BY DEF TypeOK, Flags, Next, vars, networkVars, serveVars, connVars, historyVars,
       Serve, Handler, Upload, Download, Accept, ServeNext, ServeRefuse, ServePing, ServePacket,
       FirstPacket, PacketEnd, ServeConnect, ServeHandler, ServeCloseWrite, ServeAfter, ServeDrain,
       UpRead, UpStop, UpStore, UpClose, DownClose, DownWrite, DownRecord, DownStop, Complete,
       Client, Cancel, CloseWrite, Put, Take, TakeData, Fail, Return, StreamEnds

\* The streams stay in order as long as the connection lives.
LEMMA CarriesStep ==
  ASSUME OrderlyClient, TypeOK, Held, Uploads, Carries, connUp, connUp', [Next]_vars
  PROVE  Carries'
<1> USE DEF networkVars, serveVars, connVars, historyVars
<1>1. CASE Accept
  <2>1. CASE Take /\ Head(toServer).kind = "request" /\ cur' = Head(toServer).conn
    <3>1. ~Inside /\ ~requestEOF /\ ~requestEOF'
      BY <1>1, <2>1 DEF Accept, Inside, Uploads
    <3> QED
      BY <2>1, <3>1, TakeCarries
  <2>2. CASE UNCHANGED <<networkVars, cur>>
    BY <1>1, <2>2, FrameCarries DEF Accept
  <2> QED
    BY <1>1, <2>1, <2>2 DEF Accept
<1>2. CASE ServeNext
  <2>1. ASSUME Take PROVE ~Inside /\ Head(toServer).kind = "request"
    <3>1. ~Inside
      BY <1>2, <2>1 DEF ServeNext, Uploads, Dried, Take, Inside
    <3>2. toServer # <<>> /\ toServer[1] = Head(toServer) /\ 1 \in 1 .. Len(toServer)
      BY <2>1, HeadTailProperties DEF Take, TypeOK
    <3> QED
      BY <3>1, <3>2 DEF Carries, OpensAt
  <2>2. CASE Take
    <3>1. cur' = Head(toServer).conn /\ requestEOF' = FALSE
      BY <1>2, <2>1, <2>2 DEF ServeNext, Take, ReadFails, StreamEnds
    <3> QED
      BY <2>1, <2>2, <3>1, TakeCarries
  <2>3. CASE UNCHANGED <<networkVars, cur, requestEOF>>
    BY <2>3, FrameCarries
  <2> QED
    BY <1>2, <2>2, <2>3 DEF ServeNext
<1>3. CASE FirstPacket
  <2>1. CASE TakeData
    <3>1. Inside /\ cur' = cur
      BY <1>3 DEF FirstPacket, Held, Uploads, Inside
    <3> QED
      BY <2>1, <3>1, DataCarries
  <2>2. CASE UNCHANGED <<networkVars, historyVars>>
    BY <1>3, <2>2, FrameCarries DEF FirstPacket
  <2> QED
    BY <1>3, <2>1, <2>2 DEF FirstPacket
<1>4. CASE ServeDrain
  <2>1. CASE TakeData
    <3>1. Inside /\ cur' = cur
      BY <1>4 DEF ServeDrain, Held, Uploads, Inside
    <3> QED
      BY <2>1, <3>1, DataCarries
  <2>2. CASE UNCHANGED <<networkVars, historyVars>>
    BY <1>4, <2>2, FrameCarries DEF ServeDrain
  <2> QED
    BY <1>4, <2>1, <2>2 DEF ServeDrain
<1>5. CASE UpRead
  <2>1. CASE TakeData
    <3>1. Inside /\ cur' = cur
      BY <1>5 DEF UpRead, Held, Uploads, Inside
    <3> QED
      BY <2>1, <3>1, DataCarries
  <2>2. CASE UNCHANGED <<networkVars, historyVars>>
    BY <1>5, <2>2, FrameCarries DEF UpRead
  <2> QED
    BY <1>5, <2>1, <2>2 DEF UpRead
<1>6. CASE Client
  <2>1. UNCHANGED <<cur, requestEOF>>
    BY <1>6 DEF Client
  <2>2. CASE \E c \in Conns, kind \in {"request", "data", "eof"} : ClientWrite(c, kind)
    BY <2>1, <2>2, WriteCarries
  <2>3. CASE ClientRead \/ ClientGone
    BY <2>1, <2>3, FrameCarries DEF ClientRead, ClientGone
  <2> QED
    BY <1>6, <2>2, <2>3 DEF Client
<1>7. CASE ServeCloseWrite \/ UpClose \/ DownClose
  <2>1. UNCHANGED <<toServer, wrote, cur, requestEOF>>
    BY <1>7 DEF ServeCloseWrite, UpClose, DownClose, CloseWrite, Put
  <2> QED
    BY <2>1, FrameCarries
<1>8. CASE ServeRefuse \/ ServePing \/ ServePacket \/ PacketEnd \/ ServeConnect \/ ServeHandler \/ ServeAfter
  <2>1. UNCHANGED <<toServer, wrote, cur, requestEOF>>
    BY <1>8 DEF ServeRefuse, ServePing, ServePacket, PacketEnd, ServeConnect, ServeHandler, ServeAfter, Put
  <2> QED
    BY <2>1, FrameCarries
<1>9. CASE UpStop \/ UpStore \/ DownWrite \/ DownRecord \/ DownStop \/ Complete \/ Cancel \/ UNCHANGED vars
  <2>1. UNCHANGED <<toServer, wrote, cur, requestEOF>>
    BY <1>9 DEF UpStop, UpStore, DownWrite, DownRecord, DownStop, Complete, Cancel, vars, Put
  <2> QED
    BY <2>1, FrameCarries
<1> QED
  BY <1>1, <1>2, <1>3, <1>4, <1>5, <1>6, <1>7, <1>8, <1>9 DEF Next, Serve, Handler, Upload, Download

LEMMA InitUploads == Init => UploadInv
<1> SUFFICES ASSUME Init PROVE UploadInv
  OBVIOUS
<1>1. Uploads
  BY DEF Init, Uploads, Dried
<1>2. Carries
  <2>1. Len(toServer) = 0 /\ ~Inside
    BY DEF Init, Inside
  <2> QED
    BY <2>1 DEF Init, Carries, OpensAt, GoesOn
<1> QED
  BY <1>1, <1>2 DEF UploadInv

LEMMA UploadInvStep == Inv /\ UploadInv /\ [Next]_vars => UploadInv'
<1> SUFFICES ASSUME Inv, UploadInv, [Next]_vars PROVE UploadInv'
  OBVIOUS
<1>1. TypeOK /\ Held /\ Uploads
  BY DEF Inv, WriteOrder, UploadInv
<1>2. Uploads'
  BY <1>1, UploadsStep
<1>3. ASSUME OrderlyClient, connUp' PROVE Carries'
  <2>1. connUp
    BY <1>1, <1>3, BrokenStays
  <2>2. Carries
    BY <1>3, <2>1 DEF UploadInv
  <2> QED
    BY <1>1, <1>3, <2>1, <2>2, CarriesStep
<1> QED
  BY <1>2, <1>3 DEF UploadInv

LEMMA UploadsOwn == Inv /\ UploadInv => OwnRequest
<1> SUFFICES ASSUME TypeOK, Held, Uploads, Carries, toServer # <<>>
             PROVE  /\ up = "read" \/ serve = "drain" => Head(toServer).conn = cur
                    /\ serve \in {"accept", "next"} => Head(toServer).kind = "request"
  BY DEF OwnRequest, Inv, WriteOrder, UploadInv
<1>1. Head(toServer) = toServer[1] /\ 1 \in 1 .. Len(toServer)
  BY HeadTailProperties DEF TypeOK
<1>2. up = "read" \/ serve = "drain" => Inside
  BY DEF Held, Uploads, Inside
<1>3. serve \in {"accept", "next"} => ~Inside
  BY DEF Uploads, Dried, Inside
<1> QED
  BY <1>1, <1>2, <1>3 DEF Carries, OpensAt, GoesOn

\* The handler and the drain of a logical connection read the records of its own
\* request stream, and Serve reads a request where it expects one (OwnRequest):
\* readClosed, requestEOF and the drain agree on where a stream ends, whoever read
\* its zero chunk, also when the handler gives up or the client has gone.
THEOREM RequestsKeptApart == Spec => []OwnRequest
<1>1. Inv /\ UploadInv /\ [Next]_vars => (Inv /\ UploadInv)'
  BY StepInv, UploadInvStep
<1>2. Init => Inv /\ UploadInv
  BY InitInv, InitUploads
<1> QED
  BY <1>1, <1>2, UploadsOwn, PTL DEF Spec

-----------------------------------------------------------------------------
(***************************************************************************)
(* The far end of ReuseTunnel.  Every step of the server, its handlers and *)
(* its client is a step of the abstract far end or of its client, or none. *)
(***************************************************************************)

\* What the steps of the handler are worth once Serve is done with the connection.
Served ==
  /\ serve = "accept" => sent = 0
  /\ completed => up = "done" /\ down = "done"
  /\ serve \in {"closeWrite", "after", "drain", "next"} => completed
  /\ serve = "done" /\ connUp => up = "done" /\ down = "done"

LEMMA ServedStep ==
  ASSUME TypeOK, Held, Uploads, Served, [Next]_vars
  PROVE  Served'
<1> USE DEF TypeOK, Flags, Held, Uploads, Served, networkVars, serveVars, connVars, historyVars
<1>1. CASE Accept
  BY <1>1 DEF Accept
<1>2. CASE ServeNext
  BY <1>2 DEF ServeNext, FreshConn, Fail, Return
<1>3. CASE ServeRefuse \/ ServePing \/ PacketEnd
  BY <1>3 DEF ServeRefuse, ServePing, PacketEnd, Fail, Return
<1>4. CASE ServePacket \/ FirstPacket
  BY <1>4 DEF ServePacket, FirstPacket, Fail, Return
<1>5. CASE ServeConnect \/ ServeHandler
  BY <1>5 DEF ServeConnect, ServeHandler, Fail, Return
<1>6. CASE ServeCloseWrite
  BY <1>6 DEF ServeCloseWrite
<1>7. CASE ServeAfter
  BY <1>7 DEF ServeAfter, Fail, Return
<1>8. CASE ServeDrain
  BY <1>8 DEF ServeDrain, Fail, Return
<1>9. CASE UpRead \/ UpStop \/ UpStore
  BY <1>9 DEF UpRead, UpStop, UpStore
<1>10. CASE UpClose \/ DownClose
  <2>1. connUp' => connUp
    BY <1>10 DEF UpClose, DownClose, CloseWrite, Put
  <2> QED
    BY <1>10, <2>1 DEF UpClose, DownClose
<1>11. CASE DownWrite \/ DownStop \/ Complete
  BY <1>11 DEF DownWrite, DownStop, Complete
<1>12. CASE DownRecord
  BY <1>12 DEF DownRecord
<1>13. CASE Client \/ Cancel \/ UNCHANGED vars
  BY <1>13 DEF Client, Cancel, vars
<1> QED
  BY <1>1, <1>2, <1>3, <1>4, <1>5, <1>6, <1>7, <1>8, <1>9, <1>10, <1>11, <1>12, <1>13
  DEF Next, Serve, Handler, Upload, Download

\* The tunnel is served.
Open == connUp /\ clientUp /\ serve \notin {"done", "rejected"}

\* The state of the abstract far end.
LEMMA RequestMaps ==
  ASSUME Open, Phase = "idle", toServer # <<>>, toServer' = Tail(toServer), Head(toServer).kind = "request",
         Phase' = "called", cur' = Head(toServer).conn, requestEOF' = FALSE, sent' = 0,
         connUp', serve' \notin {"done", "rejected"}, UNCHANGED <<toClient, misread>>
  PROVE  Tunnel!PeerRequest("tun")
BY DEF Open, Only, Tun, Tunnel!PeerRequest, Tunnel!Serving

LEMMA EndMaps ==
  ASSUME Open, Phase = "idle", toServer # <<>>, toServer' = Tail(toServer), Head(toServer).kind # "request",
         serve' = "done", misread' = (Head(toServer).kind # "eof"),
         UNCHANGED <<toClient, Phase, cur, requestEOF, sent>>
  PROVE  Tunnel!PeerRequest("tun")
BY DEF Open, Only, Tun, Tunnel!PeerRequest, Tunnel!Serving

LEMMA DataMaps ==
  ASSUME TypeOK, Open, cur # Nobody, ~requestEOF, TakeData, connUp', serve' \notin {"done", "rejected"},
         UNCHANGED <<cur, ended, aborted, replyWritten, sent>>
  PROVE  Tunnel!PeerRead("tun")
<1>1. Phase # "idle" /\ Phase' = Tunnel!NextPhase("tun", Phase, Head(toServer).kind = "eof")
  BY DEF Phase, TakeData, Tunnel!NextPhase, TypeOK, Flags
<1> QED
  BY <1>1 DEF Open, Only, Tun, TakeData, Take, Tunnel!PeerRead, Tunnel!Serving, Tunnel!NextPhase, TypeOK, Flags

LEMMA ReplyMaps ==
  ASSUME Open, Phase = "called", Phase' = "replied", Put("reply"), connUp', serve' \notin {"done", "rejected"},
         UNCHANGED <<cur, requestEOF, sent, misread>>
  PROVE  Tunnel!PeerReply("tun")
BY DEF Open, Only, Tun, Put, Record, Tunnel!Record, Tunnel!Reply, Tunnel!PeerReply, Tunnel!Serving

LEMMA SentMaps ==
  ASSUME TypeOK, Open, Phase = "replied", sent < MaxData, sent' = sent + 1, Put("data"), connUp', serve' \notin {"done", "rejected"},
         UNCHANGED <<Phase, cur, requestEOF, misread>>
  PROVE  Tunnel!PeerData("tun")
BY DEF Open, Only, Tun, Put, Record, Tunnel!Record, Tunnel!Reply, Tunnel!PeerData, Tunnel!Serving

LEMMA ChunkMaps ==
  ASSUME Open, Phase = "replied", Phase' = (IF requestEOF THEN "idle" ELSE "ended"), Put("eof"),
         connUp', serve' \notin {"done", "rejected"}, UNCHANGED <<cur, requestEOF, sent, misread>>
  PROVE  Tunnel!PeerEnd("tun")
BY DEF Open, Only, Tun, Put, Record, Tunnel!Record, Tunnel!Reply, Tunnel!PeerEnd, Tunnel!Serving, Tunnel!NextPhase

LEMMA AbortMaps ==
  ASSUME Open, Phase = "called", Put("error"), ~connUp', UNCHANGED <<Phase, cur, requestEOF, sent, misread>>
  PROVE  Tunnel!PeerAbort("tun")
BY DEF Open, Only, Tun, Put, Record, Tunnel!Record, Tunnel!Reply, Tunnel!PeerAbort, Tunnel!Serving

LEMMA GoneMaps ==
  ASSUME Open, ~connUp' \/ serve' \in {"done", "rejected"},
         UNCHANGED <<toServer, toClient, Phase, cur, requestEOF, sent, misread>>
  PROVE  Tunnel!PeerGone("tun")
BY DEF Open, Only, Tun, Tunnel!PeerGone, Tunnel!Serving

LEMMA StutterMaps ==
  ASSUME UNCHANGED <<toServer, toClient, Phase, cur, requestEOF, sent, misread>>,
         UNCHANGED (connUp /\ serve \notin {"done", "rejected"})
  PROVE  UNCHANGED Tunnel!tunnelVars
BY DEF Only, Tun, Tunnel!tunnelVars

LEMMA WriteMaps ==
  ASSUME TypeOK, NEW c \in Conns, NEW kind \in {"request", "data", "eof"}, ClientWrite(c, kind),
         UNCHANGED <<Phase, cur, requestEOF, sent, misread>>,
         UNCHANGED (connUp /\ serve \notin {"done", "rejected"})
  PROVE  Tunnel!ClientStep("tun")
<1> DEFINE m == Len(toServer)
           new == SubSeq(toServer', m + 1, Len(toServer'))
<1>1. Record(c, kind) \in Records
  BY RecordType DEF Kinds
<1>2. toServer \in Seq(Records) /\ m \in Nat /\ toServer' \in Seq(Records)
  BY <1>1, AppendProperties DEF TypeOK, ClientWrite
<1>3. Len(toServer') >= m /\ toServer' = toServer \o new
  <2>1. CASE connUp
    <3>1. Len(toServer') = m + 1 /\ toServer' = Append(toServer, Record(c, kind)) /\ toServer'[m + 1] = Record(c, kind)
      BY <1>1, <1>2, <2>1, AppendProperties DEF ClientWrite
    <3>2. new = << Record(c, kind) >>
      <4>1. SubSeq(toServer', m + 1, m + 1) = << toServer'[m + 1] >> \o SubSeq(toServer', m + 1 + 1, m + 1)
        BY <1>2, <3>1, SubSeqRecursiveFirst
      <4>2. SubSeq(toServer', m + 1 + 1, m + 1) = << >>
        BY <1>2, SubSeqEmpty
      <4>3. << Record(c, kind) >> \o << >> = << Record(c, kind) >>
        BY <1>1, ConcatEmptySeq
      <4> QED
        BY <3>1, <4>1, <4>2, <4>3
    <3> QED
      BY <1>1, <1>2, <3>1, <3>2
  <2>2. CASE ~connUp
    <3>1. toServer' = toServer
      BY <2>2 DEF ClientWrite
    <3>2. new = << >>
      BY <1>2, <3>1
    <3> QED
      BY <1>2, <3>1, <3>2
  <2> QED
    BY <2>1, <2>2
<1>4. UNCHANGED toClient
  BY DEF ClientWrite
<1> QED
  BY <1>3, <1>4 DEF Only, Tun, Tunnel!ClientStep

LEMMA ReadMaps ==
  ASSUME ClientRead, UNCHANGED <<Phase, cur, requestEOF, sent, misread>>,
         UNCHANGED (connUp /\ serve \notin {"done", "rejected"})
  PROVE  Tunnel!ClientStep("tun")
BY DEF ClientRead, Only, Tun, Tunnel!ClientStep

\* CloseWrite ends the response with a zero chunk or with an error, or nothing happens.
LEMMA CloseMaps ==
  ASSUME TypeOK, Held, clientUp, CloseWrite, cur # Nobody,
         connUp => serve \notin {"done", "rejected"} /\ serve' \notin {"done", "rejected"},
         UNCHANGED <<cur, requestEOF, replyWritten, sent, misread>>
  PROVE  Tunnel!PeerStep("tun") \/ UNCHANGED Tunnel!tunnelVars
<1> USE DEF TypeOK, Flags, Held
<1>1. CASE ended # "no" \/ WriteFails
  <2>1. UNCHANGED <<toServer, toClient, connUp>>
    BY <1>1 DEF CloseWrite, networkVars, WriteFails, Put
  <2>2. UNCHANGED Phase
    <3>1. UNCHANGED aborted /\ (ended # "no" => ended' = ended) /\ (ended = "no" => ended' = "failed")
      BY <1>1 DEF CloseWrite, WriteFails, Put
    <3> QED
      BY <3>1 DEF Phase
  <2>3. UNCHANGED (connUp /\ serve \notin {"done", "rejected"})
    BY <2>1
  <2> QED
    BY <2>1, <2>2, <2>3, StutterMaps
<1>2. CASE ended = "no" /\ ~WriteFails /\ replyWritten
  <2>1. Put("eof") /\ connUp' /\ ended' = "ok" /\ ~aborted'
    BY <1>2 DEF CloseWrite
  <2>2. Open /\ Phase = "replied" /\ Phase' = (IF requestEOF THEN "idle" ELSE "ended")
    BY <1>2, <2>1 DEF Phase, Open, WriteFails
  <2> QED
    BY <2>1, <2>2, ChunkMaps DEF Tunnel!PeerStep, Open
<1>3. CASE ended = "no" /\ ~WriteFails /\ ~replyWritten
  <2>1. Put("error")
    BY <1>3 DEF CloseWrite
  <2>3. ~connUp' /\ ended' = "ok" /\ aborted'
    <3>1. connUp' = replyWritten /\ ended' = "ok" /\ aborted' = ~replyWritten
      BY <1>3 DEF CloseWrite
    <3> QED
      BY <1>3, <3>1
  <2>2. Open /\ Phase = "called" /\ Phase' = Phase
    BY <1>3, <2>3 DEF Phase, Open, WriteFails
  <2> QED
    BY <2>1, <2>2, <2>3, AbortMaps DEF Tunnel!PeerStep
<1> QED
  BY <1>1, <1>2, <1>3

\* Serve gives up the connection, if it still has it.
LEMMA FailMaps ==
  ASSUME TypeOK, clientUp, ~connUp' \/ serve' \in {"done", "rejected"}, connUp' => connUp,
         UNCHANGED <<toServer, toClient, Phase, cur, requestEOF, sent, misread>>
  PROVE  Tunnel!PeerStep("tun") \/ UNCHANGED Tunnel!tunnelVars
<1>1. CASE Open
  BY <1>1, GoneMaps DEF Tunnel!PeerStep
<1>2. CASE ~Open
  <2>1. UNCHANGED (connUp /\ serve \notin {"done", "rejected"})
    BY <1>2 DEF Open, TypeOK, Flags
  <2> QED
    BY <2>1, StutterMaps
<1> QED
  BY <1>1, <1>2

\* While the client has the tunnel, a step of the server side is one of the far end.
LEMMA FarStep ==
  ASSUME TypeOK, Held, Uploads, Served, clientUp, [Next]_vars
  PROVE  Tunnel!PeerStep("tun") \/ Tunnel!ClientStep("tun") \/ UNCHANGED Tunnel!tunnelVars
<1> USE DEF networkVars, serveVars, connVars, historyVars
<1>0. connUp' => connUp
  BY BrokenStays
<1>a. Phase = IF cur = Nobody \/ (ended = "ok" /\ ~aborted /\ requestEOF) THEN "idle"
              ELSE IF ended = "ok" /\ ~aborted THEN "ended"
              ELSE IF replyWritten THEN "replied" ELSE "called"
  BY DEF Phase
<1>b. clientUp /\ connUp \in BOOLEAN /\ ~ReadFails = connUp /\ ~WriteFails = connUp /\ ~StreamEnds
  BY DEF ReadFails, WriteFails, StreamEnds, TypeOK, Flags
<1>1. CASE Accept
  <2>1. CASE Take /\ Head(toServer).kind = "request" /\ serve' = "dispatch" /\ cur' = Head(toServer).conn
    <3>1. Phase = "idle"
      BY <1>1 DEF Accept, Uploads, Phase
    <3>2. Phase' = "called"
      BY <1>1, <2>1, TakeConn DEF Accept, Held, Phase
    <3>3. Open /\ connUp' /\ toServer # <<>> /\ toServer' = Tail(toServer)
      BY <1>1, <2>1 DEF Accept, Take, Open
    <3>4. requestEOF' = FALSE /\ sent' = 0 /\ UNCHANGED <<toClient, misread>>
      BY <1>1, <2>1 DEF Accept, Take, Uploads, Served, TypeOK, Flags
    <3> QED
      BY <2>1, <3>1, <3>2, <3>3, <3>4, RequestMaps DEF Tunnel!PeerStep
  <2>2. CASE serve' = "rejected" /\ UNCHANGED <<networkVars, cur>>
    <3>1. UNCHANGED Phase
      BY <1>1, <2>2 DEF Accept, Phase
    <3> QED
      BY <1>0, <1>1, <2>2, <3>1, FailMaps DEF Accept
  <2> QED
    BY <1>1, <2>1, <2>2 DEF Accept
<1>2. CASE ServeNext
  <2>0. Phase = "idle" /\ requestEOF /\ ended = "ok" /\ ~aborted
    <3>1. requestEOF /\ ended = "ok" /\ ~aborted
      BY <1>2 DEF ServeNext, Uploads, Dried, Held
    <3> QED
      BY <1>a, <3>1
  <2>1. CASE Take /\ Head(toServer).kind = "request" /\ serve' = "dispatch" /\ cur' = Head(toServer).conn /\ FreshConn
             /\ requestEOF' = FALSE /\ UNCHANGED <<connUp, misread>>
    <3>2. Phase' = "called"
      BY <2>1, TakeConn DEF FreshConn, Phase
    <3>3. Open /\ connUp' /\ toServer # <<>> /\ toServer' = Tail(toServer) /\ UNCHANGED toClient /\ sent' = 0
      BY <1>2, <2>1 DEF ServeNext, Take, Open, FreshConn
    <3> QED
      BY <2>0, <2>1, <3>2, <3>3, RequestMaps DEF Tunnel!PeerStep
  <2>2. CASE Take /\ Head(toServer).kind \in {"data", "eof"} /\ serve' = "done" /\ misread' = (Head(toServer).kind = "data")
             /\ UNCHANGED <<cur, connVars, requestEOF>>
    <3>1. UNCHANGED Phase
      BY <2>2 DEF Phase
    <3>2. Open /\ toServer # <<>> /\ toServer' = Tail(toServer) /\ UNCHANGED toClient
      BY <1>2, <2>2 DEF ServeNext, Take, Open
    <3>3. misread' = (Head(toServer).kind # "eof")
      BY <2>2
    <3> QED
      BY <2>0, <2>2, <3>1, <3>2, <3>3, EndMaps DEF Tunnel!PeerStep
  <2>3. CASE serve' = "done" /\ UNCHANGED <<networkVars, cur, connVars, historyVars>>
    <3>1. UNCHANGED Phase
      BY <2>3 DEF Phase
    <3> QED
      BY <1>0, <2>3, <3>1, FailMaps
  <2> QED
    BY <1>2, <2>1, <2>2, <2>3 DEF ServeNext, Fail, Return

<1>3. CASE ServeRefuse \/ PacketEnd
  <2>1. serve' = "done" /\ UNCHANGED <<networkVars, cur, connVars, historyVars>>
    BY <1>3 DEF ServeRefuse, PacketEnd, Fail, Return
  <2>2. UNCHANGED Phase
    BY <2>1 DEF Phase
  <2> QED
    BY <1>0, <2>1, <2>2, FailMaps
<1>4. CASE ServePing
  <2>1. serve' = "done" /\ ~connUp' /\ UNCHANGED <<cur, connVars, historyVars>>
    BY <1>4 DEF ServePing, Fail, Return
  <2>2. Phase = "called" /\ UNCHANGED Phase
    BY <1>4, <2>1 DEF ServePing, Phase, Held
  <2>3. CASE Put("error")
    <3>1. Open
      BY <1>4, <2>3 DEF ServePing, Put, Open
    <3> QED
      BY <2>1, <2>2, <2>3, <3>1, AbortMaps DEF Tunnel!PeerStep
  <2>4. CASE UNCHANGED networkVars
    BY <1>0, <2>1, <2>2, <2>4, FailMaps
  <2> QED
    BY <1>4, <2>3, <2>4 DEF ServePing
<1>5. CASE ServePacket
  <2>1. CASE Put("reply") /\ replyWritten' = TRUE /\ serve' = "first" /\ UNCHANGED connUp
    <3>1. ended = "no" /\ ended' = "no" /\ ~replyWritten /\ cur # Nobody /\ UNCHANGED <<cur, requestEOF, sent, misread>>
      BY <1>5 DEF ServePacket, Held
    <3>2. Phase = "called" /\ Phase' = "replied"
      BY <2>1, <3>1 DEF Phase
    <3>3. Open /\ connUp'
      BY <1>5, <2>1 DEF ServePacket, Put, Open
    <3> QED
      BY <2>1, <3>1, <3>2, <3>3, ReplyMaps DEF Tunnel!PeerStep
  <2>2. CASE serve' = "done" /\ UNCHANGED <<networkVars, replyWritten>>
    <3>1. UNCHANGED <<ended, aborted, cur, requestEOF, sent, misread>>
      BY <1>5 DEF ServePacket
    <3>2. UNCHANGED Phase
      BY <2>2, <3>1 DEF Phase
    <3> QED
      BY <1>0, <2>2, <3>1, <3>2, FailMaps
  <2> QED
    BY <1>5, <2>1, <2>2 DEF ServePacket, Fail, Return
<1>6. CASE FirstPacket
  <2>0. UNCHANGED <<cur, connVars>>
    BY <1>6 DEF FirstPacket
  <2>1. CASE TakeData /\ serve' \in {"handed", "refused"} /\ UNCHANGED connUp
    <3>1. cur # Nobody /\ ~requestEOF /\ Open /\ connUp'
      BY <1>6, <2>1 DEF FirstPacket, Held, Uploads, TakeData, Take, Open
    <3> QED
      BY <2>0, <2>1, <3>1, DataMaps DEF Tunnel!PeerStep
  <2>2. CASE serve' = "done" /\ UNCHANGED <<networkVars, historyVars>>
    <3>1. UNCHANGED Phase
      BY <2>0, <2>2 DEF Phase
    <3> QED
      BY <1>0, <2>0, <2>2, <3>1, FailMaps
  <2> QED
    BY <1>6, <2>1, <2>2 DEF FirstPacket, Fail, Return
<1>7. CASE ServeConnect \/ ServeHandler \/ ServeAfter
  <2>1. UNCHANGED <<networkVars, cur, connVars, historyVars>>
    BY <1>7 DEF ServeConnect, ServeHandler, ServeAfter
  <2>2. UNCHANGED Phase
    BY <2>1 DEF Phase
  <2>3. CASE serve' = "done"
    BY <1>0, <2>1, <2>2, <2>3, FailMaps
  <2>4. CASE serve' # "done" /\ UNCHANGED connUp
    <3>1. UNCHANGED (connUp /\ serve \notin {"done", "rejected"})
      BY <1>7, <2>4 DEF ServeConnect, ServeHandler, ServeAfter, Fail, Return
    <3> QED
      BY <2>1, <2>2, <3>1, StutterMaps
  <2> QED
    BY <1>7, <2>3, <2>4 DEF ServeConnect, ServeHandler, ServeAfter, Fail, Return
<1>8. CASE ServeCloseWrite
  BY <1>8, CloseMaps DEF ServeCloseWrite, Held
<1>9. CASE UpClose \/ DownClose
  <2>1. CloseWrite /\ UNCHANGED <<serve, cur, requestEOF, replyWritten, sent, misread>>
    BY <1>9 DEF UpClose, DownClose
  <2>2. cur # Nobody /\ (connUp => serve \notin {"done", "rejected"})
    BY <1>9 DEF UpClose, DownClose, Held, Served, Uploads
  <2> QED
    BY <2>1, <2>2, CloseMaps
<1>10. CASE ServeDrain
  <2>0. UNCHANGED <<cur, connVars>>
    BY <1>10 DEF ServeDrain
  <2>1. CASE TakeData /\ serve' \in {"drain", "next"} /\ UNCHANGED connUp
    <3>1. cur # Nobody /\ ~requestEOF /\ Open /\ connUp'
      BY <1>10, <2>1 DEF ServeDrain, Held, Uploads, TakeData, Take, Open
    <3> QED
      BY <2>0, <2>1, <3>1, DataMaps DEF Tunnel!PeerStep
  <2>2. CASE serve' = "done" /\ UNCHANGED <<networkVars, historyVars>>
    <3>1. UNCHANGED Phase
      BY <2>0, <2>2 DEF Phase
    <3> QED
      BY <1>0, <2>0, <2>2, <3>1, FailMaps
  <2> QED
    BY <1>b, <1>10, <2>1, <2>2 DEF ServeDrain, Fail, Return
<1>11. CASE UpRead
  <2>0. UNCHANGED <<serve, connUp, cur, connVars>>
    BY <1>11 DEF UpRead
  <2>1. CASE TakeData
    <3>1. cur # Nobody /\ ~requestEOF /\ Open /\ connUp' /\ serve' \notin {"done", "rejected"}
      BY <1>11, <2>0, <2>1 DEF UpRead, Held, Uploads, Served, TakeData, Take, Open
    <3> QED
      BY <2>0, <2>1, <3>1, DataMaps DEF Tunnel!PeerStep
  <2>2. CASE UNCHANGED <<networkVars, historyVars>>
    <3>1. UNCHANGED Phase /\ UNCHANGED (connUp /\ serve \notin {"done", "rejected"})
      BY <2>0, <2>2 DEF Phase
    <3> QED
      BY <2>0, <2>2, <3>1, StutterMaps
  <2> QED
    BY <1>11, <2>1, <2>2 DEF UpRead
<1>12. CASE DownRecord
  <2>0. UNCHANGED <<serve, connUp, cur, requestEOF, misread, ended, aborted>> /\ ended = "no" /\ cur # Nobody
    BY <1>12 DEF DownRecord, Held
  <2>1. ASSUME connUp PROVE Open /\ connUp' /\ serve' \notin {"done", "rejected"}
    BY <1>12, <2>0, <2>1 DEF DownRecord, Held, Uploads, Served, Open
  <2>2. CASE Put("reply") /\ ~replyWritten /\ replyWritten' /\ sent' = sent
    <3>1. Phase = "called" /\ Phase' = "replied" /\ connUp
      BY <2>0, <2>2 DEF Phase, Put
    <3> QED
      BY <2>0, <2>1, <2>2, <3>1, ReplyMaps DEF Tunnel!PeerStep
  <2>3. CASE Put("data") /\ replyWritten /\ replyWritten' /\ sent' = sent + 1
    <3>1. Phase = "replied" /\ Phase' = "replied" /\ connUp
      BY <2>0, <2>3 DEF Phase, Put
    <3>2. sent < MaxData
      BY <1>12, <2>3 DEF DownRecord, Held
    <3> QED
      BY <2>0, <2>1, <2>3, <3>1, <3>2, SentMaps DEF Tunnel!PeerStep
  <2>4. CASE UNCHANGED <<networkVars, replyWritten, sent>>
    <3>1. UNCHANGED Phase /\ UNCHANGED (connUp /\ serve \notin {"done", "rejected"})
      BY <2>0, <2>4 DEF Phase
    <3> QED
      BY <2>0, <2>4, <3>1, StutterMaps
  <2> QED
    BY <1>12, <2>2, <2>3, <2>4 DEF DownRecord, TypeOK, Flags
<1>13. CASE UpStop \/ UpStore \/ DownWrite \/ DownStop \/ Complete \/ Cancel \/ UNCHANGED vars
  <2>1. UNCHANGED <<networkVars, serve, connUp, cur, historyVars, ended, aborted, replyWritten, sent>>
    BY <1>13 DEF UpStop, UpStore, DownWrite, DownStop, Complete, Cancel, vars
  <2>2. UNCHANGED Phase /\ UNCHANGED (connUp /\ serve \notin {"done", "rejected"})
    BY <2>1 DEF Phase
  <2> QED
    BY <2>1, <2>2, StutterMaps
<1>14. CASE Client
  <2>1. UNCHANGED <<serve, connUp, cur, historyVars, connVars>>
    BY <1>14 DEF Client
  <2>2. UNCHANGED Phase /\ UNCHANGED (connUp /\ serve \notin {"done", "rejected"})
    BY <2>1 DEF Phase
  <2>3. ASSUME NEW c \in Conns, NEW kind \in {"request", "data", "eof"}, ClientWrite(c, kind)
        PROVE  Tunnel!ClientStep("tun")
    BY <2>1, <2>2, <2>3, WriteMaps
  <2>4. CASE ClientRead
    BY <2>1, <2>2, <2>4, ReadMaps
  <2>5. CASE ClientGone
    BY <2>1, <2>2, <2>5, StutterMaps DEF ClientGone
  <2> QED
    BY <1>14, <2>3, <2>4, <2>5 DEF Client
<1> QED
  BY <1>1, <1>2, <1>3, <1>4, <1>5, <1>6, <1>7, <1>8, <1>9, <1>10, <1>11, <1>12, <1>13, <1>14
  DEF Next, Serve, Handler, Upload, Download

LEMMA ServedAlways == Inv /\ UploadInv /\ Served /\ [Next]_vars => (Inv /\ UploadInv /\ Served)'
<1> SUFFICES ASSUME Inv, UploadInv, Served, [Next]_vars PROVE (Inv /\ UploadInv /\ Served)'
  OBVIOUS
<1>1. Inv' /\ UploadInv'
  BY StepInv, UploadInvStep
<1>2. Served'
  BY ServedStep DEF Inv, WriteOrder, UploadInv
<1> QED
  BY <1>1, <1>2

\* The detailed server, with its goroutines, locks and blocked writes, implements the
\* far end the reusing client is modelled and proved against: in its initial state, and
\* then step by step, until the client has closed the tunnel.
THEOREM ServerIsFarEnd == Spec => FarEnd
<1>1. Init => Inv /\ UploadInv /\ Served
  BY InitInv, InitUploads DEF Init, Served
<1>2. Init => Tunnel!TunnelInit
  BY DEF Init, Tunnel!TunnelInit, Only, Tun, Phase
<1>3. Inv /\ UploadInv /\ Served /\ [Next]_vars => [Tunnel!FarNext]_(Tunnel!tunnelVars)
  <2> SUFFICES ASSUME Inv, UploadInv, Served, [Next]_vars
               PROVE  Tunnel!FarNext \/ UNCHANGED Tunnel!tunnelVars
    OBVIOUS
  <2>1. CASE clientUp
    <3>1. Tunnel!PeerStep("tun") \/ Tunnel!ClientStep("tun") \/ UNCHANGED Tunnel!tunnelVars
      BY <2>1, FarStep DEF Inv, WriteOrder, UploadInv
    <3> QED
      BY <3>1 DEF Tunnel!FarNext, Tun
  <2>2. CASE ~clientUp
    BY <2>2 DEF Tunnel!FarNext, Tun, Only
  <2> QED
    BY <2>1, <2>2
<1> QED
  BY <1>1, <1>2, <1>3, ServedAlways, PTL DEF Spec, FarEnd, Tunnel!FarSpec

=============================================================================
