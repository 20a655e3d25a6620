----------------------------- MODULE PacketTunnel -----------------------------
(***************************************************************************)
(* The packet connections of both ends.  The client asks for the tunnel    *)
(* and waits for the tunnel reply before the first datagram, in whatever   *)
(* call comes first; the service replies and waits for that datagram       *)
(* before its handler has the connection.  What holds a lock without       *)
(* waiting is one step: writeRequest and the server's look at its writer.  *)
(***************************************************************************)
EXTENDS PlainConn

IsPackets == kind = "packets"
ClientDoes(g, at) == IsPackets /\ g \in Callers /\ pc[g] = at
ServerDoes(g, at) == IsPackets /\ g \in HandlerCallers /\ pc[g] = at

\* The handler has the server's connection once the first datagram is there.
PacketBegin(g) ==
  /\ IsPackets /\ (g \in HandlerCallers => accept = "up")
  /\ \/ /\ \/ Begins(g, "send", 1)
           \/ call[g].op = "send" /\ Retries(g)
        /\ Goes(g, IF g \in Callers THEN "request" ELSE "reply")
     \/ /\ \/ Begins(g, "batch", 2)
           \/ call[g].op = "batch" /\ Retries(g)
        /\ Goes(g, IF g \in Callers THEN "batch" ELSE "reply")
     \/ Begins(g, "recv", 0) /\ Goes(g, IF g \in Callers THEN "reply" ELSE "next")
  /\ UNCHANGED <<kind, version, side, wireVars, writer, readVars, lockVars, closing, gone, accept>>

\* access.Lock() of the client's batch writer.
BatchLock(g) ==
  /\ ClientDoes(g, "batch") /\ batchAccess = "free" /\ batchAccess' = g /\ Goes(g, "request")
  /\ UNCHANGED <<kind, version, side, wireVars, writer, readVars, call, calls, done, access, readAccess,
                 closing, gone, accept>>

BatchFree(g) == IF batchAccess = g THEN "free" ELSE batchAccess

\* writeRequest, under writeAccess.
Request(g) ==
  /\ ClientDoes(g, "request")
  /\ LET groups == FirstGroups("request", << >>) IN
     \/ /\ writer["client"] # 0 /\ Goes(g, "reply")
        /\ UNCHANGED <<wireVars, writer, call, calls, done, batchAccess>>
     \/ /\ writer["client"] = 0 /\ Puts("client", NewWriter("client"), groups)
        /\ writer' = [writer EXCEPT !["client"] = NewWriter("client")]
        /\ Goes(g, "reply") /\ UNCHANGED <<call, calls, done, batchAccess>>
     \/ /\ writer["client"] = 0 /\ PutFails("client", NewWriter("client"), groups)
        /\ Fails(g) /\ batchAccess' = BatchFree(g) /\ UNCHANGED writer
  /\ UNCHANGED <<kind, version, side, readVars, access, readAccess, closing, gone, accept>>

\* readAccess.Lock() of readReply; a reader that exists is enough.
ReplyLock(g) ==
  /\ ClientDoes(g, "reply") /\ readAccess = "free"
  /\ IF reader["client"] = 0
     THEN readAccess' = g /\ Goes(g, "await") /\ UNCHANGED batchAccess
     ELSE /\ Goes(g, IF call[g].op = "recv" THEN "next" ELSE "put") /\ UNCHANGED readAccess
          /\ batchAccess' = BatchFree(g)
  /\ UNCHANGED <<kind, version, side, wireVars, writer, readVars, call, calls, done, access, closing,
                 gone, accept>>

\* readReply, under readAccess: every other call waits for it.
ReadReply(g) ==
  /\ ClientDoes(g, "await") /\ readAccess' = "free" /\ batchAccess' = BatchFree(g)
  /\ \/ /\ Answered("client") /\ TakesRecord("client")
        /\ Goes(g, IF call[g].op = "recv" THEN "next" ELSE "put") /\ UNCHANGED <<call, calls, done>>
     \/ Refused("client") /\ Spoils("client") /\ Fails(g)
     \/ Ended("client") /\ Fails(g) /\ UNCHANGED <<taken, turn, reader>>
  /\ UNCHANGED <<kind, version, side, wireVars, writer, cache, handed, access, closing, gone, accept>>

\* WritePacket and WritePacketBatch of the server, under writeAccess: the reply if
\* nothing is written yet.
ServerReply(g) ==
  /\ ServerDoes(g, "reply")
  /\ LET groups == FirstGroups("reply", << >>) IN
     \/ writer["server"] # 0 /\ Goes(g, "put") /\ UNCHANGED <<wireVars, writer, call, calls, done>>
     \/ /\ writer["server"] = 0 /\ Puts("server", NewWriter("server"), groups) /\ Goes(g, "put")
        /\ writer' = [writer EXCEPT !["server"] = NewWriter("server")] /\ UNCHANGED <<call, calls, done>>
     \/ /\ writer["server"] = 0 /\ PutFails("server", NewWriter("server"), groups)
        /\ Fails(g) /\ UNCHANGED writer
  /\ UNCHANGED <<kind, version, side, readVars, lockVars, closing, gone, accept>>

\* WritePacketBuffer, a record for each datagram; of a batch all at once.
PutPackets(g) ==
  /\ IsPackets /\ pc[g] = "put"
  /\ LET e == EndOf(g) IN
     \/ Puts(e, writer[e], Groups(call[g].left)) /\ Returns(g)
     \/ PutFails(e, writer[e], Groups(call[g].left)) /\ Fails(g)
  /\ UNCHANGED <<kind, version, side, writer, readVars, lockVars, closing, gone, accept>>

\* ReadPacket and WaitReadPacket.  A datagram that the buffer is too short for is lost.
ReadPacket(g) ==
  /\ IsPackets /\ pc[g] = "next"
  /\ LET e == EndOf(g) IN
     \/ /\ Readable(e) /\ Opens(e, NextOf(e)) /\ TakesRecord(e)
        /\ \/ handed' = [handed EXCEPT ![e] = @ \o NextOf(e).items] /\ Returns(g)
           \/ UNCHANGED handed /\ Fails(g)
     \/ Readable(e) /\ ~Opens(e, NextOf(e)) /\ Spoils(e) /\ Fails(g) /\ UNCHANGED handed
     \/ Ended(e) /\ Fails(g) /\ UNCHANGED <<taken, turn, reader, handed>>
  /\ UNCHANGED <<kind, version, side, wireVars, writer, cache, lockVars, closing, gone, accept>>

ClosePackets(g) ==
  /\ IsPackets /\ (g \in HandlerCallers => accept = "up") /\ Begins(g, "close", 0)
  /\ gone' = [gone EXCEPT ![EndOf(g)] = TRUE]
  /\ UNCHANGED <<kind, version, side, wireVars, writer, readVars, pc, lockVars, closing, accept>>

-----------------------------------------------------------------------------
\* The service: the request, the tunnel reply, the first datagram; a failure closes the
\* connection.

Rejects ==
  /\ accept' = "failed" /\ gone' = [gone EXCEPT !["server"] = TRUE]
  /\ UNCHANGED <<turn, reader, taken, handed>>

AcceptFails(at) ==
  /\ IsPackets /\ accept = at
  /\ (Readable("server") /\ ~Opens("server", NextOf("server"))) \/ Ended("server")
  /\ Rejects
  /\ UNCHANGED <<kind, version, side, wireVars, writer, cache, callVars, lockVars, closing>>

AcceptRequest ==
  /\ IsPackets /\ accept = "request"
  /\ Readable("server") /\ Opens("server", NextOf("server")) /\ TakesRecord("server")
  /\ accept' = "reply"
  /\ UNCHANGED <<kind, version, side, wireVars, writer, cache, handed, callVars, lockVars, closing, gone>>

\* Mutant: the reply is left to the first datagram of the server.
LazyReply ==
  /\ IsPackets /\ accept = "reply" /\ accept' = "first"
  /\ UNCHANGED <<kind, version, side, wireVars, writer, readVars, callVars, lockVars, closing, gone>>

\* newPacketConnection: writeTunnelReply, with nobody else at the connection.
AcceptReply ==
  /\ IsPackets /\ accept = "reply"
  /\ LET groups == FirstGroups("reply", << >>) IN
     \/ /\ Puts("server", NewWriter("server"), groups) /\ accept' = "first"
        /\ writer' = [writer EXCEPT !["server"] = NewWriter("server")]
        /\ UNCHANGED <<turn, reader, taken, handed, gone>>
     \/ PutFails("server", NewWriter("server"), groups) /\ Rejects /\ UNCHANGED writer
  /\ UNCHANGED <<kind, version, side, cache, callVars, lockVars, closing>>

\* The first datagram waits for the handler's first ReadPacket.
AcceptFirst ==
  /\ IsPackets /\ accept = "first"
  /\ Readable("server") /\ Opens("server", NextOf("server")) /\ TakesRecord("server")
  /\ handed' = [handed EXCEPT !["server"] = @ \o NextOf("server").items] /\ accept' = "up"
  /\ UNCHANGED <<kind, version, side, wireVars, writer, cache, callVars, lockVars, closing, gone>>
=============================================================================
