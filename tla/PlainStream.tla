----------------------------- MODULE PlainStream -----------------------------
(***************************************************************************)
(* clientConn and serverConn: goroutines that write, one that reads, and   *)
(* CloseWrite and Close from any of them.  The fast path looks at the      *)
(* writer without a lock, except that of the v6 server; the slow path      *)
(* looks again under access, which the first write holds.                  *)
(***************************************************************************)
EXTENDS PlainConn

InStream(g) == kind = "stream" /\ g \in Callers
Opening == IF side = "client" THEN "request" ELSE "reply"

\* Write, of one or two records, and WriteVectorised of two buffers; WriteBuffer does
\* nothing that Write may not do.  The server of version 6 takes the lock at once.
StreamBegin(g) ==
  /\ InStream(g)
  /\ \E op \in {"write", "vector"} :
       /\ \/ \E n \in IF op = "write" THEN 1 .. 2 ELSE {2} : Begins(g, op, n)
          \/ call[g].op = op /\ Retries(g)
       /\ Goes(g, IF side = "server" /\ version = 6 THEN "lock" ELSE "check")
  /\ UNCHANGED <<kind, version, side, wireVars, writer, readVars, lockVars, closing, gone, accept>>

\* c.writer != nil, read without the lock.
Check(g) ==
  /\ InStream(g) /\ pc[g] = "check"
  /\ Goes(g, IF writer[side] = 0 THEN "lock" ELSE "put")
  /\ UNCHANGED <<kind, version, side, wireVars, writer, readVars, call, calls, done, lockVars,
                 closing, gone, accept>>

\* Mutant: access.Lock() and no second look at the writer.
LockBlind(g) ==
  /\ InStream(g) /\ pc[g] = "lock" /\ access = "free"
  /\ access' = g /\ Goes(g, "first")
  /\ UNCHANGED <<kind, version, side, wireVars, writer, readVars, call, calls, done, readAccess,
                 batchAccess, closing, gone, accept>>

\* access.Lock() and the second look at the writer.
Lock(g) ==
  /\ InStream(g) /\ pc[g] = "lock" /\ access = "free"
  /\ IF writer[side] = 0 THEN access' = g /\ Goes(g, "first")
     ELSE UNCHANGED access /\ Goes(g, "put")
  /\ UNCHANGED <<kind, version, side, wireVars, writer, readVars, call, calls, done, readAccess,
                 batchAccess, closing, gone, accept>>

\* How many of the pieces are written before the writer is published: writeFirstRecord
\* of v6 takes what fits in a record, the first buffer of a vector goes alone.
Unpublished(g) ==
  CASE call[g].op = "vector" -> {1}
    [] call[g].op = "write" -> IF version = 6 THEN 1 .. Len(call[g].left) ELSE {Len(call[g].left)}

\* writeRequest, writeRequestBuffer, writeResponse, writeResponseBuffer.
First(g) ==
  /\ InStream(g) /\ pc[g] = "first" /\ call[g].op # "closeWrite"
  /\ \E k \in Unpublished(g) :
       LET groups == FirstGroups(Opening, SubSeq(call[g].left, 1, k))
           rest == SubSeq(call[g].left, k + 1, Len(call[g].left)) IN
       \/ /\ Puts(side, NewWriter(side), groups)
          /\ writer' = [writer EXCEPT ![side] = NewWriter(side)]
          /\ IF rest = << >> THEN access' = "free" /\ Returns(g)
             ELSE /\ Goes(g, "put") /\ Leaves(g, rest)
                  /\ access' = (IF call[g].op = "vector" THEN "free" ELSE g)
       \/ PutFails(side, NewWriter(side), groups) /\ access' = "free" /\ Fails(g) /\ UNCHANGED writer
  /\ UNCHANGED <<kind, version, side, readVars, readAccess, batchAccess, closing, gone, accept>>

\* How many records the writer hands to the connection before another may: Write of v6
\* locks the writer for every record.
AtOnce(g) ==
  IF version = 6 /\ call[g].op = "write" THEN 1 .. Len(call[g].left) ELSE {Len(call[g].left)}

Unlocked(g) == IF access = g THEN "free" ELSE access

\* The methods of the writer; behind the first record of a v6 Write still under access.
Put(g) ==
  /\ InStream(g) /\ pc[g] = "put"
  /\ \E k \in AtOnce(g) :
       LET groups == Groups(SubSeq(call[g].left, 1, k))
           rest == SubSeq(call[g].left, k + 1, Len(call[g].left)) IN
       \/ /\ Puts(side, writer[side], groups)
          /\ IF rest = << >> THEN access' = Unlocked(g) /\ Returns(g)
             ELSE UNCHANGED <<access, pc>> /\ Leaves(g, rest)
       \/ PutFails(side, writer[side], groups) /\ access' = Unlocked(g) /\ Fails(g)
  /\ UNCHANGED <<kind, version, side, writer, readVars, readAccess, batchAccess, closing, gone, accept>>

-----------------------------------------------------------------------------
\* CloseWrite and Close.

CloseWrite(g) ==
  /\ InStream(g) /\ ~closing /\ access = "free"
  /\ Begins(g, "closeWrite", 0) /\ closing' = TRUE /\ access' = g
  /\ Goes(g, IF side = "server" /\ version = 6 THEN "close"
             ELSE IF writer[side] = 0 THEN "first"
             ELSE IF side = "client" THEN "zero" ELSE "close")
  /\ UNCHANGED <<kind, version, side, wireVars, writer, readVars, readAccess, batchAccess, gone, accept>>

\* The client writes a request before the zero chunk, the v5 server an error before it
\* closes, written or not.
CloseFirst(g) ==
  /\ InStream(g) /\ pc[g] = "first" /\ call[g].op = "closeWrite"
  /\ LET groups == FirstGroups(IF side = "client" THEN "request" ELSE "error", << >>) IN
     \/ /\ Puts(side, NewWriter(side), groups)
        /\ writer' = [writer EXCEPT ![side] = NewWriter(side)]
        /\ Goes(g, IF side = "client" THEN "zero" ELSE "close")
        /\ UNCHANGED <<access, call, calls, done>>
     \/ /\ PutFails(side, NewWriter(side), groups) /\ UNCHANGED writer
        /\ IF side = "client" THEN access' = "free" /\ Fails(g)
           ELSE Goes(g, "close") /\ UNCHANGED <<access, call, calls, done>>
  /\ UNCHANGED <<kind, version, side, readVars, readAccess, batchAccess, closing, gone, accept>>

\* WriteZeroChunk.
Zero(g) ==
  /\ InStream(g) /\ pc[g] = "zero"
  /\ \/ Puts(side, writer[side], << << Item("end") >> >>) /\ Returns(g)
     \/ PutFails(side, writer[side], << << Item("end") >> >>) /\ Fails(g)
  /\ access' = "free"
  /\ UNCHANGED <<kind, version, side, writer, readVars, readAccess, batchAccess, closing, gone, accept>>

\* Close, of the server as the last step of CloseWrite.
Close(g) ==
  /\ InStream(g) /\ Begins(g, "close", 0) /\ gone' = [gone EXCEPT ![side] = TRUE]
  /\ UNCHANGED <<kind, version, side, wireVars, writer, readVars, pc, lockVars, closing, accept>>

CloseLast(g) ==
  /\ InStream(g) /\ pc[g] = "close"
  /\ gone' = [gone EXCEPT ![side] = TRUE] /\ access' = "free" /\ Returns(g)
  /\ UNCHANGED <<kind, version, side, wireVars, writer, readVars, readAccess, batchAccess, closing, accept>>

-----------------------------------------------------------------------------
\* The client reads; one goroutine does.

ReadBegin(g) ==
  /\ InStream(g) /\ side = "client" /\ \A other \in Callers : pc[other] \notin {"reply", "next"}
  /\ Begins(g, "read", 0) /\ Goes(g, IF reader[side] = 0 THEN "reply" ELSE "next")
  /\ UNCHANGED <<kind, version, side, wireVars, writer, readVars, lockVars, closing, gone, accept>>

\* readResponse and ParseReply: what came with the reply waits in the cache; an error
\* leaves no reader.
ReadResponse(g) ==
  /\ InStream(g) /\ pc[g] = "reply"
  /\ \/ /\ Answered(side) /\ TakesRecord(side) /\ Goes(g, "next")
        /\ cache' = Tail(NextOf(side).items) /\ UNCHANGED <<call, calls, done>>
     \/ Refused(side) /\ Spoils(side) /\ Fails(g) /\ UNCHANGED cache
     \/ Ended(side) /\ Fails(g) /\ UNCHANGED <<taken, turn, reader, cache>>
  /\ UNCHANGED <<kind, version, side, wireVars, writer, handed, lockVars, closing, gone, accept>>

\* The cache, then the records.
ReadNext(g) ==
  /\ InStream(g) /\ pc[g] = "next"
  /\ \/ /\ cache # << >> /\ handed' = [handed EXCEPT ![side] = @ \o cache] /\ cache' = << >>
        /\ Returns(g) /\ UNCHANGED <<taken, turn, reader>>
     \/ /\ cache = << >> /\ Readable(side) /\ Opens(side, NextOf(side))
        /\ TakesRecord(side) /\ handed' = [handed EXCEPT ![side] = @ \o NextOf(side).items]
        /\ Returns(g) /\ UNCHANGED cache
     \/ /\ cache = << >> /\ Readable(side) /\ ~Opens(side, NextOf(side))
        /\ Spoils(side) /\ Fails(g) /\ UNCHANGED <<handed, cache>>
     \/ cache = << >> /\ Ended(side) /\ Fails(g) /\ UNCHANGED <<taken, turn, reader, handed, cache>>
  /\ UNCHANGED <<kind, version, side, wireVars, writer, lockVars, closing, gone, accept>>

=============================================================================
