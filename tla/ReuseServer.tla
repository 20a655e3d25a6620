----------------------------- MODULE ReuseServer -----------------------------
(***************************************************************************)
(* The reusing server: serverReuseSession and serverReuseConn of           *)
(* snellv5/reuse.go, and of snellv6/reuse.go, which has the same control.  *)
(* One tunnel.  Serve runs one logical connection after another; each has  *)
(* a handler with two copy goroutines:                                     *)
(*   serve  the goroutine of Serve;                                        *)
(*   up     the handler's copy from the connection: reads, then may close; *)
(*   down   the handler's copy to the connection: writes, then may close.  *)
(* Serve makes a serverReuseConn per request, so its fields are variables  *)
(* of the current one.  A step is one record read or written, or one       *)
(* access to what the goroutines share.                                    *)
(***************************************************************************)
EXTENDS Naturals, Sequences, FiniteSets

CONSTANTS
  Conns,        \* logical connections
  Nobody,       \* none of them
  MaxData,      \* bound: data records of a response
  MaxUpload,    \* bound: data records of a request stream
  Window,       \* records the tunnel holds before a write to it blocks
  DiscardLimit, \* WaitingDiscardLimit, in records
  OrderlyClient \* the client ends a request stream before the next request

ASSUME ServerAssumption ==
  /\ Nobody \notin Conns
  /\ MaxData \in Nat /\ MaxUpload \in Nat
  /\ Window \in Nat \ {0} /\ DiscardLimit \in Nat \ {0}
  /\ OrderlyClient \in BOOLEAN

Kinds   == {"request", "reply", "error", "data", "eof"}
Records == [conn : Conns, kind : Kinds]
Record(c, k) == [conn |-> c, kind |-> k]

VARIABLES
  toServer, toClient, \* the two record streams
  clientUp,           \* the client has not closed the TCP connection
  connUp,             \* serverReuseSession.Conn is open
  ctxDone,            \* the context is cancelled
  wrote,              \* how far the client is with the request stream of each connection
  uploaded            \* data records of each request stream

networkVars == <<toServer, toClient, clientUp, wrote, uploaded>>

VARIABLES
  serve, up, down,
  cur,          \* the logical connection served
  drained,      \* Serve: records discarded
  replyWritten, \* serverReuseConn.replyWritten
  writeClosed,  \* serverReuseConn.writeClosed
  ended,        \* closeWriteOnce, closeWriteErr: "no", "ok" or "failed"
  aborted,      \* serverReuseConn.aborted
  readClosed,   \* serverReuseConn.readClosed
  locked,       \* serverReuseConn.access is held by the writing goroutine
  completed,    \* serverReuseConn.completion is closed
  sent,         \* data records of this response
  requestEOF,   \* the zero chunk of this request stream has been read
  misread,      \* a request was taken for data, or another record for a request
  onCloses      \* calls of onClose

connVars == <<replyWritten, writeClosed, ended, aborted, readClosed, locked, completed, sent>>
historyVars == <<requestEOF, misread>>
serveVars == <<serve, cur, drained, onCloses, ctxDone>>
vars == <<networkVars, connUp, serveVars, up, down, connVars, historyVars>>

ServePc == {"accept", "rejected", "next", "dispatch", "first", "refused", "handed", "handler", "closeWrite",
            "after", "drain", "done"}

Flags ==
  /\ clientUp \in BOOLEAN /\ connUp \in BOOLEAN /\ ctxDone \in BOOLEAN
  /\ replyWritten \in BOOLEAN /\ writeClosed \in BOOLEAN /\ aborted \in BOOLEAN
  /\ readClosed \in BOOLEAN /\ locked \in BOOLEAN /\ completed \in BOOLEAN
  /\ requestEOF \in BOOLEAN /\ misread \in BOOLEAN

TypeOK ==
  /\ Flags
  /\ toServer \in Seq(Records) /\ toClient \in Seq(Records)
  /\ wrote \in [Conns -> {"nothing", "request", "eof"}]
  /\ uploaded \in [Conns -> 0 .. MaxUpload]
  /\ serve \in ServePc
  /\ up \in {"off", "read", "store", "close", "done"}
  /\ down \in {"off", "idle", "write", "close", "done"}
  /\ cur \in Conns \cup {Nobody}
  /\ drained \in 0 .. DiscardLimit
  /\ ended \in {"no", "ok", "failed"}
  /\ sent \in 0 .. MaxData
  /\ onCloses \in Nat

Init ==
  /\ toServer = <<>> /\ toClient = <<>>
  /\ clientUp = TRUE /\ connUp = TRUE /\ ctxDone = FALSE
  /\ wrote = [c \in Conns |-> "nothing"] /\ uploaded = [c \in Conns |-> 0]
  /\ serve = "accept" /\ up = "off" /\ down = "off"
  /\ cur = Nobody /\ drained = 0
  /\ replyWritten = FALSE /\ writeClosed = FALSE /\ ended = "no" /\ aborted = FALSE
  /\ readClosed = FALSE /\ locked = FALSE /\ completed = FALSE /\ sent = 0
  /\ requestEOF = FALSE /\ misread = FALSE
  /\ onCloses = 0

-----------------------------------------------------------------------------
\* The tunnel, as the goroutines of the server use it.

\* A read returns records that arrived before the client closed, then fails.
Take ==
  /\ connUp
  /\ toServer # <<>>
  /\ toServer' = Tail(toServer)
  /\ UNCHANGED <<toClient, clientUp, wrote, uploaded>>

\* A read fails, or meets the end of the TCP stream, which is io.EOF as well.
ReadFails == ~connUp \/ ~clientUp
StreamEnds == connUp /\ ~clientUp /\ toServer = <<>>

\* A read that is data to its reader: of the handler, or of the drain.
TakeData ==
  /\ Take
  /\ requestEOF' = (Head(toServer).kind = "eof")
  /\ misread' = (Head(toServer).kind = "request")

\* A write blocks while the tunnel is full, and fails once either end is closed.
Put(kind) ==
  /\ connUp
  /\ Len(toClient) < Window
  /\ toClient' = IF clientUp THEN Append(toClient, Record(cur, kind)) ELSE toClient
  /\ UNCHANGED <<toServer, clientUp, wrote, uploaded>>

WriteFails == ~connUp \/ ~clientUp

-----------------------------------------------------------------------------
\* Serve.

\* It returns; the deferred call runs onClose.
Return == serve' = "done" /\ onCloses' = onCloses + 1
Fail == Return /\ connUp' = FALSE

\* A request gets a serverReuseConn of its own.
FreshConn ==
  /\ replyWritten' = FALSE /\ writeClosed' = FALSE /\ ended' = "no" /\ aborted' = FALSE
  /\ readClosed' = FALSE /\ locked' = FALSE /\ completed' = FALSE /\ sent' = 0
  /\ up' = "off" /\ down' = "off"

\* newConnection reads the first request and calls Serve.  When it fails instead,
\* for a salt seen before or a record that is no request, the connection and
\* onClose are its caller's, and what it has read is as good as unread.
Accept ==
  /\ serve = "accept"
  /\ \/ /\ Take
        /\ Head(toServer).kind = "request"
        /\ serve' = "dispatch" /\ cur' = Head(toServer).conn
     \/ /\ toServer # <<>> \/ ReadFails
        /\ serve' = "rejected"
        /\ UNCHANGED <<networkVars, cur>>
  /\ UNCHANGED <<connUp, ctxDone, drained, onCloses, up, down, connVars, historyVars>>

\* ReadRecord and readRequest.
ServeNext ==
  /\ serve = "next"
  /\ \/ /\ Take
        /\ Head(toServer).kind = "request"
        /\ serve' = "dispatch" /\ cur' = Head(toServer).conn /\ requestEOF' = FALSE
        /\ FreshConn
        /\ UNCHANGED <<connUp, onCloses, misread>>
     \/ /\ Take
        /\ \/ Head(toServer).kind = "data" /\ Fail
           \/ Head(toServer).kind = "eof" /\ Return /\ UNCHANGED connUp
        /\ misread' = (Head(toServer).kind = "data")
        /\ UNCHANGED <<cur, up, down, connVars, requestEOF>>
     \/ /\ (ReadFails /\ Fail) \/ (StreamEnds /\ Return /\ UNCHANGED connUp)
        /\ UNCHANGED <<networkVars, cur, up, down, connVars, historyVars>>
  /\ UNCHANGED <<ctxDone, drained>>

\* A request that is refused: bad user key, unknown command, or in v6 a packet in
\* the record of a CommandUDP request.
ServeRefuse ==
  /\ serve = "dispatch"
  /\ Fail
  /\ UNCHANGED <<networkVars, ctxDone, cur, drained, up, down, connVars, historyVars>>

\* CommandPing: a pong, which the client takes for no reply, and the connection is
\* closed.
ServePing ==
  /\ serve = "dispatch"
  /\ Put("error") \/ (WriteFails /\ UNCHANGED networkVars)
  /\ Fail
  /\ UNCHANGED <<ctxDone, cur, drained, up, down, connVars, historyVars>>

\* CommandUDP: the tunnel reply, the first packet, and the tunnel belongs to the
\* packet handler, onClose included.
ServePacket ==
  /\ serve = "dispatch"
  /\ \/ /\ Put("reply") /\ replyWritten' = TRUE /\ serve' = "first"
        /\ UNCHANGED <<connUp, onCloses>>
     \/ WriteFails /\ Fail /\ UNCHANGED <<networkVars, replyWritten>>
  /\ UNCHANGED <<ctxDone, cur, drained, up, down, historyVars, writeClosed, ended,
                 aborted, readClosed, locked, completed, sent>>

\* Mutant: Serve runs onClose although the packet handler will.
FirstPacketCallsOnClose ==
  /\ serve = "first"
  /\ TakeData
  /\ Head(toServer).kind = "data"
  /\ serve' = "handed" /\ onCloses' = onCloses + 1
  /\ UNCHANGED <<connUp, ctxDone, cur, drained, up, down, connVars>>

FirstPacket ==
  /\ serve = "first"
  /\ \/ /\ TakeData
        /\ serve' = IF Head(toServer).kind = "data" THEN "handed" ELSE "refused"
        /\ UNCHANGED <<connUp, onCloses>>
     \/ ReadFails /\ Fail /\ UNCHANGED <<networkVars, historyVars>>
  /\ UNCHANGED <<ctxDone, cur, drained, up, down, connVars>>

\* No packet: Serve closes.  Otherwise the packet handler does, in its own time.
PacketEnd ==
  /\ serve \in {"refused", "handed"}
  /\ Fail
  /\ UNCHANGED <<networkVars, ctxDone, cur, drained, up, down, connVars, historyVars>>

\* CommandConnect: the handler starts to copy.
ServeConnect ==
  /\ serve = "dispatch"
  /\ serve' = "handler" /\ up' = "read" /\ down' = "idle"
  /\ UNCHANGED <<networkVars, connUp, ctxDone, cur, drained, onCloses, connVars, historyVars>>

\* Mutant: CloseWrite leaves the connection open for writes.
CloseWriteStaysOpen ==
  \/ ended # "no" /\ UNCHANGED <<networkVars, connUp, writeClosed, ended, aborted>>
  \/ /\ ended = "no"
     /\ ~locked
     /\ Put(IF replyWritten THEN "eof" ELSE "error")
     /\ ended' = "ok"
     /\ aborted' = ~replyWritten
     /\ connUp' = replyWritten
     /\ UNCHANGED writeClosed

\* CloseWrite, once: it waits for the goroutine that writes, refuses every later
\* write, and ends the response with the zero chunk; without a reply, with an
\* error reply and the end of the connection.
CloseWrite ==
  \/ ended # "no" /\ UNCHANGED <<networkVars, connUp, writeClosed, ended, aborted>>
  \/ /\ ended = "no"
     /\ ~locked
     /\ writeClosed' = TRUE
     /\ \/ /\ Put(IF replyWritten THEN "eof" ELSE "error")
           /\ ended' = "ok"
           /\ aborted' = ~replyWritten
           /\ connUp' = replyWritten
        \/ /\ WriteFails
           /\ ended' = "failed"
           /\ UNCHANGED <<networkVars, connUp, aborted>>

\* Mutant: the cancelled Serve leaves the connection to its handler.
ServeHandlerKeepsConn ==
  /\ serve = "handler"
  /\ \/ completed /\ serve' = "closeWrite" /\ UNCHANGED <<connUp, onCloses>>
     \/ ctxDone /\ Return /\ UNCHANGED connUp
  /\ UNCHANGED <<networkVars, ctxDone, cur, drained, up, down, connVars, historyVars>>

\* Serve waits for the completion or for the context.
ServeHandler ==
  /\ serve = "handler"
  /\ \/ completed /\ serve' = "closeWrite" /\ UNCHANGED <<connUp, onCloses>>
     \/ ctxDone /\ Fail
  /\ UNCHANGED <<networkVars, ctxDone, cur, drained, up, down, connVars, historyVars>>

ServeCloseWrite ==
  /\ serve = "closeWrite"
  /\ CloseWrite
  /\ serve' = "after"
  /\ UNCHANGED <<ctxDone, cur, drained, onCloses, up, down, historyVars,
                 replyWritten, readClosed, locked, completed, sent>>

\* Mutants: Serve drains a request stream that has ended, or never drains.
ServeAfterDrains ==
  /\ serve = "after"
  /\ \/ ended = "failed" /\ Fail
     \/ ended = "ok" /\ aborted /\ Return /\ UNCHANGED connUp
     \/ ended = "ok" /\ ~aborted /\ serve' = "drain" /\ UNCHANGED <<connUp, onCloses>>
  /\ drained' = 0
  /\ UNCHANGED <<networkVars, ctxDone, cur, up, down, connVars, historyVars>>

ServeAfterNext ==
  /\ serve = "after"
  /\ \/ ended = "failed" /\ Fail
     \/ ended = "ok" /\ aborted /\ Return /\ UNCHANGED connUp
     \/ ended = "ok" /\ ~aborted /\ serve' = "next" /\ UNCHANGED <<connUp, onCloses>>
  /\ drained' = 0
  /\ UNCHANGED <<networkVars, ctxDone, cur, up, down, connVars, historyVars>>

\* The logical connection is over: give up, or go on to the next request, behind
\* what the handler has left of this one.
ServeAfter ==
  /\ serve = "after"
  /\ \/ ended = "failed" /\ Fail
     \/ ended = "ok" /\ aborted /\ Return /\ UNCHANGED connUp
     \/ /\ ended = "ok" /\ ~aborted
        /\ serve' = IF readClosed THEN "next" ELSE "drain"
        /\ UNCHANGED <<connUp, onCloses>>
  /\ drained' = 0
  /\ UNCHANGED <<networkVars, ctxDone, cur, up, down, connVars, historyVars>>

\* Mutant: the drain has no limit.
ServeDrainUnlimited ==
  /\ serve = "drain"
  /\ \/ /\ TakeData
        /\ IF Head(toServer).kind = "eof" THEN serve' = "next" /\ UNCHANGED drained
                                          ELSE drained' = drained + 1 /\ UNCHANGED serve
        /\ UNCHANGED <<connUp, onCloses>>
     \/ /\ ReadFails /\ Fail
        /\ UNCHANGED <<networkVars, drained, historyVars>>
  /\ UNCHANGED <<ctxDone, cur, up, down, connVars>>

\* The drain, up to the zero chunk or WaitingDiscardLimit.
ServeDrain ==
  /\ serve = "drain"
  /\ \/ /\ drained < DiscardLimit
        /\ TakeData
        /\ IF Head(toServer).kind = "eof" THEN serve' = "next" /\ UNCHANGED drained
                                          ELSE drained' = drained + 1 /\ UNCHANGED serve
        /\ UNCHANGED <<connUp, onCloses>>
     \/ /\ drained < DiscardLimit /\ StreamEnds
        /\ serve' = "next"
        /\ UNCHANGED <<networkVars, connUp, drained, onCloses, historyVars>>
     \/ /\ drained = DiscardLimit \/ ReadFails
        /\ Fail
        /\ UNCHANGED <<networkVars, drained, historyVars>>
  /\ UNCHANGED <<ctxDone, cur, up, down, connVars>>

Serve ==
  \/ Accept \/ ServeNext \/ ServeRefuse \/ ServePing \/ ServePacket \/ FirstPacket \/ PacketEnd
  \/ ServeConnect
  \/ ServeHandler \/ ServeCloseWrite \/ ServeAfter \/ ServeDrain

-----------------------------------------------------------------------------
\* The handler.  Its upload reads up to the end of the request stream, or stops
\* where its upstream does; it may then close the connection.
UpRead ==
  /\ up = "read"
  /\ \/ TakeData /\ up' = IF Head(toServer).kind = "eof" THEN "store" ELSE "read"
     \/ /\ \/ StreamEnds /\ up' = "store"
           \/ ReadFails /\ up' \in {"close", "done"}
        /\ UNCHANGED <<networkVars, historyVars>>
  /\ UNCHANGED <<serveVars, connUp, down, connVars>>

UpStop ==
  /\ up = "read"
  /\ up' \in {"close", "done"}
  /\ UNCHANGED <<networkVars, serveVars, connUp, down, connVars, historyVars>>

\* readClosed.Store(true), in Read, ReadBuffer or WaitReadBuffer.
UpStore ==
  /\ up = "store"
  /\ readClosed' = TRUE
  /\ up' \in {"close", "done"}
  /\ UNCHANGED <<networkVars, serveVars, connUp, down, historyVars,
                 replyWritten, writeClosed, ended, aborted, locked, completed, sent>>

\* Its Close, and CloseWrite of the download, which are the same.
UpClose ==
  /\ up = "close"
  /\ CloseWrite
  /\ up' = "done"
  /\ UNCHANGED <<serveVars, down, historyVars, replyWritten, readClosed, locked, completed, sent>>

DownClose ==
  /\ down = "close"
  /\ CloseWrite
  /\ down' = "done"
  /\ UNCHANGED <<serveVars, up, historyVars, replyWritten, readClosed, locked, completed, sent>>

\* The download calls Write, WriteBuffer or WriteVectorised ...
DownWrite ==
  /\ down = "idle"
  /\ ~locked
  /\ replyWritten => sent < MaxData
  /\ IF writeClosed THEN down' \in {"close", "done"} /\ UNCHANGED locked
                     ELSE down' = "write" /\ locked' = TRUE
  /\ UNCHANGED <<networkVars, serveVars, connUp, up, historyVars,
                 replyWritten, writeClosed, ended, aborted, readClosed, completed, sent>>

\* ... which writes one record after another under the lock, the reply first.
DownRecord ==
  /\ down = "write"
  /\ \/ /\ Put(IF replyWritten THEN "data" ELSE "reply")
        /\ replyWritten' = TRUE
        /\ sent' = IF replyWritten THEN sent + 1 ELSE sent
        /\ \/ down' = "write" /\ sent' < MaxData /\ UNCHANGED locked
           \/ down' = "idle" /\ locked' = FALSE
     \/ /\ WriteFails
        /\ down' \in {"close", "done"} /\ locked' = FALSE
        /\ UNCHANGED <<networkVars, replyWritten, sent>>
  /\ UNCHANGED <<serveVars, connUp, up, historyVars, writeClosed, ended, aborted,
                 readClosed, completed>>

\* The upstream has no more for it.
DownStop ==
  /\ down = "idle"
  /\ down' \in {"close", "done"}
  /\ UNCHANGED <<networkVars, serveVars, connUp, up, connVars, historyVars>>

\* completeLogicalConnection, once both have exited.
Complete ==
  /\ up = "done" /\ down = "done" /\ ~completed
  /\ completed' = TRUE
  /\ UNCHANGED <<networkVars, serveVars, connUp, up, down, historyVars, replyWritten,
                 writeClosed, ended, aborted, readClosed, locked, sent>>

Upload   == UpRead \/ UpStore \/ UpClose
Download == DownRecord \/ DownClose
Handler  == Upload \/ UpStop \/ Download \/ DownWrite \/ DownStop \/ Complete

-----------------------------------------------------------------------------
\* The client writes, in order, the request, data and zero chunk of one connection
\* after another; a disorderly one interleaves them and writes data late.
MayWrite(c, kind) ==
  \/ /\ kind = "request" /\ wrote[c] = "nothing"
     /\ OrderlyClient => \A d \in Conns : wrote[d] # "request"
  \/ /\ kind = "data" /\ uploaded[c] < MaxUpload
     /\ OrderlyClient => wrote[c] = "request"
  \/ kind = "eof" /\ wrote[c] = "request"

ClientWrite(c, kind) ==
  /\ clientUp
  /\ MayWrite(c, kind)
  /\ wrote' = [wrote EXCEPT ![c] = IF kind = "data" THEN @ ELSE kind]
  /\ uploaded' = [uploaded EXCEPT ![c] = IF kind = "data" THEN @ + 1 ELSE @]
  /\ toServer' = IF connUp THEN Append(toServer, Record(c, kind)) ELSE toServer
  /\ UNCHANGED <<toClient, clientUp>>

ClientRead ==
  /\ clientUp /\ toClient # <<>>
  /\ toClient' = Tail(toClient)
  /\ UNCHANGED <<toServer, clientUp, wrote, uploaded>>

\* The client closes, or the network breaks the connection.
ClientGone == /\ clientUp
              /\ clientUp' = FALSE
              /\ UNCHANGED <<toServer, toClient, wrote, uploaded>>

Client ==
  /\ \/ \E c \in Conns, kind \in {"request", "data", "eof"} : ClientWrite(c, kind)
     \/ ClientRead \/ ClientGone
  /\ UNCHANGED <<serveVars, connUp, up, down, connVars, historyVars>>

Cancel ==
  /\ ~ctxDone
  /\ ctxDone' = TRUE
  /\ UNCHANGED <<networkVars, connUp, serve, cur, drained, onCloses, up, down, connVars,
                 historyVars>>

Next == Serve \/ Handler \/ Client \/ Cancel

Spec == Init /\ [][Next]_vars

\* Goroutines run unless they are blocked, and a client that is up reads.  The
\* handler may read and write as slowly as it likes; a call it has begun ends.
Fairness ==
  /\ WF_vars(Serve) /\ WF_vars(Upload) /\ WF_vars(Download) /\ WF_vars(Complete)
  /\ WF_vars(ClientRead /\ UNCHANGED <<serveVars, connUp, up, down, connVars, historyVars>>)

FairSpec == Spec /\ Fairness

=============================================================================
