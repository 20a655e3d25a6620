------------------------ MODULE ReuseServerProperties ------------------------
(***************************************************************************)
(* What the reusing server promises, and that it is the far end the        *)
(* reusing client is modelled against.                                     *)
(***************************************************************************)
EXTENDS ReuseServer

\* The response stream is one complete response after another: a reply, its data and
\* the zero chunk, or an error that nothing follows.  No goroutine writes behind the
\* end that another one wrote.
Follows(r, next) ==
  \/ r.kind \in {"reply", "data"} /\ next.kind \in {"data", "eof"} /\ next.conn = r.conn
  \/ r.kind = "eof" /\ next.kind \in {"reply", "error"}

ResponseOrder == \A i \in 1 .. Len(toClient) - 1 : Follows(toClient[i], toClient[i + 1])

\* What the goroutines know of each other: the writer has the lock, a connection ends
\* under it, and Serve asks for the next request behind a complete response only.
Held ==
  /\ down = "write" => locked /\ ended = "no" /\ (replyWritten => sent < MaxData)
  /\ locked => down = "write"
  /\ writeClosed <=> ended # "no"
  /\ ended = "failed" => ~connUp \/ ~clientUp
  /\ ended = "ok" => IF aborted THEN ~connUp ELSE replyWritten
  /\ serve \in {"accept", "dispatch"} => ended = "no" /\ ~replyWritten
  /\ serve \in {"next", "drain"} => ended = "ok" /\ ~aborted
  /\ serve = "after" => ended # "no"
  /\ up \notin {"off", "done"} \/ down \notin {"off", "done"} => cur # Nobody
  /\ serve \notin {"accept", "rejected"} => cur # Nobody
  /\ serve \in {"accept", "dispatch", "first", "refused", "handed"} => up = "off" /\ down = "off"

\* How the response stream ends, as long as anything can be appended to it.
Ending ==
  connUp /\ clientUp /\ toClient # <<>> =>
    LET last == toClient[Len(toClient)]
    IN  IF replyWritten /\ ended = "no"
        THEN last.conn = cur /\ last.kind \in {"reply", "data"}
        ELSE last.kind = "eof"

WriteOrder == Held /\ Ending /\ ResponseOrder

\* The handler and the drain of a connection take its own records, and Serve takes
\* nothing else for a request, from a client that ends its request streams.
OwnRequest ==
  OrderlyClient /\ toServer # <<>> =>
    /\ connUp /\ (up = "read" \/ (serve = "drain" /\ drained < DiscardLimit))
         => Head(toServer).conn = cur
    /\ connUp /\ serve \in {"accept", "next"} => Head(toServer).kind = "request"

\* onClose runs once: when Serve returns, or when the packet handler it gave the
\* tunnel to is done.
OnCloseOnce == onCloses = IF serve = "done" THEN 1 ELSE 0

\* A cancelled Serve does not leave a goroutine of the handler blocked.
HandlerReleased == serve = "done" ~> up # "read" /\ down # "write"

\* Once a handler is done with a connection whose request stream the client has
\* ended, Serve goes on to the next request, or gives the tunnel up.
ServeGoesOn == completed /\ cur # Nobody /\ wrote[cur] = "eof" ~> serve \in {"next", "done"}

-----------------------------------------------------------------------------
\* The far end of ReuseTunnel, of the one tunnel "tun".
Tun == {"tun"}
Only(x) == [s \in Tun |-> x]

Phase ==
  IF cur = Nobody \/ (ended = "ok" /\ ~aborted /\ requestEOF) THEN "idle"
  ELSE IF ended = "ok" /\ ~aborted THEN "ended"
  ELSE IF replyWritten THEN "replied"
  ELSE "called"

Tunnel == INSTANCE ReuseTunnel WITH
  Sessions <- Tun, PoolSize <- 1, MaxAge <- 0, Events <- {"break"},
  Ticker <- "ticker", Resetter <- "resetter", Shutter <- "shutter",
  state <- Only(IF clientUp THEN "Active" ELSE "Closed"),
  entries <- {}, age <- Only(0), poolClosed <- FALSE, ticking <- FALSE, loops <- 0,
  drainWg <- 0, pending <- <<>>, shut <- "no",
  inbound <- Only(toClient), outbound <- Only(toServer),
  phase <- Only(Phase), serving <- Only(cur), clientEOF <- Only(requestEOF),
  sent <- Only(sent), peerUp <- Only(connUp /\ serve \notin {"done", "rejected"}), misread <- Only(misread)

\* Serve and its handlers do what the client expects of the far end of a tunnel.
FarEnd == Tunnel!FarSpec

=============================================================================
