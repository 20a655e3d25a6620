----------------------------- MODULE ReuseTunnel -----------------------------
(***************************************************************************)
(* The two record streams of every tunnel, and the server at its far end   *)
(* as the client meets it: the loop of serverReuseSession.Serve            *)
(* (snellv5/reuse.go) reduced to what it reads from and writes to the      *)
(* tunnel.  A record is [conn, kind]: the logical connection that wrote it *)
(* and whether it is a request, a reply, an error reply, data, or the zero *)
(* chunk that ends one direction ("eof").  The far end sees no "conn": the *)
(* field is only there for the properties to look at.                      *)
(***************************************************************************)
EXTENDS ReusePool, Sequences

CONSTANTS
  MaxData,  \* data records the server sends per logical connection
  Nobody    \* no logical connection

ASSUME TunnelAssumption == MaxData \in Nat /\ Nobody \notin Conns

Kinds   == {"request", "reply", "error", "data", "eof"}
Records == [conn : Conns \cup {Nobody}, kind : Kinds]
Record(c, k) == [conn |-> c, kind |-> k]

VARIABLES
  inbound,   \* records on their way to the client
  outbound,  \* records on their way to the server
  phase,     \* Serve: awaiting a request, or how far the response has come
  serving,   \* the logical connection it serves (or served last)
  clientEOF, \* Serve has read the zero chunk of the request stream
  sent,      \* data records of this response
  peerUp,    \* the TCP connection is up, seen from the far end
  misread    \* Serve took another record for a request, or a request for data

tunnelVars == <<inbound, outbound, phase, serving, clientEOF, sent, peerUp, misread>>

TunnelTypeOK ==
  /\ inbound \in [Sessions -> Seq(Records)]
  /\ outbound \in [Sessions -> Seq(Records)]
  /\ phase \in [Sessions -> {"idle", "called", "replied", "ended"}]
  /\ serving \in [Sessions -> Conns \cup {Nobody}]
  /\ clientEOF \in [Sessions -> BOOLEAN]
  /\ sent \in [Sessions -> 0 .. MaxData]
  /\ peerUp \in [Sessions -> BOOLEAN]
  /\ misread \in [Sessions -> BOOLEAN]

TunnelInit ==
  /\ inbound = [s \in Sessions |-> <<>>]
  /\ outbound = [s \in Sessions |-> <<>>]
  /\ phase = [s \in Sessions |-> "idle"]
  /\ serving = [s \in Sessions |-> Nobody]
  /\ clientEOF = [s \in Sessions |-> FALSE]
  /\ sent = [s \in Sessions |-> 0]
  /\ peerUp = [s \in Sessions |-> TRUE]
  /\ misread = [s \in Sessions |-> FALSE]

-----------------------------------------------------------------------------
\* The client's view of a tunnel.

\* A write to the tunnel: lost without an error when the far end is gone but the
\* local socket has not noticed.
Send(s, records) ==
  outbound' = [outbound EXCEPT ![s] = IF peerUp[s] THEN @ \o records ELSE @]

\* A write may fail once either end has closed the connection.
MayFail(s) == state[s] = "Closed" \/ ~peerUp[s]

\* ReadRecord and NextRecord: the next record of the response stream.  Records
\* already received are still read after either end has closed.  io.EOF is both
\* a zero chunk and the far end closing the connection between two records.
Receive(s, kind) ==
  \/ /\ inbound[s] # <<>>
     /\ kind = Head(inbound[s]).kind
     /\ inbound' = [inbound EXCEPT ![s] = Tail(@)]
  \/ /\ kind = "fail"
     /\ MayFail(s)
     /\ UNCHANGED inbound
  \/ /\ kind = "eof"
     /\ inbound[s] = <<>> /\ ~peerUp[s] /\ state[s] # "Closed"
     /\ UNCHANGED inbound

-----------------------------------------------------------------------------
\* The far end.  It stops mattering once the client has closed the session.
Serving(s) == peerUp[s] /\ state[s] # "Closed" /\ state[s] # "None"

Reply(s, kind) == inbound' = [inbound EXCEPT ![s] = Append(@, Record(serving[s], kind))]

\* The response is complete in both directions: Serve reads the next request.
NextPhase(s, p, eof) == IF p = "ended" /\ eof THEN "idle" ELSE p

\* Serve reads the next record as a request.
PeerRequest(s) ==
  /\ Serving(s)
  /\ phase[s] = "idle"
  /\ outbound[s] # <<>>
  /\ outbound' = [outbound EXCEPT ![s] = Tail(@)]
  /\ IF Head(outbound[s]).kind = "request"
     THEN /\ phase' = [phase EXCEPT ![s] = "called"]
          /\ serving' = [serving EXCEPT ![s] = Head(outbound[s]).conn]
          /\ clientEOF' = [clientEOF EXCEPT ![s] = FALSE]
          /\ sent' = [sent EXCEPT ![s] = 0]
          /\ UNCHANGED <<peerUp, misread>>
     ELSE /\ peerUp' = [peerUp EXCEPT ![s] = FALSE]
          /\ misread' = [misread EXCEPT ![s] = Head(outbound[s]).kind # "eof"]
          /\ UNCHANGED <<phase, serving, clientEOF, sent>>
  /\ UNCHANGED inbound

\* The handler, or the drain after it, reads a record of the request stream.
PeerRead(s) ==
  /\ Serving(s)
  /\ phase[s] # "idle"
  /\ ~clientEOF[s]
  /\ outbound[s] # <<>>
  /\ outbound' = [outbound EXCEPT ![s] = Tail(@)]
  /\ LET eof == Head(outbound[s]).kind = "eof"
     IN /\ clientEOF' = [clientEOF EXCEPT ![s] = eof]
        /\ phase' = [phase EXCEPT ![s] = NextPhase(s, @, eof)]
  /\ misread' = [misread EXCEPT ![s] = Head(outbound[s]).kind = "request"]
  /\ UNCHANGED <<inbound, serving, sent, peerUp>>

\* The first write of the handler carries the reply.
PeerReply(s) ==
  /\ Serving(s)
  /\ phase[s] = "called"
  /\ Reply(s, "reply")
  /\ phase' = [phase EXCEPT ![s] = "replied"]
  /\ UNCHANGED <<outbound, serving, clientEOF, sent, peerUp, misread>>

PeerData(s) ==
  /\ Serving(s)
  /\ phase[s] = "replied"
  /\ sent[s] < MaxData
  /\ Reply(s, "data")
  /\ sent' = [sent EXCEPT ![s] = @ + 1]
  /\ UNCHANGED <<outbound, phase, serving, clientEOF, peerUp, misread>>

\* CloseWrite after a reply: the zero chunk.
PeerEnd(s) ==
  /\ Serving(s)
  /\ phase[s] = "replied"
  /\ Reply(s, "eof")
  /\ phase' = [phase EXCEPT ![s] = NextPhase(s, "ended", clientEOF[s])]
  /\ UNCHANGED <<outbound, serving, clientEOF, sent, peerUp, misread>>

\* CloseWrite before any reply: an error reply, then the connection is closed.
PeerAbort(s) ==
  /\ Serving(s)
  /\ phase[s] = "called"
  /\ Reply(s, "error")
  /\ peerUp' = [peerUp EXCEPT ![s] = FALSE]
  /\ UNCHANGED <<outbound, phase, serving, clientEOF, sent, misread>>

\* The connection breaks, or the far end drops it.
PeerGone(s) ==
  /\ "break" \in Events
  /\ Serving(s)
  /\ peerUp' = [peerUp EXCEPT ![s] = FALSE]
  /\ UNCHANGED <<inbound, outbound, phase, serving, clientEOF, sent, misread>>

PeerStep(s) ==
  \/ PeerRequest(s) \/ PeerRead(s) \/ PeerReply(s) \/ PeerData(s)
  \/ PeerEnd(s) \/ PeerAbort(s) \/ PeerGone(s)

\* Every step of the far end leaves the client's own state alone.
Peer == (\E s \in Sessions : PeerStep(s)) /\ UNCHANGED poolVars

\* The far end by itself, as an abstraction of the server: a client that writes
\* and takes records, and anything at all once it has closed the tunnel.
ClientStep(s) ==
  \/ /\ Len(outbound'[s]) >= Len(outbound[s])
     /\ outbound' = [outbound EXCEPT ![s] = @ \o SubSeq(outbound'[s], Len(@) + 1, Len(outbound'[s]))]
     /\ UNCHANGED <<inbound, phase, serving, clientEOF, sent, peerUp, misread>>
  \/ /\ inbound[s] # <<>>
     /\ inbound' = [inbound EXCEPT ![s] = Tail(@)]
     /\ UNCHANGED <<outbound, phase, serving, clientEOF, sent, peerUp, misread>>

FarNext == \E s \in Sessions : PeerStep(s) \/ ClientStep(s) \/ state[s] = "Closed"
FarSpec == TunnelInit /\ [][FarNext]_tunnelVars

=============================================================================
