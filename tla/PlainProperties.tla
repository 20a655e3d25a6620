--------------------------- MODULE PlainProperties ---------------------------
(***************************************************************************)
(* The connections with one tunnel together, and what they owe to the      *)
(* goroutines that share them.                                             *)
(***************************************************************************)
EXTENDS PlainStream, PacketTunnel

StreamStep(g) == Check(g) \/ Lock(g) \/ First(g) \/ Put(g) \/ CloseFirst(g) \/ Zero(g) \/ CloseLast(g)
                 \/ ReadResponse(g) \/ ReadNext(g)
PacketStep(g) == BatchLock(g) \/ Request(g) \/ ReplyLock(g) \/ ReadReply(g) \/ ServerReply(g)
                 \/ PutPackets(g) \/ ReadPacket(g)
Accept == (\E at \in {"request", "first"} : AcceptFails(at))
          \/ AcceptRequest \/ AcceptReply \/ AcceptFirst

Next ==
  \/ \E g \in Goroutines : StreamBegin(g) \/ CloseWrite(g) \/ Close(g) \/ ReadBegin(g) \/ StreamStep(g)
  \/ \E g \in Goroutines : PacketBegin(g) \/ ClosePackets(g) \/ PacketStep(g)
  \/ Accept

\* A goroutine that can go on does, and so does the service's.  Nothing makes an
\* application call.
Spec ==
  /\ Init /\ [][Next]_vars
  /\ \A g \in Goroutines : WF_vars(StreamStep(g) \/ PacketStep(g))
  /\ WF_vars(Accept)

-----------------------------------------------------------------------------

\* What a reader gets out of the records of an end, if it reads them from the first.
Legible(e) ==
  {i \in DOMAIN wire[e] : \A j \in 1 .. i : wire[e][j] # Torn /\ wire[e][j].n = j - 1
                                             /\ wire[e][j].writer = wire[e][1].writer}
InTurn(items) == \A i, j \in DOMAIN items : i < j => Follows(items[i], items[j])
HeardInTurn(e) ==
  \A i, k \in Legible(e) : \A j \in DOMAIN wire[e][i].items, l \in DOMAIN wire[e][k].items :
     i < k \/ (i = k /\ j < l) => Follows(wire[e][i].items[j], wire[e][k].items[l])

\* However calls interleave, fail and are made again, the far end hears one head, before
\* all else, and every datum at most once and in the order of its sender, though a write
\* that failed may have put a part of its data on the wire; what an end hands out is in
\* that order too.
OnceInOrder ==
  \A e \in Ends :
     /\ HeardInTurn(e) /\ InTurn(handed[e])
     /\ \A i \in Legible(e) : \A j \in DOMAIN wire[e][i].items :
          wire[e][i].items[j] \in Heads <=> i = 1 /\ j = 1

\* As long as no write of the connection fails, the far end hears all that was in a call
\* that returned nil before CloseWrite: the goroutines that find no writer make one
\* between them.
OnWire(e, d) == \E i \in Legible(e) : \E j \in DOMAIN wire[e][i].items : wire[e][i].items[j] = d
Kept == failures = 0 => \A d \in done : OnWire(EndOf(d.by), d)

\* Why that is so.  The goroutine in its first write has access and there is no writer;
\* whoever is past it finds one.  The service's reply comes before its handler's calls.
HoldsAt(g, at, op) ==
  /\ g \in HandlerCallers /\ at # "idle" => kind = "packets" /\ accept = "up"
  /\ at \in {"first", "zero", "close"} => kind = "stream" /\ access = g
  /\ at = "first" => writer[side] = 0
  /\ at \in {"put", "zero"} => writer[EndOf(g)] # 0
  /\ kind = "packets" /\ g \in Callers /\ at \in {"reply", "await"} /\ op # "recv" => writer["client"] # 0
Holders ==
  /\ \A g \in Goroutines : HoldsAt(g, pc[g], call[g].op)
  /\ accept \in {"request", "reply"} => kind = "packets" /\ writer["server"] = 0

\* A call that does not write has no data, one that failed or has written nothing yet has
\* all of it left.
Agrees(g, at, c) ==
  /\ c.op \in {"none", "recv", "read", "closeWrite", "close"} => c.data = << >>
  /\ c.op = "vector" => c.data # << >>
  /\ at \in {"zero", "close"} => c.op = "closeWrite"
  /\ at = "next" => c.op \in {"read", "recv"}
  /\ kind = "stream" /\ at = "reply" => c.op = "read"
  /\ kind = "stream" /\ at \in {"check", "lock", "first"} => c.op \in {"write", "vector", "closeWrite"}
  /\ at \in {"check", "lock", "first"} \/ (at = "idle" /\ c.failed) => c.left = c.data
  /\ \A i \in DOMAIN c.data : c.data[i].by = g
CallsAgree == \A g \in Goroutines : Agrees(g, pc[g], call[g])

\* As long as no write fails, an end has one writer, whose records are on the wire, and
\* what a call has not left to write is among them.
OneWriter ==
  failures = 0 => \A e \in Ends :
     /\ \A i \in DOMAIN wire[e] : wire[e][i].writer = 1 /\ wire[e][i].n = i - 1
     /\ \/ gone[e]
        \/ writer[e] = 0 /\ nonces[e] = << >> /\ wire[e] = << >>
        \/ writer[e] = 1 /\ nonces[e] = << Len(wire[e]) >>

LeftOrWritten ==
  failures = 0 => \A g \in Goroutines : pc[g] # "idle" =>
     \A i \in DOMAIN call[g].data :
        \/ \E j \in DOMAIN call[g].left : call[g].left[j] = call[g].data[i]
        \/ OnWire(EndOf(g), call[g].data[i])

\* A call that writes or closes returns, though the first of them waits for the other end
\* of a packet tunnel and all others for the first.
CallsReturn ==
  \A g \in Goroutines : (pc[g] # "idle" /\ call[g].op # "read" /\ call[g].op # "recv") ~> (pc[g] = "idle")
=============================================================================
