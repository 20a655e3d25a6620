--------------------------- MODULE ReuseProperties ---------------------------
(***************************************************************************)
(* What the reusing client promises.                                       *)
(***************************************************************************)
EXTENDS ReuseClient

\* The threads that are inside a read of the tunnel of session s.
Readers(s) ==
  {<<"read", c>> : c \in {d \in Conns : sess[d] = s /\ rd[d] \in {"reply", "record"}}}
    \cup {<<"drain", c>> : c \in {d \in Conns : sess[d] = s /\ dr[d] = "record"}}

\* The application of c holds its session: from Take or the dialer to MoveToPool.
Holds(c) == sess[c] # Nowhere /\ app[c] \notin {"new", "purge", "purgeDrain", "over"}

-----------------------------------------------------------------------------
\* Custody of the tunnels.  At any time one connection at most is busy with a
\* session: its application holds it, a Read of it may still take records, or its
\* drain does or is about to.
Reads(c) == rd[c] \in {"reply", "record", "result"}
Busy(c) == Holds(c) \/ Reads(c) \/ dr[c] = "record" \/ app[c] = "purgeDrain"

OneBusy ==
  \A c, d \in Conns : sess[c] = sess[d] /\ sess[c] # Nowhere /\ Busy(c) /\ Busy(d) => c = d

\* What the threads of connection c know of each other; and who goes on discarding has not
\* reached the limit.
Agree(c) ==
  /\ rd[c] = "idle" \/ closed[c] \/ app[c] = "open"
  /\ readCount[c] = IF rd[c] \in {"idle", "entered"} THEN 0 ELSE 1
  /\ dr[c] # "off" => app[c] = "over"
  /\ app[c] \in {"new", "dialing"} => sess[c] = Nowhere
  /\ sess[c] = Nowhere => /\ app[c] \in {"new", "taken", "dialing", "over"}
                          /\ rd[c] = "idle" /\ dr[c] = "off"
  /\ rd[c] # "leave" => discarded[c] < DiscardLimit
  /\ dr[c] = "record" \/ app[c] # "over" => drained[c] < DiscardLimit

ThreadsAgree == \A c \in Conns : Agree(c)

\* A Read that met the EOF takes no further record, and a drain has the tunnel to
\* itself.
Alone(c) ==
  /\ readClosed[c] => rd[c] \in {"idle", "leave"}
  /\ rd[c] # "settle"
  /\ app[c] = "release" => readClosed[c]
  /\ dr[c] = "record" \/ app[c] \in {"drain", "poolDrain", "purgeDrain"} => ~Reads(c)

ReadsEnd == \A c \in Conns : Alone(c)

\* What the state word of a session says of the connection busy with it, and what
\* its place in the pool does.
Tells(c) ==
  /\ sess[c] # Nowhere /\ state[sess[c]] = "Ready" /\ Busy(c)
       => app[c] \in {"pool", "recheck"} /\ ~Reads(c) /\ dr[c] # "record"
  /\ sess[c] # Nowhere /\ state[sess[c]] = "Waiting" /\ Holds(c)
       => app[c] \in {"recheck", "pool", "poolDrain"}
  /\ sess[c] # Nowhere /\ app[c] \notin {"dialed", "over"} => state[sess[c]] # "None"
  /\ sess[c] \in entries => ~Holds(c)

StateTells == \A c \in Conns : Tells(c)

PooledExist == \A s \in entries : state[s] # "None"

Custody == ThreadsAgree /\ ReadsEnd /\ OneBusy /\ StateTells /\ PooledExist

\* The record reader has no lock: no two threads may be inside it, although the
\* Read of one connection, its drain and the Read of the next all come and go.
SingleReader == \A s \in Sessions : \A x, y \in Readers(s) : x = y

\* Whoever reads a tunnel reads the response it asked for, never what is left of
\* an earlier connection's response.
OwnResponse ==
  \A c \in Conns :
    /\ rd[c] \in {"reply", "record"} \/ dr[c] = "record"
    /\ inbound[sess[c]] # <<>>
    => Head(inbound[sess[c]]).conn = c

\* A session is ready only once its last response is read to the end, its last
\* request stream has its zero chunk, and no thread reads it.
ReadyIsClean ==
  \A s \in Sessions :
    state[s] = "Ready" => /\ Readers(s) = {}
                          /\ inbound[s] = <<>>
                          /\ \A c \in Conns : sess[c] = s /\ ~Holds(c) => wroteEOF[c] = "ok"

\* Serve never takes a record of one connection for the request of the next, nor
\* the request of the next for data of the one it serves.
NoMisread == \A s \in Sessions : ~misread[s]

\* No session is lent to two connections, or lent while it is in the pool.
SoleHolder ==
  \A c, d \in Conns : Holds(c) => /\ Holds(d) /\ sess[c] = sess[d] => c = d
                                  /\ sess[c] \notin entries

\* Every session that is not closed is in the pool, or lent, or taken off the
\* list by a thread that is about to close it: none is lost.
NoneLost ==
  \A s \in Sessions :
    state[s] \notin {"None", "Closed"} =>
      \/ s \in entries
      \/ \E c \in Conns : Holds(c) /\ sess[c] = s
      \/ \E t \in Threads : s \in pending[t]

\* drainWg counts the drains that run or are about to.
DrainsCounted ==
  drainWg = Cardinality({c \in Conns : dr[c] # "off" \/ app[c] = "purgeDrain"})

\* While the pool is open an ExpireLoop runs whenever something is in it, and
\* never two.
ExpireLoopRuns == ~poolClosed => /\ loops = IF ticking THEN 1 ELSE 0
                                 /\ entries # {} => ticking

\* Closing a session is final: no late compare-and-swap or Store revives it.
ClosedIsFinal ==
  [][\A s \in Sessions : state[s] = "Closed" => state'[s] = "Closed"]_state

\* A drain discards what arrives while its session waits for the server's EOF, and
\* nothing that arrives later.
DrainWaits ==
  \A c \in Conns : dr[c] = "record" => state[sess[c]] \in {"Waiting", "Closed"}

\* A waiting session that its application has left, with no Read in progress, has a
\* drain that reads it up to the server's EOF.
WaitingIsRead ==
  \A s \in Sessions :
    /\ state[s] = "Waiting"
    /\ \A c \in Conns : sess[c] = s => app[c] = "over" /\ readCount[c] = 0
    => \E c \in Conns : sess[c] = s /\ dr[c] = "record"

-----------------------------------------------------------------------------
\* Goroutines and threads that are not blocked run; a Read or a drain blocks until
\* there is something to receive; time passes.  Nothing is asked of the server, nor
\* of the application, except that a DialContext or a Close it started ends.
Fairness ==
  /\ \A c \in Conns : /\ WF_vars(Closing(c)) /\ WF_vars(Reading(c)) /\ WF_vars(Draining(c))
                      /\ WF_vars(Taken(c) \/ Dialed(c) \/ Open(c))
  /\ \A t \in Threads : WF_vars(ClosePending(t) /\ UNCHANGED <<tunnelVars, connVars>>)
  /\ WF_vars((ExpireTick \/ ExpireStop) /\ UNCHANGED <<tunnelVars, connVars>>)
  /\ WF_vars((CloseWait \/ CloseReturn) /\ UNCHANGED <<tunnelVars, connVars>>)
  /\ WF_vars(ClockTick /\ UNCHANGED <<tunnelVars, connVars>>)

FairSpec == Spec /\ Fairness

\* Pool.Close returns: the sessions it closes wake every drain it waits for.
CloseReturns == shut = "closing" ~> shut = "done"

\* No session waits for ever, even for a server that never ends its response: it
\* is read to the end, or it ages in the pool until ExpireLoop closes it.
WaitingEnds == \A s \in Sessions : state[s] = "Waiting" ~> state[s] # "Waiting"

\* A closed client lets go of every session once its connections are closed.
AllReleased ==
  (poolClosed /\ \A c \in Conns : app[c] = "over")
    ~> (\A s \in Sessions : state[s] \in {"None", "Closed"})

=============================================================================
