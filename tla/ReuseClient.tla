----------------------------- MODULE ReuseClient -----------------------------
(***************************************************************************)
(* The reusing client: snellv4/reuse.go, and snellv6/reuse.go up to the    *)
(* server half, which is the same code.  A client keeps tunnels            *)
(* (reuseSession) open after use and runs one logical connection           *)
(* (reuseConn) after another over each.                                    *)
(*                                                                         *)
(* Every logical connection c has three threads:                           *)
(*   app[c]   the application: dials, writes, and closes once;             *)
(*   rd[c]    the application's reader: one Read call after another;       *)
(*   dr[c]    the goroutine drain that Close may start.                    *)
(* A step is one access to a shared atomic, one critical section of the    *)
(* pool, or one record sent or received.                                   *)
(***************************************************************************)
EXTENDS ReuseTunnel

CONSTANTS
  KeepConns,    \* connections dialled under ContextWithKeepSession
  DiscardLimit, \* WaitingDiscardLimit, in records
  ReaderPauses, \* the reader may stop between two statements for as long as a
                \* whole later connection (FALSE: it runs them together)
  LateWrites,   \* the application may still be writing after CloseWrite or Close
  ReadsPastEOF, \* the application may call Read again after a Read returned EOF
  InFlight,     \* bound: a data record is written behind fewer records than this
  Nowhere       \* no session

ASSUME ClientAssumption ==
  /\ KeepConns \subseteq Conns
  /\ DiscardLimit \in Nat \ {0}
  /\ ReaderPauses \in BOOLEAN
  /\ LateWrites \in BOOLEAN
  /\ ReadsPastEOF \in BOOLEAN
  /\ InFlight \in Nat
  /\ Nowhere \notin Sessions

AppPc == {"new", "taken", "dialing", "dialed", "open", "closing", "closeWrite",
          "release", "askIdle", "askReader", "wait", "recheck", "drain",
          "pool", "poolDrain", "purge", "purgeDrain", "over"}
ReadPc == {"idle", "entered", "counted", "reply", "record", "result", "markEOF",
           "settle", "leave"}
DrainPc == {"off", "record", "finish"}

VARIABLES
  app, rd, dr,
  sess,        \* reuseConn.session, Nowhere before there is one
  closed,      \* reuseConn.closed
  replyRead,   \* reuseConn.replyRead
  readClosed,  \* reuseConn.readClosed
  readCount,   \* reuseConn.readActionCount
  requested,   \* reuseConn.writer # nil: the request is written
  wroteEOF,    \* closeWriteOnce and closeWriteErr: "no", "ok" or "failed"
  got,         \* what the current Read received
  discarded,   \* records the current Read discarded
  drained,     \* records the drain discarded
  keepOnce,    \* reuseSession.keepOnce
  closeIdle,   \* Client.closeIdle
  resetDue     \* SetKeepIdleConnections(false) has not called Pool.Reset yet

connVars == <<app, rd, dr, sess, closed, replyRead, readClosed, readCount, requested,
              wroteEOF, got, discarded, drained, keepOnce, closeIdle, resetDue>>
vars == <<poolVars, tunnelVars, connVars>>

ConnTypeOK ==
  /\ app \in [Conns -> AppPc]
  /\ rd \in [Conns -> ReadPc]
  /\ dr \in [Conns -> DrainPc]
  /\ sess \in [Conns -> Sessions \cup {Nowhere}]
  /\ closed \in [Conns -> BOOLEAN]
  /\ replyRead \in [Conns -> BOOLEAN]
  /\ readClosed \in [Conns -> BOOLEAN]
  /\ readCount \in [Conns -> {0, 1}]
  /\ requested \in [Conns -> BOOLEAN]
  /\ wroteEOF \in [Conns -> {"no", "ok", "failed"}]
  /\ got \in [Conns -> {"none"} \cup Kinds \cup {"fail"}]
  /\ discarded \in [Conns -> 0 .. DiscardLimit]
  /\ drained \in [Conns -> 0 .. DiscardLimit]
  /\ keepOnce \in [Sessions -> BOOLEAN]
  /\ closeIdle \in BOOLEAN
  /\ resetDue \in BOOLEAN

TypeOK == PoolTypeOK /\ TunnelTypeOK /\ ConnTypeOK

Init ==
  /\ PoolInit
  /\ TunnelInit
  /\ app = [c \in Conns |-> "new"]
  /\ rd = [c \in Conns |-> "idle"]
  /\ dr = [c \in Conns |-> "off"]
  /\ sess = [c \in Conns |-> Nowhere]
  /\ closed = [c \in Conns |-> FALSE]
  /\ replyRead = [c \in Conns |-> FALSE]
  /\ readClosed = [c \in Conns |-> FALSE]
  /\ readCount = [c \in Conns |-> 0]
  /\ requested = [c \in Conns |-> FALSE]
  /\ wroteEOF = [c \in Conns |-> "no"]
  /\ got = [c \in Conns |-> "none"]
  /\ discarded = [c \in Conns |-> 0]
  /\ drained = [c \in Conns |-> 0]
  /\ keepOnce = [s \in Sessions |-> FALSE]
  /\ closeIdle = FALSE
  /\ resetDue = FALSE

-----------------------------------------------------------------------------
\* Frames: what an action leaves alone.
poolOnly  == <<entries, age, poolClosed, ticking, loops, drainWg, pending, shut>>
readVars  == <<rd, replyRead, readClosed, readCount, got, discarded>>
drainVars == <<dr, drained>>
writeVars == <<requested, wroteEOF>>
idleVars  == <<keepOnce, closeIdle, resetDue>>
appVars   == <<app, sess, closed>>

Goto(c, pc) == app' = [app EXCEPT ![c] = pc]

\* Mutant: the reader stores StateReady instead of swapping it for StateWaiting.
SettleStores(s) == state' = [state EXCEPT ![s] = "Ready"]

\* The compare-and-swap of a state word by a thread that ignores its outcome.
Settle(s) == state' = [state EXCEPT ![s] = IF @ = "Waiting" THEN "Ready" ELSE @]

\* A compare-and-swap from StateActive by the closing application, which closes
\* the session when the swap is refused and goes on to "pc" otherwise.
Leave(c, refused, to, pc) ==
  /\ state' = [state EXCEPT ![sess[c]] = IF refused \/ @ # "Active" THEN "Closed" ELSE to]
  /\ Goto(c, IF refused \/ state[sess[c]] # "Active" THEN "over" ELSE pc)

\* reuseSession.closeIdle, which spends keepOnce as it asks.
CloseIdle(c) == closeIdle /\ ~keepOnce[sess[c]]
SpendKeep(c) == /\ keepOnce' = [keepOnce EXCEPT ![sess[c]] = @ /\ ~closeIdle]
                /\ UNCHANGED <<closeIdle, resetDue>>

-----------------------------------------------------------------------------
\* DialContext and reuseSession: take a pooled session ...
Dial(c) ==
  /\ app[c] = "new"
  /\ \/ \E s \in Sessions : /\ TakeReady(c, s)
                            /\ sess' = [sess EXCEPT ![c] = s]
                            /\ Goto(c, "taken")
     \/ TakeNone(c) /\ Goto(c, "taken") /\ UNCHANGED sess
     \/ poolClosed /\ Goto(c, "over") /\ UNCHANGED <<poolVars, sess>>
  /\ UNCHANGED <<tunnelVars, readVars, drainVars, writeVars, idleVars, closed>>

\* ... close what Take removed, and run DialConn on the session found: one that
\* is not active is refused and closed.  Without one, dial.
Taken(c) ==
  /\ app[c] = "taken"
  /\ pending[c] = {}
  /\ IF sess[c] = Nowhere
     THEN Goto(c, "dialing") /\ UNCHANGED <<state, keepOnce>>
     ELSE /\ Leave(c, FALSE, "Active", "open")
          /\ keepOnce' = [keepOnce EXCEPT ![sess[c]] = @ \/ c \in KeepConns]
  /\ UNCHANGED <<poolOnly, tunnelVars, readVars, drainVars, writeVars, sess, closed, closeIdle,
                 resetDue>>

\* The dialer returns a new connection, or an error.
Dialed(c) ==
  /\ app[c] = "dialing"
  /\ \/ \E s \in Sessions : /\ state[s] = "None"
                            /\ s \notin {sess[d] : d \in Conns}
                            /\ sess' = [sess EXCEPT ![c] = s]
                            /\ Goto(c, "dialed")
     \/ Goto(c, "over") /\ UNCHANGED sess
  /\ UNCHANGED <<poolVars, tunnelVars, readVars, drainVars, writeVars, idleVars, closed>>

\* The pool may have closed meanwhile; otherwise the session is born active.
Open(c) ==
  /\ app[c] = "dialed"
  /\ state' = [state EXCEPT ![sess[c]] = IF poolClosed THEN "Closed" ELSE "Active"]
  /\ keepOnce' = [keepOnce EXCEPT ![sess[c]] = ~poolClosed /\ c \in KeepConns]
  /\ Goto(c, IF poolClosed THEN "over" ELSE "open")
  /\ UNCHANGED <<poolOnly, tunnelVars, readVars, drainVars, writeVars, sess, closed, closeIdle,
                 resetDue>>

-----------------------------------------------------------------------------
\* Write: the first one carries the request, and its failure closes the session.
WriteRequest(c) ==
  /\ app[c] = "open"
  /\ ~requested[c]
  /\ \/ /\ state[sess[c]] # "Closed"
        /\ Send(sess[c], <<Record(c, "request")>>)
        /\ requested' = [requested EXCEPT ![c] = TRUE]
        /\ UNCHANGED state
     \/ /\ MayFail(sess[c])
        /\ SwapClosed(sess[c])
        /\ UNCHANGED <<outbound, requested>>
  /\ UNCHANGED <<poolOnly, inbound, phase, serving, clientEOF, sent, peerUp, misread,
                 readVars, drainVars, wroteEOF, idleVars, appVars>>

\* The later ones go straight to the session's writer: nothing asks whether the
\* connection is closed, nor whether its zero chunk is written.
WriteData(c) ==
  /\ requested[c]
  /\ LateWrites \/ (app[c] = "open" /\ wroteEOF[c] = "no")
  /\ state[sess[c]] # "Closed"
  /\ peerUp[sess[c]]
  /\ Len(outbound[sess[c]]) < InFlight
  /\ Send(sess[c], <<Record(c, "data")>>)
  /\ UNCHANGED <<poolVars, inbound, phase, serving, clientEOF, sent, peerUp, misread,
                 connVars>>

\* Mutant: CloseWrite forgets the zero chunk when the request is already written.
EndWriteNoChunk(c) ==
  \/ /\ state[sess[c]] # "Closed"
     /\ Send(sess[c], IF requested[c] THEN <<>> ELSE <<Record(c, "request"), Record(c, "eof")>>)
     /\ requested' = [requested EXCEPT ![c] = TRUE]
     /\ wroteEOF' = [wroteEOF EXCEPT ![c] = "ok"]
     /\ UNCHANGED state
  \/ /\ MayFail(sess[c])
     /\ wroteEOF' = [wroteEOF EXCEPT ![c] = "failed"]
     /\ UNCHANGED <<state, outbound, requested>>

\* The body of closeWriteOnce: the request if there was none, and the zero chunk.
EndWrite(c) ==
  \/ /\ state[sess[c]] # "Closed"
     /\ Send(sess[c], (IF requested[c] THEN <<>> ELSE <<Record(c, "request")>>)
                        \o <<Record(c, "eof")>>)
     /\ requested' = [requested EXCEPT ![c] = TRUE]
     /\ wroteEOF' = [wroteEOF EXCEPT ![c] = "ok"]
     /\ UNCHANGED state
  \/ /\ MayFail(sess[c])
     /\ wroteEOF' = [wroteEOF EXCEPT ![c] = "failed"]
     /\ IF requested[c] THEN UNCHANGED state ELSE SwapClosed(sess[c])
     /\ UNCHANGED <<outbound, requested>>

\* CloseWrite by an application that goes on reading.
CloseWrite(c) ==
  /\ app[c] = "open"
  /\ wroteEOF[c] = "no"
  /\ EndWrite(c)
  /\ UNCHANGED <<poolOnly, inbound, phase, serving, clientEOF, sent, peerUp, misread,
                 readVars, drainVars, idleVars, appVars>>

-----------------------------------------------------------------------------
\* Close, statement by statement.
Close(c) ==
  /\ app[c] = "open"
  /\ closed' = [closed EXCEPT ![c] = TRUE]
  /\ Goto(c, "closing")
  /\ UNCHANGED <<poolVars, tunnelVars, readVars, drainVars, writeVars, idleVars, sess>>

\* Without a reply the session cannot be reused: Release(false).
CheckReply(c) ==
  /\ app[c] = "closing"
  /\ IF replyRead[c]
     THEN Goto(c, "closeWrite") /\ UNCHANGED state
     ELSE Goto(c, "over") /\ SwapClosed(sess[c])
  /\ UNCHANGED <<poolOnly, tunnelVars, readVars, drainVars, writeVars, idleVars, sess, closed>>

CloseEndWrite(c) ==
  /\ app[c] = "closeWrite"
  /\ wroteEOF[c] = "no"
  /\ EndWrite(c)
  /\ UNCHANGED <<poolOnly, inbound, phase, serving, clientEOF, sent, peerUp, misread,
                 readVars, drainVars, idleVars, appVars>>

\* Mutant: Close releases the session for reuse without asking for readClosed.
CheckReadSkipped(c) ==
  /\ app[c] = "closeWrite"
  /\ wroteEOF[c] # "no"
  /\ IF wroteEOF[c] = "failed"
     THEN Goto(c, "over") /\ SwapClosed(sess[c])
     ELSE Goto(c, "release") /\ UNCHANGED state
  /\ UNCHANGED <<poolOnly, tunnelVars, readVars, drainVars, writeVars, idleVars, sess, closed>>

\* A failed CloseWrite releases the session as not reusable; otherwise Close asks
\* whether the server's zero chunk was read.
CheckRead(c) ==
  /\ app[c] = "closeWrite"
  /\ wroteEOF[c] # "no"
  /\ IF wroteEOF[c] = "failed"
     THEN Goto(c, "over") /\ SwapClosed(sess[c])
     ELSE Goto(c, IF readClosed[c] THEN "release" ELSE "askIdle") /\ UNCHANGED state
  /\ UNCHANGED <<poolOnly, tunnelVars, readVars, drainVars, writeVars, idleVars, sess, closed>>

\* Release(true).
Release(c) ==
  /\ app[c] = "release"
  /\ Leave(c, CloseIdle(c), "Ready", "pool")
  /\ SpendKeep(c)
  /\ UNCHANGED <<poolOnly, tunnelVars, readVars, drainVars, writeVars, sess, closed>>

AskIdle(c) ==
  /\ app[c] = "askIdle"
  /\ IF CloseIdle(c)
     THEN Goto(c, "over") /\ SwapClosed(sess[c])
     ELSE Goto(c, "askReader") /\ UNCHANGED state
  /\ SpendKeep(c)
  /\ UNCHANGED <<poolOnly, tunnelVars, readVars, drainVars, writeVars, sess, closed>>

\* Mutant: Close always starts the drain.
AskReaderNever(c) ==
  /\ app[c] = "askReader"
  /\ Goto(c, "drain")
  /\ UNCHANGED <<poolVars, tunnelVars, readVars, drainVars, writeVars, idleVars, sess, closed>>

\* Is a Read in progress?  If so it is left to read up to the server's EOF.
AskReader(c) ==
  /\ app[c] = "askReader"
  /\ Goto(c, IF readCount[c] > 0 THEN "wait" ELSE "drain")
  /\ UNCHANGED <<poolVars, tunnelVars, readVars, drainVars, writeVars, idleVars, sess, closed>>

Wait(c) ==
  /\ app[c] = "wait"
  /\ Leave(c, FALSE, "Waiting", "recheck")
  /\ UNCHANGED <<poolOnly, tunnelVars, readVars, drainVars, writeVars, idleVars, sess, closed>>

\* The Read may have reached the EOF before the swap to StateWaiting.
Recheck(c) ==
  /\ app[c] = "recheck"
  /\ IF readClosed[c] THEN Settle(sess[c]) ELSE UNCHANGED state
  /\ Goto(c, "pool")
  /\ UNCHANGED <<poolOnly, tunnelVars, readVars, drainVars, writeVars, idleVars, sess, closed>>

\* startDrain, which asks closeIdle again.
StartDrain(c) ==
  /\ app[c] = "drain"
  /\ Leave(c, CloseIdle(c), "Waiting", "poolDrain")
  /\ SpendKeep(c)
  /\ UNCHANGED <<poolOnly, tunnelVars, readVars, drainVars, writeVars, sess, closed>>

Pool(c) ==
  /\ app[c] = "pool" /\ MoveToPool(c, sess[c], FALSE) /\ Goto(c, "purge")
  /\ UNCHANGED <<tunnelVars, readVars, drainVars, writeVars, idleVars, sess, closed>>

PoolDrain(c) ==
  /\ app[c] = "poolDrain"
  /\ MoveToPool(c, sess[c], TRUE)
  /\ Goto(c, IF Fits THEN "purgeDrain" ELSE "purge")
  /\ UNCHANGED <<tunnelVars, readVars, drainVars, writeVars, idleVars, sess, closed>>

\* MoveToPool has closed what it removed; startDrain then starts the goroutine.
Closed(c) ==
  /\ app[c] \in {"purge", "purgeDrain"}
  /\ pending[c] = {}
  /\ dr' = [dr EXCEPT ![c] = IF app[c] = "purgeDrain" THEN "record" ELSE @]
  /\ Goto(c, "over")
  /\ UNCHANGED <<poolVars, tunnelVars, readVars, drained, writeVars, idleVars, sess, closed>>

-----------------------------------------------------------------------------
\* Read, ReadBuffer and WaitReadBuffer.  The first look at closed: Close is the
\* step that leaves "open", and a Read that finds it done has no effect.
ReadGoto(c, pc) == rd' = [rd EXCEPT ![c] = pc]

Read(c) ==
  /\ rd[c] = "idle"
  /\ app[c] = "open"
  /\ ReadsPastEOF \/ ~readClosed[c]
  /\ ReadGoto(c, "entered")
  /\ UNCHANGED <<poolVars, tunnelVars, replyRead, readClosed, readCount, got, discarded,
                 drainVars, writeVars, idleVars, appVars>>

\* Mutant: Read defers the decrement but forgets the increment.
CountReadMissing(c) ==
  /\ rd[c] = "entered"
  /\ ReadGoto(c, "counted")
  /\ UNCHANGED <<poolVars, tunnelVars, replyRead, readClosed, readCount, got, discarded,
                 drainVars, writeVars, idleVars, appVars>>

CountRead(c) ==
  /\ rd[c] = "entered"
  /\ readCount' = [readCount EXCEPT ![c] = @ + 1]
  /\ ReadGoto(c, "counted")
  /\ UNCHANGED <<poolVars, tunnelVars, replyRead, readClosed, got, discarded,
                 drainVars, writeVars, idleVars, appVars>>

\* The second look at closed.
RecheckClosed(c) ==
  /\ rd[c] = "counted"
  /\ ReadGoto(c, IF closed[c] THEN "leave" ELSE IF replyRead[c] THEN "record" ELSE "reply")
  /\ UNCHANGED <<poolVars, tunnelVars, replyRead, readClosed, readCount, got, discarded,
                 drainVars, writeVars, idleVars, appVars>>

\* readResponse: anything but a reply is returned to the caller as an error.
ReadReply(c) ==
  /\ rd[c] = "reply"
  /\ \E kind \in Kinds \cup {"fail"} :
       /\ Receive(sess[c], kind)
       /\ replyRead' = [replyRead EXCEPT ![c] = kind = "reply"]
       /\ ReadGoto(c, IF kind = "reply" THEN "record" ELSE "leave")
  /\ UNCHANGED <<poolVars, outbound, phase, serving, clientEOF, sent, peerUp, misread,
                 readClosed, readCount, got, discarded, drainVars, writeVars, idleVars, appVars>>

ReadRecord(c) ==
  /\ rd[c] = "record"
  /\ \E kind \in Kinds \cup {"fail"} : /\ Receive(sess[c], kind)
                                       /\ got' = [got EXCEPT ![c] = kind]
  /\ ReadGoto(c, "result")
  /\ UNCHANGED <<poolVars, outbound, phase, serving, clientEOF, sent, peerUp, misread,
                 replyRead, readClosed, readCount, discarded, drainVars, writeVars, idleVars,
                 appVars>>

\* A record received while the connection is open is returned ...
ResultOpen(c) ==
  /\ rd[c] = "result"
  /\ ~closed[c]
  /\ ReadGoto(c, IF got[c] = "eof" THEN "markEOF" ELSE "leave")
  /\ UNCHANGED <<poolVars, tunnelVars, replyRead, readClosed, readCount, got, discarded,
                 drainVars, writeVars, idleVars, appVars>>

MarkEOF(c) ==
  /\ rd[c] = "markEOF"
  /\ readClosed' = [readClosed EXCEPT ![c] = TRUE]
  /\ ReadGoto(c, "leave")
  /\ UNCHANGED <<poolVars, tunnelVars, replyRead, readCount, got, discarded,
                 drainVars, writeVars, idleVars, appVars>>

\* ... and after Close the Read goes on to the EOF, which makes the session ready,
ResultEOF(c) ==
  /\ rd[c] = "result"
  /\ closed[c] /\ got[c] = "eof"
  /\ readClosed' = [readClosed EXCEPT ![c] = TRUE]
  /\ IF ReaderPauses THEN ReadGoto(c, "settle") /\ UNCHANGED state
                     ELSE ReadGoto(c, "leave") /\ Settle(sess[c])
  /\ UNCHANGED <<poolOnly, tunnelVars, replyRead, readCount, got, discarded,
                 drainVars, writeVars, idleVars, appVars>>

SettleRead(c) ==
  /\ rd[c] = "settle"
  /\ Settle(sess[c])
  /\ ReadGoto(c, "leave")
  /\ UNCHANGED <<poolOnly, tunnelVars, replyRead, readClosed, readCount, got, discarded,
                 drainVars, writeVars, idleVars, appVars>>

\* ... or to an error or the discard limit, which close it.
ResultClosed(c) ==
  /\ rd[c] = "result"
  /\ closed[c] /\ got[c] # "eof"
  /\ discarded' = [discarded EXCEPT ![c] = IF got[c] = "fail" THEN @ ELSE @ + 1]
  /\ IF got[c] = "fail" \/ discarded[c] + 1 >= DiscardLimit
     THEN ReadGoto(c, "leave") /\ SwapClosed(sess[c])
     ELSE ReadGoto(c, "record") /\ UNCHANGED state
  /\ UNCHANGED <<poolOnly, tunnelVars, replyRead, readClosed, readCount, got,
                 drainVars, writeVars, idleVars, appVars>>

\* The deferred decrement.
LeaveRead(c) ==
  /\ rd[c] = "leave"
  /\ readCount' = [readCount EXCEPT ![c] = @ - 1]
  /\ ReadGoto(c, "idle")
  /\ got' = [got EXCEPT ![c] = "none"]
  /\ discarded' = [discarded EXCEPT ![c] = 0]
  /\ UNCHANGED <<poolVars, tunnelVars, replyRead, readClosed,
                 drainVars, writeVars, idleVars, appVars>>

-----------------------------------------------------------------------------
\* drain: one record, and what it makes of it.
DrainRecord(c) ==
  /\ dr[c] = "record"
  /\ \E kind \in Kinds \cup {"fail"} :
       /\ Receive(sess[c], kind)
       /\ drained' = [drained EXCEPT ![c] = IF kind \in {"eof", "fail"} THEN @ ELSE @ + 1]
       /\ IF kind = "eof"
          THEN Settle(sess[c])
          ELSE IF kind = "fail" \/ drained'[c] >= DiscardLimit
               THEN SwapClosed(sess[c])
               ELSE UNCHANGED state
       /\ dr' = [dr EXCEPT ![c] = IF kind \in {"eof", "fail"} \/ drained'[c] >= DiscardLimit
                                  THEN "finish" ELSE "record"]
  /\ UNCHANGED <<poolOnly, outbound, phase, serving, clientEOF, sent, peerUp, misread,
                 readVars, writeVars, idleVars, appVars>>

\* Mutant: a drain that closed the session returns without DrainDone.
DrainDoneMissing(c) ==
  /\ dr[c] = "finish"
  /\ drainWg' = IF state[sess[c]] = "Closed" THEN drainWg ELSE drainWg - 1
  /\ dr' = [dr EXCEPT ![c] = "off"]
  /\ UNCHANGED <<state, entries, age, poolClosed, ticking, loops, pending, shut, tunnelVars,
                 readVars, drained, writeVars, idleVars, appVars>>

\* The deferred DrainDone.
DrainDone(c) ==
  /\ dr[c] = "finish"
  /\ drainWg' = drainWg - 1
  /\ dr' = [dr EXCEPT ![c] = "off"]
  /\ UNCHANGED <<state, entries, age, poolClosed, ticking, loops, pending, shut, tunnelVars,
                 readVars, drained, writeVars, idleVars, appVars>>

-----------------------------------------------------------------------------
\* SetKeepIdleConnections: the Store, ...
SetKeepIdleConnections(keep) ==
  /\ "idle" \in Events
  /\ ~resetDue
  /\ closeIdle # ~keep
  /\ closeIdle' = ~keep
  /\ resetDue' = ~keep
  /\ UNCHANGED <<poolVars, tunnelVars, readVars, drainVars, writeVars, appVars, keepOnce>>

\* ... and, with keep = false, CloseIdleConnections.
CloseIdleConnections ==
  /\ resetDue
  /\ resetDue' = FALSE
  /\ ResetPool \/ (poolClosed /\ UNCHANGED poolVars)
  /\ UNCHANGED <<tunnelVars, readVars, drainVars, writeVars, appVars, keepOnce, closeIdle>>

App(c) ==
  \/ Dial(c) \/ Taken(c) \/ Dialed(c) \/ Open(c)
  \/ WriteRequest(c) \/ WriteData(c) \/ CloseWrite(c) \/ Close(c)

Closing(c) ==
  \/ CheckReply(c) \/ CloseEndWrite(c) \/ CheckRead(c) \/ Release(c) \/ AskIdle(c)
  \/ AskReader(c) \/ Wait(c) \/ Recheck(c) \/ StartDrain(c) \/ Pool(c) \/ PoolDrain(c)
  \/ Closed(c)

Reading(c) ==
  \/ CountRead(c) \/ RecheckClosed(c) \/ ReadReply(c) \/ ReadRecord(c)
  \/ ResultOpen(c) \/ MarkEOF(c) \/ ResultEOF(c) \/ SettleRead(c) \/ ResultClosed(c)
  \/ LeaveRead(c)

Draining(c) == DrainRecord(c) \/ DrainDone(c)

\* The pool's own goroutine and the threads of Reset and Close.
PoolWork == ExpireTick \/ ExpireStop \/ CloseWait \/ CloseReturn
PoolCall == ("reset" \in Events /\ ResetPool) \/ ClosePool \/ ClockTick

Next ==
  \/ \E c \in Conns : App(c) \/ Closing(c) \/ Read(c) \/ Reading(c) \/ Draining(c)
  \/ \E t \in Threads : ClosePending(t) /\ UNCHANGED <<tunnelVars, connVars>>
  \/ (PoolWork \/ PoolCall) /\ UNCHANGED <<tunnelVars, connVars>>
  \/ (\E keep \in BOOLEAN : SetKeepIdleConnections(keep)) \/ CloseIdleConnections
  \/ Peer /\ UNCHANGED connVars

Spec == Init /\ [][Next]_vars

=============================================================================
