------------------------------ MODULE PlainConn ------------------------------
(***************************************************************************)
(* Connections with one tunnel, what clientConn and serverConn and the     *)
(* packet connections have in common.  The writer of an end does not exist *)
(* until somebody writes: that call puts the request or the reply on the   *)
(* wire, whoever it is and whatever else it writes, and publishes the      *)
(* writer when it is written.                                              *)
(*                                                                         *)
(* kind is "stream", of which only the end `side' is modelled and the      *)
(* other answers as the protocol lets it, or "packets", with both ends.    *)
(* version is 4 (client v4, server v5) or 6 (both, in the modes that seal  *)
(* their records); with packets both do the same.                          *)
(*                                                                         *)
(* A record carries the number of the writer that sealed it, one for each  *)
(* salt, and its place among the records of that writer.                   *)
(***************************************************************************)
EXTENDS Integers, Sequences, SequencesExt

CONSTANTS
  Callers,         \* goroutines at the client of a packet tunnel or the end of a stream
  HandlerCallers,  \* goroutines at the server of a packet tunnel
  MaxCalls,        \* bound: calls they begin
  MaxFailures,     \* bound: writes of the connection that fail
  Answers          \* bound: what the server of a stream may have to say

ASSUME PlainAssumption ==
  /\ Callers \cap HandlerCallers = {} /\ {"free", "far"} \cap (Callers \cup HandlerCallers) = {}
  /\ MaxCalls \in Nat /\ MaxFailures \in Nat
  /\ Answers \subseteq Seq(Seq([what : {"reply", "error", "data", "end"}, by : {"far"}, n : Nat]))

Ends == {"client", "server"}
Goroutines == Callers \cup HandlerCallers
Far(e) == IF e = "client" THEN "server" ELSE "client"

VARIABLES
  kind, version, side,
  wire,      \* of each end: records written
  writer,    \* of each end: number of the writer, 0 for nil
  nonces,    \* of each end: the nonce of every writer made
  failures,  \* history: of them
  access,    \* of the stream: who has it
  closing,   \* of the stream: closeWriteOnce is spent
  gone,      \* of each end: it has closed the connection
  pc, call,  \* of each goroutine: what it does next, and its call
  calls, done,  \* history: calls begun, and data of calls that returned nil before a CloseWrite
  reader, turn, \* of each end: number of the writer it reads from, 0 for nil, and the nonce
  taken,     \* of each end: records taken from the other's
  readAccess, batchAccess, \* of the clientPacketConn and its batch writer
  cache,     \* of the client of a stream: what came with the reply
  handed,    \* history: of each end, what it handed out
  accept     \* of the server: its progress with a packet tunnel

wireVars == <<wire, nonces, failures>>
readVars == <<reader, turn, taken, cache, handed>>
callVars == <<pc, call, calls, done>>
lockVars == <<access, readAccess, batchAccess>>
vars == <<kind, version, side, wireVars, writer, readVars, callVars, lockVars, closing, gone, accept>>

EndOf(g) == IF g \in HandlerCallers THEN "server" ELSE side

\* An item of a record: the head of a tunnel, "request", "reply" or "error", the "end",
\* or the n-th datum of its sender.
Item(what) == [what |-> what, by |-> "far", n |-> 0]
Datum(by, n) == [what |-> "data", by |-> by, n |-> n]
Record(w, n, items) == [writer |-> w, n |-> n, items |-> items]
Torn == Record(0, 0, << >>)

Heads == {Item("request"), Item("reply"), Item("error")}

\* What one goroutine sends is in the order of its calls, and none of it is there twice.
Follows(a, b) == a.what = "data" /\ b.what = "data" /\ a.by = b.by => a.n < b.n

\* The server of a stream answers with a reply or an error, and once.
ASSUME AnswersAssumption ==
  \A answer \in Answers : \A i, k \in DOMAIN answer :
     /\ answer[i] # << >>
     /\ \A j \in DOMAIN answer[i], l \in DOMAIN answer[k] :
          /\ answer[i][j] \in Heads <=> i = 1 /\ j = 1
          /\ i < k \/ (i = k /\ j < l) => Follows(answer[i][j], answer[k][l])

Sealed(w, n, groups) == [i \in DOMAIN groups |-> Record(w, n + i - 1, groups[i])]

NoCall == [op |-> "none", data |-> << >>, left |-> << >>, failed |-> FALSE, last |-> 0]

\* DialConn writes the request before it returns, DialEarlyConn leaves it to the first
\* call.  The server of a stream answers a request and closes.
Init ==
  /\ kind \in {"stream", "packets"} /\ version \in {4, 6} /\ side \in Ends
  /\ kind = "packets" => side = "client" /\ version = 4
  /\ \E dialled \in IF kind = "stream" /\ side = "client" THEN BOOLEAN ELSE {FALSE} :
       LET requested == dialled \/ (kind = "stream" /\ side = "server")
           answered == kind = "stream" /\ side = "client"
           here(e) == (e = "client" /\ requested) \/ (e = "server" /\ answered) IN
       /\ \E answer \in IF answered THEN Answers ELSE {<< >>} :
            wire = [client |-> IF requested THEN << Record(1, 0, << Item("request") >>) >> ELSE << >>,
                    server |-> Sealed(1, 0, answer)]
       /\ nonces = [e \in Ends |-> IF here(e) THEN << Len(wire[e]) >> ELSE << >>]
       /\ writer = [e \in Ends |-> IF here(e) THEN 1 ELSE 0]
       /\ gone = [client |-> FALSE, server |-> answered]
  /\ failures = 0 /\ closing = FALSE
  /\ access = "free" /\ readAccess = "free" /\ batchAccess = "free"
  /\ pc = [g \in Goroutines |-> "idle"] /\ call = [g \in Goroutines |-> NoCall]
  /\ calls = 0 /\ done = {}
  /\ reader = [e \in Ends |-> 0] /\ turn = reader /\ taken = reader
  /\ cache = << >> /\ handed = [e \in Ends |-> << >>]
  /\ accept = (IF kind = "packets" THEN "request" ELSE "none")

-----------------------------------------------------------------------------
\* Writing.

\* Mutant: records that are not written give their nonces back.
NonceGivenBack(n, groups, written) == n + written

\* A record uses its nonce when it is sealed, whether or not it is written.
NonceAfter(n, groups, written) == n + Len(groups)

\* The nonces once writer w of the end has sealed the groups; w may be a new one.
Used(e, w, groups, written) ==
  IF w <= Len(nonces[e]) THEN [nonces EXCEPT ![e][w] = NonceAfter(@, groups, written)]
  ELSE [nonces EXCEPT ![e] = Append(@, NonceAfter(0, groups, written))]

NonceOf(e, w) == IF w <= Len(nonces[e]) THEN nonces[e][w] ELSE 0

\* Writer w hands the connection one record for each group.
Puts(e, w, groups) ==
  /\ ~gone[e]
  /\ wire' = [wire EXCEPT ![e] = @ \o Sealed(w, NonceOf(e, w), groups)]
  /\ nonces' = Used(e, w, groups, Len(groups))
  /\ UNCHANGED failures

\* The connection fails, for a deadline or because this end has closed it: after some of
\* the records and perhaps a part of the next.
PutFails(e, w, groups) ==
  \/ gone[e] /\ nonces' = Used(e, w, groups, 0) /\ UNCHANGED <<wire, failures>>
  \/ /\ ~gone[e] /\ failures < MaxFailures /\ failures' = failures + 1
     /\ \E k \in 0 .. Len(groups) - 1, rest \in {<< >>, << Torn >>} :
          /\ wire' = [wire EXCEPT ![e] = @ \o SubSeq(Sealed(w, NonceOf(e, w), groups), 1, k) \o rest]
          /\ nonces' = Used(e, w, groups, k)

\* Number of the writer that is made next.
NewWriter(e) == Len(nonces[e]) + 1

Groups(data) == [i \in DOMAIN data |-> << data[i] >>]

\* writeRequest, writeResponse, writeErrorResponse, writeFirstRecord: the head shares
\* its record with the first piece of what is written.
FirstGroups(head, data) ==
  IF data = << >> THEN << << Item(head) >> >>
  ELSE << << Item(head), Head(data) >> >> \o Groups(Tail(data))

-----------------------------------------------------------------------------
\* Reading.

\* What a reader opens: a new reader takes the salt of the record at hand, one that
\* exists knows its salt and its turn; once a record did not open, neither does the next.
Opens(e, record) ==
  /\ taken[e] = turn[e] /\ record.n = turn[e]
  /\ IF reader[e] = 0 THEN record.n = 0 /\ record.writer # 0 ELSE record.writer = reader[e]

\* Part of a record is no record until something follows, and a request has to be there
\* before there is an answer.
Whole(e, n) == n < Len(wire[e]) /\ (wire[e][n + 1] = Torn => n + 1 < Len(wire[e]))
Available(e) ==
  /\ kind = "stream" => wire["client"] # << >> /\ wire["client"][1] # Torn
  /\ Whole(Far(e), taken[e])
NextOf(e) == wire[Far(e)][taken[e] + 1]

Readable(e) == ~gone[e] /\ Available(e)

\* What the client does with the first record, readFirstRecord and ParseReply.
Answered(e) == Readable(e) /\ Opens(e, NextOf(e)) /\ Head(NextOf(e).items) = Item("reply")
Refused(e) == Readable(e) /\ ~Answered(e)

\* Nothing will come: this end has closed, or the other has and all of it is read.
Ended(e) == gone[e] \/ (gone[Far(e)] /\ ~Whole(Far(e), taken[e]))

TakesRecord(e) ==
  /\ taken' = [taken EXCEPT ![e] = @ + 1]
  /\ turn' = [turn EXCEPT ![e] = NextOf(e).n + 1]
  /\ reader' = [reader EXCEPT ![e] = NextOf(e).writer]

\* The record at hand does not open: its bytes are gone.
Spoils(e) == taken' = [taken EXCEPT ![e] = @ + 1] /\ UNCHANGED <<turn, reader>>

-----------------------------------------------------------------------------
\* Calls.

Begins(g, op, n) ==
  /\ pc[g] = "idle" /\ calls < MaxCalls /\ calls' = calls + 1
  /\ LET data == [i \in 1 .. n |-> Datum(g, call[g].last + i)] IN
     call' = [call EXCEPT ![g] = [op |-> op, data |-> data, left |-> data, failed |-> FALSE,
                                  last |-> @.last + n]]
  /\ UNCHANGED done

\* The application calls once more with what failed.
Retries(g) ==
  /\ pc[g] = "idle" /\ call[g].failed
  /\ calls < MaxCalls /\ calls' = calls + 1
  /\ call' = [call EXCEPT ![g].failed = FALSE]
  /\ UNCHANGED done

Goes(g, to) == pc' = [pc EXCEPT ![g] = to]
Leaves(g, left) == call' = [call EXCEPT ![g].left = left] /\ UNCHANGED <<calls, done>>

Returns(g) ==
  /\ Goes(g, "idle") /\ call' = [call EXCEPT ![g] = [NoCall EXCEPT !.last = call[g].last]]
  /\ done' = done \cup (IF closing THEN {} ELSE ToSet(call[g].data))
  /\ UNCHANGED calls

Fails(g) ==
  /\ Goes(g, "idle") /\ UNCHANGED <<calls, done>>
  /\ call' = [call EXCEPT ![g] =
                 IF call[g].data = << >> THEN [NoCall EXCEPT !.last = call[g].last]
                 ELSE [call[g] EXCEPT !.left = call[g].data, !.failed = TRUE]]
=============================================================================
