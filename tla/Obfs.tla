--------------------------------- MODULE Obfs ---------------------------------
(***************************************************************************)
(* One direction of a TCP connection under obfs.go: what Write puts on the *)
(* wire, and what Read makes of it, one call at a time.  Each Read takes   *)
(* its bytes in steps; between them, and inside each, the deadline may     *)
(* pass or the stream end.                                                 *)
(*                                                                         *)
(* A byte is a token: a byte of a record, a byte of the disguise, the last *)
(* byte of a length field, or a character of an HTTP head.                 *)
(***************************************************************************)
EXTENDS Integers, Sequences, SequencesExt

CONSTANTS
  Heads,        \* bound: HTTP heads, each ending with its first CR LF CR LF
  HelloLen,     \* bytes before the payload: tlsObfsClientHelloPayloadOffset, or ServerHello's
  HelloMax,     \* of the payload in it: tlsObfsClientHelloPayloadLen
  RecordLen,    \* tlsObfsRecordHeaderLen
  RecordMax,    \* tlsObfsRecordPayloadLen
  NameLen,      \* bytes up to and with the length of the host name
  NameTail,     \* the host name and the trailer
  MaxLength,    \* bound: a length that is read where there is none
  MaxTimeouts   \* bound: deadlines that pass

\* What is read up to a length ends with its two bytes.
ASSUME ObfsAssumption ==
  /\ {HelloLen, RecordLen, NameLen} \subseteq Nat \ {0, 1}
  /\ {HelloMax, RecordMax, NameTail} \subseteq Nat \ {0}
  /\ MaxLength \in Nat /\ MaxTimeouts \in Nat

VARIABLES
  mode,        \* "none", "http" or "tls"
  server,      \* the reader is the server's
  wire,        \* tokens written and not yet read
  sent,        \* requestSent, responseSent, clientHelloSent, serverHelloSent
  closed,      \* the writer has closed the connection
  cut,         \* history: ... before all of it arrived
  received,    \* the head or the hello has been read, or at least begun
  nameSkipped, \* sessionNameSkipped
  remaining,   \* readRemaining
  matched,     \* of the terminator, in the Read at hand
  want,        \* len(p) of the Read at hand, 0 outside one
  result,      \* what the last Read returned, until its caller has looked
  timeouts,
  lost         \* history: a deadline has left the reader of a stream out of its place

wireVars == <<wire, sent, closed, cut>>
obfsVars == <<received, nameSkipped, remaining, matched, want, result, timeouts, lost>>

Filler == <<"f", 0, 0>>
Length(n) == <<"len", n, 0>>
Byte(piece, i) == <<"data", piece, i>>
NoResult == [data |-> << >>, err |-> "none"]

ObfsInit ==
  /\ wire = << >> /\ sent = FALSE /\ closed = FALSE /\ cut = FALSE
  /\ received = FALSE /\ nameSkipped = FALSE
  /\ remaining = 0 /\ matched = 0 /\ want = 0 /\ result = NoResult
  /\ timeouts = 0 /\ lost = FALSE

-----------------------------------------------------------------------------
\* Write.

\* A header of n bytes that ends with a length.
Header(n, length) == [i \in 1 .. n - 1 |-> Filler] \o << Length(length) >>

appendRecords(p) ==
  LET count == (Len(p) + RecordMax - 1) \div RecordMax IN
  FlattenSeq([j \in 1 .. count |->
    LET payload == SubSeq(p, (j - 1) * RecordMax + 1, IF j < count THEN j * RecordMax ELSE Len(p)) IN
    Header(RecordLen, Len(payload)) \o payload])

\* The client's hello has the name behind its payload.
Hello(p) ==
  LET max == IF server THEN HelloMax ELSE RecordMax
      n == IF Len(p) > max THEN max ELSE Len(p)
      name == IF server THEN Header(NameLen, NameTail) \o [i \in 1 .. NameTail |-> Filler] ELSE << >>
  IN  Header(HelloLen, n) \o SubSeq(p, 1, n) \o name \o appendRecords(SubSeq(p, n + 1, Len(p)))

Write(p) ==
  /\ ~closed
  /\ sent' = TRUE
  /\ \/ mode = "none" /\ wire' = wire \o p
     \/ mode = "http" /\ sent /\ wire' = wire \o p
     \/ mode = "http" /\ ~sent /\ \E head \in Heads : wire' = wire \o head \o p
     \/ mode = "tls" /\ sent /\ wire' = wire \o appendRecords(p)
     \/ mode = "tls" /\ ~sent /\ wire' = wire \o Hello(p)
  /\ UNCHANGED <<closed, cut>>

\* The writer closes the connection, and its last bytes may never arrive.
Close ==
  /\ ~closed
  /\ closed' = TRUE
  /\ \/ UNCHANGED <<wire, cut>>
     \/ cut' = TRUE /\ \E n \in 0 .. Len(wire) - 1 : wire' = SubSeq(wire, 1, n)
  /\ UNCHANGED sent

-----------------------------------------------------------------------------
\* Read.

Rest(n) == SubSeq(wire, n + 1, Len(wire))
Reading == want # 0 /\ result = NoResult

Return(data, err, drops) ==
  /\ result' = [data |-> data, err |-> err]
  /\ timeouts' = IF err = "timeout" THEN timeouts + 1 ELSE timeouts
  /\ lost' = (lost \/ (err = "timeout" /\ drops))

\* What ends a read after n of the bytes that are there.
Errors(n) ==
  (IF timeouts < MaxTimeouts THEN {"timeout"} ELSE {})
  \cup (IF closed /\ n = Len(wire) THEN {"eof"} ELSE {})

\* io.ReadFull makes an EOF behind some bytes an io.ErrUnexpectedEOF.
Full(err, n) == IF err = "eof" /\ n > 0 THEN "unexpected" ELSE err

\* net.Conn.Read.
ReadConn ==
  /\ Reading /\ (mode = "none" \/ (mode = "http" /\ received))
  /\ \/ /\ wire # << >>
        /\ \E n \in 1 .. want :
             /\ n <= Len(wire)
             /\ wire' = Rest(n) /\ Return(SubSeq(wire, 1, n), "ok", FALSE)
     \/ \E err \in Errors(0) : Return(<< >>, err, FALSE) /\ UNCHANGED wire
  /\ UNCHANGED <<received, nameSkipped, remaining, matched>>

Terminator == << "cr", "lf", "cr", "lf" >>

\* The j bytes that end with the k-th of a head are those the terminator begins with.
Begun(head, k, j) == j <= k /\ \A t \in 1 .. j : head[k - j + t][1] = Terminator[t]

\* A head ends with the only terminator it has, since the reader drops everything up to the
\* first.  Every head that is written does, if the configured host and URI have none.
ASSUME HeadsAssumption ==
  /\ Heads \subseteq Seq({"cr", "lf", "x"} \X {0} \X {0})
  /\ \A head \in Heads : head # << >> /\ \A k \in 1 .. Len(head) : Begun(head, k, Len(Terminator)) <=> k = Len(head)

\* Mutant: after a mismatch the search starts behind the byte.
AfterForgets(value) == IF value = Terminator[matched + 1] THEN matched + 1 ELSE 0

After(value) ==
  IF value = Terminator[matched + 1] THEN matched + 1 ELSE IF value = "cr" THEN 1 ELSE 0

\* One byte of the head; a byte of a record may have any value.  An error drops
\* what is matched so far.
ReadHead ==
  /\ Reading /\ mode = "http" /\ ~received
  /\ \/ /\ wire # << >>
        /\ wire' = Rest(1)
        /\ \E value \in IF wire[1][1] = "data" THEN {"cr", "lf", "x"} ELSE {wire[1][1]} :
             IF After(value) = Len(Terminator)
             THEN matched' = 0 /\ received' = TRUE
             ELSE matched' = After(value) /\ UNCHANGED received
        /\ UNCHANGED <<result, timeouts, lost>>
     \/ \E err \in Errors(0) :
          Return(<< >>, err, matched > 0) /\ matched' = 0 /\ UNCHANGED <<wire, received>>
  /\ UNCHANGED <<nameSkipped, remaining>>

\* Where a length is expected there is one, or any two bytes.
Lengths(token) == IF token[1] = "len" THEN {token[2]} ELSE 0 .. MaxLength

\* Mutant: what the caller has taken is not taken off.
RemainderWhole(length, n) == IF length > want THEN length ELSE 0

\* Of a record of which n bytes are read, what the next Read goes on with: nothing
\* when the record fits p, even if it has not all been read.
Remainder(length, n) == IF length > want THEN length - n ELSE 0

\* readRecord, behind a header of h bytes.
readRecord(h) ==
  \/ \E n \in 0 .. h - 1 :
       /\ n <= Len(wire)
       /\ \E err \in Errors(n) :
            wire' = Rest(n) /\ Return(<< >>, Full(err, IF n = h - 1 THEN 1 ELSE 0), n > 0 \/ ~received)
       /\ UNCHANGED remaining
  \/ /\ h <= Len(wire)
     /\ \E length \in Lengths(wire[h]) :
          LET size == IF length > want THEN want ELSE length IN
          \E n \in 0 .. size :
            /\ h + n <= Len(wire)
            /\ \E err \in IF n = size THEN {"ok"} ELSE Errors(h + n) :
                 Return(SubSeq(wire, h + 1, h + n), Full(err, n), length <= want)
            /\ wire' = Rest(h + n)
            /\ remaining' = Remainder(length, n)

\* The rest of a record that was longer than p.
ReadRemaining ==
  /\ Reading /\ mode = "tls" /\ received /\ remaining > 0
  /\ LET size == IF remaining > want THEN want ELSE remaining IN
     \E n \in 0 .. size :
       /\ n <= Len(wire)
       /\ \E err \in IF n = size THEN {"ok"} ELSE Errors(n) : Return(SubSeq(wire, 1, n), Full(err, n), FALSE)
       /\ wire' = Rest(n)
       /\ remaining' = remaining - n
  /\ UNCHANGED <<received, nameSkipped, matched>>

\* The hello counts as received before it is: a deadline that passes here is one too
\* many.
ReadHello ==
  /\ Reading /\ mode = "tls" /\ ~received
  /\ received' = TRUE
  /\ readRecord(HelloLen)
  /\ UNCHANGED <<nameSkipped, matched>>

\* The server skips the name behind the hello's payload, once, whatever comes of it.
SkipName ==
  /\ Reading /\ mode = "tls" /\ received /\ remaining = 0 /\ server /\ ~nameSkipped
  /\ nameSkipped' = TRUE
  /\ \/ /\ NameLen <= Len(wire)
        /\ \E tail \in Lengths(wire[NameLen]) :
             \/ /\ NameLen + tail <= Len(wire)
                /\ wire' = Rest(NameLen + tail) /\ UNCHANGED <<result, timeouts, lost>>
             \/ \E n \in NameLen .. NameLen + tail - 1 :
                  /\ n <= Len(wire)
                  /\ wire' = Rest(n) /\ \E err \in Errors(n) : Return(<< >>, err, TRUE)
     \/ \E n \in 0 .. NameLen - 1 :
          /\ n <= Len(wire) /\ wire' = Rest(n)
          /\ \E err \in Errors(n) : Return(<< >>, Full(err, IF n = NameLen - 1 THEN 1 ELSE 0), TRUE)
  /\ UNCHANGED <<received, remaining, matched>>

ReadRecord ==
  /\ Reading /\ mode = "tls" /\ received /\ remaining = 0 /\ (server => nameSkipped)
  /\ readRecord(RecordLen)
  /\ UNCHANGED <<received, nameSkipped, matched>>

Read ==
  /\ ReadConn \/ ReadHead \/ ReadHello \/ SkipName \/ ReadRemaining \/ ReadRecord
  /\ UNCHANGED <<want, sent, closed, cut>>
=============================================================================
