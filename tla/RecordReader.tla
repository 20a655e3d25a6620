----------------------------- MODULE RecordReader -----------------------------
(***************************************************************************)
(* The readers of snellv4, snellv5 and snellv6 on top of a connection that *)
(* obfs.go may disguise: records are sealed pieces of the byte stream, a   *)
(* header and, unless the record is a zero chunk, a body, and a reader     *)
(* opens a piece only if it has exactly its bytes at its turn.  A Read     *)
(* that fails forgets where in a record it was; after a deadline the       *)
(* application may go on reading.                                          *)
(*                                                                         *)
(* version 4 is the client's reader, which also reads from v5 servers, 5   *)
(* the server's, and 6 either end's, which has no obfuscation.             *)
(***************************************************************************)
EXTENDS Obfs

CONSTANTS
  Disguises,  \* the versions with their obfuscation modes
  SaltLen,    \* of the salt, or of the v6 salt block
  HeadLen,    \* of a sealed header and the v6 prefix before it
  TagLen,     \* AEADTagLen
  BufferLen,  \* of the bufio.Reader of version 4
  Records     \* bound: what the first, the second, ... record may be: its padding and its length

ASSUME ReaderAssumption ==
  /\ Disguises \subseteq {4, 5, 6} \X {"none", "http", "tls"}
  /\ SaltLen \in Nat \ {0} /\ HeadLen \in Nat \ {0} /\ TagLen \in Nat \ {0} /\ BufferLen \in Nat \ {0}
  /\ Records \in Seq(SUBSET [pad : Nat, len : Nat])

VARIABLES
  version,
  sealed,    \* history: the pieces sealed, each with its record and what is written up to it
  written,   \* history: bytes of payload and zero chunks written
  calls,     \* records so far
  out,       \* records sealed for one Write of the connection
  at,        \* "idle", "reading", or what ended the reading: "eof" or "error"
  stage,     \* the part of a record that ReadFull is to read
  need,      \* ReadFull: bytes still to read
  got,       \* bytes read of the piece at hand
  key,       \* "none", "right", or "wrong": of a salt that is not there
  nonce,     \* number of the piece to open next
  header,    \* what the header of the record at hand says
  opened,    \* a record has been returned
  inbuf,     \* in the bufio.Reader
  pending,   \* the error it will return when it is empty
  cache,     \* what is left of the record read last
  delivered, \* history: bytes of payload and zero chunks that the application has seen, or missed
  mistaken   \* history: a body has been opened as a header

writeVars == <<version, mode, server, sealed, written, calls, out>>
readerVars == <<at, stage, need, got, key, nonce, header, opened, inbuf, pending, cache, delivered,
                mistaken>>
vars == <<wireVars, obfsVars, writeVars, readerVars>>

NoHeader == [pad |-> 0, len |-> 0]
EndOf(piece) == << piece, 0 >>
Missed(piece) == << piece, -1 >>

Init ==
  /\ \E d \in Disguises : version = d[1] /\ mode = d[2]
  /\ server = (version = 5)
  /\ ObfsInit
  /\ sealed = << >> /\ written = << >> /\ calls = 0 /\ out = << >>
  /\ at = "idle" /\ stage = "none" /\ need = 0 /\ got = << >>
  /\ key = "none" /\ nonce = 1 /\ header = NoHeader /\ opened = FALSE
  /\ inbuf = << >> /\ pending = "ok"
  /\ cache = << >> /\ delivered = << >> /\ mistaken = FALSE

-----------------------------------------------------------------------------
\* The writer.

Piece(n, size) == [i \in 1 .. size |-> Byte(n, i)]
Salt == Piece(0, SaltLen)
Units(n, len) == [i \in 1 .. len |-> << n, i >>]

\* The padding of a record is opened with its body.
PieceOf(head, record, last) ==
  [head |-> head, pad |-> record.pad, len |-> record.len, last |-> last,
   size |-> IF head THEN HeadLen ELSE record.pad + record.len + TagLen]

\* What goes on the wire, after the salt if it is the first record.  A zero chunk is a
\* header and, of version 6, padding that nothing seals.
RecordBytes(record) ==
  LET n == Len(sealed) IN
  (IF n = 0 THEN Salt ELSE << >>)
  \o IF record.len = 0 THEN Piece(n + 1, HeadLen + record.pad)
     ELSE Piece(n + 1, HeadLen) \o Piece(n + 2, record.pad + record.len + TagLen)

SealRecord(record) ==
  LET n == Len(sealed)
      last == Len(written)
  IN
  IF record.len = 0
  THEN /\ sealed' = Append(sealed, PieceOf(TRUE, record, last + 1))
       /\ written' = Append(written, EndOf(n + 1))
  ELSE /\ sealed' = sealed \o << PieceOf(TRUE, record, last), PieceOf(FALSE, record, last + record.len) >>
       /\ written' = written \o Units(n + 2, record.len)

\* A record is sealed, and written at once or with the next.  The first has the request
\* or the reply; a zero chunk is written on its own.
WriteRecord ==
  /\ calls < Len(Records) /\ calls' = calls + 1
  \* The client of a reused tunnel asks for the next response when it has seen the
  \* end of the last.
  /\ version = 4 /\ written # << >> /\ written[Len(written)][2] = 0 => delivered = written
  /\ \E record \in Records[calls'] :
       /\ record.len = 0 => sealed # << >> /\ out = << >> /\ (version = 6 \/ record.pad = 0)
       /\ SealRecord(record)
       /\ \/ Write(out \o RecordBytes(record)) /\ out' = << >>
          \/ /\ record.len > 0 /\ calls' < Len(Records) /\ ~closed
             /\ out' = out \o RecordBytes(record)
             /\ UNCHANGED wireVars
  /\ UNCHANGED <<version, mode, server, obfsVars, readerVars>>

CloseConn == out = << >> /\ Close /\ UNCHANGED <<obfsVars, writeVars, readerVars>>

-----------------------------------------------------------------------------
\* ReadFull.

Start(part, n) == stage' = part /\ need' = n

\* A Read of the connection, into the bufio.Reader when that is empty.
CallRead ==
  /\ at = "reading" /\ need > 0 /\ want = 0 /\ (version = 4 => inbuf = << >> /\ pending = "ok")
  /\ \/ want' = need
     \/ version = 4 /\ BufferLen > need /\ want' = BufferLen
  /\ UNCHANGED <<wireVars, received, nameSkipped, remaining, matched, result, timeouts, lost, writeVars,
                 readerVars>>

ReadStep == Read /\ UNCHANGED <<writeVars, readerVars>>

\* An error, after n bytes of this ReadFull: they are gone, and so is the rest of what
\* has been read of the record.  Behind the header of a zero chunk the reader is past
\* it, and its end of the stream is never returned.
Fails(err, n) ==
  /\ lost' = (lost \/ (err = "timeout" /\ (n > 0 \/ stage \notin {"salt", "head"})))
  /\ at' = CASE err = "timeout" -> "idle"
             [] err = "eof" /\ n = 0 -> "eof"
             [] OTHER -> "error"
  /\ stage' = "none" /\ need' = 0 /\ got' = << >>
  /\ delivered' = IF stage = "discard" THEN Append(delivered, Missed(nonce - 1)) ELSE delivered

\* How much this ReadFull has read.
ReadSoFar ==
  CASE stage = "salt" -> SaltLen - need
    [] stage = "head" -> HeadLen - need
    [] stage = "body" -> header.len + TagLen - need
    [] OTHER          -> header.pad - need

\* What a Read of the connection has returned: in version 4 it fills the buffer, and
\* its error comes when the buffer is empty.
ReadDone ==
  /\ at = "reading" /\ want # 0 /\ result # NoResult
  /\ want' = 0 /\ result' = NoResult
  /\ IF version = 4
     THEN /\ inbuf' = result.data /\ pending' = result.err
          /\ UNCHANGED <<at, stage, need, got, lost, delivered>>
     ELSE /\ IF result.err = "ok"
             THEN /\ got' = got \o result.data /\ need' = need - Len(result.data)
                  /\ UNCHANGED <<at, stage, lost, delivered>>
             ELSE Fails(result.err, ReadSoFar + Len(result.data))
          /\ UNCHANGED <<inbuf, pending>>
  /\ UNCHANGED <<wireVars, received, nameSkipped, remaining, matched, timeouts, writeVars, key, nonce,
                 header, opened, cache, mistaken>>

TakeBuffered ==
  /\ at = "reading" /\ need > 0 /\ want = 0 /\ version = 4
  /\ \/ /\ inbuf # << >>
        /\ LET n == IF Len(inbuf) > need THEN need ELSE Len(inbuf) IN
             /\ got' = got \o SubSeq(inbuf, 1, n) /\ need' = need - n
             /\ inbuf' = SubSeq(inbuf, n + 1, Len(inbuf))
        /\ UNCHANGED <<at, stage, pending, lost, delivered>>
     \/ /\ inbuf = << >> /\ pending # "ok"
        /\ Fails(pending, ReadSoFar) /\ pending' = "ok"
        /\ UNCHANGED inbuf
  /\ UNCHANGED <<wireVars, received, nameSkipped, remaining, matched, want, result, timeouts, writeVars,
                 key, nonce, header, opened, cache, mistaken>>

-----------------------------------------------------------------------------
\* ReadRecord.

\* A Read of the application that finds the cache empty.  Until a record has been
\* returned the reader may be a new one each time, which reads a salt.
BeginRecord ==
  /\ at = "idle" /\ cache = << >>
  /\ at' = "reading" /\ got' = << >>
  /\ \/ /\ key # "none"
        /\ Start("head", HeadLen) /\ UNCHANGED <<key, nonce, inbuf, pending, lost>>
     \/ /\ key = "none"
        /\ Start("salt", SaltLen) /\ UNCHANGED <<key, nonce, inbuf, pending, lost>>
     \/ /\ ~opened /\ (key # "none" \/ inbuf # << >> \/ pending # "ok")
        /\ Start("salt", SaltLen)
        /\ key' = "none" /\ nonce' = 1 /\ inbuf' = << >> /\ pending' = "ok"
        /\ lost' = TRUE
  /\ UNCHANGED <<wireVars, received, nameSkipped, remaining, matched, want, result, timeouts, writeVars,
                 header, opened, cache, delivered, mistaken>>

SaltRead ==
  /\ at = "reading" /\ stage = "salt" /\ need = 0
  /\ key' = IF got = Salt THEN "right" ELSE "wrong"
  /\ Start("head", HeadLen) /\ got' = << >>
  /\ UNCHANGED <<wireVars, obfsVars, writeVars, at, nonce, header, opened, inbuf, pending, cache,
                 delivered, mistaken>>

\* Mutant: the nonce stays.
SameNonce == nonce

\* IncreaseNonce.
NextNonce == nonce + 1

Opens == key = "right" /\ nonce \in DOMAIN sealed /\ got = Piece(nonce, sealed[nonce].size)

\* Behind the header, or the padding of a zero chunk.
AfterHeader(h) ==
  \/ h.len > 0 /\ h.pad > 0 /\ at' = "reading" /\ Start("pad", h.pad)
  \/ h.len > 0 /\ h.pad = 0 /\ at' = "reading" /\ Start("body", h.len + TagLen)
  \/ h.len = 0 /\ h.pad > 0 /\ version = 6 /\ at' = "reading" /\ Start("discard", h.pad)

EndOfStream ==
  /\ at' = "idle" /\ Start("none", 0)
  /\ delivered' = Append(delivered, EndOf(nonce))

\* A body of the size of a header opens as one, if its turn has come, and says what
\* the payload happens to be.  Trailing data behind the zero chunk is an error in
\* version 4.
HeaderRead ==
  /\ at = "reading" /\ stage = "head" /\ need = 0
  /\ got' = << >>
  /\ IF ~Opens
     THEN at' = "error" /\ Start("none", 0) /\ UNCHANGED <<nonce, header, delivered, mistaken>>
     ELSE /\ nonce' = NextNonce
          /\ mistaken' = (mistaken \/ ~sealed[nonce].head)
          /\ \E pad \in 0 .. MaxLength, len \in 0 .. MaxLength :
               /\ sealed[nonce].head => pad = sealed[nonce].pad /\ len = sealed[nonce].len
               /\ header' = [pad |-> pad, len |-> len]
          /\ \/ AfterHeader(header') /\ UNCHANGED delivered
             \/ /\ header'.len = 0 /\ (header'.pad = 0 \/ version # 6)
                /\ IF version = 4 /\ inbuf # << >>
                   THEN at' = "error" /\ Start("none", 0) /\ UNCHANGED delivered
                   ELSE EndOfStream
             \/ ~sealed[nonce].head /\ at' = "error" /\ Start("none", 0) /\ UNCHANGED delivered
  /\ UNCHANGED <<wireVars, obfsVars, writeVars, key, opened, inbuf, pending, cache>>

PaddingRead ==
  /\ at = "reading" /\ stage \in {"pad", "discard"} /\ need = 0
  /\ IF stage = "pad"
     THEN Start("body", header.len + TagLen) /\ UNCHANGED <<at, got, delivered>>
     ELSE got' = << >> /\ at' = "idle" /\ Start("none", 0)
          /\ delivered' = Append(delivered, EndOf(nonce - 1))
  /\ UNCHANGED <<wireVars, obfsVars, writeVars, key, nonce, header, opened, inbuf, pending, cache,
                 mistaken>>

BodyRead ==
  /\ at = "reading" /\ stage = "body" /\ need = 0
  /\ Start("none", 0) /\ got' = << >>
  /\ IF Opens
     THEN at' = "idle" /\ nonce' = NextNonce /\ cache' = Units(nonce, header.len) /\ opened' = TRUE
     ELSE at' = "error" /\ UNCHANGED <<nonce, cache, opened>>
  /\ UNCHANGED <<wireVars, obfsVars, writeVars, key, header, inbuf, pending, delivered, mistaken>>

\* Mutant: a record that is handed out whole stays in the cache.
KeepCache(n) == IF n = Len(cache) /\ n > 1 THEN cache ELSE SubSeq(cache, n + 1, Len(cache))

Advance(n) == SubSeq(cache, n + 1, Len(cache))

\* Read and ReadBuffer take what fits, WaitReadBuffer and NextRecord the record.
TakeCache ==
  /\ at = "idle" /\ cache # << >>
  /\ \E n \in 1 .. Len(cache) :
       delivered' = delivered \o SubSeq(cache, 1, n) /\ cache' = Advance(n)
  /\ UNCHANGED <<wireVars, obfsVars, writeVars, at, stage, need, got, key, nonce, header, opened,
                 inbuf, pending, mistaken>>

Reader ==
  \/ CallRead \/ ReadStep \/ ReadDone \/ TakeBuffered
  \/ BeginRecord \/ SaltRead \/ HeaderRead \/ PaddingRead \/ BodyRead \/ TakeCache

Next == WriteRecord \/ CloseConn \/ Reader
Spec == Init /\ [][Next]_vars
\* The application goes on reading, and a Write that has begun is completed.
FairSpec == Spec /\ WF_vars(Reader) /\ WF_vars(out # << >> /\ WriteRecord)
=============================================================================
