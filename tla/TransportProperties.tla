-------------------------- MODULE TransportProperties --------------------------
(***************************************************************************)
(* What the readers promise their application, through obfuscation,        *)
(* deadlines and a connection that may be cut.                             *)
(***************************************************************************)
EXTENDS RecordReader

\* The i-th that is handed out is the i-th written, or it is an end of the stream that
\* the application has missed.
Handed(i) ==
  \/ delivered[i] = written[i]
  \/ version = 6 /\ \E n \in 1 .. Len(sealed) : written[i] = EndOf(n) /\ delivered[i] = Missed(n)

\* Whatever deadlines pass and wherever the stream is cut, the application sees the
\* payload and the zero chunks in the order written, each byte once and none left
\* out: a reader that has lost its place fails closed.  The exceptions are a payload
\* that is as long as a header and is opened as one, and in version 6 a zero chunk whose
\* padding is not read before a deadline.
ReadsInOrder ==
  ~mistaken => Len(delivered) <= Len(written) /\ \A i \in 1 .. Len(delivered) : Handed(i)

\* However the bytes arrive and whatever lengths are asked for, a reader never fails or
\* takes a payload for a header, and io.EOF from the connection comes behind the last
\* byte: unless the connection is cut, or a deadline passes inside a record, inside the
\* end of an HTTP head, or before the TLS hello and name have been read.
NothingLost ==
  ~lost => ~mistaken /\ (~cut => at # "error" /\ (at = "eof" => delivered = written))

\* What is written is read in the end, if the application goes on reading.
Arrives == []<>(delivered = written \/ lost \/ cut)

-----------------------------------------------------------------------------
\* What ReadsInOrder rests on: `last' of a piece is how much is written up to it.

LastOf(n) == IF n = 0 THEN 0 ELSE sealed[n].last

\* A header says what its record has; a body follows it.  The first record has one.
Sealed ==
  /\ LastOf(Len(sealed)) = Len(written)
  /\ sealed # << >> => sealed[1].head /\ sealed[1].len > 0
  /\ \A n \in 1 .. Len(sealed) :
       LET piece == sealed[n] IN
       /\ piece.last <= Len(written)
       /\ piece.head => piece.last = LastOf(n - 1) + (IF piece.len = 0 THEN 1 ELSE 0)
       /\ piece.head /\ piece.len = 0 => written[piece.last] = EndOf(n)
       /\ piece.head /\ piece.len > 0 =>
            n + 1 <= Len(sealed) /\ ~sealed[n + 1].head /\ sealed[n + 1].len = piece.len
       /\ ~piece.head =>
            /\ piece.last = LastOf(n - 1) + piece.len
            /\ \A i \in 1 .. piece.len : written[LastOf(n - 1) + i] = << n, i >>

\* What the reader has opened it has delivered or holds, up to an error.  The zero chunk
\* whose padding it reads comes next.
Delivered ==
  /\ Len(delivered) + Len(cache) <= Len(written)
  /\ at # "error" => Len(delivered) + Len(cache) + (IF stage = "discard" THEN 1 ELSE 0) = LastOf(nonce - 1)
  /\ \A i \in 1 .. Len(delivered) : Handed(i)
  /\ \A i \in 1 .. Len(cache) : cache[i] = written[Len(delivered) + i]

\* Behind a header the reader knows the record.
Opened ==
  /\ nonce <= Len(sealed) + 1
  /\ ~opened => nonce <= 2 /\ delivered = << >> /\ cache = << >>
  /\ stage = "discard" =>
       at = "reading" /\ version = 6 /\ nonce > 1 /\ sealed[nonce - 1].head /\ sealed[nonce - 1].len = 0
  /\ stage \in {"pad", "body"} =>
       nonce > 1 /\ sealed[nonce - 1].head /\ header.len = sealed[nonce - 1].len /\ header.len > 0
  /\ at = "reading" => cache = << >>
  /\ Delivered

ReaderInv == Sealed /\ (~mistaken => Opened)
=============================================================================
