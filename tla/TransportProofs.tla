---------------------------- MODULE TransportProofs ----------------------------
(***************************************************************************)
(* What a reader hands out, for every sequence of records, every disguise  *)
(* and any number of deadlines.                                            *)
(***************************************************************************)
EXTENDS TransportProperties, SequenceTheorems, WellFoundedInduction, TLAPS

Pieces == [head : BOOLEAN, pad : Nat, len : Nat, last : Nat, size : Nat]

ReaderTypes ==
  /\ version \in {4, 5, 6} /\ calls \in Nat
  /\ sealed \in Seq(Pieces) /\ written \in Seq(Nat \X Int)
  /\ nonce \in Nat \ {0} /\ header \in [pad : Nat, len : Nat]
  /\ opened \in BOOLEAN /\ mistaken \in BOOLEAN
  /\ cache \in Seq(Nat \X Int) /\ delivered \in Seq(Nat \X Int)

recordVars == << version, sealed, written, calls, nonce, header, opened, mistaken, cache, delivered >>

LEMMA ReaderInit == Init => ReaderTypes /\ ReaderInv
<1> SUFFICES ASSUME Init PROVE ReaderTypes /\ ReaderInv OBVIOUS
<1> USE DEF Init
<1>1. version \in {4, 5, 6}
  <2>1. PICK d \in Disguises : version = d[1]
    OBVIOUS
  <2> QED
    BY <2>1, ReaderAssumption
<1>2. header \in [pad : Nat, len : Nat]
  BY DEF NoHeader
<1>3. sealed \in Seq(Pieces) /\ written \in Seq(Nat \X Int) /\ cache \in Seq(Nat \X Int)
      /\ delivered \in Seq(Nat \X Int)
  BY EmptySeq
<1>4. ReaderTypes
  <2>1. calls \in Nat /\ nonce \in Nat \ {0}
    OBVIOUS
  <2>2. opened \in BOOLEAN /\ mistaken \in BOOLEAN
    OBVIOUS
  <2> QED
    BY <1>1, <1>2, <1>3, <2>1, <2>2 DEF ReaderTypes
<1>5. ReaderInv
  BY DEF ReaderInv, Sealed, Opened, Delivered, LastOf, Handed
<1> QED
  BY <1>4, <1>5

-----------------------------------------------------------------------------
\* The writer.

\* Sealing a record adds its pieces and its payload.
LEMMA UnitsAreUnits ==
  ASSUME NEW n \in Nat, NEW len \in Nat
  PROVE  /\ Units(n, len) \in Seq(Nat \X Int) /\ Len(Units(n, len)) = len
         /\ \A i \in 1 .. len : Units(n, len)[i] = << n, i >>
<1>1. \A i \in 1 .. len : << n, i >> \in Nat \X Int
  OBVIOUS
<1>2. Units(n, len) \in [1 .. len -> Nat \X Int]
  BY <1>1, Zenon DEF Units
<1>3. Units(n, len) \in Seq(Nat \X Int)
  BY <1>2, SeqDef
<1>4. Len(Units(n, len)) = len
  BY <1>2, <1>3, LenProperties
<1> QED
  BY <1>3, <1>4 DEF Units

\* Sealing a record adds its pieces and its payload.
LEMMA SealTypes ==
  ASSUME ReaderTypes, NEW record \in [pad : Nat, len : Nat], SealRecord(record)
  PROVE  /\ sealed' \in Seq(Pieces) /\ written' \in Seq(Nat \X Int)
         /\ Len(sealed') >= Len(sealed) /\ Len(written') >= Len(written)
         /\ \A i \in 1 .. Len(sealed) : sealed'[i] = sealed[i]
         /\ \A i \in 1 .. Len(written) : written'[i] = written[i]
<1>0. PICK n \in Nat, last \in Nat : n = Len(sealed) /\ last = Len(written)
  BY DEF ReaderTypes
<1> USE DEF ReaderTypes
<1>1. sealed \in Seq(Pieces) /\ written \in Seq(Nat \X Int) /\ record.pad \in Nat /\ record.len \in Nat
  OBVIOUS
<1>2. \A head \in BOOLEAN, l \in Nat : PieceOf(head, record, l) \in Pieces
  BY <1>1, ReaderAssumption DEF PieceOf, Pieces
<1>3. CASE record.len = 0
  <2> DEFINE piece == PieceOf(TRUE, record, last + 1)
             end == EndOf(n + 1)
  <2>1. sealed' = Append(sealed, piece) /\ written' = Append(written, end)
    BY <1>0, <1>3 DEF SealRecord
  <2>2. piece \in Pieces
    <3>1. last + 1 \in Nat
      OBVIOUS
    <3> QED
      BY <1>2, <3>1
  <2>3. end \in Nat \X Int
    BY DEF EndOf
  <2> HIDE DEF piece, end
  <2> QED
    BY <1>1, <2>1, <2>2, <2>3
<1>4. CASE record.len # 0
  <2> DEFINE head == PieceOf(TRUE, record, last)
             body == PieceOf(FALSE, record, last + record.len)
             units == Units(n + 2, record.len)
  <2>1. sealed' = sealed \o << head, body >> /\ written' = written \o units
    BY <1>0, <1>4 DEF SealRecord
  <2>2. head \in Pieces /\ body \in Pieces
    <3>1. last + record.len \in Nat
      BY <1>1
    <3> QED
      BY <1>2, <3>1
  <2>3. units \in Seq(Nat \X Int)
    <3>1. n + 2 \in Nat /\ record.len \in Nat
      BY <1>1
    <3> HIDE DEF ReaderTypes
    <3> QED
      BY <3>1, UnitsAreUnits
  <2> HIDE DEF head, body, units
  <2>4. << head, body >> \in Seq(Pieces)
    BY <2>2
  <2> QED
    BY <1>1, <2>1, <2>3, <2>4
<1> QED
  BY <1>3, <1>4

LEMMA SealKeepsSealed ==
  ASSUME ReaderTypes, Sealed, NEW record \in [pad : Nat, len : Nat], SealRecord(record),
         sealed = << >> => record.len > 0
  PROVE  Sealed'
<1>0. PICK n \in Nat, last \in Nat : n = Len(sealed) /\ last = Len(written)
  BY DEF ReaderTypes
<1> DEFINE Good(i) ==
             LET piece == sealed[i] IN
             /\ piece.last <= Len(written)
             /\ piece.head => piece.last = LastOf(i - 1) + (IF piece.len = 0 THEN 1 ELSE 0)
             /\ piece.head /\ piece.len = 0 => written[piece.last] = EndOf(i)
             /\ piece.head /\ piece.len > 0 =>
                  i + 1 <= Len(sealed) /\ ~sealed[i + 1].head /\ sealed[i + 1].len = piece.len
             /\ ~piece.head =>
                  /\ piece.last = LastOf(i - 1) + piece.len
                  /\ \A j \in 1 .. piece.len : written[LastOf(i - 1) + j] = << i, j >>
<1>1. /\ sealed' \in Seq(Pieces) /\ written' \in Seq(Nat \X Int)
      /\ Len(sealed') >= n /\ Len(written') >= last
      /\ \A i \in 1 .. n : sealed'[i] = sealed[i]
      /\ \A i \in 1 .. last : written'[i] = written[i]
  BY <1>0, SealTypes
<1>2. n = Len(sealed) /\ last = Len(written) /\ sealed \in Seq(Pieces) /\ written \in Seq(Nat \X Int)
  BY <1>0 DEF ReaderTypes
<1>3. \A i \in 1 .. n : sealed[i] \in Pieces /\ Good(i)
  BY <1>2 DEF Sealed
<1>4. \A i \in 0 .. n : LastOf(i) \in 0 .. last
  <2>1. LastOf(0) \in 0 .. last
    BY DEF LastOf
  <2>2. \A i \in 1 .. n : LastOf(i) \in 0 .. last
    <3>1. \A i \in 1 .. n : sealed[i].last \in Nat /\ sealed[i].last <= last
      BY <1>2, <1>3 DEF Pieces
    <3> QED
      BY <3>1 DEF LastOf
  <2> QED
    BY <2>1, <2>2
<1>5. \A i \in 0 .. n : LastOf(i)' = LastOf(i)
  BY <1>1 DEF LastOf
<1>6. LastOf(n) = last
  BY <1>0 DEF Sealed
<1>7. \A i \in 1 .. n : Good(i)'
  <2> TAKE i \in 1 .. n
  <2>1. Good(i) /\ sealed'[i] = sealed[i] /\ sealed[i] \in Pieces
    BY <1>1, <1>3
  <2>0. sealed[i].head \in BOOLEAN /\ sealed[i].len \in Nat /\ sealed[i].last \in Nat
    BY <2>1 DEF Pieces
  <2>2. LastOf(i - 1)' = LastOf(i - 1) /\ LastOf(i - 1) \in 0 .. last
    BY <1>2, <1>4, <1>5
  <2>3. i + 1 <= n => sealed'[i + 1] = sealed[i + 1]
    BY <1>1, <1>2
  <2>4. (sealed[i].last \in 1 .. last => written'[sealed[i].last] = written[sealed[i].last])
    BY <1>1
  <2>5. ~sealed[i].head =>
          \A j \in 1 .. sealed[i].len : written'[LastOf(i - 1) + j] = written[LastOf(i - 1) + j]
    <3> SUFFICES ASSUME ~sealed[i].head, NEW j \in 1 .. sealed[i].len
                 PROVE  written'[LastOf(i - 1) + j] = written[LastOf(i - 1) + j]
      OBVIOUS
    <3>1. sealed[i].last = LastOf(i - 1) + sealed[i].len /\ sealed[i].last <= last
      BY <1>2, <2>1
    <3>2. LastOf(i - 1) + j \in 1 .. last
      BY <2>0, <2>2, <3>1, SMTT(30)
    <3> QED
      BY <1>1, <3>2
  <2>6. sealed[i].head /\ sealed[i].len = 0 => sealed[i].last \in 1 .. last
    BY <1>2, <2>0, <2>1, <2>2
  <2>7. Len(sealed') >= n /\ Len(written') >= last /\ Len(sealed') \in Nat /\ Len(written') \in Nat
    BY <1>1
  <2>8. sealed[i].last <= Len(written')
    BY <1>2, <2>0, <2>1, <2>7
  <2>9. sealed[i].head /\ sealed[i].len > 0 =>
          i + 1 <= Len(sealed') /\ ~sealed'[i + 1].head /\ sealed'[i + 1].len = sealed[i].len
    BY <1>2, <2>1, <2>3, <2>7
  <2>10. sealed[i].head =>
           /\ sealed[i].last = LastOf(i - 1)' + (IF sealed[i].len = 0 THEN 1 ELSE 0)
           /\ sealed[i].len = 0 => written'[sealed[i].last] = EndOf(i)
    BY <2>1, <2>2, <2>4, <2>6
  <2>11. ~sealed[i].head =>
           /\ sealed[i].last = LastOf(i - 1)' + sealed[i].len
           /\ \A j \in 1 .. sealed[i].len : written'[LastOf(i - 1)' + j] = << i, j >>
    BY <2>1, <2>2, <2>5
  <2> QED
    BY <2>1, <2>8, <2>9, <2>10, <2>11
<1>8. /\ LastOf(Len(sealed))' = Len(written')
      /\ \A i \in n + 1 .. Len(sealed') : Good(i)'
      /\ sealed = << >> => sealed'[1].head /\ sealed'[1].len > 0
  <2>1. CASE record.len = 0
    <3> DEFINE piece == PieceOf(TRUE, record, last + 1)
    <3>1. sealed' = Append(sealed, piece) /\ written' = Append(written, EndOf(n + 1))
      BY <1>0, <2>1 DEF SealRecord
    <3>2. piece.head /\ piece.len = 0 /\ piece.last = last + 1
      BY <2>1 DEF PieceOf
    <3> HIDE DEF piece
    <3>3. Len(sealed') = n + 1 /\ sealed'[n + 1] = piece /\ Len(written') = last + 1 /\ written'[last + 1] = EndOf(n + 1)
      BY <1>2, <3>1
    <3>4. LastOf(n)' = last
      BY <1>2, <1>5, <1>6
    <3>5. Good(n + 1)'
      BY <1>2, <3>2, <3>3, <3>4
    <3>6. LastOf(n + 1)' = last + 1
      BY <1>2, <3>2, <3>3 DEF LastOf
    <3> QED
      BY <1>2, <2>1, <3>3, <3>5, <3>6
  <2>2. CASE record.len # 0
    <3> DEFINE head == PieceOf(TRUE, record, last)
               body == PieceOf(FALSE, record, last + record.len)
    <3>1. sealed' = sealed \o << head, body >> /\ written' = written \o Units(n + 2, record.len)
      BY <1>0, <2>2 DEF SealRecord
    <3>2. /\ head.head /\ head.len = record.len /\ head.last = last
          /\ ~body.head /\ body.len = record.len /\ body.last = last + record.len
      BY DEF PieceOf
    <3> HIDE DEF head, body
    <3>3. Len(sealed') = n + 2 /\ sealed'[n + 1] = head /\ sealed'[n + 2] = body
      BY <1>2, <3>1
    <3>4. record.len \in Nat
      OBVIOUS
    <3>5. /\ Len(written') = last + record.len
          /\ \A j \in 1 .. record.len : written'[last + j] = << n + 2, j >>
      <4>1. n + 2 \in Nat
        OBVIOUS
      <4>2. /\ Units(n + 2, record.len) \in Seq(Nat \X Int) /\ Len(Units(n + 2, record.len)) = record.len
            /\ \A j \in 1 .. record.len : Units(n + 2, record.len)[j] = << n + 2, j >>
        BY <3>4, <4>1, UnitsAreUnits
      <4> DEFINE units == Units(n + 2, record.len)
      <4>3. written' = written \o units /\ units \in Seq(Nat \X Int) /\ Len(units) = record.len
            /\ \A j \in 1 .. record.len : units[j] = << n + 2, j >>
        BY <3>1, <4>2
      <4> HIDE DEF units
      <4>4. Len(written') = last + record.len
        <5>1. Len(written') = Len(written) + Len(units)
          BY <1>2, <4>3, ConcatProperties
        <5> QED
          BY <1>2, <4>3, <5>1
      <4>5. ASSUME NEW j \in 1 .. record.len PROVE written'[last + j] = << n + 2, j >>
        <5>1. last + j \in 1 .. last + record.len /\ ~(last + j <= last) /\ (last + j) - last = j
          BY <3>4
        <5>2. written'[last + j] = units[(last + j) - last]
          BY <1>2, <4>3, <5>1, ConcatProperties
        <5> QED
          BY <4>3, <5>1, <5>2
      <4> QED
        BY <4>4, <4>5
    <3>6. LastOf(n)' = last /\ LastOf(n + 1)' = last /\ LastOf(n + 2)' = last + record.len
      <4>1. LastOf(n)' = last
        BY <1>5, <1>6
      <4>2. n + 1 # 0 /\ n + 2 # 0
        OBVIOUS
      <4> QED
        BY <3>2, <3>3, <4>1, <4>2 DEF LastOf
    <3>7. Good(n + 1)'
      BY <1>2, <2>2, <3>2, <3>3, <3>4, <3>5, <3>6
    <3>8. Good(n + 2)'
      <4>1. (n + 2) - 1 = n + 1
        BY <1>2
      <4>2. ~sealed'[n + 2].head /\ sealed'[n + 2].len = record.len /\ sealed'[n + 2].last = last + record.len
        BY <3>2, <3>3
      <4>3. sealed'[n + 2].last <= Len(written') /\ sealed'[n + 2].last = LastOf((n + 2) - 1)' + sealed'[n + 2].len
        BY <1>2, <3>4, <3>5, <3>6, <4>1, <4>2
      <4>4. LastOf((n + 2) - 1)' = last
        BY <3>6, <4>1
      <4>5. \A j \in 1 .. sealed'[n + 2].len : written'[LastOf((n + 2) - 1)' + j] = << n + 2, j >>
        BY <3>5, <4>2, <4>4
      <4> QED
        BY <4>2, <4>3, <4>5
    <3>9. sealed = << >> => n = 0
      BY <1>2
    <3>10. \A i \in n + 1 .. Len(sealed') : i = n + 1 \/ i = n + 2
      BY <3>3
    <3>11. LastOf(Len(sealed))' = LastOf(n + 2)'
      BY <3>3
    <3>12. \A i \in n + 1 .. Len(sealed') : Good(i)'
      BY <3>7, <3>8, <3>10
    <3>13. sealed = << >> => sealed'[1].head /\ sealed'[1].len > 0
      BY <2>2, <3>2, <3>3, <3>4, <3>9
    <3> QED
      BY <3>5, <3>6, <3>11, <3>12, <3>13
  <2> QED
    BY <2>1, <2>2
<1>9. \A i \in 1 .. Len(sealed') : Good(i)'
  BY <1>1, <1>2, <1>7, <1>8
<1>10. sealed # << >> => sealed'[1].head /\ sealed'[1].len > 0
  <2>1. sealed # << >> => n >= 1
    BY <1>2
  <2> QED
    BY <1>1, <2>1 DEF Sealed
<1> QED
  BY <1>8, <1>9, <1>10 DEF Sealed

\* A Write leaves alone what the reader has opened.
LEMMA WriteKeeps ==
  ASSUME ReaderTypes, ReaderInv, WriteRecord
  PROVE  ReaderTypes' /\ ReaderInv'
<1>1. PICK record \in Records[calls'] : SealRecord(record) /\ (record.len = 0 => sealed # << >>)
  BY DEF WriteRecord
<1>2. calls' \in 1 .. Len(Records) /\ calls' \in Nat
  BY ReaderAssumption DEF WriteRecord, ReaderTypes
<1>3. record \in [pad : Nat, len : Nat]
  BY <1>1, <1>2, ReaderAssumption
<1>4. /\ UNCHANGED << version, nonce, header, opened, mistaken, cache, delivered >>
      /\ at' = at /\ stage' = stage
  BY DEF WriteRecord, readerVars
<1>5. /\ sealed' \in Seq(Pieces) /\ written' \in Seq(Nat \X Int)
      /\ Len(sealed') >= Len(sealed) /\ Len(written') >= Len(written)
      /\ \A i \in 1 .. Len(sealed) : sealed'[i] = sealed[i]
      /\ \A i \in 1 .. Len(written) : written'[i] = written[i]
  BY <1>1, <1>3, SealTypes
<1>6. ReaderTypes'
  BY <1>2, <1>4, <1>5 DEF ReaderTypes
<1>7. Sealed'
  <2>1. record.len \in Nat /\ (sealed = << >> => record.len > 0)
    BY <1>1, <1>3
  <2> QED
    BY <1>1, <1>3, <2>1, SealKeepsSealed DEF ReaderInv
<1>8. ASSUME ~mistaken' PROVE Opened'
  <2>1. Opened
    BY <1>4, <1>8 DEF ReaderInv
  <2>2. Len(sealed) \in Nat /\ Len(sealed') \in Nat /\ Len(written) \in Nat /\ Len(written') \in Nat
        /\ nonce \in Nat \ {0} /\ Len(delivered) \in Nat /\ Len(cache) \in Nat
    BY <1>5 DEF ReaderTypes
  <2>3. LastOf(nonce - 1)' = LastOf(nonce - 1)
    <3>1. nonce - 1 = 0 \/ nonce - 1 \in 1 .. Len(sealed)
      BY <2>1, <2>2 DEF Opened
    <3> QED
      BY <1>4, <1>5, <3>1 DEF LastOf
  <2>4. Delivered'
    <3>1. Len(delivered) + Len(cache) <= Len(written)
      BY <2>1 DEF Opened, Delivered
    <3>2. \A i \in 1 .. Len(delivered) : i \in 1 .. Len(written)
      BY <2>2, <3>1
    <3>3. \A i \in 1 .. Len(cache) : Len(delivered) + i \in 1 .. Len(written)
      BY <2>2, <3>1
    <3>4. \A i \in 1 .. Len(delivered) : Handed(i)'
      <4> TAKE i \in 1 .. Len(delivered)
      <4>1. Handed(i) /\ written'[i] = written[i] /\ delivered'[i] = delivered[i] /\ version' = version
        BY <1>4, <1>5, <2>1, <3>2 DEF Opened, Delivered
      <4>2. \A n \in 1 .. Len(sealed) : n \in 1 .. Len(sealed')
        BY <1>5, <2>2
      <4> QED
        BY <4>1, <4>2 DEF Handed
    <3>5. \A i \in 1 .. Len(cache) : cache[i] = written'[Len(delivered) + i]
      BY <1>5, <2>1, <3>3 DEF Opened, Delivered
    <3>6. Len(delivered) + Len(cache) <= Len(written')
      BY <1>5, <2>2, <3>1
    <3>7. at # "error" =>
            Len(delivered) + Len(cache) + (IF stage = "discard" THEN 1 ELSE 0) = LastOf(nonce - 1)'
      BY <2>1, <2>3 DEF Opened, Delivered
    <3> QED
      BY <1>4, <3>4, <3>5, <3>6, <3>7 DEF Delivered
  <2>5. stage \in {"pad", "body", "discard"} => sealed'[nonce - 1] = sealed[nonce - 1]
    <3>1. stage \in {"pad", "body", "discard"} => nonce - 1 \in 1 .. Len(sealed)
      BY <2>1, <2>2 DEF Opened
    <3> QED
      BY <1>5, <3>1
  <2>6. nonce <= Len(sealed') + 1
    BY <1>5, <2>1, <2>2 DEF Opened
  <2> QED
    BY <1>4, <2>1, <2>4, <2>5, <2>6 DEF Opened
<1> QED
  BY <1>6, <1>7, <1>8 DEF ReaderInv

-----------------------------------------------------------------------------
\* The reader.

\* A step that opens nothing, hands out nothing, and goes on where it is or stops.
LEMMA StepKeeps ==
  ASSUME ReaderTypes, ReaderInv, UNCHANGED recordVars,
         \/ at' = at /\ stage' = stage
         \/ /\ (Opened => stage # "discard") /\ stage' \notin {"pad", "body", "discard"}
            /\ at # "error" /\ (at' = "reading" => cache = << >>)
  PROVE  ReaderTypes' /\ ReaderInv'
<1>1. ReaderTypes'
  BY DEF ReaderTypes, recordVars
<1>2. Sealed'
  BY DEF Sealed, LastOf, ReaderInv, recordVars
<1>3. ASSUME Opened PROVE Opened'
  <2>1. Delivered'
    BY <1>3 DEF Opened, Delivered, LastOf, recordVars, Handed
  <2> QED
    BY <1>3, <2>1 DEF Opened, recordVars
<1> QED
  BY <1>1, <1>2, <1>3 DEF ReaderInv, recordVars

\* A reader that starts anew with a salt has opened no record.
LEMMA BeginKeeps ==
  ASSUME ReaderTypes, ReaderInv, BeginRecord
  PROVE  ReaderTypes' /\ ReaderInv'
<1>1. /\ UNCHANGED << version, sealed, written, calls, header, opened, mistaken, cache, delivered >>
      /\ at = "idle" /\ at' = "reading" /\ stage' \in {"head", "salt"} /\ cache = << >>
      /\ nonce' = nonce \/ (~opened /\ nonce' = 1)
  BY DEF BeginRecord, Start, writeVars
<1>2. CASE nonce' = nonce
  <2>1. Opened => stage # "discard"
    BY <1>1 DEF Opened
  <2> QED
    BY <1>1, <1>2, <2>1, StepKeeps DEF recordVars
<1>3. CASE ~opened /\ nonce' = 1
  <2>1. ReaderTypes'
    BY <1>1, <1>3 DEF ReaderTypes
  <2>2. Sealed'
    BY <1>1 DEF Sealed, LastOf, ReaderInv
  <2>3. ASSUME Opened PROVE Opened'
    <3>1. delivered = << >> /\ cache = << >>
      BY <1>1, <1>3, <2>3 DEF Opened
    <3>2. LastOf(nonce - 1)' = 0
      BY <1>3 DEF LastOf
    <3>3. Len(sealed) \in Nat /\ Len(written) \in Nat
      BY DEF ReaderTypes
    <3>4. Delivered'
      BY <1>1, <3>1, <3>2, <3>3 DEF Delivered, Handed
    <3> QED
      BY <1>1, <1>3, <3>1, <3>3, <3>4 DEF Opened
  <2> QED
    BY <1>1, <2>1, <2>2, <2>3 DEF ReaderInv
<1> QED
  BY <1>1, <1>2, <1>3

\* What is taken from the cache is what is written next.
LEMMA TakeKeeps ==
  ASSUME ReaderTypes, ReaderInv, TakeCache
  PROVE  ReaderTypes' /\ ReaderInv'
<1>1. PICK n \in 1 .. Len(cache) :
        delivered' = delivered \o SubSeq(cache, 1, n) /\ cache' = SubSeq(cache, n + 1, Len(cache))
  BY DEF TakeCache, Advance
<1>2. /\ UNCHANGED << version, sealed, written, calls, nonce, header, opened, mistaken >>
      /\ at = "idle" /\ at' = at /\ stage' = stage /\ cache # << >>
  BY DEF TakeCache, writeVars
<1>3. /\ cache \in Seq(Nat \X Int) /\ delivered \in Seq(Nat \X Int)
      /\ Len(cache) \in Nat /\ Len(delivered) \in Nat /\ n \in Nat /\ Len(written) \in Nat
  BY DEF ReaderTypes
<1>4. /\ SubSeq(cache, 1, n) \in Seq(Nat \X Int) /\ Len(SubSeq(cache, 1, n)) = n
      /\ \A i \in 1 .. n : SubSeq(cache, 1, n)[i] = cache[i]
  BY <1>3
<1>5. /\ cache' \in Seq(Nat \X Int) /\ Len(cache') = Len(cache) - n
      /\ \A i \in 1 .. Len(cache) - n : cache'[i] = cache[n + i]
  <2> DEFINE tail == SubSeq(cache, n + 1, Len(cache))
  <2>1. tail \in Seq(Nat \X Int) /\ Len(tail) = Len(cache) - n
    BY <1>3, SMTT(30)
  <2>2. \A i \in 1 .. Len(cache) - n : tail[i] = cache[n + i]
    BY <1>3
  <2> QED
    BY <1>1, <2>1, <2>2
<1>6. /\ delivered' \in Seq(Nat \X Int) /\ Len(delivered') = Len(delivered) + n
      /\ \A i \in 1 .. Len(delivered) : delivered'[i] = delivered[i]
      /\ \A i \in Len(delivered) + 1 .. Len(delivered) + n : delivered'[i] = cache[i - Len(delivered)]
  <2> DEFINE head == SubSeq(cache, 1, n)
  <2>1. delivered' = delivered \o head /\ head \in Seq(Nat \X Int) /\ Len(head) = n
        /\ \A i \in 1 .. n : head[i] = cache[i]
    BY <1>1, <1>4
  <2> HIDE DEF head
  <2>2. /\ delivered' \in Seq(Nat \X Int) /\ Len(delivered') = Len(delivered) + n
        /\ \A i \in 1 .. Len(delivered) + n :
             delivered'[i] = IF i <= Len(delivered) THEN delivered[i] ELSE head[i - Len(delivered)]
    <3>1. delivered' \in Seq(Nat \X Int) /\ Len(delivered') = Len(delivered) + Len(head)
      BY <1>3, <2>1, ConcatProperties
    <3>2. \A i \in 1 .. Len(delivered) + Len(head) :
            delivered'[i] = IF i <= Len(delivered) THEN delivered[i] ELSE head[i - Len(delivered)]
      BY <1>3, <2>1, ConcatProperties
    <3> QED
      BY <2>1, <3>1, <3>2
  <2>3. \A i \in 1 .. Len(delivered) : delivered'[i] = delivered[i]
    <3> TAKE i \in 1 .. Len(delivered)
    <3>1. i \in 1 .. Len(delivered) + n /\ i <= Len(delivered)
      BY <1>3
    <3> QED
      BY <2>2, <3>1
  <2>4. \A i \in Len(delivered) + 1 .. Len(delivered) + n : delivered'[i] = head[i - Len(delivered)]
    <3> TAKE i \in Len(delivered) + 1 .. Len(delivered) + n
    <3>1. i \in 1 .. Len(delivered) + n /\ ~(i <= Len(delivered))
      BY <1>3
    <3> QED
      BY <2>2, <3>1
  <2>5. \A i \in Len(delivered) + 1 .. Len(delivered) + n : i - Len(delivered) \in 1 .. n
    BY <1>3
  <2> QED
    BY <2>1, <2>2, <2>3, <2>4, <2>5
<1>7. ReaderTypes'
  BY <1>2, <1>5, <1>6 DEF ReaderTypes
<1>8. Sealed'
  BY <1>2 DEF Sealed, LastOf, ReaderInv
<1>9. ASSUME Opened PROVE Opened'
  <2>1. opened /\ at # "reading" /\ stage # "discard"
    BY <1>2, <1>9 DEF Opened, ReaderTypes
  <2>2. LastOf(nonce - 1)' = LastOf(nonce - 1)
    BY <1>2 DEF LastOf
  <2>3. /\ Len(delivered) + Len(cache) <= Len(written)
        /\ Len(delivered) + Len(cache) = LastOf(nonce - 1)
        /\ \A i \in 1 .. Len(delivered) : Handed(i)
        /\ \A i \in 1 .. Len(cache) : cache[i] = written[Len(delivered) + i]
    BY <1>2, <1>9, <2>1 DEF Opened, Delivered
  <2>4. Len(delivered') + Len(cache') = Len(delivered) + Len(cache)
    BY <1>3, <1>5, <1>6
  <2>5. \A i \in 1 .. Len(delivered') : Handed(i)'
    <3> TAKE i \in 1 .. Len(delivered')
    <3>1. i \in 1 .. Len(delivered) \/ i \in Len(delivered) + 1 .. Len(delivered) + n
      BY <1>3, <1>6
    <3>2. CASE i \in Len(delivered) + 1 .. Len(delivered) + n
      <4>1. i - Len(delivered) \in 1 .. Len(cache) /\ Len(delivered) + (i - Len(delivered)) = i
        BY <1>3, <3>2
      <4>2. delivered'[i] = written[i]
        BY <1>6, <2>3, <3>2, <4>1
      <4> QED
        BY <1>2, <4>2 DEF Handed
    <3>3. CASE i \in 1 .. Len(delivered)
      BY <1>2, <1>6, <2>3, <3>3 DEF Handed
    <3> QED
      BY <3>1, <3>2, <3>3
  <2>6. \A i \in 1 .. Len(cache') : cache'[i] = written[Len(delivered') + i]
    <3> TAKE i \in 1 .. Len(cache')
    <3>1. n + i \in 1 .. Len(cache) /\ Len(delivered') + i = Len(delivered) + (n + i)
      <4>1. Len(cache') = Len(cache) - n /\ Len(delivered') = Len(delivered) + n
        BY <1>5, <1>6
      <4>2. n \in Nat /\ Len(cache) \in Nat /\ Len(delivered) \in Nat /\ i \in 1 .. Len(cache')
        BY <1>3
      <4> QED
        BY <4>1, <4>2
    <3> QED
      BY <1>5, <2>3, <3>1
  <2>7. Delivered'
    BY <1>2, <2>1, <2>2, <2>3, <2>4, <2>5, <2>6 DEF Delivered
  <2> QED
    BY <1>2, <1>9, <2>1, <2>7 DEF Opened
<1> QED
  BY <1>2, <1>7, <1>8, <1>9 DEF ReaderInv

\* An opened header makes the reader expect the record's body, or is the zero chunk
\* that is due.
LEMMA HeaderKeeps ==
  ASSUME ReaderTypes, ReaderInv, HeaderRead
  PROVE  ReaderTypes' /\ ReaderInv'
<1>1. /\ UNCHANGED << version, sealed, written, calls, opened, cache >>
      /\ at = "reading" /\ stage = "head"
  BY DEF HeaderRead, writeVars
<1>2. CASE ~Opens
  <2>1. UNCHANGED recordVars /\ at' = "error" /\ stage' = "none"
    BY <1>1, <1>2 DEF HeaderRead, recordVars, Start
  <2> QED
    BY <1>1, <2>1, StepKeeps
<1>3. CASE Opens
  <2>1. /\ nonce \in 1 .. Len(sealed) /\ nonce' = nonce + 1
        /\ mistaken' = (mistaken \/ ~sealed[nonce].head)
    BY <1>3 DEF HeaderRead, Opens, NextNonce, ReaderTypes
  <2>2. PICK pad \in 0 .. MaxLength, len \in 0 .. MaxLength :
          /\ sealed[nonce].head => pad = sealed[nonce].pad /\ len = sealed[nonce].len
          /\ header' = [pad |-> pad, len |-> len]
    BY <1>3 DEF HeaderRead
  <2>3. pad \in Nat /\ len \in Nat /\ header' \in [pad : Nat, len : Nat] /\ header'.len = len /\ header'.pad = pad
    BY <2>2, ObfsAssumption
  <2>4. \/ AfterHeader(header') /\ UNCHANGED delivered
        \/ header'.len = 0 /\ at' = "error" /\ stage' = "none" /\ UNCHANGED delivered
        \/ header'.len = 0 /\ EndOfStream
        \/ ~sealed[nonce].head /\ at' = "error" /\ stage' = "none" /\ UNCHANGED delivered
    BY <1>3 DEF HeaderRead, Start
  <2>5. /\ sealed \in Seq(Pieces) /\ Len(sealed) \in Nat /\ Len(written) \in Nat
        /\ delivered \in Seq(Nat \X Int) /\ Len(delivered) \in Nat /\ sealed[nonce] \in Pieces
    BY <2>1 DEF ReaderTypes
  <2>6. EndOf(nonce) \in Nat \X Int
    BY <2>1 DEF EndOf
  <2>7. delivered' \in Seq(Nat \X Int)
    <3>1. Append(delivered, EndOf(nonce)) \in Seq(Nat \X Int)
      BY <2>5, <2>6, AppendProperties
    <3> QED
      BY <2>4, <2>5, <3>1 DEF EndOfStream
  <2>8. ReaderTypes'
    BY <1>1, <2>1, <2>3, <2>7 DEF ReaderTypes
  <2>9. Sealed'
    BY <1>1 DEF Sealed, LastOf, ReaderInv
  <2>10. ASSUME ~mistaken' PROVE Opened'
    <3>1. Opened /\ sealed[nonce].head /\ len = sealed[nonce].len
      BY <2>1, <2>2, <2>10 DEF ReaderInv, ReaderTypes
    <3>2. /\ cache = << >> /\ Len(cache) = 0 /\ nonce' - 1 = nonce
          /\ Len(delivered) = LastOf(nonce - 1)
          /\ Len(delivered) <= Len(written)
          /\ \A i \in 1 .. Len(delivered) : Handed(i)
      BY <1>1, <2>1, <2>5, <3>1 DEF Opened, Delivered
    <3>3. LastOf(nonce - 1)' = sealed[nonce].last
      <4>1. nonce # 0
        BY <2>1
      <4> QED
        BY <1>1, <3>2, <4>1 DEF LastOf
    <3>4. /\ sealed[nonce].last <= Len(written)
          /\ sealed[nonce].last = Len(delivered) + (IF len = 0 THEN 1 ELSE 0)
          /\ len = 0 => written[sealed[nonce].last] = EndOf(nonce)
      BY <2>1, <3>1, <3>2 DEF ReaderInv, Sealed
    <3>5. nonce' <= Len(sealed') + 1
      BY <1>1, <2>1, <2>5
    <3>6. ~opened => nonce' <= 2 /\ len # 0
      <4> SUFFICES ASSUME ~opened PROVE nonce' <= 2 /\ len # 0
        OBVIOUS
      <4>1. nonce = 1 \/ nonce = 2
        BY <2>1, <3>1 DEF Opened
      <4>2. sealed[1].head /\ sealed[1].len > 0
        BY <2>1, <2>5 DEF ReaderInv, Sealed
      <4>3. nonce # 2
        BY <2>1, <2>5, <3>1, <4>2 DEF ReaderInv, Sealed
      <4> QED
        BY <2>1, <3>1, <4>1, <4>2, <4>3
    <3>7. CASE len # 0
      <4>1. UNCHANGED delivered /\ at' = "reading" /\ stage' \in {"pad", "body"}
        BY <2>3, <2>4, <3>1, <3>7 DEF AfterHeader, Start
      <4>2. Delivered'
        <5>1. delivered' = delivered /\ cache' = cache /\ written' = written /\ version' = version /\ sealed' = sealed
          BY <1>1, <4>1
        <5>2. \A i \in 1 .. Len(delivered') : Handed(i)'
          BY <3>2, <5>1 DEF Handed
        <5>3. Len(delivered) + 0 + 0 = LastOf(nonce - 1)'
          BY <2>5, <3>3, <3>4, <3>7
        <5> QED
          BY <3>2, <4>1, <5>1, <5>2, <5>3 DEF Delivered
      <4>3. nonce' > 1 /\ sealed'[nonce' - 1].head /\ header'.len = sealed'[nonce' - 1].len /\ header'.len > 0
        BY <1>1, <2>1, <2>3, <3>1, <3>2, <3>7
      <4> QED
        BY <1>1, <3>1, <3>2, <3>5, <3>6, <4>1, <4>2, <4>3 DEF Opened
    <3>8. CASE len = 0
      <4>1. opened
        BY <3>6, <3>8 DEF ReaderTypes
      <4>2. CASE at' = "error" /\ stage' = "none" /\ UNCHANGED delivered
        <5>1. Delivered'
          BY <1>1, <3>2, <4>2 DEF Delivered, Handed
        <5> QED
          BY <1>1, <3>5, <4>1, <4>2, <5>1 DEF Opened
      <4>3. CASE EndOfStream
        <5>1. at' = "idle" /\ stage' = "none" /\ delivered' = Append(delivered, EndOf(nonce))
          BY <4>3 DEF EndOfStream, Start
        <5>2. /\ Len(delivered') = Len(delivered) + 1
              /\ \A i \in 1 .. Len(delivered) : delivered'[i] = delivered[i]
              /\ delivered'[Len(delivered) + 1] = EndOf(nonce)
          BY <2>5, <2>6, <5>1, AppendProperties
        <5>3. \A i \in 1 .. Len(delivered') : i \in 1 .. Len(delivered) \/ i = Len(delivered) + 1
          BY <2>5, <5>2
        <5>4. \A i \in 1 .. Len(delivered') : Handed(i)'
          BY <1>1, <3>2, <3>4, <3>8, <5>2, <5>3 DEF Handed
        <5>5. Len(delivered') = sealed[nonce].last
          BY <3>4, <3>8, <5>2
        <5>6. Delivered'
          BY <1>1, <2>5, <3>2, <3>3, <3>4, <5>1, <5>4, <5>5 DEF Delivered
        <5> QED
          BY <1>1, <3>5, <4>1, <5>1, <5>6 DEF Opened
      <4>4. CASE AfterHeader(header') /\ UNCHANGED delivered
        <5>1. version = 6 /\ at' = "reading" /\ stage' = "discard"
          BY <2>3, <3>8, <4>4 DEF AfterHeader, Start
        <5>2. Delivered'
          BY <1>1, <3>2, <3>3, <3>4, <3>8, <4>4, <5>1 DEF Delivered, Handed
        <5>3. nonce' > 1 /\ sealed'[nonce' - 1].head /\ sealed'[nonce' - 1].len = 0
          <6>1. nonce' > 1
            BY <2>1, <2>5
          <6>2. sealed'[nonce' - 1] = sealed[nonce]
            BY <1>1, <3>2
          <6> QED
            BY <3>1, <3>8, <6>1, <6>2
        <5> QED
          BY <1>1, <3>1, <3>2, <3>5, <4>1, <5>1, <5>2, <5>3 DEF Opened
      <4> QED
        BY <2>4, <3>1, <4>2, <4>3, <4>4
    <3> QED
      BY <3>7, <3>8
  <2> QED
    BY <1>1, <2>8, <2>9, <2>10 DEF ReaderInv
<1> QED
  BY <1>2, <1>3

\* The end of the stream behind the padding is reported, or missed.
LEMMA EndKeeps ==
  ASSUME ReaderTypes, ReaderInv,
         UNCHANGED << version, sealed, written, calls, nonce, header, opened, mistaken, cache >>,
         at = "reading", stage = "discard", at' # "reading", stage' = "none",
         NEW last \in {EndOf(nonce - 1), Missed(nonce - 1)}, delivered' = Append(delivered, last)
  PROVE  ReaderTypes' /\ ReaderInv'
<1>1. last \in Nat \X Int
  <2>1. nonce - 1 \in Nat /\ 0 \in Int /\ -1 \in Int
    BY DEF ReaderTypes
  <2> QED
    BY <2>1 DEF EndOf, Missed
<1>2. delivered \in Seq(Nat \X Int) /\ Len(delivered) \in Nat /\ Len(written) \in Nat /\ Len(sealed) \in Nat
      /\ sealed \in Seq(Pieces) /\ nonce \in Nat \ {0}
  BY DEF ReaderTypes
<1>3. /\ delivered' \in Seq(Nat \X Int) /\ Len(delivered') = Len(delivered) + 1
      /\ \A i \in 1 .. Len(delivered) : delivered'[i] = delivered[i]
      /\ delivered'[Len(delivered) + 1] = last
  BY <1>1, <1>2, AppendProperties
<1>4. ReaderTypes'
  BY <1>3 DEF ReaderTypes
<1>5. Sealed'
  BY DEF Sealed, LastOf, ReaderInv
<1>6. ASSUME ~mistaken PROVE Opened'
  <2>1. Opened /\ version = 6 /\ nonce > 1 /\ sealed[nonce - 1].head /\ sealed[nonce - 1].len = 0 /\ cache = << >>
    BY <1>6 DEF ReaderInv, Opened
  <2>2. Len(delivered) + 1 = sealed[nonce - 1].last /\ Len(cache) = 0
    <3>1. Len(cache) = 0 /\ nonce - 1 # 0
      BY <1>2, <2>1
    <3>2. Len(delivered) + Len(cache) + 1 = LastOf(nonce - 1)
      BY <2>1 DEF Opened, Delivered
    <3> QED
      BY <1>2, <3>1, <3>2 DEF LastOf
  <2>3. nonce - 1 \in 1 .. Len(sealed)
    BY <1>2, <2>1 DEF Opened
  <2>4. sealed[nonce - 1].last <= Len(written) /\ written[sealed[nonce - 1].last] = EndOf(nonce - 1)
    BY <2>1, <2>3 DEF ReaderInv, Sealed
  <2>5. \A i \in 1 .. Len(delivered') : Handed(i)'
    <3> TAKE i \in 1 .. Len(delivered')
    <3>1. CASE i \in 1 .. Len(delivered)
      BY <1>3, <2>1, <3>1 DEF Opened, Delivered, Handed
    <3>2. CASE i = Len(delivered) + 1
      BY <1>3, <2>1, <2>2, <2>3, <2>4, <3>2 DEF Handed
    <3>3. i \in 1 .. Len(delivered) \/ i = Len(delivered) + 1
      BY <1>2, <1>3
    <3> QED
      BY <3>1, <3>2, <3>3
  <2>6. LastOf(nonce - 1)' = sealed[nonce - 1].last
    BY <1>2, <2>1 DEF LastOf
  <2>7. Delivered'
    BY <1>2, <1>3, <2>1, <2>2, <2>4, <2>5, <2>6 DEF Delivered
  <2>8. opened
    <3>1. ASSUME nonce = 2 PROVE FALSE
      <4>1. sealed # << >> /\ sealed[1].len = 0
        BY <1>2, <2>1, <2>3, <3>1
      <4> QED
        BY <4>1 DEF ReaderInv, Sealed
    <3> QED
      BY <1>2, <2>1, <3>1 DEF Opened
  <2> QED
    BY <2>1, <2>7, <2>8 DEF Opened
<1> QED
  BY <1>4, <1>5, <1>6 DEF ReaderInv

LEMMA PaddingKeeps ==
  ASSUME ReaderTypes, ReaderInv, PaddingRead
  PROVE  ReaderTypes' /\ ReaderInv'
<1>1. /\ UNCHANGED << version, sealed, written, calls, nonce, header, opened, mistaken, cache >>
      /\ at = "reading"
  BY DEF PaddingRead, writeVars
<1>2. CASE stage = "pad"
  <2>1. UNCHANGED delivered /\ at' = at /\ stage' = "body"
    BY <1>2 DEF PaddingRead, Start
  <2>2. ReaderTypes'
    BY <1>1, <2>1 DEF ReaderTypes
  <2>3. Sealed'
    BY <1>1 DEF Sealed, LastOf, ReaderInv
  <2>4. ASSUME Opened PROVE Opened'
    <3>1. Delivered'
      BY <1>1, <1>2, <2>1, <2>4 DEF Opened, Delivered, LastOf, Handed
    <3> QED
      BY <1>1, <1>2, <2>1, <2>4, <3>1 DEF Opened
  <2> QED
    BY <1>1, <2>2, <2>3, <2>4 DEF ReaderInv
<1>3. CASE stage = "discard"
  <2>1. delivered' = Append(delivered, EndOf(nonce - 1)) /\ at' = "idle" /\ stage' = "none"
    BY <1>3 DEF PaddingRead, Start
  <2> QED
    BY <1>1, <1>3, <2>1, EndKeeps
<1> QED
  BY <1>2, <1>3 DEF PaddingRead

\* An error behind the header of a zero chunk leaves the reader past it.
LEMMA ReadKeeps ==
  ASSUME ReaderTypes, ReaderInv, ReadDone \/ TakeBuffered
  PROVE  ReaderTypes' /\ ReaderInv'
<1>1. UNCHANGED << version, sealed, written, calls, nonce, header, opened, mistaken, cache >> /\ at = "reading"
  BY DEF ReadDone, TakeBuffered, writeVars
<1>2. \/ at' = at /\ stage' = stage /\ UNCHANGED delivered
      \/ /\ at' \in {"idle", "eof", "error"} /\ stage' = "none"
         /\ delivered' = IF stage = "discard" THEN Append(delivered, Missed(nonce - 1)) ELSE delivered
  BY DEF ReadDone, TakeBuffered, Fails
<1>3. CASE UNCHANGED delivered /\ at' = at /\ stage' = stage
  BY <1>1, <1>3, StepKeeps DEF recordVars
<1>4. CASE at' \in {"idle", "eof", "error"} /\ stage' = "none" /\ stage # "discard" /\ UNCHANGED delivered
  BY <1>1, <1>4, StepKeeps DEF recordVars
<1>5. CASE at' \in {"idle", "eof", "error"} /\ stage' = "none" /\ stage = "discard"
           /\ delivered' = Append(delivered, Missed(nonce - 1))
  BY <1>1, <1>5, EndKeeps
<1> QED
  BY <1>2, <1>3, <1>4, <1>5

\* The body that opens behind a header is the payload that is due.
LEMMA BodyKeeps ==
  ASSUME ReaderTypes, ReaderInv, BodyRead
  PROVE  ReaderTypes' /\ ReaderInv'
<1>1. /\ UNCHANGED << version, sealed, written, calls, header, mistaken, delivered >>
      /\ at = "reading" /\ stage = "body" /\ stage' = "none"
  BY DEF BodyRead, writeVars, Start
<1>2. CASE ~Opens
  <2>1. UNCHANGED recordVars /\ at' = "error"
    BY <1>1, <1>2 DEF BodyRead, recordVars
  <2>2. ReaderTypes'
    BY <2>1 DEF ReaderTypes, recordVars
  <2>3. Sealed'
    BY <1>1 DEF Sealed, LastOf, ReaderInv
  <2>4. ASSUME Opened PROVE Opened'
    <3>1. Delivered'
      BY <1>1, <2>1, <2>4 DEF Opened, Delivered, recordVars, Handed
    <3> QED
      BY <1>1, <2>1, <2>4, <3>1 DEF Opened, recordVars
  <2> QED
    BY <1>1, <2>2, <2>3, <2>4 DEF ReaderInv
<1>3. CASE Opens
  <2>1. /\ nonce \in 1 .. Len(sealed) /\ nonce' = nonce + 1
        /\ at' = "idle" /\ cache' = Units(nonce, header.len) /\ opened' = TRUE
    BY <1>3 DEF BodyRead, Opens, NextNonce, ReaderTypes
  <2>2. header.len \in Nat /\ nonce \in Nat /\ Len(sealed) \in Nat /\ Len(written) \in Nat
        /\ Len(delivered) \in Nat /\ sealed \in Seq(Pieces)
    BY DEF ReaderTypes
  <2>3. /\ cache' \in Seq(Nat \X Int) /\ Len(cache') = header.len
        /\ \A i \in 1 .. header.len : cache'[i] = << nonce, i >>
    BY <2>1, <2>2, UnitsAreUnits
  <2>4. ReaderTypes'
    BY <1>1, <2>1, <2>3 DEF ReaderTypes
  <2>5. Sealed'
    BY <1>1 DEF Sealed, LastOf, ReaderInv
  <2>6. ASSUME Opened PROVE Opened'
    <3>1. /\ nonce > 1 /\ sealed[nonce - 1].head /\ header.len = sealed[nonce - 1].len /\ header.len > 0
          /\ cache = << >>
      BY <1>1, <2>6 DEF Opened
    <3>2. nonce - 1 \in 1 .. Len(sealed) /\ (nonce - 1) + 1 = nonce
      BY <2>1, <2>2, <3>1
    <3>3. ~sealed[nonce].head /\ sealed[nonce].len = header.len
      BY <3>1, <3>2 DEF ReaderInv, Sealed
    <3>4. /\ Len(delivered) = LastOf(nonce - 1)
          /\ \A i \in 1 .. Len(delivered) : Handed(i)
      BY <1>1, <2>2, <2>6, <3>1 DEF Opened, Delivered
    <3>5. /\ sealed[nonce].last <= Len(written)
          /\ sealed[nonce].last = Len(delivered) + header.len
          /\ \A i \in 1 .. header.len : written[Len(delivered) + i] = << nonce, i >>
      BY <2>1, <3>3, <3>4 DEF ReaderInv, Sealed
    <3>6. LastOf(nonce - 1)' = sealed[nonce].last
      <4>1. nonce # 0 /\ nonce' - 1 = nonce
        BY <2>1, <2>2
      <4> QED
        BY <1>1, <4>1 DEF LastOf
    <3>7. \A i \in 1 .. header.len : cache'[i] = written[Len(delivered) + i]
      BY <2>3, <3>5
    <3>8. Delivered'
      BY <1>1, <2>1, <2>3, <3>4, <3>5, <3>6, <3>7 DEF Delivered, Handed
    <3>9. nonce' <= Len(sealed') + 1
      BY <1>1, <2>1, <2>2
    <3> QED
      BY <1>1, <2>1, <3>8, <3>9 DEF Opened
  <2> QED
    BY <1>1, <2>4, <2>5, <2>6 DEF ReaderInv
<1> QED
  BY <1>2, <1>3

-----------------------------------------------------------------------------
LEMMA ReaderStep ==
  ASSUME ReaderTypes, ReaderInv, [Next]_vars
  PROVE  ReaderTypes' /\ ReaderInv'
<1>1. CASE WriteRecord
  BY <1>1, WriteKeeps
<1>2. CASE CloseConn \/ CallRead \/ ReadStep \/ SaltRead \/ UNCHANGED vars
  <2>1. UNCHANGED recordVars
    BY <1>2 DEF CloseConn, CallRead, ReadStep, SaltRead, vars, recordVars, writeVars, readerVars
  <2>2. \/ at' = at /\ stage' = stage
        \/ at = "reading" /\ at' = at /\ stage = "salt" /\ stage' = "head"
    BY <1>2 DEF CloseConn, CallRead, ReadStep, SaltRead, vars, readerVars, Start
  <2>3. CASE at' = at /\ stage' = stage
    BY <2>1, <2>3, StepKeeps
  <2>4. CASE at = "reading" /\ at' = at /\ stage = "salt" /\ stage' = "head"
    <3>1. ReaderTypes'
      BY <2>1 DEF ReaderTypes, recordVars
    <3>2. Sealed'
      BY <2>1 DEF Sealed, LastOf, ReaderInv, recordVars
    <3>3. ASSUME Opened PROVE Opened'
      <4>1. Delivered'
        BY <2>1, <2>4, <3>3 DEF Opened, Delivered, LastOf, recordVars, Handed
      <4> QED
        BY <2>1, <2>4, <3>3, <4>1 DEF Opened, recordVars
    <3> QED
      BY <2>1, <3>1, <3>2, <3>3 DEF ReaderInv, recordVars
  <2> QED
    BY <2>2, <2>3, <2>4
<1>3. CASE ReadDone \/ TakeBuffered
  BY <1>3, ReadKeeps
<1>4. CASE BeginRecord
  BY <1>4, BeginKeeps
<1>5. CASE HeaderRead
  BY <1>5, HeaderKeeps
<1>6. CASE PaddingRead
  BY <1>6, PaddingKeeps
<1>7. CASE BodyRead
  BY <1>7, BodyKeeps
<1>8. CASE TakeCache
  BY <1>8, TakeKeeps
<1> QED
  BY <1>1, <1>2, <1>3, <1>4, <1>5, <1>6, <1>7, <1>8 DEF Next, Reader

\* What the readers hand out is what is written, in order and with nothing left out,
\* whatever is lost on the way: except that a version 6 reader whose deadline passes in the
\* padding of a zero chunk never reports that end of the stream.
THEOREM ReadersFailClosed == Spec => []ReadsInOrder
<1>1. Init => ReaderTypes /\ ReaderInv
  BY ReaderInit
<1>2. ReaderTypes /\ ReaderInv /\ [Next]_vars => ReaderTypes' /\ ReaderInv'
  BY ReaderStep
<1>3. ReaderTypes /\ ReaderInv => ReadsInOrder
  <2> SUFFICES ASSUME ReaderTypes, ReaderInv, ~mistaken
               PROVE  Len(delivered) <= Len(written) /\ \A i \in 1 .. Len(delivered) : Handed(i)
    BY DEF ReadsInOrder
  <2>1. Delivered
    BY DEF ReaderInv, Opened
  <2>2. Len(delivered) \in Nat /\ Len(cache) \in Nat /\ Len(written) \in Nat
    BY DEF ReaderTypes
  <2> QED
    BY <2>1, <2>2 DEF Delivered
<1> QED
  BY <1>1, <1>2, <1>3, PTL DEF Spec

-----------------------------------------------------------------------------
\* Where a reader that has lost nothing is.  The bytes of the records are one stream,
\* with a salt before them; the reader holds what comes next of it, the wire has what
\* comes then, in its disguise, and the writer the rest.

Token == {"data", "f", "len", "cr", "lf", "x"} \X Nat \X Nat

Zero(piece) == piece.head /\ piece.len = 0

\* A piece on the wire; the padding behind a zero chunk is of no piece.
Extent(pieces, n) ==
  IF n = 0 THEN SaltLen ELSE pieces[n].size + (IF Zero(pieces[n]) THEN pieces[n].pad ELSE 0)

\* The pieces behind one another, and where each begins.
Laid(pieces, plain, start) ==
  /\ Len(plain) = start[Len(pieces) + 1]
  /\ \A n \in 0 .. Len(pieces) :
       /\ start[n + 1] = start[n] + Extent(pieces, n) /\ start[n + 1] <= Len(plain)
       /\ \A k \in 1 .. Extent(pieces, n) : plain[start[n] + k] = Byte(n, k)

Stream(plain, start) == start[0] = 0 /\ IF sealed = << >> THEN plain = << >> ELSE Laid(sealed, plain, start)

\* s is what the stream has behind its first i bytes.
Holds(s, plain, i) == i + Len(s) <= Len(plain) /\ \A k \in 1 .. Len(s) : s[k] = plain[i + k]

\* In `frames' are the places of the wire where a record of the disguise begins, each with
\* the bytes of the stream before it.  They lead to the end.
Framed(full, frames, plain, end) ==
  \A s, i \in Nat : << s, i >> \in frames =>
    /\ s \in 1 .. Len(full) + 1 /\ i <= end
    /\ \/ s = Len(full) + 1 /\ i = end
       \/ \E n \in Nat :
            /\ << s + RecordLen + n, i + n >> \in frames
            /\ full[s + RecordLen - 1] = Length(n)
            /\ \A k \in 1 .. n : full[s + RecordLen - 1 + k] = plain[i + k]

\* Before the first of them are the hello, or what is left of a record, and the name.
Lead(full, frames, plain, i) ==
  LET h == IF received THEN 0 ELSE HelloLen
      name == IF server /\ ~nameSkipped THEN NameLen + NameTail ELSE 0
  IN  \E n \in Nat :
        /\ << h + n + name + 1, i + n >> \in frames
        /\ IF received THEN remaining = n ELSE full[HelloLen] = Length(n)
        /\ \A k \in 1 .. n : full[h + k] = plain[i + k]
        /\ server /\ ~nameSkipped => full[h + n + NameLen] = Length(NameTail)

\* The longest part of the terminator that what is read of the head ends with.
Matching(head, k) == Begun(head, k, matched) /\ \A j \in 1 .. Len(Terminator) : Begun(head, k, j) => j <= matched

CarriesPlain(full, plain, i, end) ==
  /\ mode = "none" \/ (mode = "http" /\ received /\ sent)
  /\ Holds(full, plain, i) /\ i + Len(full) = end

CarriesNothing(full, i, end) ==
  mode # "none" /\ ~received /\ ~sent /\ ~nameSkipped /\ matched = 0 /\ full = << >> /\ i = end

CarriesHead(full, plain, i, end) ==
  /\ mode = "http" /\ ~received /\ sent
  /\ \E head \in Heads, tail \in Seq(Token), k \in Nat :
       /\ k < Len(head) /\ full = SubSeq(head, k + 1, Len(head)) \o tail /\ Matching(head, k)
       /\ Holds(tail, plain, i) /\ i + Len(tail) = end

CarriesRecords(full, plain, i, end) ==
  /\ mode = "tls" /\ sent /\ (~received => ~nameSkipped)
  /\ \E frames : Framed(full, frames, plain, end) /\ Lead(full, frames, plain, i)

\* The wire, with what a cut has taken of it.
Under(full) == Len(wire) <= Len(full) /\ (\A k \in 1 .. Len(wire) : wire[k] = full[k]) /\ (~cut => full = wire)

\* The bytes behind the first i and up to the end are on the wire, if it has not been cut.
Wired(plain, i, end) ==
  \E full \in Seq(Token) :
    /\ Under(full)
    /\ \/ CarriesPlain(full, plain, i, end)
       \/ CarriesNothing(full, i, end)
       \/ CarriesHead(full, plain, i, end)
       \/ CarriesRecords(full, plain, i, end)

Ended(err) == err \in {"eof", "unexpected"}

\* How much of the stream is before what ReadFull has read.
Base(start) ==
  IF key = "none" THEN 0 ELSE IF stage = "discard" THEN start[nonce - 1] + HeadLen ELSE start[nonce]

\* Before the front is what has been read of the wire, behind the end what is to be written.
PlacedBy(plain, start, base, front, end) ==
  /\ Stream(plain, start) /\ base = Base(start)
  /\ Holds(got, plain, base) /\ Holds(inbuf, plain, base + Len(got))
  /\ Holds(result.data, plain, base + Len(got) + Len(inbuf))
  /\ front = base + Len(got) + Len(inbuf) + Len(result.data)
  /\ Holds(out, plain, end) /\ end + Len(out) = Len(plain)
  /\ IF Ended(result.err) \/ Ended(pending)
     THEN /\ closed
          /\ ~cut => /\ "unexpected" \notin {result.err, pending} /\ front = Len(plain)
                     /\ Ended(result.err) => result.data = << >>
     ELSE Wired(plain, front, end)

Placed ==
  \E plain \in Seq(Token), start \in [Nat -> Nat], base \in Nat, front \in Nat, end \in Nat :
    PlacedBy(plain, start, base, front, end)

\* What ReadFull is to read.
Amount ==
  IF stage = "none" THEN 0
  ELSE IF stage = "salt" THEN SaltLen
  ELSE IF stage = "head" THEN HeadLen
  ELSE IF stage = "body" THEN header.pad + header.len + TagLen
  ELSE header.pad

\* What a record in progress needs is what the pieces around `nonce' say.
Stages ==
  /\ nonce <= Len(sealed) + 1
  /\ key = "none" => nonce = 1 /\ stage \in {"none", "salt"}
  /\ key # "none" => key = "right" /\ sealed # << >> /\ stage # "salt"
  /\ stage \in {"none", "head"} => nonce = 1 \/ ~sealed[nonce - 1].head \/ sealed[nonce - 1].len = 0
  /\ stage \in {"pad", "body"} =>
       /\ nonce > 1 /\ sealed[nonce - 1].head /\ sealed[nonce - 1].len > 0
       /\ header.pad = sealed[nonce - 1].pad /\ header.len = sealed[nonce - 1].len
  /\ stage = "discard" => nonce > 1 /\ Zero(sealed[nonce - 1]) /\ header.pad = sealed[nonce - 1].pad
  /\ stage \in {"pad", "discard"} => header.pad > 0
  /\ at = "idle" <=> stage = "none"
  /\ Len(got) + need = Amount
  /\ want = 0 => result = NoResult
  /\ want # 0 => need > 0 /\ (version # 4 => want = need) /\ (version = 4 => inbuf = << >> /\ pending = "ok")
  /\ version # 4 => inbuf = << >> /\ pending = "ok" /\ Len(result.data) <= want

\* What is sealed of a record, and what a client that reuses its tunnel has seen.
Shapes ==
  \A n \in 1 .. Len(sealed) :
    LET piece == sealed[n] IN
    /\ piece.size = IF piece.head THEN HeadLen ELSE piece.pad + piece.len + TagLen
    /\ Zero(piece) /\ version # 6 => piece.pad = 0
    /\ ~piece.head => n > 1 /\ sealed[n - 1].head /\ sealed[n - 1].len > 0 /\ sealed[n - 1].pad = piece.pad
    /\ Zero(piece) /\ version = 4 /\ n < Len(sealed) => piece.last <= Len(delivered)

PlaceTypes ==
  /\ mode \in {"none", "http", "tls"} /\ server = (version = 5)
  /\ {sent, closed, cut, received, nameSkipped} \subseteq BOOLEAN
  /\ wire \in Seq(Token) /\ out \in Seq(Token) /\ got \in Seq(Token) /\ inbuf \in Seq(Token)
  /\ remaining \in Nat /\ matched \in 0 .. 3 /\ want \in Nat /\ need \in Nat /\ timeouts \in Nat
  /\ result \in [data : Seq(Token), err : {"none", "ok", "timeout", "eof", "unexpected"}]
  /\ result.err = "none" => result = NoResult
  /\ pending \in {"ok", "timeout", "eof", "unexpected"}
  /\ at \in {"idle", "reading", "eof", "error"}
  /\ stage \in {"none", "salt", "head", "pad", "body", "discard"}
  /\ key \in {"none", "right", "wrong"}
  /\ cut => closed
  /\ closed => out = << >>

\* No zero chunk is missed.
Exact == \A i \in 1 .. Len(delivered) : delivered[i] = written[i]

InPlace ==
  /\ PlaceTypes /\ ~mistaken /\ Shapes
  /\ at \in {"idle", "reading"} => Stages /\ Placed /\ Exact
  /\ at \in {"eof", "error"} => closed /\ want = 0 /\ (~cut => at = "eof" /\ delivered = written)

\* A reader is in its place until a deadline has put it out of it.
PlaceInv == lost \/ InPlace

-----------------------------------------------------------------------------
\* Parts of sequences of bytes.

LEMMA Part ==
  ASSUME NEW s \in Seq(Token), NEW m \in Nat, NEW n \in Nat, m <= n, n <= Len(s)
  PROVE  /\ SubSeq(s, m + 1, n) \in Seq(Token) /\ Len(SubSeq(s, m + 1, n)) = n - m
         /\ \A k \in 1 .. n - m : SubSeq(s, m + 1, n)[k] = s[m + k]
<1>1. \A i \in m + 1 .. n : s[i] \in Token
  <2>1. Len(s) \in Nat
    OBVIOUS
  <2>2. \A i \in m + 1 .. n : i \in 1 .. Len(s)
    BY <2>1
  <2> QED BY <2>2, ElementOfSeq
<1>2. m + 1 \in Int /\ n \in Int
  OBVIOUS
<1>3. /\ SubSeq(s, m + 1, n) \in Seq(Token)
      /\ Len(SubSeq(s, m + 1, n)) = IF m + 1 <= n THEN n - (m + 1) + 1 ELSE 0
      /\ \A i \in 1 .. n - (m + 1) + 1 : SubSeq(s, m + 1, n)[i] = s[(m + 1) + i - 1]
  BY <1>1, <1>2, SubSeqProperties
<1>4. n - (m + 1) + 1 = n - m /\ \A k \in 1 .. n - m : (m + 1) + k - 1 = m + k
  OBVIOUS
<1> DEFINE part == SubSeq(s, m + 1, n)
<1> HIDE DEF part
<1>5. /\ part \in Seq(Token)
      /\ Len(part) = IF m + 1 <= n THEN n - (m + 1) + 1 ELSE 0
      /\ \A i \in 1 .. n - (m + 1) + 1 : part[i] = s[(m + 1) + i - 1]
  BY <1>3 DEF part
<1>6. part \in Seq(Token) /\ Len(part) = n - m /\ \A k \in 1 .. n - m : part[k] = s[m + k]
  BY <1>4, <1>5
<1> QED BY <1>6 DEF part

LEMMA Joined ==
  ASSUME NEW s \in Seq(Token), NEW t \in Seq(Token)
  PROVE  /\ s \o t \in Seq(Token) /\ Len(s \o t) = Len(s) + Len(t)
         /\ Len(s) \in Nat /\ Len(t) \in Nat
         /\ \A k \in 1 .. Len(s) : (s \o t)[k] = s[k]
         /\ \A k \in 1 .. Len(t) : (s \o t)[Len(s) + k] = t[k]
<1> DEFINE u == s \o t
<1>1. /\ u \in Seq(Token) /\ Len(u) = Len(s) + Len(t)
      /\ \A i \in 1 .. Len(s) + Len(t) : u[i] = IF i <= Len(s) THEN s[i] ELSE t[i - Len(s)]
  BY ConcatProperties
<1>2. Len(s) \in Nat /\ Len(t) \in Nat
  OBVIOUS
<1> HIDE DEF u
<1>3. \A k \in 1 .. Len(s) : u[k] = s[k]
  BY <1>1, <1>2
<1>4. ASSUME NEW k \in 1 .. Len(t) PROVE u[Len(s) + k] = t[k]
  <2>1. Len(s) + k \in 1 .. Len(s) + Len(t) /\ ~(Len(s) + k <= Len(s)) /\ (Len(s) + k) - Len(s) = k
    BY <1>2
  <2> QED BY <1>1, <2>1
<1> QED BY <1>1, <1>2, <1>3, <1>4 DEF u

LEMMA LeastElement ==
  ASSUME NEW T, T \subseteq Nat, T # {}
  PROVE  \E n \in T : \A m \in T : n <= m
<1> DEFINE Below == {p \in Nat \X Nat : p[1] < p[2]}
<1>1. Below = OpToRel(<, Nat)
  BY DEF OpToRel
<1>2. IsWellFoundedOn(Below, Nat)
  BY <1>1, NatLessThanWellFounded, Zenon
<1> HIDE DEF Below
<1>3. PICK n \in T : \A m \in T : ~(<<m, n>> \in Below)
  BY <1>2, WFMin
<1>4. ASSUME NEW m \in T PROVE n <= m
  <2>1. m \in Nat /\ n \in Nat /\ ~(<<m, n>> \in Below)
    BY <1>3
  <2>2. m < n => << m, n >> \in Below
    BY <2>1 DEF Below
  <2> QED BY <2>1, <2>2
<1> QED BY <1>4

\* What holds of 1, and of each number with the one before, holds up to n.
LEMMA Climb ==
  ASSUME NEW n \in Nat, NEW P, n > 0 => 1 \in P, \A i \in 2 .. n : i - 1 \in P => i \in P
  PROVE  1 .. n \subseteq P
<1> SUFFICES ASSUME ~(1 .. n \subseteq P) PROVE FALSE
  OBVIOUS
<1> DEFINE T == {i \in 1 .. n : i \notin P}
<1>1. T \subseteq Nat /\ T # {}
  OBVIOUS
<1>2. PICK m \in T : \A i \in T : m <= i
  BY <1>1, LeastElement, Zenon
<1>3. m \in 2 .. n /\ m - 1 \in 1 .. n /\ ~(m <= m - 1)
  BY <1>2
<1>4. m - 1 \in P
  BY <1>2, <1>3
<1> QED BY <1>2, <1>3, <1>4

\* What FlattenSeq has flattened, part by part.
Flattens(f, seqs) ==
  /\ DOMAIN f = 1 .. Len(seqs)
  /\ \A i \in 1 .. Len(seqs) : f[i] = IF i = 1 THEN seqs[i] ELSE f[i - 1] \o seqs[i]

LEMMA FlattenSteps ==
  ASSUME NEW n \in Nat, NEW seqs, Len(seqs) = n
  PROVE  \E f : Flattens(f, seqs) /\ (n > 0 => FlattenSeq(seqs) = f[n])
<1> DEFINE Step(f) == [i \in 1 .. n |-> IF i = 1 THEN seqs[i] ELSE f[i - 1] \o seqs[i]]
           P == {k \in Nat : k <= n => \E f : DOMAIN f = 1 .. k /\ \A i \in 1 .. k :
                                f[i] = IF i = 1 THEN seqs[i] ELSE f[i - 1] \o seqs[i]}
<1>1. 1 \in P
  <2> DEFINE f == [i \in 1 .. 1 |-> seqs[i]]
  <2>1. DOMAIN f = 1 .. 1 /\ \A i \in 1 .. 1 : f[i] = IF i = 1 THEN seqs[i] ELSE f[i - 1] \o seqs[i]
    OBVIOUS
  <2> QED BY <2>1
<1>2. ASSUME NEW k \in 2 .. n, k - 1 \in P
      PROVE  k \in P
  <2>1. PICK f : DOMAIN f = 1 .. k - 1 /\ \A i \in 1 .. k - 1 : f[i] = IF i = 1 THEN seqs[i] ELSE f[i - 1] \o seqs[i]
    <3>1. k - 1 <= n
      OBVIOUS
    <3> QED BY <1>2, <3>1
  <2> DEFINE g == [i \in 1 .. k |-> IF i < k THEN f[i] ELSE f[k - 1] \o seqs[k]]
  <2>2. DOMAIN g = 1 .. k /\ \A i \in 1 .. k : g[i] = IF i < k THEN f[i] ELSE f[k - 1] \o seqs[k]
    OBVIOUS
  <2> HIDE DEF g
  <2>3. ASSUME NEW i \in 1 .. k PROVE g[i] = IF i = 1 THEN seqs[i] ELSE g[i - 1] \o seqs[i]
    <3>1. CASE i < k
      <4>1. i \in 1 .. k - 1 /\ (i # 1 => i - 1 \in 1 .. k /\ i - 1 < k)
        BY <3>1
      <4> QED BY <2>1, <2>2, <3>1, <4>1
    <3>2. CASE i = k
      <4>1. i # 1 /\ i - 1 \in 1 .. k /\ i - 1 < k /\ ~(i < k)
        BY <3>2
      <4>2. g[i] = f[k - 1] \o seqs[k] /\ g[i - 1] = f[k - 1]
        BY <2>2, <3>2, <4>1
      <4> QED BY <3>2, <4>1, <4>2
    <3> QED BY <3>1, <3>2
  <2>4. \E e : DOMAIN e = 1 .. k /\ \A i \in 1 .. k : e[i] = IF i = 1 THEN seqs[i] ELSE e[i - 1] \o seqs[i]
    BY <2>2, <2>3, Zenon
  <2>5. k \in Nat
    OBVIOUS
  <2> QED BY <2>4, <2>5, Zenon
<1> HIDE DEF P
<1>3. 1 .. n \subseteq P
  BY <1>1, <1>2, Climb
<1> USE DEF P
<1>4. CASE n = 0
  <2> DEFINE f == [i \in 1 .. 0 |-> seqs[i]]
  <2>1. DOMAIN f = 1 .. 0
    OBVIOUS
  <2> HIDE DEF f
  <2>2. Flattens(f, seqs)
    BY <1>4, <2>1 DEF Flattens
  <2> QED BY <1>4, <2>2
<1>5. CASE n > 0
  <2>1. n \in P
    BY <1>3, <1>5
  <2>2. PICK f : DOMAIN f = 1 .. n /\ \A i \in 1 .. n : f[i] = IF i = 1 THEN seqs[i] ELSE f[i - 1] \o seqs[i]
    BY <2>1
  <2> DEFINE h == [i \in 1 .. n |-> f[i]]
             flatten == CHOOSE e : e = Step(e)
  <2>3. \A i \in 1 .. n : i # 1 => i - 1 \in 1 .. n
    OBVIOUS
  <2>4. h = Step(h)
    BY <2>2, <2>3
  <2>5. flatten = Step(flatten)
    BY <2>4, Zenon
  <2>6. Len(seqs) # 0
    BY <1>5
  <2>7. FlattenSeq(seqs) = flatten[n]
    BY <2>6 DEF FlattenSeq
  <2> HIDE DEF flatten
  <2>8. DOMAIN flatten = 1 .. n /\ \A i \in 1 .. n : flatten[i] = IF i = 1 THEN seqs[i] ELSE flatten[i - 1] \o seqs[i]
    BY <2>5
  <2>9. Flattens(flatten, seqs)
    BY <2>8 DEF Flattens
  <2> QED BY <2>7, <2>9
<1> QED BY <1>4, <1>5

-----------------------------------------------------------------------------
\* The records of the TLS disguise.

LEMMA HeaderIs ==
  ASSUME NEW n \in Nat \ {0}, NEW length \in Nat
  PROVE  Header(n, length) \in Seq(Token) /\ Len(Header(n, length)) = n /\ Header(n, length)[n] = Length(length)
<1> DEFINE before == [i \in 1 .. n - 1 |-> Filler]
           last == << Length(length) >>
<1>1. Filler \in Token /\ Length(length) \in Token
  BY DEF Filler, Length, Token
<1>2. before \in [1 .. n - 1 -> Token]
  BY <1>1
<1>3. n - 1 \in Nat
  OBVIOUS
<1>4. before \in Seq(Token)
  BY <1>2, <1>3, SeqDef
<1>5. Len(before) = n - 1
  BY <1>2, <1>3, <1>4, LenProperties
<1>6. last \in Seq(Token) /\ Len(last) = 1 /\ last[1] = Length(length)
  BY <1>1
<1>7. Header(n, length) = before \o last
  BY DEF Header
<1> HIDE DEF before, last
<1>8. /\ before \o last \in Seq(Token) /\ Len(before \o last) = Len(before) + Len(last)
      /\ \A k \in 1 .. Len(last) : (before \o last)[Len(before) + k] = last[k]
  BY <1>4, <1>6, Joined
<1>9. Len(before) + Len(last) = n /\ Len(before) + 1 = n /\ 1 \in 1 .. Len(last)
  BY <1>5, <1>6
<1>10. (before \o last)[Len(before) + 1] = last[1]
  BY <1>8, <1>9
<1> QED BY <1>6, <1>7, <1>8, <1>9, <1>10

\* The frames behind the first d bytes, and with those of what is written behind m bytes.
Later(frames, d) == {g \in Nat \X Nat : g[1] > 0 /\ << g[1] + d, g[2] >> \in frames}
Both(frames, m, others) == {g \in Nat \X Nat : g \in frames \/ (g[1] > m /\ << g[1] - m, g[2] >> \in others)}

\* A reader that has taken d bytes goes on with the records behind them.
LEMMA FramesLater ==
  ASSUME NEW full \in Seq(Token), NEW plain, NEW end \in Nat, NEW frames,
         NEW d \in Nat, d <= Len(full), Framed(full, frames, plain, end)
  PROVE  Framed(SubSeq(full, d + 1, Len(full)), Later(frames, d), plain, end)
<1> DEFINE later == Later(frames, d)
           rest == SubSeq(full, d + 1, Len(full))
<1>1. Len(full) \in Nat
  OBVIOUS
<1>2. rest \in Seq(Token) /\ Len(rest) = Len(full) - d /\ \A k \in 1 .. Len(full) - d : rest[k] = full[d + k]
  BY <1>1, Part
<1>3. \A s, i \in Nat : << s, i >> \in later <=> s > 0 /\ << s + d, i >> \in frames
  BY DEF Later
<1> HIDE DEF later, rest
<1>5. ASSUME NEW s \in Nat, NEW i \in Nat, << s, i >> \in later
      PROVE  /\ s \in 1 .. Len(rest) + 1 /\ i <= end
             /\ \/ s = Len(rest) + 1 /\ i = end
                \/ \E n \in Nat :
                     /\ << s + RecordLen + n, i + n >> \in later
                     /\ rest[s + RecordLen - 1] = Length(n)
                     /\ \A k \in 1 .. n : rest[s + RecordLen - 1 + k] = plain[i + k]
  <2>1. s > 0 /\ s + d \in Nat /\ << s + d, i >> \in frames
    BY <1>3, <1>5
  <2>2. /\ s + d \in 1 .. Len(full) + 1 /\ i <= end
        /\ \/ s + d = Len(full) + 1 /\ i = end
           \/ \E n \in Nat :
                /\ << (s + d) + RecordLen + n, i + n >> \in frames
                /\ full[(s + d) + RecordLen - 1] = Length(n)
                /\ \A k \in 1 .. n : full[(s + d) + RecordLen - 1 + k] = plain[i + k]
    BY <2>1 DEF Framed
  <2>3. s \in 1 .. Len(rest) + 1
    BY <1>1, <1>2, <2>1, <2>2
  <2>4. CASE s + d = Len(full) + 1 /\ i = end
    BY <1>1, <1>2, <2>2, <2>3, <2>4
  <2>5. ASSUME NEW n \in Nat,
               << (s + d) + RecordLen + n, i + n >> \in frames,
               full[(s + d) + RecordLen - 1] = Length(n),
               \A k \in 1 .. n : full[(s + d) + RecordLen - 1 + k] = plain[i + k]
        PROVE  /\ << s + RecordLen + n, i + n >> \in later
               /\ rest[s + RecordLen - 1] = Length(n)
               /\ \A k \in 1 .. n : rest[s + RecordLen - 1 + k] = plain[i + k]
    <3>1. RecordLen \in Nat \ {0, 1}
      BY ObfsAssumption
    <3>2. (s + d) + RecordLen + n \in Nat /\ i + n \in Nat
      BY <3>1
    <3>3. (s + d) + RecordLen + n <= Len(full) + 1
      BY <2>5, <3>2 DEF Framed
    <3>4. s + RecordLen + n \in Nat /\ s + RecordLen + n > 0 /\ (s + RecordLen + n) + d = (s + d) + RecordLen + n
      BY <2>1, <3>1
    <3>5. << s + RecordLen + n, i + n >> \in later
      BY <1>3, <2>5, <3>2, <3>4
    <3>6. s + RecordLen - 1 \in 1 .. Len(full) - d /\ d + (s + RecordLen - 1) = (s + d) + RecordLen - 1
      BY <1>1, <2>1, <3>1, <3>3
    <3>7. rest[s + RecordLen - 1] = Length(n)
      BY <1>2, <2>5, <3>6
    <3>8. ASSUME NEW k \in 1 .. n PROVE rest[s + RecordLen - 1 + k] = plain[i + k]
      <4>1. s + RecordLen - 1 + k \in 1 .. Len(full) - d /\ d + (s + RecordLen - 1 + k) = (s + d) + RecordLen - 1 + k
        BY <1>1, <2>1, <3>1, <3>3
      <4> QED BY <1>2, <2>5, <4>1
    <3> QED BY <3>5, <3>7, <3>8
  <2> QED BY <2>2, <2>3, <2>4, <2>5
<1>6. Framed(rest, later, plain, end)
  BY <1>5 DEF Framed
<1> QED BY <1>6 DEF rest, later

\* What is written behind them is led to.
LEMMA FramesJoin ==
  ASSUME NEW full \in Seq(Token), NEW more \in Seq(Token), NEW plain,
         NEW middle \in Nat, NEW end \in Nat, NEW frames, NEW others, middle <= end,
         Framed(full, frames, plain, middle), Framed(more, others, plain, end), << 1, middle >> \in others
  PROVE  Framed(full \o more, Both(frames, Len(full), others), plain, end)
<1> DEFINE m == Len(full)
           both == full \o more
           all == Both(frames, m, others)
<1>1. /\ both \in Seq(Token) /\ Len(both) = m + Len(more) /\ m \in Nat /\ Len(more) \in Nat
      /\ \A k \in 1 .. m : both[k] = full[k]
      /\ \A k \in 1 .. Len(more) : both[m + k] = more[k]
  BY Joined
<1>2. \A s, i \in Nat : << s, i >> \in all <=> << s, i >> \in frames \/ (s > m /\ << s - m, i >> \in others)
  BY DEF Both
<1>4. RecordLen \in Nat \ {0, 1}
  BY ObfsAssumption
<1> HIDE DEF m, both, all
<1> DEFINE Good(s, i) ==
             /\ s \in 1 .. Len(both) + 1 /\ i <= end
             /\ \/ s = Len(both) + 1 /\ i = end
                \/ \E n \in Nat :
                     /\ << s + RecordLen + n, i + n >> \in all
                     /\ both[s + RecordLen - 1] = Length(n)
                     /\ \A k \in 1 .. n : both[s + RecordLen - 1 + k] = plain[i + k]
<1>5. ASSUME NEW s \in Nat, NEW i \in Nat, s > m, << s - m, i >> \in others
      PROVE  Good(s, i)
  <2>0. s \in Nat /\ m \in Nat /\ s > m /\ RecordLen \in Nat /\ RecordLen > 1 /\ Len(more) \in Nat
    BY <1>1, <1>4, <1>5
  <2>1. s - m \in Nat
    BY <2>0
  <2>2. /\ s - m \in 1 .. Len(more) + 1 /\ i <= end
        /\ \/ s - m = Len(more) + 1 /\ i = end
           \/ \E n \in Nat :
                /\ << (s - m) + RecordLen + n, i + n >> \in others
                /\ more[(s - m) + RecordLen - 1] = Length(n)
                /\ \A k \in 1 .. n : more[(s - m) + RecordLen - 1 + k] = plain[i + k]
    BY <1>5, <2>1 DEF Framed
  <2>3. s \in 1 .. Len(both) + 1
    BY <1>1, <1>5, <2>2
  <2>4. CASE s - m = Len(more) + 1 /\ i = end
    BY <1>1, <2>2, <2>3, <2>4
  <2>5. ASSUME NEW n \in Nat,
               << (s - m) + RecordLen + n, i + n >> \in others,
               more[(s - m) + RecordLen - 1] = Length(n),
               \A k \in 1 .. n : more[(s - m) + RecordLen - 1 + k] = plain[i + k]
        PROVE  /\ << s + RecordLen + n, i + n >> \in all
               /\ both[s + RecordLen - 1] = Length(n)
               /\ \A k \in 1 .. n : both[s + RecordLen - 1 + k] = plain[i + k]
    <3>1. (s - m) + RecordLen + n \in Nat /\ i + n \in Nat
      BY <1>4, <2>1
    <3>2. (s - m) + RecordLen + n <= Len(more) + 1
      BY <2>5, <3>1 DEF Framed
    <3>3. s + RecordLen + n \in Nat /\ s + RecordLen + n > m /\ (s + RecordLen + n) - m = (s - m) + RecordLen + n
      BY <2>0
    <3>4. << s + RecordLen + n, i + n >> \in all
      BY <1>2, <2>5, <3>1, <3>3
    <3>5. (s - m) + RecordLen - 1 \in 1 .. Len(more) /\ m + ((s - m) + RecordLen - 1) = s + RecordLen - 1
      BY <2>0, <3>2
    <3>6. both[s + RecordLen - 1] = Length(n)
      BY <1>1, <2>5, <3>5
    <3>7. ASSUME NEW k \in 1 .. n PROVE both[s + RecordLen - 1 + k] = plain[i + k]
      <4>1. (s - m) + RecordLen - 1 + k \in 1 .. Len(more) /\ m + ((s - m) + RecordLen - 1 + k) = s + RecordLen - 1 + k
        BY <2>0, <3>2
      <4> QED BY <1>1, <2>5, <4>1
    <3> QED BY <3>4, <3>6, <3>7
  <2> QED BY <2>2, <2>3, <2>4, <2>5
<1>6. ASSUME NEW s \in Nat, NEW i \in Nat, << s, i >> \in frames
      PROVE  Good(s, i)
  <2>1. /\ s \in 1 .. m + 1 /\ i <= middle
        /\ \/ s = m + 1 /\ i = middle
           \/ \E n \in Nat :
                /\ << s + RecordLen + n, i + n >> \in frames
                /\ full[s + RecordLen - 1] = Length(n)
                /\ \A k \in 1 .. n : full[s + RecordLen - 1 + k] = plain[i + k]
    BY <1>6 DEF Framed, m
  <2>2. CASE s = m + 1 /\ i = middle
    <3>1. s > m /\ s - m = 1
      BY <1>1, <2>2
    <3> QED BY <1>5, <2>2, <3>1
  <2>3. ASSUME NEW n \in Nat,
               << s + RecordLen + n, i + n >> \in frames,
               full[s + RecordLen - 1] = Length(n),
               \A k \in 1 .. n : full[s + RecordLen - 1 + k] = plain[i + k]
        PROVE  /\ << s + RecordLen + n, i + n >> \in all
               /\ both[s + RecordLen - 1] = Length(n)
               /\ \A k \in 1 .. n : both[s + RecordLen - 1 + k] = plain[i + k]
    <3>1. s + RecordLen + n \in Nat /\ i + n \in Nat
      BY <1>4
    <3>2. s + RecordLen + n <= m + 1
      BY <2>3, <3>1 DEF Framed, m
    <3>3. << s + RecordLen + n, i + n >> \in all
      BY <1>2, <2>3, <3>1
    <3>4. s + RecordLen - 1 \in 1 .. m /\ \A k \in 1 .. n : s + RecordLen - 1 + k \in 1 .. m
      BY <1>1, <1>4, <2>1, <3>2
    <3>5. both[s + RecordLen - 1] = Length(n) /\ \A k \in 1 .. n : both[s + RecordLen - 1 + k] = plain[i + k]
      BY <1>1, <2>3, <3>4
    <3> QED BY <3>3, <3>5
  <2>4. s \in 1 .. Len(both) + 1 /\ i <= end
    BY <1>1, <2>1
  <2> QED BY <2>1, <2>2, <2>3, <2>4
<1>7. ASSUME NEW s \in Nat, NEW i \in Nat, << s, i >> \in all
      PROVE  Good(s, i)
  <2> HIDE DEF Good
  <2> QED BY <1>2, <1>5, <1>6, <1>7
<1>8. Framed(both, all, plain, end)
  BY <1>7 DEF Framed
<1> QED BY <1>8 DEF both, all, m

LEMMA OneFrame ==
  ASSUME NEW p \in Seq(Token), NEW plain, NEW i \in Nat, NEW end \in Nat, end = i + Len(p),
         \A k \in 1 .. Len(p) : p[k] = plain[i + k]
  PROVE  /\ Header(RecordLen, Len(p)) \o p \in Seq(Token)
         /\ \E frames :
              Framed(Header(RecordLen, Len(p)) \o p, frames, plain, end) /\ << 1, i >> \in frames
<1> DEFINE n == Len(p)
           head == Header(RecordLen, n)
           full == head \o p
           frames == {<< 1, i >>, << RecordLen + n + 1, end >>}
<1>1. RecordLen \in Nat \ {0, 1} /\ n \in Nat
  BY ObfsAssumption
<1>2. head \in Seq(Token) /\ Len(head) = RecordLen /\ head[RecordLen] = Length(n)
  BY <1>1, HeaderIs
<1>3. n = Len(p) /\ (\A k \in 1 .. n : p[k] = plain[i + k]) /\ end = i + n
  OBVIOUS
<1>4. frames = {<< 1, i >>, << RecordLen + n + 1, end >>}
  OBVIOUS
<1> HIDE DEF n, head, frames
<1>5. /\ full \in Seq(Token) /\ Len(full) = RecordLen + n
      /\ \A k \in 1 .. RecordLen : full[k] = head[k]
      /\ \A k \in 1 .. n : full[RecordLen + k] = p[k]
  BY <1>2, <1>3, Joined
<1> HIDE DEF full
<1>6. full[1 + RecordLen - 1] = Length(n) /\ \A k \in 1 .. n : full[1 + RecordLen - 1 + k] = plain[i + k]
  <2>1. 1 + RecordLen - 1 = RecordLen /\ RecordLen \in 1 .. RecordLen
    BY <1>1
  <2> QED BY <1>2, <1>3, <1>5, <2>1
<1>7. 1 + RecordLen + n = RecordLen + n + 1 /\ << RecordLen + n + 1, end >> \in frames /\ 1 \in 1 .. Len(full) + 1
      /\ RecordLen + n + 1 = Len(full) + 1 /\ i <= end /\ RecordLen + n + 1 \in 1 .. Len(full) + 1
      /\ end <= end /\ i + n = end
  BY <1>1, <1>3, <1>4, <1>5
<1>8. \A s, j \in Nat : << s, j >> \in frames => (s = 1 /\ j = i) \/ (s = RecordLen + n + 1 /\ j = end)
  BY <1>4
<1>9. \E m \in Nat :
        /\ << 1 + RecordLen + m, i + m >> \in frames
        /\ full[1 + RecordLen - 1] = Length(m)
        /\ \A k \in 1 .. m : full[1 + RecordLen - 1 + k] = plain[i + k]
  BY <1>1, <1>6, <1>7
<1>10. Framed(full, frames, plain, end)
  <2>1. ASSUME NEW s \in Nat, NEW j \in Nat, << s, j >> \in frames
        PROVE  /\ s \in 1 .. Len(full) + 1 /\ j <= end
               /\ \/ s = Len(full) + 1 /\ j = end
                  \/ \E m \in Nat :
                       /\ << s + RecordLen + m, j + m >> \in frames
                       /\ full[s + RecordLen - 1] = Length(m)
                       /\ \A k \in 1 .. m : full[s + RecordLen - 1 + k] = plain[j + k]
    <3>1. CASE s = 1 /\ j = i
      BY <1>7, <1>9, <3>1
    <3>2. CASE s = RecordLen + n + 1 /\ j = end
      BY <1>7, <3>2
    <3> QED BY <1>8, <2>1, <3>1, <3>2
  <2> QED BY <2>1 DEF Framed
<1>11. << 1, i >> \in frames
  BY <1>1, <1>4
<1> QED BY <1>5, <1>10, <1>11 DEF full, head, n

LEMMA Quotient ==
  ASSUME NEW a \in Nat, NEW b \in Nat \ {0}
  PROVE  a \div b \in Nat /\ (a \div b) * b <= a /\ a < (a \div b) * b + b
  OBVIOUS

LEMMA Multiples ==
  ASSUME NEW m \in Nat, NEW i \in Nat, NEW j \in Nat
  PROVE  /\ i * m \in Nat /\ (i + 1) * m = i * m + m
         /\ i <= j => i * m <= j * m
<1>1. i * m \in Nat /\ (i + 1) * m = i * m + m
  OBVIOUS
<1>2. ASSUME i <= j PROVE i * m <= j * m
  <2>1. PICK d \in Nat : j = i + d
    <3>1. j - i \in Nat /\ j = i + (j - i)
      BY <1>2
    <3> QED BY <3>1
  <2>2. j * m = i * m + d * m /\ d * m \in Nat
    BY <2>1
  <2> QED BY <1>1, <2>2
<1> QED BY <1>1, <1>2

\* What a Write puts on the wire is read as what is written.
LEMMA RecordsFrame ==
  ASSUME NEW p \in Seq(Token), NEW plain, NEW i \in Nat, \A k \in 1 .. Len(p) : p[k] = plain[i + k]
  PROVE  /\ appendRecords(p) \in Seq(Token)
         /\ \E frames :
              Framed(appendRecords(p), frames, plain, i + Len(p)) /\ << 1, i >> \in frames
<1> DEFINE n == Len(p)
           M == RecordMax
           count == (Len(p) + RecordMax - 1) \div RecordMax
           upto(j) == IF j < count THEN j * RecordMax ELSE Len(p)
           payload(j) == SubSeq(p, (j - 1) * RecordMax + 1, upto(j))
           record(j) == Header(RecordLen, Len(payload(j))) \o payload(j)
           seqs == [j \in 1 .. count |-> record(j)]
           Frame(w, end) == \E frames : Framed(w, frames, plain, end) /\ << 1, i >> \in frames
<1>1. n \in Nat /\ M \in Nat \ {0} /\ n + M - 1 \in Nat
  BY ObfsAssumption
<1>2. count \in Nat /\ count * M <= n + M - 1 /\ n + M - 1 < count * M + M
  BY <1>1, Quotient
<1>3. appendRecords(p) = FlattenSeq(seqs)
  BY DEF appendRecords
<1> HIDE DEF count
<1>4. ASSUME NEW j \in 1 .. count
      PROVE  /\ (j - 1) * M \in Nat /\ upto(j) \in Nat /\ (j - 1) * M <= upto(j) /\ upto(j) <= n
             /\ j > 1 => (j - 1) * M = upto(j - 1)
  <2>1. j - 1 \in Nat /\ count - 1 \in Nat /\ j - 1 <= count - 1 /\ (count - 1) + 1 = count
    BY <1>2
  <2>2. (j - 1) * M \in Nat /\ ((j - 1) + 1) * M = (j - 1) * M + M /\ (j - 1) * M <= (count - 1) * M
    BY <1>1, <2>1, Multiples
  <2>3. (count - 1) * M \in Nat /\ ((count - 1) + 1) * M = (count - 1) * M + M
    BY <1>1, <2>1, Multiples
  <2>4. (count - 1) * M <= n
    BY <1>1, <1>2, <2>1, <2>3
  <2>5. j < count => j * M \in Nat /\ (j - 1) * M <= j * M /\ j * M <= n
    <3> SUFFICES ASSUME j < count PROVE j * M \in Nat /\ (j - 1) * M <= j * M /\ j * M <= n
      OBVIOUS
    <3>1. j <= count - 1 /\ j \in Nat
      BY <1>2
    <3>2. j * M \in Nat /\ j * M <= (count - 1) * M
      BY <1>1, <2>1, <3>1, Multiples
    <3>3. j * M = (j - 1) * M + M
      BY <2>1, <2>2
    <3> QED BY <1>1, <2>2, <2>3, <2>4, <3>2, <3>3
  <2>6. j > 1 => j - 1 < count
    BY <1>2
  <2> QED BY <1>1, <2>2, <2>3, <2>4, <2>5, <2>6
<1>5. ASSUME NEW j \in 1 .. count
      PROVE  /\ payload(j) \in Seq(Token) /\ Len(payload(j)) = upto(j) - (j - 1) * M
             /\ \A k \in 1 .. Len(payload(j)) : payload(j)[k] = plain[(i + (j - 1) * M) + k]
  <2>1. /\ (j - 1) * M \in Nat /\ upto(j) \in Nat /\ (j - 1) * M <= upto(j) /\ upto(j) <= n
    BY <1>4
  <2> DEFINE from == (j - 1) * M
             to == upto(j)
  <2>2. from \in Nat /\ to \in Nat /\ from <= to /\ to <= Len(p) /\ payload(j) = SubSeq(p, from + 1, to)
    BY <2>1
  <2> HIDE DEF from, to
  <2>3. /\ SubSeq(p, from + 1, to) \in Seq(Token) /\ Len(SubSeq(p, from + 1, to)) = to - from
        /\ \A k \in 1 .. to - from : SubSeq(p, from + 1, to)[k] = p[from + k]
    BY <2>2, Part
  <2>4. \A k \in 1 .. to - from : from + k \in 1 .. Len(p) /\ i + (from + k) = (i + from) + k
    BY <1>1, <2>2
  <2>5. \A k \in 1 .. to - from : SubSeq(p, from + 1, to)[k] = plain[(i + from) + k]
    BY <2>3, <2>4
  <2>6. /\ payload(j) \in Seq(Token) /\ Len(payload(j)) = to - from
        /\ \A k \in 1 .. Len(payload(j)) : payload(j)[k] = plain[(i + from) + k]
    BY <2>2, <2>3, <2>5
  <2> QED BY <2>6 DEF from, to
<1>6. ASSUME NEW j \in 1 .. count
      PROVE  /\ record(j) \in Seq(Token)
             /\ \E frames :
                  /\ Framed(record(j), frames, plain, i + upto(j))
                  /\ << 1, i + (j - 1) * M >> \in frames
  <2>1. /\ (j - 1) * M \in Nat /\ upto(j) \in Nat /\ (j - 1) * M <= upto(j)
    BY <1>4
  <2>2. /\ payload(j) \in Seq(Token) /\ Len(payload(j)) = upto(j) - (j - 1) * M
        /\ \A k \in 1 .. Len(payload(j)) : payload(j)[k] = plain[(i + (j - 1) * M) + k]
    BY <1>5
  <2> DEFINE from == i + (j - 1) * M
             to == i + upto(j)
             part == payload(j)
  <2>5. from \in Nat /\ to \in Nat /\ to = from + Len(part)
    <3>1. PICK q \in Nat, u \in Nat : q = (j - 1) * M /\ u = upto(j)
      BY <2>1
    <3>2. q <= u /\ Len(part) = u - q
      BY <2>1, <2>2, <3>1
    <3>3. i + q \in Nat /\ i + u \in Nat /\ i + u = (i + q) + (u - q)
      OBVIOUS
    <3> QED BY <3>1, <3>2, <3>3
  <2>6. part \in Seq(Token) /\ \A k \in 1 .. Len(part) : part[k] = plain[from + k]
    BY <2>2, Zenon
  <2> HIDE DEF from, to, part
  <2>3. from \in Nat /\ to \in Nat /\ to = from + Len(part) /\ part \in Seq(Token)
        /\ \A k \in 1 .. Len(part) : part[k] = plain[from + k]
    BY <2>5, <2>6
  <2>4. /\ Header(RecordLen, Len(part)) \o part \in Seq(Token)
        /\ \E frames :
             Framed(Header(RecordLen, Len(part)) \o part, frames, plain, to) /\ << 1, from >> \in frames
    BY <2>3, OneFrame
  <2> QED BY <2>4 DEF from, to, part
<1> HIDE DEF record
<1>7. \A j \in 1 .. count : seqs[j] = record(j) /\ seqs[j] \in Seq(Token)
  BY <1>6
<1>8. seqs \in Seq(Seq(Token)) /\ Len(seqs) = count
  <2>1. seqs \in [1 .. count -> Seq(Token)]
    BY <1>6
  <2> HIDE DEF seqs
  <2>2. seqs \in Seq(Seq(Token))
    BY <1>2, <2>1, SeqDef
  <2> QED BY <1>2, <2>1, <2>2, LenProperties
<1> HIDE DEF seqs
<1>9. PICK f : Flattens(f, seqs) /\ (count > 0 => FlattenSeq(seqs) = f[count])
  BY <1>2, <1>8, FlattenSteps
<1>10. \A j \in 1 .. count : f[j] = IF j = 1 THEN seqs[j] ELSE f[j - 1] \o seqs[j]
  BY <1>8, <1>9 DEF Flattens
<1> DEFINE P == {j \in 1 .. count : f[j] \in Seq(Token) /\ Frame(f[j], i + upto(j))}
<1>11. count > 0 => 1 \in P
  <2> SUFFICES ASSUME count > 0 PROVE 1 \in P
    OBVIOUS
  <2>1. 1 \in 1 .. count
    BY <1>2
  <2>2. f[1] = record(1)
    BY <1>7, <1>10, <2>1
  <2>3. (1 - 1) * M = 0 /\ i + (1 - 1) * M = i
    BY <1>1
  <2>4. record(1) \in Seq(Token) /\ Frame(record(1), i + upto(1))
    BY <1>6, <2>1, <2>3
  <2> QED BY <2>1, <2>2, <2>4
<1>12. ASSUME NEW j \in 2 .. count, j - 1 \in P PROVE j \in P
  <2>1. j \in 1 .. count /\ j # 1 /\ j > 1
    BY <1>2
  <2>2. f[j] = f[j - 1] \o record(j)
    BY <1>7, <1>10, <2>1
  <2>3. f[j - 1] \in Seq(Token) /\ Frame(f[j - 1], i + upto(j - 1))
    BY <1>12
  <2>4. (j - 1) * M \in Nat /\ (j - 1) * M = upto(j - 1) /\ upto(j) \in Nat /\ (j - 1) * M <= upto(j)
    BY <1>4, <2>1
  <2> DEFINE middle == i + upto(j - 1)
             end == i + upto(j)
             before == f[j - 1]
             this == record(j)
  <2>5. middle \in Nat /\ end \in Nat /\ middle <= end /\ middle = i + (j - 1) * M
    BY <2>4
  <2>6. this \in Seq(Token) /\ before \in Seq(Token)
    BY <1>6, <2>1, <2>3
  <2>7. PICK others : Framed(this, others, plain, end) /\ << 1, middle >> \in others
    BY <1>6, <2>1, <2>5
  <2>8. PICK frames : Framed(before, frames, plain, middle) /\ << 1, i >> \in frames
    BY <2>3
  <2> HIDE DEF middle, end, before, this
  <2>12. middle \in Nat /\ end \in Nat /\ middle <= end
    BY <2>5
  <2> DEFINE all == Both(frames, Len(before), others)
  <2>9. Framed(before \o this, all, plain, end)
    <3>1. Framed(before, frames, plain, middle) /\ Framed(this, others, plain, end) /\ << 1, middle >> \in others
      BY <2>7, <2>8
    <3> QED BY <2>6, <2>12, <3>1, FramesJoin
  <2>13. << 1, i >> \in all
    BY <2>8 DEF Both
  <2>10. before \o this \in Seq(Token)
    BY <2>6, Joined
  <2> HIDE DEF all
  <2>11. Frame(before \o this, end)
    BY <2>9, <2>13
  <2> QED BY <2>1, <2>2, <2>10, <2>11 DEF middle, end, before, this
<1> HIDE DEF P
<1>13. 1 .. count \subseteq P
  BY <1>2, <1>11, <1>12, Climb
<1> USE DEF P
<1>14. CASE count = 0
  <2>1. seqs = << >>
    BY <1>8, <1>14, EmptySeq
  <2>2. appendRecords(p) = << >>
    BY <1>3, <2>1 DEF FlattenSeq
  <2>3. n = 0
    BY <1>1, <1>2, <1>14
  <2> DEFINE frames == {<< 1, i >>}
  <2>4. \A s, j \in Nat : << s, j >> \in frames => s = 1 /\ j = i
    OBVIOUS
  <2>5. << 1, i >> \in frames
    OBVIOUS
  <2> HIDE DEF frames
  <2>6. << >> \in Seq(Token) /\ Len(<< >>) = 0
    BY EmptySeq
  <2>7. 1 \in 1 .. Len(<< >>) + 1 /\ 1 = Len(<< >>) + 1 /\ i <= i + n /\ i = i + n
    BY <2>3, <2>6
  <2>8. Framed(<< >>, frames, plain, i + n)
    BY <2>4, <2>7 DEF Framed
  <2> QED BY <2>2, <2>5, <2>6, <2>8
<1>15. CASE count > 0
  <2>1. count \in P /\ upto(count) = n
    BY <1>2, <1>13, <1>15
  <2> HIDE DEF upto
  <2>2. f[count] \in Seq(Token) /\ Frame(f[count], i + n)
    BY <2>1, Zenon
  <2>3. appendRecords(p) = f[count]
    BY <1>3, <1>9, <1>15
  <2>4. \E frames : Framed(f[count], frames, plain, i + Len(p)) /\ << 1, i >> \in frames
    BY <2>2
  <2> HIDE DEF Frame, n
  <2> QED BY <2>2, <2>3, <2>4
<1>16. count = 0 \/ count > 0
  BY <1>2
<1> QED BY <1>14, <1>15, <1>16, Zenon

-----------------------------------------------------------------------------
\* What a Read of the connection returns, and leaves on the wire.

Gives(plain, i, end) ==
  /\ wire' \in Seq(Token)
  /\ result' \in [data : Seq(Token), err : {"none", "ok", "timeout", "eof", "unexpected"}]
  /\ \/ result' = NoResult /\ Wired(plain, i, end)'
     \/ /\ result'.err \in {"ok", "timeout"} /\ Len(result'.data) <= want
        /\ Holds(result'.data, plain, i)
        /\ \E front \in Nat : front = i + Len(result'.data) /\ front <= end /\ Wired(plain, front, end)'
     \/ /\ Ended(result'.err) /\ closed /\ Len(result'.data) <= want /\ Holds(result'.data, plain, i)
        /\ ~cut => result'.err = "eof" /\ result'.data = << >> /\ i = end

\* The place of a reader that nothing happens to.
LEMMA WiredStays ==
  ASSUME NEW plain, NEW i, NEW end, Wired(plain, i, end),
         UNCHANGED << mode, server, wire, sent, cut, received, nameSkipped, remaining, matched >>
  PROVE  Wired(plain, i, end)'
<1>1. PICK full \in Seq(Token) :
        /\ Under(full)
        /\ \/ CarriesPlain(full, plain, i, end)
           \/ CarriesNothing(full, i, end)
           \/ CarriesHead(full, plain, i, end)
           \/ CarriesRecords(full, plain, i, end)
  BY Zenon DEF Wired
<1>2. Under(full)'
  BY <1>1 DEF Under
<1>3. CarriesPlain(full, plain, i, end) => CarriesPlain(full, plain, i, end)'
  BY DEF CarriesPlain
<1>4. CarriesNothing(full, i, end) => CarriesNothing(full, i, end)'
  BY DEF CarriesNothing
<1>5. CarriesHead(full, plain, i, end) => CarriesHead(full, plain, i, end)'
  BY DEF CarriesHead, Matching
<1>6. CarriesRecords(full, plain, i, end) => CarriesRecords(full, plain, i, end)'
  <2>1. ASSUME NEW frames, Lead(full, frames, plain, i) PROVE Lead(full, frames, plain, i)'
    BY <2>1 DEF Lead
  <2> QED BY <2>1 DEF CarriesRecords
<1> QED BY <1>1, <1>2, <1>3, <1>4, <1>5, <1>6, Zenon DEF Wired

LEMMA RestIs ==
  ASSUME wire \in Seq(Token), NEW full \in Seq(Token), Under(full), NEW n \in Nat, n <= Len(wire)
  PROVE  LET rest == SubSeq(full, n + 1, Len(full)) IN
         /\ Rest(n) \in Seq(Token) /\ Len(Rest(n)) = Len(wire) - n /\ Len(wire) <= Len(full)
         /\ rest \in Seq(Token) /\ Len(rest) = Len(full) - n
         /\ \A k \in 1 .. Len(full) - n : rest[k] = full[n + k]
         /\ Len(Rest(n)) <= Len(rest) /\ \A k \in 1 .. Len(Rest(n)) : Rest(n)[k] = rest[k]
         /\ ~cut => rest = Rest(n)
<1> DEFINE rest == SubSeq(full, n + 1, Len(full))
           left == Rest(n)
<1>1. Len(wire) <= Len(full) /\ Len(wire) \in Nat /\ Len(full) \in Nat /\ n <= Len(full)
  BY DEF Under
<1>2. /\ left \in Seq(Token) /\ Len(left) = Len(wire) - n
      /\ \A k \in 1 .. Len(wire) - n : left[k] = wire[n + k]
  BY <1>1, Part DEF Rest
<1>3. /\ rest \in Seq(Token) /\ Len(rest) = Len(full) - n
      /\ \A k \in 1 .. Len(full) - n : rest[k] = full[n + k]
  BY <1>1, Part
<1>4. ~cut => rest = left
  BY DEF Under, Rest
<1> HIDE DEF rest, left
<1>5. \A k \in 1 .. Len(left) : left[k] = rest[k]
  <2> TAKE k \in 1 .. Len(left)
  <2>1. k \in 1 .. Len(wire) - n /\ k \in 1 .. Len(full) - n /\ n + k \in 1 .. Len(wire)
    BY <1>1, <1>2
  <2> QED BY <1>2, <1>3, <2>1 DEF Under
<1>6. Len(left) <= Len(rest)
  BY <1>1, <1>2, <1>3
<1> QED BY <1>1, <1>2, <1>3, <1>4, <1>5, <1>6 DEF rest, left

\* What is read of the wire behind h bytes of it is of the stream.
LEMMA Taken ==
  ASSUME wire \in Seq(Token), NEW full \in Seq(Token), Under(full), NEW plain, NEW i \in Nat,
         NEW h \in Nat, NEW n \in Nat, h + n <= Len(wire), i + n <= Len(plain),
         \A k \in 1 .. n : full[h + k] = plain[i + k]
  PROVE  /\ SubSeq(wire, h + 1, h + n) \in Seq(Token) /\ Len(SubSeq(wire, h + 1, h + n)) = n
         /\ Holds(SubSeq(wire, h + 1, h + n), plain, i)
<1> DEFINE data == SubSeq(wire, h + 1, h + n)
<1>1. Len(wire) \in Nat /\ h + n \in Nat /\ h <= h + n /\ (h + n) - h = n
  OBVIOUS
<1>2. data \in Seq(Token) /\ Len(data) = n /\ \A k \in 1 .. n : data[k] = wire[h + k]
  BY <1>1, Part
<1> HIDE DEF data
<1>3. \A k \in 1 .. n : h + k \in 1 .. Len(wire)
  BY <1>1
<1>4. \A k \in 1 .. n : data[k] = plain[i + k]
  BY <1>2, <1>3 DEF Under
<1>5. Holds(data, plain, i)
  BY <1>2, <1>4 DEF Holds
<1> QED BY <1>2, <1>5 DEF data

\* A result.
LEMMA Returned ==
  ASSUME NEW data \in Seq(Token), NEW err \in {"ok", "timeout", "eof", "unexpected"}, NEW drops \in BOOLEAN,
         Return(data, err, drops), ~lost'
  PROVE  /\ result' = [data |-> data, err |-> err] /\ result'.data = data /\ result'.err = err
         /\ result' \in [data : Seq(Token), err : {"none", "ok", "timeout", "eof", "unexpected"}]
         /\ err = "timeout" => ~drops
  BY DEF Return

LEMMA ErrorIs ==
  ASSUME NEW n \in Nat, NEW err \in Errors(n), NEW m
  PROVE  /\ err \in {"timeout", "eof"} /\ (err = "eof" => closed /\ n = Len(wire))
         /\ Full(err, m) \in {"timeout", "eof", "unexpected"}
         /\ (err = "timeout" => Full(err, m) = "timeout")
         /\ (err = "eof" => Ended(Full(err, m)))
  BY DEF Errors, Full, Ended

LEMMA GivesData ==
  ASSUME NEW plain, NEW i \in Nat, NEW end \in Nat, NEW data \in Seq(Token), NEW err \in {"ok", "timeout"},
         NEW front \in Nat, front = i + Len(data), wire' \in Seq(Token), result' = [data |-> data, err |-> err],
         Len(data) <= want, front <= end, Holds(data, plain, i), Wired(plain, front, end)'
  PROVE  Gives(plain, i, end)
<1>1. result' \in [data : Seq(Token), err : {"none", "ok", "timeout", "eof", "unexpected"}]
      /\ result'.data = data /\ result'.err = err
  OBVIOUS
<1>2. Len(result'.data) <= want /\ Holds(result'.data, plain, i)
  BY <1>1
<1>3. front = i + Len(result'.data)
  BY <1>1
<1>4. \E e \in Nat : e = i + Len(result'.data) /\ e <= end /\ Wired(plain, e, end)'
  BY <1>3, Zenon
<1> QED BY <1>1, <1>2, <1>4, Zenon DEF Gives

LEMMA GivesEnd ==
  ASSUME NEW plain, NEW i \in Nat, NEW end \in Nat, NEW data \in Seq(Token), NEW err \in {"eof", "unexpected"},
         wire' \in Seq(Token), result' = [data |-> data, err |-> err], closed,
         Len(data) <= want, Holds(data, plain, i), ~cut => err = "eof" /\ data = << >> /\ i = end
  PROVE  Gives(plain, i, end)
<1>1. result' \in [data : Seq(Token), err : {"none", "ok", "timeout", "eof", "unexpected"}]
      /\ result'.data = data /\ result'.err = err
  OBVIOUS
<1>2. Ended(result'.err) /\ closed /\ Len(result'.data) <= want /\ Holds(result'.data, plain, i)
      /\ (~cut => result'.err = "eof" /\ result'.data = << >> /\ i = end)
  BY <1>1 DEF Ended
<1> QED BY <1>1, <1>2, Zenon DEF Gives

LEMMA GivesNothing ==
  ASSUME NEW plain, NEW i, NEW end, wire' \in Seq(Token), result' = NoResult, Wired(plain, i, end)'
  PROVE  Gives(plain, i, end)
<1>1. result' \in [data : Seq(Token), err : {"none", "ok", "timeout", "eof", "unexpected"}]
  BY EmptySeq DEF NoResult
<1> QED BY <1>1, Zenon DEF Gives

LEMMA ConnGives ==
  ASSUME PlaceTypes, ReadConn, ~lost', cut' = cut, sent' = sent, mode' = mode,
         NEW plain \in Seq(Token), NEW i \in Nat, NEW end \in Nat, end <= Len(plain), Wired(plain, i, end)
  PROVE  Gives(plain, i, end)
<1>1. PICK full \in Seq(Token) : Under(full) /\ CarriesPlain(full, plain, i, end)
  BY DEF Wired, ReadConn, CarriesNothing, CarriesHead, CarriesRecords
<1>2. /\ wire \in Seq(Token) /\ Len(wire) \in Nat /\ Len(full) \in Nat /\ Len(wire) <= Len(full)
      /\ want \in Nat /\ Len(plain) \in Nat
  BY <1>1 DEF PlaceTypes, Under
<1>3. /\ i + Len(full) = end /\ \A k \in 1 .. Len(full) : full[k] = plain[i + k]
      /\ mode = "none" \/ (mode = "http" /\ received /\ sent)
  BY <1>1 DEF CarriesPlain, Holds
<1>4. received' = received
  BY DEF ReadConn
<1>5. ASSUME NEW n \in 1 .. want, n <= Len(wire), wire' = Rest(n), Return(SubSeq(wire, 1, n), "ok", FALSE)
      PROVE  Gives(plain, i, end)
  <2>1. n \in Nat /\ 0 + n <= Len(wire) /\ 0 + n = n /\ 0 + 1 = 1 /\ i + n <= Len(plain) /\ i + n <= end
        /\ i + n \in Nat
    BY <1>2, <1>3, <1>5
  <2>2. \A k \in 1 .. n : full[0 + k] = plain[i + k]
    <3>1. \A k \in 1 .. n : 0 + k = k /\ k \in 1 .. Len(full)
      BY <1>2, <2>1
    <3> QED BY <1>3, <3>1
  <2>3. /\ SubSeq(wire, 0 + 1, 0 + n) \in Seq(Token) /\ Len(SubSeq(wire, 0 + 1, 0 + n)) = n
        /\ Holds(SubSeq(wire, 0 + 1, 0 + n), plain, i)
    BY <1>1, <1>2, <2>1, <2>2, Taken
  <2> DEFINE data == SubSeq(wire, 1, n)
  <2>4. data \in Seq(Token) /\ Len(data) = n /\ Holds(data, plain, i)
    BY <2>1, <2>3
  <2> HIDE DEF data
  <2>5. result' = [data |-> data, err |-> "ok"]
    BY <1>5, <2>4, Returned DEF data
  <2> DEFINE rest == SubSeq(full, n + 1, Len(full))
  <2>6. /\ Rest(n) \in Seq(Token) /\ rest \in Seq(Token) /\ Len(rest) = Len(full) - n
        /\ \A k \in 1 .. Len(full) - n : rest[k] = full[n + k]
        /\ Len(Rest(n)) <= Len(rest) /\ (\A k \in 1 .. Len(Rest(n)) : Rest(n)[k] = rest[k])
        /\ ~cut => rest = Rest(n)
    BY <1>1, <1>2, <1>5, <2>1, RestIs
  <2> HIDE DEF rest
  <2>7. Under(rest)'
    BY <1>5, <2>6 DEF Under
  <2>8. CarriesPlain(rest, plain, i + n, end)'
    <3>1. \A k \in 1 .. Len(rest) : k \in 1 .. Len(full) - n /\ n + k \in 1 .. Len(full) /\ i + (n + k) = (i + n) + k
      BY <1>2, <2>1, <2>6
    <3>2. \A k \in 1 .. Len(rest) : rest[k] = plain[(i + n) + k]
      BY <1>3, <2>6, <3>1
    <3>4. Len(rest) = Len(full) - n /\ i + Len(full) = end /\ Len(full) \in Nat
      BY <1>2, <1>3, <2>6
    <3>3. (i + n) + Len(rest) = end
      BY <2>1, <3>4
    <3> QED BY <1>3, <1>4, <3>2, <3>3 DEF CarriesPlain, Holds
  <2>9. Wired(plain, i + n, end)'
    BY <2>6, <2>7, <2>8 DEF Wired
  <2>10. wire' \in Seq(Token) /\ n <= want
    BY <1>5, <2>6
  <2> QED BY <2>1, <2>4, <2>5, <2>9, <2>10, GivesData
<1>6. ASSUME NEW err \in Errors(0), Return(<< >>, err, FALSE), wire' = wire
      PROVE  Gives(plain, i, end)
  <2>1. err \in {"timeout", "eof"} /\ (err = "eof" => closed /\ 0 = Len(wire))
    BY <1>6, ErrorIs
  <2>2. << >> \in Seq(Token) /\ Len(<< >>) = 0
    BY EmptySeq
  <2>3. result' = [data |-> << >>, err |-> err]
    BY <1>6, <2>1, <2>2, Returned
  <2>4. Holds(<< >>, plain, i) /\ i + 0 = i /\ i <= end /\ 0 <= want
    BY <1>2, <1>3, <2>2 DEF Holds
  <2>5. CASE err = "timeout"
    <3>1. Under(full)' /\ CarriesPlain(full, plain, i, end)'
      BY <1>1, <1>4, <1>6 DEF Under, CarriesPlain
    <3>2. Wired(plain, i, end)'
      BY <3>1 DEF Wired
    <3>3. wire' \in Seq(Token) /\ i = i + Len(<< >>) /\ Len(<< >>) <= want
      BY <1>2, <1>6, <2>2, <2>4
    <3> QED BY <2>2, <2>3, <2>4, <2>5, <3>2, <3>3, GivesData
  <2>6. CASE err = "eof"
    <3>1. ~cut => i = end
      BY <1>1, <1>2, <1>3, <2>1, <2>6 DEF Under
    <3>2. wire' \in Seq(Token) /\ Len(<< >>) <= want
      BY <1>2, <1>6, <2>2, <2>4
    <3> QED BY <2>1, <2>2, <2>3, <2>4, <2>6, <3>1, <3>2, GivesEnd
  <2> QED BY <2>1, <2>5, <2>6
<1> QED BY <1>5, <1>6 DEF ReadConn

-----------------------------------------------------------------------------
\* The end of the head is found.

LEMMA TerminatorIs ==
  /\ Terminator[1] = "cr" /\ Terminator[2] = "lf" /\ Terminator[3] = "cr" /\ Terminator[4] = "lf"
  /\ Len(Terminator) = 4
BY DEF Terminator

LEMMA BegunIs ==
  ASSUME NEW head, NEW k \in Nat
  PROVE  /\ Begun(head, k, 0)
         /\ Begun(head, k, 1) <=> k >= 1 /\ head[k][1] = "cr"
         /\ Begun(head, k, 2) <=> k >= 2 /\ head[k - 1][1] = "cr" /\ head[k][1] = "lf"
         /\ Begun(head, k, 3) <=> k >= 3 /\ head[k - 2][1] = "cr" /\ head[k - 1][1] = "lf" /\ head[k][1] = "cr"
         /\ Begun(head, k, 4) <=> /\ k >= 4 /\ head[k - 3][1] = "cr" /\ head[k - 2][1] = "lf"
                                  /\ head[k - 1][1] = "cr" /\ head[k][1] = "lf"
<1> DEFINE Fits(j) == \A t \in 1 .. j : head[k - j + t][1] = Terminator[t]
<1>1. Fits(0)
  OBVIOUS
<1>2. Fits(1) <=> head[k][1] = "cr"
  <2>1. k - 1 + 1 = k /\ \A t \in 1 .. 1 : t = 1
    OBVIOUS
  <2> QED BY <2>1, TerminatorIs
<1>3. Fits(2) <=> head[k - 1][1] = "cr" /\ head[k][1] = "lf"
  <2>1. k - 2 + 1 = k - 1 /\ k - 2 + 2 = k /\ \A t \in 1 .. 2 : t = 1 \/ t = 2
    OBVIOUS
  <2>2. 1 \in 1 .. 2 /\ 2 \in 1 .. 2
    OBVIOUS
  <2> QED BY <2>1, <2>2, TerminatorIs
<1>4. Fits(3) <=> head[k - 2][1] = "cr" /\ head[k - 1][1] = "lf" /\ head[k][1] = "cr"
  <2>1. k - 3 + 1 = k - 2 /\ k - 3 + 2 = k - 1 /\ k - 3 + 3 = k /\ \A t \in 1 .. 3 : t = 1 \/ t = 2 \/ t = 3
    OBVIOUS
  <2>2. 1 \in 1 .. 3 /\ 2 \in 1 .. 3 /\ 3 \in 1 .. 3
    OBVIOUS
  <2> QED BY <2>1, <2>2, TerminatorIs
<1>5. Fits(4) <=> /\ head[k - 3][1] = "cr" /\ head[k - 2][1] = "lf"
                  /\ head[k - 1][1] = "cr" /\ head[k][1] = "lf"
  <2>1. k - 4 + 1 = k - 3 /\ k - 4 + 2 = k - 2 /\ k - 4 + 3 = k - 1 /\ k - 4 + 4 = k
        /\ \A t \in 1 .. 4 : t = 1 \/ t = 2 \/ t = 3 \/ t = 4
    OBVIOUS
  <2>2. 1 \in 1 .. 4 /\ 2 \in 1 .. 4 /\ 3 \in 1 .. 4 /\ 4 \in 1 .. 4
    OBVIOUS
  <2> QED BY <2>1, <2>2, TerminatorIs
<1>6. \A j \in 0 .. 4 : Begun(head, k, j) <=> j <= k /\ Fits(j)
  BY DEF Begun
<1> HIDE DEF Fits
<1>7. 0 \in 0 .. 4 /\ 1 \in 0 .. 4 /\ 2 \in 0 .. 4 /\ 3 \in 0 .. 4 /\ 4 \in 0 .. 4 /\ 0 <= k
  OBVIOUS
<1> QED BY <1>1, <1>2, <1>3, <1>4, <1>5, <1>6, <1>7

LEMMA HeadByte ==
  ASSUME NEW head \in Heads, NEW k \in Nat, k < Len(head)
  PROVE  /\ head \in Seq(Token) /\ Len(head) \in Nat
         /\ head[k + 1][1] \in {"cr", "lf", "x"}
         /\ Begun(head, k + 1, 4) <=> k + 1 = Len(head)
<1>1. head \in Seq({"cr", "lf", "x"} \X {0} \X {0})
  BY HeadsAssumption
<1>2. {"cr", "lf", "x"} \X {0} \X {0} \subseteq Token
  BY DEF Token
<1>3. head \in Seq(Token)
  BY <1>1, <1>2, SeqMonotonic
<1>4. Len(head) \in Nat /\ k + 1 \in 1 .. Len(head)
  BY <1>3
<1>5. head[k + 1] \in {"cr", "lf", "x"} \X {0} \X {0}
  BY <1>1, <1>4, ElementOfSeq
<1>6. Begun(head, k + 1, 4) <=> k + 1 = Len(head)
  BY <1>4, HeadsAssumption, TerminatorIs
<1> QED BY <1>3, <1>4, <1>5, <1>6

\* One more byte: the search goes on with the longest part of the terminator that the
\* bytes end with.
LEMMA AfterMatches ==
  ASSUME NEW head \in Heads, NEW k \in Nat, k < Len(head), matched \in 0 .. 3, Matching(head, k),
         NEW value, value = head[k + 1][1]
  PROVE  /\ After(value) \in 0 .. 4 /\ (After(value) = 4 <=> k + 1 = Len(head))
         /\ Begun(head, k + 1, After(value))
         /\ \A j \in 1 .. 4 : Begun(head, k + 1, j) => j <= After(value)
<1>1. /\ Begun(head, k + 1, 1) <=> value = "cr"
      /\ Begun(head, k + 1, 2) <=> Begun(head, k, 1) /\ value = "lf"
      /\ Begun(head, k + 1, 3) <=> Begun(head, k, 2) /\ value = "cr"
      /\ Begun(head, k + 1, 4) <=> Begun(head, k, 3) /\ value = "lf"
      /\ Begun(head, k + 1, 0)
  <2> DEFINE m == k + 1
  <2>1. m \in Nat /\ m - 1 = k /\ m - 2 = k - 1 /\ m - 3 = k - 2 /\ m = k + 1
    OBVIOUS
  <2>2. (m >= 1) /\ (m >= 2 <=> k >= 1) /\ (m >= 3 <=> k >= 2) /\ (m >= 4 <=> k >= 3)
    OBVIOUS
  <2> HIDE DEF m
  <2>3. /\ Begun(head, m, 0)
        /\ Begun(head, m, 1) <=> m >= 1 /\ head[m][1] = "cr"
        /\ Begun(head, m, 2) <=> m >= 2 /\ head[m - 1][1] = "cr" /\ head[m][1] = "lf"
        /\ Begun(head, m, 3) <=> m >= 3 /\ head[m - 2][1] = "cr" /\ head[m - 1][1] = "lf" /\ head[m][1] = "cr"
        /\ Begun(head, m, 4) <=> /\ m >= 4 /\ head[m - 3][1] = "cr" /\ head[m - 2][1] = "lf"
                                 /\ head[m - 1][1] = "cr" /\ head[m][1] = "lf"
    BY <2>1, BegunIs
  <2>4. /\ Begun(head, k, 1) <=> k >= 1 /\ head[k][1] = "cr"
        /\ Begun(head, k, 2) <=> k >= 2 /\ head[k - 1][1] = "cr" /\ head[k][1] = "lf"
        /\ Begun(head, k, 3) <=> k >= 3 /\ head[k - 2][1] = "cr" /\ head[k - 1][1] = "lf" /\ head[k][1] = "cr"
    BY BegunIs
  <2> QED BY <2>1, <2>2, <2>3, <2>4
<1>2. /\ Begun(head, k, 1) => ~Begun(head, k, 2)
      /\ Begun(head, k, 2) => ~Begun(head, k, 3)
      /\ Begun(head, k, 3) => Begun(head, k, 1)
  BY BegunIs
<1>3. /\ Begun(head, k, matched)
      /\ Begun(head, k, 1) => 1 <= matched
      /\ Begun(head, k, 2) => 2 <= matched
      /\ Begun(head, k, 3) => 3 <= matched
  BY TerminatorIs DEF Matching
<1>4. /\ matched = 0 => After(value) = IF value = "cr" THEN 1 ELSE 0
      /\ matched = 1 => After(value) = IF value = "lf" THEN 2 ELSE IF value = "cr" THEN 1 ELSE 0
      /\ matched = 2 => After(value) = IF value = "cr" THEN 3 ELSE 0
      /\ matched = 3 => After(value) = IF value = "lf" THEN 4 ELSE IF value = "cr" THEN 1 ELSE 0
  <2>1. 0 + 1 = 1 /\ 1 + 1 = 2 /\ 2 + 1 = 3 /\ 3 + 1 = 4
    OBVIOUS
  <2> QED BY <2>1, TerminatorIs DEF After
<1>5. Begun(head, k + 1, 4) <=> k + 1 = Len(head)
  BY HeadByte
<1>6. matched \in {0, 1, 2, 3} /\ \A j \in 1 .. 4 : j \in {1, 2, 3, 4}
  OBVIOUS
<1>7. After(value) \in 0 .. 4 /\ (After(value) = 4 <=> Begun(head, k + 1, 4))
  BY <1>1, <1>2, <1>3, <1>4, <1>6
<1>8. Begun(head, k + 1, After(value))
  BY <1>1, <1>2, <1>3, <1>4, <1>6
<1>9. \A j \in 1 .. 4 : Begun(head, k + 1, j) => j <= After(value)
  BY <1>1, <1>2, <1>3, <1>4, <1>6
<1> QED BY <1>5, <1>7, <1>8, <1>9

LEMMA HeadGives ==
  ASSUME PlaceTypes, ReadHead, ~lost', cut' = cut, sent' = sent, mode' = mode,
         NEW plain \in Seq(Token), NEW i \in Nat, NEW end \in Nat, end <= Len(plain), Wired(plain, i, end)
  PROVE  Gives(plain, i, end) /\ matched' \in 0 .. 3
<1>1. PICK full \in Seq(Token) : Under(full) /\ (CarriesNothing(full, i, end) \/ CarriesHead(full, plain, i, end))
  BY DEF Wired, ReadHead, CarriesPlain, CarriesRecords
<1>2. /\ wire \in Seq(Token) /\ Len(wire) \in Nat /\ Len(full) \in Nat /\ Len(wire) <= Len(full)
      /\ want \in Nat /\ Len(plain) \in Nat /\ matched \in 0 .. 3
  BY <1>1 DEF PlaceTypes, Under
<1>3. /\ result = NoResult /\ mode = "http" /\ ~received /\ nameSkipped' = nameSkipped
  BY DEF ReadHead, Reading
<1>4. CarriesNothing(full, i, end) => full = << >> /\ wire = << >> /\ matched = 0 /\ i = end
  BY <1>1, <1>2, EmptySeq DEF CarriesNothing
<1>5. CarriesHead(full, plain, i, end) => Len(full) > 0 /\ i <= end
  <2> SUFFICES ASSUME CarriesHead(full, plain, i, end) PROVE Len(full) > 0 /\ i <= end
    OBVIOUS
  <2>1. PICK head \in Heads, tail \in Seq(Token), k \in Nat :
          k < Len(head) /\ full = SubSeq(head, k + 1, Len(head)) \o tail /\ i + Len(tail) = end
    BY DEF CarriesHead
  <2>2. head \in Seq(Token) /\ Len(head) \in Nat
    BY <2>1, HeadByte
  <2>3. SubSeq(head, k + 1, Len(head)) \in Seq(Token) /\ Len(SubSeq(head, k + 1, Len(head))) = Len(head) - k
    BY <2>1, <2>2, Part
  <2>4. Len(full) = (Len(head) - k) + Len(tail) /\ Len(tail) \in Nat
    BY <2>1, <2>3, Joined
  <2> QED BY <2>1, <2>2, <2>4
<1>6. CASE \E err \in Errors(0) : Return(<< >>, err, matched > 0) /\ matched' = 0 /\ UNCHANGED << wire, received >>
  <2>1. PICK err \in Errors(0) : Return(<< >>, err, matched > 0) /\ matched' = 0 /\ wire' = wire /\ received' = received
    BY <1>6
  <2>2. err \in {"timeout", "eof"} /\ (err = "eof" => closed /\ 0 = Len(wire))
    BY ErrorIs
  <2>3. << >> \in Seq(Token) /\ Len(<< >>) = 0 /\ (matched > 0) \in BOOLEAN
    BY EmptySeq
  <2>4. result' = [data |-> << >>, err |-> err] /\ (err = "timeout" => ~(matched > 0))
    BY <2>1, <2>2, <2>3, Returned
  <2>5. i <= end /\ Holds(<< >>, plain, i) /\ Len(<< >>) <= want /\ wire' \in Seq(Token) /\ i = i + Len(<< >>)
    BY <1>1, <1>2, <1>4, <1>5, <2>1, <2>3 DEF Holds
  <2>6. CASE err = "timeout"
    <3>1. matched = 0
      BY <1>2, <2>4, <2>6
    <3>2. Under(full)'
      BY <1>1, <2>1 DEF Under
    <3>3. CarriesNothing(full, i, end) => CarriesNothing(full, i, end)'
      BY <1>3, <2>1 DEF CarriesNothing
    <3>4. CarriesHead(full, plain, i, end) => CarriesHead(full, plain, i, end)'
      BY <2>1, <3>1 DEF CarriesHead, Matching
    <3>5. Wired(plain, i, end)'
      BY <1>1, <3>2, <3>3, <3>4 DEF Wired
    <3>6. Gives(plain, i, end)
      BY <2>3, <2>4, <2>5, <2>6, <3>5, GivesData
    <3> QED BY <2>1, <3>6
  <2>7. CASE err = "eof"
    <3>1. ~cut => i = end
      <4>1. ~cut => full = wire /\ Len(wire) = 0
        BY <1>1, <2>2, <2>7 DEF Under
      <4> QED BY <1>1, <1>2, <1>4, <1>5, <4>1
    <3>2. Gives(plain, i, end)
      BY <2>2, <2>3, <2>4, <2>5, <2>7, <3>1, GivesEnd
    <3> QED BY <2>1, <3>2
  <2> QED BY <2>2, <2>6, <2>7
<1>7. CASE /\ wire # << >> /\ wire' = Rest(1)
           /\ \E value \in IF wire[1][1] = "data" THEN {"cr", "lf", "x"} ELSE {wire[1][1]} :
                IF After(value) = Len(Terminator)
                THEN matched' = 0 /\ received' = TRUE
                ELSE matched' = After(value) /\ UNCHANGED received
           /\ UNCHANGED << result, timeouts, lost >>
  <2>1. CarriesHead(full, plain, i, end)
    BY <1>1, <1>4, <1>7
  <2>2. PICK head \in Heads, tail \in Seq(Token), k \in Nat :
          /\ k < Len(head) /\ full = SubSeq(head, k + 1, Len(head)) \o tail /\ Matching(head, k)
          /\ Holds(tail, plain, i) /\ i + Len(tail) = end
    BY <2>1 DEF CarriesHead
  <2>19. k \in Nat /\ k < Len(head) /\ head \in Heads /\ tail \in Seq(Token)
    BY <2>2
  <2>20. head \in Seq(Token) /\ Len(head) \in Nat /\ head[k + 1][1] \in {"cr", "lf", "x"}
    BY <2>19, HeadByte
  <2>3. head \in Seq(Token) /\ Len(head) \in Nat /\ head[k + 1][1] \in {"cr", "lf", "x"} /\ Len(tail) \in Nat
        /\ k <= Len(head) /\ k + 1 \in Nat /\ k + 1 <= Len(head)
    BY <2>19, <2>20
  <2> DEFINE mine == SubSeq(head, k + 1, Len(head))
             after == SubSeq(head, (k + 1) + 1, Len(head))
             rest == SubSeq(full, 1 + 1, Len(full))
  <2>4. /\ mine \in Seq(Token) /\ Len(mine) = Len(head) - k
        /\ \A t \in 1 .. Len(head) - k : mine[t] = head[k + t]
    BY <2>3, Part
  <2>5. /\ after \in Seq(Token) /\ Len(after) = Len(head) - (k + 1)
        /\ \A t \in 1 .. Len(head) - (k + 1) : after[t] = head[(k + 1) + t]
    BY <2>3, Part
  <2>6. Len(wire) > 0 /\ 1 <= Len(wire)
    BY <1>2, <1>7
  <2>7. /\ Rest(1) \in Seq(Token) /\ rest \in Seq(Token) /\ Len(rest) = Len(full) - 1
        /\ \A t \in 1 .. Len(full) - 1 : rest[t] = full[1 + t]
        /\ Len(Rest(1)) <= Len(rest) /\ (\A t \in 1 .. Len(Rest(1)) : Rest(1)[t] = rest[t])
        /\ ~cut => rest = Rest(1)
    <3>1. Under(full) /\ 1 \in Nat /\ 1 <= Len(wire) /\ wire \in Seq(Token)
      BY <1>1, <1>2, <2>6
    <3> QED BY <3>1, RestIs
  <2>8. full = mine \o tail
    BY <2>2
  <2> HIDE DEF mine, after, rest
  <2>9. /\ Len(full) = Len(mine) + Len(tail)
        /\ \A t \in 1 .. Len(mine) : full[t] = mine[t]
        /\ \A t \in 1 .. Len(tail) : full[Len(mine) + t] = tail[t]
    <3>1. mine \in Seq(Token) /\ tail \in Seq(Token)
      BY <2>4
    <3> QED BY <2>8, <3>1, Joined
  <2>10. wire[1] = head[k + 1]
    <3>1. 1 \in 1 .. Len(wire) /\ 1 \in 1 .. Len(mine) /\ 1 \in 1 .. Len(head) - k
      BY <1>2, <2>2, <2>3, <2>4, <2>6
    <3> QED BY <1>1, <2>4, <2>9, <3>1 DEF Under
  <2> DEFINE value == head[k + 1][1]
  <2>11. IF After(value) = 4
         THEN matched' = 0 /\ received' = TRUE
         ELSE matched' = After(value) /\ received' = received
    BY <1>7, <2>3, <2>10, TerminatorIs
  <2>12. /\ After(value) \in 0 .. 4 /\ (After(value) = 4 <=> k + 1 = Len(head))
         /\ Begun(head, k + 1, After(value))
         /\ \A j \in 1 .. 4 : Begun(head, k + 1, j) => j <= After(value)
    BY <1>2, <2>2, AfterMatches
  <2>13. rest = after \o tail
    <3>1. /\ after \o tail \in Seq(Token) /\ Len(after \o tail) = Len(after) + Len(tail)
          /\ \A t \in 1 .. Len(after) : (after \o tail)[t] = after[t]
          /\ \A t \in 1 .. Len(tail) : (after \o tail)[Len(after) + t] = tail[t]
      BY <2>5, Joined
    <3> DEFINE both == after \o tail
    <3>2. /\ both \in Seq(Token) /\ Len(both) = Len(after) + Len(tail)
          /\ \A t \in 1 .. Len(after) : both[t] = after[t]
          /\ \A t \in 1 .. Len(tail) : both[Len(after) + t] = tail[t]
      BY <3>1
    <3> HIDE DEF both
    <3>3. Len(after) = Len(mine) - 1 /\ Len(after) \in Nat
      BY <2>2, <2>3, <2>4, <2>5
    <3>4. Len(rest) = Len(both)
      BY <2>3, <2>7, <2>9, <3>2, <3>3
    <3>5. ASSUME NEW t \in 1 .. Len(rest) PROVE rest[t] = both[t]
      <4>1. t \in 1 .. Len(full) - 1 /\ rest[t] = full[1 + t]
        BY <2>7
      <4>2. CASE t <= Len(after)
        <5>2. k \in Nat /\ Len(head) \in Nat /\ Len(mine) = Len(head) - k /\ Len(after) = Len(head) - (k + 1)
              /\ t \in Nat \ {0} /\ t <= Len(after)
          BY <2>19, <2>3, <2>4, <2>5, <4>1, <4>2
        <5>3. t <= Len(head) - (k + 1)
          BY <5>2
        <5>1. t \in 1 .. Len(after) /\ 1 + t \in 1 .. Len(mine) /\ 1 + t \in 1 .. Len(head) - k
              /\ t \in 1 .. Len(head) - (k + 1) /\ k + (1 + t) = (k + 1) + t
          BY <5>2, <5>3
        <5>4. after[t] = head[(k + 1) + t] /\ mine[1 + t] = head[k + (1 + t)]
          BY <2>4, <2>5, <5>1
        <5>5. full[1 + t] = mine[1 + t] /\ both[t] = after[t]
          BY <2>9, <3>2, <5>1
        <5> QED BY <4>1, <5>1, <5>4, <5>5
      <4>3. CASE t > Len(after)
        <5>1. PICK u \in Nat : u = t - Len(after)
          <6>1. t \in Nat /\ t - Len(after) \in Nat
            BY <3>3, <4>3
          <6> QED BY <6>1
        <5>2. u \in 1 .. Len(tail) /\ Len(after) + u = t /\ Len(mine) + u = 1 + t
          BY <2>3, <2>7, <2>9, <3>3, <4>1, <4>3, <5>1
        <5> QED BY <2>9, <3>2, <4>1, <5>2
      <4> QED BY <3>3, <4>2, <4>3
    <3>6. rest = both
      BY <2>7, <3>2, <3>4, <3>5, SeqEqual
    <3> QED BY <3>6 DEF both
  <2>14. Under(rest)'
    BY <1>7, <2>7 DEF Under
  <2>15. ASSUME After(value) = 4
         PROVE  Wired(plain, i, end)' /\ matched' \in 0 .. 3
    <3>1. matched' = 0 /\ received' = TRUE /\ Len(after) = 0
      BY <2>3, <2>5, <2>11, <2>12, <2>15
    <3>2. after = << >>
      BY <2>5, <3>1, EmptySeq
    <3>3. rest = tail
      BY <2>13, <3>2, ConcatEmptySeq
    <3>4. sent
      BY <2>1 DEF CarriesHead
    <3>5. CarriesPlain(rest, plain, i, end)'
      BY <1>3, <2>2, <3>1, <3>3, <3>4 DEF CarriesPlain
    <3>6. Wired(plain, i, end)'
      BY <2>7, <2>14, <3>5 DEF Wired
    <3> QED BY <3>1, <3>6
  <2>16. ASSUME After(value) # 4
         PROVE  Wired(plain, i, end)' /\ matched' \in 0 .. 3
    <3>1. matched' = After(value) /\ received' = received /\ k + 1 < Len(head) /\ k + 1 \in Nat
      BY <2>2, <2>3, <2>11, <2>12, <2>16
    <3>2. Matching(head, k + 1)'
      BY <2>12, <3>1, TerminatorIs DEF Matching
    <3>3. sent
      BY <2>1 DEF CarriesHead
    <3>4. rest = SubSeq(head, (k + 1) + 1, Len(head)) \o tail
      BY <2>13 DEF after
    <3> DEFINE m == k + 1
    <3>5. m \in Nat /\ m < Len(head) /\ rest = SubSeq(head, m + 1, Len(head)) \o tail /\ Matching(head, m)'
      BY <3>1, <3>2, <3>4
    <3> HIDE DEF m
    <3>6. CarriesHead(rest, plain, i, end)'
      BY <1>3, <2>2, <3>1, <3>3, <3>5 DEF CarriesHead
    <3>7. Wired(plain, i, end)'
      BY <2>7, <2>14, <3>6 DEF Wired
    <3>8. matched' \in 0 .. 3
      BY <2>12, <2>16, <3>1
    <3> QED BY <3>7, <3>8
  <2>17. Wired(plain, i, end)' /\ matched' \in 0 .. 3
    BY <2>15, <2>16
  <2>18. wire' \in Seq(Token) /\ result' = NoResult
    BY <1>3, <1>7, <2>7
  <2> QED BY <2>17, <2>18, GivesNothing
<1> QED BY <1>6, <1>7 DEF ReadHead

-----------------------------------------------------------------------------
\* What is read of a record of the TLS disguise.

\* A record of the disguise: behind h bytes are n of the stream, and the name behind them
\* if it is still there.
Record(full, frames, plain, i, h, n) ==
  LET name == IF server /\ ~nameSkipped THEN NameLen + NameTail ELSE 0 IN
  /\ << h + n + name + 1, i + n >> \in frames
  /\ \A k \in 1 .. n : full[h + k] = plain[i + k]
  /\ server /\ ~nameSkipped => full[h + n + NameLen] = Length(NameTail)

LEMMA RecordFits ==
  ASSUME NEW full \in Seq(Token), NEW frames, NEW plain, NEW i \in Nat, NEW end \in Nat,
         NEW h \in Nat, NEW n \in Nat, Framed(full, frames, plain, end), Record(full, frames, plain, i, h, n)
  PROVE  h + n <= Len(full) /\ i + n <= end
         /\ (server /\ ~nameSkipped => h + n + NameLen + NameTail <= Len(full))
<1> DEFINE name == IF server /\ ~nameSkipped THEN NameLen + NameTail ELSE 0
<1>1. name \in Nat /\ NameLen \in Nat /\ NameTail \in Nat /\ Len(full) \in Nat
  BY ObfsAssumption
<1>2. << h + n + name + 1, i + n >> \in frames
  BY DEF Record
<1>3. server /\ ~nameSkipped => name = NameLen + NameTail
  OBVIOUS
<1> HIDE DEF name
<1>4. h + n + name + 1 \in Nat /\ i + n \in Nat
  BY <1>1
<1>5. h + n + name + 1 \in 1 .. Len(full) + 1 /\ i + n <= end
  BY <1>2, <1>4 DEF Framed
<1> QED BY <1>1, <1>3, <1>5

LEMMA RecordLeft ==
  ASSUME PlaceTypes, NEW full \in Seq(Token), Under(full), mode = "tls", sent,
         mode' = mode, sent' = sent, cut' = cut, server' = server, nameSkipped' = nameSkipped, received' = TRUE,
         NEW plain, NEW i \in Nat, NEW end \in Nat, NEW frames, NEW h \in Nat, NEW n \in Nat, NEW m \in 0 .. n,
         Framed(full, frames, plain, end), Record(full, frames, plain, i, h, n),
         h + m <= Len(wire), wire' = Rest(h + m), remaining' = n - m
  PROVE  wire' \in Seq(Token) /\ Wired(plain, i + m, end)'
<1> DEFINE d == h + m
           rest == SubSeq(full, d + 1, Len(full))
           later == Later(frames, d)
           name == IF server /\ ~nameSkipped THEN NameLen + NameTail ELSE 0
<1>1. wire \in Seq(Token) /\ d \in Nat /\ d <= Len(wire) /\ wire' = Rest(d) /\ m \in Nat /\ m <= n
  BY DEF PlaceTypes
<1>2. h + n <= Len(full) /\ i + n <= end /\ (server /\ ~nameSkipped => h + n + NameLen + NameTail <= Len(full))
  BY RecordFits
<1>3. /\ << h + n + name + 1, i + n >> \in frames
      /\ \A k \in 1 .. n : full[h + k] = plain[i + k]
      /\ server /\ ~nameSkipped => full[h + n + NameLen] = Length(NameTail)
  BY DEF Record
<1>4. d = h + m /\ name \in Nat /\ NameLen \in Nat \ {0} /\ NameTail \in Nat /\ Len(full) \in Nat
  <2>1. NameLen \in Nat \ {0} /\ NameTail \in Nat
    BY ObfsAssumption
  <2>2. name \in Nat
    BY <2>1
  <2>3. Len(full) \in Nat
    BY LenProperties
  <2> QED BY <2>1, <2>2, <2>3
<1>5. name = IF server /\ ~nameSkipped THEN NameLen + NameTail ELSE 0
  OBVIOUS
<1> HIDE DEF d, rest, name
<1>6. /\ Rest(d) \in Seq(Token) /\ Len(wire) <= Len(full)
      /\ rest \in Seq(Token) /\ Len(rest) = Len(full) - d
      /\ \A k \in 1 .. Len(full) - d : rest[k] = full[d + k]
      /\ Len(Rest(d)) <= Len(rest) /\ (\A k \in 1 .. Len(Rest(d)) : Rest(d)[k] = rest[k])
      /\ ~cut => rest = Rest(d)
  BY <1>1, RestIs DEF rest
<1>7. Under(rest)'
  BY <1>1, <1>6 DEF Under
<1>8. d <= Len(full)
  <2>1. Len(wire) \in Nat
    BY <1>1
  <2> QED BY <1>1, <1>4, <1>6, <2>1
<1>9. Framed(rest, later, plain, end)
  BY <1>1, <1>8, FramesLater DEF rest
<1>10. << 0 + (n - m) + name + 1, (i + m) + (n - m) >> \in later
  <2>1. (0 + (n - m) + name + 1) + d = h + n + name + 1 /\ (i + m) + (n - m) = i + n
        /\ 0 + (n - m) + name + 1 \in Nat /\ 0 + (n - m) + name + 1 > 0 /\ i + n \in Nat
    BY <1>1, <1>4
  <2> QED BY <1>3, <2>1 DEF Later
<1>11. \A k \in 1 .. n - m : rest[0 + k] = plain[(i + m) + k]
  <2> TAKE k \in 1 .. n - m
  <2>1. 0 + k \in 1 .. Len(full) - d /\ d + (0 + k) = h + (m + k) /\ m + k \in 1 .. n /\ i + (m + k) = (i + m) + k
    BY <1>1, <1>2, <1>4
  <2> QED BY <1>3, <1>6, <2>1
<1>12. server /\ ~nameSkipped => rest[0 + (n - m) + NameLen] = Length(NameTail)
  <2> SUFFICES ASSUME server, ~nameSkipped PROVE rest[0 + (n - m) + NameLen] = Length(NameTail)
    OBVIOUS
  <2>1. 0 + (n - m) + NameLen \in 1 .. Len(full) - d /\ d + (0 + (n - m) + NameLen) = h + n + NameLen
    BY <1>1, <1>2, <1>4
  <2> QED BY <1>3, <1>6, <2>1
<1> DEFINE rem == n - m
           front == i + m
<1>13. rem \in Nat /\ remaining' = rem
  BY <1>1
<1> HIDE DEF rem, front, later
<1>14. /\ << 0 + rem + name + 1, front + rem >> \in later
       /\ \A k \in 1 .. rem : rest[0 + k] = plain[front + k]
       /\ server /\ ~nameSkipped => rest[0 + rem + NameLen] = Length(NameTail)
  BY <1>10, <1>11, <1>12 DEF rem, front
<1>15. Lead(rest, later, plain, front)'
  BY <1>5, <1>13, <1>14 DEF Lead
<1>16. Framed(rest, later, plain, end)'
  BY <1>9 DEF Framed
<1>17. CarriesRecords(rest, plain, front, end)'
  BY <1>15, <1>16 DEF CarriesRecords
<1>18. Wired(plain, front, end)'
  BY <1>6, <1>7, <1>17 DEF Wired
<1> QED BY <1>1, <1>6, <1>18 DEF front

\* A Read of it.
Takes(h, m, size, drops) ==
  \E err \in IF m = size THEN {"ok"} ELSE Errors(h + m) : Return(SubSeq(wire, h + 1, h + m), Full(err, m), drops)

LEMMA RecordRead ==
  ASSUME PlaceTypes, NEW full \in Seq(Token), Under(full), mode = "tls", sent, ~lost',
         mode' = mode, sent' = sent, cut' = cut, server' = server, nameSkipped' = nameSkipped, received' = TRUE,
         NEW plain \in Seq(Token), NEW i \in Nat, NEW end \in Nat, end <= Len(plain),
         NEW frames, NEW h \in Nat, NEW n \in Nat,
         Framed(full, frames, plain, end), Record(full, frames, plain, i, h, n),
         NEW size \in Nat, size <= n, size <= want, NEW m \in 0 .. size, h + m <= Len(wire), NEW drops \in BOOLEAN,
         Takes(h, m, size, drops), wire' = Rest(h + m), m = size \/ ~drops => remaining' = n - m
  PROVE  Gives(plain, i, end)
<1>1. PICK err \in IF m = size THEN {"ok"} ELSE Errors(h + m) :
        Return(SubSeq(wire, h + 1, h + m), Full(err, m), drops)
  BY DEF Takes
<1>2. wire \in Seq(Token) /\ Len(wire) \in Nat /\ want \in Nat /\ Len(plain) \in Nat /\ m \in Nat /\ Len(full) \in Nat
      /\ m <= n /\ m \in 0 .. n /\ m <= want /\ m <= size
  <2>1. wire \in Seq(Token) /\ want \in Nat
    BY DEF PlaceTypes
  <2>2. Len(wire) \in Nat /\ Len(plain) \in Nat /\ Len(full) \in Nat
    BY <2>1, LenProperties
  <2>3. m \in Nat /\ m <= size
    OBVIOUS
  <2>4. m <= n /\ m \in 0 .. n /\ m <= want
    BY <2>1, <2>3
  <2> QED BY <2>1, <2>2, <2>3, <2>4
<1>3. h + n <= Len(full) /\ i + n <= end
  BY RecordFits
<1>4. \A k \in 1 .. n : full[h + k] = plain[i + k]
  BY DEF Record
<1>5. i + m <= Len(plain) /\ i + m <= end /\ i + m \in Nat /\ \A k \in 1 .. m : full[h + k] = plain[i + k]
  <2>1. i + m \in Nat /\ i + m <= i + n
    BY <1>2
  <2>2. i + m <= end /\ i + m <= Len(plain)
    BY <1>2, <1>3, <2>1
  <2>3. \A k \in 1 .. m : k \in 1 .. n
    BY <1>2
  <2> QED BY <1>4, <2>1, <2>2, <2>3
<1>6. /\ SubSeq(wire, h + 1, h + m) \in Seq(Token) /\ Len(SubSeq(wire, h + 1, h + m)) = m
      /\ Holds(SubSeq(wire, h + 1, h + m), plain, i)
  BY <1>2, <1>5, Taken
<1> DEFINE data == SubSeq(wire, h + 1, h + m)
<1>7. data \in Seq(Token) /\ Len(data) = m /\ Holds(data, plain, i) /\ Return(data, Full(err, m), drops)
      /\ Len(data) <= want
  BY <1>1, <1>2, <1>6
<1> HIDE DEF data
<1>8. wire' \in Seq(Token)
  <2>1. h + m \in Nat
    BY <1>2
  <2> QED BY <1>2, <2>1, RestIs
<1>9. CASE m = size
  <2>1. Full(err, m) = "ok"
    BY <1>1, <1>9 DEF Full
  <2>2. result' = [data |-> data, err |-> "ok"]
    BY <1>7, <2>1, Returned
  <2>3. Wired(plain, i + m, end)'
    BY <1>2, <1>9, RecordLeft
  <2> DEFINE front == i + m
  <2>4. front \in Nat /\ front = i + Len(data) /\ front <= end /\ Wired(plain, front, end)'
    BY <1>5, <1>7, <2>3
  <2> HIDE DEF front
  <2> QED BY <1>7, <1>8, <2>2, <2>4, GivesData
<1>10. CASE m # size
  <2>1. err \in Errors(h + m) /\ h + m \in Nat /\ m < n
    BY <1>1, <1>2, <1>10
  <2>2. /\ err \in {"timeout", "eof"} /\ (err = "eof" => closed /\ h + m = Len(wire))
        /\ Full(err, m) \in {"timeout", "eof", "unexpected"}
        /\ (err = "timeout" => Full(err, m) = "timeout")
        /\ (err = "eof" => Ended(Full(err, m)))
    BY <2>1, ErrorIs
  <2>3. CASE err = "timeout"
    <3>1. result' = [data |-> data, err |-> "timeout"] /\ ~drops
      BY <1>7, <2>2, <2>3, Returned
    <3>2. Wired(plain, i + m, end)'
      BY <1>2, <3>1, RecordLeft
    <3> DEFINE front == i + m
    <3>3. front \in Nat /\ front = i + Len(data) /\ front <= end /\ Wired(plain, front, end)'
      BY <1>5, <1>7, <3>2
    <3> HIDE DEF front
    <3> QED BY <1>7, <1>8, <3>1, <3>3, GivesData
  <2>4. CASE err = "eof"
    <3>1. Full(err, m) \in {"eof", "unexpected"}
      BY <2>2, <2>4 DEF Ended
    <3>2. result' = [data |-> data, err |-> Full(err, m)] /\ closed
      BY <1>7, <2>2, <2>4, Returned
    <3>3. cut
      <4>1. ~cut => Len(full) = h + m
        BY <2>2, <2>4 DEF Under
      <4> QED BY <1>2, <1>3, <2>1, <4>1
    <3> QED BY <1>7, <1>8, <3>1, <3>2, <3>3, GivesEnd
  <2> QED BY <2>2, <2>3, <2>4
<1> QED BY <1>9, <1>10

\* What a Read of the TLS disguise leaves behind.
LEMMA RemainingGives ==
  ASSUME PlaceTypes, ReadRemaining, ~lost', cut' = cut, sent' = sent, mode' = mode, server' = server,
         NEW plain \in Seq(Token), NEW i \in Nat, NEW end \in Nat, end <= Len(plain), Wired(plain, i, end)
  PROVE  Gives(plain, i, end) /\ remaining' \in Nat
<1>1. PICK full \in Seq(Token) : Under(full) /\ CarriesRecords(full, plain, i, end)
  BY DEF Wired, ReadRemaining, CarriesPlain, CarriesNothing, CarriesHead
<1>2. PICK frames : Framed(full, frames, plain, end) /\ Lead(full, frames, plain, i)
  BY <1>1 DEF CarriesRecords
<1>3. /\ mode = "tls" /\ sent /\ received /\ received' = TRUE /\ nameSkipped' = nameSkipped
      /\ remaining \in Nat /\ want \in Nat /\ wire \in Seq(Token) /\ Len(wire) \in Nat
  BY <1>1 DEF CarriesRecords, ReadRemaining, PlaceTypes
<1>4. Record(full, frames, plain, i, 0, remaining)
  BY <1>2, <1>3 DEF Lead, Record
<1> DEFINE size == IF remaining > want THEN want ELSE remaining
<1>5. PICK m \in 0 .. size :
        /\ m <= Len(wire)
        /\ \E err \in IF m = size THEN {"ok"} ELSE Errors(m) : Return(SubSeq(wire, 1, m), Full(err, m), FALSE)
        /\ wire' = Rest(m) /\ remaining' = remaining - m
  BY DEF ReadRemaining
<1>6. size \in Nat /\ size <= remaining /\ size <= want /\ m \in Nat /\ m <= size
  BY <1>3
<1> HIDE DEF size
<1>7. 0 + m = m /\ 0 + 1 = 1 /\ 0 \in Nat /\ FALSE \in BOOLEAN
  BY <1>6
<1>8. /\ 0 + m <= Len(wire) /\ wire' = Rest(0 + m)
      /\ Takes(0, m, size, FALSE)
      /\ m = size \/ ~FALSE => remaining' = remaining - m
  BY <1>5, <1>7 DEF Takes
<1>9. Gives(plain, i, end)
  BY <1>1, <1>2, <1>3, <1>4, <1>6, <1>7, <1>8, RecordRead
<1>10. remaining' \in Nat
  BY <1>3, <1>5, <1>6
<1> QED BY <1>9, <1>10

\* A length that is there is the one that is read.
LEMMA LengthIs ==
  ASSUME NEW full, Under(full), NEW h \in Nat \ {0}, h <= Len(wire), wire \in Seq(Token),
         NEW n, full[h] = Length(n), NEW length \in Lengths(wire[h])
  PROVE  length = n
<1>1. h \in 1 .. Len(wire)
  OBVIOUS
<1>2. wire[h] = Length(n)
  BY <1>1 DEF Under
<1>3. Length(n)[1] = "len" /\ Length(n)[2] = n
  BY DEF Length
<1> QED BY <1>2, <1>3 DEF Lengths

\* A whole header is read, and what fits of the record behind it.
LEMMA RecordBegun ==
  ASSUME PlaceTypes, NEW full \in Seq(Token), Under(full), mode = "tls", sent, ~lost',
         mode' = mode, sent' = sent, cut' = cut, server' = server, nameSkipped' = nameSkipped, received' = TRUE,
         NEW plain \in Seq(Token), NEW i \in Nat, NEW end \in Nat, end <= Len(plain),
         NEW frames, NEW h \in Nat \ {0, 1}, NEW n \in Nat,
         Framed(full, frames, plain, end), Record(full, frames, plain, i, h, n), full[h] = Length(n),
         h <= Len(wire),
         \E length \in Lengths(wire[h]) :
          LET size == IF length > want THEN want ELSE length IN
          \E m \in 0 .. size :
            /\ h + m <= Len(wire)
            /\ \E err \in IF m = size THEN {"ok"} ELSE Errors(h + m) :
                 Return(SubSeq(wire, h + 1, h + m), Full(err, m), length <= want)
            /\ wire' = Rest(h + m)
            /\ remaining' = Remainder(length, m)
  PROVE  Gives(plain, i, end) /\ remaining' \in Nat
<1> DEFINE size == IF n > want THEN want ELSE n
           drops == n <= want
<1>1. PICK length \in Lengths(wire[h]) :
          LET s == IF length > want THEN want ELSE length IN
          \E m \in 0 .. s :
            /\ h + m <= Len(wire)
            /\ \E err \in IF m = s THEN {"ok"} ELSE Errors(h + m) :
                 Return(SubSeq(wire, h + 1, h + m), Full(err, m), length <= want)
            /\ wire' = Rest(h + m)
            /\ remaining' = Remainder(length, m)
  OBVIOUS
<1>2. length = n
  <2>1. wire \in Seq(Token) /\ h \in Nat \ {0}
    BY DEF PlaceTypes
  <2> QED BY <2>1, LengthIs
<1>3. PICK m \in 0 .. size :
            /\ h + m <= Len(wire)
            /\ \E err \in IF m = size THEN {"ok"} ELSE Errors(h + m) :
                 Return(SubSeq(wire, h + 1, h + m), Full(err, m), drops)
            /\ wire' = Rest(h + m)
            /\ remaining' = Remainder(n, m)
  BY <1>1, <1>2
<1>4. want \in Nat /\ size \in Nat /\ size <= n /\ size <= want /\ drops \in BOOLEAN /\ h \in Nat
      /\ m \in Nat /\ m <= n
  <2>1. want \in Nat
    BY DEF PlaceTypes
  <2> QED BY <2>1
<1>8. remaining' = IF n > want THEN n - m ELSE 0
  BY <1>3 DEF Remainder
<1>5. m = size \/ ~drops => remaining' = n - m
  <2>1. (n > want => size = want /\ ~drops) /\ (~(n > want) => size = n /\ drops)
    BY <1>4
  <2> HIDE DEF size, drops
  <2> QED BY <1>4, <1>8, <2>1
<1>6. remaining' \in Nat
  BY <1>4, <1>8
<1> HIDE DEF size, drops
<1>7. h + m <= Len(wire) /\ wire' = Rest(h + m) /\ m \in 0 .. size /\ Takes(h, m, size, drops)
  BY <1>3 DEF Takes
<1>9. Gives(plain, i, end)
  BY <1>4, <1>5, <1>7, RecordRead
<1> QED BY <1>6, <1>9

\* The header is not read.
LEMMA HeaderMissed ==
  ASSUME PlaceTypes, NEW full \in Seq(Token), Under(full), ~lost',
         mode' = mode, sent' = sent, cut' = cut, server' = server, nameSkipped' = nameSkipped, received' = TRUE,
         NEW plain \in Seq(Token), NEW i \in Nat, NEW end \in Nat, i <= end, end <= Len(plain), Wired(plain, i, end),
         NEW h \in Nat \ {0, 1}, Len(full) < h => full = << >> /\ i = end,
         NEW n \in 0 .. h - 1, n <= Len(wire), wire' = Rest(n), remaining' = remaining, matched' = matched,
         \E err \in Errors(n) : Return(<< >>, Full(err, IF n = h - 1 THEN 1 ELSE 0), n > 0 \/ ~received)
  PROVE  Gives(plain, i, end)
<1> DEFINE drops == n > 0 \/ ~received
           m == IF n = h - 1 THEN 1 ELSE 0
<1>1. PICK err \in Errors(n) : Return(<< >>, Full(err, m), drops)
  OBVIOUS
<1>2. /\ wire \in Seq(Token) /\ Len(wire) \in Nat /\ Len(full) \in Nat /\ received \in BOOLEAN /\ want \in Nat
      /\ Len(plain) \in Nat /\ n \in Nat
  BY DEF PlaceTypes
<1>3. << >> \in Seq(Token) /\ Len(<< >>) = 0 /\ drops \in BOOLEAN
  BY EmptySeq
<1>4. /\ err \in {"timeout", "eof"} /\ (err = "eof" => closed /\ n = Len(wire))
      /\ Full(err, m) \in {"timeout", "eof", "unexpected"}
      /\ (err = "timeout" => Full(err, m) = "timeout")
      /\ (err = "eof" => Ended(Full(err, m)))
  BY <1>2, ErrorIs
<1>5. drops => n > 0 \/ ~received
  OBVIOUS
<1>6. ~drops => n = 0 /\ received
  BY <1>2
<1>7. m = IF n = h - 1 THEN 1 ELSE 0
  OBVIOUS
<1> HIDE DEF drops, m
<1>8. result' = [data |-> << >>, err |-> Full(err, m)] /\ (err = "timeout" => ~drops)
  BY <1>1, <1>3, <1>4, Returned
<1>9. Holds(<< >>, plain, i) /\ Len(<< >>) <= want /\ i = i + Len(<< >>)
  BY <1>2, <1>3 DEF Holds
<1>10. wire' \in Seq(Token)
  BY <1>2, RestIs
<1>11. CASE err = "timeout"
  <2>1. n = 0 /\ received
    BY <1>6, <1>8, <1>11
  <2>2. wire' = wire
    <3>1. Rest(0) = SubSeq(wire, 0 + 1, Len(wire)) /\ 0 + 1 = 1
      BY DEF Rest
    <3> QED BY <1>2, <2>1, <3>1, SubSeqFull
  <2>3. Wired(plain, i, end)'
    <3>1. received' = received
      BY <1>2, <2>1
    <3> QED BY <2>2, <3>1, WiredStays
  <2> QED BY <1>3, <1>4, <1>8, <1>9, <1>10, <1>11, <2>3, GivesData
<1>12. CASE err = "eof"
  <2>1. Full(err, m) \in {"eof", "unexpected"} /\ closed
    BY <1>4, <1>12 DEF Ended
  <2>2. ~cut => Full(err, m) = "eof" /\ << >> = << >> /\ i = end
    <3> SUFFICES ASSUME ~cut PROVE Full(err, m) = "eof" /\ i = end
      OBVIOUS
    <3>1. full = wire /\ Len(full) = n /\ n < h
      BY <1>2, <1>4, <1>12 DEF Under
    <3>2. n = 0 /\ i = end
      BY <3>1
    <3>3. m = 0
      BY <1>7, <3>2
    <3> QED BY <1>12, <3>2, <3>3 DEF Full
  <2> QED BY <1>3, <1>8, <1>9, <1>10, <2>1, <2>2, GivesEnd
<1> QED BY <1>4, <1>11, <1>12

HasRecord(full, plain, i, end, h) ==
  \E frames : \E n \in Nat :
    Framed(full, frames, plain, end) /\ Record(full, frames, plain, i, h, n) /\ full[h] = Length(n)

LEMMA readRecordGives ==
  ASSUME PlaceTypes, NEW full \in Seq(Token), Under(full), ~lost', mode = "tls",
         mode' = mode, sent' = sent, cut' = cut, server' = server, nameSkipped' = nameSkipped, received' = TRUE,
         matched' = matched,
         NEW plain \in Seq(Token), NEW i \in Nat, NEW end \in Nat, i <= end, end <= Len(plain), Wired(plain, i, end),
         NEW h \in Nat \ {0, 1}, readRecord(h),
         (full = << >> /\ i = end) \/ (sent /\ HasRecord(full, plain, i, end, h))
  PROVE  Gives(plain, i, end) /\ remaining' \in Nat
<1>1. /\ wire \in Seq(Token) /\ Len(wire) \in Nat /\ Len(full) \in Nat /\ Len(wire) <= Len(full)
      /\ remaining \in Nat /\ h \in Nat /\ h > 1
  <2>1. wire \in Seq(Token) /\ remaining \in Nat
    BY DEF PlaceTypes
  <2>2. Len(wire) \in Nat /\ Len(full) \in Nat
    BY <2>1, LenProperties
  <2>3. Len(wire) <= Len(full)
    BY DEF Under
  <2>4. h \in Nat /\ h > 1
    OBVIOUS
  <2> QED BY <2>1, <2>2, <2>3, <2>4
<1>2. HasRecord(full, plain, i, end, h) => h <= Len(full)
  <2> SUFFICES ASSUME HasRecord(full, plain, i, end, h) PROVE h <= Len(full)
    OBVIOUS
  <2>1. PICK frames : \E n \in Nat :
          Framed(full, frames, plain, end) /\ Record(full, frames, plain, i, h, n) /\ full[h] = Length(n)
    BY DEF HasRecord
  <2>2. PICK n \in Nat : Framed(full, frames, plain, end) /\ Record(full, frames, plain, i, h, n)
    BY <2>1
  <2>3. h + n <= Len(full)
    BY <1>1, <2>2, RecordFits
  <2> QED BY <1>1, <2>3
<1>3. Len(full) < h => full = << >> /\ i = end
  BY <1>1, <1>2
<1>4. ASSUME NEW n \in 0 .. h - 1, n <= Len(wire), remaining' = remaining,
             \E err \in Errors(n) :
               wire' = Rest(n) /\ Return(<< >>, Full(err, IF n = h - 1 THEN 1 ELSE 0), n > 0 \/ ~received)
      PROVE  Gives(plain, i, end) /\ remaining' \in Nat
  <2>1. wire' = Rest(n) /\ \E err \in Errors(n) : Return(<< >>, Full(err, IF n = h - 1 THEN 1 ELSE 0), n > 0 \/ ~received)
    BY <1>4
  <2>2. Gives(plain, i, end)
    BY <1>3, <1>4, <2>1, HeaderMissed
  <2> QED BY <1>1, <1>4, <2>2
<1>5. ASSUME h <= Len(wire),
             \E length \in Lengths(wire[h]) :
               LET size == IF length > want THEN want ELSE length IN
               \E n \in 0 .. size :
                 /\ h + n <= Len(wire)
                 /\ \E err \in IF n = size THEN {"ok"} ELSE Errors(h + n) :
                      Return(SubSeq(wire, h + 1, h + n), Full(err, n), length <= want)
                 /\ wire' = Rest(h + n)
                 /\ remaining' = Remainder(length, n)
      PROVE  Gives(plain, i, end) /\ remaining' \in Nat
  <2>1. ~(full = << >>)
    <3>1. Len(full) > 0
      BY <1>1, <1>5
    <3> QED BY <3>1
  <2>2. sent /\ HasRecord(full, plain, i, end, h)
    BY <2>1
  <2>3. PICK frames : \E n \in Nat :
          Framed(full, frames, plain, end) /\ Record(full, frames, plain, i, h, n) /\ full[h] = Length(n)
    BY <2>2 DEF HasRecord
  <2>4. PICK n \in Nat : Framed(full, frames, plain, end) /\ Record(full, frames, plain, i, h, n) /\ full[h] = Length(n)
    BY <2>3
  <2> QED BY <1>5, <2>2, <2>4, RecordBegun
<1> QED BY <1>4, <1>5 DEF readRecord

LEMMA HelloGives ==
  ASSUME PlaceTypes, ReadHello, ~lost', cut' = cut, sent' = sent, mode' = mode, server' = server,
         NEW plain \in Seq(Token), NEW i \in Nat, NEW end \in Nat, end <= Len(plain), Wired(plain, i, end)
  PROVE  Gives(plain, i, end) /\ remaining' \in Nat
<1>1. PICK full \in Seq(Token) : Under(full) /\ (CarriesNothing(full, i, end) \/ CarriesRecords(full, plain, i, end))
  BY DEF Wired, ReadHello, CarriesPlain, CarriesHead
<1>2. /\ mode = "tls" /\ ~received /\ received' = TRUE /\ nameSkipped' = nameSkipped /\ matched' = matched
      /\ readRecord(HelloLen) /\ HelloLen \in Nat \ {0, 1}
  BY ObfsAssumption DEF ReadHello
<1>3. CASE CarriesNothing(full, i, end)
  <2>1. full = << >> /\ i = end /\ i <= end
    BY <1>3 DEF CarriesNothing
  <2> QED BY <1>1, <1>2, <2>1, readRecordGives
<1>4. CASE CarriesRecords(full, plain, i, end)
  <2>1. PICK frames : Framed(full, frames, plain, end) /\ Lead(full, frames, plain, i)
    BY <1>4 DEF CarriesRecords
  <2>2. sent
    BY <1>4 DEF CarriesRecords
  <2>3. PICK n \in Nat : Record(full, frames, plain, i, HelloLen, n) /\ full[HelloLen] = Length(n)
    BY <1>2, <2>1 DEF Lead, Record
  <2>4. HasRecord(full, plain, i, end, HelloLen)
    BY <2>1, <2>3 DEF HasRecord
  <2>5. i <= end
    <3>1. i + n <= end
      BY <1>2, <2>1, <2>3, RecordFits
    <3> QED BY <3>1
  <2> QED BY <1>1, <1>2, <2>2, <2>4, <2>5, readRecordGives
<1> QED BY <1>1, <1>3, <1>4

LEMMA RecordGives ==
  ASSUME PlaceTypes, ReadRecord, ~lost', cut' = cut, sent' = sent, mode' = mode, server' = server,
         NEW plain \in Seq(Token), NEW i \in Nat, NEW end \in Nat, end <= Len(plain), Wired(plain, i, end)
  PROVE  Gives(plain, i, end) /\ remaining' \in Nat
<1>1. PICK full \in Seq(Token) : Under(full) /\ CarriesRecords(full, plain, i, end)
  BY DEF Wired, ReadRecord, CarriesPlain, CarriesNothing, CarriesHead
<1>2. /\ mode = "tls" /\ received /\ received' = TRUE /\ nameSkipped' = nameSkipped /\ matched' = matched
      /\ readRecord(RecordLen) /\ RecordLen \in Nat \ {0, 1} /\ remaining = 0 /\ (server => nameSkipped)
  BY ObfsAssumption DEF ReadRecord, PlaceTypes
<1>3. sent
  BY <1>1 DEF CarriesRecords
<1>4. PICK frames : Framed(full, frames, plain, end) /\ Lead(full, frames, plain, i)
  BY <1>1 DEF CarriesRecords
<1>5. << 1, i >> \in frames
  <2>1. PICK n \in Nat : n = 0 /\ << 0 + n + 0 + 1, i + n >> \in frames
    BY <1>2, <1>4 DEF Lead
  <2>2. 0 + n + 0 + 1 = 1 /\ i + n = i
    BY <2>1
  <2> QED BY <2>1, <2>2
<1>6. /\ 1 \in 1 .. Len(full) + 1 /\ i <= end
      /\ \/ 1 = Len(full) + 1 /\ i = end
         \/ \E n \in Nat :
              /\ << 1 + RecordLen + n, i + n >> \in frames
              /\ full[1 + RecordLen - 1] = Length(n)
              /\ \A k \in 1 .. n : full[1 + RecordLen - 1 + k] = plain[i + k]
  <2>1. 1 \in Nat
    OBVIOUS
  <2> QED BY <1>4, <1>5, <2>1 DEF Framed
<1>7. CASE 1 = Len(full) + 1 /\ i = end
  <2>1. full = << >>
    <3>1. Len(full) = 0
      BY <1>7
    <3> QED BY <3>1, EmptySeq
  <2> QED BY <1>1, <1>2, <1>6, <1>7, <2>1, readRecordGives
<1>8. ASSUME NEW n \in Nat, << 1 + RecordLen + n, i + n >> \in frames,
             full[1 + RecordLen - 1] = Length(n),
             \A k \in 1 .. n : full[1 + RecordLen - 1 + k] = plain[i + k]
      PROVE  Gives(plain, i, end) /\ remaining' \in Nat
  <2>1. 1 + RecordLen + n = RecordLen + n + 0 + 1 /\ 1 + RecordLen - 1 = RecordLen
        /\ \A k \in 1 .. n : 1 + RecordLen - 1 + k = RecordLen + k
    BY <1>2
  <2>2. Record(full, frames, plain, i, RecordLen, n)
    BY <1>2, <1>8, <2>1 DEF Record
  <2>3. full[RecordLen] = Length(n)
    BY <1>8, <2>1
  <2>4. HasRecord(full, plain, i, end, RecordLen)
    BY <1>4, <2>2, <2>3 DEF HasRecord
  <2> QED BY <1>1, <1>2, <1>3, <1>6, <2>4, readRecordGives
<1> QED BY <1>6, <1>7, <1>8

LEMMA SkipGives ==
  ASSUME PlaceTypes, SkipName, ~lost', cut' = cut, sent' = sent, mode' = mode, server' = server,
         NEW plain \in Seq(Token), NEW i \in Nat, NEW end \in Nat, end <= Len(plain), Wired(plain, i, end)
  PROVE  Gives(plain, i, end)
<1>1. PICK full \in Seq(Token) : Under(full) /\ CarriesRecords(full, plain, i, end)
  BY DEF Wired, SkipName, CarriesPlain, CarriesNothing, CarriesHead
<1>2. /\ mode = "tls" /\ received /\ received' = received /\ nameSkipped' = TRUE /\ remaining' = remaining
      /\ remaining = 0 /\ server /\ ~nameSkipped /\ result = NoResult
      /\ NameLen \in Nat \ {0, 1} /\ NameTail \in Nat \ {0}
  BY ObfsAssumption DEF SkipName, Reading
<1>3. sent
  BY <1>1 DEF CarriesRecords
<1>4. PICK frames : Framed(full, frames, plain, end) /\ Lead(full, frames, plain, i)
  BY <1>1 DEF CarriesRecords
<1>5. /\ wire \in Seq(Token) /\ Len(wire) \in Nat /\ Len(full) \in Nat /\ Len(wire) <= Len(full) /\ want \in Nat
      /\ Len(plain) \in Nat
  BY <1>1 DEF PlaceTypes, Under
<1> DEFINE d == NameLen + NameTail
<1>6. d \in Nat /\ d > NameLen /\ d = NameLen + NameTail
  BY <1>2
<1>7. << d + 1, i >> \in frames /\ full[NameLen] = Length(NameTail)
  <2>1. PICK n \in Nat : n = 0 /\ << 0 + n + d + 1, i + n >> \in frames /\ full[0 + n + NameLen] = Length(NameTail)
    BY <1>2, <1>4 DEF Lead
  <2>2. 0 + n + d + 1 = d + 1 /\ i + n = i /\ 0 + n + NameLen = NameLen
    BY <1>2, <1>6, <2>1
  <2> QED BY <2>1, <2>2
<1> HIDE DEF d
<1>8. d <= Len(full) /\ i <= end
  <2>1. d + 1 \in Nat
    BY <1>6
  <2>2. d + 1 \in 1 .. Len(full) + 1 /\ i <= end
    BY <1>4, <1>7, <2>1 DEF Framed
  <2> QED BY <1>5, <1>6, <2>2
<1>9. \A n \in Nat : n < d /\ n = Len(wire) => cut
  BY <1>1, <1>5, <1>6, <1>8 DEF Under
<1>10. << >> \in Seq(Token) /\ Len(<< >>) = 0 /\ Holds(<< >>, plain, i) /\ Len(<< >>) <= want
  <2>1. << >> \in Seq(Token) /\ Len(<< >>) = 0
    BY EmptySeq
  <2>2. i + 0 <= Len(plain)
    BY <1>5, <1>8
  <2> QED BY <1>5, <2>1, <2>2 DEF Holds
<1>11. ASSUME NEW n \in Nat, n < d, n <= Len(wire), wire' = Rest(n), NEW err \in Errors(n), NEW m,
              Return(<< >>, Full(err, m), TRUE)
       PROVE  Gives(plain, i, end)
  <2>1. /\ err \in {"timeout", "eof"} /\ (err = "eof" => closed /\ n = Len(wire))
        /\ Full(err, m) \in {"timeout", "eof", "unexpected"}
        /\ (err = "timeout" => Full(err, m) = "timeout")
        /\ (err = "eof" => Ended(Full(err, m)))
    BY <1>11, ErrorIs
  <2>2. result' = [data |-> << >>, err |-> Full(err, m)] /\ err # "timeout"
    <3>1. TRUE \in BOOLEAN
      OBVIOUS
    <3> QED BY <1>10, <1>11, <2>1, <3>1, Returned
  <2>3. Full(err, m) \in {"eof", "unexpected"} /\ closed /\ cut
    BY <1>9, <1>11, <2>1, <2>2 DEF Ended
  <2>4. wire' \in Seq(Token)
    BY <1>1, <1>5, <1>11, RestIs
  <2> QED BY <1>10, <2>2, <2>3, <2>4, GivesEnd
<1>12. ASSUME NameLen <= Len(wire), NEW tail \in Lengths(wire[NameLen])
       PROVE  tail = NameTail
  <2>1. NameLen \in Nat \ {0}
    BY <1>2
  <2> QED BY <1>1, <1>5, <1>7, <1>12, <2>1, LengthIs
<1>13. ASSUME d <= Len(wire), wire' = Rest(d), result' = result
       PROVE  Gives(plain, i, end)
  <2> DEFINE rest == SubSeq(full, d + 1, Len(full))
             later == Later(frames, d)
  <2>1. /\ Rest(d) \in Seq(Token) /\ rest \in Seq(Token)
        /\ Len(Rest(d)) <= Len(rest) /\ (\A k \in 1 .. Len(Rest(d)) : Rest(d)[k] = rest[k])
        /\ ~cut => rest = Rest(d)
    BY <1>1, <1>5, <1>6, <1>13, RestIs
  <2>2. Framed(rest, later, plain, end)
    BY <1>4, <1>6, <1>8, FramesLater
  <2>3. << 1, i >> \in later
    <3>1. 1 + d = d + 1 /\ 1 \in Nat /\ 1 > 0
      BY <1>6
    <3> QED BY <1>7, <3>1 DEF Later
  <2> HIDE DEF rest, later
  <2>4. Under(rest)'
    BY <1>13, <2>1 DEF Under
  <2>5. Lead(rest, later, plain, i)'
    <3>1. 0 + 0 + 0 + 1 = 1 /\ i + 0 = i /\ 0 \in Nat /\ \A k \in 1 .. 0 : FALSE
      OBVIOUS
    <3>2. << 0 + 0 + 0 + 1, i + 0 >> \in later /\ \A k \in 1 .. 0 : rest[0 + k] = plain[i + k]
      BY <2>3, <3>1
    <3>3. received' = TRUE /\ nameSkipped' = TRUE /\ remaining' = 0
      BY <1>2
    <3> QED BY <3>2, <3>3 DEF Lead
  <2>6. CarriesRecords(rest, plain, i, end)'
    <3>1. Framed(rest, later, plain, end)'
      BY <2>2 DEF Framed
    <3> QED BY <1>2, <1>3, <2>5, <3>1 DEF CarriesRecords
  <2>7. Wired(plain, i, end)'
    BY <2>1, <2>4, <2>6 DEF Wired
  <2>8. wire' \in Seq(Token) /\ result' = NoResult
    BY <1>2, <1>13, <2>1
  <2> QED BY <2>7, <2>8, GivesNothing
<1>14. CASE /\ NameLen <= Len(wire)
            /\ \E tail \in Lengths(wire[NameLen]) :
                 \/ /\ NameLen + tail <= Len(wire)
                    /\ wire' = Rest(NameLen + tail) /\ UNCHANGED << result, timeouts, lost >>
                 \/ \E n \in NameLen .. NameLen + tail - 1 :
                      /\ n <= Len(wire)
                      /\ wire' = Rest(n) /\ \E err \in Errors(n) : Return(<< >>, err, TRUE)
  <2>1. PICK tail \in Lengths(wire[NameLen]) :
                 \/ /\ NameLen + tail <= Len(wire)
                    /\ wire' = Rest(NameLen + tail) /\ UNCHANGED << result, timeouts, lost >>
                 \/ \E n \in NameLen .. NameLen + tail - 1 :
                      /\ n <= Len(wire)
                      /\ wire' = Rest(n) /\ \E err \in Errors(n) : Return(<< >>, err, TRUE)
    BY <1>14
  <2>2. NameLen + tail = d
    BY <1>6, <1>12, <1>14
  <2>3. CASE NameLen + tail <= Len(wire) /\ wire' = Rest(NameLen + tail) /\ UNCHANGED << result, timeouts, lost >>
    <3>1. d <= Len(wire) /\ wire' = Rest(d) /\ result' = result
      BY <2>2, <2>3
    <3> QED BY <1>13, <3>1
  <2>4. CASE \E n \in NameLen .. NameLen + tail - 1 :
               /\ n <= Len(wire)
               /\ wire' = Rest(n) /\ \E err \in Errors(n) : Return(<< >>, err, TRUE)
    <3>1. PICK n \in NameLen .. NameLen + tail - 1 :
               /\ n <= Len(wire)
               /\ wire' = Rest(n) /\ \E err \in Errors(n) : Return(<< >>, err, TRUE)
      BY <2>4
    <3>2. PICK err \in Errors(n) : Return(<< >>, err, TRUE)
      BY <3>1
    <3>6. tail = NameTail
      BY <1>12, <1>14
    <3>7. n \in NameLen .. NameLen + NameTail - 1
      BY <3>6
    <3>3. n \in Nat /\ n < d
      BY <1>2, <1>6, <3>7
    <3>4. Full(err, 0) = err
      BY DEF Full
    <3>5. Return(<< >>, Full(err, 0), TRUE)
      BY <3>2, <3>4
    <3> QED BY <1>11, <3>1, <3>3, <3>5
  <2> QED BY <2>1, <2>3, <2>4
<1>15. CASE \E n \in 0 .. NameLen - 1 :
              /\ n <= Len(wire) /\ wire' = Rest(n)
              /\ \E err \in Errors(n) : Return(<< >>, Full(err, IF n = NameLen - 1 THEN 1 ELSE 0), TRUE)
  <2>1. PICK n \in 0 .. NameLen - 1 :
              /\ n <= Len(wire) /\ wire' = Rest(n)
              /\ \E err \in Errors(n) : Return(<< >>, Full(err, IF n = NameLen - 1 THEN 1 ELSE 0), TRUE)
    BY <1>15
  <2>2. PICK err \in Errors(n) : Return(<< >>, Full(err, IF n = NameLen - 1 THEN 1 ELSE 0), TRUE)
    BY <2>1
  <2>3. n \in Nat /\ n < d
    BY <1>2, <1>6
  <2> QED BY <1>11, <2>1, <2>2, <2>3
<1> QED BY <1>14, <1>15 DEF SkipName

\* Each Read of the connection.
LEMMA ReadGives ==
  ASSUME PlaceTypes, Read, ~lost', mode' = mode, server' = server,
         NEW plain \in Seq(Token), NEW i \in Nat, NEW end \in Nat, end <= Len(plain), Wired(plain, i, end)
  PROVE  /\ Gives(plain, i, end) /\ remaining' \in Nat /\ matched' \in 0 .. 3 /\ timeouts' \in Nat
         /\ received' \in BOOLEAN /\ nameSkipped' \in BOOLEAN
<1>1. cut' = cut /\ sent' = sent
  BY DEF Read
<1>2. /\ remaining \in Nat /\ matched \in 0 .. 3 /\ received \in BOOLEAN /\ nameSkipped \in BOOLEAN /\ timeouts \in Nat
  BY DEF PlaceTypes
<1>3. timeouts' \in Nat
  BY <1>2 DEF Read, ReadConn, ReadHead, ReadHello, SkipName, ReadRemaining, ReadRecord, readRecord, Return
<1>4. received' \in BOOLEAN /\ nameSkipped' \in BOOLEAN
  BY <1>2 DEF Read, ReadConn, ReadHead, ReadHello, SkipName, ReadRemaining, ReadRecord
<1>5. CASE ReadConn
  <2>1. remaining' = remaining /\ matched' = matched
    BY <1>5 DEF ReadConn
  <2> QED BY <1>1, <1>2, <1>3, <1>4, <1>5, <2>1, ConnGives
<1>6. CASE ReadHead
  <2>1. remaining' = remaining
    BY <1>6 DEF ReadHead
  <2> QED BY <1>1, <1>2, <1>3, <1>4, <1>6, <2>1, HeadGives
<1>7. CASE ReadHello
  <2>1. matched' = matched
    BY <1>7 DEF ReadHello
  <2> QED BY <1>1, <1>2, <1>3, <1>4, <1>7, <2>1, HelloGives
<1>8. CASE SkipName
  <2>1. remaining' = remaining /\ matched' = matched
    BY <1>8 DEF SkipName
  <2> QED BY <1>1, <1>2, <1>3, <1>4, <1>8, <2>1, SkipGives
<1>9. CASE ReadRemaining
  <2>1. matched' = matched
    BY <1>9 DEF ReadRemaining
  <2> QED BY <1>1, <1>2, <1>3, <1>4, <1>9, <2>1, RemainingGives
<1>10. CASE ReadRecord
  <2>1. matched' = matched
    BY <1>10 DEF ReadRecord
  <2> QED BY <1>1, <1>2, <1>3, <1>4, <1>10, <2>1, RecordGives
<1> QED BY <1>5, <1>6, <1>7, <1>8, <1>9, <1>10 DEF Read

-----------------------------------------------------------------------------
\* The stream.

LEMMA HoldsJoin ==
  ASSUME NEW plain \in Seq(Token), NEW s \in Seq(Token), NEW t \in Seq(Token), NEW i \in Nat,
         Holds(s, plain, i), Holds(t, plain, i + Len(s))
  PROVE  s \o t \in Seq(Token) /\ Len(s \o t) = Len(s) + Len(t) /\ Holds(s \o t, plain, i)
<1> DEFINE u == s \o t
<1>1. /\ u \in Seq(Token) /\ Len(u) = Len(s) + Len(t) /\ Len(s) \in Nat /\ Len(t) \in Nat
      /\ \A k \in 1 .. Len(s) : u[k] = s[k]
      /\ \A k \in 1 .. Len(t) : u[Len(s) + k] = t[k]
  BY Joined
<1> HIDE DEF u
<1>2. /\ i + Len(s) <= Len(plain) /\ \A k \in 1 .. Len(s) : s[k] = plain[i + k]
      /\ (i + Len(s)) + Len(t) <= Len(plain) /\ \A k \in 1 .. Len(t) : t[k] = plain[(i + Len(s)) + k]
      /\ Len(plain) \in Nat
  BY DEF Holds
<1>3. i + Len(u) <= Len(plain)
  BY <1>1, <1>2
<1>4. ASSUME NEW k \in 1 .. Len(u) PROVE u[k] = plain[i + k]
  <2>1. CASE k <= Len(s)
    <3>1. k \in 1 .. Len(s)
      BY <1>1, <2>1
    <3> QED BY <1>1, <1>2, <3>1
  <2>2. CASE k > Len(s)
    <3>1. PICK j \in 1 .. Len(t) : k = Len(s) + j /\ (i + Len(s)) + j = i + k
      <4>1. k - Len(s) \in 1 .. Len(t) /\ k = Len(s) + (k - Len(s)) /\ (i + Len(s)) + (k - Len(s)) = i + k
        BY <1>1, <2>2
      <4> QED BY <4>1
    <3> QED BY <1>1, <1>2, <3>1
  <2> QED BY <1>1, <2>1, <2>2
<1>5. Holds(u, plain, i)
  BY <1>3, <1>4 DEF Holds
<1> QED BY <1>1, <1>5 DEF u

LEMMA HoldsSplit ==
  ASSUME NEW plain \in Seq(Token), NEW s \in Seq(Token), NEW i \in Nat, Holds(s, plain, i), NEW n \in Nat, n <= Len(s)
  PROVE  /\ SubSeq(s, 1, n) \in Seq(Token) /\ Len(SubSeq(s, 1, n)) = n /\ Holds(SubSeq(s, 1, n), plain, i)
         /\ SubSeq(s, n + 1, Len(s)) \in Seq(Token) /\ Len(SubSeq(s, n + 1, Len(s))) = Len(s) - n
         /\ Holds(SubSeq(s, n + 1, Len(s)), plain, i + n)
<1> DEFINE a == SubSeq(s, 0 + 1, n)
           b == SubSeq(s, n + 1, Len(s))
<1>1. Len(s) \in Nat /\ 0 + 1 = 1 /\ 0 \in Nat /\ 0 <= n /\ Len(plain) \in Nat
  OBVIOUS
<1>2. a \in Seq(Token) /\ Len(a) = n - 0 /\ \A k \in 1 .. n - 0 : a[k] = s[0 + k]
  BY <1>1, Part
<1>3. b \in Seq(Token) /\ Len(b) = Len(s) - n /\ \A k \in 1 .. Len(s) - n : b[k] = s[n + k]
  BY <1>1, Part
<1> HIDE DEF a, b
<1>4. i + Len(s) <= Len(plain) /\ \A k \in 1 .. Len(s) : s[k] = plain[i + k]
  BY DEF Holds
<1>5. Holds(a, plain, i)
  <2>1. \A k \in 1 .. n : k \in 1 .. n - 0 /\ k \in 1 .. Len(s) /\ 0 + k = k
    BY <1>1
  <2>2. \A k \in 1 .. n : a[k] = plain[i + k]
    BY <1>2, <1>4, <2>1
  <2>3. Len(a) = n /\ i + n <= Len(plain)
    BY <1>1, <1>2, <1>4
  <2> QED BY <2>2, <2>3 DEF Holds
<1>6. Holds(b, plain, i + n)
  <2>1. \A k \in 1 .. Len(s) - n : n + k \in 1 .. Len(s) /\ i + (n + k) = (i + n) + k
    BY <1>1
  <2>2. \A k \in 1 .. Len(s) - n : b[k] = plain[(i + n) + k]
    BY <1>3, <1>4, <2>1
  <2>3. (i + n) + Len(b) <= Len(plain)
    BY <1>1, <1>3, <1>4
  <2> QED BY <1>3, <2>2, <2>3 DEF Holds
<1> QED BY <1>1, <1>2, <1>3, <1>5, <1>6 DEF a, b

Extends(longer, plain) == Len(plain) <= Len(longer) /\ \A k \in 1 .. Len(plain) : longer[k] = plain[k]

LEMMA HoldsMore ==
  ASSUME NEW plain \in Seq(Token), NEW longer \in Seq(Token), Extends(longer, plain),
         NEW s \in Seq(Token), NEW i \in Nat, Holds(s, plain, i)
  PROVE  Holds(s, longer, i)
<1>1. /\ Len(plain) \in Nat /\ Len(longer) \in Nat /\ Len(s) \in Nat /\ Len(plain) <= Len(longer)
      /\ \A k \in 1 .. Len(plain) : longer[k] = plain[k]
      /\ i + Len(s) <= Len(plain) /\ \A k \in 1 .. Len(s) : s[k] = plain[i + k]
  BY DEF Extends, Holds
<1>2. \A k \in 1 .. Len(s) : i + k \in 1 .. Len(plain)
  BY <1>1
<1>3. \A k \in 1 .. Len(s) : s[k] = longer[i + k]
  BY <1>1, <1>2
<1>4. i + Len(s) <= Len(longer)
  BY <1>1
<1> QED BY <1>3, <1>4 DEF Holds

LEMMA PieceIs ==
  ASSUME NEW n \in Nat, NEW size \in Nat
  PROVE  /\ Piece(n, size) \in Seq(Token) /\ Len(Piece(n, size)) = size
         /\ \A k \in 1 .. size : Piece(n, size)[k] = Byte(n, k)
<1>1. \A k \in 1 .. size : Byte(n, k) \in Token
  BY DEF Byte, Token
<1>2. Piece(n, size) \in [1 .. size -> Token]
  BY <1>1 DEF Piece
<1>3. Piece(n, size) \in Seq(Token)
  BY <1>2, SeqDef
<1>4. Len(Piece(n, size)) = size
  BY <1>2, <1>3, LenProperties
<1> QED BY <1>3, <1>4 DEF Piece

\* What has the bytes of a piece is that piece.
LEMMA PieceHeld ==
  ASSUME NEW s \in Seq(Token), NEW n \in Nat, \A k \in 1 .. Len(s) : s[k] = Byte(n, k)
  PROVE  s = Piece(n, Len(s))
<1> DEFINE p == Piece(n, Len(s))
<1>1. Len(s) \in Nat
  OBVIOUS
<1>2. p \in Seq(Token) /\ Len(p) = Len(s) /\ \A k \in 1 .. Len(s) : p[k] = Byte(n, k)
  BY <1>1, PieceIs
<1> HIDE DEF p
<1>3. p = s
  BY <1>2, SeqEqual
<1> QED BY <1>3 DEF p

LEMMA ExtentIs ==
  ASSUME NEW pieces \in Seq(Pieces), NEW n \in 0 .. Len(pieces)
  PROVE  Extent(pieces, n) \in Nat
<1>1. SaltLen \in Nat
  BY ReaderAssumption
<1>2. CASE n = 0
  BY <1>1, <1>2 DEF Extent
<1>3. CASE n # 0
  <2>1. n \in 1 .. Len(pieces)
    BY <1>3
  <2>2. pieces[n] \in Pieces
    BY <2>1, ElementOfSeq
  <2>3. pieces[n].size \in Nat /\ pieces[n].pad \in Nat
    BY <2>2 DEF Pieces
  <2>4. \A p \in Nat, q \in Nat : p + q \in Nat /\ p + 0 \in Nat
    OBVIOUS
  <2> QED BY <1>3, <2>3, <2>4 DEF Extent
<1> QED BY <1>2, <1>3

LEMMA SaltLaid ==
  ASSUME NEW start, start[0] = 0, start[1] = SaltLen
  PROVE  Laid(<< >>, Salt, start)
<1>1. SaltLen \in Nat /\ 0 \in Nat
  BY ReaderAssumption
<1>2. Len(Salt) = SaltLen /\ \A k \in 1 .. SaltLen : Salt[k] = Byte(0, k)
  BY <1>1, PieceIs DEF Salt
<1>3. Len(<< >>) = 0 /\ 0 + 1 = 1
  BY EmptySeq
<1>4. \A n \in 0 .. 0 : n = 0
  OBVIOUS
<1>5. Extent(<< >>, 0) = SaltLen
  BY DEF Extent
<1>6. \A k \in 1 .. SaltLen : 0 + k = k
  BY <1>1
<1> QED BY <1>1, <1>2, <1>3, <1>4, <1>5, <1>6 DEF Laid

Sized(piece, size) == size = piece.size + (IF Zero(piece) THEN piece.pad ELSE 0)

Marked(start, n, place) == [start EXCEPT ![n] = place]

LEMMA LaidMore ==
  ASSUME NEW pieces \in Seq(Pieces), NEW plain \in Seq(Token), NEW start \in [Nat -> Nat], Laid(pieces, plain, start),
         NEW piece \in Pieces, NEW size \in Nat, Sized(piece, size)
  PROVE  LET after == Marked(start, Len(pieces) + 2, Len(plain) + size)
             more == plain \o Piece(Len(pieces) + 1, size)
         IN
         /\ after \in [Nat -> Nat] /\ more \in Seq(Token) /\ Len(more) = Len(plain) + size
         /\ Extends(more, plain) /\ after[0] = start[0] /\ Holds(Piece(Len(pieces) + 1, size), more, Len(plain))
         /\ Laid(Append(pieces, piece), more, after)
<1> DEFINE m == Len(pieces)
           l == Len(plain)
           all == Append(pieces, piece)
           bytes == Piece(m + 1, size)
           after == Marked(start, m + 2, l + size)
           more == plain \o bytes
<1>0. m \in Nat /\ l \in Nat /\ size \in Nat
  <2>1. m \in Nat
    BY LenProperties
  <2>2. l \in Nat
    BY LenProperties
  <2>3. size \in Nat
    OBVIOUS
  <2> HIDE DEF m, l
  <2> QED BY <2>1, <2>2, <2>3
<1>1. m \in Nat /\ l \in Nat /\ m + 2 \in Nat /\ l + size \in Nat /\ m + 1 \in Nat
  <2> HIDE DEF m, l
  <2> QED BY <1>0
<1>2. /\ all \in Seq(Pieces) /\ Len(all) = m + 1 /\ all[m + 1] = piece
      /\ \A n \in 1 .. m : all[n] = pieces[n]
  BY AppendProperties
<1>3. bytes \in Seq(Token) /\ Len(bytes) = size /\ \A k \in 1 .. size : bytes[k] = Byte(m + 1, k)
  BY <1>1, PieceIs
<1>4. after = [start EXCEPT ![m + 2] = l + size] /\ more = plain \o bytes
  BY DEF Marked
<1>5. /\ l = start[m + 1]
      /\ \A n \in 0 .. m :
           /\ start[n + 1] = start[n] + Extent(pieces, n) /\ start[n + 1] <= l
           /\ \A k \in 1 .. Extent(pieces, n) : plain[start[n] + k] = Byte(n, k)
  BY DEF Laid
<1>6. m = Len(pieces) /\ l = Len(plain)
  OBVIOUS
<1> HIDE DEF m, l, all, bytes, after, more
<1>7. /\ more \in Seq(Token) /\ Len(more) = l + size
      /\ \A k \in 1 .. l : more[k] = plain[k]
      /\ \A k \in 1 .. size : more[l + k] = bytes[k]
  BY <1>3, <1>4, <1>6, Joined
<1>8. /\ after \in [Nat -> Nat] /\ after[m + 2] = l + size
      /\ \A n \in 0 .. m + 1 : after[n] = start[n]
  <2>1. \A n \in 0 .. m + 1 : n \in Nat /\ n # m + 2
    BY <1>1
  <2>2. \A n \in Nat : n # m + 2 => after[n] = start[n]
    BY <1>4
  <2>3. after[m + 2] = l + size
    BY <1>1, <1>4
  <2>4. after \in [Nat -> Nat]
    BY <1>1, <1>4
  <2> QED BY <2>1, <2>2, <2>3, <2>4
<1>9. Extent(all, m + 1) = size
  <2>1. m + 1 # 0
    BY <1>1
  <2> QED BY <1>2, <2>1 DEF Extent, Sized
<1>10. \A n \in 0 .. m : Extent(all, n) = Extent(pieces, n) /\ Extent(pieces, n) \in Nat
  <2>1. \A n \in 0 .. m : Extent(pieces, n) \in Nat
    BY <1>6, ExtentIs
  <2>2. ASSUME NEW n \in 0 .. m PROVE Extent(all, n) = Extent(pieces, n)
    <3>1. n = 0 \/ n \in 1 .. m
      BY <1>1
    <3>2. CASE n = 0
      BY <3>2 DEF Extent
    <3>3. CASE n \in 1 .. m
      <4>1. all[n] = pieces[n]
        BY <1>2, <3>3
      <4> QED BY <4>1 DEF Extent
    <3> QED BY <3>1, <3>2, <3>3
  <2> QED BY <2>1, <2>2
<1>11. ASSUME NEW n \in 0 .. m
       PROVE  /\ after[n + 1] = after[n] + Extent(all, n) /\ after[n + 1] <= l + size
              /\ \A k \in 1 .. Extent(all, n) : more[after[n] + k] = Byte(n, k)
  <2>1. n \in 0 .. m + 1 /\ n + 1 \in 0 .. m + 1 /\ n \in Nat
    BY <1>1
  <2>2. /\ after[n] = start[n] /\ after[n + 1] = start[n + 1] /\ start[n] \in Nat /\ start[n + 1] \in Nat
        /\ Extent(all, n) = Extent(pieces, n) /\ Extent(pieces, n) \in Nat
    BY <1>8, <1>10, <2>1
  <2>3. start[n + 1] = start[n] + Extent(pieces, n) /\ start[n + 1] <= l
    BY <1>5
  <2>4. \A k \in 1 .. Extent(pieces, n) : start[n] + k \in 1 .. l
    <3> DEFINE e == Extent(pieces, n)
               from == start[n]
               to == start[n + 1]
    <3>1. from \in Nat /\ to \in Nat /\ e \in Nat /\ l \in Nat /\ to = from + e /\ to <= l
      BY <1>1, <2>2, <2>3
    <3> HIDE DEF e, from, to
    <3>2. \A k \in 1 .. e : from + k \in 1 .. l
      BY <3>1
    <3> QED BY <3>2 DEF e, from
  <2>5. \A k \in 1 .. Extent(pieces, n) : more[start[n] + k] = Byte(n, k)
    BY <1>5, <1>7, <2>4
  <2> QED BY <1>1, <2>2, <2>3, <2>5
<1>12. /\ after[(m + 1) + 1] = after[m + 1] + Extent(all, m + 1) /\ after[(m + 1) + 1] <= l + size
       /\ \A k \in 1 .. Extent(all, m + 1) : more[after[m + 1] + k] = Byte(m + 1, k)
  <2>1. (m + 1) + 1 = m + 2 /\ m + 1 \in 0 .. m + 1
    BY <1>1
  <2>2. after[m + 1] = l
    BY <1>5, <1>8, <2>1
  <2>3. after[(m + 1) + 1] = l + size
    BY <1>8, <2>1
  <2>4. \A k \in 1 .. size : more[l + k] = Byte(m + 1, k)
    BY <1>3, <1>7
  <2>5. l + size <= l + size
    BY <1>1
  <2> QED BY <1>9, <2>2, <2>3, <2>4, <2>5
<1>13. \A n \in 0 .. m + 1 : n \in 0 .. m \/ n = m + 1
  BY <1>1
<1>14. Laid(all, more, after)
  <2>1. Len(more) = after[Len(all) + 1]
    <3>1. (m + 1) + 1 = m + 2
      BY <1>1
    <3> QED BY <1>2, <1>7, <1>8, <3>1
  <2> QED BY <1>2, <1>7, <1>11, <1>12, <1>13, <2>1 DEF Laid
<1>15. Extends(more, plain)
  BY <1>1, <1>6, <1>7 DEF Extends
<1>16. after[0] = start[0]
  <2>1. 0 \in 0 .. m + 1
    BY <1>1
  <2> QED BY <1>8, <2>1
<1>17. Holds(bytes, more, l)
  <2>1. l + Len(bytes) <= Len(more)
    BY <1>1, <1>3, <1>7
  <2> QED BY <1>3, <1>7, <2>1 DEF Holds
<1> QED BY <1>7, <1>8, <1>14, <1>15, <1>16, <1>17 DEF m, l, all, bytes, after, more

LEMMA ExtendsOn ==
  ASSUME NEW a \in Seq(Token), NEW b \in Seq(Token), NEW c \in Seq(Token), Extends(b, a), Extends(c, b)
  PROVE  Extends(c, a)
<1>1. /\ Len(a) \in Nat /\ Len(b) \in Nat /\ Len(c) \in Nat /\ Len(a) <= Len(b) /\ Len(b) <= Len(c)
      /\ (\A k \in 1 .. Len(a) : b[k] = a[k]) /\ \A k \in 1 .. Len(b) : c[k] = b[k]
  BY DEF Extends
<1>2. \A k \in 1 .. Len(a) : k \in 1 .. Len(b)
  BY <1>1
<1>3. Len(a) <= Len(c) /\ \A k \in 1 .. Len(a) : c[k] = a[k]
  BY <1>1, <1>2
<1> QED BY <1>3 DEF Extends

-----------------------------------------------------------------------------
\* The writer.

LEMMA FramedMore ==
  ASSUME NEW plain \in Seq(Token), NEW longer \in Seq(Token), Extends(longer, plain),
         NEW end \in Nat, end <= Len(plain), NEW full, NEW frames, Framed(full, frames, plain, end)
  PROVE  Framed(full, frames, longer, end)
<1>1. Len(plain) \in Nat /\ \A k \in 1 .. Len(plain) : longer[k] = plain[k]
  BY DEF Extends
<1>2. RecordLen \in Nat
  BY ObfsAssumption
<1>3. ASSUME NEW s \in Nat, NEW i \in Nat, NEW n \in Nat, << s + RecordLen + n, i + n >> \in frames
      PROVE  \A k \in 1 .. n : longer[i + k] = plain[i + k]
  <2>1. s + RecordLen + n \in Nat /\ i + n \in Nat
    BY <1>2
  <2>2. i + n <= end
    BY <1>3, <2>1 DEF Framed
  <2>3. \A k \in 1 .. n : i + k \in 1 .. Len(plain)
    BY <1>1, <2>2
  <2> QED BY <1>1, <2>3
<1>4. ASSUME NEW s \in Nat, NEW i \in Nat, << s, i >> \in frames
      PROVE  /\ s \in 1 .. Len(full) + 1 /\ i <= end
             /\ \/ s = Len(full) + 1 /\ i = end
                \/ \E n \in Nat :
                     /\ << s + RecordLen + n, i + n >> \in frames
                     /\ full[s + RecordLen - 1] = Length(n)
                     /\ \A k \in 1 .. n : full[s + RecordLen - 1 + k] = longer[i + k]
  <2>1. /\ s \in 1 .. Len(full) + 1 /\ i <= end
        /\ \/ s = Len(full) + 1 /\ i = end
           \/ \E n \in Nat :
                /\ << s + RecordLen + n, i + n >> \in frames
                /\ full[s + RecordLen - 1] = Length(n)
                /\ \A k \in 1 .. n : full[s + RecordLen - 1 + k] = plain[i + k]
    BY <1>4 DEF Framed
  <2>2. ASSUME NEW n \in Nat, << s + RecordLen + n, i + n >> \in frames,
               full[s + RecordLen - 1] = Length(n), \A k \in 1 .. n : full[s + RecordLen - 1 + k] = plain[i + k]
        PROVE  \A k \in 1 .. n : full[s + RecordLen - 1 + k] = longer[i + k]
    BY <1>3, <2>2
  <2> QED BY <2>1, <2>2
<1> QED BY <1>4 DEF Framed

\* Lead, said of the record it begins with.
LEMMA LeadIs ==
  ASSUME NEW full, NEW frames, NEW plain, NEW i \in Nat
  PROVE  Lead(full, frames, plain, i) <=>
           \E n \in Nat :
             /\ Record(full, frames, plain, i, IF received THEN 0 ELSE HelloLen, n)
             /\ IF received THEN remaining = n ELSE full[HelloLen] = Length(n)
BY DEF Lead, Record

LEMMA RecordMore ==
  ASSUME NEW plain \in Seq(Token), NEW longer \in Seq(Token), Extends(longer, plain),
         NEW i \in Nat, NEW end \in Nat, end <= Len(plain), NEW full \in Seq(Token), NEW frames,
         NEW h \in Nat, NEW n \in Nat, Framed(full, frames, plain, end), Record(full, frames, plain, i, h, n)
  PROVE  Record(full, frames, longer, i, h, n)
<1>1. Len(plain) \in Nat /\ \A k \in 1 .. Len(plain) : longer[k] = plain[k]
  BY DEF Extends
<1>2. i + n <= end
  BY RecordFits
<1>3. \A k \in 1 .. n : i + k \in 1 .. Len(plain)
  BY <1>1, <1>2
<1>4. \A k \in 1 .. n : longer[i + k] = plain[i + k]
  BY <1>1, <1>3
<1> QED BY <1>4 DEF Record

\* More of the stream behind the end changes nothing.
LEMMA WiredGrows ==
  ASSUME NEW plain \in Seq(Token), NEW longer \in Seq(Token), Extends(longer, plain),
         NEW i \in Nat, NEW end \in Nat, end <= Len(plain), Wired(plain, i, end)
  PROVE  Wired(longer, i, end)
<1>1. PICK full \in Seq(Token) :
        /\ Under(full)
        /\ \/ CarriesPlain(full, plain, i, end)
           \/ CarriesNothing(full, i, end)
           \/ CarriesHead(full, plain, i, end)
           \/ CarriesRecords(full, plain, i, end)
  BY Zenon DEF Wired
<1>2. CarriesPlain(full, plain, i, end) => CarriesPlain(full, longer, i, end)
  BY HoldsMore DEF CarriesPlain
<1>3. ASSUME CarriesHead(full, plain, i, end) PROVE CarriesHead(full, longer, i, end)
  <2>1. PICK head \in Heads, tail \in Seq(Token), k \in Nat :
          /\ k < Len(head) /\ full = SubSeq(head, k + 1, Len(head)) \o tail /\ Matching(head, k)
          /\ Holds(tail, plain, i) /\ i + Len(tail) = end
    BY <1>3 DEF CarriesHead
  <2>2. Holds(tail, longer, i)
    BY <2>1, HoldsMore
  <2> QED BY <1>3, <2>1, <2>2 DEF CarriesHead
<1>4. ASSUME CarriesRecords(full, plain, i, end) PROVE CarriesRecords(full, longer, i, end)
  <2>1. PICK frames : Framed(full, frames, plain, end) /\ Lead(full, frames, plain, i)
    BY <1>4 DEF CarriesRecords
  <2>2. Framed(full, frames, longer, end)
    BY <2>1, FramedMore
  <2> DEFINE h == IF received THEN 0 ELSE HelloLen
  <2>3. PICK n \in Nat :
          /\ Record(full, frames, plain, i, h, n)
          /\ IF received THEN remaining = n ELSE full[HelloLen] = Length(n)
    BY <2>1, LeadIs
  <2>4. h \in Nat
    BY ObfsAssumption
  <2>5. Record(full, frames, longer, i, h, n)
    <3> HIDE DEF h
    <3> QED BY <2>1, <2>3, <2>4, RecordMore
  <2>6. Lead(full, frames, longer, i)
    BY <2>3, <2>5, LeadIs
  <2> QED BY <1>4, <2>2, <2>6 DEF CarriesRecords
<1> QED BY <1>1, <1>2, <1>3, <1>4, Zenon DEF Wired

LEMMA HelloIs ==
  ASSUME server \in BOOLEAN, NEW p \in Seq(Token)
  PROVE  \E n \in Nat, name \in Seq(Token) :
           /\ n <= Len(p)
           /\ Hello(p) = Header(HelloLen, n) \o SubSeq(p, 1, n) \o name \o appendRecords(SubSeq(p, n + 1, Len(p)))
           /\ Len(name) = IF server THEN NameLen + NameTail ELSE 0
           /\ server => name[NameLen] = Length(NameTail)
<1> DEFINE max == IF server THEN HelloMax ELSE RecordMax
           n == IF Len(p) > max THEN max ELSE Len(p)
           fill == [i \in 1 .. NameTail |-> Filler]
           name == IF server THEN Header(NameLen, NameTail) \o fill ELSE << >>
<1>1. max \in Nat /\ Len(p) \in Nat /\ NameLen \in Nat \ {0} /\ NameTail \in Nat
  BY ObfsAssumption
<1>2. n \in Nat /\ n <= Len(p)
  <2> HIDE DEF max
  <2> QED BY <1>1
<1>3. Hello(p) = Header(HelloLen, n) \o SubSeq(p, 1, n) \o name \o appendRecords(SubSeq(p, n + 1, Len(p)))
  BY DEF Hello
<1>4. fill \in Seq(Token) /\ Len(fill) = NameTail
  <2>1. Filler \in Token
    BY DEF Filler, Token
  <2>2. fill \in [1 .. NameTail -> Token]
    BY <2>1
  <2>3. fill \in Seq(Token)
    BY <1>1, <2>2, SeqDef
  <2> QED BY <1>1, <2>2, <2>3, LenProperties
<1> HIDE DEF fill, n
<1>5. name \in Seq(Token) /\ Len(name) = (IF server THEN NameLen + NameTail ELSE 0)
      /\ (server => name[NameLen] = Length(NameTail))
  <2>1. CASE server
    <3> DEFINE head == Header(NameLen, NameTail)
    <3>1. head \in Seq(Token) /\ Len(head) = NameLen /\ head[NameLen] = Length(NameTail)
      BY <1>1, HeaderIs
    <3>2. name = head \o fill
      BY <2>1
    <3> HIDE DEF head, name
    <3>3. /\ name \in Seq(Token) /\ Len(name) = NameLen + NameTail
          /\ \A k \in 1 .. NameLen : name[k] = head[k]
      BY <1>4, <3>1, <3>2, Joined
    <3>4. NameLen \in 1 .. NameLen
      BY <1>1
    <3> QED BY <2>1, <3>1, <3>3, <3>4
  <2>2. CASE ~server
    BY <2>2, EmptySeq
  <2> QED BY <2>1, <2>2
<1> HIDE DEF name
<1> QED BY <1>2, <1>3, <1>5

\* What is written behind the end is wired up to where it ends.
WriteTo(p, plain, i, end, last) ==
  /\ Write(p) /\ Holds(p, plain, end) /\ last = end + Len(p) /\ Wired(plain, i, end)
  /\ UNCHANGED << mode, server, received, nameSkipped, remaining, matched >>

LEMMA WiredWhole ==
  ASSUME NEW full \in Seq(Token), wire' = full, NEW plain, NEW i, NEW last,
         \/ CarriesPlain(full, plain, i, last)'
         \/ CarriesHead(full, plain, i, last)'
         \/ CarriesRecords(full, plain, i, last)'
  PROVE  wire' \in Seq(Token) /\ Wired(plain, i, last)'
<1>1. Len(full) \in Nat
  OBVIOUS
<1>2. Len(full) <= Len(full)
  BY <1>1
<1>3. Under(full)'
  BY <1>2 DEF Under
<1>4. Wired(plain, i, last)'
  BY <1>3, Zenon DEF Wired
<1> QED BY <1>4

LEMMA WritePlain ==
  ASSUME PlaceTypes, NEW p \in Seq(Token), NEW plain \in Seq(Token), NEW i \in Nat, NEW end \in Nat, NEW last \in Nat,
         WriteTo(p, plain, i, end, last), CarriesPlain(wire, plain, i, end)
  PROVE  wire' \in Seq(Token) /\ Wired(plain, i, last)'
<1>1. /\ mode = "none" \/ (mode = "http" /\ received /\ sent)
      /\ Holds(wire, plain, i) /\ i + Len(wire) = end /\ wire \in Seq(Token)
  BY DEF CarriesPlain, PlaceTypes
<1>2. wire' = wire \o p /\ mode' = mode /\ received' = received /\ sent' = TRUE
      /\ Holds(p, plain, end) /\ last = end + Len(p)
  BY <1>1 DEF WriteTo, Write
<1> DEFINE full == wire \o p
<1>3. full \in Seq(Token) /\ Len(full) = Len(wire) + Len(p) /\ Holds(full, plain, i)
  BY <1>1, <1>2, HoldsJoin
<1>4. wire' = full
  BY <1>2
<1> HIDE DEF full
<1>5. i + Len(full) = last
  <2>1. PICK w \in Nat, q \in Nat : w = Len(wire) /\ q = Len(p)
    <3>1. Len(wire) \in Nat
      BY <1>1, LenProperties
    <3>2. Len(p) \in Nat
      BY LenProperties
    <3> QED BY <3>1, <3>2
  <2>2. Len(full) = w + q /\ i + w = end /\ last = end + q
    BY <1>1, <1>2, <1>3, <2>1
  <2>3. i + (w + q) = (i + w) + q
    OBVIOUS
  <2> QED BY <2>2, <2>3
<1>6. PICK all \in Seq(Token) : all = full
  BY <1>3
<1>7. CarriesPlain(all, plain, i, last)'
  BY <1>1, <1>2, <1>3, <1>5, <1>6 DEF CarriesPlain, Holds
<1> QED BY <1>4, <1>6, <1>7, WiredWhole

LEMMA WriteTail ==
  ASSUME PlaceTypes, NEW p \in Seq(Token), NEW plain \in Seq(Token), NEW i \in Nat, NEW end \in Nat, NEW last \in Nat,
         WriteTo(p, plain, i, end, last), CarriesHead(wire, plain, i, end)
  PROVE  wire' \in Seq(Token) /\ Wired(plain, i, last)'
<1>1. PICK head \in Heads, tail \in Seq(Token), k \in Nat :
        /\ k < Len(head) /\ wire = SubSeq(head, k + 1, Len(head)) \o tail /\ Matching(head, k)
        /\ Holds(tail, plain, i) /\ i + Len(tail) = end
  BY DEF CarriesHead
<1>2. mode = "http" /\ ~received /\ sent
  BY DEF CarriesHead
<1>3. wire' = wire \o p /\ mode' = mode /\ received' = received /\ sent' = TRUE /\ matched' = matched
      /\ Holds(p, plain, end) /\ last = end + Len(p)
  BY <1>2 DEF WriteTo, Write
<1> DEFINE mine == SubSeq(head, k + 1, Len(head))
           rest == tail \o p
<1>4. mine \in Seq(Token)
  <2>1. head \in Seq(Token) /\ Len(head) \in Nat
    BY <1>1, HeadByte
  <2> QED BY <1>1, <2>1, Part
<1>5. rest \in Seq(Token) /\ Len(rest) = Len(tail) + Len(p) /\ Holds(rest, plain, i)
  BY <1>1, <1>3, HoldsJoin
<1>6. wire' = mine \o rest
  <2>1. wire = mine \o tail /\ wire' = wire \o p
    BY <1>1, <1>3
  <2>2. (mine \o tail) \o p = mine \o (tail \o p)
    <3> HIDE DEF mine, rest
    <3>1. tail \in Seq(Token) /\ p \in Seq(Token)
      OBVIOUS
    <3> QED BY <1>4, <3>1, ConcatAssociative, SMTT(30)
  <2> QED BY <2>1, <2>2
<1>7. mine = SubSeq(head, k + 1, Len(head))
  OBVIOUS
<1> HIDE DEF mine, rest
<1>8. mine \o rest \in Seq(Token)
  BY <1>4, <1>5, Joined
<1>9. i + Len(rest) = last
  <2>1. PICK t \in Nat, q \in Nat : t = Len(tail) /\ q = Len(p)
    <3>1. Len(tail) \in Nat
      BY LenProperties
    <3>2. Len(p) \in Nat
      BY LenProperties
    <3> QED BY <3>1, <3>2
  <2>2. Len(rest) = t + q /\ i + t = end /\ last = end + q
    BY <1>1, <1>3, <1>5, <2>1
  <2>3. i + (t + q) = (i + t) + q
    OBVIOUS
  <2> QED BY <2>2, <2>3
<1>10. PICK all \in Seq(Token), back \in Seq(Token) : all = mine \o rest /\ back = rest
  BY <1>5, <1>8
<1>11. Matching(head, k)'
  BY <1>1, <1>3 DEF Matching
<1>12. /\ k < Len(head) /\ all = SubSeq(head, k + 1, Len(head)) \o back
       /\ Holds(back, plain, i) /\ i + Len(back) = last
  BY <1>1, <1>5, <1>7, <1>9, <1>10
<1>13. CarriesHead(all, plain, i, last)'
  BY <1>2, <1>3, <1>11, <1>12 DEF CarriesHead
<1> QED BY <1>6, <1>10, <1>13, WiredWhole

LEMMA WriteHead ==
  ASSUME PlaceTypes, NEW p \in Seq(Token), NEW plain \in Seq(Token), NEW i \in Nat, NEW end \in Nat, NEW last \in Nat,
         WriteTo(p, plain, i, end, last), CarriesNothing(wire, i, end), mode = "http"
  PROVE  wire' \in Seq(Token) /\ Wired(plain, i, last)'
<1>1. ~received /\ ~sent /\ matched = 0 /\ wire = << >> /\ i = end
  BY DEF CarriesNothing
<1>2. PICK head \in Heads : wire' = wire \o head \o p
  BY <1>1 DEF WriteTo, Write
<1>3. mode' = mode /\ received' = received /\ sent' = TRUE /\ matched' = matched
      /\ Holds(p, plain, end) /\ last = end + Len(p)
  BY DEF WriteTo, Write
<1>4. head \in Seq(Token) /\ Len(head) \in Nat /\ 0 < Len(head)
  <2>1. head \in Seq({"cr", "lf", "x"} \X {0} \X {0}) /\ head # << >>
    BY HeadsAssumption
  <2>2. Len(head) \in Nat /\ 0 < Len(head)
    BY <2>1
  <2> QED BY <2>2, HeadByte
<1>5. wire' = head \o p /\ head \o p \in Seq(Token)
  <2>1. << >> \o head = head
    BY <1>4, ConcatEmptySeq
  <2> QED BY <1>1, <1>2, <1>4, <2>1, Joined
<1>6. SubSeq(head, 0 + 1, Len(head)) = head
  <2>1. 0 + 1 = 1
    OBVIOUS
  <2> QED BY <1>4, <2>1, SubSeqFull
<1>7. Matching(head, 0)'
  <2>1. Begun(head, 0, 0)
    BY BegunIs
  <2>2. \A j \in 1 .. Len(Terminator) : ~Begun(head, 0, j)
    BY TerminatorIs DEF Begun
  <2> QED BY <1>1, <1>3, <2>1, <2>2 DEF Matching
<1>8. PICK all \in Seq(Token), k \in Nat : all = head \o p /\ k = 0
  BY <1>5
<1>9. /\ k < Len(head) /\ all = SubSeq(head, k + 1, Len(head)) \o p /\ Matching(head, k)'
      /\ Holds(p, plain, i) /\ i + Len(p) = last
  BY <1>1, <1>3, <1>4, <1>6, <1>7, <1>8
<1>10. CarriesHead(all, plain, i, last)'
  BY <1>1, <1>3, <1>9 DEF CarriesHead
<1> QED BY <1>5, <1>8, <1>10, WiredWhole

LEMMA WriteRecords ==
  ASSUME PlaceTypes, NEW p \in Seq(Token), NEW plain \in Seq(Token), NEW i \in Nat, NEW end \in Nat, NEW last \in Nat,
         WriteTo(p, plain, i, end, last), CarriesRecords(wire, plain, i, end)
  PROVE  wire' \in Seq(Token) /\ Wired(plain, i, last)'
<1>1. mode = "tls" /\ sent /\ (~received => ~nameSkipped) /\ wire \in Seq(Token)
  BY DEF CarriesRecords, PlaceTypes
<1>2. PICK frames : Framed(wire, frames, plain, end) /\ Lead(wire, frames, plain, i)
  BY DEF CarriesRecords
<1>3. /\ wire' = wire \o appendRecords(p)
      /\ UNCHANGED << mode, received, nameSkipped, server, remaining >> /\ sent' = TRUE
      /\ Holds(p, plain, end) /\ last = end + Len(p)
  BY <1>1 DEF WriteTo, Write
<1>4. \A k \in 1 .. Len(p) : p[k] = plain[end + k]
  BY <1>3 DEF Holds
<1>5. /\ appendRecords(p) \in Seq(Token)
      /\ \E others : Framed(appendRecords(p), others, plain, end + Len(p)) /\ << 1, end >> \in others
  BY <1>4, RecordsFrame
<1>6. PICK more \in Seq(Token) : more = appendRecords(p)
  BY <1>5
<1>7. PICK others : Framed(more, others, plain, last) /\ << 1, end >> \in others
  BY <1>3, <1>5, <1>6
<1> DEFINE both == wire \o more
           all == Both(frames, Len(wire), others)
<1>8. end <= last
  <2>1. Len(p) \in Nat
    OBVIOUS
  <2> QED BY <1>3, <2>1
<1>9. Framed(both, all, plain, last)
  BY <1>1, <1>2, <1>7, <1>8, FramesJoin
<1>10. /\ both \in Seq(Token) /\ Len(wire) \in Nat
       /\ \A k \in 1 .. Len(wire) : both[k] = wire[k]
  BY <1>1, Joined
<1>11. \A g \in Nat \X Nat : g \in frames => g \in all
  BY DEF Both
<1>12. both = wire'
  BY <1>3, <1>6
<1> DEFINE h == IF received THEN 0 ELSE HelloLen
<1>13. PICK n \in Nat :
         /\ Record(wire, frames, plain, i, h, n)
         /\ IF received THEN remaining = n ELSE wire[HelloLen] = Length(n)
  BY <1>2, LeadIs
<1>14. h \in Nat /\ NameLen \in Nat \ {0} /\ NameTail \in Nat /\ HelloLen \in Nat \ {0}
       /\ (~received => h = HelloLen)
  BY ObfsAssumption
<1>20. h = IF received THEN 0 ELSE HelloLen
  OBVIOUS
<1> HIDE DEF both, all, h
<1>15. h + n <= Len(wire) /\ (server /\ ~nameSkipped => h + n + NameLen + NameTail <= Len(wire))
  BY <1>1, <1>2, <1>13, <1>14, RecordFits
<1>16. Record(both, all, plain, i, h, n)
  <2> DEFINE name == IF server /\ ~nameSkipped THEN NameLen + NameTail ELSE 0
  <2>1. /\ << h + n + name + 1, i + n >> \in frames
        /\ \A k \in 1 .. n : wire[h + k] = plain[i + k]
        /\ server /\ ~nameSkipped => wire[h + n + NameLen] = Length(NameTail)
    BY <1>13 DEF Record
  <2>2. name \in Nat
    BY <1>14
  <2>3. h + n + name + 1 \in Nat /\ i + n \in Nat
    <3> HIDE DEF name
    <3> QED BY <1>14, <2>2
  <2>4. << h + n + name + 1, i + n >> \in all
    <3> HIDE DEF name
    <3> QED BY <1>11, <2>1, <2>3
  <2>5. \A k \in 1 .. n : h + k \in 1 .. Len(wire)
    BY <1>10, <1>14, <1>15
  <2>6. server /\ ~nameSkipped => h + n + NameLen \in 1 .. Len(wire)
    BY <1>10, <1>14, <1>15
  <2>7. \A k \in 1 .. n : both[h + k] = plain[i + k]
    BY <1>10, <2>1, <2>5
  <2>8. server /\ ~nameSkipped => both[h + n + NameLen] = Length(NameTail)
    BY <1>10, <2>1, <2>6
  <2> QED BY <2>4, <2>7, <2>8 DEF Record
<1>17. IF received THEN remaining = n ELSE both[HelloLen] = Length(n)
  <2>1. ~received => HelloLen \in 1 .. Len(wire)
    BY <1>10, <1>14, <1>15
  <2> QED BY <1>10, <1>13, <2>1
<1>18. Lead(both, all, plain, i)
  BY <1>16, <1>17, <1>20, LeadIs
<1>19. PICK whole, places : whole \in Seq(Token) /\ whole = both /\ places = all
  BY <1>10
<1>21. Framed(whole, places, plain, last)' /\ Lead(whole, places, plain, i)'
  <2>4. Framed(whole, places, plain, last)
    BY <1>9, <1>19
  <2>1. Framed(whole, places, plain, last)'
    BY <2>4 DEF Framed
  <2>2. Lead(whole, places, plain, i)
    BY <1>18, <1>19
  <2>3. Lead(whole, places, plain, i)'
    BY <1>3, <2>2 DEF Lead
  <2> QED BY <2>1, <2>3
<1>22. CarriesRecords(whole, plain, i, last)'
  BY <1>1, <1>3, <1>21 DEF CarriesRecords
<1> QED BY <1>12, <1>19, <1>22, WiredWhole

LEMMA WriteHello ==
  ASSUME PlaceTypes, NEW p \in Seq(Token), NEW plain \in Seq(Token), NEW i \in Nat, NEW end \in Nat, NEW last \in Nat,
         WriteTo(p, plain, i, end, last), CarriesNothing(wire, i, end), mode = "tls"
  PROVE  wire' \in Seq(Token) /\ Wired(plain, i, last)'
<1>1. ~received /\ ~nameSkipped /\ ~sent /\ wire = << >> /\ i = end /\ server \in BOOLEAN
  BY DEF CarriesNothing, PlaceTypes
<1>2. /\ wire' = wire \o Hello(p)
      /\ UNCHANGED << mode, received, nameSkipped, server >> /\ sent' = TRUE
      /\ Holds(p, plain, end) /\ last = end + Len(p)
  BY <1>1 DEF WriteTo, Write
<1>3. PICK n \in Nat, name \in Seq(Token) :
        /\ n <= Len(p)
        /\ Hello(p) = Header(HelloLen, n) \o SubSeq(p, 1, n) \o name \o appendRecords(SubSeq(p, n + 1, Len(p)))
        /\ Len(name) = IF server THEN NameLen + NameTail ELSE 0
        /\ server => name[NameLen] = Length(NameTail)
  BY <1>1, HelloIs
<1> DEFINE opening == Header(HelloLen, n)
           payload == SubSeq(p, 1, n)
           rest == SubSeq(p, n + 1, Len(p))
           a == opening \o payload
           b == a \o name
           records == appendRecords(rest)
<1>4. HelloLen \in Nat \ {0} /\ NameLen \in Nat \ {0} /\ NameTail \in Nat
  BY ObfsAssumption
<1>5. opening \in Seq(Token) /\ Len(opening) = HelloLen /\ opening[HelloLen] = Length(n)
  BY <1>4, HeaderIs
<1>6. /\ payload \in Seq(Token) /\ Len(payload) = n /\ Holds(payload, plain, end)
      /\ rest \in Seq(Token) /\ Len(rest) = Len(p) - n /\ Holds(rest, plain, end + n)
  BY <1>2, <1>3, HoldsSplit
<1>7. Hello(p) = b \o records
  BY <1>3
<1> HIDE DEF opening, payload, rest
<1>8. /\ a \in Seq(Token) /\ Len(a) = HelloLen + n
      /\ \A k \in 1 .. HelloLen : a[k] = opening[k]
      /\ \A k \in 1 .. n : a[HelloLen + k] = payload[k]
  BY <1>5, <1>6, Joined
<1> HIDE DEF a
<1>9. /\ b \in Seq(Token) /\ Len(b) = (HelloLen + n) + Len(name) /\ Len(name) \in Nat
      /\ \A k \in 1 .. HelloLen + n : b[k] = a[k]
      /\ \A k \in 1 .. Len(name) : b[(HelloLen + n) + k] = name[k]
  <2>1. /\ b \in Seq(Token) /\ Len(b) = Len(a) + Len(name) /\ Len(name) \in Nat
        /\ \A k \in 1 .. Len(a) : b[k] = a[k]
        /\ \A k \in 1 .. Len(name) : b[Len(a) + k] = name[k]
    BY <1>8, Joined
  <2>2. Len(a) = HelloLen + n
    BY <1>8
  <2> HIDE DEF b
  <2> QED BY <2>1, <2>2
<1> HIDE DEF b
<1>10. b[HelloLen] = Length(n)
  <2>1. HelloLen \in 1 .. HelloLen + n /\ HelloLen \in 1 .. HelloLen
    BY <1>4
  <2> QED BY <1>5, <1>8, <1>9, <2>1
<1>11. \A k \in 1 .. n : b[HelloLen + k] = plain[i + k]
  <2>1. \A k \in 1 .. n : HelloLen + k \in 1 .. HelloLen + n
    BY <1>4
  <2>2. \A k \in 1 .. n : payload[k] = plain[end + k]
    BY <1>6 DEF Holds
  <2> QED BY <1>1, <1>8, <1>9, <2>1, <2>2
<1>12. server => b[HelloLen + n + NameLen] = Length(NameTail)
  <2> SUFFICES ASSUME server PROVE b[HelloLen + n + NameLen] = Length(NameTail)
    OBVIOUS
  <2>1. Len(name) = NameLen + NameTail
    BY <1>3
  <2>2. NameLen \in 1 .. Len(name) /\ HelloLen + n + NameLen = (HelloLen + n) + NameLen
    BY <1>4, <2>1
  <2> QED BY <1>3, <1>9, <2>2
<1> DEFINE middle == end + n
           here == {<< Len(b) + 1, middle >>}
           whole == b \o records
<1>13. middle \in Nat /\ Len(rest) \in Nat /\ last = middle + Len(rest) /\ middle <= last
  <2>1. Len(p) \in Nat /\ n <= Len(p) /\ Len(rest) = Len(p) - n /\ last = end + Len(p)
    BY <1>2, <1>3, <1>6
  <2> QED BY <2>1
<1>14. Framed(b, here, plain, middle)
  <2>1. Len(b) + 1 \in 1 .. Len(b) + 1 /\ middle <= middle
    <3>1. Len(b) \in Nat
      BY <1>9
    <3> QED BY <1>13, <3>1
  <2>2. \A s, j \in Nat : << s, j >> \in here => s = Len(b) + 1 /\ j = middle
    OBVIOUS
  <2> HIDE DEF here, middle
  <2> QED BY <2>1, <2>2 DEF Framed
<1>15. << Len(b) + 1, middle >> \in here
  OBVIOUS
<1> HIDE DEF here, middle
<1>16. /\ records \in Seq(Token)
       /\ \E others : Framed(records, others, plain, middle + Len(rest)) /\ << 1, middle >> \in others
  <2>1. \A k \in 1 .. Len(rest) : rest[k] = plain[middle + k]
    BY <1>6 DEF Holds, middle
  <2> QED BY <1>6, <1>13, <2>1, RecordsFrame
<1> HIDE DEF records
<1>17. PICK others : Framed(records, others, plain, last) /\ << 1, middle >> \in others
  BY <1>13, <1>16
<1> DEFINE all == Both(here, Len(b), others)
<1>18. Framed(whole, all, plain, last)
  BY <1>9, <1>13, <1>14, <1>16, <1>17, FramesJoin
<1>19. /\ whole \in Seq(Token) /\ Len(b) \in Nat
       /\ \A k \in 1 .. Len(b) : whole[k] = b[k]
  BY <1>9, <1>16, Joined
<1>20. << Len(b) + 1, middle >> \in all
  <2>1. Len(b) + 1 \in Nat
    BY <1>19
  <2> QED BY <1>13, <1>15, <2>1 DEF Both
<1>21. wire' = whole
  <2>1. Hello(p) = whole /\ wire' = << >> \o Hello(p)
    BY <1>1, <1>2, <1>7
  <2> QED BY <1>19, <2>1, ConcatEmptySeq
<1> HIDE DEF whole, all
<1>22. /\ << HelloLen + n + (IF server THEN NameLen + NameTail ELSE 0) + 1, i + n >> \in all
       /\ \A k \in 1 .. n : whole[HelloLen + k] = plain[i + k]
       /\ server => whole[HelloLen + n + NameLen] = Length(NameTail)
       /\ whole[HelloLen] = Length(n)
  <2>1. Len(b) + 1 = HelloLen + n + (IF server THEN NameLen + NameTail ELSE 0) + 1 /\ middle = i + n
    BY <1>1, <1>3, <1>9 DEF middle
  <2>2. << HelloLen + n + (IF server THEN NameLen + NameTail ELSE 0) + 1, i + n >> \in all
    BY <1>20, <2>1
  <2>3. HelloLen \in 1 .. Len(b) /\ \A k \in 1 .. n : HelloLen + k \in 1 .. Len(b)
    BY <1>4, <1>9
  <2>4. server => HelloLen + n + NameLen \in 1 .. Len(b)
    <3>1. server => Len(name) = NameLen + NameTail
      BY <1>3
    <3> QED BY <1>4, <1>9, <3>1
  <2> QED BY <1>10, <1>11, <1>12, <1>19, <2>2, <2>3, <2>4
<1>23. PICK full, frames : full \in Seq(Token) /\ full = whole /\ frames = all
  BY <1>19
<1>24. received' = FALSE /\ nameSkipped' = FALSE /\ server' = server /\ mode' = "tls" /\ sent' = TRUE
  BY <1>1, <1>2 DEF PlaceTypes
<1>25. Lead(full, frames, plain, i)'
  BY <1>22, <1>23, <1>24 DEF Lead
<1>26. Framed(full, frames, plain, last)'
  <2>1. Framed(full, frames, plain, last)
    BY <1>18, <1>23
  <2> QED BY <2>1 DEF Framed
<1>27. CarriesRecords(full, plain, i, last)'
  BY <1>24, <1>25, <1>26 DEF CarriesRecords
<1> QED BY <1>21, <1>23, <1>27, WiredWhole

\* What is written is on the wire.
LEMMA WriteGives ==
  ASSUME PlaceTypes, NEW p \in Seq(Token), NEW plain \in Seq(Token), NEW i \in Nat, NEW end \in Nat, NEW last \in Nat,
         WriteTo(p, plain, i, end, last)
  PROVE  wire' \in Seq(Token) /\ Wired(plain, i, last)'
<1>1. ~cut /\ Wired(plain, i, end)
  BY DEF PlaceTypes, WriteTo, Write
<1>2. PICK full \in Seq(Token) :
        /\ Under(full)
        /\ \/ CarriesPlain(full, plain, i, end)
           \/ CarriesNothing(full, i, end)
           \/ CarriesHead(full, plain, i, end)
           \/ CarriesRecords(full, plain, i, end)
  BY <1>1, Zenon DEF Wired
<1>3. full = wire
  BY <1>1, <1>2 DEF Under
<1>4. CASE CarriesPlain(wire, plain, i, end)
  BY <1>4, WritePlain
<1>5. CASE CarriesHead(wire, plain, i, end)
  BY <1>5, WriteTail
<1>6. CASE CarriesRecords(wire, plain, i, end)
  BY <1>6, WriteRecords
<1>7. CASE CarriesNothing(wire, i, end)
  <2>1. mode = "http" \/ mode = "tls"
    BY <1>7 DEF CarriesNothing, PlaceTypes
  <2> QED BY <1>7, <2>1, WriteHead, WriteHello
<1> QED BY <1>2, <1>3, <1>4, <1>5, <1>6, <1>7

-----------------------------------------------------------------------------
\* The reader.

LEMMA ShapesKept ==
  ASSUME ReaderTypes, ReaderTypes', Shapes, sealed' = sealed, version' = version, Len(delivered) <= Len(delivered')
  PROVE  Shapes'
<1>1. Len(delivered) \in Nat /\ Len(delivered') \in Nat /\ sealed \in Seq(Pieces)
  BY DEF ReaderTypes
<1>2. \A n \in 1 .. Len(sealed) : sealed[n].last \in Nat
  <2> TAKE n \in 1 .. Len(sealed)
  <2>1. sealed[n] \in Pieces
    BY <1>1, ElementOfSeq
  <2> QED BY <2>1 DEF Pieces
<1>3. \A n \in 1 .. Len(sealed) : sealed[n].last <= Len(delivered) => sealed[n].last <= Len(delivered')
  BY <1>1, <1>2
<1> QED BY <1>3 DEF Shapes

\* The front stays where it is.
LEMMA Moves ==
  ASSUME NEW plain, NEW start, NEW base, NEW front, NEW end, PlacedBy(plain, start, base, front, end),
         UNCHANGED << mode, server, wire, sent, closed, cut, received, nameSkipped, remaining, matched, sealed, out >>,
         result' \in {result, NoResult},
         \A e \in {"eof", "unexpected"} : e \in {result.err, pending} <=> e \in {result'.err, pending'},
         NEW place, place = Base(start)',
         Holds(got', plain, place), Holds(inbuf', plain, place + Len(got')),
         Holds(result'.data, plain, place + Len(got') + Len(inbuf')),
         front = place + Len(got') + Len(inbuf') + Len(result'.data)
  PROVE  PlacedBy(plain, start, place, front, end)'
<1>1. Stream(plain, start)'
  BY DEF PlacedBy, Stream
<1>2. Holds(got, plain, place)' /\ Holds(inbuf, plain, place + Len(got))'
      /\ Holds(result.data, plain, place + Len(got) + Len(inbuf))'
  BY DEF Holds
<1>3. Holds(out, plain, end)' /\ end + Len(out') = Len(plain)
  BY DEF PlacedBy, Holds
<1>4. (Ended(result.err) \/ Ended(pending)) <=> (Ended(result'.err) \/ Ended(pending'))
  BY DEF Ended
<1>5. CASE Ended(result.err) \/ Ended(pending)
  <2>1. Ended(result'.err) => Ended(result.err) /\ result' = result
    BY DEF Ended, NoResult
  <2>2. "unexpected" \in {result'.err, pending'} => "unexpected" \in {result.err, pending}
    OBVIOUS
  <2>3. /\ closed
        /\ ~cut => /\ "unexpected" \notin {result.err, pending} /\ front = Len(plain)
                   /\ Ended(result.err) => result.data = << >>
    BY <1>5 DEF PlacedBy
  <2>4. /\ closed'
        /\ ~cut' => /\ "unexpected" \notin {result'.err, pending'} /\ front = Len(plain)
                    /\ Ended(result'.err) => result'.data = << >>
    BY <2>1, <2>2, <2>3
  <2>5. Ended(result.err)' \/ Ended(pending)'
    BY <1>4, <1>5 DEF Ended
  <2>6. Ended(result.err)' <=> Ended(result'.err)
    BY DEF Ended
  <2> QED BY <1>1, <1>2, <1>3, <2>4, <2>5, <2>6 DEF PlacedBy
<1>6. CASE ~(Ended(result.err) \/ Ended(pending))
  <2>1. Wired(plain, front, end)
    BY <1>6 DEF PlacedBy
  <2>2. Wired(plain, front, end)'
    BY <2>1, WiredStays
  <2>3. ~(Ended(result.err)' \/ Ended(pending)')
    BY <1>4, <1>6 DEF Ended
  <2> QED BY <1>1, <1>2, <1>3, <2>2, <2>3 DEF PlacedBy
<1> QED BY <1>5, <1>6

LEMMA ExtentOf ==
  ASSUME ReaderTypes, Shapes, NEW n \in 1 .. Len(sealed)
  PROVE  /\ sealed[n].head \in BOOLEAN /\ sealed[n].pad \in Nat /\ sealed[n].len \in Nat
         /\ sealed[n].size = IF sealed[n].head THEN HeadLen ELSE sealed[n].pad + sealed[n].len + TagLen
         /\ Extent(sealed, n) =
              IF sealed[n].head THEN HeadLen + (IF sealed[n].len = 0 THEN sealed[n].pad ELSE 0)
              ELSE sealed[n].pad + sealed[n].len + TagLen
<1>1. sealed[n] \in Pieces
  BY ElementOfSeq DEF ReaderTypes
<1>2. sealed[n].head \in BOOLEAN /\ sealed[n].pad \in Nat /\ sealed[n].len \in Nat
  BY <1>1 DEF Pieces
<1>3. sealed[n].size = IF sealed[n].head THEN HeadLen ELSE sealed[n].pad + sealed[n].len + TagLen
  BY DEF Shapes
<1>4. n # 0
  OBVIOUS
<1>5. Extent(sealed, n) = sealed[n].size + (IF Zero(sealed[n]) THEN sealed[n].pad ELSE 0)
  BY <1>4 DEF Extent
<1>6. HeadLen \in Nat /\ TagLen \in Nat
  BY ReaderAssumption
<1>7. \A q \in Nat : q + 0 = q
  OBVIOUS
<1> QED BY <1>2, <1>3, <1>5, <1>6, <1>7 DEF Zero

\* The places of the pieces that are sealed.
LEMMA StreamIs ==
  ASSUME NEW plain, NEW start, Stream(plain, start), sealed # << >>
  PROVE  /\ start[0] = 0 /\ Len(plain) = start[Len(sealed) + 1]
         /\ \A n \in 0 .. Len(sealed) :
              /\ start[n + 1] = start[n] + Extent(sealed, n) /\ start[n + 1] <= Len(plain)
              /\ \A k \in 1 .. Extent(sealed, n) : plain[start[n] + k] = Byte(n, k)
BY DEF Stream, Laid

\* The stages of a record, with what ReadFull is to read in each.
LEMMA SaltDue ==
  ASSUME ReaderTypes, Stages, stage = "salt", NEW plain, NEW start, Stream(plain, start)
  PROVE  /\ Base(start) = 0 /\ key = "none" /\ nonce = 1 /\ Amount = SaltLen
         /\ IF sealed = << >> THEN plain = << >>
            ELSE start[1] = SaltLen /\ SaltLen <= Len(plain) /\ \A k \in 1 .. SaltLen : plain[k] = Byte(0, k)
<1>1. key = "none" /\ nonce = 1 /\ Base(start) = 0 /\ Amount = SaltLen
  BY DEF Stages, Base, Amount
<1>2. sealed = << >> => plain = << >>
  BY DEF Stream
<1>3. ASSUME sealed # << >>
      PROVE  start[1] = SaltLen /\ SaltLen <= Len(plain) /\ \A k \in 1 .. SaltLen : plain[k] = Byte(0, k)
  <2>1. 0 \in 0 .. Len(sealed) /\ 0 + 1 = 1
    BY DEF ReaderTypes
  <2>2. Extent(sealed, 0) = SaltLen /\ SaltLen \in Nat
    BY ReaderAssumption DEF Extent
  <2>3. /\ start[0] = 0 /\ start[1] = 0 + SaltLen /\ start[1] <= Len(plain)
        /\ \A k \in 1 .. SaltLen : plain[0 + k] = Byte(0, k)
    BY <1>3, <2>1, <2>2, StreamIs
  <2>4. \A k \in 1 .. SaltLen : 0 + k = k
    BY <2>2
  <2> QED BY <2>2, <2>3, <2>4
<1> QED BY <1>1, <1>2, <1>3

LEMMA HeadDue ==
  ASSUME ReaderTypes, Shapes, Stages, stage = "head", NEW plain, NEW start, Stream(plain, start)
  PROVE  /\ Base(start) = start[nonce] /\ key = "right" /\ Amount = HeadLen /\ sealed # << >>
         /\ nonce \in 1 .. Len(sealed) + 1
         /\ nonce = Len(sealed) + 1 => start[nonce] = Len(plain)
         /\ nonce \in 1 .. Len(sealed) =>
              /\ sealed[nonce].head /\ sealed[nonce].size = HeadLen
              /\ start[nonce + 1] = start[nonce] + (HeadLen + IF sealed[nonce].len = 0 THEN sealed[nonce].pad ELSE 0)
              /\ start[nonce + 1] <= Len(plain)
              /\ \A k \in 1 .. HeadLen : plain[start[nonce] + k] = Byte(nonce, k)
<1>1. key = "right" /\ sealed # << >> /\ Base(start) = start[nonce] /\ Amount = HeadLen /\ nonce <= Len(sealed) + 1
  BY DEF Stages, Base, Amount
<1>2. nonce \in Nat \ {0} /\ Len(sealed) \in Nat
  BY DEF ReaderTypes
<1>3. nonce = Len(sealed) + 1 => start[nonce] = Len(plain)
  BY <1>1, StreamIs
<1>4. ASSUME nonce \in 1 .. Len(sealed)
      PROVE  /\ sealed[nonce].head /\ sealed[nonce].size = HeadLen
             /\ start[nonce + 1] = start[nonce] + (HeadLen + IF sealed[nonce].len = 0 THEN sealed[nonce].pad ELSE 0)
             /\ start[nonce + 1] <= Len(plain)
             /\ \A k \in 1 .. HeadLen : plain[start[nonce] + k] = Byte(nonce, k)
  <2>1. sealed[nonce].head
    BY <1>4 DEF Shapes, Stages
  <2>2. sealed[nonce].size = HeadLen /\ sealed[nonce].pad \in Nat
        /\ Extent(sealed, nonce) = HeadLen + (IF sealed[nonce].len = 0 THEN sealed[nonce].pad ELSE 0)
    BY <1>4, <2>1, ExtentOf
  <2>3. nonce \in 0 .. Len(sealed)
    BY <1>4
  <2>4. /\ start[nonce + 1] = start[nonce] + Extent(sealed, nonce) /\ start[nonce + 1] <= Len(plain)
        /\ \A k \in 1 .. Extent(sealed, nonce) : plain[start[nonce] + k] = Byte(nonce, k)
    BY <1>1, <2>3, StreamIs
  <2>5. \A k \in 1 .. HeadLen : k \in 1 .. Extent(sealed, nonce)
    <3>1. HeadLen \in Nat /\ Extent(sealed, nonce) \in Nat /\ HeadLen <= Extent(sealed, nonce)
      BY <2>2, ReaderAssumption
    <3> QED BY <3>1
  <2> QED BY <2>1, <2>2, <2>4, <2>5
<1> QED BY <1>1, <1>2, <1>3, <1>4

LEMMA BodyDue ==
  ASSUME ReaderTypes, Sealed, Shapes, Stages, stage \in {"pad", "body"}, NEW plain, NEW start, Stream(plain, start)
  PROVE  /\ Base(start) = start[nonce] /\ key = "right" /\ sealed # << >> /\ nonce \in 1 .. Len(sealed)
         /\ ~sealed[nonce].head /\ header.pad \in Nat /\ header.len \in Nat
         /\ sealed[nonce].size = header.pad + header.len + TagLen
         /\ start[nonce + 1] = start[nonce] + (header.pad + header.len + TagLen) /\ start[nonce + 1] <= Len(plain)
         /\ \A k \in 1 .. header.pad + header.len + TagLen : plain[start[nonce] + k] = Byte(nonce, k)
<1>1. /\ key = "right" /\ sealed # << >> /\ Base(start) = start[nonce] /\ nonce <= Len(sealed) + 1
      /\ nonce > 1 /\ sealed[nonce - 1].head /\ sealed[nonce - 1].len > 0
      /\ header.pad = sealed[nonce - 1].pad /\ header.len = sealed[nonce - 1].len
  BY DEF Stages, Base
<1>2. nonce \in Nat \ {0} /\ Len(sealed) \in Nat /\ header.pad \in Nat /\ header.len \in Nat
  BY DEF ReaderTypes
<1>3. nonce - 1 \in 1 .. Len(sealed) /\ (nonce - 1) + 1 = nonce
  BY <1>1, <1>2
<1>4. nonce <= Len(sealed) /\ ~sealed[nonce].head /\ sealed[nonce].len = sealed[nonce - 1].len
  BY <1>1, <1>3 DEF Sealed
<1>5. nonce \in 1 .. Len(sealed) /\ nonce \in 0 .. Len(sealed)
  BY <1>2, <1>4
<1>6. sealed[nonce - 1].pad = sealed[nonce].pad
  BY <1>4, <1>5 DEF Shapes
<1>7. sealed[nonce].size = header.pad + header.len + TagLen /\ Extent(sealed, nonce) = header.pad + header.len + TagLen
  BY <1>1, <1>4, <1>5, <1>6, ExtentOf
<1>8. /\ start[nonce + 1] = start[nonce] + Extent(sealed, nonce) /\ start[nonce + 1] <= Len(plain)
      /\ \A k \in 1 .. Extent(sealed, nonce) : plain[start[nonce] + k] = Byte(nonce, k)
  BY <1>1, <1>5, StreamIs
<1> QED BY <1>1, <1>2, <1>4, <1>5, <1>7, <1>8

LEMMA DiscardDue ==
  ASSUME ReaderTypes, Shapes, Stages, stage = "discard", NEW plain, NEW start, Stream(plain, start)
  PROVE  /\ nonce > 1 /\ nonce - 1 \in 1 .. Len(sealed) /\ key = "right" /\ sealed # << >>
         /\ sealed[nonce - 1].head /\ sealed[nonce - 1].len = 0
         /\ Base(start) = start[nonce - 1] + HeadLen /\ Amount = header.pad /\ header.pad \in Nat
         /\ start[nonce] = start[nonce - 1] + (HeadLen + header.pad) /\ start[nonce] <= Len(plain)
<1>1. /\ key = "right" /\ sealed # << >> /\ Base(start) = start[nonce - 1] + HeadLen /\ nonce <= Len(sealed) + 1
      /\ nonce > 1 /\ Zero(sealed[nonce - 1]) /\ header.pad = sealed[nonce - 1].pad /\ Amount = header.pad
  BY DEF Stages, Base, Amount
<1>2. nonce \in Nat \ {0} /\ Len(sealed) \in Nat /\ header.pad \in Nat
  BY DEF ReaderTypes
<1>3. nonce - 1 \in 1 .. Len(sealed) /\ (nonce - 1) + 1 = nonce /\ nonce - 1 \in 0 .. Len(sealed)
  BY <1>1, <1>2
<1>4. sealed[nonce - 1].head /\ sealed[nonce - 1].len = 0
  BY <1>1 DEF Zero
<1>5. Extent(sealed, nonce - 1) = HeadLen + header.pad
  BY <1>1, <1>3, <1>4, ExtentOf
<1>6. start[nonce] = start[nonce - 1] + Extent(sealed, nonce - 1) /\ start[nonce] <= Len(plain)
  BY <1>1, <1>3, StreamIs
<1> QED BY <1>1, <1>2, <1>3, <1>4, <1>5, <1>6

\* Every action of the reader leaves it in its place, unless it is lost.
LEMMA InPlaceAgain ==
  ASSUME PlaceTypes', ~mistaken', Shapes', at' \in {"idle", "reading"}, Stages', Exact',
         NEW plain \in Seq(Token), NEW start \in [Nat -> Nat], NEW base \in Nat, NEW front \in Nat, NEW end \in Nat,
         PlacedBy(plain, start, base, front, end)'
  PROVE  InPlace'
<1>1. Placed'
  BY DEF Placed
<1>2. at' \notin {"eof", "error"}
  OBVIOUS
<1> QED BY <1>1, <1>2 DEF InPlace

LEMMA TypesKept ==
  ASSUME PlaceTypes, UNCHANGED << version, mode, server, wireVars, received, nameSkipped, remaining, matched, timeouts, out >>,
         result' \in {result, NoResult}, got' \in Seq(Token), inbuf' \in Seq(Token), want' \in Nat, need' \in Nat,
         pending' \in {"ok", "timeout", "eof", "unexpected"},
         at' \in {"idle", "reading", "eof", "error"},
         stage' \in {"none", "salt", "head", "pad", "body", "discard"},
         key' \in {"none", "right", "wrong"}
  PROVE  PlaceTypes'
<1>1. /\ result' \in [data : Seq(Token), err : {"none", "ok", "timeout", "eof", "unexpected"}]
      /\ result'.err = "none" => result' = NoResult
  <2>1. NoResult \in [data : Seq(Token), err : {"none", "ok", "timeout", "eof", "unexpected"}]
    BY EmptySeq DEF NoResult
  <2> QED BY <2>1 DEF PlaceTypes
<1>2. UNCHANGED << version, mode, server, wire, sent, closed, cut, received, nameSkipped, remaining, matched, timeouts, out >>
  BY DEF wireVars
<1> QED BY <1>1, <1>2 DEF PlaceTypes

LEMMA CallReadPlaced ==
  ASSUME ReaderTypes, InPlace, ReaderTypes', CallRead
  PROVE  InPlace'
<1>1. /\ at = "reading" /\ need > 0 /\ want = 0 /\ (version = 4 => inbuf = << >> /\ pending = "ok")
      /\ want' = need \/ (version = 4 /\ want' = BufferLen)
      /\ UNCHANGED << wireVars, received, nameSkipped, remaining, matched, result, timeouts, lost, writeVars, readerVars >>
  BY DEF CallRead
<1>2. PlaceTypes /\ ~mistaken /\ Shapes /\ Stages /\ Exact /\ Placed
  BY <1>1 DEF InPlace
<1>3. UNCHANGED << wire, sent, closed, cut, mode, server, version, sealed, written, calls, out,
                   at, stage, need, got, key, nonce, header, opened, inbuf, pending, cache, delivered, mistaken >>
  BY <1>1 DEF wireVars, writeVars, readerVars
<1>4. want' \in Nat /\ want' > 0 /\ need \in Nat
  BY <1>1, <1>2, ReaderAssumption DEF PlaceTypes
<1>5. PlaceTypes'
  BY <1>1, <1>2, <1>3, <1>4, TypesKept DEF PlaceTypes
<1>6. Shapes'
  <2>1. Len(delivered) <= Len(delivered')
    BY <1>3 DEF ReaderTypes
  <2> QED BY <1>2, <1>3, <2>1, ShapesKept
<1>7. Exact'
  BY <1>2, <1>3 DEF Exact
<1>8. result' = NoResult /\ result = NoResult
  BY <1>1, <1>2 DEF Stages
<1>9. Stages'
  <2>1. Amount' = Amount
    BY <1>3 DEF Amount
  <2>2. Len(result'.data) <= want'
    BY <1>4, <1>8 DEF NoResult
  <2>3. version' # 4 => want' = need'
    BY <1>1, <1>3
  <2>4. version' = 4 => inbuf' = << >> /\ pending' = "ok"
    BY <1>1, <1>3
  <2>5. version' # 4 => inbuf' = << >> /\ pending' = "ok"
    BY <1>2, <1>3 DEF Stages
  <2>6. need' > 0 /\ want' # 0
    BY <1>1, <1>3, <1>4
  <2>7. Len(got') + need' = Amount'
    BY <1>2, <1>3, <2>1 DEF Stages
  <2> QED BY <1>2, <1>3, <2>2, <2>3, <2>4, <2>5, <2>6, <2>7 DEF Stages, Zero
<1>10. PICK plain \in Seq(Token), start \in [Nat -> Nat], base \in Nat, front \in Nat, end \in Nat :
         PlacedBy(plain, start, base, front, end)
  BY <1>2 DEF Placed
<1>11. base = Base(start)'
  BY <1>3, <1>10 DEF PlacedBy, Base
<1>12. PlacedBy(plain, start, base, front, end)'
  <2>1. /\ Holds(got', plain, base) /\ Holds(inbuf', plain, base + Len(got'))
        /\ Holds(result'.data, plain, base + Len(got') + Len(inbuf'))
        /\ front = base + Len(got') + Len(inbuf') + Len(result'.data)
    BY <1>1, <1>3, <1>10 DEF PlacedBy
  <2>2. \A e \in {"eof", "unexpected"} : e \in {result.err, pending} <=> e \in {result'.err, pending'}
    BY <1>1, <1>3
  <2>3. UNCHANGED << mode, server, wire, sent, closed, cut, received, nameSkipped, remaining, matched, sealed, out >>
        /\ result' \in {result, NoResult}
    BY <1>1, <1>3
  <2> QED BY <1>10, <1>11, <2>1, <2>2, <2>3, Moves
<1>13. ~mistaken' /\ at' \in {"idle", "reading"}
  BY <1>1, <1>2, <1>3
<1> QED BY <1>5, <1>6, <1>7, <1>9, <1>12, <1>13, InPlaceAgain

\* The front stays where it is, and what is in order elsewhere is still in order.
LEMMA StillPlaced ==
  ASSUME ReaderTypes, ReaderTypes', Shapes, PlaceTypes', ~mistaken', at' \in {"idle", "reading"}, Stages', Exact',
         UNCHANGED << version, mode, server, wireVars, received, nameSkipped, remaining, matched, sealed, out >>,
         Len(delivered) <= Len(delivered'),
         NEW plain \in Seq(Token), NEW start \in [Nat -> Nat], NEW base \in Nat, NEW front \in Nat, NEW end \in Nat,
         PlacedBy(plain, start, base, front, end),
         result' \in {result, NoResult},
         \A e \in {"eof", "unexpected"} : e \in {result.err, pending} <=> e \in {result'.err, pending'},
         NEW place \in Nat, place = Base(start)',
         Holds(got', plain, place), Holds(inbuf', plain, place + Len(got')),
         Holds(result'.data, plain, place + Len(got') + Len(inbuf')),
         front = place + Len(got') + Len(inbuf') + Len(result'.data)
  PROVE  InPlace'
<1>1. UNCHANGED << mode, server, wire, sent, closed, cut, received, nameSkipped, remaining, matched, sealed, out >>
  BY DEF wireVars
<1>2. PlacedBy(plain, start, place, front, end)'
  BY <1>1, Moves
<1>3. Shapes'
  BY ShapesKept
<1> QED BY <1>2, <1>3, InPlaceAgain

\* What a reader has that is in its place.
LEMMA InPlaceIs ==
  ASSUME ReaderTypes, InPlace, at \in {"idle", "reading"}
  PROVE  /\ PlaceTypes /\ ~mistaken /\ Shapes /\ Stages /\ Exact
         /\ need \in Nat /\ want \in Nat /\ got \in Seq(Token) /\ inbuf \in Seq(Token) /\ result.data \in Seq(Token)
         /\ Len(got) \in Nat /\ Len(inbuf) \in Nat /\ Len(result.data) \in Nat
         /\ \E plain \in Seq(Token), start \in [Nat -> Nat], base \in Nat, front \in Nat, end \in Nat :
              PlacedBy(plain, start, base, front, end)
<1>1. PlaceTypes /\ ~mistaken /\ Shapes /\ Stages /\ Exact /\ Placed
  BY DEF InPlace
<1>2. need \in Nat /\ want \in Nat /\ got \in Seq(Token) /\ inbuf \in Seq(Token) /\ result.data \in Seq(Token)
  BY <1>1 DEF PlaceTypes
<1>3. Len(got) \in Nat /\ Len(inbuf) \in Nat /\ Len(result.data) \in Nat
  BY <1>2
<1>4. \E plain \in Seq(Token), start \in [Nat -> Nat], base \in Nat, front \in Nat, end \in Nat :
        PlacedBy(plain, start, base, front, end)
  BY <1>1 DEF Placed
<1> QED BY <1>1, <1>2, <1>3, <1>4

LEMMA NothingHeld ==
  ASSUME NEW plain \in Seq(Token), NEW i \in Nat, i <= Len(plain)
  PROVE  /\ Holds(<< >>, plain, i) /\ Holds(NoResult.data, plain, i)
         /\ Len(<< >>) = 0 /\ Len(NoResult.data) = 0 /\ NoResult.err = "none"
<1>1. NoResult.data = << >> /\ NoResult.err = "none" /\ Len(<< >>) = 0
  BY DEF NoResult
<1>2. i + 0 <= Len(plain)
  OBVIOUS
<1> QED BY <1>1, <1>2 DEF Holds

\* A record begins where the last one has ended.
LEMMA BeginPlaced ==
  ASSUME ReaderTypes, InPlace, ReaderTypes', ~lost', BeginRecord
  PROVE  InPlace'
<1>1. /\ at = "idle" /\ at' = "reading" /\ got' = << >>
      /\ \/ key # "none" /\ stage' = "head" /\ need' = HeadLen
         \/ key = "none" /\ stage' = "salt" /\ need' = SaltLen
      /\ UNCHANGED << key, nonce, inbuf, pending >>
      /\ UNCHANGED << wireVars, received, nameSkipped, remaining, matched, want, result, timeouts, writeVars,
                 header, opened, cache, delivered, mistaken >>
  BY DEF BeginRecord, Start
<1>2. UNCHANGED << mode, server, version, sealed, out >>
  BY <1>1 DEF writeVars
<1>3. /\ PlaceTypes /\ ~mistaken /\ Shapes /\ Stages /\ Exact
      /\ need \in Nat /\ got \in Seq(Token) /\ Len(got) \in Nat /\ Len(inbuf) \in Nat /\ Len(result.data) \in Nat
  BY <1>1, InPlaceIs
<1>4. PICK plain \in Seq(Token), start \in [Nat -> Nat], base \in Nat, front \in Nat, end \in Nat :
        PlacedBy(plain, start, base, front, end)
  BY <1>1, InPlaceIs
<1>5. stage = "none" /\ got = << >> /\ want = 0 /\ result = NoResult
  <2>1. stage = "none" /\ Len(got) + need = 0
    BY <1>1, <1>3 DEF Stages, Amount
  <2>2. Len(got) = 0 /\ need = 0
    BY <1>3, <2>1
  <2> QED BY <1>3, <2>1, <2>2 DEF Stages
<1>6. PlaceTypes'
  <2>1. need' \in Nat /\ got' \in Seq(Token)
    BY <1>1, ReaderAssumption, EmptySeq
  <2> QED BY <1>1, <1>2, <1>3, <2>1, TypesKept DEF PlaceTypes
<1>7. Stages'
  <2>1. Len(got') + need' = Amount'
    <3>1. Len(got') = 0
      BY <1>1
    <3>2. 0 + HeadLen = HeadLen /\ 0 + SaltLen = SaltLen
      BY ReaderAssumption
    <3>3. need' = Amount' /\ need' \in {HeadLen, SaltLen}
      BY <1>1 DEF Amount
    <3> QED BY <3>1, <3>2, <3>3
  <2>2. want' = 0 /\ result' = NoResult
    BY <1>1, <1>5
  <2>3. Len(result'.data) <= want'
    BY <2>2 DEF NoResult
  <2>4. key # "none" => stage' = "head"
    BY <1>1
  <2>5. stage' \in {"head", "salt"} /\ at' = "reading"
    BY <1>1
  <2>6. stage' = "head" => nonce = 1 \/ ~sealed[nonce - 1].head \/ sealed[nonce - 1].len = 0
    BY <1>3, <1>5 DEF Stages
  <2>7. nonce <= Len(sealed) + 1 /\ (key = "none" => nonce = 1) /\ (key # "none" => key = "right" /\ sealed # << >>)
        /\ (version # 4 => inbuf = << >> /\ pending = "ok")
    BY <1>3 DEF Stages
  <2>8. key = "none" => stage' = "salt"
    BY <1>1
  <2> QED BY <1>1, <1>2, <2>1, <2>2, <2>3, <2>4, <2>5, <2>6, <2>7, <2>8 DEF Stages
<1>8. Exact'
  <2>1. delivered' = delivered /\ written' = written
    BY <1>1 DEF writeVars
  <2> QED BY <1>3, <2>1 DEF Exact
<1>20. /\ base = Base(start)
       /\ Holds(got, plain, base) /\ Holds(inbuf, plain, base + Len(got))
       /\ Holds(result.data, plain, base + Len(got) + Len(inbuf))
       /\ front = base + Len(got) + Len(inbuf) + Len(result.data)
  BY <1>4 DEF PlacedBy
<1>9. base = Base(start)'
  BY <1>1, <1>5, <1>20 DEF Base
<1>10. /\ Holds(got', plain, base) /\ Holds(inbuf', plain, base + Len(got'))
       /\ Holds(result'.data, plain, base + Len(got') + Len(inbuf'))
       /\ front = base + Len(got') + Len(inbuf') + Len(result'.data)
  <2>1. got' = got /\ inbuf' = inbuf /\ result' = result
    BY <1>1, <1>5
  <2> QED BY <1>20, <2>1
<1>11. \A e \in {"eof", "unexpected"} : e \in {result.err, pending} <=> e \in {result'.err, pending'}
  BY <1>1
<1>12. ~mistaken' /\ at' \in {"idle", "reading"} /\ result' \in {result, NoResult} /\ Len(delivered) <= Len(delivered')
  BY <1>1, <1>3 DEF ReaderTypes
<1>13. UNCHANGED << version, mode, server, wireVars, received, nameSkipped, remaining, matched, sealed, out >>
  BY <1>1, <1>2
<1> QED BY <1>3, <1>4, <1>6, <1>7, <1>8, <1>9, <1>10, <1>11, <1>12, <1>13, StillPlaced

\* The salt that is read is the one that is written.
LEMMA SaltPlaced ==
  ASSUME ReaderTypes, InPlace, ReaderTypes', SaltRead
  PROVE  InPlace'
<1>1. /\ at = "reading" /\ stage = "salt" /\ need = 0
      /\ key' = IF got = Salt THEN "right" ELSE "wrong"
      /\ stage' = "head" /\ need' = HeadLen /\ got' = << >>
      /\ UNCHANGED << wireVars, received, nameSkipped, remaining, matched, want, result, timeouts, lost, writeVars,
                 at, nonce, header, opened, inbuf, pending, cache, delivered, mistaken >>
  BY DEF SaltRead, Start, obfsVars
<1>2. UNCHANGED << mode, server, version, sealed, out, written >>
  BY <1>1 DEF writeVars
<1>3. /\ PlaceTypes /\ ~mistaken /\ Shapes /\ Stages /\ Exact
      /\ got \in Seq(Token) /\ Len(got) \in Nat /\ Len(inbuf) \in Nat /\ Len(result.data) \in Nat /\ want \in Nat
  BY <1>1, InPlaceIs
<1>4. PICK plain \in Seq(Token), start \in [Nat -> Nat], base \in Nat, front \in Nat, end \in Nat :
        PlacedBy(plain, start, base, front, end)
  BY <1>1, InPlaceIs
<1>5. want = 0 /\ result = NoResult
  BY <1>1, <1>3 DEF Stages
<1>6. Stream(plain, start) /\ base = Base(start) /\ Holds(got, plain, base)
  BY <1>4 DEF PlacedBy
<1>7. /\ base = 0 /\ key = "none" /\ nonce = 1 /\ Amount = SaltLen
      /\ IF sealed = << >> THEN plain = << >>
         ELSE start[1] = SaltLen /\ SaltLen <= Len(plain) /\ \A k \in 1 .. SaltLen : plain[k] = Byte(0, k)
  BY <1>1, <1>3, <1>6, SaltDue
<1>8. Len(got) = SaltLen /\ SaltLen \in Nat \ {0}
  BY <1>1, <1>3, <1>7, ReaderAssumption DEF Stages
<1>9. sealed # << >>
  <2>1. 0 + Len(got) <= Len(plain)
    BY <1>6, <1>7 DEF Holds
  <2>2. Len(plain) # 0
    BY <1>8, <2>1
  <2> QED BY <1>7, <2>2
<1>10. got = Salt
  <2>1. \A k \in 1 .. Len(got) : got[k] = plain[0 + k] /\ 0 + k = k
    BY <1>6, <1>7, <1>8 DEF Holds
  <2>2. \A k \in 1 .. Len(got) : got[k] = Byte(0, k)
    BY <1>7, <1>8, <1>9, <2>1
  <2>3. got = Piece(0, Len(got))
    BY <1>3, <2>2, PieceHeld
  <2> QED BY <1>8, <2>3 DEF Salt
<1>11. key' = "right"
  BY <1>1, <1>10
<1>12. PlaceTypes'
  <2>1. need' \in Nat /\ got' \in Seq(Token) /\ want' \in Nat
    BY <1>1, <1>3, ReaderAssumption, EmptySeq
  <2> QED BY <1>1, <1>2, <1>3, <1>11, <2>1, TypesKept DEF PlaceTypes
<1>13. Stages'
  <2>1. Len(got') + need' = Amount'
    <3>1. Len(got') = 0 /\ HeadLen \in Nat
      BY <1>1, ReaderAssumption
    <3> QED BY <1>1, <3>1 DEF Amount
  <2>2. want' = 0 /\ result' = NoResult /\ Len(result'.data) <= want'
    BY <1>1, <1>5 DEF NoResult
  <2>3. nonce' = 1 /\ nonce' <= Len(sealed') + 1 /\ sealed' # << >> /\ at' # "idle"
    BY <1>1, <1>2, <1>3, <1>7, <1>9 DEF Stages
  <2>4. version' # 4 => inbuf' = << >> /\ pending' = "ok"
    BY <1>1, <1>2, <1>3 DEF Stages
  <2> QED BY <1>1, <1>11, <2>1, <2>2, <2>3, <2>4 DEF Stages
<1>14. Exact'
  BY <1>1, <1>2, <1>3 DEF Exact
<1>15. SaltLen = Base(start)'
  BY <1>1, <1>7, <1>9, <1>11 DEF Base
<1>16. /\ Holds(got', plain, SaltLen) /\ Holds(inbuf', plain, SaltLen + Len(got'))
       /\ Holds(result'.data, plain, SaltLen + Len(got') + Len(inbuf'))
       /\ front = SaltLen + Len(got') + Len(inbuf') + Len(result'.data)
  <2>1. /\ got' = << >> /\ inbuf' = inbuf /\ result' = result /\ Len(got') = 0
        /\ Holds(inbuf, plain, base + Len(got)) /\ Holds(result.data, plain, base + Len(got) + Len(inbuf))
        /\ front = base + Len(got) + Len(inbuf) + Len(result.data)
    BY <1>1, <1>4 DEF PlacedBy
  <2>2. base + Len(got) = SaltLen /\ SaltLen + Len(got') = SaltLen
    BY <1>7, <1>8, <2>1
  <2>3. Holds(got', plain, SaltLen)
    BY <1>7, <1>8, <1>9, <2>1, NothingHeld
  <2> QED BY <2>1, <2>2, <2>3
<1>17. \A e \in {"eof", "unexpected"} : e \in {result.err, pending} <=> e \in {result'.err, pending'}
  BY <1>1
<1>18. ~mistaken' /\ at' \in {"idle", "reading"} /\ result' \in {result, NoResult} /\ Len(delivered) <= Len(delivered')
  BY <1>1, <1>3 DEF ReaderTypes
<1>19. UNCHANGED << version, mode, server, wireVars, received, nameSkipped, remaining, matched, sealed, out >>
  BY <1>1, <1>2
<1> QED BY <1>3, <1>4, <1>8, <1>12, <1>13, <1>14, <1>15, <1>16, <1>17, <1>18, <1>19, StillPlaced

LEMMA TooShort ==
  ASSUME NEW a \in Nat, NEW g \in Nat, NEW w \in Nat, NEW d \in Nat, g + w = d, w > 0, NEW e \in Nat, d <= e
  PROVE  ~(a + e <= a + g)
OBVIOUS

\* A reader that meets the end of a stream that has not been cut is behind a record.
LEMMA AtTheEnd ==
  ASSUME ReaderTypes, ReaderInv, InPlace, at = "reading", need \in Nat \ {0},
         NEW plain \in Seq(Token), NEW start, Stream(plain, start), start[nonce - 1] \in Nat,
         NEW base \in Nat, base = Base(start), NEW g \in Nat, g = Len(got), base + g = Len(plain)
  PROVE  Len(got) = 0 /\ stage \in {"salt", "head"} /\ delivered = written
<1>1. /\ PlaceTypes /\ Shapes /\ Stages /\ Exact /\ ~mistaken
      /\ got \in Seq(Token) /\ Len(got) \in Nat /\ need \in Nat
  BY InPlaceIs
<1>2. Opened /\ Sealed
  BY <1>1 DEF ReaderInv
<1>12. /\ Len(delivered) \in Nat /\ Len(written) \in Nat /\ Len(sealed) \in Nat
       /\ nonce \in Nat \ {0} /\ delivered \in Seq(Nat \X Int) /\ written \in Seq(Nat \X Int)
  BY DEF ReaderTypes
<1>13. cache = << >> /\ Len(cache) = 0
  BY <1>2 DEF Opened
<1>14. LastOf(Len(sealed)) = Len(written)
  BY <1>2 DEF Sealed
<1>3. /\ cache = << >> /\ Len(cache) = 0 /\ Len(delivered) \in Nat /\ Len(written) \in Nat /\ Len(sealed) \in Nat
      /\ nonce \in Nat \ {0} /\ delivered \in Seq(Nat \X Int) /\ written \in Seq(Nat \X Int)
      /\ LastOf(Len(sealed)) = Len(written)
  BY <1>12, <1>13, <1>14
<1>15. Len(plain) \in Nat
  OBVIOUS
<1>16. HeadLen \in Nat /\ TagLen \in Nat
  BY ReaderAssumption
<1>4. stage # "discard" => Len(delivered) = LastOf(nonce - 1)
  <2>1. Len(delivered) + Len(cache) + (IF stage = "discard" THEN 1 ELSE 0) = LastOf(nonce - 1)
    BY <1>2 DEF Opened, Delivered
  <2> QED BY <1>3, <2>1
<1>5. ASSUME stage # "discard", nonce - 1 = Len(sealed) PROVE delivered = written
  <2>1. Len(delivered) = Len(written)
    BY <1>3, <1>4, <1>5
  <2> QED BY <1>1, <1>3, <2>1, SeqEqual DEF Exact
<1>6. Len(got) + need = Amount
  BY <1>1 DEF Stages
<1>7. CASE stage = "salt"
  <2>1. /\ Base(start) = 0 /\ key = "none" /\ nonce = 1 /\ Amount = SaltLen
        /\ IF sealed = << >> THEN plain = << >>
           ELSE start[1] = SaltLen /\ SaltLen <= Len(plain) /\ \A k \in 1 .. SaltLen : plain[k] = Byte(0, k)
    BY <1>1, <1>7, SaltDue
  <2>2. SaltLen \in Nat
    BY ReaderAssumption
  <2>3. sealed = << >>
    BY <1>1, <1>6, <2>1, <2>2
  <2>4. Len(plain) = 0 /\ Len(sealed) = 0
    BY <2>1, <2>3
  <2> QED BY <1>1, <1>5, <1>7, <2>1, <2>4
<1>8. CASE stage = "head"
  <2>1. /\ Base(start) = start[nonce] /\ Amount = HeadLen /\ nonce \in 1 .. Len(sealed) + 1
        /\ nonce = Len(sealed) + 1 => start[nonce] = Len(plain)
        /\ nonce \in 1 .. Len(sealed) =>
              /\ start[nonce + 1] = start[nonce] + (HeadLen + IF sealed[nonce].len = 0 THEN sealed[nonce].pad ELSE 0)
              /\ start[nonce + 1] <= Len(plain)
    BY <1>1, <1>8, HeadDue
  <2>2. base = start[nonce] /\ g + need = HeadLen
    BY <1>6, <2>1
  <2>3. ~(nonce \in 1 .. Len(sealed))
    <3> SUFFICES ASSUME nonce \in 1 .. Len(sealed) PROVE FALSE
      OBVIOUS
    <3>1. (IF sealed[nonce].len = 0 THEN sealed[nonce].pad ELSE 0) \in Nat
      BY <1>1, ExtentOf
    <3>2. /\ start[nonce + 1] = start[nonce] + (HeadLen + IF sealed[nonce].len = 0 THEN sealed[nonce].pad ELSE 0)
          /\ start[nonce + 1] <= Len(plain)
      BY <2>1
    <3>3. PICK x \in Nat : x = IF sealed[nonce].len = 0 THEN sealed[nonce].pad ELSE 0
      BY <3>1
    <3>4. base + (HeadLen + x) <= base + g
      BY <2>2, <3>2, <3>3
    <3>5. HeadLen <= HeadLen + x /\ HeadLen + x \in Nat
      BY <1>16, <3>3
    <3> QED BY <1>1, <1>16, <2>2, <3>4, <3>5, TooShort
  <2>4. nonce = Len(sealed) + 1 /\ nonce - 1 = Len(sealed)
    <3>1. nonce \in 1 .. Len(sealed) + 1
      BY <2>1
    <3>2. nonce \in Nat /\ Len(sealed) \in Nat
      BY <1>12
    <3> QED BY <2>3, <3>1, <3>2
  <2>5. Len(got) = 0
    <3>1. base = Len(plain)
      BY <2>1, <2>2, <2>4
    <3> QED BY <1>15, <3>1
  <2> QED BY <1>5, <1>8, <2>4, <2>5
<1>9. CASE stage \in {"pad", "body"}
  <2>1. /\ Base(start) = start[nonce] /\ header.pad \in Nat /\ header.len \in Nat
        /\ start[nonce + 1] = start[nonce] + (header.pad + header.len + TagLen) /\ start[nonce + 1] <= Len(plain)
    BY <1>1, <1>2, <1>9, BodyDue
  <2>2. Amount = header.pad \/ Amount = header.pad + header.len + TagLen
    BY <1>9 DEF Amount
  <2>3. header.pad + header.len + TagLen \in Nat /\ header.pad <= header.pad + header.len + TagLen
    BY <1>16, <2>1
  <2>4. Amount \in Nat /\ Amount <= header.pad + header.len + TagLen
    BY <2>1, <2>2, <2>3
  <2>5. base + (header.pad + header.len + TagLen) <= base + g
    BY <2>1
  <2>6. g + need = Amount
    BY <1>6
  <2> QED BY <1>1, <2>3, <2>4, <2>5, <2>6, TooShort
<1>10. CASE stage = "discard"
  <2>1. /\ Base(start) = start[nonce - 1] + HeadLen /\ Amount = header.pad /\ header.pad \in Nat
        /\ start[nonce] = start[nonce - 1] + (HeadLen + header.pad) /\ start[nonce] <= Len(plain)
    BY <1>1, <1>10, DiscardDue
  <2>2. base + header.pad <= base + g
    <3>1. start[nonce - 1] + (HeadLen + header.pad) <= base + g /\ base = start[nonce - 1] + HeadLen
      BY <2>1
    <3> QED BY <1>15, <1>16, <2>1, <3>1, SMTT(30)
  <2>3. g + need = header.pad /\ header.pad <= header.pad
    BY <1>6, <2>1
  <2> QED BY <1>1, <2>1, <2>2, <2>3, TooShort
<1>11. stage # "none"
  BY <1>1 DEF Stages
<1> QED BY <1>1, <1>7, <1>8, <1>9, <1>10, <1>11 DEF PlaceTypes

\* How much this ReadFull has read.
LEMMA SoFar ==
  ASSUME ReaderTypes, PlaceTypes, Stages, stage # "none"
  PROVE  /\ ReadSoFar <= Len(got) /\ ReadSoFar \in Int
         /\ stage \in {"salt", "head"} => ReadSoFar = Len(got)
<1>1. /\ Len(got) \in Nat /\ need \in Nat /\ header.pad \in Nat /\ header.len \in Nat
      /\ SaltLen \in Nat /\ HeadLen \in Nat /\ TagLen \in Nat
  BY ReaderAssumption DEF PlaceTypes, ReaderTypes
<1>2. Len(got) + need = Amount
  BY DEF Stages
<1>3. CASE stage = "salt"
  <2>1. Amount = SaltLen /\ ReadSoFar = SaltLen - need
    BY <1>3 DEF Amount, ReadSoFar
  <2> QED BY <1>1, <1>2, <2>1
<1>4. CASE stage = "head"
  <2>1. Amount = HeadLen /\ ReadSoFar = HeadLen - need
    BY <1>4 DEF Amount, ReadSoFar
  <2> QED BY <1>1, <1>2, <2>1
<1>5. CASE stage = "body"
  <2>1. Amount = header.pad + header.len + TagLen /\ ReadSoFar = header.len + TagLen - need
    BY <1>5 DEF Amount, ReadSoFar
  <2> QED BY <1>1, <1>2, <1>5, <2>1
<1>6. CASE stage \in {"pad", "discard"}
  <2>1. Amount = header.pad /\ ReadSoFar = header.pad - need
    BY <1>6 DEF Amount, ReadSoFar
  <2> QED BY <1>1, <1>2, <1>6, <2>1
<1> QED BY <1>3, <1>4, <1>5, <1>6 DEF PlaceTypes

\* An error of the connection: a deadline that passes between records is forgotten.
LEMMA FailPlaced ==
  ASSUME ReaderTypes, ReaderInv, InPlace, ReaderTypes', ~lost', at = "reading", need \in Nat \ {0},
         NEW err \in {"timeout", "eof", "unexpected"}, NEW more \in Nat, more = Len(result.data),
         Fails(err, ReadSoFar + more), inbuf = << >>, inbuf' = << >>,
         err \in {result.err, pending}, result.err \in {"none", err}, pending \in {"ok", err},
         want' = 0, result' = NoResult, pending' = "ok",
         UNCHANGED << version, mode, server, wireVars, received, nameSkipped, remaining, matched, timeouts, out, sealed,
                      written, key, nonce, header, mistaken >>
  PROVE  InPlace'
<1>1. /\ PlaceTypes /\ ~mistaken /\ Shapes /\ Stages /\ Exact
      /\ need \in Nat /\ got \in Seq(Token) /\ Len(got) \in Nat /\ result.data \in Seq(Token) /\ Len(result.data) \in Nat
  BY InPlaceIs
<1>2. PICK plain \in Seq(Token), start \in [Nat -> Nat], base \in Nat, front \in Nat, end \in Nat :
        PlacedBy(plain, start, base, front, end)
  BY InPlaceIs
<1>3. /\ Stream(plain, start) /\ base = Base(start)
      /\ Holds(got, plain, base) /\ Holds(result.data, plain, base + Len(got) + Len(inbuf))
      /\ front = base + Len(got) + Len(inbuf) + Len(result.data)
  BY <1>2 DEF PlacedBy
<1>4. /\ lost' = (lost \/ (err = "timeout" /\ (ReadSoFar + more > 0 \/ stage \notin {"salt", "head"})))
      /\ at' = (CASE err = "timeout" -> "idle" [] err = "eof" /\ ReadSoFar + more = 0 -> "eof" [] OTHER -> "error")
      /\ stage' = "none" /\ need' = 0 /\ got' = << >>
      /\ delivered' = IF stage = "discard" THEN Append(delivered, Missed(nonce - 1)) ELSE delivered
  BY DEF Fails
<1>5. PlaceTypes'
  <2>1. at' \in {"idle", "eof", "error"} /\ need' \in Nat /\ want' \in Nat /\ got' \in Seq(Token) /\ inbuf' \in Seq(Token)
    BY <1>4, EmptySeq
  <2>2. stage' \in {"none"} /\ key' \in {"none", "right", "wrong"}
    BY <1>1, <1>4 DEF PlaceTypes
  <2> QED BY <1>1, <2>1, <2>2, TypesKept
<1>6. stage # "none"
  BY <1>1 DEF Stages
<1>7. ReadSoFar <= Len(got) /\ ReadSoFar \in Int /\ (stage \in {"salt", "head"} => ReadSoFar = Len(got))
  BY <1>1, <1>6, SoFar
<1>8. CASE err = "timeout"
  <2>1. stage \in {"salt", "head"} /\ ~(ReadSoFar + more > 0)
    BY <1>4, <1>8
  <2>2. Len(got) = 0 /\ more = 0
    <3>1. PICK g \in Nat : g = Len(got)
      BY <1>1
    <3>2. ~(g + more > 0)
      BY <1>7, <2>1, <3>1, SMTT(30)
    <3>3. g = 0 /\ more = 0
      BY <3>2
    <3> QED BY <3>1, <3>3
  <2>3. at' = "idle" /\ delivered' = delivered
    BY <1>4, <1>8, <2>1
  <2>4. Stages'
    <3>1. nonce <= Len(sealed) + 1 /\ (key = "none" => nonce = 1) /\ (key # "none" => key = "right" /\ sealed # << >>)
      BY <1>1 DEF Stages
    <3>2. nonce = 1 \/ ~sealed[nonce - 1].head \/ sealed[nonce - 1].len = 0
      BY <1>1, <2>1, <3>1 DEF Stages
    <3>3. Len(got') + need' = Amount'
      <4>1. Len(got') = 0
        BY <1>4
      <4> QED BY <1>4, <4>1 DEF Amount
    <3>4. Len(result'.data) <= want'
      BY DEF NoResult
    <3> QED BY <1>4, <2>3, <3>1, <3>2, <3>3, <3>4 DEF Stages
  <2>5. Exact'
    BY <1>1, <2>3 DEF Exact
  <2>6. base = Base(start)'
    BY <1>3, <1>4, <2>1 DEF Base
  <2>7. /\ Holds(got', plain, base) /\ Holds(inbuf', plain, base + Len(got'))
        /\ Holds(result'.data, plain, base + Len(got') + Len(inbuf'))
        /\ front = base + Len(got') + Len(inbuf') + Len(result'.data)
    <3>1. base <= Len(plain) /\ front = base
      <4>1. base + Len(got) <= Len(plain) /\ Len(inbuf) = 0
        BY <1>3 DEF Holds
      <4> QED BY <1>3, <2>2, <4>1
    <3>2. got' = << >> /\ inbuf' = << >> /\ result'.data = << >> /\ Len(<< >>) = 0 /\ Holds(<< >>, plain, base)
      BY <1>4, <3>1, NothingHeld DEF NoResult
    <3>3. base + 0 = base
      OBVIOUS
    <3> QED BY <3>1, <3>2, <3>3
  <2>8. \A e \in {"eof", "unexpected"} : e \in {result.err, pending} <=> e \in {result'.err, pending'}
    BY <1>8 DEF NoResult
  <2>9. ~mistaken' /\ at' \in {"idle", "reading"} /\ result' \in {result, NoResult} /\ Len(delivered) <= Len(delivered')
    BY <1>1, <2>3 DEF ReaderTypes
  <2> QED BY <1>1, <1>2, <1>5, <2>4, <2>5, <2>6, <2>7, <2>8, <2>9, StillPlaced
<1>9. CASE err # "timeout"
  <2>1. Ended(result.err) \/ Ended(pending)
    BY <1>9 DEF Ended
  <2>2. /\ closed
        /\ ~cut => /\ "unexpected" \notin {result.err, pending} /\ front = Len(plain)
                   /\ Ended(result.err) => result.data = << >>
    BY <1>2, <2>1 DEF PlacedBy
  <2>3. ASSUME ~cut PROVE at' = "eof" /\ delivered' = written'
    <3>1. err = "eof"
      BY <1>9, <2>2, <2>3
    <3>2. result.data = << >>
      <4>1. result.err = "none" => result.data = << >>
        BY <1>1 DEF PlaceTypes, NoResult
      <4>2. result.err # "none" => Ended(result.err)
        BY <3>1 DEF Ended
      <4> QED BY <2>2, <2>3, <4>1, <4>2
    <3>3. Len(result.data) = 0 /\ Len(inbuf) = 0
      BY <3>2
    <3>4. PICK g \in Nat : g = Len(got) /\ base + g = Len(plain)
      <4>1. front = base + Len(got) + 0 + 0 /\ front = Len(plain)
        BY <1>3, <2>2, <2>3, <3>3
      <4>2. base + Len(got) = Len(plain)
        BY <1>1, <4>1
      <4> QED BY <1>1, <4>2
    <3>5. Len(got) = 0 /\ stage \in {"salt", "head"} /\ delivered = written
      <4>1. start[nonce - 1] \in Nat
        <5>1. nonce - 1 \in Nat
          BY DEF ReaderTypes
        <5> QED BY <5>1
      <4> QED BY <1>3, <3>4, <4>1, AtTheEnd
    <3>6. ReadSoFar + more = 0
      BY <1>7, <3>3, <3>5
    <3> QED BY <1>4, <3>1, <3>5, <3>6
  <2>4. at' \in {"eof", "error"}
    BY <1>4, <1>9
  <2>5. Shapes'
    <3>1. Len(delivered) <= Len(delivered')
      <4>1. delivered \in Seq(Nat \X Int) /\ delivered' \in Seq(Nat \X Int)
        BY DEF ReaderTypes
      <4> QED BY <1>4, <4>1
    <3> QED BY <1>1, <3>1, ShapesKept
  <2>6. closed' /\ cut' = cut
    BY <2>2 DEF wireVars
  <2> QED BY <1>1, <1>5, <2>3, <2>4, <2>5, <2>6 DEF InPlace
<1> QED BY <1>8, <1>9

\* What is read of the connection, but not of its buffer, is behind what has been read.
LEMMA MorePlaced ==
  ASSUME ReaderTypes, InPlace, ReaderTypes', at = "reading", NEW data \in Seq(Token), NEW rest \in Seq(Token),
         Len(data) <= need, need' = need - Len(data), got' = got \o data, inbuf' = rest,
         result' = NoResult, want' = 0, need > 0,
         (inbuf = data \o rest /\ result = NoResult) \/ (inbuf = << >> /\ rest = << >> /\ result.data = data),
         version # 4 => rest = << >>, result.err \in {"none", "ok"},
         UNCHANGED << version, mode, server, wireVars, received, nameSkipped, remaining, matched, timeouts, out, sealed,
                      written, delivered, at, stage, key, nonce, header, pending, mistaken >>
  PROVE  InPlace'
<1>1. /\ PlaceTypes /\ ~mistaken /\ Shapes /\ Stages /\ Exact
      /\ need \in Nat /\ got \in Seq(Token) /\ Len(got) \in Nat /\ inbuf \in Seq(Token) /\ result.data \in Seq(Token)
      /\ Len(inbuf) \in Nat /\ Len(result.data) \in Nat
  BY InPlaceIs
<1>2. PICK plain \in Seq(Token), start \in [Nat -> Nat], base \in Nat, front \in Nat, end \in Nat :
        PlacedBy(plain, start, base, front, end)
  BY InPlaceIs
<1>3. /\ base = Base(start)
      /\ Holds(got, plain, base) /\ Holds(inbuf, plain, base + Len(got))
      /\ Holds(result.data, plain, base + Len(got) + Len(inbuf))
      /\ front = base + Len(got) + Len(inbuf) + Len(result.data)
  BY <1>2 DEF PlacedBy
<1>20. plain \in Seq(Token) /\ base \in Nat /\ front \in Nat
  BY <1>2
<1>4. PICK g \in Nat, d \in Nat, r \in Nat : g = Len(got) /\ d = Len(data) /\ r = Len(rest)
  BY <1>1, SMTT(30)
<1>5. Holds(data, plain, base + g) /\ Holds(rest, plain, (base + g) + d) /\ front = base + g + d + r
  <2>1. CASE inbuf = data \o rest /\ result = NoResult
    <3>1. /\ Len(inbuf) = d + r /\ (\A k \in 1 .. d : inbuf[k] = data[k]) /\ (\A k \in 1 .. r : inbuf[d + k] = rest[k])
      BY <1>4, <2>1, Joined
    <3>2. (base + g) + (d + r) <= Len(plain) /\ \A k \in 1 .. d + r : inbuf[k] = plain[(base + g) + k]
      BY <1>3, <1>4, <3>1 DEF Holds
    <3>3. Len(result.data) = 0
      BY <2>1 DEF NoResult
    <3>4. (base + g) + d <= Len(plain) /\ ((base + g) + d) + r <= Len(plain) /\ base + g + (d + r) + 0 = base + g + d + r
      BY <1>4, <1>20, <3>2
    <3>5. \A k \in 1 .. d : k \in 1 .. d + r
      BY <1>4
    <3>6. \A k \in 1 .. r : d + k \in 1 .. d + r /\ (base + g) + (d + k) = ((base + g) + d) + k
      BY <1>4, <1>20
    <3>7. front = base + g + (d + r) + 0
      BY <1>3, <1>4, <3>1, <3>3
    <3>8. \A k \in 1 .. d : data[k] = plain[(base + g) + k]
      BY <3>1, <3>2, <3>5
    <3>9. \A k \in 1 .. r : rest[k] = plain[((base + g) + d) + k]
      <4> TAKE k \in 1 .. r
      <4>1. inbuf[d + k] = rest[k] /\ d + k \in 1 .. d + r /\ (base + g) + (d + k) = ((base + g) + d) + k
        BY <3>1, <3>6
      <4>2. inbuf[d + k] = plain[(base + g) + (d + k)]
        BY <3>2, <4>1
      <4> QED BY <4>1, <4>2
    <3>10. Holds(data, plain, base + g) /\ Holds(rest, plain, (base + g) + d)
      BY <1>4, <3>4, <3>8, <3>9 DEF Holds
    <3>11. base + g + (d + r) + 0 = base + g + d + r
      BY <3>4
    <3> QED BY <3>7, <3>10, <3>11
  <2>2. CASE inbuf = << >> /\ rest = << >> /\ result.data = data
    <3>1. Len(inbuf) = 0 /\ r = 0
      BY <1>4, <2>2
    <3>2. base + g + 0 = base + g /\ base + g + 0 + d = base + g + d + 0
      BY <1>4, <1>20
    <3>3. Holds(data, plain, base + g) /\ front = base + g + d + r
      BY <1>3, <1>4, <2>2, <3>1, <3>2
    <3>4. (base + g) + d <= Len(plain)
      BY <1>4, <3>3 DEF Holds
    <3>5. Holds(rest, plain, (base + g) + d)
      BY <1>4, <1>20, <2>2, <3>4, NothingHeld
    <3> QED BY <3>3, <3>5
  <2> QED BY <2>1, <2>2
<1>6. got' \in Seq(Token) /\ Len(got') = g + d /\ Holds(got', plain, base)
  <2>1. Holds(got, plain, base) /\ Holds(data, plain, base + Len(got))
    BY <1>3, <1>4, <1>5
  <2>2. got \o data \in Seq(Token) /\ Len(got \o data) = Len(got) + Len(data) /\ Holds(got \o data, plain, base)
    BY <1>1, <1>20, <2>1, HoldsJoin
  <2> QED BY <1>4, <2>2
<1>7. need' \in Nat
  BY <1>1, <1>4
<1>8. PlaceTypes'
  BY <1>1, <1>6, <1>7, TypesKept DEF PlaceTypes
<1>9. Stages'
  <2>1. Len(got') + need' = Amount'
    <3>1. Amount' = Amount
      BY DEF Amount
    <3>2. g + need = Amount
      BY <1>1, <1>4 DEF Stages
    <3>3. need' = need - d /\ need \in Nat
      BY <1>1, <1>4
    <3> QED BY <1>4, <1>6, <3>1, <3>2, <3>3
  <2>2. want' = 0 /\ Len(result'.data) <= want'
    BY DEF NoResult
  <2>3. version # 4 => inbuf' = << >> /\ pending = "ok"
    BY <1>1 DEF Stages
  <2> QED BY <1>1, <2>1, <2>2, <2>3 DEF Stages, Zero
<1>10. Exact'
  BY <1>1 DEF Exact
<1>11. base = Base(start)'
  BY <1>3 DEF Base
<1>12. /\ Holds(got', plain, base) /\ Holds(inbuf', plain, base + Len(got'))
       /\ Holds(result'.data, plain, base + Len(got') + Len(inbuf'))
       /\ front = base + Len(got') + Len(inbuf') + Len(result'.data)
  <2>1. base + Len(got') = (base + g) + d /\ Len(inbuf') = r
    BY <1>4, <1>20, <1>6
  <2>2. ((base + g) + d) + r <= Len(plain)
    BY <1>4, <1>5 DEF Holds
  <2>3. ((base + g) + d) + r \in Nat /\ ((base + g) + d) + r + 0 = base + g + d + r
    BY <1>4, <1>20
  <2>4. result'.data = << >> /\ Len(result'.data) = 0 /\ Holds(<< >>, plain, ((base + g) + d) + r)
    BY <1>20, <2>2, <2>3, NothingHeld DEF NoResult
  <2> QED BY <1>5, <1>6, <2>1, <2>3, <2>4
<1>13. \A e \in {"eof", "unexpected"} : e \in {result.err, pending} <=> e \in {result'.err, pending'}
  BY DEF NoResult
<1>14. ~mistaken' /\ at' \in {"idle", "reading"} /\ result' \in {result, NoResult} /\ Len(delivered) <= Len(delivered')
  BY <1>1 DEF ReaderTypes
<1> QED BY <1>1, <1>2, <1>8, <1>9, <1>10, <1>11, <1>12, <1>13, <1>14, StillPlaced

LEMMA ReadDonePlaced ==
  ASSUME ReaderTypes, ReaderInv, InPlace, ReaderTypes', ~lost', ReadDone
  PROVE  InPlace'
<1>1. /\ at = "reading" /\ want # 0 /\ result # NoResult /\ want' = 0 /\ result' = NoResult
      /\ UNCHANGED << wireVars, received, nameSkipped, remaining, matched, timeouts, writeVars, key, nonce, header,
                      mistaken >>
  BY DEF ReadDone
<1>2. UNCHANGED << mode, server, version, sealed, out, written >>
  BY <1>1 DEF writeVars
<1>3. /\ PlaceTypes /\ ~mistaken /\ Shapes /\ Stages /\ Exact
      /\ need \in Nat /\ got \in Seq(Token) /\ Len(got) \in Nat /\ inbuf \in Seq(Token) /\ result.data \in Seq(Token)
      /\ Len(inbuf) \in Nat /\ Len(result.data) \in Nat /\ want \in Nat
  BY <1>1, InPlaceIs
<1>4. need \in Nat \ {0} /\ inbuf = << >> /\ pending = "ok"
  <2>1. need > 0 /\ inbuf = << >> /\ pending = "ok"
    BY <1>1, <1>3 DEF Stages
  <2> QED BY <1>3, <2>1
<1>5. result.err \in {"ok", "timeout", "eof", "unexpected"}
  BY <1>1, <1>3 DEF PlaceTypes
<1>6. CASE version = 4
  <2>1. inbuf' = result.data /\ pending' = result.err /\ UNCHANGED << at, stage, need, got, delivered >>
    BY <1>6 DEF ReadDone
  <2>2. PICK plain \in Seq(Token), start \in [Nat -> Nat], base \in Nat, front \in Nat, end \in Nat :
          PlacedBy(plain, start, base, front, end)
    BY <1>1, InPlaceIs
  <2>3. /\ base = Base(start)
        /\ Holds(got, plain, base)
        /\ Holds(result.data, plain, base + Len(got) + Len(inbuf))
        /\ front = base + Len(got) + Len(inbuf) + Len(result.data)
    BY <2>2 DEF PlacedBy
  <2>4. PlaceTypes'
    <3>1. want' \in Nat /\ got' \in Seq(Token) /\ inbuf' \in Seq(Token) /\ need' \in Nat
          /\ pending' \in {"ok", "timeout", "eof", "unexpected"}
      BY <1>1, <1>3, <1>5, <2>1
    <3>2. timeouts' = timeouts
      BY <1>1
    <3> QED BY <1>1, <1>2, <1>3, <2>1, <3>1, <3>2, TypesKept DEF PlaceTypes
  <2>5. Stages'
    <3>1. Amount' = Amount
      BY <1>1, <2>1 DEF Amount
    <3>2. Len(got') + need' = Amount'
      BY <1>3, <2>1, <3>1 DEF Stages
    <3> QED BY <1>1, <1>2, <1>3, <1>6, <2>1, <3>2 DEF Stages, Zero
  <2>6. Exact'
    BY <1>2, <1>3, <2>1 DEF Exact
  <2>7. base = Base(start)'
    BY <1>1, <2>1, <2>3 DEF Base
  <2>8. /\ Holds(got', plain, base) /\ Holds(inbuf', plain, base + Len(got'))
        /\ Holds(result'.data, plain, base + Len(got') + Len(inbuf'))
        /\ front = base + Len(got') + Len(inbuf') + Len(result'.data)
    <3>1. PICK g \in Nat, d \in Nat : g = Len(got) /\ d = Len(result.data)
      BY <1>3
    <3>2. Len(got') = g /\ Len(inbuf') = d /\ Len(inbuf) = 0
      BY <1>4, <2>1, <3>1
    <3>7. base \in Nat /\ plain \in Seq(Token)
      BY <2>2
    <3>8. base \in Nat /\ g \in Nat /\ d \in Nat
      BY <2>2, <3>1
    <3>3. base + g + 0 = base + g /\ base + g + 0 + d = base + g + d + 0 /\ base + g + d \in Nat /\ base + g + d + 0 = base + g + d
      BY <3>8
    <3>4. Holds(result.data, plain, base + g)
      BY <2>3, <3>1, <3>2, <3>3
    <3>5. base + g + d <= Len(plain)
      BY <3>1, <3>4 DEF Holds
    <3>6. Holds(NoResult.data, plain, base + g + d) /\ Len(NoResult.data) = 0
      BY <3>3, <3>5, <3>7, NothingHeld
    <3> QED BY <1>1, <2>1, <2>3, <3>1, <3>2, <3>3, <3>4, <3>6
  <2>9. \A e \in {"eof", "unexpected"} : e \in {result.err, pending} <=> e \in {result'.err, pending'}
    BY <1>1, <1>4, <2>1 DEF NoResult
  <2>10. ~mistaken' /\ at' \in {"idle", "reading"} /\ result' \in {result, NoResult} /\ Len(delivered) <= Len(delivered')
    BY <1>1, <1>3, <2>1 DEF ReaderTypes
  <2>11. UNCHANGED << version, mode, server, wireVars, received, nameSkipped, remaining, matched, sealed, out >>
    BY <1>1, <1>2
  <2> QED BY <1>3, <2>2, <2>4, <2>5, <2>6, <2>7, <2>8, <2>9, <2>10, <2>11, StillPlaced
<1>7. CASE version # 4 /\ result.err = "ok"
  <2>1. /\ got' = got \o result.data /\ need' = need - Len(result.data)
        /\ UNCHANGED << at, stage, delivered, inbuf, pending >>
    BY <1>7 DEF ReadDone
  <2>2. Len(result.data) <= need
    BY <1>1, <1>3, <1>7 DEF Stages
  <2>3. inbuf' = << >> /\ << >> \in Seq(Token) /\ need > 0
    BY <1>4, <2>1, EmptySeq
  <2> QED BY <1>1, <1>2, <1>3, <1>4, <1>7, <2>1, <2>2, <2>3, MorePlaced
<1>8. CASE version # 4 /\ result.err # "ok"
  <2>1. Fails(result.err, ReadSoFar + Len(result.data)) /\ UNCHANGED << inbuf, pending >>
    BY <1>8 DEF ReadDone
  <2>2. result.err \in {"timeout", "eof", "unexpected"}
    BY <1>5, <1>8
  <2> QED BY <1>1, <1>2, <1>3, <1>4, <2>1, <2>2, FailPlaced
<1> QED BY <1>6, <1>7, <1>8

LEMMA TakePlaced ==
  ASSUME ReaderTypes, ReaderInv, InPlace, ReaderTypes', ~lost', TakeBuffered
  PROVE  InPlace'
<1>1. /\ at = "reading" /\ want = 0 /\ version = 4 /\ need > 0
      /\ UNCHANGED << wireVars, received, nameSkipped, remaining, matched, want, result, timeouts, writeVars, key, nonce,
                      header, mistaken >>
  BY DEF TakeBuffered
<1>2. UNCHANGED << mode, server, version, sealed, out, written >>
  BY <1>1 DEF writeVars
<1>3. /\ PlaceTypes /\ ~mistaken /\ Shapes /\ Stages /\ Exact
      /\ need \in Nat /\ got \in Seq(Token) /\ inbuf \in Seq(Token) /\ Len(inbuf) \in Nat
  BY <1>1, InPlaceIs
<1>4. result = NoResult /\ result' = NoResult /\ result.err = "none" /\ want' = 0
  BY <1>1, <1>3 DEF Stages, NoResult
<1>5. CASE inbuf = << >>
  <2>1. /\ inbuf = << >> /\ pending # "ok" /\ Fails(pending, ReadSoFar) /\ pending' = "ok" /\ inbuf' = << >>
    BY <1>5 DEF TakeBuffered
  <2>2. pending \in {"timeout", "eof", "unexpected"}
    BY <1>3, <2>1 DEF PlaceTypes
  <2>3. stage # "none"
    BY <1>1, <1>3 DEF Stages
  <2>4. ReadSoFar \in Int
    BY <1>3, <2>3, SoFar
  <2>5. ReadSoFar + 0 = ReadSoFar /\ Len(result.data) = 0
    BY <1>4, <2>4 DEF NoResult
  <2>6. Fails(pending, ReadSoFar + 0)
    BY <2>1, <2>5
  <2>7. need \in Nat \ {0}
    BY <1>1, <1>3
  <2> QED BY <1>1, <1>2, <1>4, <2>1, <2>2, <2>5, <2>6, <2>7, FailPlaced
<1>6. CASE inbuf # << >>
  <2>1. PICK n \in Nat : n <= Len(inbuf) /\ n <= need
          /\ got' = got \o SubSeq(inbuf, 1, n) /\ need' = need - n
          /\ inbuf' = SubSeq(inbuf, n + 1, Len(inbuf))
    <3> DEFINE m == IF Len(inbuf) > need THEN need ELSE Len(inbuf)
    <3>1. got' = got \o SubSeq(inbuf, 1, m) /\ need' = need - m /\ inbuf' = SubSeq(inbuf, m + 1, Len(inbuf))
      BY <1>6 DEF TakeBuffered
    <3>2. m \in Nat /\ m <= Len(inbuf) /\ m <= need
      BY <1>3
    <3> HIDE DEF m
    <3> QED BY <3>1, <3>2
  <2>2. UNCHANGED << at, stage, pending, delivered >>
    BY <1>6 DEF TakeBuffered
  <2>3. PICK data \in Seq(Token), rest \in Seq(Token) :
          data = SubSeq(inbuf, 1, n) /\ rest = SubSeq(inbuf, n + 1, Len(inbuf)) /\ Len(data) = n /\ inbuf = data \o rest
    <3>1. SubSeq(inbuf, 1, n) \in Seq(Token) /\ Len(SubSeq(inbuf, 1, n)) = n
          /\ \A k \in 1 .. n : SubSeq(inbuf, 1, n)[k] = inbuf[k]
      <4>1. n - 0 = n /\ 0 + 1 = 1 /\ 0 <= n
        BY <2>1
      <4>2. SubSeq(inbuf, 0 + 1, n) \in Seq(Token) /\ Len(SubSeq(inbuf, 0 + 1, n)) = n - 0
            /\ \A k \in 1 .. n - 0 : SubSeq(inbuf, 0 + 1, n)[k] = inbuf[0 + k]
        BY <1>3, <2>1, <4>1, Part
      <4>3. \A k \in 1 .. n : 0 + k = k
        BY <2>1
      <4> QED BY <4>1, <4>2, <4>3
    <3>2. SubSeq(inbuf, n + 1, Len(inbuf)) \in Seq(Token) /\ Len(SubSeq(inbuf, n + 1, Len(inbuf))) = Len(inbuf) - n
          /\ \A k \in 1 .. Len(inbuf) - n : SubSeq(inbuf, n + 1, Len(inbuf))[k] = inbuf[n + k]
      BY <1>3, <2>1, Part
    <3>3. PICK data \in Seq(Token) : data = SubSeq(inbuf, 1, n)
      BY <3>1
    <3>4. PICK rest \in Seq(Token) : rest = SubSeq(inbuf, n + 1, Len(inbuf))
      BY <3>2
    <3>5. Len(data) = n /\ Len(rest) = Len(inbuf) - n /\ (\A k \in 1 .. n : data[k] = inbuf[k])
          /\ \A k \in 1 .. Len(inbuf) - n : rest[k] = inbuf[n + k]
      BY <3>1, <3>2, <3>3, <3>4
    <3>6. inbuf = data \o rest
      <4>1. PICK l \in Nat : l = Len(inbuf)
        BY <1>3
      <4>6. Len(data) = n /\ Len(rest) = l - n
        BY <3>5, <4>1
      <4>7. /\ data \o rest \in Seq(Token) /\ Len(data \o rest) = Len(data) + Len(rest)
            /\ (\A k \in 1 .. Len(data) : (data \o rest)[k] = data[k])
            /\ \A k \in 1 .. Len(rest) : (data \o rest)[Len(data) + k] = rest[k]
        BY <3>3, <3>4, Joined
      <4>2. /\ data \o rest \in Seq(Token) /\ Len(data \o rest) = n + (l - n)
            /\ (\A k \in 1 .. n : (data \o rest)[k] = data[k])
            /\ \A k \in 1 .. l - n : (data \o rest)[n + k] = rest[k]
        BY <4>6, <4>7
      <4>3. n + (l - n) = l
        BY <2>1, <4>1
      <4>4. \A k \in 1 .. l : k \in 1 .. n \/ (k - n \in 1 .. l - n /\ n + (k - n) = k)
        BY <2>1, <4>1
      <4>5. \A k \in 1 .. l : (data \o rest)[k] = inbuf[k]
        <5> TAKE k \in 1 .. l
        <5>1. CASE k \in 1 .. n
          BY <3>5, <4>2, <5>1
        <5>2. CASE k - n \in 1 .. l - n /\ n + (k - n) = k
          <6>1. (data \o rest)[n + (k - n)] = rest[k - n]
            BY <4>2, <5>2
          <6>2. rest[k - n] = inbuf[n + (k - n)]
            BY <3>5, <4>1, <5>2
          <6> QED BY <5>2, <6>1, <6>2
        <5> QED BY <4>4, <5>1, <5>2
      <4> QED BY <1>3, <4>1, <4>2, <4>3, <4>5, SeqEqual
    <3> QED BY <3>3, <3>4, <3>5, <3>6
  <2>4. version = 4 /\ 0 \in Nat
    BY <1>1
  <2>5. /\ Len(data) <= need /\ need' = need - Len(data) /\ got' = got \o data /\ inbuf' = rest
    BY <2>1, <2>3
  <2>6. data \in Seq(Token) /\ rest \in Seq(Token) /\ inbuf = data \o rest
    BY <2>3
  <2>7. UNCHANGED << version, mode, server, wireVars, received, nameSkipped, remaining, matched, timeouts, out, sealed,
                      written, delivered, at, stage, key, nonce, header, pending, mistaken >>
    BY <1>1, <1>2, <2>2
  <2>8. (inbuf = data \o rest /\ result = NoResult) \/ (inbuf = << >> /\ rest = << >> /\ result.data = data)
    BY <1>4, <2>6
  <2>9. result.err \in {"none", "ok"} /\ (version # 4 => rest = << >>)
    BY <1>1, <1>4
  <2>10. data \in Seq(Token) /\ rest \in Seq(Token) /\ at = "reading" /\ need > 0 /\ want' = 0 /\ result' = NoResult
    BY <1>1, <1>4, <2>6
  <2> HIDE DEF ReadDone
  <2> QED BY <2>5, <2>7, <2>8, <2>9, <2>10, MorePlaced
<1> QED BY <1>5, <1>6

\* What has been read is done with: the next begins behind it.
LEMMA DonePlaced ==
  ASSUME ReaderTypes, InPlace, ReaderTypes', at = "reading", PlaceTypes', ~mistaken',
         at' \in {"idle", "reading"}, Stages', Exact', result = NoResult, got' = << >>,
         UNCHANGED << version, mode, server, wireVars, received, nameSkipped, remaining, matched, sealed, out,
                      inbuf, result, pending >>,
         Len(delivered) <= Len(delivered'),
         NEW plain \in Seq(Token), NEW start, start \in [Nat -> Nat], NEW base \in Nat, NEW front \in Nat, NEW end \in Nat,
         PlacedBy(plain, start, base, front, end),
         NEW place \in Nat, place = base + Len(got), place = Base(start)'
  PROVE  InPlace'
<1>1. Shapes /\ Len(inbuf) \in Nat /\ Len(got) \in Nat
  BY InPlaceIs
<1>2. /\ Holds(got, plain, base) /\ Holds(inbuf, plain, base + Len(got))
      /\ Holds(result.data, plain, base + Len(got) + Len(inbuf))
      /\ front = base + Len(got) + Len(inbuf) + Len(result.data)
  BY DEF PlacedBy
<1>3. Len(got') = 0 /\ place + 0 = place
  OBVIOUS
<1>4. Holds(got', plain, place)
  <2>1. place <= Len(plain)
    BY <1>2 DEF Holds
  <2> QED BY <2>1, NothingHeld
<1>5. /\ Holds(inbuf', plain, place + Len(got')) /\ Holds(result'.data, plain, place + Len(got') + Len(inbuf'))
      /\ front = place + Len(got') + Len(inbuf') + Len(result'.data)
  BY <1>2, <1>3
<1>6. \A e \in {"eof", "unexpected"} : e \in {result.err, pending} <=> e \in {result'.err, pending'}
  OBVIOUS
<1>7. result' \in {result, NoResult}
  OBVIOUS
<1> QED BY <1>1, <1>4, <1>5, <1>6, <1>7, StillPlaced

\* The header that is read is the one that is due; a zero chunk is reported in its turn.
LEMMA HeaderPlaced ==
  ASSUME ReaderTypes, ReaderInv, InPlace, ReaderTypes', HeaderRead
  PROVE  InPlace'
<1>1. /\ at = "reading" /\ stage = "head" /\ need = 0 /\ got' = << >>
      /\ UNCHANGED << wireVars, received, nameSkipped, remaining, matched, want, result, timeouts, lost, writeVars,
                      key, opened, inbuf, pending, cache >>
  BY DEF HeaderRead, obfsVars
<1>2. UNCHANGED << mode, server, version, sealed, out, written >>
  BY <1>1 DEF writeVars
<1>3. /\ PlaceTypes /\ ~mistaken /\ Shapes /\ Stages /\ Exact
      /\ got \in Seq(Token) /\ Len(got) \in Nat /\ inbuf \in Seq(Token) /\ Len(inbuf) \in Nat /\ want \in Nat
  BY <1>1, InPlaceIs
<1>4. Opened /\ Sealed
  BY <1>3 DEF ReaderInv
<1>5. want = 0 /\ result = NoResult /\ Len(result.data) = 0
  BY <1>1, <1>3 DEF Stages, NoResult
<1>6. PICK plain, start, base, front, end :
        /\ plain \in Seq(Token) /\ start \in [Nat -> Nat] /\ base \in Nat /\ front \in Nat /\ end \in Nat
        /\ PlacedBy(plain, start, base, front, end)
  BY <1>1, InPlaceIs
<1>7. /\ Stream(plain, start) /\ base = Base(start) /\ Holds(got, plain, base) /\ Holds(inbuf, plain, base + Len(got))
      /\ plain \in Seq(Token) /\ base \in Nat
  BY <1>6 DEF PlacedBy
<1>8. /\ Base(start) = start[nonce] /\ key = "right" /\ Amount = HeadLen /\ sealed # << >>
      /\ nonce \in 1 .. Len(sealed) + 1
      /\ nonce = Len(sealed) + 1 => start[nonce] = Len(plain)
      /\ nonce \in 1 .. Len(sealed) =>
           /\ sealed[nonce].head /\ sealed[nonce].size = HeadLen
           /\ start[nonce + 1] = start[nonce] + (HeadLen + IF sealed[nonce].len = 0 THEN sealed[nonce].pad ELSE 0)
           /\ start[nonce + 1] <= Len(plain)
           /\ \A k \in 1 .. HeadLen : plain[start[nonce] + k] = Byte(nonce, k)
  BY <1>1, <1>3, <1>7, HeadDue
<1>9. HeadLen \in Nat \ {0} /\ nonce \in Nat \ {0} /\ Len(sealed) \in Nat /\ Len(got) = HeadLen /\ Len(plain) \in Nat
  <2>1. HeadLen \in Nat \ {0} /\ nonce \in Nat \ {0} /\ Len(sealed) \in Nat
    BY ReaderAssumption DEF ReaderTypes
  <2>2. Len(got) + 0 = HeadLen
    BY <1>1, <1>3, <1>8 DEF Stages
  <2> QED BY <1>3, <1>7, <2>1, <2>2
<1>10. base + HeadLen <= Len(plain) /\ \A k \in 1 .. HeadLen : got[k] = plain[base + k]
  BY <1>7, <1>9 DEF Holds
<1>11. nonce \in 1 .. Len(sealed)
  <2>1. nonce # Len(sealed) + 1
    <3> SUFFICES ASSUME nonce = Len(sealed) + 1 PROVE FALSE
      OBVIOUS
    <3>1. base = Len(plain)
      BY <1>7, <1>8
    <3> QED BY <1>7, <1>9, <1>10, <3>1
  <2>2. nonce \in 1 .. Len(sealed) + 1
    BY <1>8
  <2> QED BY <1>9, <2>1, <2>2
<1>12. /\ sealed[nonce].head /\ sealed[nonce].size = HeadLen
       /\ start[nonce + 1] = base + (HeadLen + IF sealed[nonce].len = 0 THEN sealed[nonce].pad ELSE 0)
       /\ start[nonce + 1] <= Len(plain)
       /\ \A k \in 1 .. HeadLen : plain[base + k] = Byte(nonce, k)
  BY <1>7, <1>8, <1>11
<1>13. Opens
  <2>1. \A k \in 1 .. Len(got) : got[k] = Byte(nonce, k)
    BY <1>9, <1>10, <1>12
  <2>2. nonce \in Nat
    BY <1>9
  <2>3. got = Piece(nonce, Len(got))
    BY <1>3, <2>1, <2>2, PieceHeld
  <2>4. nonce \in DOMAIN sealed
    BY <1>11 DEF ReaderTypes
  <2> QED BY <1>8, <1>9, <1>12, <2>3, <2>4 DEF Opens
<1>14. /\ nonce' = nonce + 1 /\ mistaken' = FALSE
       /\ header' = [pad |-> sealed[nonce].pad, len |-> sealed[nonce].len]
       /\ \/ AfterHeader(header') /\ UNCHANGED delivered
          \/ /\ header'.len = 0 /\ (header'.pad = 0 \/ version # 6)
             /\ IF version = 4 /\ inbuf # << >>
                THEN at' = "error" /\ Start("none", 0) /\ UNCHANGED delivered
                ELSE EndOfStream
  <2>1. nonce' = nonce + 1 /\ mistaken' = (mistaken \/ ~sealed[nonce].head)
    BY <1>13 DEF HeaderRead, NextNonce
  <2>2. \E pad \in 0 .. MaxLength, len \in 0 .. MaxLength :
          /\ sealed[nonce].head => pad = sealed[nonce].pad /\ len = sealed[nonce].len
          /\ header' = [pad |-> pad, len |-> len]
    BY <1>13 DEF HeaderRead
  <2>3. header' = [pad |-> sealed[nonce].pad, len |-> sealed[nonce].len]
    BY <1>12, <2>2
  <2>4. \/ AfterHeader(header') /\ UNCHANGED delivered
        \/ /\ header'.len = 0 /\ (header'.pad = 0 \/ version # 6)
           /\ IF version = 4 /\ inbuf # << >>
              THEN at' = "error" /\ Start("none", 0) /\ UNCHANGED delivered
              ELSE EndOfStream
        \/ ~sealed[nonce].head /\ at' = "error" /\ Start("none", 0) /\ UNCHANGED delivered
    BY <1>13 DEF HeaderRead
  <2>5. mistaken' = FALSE
    BY <1>3, <1>12, <2>1
  <2> QED BY <1>12, <2>1, <2>3, <2>4, <2>5
<1>15. /\ sealed[nonce].pad \in Nat /\ sealed[nonce].len \in Nat /\ nonce' - 1 = nonce
       /\ header'.pad = sealed[nonce].pad /\ header'.len = sealed[nonce].len
  <2>1. sealed[nonce].pad \in Nat /\ sealed[nonce].len \in Nat
    BY <1>3, <1>11, ExtentOf
  <2> QED BY <1>9, <1>14, <2>1
<1>16. nonce' > 1 /\ nonce' <= Len(sealed') + 1
  <2>1. nonce' = nonce + 1 /\ sealed' = sealed
    BY <1>2, <1>14
  <2> QED BY <1>9, <1>11, <2>1
<1>17. PICK place \in Nat : place = base + HeadLen /\ place = base + Len(got)
  BY <1>7, <1>9
<1>18. version' # 4 => inbuf' = << >> /\ pending' = "ok"
  BY <1>1, <1>2, <1>3 DEF Stages
<1>19. want' = 0 /\ result' = NoResult /\ Len(result'.data) <= want' /\ Len(got') = 0 /\ key' = "right" /\ sealed' # << >>
  BY <1>1, <1>2, <1>5, <1>8
<1>26. \A x \in Nat : 0 + x = x
  OBVIOUS
<1>20. ASSUME NEW size \in Nat, need' = size, stage' \in {"none", "pad", "body", "discard"}, at' \in {"idle", "reading"},
              size = Amount', Stages', Exact', Len(delivered) <= Len(delivered'), place = Base(start)'
       PROVE  InPlace'
  <2>1. PlaceTypes'
    <3>1. got' \in Seq(Token) /\ inbuf' \in Seq(Token) /\ need' \in Nat /\ want' \in Nat /\ timeouts' = timeouts
      BY <1>1, <1>3, <1>20, EmptySeq
    <3> QED BY <1>1, <1>2, <1>3, <1>20, <3>1, TypesKept DEF PlaceTypes
  <2>2. ~mistaken'
    BY <1>14
  <2>3. UNCHANGED << version, mode, server, wireVars, received, nameSkipped, remaining, matched, sealed, out,
                      inbuf, result, pending >>
    BY <1>1, <1>2
  <2> QED BY <1>1, <1>5, <1>6, <1>17, <1>20, <2>1, <2>2, <2>3, DonePlaced
<1>21. delivered' = delivered => Exact' /\ Len(delivered) <= Len(delivered')
  BY <1>2, <1>3 DEF Exact, ReaderTypes
<1>22. CASE sealed[nonce].len > 0
  <2>1. /\ at' = "reading" /\ delivered' = delivered
        /\ \/ sealed[nonce].pad > 0 /\ stage' = "pad" /\ need' = sealed[nonce].pad
           \/ sealed[nonce].pad = 0 /\ stage' = "body" /\ need' = sealed[nonce].len + TagLen
    BY <1>14, <1>15, <1>22 DEF AfterHeader, Start
  <2>2. need' = Amount' /\ need' \in Nat
    <3>1. TagLen \in Nat
      BY ReaderAssumption
    <3>2. CASE sealed[nonce].pad > 0 /\ stage' = "pad" /\ need' = sealed[nonce].pad
      BY <1>15, <3>2 DEF Amount
    <3>3. CASE sealed[nonce].pad = 0 /\ stage' = "body" /\ need' = sealed[nonce].len + TagLen
      <4>1. Amount' = sealed[nonce].pad + sealed[nonce].len + TagLen
        BY <1>15, <3>3 DEF Amount
      <4> QED BY <1>15, <3>1, <3>3, <4>1
    <3> QED BY <2>1, <3>2, <3>3
  <2>3. Stages'
    <3>1. Len(got') + need' = Amount'
      BY <1>19, <1>26, <2>2
    <3>2. sealed'[nonce' - 1].head /\ sealed'[nonce' - 1].len > 0
          /\ header'.pad = sealed'[nonce' - 1].pad /\ header'.len = sealed'[nonce' - 1].len
      BY <1>2, <1>12, <1>15, <1>22
    <3>3. stage' \in {"pad", "discard"} => header'.pad > 0
      BY <1>15, <2>1
    <3> QED BY <1>16, <1>18, <1>19, <2>1, <3>1, <3>2, <3>3 DEF Stages
  <2>4. place = Base(start)'
    <3>1. Base(start)' = start[nonce']
      BY <1>19, <2>1 DEF Base
    <3>2. start[nonce + 1] = base + (HeadLen + 0)
      BY <1>12, <1>15, <1>22
    <3>3. nonce' = nonce + 1 /\ HeadLen + 0 = HeadLen
      BY <1>9, <1>14
    <3> QED BY <1>17, <3>1, <3>2, <3>3
  <2> QED BY <1>20, <1>21, <2>1, <2>2, <2>3, <2>4
<1>23. CASE sealed[nonce].len = 0 /\ AfterHeader(header') /\ UNCHANGED delivered
  <2>1. at' = "reading" /\ delivered' = delivered /\ sealed[nonce].pad > 0 /\ stage' = "discard" /\ need' = sealed[nonce].pad
    BY <1>15, <1>23 DEF AfterHeader, Start
  <2>2. need' = Amount' /\ need' \in Nat
    BY <1>15, <2>1 DEF Amount
  <2>3. Stages'
    <3>1. Len(got') + need' = Amount'
      BY <1>19, <1>26, <2>2
    <3>2. /\ header'.pad = sealed'[nonce' - 1].pad
          /\ sealed'[nonce' - 1].head /\ sealed'[nonce' - 1].len = 0
      BY <1>2, <1>12, <1>15, <1>23
    <3>3. stage' \in {"pad", "discard"} => header'.pad > 0
      BY <1>15, <2>1
    <3>4. Zero(sealed[nonce - 1])'
      BY <3>2 DEF Zero
    <3> QED BY <1>16, <1>18, <1>19, <2>1, <3>1, <3>2, <3>3, <3>4 DEF Stages
  <2>4. place = Base(start)'
    <3>1. Base(start)' = start[nonce' - 1] + HeadLen
      BY <1>19, <2>1 DEF Base
    <3> QED BY <1>7, <1>8, <1>15, <1>17, <3>1
  <2> QED BY <1>20, <1>21, <2>1, <2>2, <2>3, <2>4
<1>24. CASE sealed[nonce].len = 0 /\ (header'.pad = 0 \/ version # 6)
            /\ IF version = 4 /\ inbuf # << >>
               THEN at' = "error" /\ Start("none", 0) /\ UNCHANGED delivered
               ELSE EndOfStream
  <2>1. sealed[nonce].pad = 0
    BY <1>3, <1>11, <1>12, <1>15, <1>24 DEF Shapes, Zero
  <2>2. sealed[nonce].last = Len(delivered) + 1 /\ written[Len(delivered) + 1] = EndOf(nonce) /\ Len(delivered) \in Nat
    <3>1. Len(delivered) + Len(cache) + 0 = LastOf(nonce - 1) /\ cache = << >>
      BY <1>1, <1>4 DEF Opened, Delivered
    <3>2. sealed[nonce].last = LastOf(nonce - 1) + 1 /\ written[sealed[nonce].last] = EndOf(nonce)
      BY <1>4, <1>11, <1>12, <1>24 DEF Sealed
    <3>3. Len(delivered) \in Nat /\ Len(cache) = 0
      BY <3>1 DEF ReaderTypes
    <3>4. sealed[nonce].last = Len(delivered) + 1
      BY <3>1, <3>2, <3>3
    <3> QED BY <3>2, <3>3, <3>4
  <2>3. ~(version = 4 /\ inbuf # << >>)
    <3> SUFFICES ASSUME version = 4, inbuf # << >> PROVE FALSE
      OBVIOUS
    <3>1. nonce < Len(sealed)
      <4>1. nonce # Len(sealed)
        <5> SUFFICES ASSUME nonce = Len(sealed) PROVE FALSE
          OBVIOUS
        <5>1. Len(plain) = start[nonce + 1]
          BY <1>7, <1>8, StreamIs
        <5>2. Len(plain) = base + HeadLen
          <6>1. start[nonce + 1] = base + (HeadLen + 0)
            BY <1>12, <1>24, <2>1
          <6> QED BY <1>7, <1>9, <5>1, <6>1
        <5>3. base + HeadLen + Len(inbuf) <= Len(plain)
          BY <1>7, <1>9 DEF Holds
        <5>4. Len(inbuf) = 0
          BY <1>3, <1>7, <1>9, <5>2, <5>3
        <5> QED BY <1>3, <5>4, EmptySeq
      <4> QED BY <1>9, <1>11, <4>1
    <3>2. sealed[nonce].last <= Len(delivered)
      BY <1>3, <1>11, <1>12, <1>24, <3>1 DEF Shapes, Zero
    <3> QED BY <2>2, <3>2
  <2>4. at' = "idle" /\ stage' = "none" /\ need' = 0 /\ delivered' = Append(delivered, EndOf(nonce))
    BY <1>24, <2>3 DEF EndOfStream, Start
  <2>5. /\ Len(delivered') = Len(delivered) + 1
        /\ \A i \in 1 .. Len(delivered) : delivered'[i] = delivered[i]
        /\ delivered'[Len(delivered) + 1] = EndOf(nonce)
    <3>1. EndOf(nonce) \in Nat \X Int
      <4>1. nonce \in Nat /\ 0 \in Int
        BY <1>9
      <4> QED BY <4>1 DEF EndOf
    <3>2. delivered \in Seq(Nat \X Int)
      BY DEF ReaderTypes
    <3> QED BY <2>4, <3>1, <3>2, AppendProperties
  <2>6. Exact'
    <3> SUFFICES ASSUME NEW i \in 1 .. Len(delivered') PROVE delivered'[i] = written[i]
      BY <1>2 DEF Exact
    <3>1. i \in 1 .. Len(delivered) \/ i = Len(delivered) + 1
      BY <2>2, <2>5
    <3> QED BY <1>3, <2>2, <2>5, <3>1 DEF Exact
  <2>7. Len(delivered) <= Len(delivered')
    BY <2>2, <2>5
  <2>8. need' = Amount' /\ need' \in Nat
    BY <2>4 DEF Amount
  <2>9. Stages'
    <3>1. Len(got') + need' = Amount'
      BY <1>19, <1>26, <2>8
    <3>2. sealed'[nonce' - 1].len = 0
      BY <1>2, <1>15, <1>24
    <3> QED BY <1>16, <1>18, <1>19, <2>4, <3>1, <3>2 DEF Stages
  <2>10. place = Base(start)'
    <3>1. Base(start)' = start[nonce']
      BY <1>19, <2>4 DEF Base
    <3>2. start[nonce + 1] = base + (HeadLen + 0)
      BY <1>12, <1>24, <2>1
    <3>3. nonce' = nonce + 1 /\ HeadLen + 0 = HeadLen
      BY <1>9, <1>14
    <3> QED BY <1>17, <3>1, <3>2, <3>3
  <2> QED BY <1>20, <2>4, <2>6, <2>7, <2>8, <2>9, <2>10
<1>25. sealed[nonce].len > 0 \/ sealed[nonce].len = 0
  BY <1>15
<1> QED BY <1>14, <1>15, <1>22, <1>23, <1>24, <1>25

LEMMA PaddingPlaced ==
  ASSUME ReaderTypes, ReaderInv, InPlace, ReaderTypes', PaddingRead
  PROVE  InPlace'
<1>1. /\ at = "reading" /\ stage \in {"pad", "discard"} /\ need = 0
      /\ UNCHANGED << wireVars, received, nameSkipped, remaining, matched, want, result, timeouts, lost, writeVars,
                      key, nonce, header, opened, inbuf, pending, cache, mistaken >>
  BY DEF PaddingRead, obfsVars
<1>2. UNCHANGED << mode, server, version, sealed, out, written >>
  BY <1>1 DEF writeVars
<1>3. /\ PlaceTypes /\ ~mistaken /\ Shapes /\ Stages /\ Exact
      /\ got \in Seq(Token) /\ Len(got) \in Nat /\ inbuf \in Seq(Token) /\ Len(inbuf) \in Nat /\ want \in Nat
  BY <1>1, InPlaceIs
<1>4. Opened /\ Sealed
  BY <1>3 DEF ReaderInv
<1>5. want = 0 /\ result = NoResult /\ Len(result.data) = 0
  BY <1>1, <1>3 DEF Stages, NoResult
<1>6. PICK plain, start, base, front, end :
        /\ plain \in Seq(Token) /\ start \in [Nat -> Nat] /\ base \in Nat /\ front \in Nat /\ end \in Nat
        /\ PlacedBy(plain, start, base, front, end)
  BY <1>1, InPlaceIs
<1>7. /\ Stream(plain, start) /\ base = Base(start) /\ Holds(got, plain, base) /\ Holds(inbuf, plain, base + Len(got))
      /\ Holds(result.data, plain, base + Len(got) + Len(inbuf))
      /\ front = base + Len(got) + Len(inbuf) + Len(result.data)
      /\ plain \in Seq(Token) /\ base \in Nat
  BY <1>6 DEF PlacedBy
<1>8. version' # 4 => inbuf' = << >> /\ pending' = "ok"
  BY <1>1, <1>2, <1>3 DEF Stages
<1>9. want' = 0 /\ result' = NoResult /\ Len(result'.data) <= want'
  BY <1>1, <1>5
<1>10. Len(got) = header.pad /\ header.pad \in Nat /\ header.len \in Nat
  <2>1. Len(got) + 0 = header.pad
    BY <1>1, <1>3 DEF Stages, Amount
  <2>2. header.pad \in Nat /\ header.len \in Nat
    BY DEF ReaderTypes
  <2> QED BY <1>3, <2>1, <2>2
<1>11. nonce' = nonce /\ header' = header /\ sealed' = sealed /\ key' = key /\ version' = version
  BY <1>1, <1>2
<1>12. UNCHANGED << version, mode, server, wireVars, received, nameSkipped, remaining, matched, sealed, out,
                    inbuf, result, pending >> /\ timeouts' = timeouts
  BY <1>1, <1>2
<1>13. CASE stage = "pad"
  <2>1. stage' = "body" /\ need' = header.len + TagLen /\ UNCHANGED << at, got, delivered >>
    BY <1>13 DEF PaddingRead, Start
  <2>2. need' \in Nat
    BY <1>10, <2>1, ReaderAssumption
  <2>3. PlaceTypes'
    <3>1. got' \in Seq(Token) /\ inbuf' \in Seq(Token) /\ want' \in Nat
      BY <1>1, <1>3, <2>1
    <3> QED BY <1>1, <1>2, <1>3, <2>1, <2>2, <3>1, TypesKept DEF PlaceTypes
  <2>4. Stages'
    <3>1. Len(got') + need' = Amount'
      <4>1. Amount' = header.pad + header.len + TagLen
        BY <1>11, <2>1 DEF Amount
      <4>2. TagLen \in Nat
        BY ReaderAssumption
      <4>3. header.pad + (header.len + TagLen) = header.pad + header.len + TagLen
        BY <1>10, <4>2
      <4> QED BY <1>10, <2>1, <4>1, <4>3
    <3>2. /\ nonce <= Len(sealed) + 1 /\ key = "right" /\ sealed # << >> /\ nonce > 1
          /\ sealed[nonce - 1].head /\ sealed[nonce - 1].len > 0
          /\ header.pad = sealed[nonce - 1].pad /\ header.len = sealed[nonce - 1].len
      BY <1>3, <1>13 DEF Stages
    <3> QED BY <1>1, <1>8, <1>9, <1>11, <2>1, <3>1, <3>2 DEF Stages
  <2>5. Exact'
    BY <1>2, <1>3, <2>1 DEF Exact
  <2>6. base = Base(start)'
    BY <1>7, <1>11, <1>13, <2>1 DEF Base
  <2>7. /\ Holds(got', plain, base) /\ Holds(inbuf', plain, base + Len(got'))
        /\ Holds(result'.data, plain, base + Len(got') + Len(inbuf'))
        /\ front = base + Len(got') + Len(inbuf') + Len(result'.data)
    BY <1>7, <1>12, <2>1
  <2>8. \A e \in {"eof", "unexpected"} : e \in {result.err, pending} <=> e \in {result'.err, pending'}
    BY <1>12
  <2>9. ~mistaken' /\ at' \in {"idle", "reading"} /\ result' \in {result, NoResult} /\ Len(delivered) <= Len(delivered')
    BY <1>1, <1>3, <2>1 DEF ReaderTypes
  <2> QED BY <1>3, <1>6, <1>12, <2>3, <2>4, <2>5, <2>6, <2>7, <2>8, <2>9, StillPlaced
<1>14. CASE stage = "discard"
  <2>1. got' = << >> /\ at' = "idle" /\ stage' = "none" /\ need' = 0 /\ delivered' = Append(delivered, EndOf(nonce - 1))
    BY <1>14 DEF PaddingRead, Start
  <2>2. PlaceTypes'
    <3>1. got' \in Seq(Token) /\ inbuf' \in Seq(Token) /\ want' \in Nat /\ need' \in Nat
      BY <1>1, <1>3, <2>1, EmptySeq
    <3> QED BY <1>1, <1>2, <1>3, <2>1, <3>1, TypesKept DEF PlaceTypes
  <2>3. /\ nonce > 1 /\ nonce - 1 \in 1 .. Len(sealed) /\ key = "right" /\ sealed # << >>
        /\ sealed[nonce - 1].head /\ sealed[nonce - 1].len = 0
        /\ Base(start) = start[nonce - 1] + HeadLen
        /\ start[nonce] = start[nonce - 1] + (HeadLen + header.pad)
    BY <1>3, <1>7, <1>14, DiscardDue
  <2>4. Stages'
    <3>1. Len(got') + need' = Amount'
      <4>1. Len(got') = 0
        BY <2>1
      <4> QED BY <2>1, <4>1 DEF Amount
    <3>2. nonce <= Len(sealed) + 1
      BY <1>3 DEF Stages
    <3> QED BY <1>8, <1>9, <1>11, <2>1, <2>3, <3>1, <3>2 DEF Stages
  <2>5. sealed[nonce - 1].last = Len(delivered) + 1 /\ written[Len(delivered) + 1] = EndOf(nonce - 1) /\ Len(delivered) \in Nat
    <3>1. Len(delivered) + Len(cache) + 1 = LastOf(nonce - 1) /\ cache = << >>
      BY <1>1, <1>4, <1>14 DEF Opened, Delivered
    <3>2. written[sealed[nonce - 1].last] = EndOf(nonce - 1)
      BY <1>4, <2>3 DEF Sealed
    <3>3. Len(delivered) \in Nat /\ Len(cache) = 0 /\ nonce - 1 # 0
      <4>1. Len(delivered) \in Nat
        BY DEF ReaderTypes
      <4>2. Len(cache) = 0
        BY <3>1
      <4>3. nonce - 1 # 0
        BY <2>3
      <4> QED BY <4>1, <4>2, <4>3
    <3>4. LastOf(nonce - 1) = sealed[nonce - 1].last
      BY <3>3 DEF LastOf
    <3>5. sealed[nonce - 1].last = Len(delivered) + 1
      BY <3>1, <3>3, <3>4
    <3> QED BY <3>2, <3>3, <3>5
  <2>6. /\ Len(delivered') = Len(delivered) + 1
        /\ \A i \in 1 .. Len(delivered) : delivered'[i] = delivered[i]
        /\ delivered'[Len(delivered) + 1] = EndOf(nonce - 1)
    <3>1. EndOf(nonce - 1) \in Nat \X Int
      <4>1. nonce - 1 \in Nat /\ 0 \in Int
        BY <2>3
      <4> QED BY <4>1 DEF EndOf
    <3>2. delivered \in Seq(Nat \X Int)
      BY DEF ReaderTypes
    <3> QED BY <2>1, <3>1, <3>2, AppendProperties
  <2>7. Exact'
    <3> SUFFICES ASSUME NEW i \in 1 .. Len(delivered') PROVE delivered'[i] = written[i]
      BY <1>2 DEF Exact
    <3>1. i \in 1 .. Len(delivered) \/ i = Len(delivered) + 1
      BY <2>5, <2>6
    <3> QED BY <1>3, <2>5, <2>6, <3>1 DEF Exact
  <2>8. Len(delivered) <= Len(delivered')
    BY <2>5, <2>6
  <2>9. PICK place \in Nat : place = base + Len(got)
    BY <1>3, <1>7
  <2>10. place = Base(start)'
    <3>1. Base(start)' = start[nonce]
      BY <1>11, <2>1, <2>3 DEF Base
    <3>2. start[nonce - 1] \in Nat /\ HeadLen \in Nat
      <4>1. nonce - 1 \in Nat
        BY <2>3
      <4> QED BY <1>6, <4>1, ReaderAssumption
    <3>3. start[nonce - 1] + (HeadLen + header.pad) = start[nonce - 1] + HeadLen + header.pad
      BY <1>10, <3>2
    <3> QED BY <1>7, <1>10, <2>3, <2>9, <3>1, <3>3
  <2>11. ~mistaken'
    BY <1>1, <1>3
  <2> QED BY <1>1, <1>5, <1>6, <1>12, <2>1, <2>2, <2>4, <2>7, <2>8, <2>9, <2>10, <2>11, DonePlaced
<1> QED BY <1>1, <1>13, <1>14

\* The body that is read is the one that is due.
LEMMA BodyPlaced ==
  ASSUME ReaderTypes, ReaderInv, InPlace, ReaderTypes', BodyRead
  PROVE  InPlace'
<1>1. /\ at = "reading" /\ stage = "body" /\ need = 0 /\ got' = << >> /\ stage' = "none" /\ need' = 0
      /\ UNCHANGED << wireVars, received, nameSkipped, remaining, matched, want, result, timeouts, lost, writeVars,
                      key, header, inbuf, pending, delivered, mistaken >>
  BY DEF BodyRead, obfsVars, Start
<1>2. UNCHANGED << mode, server, version, sealed, out, written >>
  BY <1>1 DEF writeVars
<1>3. /\ PlaceTypes /\ ~mistaken /\ Shapes /\ Stages /\ Exact
      /\ got \in Seq(Token) /\ Len(got) \in Nat /\ inbuf \in Seq(Token) /\ Len(inbuf) \in Nat /\ want \in Nat
  BY <1>1, InPlaceIs
<1>4. Opened /\ Sealed
  BY <1>3 DEF ReaderInv
<1>5. want = 0 /\ result = NoResult /\ Len(result.data) = 0
  BY <1>1, <1>3 DEF Stages, NoResult
<1>6. PICK plain, start, base, front, end :
        /\ plain \in Seq(Token) /\ start \in [Nat -> Nat] /\ base \in Nat /\ front \in Nat /\ end \in Nat
        /\ PlacedBy(plain, start, base, front, end)
  BY <1>1, InPlaceIs
<1>7. /\ Stream(plain, start) /\ base = Base(start) /\ Holds(got, plain, base)
      /\ plain \in Seq(Token) /\ base \in Nat
  BY <1>6 DEF PlacedBy
<1>8. /\ Base(start) = start[nonce] /\ key = "right" /\ sealed # << >> /\ nonce \in 1 .. Len(sealed)
      /\ ~sealed[nonce].head /\ header.pad \in Nat /\ header.len \in Nat
      /\ sealed[nonce].size = header.pad + header.len + TagLen
      /\ start[nonce + 1] = start[nonce] + (header.pad + header.len + TagLen) /\ start[nonce + 1] <= Len(plain)
      /\ \A k \in 1 .. header.pad + header.len + TagLen : plain[start[nonce] + k] = Byte(nonce, k)
  BY <1>1, <1>3, <1>4, <1>7, BodyDue
<1>9. PICK size \in Nat : size = header.pad + header.len + TagLen
  BY <1>8, ReaderAssumption
<1>10. Len(got) = size
  <2>1. Len(got) + 0 = size
    BY <1>1, <1>3, <1>9 DEF Stages, Amount
  <2> QED BY <1>3, <2>1
<1>11. got = Piece(nonce, size)
  <2>1. \A k \in 1 .. size : got[k] = plain[base + k]
    BY <1>7, <1>10 DEF Holds
  <2>2. \A k \in 1 .. size : plain[base + k] = Byte(nonce, k)
    BY <1>7, <1>8, <1>9
  <2>3. \A k \in 1 .. Len(got) : got[k] = Byte(nonce, k)
    BY <1>10, <2>1, <2>2
  <2>4. nonce \in Nat
    BY <1>8
  <2> QED BY <1>3, <1>10, <2>3, <2>4, PieceHeld
<1>12. Opens
  <2>1. nonce \in DOMAIN sealed
    <3>1. DOMAIN sealed = 1 .. Len(sealed)
      BY DEF ReaderTypes
    <3> QED BY <1>8, <3>1
  <2> QED BY <1>8, <1>9, <1>11, <2>1 DEF Opens
<1>13. at' = "idle" /\ nonce' = nonce + 1
  BY <1>12 DEF BodyRead, NextNonce
<1>14. nonce' - 1 = nonce /\ nonce' > 1 /\ nonce' <= Len(sealed') + 1
  <2>1. nonce \in Nat /\ Len(sealed) \in Nat /\ sealed' = sealed
    BY <1>2, <1>8 DEF ReaderTypes
  <2> QED BY <1>8, <1>13, <2>1
<1>15. PlaceTypes'
  <2>1. got' \in Seq(Token) /\ inbuf' \in Seq(Token) /\ want' \in Nat /\ need' \in Nat
    BY <1>1, <1>3, EmptySeq
  <2> QED BY <1>1, <1>2, <1>3, <1>13, <2>1, TypesKept DEF PlaceTypes
<1>16. Stages'
  <2>1. Len(got') + need' = Amount'
    <3>1. Len(got') = 0
      BY <1>1
    <3> QED BY <1>1, <3>1 DEF Amount
  <2>2. version' # 4 => inbuf' = << >> /\ pending' = "ok"
    BY <1>1, <1>2, <1>3 DEF Stages
  <2>3. want' = 0 /\ result' = NoResult /\ Len(result'.data) <= want'
    BY <1>1, <1>5
  <2>4. ~sealed'[nonce' - 1].head /\ key' = "right" /\ sealed' # << >>
    BY <1>1, <1>2, <1>8, <1>14
  <2> QED BY <1>1, <1>13, <1>14, <2>1, <2>2, <2>3, <2>4 DEF Stages
<1>17. Exact' /\ Len(delivered) <= Len(delivered') /\ ~mistaken'
  BY <1>1, <1>2, <1>3 DEF Exact, ReaderTypes
<1>18. PICK place \in Nat : place = base + Len(got)
  BY <1>3, <1>7
<1>19. place = Base(start)'
  <2>1. Base(start)' = start[nonce']
    BY <1>1, <1>8 DEF Base
  <2> QED BY <1>7, <1>8, <1>9, <1>10, <1>13, <1>18, <2>1
<1>20. UNCHANGED << version, mode, server, wireVars, received, nameSkipped, remaining, matched, sealed, out,
                    inbuf, result, pending >>
  BY <1>1, <1>2
<1> QED BY <1>1, <1>5, <1>6, <1>13, <1>15, <1>16, <1>17, <1>18, <1>19, <1>20, DonePlaced

\* What is handed out is what is written next.
LEMMA CachePlaced ==
  ASSUME ReaderTypes, ReaderInv, InPlace, ReaderTypes', ReaderInv', TakeCache
  PROVE  InPlace'
<1>1. /\ at = "idle"
      /\ UNCHANGED << wireVars, received, nameSkipped, remaining, matched, want, result, timeouts, lost, writeVars,
                      at, stage, need, got, key, nonce, header, opened, inbuf, pending, mistaken >>
  BY DEF TakeCache, obfsVars
<1>2. UNCHANGED << mode, server, version, sealed, out, written >>
  BY <1>1 DEF writeVars
<1>3. /\ PlaceTypes /\ ~mistaken /\ Shapes /\ Stages /\ Exact
      /\ got \in Seq(Token) /\ Len(got) \in Nat /\ inbuf \in Seq(Token) /\ Len(inbuf) \in Nat /\ want \in Nat
  BY <1>1, InPlaceIs
<1>4. Delivered /\ Delivered'
  <2>1. ~mistaken'
    BY <1>1, <1>3
  <2> QED BY <1>3, <2>1 DEF ReaderInv, Opened
<1>5. PICK n \in 1 .. Len(cache) : delivered' = delivered \o SubSeq(cache, 1, n)
  BY DEF TakeCache
<1>6. /\ cache \in Seq(Nat \X Int) /\ delivered \in Seq(Nat \X Int)
      /\ Len(cache) \in Nat /\ Len(delivered) \in Nat /\ n \in Nat /\ n <= Len(cache)
  <2>1. cache \in Seq(Nat \X Int) /\ delivered \in Seq(Nat \X Int)
    BY DEF ReaderTypes
  <2>2. Len(cache) \in Nat /\ Len(delivered) \in Nat
    BY <2>1
  <2> QED BY <1>5, <2>1, <2>2
<1>7. /\ SubSeq(cache, 1, n) \in Seq(Nat \X Int) /\ Len(SubSeq(cache, 1, n)) = n
      /\ \A i \in 1 .. n : SubSeq(cache, 1, n)[i] = cache[i]
  BY <1>6
<1>8. /\ Len(delivered') = Len(delivered) + n
      /\ \A i \in 1 .. Len(delivered) + n :
           delivered'[i] = IF i <= Len(delivered) THEN delivered[i] ELSE SubSeq(cache, 1, n)[i - Len(delivered)]
  <2> DEFINE taken == SubSeq(cache, 1, n)
  <2>1. taken \in Seq(Nat \X Int) /\ Len(taken) = n /\ delivered' = delivered \o taken
    BY <1>5, <1>7
  <2> HIDE DEF taken
  <2>2. /\ Len(delivered \o taken) = Len(delivered) + Len(taken)
        /\ \A i \in 1 .. Len(delivered) + Len(taken) :
             (delivered \o taken)[i] = IF i <= Len(delivered) THEN delivered[i] ELSE taken[i - Len(delivered)]
    BY <1>6, <2>1, ConcatProperties
  <2>3. /\ Len(delivered') = Len(delivered) + n
        /\ \A i \in 1 .. Len(delivered) + n :
             delivered'[i] = IF i <= Len(delivered) THEN delivered[i] ELSE taken[i - Len(delivered)]
    BY <2>1, <2>2
  <2> QED BY <2>3 DEF taken
<1>9. Exact'
  <2> SUFFICES ASSUME NEW i \in 1 .. Len(delivered') PROVE delivered'[i] = written[i]
    BY <1>2 DEF Exact
  <2>1. i \in 1 .. Len(delivered) + n
    BY <1>8
  <2>2. CASE i <= Len(delivered)
    <3>1. i \in 1 .. Len(delivered)
      BY <1>6, <2>1, <2>2
    <3> QED BY <1>3, <1>8, <2>1, <2>2, <3>1 DEF Exact
  <2>3. CASE ~(i <= Len(delivered))
    <3>1. i - Len(delivered) \in 1 .. n /\ i - Len(delivered) \in 1 .. Len(cache) /\ Len(delivered) + (i - Len(delivered)) = i
      BY <1>6, <2>1, <2>3
    <3>2. cache[i - Len(delivered)] = written[Len(delivered) + (i - Len(delivered))]
      BY <1>4, <3>1 DEF Delivered
    <3> QED BY <1>7, <1>8, <2>1, <2>3, <3>1, <3>2
  <2> QED BY <2>2, <2>3
<1>10. Len(delivered) <= Len(delivered')
  BY <1>6, <1>8
<1>11. PICK plain, start, base, front, end :
         /\ plain \in Seq(Token) /\ start \in [Nat -> Nat] /\ base \in Nat /\ front \in Nat /\ end \in Nat
         /\ PlacedBy(plain, start, base, front, end)
  BY <1>1, InPlaceIs
<1>12. PlaceTypes'
  <2>1. got' \in Seq(Token) /\ inbuf' \in Seq(Token) /\ want' \in Nat /\ need' \in Nat
    BY <1>1, <1>3 DEF PlaceTypes
  <2> QED BY <1>1, <1>2, <1>3, <2>1, TypesKept DEF PlaceTypes
<1>13. Stages'
  <2>1. Amount' = Amount
    BY <1>1 DEF Amount
  <2> QED BY <1>1, <1>2, <1>3, <2>1 DEF Stages, Zero
<1>14. base = Base(start)'
  BY <1>1, <1>11 DEF PlacedBy, Base
<1>15. /\ Holds(got', plain, base) /\ Holds(inbuf', plain, base + Len(got'))
       /\ Holds(result'.data, plain, base + Len(got') + Len(inbuf'))
       /\ front = base + Len(got') + Len(inbuf') + Len(result'.data)
  <2>1. /\ Holds(got, plain, base) /\ Holds(inbuf, plain, base + Len(got))
        /\ Holds(result.data, plain, base + Len(got) + Len(inbuf))
        /\ front = base + Len(got) + Len(inbuf) + Len(result.data)
    BY <1>11 DEF PlacedBy
  <2> QED BY <1>1, <2>1
<1>16. \A e \in {"eof", "unexpected"} : e \in {result.err, pending} <=> e \in {result'.err, pending'}
  BY <1>1
<1>17. ~mistaken' /\ at' \in {"idle", "reading"} /\ result' \in {result, NoResult}
  BY <1>1, <1>3
<1>18. UNCHANGED << version, mode, server, wireVars, received, nameSkipped, remaining, matched, sealed, out >>
  BY <1>1, <1>2
<1> QED BY <1>3, <1>9, <1>10, <1>11, <1>12, <1>13, <1>14, <1>15, <1>16, <1>17, <1>18, StillPlaced

\* A Read of the connection.
LEMMA ReadPlaced ==
  ASSUME ReaderTypes, InPlace, ReaderTypes', ~lost', ReadStep
  PROVE  InPlace'
<1>1. /\ Read /\ want # 0 /\ result = NoResult
      /\ UNCHANGED << want, sent, closed, cut, writeVars, readerVars >>
  BY DEF ReadStep, Read, Reading, ReadConn, ReadHead, ReadHello, SkipName, ReadRemaining, ReadRecord
<1>2. UNCHANGED << mode, server, version, sealed, out, written, at, stage, need, got, key, nonce, header, inbuf, pending,
                   delivered, mistaken >>
  BY <1>1 DEF writeVars, readerVars
<1>3. at \in {"idle", "reading"}
  BY <1>1 DEF InPlace, PlaceTypes
<1>4. /\ PlaceTypes /\ ~mistaken /\ Shapes /\ Stages /\ Exact
      /\ got \in Seq(Token) /\ Len(got) \in Nat /\ inbuf \in Seq(Token) /\ Len(inbuf) \in Nat /\ want \in Nat
  BY <1>3, InPlaceIs
<1>5. pending = "ok" /\ result.err = "none" /\ Len(result.data) = 0
  BY <1>1, <1>4 DEF Stages, NoResult
<1>6. PICK plain, start, base, front, end :
        /\ plain \in Seq(Token) /\ start \in [Nat -> Nat] /\ base \in Nat /\ front \in Nat /\ end \in Nat
        /\ PlacedBy(plain, start, base, front, end)
  BY <1>3, InPlaceIs
<1>7. /\ Stream(plain, start) /\ base = Base(start)
      /\ Holds(got, plain, base) /\ Holds(inbuf, plain, base + Len(got))
      /\ front = base + Len(got) + Len(inbuf) + Len(result.data)
      /\ Holds(out, plain, end) /\ end + Len(out) = Len(plain)
      /\ plain \in Seq(Token) /\ base \in Nat /\ front \in Nat /\ end \in Nat
  BY <1>6 DEF PlacedBy
<1>8. Wired(plain, front, end)
  <2>1. ~(Ended(result.err) \/ Ended(pending))
    BY <1>5 DEF Ended
  <2> QED BY <1>6, <2>1 DEF PlacedBy
<1>9. PICK o \in Nat : o = Len(out) /\ end + o = Len(plain) /\ end <= Len(plain)
  <2>1. Len(out) \in Nat
    BY <1>4 DEF PlaceTypes
  <2>2. Len(plain) \in Nat
    BY <1>7
  <2> QED BY <1>7, <2>1, <2>2, SMTT(30)
<1>10. /\ Gives(plain, front, end) /\ remaining' \in Nat /\ matched' \in 0 .. 3 /\ timeouts' \in Nat
       /\ received' \in BOOLEAN /\ nameSkipped' \in BOOLEAN
  BY <1>1, <1>2, <1>4, <1>7, <1>8, <1>9, ReadGives
<1>11. /\ wire' \in Seq(Token)
       /\ result' \in [data : Seq(Token), err : {"none", "ok", "timeout", "eof", "unexpected"}]
       /\ \/ result' = NoResult /\ Wired(plain, front, end)'
          \/ /\ result'.err \in {"ok", "timeout"} /\ Len(result'.data) <= want
             /\ Holds(result'.data, plain, front)
             /\ \E place \in Nat : place = front + Len(result'.data) /\ place <= end /\ Wired(plain, place, end)'
          \/ /\ Ended(result'.err) /\ closed /\ Len(result'.data) <= want /\ Holds(result'.data, plain, front)
             /\ ~cut => result'.err = "eof" /\ result'.data = << >> /\ front = end
  BY <1>10 DEF Gives
<1>12. PICK d \in Nat : d = Len(result'.data)
  BY <1>11
<1>13. PlaceTypes'
  <2>1. result'.err = "none" => result' = NoResult
    BY <1>11 DEF Ended
  <2>2. {sent', closed', cut', received', nameSkipped'} \subseteq BOOLEAN /\ (cut' => closed') /\ (closed' => out' = << >>)
    BY <1>1, <1>2, <1>4, <1>10 DEF PlaceTypes
  <2>3. /\ mode' \in {"none", "http", "tls"} /\ server' = (version' = 5) /\ out' \in Seq(Token) /\ got' \in Seq(Token)
        /\ inbuf' \in Seq(Token) /\ want' \in Nat /\ need' \in Nat /\ pending' \in {"ok", "timeout", "eof", "unexpected"}
        /\ at' \in {"idle", "reading", "eof", "error"}
        /\ stage' \in {"none", "salt", "head", "pad", "body", "discard"}
        /\ key' \in {"none", "right", "wrong"}
    BY <1>1, <1>2, <1>4 DEF PlaceTypes
  <2> QED BY <1>10, <1>11, <2>1, <2>2, <2>3 DEF PlaceTypes
<1>14. d <= want /\ Holds(result'.data, plain, front)
  <2>1. CASE result' = NoResult
    <3>1. Len(result'.data) = 0 /\ 0 <= want
      BY <1>4, <2>1 DEF NoResult
    <3>2. front <= Len(plain)
      <4>1. base + Len(got) + Len(inbuf) <= Len(plain)
        BY <1>7 DEF Holds
      <4> QED BY <1>4, <1>5, <1>7, <4>1
    <3>3. Holds(NoResult.data, plain, front)
      BY <1>7, <3>2, NothingHeld
    <3> QED BY <1>12, <2>1, <3>1, <3>3
  <2> QED BY <1>11, <1>12, <2>1
<1>15. Stages'
  <2>1. Amount' = Amount
    BY <1>2 DEF Amount
  <2>2. Len(result'.data) <= want' /\ want' # 0
    BY <1>1, <1>12, <1>14
  <2> QED BY <1>1, <1>2, <1>4, <2>1, <2>2 DEF Stages, Zero
<1>16. Exact'
  BY <1>2, <1>4 DEF Exact
<1>17. Shapes'
  <2>1. Len(delivered) <= Len(delivered')
    BY <1>2 DEF ReaderTypes
  <2> QED BY <1>2, <1>4, <2>1, ShapesKept
<1>18. PICK place \in Nat : place = front + d
  BY <1>7
<1>19. /\ Stream(plain, start)' /\ base = Base(start)'
       /\ Holds(got', plain, base) /\ Holds(inbuf', plain, base + Len(got'))
       /\ Holds(result'.data, plain, base + Len(got') + Len(inbuf'))
       /\ place = base + Len(got') + Len(inbuf') + Len(result'.data)
       /\ Holds(out', plain, end) /\ end + Len(out') = Len(plain)
  <2>1. Stream(plain, start)' /\ base = Base(start)'
    BY <1>2, <1>7 DEF Stream, Base
  <2>2. base + Len(got') + Len(inbuf') = front
    BY <1>2, <1>4, <1>5, <1>7
  <2> QED BY <1>2, <1>7, <1>12, <1>14, <1>18, <2>1, <2>2
<1>20. IF Ended(result'.err) \/ Ended(pending')
       THEN /\ closed'
            /\ ~cut' => /\ "unexpected" \notin {result'.err, pending'} /\ place = Len(plain)
                        /\ Ended(result'.err) => result'.data = << >>
       ELSE Wired(plain, place, end)'
  <2>1. pending' = "ok" /\ ~Ended(pending')
    BY <1>2, <1>5 DEF Ended
  <2>2. CASE result' = NoResult /\ Wired(plain, front, end)'
    <3>1. d = 0 /\ ~Ended(result'.err)
      BY <1>12, <2>2 DEF NoResult, Ended
    <3>2. place = front
      BY <1>7, <1>18, <3>1
    <3> QED BY <2>1, <2>2, <3>1, <3>2
  <2>3. CASE /\ result'.err \in {"ok", "timeout"}
             /\ \E p \in Nat : p = front + Len(result'.data) /\ p <= end /\ Wired(plain, p, end)'
    <3>1. ~Ended(result'.err)
      BY <2>3 DEF Ended
    <3>2. PICK p \in Nat : p = front + Len(result'.data) /\ Wired(plain, p, end)'
      BY <2>3
    <3>3. p = place
      BY <1>12, <1>18, <3>2
    <3> QED BY <2>1, <3>1, <3>2, <3>3
  <2>4. CASE /\ Ended(result'.err) /\ closed
             /\ ~cut => result'.err = "eof" /\ result'.data = << >> /\ front = end
    <3>1. closed' /\ cut' = cut
      BY <1>1, <2>4
    <3>2. ASSUME ~cut PROVE result'.err = "eof" /\ result'.data = << >> /\ place = Len(plain)
      <4>1. result'.err = "eof" /\ result'.data = << >> /\ front = end
        BY <2>4, <3>2
      <4>2. d = 0 /\ o = 0
        <5>1. out = << >>
          BY <1>4, <2>4 DEF PlaceTypes
        <5> QED BY <1>9, <1>12, <4>1, <5>1
      <4> QED BY <1>7, <1>9, <1>18, <4>1, <4>2
    <3> QED BY <2>1, <2>4, <3>1, <3>2
  <2> QED BY <1>11, <2>2, <2>3, <2>4
<1>21. PlacedBy(plain, start, base, place, end)'
  <2>1. /\ Holds(got, plain, base)' /\ Holds(inbuf, plain, base + Len(got))'
        /\ Holds(result.data, plain, base + Len(got) + Len(inbuf))' /\ Holds(out, plain, end)'
    BY <1>19 DEF Holds
  <2>2. (Ended(result.err)' <=> Ended(result'.err)) /\ (Ended(pending)' <=> Ended(pending'))
    BY DEF Ended
  <2> QED BY <1>19, <1>20, <2>1, <2>2 DEF PlacedBy
<1>22. ~mistaken' /\ at' \in {"idle", "reading"}
  BY <1>2, <1>3, <1>4
<1> QED BY <1>6, <1>13, <1>15, <1>16, <1>17, <1>18, <1>21, <1>22, InPlaceAgain

\* The stream grows by the bytes; what has begun up to `top' has begun where it did.
Grows(longer, after, plain, start, bytes, top) ==
  /\ longer \in Seq(Token) /\ after \in [Nat -> Nat] /\ bytes \in Seq(Token)
  /\ Extends(longer, plain) /\ Len(longer) = Len(plain) + Len(bytes) /\ Holds(bytes, longer, Len(plain))
  /\ \A n \in 0 .. top : after[n] = start[n]

LEMMA GrowsOn ==
  ASSUME NEW a, NEW b, NEW c, NEW f, NEW g, NEW h, NEW x, NEW y, NEW m \in Nat, NEW n \in Nat, m <= n,
         a \in Seq(Token), Grows(b, g, a, f, x, m), Grows(c, h, b, g, y, n)
  PROVE  Grows(c, h, a, f, x \o y, m)
<1>1. /\ b \in Seq(Token) /\ x \in Seq(Token) /\ Extends(b, a) /\ Len(b) = Len(a) + Len(x)
      /\ Holds(x, b, Len(a))
  BY DEF Grows
<1>2. /\ c \in Seq(Token) /\ y \in Seq(Token) /\ Extends(c, b) /\ Len(c) = Len(b) + Len(y)
      /\ Holds(y, c, Len(b))
  BY DEF Grows
<1>3. Len(a) \in Nat /\ Len(x) \in Nat /\ Len(y) \in Nat
  <2>1. Len(a) \in Nat
    OBVIOUS
  <2>2. Len(x) \in Nat
    BY <1>1
  <2>3. Len(y) \in Nat
    BY <1>2
  <2> QED BY <2>1, <2>2, <2>3
<1>4. Extends(c, a)
  BY <1>1, <1>2, ExtendsOn
<1>5. Holds(x, c, Len(a))
  BY <1>1, <1>2, <1>3, HoldsMore
<1>6. x \o y \in Seq(Token) /\ Len(x \o y) = Len(x) + Len(y) /\ Holds(x \o y, c, Len(a))
  <2>1. Holds(y, c, Len(a) + Len(x))
    BY <1>1, <1>2
  <2> QED BY <1>1, <1>2, <1>3, <1>5, <2>1, HoldsJoin
<1>7. Len(c) = Len(a) + Len(x \o y)
  BY <1>1, <1>2, <1>3, <1>6
<1>8. h \in [Nat -> Nat]
  BY DEF Grows
<1>9. \A i \in 0 .. m : h[i] = f[i]
  <2>1. \A i \in 0 .. m : i \in 0 .. n
    OBVIOUS
  <2>2. \A i \in 0 .. m : g[i] = f[i]
    BY DEF Grows
  <2>3. \A i \in 0 .. n : h[i] = g[i]
    BY DEF Grows
  <2> QED BY <2>1, <2>2, <2>3
<1> QED BY <1>2, <1>4, <1>6, <1>7, <1>8, <1>9 DEF Grows

Behind(pieces, plain, start) == plain \in Seq(Token) /\ start \in [Nat -> Nat] /\ Laid(pieces, plain, start)

\* One more piece.
LEMMA LaidOn ==
  ASSUME NEW pieces, NEW plain, NEW start,
         pieces \in Seq(Pieces), Behind(pieces, plain, start),
         NEW piece \in Pieces, NEW size \in Nat, Sized(piece, size)
  PROVE  \E longer, after :
           /\ Grows(longer, after, plain, start, Piece(Len(pieces) + 1, size), Len(pieces) + 1)
           /\ Laid(Append(pieces, piece), longer, after)
<1> DEFINE after == Marked(start, Len(pieces) + 2, Len(plain) + size)
           bytes == Piece(Len(pieces) + 1, size)
           longer == plain \o bytes
<1>1. /\ after \in [Nat -> Nat] /\ longer \in Seq(Token) /\ Len(longer) = Len(plain) + size
      /\ Extends(longer, plain) /\ Holds(bytes, longer, Len(plain))
      /\ Laid(Append(pieces, piece), longer, after)
  BY LaidMore, ZenonT(40) DEF Behind
<1>2. PICK m \in Nat, l \in Nat : m = Len(pieces) /\ l = Len(plain)
  <2>1. Len(pieces) \in Nat
    BY LenProperties
  <2>2. Len(plain) \in Nat
    <3>1. plain \in Seq(Token)
      BY DEF Behind
    <3> QED BY <3>1, LenProperties
  <2> QED BY <2>1, <2>2
<1>3. bytes \in Seq(Token) /\ Len(bytes) = size
  <2>1. m + 1 \in Nat
    OBVIOUS
  <2> QED BY <1>2, <2>1, PieceIs
<1>4. \A n \in 0 .. m + 1 : after[n] = start[n]
  <2>1. \A n \in 0 .. m + 1 : n \in Nat /\ n # m + 2
    OBVIOUS
  <2>2. after = [start EXCEPT ![m + 2] = l + size]
    BY <1>2 DEF Marked
  <2> HIDE DEF after
  <2>3. \A n \in Nat : n # m + 2 => after[n] = start[n]
    <3>1. start \in [Nat -> Nat]
      BY DEF Behind
    <3> QED BY <2>2, <3>1
  <2> QED BY <2>1, <2>3
<1> HIDE DEF after, bytes, longer
<1>5. Grows(longer, after, plain, start, bytes, Len(pieces) + 1)
  BY <1>1, <1>2, <1>3, <1>4 DEF Grows
<1> QED BY <1>1, <1>5 DEF bytes

\* A record is laid behind those before it.
LEMMA RecordLaid ==
  ASSUME ReaderTypes, NEW record \in [pad : Nat, len : Nat], SealRecord(record),
         NEW plain, NEW start, Behind(sealed, plain, start),
         NEW bytes, bytes = IF record.len = 0 THEN Piece(Len(sealed) + 1, HeadLen + record.pad)
                            ELSE Piece(Len(sealed) + 1, HeadLen)
                                 \o Piece(Len(sealed) + 2, record.pad + record.len + TagLen)
  PROVE  /\ sealed' # << >>
         /\ \E longer, after :
              Grows(longer, after, plain, start, bytes, Len(sealed) + 1) /\ Laid(sealed', longer, after)
<1>1. PICK n \in Nat, last \in Nat : n = Len(sealed) /\ last = Len(written)
  BY DEF ReaderTypes
<1>2. record.pad \in Nat /\ record.len \in Nat /\ HeadLen \in Nat /\ TagLen \in Nat
  BY ReaderAssumption
<1>3. \A head \in BOOLEAN, l \in Nat : PieceOf(head, record, l) \in Pieces
  BY <1>2 DEF PieceOf, Pieces
<1>4. sealed \in Seq(Pieces)
  BY DEF ReaderTypes
<1>5. CASE record.len = 0
  <2>1. PICK piece \in Pieces : piece = PieceOf(TRUE, record, last + 1)
    <3>1. last + 1 \in Nat
      OBVIOUS
    <3> QED BY <1>3, <3>1
  <2>2. sealed' = Append(sealed, piece)
    BY <1>1, <1>5, <2>1 DEF SealRecord
  <2>3. Sized(piece, HeadLen + record.pad)
    BY <1>5, <2>1 DEF Sized, PieceOf, Zero
  <2>4. HeadLen + record.pad \in Nat
    BY <1>2
  <2>5. PICK longer, after :
          /\ Grows(longer, after, plain, start, Piece(Len(sealed) + 1, HeadLen + record.pad), Len(sealed) + 1)
          /\ Laid(Append(sealed, piece), longer, after)
    BY <1>4, <2>3, <2>4, LaidOn
  <2>6. Append(sealed, piece) # << >>
    BY <1>4, AppendProperties
  <2> QED BY <1>5, <2>2, <2>5, <2>6
<1>6. CASE record.len # 0
  <2>1. PICK head \in Pieces, body \in Pieces :
          head = PieceOf(TRUE, record, last) /\ body = PieceOf(FALSE, record, last + record.len)
    <3>1. last + record.len \in Nat
      BY <1>2
    <3> QED BY <1>3, <3>1
  <2>2. sealed' = sealed \o << head, body >>
    BY <1>1, <1>6, <2>1 DEF SealRecord
  <2>3. /\ Append(sealed, head) \in Seq(Pieces) /\ Len(Append(sealed, head)) = n + 1
        /\ sealed \o << head, body >> = Append(Append(sealed, head), body)
    BY <1>1, <1>4
  <2>4. PICK more : more = Append(sealed, head)
    OBVIOUS
  <2>5. more \in Seq(Pieces) /\ Len(more) = n + 1 /\ sealed' = Append(more, body)
    BY <2>2, <2>3, <2>4
  <2>6. Sized(head, HeadLen) /\ Sized(body, record.pad + record.len + TagLen)
    BY <1>2, <1>6, <2>1 DEF Sized, PieceOf, Zero
  <2>7. record.pad + record.len + TagLen \in Nat
    BY <1>2
  <2>8. PICK b, g : /\ Grows(b, g, plain, start, Piece(n + 1, HeadLen), n + 1)
                    /\ Laid(more, b, g)
    BY <1>1, <1>2, <1>4, <2>4, <2>6, LaidOn
  <2>9. Behind(more, b, g)
    BY <2>8 DEF Grows, Behind
  <2>10. PICK c, h : /\ Grows(c, h, b, g, Piece(Len(more) + 1, record.pad + record.len + TagLen), Len(more) + 1)
                     /\ Laid(Append(more, body), c, h)
    BY <2>5, <2>6, <2>7, <2>9, LaidOn
  <2>11. Len(more) + 1 = n + 2
    BY <2>5
  <2>12. Grows(c, h, b, g, Piece(n + 2, record.pad + record.len + TagLen), n + 2)
    BY <2>10, <2>11
  <2>13. n + 1 \in Nat /\ n + 2 \in Nat /\ n + 1 <= n + 2
    OBVIOUS
  <2>14. Grows(c, h, plain, start, Piece(n + 1, HeadLen) \o Piece(n + 2, record.pad + record.len + TagLen), n + 1)
    BY <2>8, <2>12, <2>13, GrowsOn DEF Behind
  <2>15. Append(more, body) # << >>
    BY <2>5, AppendProperties
  <2> QED BY <1>1, <1>6, <2>5, <2>10, <2>14, <2>15
<1> QED BY <1>5, <1>6

Streamed(plain, start) == plain \in Seq(Token) /\ start \in [Nat -> Nat] /\ Stream(plain, start)

\* The salt comes before the first.
LEMMA StreamGrows ==
  ASSUME ReaderTypes, NEW record \in [pad : Nat, len : Nat], SealRecord(record),
         NEW plain, NEW start, Streamed(plain, start)
  PROVE  \E longer, after :
           /\ Grows(longer, after, plain, start, RecordBytes(record), IF sealed = << >> THEN 0 ELSE Len(sealed) + 1)
           /\ Stream(longer, after)' /\ sealed' # << >>
<1> DEFINE bytes == IF record.len = 0 THEN Piece(Len(sealed) + 1, HeadLen + record.pad)
                    ELSE Piece(Len(sealed) + 1, HeadLen)
                         \o Piece(Len(sealed) + 2, record.pad + record.len + TagLen)
<1>1. RecordBytes(record) = (IF Len(sealed) = 0 THEN Salt ELSE << >>) \o bytes
  BY DEF RecordBytes
<1>2. PICK tail : tail = bytes
  OBVIOUS
<1> HIDE DEF bytes
<1>3. sealed \in Seq(Pieces) /\ Len(sealed) \in Nat /\ (sealed = << >> <=> Len(sealed) = 0)
  BY EmptySeq DEF ReaderTypes
<1>4. start[0] = 0
  BY DEF Stream, Streamed
<1>5. ASSUME NEW b, NEW g, Behind(sealed, b, g)
      PROVE  /\ sealed' # << >>
             /\ \E c, h : Grows(c, h, b, g, tail, Len(sealed) + 1) /\ Laid(sealed', c, h)
  BY <1>2, <1>5, RecordLaid DEF bytes
<1>6. ASSUME NEW c, NEW h, Laid(sealed', c, h), h[0] = 0, sealed' # << >>
      PROVE  Stream(c, h)'
  <2>1. Laid(sealed, c, h)'
    BY <1>6 DEF Laid, Extent, Zero
  <2> QED BY <1>6, <2>1 DEF Stream
<1>7. CASE sealed # << >>
  <2>1. Behind(sealed, plain, start)
    BY <1>7 DEF Stream, Streamed, Behind
  <2>2. PICK c, h : Grows(c, h, plain, start, tail, Len(sealed) + 1) /\ Laid(sealed', c, h)
    BY <1>5, <2>1
  <2>3. sealed' # << >>
    BY <1>5, <2>1
  <2>4. tail \in Seq(Token)
    BY <2>2 DEF Grows
  <2>5. RecordBytes(record) = tail
    BY <1>1, <1>2, <1>3, <1>7, <2>4, ConcatEmptySeq
  <2>6. h[0] = 0
    <3>1. 0 \in 0 .. Len(sealed) + 1
      BY <1>3
    <3>2. h[0] = start[0]
      BY <2>2, <3>1 DEF Grows
    <3> QED BY <1>4, <3>2
  <2> QED BY <1>6, <1>7, <2>2, <2>3, <2>5, <2>6
<1>8. CASE sealed = << >>
  <2>1. plain = << >> /\ Len(plain) = 0
    BY <1>8, EmptySeq DEF Stream, Streamed
  <2>2. SaltLen \in Nat
    BY ReaderAssumption
  <2>3. Salt \in Seq(Token) /\ Len(Salt) = SaltLen
    BY <2>2, PieceIs DEF Salt
  <2>4. PICK g : g = Marked(start, 1, SaltLen)
    OBVIOUS
  <2>5. g \in [Nat -> Nat] /\ g[0] = start[0] /\ g[1] = SaltLen
    <3>1. g = [start EXCEPT ![1] = SaltLen]
      BY <2>4 DEF Marked
    <3>2. start \in [Nat -> Nat]
      BY DEF Streamed
    <3> QED BY <2>2, <3>1, <3>2
  <2>6. Laid(<< >>, Salt, g)
    BY <1>4, <2>5, SaltLaid
  <2>7. Grows(Salt, g, plain, start, Salt, 0)
    <3>1. Extends(Salt, plain)
      BY <2>1, <2>2, <2>3 DEF Extends
    <3>2. Len(Salt) = Len(plain) + Len(Salt)
      BY <2>1, <2>2, <2>3
    <3>3. Holds(Salt, Salt, Len(plain))
      <4>1. 0 + Len(Salt) <= Len(Salt) /\ \A k \in 1 .. Len(Salt) : 0 + k = k
        BY <2>2, <2>3
      <4> QED BY <2>1, <4>1 DEF Holds
    <3>4. \A n \in 0 .. 0 : g[n] = start[n]
      <4>1. \A n \in 0 .. 0 : n = 0
        OBVIOUS
      <4> QED BY <2>5, <4>1
    <3> QED BY <2>3, <2>5, <3>1, <3>2, <3>3, <3>4 DEF Grows
  <2>13. Behind(sealed, Salt, g)
    BY <1>8, <2>3, <2>5, <2>6 DEF Behind
  <2>8. PICK c, h : Grows(c, h, Salt, g, tail, Len(sealed) + 1) /\ Laid(sealed', c, h)
    BY <1>5, <2>13
  <2>9. sealed' # << >>
    BY <1>5, <2>13
  <2>10. Grows(c, h, plain, start, Salt \o tail, 0)
    <3>1. Len(sealed) + 1 \in Nat /\ 0 \in Nat /\ 0 <= Len(sealed) + 1
      BY <1>3
    <3> QED BY <2>7, <2>8, <3>1, GrowsOn DEF Streamed
  <2>11. RecordBytes(record) = Salt \o tail
    BY <1>1, <1>2, <1>3, <1>8
  <2>12. h[0] = 0
    <3>1. 0 \in 0 .. 0
      OBVIOUS
    <3>2. h[0] = start[0]
      BY <2>10, <3>1 DEF Grows
    <3> QED BY <1>4, <3>2
  <2> QED BY <1>6, <1>8, <2>8, <2>9, <2>10, <2>11, <2>12
<1> QED BY <1>7, <1>8

LEMMA SealedAre ==
  ASSUME ReaderTypes, NEW record \in [pad : Nat, len : Nat], SealRecord(record), NEW n \in Nat, n = Len(sealed)
  PROVE  /\ record.len = 0 => Len(sealed') = n + 1 /\ sealed'[n + 1] = PieceOf(TRUE, record, Len(written) + 1)
         /\ record.len # 0 =>
              /\ Len(sealed') = n + 2 /\ sealed'[n + 1] = PieceOf(TRUE, record, Len(written))
              /\ sealed'[n + 2] = PieceOf(FALSE, record, Len(written) + record.len)
<1>1. sealed \in Seq(Pieces) /\ record.pad \in Nat /\ record.len \in Nat /\ HeadLen \in Nat /\ TagLen \in Nat
  BY ReaderAssumption DEF ReaderTypes
<1>2. PICK last \in Nat : last = Len(written)
  BY DEF ReaderTypes
<1>3. \A head \in BOOLEAN, l \in Nat : PieceOf(head, record, l) \in Pieces
  BY <1>1 DEF PieceOf, Pieces
<1>4. last + 1 \in Nat /\ last + record.len \in Nat
  BY <1>1
<1>5. ASSUME record.len = 0
      PROVE  Len(sealed') = n + 1 /\ sealed'[n + 1] = PieceOf(TRUE, record, last + 1)
  <2>1. PICK piece \in Pieces : piece = PieceOf(TRUE, record, last + 1)
    BY <1>3, <1>4
  <2>2. sealed' = Append(sealed, piece)
    BY <1>2, <1>5, <2>1 DEF SealRecord
  <2>4. sealed \in Seq(Pieces) /\ n = Len(sealed)
    BY <1>1
  <2>3. Len(Append(sealed, piece)) = n + 1 /\ Append(sealed, piece)[n + 1] = piece
    BY ONLY <2>1, <2>4, AppendProperties, ZenonT(40)
  <2> QED BY <2>1, <2>2, <2>3
<1>6. ASSUME record.len # 0
      PROVE  /\ Len(sealed') = n + 2 /\ sealed'[n + 1] = PieceOf(TRUE, record, last)
             /\ sealed'[n + 2] = PieceOf(FALSE, record, last + record.len)
  <2>1. PICK head \in Pieces, body \in Pieces :
          head = PieceOf(TRUE, record, last) /\ body = PieceOf(FALSE, record, last + record.len)
    BY <1>3, <1>4
  <2>2. sealed' = sealed \o << head, body >>
    BY <1>2, <1>6, <2>1 DEF SealRecord
  <2>3. /\ Len(sealed \o << head, body >>) = n + 2
        /\ (sealed \o << head, body >>)[n + 1] = head /\ (sealed \o << head, body >>)[n + 2] = body
    BY <1>1
  <2> QED BY <2>1, <2>2, <2>3
<1> QED BY <1>2, <1>5, <1>6

\* The last record is over when a client asks for more.
LEMMA LastSeen ==
  ASSUME ReaderTypes, Sealed, version = 4 /\ written # << >> /\ written[Len(written)][2] = 0 => delivered = written,
         version = 4, sealed # << >>, Zero(sealed[Len(sealed)])
  PROVE  sealed[Len(sealed)].last <= Len(delivered)
<1>1. PICK n \in Nat \ {0} : n = Len(sealed)
  <2>1. sealed \in Seq(Pieces)
    BY DEF ReaderTypes
  <2>2. Len(sealed) \in Nat \ {0}
    BY <2>1
  <2> QED BY <2>2
<1>2. sealed[n].last = Len(written) /\ sealed[n].head /\ sealed[n].len = 0
  BY <1>1 DEF Sealed, LastOf, Zero
<1>3. PICK last \in Nat : last = Len(written)
  BY DEF ReaderTypes
<1>4. n \in 1 .. Len(sealed)
  BY <1>1
<1>5. written[last] = EndOf(n)
  BY <1>2, <1>3, <1>4 DEF Sealed
<1>6. last # 0
  <2>1. sealed[n - 1].last = LastOf(n - 1) \/ n = 1
    BY <1>1 DEF LastOf
  <2>2. n # 1
    BY <1>1, <1>2 DEF Sealed
  <2>3. n - 1 \in 1 .. Len(sealed)
    BY <1>1, <2>2
  <2>4. sealed[n - 1] \in Pieces
    BY <2>3, ElementOfSeq DEF ReaderTypes
  <2>5. LastOf(n - 1) \in Nat
    BY <2>1, <2>2, <2>4 DEF Pieces
  <2>6. sealed[n].last = LastOf(n - 1) + 1
    BY <1>2, <1>4 DEF Sealed
  <2> QED BY <1>2, <1>3, <2>5, <2>6
<1>7. written # << >>
  <2>1. written = << >> => Len(written) = 0
    BY EmptySeq
  <2> QED BY <1>3, <1>6, <2>1
<1>8. written[Len(written)][2] = 0
  BY <1>3, <1>5 DEF EndOf
<1>9. delivered = written
  BY <1>7, <1>8
<1> QED BY <1>1, <1>2, <1>3, <1>9

LEMMA WriteShapes ==
  ASSUME ReaderTypes, Sealed, Shapes, version' = version, delivered' = delivered,
         version = 4 /\ written # << >> /\ written[Len(written)][2] = 0 => delivered = written,
         NEW record \in [pad : Nat, len : Nat], SealRecord(record), record.len = 0 => version = 6 \/ record.pad = 0
  PROVE  Shapes'
<1>1. PICK n \in Nat : n = Len(sealed)
  <2>1. sealed \in Seq(Pieces)
    BY DEF ReaderTypes
  <2>2. Len(sealed) \in Nat
    BY <2>1, LenProperties
  <2> QED BY <2>2
<1>2. \A i \in 1 .. n : sealed'[i] = sealed[i]
  BY <1>1, SealTypes
<1>3. /\ record.len = 0 => Len(sealed') = n + 1 /\ sealed'[n + 1] = PieceOf(TRUE, record, Len(written) + 1)
      /\ record.len # 0 =>
           /\ Len(sealed') = n + 2 /\ sealed'[n + 1] = PieceOf(TRUE, record, Len(written))
           /\ sealed'[n + 2] = PieceOf(FALSE, record, Len(written) + record.len)
  BY <1>1, SealedAre
<1>4. record.len \in Nat /\ record.pad \in Nat
  OBVIOUS
<1> DEFINE Shape(k) ==
             LET piece == sealed'[k] IN
             /\ piece.size = IF piece.head THEN HeadLen ELSE piece.pad + piece.len + TagLen
             /\ Zero(piece) /\ version # 6 => piece.pad = 0
             /\ ~piece.head => k > 1 /\ sealed'[k - 1].head /\ sealed'[k - 1].len > 0 /\ sealed'[k - 1].pad = piece.pad
             /\ Zero(piece) /\ version = 4 /\ k < Len(sealed') => piece.last <= Len(delivered)
<1>5. ASSUME NEW k \in 1 .. n PROVE Shape(k)
  <2>1. sealed'[k] = sealed[k]
    BY <1>2
  <2>2. /\ sealed[k].size = IF sealed[k].head THEN HeadLen ELSE sealed[k].pad + sealed[k].len + TagLen
        /\ Zero(sealed[k]) /\ version # 6 => sealed[k].pad = 0
        /\ ~sealed[k].head => k > 1 /\ sealed[k - 1].head /\ sealed[k - 1].len > 0 /\ sealed[k - 1].pad = sealed[k].pad
        /\ Zero(sealed[k]) /\ version = 4 /\ k < n => sealed[k].last <= Len(delivered)
    BY <1>1 DEF Shapes
  <2>3. k > 1 => sealed'[k - 1] = sealed[k - 1]
    <3>1. k > 1 => k - 1 \in 1 .. n
      OBVIOUS
    <3> QED BY <1>2, <3>1
  <2>4. Zero(sealed[k]) /\ version = 4 => sealed[k].last <= Len(delivered)
    <3>1. CASE k < n
      BY <2>2, <3>1
    <3>2. CASE k = n
      <4>1. sealed # << >>
        BY <1>1, EmptySeq
      <4> QED BY <1>1, <3>2, <4>1, LastSeen
    <3> QED BY <3>1, <3>2
  <2> QED BY <2>1, <2>2, <2>3, <2>4
<1>6. CASE record.len = 0
  <2>1. sealed'[n + 1].head /\ sealed'[n + 1].pad = record.pad /\ sealed'[n + 1].size = HeadLen /\ Len(sealed') = n + 1
    BY <1>3, <1>6 DEF PieceOf
  <2>2. Shape(n + 1)
    <3>1. ~(n + 1 < n + 1)
      OBVIOUS
    <3> QED BY <1>6, <2>1, <3>1
  <2>3. \A k \in 1 .. n + 1 : k \in 1 .. n \/ k = n + 1
    OBVIOUS
  <2>4. \A k \in 1 .. Len(sealed') : Shape(k)
    <3> HIDE DEF Shape
    <3> QED BY <1>5, <2>1, <2>2, <2>3
  <2> QED BY <2>4 DEF Shapes, Zero
<1>7. CASE record.len # 0
  <2>1. /\ Len(sealed') = n + 2
        /\ sealed'[n + 1].head /\ sealed'[n + 1].pad = record.pad /\ sealed'[n + 1].size = HeadLen
        /\ sealed'[n + 1].len = record.len
        /\ ~sealed'[n + 2].head /\ sealed'[n + 2].pad = record.pad /\ sealed'[n + 2].len = record.len
        /\ sealed'[n + 2].size = record.pad + record.len + TagLen
    BY <1>3, <1>7 DEF PieceOf
  <2>2. Shape(n + 1)
    BY <1>7, <2>1 DEF Zero
  <2>3. Shape(n + 2)
    <3>1. (n + 2) - 1 = n + 1 /\ n + 2 > 1 /\ record.len > 0
      BY <1>4, <1>7
    <3> QED BY <2>1, <3>1 DEF Zero
  <2>4. \A k \in 1 .. n + 2 : k \in 1 .. n \/ k = n + 1 \/ k = n + 2
    OBVIOUS
  <2>5. \A k \in 1 .. Len(sealed') : Shape(k)
    <3> HIDE DEF Shape
    <3> QED BY <1>5, <2>1, <2>2, <2>3, <2>4
  <2> QED BY <2>5 DEF Shapes, Zero
<1> QED BY <1>6, <1>7

\* The writer seals a record behind the stream, and writes it or keeps it.
LEMMA WritePlaced ==
  ASSUME ReaderTypes, ReaderInv, InPlace, ReaderTypes', ReaderInv', WriteRecord
  PROVE  InPlace'
<1>1. PICK record \in Records[calls'] :
        /\ record.len = 0 => sealed # << >> /\ out = << >> /\ (version = 6 \/ record.pad = 0)
        /\ SealRecord(record)
        /\ \/ Write(out \o RecordBytes(record)) /\ out' = << >>
           \/ /\ record.len > 0 /\ calls' < Len(Records) /\ ~closed
              /\ out' = out \o RecordBytes(record)
              /\ UNCHANGED wireVars
  BY DEF WriteRecord
<1>2. record \in [pad : Nat, len : Nat]
  <2>1. calls' \in 1 .. Len(Records)
    BY ReaderAssumption DEF WriteRecord, ReaderTypes
  <2> QED BY <1>1, <2>1, ReaderAssumption
<1>3. /\ UNCHANGED << version, mode, server, obfsVars, readerVars >>
      /\ version = 4 /\ written # << >> /\ written[Len(written)][2] = 0 => delivered = written
  BY DEF WriteRecord
<1>4. /\ UNCHANGED << version, mode, server, received, nameSkipped, remaining, matched, want, result, timeouts, lost >>
      /\ UNCHANGED << at, stage, need, got, key, nonce, header, opened, inbuf, pending, cache, delivered, mistaken >>
  BY <1>3 DEF obfsVars, readerVars
<1>5. ~closed /\ closed' = closed /\ cut' = cut
  BY <1>1 DEF Write, wireVars
<1>6. at \in {"idle", "reading"}
  BY <1>5 DEF InPlace, PlaceTypes
<1>7. /\ PlaceTypes /\ ~mistaken /\ Shapes /\ Stages /\ Exact
      /\ got \in Seq(Token) /\ Len(got) \in Nat /\ inbuf \in Seq(Token) /\ Len(inbuf) \in Nat
      /\ result.data \in Seq(Token) /\ Len(result.data) \in Nat
  BY <1>6, InPlaceIs
<1>8. Sealed /\ Opened /\ out \in Seq(Token) /\ sent \in BOOLEAN /\ wire \in Seq(Token)
  BY <1>7 DEF ReaderInv, PlaceTypes
<1>9. PICK n \in Nat : n = Len(sealed)
  <2>1. sealed \in Seq(Pieces)
    BY DEF ReaderTypes
  <2>2. Len(sealed) \in Nat
    BY <2>1, LenProperties
  <2> QED BY <2>2
<1>10. /\ \A i \in 1 .. n : sealed'[i] = sealed[i]
       /\ n <= Len(sealed') /\ Len(sealed') \in Nat
       /\ \A i \in 1 .. Len(written) : written'[i] = written[i]
  <2>1. /\ sealed' \in Seq(Pieces) /\ Len(sealed') >= Len(sealed)
        /\ \A i \in 1 .. Len(sealed) : sealed'[i] = sealed[i]
        /\ \A i \in 1 .. Len(written) : written'[i] = written[i]
    BY <1>1, <1>2, SealTypes
  <2>2. Len(sealed') \in Nat
    BY <2>1, LenProperties
  <2> QED BY <1>9, <2>1, <2>2
<1>11. PICK plain, start, base, front, end :
         /\ plain \in Seq(Token) /\ start \in [Nat -> Nat] /\ base \in Nat /\ front \in Nat /\ end \in Nat
         /\ PlacedBy(plain, start, base, front, end)
  BY <1>6, InPlaceIs
<1>12. /\ Stream(plain, start) /\ base = Base(start)
       /\ Holds(got, plain, base) /\ Holds(inbuf, plain, base + Len(got))
       /\ Holds(result.data, plain, base + Len(got) + Len(inbuf))
       /\ front = base + Len(got) + Len(inbuf) + Len(result.data)
       /\ Holds(out, plain, end) /\ end + Len(out) = Len(plain)
       /\ plain \in Seq(Token) /\ base \in Nat /\ front \in Nat /\ end \in Nat
  BY <1>11 DEF PlacedBy
<1>13. ~Ended(result.err) /\ ~Ended(pending) /\ Wired(plain, front, end)
  BY <1>5, <1>11 DEF PlacedBy
<1>14. Streamed(plain, start)
  BY <1>11, <1>12 DEF Streamed
<1>15. PICK top : top = IF sealed = << >> THEN 0 ELSE Len(sealed) + 1
  OBVIOUS
<1>16. PICK longer, after :
         Grows(longer, after, plain, start, RecordBytes(record), top) /\ Stream(longer, after)' /\ sealed' # << >>
  BY <1>1, <1>2, <1>14, <1>15, StreamGrows
<1>17. /\ longer \in Seq(Token) /\ RecordBytes(record) \in Seq(Token)
       /\ Extends(longer, plain) /\ Len(longer) = Len(plain) + Len(RecordBytes(record))
       /\ Holds(RecordBytes(record), longer, Len(plain))
  BY <1>16 DEF Grows
<1>18. base = Base(after)'
  <2>1. key = "none" => Base(start) = 0 /\ Base(after)' = 0
    BY <1>4 DEF Base
  <2>2. ASSUME key # "none" PROVE Base(after)' = Base(start)
    <3>1. top = n + 1 /\ nonce <= n + 1
      BY <1>7, <1>9, <1>15, <2>2 DEF Stages
    <3>2. nonce \in Nat \ {0}
      BY DEF ReaderTypes
    <3>3. nonce \in 0 .. top /\ nonce - 1 \in 0 .. top
      BY <3>1, <3>2
    <3>4. after[nonce] = start[nonce] /\ after[nonce - 1] = start[nonce - 1]
      BY <1>16, <3>3 DEF Grows
    <3> QED BY <1>4, <3>4 DEF Base
  <2> QED BY <1>12, <2>1, <2>2
<1>19. /\ Holds(got', longer, base) /\ Holds(inbuf', longer, base + Len(got'))
       /\ Holds(result'.data, longer, base + Len(got') + Len(inbuf'))
       /\ front = base + Len(got') + Len(inbuf') + Len(result'.data)
  <2>1. PICK b \in Nat, c \in Nat : b = base + Len(got) /\ c = base + Len(got) + Len(inbuf)
    BY <1>7, <1>12
  <2>2. Holds(got, longer, base)
    BY <1>7, <1>12, <1>17, HoldsMore
  <2>3. Holds(inbuf, longer, b)
    BY <1>7, <1>12, <1>17, <2>1, HoldsMore
  <2>4. Holds(result.data, longer, c)
    BY <1>7, <1>12, <1>17, <2>1, HoldsMore
  <2> QED BY <1>4, <1>12, <2>1, <2>2, <2>3, <2>4
<1>20. PICK all \in Seq(Token) : all = out \o RecordBytes(record)
  BY <1>8, <1>17, Joined
<1>21. Holds(all, longer, end) /\ end + Len(all) = Len(longer) /\ Len(all) \in Nat /\ end <= Len(plain)
  <2>1. Len(out) \in Nat /\ Len(RecordBytes(record)) \in Nat /\ Len(plain) \in Nat
    BY <1>8, <1>12, <1>17
  <2>2. Holds(out, longer, end)
    BY <1>8, <1>12, <1>17, HoldsMore
  <2>3. Holds(RecordBytes(record), longer, end + Len(out))
    BY <1>12, <1>17
  <2>4. Len(all) = Len(out) + Len(RecordBytes(record)) /\ Holds(all, longer, end)
    BY <1>8, <1>12, <1>17, <1>20, <2>2, <2>3, HoldsJoin, SMTT(30)
  <2>5. PICK o \in Nat, r \in Nat, l \in Nat : o = Len(out) /\ r = Len(RecordBytes(record)) /\ l = Len(plain)
    BY <2>1
  <2>6. end + o = l /\ Len(longer) = l + r /\ Len(all) = o + r /\ end \in Nat
    BY <1>12, <1>17, <2>4, <2>5
  <2>7. end + (o + r) = (end + o) + r /\ o + r \in Nat /\ end <= l
    BY <2>6
  <2> QED BY <2>4, <2>5, <2>6, <2>7
<1>22. Wired(longer, front, end)
  BY <1>12, <1>13, <1>17, <1>21, WiredGrows
<1>23. /\ wire' \in Seq(Token) /\ sent' \in BOOLEAN /\ out' \in Seq(Token)
       /\ \E last \in Nat : Wired(longer, front, last)' /\ Holds(out', longer, last) /\ last + Len(out') = Len(longer)
  <2>1. CASE Write(all) /\ out' = << >>
    <3>1. PICK last \in Nat : last = end + Len(all)
      BY <1>12, <1>21
    <3>2. WriteTo(all, longer, front, end, last)
      BY <1>4, <1>21, <1>22, <2>1, <3>1 DEF WriteTo
    <3>3. wire' \in Seq(Token) /\ Wired(longer, front, last)'
      BY <1>7, <1>12, <1>17, <3>2, WriteGives
    <3>4. last = Len(longer) /\ last <= Len(longer)
      BY <1>21, <3>1
    <3>5. Holds(<< >>, longer, last) /\ Len(<< >>) = 0
      BY <1>17, <3>4, NothingHeld
    <3>6. sent' \in BOOLEAN
      BY <2>1 DEF Write
    <3>7. last + 0 = last
      OBVIOUS
    <3>8. out' \in Seq(Token) /\ Holds(out', longer, last) /\ last + Len(out') = Len(longer)
      BY <2>1, <3>4, <3>5, <3>7, EmptySeq
    <3> QED BY <3>3, <3>6, <3>8
  <2>2. CASE out' = all /\ UNCHANGED wireVars
    <3>1. UNCHANGED << wire, sent, cut >>
      BY <2>2 DEF wireVars
    <3>2. Wired(longer, front, end)'
      BY <1>4, <1>22, <3>1, WiredStays
    <3> QED BY <1>8, <1>12, <1>20, <1>21, <2>2, <3>1, <3>2
  <2> QED BY <1>1, <1>20, <2>1, <2>2
<1>24. PICK last \in Nat : Wired(longer, front, last)' /\ Holds(out', longer, last) /\ last + Len(out') = Len(longer)
  BY <1>23
<1>25. PlacedBy(longer, after, base, front, last)'
  <2>1. /\ Holds(got, longer, base)' /\ Holds(inbuf, longer, base + Len(got))'
        /\ Holds(result.data, longer, base + Len(got) + Len(inbuf))' /\ Holds(out, longer, last)'
    BY <1>19, <1>24 DEF Holds
  <2>2. ~Ended(result.err)' /\ ~Ended(pending)'
    BY <1>4, <1>13 DEF Ended
  <2> QED BY <1>16, <1>18, <1>19, <1>24, <2>1, <2>2 DEF PlacedBy
<1>26. PlaceTypes'
  BY <1>4, <1>5, <1>7, <1>23 DEF PlaceTypes
<1>27. Shapes'
  BY <1>1, <1>2, <1>3, <1>4, <1>7, <1>8, WriteShapes
<1>28. Stages'
  <2>1. nonce \in Nat \ {0} /\ nonce <= n + 1
    BY <1>7, <1>9 DEF Stages, ReaderTypes
  <2>2. nonce <= Len(sealed') + 1
    BY <1>10, <2>1
  <2>3. nonce = 1 \/ sealed'[nonce - 1] = sealed[nonce - 1]
    <3>1. nonce = 1 \/ nonce - 1 \in 1 .. n
      BY <2>1
    <3> QED BY <1>10, <3>1
  <2>4. Amount' = Amount
    BY <1>4 DEF Amount
  <2>5. (nonce > 1) => nonce # 1
    BY <2>1
  <2> QED BY <1>4, <1>7, <1>16, <2>2, <2>3, <2>4, <2>5 DEF Stages, Zero
<1>29. Exact'
  <2>1. Len(delivered) <= Len(written) /\ Len(delivered) \in Nat /\ Len(written) \in Nat
    <3>1. Len(delivered) + Len(cache) <= Len(written)
      BY <1>8 DEF Opened, Delivered
    <3>2. Len(delivered) \in Nat /\ Len(cache) \in Nat /\ Len(written) \in Nat
      <4>1. delivered \in Seq(Nat \X Int) /\ cache \in Seq(Nat \X Int) /\ written \in Seq(Nat \X Int)
        BY DEF ReaderTypes
      <4> QED BY <4>1, LenProperties
    <3> QED BY <3>1, <3>2
  <2>2. \A i \in 1 .. Len(delivered) : i \in 1 .. Len(written)
    BY <2>1
  <2> QED BY <1>4, <1>7, <1>10, <2>2 DEF Exact
<1>30. after \in [Nat -> Nat]
  BY <1>16 DEF Grows
<1>31. ~mistaken' /\ at' \in {"idle", "reading"}
  BY <1>4, <1>6, <1>7
<1> QED BY <1>12, <1>17, <1>24, <1>25, <1>26, <1>27, <1>28, <1>29, <1>30, <1>31, InPlaceAgain

\* A cut takes bytes of the wire, and nothing of what it carries.
LEMMA WiredCut ==
  ASSUME wire \in Seq(Token), NEW plain, NEW i, NEW end, Wired(plain, i, end), Close,
         UNCHANGED << mode, server, received, nameSkipped, remaining, matched >>
  PROVE  wire' \in Seq(Token) /\ Wired(plain, i, end)'
<1>1. PICK full \in Seq(Token) :
        /\ Under(full)
        /\ \/ CarriesPlain(full, plain, i, end)
           \/ CarriesNothing(full, i, end)
           \/ CarriesHead(full, plain, i, end)
           \/ CarriesRecords(full, plain, i, end)
  BY Zenon DEF Wired
<1>2. wire' \in Seq(Token) /\ Under(full)'
  <2>1. CASE UNCHANGED << wire, cut >>
    <3>1. Under(full)'
      BY <1>1, <2>1 DEF Under
    <3> QED BY <2>1, <3>1
  <2>2. CASE cut' = TRUE /\ \E n \in 0 .. Len(wire) - 1 : wire' = SubSeq(wire, 1, n)
    <3>1. PICK n \in 0 .. Len(wire) - 1 : wire' = SubSeq(wire, 1, n)
      BY <2>2
    <3>2. n \in Nat /\ Len(wire) \in Nat /\ n <= Len(wire) /\ 0 + 1 = 1 /\ 0 <= n
      OBVIOUS
    <3>3. wire' \in Seq(Token) /\ Len(wire') = n - 0 /\ \A k \in 1 .. n - 0 : wire'[k] = wire[0 + k]
      BY <3>1, <3>2, Part
    <3>4. Len(wire') = n /\ \A k \in 1 .. n : k \in 1 .. n - 0 /\ k \in 1 .. Len(wire) /\ 0 + k = k
      BY <3>2, <3>3
    <3>5. \A k \in 1 .. n : wire'[k] = wire[k]
      BY <3>3, <3>4
    <3>6. Len(wire) <= Len(full) /\ \A k \in 1 .. Len(wire) : wire[k] = full[k]
      BY <1>1 DEF Under
    <3>7. Len(full) \in Nat
      OBVIOUS
    <3>8. Len(wire') <= Len(full) /\ \A k \in 1 .. Len(wire') : wire'[k] = full[k]
      BY <3>2, <3>4, <3>5, <3>6, <3>7
    <3>9. Under(full)'
      BY <2>2, <3>8 DEF Under
    <3> QED BY <3>3, <3>9
  <2> QED BY <2>1, <2>2 DEF Close
<1>3. sent' = sent
  BY DEF Close
<1>4. CarriesPlain(full, plain, i, end) => CarriesPlain(full, plain, i, end)'
  BY <1>3 DEF CarriesPlain
<1>5. CarriesNothing(full, i, end) => CarriesNothing(full, i, end)'
  BY <1>3 DEF CarriesNothing
<1>6. CarriesHead(full, plain, i, end) => CarriesHead(full, plain, i, end)'
  BY <1>3 DEF CarriesHead, Matching
<1>7. ASSUME CarriesRecords(full, plain, i, end) PROVE CarriesRecords(full, plain, i, end)'
  <2>1. PICK frames : Framed(full, frames, plain, end) /\ Lead(full, frames, plain, i)
    BY <1>7 DEF CarriesRecords
  <2>2. Framed(full, frames, plain, end)'
    BY <2>1 DEF Framed
  <2>3. Lead(full, frames, plain, i)'
    BY <2>1 DEF Lead
  <2>4. mode = "tls" /\ sent /\ (~received => ~nameSkipped)
    BY <1>7 DEF CarriesRecords
  <2> QED BY <1>3, <2>2, <2>3, <2>4 DEF CarriesRecords
<1> QED BY <1>1, <1>2, <1>4, <1>5, <1>6, <1>7, Zenon DEF Wired

\* The writer closes the connection.
LEMMA ClosePlaced ==
  ASSUME ReaderTypes, InPlace, ReaderTypes', CloseConn
  PROVE  InPlace'
<1>1. Close /\ out = << >> /\ UNCHANGED << obfsVars, writeVars, readerVars >> /\ ~closed /\ closed' = TRUE /\ sent' = sent
  BY DEF CloseConn, Close
<1>2. /\ UNCHANGED << received, nameSkipped, remaining, matched, want, result, timeouts, lost >>
      /\ UNCHANGED << version, mode, server, sealed, written, calls, out >>
      /\ UNCHANGED << at, stage, need, got, key, nonce, header, opened, inbuf, pending, cache, delivered, mistaken >>
  BY <1>1 DEF obfsVars, writeVars, readerVars
<1>3. at \in {"idle", "reading"}
  BY <1>1 DEF InPlace, PlaceTypes
<1>4. PlaceTypes /\ ~mistaken /\ Shapes /\ Stages /\ Exact
  BY <1>3, InPlaceIs
<1>5. PICK plain, start, base, front, end :
        /\ plain \in Seq(Token) /\ start \in [Nat -> Nat] /\ base \in Nat /\ front \in Nat /\ end \in Nat
        /\ PlacedBy(plain, start, base, front, end)
  BY <1>3, InPlaceIs
<1>6. ~Ended(result.err) /\ ~Ended(pending) /\ Wired(plain, front, end)
  BY <1>1, <1>5 DEF PlacedBy
<1>7. wire' \in Seq(Token) /\ Wired(plain, front, end)'
  BY <1>1, <1>2, <1>4, <1>6, WiredCut DEF PlaceTypes
<1>8. PlacedBy(plain, start, base, front, end)'
  <2>1. /\ Stream(plain, start) /\ base = Base(start)
        /\ Holds(got, plain, base) /\ Holds(inbuf, plain, base + Len(got))
        /\ Holds(result.data, plain, base + Len(got) + Len(inbuf))
        /\ front = base + Len(got) + Len(inbuf) + Len(result.data)
        /\ Holds(out, plain, end) /\ end + Len(out) = Len(plain)
    BY <1>5 DEF PlacedBy
  <2>2. /\ Holds(got, plain, base)' /\ Holds(inbuf, plain, base + Len(got))'
        /\ Holds(result.data, plain, base + Len(got) + Len(inbuf))' /\ Holds(out, plain, end)'
    BY <1>2, <2>1 DEF Holds
  <2>3. Stream(plain, start)' /\ base = Base(start)'
    BY <1>2, <2>1 DEF Stream, Base
  <2>4. ~Ended(result.err)' /\ ~Ended(pending)'
    BY <1>2, <1>6 DEF Ended
  <2> QED BY <1>2, <1>7, <2>1, <2>2, <2>3, <2>4 DEF PlacedBy
<1>9. PlaceTypes'
  <2>1. cut' \in BOOLEAN
    BY <1>1, <1>4 DEF Close, PlaceTypes
  <2> QED BY <1>1, <1>2, <1>4, <1>7, <2>1 DEF PlaceTypes
<1>10. Stages'
  <2>1. Amount' = Amount
    BY <1>2 DEF Amount
  <2> QED BY <1>2, <1>4, <2>1 DEF Stages, Zero
<1>11. Shapes'
  <2>1. Len(delivered) <= Len(delivered')
    BY <1>2 DEF ReaderTypes
  <2> QED BY <1>2, <1>4, <2>1, ShapesKept
<1>12. Exact'
  BY <1>2, <1>4 DEF Exact
<1>13. ~mistaken' /\ at' \in {"idle", "reading"}
  BY <1>2, <1>3, <1>4
<1> QED BY <1>5, <1>8, <1>9, <1>10, <1>11, <1>12, <1>13, InPlaceAgain

LEMMA StutterPlaced ==
  ASSUME InPlace, UNCHANGED vars
  PROVE  InPlace'
<1>1. /\ UNCHANGED << wire, sent, closed, cut, received, nameSkipped, remaining, matched, want, result, timeouts, lost >>
      /\ UNCHANGED << version, mode, server, sealed, written, calls, out >>
      /\ UNCHANGED << at, stage, need, got, key, nonce, header, opened, inbuf, pending, cache, delivered, mistaken >>
  BY DEF vars, wireVars, obfsVars, writeVars, readerVars
<1>2. PlaceTypes'
  BY <1>1 DEF InPlace, PlaceTypes
<1>3. ~mistaken' /\ Shapes'
  BY <1>1 DEF InPlace, Shapes, Zero
<1>4. ASSUME at \in {"idle", "reading"} PROVE InPlace'
  <2>1. Stages /\ Placed /\ Exact
    BY <1>4 DEF InPlace
  <2>2. Stages'
    <3>1. Amount' = Amount
      BY <1>1 DEF Amount
    <3> QED BY <1>1, <2>1, <3>1 DEF Stages, Zero
  <2>3. Exact'
    BY <1>1, <2>1 DEF Exact
  <2>4. PICK plain, start, base, front, end :
          /\ plain \in Seq(Token) /\ start \in [Nat -> Nat] /\ base \in Nat /\ front \in Nat /\ end \in Nat
          /\ PlacedBy(plain, start, base, front, end)
    BY <2>1 DEF Placed
  <2>5. base = Base(start)'
    BY <1>1, <2>4 DEF PlacedBy, Base
  <2>6. /\ Holds(got', plain, base) /\ Holds(inbuf', plain, base + Len(got'))
        /\ Holds(result'.data, plain, base + Len(got') + Len(inbuf'))
        /\ front = base + Len(got') + Len(inbuf') + Len(result'.data)
    BY <1>1, <2>4 DEF PlacedBy
  <2>7. PlacedBy(plain, start, base, front, end)'
    <3>1. \A e \in {"eof", "unexpected"} : e \in {result.err, pending} <=> e \in {result'.err, pending'}
      BY <1>1
    <3>2. result' \in {result, NoResult}
      BY <1>1
    <3> QED BY <1>1, <2>4, <2>5, <2>6, <3>1, <3>2, Moves
  <2> QED BY <1>1, <1>2, <1>3, <1>4, <2>2, <2>3, <2>4, <2>7, InPlaceAgain
<1>5. ASSUME at \notin {"idle", "reading"} PROVE InPlace'
  <2>1. at' \notin {"idle", "reading"} /\ (at' \in {"eof", "error"} => at \in {"eof", "error"})
    BY <1>1, <1>5
  <2>2. at' \in {"eof", "error"} => closed' /\ want' = 0 /\ (~cut' => at' = "eof" /\ delivered' = written')
    BY <1>1, <2>1 DEF InPlace
  <2> QED BY <1>2, <1>3, <2>1, <2>2 DEF InPlace
<1> QED BY <1>4, <1>5

\* Nothing is sealed, and nothing is on the wire.
LEMMA InitPlaced == Init => InPlace
<1> SUFFICES ASSUME Init PROVE InPlace
  OBVIOUS
<1>1. /\ sealed = << >> /\ written = << >> /\ out = << >> /\ at = "idle" /\ stage = "none" /\ need = 0
      /\ got = << >> /\ key = "none" /\ nonce = 1 /\ inbuf = << >> /\ pending = "ok"
      /\ delivered = << >> /\ mistaken = FALSE /\ server = (version = 5)
      /\ wire = << >> /\ sent = FALSE /\ closed = FALSE /\ cut = FALSE /\ received = FALSE /\ nameSkipped = FALSE
      /\ remaining = 0 /\ matched = 0 /\ want = 0 /\ result = NoResult /\ timeouts = 0 /\ lost = FALSE
  BY DEF Init, ObfsInit
<1>2. mode \in {"none", "http", "tls"}
  <2>1. PICK d \in Disguises : mode = d[2]
    BY DEF Init
  <2> QED BY <2>1, ReaderAssumption
<1>3. NoResult \in [data : Seq(Token), err : {"none", "ok", "timeout", "eof", "unexpected"}]
  BY EmptySeq DEF NoResult
<1>4. PlaceTypes
  <2>1. << >> \in Seq(Token) /\ 0 \in Nat /\ 0 \in 0 .. 3
    BY EmptySeq
  <2> QED BY <1>1, <1>2, <1>3, <2>1 DEF PlaceTypes
<1>5. Shapes
  BY <1>1 DEF Shapes
<1>6. Stages
  <2>1. Len(got) = 0 /\ Len(result.data) = 0 /\ Len(sealed) = 0
    BY <1>1, EmptySeq DEF NoResult
  <2>2. Len(got) + need = Amount
    BY <1>1, <2>1 DEF Amount
  <2> QED BY <1>1, <2>1, <2>2 DEF Stages
<1>7. Exact
  BY <1>1 DEF Exact
<1>8. Placed
  <2>1. PICK plain \in Seq(Token) : plain = << >>
    BY EmptySeq
  <2>2. Len(plain) = 0 /\ 0 \in Nat /\ 0 + 0 = 0 /\ 0 <= Len(plain)
    BY <2>1, EmptySeq
  <2>3. Holds(<< >>, plain, 0) /\ Len(<< >>) = 0 /\ Holds(NoResult.data, plain, 0) /\ Len(NoResult.data) = 0
    BY <2>2, NothingHeld
  <2>4. Wired(plain, 0, 0)
    <3>1. Under(plain)
      BY <1>1, <2>1, <2>2 DEF Under
    <3>2. mode = "none" => CarriesPlain(plain, plain, 0, 0)
      BY <2>1, <2>2, <2>3 DEF CarriesPlain
    <3>3. mode # "none" => CarriesNothing(plain, 0, 0)
      BY <1>1, <2>1 DEF CarriesNothing
    <3> QED BY <3>1, <3>2, <3>3, Zenon DEF Wired
  <2>5. PICK start : start = [n \in Nat |-> 0]
    OBVIOUS
  <2>6. start \in [Nat -> Nat] /\ start[0] = 0
    BY <2>5
  <2>7. Stream(plain, start) /\ Base(start) = 0
    BY <1>1, <2>1, <2>6 DEF Stream, Base
  <2>8. PlacedBy(plain, start, 0, 0, 0)
    <3>1. ~Ended(result.err) /\ ~Ended(pending)
      BY <1>1 DEF Ended, NoResult
    <3>2. got = << >> /\ inbuf = << >> /\ out = << >> /\ result.data = NoResult.data
      BY <1>1
    <3> QED BY <2>2, <2>3, <2>4, <2>7, <3>1, <3>2 DEF PlacedBy
  <2> QED BY <2>2, <2>6, <2>8 DEF Placed
<1> QED BY <1>1, <1>4, <1>5, <1>6, <1>7, <1>8 DEF InPlace

LEMMA LostStays == [Next]_vars /\ lost => lost'
<1> SUFFICES ASSUME [Next]_vars, lost PROVE lost'
  OBVIOUS
<1>1. CASE WriteRecord \/ CloseConn \/ CallRead \/ SaltRead \/ HeaderRead \/ PaddingRead \/ BodyRead \/ TakeCache \/ UNCHANGED vars
  BY <1>1 DEF WriteRecord, CloseConn, CallRead, SaltRead, HeaderRead, PaddingRead, BodyRead, TakeCache, vars, obfsVars
<1>2. CASE ReadStep
  <2>1. ReadConn \/ ReadHead \/ ReadHello \/ SkipName \/ ReadRemaining \/ ReadRecord
    BY <1>2 DEF ReadStep, Read
  <2>2. CASE ReadConn \/ ReadHead \/ ReadRemaining \/ SkipName
    BY <2>2 DEF ReadConn, ReadHead, ReadRemaining, SkipName, Return
  <2>3. CASE ReadHello \/ ReadRecord
    BY <2>3 DEF ReadHello, ReadRecord, readRecord, Return
  <2> QED BY <2>1, <2>2, <2>3
<1>3. CASE ReadDone \/ TakeBuffered
  BY <1>3 DEF ReadDone, TakeBuffered, Fails
<1>4. CASE BeginRecord
  BY <1>4 DEF BeginRecord
<1> QED BY <1>1, <1>2, <1>3, <1>4 DEF Next, Reader

LEMMA PlaceStep ==
  ASSUME ReaderTypes, ReaderInv, PlaceInv, [Next]_vars
  PROVE  PlaceInv'
<1>1. ReaderTypes' /\ ReaderInv'
  BY ReaderStep
<1> SUFFICES ASSUME ~lost' PROVE InPlace'
  BY DEF PlaceInv
<1>2. InPlace
  BY LostStays DEF PlaceInv
<1>3. CASE WriteRecord
  BY <1>1, <1>2, <1>3, WritePlaced
<1>4. CASE CloseConn
  BY <1>1, <1>2, <1>4, ClosePlaced
<1>5. CASE CallRead
  BY <1>1, <1>2, <1>5, CallReadPlaced
<1>6. CASE ReadStep
  BY <1>1, <1>2, <1>6, ReadPlaced
<1>7. CASE ReadDone
  BY <1>1, <1>2, <1>7, ReadDonePlaced
<1>8. CASE TakeBuffered
  BY <1>1, <1>2, <1>8, TakePlaced
<1>9. CASE BeginRecord
  BY <1>1, <1>2, <1>9, BeginPlaced
<1>10. CASE SaltRead
  BY <1>1, <1>2, <1>10, SaltPlaced
<1>11. CASE HeaderRead
  BY <1>1, <1>2, <1>11, HeaderPlaced
<1>12. CASE PaddingRead
  BY <1>1, <1>2, <1>12, PaddingPlaced
<1>13. CASE BodyRead
  BY <1>1, <1>2, <1>13, BodyPlaced
<1>14. CASE TakeCache
  BY <1>1, <1>2, <1>14, CachePlaced
<1>15. CASE UNCHANGED vars
  BY <1>2, <1>15, StutterPlaced
<1> QED BY <1>3, <1>4, <1>5, <1>6, <1>7, <1>8, <1>9, <1>10, <1>11, <1>12, <1>13, <1>14, <1>15 DEF Next, Reader

\* However the bytes arrive and whatever lengths are asked for, a reader that no deadline
\* has put out of its place takes each header for a header and each body for a body, and
\* comes to the end behind the last byte, unless the connection is cut.
THEOREM ReadersLoseNothing == Spec => []NothingLost
<1>1. Init => ReaderTypes /\ ReaderInv /\ PlaceInv
  BY ReaderInit, InitPlaced DEF PlaceInv
<1>2. ReaderTypes /\ ReaderInv /\ PlaceInv /\ [Next]_vars => ReaderTypes' /\ ReaderInv' /\ PlaceInv'
  BY ReaderStep, PlaceStep
<1>3. PlaceInv => NothingLost
  BY DEF PlaceInv, InPlace, NothingLost
<1> QED BY <1>1, <1>2, <1>3, PTL DEF Spec
================================================================================
