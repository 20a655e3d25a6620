----------------------------- MODULE PlainProofs -----------------------------
(***************************************************************************)
(* What is written on a connection with one tunnel is kept as long as no   *)
(* write fails, and is heard once and in order whatever fails: the         *)
(* theorems for every number of goroutines, calls and failures.            *)
(***************************************************************************)
EXTENDS PlainProperties, SequenceTheorems, TLAPS

Steps == {"idle", "check", "lock", "first", "put", "zero", "close", "reply", "next", "request",
          "await", "batch"}
Ops == {"none", "write", "vector", "closeWrite", "close", "read", "send", "batch", "recv"}
Items == [what : {"request", "reply", "error", "end", "data"}, by : Goroutines \cup {"far"}, n : Nat]
Records == [writer : Nat, n : Nat, items : Seq(Items)]
Calls == [op : Ops, data : Seq(Items), left : Seq(Items), failed : BOOLEAN, last : Nat]

Types ==
  /\ kind \in {"stream", "packets"} /\ side \in Ends /\ (kind = "packets" => side = "client")
  /\ pc \in [Goroutines -> Steps] /\ call \in [Goroutines -> Calls]
  /\ gone \in [Ends -> BOOLEAN] /\ writer \in [Ends -> Nat]
  /\ wire \in [Ends -> Seq(Records)] /\ nonces \in [Ends -> Seq(Nat)]

\* Everything holds until a write fails.
Written == Types /\ CallsAgree /\ OneWriter /\ LeftOrWritten /\ Kept
Whilst == Written /\ Holders
KeptInv == failures \in Nat /\ (failures = 0 => Whilst)

-----------------------------------------------------------------------------
\* The wire.

\* A datum is on a wire without torn records as soon as it is in one of them.
LEMMA InOneWriter ==
  ASSUME NEW e \in Ends, NEW d, wire[e] \in Seq(Records),
         \A i \in DOMAIN wire[e] : wire[e][i].writer = 1 /\ wire[e][i].n = i - 1
  PROVE  OnWire(e, d) <=> \E i \in DOMAIN wire[e] : \E j \in DOMAIN wire[e][i].items :
                             wire[e][i].items[j] = d
<1>1. \A i \in DOMAIN wire[e] : wire[e][i] # Torn
  BY DEF Torn, Record
<1>2. \A i \in DOMAIN wire[e] : \A j \in 1 .. i : j \in DOMAIN wire[e] /\ 1 \in DOMAIN wire[e]
  OBVIOUS
<1>3. Legible(e) = DOMAIN wire[e]
  BY <1>1, <1>2 DEF Legible
<1> QED
  BY <1>3 DEF OnWire

\* And after a step.
LEMMA InOneWriterNext ==
  ASSUME NEW e \in Ends, NEW d, wire'[e] \in Seq(Records),
         \A i \in DOMAIN wire'[e] : wire'[e][i].writer = 1 /\ wire'[e][i].n = i - 1,
         \E i \in DOMAIN wire'[e] : \E j \in DOMAIN wire'[e][i].items : wire'[e][i].items[j] = d
  PROVE  OnWire(e, d)'
<1>1. \A i \in DOMAIN wire'[e] : wire'[e][i] # Torn
  BY DEF Torn, Record
<1>2. \A i \in DOMAIN wire'[e] : \A j \in 1 .. i : j \in DOMAIN wire'[e] /\ 1 \in DOMAIN wire'[e]
  OBVIOUS
<1>3. Legible(e)' = DOMAIN wire'[e]
  BY <1>1, <1>2 DEF Legible
<1> QED
  BY <1>3 DEF OnWire

\* Records that a writer seals.
LEMMA SealedRecords ==
  ASSUME NEW n \in Nat, NEW groups \in Seq(Seq(Items))
  PROVE  /\ Sealed(1, n, groups) \in Seq(Records) /\ Len(Sealed(1, n, groups)) = Len(groups)
         /\ \A i \in 1 .. Len(groups) : /\ Sealed(1, n, groups)[i].writer = 1
                                        /\ Sealed(1, n, groups)[i].n = n + i - 1
                                        /\ Sealed(1, n, groups)[i].items = groups[i]
<1>1. DOMAIN groups = 1 .. Len(groups) /\ Len(groups) \in Nat
  OBVIOUS
<1>2. \A i \in 1 .. Len(groups) : Record(1, n + i - 1, groups[i]) \in Records
  BY <1>1 DEF Record, Records
<1>3. Sealed(1, n, groups) = [i \in 1 .. Len(groups) |-> Record(1, n + i - 1, groups[i])]
  BY <1>1 DEF Sealed
<1>4. Sealed(1, n, groups) \in Seq(Records) /\ Len(Sealed(1, n, groups)) = Len(groups)
  <2>1. Sealed(1, n, groups) \in [1 .. Len(groups) -> Records]
    BY <1>2, <1>3
  <2>2. Seq(Records) = UNION {[1 .. m -> Records] : m \in Nat}
    BY SeqDef
  <2>3. Sealed(1, n, groups) \in Seq(Records)
    BY <1>1, <2>1, <2>2
  <2>4. DOMAIN Sealed(1, n, groups) = 1 .. Len(Sealed(1, n, groups))
    BY <2>3, LenProperties
  <2>5. Len(Sealed(1, n, groups)) \in Nat
    BY <2>3, LenProperties
  <2>6. 1 .. Len(Sealed(1, n, groups)) = 1 .. Len(groups)
    BY <2>1, <2>4
  <2> QED
    BY <1>1, <2>3, <2>5, <2>6
<1> QED
  BY <1>1, <1>3, <1>4 DEF Record

\* The records of one writer in their order, and more of them behind.
Chained(s) == \A i \in DOMAIN s : s[i].writer = 1 /\ s[i].n = i - 1

Longer(s, groups) == s \o Sealed(1, Len(s), groups)

LEMMA Lengthened ==
  ASSUME NEW s \in Seq(Records), NEW groups \in Seq(Seq(Items)), Chained(s)
  PROVE  /\ Longer(s, groups) \in Seq(Records) /\ Len(Longer(s, groups)) = Len(s) + Len(groups)
         /\ Chained(Longer(s, groups))
         /\ \A i \in DOMAIN s : i \in DOMAIN Longer(s, groups) /\ Longer(s, groups)[i] = s[i]
         /\ \A i \in DOMAIN groups : /\ Len(s) + i \in DOMAIN Longer(s, groups)
                                     /\ Longer(s, groups)[Len(s) + i].items = groups[i]
<1> DEFINE t == Longer(s, groups)
<1> DEFINE sealed == Sealed(1, Len(s), groups)
<1>1. Len(s) \in Nat /\ Len(groups) \in Nat /\ DOMAIN s = 1 .. Len(s) /\ DOMAIN groups = 1 .. Len(groups)
  BY LenProperties
<1>2. /\ sealed \in Seq(Records) /\ Len(sealed) = Len(groups)
      /\ \A i \in 1 .. Len(groups) : /\ sealed[i].writer = 1 /\ sealed[i].n = Len(s) + i - 1
                                     /\ sealed[i].items = groups[i]
  BY <1>1, SealedRecords, ZenonT(40)
<1>3. t = s \o sealed
  BY DEF Longer
<1> HIDE DEF sealed, t
<1>4. PICK m \in Nat, n \in Nat : m = Len(s) /\ n = Len(groups)
  BY <1>1, ZenonT(40)
<1>5. t \in Seq(Records) /\ Len(t) = m + n /\ DOMAIN t = 1 .. m + n
  <2>1. t \in Seq(Records) /\ Len(t) = Len(s) + Len(sealed)
    BY <1>2, <1>3, ConcatProperties
  <2>2. DOMAIN t = 1 .. Len(t)
    BY <2>1, LenProperties
  <2> QED
    BY <1>2, <1>4, <2>1, <2>2
<1>6. \A i \in 1 .. m + n : t[i] = IF i <= m THEN s[i] ELSE sealed[i - m]
  <2>1. \A i \in 1 .. Len(s) + Len(sealed) :
          (s \o sealed)[i] = IF i <= Len(s) THEN s[i] ELSE sealed[i - Len(s)]
    BY <1>2, ConcatProperties
  <2>2. Len(s) = m /\ Len(sealed) = n
    BY <1>2, <1>4
  <2> QED
    BY <1>3, <2>1, <2>2, Zenon
<1>7. /\ \A i \in 1 .. n : sealed[i].writer = 1 /\ sealed[i].n = m + i - 1 /\ sealed[i].items = groups[i]
      /\ \A i \in 1 .. m : s[i].writer = 1 /\ s[i].n = i - 1
  BY <1>1, <1>2, <1>4 DEF Chained
<1>8. \A i \in 1 .. m : i \in 1 .. m + n /\ t[i] = s[i]
  <2> SUFFICES ASSUME NEW i \in 1 .. m PROVE i \in 1 .. m + n /\ t[i] = s[i]
    OBVIOUS
  <2>1. i \in 1 .. m + n /\ i <= m
    OBVIOUS
  <2> QED
    BY <1>6, <2>1
<1>9. \A i \in 1 .. n : m + i \in 1 .. m + n /\ t[m + i] = sealed[i]
  <2> SUFFICES ASSUME NEW i \in 1 .. n PROVE m + i \in 1 .. m + n /\ t[m + i] = sealed[i]
    OBVIOUS
  <2>1. m + i \in 1 .. m + n /\ ~(m + i <= m) /\ (m + i) - m = i
    OBVIOUS
  <2> QED
    BY <1>6, <2>1
<1>10. \A i \in 1 .. m + n : t[i].writer = 1 /\ t[i].n = i - 1
  <2> SUFFICES ASSUME NEW i \in 1 .. m + n PROVE t[i].writer = 1 /\ t[i].n = i - 1
    OBVIOUS
  <2>1. CASE i <= m
    <3>1. i \in 1 .. m
      BY <2>1
    <3>2. t[i] = s[i]
      BY <1>8, <3>1
    <3> QED
      BY <1>7, <3>1, <3>2
  <2>2. CASE ~(i <= m)
    <3>1. i - m \in 1 .. n /\ m + (i - m) = i
      BY <2>2
    <3>2. t[i] = sealed[i - m]
      BY <1>6, <2>2
    <3>3. sealed[i - m].writer = 1 /\ sealed[i - m].n = m + (i - m) - 1
      BY <1>7, <3>1
    <3>4. m + (i - m) - 1 = i - 1
      OBVIOUS
    <3> QED
      BY <3>2, <3>3, <3>4
  <2> QED
    BY <2>1, <2>2
<1>11. Chained(t)
  BY <1>5, <1>10 DEF Chained
<1>12. \A i \in 1 .. n : t[m + i].items = groups[i]
  BY <1>7, <1>9
<1>13. /\ t \in Seq(Records) /\ Len(t) = Len(s) + Len(groups) /\ Chained(t)
       /\ \A i \in DOMAIN s : i \in DOMAIN t /\ t[i] = s[i]
       /\ \A i \in DOMAIN groups : Len(s) + i \in DOMAIN t /\ t[Len(s) + i].items = groups[i]
  BY <1>1, <1>4, <1>5, <1>8, <1>9, <1>11, <1>12
<1> QED
  BY <1>13 DEF t

\* The writer an end has, or the first it makes, puts its records where they belong.
LEMMA PutsRecords ==
  ASSUME Types, OneWriter, failures = 0, NEW e \in Ends, NEW w, NEW groups \in Seq(Seq(Items)),
         w = IF writer[e] = 0 THEN NewWriter(e) ELSE writer[e], Puts(e, w, groups)
  PROVE  /\ w = 1 /\ ~gone[e] /\ failures' = 0
         /\ wire' \in [Ends -> Seq(Records)] /\ nonces' \in [Ends -> Seq(Nat)]
         /\ \A f \in Ends : Chained(wire'[f])
         /\ nonces'[e] = << Len(wire'[e]) >>
         /\ \A f \in Ends \ {e} : wire'[f] = wire[f] /\ nonces'[f] = nonces[f]
         /\ \A f \in Ends : \A d : OnWire(f, d) => OnWire(f, d)'
         /\ \A i \in DOMAIN groups : \A j \in DOMAIN groups[i] : OnWire(e, groups[i][j])'
<1>1. ~gone[e] /\ failures' = 0
  BY DEF Puts
<1>2. /\ wire[e] \in Seq(Records) /\ Len(wire[e]) \in Nat /\ nonces[e] \in Seq(Nat)
      /\ Len(groups) \in Nat /\ \A f \in Ends : wire[f] \in Seq(Records) /\ Chained(wire[f])
  BY LenProperties DEF Types, OneWriter, Chained
<1>3. w = 1 /\ NonceOf(e, w) = Len(wire[e])
  <2>1. CASE writer[e] = 0 /\ nonces[e] = << >> /\ wire[e] = << >>
    BY <2>1 DEF NewWriter, NonceOf
  <2>2. CASE writer[e] = 1 /\ nonces[e] = << Len(wire[e]) >>
    BY <2>2 DEF NonceOf
  <2> QED
    BY <1>1, <2>1, <2>2 DEF OneWriter
<1>4. wire' = [wire EXCEPT ![e] = Longer(wire[e], groups)]
  BY <1>3 DEF Puts, Longer
<1>5. PICK t : t = Longer(wire[e], groups)
  OBVIOUS
<1>6. /\ t \in Seq(Records) /\ Len(t) = Len(wire[e]) + Len(groups) /\ Chained(t)
      /\ \A i \in DOMAIN wire[e] : i \in DOMAIN t /\ t[i] = wire[e][i]
      /\ \A i \in DOMAIN groups : Len(wire[e]) + i \in DOMAIN t /\ t[Len(wire[e]) + i].items = groups[i]
  BY <1>2, <1>5, Lengthened
<1>7. /\ wire' \in [Ends -> Seq(Records)] /\ wire'[e] = t
      /\ \A f \in Ends \ {e} : wire'[f] = wire[f]
  BY <1>4, <1>5, <1>6 DEF Types
<1>8. \A f \in Ends : wire'[f] \in Seq(Records) /\ Chained(wire'[f])
  BY <1>2, <1>6, <1>7
<1>9. nonces' \in [Ends -> Seq(Nat)] /\ nonces'[e] = << Len(t) >>
      /\ \A f \in Ends \ {e} : nonces'[f] = nonces[f]
  <2>1. nonces' = Used(e, 1, groups, Len(groups))
    BY <1>3 DEF Puts
  <2>2. CASE writer[e] = 0 /\ nonces[e] = << >> /\ wire[e] = << >>
    <3>1. nonces' = [nonces EXCEPT ![e] = Append(@, Len(groups))]
      BY <2>1, <2>2 DEF Used, NonceAfter
    <3>2. Append(nonces[e], Len(groups)) = << Len(t) >>
      BY <1>2, <1>6, <2>2
    <3> QED
      BY <1>2, <3>1, <3>2 DEF Types
  <2>3. CASE writer[e] = 1 /\ nonces[e] = << Len(wire[e]) >>
    <3>1. nonces' = [nonces EXCEPT ![e] = [nonces[e] EXCEPT ![1] = Len(wire[e]) + Len(groups)]]
      BY <2>1, <2>3 DEF Used, NonceAfter, Types
    <3>2. [nonces[e] EXCEPT ![1] = Len(wire[e]) + Len(groups)] = << Len(t) >>
      BY <1>2, <1>6, <2>3
    <3> QED
      BY <1>2, <1>6, <3>1, <3>2 DEF Types
  <2> QED
    BY <1>1, <2>2, <2>3 DEF OneWriter
<1>10. \A f \in Ends : \A d : OnWire(f, d) => OnWire(f, d)'
  <2> SUFFICES ASSUME NEW f \in Ends, NEW d, OnWire(f, d) PROVE OnWire(f, d)'
    OBVIOUS
  <2>1. PICK i \in DOMAIN wire[f] : \E j \in DOMAIN wire[f][i].items : wire[f][i].items[j] = d
    BY <1>2, InOneWriter DEF Chained
  <2>2. i \in DOMAIN wire'[f] /\ wire'[f][i] = wire[f][i]
    BY <1>6, <1>7
  <2> QED
    BY <1>8, <2>1, <2>2, InOneWriterNext DEF Chained
<1>11. \A i \in DOMAIN groups : \A j \in DOMAIN groups[i] : OnWire(e, groups[i][j])'
  <2> SUFFICES ASSUME NEW i \in DOMAIN groups, NEW j \in DOMAIN groups[i] PROVE OnWire(e, groups[i][j])'
    OBVIOUS
  <2>1. Len(wire[e]) + i \in DOMAIN wire'[e] /\ wire'[e][Len(wire[e]) + i].items = groups[i]
    BY <1>6, <1>7
  <2> QED
    BY <1>8, <2>1, InOneWriterNext DEF Chained
<1> QED
  BY <1>1, <1>3, <1>7, <1>8, <1>9, <1>10, <1>11

\* A write that fails without the connection failing finds it closed.
LEMMA NotWritten ==
  ASSUME Types, failures = 0, failures' = 0, NEW e \in Ends, NEW w \in Nat \ {0},
         NEW groups \in Seq(Seq(Items)), PutFails(e, w, groups)
  PROVE  /\ gone[e] /\ wire' = wire /\ nonces' \in [Ends -> Seq(Nat)]
         /\ \A f \in Ends \ {e} : nonces'[f] = nonces[f]
<1>1. gone[e] /\ nonces' = Used(e, w, groups, 0) /\ wire' = wire
  BY DEF PutFails
<1>2. Len(groups) \in Nat /\ nonces[e] \in Seq(Nat) /\ nonces \in [Ends -> Seq(Nat)]
  BY LenProperties DEF Types
<1>3. CASE w <= Len(nonces[e])
  <2>1. nonces' = [nonces EXCEPT ![e] = [nonces[e] EXCEPT ![w] = nonces[e][w] + Len(groups)]]
    BY <1>1, <1>2, <1>3 DEF Used, NonceAfter
  <2>2. w \in 1 .. Len(nonces[e]) /\ Len(nonces[e]) \in Nat
    BY <1>2, <1>3, LenProperties
  <2>3. nonces[e][w] \in Nat
    BY <1>2, <2>2, ElementOfSeq
  <2>4. [nonces[e] EXCEPT ![w] = nonces[e][w] + Len(groups)] \in Seq(Nat)
    BY <1>2, <2>2, <2>3, ExceptSeq
  <2> QED
    BY <1>1, <1>2, <2>1, <2>4
<1>4. CASE ~(w <= Len(nonces[e]))
  <2>1. nonces' = [nonces EXCEPT ![e] = Append(nonces[e], Len(groups))]
    BY <1>1, <1>2, <1>4 DEF Used, NonceAfter
  <2>2. Append(nonces[e], Len(groups)) \in Seq(Nat)
    BY <1>2
  <2> QED
    BY <1>1, <1>2, <2>1, <2>2
<1> QED
  BY <1>3, <1>4

\* An end at a time writes.
LEMMA OneWriterKept ==
  ASSUME OneWriter, failures = 0, NEW e \in Ends,
         \A f \in Ends : Chained(wire'[f]),
         \A f \in Ends \ {e} : wire'[f] = wire[f] /\ nonces'[f] = nonces[f] /\ writer'[f] = writer[f],
         \A f \in Ends : gone[f] => gone'[f],
         \/ gone'[e]
         \/ writer'[e] = 0 /\ nonces'[e] = << >> /\ wire'[e] = << >>
         \/ writer'[e] = 1 /\ nonces'[e] = << Len(wire'[e]) >>
  PROVE  OneWriter'
BY DEF OneWriter, Chained

LEMMA OneWriterQuiet ==
  ASSUME OneWriter, failures = 0, UNCHANGED <<wire, writer>>,
         \A f \in Ends : /\ gone[f] => gone'[f]
                         /\ gone[f] \/ nonces'[f] = nonces[f]
  PROVE  OneWriter'
<1>1. ASSUME NEW e \in Ends
      PROVE  /\ \A i \in DOMAIN wire'[e] : wire'[e][i].writer = 1 /\ wire'[e][i].n = i - 1
             /\ \/ gone'[e]
                \/ writer'[e] = 0 /\ nonces'[e] = << >> /\ wire'[e] = << >>
                \/ writer'[e] = 1 /\ nonces'[e] = << Len(wire'[e]) >>
  <2>1. wire' = wire /\ writer' = writer
    OBVIOUS
  <2>2. (gone[e] => gone'[e]) /\ (gone[e] \/ nonces'[e] = nonces[e])
    OBVIOUS
  <2>3. /\ \A i \in DOMAIN wire[e] : wire[e][i].writer = 1 /\ wire[e][i].n = i - 1
        /\ \/ gone[e]
           \/ writer[e] = 0 /\ nonces[e] = << >> /\ wire[e] = << >>
           \/ writer[e] = 1 /\ nonces[e] = << Len(wire[e]) >>
    BY DEF OneWriter
  <2>4. CASE gone[e]
    BY <2>1, <2>2, <2>3, <2>4, Zenon
  <2>5. CASE ~gone[e]
    BY <2>1, <2>2, <2>3, <2>5, Zenon
  <2> QED
    BY <2>4, <2>5
<1> QED
  BY <1>1 DEF OneWriter

LEMMA WireQuiet ==
  ASSUME UNCHANGED wire
  PROVE  \A e \in Ends : \A d : OnWire(e, d) => OnWire(e, d)'
BY DEF OnWire, Legible

-----------------------------------------------------------------------------
\* The calls.

\* Goroutine g goes to `at' with call c.
Moves(g, at, c) == pc' = [pc EXCEPT ![g] = at] /\ call' = [call EXCEPT ![g] = c]

LEMMA Moved ==
  ASSUME Whilst, failures = 0, NEW g \in Goroutines, NEW at \in Steps, NEW c \in Calls,
         NEW old, old = call[g],
         Moves(g, at, c), UNCHANGED <<kind, side>>, Agrees(g, at, c),
         \A e \in Ends : \A d : OnWire(e, d) => OnWire(e, d)',
         at # "idle" => \A i \in DOMAIN c.data :
           \/ \E j \in DOMAIN c.left : c.left[j] = c.data[i]
           \/ OnWire(EndOf(g), c.data[i])',
         \/ done' = done
         \/ /\ done' \subseteq done \cup ToSet(old.data)
            /\ \A i \in DOMAIN old.data : OnWire(EndOf(g), old.data[i])'
  PROVE  /\ pc' \in [Goroutines -> Steps] /\ call' \in [Goroutines -> Calls]
         /\ CallsAgree' /\ LeftOrWritten' /\ Kept'
         /\ pc'[g] = at /\ call'[g] = c
         /\ \A h \in Goroutines \ {g} : pc'[h] = pc[h] /\ call'[h] = call[h]
<1>1. pc \in [Goroutines -> Steps] /\ call \in [Goroutines -> Calls] /\ side \in Ends
  BY DEF Whilst, Written, Types
<1>2. /\ pc' \in [Goroutines -> Steps] /\ call' \in [Goroutines -> Calls]
      /\ pc'[g] = at /\ call'[g] = c
      /\ \A h \in Goroutines \ {g} : pc'[h] = pc[h] /\ call'[h] = call[h]
  BY <1>1 DEF Moves
<1>3. \A h : EndOf(h)' = EndOf(h) /\ EndOf(h) \in Ends
  BY <1>1 DEF EndOf, Ends
<1>4. CallsAgree'
  <2> SUFFICES ASSUME NEW h \in Goroutines PROVE Agrees(h, pc[h], call[h])'
    BY DEF CallsAgree
  <2>1. CASE h = g
    BY <1>2, <2>1 DEF Agrees
  <2>2. CASE h # g
    BY <1>2, <2>2 DEF Whilst, Written, CallsAgree, Agrees
  <2> QED
    BY <2>1, <2>2
<1>5. LeftOrWritten'
  <2> SUFFICES ASSUME NEW h \in Goroutines, pc'[h] # "idle"
               PROVE  (\A i \in DOMAIN call[h].data :
                         \/ \E j \in DOMAIN call[h].left : call[h].left[j] = call[h].data[i]
                         \/ OnWire(EndOf(h), call[h].data[i]))'
    BY <1>3 DEF LeftOrWritten
  <2>1. PICK now : now = call'[h]
    OBVIOUS
  <2>2. \A i \in DOMAIN now.data : \/ \E j \in DOMAIN now.left : now.left[j] = now.data[i]
                                   \/ OnWire(EndOf(h), now.data[i])'
    <3>1. CASE h = g
      BY <1>2, <2>1, <3>1
    <3>2. CASE h # g
      <4>1. \A i \in DOMAIN now.data : \/ \E j \in DOMAIN now.left : now.left[j] = now.data[i]
                                       \/ OnWire(EndOf(h), now.data[i])
        BY <1>2, <2>1, <3>2 DEF Whilst, Written, LeftOrWritten
      <4> QED
        BY <1>3, <4>1
    <3> QED
      BY <3>1, <3>2
  <2> QED
    BY <2>1, <2>2
<1>6. Kept'
  <2>1. \A d \in done : OnWire(EndOf(d.by), d)'
    BY <1>3 DEF Whilst, Written, Kept
  <2>2. \A i \in DOMAIN old.data : old.data[i].by = g
    BY DEF Whilst, Written, CallsAgree, Agrees
  <2>3. CASE done' = done
    BY <1>3, <2>1, <2>3 DEF Kept
  <2>4. CASE /\ done' \subseteq done \cup ToSet(old.data)
             /\ \A i \in DOMAIN old.data : OnWire(EndOf(g), old.data[i])'
    <3>1. \A d \in ToSet(old.data) : OnWire(EndOf(d.by), d)'
      BY <2>2, <2>4 DEF ToSet
    <3> QED
      BY <1>3, <2>1, <2>4, <3>1 DEF Kept
  <2> QED
    BY <2>3, <2>4
<1> QED
  BY <1>2, <1>4, <1>5, <1>6

\* The call a goroutine begins, or makes again.
LEMMA Begun ==
  ASSUME Whilst, NEW g \in Goroutines, NEW op \in Ops, NEW n \in Nat, Begins(g, op, n)
  PROVE  /\ pc[g] = "idle" /\ done' = done
         /\ \E c \in Calls : /\ call' = [call EXCEPT ![g] = c]
                             /\ c.op = op /\ c.left = c.data /\ ~c.failed
                             /\ IF n = 0 THEN c.data = << >> ELSE c.data # << >>
                             /\ \A i \in DOMAIN c.data : c.data[i].by = g
<1> DEFINE data == [i \in 1 .. n |-> Datum(g, call[g].last + i)]
           c == [op |-> op, data |-> data, left |-> data, failed |-> FALSE, last |-> call[g].last + n]
<1>1. call \in [Goroutines -> Calls] /\ call[g].last \in Nat
  BY DEF Whilst, Written, Types, Calls
<1>2. \A i \in 1 .. n : data[i] \in Items /\ data[i].by = g
  BY <1>1 DEF Datum, Items
<1>3. data \in Seq(Items) /\ Len(data) = n
  <2>1. data \in [1 .. n -> Items]
    BY <1>2
  <2>2. Seq(Items) = UNION {[1 .. m -> Items] : m \in Nat}
    BY SeqDef
  <2>3. data \in Seq(Items)
    BY <2>1, <2>2
  <2>4. DOMAIN data = 1 .. n /\ DOMAIN data = 1 .. Len(data) /\ Len(data) \in Nat
    BY <2>3, LenProperties
  <2> QED
    BY <2>3, <2>4
<1>4. IF n = 0 THEN data = << >> ELSE data # << >>
  BY <1>3, EmptySeq
<1>5. pc[g] = "idle" /\ done' = done /\ call' = [call EXCEPT ![g] = c]
  <2>1. call' = [call EXCEPT ![g] = [op |-> op, data |-> data, left |-> data, failed |-> FALSE,
                                     last |-> call[g].last + n]]
    BY <1>1 DEF Begins
  <2> QED
    BY <2>1 DEF Begins
<1> HIDE DEF data
<1>6. c \in Calls
  BY <1>1, <1>3 DEF Calls
<1>7. c.op = op /\ c.left = data /\ c.data = data /\ ~c.failed
  OBVIOUS
<1>8. \A i \in DOMAIN data : data[i].by = g
  BY <1>2 DEF data
<1> HIDE DEF c
<1> QED
  BY <1>4, <1>5, <1>6, <1>7, <1>8

LEMMA Retried ==
  ASSUME Whilst, NEW g \in Goroutines, Retries(g)
  PROVE  /\ pc[g] = "idle" /\ done' = done
         /\ \E c \in Calls : /\ call' = [call EXCEPT ![g] = c]
                             /\ c.op = call[g].op /\ c.left = c.data /\ c.data = call[g].data /\ ~c.failed
<1> DEFINE c == [call[g] EXCEPT !.failed = FALSE]
<1>1. call \in [Goroutines -> Calls] /\ call[g] \in Calls
  BY DEF Whilst, Written, Types
<1>2. call' = [call EXCEPT ![g] = c] /\ pc[g] = "idle" /\ done' = done /\ call[g].failed
  BY <1>1 DEF Retries
<1>3. c \in Calls /\ c.op = call[g].op /\ c.left = call[g].left /\ c.data = call[g].data /\ ~c.failed
  BY <1>1 DEF Calls
<1>4. call[g].left = call[g].data
  BY <1>2 DEF Whilst, Written, CallsAgree, Agrees
<1> QED
  BY <1>2, <1>3, <1>4

\* How a call ends.
LEMMA CallOver ==
  ASSUME Whilst, NEW g \in Goroutines
  PROVE  /\ Fails(g) => /\ done' = done
                        /\ \E c \in Calls : Moves(g, "idle", c) /\ Agrees(g, "idle", c)
         /\ Returns(g) => /\ done' \subseteq done \cup ToSet(call[g].data)
                          /\ \E c \in Calls : Moves(g, "idle", c) /\ Agrees(g, "idle", c)
<1>1. call \in [Goroutines -> Calls] /\ call[g] \in Calls
  BY DEF Whilst, Written, Types
<1>2. Agrees(g, pc[g], call[g])
  BY DEF Whilst, Written, CallsAgree
<1> DEFINE none == [NoCall EXCEPT !.last = call[g].last]
           again == [call[g] EXCEPT !.left = call[g].data, !.failed = TRUE]
<1>3. none \in Calls /\ Agrees(g, "idle", none)
  <2>1. << >> \in Seq(Items) /\ call[g].last \in Nat
    BY <1>1 DEF Calls
  <2>2. NoCall \in Calls /\ NoCall.op = "none" /\ NoCall.data = << >> /\ NoCall.left = << >>
    BY <2>1 DEF NoCall, Calls, Ops
  <2>3. none \in Calls /\ none.op = NoCall.op /\ none.data = NoCall.data /\ none.left = NoCall.left
    BY <2>1, <2>2 DEF Calls
  <2> HIDE DEF none
  <2> QED
    BY <2>2, <2>3 DEF Agrees
<1>4. again \in Calls /\ Agrees(g, "idle", again)
  <2>1. again \in Calls /\ again.op = call[g].op /\ again.data = call[g].data /\ again.left = call[g].data
    BY <1>1 DEF Calls
  <2> HIDE DEF again
  <2> QED
    BY <1>2, <2>1 DEF Agrees
<1>5. ASSUME Fails(g)
      PROVE  done' = done /\ \E c \in Calls : Moves(g, "idle", c) /\ Agrees(g, "idle", c)
  <2>1. Moves(g, "idle", none) \/ Moves(g, "idle", again)
    BY <1>5 DEF Fails, Goes, Moves
  <2>2. done' = done
    BY <1>5 DEF Fails
  <2> QED
    BY <1>3, <1>4, <2>1, <2>2
<1>6. ASSUME Returns(g)
      PROVE  /\ done' \subseteq done \cup ToSet(call[g].data)
             /\ \E c \in Calls : Moves(g, "idle", c) /\ Agrees(g, "idle", c)
  <2>1. Moves(g, "idle", none)
    BY <1>6 DEF Returns, Goes, Moves
  <2>2. done' \subseteq done \cup ToSet(call[g].data)
    BY <1>6 DEF Returns
  <2> QED
    BY <1>3, <2>1, <2>2
<1> QED
  BY <1>5, <1>6

-----------------------------------------------------------------------------
\* Steps that write nothing, though one may try on a connection that is closed.

Unwritten ==
  /\ UNCHANGED <<kind, side, wire, failures, writer>> /\ nonces' \in [Ends -> Seq(Nat)]
  /\ gone' \in [Ends -> BOOLEAN]
  /\ \A e \in Ends : /\ gone[e] => gone'[e]
                     /\ gone[e] \/ nonces'[e] = nonces[e]

MovesTo(g, at, c) ==
  /\ pc'[g] = at /\ call'[g] = c
  /\ \A h \in Goroutines \ {g} : pc'[h] = pc[h] /\ call'[h] = call[h]

LEMMA UnwrittenStep ==
  ASSUME Whilst, failures = 0, Unwritten, NEW g \in Goroutines, NEW at \in Steps, NEW c \in Calls,
         Moves(g, at, c), Agrees(g, at, c),
         at = "idle" \/ c.left = c.data \/ (pc[g] # "idle" /\ c = call[g]),
         done' = done \/ (done' \subseteq done \cup ToSet(call[g].data) /\ call[g].data = << >>)
  PROVE  Written' /\ failures' = 0 /\ MovesTo(g, at, c)
<1>1. PICK old : old = call[g]
  OBVIOUS
<1>2. \A e \in Ends : \A d : OnWire(e, d) => OnWire(e, d)'
  BY WireQuiet DEF Unwritten, wireVars
<1>3. UNCHANGED <<kind, side>>
  BY DEF Unwritten
<1>4. EndOf(g)' = EndOf(g) /\ EndOf(g) \in Ends
  BY <1>3 DEF EndOf, Ends, Whilst, Written, Types
<1>5. at # "idle" => \A i \in DOMAIN c.data :
           \/ \E j \in DOMAIN c.left : c.left[j] = c.data[i]
           \/ OnWire(EndOf(g), c.data[i])'
  <2>1. CASE c.left = c.data
    BY <2>1
  <2>2. CASE pc[g] # "idle" /\ c = call[g]
    <3>1. \A i \in DOMAIN c.data : \/ \E j \in DOMAIN c.left : c.left[j] = c.data[i]
                                   \/ OnWire(EndOf(g), c.data[i])
      BY <2>2 DEF Whilst, Written, LeftOrWritten
    <3> QED
      BY <1>2, <1>4, <3>1
  <2> QED
    BY <2>1, <2>2
<1>6. \/ done' = done
      \/ /\ done' \subseteq done \cup ToSet(old.data)
         /\ \A i \in DOMAIN old.data : OnWire(EndOf(g), old.data[i])'
  BY <1>1
<1>7. /\ pc' \in [Goroutines -> Steps] /\ call' \in [Goroutines -> Calls]
      /\ CallsAgree' /\ LeftOrWritten' /\ Kept' /\ MovesTo(g, at, c)
  BY <1>1, <1>2, <1>3, <1>5, <1>6, Moved DEF MovesTo
<1>8. OneWriter'
  BY OneWriterQuiet DEF Unwritten, wireVars, Whilst, Written
<1>9. Types'
  BY <1>7 DEF Types, Whilst, Written, Unwritten, wireVars
<1> QED
  BY <1>7, <1>8, <1>9 DEF Written, Unwritten, wireVars

\* A goroutine goes on with its call.
LEMMA UnwrittenGoes ==
  ASSUME Whilst, failures = 0, Unwritten, NEW g \in Goroutines, NEW at \in Steps, pc[g] # "idle",
         Goes(g, at), UNCHANGED <<call, calls, done>>, Agrees(g, at, call[g])
  PROVE  Written' /\ failures' = 0 /\ MovesTo(g, at, call[g])
<1>1. call \in [Goroutines -> Calls]
  BY DEF Whilst, Written, Types
<1>2. PICK c \in Calls : c = call[g]
  BY <1>1
<1>3. Moves(g, at, c)
  BY <1>1, <1>2 DEF Moves, Goes
<1> QED
  BY <1>2, <1>3, UnwrittenStep

\* A call ends, and had nothing to write if it returns.
LEMMA UnwrittenOver ==
  ASSUME Whilst, failures = 0, Unwritten, NEW g \in Goroutines,
         Fails(g) \/ (Returns(g) /\ call[g].op \in {"read", "recv", "closeWrite"})
  PROVE  /\ Written' /\ failures' = 0 /\ pc'[g] = "idle"
         /\ \A h \in Goroutines \ {g} : pc'[h] = pc[h] /\ call'[h] = call[h]
<1>1. call[g].op \in {"read", "recv", "closeWrite"} => call[g].data = << >>
  BY DEF Whilst, Written, CallsAgree, Agrees
<1>2. \E c \in Calls : Moves(g, "idle", c) /\ Agrees(g, "idle", c)
  BY CallOver
<1>3. PICK c \in Calls : Moves(g, "idle", c) /\ Agrees(g, "idle", c)
  BY <1>2
<1>4. done' = done \/ (done' \subseteq done \cup ToSet(call[g].data) /\ call[g].data = << >>)
  BY <1>1, CallOver
<1>5. "idle" \in Steps
  BY DEF Steps
<1> QED
  BY <1>3, <1>4, <1>5, UnwrittenStep DEF MovesTo

\* Nobody's call.
LEMMA UnwrittenElse ==
  ASSUME Whilst, failures = 0, Unwritten, UNCHANGED callVars
  PROVE  Written' /\ failures' = 0
<1>1. \A e \in Ends : \A d : OnWire(e, d) => OnWire(e, d)'
  BY WireQuiet DEF Unwritten, wireVars
<1>2. UNCHANGED <<pc, call, done, kind, side>> /\ side \in Ends
  BY DEF Unwritten, callVars, Whilst, Written, Types
<1>3. \A h : EndOf(h)' = EndOf(h) /\ EndOf(h) \in Ends
  BY <1>2 DEF EndOf, Ends
<1>4. CallsAgree'
  BY <1>2 DEF Whilst, Written, CallsAgree, Agrees
<1>5. LeftOrWritten'
  <2>1. LeftOrWritten
    BY DEF Whilst, Written
  <2> QED
    BY <1>1, <1>2, <1>3, <2>1 DEF LeftOrWritten
<1>6. Kept'
  <2>1. \A d \in done : OnWire(EndOf(d.by), d)
    BY DEF Whilst, Written, Kept
  <2> QED
    BY <1>1, <1>2, <1>3, <2>1 DEF Kept
<1>7. OneWriter'
  BY OneWriterQuiet DEF Unwritten, wireVars, Whilst, Written
<1>8. Types'
  BY <1>2 DEF Types, Whilst, Written, Unwritten, wireVars
<1> QED
  BY <1>4, <1>5, <1>6, <1>7, <1>8 DEF Written, Unwritten, wireVars

\* One goroutine moves; nobody who needs access or the writer loses it.
LEMMA HoldersMoved ==
  ASSUME Types, Holders, NEW g \in Goroutines, NEW at, NEW c, MovesTo(g, at, c), UNCHANGED <<kind, side, accept>>,
         HoldsAt(g, at, c.op)',
         \A h \in Goroutines \ {g} : access = h => access' = h,
         \A e \in Ends : writer[e] # 0 => writer'[e] # 0,
         kind = "packets" \/ access = g \/ writer' = writer,
         accept \in {"request", "reply"} => writer'["server"] = writer["server"]
  PROVE  Holders'
<1>1. \A h : EndOf(h)' = EndOf(h) /\ EndOf(h) \in Ends
  BY DEF EndOf, Ends, Types
<1>2. ASSUME NEW h \in Goroutines PROVE HoldsAt(h, pc[h], call[h].op)'
  <2>1. CASE h = g
    BY <2>1 DEF MovesTo, HoldsAt
  <2>2. CASE h # g
    <3>1. HoldsAt(h, pc[h], call[h].op) /\ pc'[h] = pc[h] /\ call'[h] = call[h]
      BY <2>2 DEF Holders, MovesTo
    <3>2. writer["client"] # 0 => writer'["client"] # 0
      BY DEF Ends
    <3> QED
      BY <1>1, <2>2, <3>1, <3>2 DEF HoldsAt
  <2> QED
    BY <2>1, <2>2
<1>3. accept' \in {"request", "reply"} => kind' = "packets" /\ writer'["server"] = 0
  BY DEF Holders
<1> QED
  BY <1>2, <1>3 DEF Holders

LEMMA StreamBegins ==
  ASSUME Whilst, failures = 0, NEW g \in Goroutines, StreamBegin(g)
  PROVE  failures' = 0 /\ Whilst'
<1>1. PICK at \in Steps : at \in {"lock", "check"} /\ Goes(g, at)
  BY DEF Steps, StreamBegin
<1>2. kind = "stream" /\ g \in Callers /\ Unwritten /\ UNCHANGED <<access, accept>>
  BY DEF StreamBegin, InStream, Unwritten, wireVars, lockVars, Whilst, Written, Types
<1>3. PICK op \in {"write", "vector"} :
        \/ \E n \in IF op = "write" THEN 1 .. 2 ELSE {2} : Begins(g, op, n)
        \/ call[g].op = op /\ Retries(g)
  BY DEF StreamBegin
<1> DEFINE Done == /\ pc[g] = "idle" /\ done' = done
                   /\ \E c \in Calls : /\ call' = [call EXCEPT ![g] = c] /\ c.op = op /\ c.left = c.data
                                       /\ c.op = "vector" => c.data # << >>
                                       /\ \A i \in DOMAIN c.data : c.data[i].by = g
<1>4. Done
  <2>1. ASSUME NEW n \in IF op = "write" THEN 1 .. 2 ELSE {2}, Begins(g, op, n) PROVE Done
    <3>1. op \in Ops /\ n \in Nat /\ n # 0
      BY DEF Ops
    <3>2. pc[g] = "idle" /\ done' = done
      BY <2>1, <3>1, Begun
    <3>3. PICK c \in Calls : /\ call' = [call EXCEPT ![g] = c] /\ c.op = op /\ c.left = c.data
                             /\ c.data # << >>
                             /\ \A i \in DOMAIN c.data : c.data[i].by = g
      BY <2>1, <3>1, Begun
    <3> QED
      BY <3>2, <3>3
  <2>2. ASSUME call[g].op = op, Retries(g) PROVE Done
    <3>1. /\ call[g].op = "vector" => call[g].data # << >>
          /\ \A i \in DOMAIN call[g].data : call[g].data[i].by = g
      BY DEF Whilst, Written, CallsAgree, Agrees
    <3> QED
      BY <2>2, <3>1, Retried
  <2> QED
    BY <1>3, <2>1, <2>2
<1>5. PICK c \in Calls : /\ call' = [call EXCEPT ![g] = c] /\ c.op = op /\ c.left = c.data
                         /\ c.op = "vector" => c.data # << >>
                         /\ \A i \in DOMAIN c.data : c.data[i].by = g
  BY <1>4
<1>6. Agrees(g, at, c)
  BY <1>1, <1>2, <1>5 DEF Agrees
<1>7. Moves(g, at, c)
  BY <1>1, <1>5 DEF Goes, Moves
<1>8. Written' /\ failures' = 0 /\ MovesTo(g, at, c)
  BY <1>1, <1>2, <1>4, <1>5, <1>6, <1>7, UnwrittenStep
<1>9. Holders'
  <2>1. HoldsAt(g, at, c.op)'
    BY <1>1, <1>2, PlainAssumption DEF HoldsAt
  <2> QED
    BY <1>2, <1>8, <2>1, HoldersMoved DEF Whilst, Written, Unwritten
<1> QED
  BY <1>8, <1>9 DEF Whilst

LEMMA Checks ==
  ASSUME Whilst, failures = 0, NEW g \in Goroutines, Check(g) \/ Lock(g)
  PROVE  failures' = 0 /\ Whilst'
<1>1. /\ kind = "stream" /\ g \in Callers /\ Unwritten /\ accept' = accept
      /\ UNCHANGED <<call, calls, done>> /\ pc[g] \in {"check", "lock"}
  BY DEF Check, Lock, InStream, Unwritten, wireVars, lockVars, Whilst, Written, Types
<1>2. PICK at \in Steps :
        /\ Goes(g, at) /\ at \in {"lock", "first", "put"}
        /\ at = "put" => writer[side] # 0
        /\ IF at = "first" THEN writer[side] = 0 /\ access = "free" /\ access' = g ELSE access' = access
  <2>1. CASE Check(g)
    BY <2>1 DEF Check, lockVars, Steps
  <2>2. CASE Lock(g)
    BY <2>2 DEF Lock, Steps
  <2> QED
    BY <2>1, <2>2
<1>3. Agrees(g, at, call[g])
  BY <1>1, <1>2 DEF Whilst, Written, CallsAgree, Agrees
<1>4. Written' /\ failures' = 0 /\ MovesTo(g, at, call[g])
  BY <1>1, <1>2, <1>3, UnwrittenGoes
<1>5. Holders'
  <2>1. EndOf(g)' = side /\ writer' = writer /\ side' = side /\ kind' = kind
    BY <1>1, PlainAssumption DEF EndOf, Unwritten
  <2>2. HoldsAt(g, at, call[g].op)'
    BY <1>1, <1>2, <2>1, PlainAssumption DEF HoldsAt
  <2>3. \A h \in Goroutines \ {g} : access = h => access' = h
    BY <1>2, PlainAssumption DEF Goroutines
  <2> QED
    BY <1>1, <1>4, <2>1, <2>2, <2>3, HoldersMoved DEF Whilst, Written
<1> QED
  BY <1>4, <1>5 DEF Whilst

LEMMA ClosesWrite ==
  ASSUME Whilst, failures = 0, NEW g \in Goroutines, CloseWrite(g)
  PROVE  failures' = 0 /\ Whilst'
<1>1. /\ kind = "stream" /\ g \in Callers /\ Unwritten /\ accept' = accept
      /\ access = "free" /\ access' = g /\ Begins(g, "closeWrite", 0)
  BY DEF CloseWrite, InStream, Unwritten, wireVars, Whilst, Written, Types
<1>2. PICK at \in Steps : /\ Goes(g, at) /\ at \in {"close", "first", "zero"}
                          /\ at = "first" => writer[side] = 0
                          /\ at = "zero" => writer[side] # 0
  BY DEF CloseWrite, Steps
<1>3. "closeWrite" \in Ops
  BY DEF Ops
<1>4. pc[g] = "idle" /\ done' = done
  BY <1>1, <1>3, Begun
<1>5. PICK c \in Calls : /\ call' = [call EXCEPT ![g] = c] /\ c.op = "closeWrite" /\ c.left = c.data
                         /\ c.data = << >>
  BY <1>1, <1>3, Begun
<1>6. Agrees(g, at, c) /\ Moves(g, at, c)
  BY <1>2, <1>5 DEF Agrees, Goes, Moves
<1>7. Written' /\ failures' = 0 /\ MovesTo(g, at, c)
  BY <1>1, <1>4, <1>5, <1>6, UnwrittenStep
<1>8. Holders'
  <2>1. EndOf(g)' = side /\ writer' = writer /\ side' = side /\ kind' = kind
    BY <1>1, PlainAssumption DEF EndOf, Unwritten
  <2>2. HoldsAt(g, at, c.op)'
    BY <1>1, <1>2, <2>1, PlainAssumption DEF HoldsAt
  <2>3. \A h \in Goroutines \ {g} : access = h => access' = h
    BY <1>1, PlainAssumption DEF Goroutines
  <2> QED
    BY <1>1, <1>7, <2>1, <2>2, <2>3, HoldersMoved DEF Whilst, Written
<1> QED
  BY <1>7, <1>8 DEF Whilst

LEMMA Closes ==
  ASSUME Whilst, failures = 0, NEW g \in Goroutines, Close(g) \/ ClosePackets(g)
  PROVE  failures' = 0 /\ Whilst'
<1>1. Unwritten /\ UNCHANGED <<pc, accept, access>> /\ Begins(g, "close", 0)
  BY DEF Close, ClosePackets, InStream, Unwritten, wireVars, Whilst, Written, Types, lockVars
<1>2. "close" \in Ops /\ "idle" \in Steps
  BY DEF Ops, Steps
<1>3. pc[g] = "idle" /\ done' = done
  BY <1>1, <1>2, Begun
<1>4. PICK c \in Calls : /\ call' = [call EXCEPT ![g] = c] /\ c.op = "close" /\ c.left = c.data
                         /\ c.data = << >>
  BY <1>1, <1>2, Begun
<1>5. Agrees(g, "idle", c) /\ Moves(g, "idle", c)
  BY <1>1, <1>3, <1>4 DEF Agrees, Moves, Whilst, Written, Types
<1>6. Written' /\ failures' = 0 /\ MovesTo(g, "idle", c)
  BY <1>1, <1>2, <1>3, <1>4, <1>5, UnwrittenStep
<1>7. Holders'
  <2>1. HoldsAt(g, "idle", c.op)'
    BY DEF HoldsAt
  <2> QED
    BY <1>1, <1>6, <2>1, HoldersMoved DEF Whilst, Written, Unwritten
<1> QED
  BY <1>6, <1>7 DEF Whilst

LEMMA JustGoes ==
  ASSUME Whilst, failures = 0, Unwritten, UNCHANGED <<access, accept>>, NEW g \in Goroutines,
         NEW at \in Steps, pc[g] # "idle", Goes(g, at), UNCHANGED <<call, calls, done>>,
         Agrees(g, at, call[g]), HoldsAt(g, at, call[g].op)
  PROVE  failures' = 0 /\ Whilst'
<1>1. PICK c : c = call[g]
  OBVIOUS
<1>2. Written' /\ failures' = 0 /\ MovesTo(g, at, c)
  BY <1>1, UnwrittenGoes
<1>3. HoldsAt(g, at, c.op)'
  BY <1>1 DEF HoldsAt, Unwritten, EndOf
<1>4. Holders'
  BY <1>2, <1>3, HoldersMoved DEF Whilst, Written, Unwritten
<1> QED
  BY <1>2, <1>4 DEF Whilst

LEMMA JustOver ==
  ASSUME Whilst, failures = 0, Unwritten, UNCHANGED accept, NEW g \in Goroutines,
         access' = access \/ access = g,
         Fails(g) \/ (Returns(g) /\ call[g].op \in {"read", "recv", "closeWrite"})
  PROVE  failures' = 0 /\ Whilst'
<1>1. /\ Written' /\ failures' = 0 /\ pc'[g] = "idle"
      /\ \A h \in Goroutines \ {g} : pc'[h] = pc[h] /\ call'[h] = call[h]
  BY UnwrittenOver
<1>2. PICK c : c = call'[g]
  OBVIOUS
<1>3. MovesTo(g, "idle", c)
  BY <1>1, <1>2 DEF MovesTo
<1>4. HoldsAt(g, "idle", c.op)'
  BY DEF HoldsAt
<1>5. Holders'
  BY <1>3, <1>4, HoldersMoved DEF Whilst, Written, Unwritten
<1> QED
  BY <1>1, <1>5 DEF Whilst

LEMMA JustBegins ==
  ASSUME Whilst, failures = 0, Unwritten, UNCHANGED <<access, accept>>, NEW g \in Goroutines,
         NEW at \in Steps, NEW op \in {"read", "recv", "send", "batch"}, Goes(g, at),
         \/ Begins(g, op, IF op \in {"read", "recv"} THEN 0 ELSE IF op = "send" THEN 1 ELSE 2)
         \/ Retries(g) /\ call[g].op = op,
         at = "next" => op \in {"read", "recv"},
         kind = "stream" => op = "read",
         at \notin {"check", "lock", "first", "zero", "close", "put", "idle"},
         g \in HandlerCallers => kind = "packets" /\ accept = "up",
         kind = "packets" /\ g \in Callers /\ at \in {"reply", "await"} => op = "recv"
  PROVE  failures' = 0 /\ Whilst'
<1> DEFINE Done == /\ pc[g] = "idle" /\ done' = done
                   /\ \E c \in Calls : /\ call' = [call EXCEPT ![g] = c] /\ c.op = op /\ c.left = c.data
                                       /\ op \in {"read", "recv"} => c.data = << >>
                                       /\ \A i \in DOMAIN c.data : c.data[i].by = g
<1>1. Done
  <2>1. ASSUME NEW n \in Nat, n = (IF op \in {"read", "recv"} THEN 0 ELSE IF op = "send" THEN 1 ELSE 2),
               Begins(g, op, n)
        PROVE  Done
    <3>1. op \in Ops /\ (op \in {"read", "recv"} => n = 0)
      BY <2>1 DEF Ops
    <3>2. pc[g] = "idle" /\ done' = done
      BY <2>1, <3>1, Begun
    <3>3. PICK c \in Calls : /\ call' = [call EXCEPT ![g] = c] /\ c.op = op /\ c.left = c.data
                             /\ n = 0 => c.data = << >>
                             /\ \A i \in DOMAIN c.data : c.data[i].by = g
      BY <2>1, <3>1, Begun, SMTT(30)
    <3> QED
      BY <3>1, <3>2, <3>3
  <2>2. ASSUME call[g].op = op, Retries(g) PROVE Done
    <3>1. /\ call[g].op \in {"read", "recv"} => call[g].data = << >>
          /\ \A i \in DOMAIN call[g].data : call[g].data[i].by = g
      BY DEF Whilst, Written, CallsAgree, Agrees
    <3> QED
      BY <2>2, <3>1, Retried
  <2> QED
    BY <2>1, <2>2
<1>2. PICK c \in Calls : /\ call' = [call EXCEPT ![g] = c] /\ c.op = op /\ c.left = c.data
                         /\ op \in {"read", "recv"} => c.data = << >>
                         /\ \A i \in DOMAIN c.data : c.data[i].by = g
  BY <1>1
<1>3. Agrees(g, at, c) /\ Moves(g, at, c)
  BY <1>2 DEF Agrees, Goes, Moves
<1>4. Written' /\ failures' = 0 /\ MovesTo(g, at, c)
  BY <1>1, <1>2, <1>3, UnwrittenStep
<1>5. HoldsAt(g, at, c.op)'
  BY <1>2 DEF HoldsAt, Unwritten
<1>6. Holders'
  BY <1>4, <1>5, HoldersMoved DEF Whilst, Written, Unwritten
<1> QED
  BY <1>4, <1>6 DEF Whilst

LEMMA StreamReads ==
  ASSUME Whilst, failures = 0, NEW g \in Goroutines, ReadBegin(g) \/ ReadResponse(g) \/ ReadNext(g)
  PROVE  failures' = 0 /\ Whilst'
<1>1. kind = "stream" /\ g \in Callers /\ g \notin HandlerCallers /\ Unwritten /\ UNCHANGED <<access, accept>>
  BY PlainAssumption DEF ReadBegin, ReadResponse, ReadNext, InStream, Unwritten, wireVars, lockVars, Whilst, Written, Types
<1>2. CASE ReadBegin(g)
  <2>1. PICK at \in {"reply", "next"} : Goes(g, at)
    BY <1>2 DEF ReadBegin
  <2>2. at \in Steps /\ Begins(g, "read", 0)
    BY <1>2 DEF ReadBegin, Steps
  <2> QED
    BY <1>1, <2>1, <2>2, JustBegins
<1>3. CASE ReadResponse(g)
  <2>1. pc[g] = "reply" /\ (Fails(g) \/ (Goes(g, "next") /\ UNCHANGED <<call, calls, done>>))
    BY <1>3 DEF ReadResponse
  <2>2. Agrees(g, "next", call[g]) /\ HoldsAt(g, "next", call[g].op) /\ "next" \in Steps
    BY <1>1, <2>1 DEF Whilst, Written, CallsAgree, Agrees, HoldsAt, Steps
  <2> QED
    BY <1>1, <2>1, <2>2, JustGoes, JustOver
<1>4. CASE ReadNext(g)
  <2>1. pc[g] = "next" /\ (Fails(g) \/ Returns(g))
    BY <1>4 DEF ReadNext
  <2>2. call[g].op \in {"read", "recv"}
    BY <2>1 DEF Whilst, Written, CallsAgree, Agrees
  <2> QED
    BY <1>1, <2>1, <2>2, JustOver
<1> QED
  BY <1>2, <1>3, <1>4

LEMMA PacketBegins ==
  ASSUME Whilst, failures = 0, NEW g \in Goroutines, PacketBegin(g)
  PROVE  failures' = 0 /\ Whilst'
<1>1. /\ kind = "packets" /\ Unwritten /\ UNCHANGED <<access, accept>>
      /\ g \in HandlerCallers => accept = "up"
  BY DEF PacketBegin, IsPackets, Unwritten, wireVars, lockVars, Whilst, Written, Types
<1>2. CASE /\ Begins(g, "send", 1) \/ (call[g].op = "send" /\ Retries(g))
          /\ Goes(g, IF g \in Callers THEN "request" ELSE "reply")
  <2>1. PICK at \in {"request", "reply"} : Goes(g, at) /\ (g \in Callers => at = "request")
    BY <1>2
  <2>2. at \in Steps
    BY DEF Steps
  <2>3. /\ at # "next" /\ at \notin {"check", "lock", "first", "zero", "close", "put", "idle"}
        /\ ~(kind = "packets" /\ g \in Callers /\ at \in {"reply", "await"})
    BY <2>1
  <2> QED
    BY <1>1, <1>2, <2>1, <2>2, <2>3, JustBegins
<1>3. CASE /\ Begins(g, "batch", 2) \/ (call[g].op = "batch" /\ Retries(g))
          /\ Goes(g, IF g \in Callers THEN "batch" ELSE "reply")
  <2>1. PICK at \in {"batch", "reply"} : Goes(g, at) /\ (g \in Callers => at = "batch")
    BY <1>3
  <2>2. at \in Steps
    BY DEF Steps
  <2>3. /\ at # "next" /\ at \notin {"check", "lock", "first", "zero", "close", "put", "idle"}
        /\ ~(kind = "packets" /\ g \in Callers /\ at \in {"reply", "await"})
    BY <2>1
  <2> QED
    BY <1>1, <1>3, <2>1, <2>2, <2>3, JustBegins
<1>4. CASE Begins(g, "recv", 0) /\ Goes(g, IF g \in Callers THEN "reply" ELSE "next")
  <2>1. PICK at \in {"reply", "next"} : Goes(g, at)
    BY <1>4
  <2>2. at \in Steps
    BY DEF Steps
  <2> QED
    BY <1>1, <1>4, <2>1, <2>2, JustBegins
<1>5. \/ /\ Begins(g, "send", 1) \/ (call[g].op = "send" /\ Retries(g))
         /\ Goes(g, IF g \in Callers THEN "request" ELSE "reply")
      \/ /\ Begins(g, "batch", 2) \/ (call[g].op = "batch" /\ Retries(g))
         /\ Goes(g, IF g \in Callers THEN "batch" ELSE "reply")
      \/ Begins(g, "recv", 0) /\ Goes(g, IF g \in Callers THEN "reply" ELSE "next")
  BY DEF PacketBegin
<1> QED
  BY <1>2, <1>3, <1>4, <1>5

LEMMA PacketWaits ==
  ASSUME Whilst, failures = 0, NEW g \in Goroutines,
         BatchLock(g) \/ ReplyLock(g) \/ ReadReply(g) \/ ReadPacket(g)
  PROVE  failures' = 0 /\ Whilst'
<1>1. kind = "packets" /\ Unwritten /\ UNCHANGED <<access, accept>>
  BY DEF BatchLock, ReplyLock, ReadReply, ReadPacket, ClientDoes, IsPackets, Unwritten, wireVars, lockVars, Whilst,
     Written, Types
<1>2. Agrees(g, pc[g], call[g]) /\ HoldsAt(g, pc[g], call[g].op)
  BY DEF Whilst, Written, CallsAgree, Holders
<1>3. EndOf(g) = "client" \/ g \in HandlerCallers
  BY <1>1 DEF EndOf, Whilst, Written, Types
<1>4. CASE BatchLock(g)
  <2>1. pc[g] = "batch" /\ Goes(g, "request") /\ UNCHANGED <<call, calls, done>> /\ "request" \in Steps
    BY <1>4 DEF BatchLock, ClientDoes, Steps
  <2>2. Agrees(g, "request", call[g]) /\ HoldsAt(g, "request", call[g].op)
    BY <1>1, <1>2, <2>1 DEF Agrees, HoldsAt
  <2> QED
    BY <1>1, <2>1, <2>2, JustGoes
<1>5. ASSUME g \in Callers, pc[g] \in {"reply", "await"}, UNCHANGED <<call, calls, done>>,
             NEW at \in {"await", "next", "put"}, Goes(g, at),
             at = "next" => call[g].op = "recv", at = "put" => call[g].op # "recv"
      PROVE  failures' = 0 /\ Whilst'
  <2>1. g \notin HandlerCallers /\ EndOf(g) = "client" /\ at \in Steps
    BY <1>3, <1>5, PlainAssumption DEF Steps
  <2>2. Agrees(g, at, call[g]) /\ HoldsAt(g, at, call[g].op)
    BY <1>1, <1>2, <1>5, <2>1 DEF Agrees, HoldsAt
  <2> QED
    BY <1>1, <1>5, <2>1, <2>2, JustGoes
<1>6. CASE ReplyLock(g)
  <2>1. g \in Callers /\ pc[g] = "reply" /\ UNCHANGED <<call, calls, done>>
    BY <1>6 DEF ReplyLock, ClientDoes
  <2>2. Goes(g, "await") \/ Goes(g, IF call[g].op = "recv" THEN "next" ELSE "put")
    BY <1>6 DEF ReplyLock
  <2> QED
    BY <1>5, <2>1, <2>2
<1>7. CASE ReadReply(g)
  <2>1. g \in Callers /\ pc[g] = "await"
    BY <1>7 DEF ReadReply, ClientDoes
  <2>2. \/ Goes(g, IF call[g].op = "recv" THEN "next" ELSE "put") /\ UNCHANGED <<call, calls, done>>
        \/ Fails(g)
    BY <1>7 DEF ReadReply
  <2> QED
    BY <1>1, <1>5, <2>1, <2>2, JustOver
<1>8. CASE ReadPacket(g)
  <2>1. pc[g] = "next" /\ (Fails(g) \/ Returns(g))
    BY <1>8 DEF ReadPacket
  <2>2. call[g].op \in {"read", "recv"}
    BY <1>2, <2>1 DEF Agrees
  <2> QED
    BY <1>1, <2>1, <2>2, JustOver
<1> QED
  BY <1>4, <1>6, <1>7, <1>8

\* The service, but for its reply.
LEMMA Accepts ==
  ASSUME Whilst, failures = 0,
         (\E at \in {"request", "first"} : AcceptFails(at)) \/ AcceptRequest \/ AcceptFirst
  PROVE  failures' = 0 /\ Whilst'
<1>1. /\ Unwritten /\ UNCHANGED <<callVars, access>> /\ accept \in {"request", "first"}
      /\ accept' = "reply" => accept = "request"
      /\ accept' \in {"failed", "reply", "up"}
  BY DEF AcceptFails, AcceptRequest, AcceptFirst, Rejects, Unwritten, wireVars, lockVars, Whilst, Written, Types
<1>2. Written' /\ failures' = 0
  BY <1>1, UnwrittenElse
<1>3. accept' \in {"request", "reply"} => kind' = "packets" /\ writer'["server"] = 0
  BY <1>1 DEF Whilst, Holders, Unwritten
<1>4. ASSUME NEW h \in Goroutines PROVE HoldsAt(h, pc[h], call[h].op)'
  <2>1. HoldsAt(h, pc[h], call[h].op)
    BY DEF Whilst, Holders
  <2>2. UNCHANGED <<pc, call, kind, side, writer, access>> /\ EndOf(h)' = EndOf(h)
    BY <1>1 DEF callVars, Unwritten, EndOf
  <2>3. accept # "up"
    BY <1>1
  <2> QED
    BY <2>1, <2>2, <2>3 DEF HoldsAt
<1>5. Holders'
  BY <1>3, <1>4 DEF Holders
<1> QED
  BY <1>2, <1>5 DEF Whilst

-----------------------------------------------------------------------------
\* Steps that write.

LEMMA GroupsHold ==
  ASSUME NEW data \in Seq(Items)
  PROVE  /\ Groups(data) \in Seq(Seq(Items))
         /\ \A i \in DOMAIN data : i \in DOMAIN Groups(data) /\ Groups(data)[i] = << data[i] >>
<1>1. data \in [1 .. Len(data) -> Items] /\ Len(data) \in Nat
  BY LenProperties
<1>2. \A i \in 1 .. Len(data) : << data[i] >> \in Seq(Items)
  BY <1>1
<1>3. Groups(data) = [i \in 1 .. Len(data) |-> << data[i] >>]
  BY <1>1 DEF Groups
<1>4. Groups(data) \in [1 .. Len(data) -> Seq(Items)]
  BY <1>2, <1>3
<1>5. Seq(Seq(Items)) = UNION {[1 .. m -> Seq(Items)] : m \in Nat}
  BY SeqDef
<1> QED
  BY <1>1, <1>3, <1>4, <1>5

LEMMA FirstGroupsHold ==
  ASSUME NEW head \in {"request", "reply", "error"}, NEW data \in Seq(Items)
  PROVE  /\ FirstGroups(head, data) \in Seq(Seq(Items))
         /\ \A i \in DOMAIN data : \E m \in DOMAIN FirstGroups(head, data) :
               \E n \in DOMAIN FirstGroups(head, data)[m] : FirstGroups(head, data)[m][n] = data[i]
<1>1. Item(head) \in Items
  BY DEF Item, Items
<1>2. CASE data = << >>
  <2>1. FirstGroups(head, data) = << << Item(head) >> >>
    BY <1>2 DEF FirstGroups
  <2>2. << Item(head) >> \in Seq(Items)
    BY <1>1
  <2>3. << << Item(head) >> >> \in Seq(Seq(Items))
    BY <2>2
  <2>4. DOMAIN data = {}
    BY <1>2
  <2> QED
    BY <2>1, <2>3, <2>4
<1>3. CASE data # << >>
  <2> DEFINE first == << Item(head), Head(data) >>
             rest == Groups(Tail(data))
  <2>1. /\ Head(data) \in Items /\ Tail(data) \in Seq(Items) /\ Len(Tail(data)) = Len(data) - 1
        /\ \A i \in 1 .. Len(Tail(data)) : Tail(data)[i] = data[i + 1]
        /\ Head(data) = data[1] /\ Len(data) \in Nat \ {0} /\ DOMAIN data = 1 .. Len(data)
    BY <1>3, HeadTailProperties, EmptySeq, LenProperties
  <2>2. first \in Seq(Items) /\ DOMAIN first = {1, 2} /\ first[2] = data[1]
    BY <1>1, <2>1
  <2>3. /\ rest \in Seq(Seq(Items))
        /\ \A i \in DOMAIN Tail(data) : i \in DOMAIN rest /\ rest[i] = << Tail(data)[i] >>
    BY <2>1, GroupsHold
  <2>4. DOMAIN Tail(data) = 1 .. Len(data) - 1 /\ DOMAIN rest = 1 .. Len(rest) /\ Len(rest) \in Nat
    BY <2>1, <2>3, LenProperties
  <2>5. FirstGroups(head, data) = << first >> \o rest
    BY <1>3 DEF FirstGroups
  <2> HIDE DEF first, rest
  <2>6. << first >> \in Seq(Seq(Items)) /\ Len(<< first >>) = 1 /\ << first >>[1] = first
    BY <2>2
  <2>7. PICK fg : fg = FirstGroups(head, data)
    OBVIOUS
  <2>8. /\ fg \in Seq(Seq(Items)) /\ Len(fg) = 1 + Len(rest)
        /\ \A i \in 1 .. 1 + Len(rest) : fg[i] = IF i <= 1 THEN << first >>[i] ELSE rest[i - 1]
    BY <2>3, <2>5, <2>6, <2>7, ConcatProperties
  <2>9. DOMAIN fg = 1 .. 1 + Len(rest)
    BY <2>8, LenProperties
  <2>10. ASSUME NEW i \in DOMAIN data PROVE \E m \in DOMAIN fg : \E n \in DOMAIN fg[m] : fg[m][n] = data[i]
    <3>1. CASE i = 1
      <4>1. 1 \in DOMAIN fg /\ fg[1] = first
        BY <2>4, <2>6, <2>8, <2>9
      <4> QED
        BY <2>2, <3>1, <4>1
    <3>2. CASE i # 1
      <4>1. i - 1 \in 1 .. Len(data) - 1 /\ i \in Nat
        BY <2>1, <3>2
      <4>2. i - 1 \in DOMAIN rest /\ rest[i - 1] = << Tail(data)[i - 1] >> /\ Tail(data)[i - 1] = data[i]
        <5>1. Tail(data)[i - 1] = data[(i - 1) + 1]
          BY <2>1, <4>1
        <5> QED
          BY <2>3, <2>4, <4>1, <5>1
      <4>3. i \in DOMAIN fg /\ fg[i] = rest[i - 1]
        BY <2>4, <2>8, <2>9, <3>2, <4>1, <4>2
      <4>4. 1 \in DOMAIN fg[i] /\ fg[i][1] = data[i]
        BY <4>2, <4>3
      <4> QED
        BY <4>3, <4>4
    <3> QED
      BY <3>1, <3>2
  <2> QED
    BY <2>7, <2>8, <2>10
<1> QED
  BY <1>2, <1>3

LEMMA Pieces ==
  ASSUME NEW data \in Seq(Items), NEW k \in 0 .. Len(data)
  PROVE  /\ SubSeq(data, 1, k) \in Seq(Items) /\ SubSeq(data, k + 1, Len(data)) \in Seq(Items)
         /\ \A i \in DOMAIN data :
              \/ \E j \in DOMAIN SubSeq(data, 1, k) : SubSeq(data, 1, k)[j] = data[i]
              \/ \E j \in DOMAIN SubSeq(data, k + 1, Len(data)) : SubSeq(data, k + 1, Len(data))[j] = data[i]
<1>1. Len(data) \in Nat /\ DOMAIN data = 1 .. Len(data) /\ k \in Nat /\ k <= Len(data)
      /\ \A i \in 1 .. Len(data) : data[i] \in Items
  BY LenProperties, SMTT(30)
<1>2. PICK n \in Nat : n = Len(data)
  BY <1>1
<1>3. PICK a, b : a = SubSeq(data, 1, k) /\ b = SubSeq(data, k + 1, n)
  OBVIOUS
<1>4. /\ a \in Seq(Items) /\ Len(a) = (IF 1 <= k THEN k - 1 + 1 ELSE 0)
      /\ \A i \in 1 .. k - 1 + 1 : a[i] = data[1 + i - 1]
  <2>1. \A i \in 1 .. k : data[i] \in Items
    BY <1>1
  <2> QED
    BY <1>1, <1>3, <2>1, SubSeqProperties
<1>5. /\ b \in Seq(Items) /\ Len(b) = (IF k + 1 <= n THEN n - (k + 1) + 1 ELSE 0)
      /\ \A i \in 1 .. n - (k + 1) + 1 : b[i] = data[(k + 1) + i - 1]
  <2>1. \A i \in k + 1 .. n : data[i] \in Items
    BY <1>1, <1>2
  <2> QED
    BY <1>1, <1>2, <1>3, <2>1, SubSeqProperties
<1>6. DOMAIN a = 1 .. Len(a) /\ DOMAIN b = 1 .. Len(b)
  BY <1>4, <1>5, LenProperties
<1>7. ASSUME NEW i \in 1 .. n
      PROVE  (\E j \in DOMAIN a : a[j] = data[i]) \/ (\E j \in DOMAIN b : b[j] = data[i])
  <2>1. CASE i <= k
    <3>1. i \in 1 .. k - 1 + 1 /\ 1 + i - 1 = i /\ i \in DOMAIN a
      BY <1>1, <1>4, <1>6, <2>1
    <3> QED
      BY <1>4, <3>1
  <2>2. CASE ~(i <= k)
    <3>1. i - k \in 1 .. n - (k + 1) + 1 /\ (k + 1) + (i - k) - 1 = i /\ i - k \in DOMAIN b
      <4>1. k + 1 <= n /\ i - k \in 1 .. n - (k + 1) + 1
        BY <1>1, <1>2, <2>2
      <4>2. DOMAIN b = 1 .. n - (k + 1) + 1
        BY <1>5, <1>6, <4>1
      <4> QED
        BY <1>1, <4>1, <4>2
    <3> QED
      BY <1>5, <3>1
  <2> QED
    BY <2>1, <2>2
<1> QED
  BY <1>1, <1>2, <1>3, <1>4, <1>5, <1>7

\* A datum is in one of the groups.
InGroups(groups, d) == \E m \in DOMAIN groups : \E n \in DOMAIN groups[m] : groups[m][n] = d

\* An end writes with the writer it has or the first it makes.
WritesAt(e, w, groups) ==
  /\ e \in Ends /\ w = (IF writer[e] = 0 THEN NewWriter(e) ELSE writer[e])
  /\ groups \in Seq(Seq(Items)) /\ Puts(e, w, groups) /\ writer' = [writer EXCEPT ![e] = w]

LEMMA WireWritten ==
  ASSUME Whilst, failures = 0, NEW e, NEW w, NEW groups, WritesAt(e, w, groups), UNCHANGED gone
  PROVE  /\ failures' = 0 /\ OneWriter' /\ writer'[e] # 0
         /\ \A f \in Ends : writer[f] # 0 => writer'[f] # 0
         /\ wire' \in [Ends -> Seq(Records)] /\ nonces' \in [Ends -> Seq(Nat)] /\ writer' \in [Ends -> Nat]
         /\ \A f \in Ends : \A d : OnWire(f, d) => OnWire(f, d)'
         /\ \A d : InGroups(groups, d) => OnWire(e, d)'
<1>1. e \in Ends /\ groups \in Seq(Seq(Items)) /\ writer' = [writer EXCEPT ![e] = w]
  BY DEF WritesAt
<1>2. Types /\ OneWriter
  BY DEF Whilst, Written
<1>3. /\ w = 1 /\ ~gone[e] /\ failures' = 0
      /\ wire' \in [Ends -> Seq(Records)] /\ nonces' \in [Ends -> Seq(Nat)]
      /\ \A f \in Ends : Chained(wire'[f])
      /\ nonces'[e] = << Len(wire'[e]) >>
      /\ \A f \in Ends \ {e} : wire'[f] = wire[f] /\ nonces'[f] = nonces[f]
      /\ \A f \in Ends : \A d : OnWire(f, d) => OnWire(f, d)'
      /\ \A i \in DOMAIN groups : \A j \in DOMAIN groups[i] : OnWire(e, groups[i][j])'
  BY <1>2, PutsRecords DEF WritesAt
<1>4. /\ writer'[e] = 1 /\ writer' \in [Ends -> Nat] /\ \A f \in Ends \ {e} : writer'[f] = writer[f]
  BY <1>1, <1>2, <1>3 DEF Types
<1>5. OneWriter'
  BY <1>1, <1>2, <1>3, <1>4, OneWriterKept
<1>6. \A d : InGroups(groups, d) => OnWire(e, d)'
  <2> SUFFICES ASSUME NEW d, InGroups(groups, d) PROVE OnWire(e, d)'
    OBVIOUS
  <2>1. PICK m \in DOMAIN groups : \E n \in DOMAIN groups[m] : groups[m][n] = d
    BY DEF InGroups
  <2>2. PICK n \in DOMAIN groups[m] : groups[m][n] = d
    BY <2>1
  <2> QED
    BY <1>3, <2>2
<1> QED
  BY <1>3, <1>4, <1>5, <1>6

\* Goroutine g writes what its call had left, or some of it.
LEMMA WrittenStep ==
  ASSUME Whilst, failures = 0, NEW g \in Goroutines, NEW at \in Steps, NEW c \in Calls, NEW groups, NEW w,
         WritesAt(EndOf(g), w, groups), UNCHANGED <<kind, side, gone, accept>>,
         Moves(g, at, c), Agrees(g, at, c), HoldsAt(g, at, c.op)', pc[g] # "idle",
         at # "idle" => /\ c.data = call[g].data
                        /\ \A i \in DOMAIN call[g].left : \/ \E j \in DOMAIN c.left : c.left[j] = call[g].left[i]
                                                          \/ InGroups(groups, call[g].left[i]),
         \/ done' = done
         \/ /\ done' \subseteq done \cup ToSet(call[g].data)
            /\ \A i \in DOMAIN call[g].left : InGroups(groups, call[g].left[i]),
         \A h \in Goroutines \ {g} : access = h => access' = h,
         kind = "packets" \/ access = g \/ writer[side] # 0,
         accept \in {"request", "reply"} => EndOf(g) = "client"
  PROVE  failures' = 0 /\ Whilst'
<1>1. PICK e, old : e = EndOf(g) /\ old = call[g]
  OBVIOUS
<1>2. /\ failures' = 0 /\ OneWriter' /\ writer'[e] # 0
      /\ \A f \in Ends : writer[f] # 0 => writer'[f] # 0
      /\ wire' \in [Ends -> Seq(Records)] /\ nonces' \in [Ends -> Seq(Nat)] /\ writer' \in [Ends -> Nat]
      /\ \A f \in Ends : \A d : OnWire(f, d) => OnWire(f, d)'
      /\ \A d : InGroups(groups, d) => OnWire(e, d)'
  BY <1>1, WireWritten
<1>3. e \in Ends /\ EndOf(g)' = e
  BY <1>1 DEF WritesAt, EndOf
<1>4. \A i \in DOMAIN old.data : \/ \E j \in DOMAIN old.left : old.left[j] = old.data[i]
                                 \/ OnWire(e, old.data[i])'
  <2>1. \A i \in DOMAIN old.data : \/ \E j \in DOMAIN old.left : old.left[j] = old.data[i]
                                   \/ OnWire(e, old.data[i])
    BY <1>1 DEF Whilst, Written, LeftOrWritten
  <2> QED
    BY <1>2, <1>3, <2>1
<1>5. at # "idle" => \A i \in DOMAIN c.data :
           \/ \E j \in DOMAIN c.left : c.left[j] = c.data[i]
           \/ OnWire(EndOf(g), c.data[i])'
  <2> SUFFICES ASSUME at # "idle", NEW i \in DOMAIN c.data
               PROVE  (\E j \in DOMAIN c.left : c.left[j] = c.data[i]) \/ OnWire(e, c.data[i])'
    BY <1>3
  <2>1. c.data = old.data
    BY <1>1
  <2>2. CASE OnWire(e, old.data[i])'
    BY <2>1, <2>2
  <2>3. ASSUME NEW j \in DOMAIN old.left, old.left[j] = old.data[i]
        PROVE  (\E l \in DOMAIN c.left : c.left[l] = c.data[i]) \/ OnWire(e, c.data[i])'
    <3>1. (\E l \in DOMAIN c.left : c.left[l] = old.left[j]) \/ InGroups(groups, old.left[j])
      BY <1>1
    <3> QED
      BY <1>2, <2>1, <2>3, <3>1
  <2> QED
    BY <1>4, <2>1, <2>2, <2>3
<1>6. \/ done' = done
      \/ /\ done' \subseteq done \cup ToSet(old.data)
         /\ \A i \in DOMAIN old.data : OnWire(EndOf(g), old.data[i])'
  <2>1. CASE done' = done
    BY <2>1
  <2>2. CASE /\ done' \subseteq done \cup ToSet(call[g].data)
             /\ \A i \in DOMAIN call[g].left : InGroups(groups, call[g].left[i])
    <3>1. \A i \in DOMAIN old.left : OnWire(e, old.left[i])'
      BY <1>1, <1>2, <2>2
    <3>2. \A i \in DOMAIN old.data : OnWire(e, old.data[i])'
      BY <1>4, <3>1
    <3> QED
      BY <1>1, <1>3, <2>2, <3>2
  <2> QED
    BY <2>1, <2>2
<1>7. /\ pc' \in [Goroutines -> Steps] /\ call' \in [Goroutines -> Calls]
      /\ CallsAgree' /\ LeftOrWritten' /\ Kept' /\ MovesTo(g, at, c)
  BY <1>1, <1>2, <1>5, <1>6, Moved DEF MovesTo
<1>8. Types'
  BY <1>2, <1>7 DEF Types, Whilst, Written
<1>9. Holders'
  <2>1. kind = "packets" \/ access = g \/ writer' = writer
    <3>1. ASSUME kind = "stream", writer[side] # 0 PROVE writer' = writer
      <4>1. g \notin HandlerCallers
        BY <3>1 DEF Whilst, Holders, HoldsAt
      <4>2. e = side
        BY <1>1, <4>1 DEF EndOf
      <4> QED
        BY <1>1, <3>1, <4>2 DEF WritesAt, Whilst, Written, Types
    <3> QED
      BY <3>1 DEF Whilst, Written, Types
  <2>2. accept \in {"request", "reply"} => writer'["server"] = writer["server"]
    <3>1. writer' = [writer EXCEPT ![e] = w] /\ writer \in [Ends -> Nat]
      BY <1>1 DEF WritesAt, Whilst, Written, Types
    <3> QED
      BY <1>1, <3>1 DEF Ends
  <2> QED
    BY <1>2, <1>7, <2>1, <2>2, HoldersMoved DEF Whilst, Written
<1> QED
  BY <1>2, <1>7, <1>8, <1>9 DEF Whilst, Written

\* A write that fails, and the call with it.
LEMMA WriteFails ==
  ASSUME Whilst, failures = 0, failures' = 0, NEW g \in Goroutines, NEW w \in Nat \ {0},
         NEW groups \in Seq(Seq(Items)), PutFails(EndOf(g), w, groups), UNCHANGED <<kind, side, writer, gone, accept>>
  PROVE  Unwritten /\ (access' = access \/ access = g => (Fails(g) => Whilst'))
<1>1. EndOf(g) \in Ends
  BY DEF EndOf, Ends, Whilst, Written, Types
<1>2. /\ gone[EndOf(g)] /\ wire' = wire /\ nonces' \in [Ends -> Seq(Nat)]
      /\ \A f \in Ends \ {EndOf(g)} : nonces'[f] = nonces[f]
  BY <1>1, NotWritten DEF Whilst, Written
<1>3. gone \in [Ends -> BOOLEAN]
  BY DEF Whilst, Written, Types
<1>4. Unwritten
  <2>1. \A e \in Ends : gone[e] \/ nonces'[e] = nonces[e]
    BY <1>2
  <2> QED
    BY <1>2, <1>3, <2>1 DEF Unwritten
<1> QED
  BY <1>4, JustOver

\* Who has a writer, or makes the first, names it rightly.
LEMMA WriterNumbers ==
  ASSUME Whilst, NEW e \in Ends
  PROVE  /\ NewWriter(e) \in Nat \ {0} /\ writer[e] \in Nat
         /\ writer \in [Ends -> Nat] /\ [writer EXCEPT ![e] = writer[e]] = writer
<1>1. nonces[e] \in Seq(Nat) /\ writer \in [Ends -> Nat]
  BY DEF Whilst, Written, Types
<1>2. Len(nonces[e]) \in Nat
  BY <1>1, LenProperties
<1> QED
  BY <1>1, <1>2 DEF NewWriter

\* A piece of what is left is written, the last or not.
LEMMA PieceWritten ==
  ASSUME Whilst, failures = 0, NEW g \in Goroutines, NEW k \in 0 .. Len(call[g].left), NEW groups, NEW w,
         NEW rest, rest = SubSeq(call[g].left, k + 1, Len(call[g].left)),
         WritesAt(EndOf(g), w, groups), UNCHANGED <<kind, side, gone, accept>>, pc[g] # "idle",
         \A i \in DOMAIN SubSeq(call[g].left, 1, k) : InGroups(groups, SubSeq(call[g].left, 1, k)[i]),
         \/ rest = << >> /\ Returns(g)
         \/ pc' = [pc EXCEPT ![g] = "put"] /\ Leaves(g, rest),
         \A h \in Goroutines \ {g} : access = h => access' = h,
         kind = "packets" \/ access = g \/ writer[side] # 0,
         accept \in {"request", "reply"} => EndOf(g) = "client"
  PROVE  failures' = 0 /\ Whilst'
<1>1. call \in [Goroutines -> Calls] /\ call[g] \in Calls /\ call[g].left \in Seq(Items)
  BY DEF Whilst, Written, Types, Calls
<1>2. \A i \in DOMAIN call[g].left : \/ InGroups(groups, call[g].left[i])
                                     \/ \E j \in DOMAIN rest : rest[j] = call[g].left[i]
  <2>1. \A i \in DOMAIN call[g].left :
          \/ \E j \in DOMAIN SubSeq(call[g].left, 1, k) : SubSeq(call[g].left, 1, k)[j] = call[g].left[i]
          \/ \E j \in DOMAIN rest : rest[j] = call[g].left[i]
    <3>1. PICK left : left = call[g].left
      OBVIOUS
    <3>2. left \in Seq(Items) /\ k \in 0 .. Len(left) /\ rest = SubSeq(left, k + 1, Len(left))
      BY <1>1, <3>1
    <3>3. \A i \in DOMAIN left :
            \/ \E j \in DOMAIN SubSeq(left, 1, k) : SubSeq(left, 1, k)[j] = left[i]
            \/ \E j \in DOMAIN SubSeq(left, k + 1, Len(left)) : SubSeq(left, k + 1, Len(left))[j] = left[i]
      BY <3>2, Pieces
    <3>4. \A i \in DOMAIN left :
            \/ \E j \in DOMAIN SubSeq(left, 1, k) : SubSeq(left, 1, k)[j] = left[i]
            \/ \E j \in DOMAIN rest : rest[j] = left[i]
      BY <3>2, <3>3
    <3> QED
      BY <3>1, <3>4
  <2> QED
    BY <2>1
<1>3. rest \in Seq(Items)
  BY <1>1, Pieces
<1>4. CASE rest = << >> /\ Returns(g)
  <2>1. \A i \in DOMAIN call[g].left : InGroups(groups, call[g].left[i])
    <3>1. DOMAIN rest = {}
      BY <1>4
    <3> QED
      BY <1>2, <3>1
  <2>2. /\ done' \subseteq done \cup ToSet(call[g].data)
        /\ \E c \in Calls : Moves(g, "idle", c) /\ Agrees(g, "idle", c)
    BY <1>4, CallOver
  <2>3. PICK c \in Calls : Moves(g, "idle", c) /\ Agrees(g, "idle", c)
    BY <2>2
  <2>4. HoldsAt(g, "idle", c.op)' /\ "idle" \in Steps
    BY DEF HoldsAt, Steps
  <2> QED
    BY <2>1, <2>2, <2>3, <2>4, WrittenStep
<1>5. CASE pc' = [pc EXCEPT ![g] = "put"] /\ Leaves(g, rest)
  <2>1. PICK c : c = [call[g] EXCEPT !.left = rest]
    OBVIOUS
  <2>2. c \in Calls /\ c.op = call[g].op /\ c.data = call[g].data /\ c.left = rest
    BY <1>1, <1>3, <2>1 DEF Calls
  <2>3. Moves(g, "put", c) /\ done' = done
    BY <1>1, <1>5, <2>1 DEF Moves, Leaves
  <2>4. Agrees(g, "put", c)
    <3>1. Agrees(g, pc[g], call[g])
      BY DEF Whilst, Written, CallsAgree
    <3> QED
      BY <2>2, <3>1 DEF Agrees
  <2>5. HoldsAt(g, "put", c.op)' /\ "put" \in Steps
    <3>1. HoldsAt(g, pc[g], call[g].op)
      BY DEF Whilst, Holders
    <3>2. writer'[EndOf(g)] # 0 /\ EndOf(g)' = EndOf(g)
      BY WireWritten DEF EndOf
    <3> QED
      BY <3>1, <3>2 DEF HoldsAt, Steps
  <2>6. \A i \in DOMAIN call[g].left : \/ \E j \in DOMAIN c.left : c.left[j] = call[g].left[i]
                                       \/ InGroups(groups, call[g].left[i])
    BY <1>2, <2>2, Zenon
  <2> QED
    BY <2>2, <2>3, <2>4, <2>5, <2>6, WrittenStep
<1> QED
  BY <1>4, <1>5

\* A head is written, and the call goes on.
LEMMA HeadWritten ==
  ASSUME Whilst, failures = 0, NEW g \in Goroutines, NEW at \in Steps, NEW groups, NEW w,
         WritesAt(EndOf(g), w, groups), UNCHANGED <<kind, side, gone, accept>>, pc[g] # "idle",
         Goes(g, at), UNCHANGED <<call, calls, done>>, Agrees(g, at, call[g]),
         at \in {"zero", "close"} => kind = "stream" /\ access' = g,
         at # "first",
         \A h \in Goroutines \ {g} : access = h => access' = h,
         kind = "packets" \/ access = g,
         kind = "packets" /\ g \in Callers => EndOf(g) = "client",
         accept \in {"request", "reply"} => EndOf(g) = "client"
  PROVE  failures' = 0 /\ Whilst'
<1>1. call \in [Goroutines -> Calls] /\ pc \in [Goroutines -> Steps]
  BY DEF Whilst, Written, Types
<1>2. PICK c \in Calls : c = call[g]
  BY <1>1
<1>3. Moves(g, at, c) /\ done' = done
  BY <1>1, <1>2 DEF Moves, Goes
<1>4. HoldsAt(g, at, c.op)'
  <2>1. HoldsAt(g, pc[g], call[g].op)
    BY DEF Whilst, Holders
  <2>2. writer'[EndOf(g)] # 0 /\ EndOf(g)' = EndOf(g)
    BY WireWritten DEF EndOf
  <2> QED
    BY <2>1, <2>2 DEF HoldsAt
<1> QED
  BY <1>2, <1>3, <1>4, WrittenStep

LEMMA StreamFirst ==
  ASSUME Whilst, failures = 0, failures' = 0, NEW g \in Goroutines, First(g)
  PROVE  Whilst'
<1>1. /\ kind = "stream" /\ g \in Callers /\ g \notin HandlerCallers /\ EndOf(g) = side /\ side \in Ends
      /\ pc[g] = "first" /\ UNCHANGED <<kind, side, gone, accept>> /\ accept \notin {"request", "reply"}
  BY PlainAssumption DEF First, InStream, EndOf, Whilst, Written, Types, Holders
<1>2. access = g /\ writer[side] = 0 /\ call[g].op \in {"write", "vector"} /\ call[g].left = call[g].data
      /\ (call[g].op = "vector" => call[g].data # << >>)
  BY <1>1 DEF Whilst, Written, Holders, HoldsAt, CallsAgree, Agrees, First
<1>3. call[g] \in Calls /\ call[g].left \in Seq(Items) /\ Len(call[g].left) \in Nat
  BY LenProperties DEF Whilst, Written, Types, Calls
<1>4. Opening \in {"request", "reply"}
  BY DEF Opening
<1>5. PICK k \in Unpublished(g) :
       LET groups == FirstGroups(Opening, SubSeq(call[g].left, 1, k))
           rest == SubSeq(call[g].left, k + 1, Len(call[g].left)) IN
       \/ /\ Puts(side, NewWriter(side), groups)
          /\ writer' = [writer EXCEPT ![side] = NewWriter(side)]
          /\ IF rest = << >> THEN access' = "free" /\ Returns(g)
             ELSE /\ Goes(g, "put") /\ Leaves(g, rest)
                  /\ access' = (IF call[g].op = "vector" THEN "free" ELSE g)
       \/ PutFails(side, NewWriter(side), groups) /\ access' = "free" /\ Fails(g) /\ UNCHANGED writer
  BY DEF First
<1>6. k \in 0 .. Len(call[g].left)
  <2>1. CASE call[g].op = "vector"
    <3>1. k = 1
      BY <2>1 DEF Unpublished
    <3>2. Len(call[g].left) # 0
      BY <1>2, <1>3, <2>1, EmptySeq
    <3> QED
      BY <1>3, <3>1, <3>2
  <2>2. CASE call[g].op = "write"
    <3>1. k \in 1 .. Len(call[g].left) \/ k = Len(call[g].left)
      BY <2>2 DEF Unpublished
    <3> QED
      BY <1>3, <3>1
  <2> QED
    BY <1>2, <2>1, <2>2
<1>7. PICK piece, rest, groups, w :
        /\ piece = SubSeq(call[g].left, 1, k) /\ rest = SubSeq(call[g].left, k + 1, Len(call[g].left))
        /\ groups = FirstGroups(Opening, piece) /\ w = NewWriter(side)
  OBVIOUS
<1>8. piece \in Seq(Items)
  BY <1>3, <1>6, <1>7, Pieces
<1>9. groups \in Seq(Seq(Items)) /\ \A i \in DOMAIN piece : InGroups(groups, piece[i])
  <2>1. /\ groups \in Seq(Seq(Items))
        /\ \A i \in DOMAIN piece : \E m \in DOMAIN groups : \E n \in DOMAIN groups[m] : groups[m][n] = piece[i]
    <3>1. PICK head : head = Opening
      OBVIOUS
    <3>2. head \in {"request", "reply", "error"} /\ groups = FirstGroups(head, piece)
      BY <1>4, <1>7, <3>1
    <3> QED
      BY <1>8, <3>2, FirstGroupsHold, ZenonT(40)
  <2> QED
    BY <2>1 DEF InGroups
<1>10. w \in Nat \ {0}
  BY <1>1, <1>7, WriterNumbers
<1>11. ASSUME NEW h \in Goroutines \ {g} PROVE access # h
  BY <1>2
<1>12. CASE /\ Puts(side, w, groups) /\ writer' = [writer EXCEPT ![side] = w]
            /\ IF rest = << >> THEN access' = "free" /\ Returns(g) ELSE Goes(g, "put") /\ Leaves(g, rest)
  <2>1. WritesAt(EndOf(g), w, groups)
    BY <1>1, <1>2, <1>7, <1>9, <1>12 DEF WritesAt
  <2>2. \/ rest = << >> /\ Returns(g)
        \/ pc' = [pc EXCEPT ![g] = "put"] /\ Leaves(g, rest)
    BY <1>12 DEF Goes
  <2>3. \A h \in Goroutines \ {g} : access = h => access' = h
    BY <1>11
  <2>4. \A i \in DOMAIN SubSeq(call[g].left, 1, k) : InGroups(groups, SubSeq(call[g].left, 1, k)[i])
    BY <1>7, <1>9
  <2>5. rest = SubSeq(call[g].left, k + 1, Len(call[g].left))
    BY <1>7
  <2>6. pc[g] # "idle" /\ UNCHANGED <<kind, side, gone, accept>> /\ access = g
    BY <1>1, <1>2
  <2>7. ~(accept \in {"request", "reply"})
    BY <1>1
  <2> QED
    BY <1>6, <2>1, <2>2, <2>3, <2>4, <2>5, <2>6, <2>7, PieceWritten, ZenonT(60)
<1>13. CASE PutFails(side, w, groups) /\ Fails(g) /\ UNCHANGED writer
  BY <1>1, <1>2, <1>9, <1>10, <1>13, WriteFails
<1> QED
  BY <1>5, <1>7, <1>12, <1>13

LEMMA StreamPut ==
  ASSUME Whilst, failures = 0, failures' = 0, NEW g \in Goroutines, Put(g)
  PROVE  Whilst'
<1>1. /\ kind = "stream" /\ g \in Callers /\ g \notin HandlerCallers /\ EndOf(g) = side /\ side \in Ends
      /\ pc[g] = "put" /\ UNCHANGED <<kind, side, writer, gone, accept>> /\ accept \notin {"request", "reply"}
  BY PlainAssumption DEF Put, InStream, EndOf, Whilst, Written, Types, Holders
<1>2. writer[side] # 0
  BY <1>1 DEF Whilst, Holders, HoldsAt
<1>3. call[g] \in Calls /\ call[g].left \in Seq(Items) /\ Len(call[g].left) \in Nat
  BY LenProperties DEF Whilst, Written, Types, Calls
<1>4. PICK k \in AtOnce(g) :
       LET groups == Groups(SubSeq(call[g].left, 1, k))
           rest == SubSeq(call[g].left, k + 1, Len(call[g].left)) IN
       \/ /\ Puts(side, writer[side], groups)
          /\ IF rest = << >> THEN access' = Unlocked(g) /\ Returns(g)
             ELSE UNCHANGED <<access, pc>> /\ Leaves(g, rest)
       \/ PutFails(side, writer[side], groups) /\ access' = Unlocked(g) /\ Fails(g)
  BY DEF Put
<1>5. k \in 0 .. Len(call[g].left)
  BY <1>3 DEF AtOnce
<1>6. PICK piece, rest, groups, w :
        /\ piece = SubSeq(call[g].left, 1, k) /\ rest = SubSeq(call[g].left, k + 1, Len(call[g].left))
        /\ groups = Groups(piece) /\ w = writer[side]
  OBVIOUS
<1>7. piece \in Seq(Items)
  BY <1>3, <1>5, <1>6, Pieces
<1>8. groups \in Seq(Seq(Items)) /\ \A i \in DOMAIN piece : InGroups(groups, piece[i])
  <2>1. \A i \in DOMAIN piece : i \in DOMAIN groups /\ groups[i] = << piece[i] >>
    BY <1>6, <1>7, GroupsHold
  <2>2. \A i \in DOMAIN piece : 1 \in DOMAIN groups[i] /\ groups[i][1] = piece[i]
    BY <2>1
  <2> QED
    BY <1>6, <1>7, <2>1, <2>2, GroupsHold DEF InGroups
<1>9. w \in Nat \ {0} /\ writer' = [writer EXCEPT ![side] = w]
  BY <1>1, <1>2, <1>6, WriterNumbers
<1>10. Unlocked(g) = access \/ access = g
  BY DEF Unlocked
<1>11. CASE /\ Puts(side, w, groups)
            /\ IF rest = << >> THEN access' = Unlocked(g) /\ Returns(g)
               ELSE UNCHANGED <<access, pc>> /\ Leaves(g, rest)
  <2>1. WritesAt(EndOf(g), w, groups)
    BY <1>1, <1>2, <1>6, <1>8, <1>9, <1>11 DEF WritesAt
  <2>2. pc \in [Goroutines -> Steps]
    BY DEF Whilst, Written, Types
  <2>3. \/ rest = << >> /\ Returns(g)
        \/ pc' = [pc EXCEPT ![g] = "put"] /\ Leaves(g, rest)
    BY <1>1, <1>11, <2>2
  <2>4. \A h \in Goroutines \ {g} : access = h => access' = h
    BY <1>10, <1>11
  <2> QED
    BY <1>1, <1>2, <1>5, <1>6, <1>8, <2>1, <2>3, <2>4, PieceWritten, ZenonT(60)
<1>12. CASE PutFails(side, w, groups) /\ access' = Unlocked(g) /\ Fails(g)
  BY <1>1, <1>8, <1>9, <1>10, <1>12, WriteFails
<1> QED
  BY <1>4, <1>6, <1>11, <1>12

\* FirstGroups(head, << >>), the head alone.
LEMMA HeadAlone ==
  ASSUME NEW head \in {"request", "reply", "error"}
  PROVE  FirstGroups(head, << >>) \in Seq(Seq(Items))
<1>1. << >> \in Seq(Items)
  OBVIOUS
<1> QED
  BY <1>1, FirstGroupsHold

LEMMA StreamCloses ==
  ASSUME Whilst, failures = 0, failures' = 0, NEW g \in Goroutines, CloseFirst(g) \/ Zero(g) \/ CloseLast(g)
  PROVE  Whilst'
<1>1. /\ kind = "stream" /\ g \in Callers /\ g \notin HandlerCallers /\ EndOf(g) = side /\ side \in Ends
      /\ pc[g] \in {"first", "zero", "close"} /\ UNCHANGED <<kind, side, accept>>
      /\ accept \notin {"request", "reply"}
  BY PlainAssumption DEF CloseFirst, Zero, CloseLast, InStream, EndOf, Whilst, Written, Types, Holders
<1>2. access = g
  BY <1>1 DEF Whilst, Holders, HoldsAt
<1>3. \A h \in Goroutines \ {g} : access = h => access' = h
  BY <1>2
<1>4. CASE CloseFirst(g)
  <2>1. PICK head, groups, w : /\ head = (IF side = "client" THEN "request" ELSE "error")
                               /\ groups = FirstGroups(head, << >>) /\ w = NewWriter(side)
    OBVIOUS
  <2>2. groups \in Seq(Seq(Items)) /\ w \in Nat \ {0}
    BY <1>1, <2>1, HeadAlone, WriterNumbers
  <2>3. pc[g] = "first" /\ call[g].op = "closeWrite" /\ UNCHANGED gone /\ writer[side] = 0
    BY <1>1, <1>4 DEF CloseFirst, Whilst, Holders, HoldsAt
  <2>4. Agrees(g, pc[g], call[g])
    BY DEF Whilst, Written, CallsAgree
  <2>5. CASE /\ Puts(side, w, groups) /\ writer' = [writer EXCEPT ![side] = w]
             /\ Goes(g, IF side = "client" THEN "zero" ELSE "close")
             /\ UNCHANGED <<access, call, calls, done>>
    <3>1. PICK at \in {"zero", "close"} : Goes(g, at)
      BY <2>5
    <3>2. Agrees(g, at, call[g]) /\ at \in Steps
      BY <2>3, <2>4 DEF Agrees, Steps
    <3>3. WritesAt(EndOf(g), w, groups)
      BY <1>1, <2>1, <2>2, <2>3, <2>5 DEF WritesAt
    <3> QED
      BY <1>1, <1>2, <1>3, <2>3, <2>5, <3>1, <3>2, <3>3, HeadWritten
  <2>6. CASE /\ PutFails(side, w, groups) /\ UNCHANGED writer
             /\ IF side = "client" THEN access' = "free" /\ Fails(g)
                ELSE Goes(g, "close") /\ UNCHANGED <<access, call, calls, done>>
    <3>1. Unwritten /\ (Fails(g) => Whilst')
      BY <1>1, <1>2, <2>2, <2>3, <2>6, WriteFails
    <3>2. CASE side = "client"
      BY <2>6, <3>1, <3>2
    <3>3. CASE side # "client"
      <4>1. Goes(g, "close") /\ UNCHANGED <<access, call, calls, done>> /\ "close" \in Steps
        BY <2>6, <3>3 DEF Steps
      <4>2. Agrees(g, "close", call[g]) /\ HoldsAt(g, "close", call[g].op)
        BY <1>1, <1>2, <2>3, <2>4 DEF Agrees, HoldsAt
      <4> QED
        BY <1>1, <2>3, <3>1, <4>1, <4>2, JustGoes
    <3> QED
      BY <3>2, <3>3
  <2> QED
    BY <1>4, <2>1, <2>5, <2>6 DEF CloseFirst
<1>5. CASE Zero(g)
  <2>1. PICK groups, w : groups = << << Item("end") >> >> /\ w = writer[side]
    OBVIOUS
  <2>2. groups \in Seq(Seq(Items))
    <3>1. Item("end") \in Items
      BY DEF Item, Items
    <3>2. << Item("end") >> \in Seq(Items)
      BY <3>1
    <3> QED
      BY <2>1, <3>2
  <2>3. pc[g] = "zero" /\ UNCHANGED <<gone, writer>>
    BY <1>5 DEF Zero
  <2>4. call[g].op = "closeWrite" /\ call[g].data = << >> /\ writer[side] # 0
    BY <1>1, <2>3 DEF Whilst, Written, CallsAgree, Agrees, Holders, HoldsAt
  <2>5. w \in Nat \ {0} /\ writer' = [writer EXCEPT ![side] = w]
    BY <1>1, <2>1, <2>3, <2>4, WriterNumbers
  <2>6. CASE Puts(side, w, groups) /\ Returns(g)
    <3>1. WritesAt(EndOf(g), w, groups)
      BY <1>1, <2>1, <2>2, <2>4, <2>5, <2>6 DEF WritesAt
    <3>2. done' = done
      BY <2>4, <2>6 DEF Returns, ToSet
    <3>3. \E c \in Calls : Moves(g, "idle", c) /\ Agrees(g, "idle", c)
      BY <2>6, CallOver
    <3>4. PICK c \in Calls : Moves(g, "idle", c) /\ Agrees(g, "idle", c)
      BY <3>3
    <3>5. HoldsAt(g, "idle", c.op)' /\ "idle" \in Steps
      BY DEF HoldsAt, Steps
    <3> QED
      BY <1>1, <1>2, <1>3, <2>3, <3>1, <3>2, <3>4, <3>5, WrittenStep
  <2>7. CASE PutFails(side, w, groups) /\ Fails(g)
    BY <1>1, <1>2, <2>2, <2>3, <2>5, <2>7, WriteFails
  <2> QED
    BY <1>5, <2>1, <2>6, <2>7 DEF Zero
<1>6. CASE CloseLast(g)
  <2>1. Unwritten /\ Returns(g) /\ pc[g] = "close"
    BY <1>6 DEF CloseLast, Unwritten, wireVars, Whilst, Written, Types
  <2>2. call[g].op = "closeWrite"
    BY <2>1 DEF Whilst, Written, CallsAgree, Agrees
  <2> QED
    BY <1>1, <1>2, <2>1, <2>2, JustOver
<1> QED
  BY <1>4, <1>5, <1>6

LEMMA PacketWrites ==
  ASSUME Whilst, failures = 0, failures' = 0, NEW g \in Goroutines,
         Request(g) \/ ServerReply(g) \/ PutPackets(g)
  PROVE  Whilst'
<1>1. /\ kind = "packets" /\ EndOf(g) \in Ends /\ pc[g] # "idle"
      /\ UNCHANGED <<kind, side, gone, access, accept>>
  BY DEF Request, ServerReply, PutPackets, ClientDoes, ServerDoes, IsPackets, EndOf, lockVars, Whilst, Written,
     Types, Ends
<1>2. \A h \in Goroutines \ {g} : access = h => access' = h
  BY <1>1
<1>3. g \in HandlerCallers => accept = "up"
  BY <1>1 DEF Whilst, Holders, HoldsAt
<1>4. EndOf(g) = "client" \/ (g \in HandlerCallers /\ EndOf(g) = "server")
  BY <1>1 DEF EndOf, Whilst, Written, Types
<1>5. Agrees(g, pc[g], call[g]) /\ HoldsAt(g, pc[g], call[g].op)
  BY DEF Whilst, Written, CallsAgree, Holders
<1>6. accept \in {"request", "reply"} => EndOf(g) = "client"
  BY <1>3, <1>4
<1>7. ASSUME NEW head \in {"request", "reply"}, NEW at \in {"reply", "put"}, at = "put" => g \notin Callers,
             writer[EndOf(g)] = 0, pc[g] \in {"request", "reply"},
             \/ /\ Puts(EndOf(g), NewWriter(EndOf(g)), FirstGroups(head, << >>))
                /\ writer' = [writer EXCEPT ![EndOf(g)] = NewWriter(EndOf(g))]
                /\ Goes(g, at) /\ UNCHANGED <<call, calls, done>>
             \/ /\ PutFails(EndOf(g), NewWriter(EndOf(g)), FirstGroups(head, << >>))
                /\ Fails(g) /\ UNCHANGED writer
      PROVE  Whilst'
  <2>1. PICK groups, w, e : groups = FirstGroups(head, << >>) /\ w = NewWriter(e) /\ e = EndOf(g)
    OBVIOUS
  <2>2. groups \in Seq(Seq(Items)) /\ w \in Nat \ {0} /\ at \in Steps
    BY <1>1, <2>1, HeadAlone, WriterNumbers DEF Steps
  <2>3. CASE /\ Puts(e, w, groups) /\ writer' = [writer EXCEPT ![e] = w]
             /\ Goes(g, at) /\ UNCHANGED <<call, calls, done>>
    <3>1. WritesAt(EndOf(g), w, groups)
      BY <1>1, <1>7, <2>1, <2>2, <2>3 DEF WritesAt
    <3>2. Agrees(g, at, call[g])
      BY <1>1, <1>5 DEF Agrees
    <3>3. kind = "packets" /\ g \in Callers => EndOf(g) = "client"
      BY <1>4, PlainAssumption
    <3> QED
      BY <1>1, <1>2, <1>6, <2>2, <2>3, <3>1, <3>2, <3>3, HeadWritten
  <2>4. CASE PutFails(e, w, groups) /\ Fails(g) /\ UNCHANGED writer
    BY <1>1, <2>1, <2>2, <2>4, WriteFails
  <2> QED
    BY <1>7, <2>1, <2>3, <2>4
<1>8. ASSUME pc[g] \in {"request", "reply"}, NEW at \in {"reply", "put"}, Goes(g, at),
             writer[EndOf(g)] # 0, UNCHANGED <<wireVars, writer, call, calls, done>>
      PROVE  Whilst'
  <2>1. Unwritten /\ at \in Steps
    BY <1>1, <1>8 DEF Unwritten, wireVars, Whilst, Written, Types, Steps
  <2>2. Agrees(g, at, call[g]) /\ HoldsAt(g, at, call[g].op)
    BY <1>1, <1>4, <1>5, <1>8, PlainAssumption DEF Agrees, HoldsAt
  <2> QED
    BY <1>1, <1>8, <2>1, <2>2, JustGoes
<1>9. CASE Request(g)
  <2>1. g \in Callers /\ pc[g] = "request" /\ EndOf(g) = "client"
    BY <1>4, <1>9, PlainAssumption DEF Request, ClientDoes
  <2>2. CASE writer["client"] # 0 /\ Goes(g, "reply") /\ UNCHANGED <<wireVars, writer, call, calls, done>>
    BY <1>8, <2>1, <2>2
  <2>3. CASE /\ writer["client"] = 0 /\ Puts("client", NewWriter("client"), FirstGroups("request", << >>))
             /\ writer' = [writer EXCEPT !["client"] = NewWriter("client")]
             /\ Goes(g, "reply") /\ UNCHANGED <<call, calls, done>>
    BY <1>7, <2>1, <2>3
  <2>4. CASE /\ writer["client"] = 0 /\ PutFails("client", NewWriter("client"), FirstGroups("request", << >>))
             /\ Fails(g) /\ UNCHANGED writer
    BY <1>7, <2>1, <2>4
  <2> QED
    BY <1>9, <2>2, <2>3, <2>4 DEF Request
<1>10. CASE ServerReply(g)
  <2>1. g \in HandlerCallers /\ g \notin Callers /\ pc[g] = "reply" /\ EndOf(g) = "server"
    BY <1>10, PlainAssumption DEF ServerReply, ServerDoes, EndOf
  <2>2. CASE writer["server"] # 0 /\ Goes(g, "put") /\ UNCHANGED <<wireVars, writer, call, calls, done>>
    BY <1>8, <2>1, <2>2
  <2>3. CASE /\ writer["server"] = 0 /\ Puts("server", NewWriter("server"), FirstGroups("reply", << >>))
             /\ Goes(g, "put")
             /\ writer' = [writer EXCEPT !["server"] = NewWriter("server")] /\ UNCHANGED <<call, calls, done>>
    BY <1>7, <2>1, <2>3
  <2>4. CASE /\ writer["server"] = 0 /\ PutFails("server", NewWriter("server"), FirstGroups("reply", << >>))
             /\ Fails(g) /\ UNCHANGED writer
    BY <1>7, <2>1, <2>4
  <2> QED
    BY <1>10, <2>2, <2>3, <2>4 DEF ServerReply
<1>11. CASE PutPackets(g)
  <2>1. pc[g] = "put" /\ UNCHANGED writer /\ writer[EndOf(g)] # 0
    BY <1>5, <1>11 DEF PutPackets, HoldsAt
  <2>2. PICK left, groups, w : left = call[g].left /\ groups = Groups(left) /\ w = writer[EndOf(g)]
    OBVIOUS
  <2>3. left \in Seq(Items) /\ Len(left) \in Nat
    BY <2>2, LenProperties DEF Whilst, Written, Types, Calls
  <2>4. groups \in Seq(Seq(Items)) /\ \A i \in DOMAIN left : InGroups(groups, left[i])
    <3>1. \A i \in DOMAIN left : i \in DOMAIN groups /\ groups[i] = << left[i] >>
      BY <2>2, <2>3, GroupsHold
    <3>2. \A i \in DOMAIN left : 1 \in DOMAIN groups[i] /\ groups[i][1] = left[i]
      BY <3>1
    <3> QED
      BY <2>2, <2>3, <3>1, <3>2, GroupsHold DEF InGroups
  <2>5. w \in Nat \ {0} /\ writer' = [writer EXCEPT ![EndOf(g)] = w]
    BY <1>1, <2>1, <2>2, WriterNumbers
  <2>6. CASE Puts(EndOf(g), w, groups) /\ Returns(g)
    <3>1. WritesAt(EndOf(g), w, groups)
      BY <1>1, <2>1, <2>2, <2>4, <2>5, <2>6 DEF WritesAt
    <3>2. /\ done' \subseteq done \cup ToSet(call[g].data)
          /\ \E c \in Calls : Moves(g, "idle", c) /\ Agrees(g, "idle", c)
      BY <2>6, CallOver
    <3>3. PICK c \in Calls : Moves(g, "idle", c) /\ Agrees(g, "idle", c)
      BY <3>2
    <3>4. HoldsAt(g, "idle", c.op)' /\ "idle" \in Steps
      BY DEF HoldsAt, Steps
    <3>5. \A i \in DOMAIN call[g].left : InGroups(groups, call[g].left[i])
      BY <2>2, <2>4
    <3> QED
      BY <1>1, <1>2, <1>6, <3>1, <3>2, <3>3, <3>4, <3>5, WrittenStep
  <2>7. CASE PutFails(EndOf(g), w, groups) /\ Fails(g)
    BY <1>1, <2>1, <2>4, <2>5, <2>7, WriteFails
  <2>8. \/ Puts(EndOf(g), w, groups) /\ Returns(g)
        \/ PutFails(EndOf(g), w, groups) /\ Fails(g)
    BY <1>11, <2>2 DEF PutPackets
  <2> QED
    BY <2>6, <2>7, <2>8
<1> QED
  BY <1>9, <1>10, <1>11

LEMMA ServiceReplies ==
  ASSUME Whilst, failures = 0, failures' = 0, AcceptReply
  PROVE  Whilst'
<1>1. /\ kind = "packets" /\ accept = "reply" /\ writer["server"] = 0 /\ "server" \in Ends
      /\ UNCHANGED <<kind, side, pc, call, calls, done, access>>
  BY DEF AcceptReply, IsPackets, callVars, lockVars, Whilst, Holders, Ends
<1>2. PICK groups, w : groups = FirstGroups("reply", << >>) /\ w = NewWriter("server")
  OBVIOUS
<1>3. groups \in Seq(Seq(Items)) /\ w \in Nat \ {0}
  BY <1>1, <1>2, HeadAlone, WriterNumbers
<1>4. ASSUME accept' \in {"first", "failed"}, \A f \in Ends : writer[f] # 0 => writer'[f] # 0 PROVE Holders'
  <2>1. ASSUME NEW h \in Goroutines PROVE HoldsAt(h, pc[h], call[h].op)'
    <3>1. HoldsAt(h, pc[h], call[h].op) /\ EndOf(h)' = EndOf(h) /\ EndOf(h) \in Ends
      BY <1>1 DEF Whilst, Holders, EndOf, Written, Types, Ends
    <3>2. pc[h] # "first"
      BY <1>1, <3>1 DEF HoldsAt
    <3>3. writer["client"] # 0 => writer'["client"] # 0
      BY <1>4 DEF Ends
    <3>4. h \in HandlerCallers => pc[h] = "idle"
      BY <1>1, <3>1 DEF HoldsAt
    <3> QED
      BY <1>1, <1>4, <3>1, <3>2, <3>3, <3>4 DEF HoldsAt
  <2> QED
    BY <1>4, <2>1 DEF Holders
<1>5. CASE /\ Puts("server", w, groups) /\ accept' = "first"
           /\ writer' = [writer EXCEPT !["server"] = w] /\ UNCHANGED gone
  <2>1. WritesAt("server", w, groups)
    BY <1>1, <1>2, <1>3, <1>5 DEF WritesAt
  <2>2. /\ OneWriter' /\ \A f \in Ends : writer[f] # 0 => writer'[f] # 0
        /\ wire' \in [Ends -> Seq(Records)] /\ nonces' \in [Ends -> Seq(Nat)] /\ writer' \in [Ends -> Nat]
        /\ \A f \in Ends : \A d : OnWire(f, d) => OnWire(f, d)'
    BY <1>5, <2>1, WireWritten
  <2>3. Types'
    BY <1>1, <1>5, <2>2 DEF Types, Whilst, Written
  <2>4. \A h : EndOf(h)' = EndOf(h) /\ EndOf(h) \in Ends
    BY <1>1 DEF EndOf, Ends, Whilst, Written, Types
  <2>5. CallsAgree'
    BY <1>1 DEF Whilst, Written, CallsAgree, Agrees
  <2>6. LeftOrWritten'
    <3>1. LeftOrWritten
      BY DEF Whilst, Written
    <3> QED
      BY <1>1, <2>2, <2>4, <3>1 DEF LeftOrWritten
  <2>7. Kept'
    <3>1. \A d \in done : OnWire(EndOf(d.by), d)
      BY DEF Whilst, Written, Kept
    <3> QED
      BY <1>1, <2>2, <2>4, <3>1 DEF Kept
  <2> QED
    BY <1>4, <1>5, <2>2, <2>3, <2>5, <2>6, <2>7 DEF Whilst, Written
<1>6. CASE PutFails("server", w, groups) /\ Rejects /\ UNCHANGED writer
  <2>1. /\ gone["server"] /\ wire' = wire /\ nonces' \in [Ends -> Seq(Nat)]
        /\ \A f \in Ends \ {"server"} : nonces'[f] = nonces[f]
    BY <1>1, <1>3, <1>6, NotWritten DEF Whilst, Written
  <2>2. accept' = "failed" /\ gone' = [gone EXCEPT !["server"] = TRUE] /\ gone \in [Ends -> BOOLEAN]
    BY <1>6 DEF Rejects, Whilst, Written, Types
  <2>3. Unwritten
    <3>1. \A e \in Ends : (gone[e] => gone'[e]) /\ (gone[e] \/ nonces'[e] = nonces[e])
      BY <2>1, <2>2
    <3>2. gone' \in [Ends -> BOOLEAN]
      BY <2>2
    <3> QED
      BY <1>1, <1>6, <2>1, <3>1, <3>2 DEF Unwritten
  <2>4. Written'
    BY <1>1, <2>3, UnwrittenElse DEF callVars
  <2>5. Holders'
    BY <1>4, <1>6, <2>2
  <2> QED
    BY <2>4, <2>5 DEF Whilst
<1> QED
  BY <1>2, <1>5, <1>6 DEF AcceptReply

-----------------------------------------------------------------------------
\* All together.

\* What is on the wires at first.
LEMMA Opened ==
  ASSUME Init
  PROVE  \E requested \in BOOLEAN, answer \in Seq(Seq(Items)) :
           /\ wire = [client |-> IF requested THEN << Record(1, 0, << Item("request") >>) >> ELSE << >>,
                      server |-> Sealed(1, 0, answer)]
           /\ nonces = [e \in Ends |-> IF (e = "client" /\ requested)
                                          \/ (e = "server" /\ kind = "stream" /\ side = "client")
                                       THEN << Len(wire[e]) >> ELSE << >>]
           /\ writer = [e \in Ends |-> IF (e = "client" /\ requested)
                                          \/ (e = "server" /\ kind = "stream" /\ side = "client")
                                       THEN 1 ELSE 0]
           /\ gone = [client |-> FALSE, server |-> kind = "stream" /\ side = "client"]
           /\ ~(kind = "stream" /\ side = "client") => answer = << >>
           /\ answer # << >> => answer \in Answers
<1>1. PICK requested \in BOOLEAN, answer \in {<< >>} \cup Answers :
        /\ wire = [client |-> IF requested THEN << Record(1, 0, << Item("request") >>) >> ELSE << >>,
                   server |-> Sealed(1, 0, answer)]
        /\ nonces = [e \in Ends |-> IF (e = "client" /\ requested)
                                       \/ (e = "server" /\ kind = "stream" /\ side = "client")
                                    THEN << Len(wire[e]) >> ELSE << >>]
        /\ writer = [e \in Ends |-> IF (e = "client" /\ requested)
                                       \/ (e = "server" /\ kind = "stream" /\ side = "client")
                                    THEN 1 ELSE 0]
        /\ gone = [client |-> FALSE, server |-> kind = "stream" /\ side = "client"]
        /\ ~(kind = "stream" /\ side = "client") => answer = << >>
  BY ZenonT(40) DEF Init
<1>2. answer \in Seq(Seq(Items))
  <2>1. << >> \in Seq(Seq(Items))
    OBVIOUS
  <2> DEFINE Said == [what : {"reply", "error", "data", "end"}, by : {"far"}, n : Nat]
  <2>2. ASSUME NEW s \in Seq(Said) PROVE s \in Seq(Items)
    <3>1. Said \subseteq Items
      BY DEF Items
    <3> QED
      BY <3>1, SeqMonotonic
  <2>3. Seq(Said) \subseteq Seq(Items)
    BY <2>2
  <2>4. ASSUME answer \in Answers PROVE answer \in Seq(Seq(Items))
    <3>1. answer \in Seq(Seq(Said))
      BY <2>4, PlainAssumption
    <3> HIDE DEF Said
    <3> QED
      BY <2>3, <3>1, SeqMonotonic
  <2> QED
    BY <2>1, <2>4
<1> QED
  BY <1>1, <1>2, Zenon

LEMMA KeptInit == Init => KeptInv
<1> SUFFICES ASSUME Init PROVE Whilst /\ failures = 0
  BY DEF KeptInv
<1>1. PICK requested \in BOOLEAN, answer \in Seq(Seq(Items)) :
        /\ wire = [client |-> IF requested THEN << Record(1, 0, << Item("request") >>) >> ELSE << >>,
                   server |-> Sealed(1, 0, answer)]
        /\ nonces = [e \in Ends |-> IF (e = "client" /\ requested)
                                       \/ (e = "server" /\ kind = "stream" /\ side = "client")
                                    THEN << Len(wire[e]) >> ELSE << >>]
        /\ writer = [e \in Ends |-> IF (e = "client" /\ requested)
                                       \/ (e = "server" /\ kind = "stream" /\ side = "client")
                                    THEN 1 ELSE 0]
        /\ gone = [client |-> FALSE, server |-> kind = "stream" /\ side = "client"]
        /\ ~(kind = "stream" /\ side = "client") => answer = << >>
  BY Opened, Zenon
<1>2. answer \in Seq(Seq(Items))
  OBVIOUS
<1>3. /\ Sealed(1, 0, answer) \in Seq(Records) /\ Chained(Sealed(1, 0, answer))
      /\ Len(Sealed(1, 0, answer)) = Len(answer)
  <2>1. /\ Sealed(1, 0, answer) \in Seq(Records) /\ Len(Sealed(1, 0, answer)) = Len(answer)
        /\ \A i \in 1 .. Len(answer) : /\ Sealed(1, 0, answer)[i].writer = 1
                                       /\ Sealed(1, 0, answer)[i].n = 0 + i - 1
    BY <1>2, SealedRecords
  <2>2. DOMAIN Sealed(1, 0, answer) = 1 .. Len(answer)
    BY <2>1, LenProperties
  <2> QED
    BY <2>1, <2>2 DEF Chained
<1>4. << Record(1, 0, << Item("request") >>) >> \in Seq(Records)
      /\ Chained(<< Record(1, 0, << Item("request") >>) >>)
  <2>1. << Item("request") >> \in Seq(Items)
    BY DEF Item, Items
  <2>2. /\ Record(1, 0, << Item("request") >>) \in Records
        /\ Record(1, 0, << Item("request") >>).writer = 1 /\ Record(1, 0, << Item("request") >>).n = 0
    BY <2>1 DEF Record, Records
  <2> QED
    BY <2>2 DEF Chained
<1>5. << >> \in Seq(Records) /\ Chained(<< >>)
  BY DEF Chained
<1>6. \A e \in Ends : wire[e] \in Seq(Records) /\ Chained(wire[e])
  <2>1. wire["server"] = Sealed(1, 0, answer)
    BY <1>1
  <2>2. wire["client"] = << Record(1, 0, << Item("request") >>) >> \/ wire["client"] = << >>
    BY <1>1
  <2>3. wire["client"] \in Seq(Records) /\ Chained(wire["client"])
    BY <1>4, <1>5, <2>2
  <2> QED
    BY <1>3, <2>1, <2>3 DEF Ends
<1>7. /\ failures = 0 /\ kind \in {"stream", "packets"} /\ side \in Ends /\ (kind = "packets" => side = "client")
      /\ pc = [g \in Goroutines |-> "idle"] /\ call = [g \in Goroutines |-> NoCall] /\ done = {}
      /\ accept = (IF kind = "packets" THEN "request" ELSE "none")
  BY DEF Init
<1>8. NoCall \in Calls /\ "idle" \in Steps /\ NoCall.data = << >> /\ NoCall.op = "none" /\ ~NoCall.failed
  BY DEF NoCall, Calls, Ops, Steps
<1>9. wire \in [Ends -> Seq(Records)]
  BY <1>1, <1>6 DEF Ends
<1>10. nonces \in [Ends -> Seq(Nat)] /\ writer \in [Ends -> Nat]
  <2>1. \A e \in Ends : Len(wire[e]) \in Nat
    BY <1>6, LenProperties
  <2> QED
    BY <1>1, <2>1
<1>11. gone \in [Ends -> BOOLEAN]
  <2>1. PICK answered \in BOOLEAN : answered = (kind = "stream" /\ side = "client")
    OBVIOUS
  <2>2. gone = [client |-> FALSE, server |-> answered]
    BY <1>1, <2>1, Zenon
  <2>3. PICK no \in BOOLEAN : no = FALSE
    OBVIOUS
  <2>4. gone = [client |-> no, server |-> answered]
    BY <2>2, <2>3, Zenon
  <2>5. \A a, b \in BOOLEAN : [client |-> a, server |-> b] \in [Ends -> BOOLEAN]
    <3> SUFFICES ASSUME NEW B, NEW a \in B, NEW b \in B PROVE [client |-> a, server |-> b] \in [Ends -> B]
      OBVIOUS
    <3> QED
      BY DEF Ends
  <2> QED
    BY <2>4, <2>5, Zenon
<1>12. Types
  BY <1>7, <1>8, <1>9, <1>10, <1>11 DEF Types
<1>13. OneWriter
  <2>1. ASSUME NEW e \in Ends, ~gone[e], ~(writer[e] = 1 /\ nonces[e] = << Len(wire[e]) >>)
        PROVE  writer[e] = 0 /\ nonces[e] = << >> /\ wire[e] = << >>
    <3>1. CASE e = "client"
      BY <1>1, <2>1, <3>1 DEF Ends
    <3>2. CASE e = "server"
      <4>1. ~(kind = "stream" /\ side = "client") /\ answer = << >>
        BY <1>1, <2>1, <3>2
      <4>2. Sealed(1, 0, answer) = << >>
        BY <1>3, <4>1, EmptySeq
      <4> QED
        BY <1>1, <3>2, <4>1, <4>2 DEF Ends
    <3> QED
      BY <3>1, <3>2 DEF Ends
  <2> QED
    BY <1>6, <2>1 DEF OneWriter, Chained
<1>14. CallsAgree
  BY <1>7, <1>8 DEF CallsAgree, Agrees
<1>15. Holders
  <2>1. kind = "packets" => writer["server"] = 0
    BY <1>1 DEF Ends
  <2> QED
    BY <1>7, <2>1 DEF Holders, HoldsAt
<1>16. LeftOrWritten /\ Kept
  BY <1>7 DEF LeftOrWritten, Kept
<1> QED
  BY <1>7, <1>12, <1>13, <1>14, <1>15, <1>16 DEF Whilst, Written

LEMMA KeptNext == KeptInv /\ [Next]_vars => KeptInv'
<1> SUFFICES ASSUME KeptInv, [Next]_vars PROVE failures' \in Nat /\ (failures' = 0 => Whilst')
  BY DEF KeptInv
<1>1. failures \in Nat
  BY DEF KeptInv
<1>2. failures' \in Nat /\ failures' >= failures
  <2>1. CASE UNCHANGED vars
    BY <1>1, <2>1 DEF vars, wireVars
  <2>2. ASSUME NEW g \in Goroutines,
               \/ StreamBegin(g) \/ CloseWrite(g) \/ Close(g) \/ ReadBegin(g) \/ Check(g) \/ Lock(g)
               \/ CloseLast(g) \/ ReadResponse(g) \/ ReadNext(g)
               \/ PacketBegin(g) \/ ClosePackets(g) \/ BatchLock(g) \/ ReplyLock(g) \/ ReadReply(g) \/ ReadPacket(g)
        PROVE  failures' = failures
    BY <2>2 DEF StreamBegin, CloseWrite, Close, ReadBegin, Check, Lock, CloseLast, ReadResponse, ReadNext,
                PacketBegin, ClosePackets, BatchLock, ReplyLock, ReadReply, ReadPacket, wireVars
  <2>3. ASSUME NEW e, NEW w, NEW groups, Puts(e, w, groups) \/ PutFails(e, w, groups)
        PROVE  failures' = failures \/ failures' = failures + 1
    BY <2>3 DEF Puts, PutFails
  <2>4. ASSUME NEW g \in Goroutines,
               First(g) \/ Put(g) \/ CloseFirst(g) \/ Zero(g) \/ Request(g) \/ ServerReply(g) \/ PutPackets(g)
        PROVE  failures' = failures \/ failures' = failures + 1
    <3>1. CASE First(g)
      BY <2>3, <3>1 DEF First
    <3>2. CASE Put(g)
      BY <2>3, <3>2 DEF Put
    <3>3. CASE CloseFirst(g)
      BY <2>3, <3>3 DEF CloseFirst
    <3>4. CASE Zero(g)
      BY <2>3, <3>4 DEF Zero
    <3>5. CASE Request(g)
      BY <2>3, <3>5 DEF Request, wireVars
    <3>6. CASE ServerReply(g)
      BY <2>3, <3>6 DEF ServerReply, wireVars
    <3>7. CASE PutPackets(g)
      BY <2>3, <3>7 DEF PutPackets
    <3> QED
      BY <2>4, <3>1, <3>2, <3>3, <3>4, <3>5, <3>6, <3>7
  <2>5. CASE Accept
    <3>1. CASE AcceptReply
      BY <1>1, <2>3, <3>1 DEF AcceptReply
    <3>2. CASE (\E at \in {"request", "first"} : AcceptFails(at)) \/ AcceptRequest \/ AcceptFirst
      <4>1. ASSUME NEW at, AcceptFails(at) PROVE failures' = failures
        BY <4>1 DEF AcceptFails, wireVars
      <4>2. ASSUME AcceptRequest \/ AcceptFirst PROVE failures' = failures
        BY <4>2 DEF AcceptRequest, AcceptFirst, wireVars
      <4> QED
        BY <1>1, <3>2, <4>1, <4>2
    <3> QED
      BY <2>5, <3>1, <3>2 DEF Accept
  <2> QED
    BY <1>1, <2>1, <2>2, <2>4, <2>5 DEF Next, StreamStep, PacketStep
<1> SUFFICES ASSUME failures' = 0 PROVE Whilst'
  BY <1>2
<1>3. failures = 0 /\ Whilst
  BY <1>1, <1>2 DEF KeptInv
<1>4. CASE UNCHANGED vars
  <2>1. Unwritten /\ UNCHANGED <<callVars, access, accept, writer, kind, side>>
    BY <1>3, <1>4 DEF vars, Unwritten, wireVars, lockVars, Whilst, Written, Types
  <2>2. Written'
    BY <1>3, <2>1, UnwrittenElse
  <2>3. Holders'
    BY <1>3, <2>1 DEF Whilst, Holders, HoldsAt, EndOf, callVars
  <2> QED
    BY <2>2, <2>3 DEF Whilst
<1>5. ASSUME NEW g \in Goroutines,
             StreamBegin(g) \/ CloseWrite(g) \/ Close(g) \/ ReadBegin(g) \/ StreamStep(g)
      PROVE  Whilst'
  BY <1>3, <1>5, StreamBegins, ClosesWrite, Closes, Checks, StreamFirst, StreamPut, StreamCloses, StreamReads
     DEF StreamStep
<1>6. ASSUME NEW g \in Goroutines, PacketBegin(g) \/ ClosePackets(g) \/ PacketStep(g)
      PROVE  Whilst'
  BY <1>3, <1>6, PacketBegins, Closes, PacketWaits, PacketWrites DEF PacketStep
<1>7. CASE Accept
  BY <1>3, <1>7, Accepts, ServiceReplies DEF Accept
<1> QED
  BY <1>4, <1>5, <1>6, <1>7 DEF Next

\* Whatever the number of goroutines and calls: as long as no write of the connection
\* fails, all that was in a call of Write, WriteVectorised, WritePacket or
\* WritePacketBatch that returned nil before CloseWrite is on the wire, in a record that
\* the far end can read, though the first write of the connection is raced for.
THEOREM WritesAreKept == Spec => []Kept
<1>1. KeptInv => Kept
  BY DEF KeptInv, Whilst, Written, Kept
<1> QED
  BY <1>1, KeptInit, KeptNext, PTL DEF Spec

-----------------------------------------------------------------------------
\* The order of what is heard: what it rests on.

\* A write of the end continues what its reader can read: there is nothing yet, or all of
\* it is the writer's and the next nonce is the next record's.
Alive(e) ==
  \/ wire[e] = << >>
  \/ /\ Legible(e) = DOMAIN wire[e] /\ writer[e] # 0 /\ wire[e][1].writer = writer[e]
     /\ nonces[e][writer[e]] = Len(wire[e])

\* The end is written by the goroutines, not by what answers a stream.
Ours(e) == kind = "packets" \/ e = side

\* What a call has to write is in order, and all of it is left before it writes.
Turned(g, s, last) ==
  \A i \in DOMAIN s : /\ s[i].what = "data" /\ s[i].by = g /\ s[i].n <= last
                      /\ \A j \in DOMAIN s : i < j => s[i].n < s[j].n
WellCalled(g, at, c) ==
  /\ Agrees(g, at, c) /\ Turned(g, c.data, c.last) /\ Turned(g, c.left, c.last)
  /\ at # "put" => c.left = c.data
  /\ at = "put" => c.left # << >>
  /\ c.op \in {"write", "vector", "send", "batch"} => c.data # << >>
  /\ at \in {"check", "lock", "put", "request", "batch"} => c.data # << >>
  /\ at \in {"reply", "await"} /\ kind = "packets" => (g \in Callers /\ c.op = "recv") \/ c.data # << >>
CallsWell == \A g \in Goroutines : WellCalled(g, pc[g], call[g])

\* What a goroutine has written comes before what it has left and will have.
Behind(g, item) ==
  item.what = "data" /\ item.by = g =>
    item.n <= call[g].last /\ \A k \in DOMAIN call[g].left : item.n < call[g].left[k].n
Ahead ==
  \A g \in Goroutines : Ours(EndOf(g)) /\ Alive(EndOf(g)) =>
    \A i \in DOMAIN wire[EndOf(g)] : \A j \in DOMAIN wire[EndOf(g)][i].items : Behind(g, wire[EndOf(g)][i].items[j])

\* Every writer has sealed its records under its own nonces, the first of them with the
\* head; the one that is published has a record on the wire.
Signed(e) ==
  \A i \in DOMAIN wire[e] : wire[e][i] # Torn =>
    LET record == wire[e][i] IN
    /\ record.writer \in 1 .. Len(nonces[e]) /\ record.n < nonces[e][record.writer]
    /\ record.items # << >>
    /\ \A j \in DOMAIN record.items : record.items[j] \in Heads <=> record.n = 0 /\ j = 1
Published(e) ==
  Ours(e) => /\ writer[e] <= Len(nonces[e])
             /\ writer[e] # 0 => wire[e] # << >> /\ nonces[e][writer[e]] > 0
WiresWell == \A e \in Ends : Signed(e) /\ Published(e) /\ HeardInTurn(e)

\* Of these items each is in one of the first n records.
HandedFrom(f, items, n) ==
  \A k \in DOMAIN items : \E i \in 1 .. n : \E j \in DOMAIN wire[f][i].items : items[k] = wire[f][i].items[j]

\* A reader has read the records behind each other, and knows their writer; it has handed
\* out what was in them.
Follow(e) ==
  /\ turn[e] <= taken[e] /\ (reader[e] = 0 <=> turn[e] = 0)
  /\ turn[e] > 0 => turn[e] \in Legible(Far(e)) /\ reader[e] = wire[Far(e)][1].writer
  /\ HandedFrom(Far(e), handed[e], turn[e]) /\ InTurn(handed[e])
Cached ==
  cache # << >> => /\ kind = "stream" /\ handed[side] = << >> /\ turn[side] > 0
                   /\ cache = Tail(wire[Far(side)][1].items)
ReadsWell == (\A e \in Ends : Follow(e)) /\ Cached

-----------------------------------------------------------------------------
\* Records that reach the connection.

WriterOf(e) == IF writer[e] = 0 THEN NewWriter(e) ELSE writer[e]

\* Writer w of the end seals the groups; of what is new on the wire the records are
\* theirs, in their order.
Adds(e, w, groups) ==
  /\ wire' \in [Ends -> Seq(Records)] /\ nonces' \in [Ends -> Seq(Nat)]
  /\ \A f \in Ends \ {e} : wire'[f] = wire[f] /\ nonces'[f] = nonces[f]
  /\ Len(wire[e]) <= Len(wire'[e]) /\ \A i \in 1 .. Len(wire[e]) : wire'[e][i] = wire[e][i]
  /\ \A i \in Len(wire[e]) + 1 .. Len(wire'[e]) : wire'[e][i] # Torn =>
        /\ i - Len(wire[e]) \in 1 .. Len(groups)
        /\ wire'[e][i] = Record(w, NonceOf(e, w) + (i - Len(wire[e])) - 1, groups[i - Len(wire[e])])
  /\ Len(nonces'[e]) = (IF w <= Len(nonces[e]) THEN Len(nonces[e]) ELSE w)
  /\ \A v \in 1 .. Len(nonces[e]) : v # w => nonces'[e][v] = nonces[e][v]
  /\ nonces'[e][w] = NonceOf(e, w) + Len(groups)

\* All of them are on the wire, or the last that is there cannot be the last group's.
AddsAll(e, groups) == Len(wire'[e]) = Len(wire[e]) + Len(groups)
AddsPart(e, groups) ==
  \/ Len(wire'[e]) < Len(wire[e]) + Len(groups)
  \/ wire'[e] # << >> /\ wire'[e][Len(wire'[e])] = Torn

LEMMA SealedBy ==
  ASSUME NEW w \in Nat, NEW n \in Nat, NEW groups \in Seq(Seq(Items))
  PROVE  /\ Sealed(w, n, groups) \in Seq(Records) /\ Len(Sealed(w, n, groups)) = Len(groups)
         /\ \A i \in 1 .. Len(groups) : Sealed(w, n, groups)[i] = Record(w, n + i - 1, groups[i])
<1>1. DOMAIN groups = 1 .. Len(groups) /\ Len(groups) \in Nat
  OBVIOUS
<1>2. \A i \in 1 .. Len(groups) : Record(w, n + i - 1, groups[i]) \in Records
  BY <1>1 DEF Record, Records
<1>3. Sealed(w, n, groups) = [i \in 1 .. Len(groups) |-> Record(w, n + i - 1, groups[i])]
  BY <1>1 DEF Sealed
<1>4. Sealed(w, n, groups) \in Seq(Records) /\ Len(Sealed(w, n, groups)) = Len(groups)
  <2>1. Sealed(w, n, groups) \in [1 .. Len(groups) -> Records]
    BY <1>2, <1>3
  <2>2. Seq(Records) = UNION {[1 .. m -> Records] : m \in Nat}
    BY SeqDef
  <2>3. Sealed(w, n, groups) \in Seq(Records)
    BY <1>1, <2>1, <2>2
  <2>4. DOMAIN Sealed(w, n, groups) = 1 .. Len(Sealed(w, n, groups))
    BY <2>3, LenProperties
  <2>5. Len(Sealed(w, n, groups)) \in Nat
    BY <2>3, LenProperties
  <2>6. 1 .. Len(Sealed(w, n, groups)) = 1 .. Len(groups)
    BY <2>1, <2>4
  <2> QED
    BY <1>1, <2>3, <2>5, <2>6
<1> QED
  BY <1>1, <1>3, <1>4

\* The nonces after a write, whatever of it is written.
LEMMA UsedBy ==
  ASSUME Types, NEW e \in Ends, NEW w \in 1 .. Len(nonces[e]) + 1, NEW groups \in Seq(Seq(Items)), NEW k,
         nonces' = Used(e, w, groups, k)
  PROVE  /\ NonceOf(e, w) \in Nat /\ nonces' \in [Ends -> Seq(Nat)]
         /\ \A f \in Ends \ {e} : nonces'[f] = nonces[f]
         /\ Len(nonces'[e]) = (IF w <= Len(nonces[e]) THEN Len(nonces[e]) ELSE w)
         /\ \A v \in 1 .. Len(nonces[e]) : v # w => nonces'[e][v] = nonces[e][v]
         /\ nonces'[e][w] = NonceOf(e, w) + Len(groups)
<1>1. /\ nonces \in [Ends -> Seq(Nat)] /\ nonces[e] \in Seq(Nat) /\ Len(nonces[e]) \in Nat
      /\ DOMAIN nonces[e] = 1 .. Len(nonces[e]) /\ Len(groups) \in Nat
      /\ \A v \in 1 .. Len(nonces[e]) : nonces[e][v] \in Nat
  BY LenProperties, SMTT(30) DEF Types
<1>2. PICK s : s = nonces[e]
  OBVIOUS
<1>3. PICK l \in Nat : l = Len(groups)
  BY <1>1
<1>4. CASE w <= Len(nonces[e])
  <2>1. w \in 1 .. Len(s) /\ s \in Seq(Nat) /\ s[w] \in Nat /\ NonceOf(e, w) = s[w]
    BY <1>1, <1>2, <1>4 DEF NonceOf
  <2>2. PICK t : t = [s EXCEPT ![w] = s[w] + l]
    OBVIOUS
  <2>3. nonces' = [nonces EXCEPT ![e] = t]
    BY <1>1, <1>2, <1>3, <1>4, <2>2 DEF Used, NonceAfter
  <2>4. t \in Seq(Nat) /\ Len(t) = Len(s) /\ t[w] = s[w] + l /\ \A v \in 1 .. Len(s) : v # w => t[v] = s[v]
    BY <2>1, <2>2
  <2> QED
    BY <1>1, <1>2, <1>3, <1>4, <2>1, <2>3, <2>4
<1>5. CASE ~(w <= Len(nonces[e]))
  <2>1. w = Len(s) + 1 /\ s \in Seq(Nat) /\ NonceOf(e, w) = 0
    BY <1>1, <1>2, <1>5 DEF NonceOf
  <2>2. PICK t : t = Append(s, 0 + l)
    OBVIOUS
  <2>3. nonces' = [nonces EXCEPT ![e] = t]
    BY <1>1, <1>2, <1>3, <1>5, <2>2 DEF Used, NonceAfter
  <2>4. t \in Seq(Nat) /\ Len(t) = w /\ t[w] = l /\ \A v \in 1 .. Len(s) : t[v] = s[v]
    BY <2>1, <2>2
  <2>5. /\ nonces' \in [Ends -> Seq(Nat)] /\ nonces'[e] = t
        /\ \A f \in Ends \ {e} : nonces'[f] = nonces[f]
    BY <1>1, <2>3, <2>4
  <2>6. Len(nonces'[e]) = w /\ nonces'[e][w] = NonceOf(e, w) + Len(groups)
    BY <1>3, <2>1, <2>4, <2>5
  <2>7. \A v \in 1 .. Len(nonces[e]) : nonces'[e][v] = nonces[e][v]
    BY <1>2, <2>4, <2>5
  <2>8. NonceOf(e, w) \in Nat
    BY <2>1
  <2> QED
    BY <1>5, <2>5, <2>6, <2>7, <2>8
<1> QED
  BY <1>4, <1>5

\* Records u are a and behind them b.
Joined(u, a, b) ==
  /\ u \in Seq(Records) /\ Len(u) = Len(a) + Len(b) /\ Len(a) \in Nat /\ Len(b) \in Nat
  /\ \A i \in 1 .. Len(a) : u[i] = a[i]
  /\ \A i \in Len(a) + 1 .. Len(u) : i - Len(a) \in 1 .. Len(b) /\ u[i] = b[i - Len(a)]

LEMMA Joins ==
  ASSUME NEW a \in Seq(Records), NEW b \in Seq(Records)
  PROVE  Joined(a \o b, a, b)
<1> DEFINE u == a \o b
<1>1. u \in Seq(Records) /\ Len(u) = Len(a) + Len(b) /\ Len(a) \in Nat /\ Len(b) \in Nat
  BY LenProperties, ConcatProperties
<1>2. \A i \in 1 .. Len(a) + Len(b) : u[i] = IF i <= Len(a) THEN a[i] ELSE b[i - Len(a)]
  BY ConcatProperties
<1>3. \A i \in 1 .. Len(a) : u[i] = a[i]
  BY <1>1, <1>2
<1>4. \A i \in Len(a) + 1 .. Len(u) : i - Len(a) \in 1 .. Len(b) /\ u[i] = b[i - Len(a)]
  <2> SUFFICES ASSUME NEW i \in Len(a) + 1 .. Len(u) PROVE i - Len(a) \in 1 .. Len(b) /\ u[i] = b[i - Len(a)]
    OBVIOUS
  <2>1. i \in 1 .. Len(a) + Len(b) /\ ~(i <= Len(a)) /\ i - Len(a) \in 1 .. Len(b)
    BY <1>1
  <2> QED
    BY <1>2, <2>1
<1> QED
  BY <1>1, <1>3, <1>4 DEF Joined

LEMMA PutsAdds ==
  ASSUME Types, NEW e \in Ends, NEW w \in 1 .. Len(nonces[e]) + 1, NEW groups \in Seq(Seq(Items)),
         Puts(e, w, groups)
  PROVE  Adds(e, w, groups) /\ AddsAll(e, groups)
<1>1. /\ wire \in [Ends -> Seq(Records)] /\ wire[e] \in Seq(Records) /\ Len(wire[e]) \in Nat
      /\ Len(groups) \in Nat /\ w \in Nat /\ Len(nonces[e]) \in Nat
  BY LenProperties DEF Types
<1>2. PICK k : k = Len(groups)
  OBVIOUS
<1>3. nonces' = Used(e, w, groups, k)
  BY <1>2 DEF Puts
<1>4. /\ NonceOf(e, w) \in Nat /\ nonces' \in [Ends -> Seq(Nat)]
      /\ \A f \in Ends \ {e} : nonces'[f] = nonces[f]
      /\ Len(nonces'[e]) = (IF w <= Len(nonces[e]) THEN Len(nonces[e]) ELSE w)
      /\ \A v \in 1 .. Len(nonces[e]) : v # w => nonces'[e][v] = nonces[e][v]
      /\ nonces'[e][w] = NonceOf(e, w) + Len(groups)
  BY <1>3, UsedBy
<1>5. PICK n \in Nat : n = NonceOf(e, w)
  BY <1>4
<1>6. PICK t : t = Sealed(w, n, groups)
  OBVIOUS
<1>7. /\ t \in Seq(Records) /\ Len(t) = Len(groups)
      /\ \A i \in 1 .. Len(groups) : t[i] = Record(w, n + i - 1, groups[i])
  BY <1>1, <1>6, SealedBy, ZenonT(40)
<1>8. PICK u : u = wire[e] \o t
  OBVIOUS
<1>9. /\ wire' = [wire EXCEPT ![e] = u]
  BY <1>1, <1>5, <1>6, <1>8 DEF Puts
<1>10. /\ u \in Seq(Records) /\ Len(u) = Len(wire[e]) + Len(groups)
       /\ \A i \in 1 .. Len(wire[e]) : u[i] = wire[e][i]
       /\ \A i \in Len(wire[e]) + 1 .. Len(u) : i - Len(wire[e]) \in 1 .. Len(groups) /\ u[i] = t[i - Len(wire[e])]
  <2>1. PICK a \in Seq(Records) : a = wire[e]
    BY <1>1
  <2>2. u = a \o t
    BY <1>8, <2>1
  <2>3. Joined(u, a, t)
    BY <1>7, <2>2, Joins
  <2> QED
    BY <1>7, <2>1, <2>3 DEF Joined
<1>11. /\ wire' \in [Ends -> Seq(Records)] /\ wire'[e] = u /\ \A f \in Ends \ {e} : wire'[f] = wire[f]
  BY <1>1, <1>9, <1>10
<1>12. \A i \in 1 .. Len(wire[e]) : wire'[e][i] = wire[e][i]
  BY <1>1, <1>10, <1>11
<1>13. \A i \in Len(wire[e]) + 1 .. Len(wire'[e]) :
         /\ i - Len(wire[e]) \in 1 .. Len(groups)
         /\ wire'[e][i] = Record(w, n + (i - Len(wire[e])) - 1, groups[i - Len(wire[e])])
  <2> SUFFICES ASSUME NEW i \in Len(wire[e]) + 1 .. Len(wire'[e])
               PROVE  /\ i - Len(wire[e]) \in 1 .. Len(groups)
                      /\ wire'[e][i] = Record(w, n + (i - Len(wire[e])) - 1, groups[i - Len(wire[e])])
    OBVIOUS
  <2>1. i - Len(wire[e]) \in 1 .. Len(groups) /\ wire'[e][i] = t[i - Len(wire[e])]
    BY <1>10, <1>11
  <2> QED
    BY <1>7, <2>1
<1>14. Len(wire'[e]) = Len(wire[e]) + Len(groups) /\ Len(wire[e]) <= Len(wire'[e])
  BY <1>1, <1>10, <1>11
<1> QED
  BY <1>4, <1>5, <1>11, <1>12, <1>13, <1>14 DEF Adds, AddsAll

LEMMA PutFailsAdds ==
  ASSUME Types, NEW e \in Ends, NEW w \in 1 .. Len(nonces[e]) + 1, NEW groups \in Seq(Seq(Items)),
         groups # << >>, PutFails(e, w, groups)
  PROVE  Adds(e, w, groups) /\ AddsPart(e, groups)
<1>1. /\ wire \in [Ends -> Seq(Records)] /\ wire[e] \in Seq(Records) /\ Len(wire[e]) \in Nat
      /\ Len(groups) \in Nat /\ w \in Nat /\ Len(nonces[e]) \in Nat /\ Len(groups) > 0
  BY LenProperties, EmptySeq DEF Types
<1>2. PICK written : nonces' = Used(e, w, groups, written)
  BY DEF PutFails
<1>3. /\ NonceOf(e, w) \in Nat /\ nonces' \in [Ends -> Seq(Nat)]
      /\ \A f \in Ends \ {e} : nonces'[f] = nonces[f]
      /\ Len(nonces'[e]) = (IF w <= Len(nonces[e]) THEN Len(nonces[e]) ELSE w)
      /\ \A v \in 1 .. Len(nonces[e]) : v # w => nonces'[e][v] = nonces[e][v]
      /\ nonces'[e][w] = NonceOf(e, w) + Len(groups)
  BY <1>2, UsedBy
<1>4. CASE wire' = wire
  <2>1. Len(wire'[e]) = Len(wire[e]) /\ Len(wire'[e]) < Len(wire[e]) + Len(groups)
    BY <1>1, <1>4
  <2>2. \A i \in Len(wire[e]) + 1 .. Len(wire'[e]) : FALSE
    BY <1>1, <2>1
  <2> QED
    BY <1>1, <1>3, <1>4, <2>1, <2>2, SMTT(30) DEF Adds, AddsPart
<1>5. CASE \E k \in 0 .. Len(groups) - 1, rest \in {<< >>, << Torn >>} :
             wire' = [wire EXCEPT ![e] = @ \o SubSeq(Sealed(w, NonceOf(e, w), groups), 1, k) \o rest]
  <2>1. PICK n \in Nat : n = NonceOf(e, w)
    BY <1>3
  <2>2. PICK t : t = Sealed(w, n, groups)
    OBVIOUS
  <2>3. /\ t \in Seq(Records) /\ Len(t) = Len(groups)
        /\ \A i \in 1 .. Len(groups) : t[i] = Record(w, n + i - 1, groups[i])
    BY <1>1, <2>2, SealedBy, ZenonT(40)
  <2>4. PICK k \in 0 .. Len(groups) - 1, rest \in {<< >>, << Torn >>} :
             wire' = [wire EXCEPT ![e] = wire[e] \o SubSeq(t, 1, k) \o rest]
    BY <1>5, <2>1, <2>2
  <2>5. PICK s : s = SubSeq(t, 1, k)
    OBVIOUS
  <2>6. s \in Seq(Records) /\ Len(s) = k /\ \A i \in 1 .. k : s[i] = t[i]
    <3>1. k \in Nat /\ k <= Len(t)
      BY <1>1, <2>3
    <3> QED
      BY <2>3, <2>5, <3>1, SubSeqProperties
  <2>7. PICK v : v = wire[e] \o s
    OBVIOUS
  <2>8. /\ v \in Seq(Records) /\ Len(v) = Len(wire[e]) + k
        /\ \A i \in 1 .. Len(wire[e]) : v[i] = wire[e][i]
        /\ \A i \in Len(wire[e]) + 1 .. Len(v) : i - Len(wire[e]) \in 1 .. k /\ v[i] = s[i - Len(wire[e])]
    <3>1. PICK a \in Seq(Records) : a = wire[e]
      BY <1>1
    <3>2. v = a \o s
      BY <2>7, <3>1
    <3>3. Joined(v, a, s)
      BY <2>6, <3>2, Joins
    <3> QED
      BY <2>6, <3>1, <3>3 DEF Joined
  <2>9. PICK u : u = v \o rest
    OBVIOUS
  <2>10. Torn \in Records
    BY DEF Torn, Record, Records
  <2>11. /\ u \in Seq(Records) /\ Len(u) >= Len(v) /\ \A i \in 1 .. Len(v) : u[i] = v[i]
         /\ rest = << >> => Len(u) = Len(v)
         /\ rest # << >> => Len(u) = Len(v) + 1 /\ u[Len(u)] = Torn
    <3>1. CASE rest = << >>
      <4>1. u = v
        BY <2>8, <2>9, <3>1, ConcatEmptySeq
      <4> QED
        BY <2>8, <3>1, <4>1
    <3>2. CASE rest = << Torn >>
      <4>1. u = Append(v, Torn)
        BY <2>8, <2>9, <2>10, <3>2
      <4>2. Len(v) \in Nat /\ u \in Seq(Records) /\ Len(u) = Len(v) + 1
        BY <2>8, <2>10, <4>1, AppendProperties, LenProperties, ZenonT(40)
      <4>3. \A i \in 1 .. Len(v) : u[i] = v[i]
        BY <2>8, <2>10, <4>1, AppendProperties
      <4>4. u[Len(v) + 1] = Torn
        BY <2>8, <2>10, <4>1, AppendProperties
      <4> QED
        BY <3>2, <4>2, <4>3, <4>4
    <3> QED
      BY <3>1, <3>2
  <2>12. /\ wire' \in [Ends -> Seq(Records)] /\ wire'[e] = u /\ \A f \in Ends \ {e} : wire'[f] = wire[f]
    BY <1>1, <2>4, <2>5, <2>7, <2>9, <2>11
  <2>13. Len(wire[e]) <= Len(u) /\ \A i \in 1 .. Len(wire[e]) : u[i] = wire[e][i]
    <3>1. Len(v) >= Len(wire[e]) /\ Len(u) >= Len(v) /\ \A i \in 1 .. Len(wire[e]) : i \in 1 .. Len(v)
      BY <1>1, <2>8, <2>11
    <3>2. Len(u) \in Nat /\ Len(v) \in Nat
      BY <2>8, <2>11, LenProperties
    <3>3. \A i \in 1 .. Len(wire[e]) : u[i] = v[i] /\ v[i] = wire[e][i]
      BY <2>8, <2>11, <3>1
    <3>4. Len(wire[e]) <= Len(u)
      BY <1>1, <3>1, <3>2
    <3> QED
      BY <3>3, <3>4
  <2>14. ASSUME NEW i \in Len(wire[e]) + 1 .. Len(u), u[i] # Torn
         PROVE  /\ i - Len(wire[e]) \in 1 .. Len(groups)
                /\ u[i] = Record(w, n + (i - Len(wire[e])) - 1, groups[i - Len(wire[e])])
    <3>1. i \in Len(wire[e]) + 1 .. Len(v)
      BY <1>1, <2>8, <2>11, <2>14
    <3>2. i - Len(wire[e]) \in 1 .. k /\ i \in 1 .. Len(v) /\ v[i] = s[i - Len(wire[e])]
      BY <1>1, <2>8, <3>1
    <3>3. u[i] = s[i - Len(wire[e])] /\ s[i - Len(wire[e])] = t[i - Len(wire[e])]
      BY <2>6, <2>11, <3>2
    <3>4. i - Len(wire[e]) \in 1 .. Len(groups)
      BY <1>1, <3>2
    <3> QED
      BY <2>3, <3>3, <3>4
  <2>15. Len(u) < Len(wire[e]) + Len(groups) \/ (u # << >> /\ u[Len(u)] = Torn)
    <3>1. CASE rest = << >>
      BY <1>1, <2>8, <2>11, <3>1
    <3>2. CASE rest # << >>
      <4>1. Len(u) = Len(v) + 1 /\ Len(v) \in Nat
        BY <1>1, <2>8, <2>11, <3>2
      <4> QED
        BY <2>11, <3>2, <4>1, EmptySeq
    <3> QED
      BY <3>1, <3>2
  <2> QED
    BY <1>3, <2>1, <2>12, <2>13, <2>14, <2>15 DEF Adds, AddsPart
<1> QED
  BY <1>4, <1>5 DEF PutFails

-----------------------------------------------------------------------------
\* What of it is legible.

LEMMA LegibleOld ==
  ASSUME Types, NEW e \in Ends, NEW w, NEW groups, Adds(e, w, groups)
  PROVE  /\ \A i \in 1 .. Len(wire[e]) : i \in Legible(e)' <=> i \in Legible(e)
         /\ Len(wire[e]) \in Nat /\ Len(wire'[e]) \in Nat
         /\ DOMAIN wire[e] = 1 .. Len(wire[e]) /\ DOMAIN wire'[e] = 1 .. Len(wire'[e])
         /\ \A i \in Legible(e) : i \in DOMAIN wire[e]
         /\ \A i \in Legible(e)' : i \in DOMAIN wire'[e]
<1>1. /\ Len(wire[e]) \in Nat /\ Len(wire'[e]) \in Nat /\ Len(wire[e]) <= Len(wire'[e])
      /\ DOMAIN wire[e] = 1 .. Len(wire[e]) /\ DOMAIN wire'[e] = 1 .. Len(wire'[e])
  BY LenProperties DEF Types, Adds
<1>2. \A i \in 1 .. Len(wire[e]) : wire'[e][i] = wire[e][i]
  BY DEF Adds
<1>3. ASSUME NEW i \in 1 .. Len(wire[e]) PROVE i \in Legible(e)' <=> i \in Legible(e)
  <2>1. i \in DOMAIN wire[e] /\ i \in DOMAIN wire'[e] /\ 1 \in 1 .. Len(wire[e])
    BY <1>1
  <2>2. \A j \in 1 .. i : j \in 1 .. Len(wire[e])
    BY <1>1
  <2>3. wire'[e][1] = wire[e][1] /\ \A j \in 1 .. i : wire'[e][j] = wire[e][j]
    BY <1>2, <2>1, <2>2
  <2> QED
    BY <2>1, <2>3 DEF Legible
<1>4. /\ \A i \in Legible(e) : i \in DOMAIN wire[e]
      /\ \A i \in Legible(e)' : i \in DOMAIN wire'[e]
  BY DEF Legible
<1> QED
  BY <1>1, <1>3, <1>4

LEMMA LegibleNew ==
  ASSUME Types, NEW e \in Ends, NEW w \in Nat, NEW groups, Adds(e, w, groups), NonceOf(e, w) \in Nat,
         NEW i \in Len(wire[e]) + 1 .. Len(wire'[e]), i \in Legible(e)'
  PROVE  /\ Legible(e) = DOMAIN wire[e] /\ NonceOf(e, w) = Len(wire[e])
         /\ wire[e] # << >> => wire[e][1].writer = w
         /\ i - Len(wire[e]) \in 1 .. Len(groups)
         /\ wire'[e][i] = Record(w, i - 1, groups[i - Len(wire[e])])
<1>1. /\ Len(wire[e]) \in Nat /\ Len(wire'[e]) \in Nat /\ Len(wire[e]) <= Len(wire'[e])
      /\ DOMAIN wire[e] = 1 .. Len(wire[e]) /\ DOMAIN wire'[e] = 1 .. Len(wire'[e])
      /\ \A k \in 1 .. Len(wire[e]) : k \in Legible(e)' <=> k \in Legible(e)
      /\ \A k \in Legible(e) : k \in DOMAIN wire[e]
  <2>1. Len(wire[e]) <= Len(wire'[e])
    BY DEF Adds
  <2> QED
    BY <2>1, LegibleOld
<1>2. \A k \in 1 .. i : /\ wire'[e][k] # Torn /\ wire'[e][k].n = k - 1
                        /\ wire'[e][k].writer = wire'[e][1].writer
  BY DEF Legible
<1>3. \A k \in 1 .. Len(wire[e]) : k \in Legible(e)'
  <2> SUFFICES ASSUME NEW k \in 1 .. Len(wire[e]) PROVE k \in Legible(e)'
    OBVIOUS
  <2>1. k \in DOMAIN wire'[e] /\ \A m \in 1 .. k : m \in 1 .. i
    BY <1>1
  <2> QED
    BY <1>2, <2>1 DEF Legible
<1>4. Legible(e) = DOMAIN wire[e]
  BY <1>1, <1>3
<1>5. ASSUME NEW k \in Len(wire[e]) + 1 .. i
      PROVE  /\ k - Len(wire[e]) \in 1 .. Len(groups)
             /\ wire'[e][k] = Record(w, k - 1, groups[k - Len(wire[e])])
             /\ NonceOf(e, w) = Len(wire[e]) /\ wire'[e][1].writer = w
  <2>1. k \in 1 .. i /\ k \in Len(wire[e]) + 1 .. Len(wire'[e]) /\ k \in Int
    BY <1>1
  <2>2. wire'[e][k] # Torn /\ wire'[e][k].n = k - 1 /\ wire'[e][k].writer = wire'[e][1].writer
    BY <1>2, <2>1
  <2>3. /\ k - Len(wire[e]) \in 1 .. Len(groups)
        /\ wire'[e][k] = Record(w, NonceOf(e, w) + (k - Len(wire[e])) - 1, groups[k - Len(wire[e])])
    BY <2>1, <2>2 DEF Adds
  <2>4. /\ wire'[e][k].n = NonceOf(e, w) + (k - Len(wire[e])) - 1 /\ wire'[e][k].writer = w
    BY <2>3 DEF Record
  <2>5. NonceOf(e, w) = Len(wire[e]) /\ NonceOf(e, w) + (k - Len(wire[e])) - 1 = k - 1
    BY <1>1, <2>1, <2>2, <2>4
  <2> QED
    BY <2>2, <2>3, <2>4, <2>5
<1>6. i \in Len(wire[e]) + 1 .. i
  BY <1>1
<1>7. wire[e] # << >> => wire'[e][1] = wire[e][1]
  <2>1. wire[e] # << >> => 1 \in 1 .. Len(wire[e])
    BY <1>1, EmptySeq DEF Types
  <2> QED
    BY <2>1 DEF Adds
<1> QED
  BY <1>4, <1>5, <1>6, <1>7

LEMMA WriterOfKnown ==
  ASSUME Types, NEW e \in Ends, Published(e), Ours(e)
  PROVE  /\ WriterOf(e) \in 1 .. Len(nonces[e]) + 1 /\ WriterOf(e) \in Nat \ {0} /\ Len(nonces[e]) \in Nat
         /\ writer[e] = 0 => WriterOf(e) = Len(nonces[e]) + 1 /\ NonceOf(e, WriterOf(e)) = 0
         /\ writer[e] # 0 => WriterOf(e) = writer[e] /\ writer[e] \in 1 .. Len(nonces[e])
                             /\ NonceOf(e, WriterOf(e)) = nonces[e][writer[e]]
                             /\ NonceOf(e, WriterOf(e)) # 0
         /\ NonceOf(e, WriterOf(e)) \in Nat
<1>1. /\ nonces[e] \in Seq(Nat) /\ Len(nonces[e]) \in Nat /\ writer[e] \in Nat
      /\ \A v \in 1 .. Len(nonces[e]) : nonces[e][v] \in Nat
  BY LenProperties DEF Types
<1>2. CASE writer[e] = 0
  BY <1>1, <1>2 DEF WriterOf, NewWriter, NonceOf
<1>3. CASE writer[e] # 0
  BY <1>1, <1>3 DEF WriterOf, NonceOf, Published
<1> QED
  BY <1>2, <1>3

\* Only what is alive grows.
LEMMA NewAlive ==
  ASSUME Types, NEW e \in Ends, Ours(e), Published(e), Signed(e), NEW groups, Adds(e, WriterOf(e), groups),
         NEW i \in Len(wire[e]) + 1 .. Len(wire'[e]), i \in Legible(e)'
  PROVE  Alive(e)
<1>1. PICK w : w = WriterOf(e)
  OBVIOUS
<1>2. /\ w \in Nat /\ NonceOf(e, w) \in Nat /\ Len(nonces[e]) \in Nat
      /\ writer[e] = 0 => w = Len(nonces[e]) + 1
      /\ writer[e] # 0 => w = writer[e] /\ NonceOf(e, w) = nonces[e][writer[e]]
  BY <1>1, WriterOfKnown
<1>3. /\ Legible(e) = DOMAIN wire[e] /\ NonceOf(e, w) = Len(wire[e])
      /\ wire[e] # << >> => wire[e][1].writer = w
  BY <1>1, <1>2, LegibleNew
<1>4. SUFFICES ASSUME wire[e] # << >> PROVE Alive(e)
  BY DEF Alive
<1>5. 1 \in DOMAIN wire[e]
  BY <1>4, EmptySeq, LenProperties DEF Types
<1>6. wire[e][1] # Torn
  <2>1. 1 \in Legible(e) /\ 1 \in 1 .. 1
    BY <1>3, <1>5
  <2> QED
    BY <2>1 DEF Legible
<1>7. w \in 1 .. Len(nonces[e])
  BY <1>3, <1>4, <1>5, <1>6 DEF Signed
<1>8. writer[e] # 0
  BY <1>2, <1>7
<1> QED
  BY <1>2, <1>3, <1>4, <1>8 DEF Alive

-----------------------------------------------------------------------------
\* A write keeps the order.

\* A head, if there is one, comes first in the first record of a writer.
Headed(groups, n) ==
  \A m \in 1 .. Len(groups) :
    /\ groups[m] # << >>
    /\ \A k \in DOMAIN groups[m] : groups[m][k] \in Heads <=> n + m - 1 = 0 /\ k = 1

\* The data of the groups are in order, and are what callers at that end have left.
InSequence(groups) ==
  \A m, o \in 1 .. Len(groups) : \A k \in DOMAIN groups[m], l \in DOMAIN groups[o] :
    m < o \/ (m = o /\ k < l) => Follows(groups[m][k], groups[o][l])
LeftAt(e, groups) ==
  \A m \in 1 .. Len(groups) : \A k \in DOMAIN groups[m] :
    groups[m][k].what = "data" =>
      \E g \in Goroutines : /\ EndOf(g) = e /\ groups[m][k].by = g
                            /\ \E l \in DOMAIN call[g].left : call[g].left[l] = groups[m][k]

Proper(e, groups) ==
  /\ groups \in Seq(Seq(Items)) /\ Headed(groups, NonceOf(e, WriterOf(e))) /\ InSequence(groups)
  /\ LeftAt(e, groups)

LEMMA TurnKept ==
  ASSUME Types, Ahead, NEW e \in Ends, Ours(e), Published(e), Signed(e), HeardInTurn(e),
         NEW groups, Proper(e, groups), Adds(e, WriterOf(e), groups)
  PROVE  HeardInTurn(e)'
<1>1. PICK w \in Nat : w = WriterOf(e)
  BY WriterOfKnown
<1>2. NonceOf(e, w) \in Nat
  BY <1>1, WriterOfKnown
<1>3. /\ \A i \in 1 .. Len(wire[e]) : i \in Legible(e)' <=> i \in Legible(e)
      /\ Len(wire[e]) \in Nat /\ Len(wire'[e]) \in Nat
      /\ DOMAIN wire[e] = 1 .. Len(wire[e]) /\ DOMAIN wire'[e] = 1 .. Len(wire'[e])
      /\ \A i \in Legible(e)' : i \in DOMAIN wire'[e]
  BY LegibleOld
<1>4. \A i \in 1 .. Len(wire[e]) : wire'[e][i] = wire[e][i]
  BY DEF Adds
<1>5. ASSUME NEW i \in Len(wire[e]) + 1 .. Len(wire'[e]), i \in Legible(e)'
      PROVE  /\ i - Len(wire[e]) \in 1 .. Len(groups) /\ wire'[e][i].items = groups[i - Len(wire[e])]
             /\ Alive(e)
  <2>1. /\ i - Len(wire[e]) \in 1 .. Len(groups)
        /\ wire'[e][i] = Record(w, i - 1, groups[i - Len(wire[e])])
    BY <1>1, <1>2, <1>5, LegibleNew
  <2>2. Alive(e)
    BY <1>5, NewAlive
  <2> QED
    BY <2>1, <2>2 DEF Record
<1>6. ASSUME NEW i \in Legible(e)', NEW k \in Legible(e)', NEW j \in DOMAIN wire'[e][i].items,
             NEW l \in DOMAIN wire'[e][k].items, i < k \/ (i = k /\ j < l)
      PROVE  Follows(wire'[e][i].items[j], wire'[e][k].items[l])
  <2>1. i \in 1 .. Len(wire'[e]) /\ k \in 1 .. Len(wire'[e]) /\ i <= k
    BY <1>3, <1>6
  <2>2. CASE k <= Len(wire[e])
    <3>1. i \in 1 .. Len(wire[e]) /\ k \in 1 .. Len(wire[e])
      BY <1>3, <2>1, <2>2
    <3>2. /\ i \in Legible(e) /\ k \in Legible(e) /\ wire'[e][i] = wire[e][i] /\ wire'[e][k] = wire[e][k]
      BY <1>3, <1>4, <1>6, <3>1
    <3> QED
      BY <1>6, <3>2 DEF HeardInTurn
  <2>3. CASE k > Len(wire[e]) /\ i <= Len(wire[e])
    <3>1. k \in Len(wire[e]) + 1 .. Len(wire'[e]) /\ i \in 1 .. Len(wire[e])
      BY <1>3, <2>1, <2>3
    <3>2. /\ k - Len(wire[e]) \in 1 .. Len(groups) /\ wire'[e][k].items = groups[k - Len(wire[e])]
          /\ Alive(e)
      BY <1>5, <3>1
    <3>3. wire'[e][i] = wire[e][i] /\ i \in DOMAIN wire[e]
      BY <1>3, <1>4, <3>1
    <3>4. PICK a : a = wire[e][i].items[j]
      OBVIOUS
    <3>5. PICK b : b = groups[k - Len(wire[e])][l]
      OBVIOUS
    <3>6. SUFFICES ASSUME a.what = "data", b.what = "data", a.by = b.by PROVE a.n < b.n
      BY <3>2, <3>3, <3>4, <3>5 DEF Follows
    <3>7. PICK g \in Goroutines : /\ EndOf(g) = e /\ b.by = g
                                  /\ \E m \in DOMAIN call[g].left : call[g].left[m] = b
      BY <3>2, <3>5, <3>6 DEF Proper, LeftAt
    <3>8. j \in DOMAIN wire[e][i].items
      BY <3>3
    <3>9. Behind(g, a)
      BY <3>2, <3>3, <3>4, <3>7, <3>8 DEF Ahead
    <3> QED
      BY <3>6, <3>7, <3>9 DEF Behind
  <2>4. CASE k > Len(wire[e]) /\ i > Len(wire[e])
    <3>1. k \in Len(wire[e]) + 1 .. Len(wire'[e]) /\ i \in Len(wire[e]) + 1 .. Len(wire'[e])
      BY <1>3, <2>1, <2>4
    <3>2. /\ k - Len(wire[e]) \in 1 .. Len(groups) /\ wire'[e][k].items = groups[k - Len(wire[e])]
          /\ i - Len(wire[e]) \in 1 .. Len(groups) /\ wire'[e][i].items = groups[i - Len(wire[e])]
      BY <1>5, <3>1
    <3>3. \/ i - Len(wire[e]) < k - Len(wire[e])
          \/ i - Len(wire[e]) = k - Len(wire[e]) /\ j < l
      BY <1>3, <1>6, <2>1
    <3> QED
      BY <3>2, <3>3 DEF Proper, InSequence
  <2> QED
    BY <1>3, <2>1, <2>2, <2>3, <2>4
<1> QED
  BY <1>6 DEF HeardInTurn

LEMMA SignKept ==
  ASSUME Types, NEW e \in Ends, Ours(e), Published(e), Signed(e), NEW groups, Proper(e, groups),
         Adds(e, WriterOf(e), groups)
  PROVE  Signed(e)'
<1>1. PICK w \in Nat : w = WriterOf(e)
  BY WriterOfKnown
<1>2. /\ w \in 1 .. Len(nonces[e]) + 1 /\ Len(nonces[e]) \in Nat /\ NonceOf(e, w) \in Nat
      /\ w <= Len(nonces[e]) => NonceOf(e, w) = nonces[e][w]
  BY <1>1, WriterOfKnown DEF NonceOf
<1>3. /\ Len(nonces'[e]) = (IF w <= Len(nonces[e]) THEN Len(nonces[e]) ELSE w)
      /\ \A v \in 1 .. Len(nonces[e]) : v # w => nonces'[e][v] = nonces[e][v]
      /\ nonces'[e][w] = NonceOf(e, w) + Len(groups)
      /\ \A i \in 1 .. Len(wire[e]) : wire'[e][i] = wire[e][i]
      /\ \A i \in Len(wire[e]) + 1 .. Len(wire'[e]) : wire'[e][i] # Torn =>
           /\ i - Len(wire[e]) \in 1 .. Len(groups)
           /\ wire'[e][i] = Record(w, NonceOf(e, w) + (i - Len(wire[e])) - 1, groups[i - Len(wire[e])])
  BY <1>1 DEF Adds
<1>4. /\ Len(wire[e]) \in Nat /\ Len(wire'[e]) \in Nat /\ Len(groups) \in Nat
      /\ DOMAIN wire[e] = 1 .. Len(wire[e]) /\ DOMAIN wire'[e] = 1 .. Len(wire'[e])
  BY LegibleOld, LenProperties DEF Proper
<1>5. ASSUME NEW i \in 1 .. Len(wire'[e]), wire'[e][i] # Torn, NEW r, r = wire'[e][i]
      PROVE  /\ r.writer \in 1 .. Len(nonces'[e]) /\ r.n < nonces'[e][r.writer] /\ r.items # << >>
             /\ \A j \in DOMAIN r.items : r.items[j] \in Heads <=> r.n = 0 /\ j = 1
  <2>1. CASE i <= Len(wire[e])
    <3>1. i \in DOMAIN wire[e] /\ r = wire[e][i] /\ wire[e][i] # Torn /\ r \in Records
      BY <1>3, <1>4, <1>5, <2>1 DEF Types
    <3>2. /\ r.writer \in 1 .. Len(nonces[e]) /\ r.n < nonces[e][r.writer] /\ r.items # << >>
          /\ \A j \in DOMAIN r.items : r.items[j] \in Heads <=> r.n = 0 /\ j = 1
      BY <3>1 DEF Signed
    <3>3. r.n \in Nat /\ nonces[e][r.writer] \in Nat
      <4>1. r.n \in Nat
        BY <3>1 DEF Records
      <4>2. nonces[e] \in Seq(Nat)
        BY DEF Types
      <4> QED
        BY <3>2, <4>1, <4>2
    <3>4. nonces'[e][r.writer] >= nonces[e][r.writer] /\ nonces'[e][r.writer] \in Int
      <4>1. PICK v \in 1 .. Len(nonces[e]) : v = r.writer
        BY <3>2
      <4>2. CASE v = w
        <5>1. NonceOf(e, w) = nonces[e][v] /\ nonces'[e][v] = NonceOf(e, w) + Len(groups)
          BY <1>2, <1>3, <4>2
        <5> QED
          BY <1>2, <1>4, <4>1, <5>1
      <4>3. CASE v # w
        BY <1>3, <3>3, <4>1, <4>3
      <4> QED
        BY <4>2, <4>3
    <3>5. r.writer \in 1 .. Len(nonces'[e])
      BY <1>2, <1>3, <3>2
    <3> QED
      BY <3>2, <3>3, <3>4, <3>5
  <2>2. CASE ~(i <= Len(wire[e]))
    <3>1. PICK m \in 1 .. Len(groups) : m = i - Len(wire[e]) /\ r = Record(w, NonceOf(e, w) + m - 1, groups[m])
      <4>1. i \in Len(wire[e]) + 1 .. Len(wire'[e])
        BY <1>4, <2>2
      <4>2. /\ i - Len(wire[e]) \in 1 .. Len(groups)
            /\ r = Record(w, NonceOf(e, w) + (i - Len(wire[e])) - 1, groups[i - Len(wire[e])])
        BY <1>3, <1>5, <4>1
      <4> QED
        BY <4>2
    <3>2. r.writer = w /\ r.n = NonceOf(e, w) + m - 1 /\ r.items = groups[m]
      BY <3>1 DEF Record
    <3>3. r.n < nonces'[e][w] /\ w \in 1 .. Len(nonces'[e])
      BY <1>2, <1>3, <1>4, <3>2
    <3>4. groups[m] # << >> /\ \A k \in DOMAIN groups[m] : groups[m][k] \in Heads <=> NonceOf(e, w) + m - 1 = 0 /\ k = 1
      BY <1>1 DEF Proper, Headed
    <3> QED
      BY <3>2, <3>3, <3>4
  <2> QED
    BY <2>1, <2>2
<1> QED
  BY <1>4, <1>5 DEF Signed

\* What is alive after a write was so before, and a write that failed leaves nothing alive.
LEMMA AliveKept ==
  ASSUME Types, NEW e \in Ends, Ours(e), Published(e), Signed(e), NEW groups, Len(groups) \in Nat,
         Adds(e, WriterOf(e), groups), Alive(e)'
  PROVE  /\ AddsAll(e, groups) /\ writer'[e] = WriterOf(e) => Alive(e)
         /\ AddsPart(e, groups) /\ writer'[e] = writer[e] => wire'[e] = << >>
<1>1. PICK w \in Nat \ {0} : w = WriterOf(e)
  BY WriterOfKnown
<1>2. /\ w \in 1 .. Len(nonces[e]) + 1 /\ Len(nonces[e]) \in Nat /\ NonceOf(e, w) \in Nat
      /\ writer[e] = 0 => w = Len(nonces[e]) + 1
      /\ writer[e] # 0 => w = writer[e] /\ NonceOf(e, w) = nonces[e][writer[e]]
  BY <1>1, WriterOfKnown
<1>3. /\ Len(wire[e]) \in Nat /\ Len(wire'[e]) \in Nat /\ Len(wire[e]) <= Len(wire'[e])
      /\ DOMAIN wire[e] = 1 .. Len(wire[e]) /\ DOMAIN wire'[e] = 1 .. Len(wire'[e])
      /\ \A i \in 1 .. Len(wire[e]) : i \in Legible(e)' <=> i \in Legible(e)
      /\ \A i \in Legible(e) : i \in DOMAIN wire[e]
      /\ \A i \in Legible(e)' : i \in DOMAIN wire'[e]
  <2>1. Len(wire[e]) <= Len(wire'[e])
    BY DEF Adds
  <2> QED
    BY <2>1, LegibleOld
<1>4. /\ \A i \in 1 .. Len(wire[e]) : wire'[e][i] = wire[e][i]
      /\ nonces'[e][w] = NonceOf(e, w) + Len(groups)
  BY <1>1 DEF Adds
<1>5. wire[e] # << >> => 1 \in 1 .. Len(wire[e])
  BY <1>3, EmptySeq DEF Types
<1>6. wire'[e] # << >> => /\ 1 \in 1 .. Len(wire'[e]) /\ Len(wire'[e]) \in Legible(e)'
                          /\ wire'[e][Len(wire'[e])] # Torn
  <2> SUFFICES ASSUME wire'[e] # << >>
               PROVE  /\ 1 \in 1 .. Len(wire'[e]) /\ Len(wire'[e]) \in Legible(e)'
                      /\ wire'[e][Len(wire'[e])] # Torn
    OBVIOUS
  <2>1. 1 \in 1 .. Len(wire'[e]) /\ Len(wire'[e]) \in 1 .. Len(wire'[e])
    BY <1>3, EmptySeq DEF Adds
  <2>2. Len(wire'[e]) \in Legible(e)'
    BY <1>3, <2>1 DEF Alive
  <2> QED
    BY <2>1, <2>2 DEF Legible
<1>7. ASSUME wire'[e] # << >>
      PROVE  /\ Legible(e)' = DOMAIN wire'[e] /\ writer'[e] # 0 /\ wire'[e][1].writer = writer'[e]
             /\ nonces'[e][writer'[e]] = Len(wire'[e])
  BY <1>7 DEF Alive
<1>8. ASSUME AddsAll(e, groups), writer'[e] = WriterOf(e), wire[e] # << >> PROVE Alive(e)
  <2>1. wire'[e] # << >> /\ wire'[e][1] = wire[e][1]
    BY <1>3, <1>4, <1>5, <1>8, EmptySeq
  <2>2. /\ Legible(e)' = DOMAIN wire'[e] /\ wire[e][1].writer = w /\ nonces'[e][w] = Len(wire'[e])
    BY <1>1, <1>7, <1>8, <2>1
  <2>3. Legible(e) = DOMAIN wire[e]
    <3>1. \A i \in 1 .. Len(wire[e]) : i \in 1 .. Len(wire'[e])
      BY <1>3
    <3>2. \A i \in 1 .. Len(wire[e]) : i \in Legible(e)
      BY <1>3, <2>2, <3>1
    <3> QED
      BY <1>3, <3>2
  <2>4. wire[e][1] # Torn
    <3>1. 1 \in Legible(e) /\ 1 \in 1 .. 1
      BY <1>3, <1>5, <1>8, <2>3
    <3> QED
      BY <3>1 DEF Legible
  <2>5. w \in 1 .. Len(nonces[e])
    BY <1>3, <1>5, <1>8, <2>2, <2>4 DEF Signed
  <2>6. writer[e] # 0 /\ writer[e] = w
    BY <1>2, <2>5
  <2>7. NonceOf(e, w) = Len(wire[e])
    BY <1>2, <1>3, <1>4, <1>8, <2>2 DEF AddsAll
  <2> QED
    BY <1>2, <2>2, <2>3, <2>6, <2>7 DEF Alive
<1>9. ASSUME AddsPart(e, groups), writer'[e] = writer[e], wire'[e] # << >> PROVE FALSE
  <2>1. /\ Legible(e)' = DOMAIN wire'[e] /\ w = writer[e] /\ wire'[e][1].writer = w
        /\ nonces'[e][w] = Len(wire'[e]) /\ NonceOf(e, w) = nonces[e][w]
    BY <1>2, <1>7, <1>9
  <2>2. Len(wire'[e]) < Len(wire[e]) + Len(groups)
    BY <1>6, <1>9 DEF AddsPart
  <2>3. NonceOf(e, w) < Len(wire[e])
    BY <1>2, <1>3, <1>4, <2>1, <2>2, SMTT(30)
  <2>4. wire[e] # << >>
    <3>1. Len(wire[e]) > 0
      BY <1>2, <1>3, <2>3
    <3> QED
      BY <3>1, EmptySeq
  <2>5. PICK m \in 1 .. Len(wire[e]) : m = Len(wire[e])
    BY <1>3, <1>5, <2>4
  <2>6. m \in Legible(e)' /\ wire'[e][m] = wire[e][m] /\ m \in 1 .. m /\ m \in DOMAIN wire[e]
    BY <1>3, <1>4, <2>1, <2>5
  <2>7. wire[e][m] # Torn /\ wire[e][m].n = m - 1 /\ wire[e][m].writer = w
    BY <2>1, <2>6 DEF Legible
  <2>8. m - 1 < NonceOf(e, w)
    BY <2>1, <2>6, <2>7 DEF Signed
  <2> QED
    BY <1>2, <2>3, <2>5, <2>8
<1> QED
  BY <1>8, <1>9 DEF Alive

\* A goroutine that goes on has nothing to write but what it had left, or something new.
Onward(g) ==
  /\ call'[g].last >= call[g].last /\ call[g].last \in Int /\ call'[g].last \in Int
  /\ \A k \in DOMAIN call'[g].left :
       /\ call'[g].left[k].n \in Int
       /\ \/ \E l \in DOMAIN call[g].left : call'[g].left[k] = call[g].left[l]
          \/ call'[g].left[k].n > call[g].last

\* What has been written is behind it.
Past(g, groups) ==
  \A m \in 1 .. Len(groups) : \A k \in DOMAIN groups[m] :
    groups[m][k].what = "data" /\ groups[m][k].by = g =>
      /\ groups[m][k].n <= call'[g].last
      /\ \A l \in DOMAIN call'[g].left : groups[m][k].n < call'[g].left[l].n

BehindNext(g, item) ==
  item.what = "data" /\ item.by = g =>
    item.n <= call'[g].last /\ \A k \in DOMAIN call'[g].left : item.n < call'[g].left[k].n

LEMMA BehindKept ==
  ASSUME NEW g \in Goroutines, Onward(g), NEW item \in Items, Behind(g, item)
  PROVE  BehindNext(g, item)
<1> SUFFICES ASSUME item.what = "data", item.by = g
             PROVE  item.n <= call'[g].last /\ \A k \in DOMAIN call'[g].left : item.n < call'[g].left[k].n
  BY DEF BehindNext
<1>1. item.n <= call[g].last /\ \A k \in DOMAIN call[g].left : item.n < call[g].left[k].n
  BY DEF Behind
<1>2. item.n \in Int
  BY DEF Items
<1>3. item.n <= call'[g].last
  BY <1>1, <1>2 DEF Onward
<1>4. ASSUME NEW k \in DOMAIN call'[g].left PROVE item.n < call'[g].left[k].n
  <2>1. CASE \E l \in DOMAIN call[g].left : call'[g].left[k] = call[g].left[l]
    BY <1>1, <2>1
  <2>2. CASE call'[g].left[k].n > call[g].last
    BY <1>1, <1>2, <2>2 DEF Onward
  <2> QED
    BY <2>1, <2>2 DEF Onward
<1> QED
  BY <1>3, <1>4

LEMMA WriteKeeps ==
  ASSUME Types, WiresWell, Ahead, NEW e \in Ends, Ours(e), NEW groups, Proper(e, groups), groups # << >>,
         Adds(e, WriterOf(e), groups), UNCHANGED <<kind, side>>,
         \A f \in Ends \ {e} : writer'[f] = writer[f],
         \/ /\ AddsAll(e, groups) /\ writer'[e] = WriterOf(e)
            /\ \A g \in Goroutines : Onward(g) /\ Past(g, groups)
         \/ /\ AddsPart(e, groups) /\ writer'[e] = writer[e]
            /\ \A g \in Goroutines : EndOf(g) # e => Onward(g)
  PROVE  WiresWell' /\ Ahead'
<1>1. Published(e) /\ Signed(e) /\ HeardInTurn(e)
  BY DEF WiresWell
<1>2. HeardInTurn(e)' /\ Signed(e)'
  BY <1>1, TurnKept, SignKept
<1>3. /\ Len(wire[e]) \in Nat /\ Len(wire'[e]) \in Nat /\ Len(groups) \in Nat /\ Len(groups) > 0
      /\ DOMAIN wire[e] = 1 .. Len(wire[e]) /\ DOMAIN wire'[e] = 1 .. Len(wire'[e])
  BY LegibleOld, LenProperties, EmptySeq DEF Proper
<1>4. /\ WriterOf(e) \in 1 .. Len(nonces[e]) + 1 /\ WriterOf(e) \in Nat \ {0} /\ Len(nonces[e]) \in Nat
      /\ writer[e] = 0 => WriterOf(e) = Len(nonces[e]) + 1 /\ NonceOf(e, WriterOf(e)) = 0
      /\ writer[e] # 0 => WriterOf(e) = writer[e] /\ writer[e] \in 1 .. Len(nonces[e])
      /\ NonceOf(e, WriterOf(e)) \in Nat
  BY <1>1, WriterOfKnown
<1>5. /\ Len(nonces'[e]) = (IF WriterOf(e) <= Len(nonces[e]) THEN Len(nonces[e]) ELSE WriterOf(e))
      /\ nonces'[e][WriterOf(e)] = NonceOf(e, WriterOf(e)) + Len(groups)
      /\ Len(wire[e]) <= Len(wire'[e])
      /\ \A i \in 1 .. Len(wire[e]) : wire'[e][i] = wire[e][i]
      /\ \A f \in Ends \ {e} : wire'[f] = wire[f] /\ nonces'[f] = nonces[f]
  BY DEF Adds
<1>6. Published(e)'
  <2>1. writer'[e] \in {WriterOf(e), writer[e]}
    OBVIOUS
  <2>2. writer'[e] <= Len(nonces'[e])
    BY <1>4, <1>5, <2>1
  <2>3. ASSUME writer'[e] # 0 PROVE wire'[e] # << >> /\ nonces'[e][writer'[e]] > 0
    <3>1. writer'[e] = WriterOf(e)
      BY <1>4, <2>1, <2>3
    <3>2. nonces'[e][writer'[e]] > 0
      BY <1>3, <1>4, <1>5, <3>1
    <3>3. Len(wire'[e]) > 0
      <4>1. CASE AddsAll(e, groups)
        BY <1>3, <4>1 DEF AddsAll
      <4>2. CASE writer'[e] = writer[e]
        <5>1. wire[e] # << >>
          BY <1>1, <2>3, <4>2 DEF Published
        <5>2. Len(wire[e]) # 0
          BY <5>1, EmptySeq DEF Types
        <5> QED
          BY <1>3, <1>5, <5>2
      <4> QED
        BY <4>1, <4>2
    <3> QED
      BY <3>2, <3>3, EmptySeq
  <2> QED
    BY <2>2, <2>3 DEF Published
<1>7. WiresWell'
  <2> SUFFICES ASSUME NEW f \in Ends, f # e PROVE Signed(f)' /\ Published(f)' /\ HeardInTurn(f)'
    BY <1>2, <1>6 DEF WiresWell
  <2>1. wire'[f] = wire[f] /\ nonces'[f] = nonces[f] /\ writer'[f] = writer[f] /\ Ours(f)' = Ours(f)
    BY <1>5 DEF Ours
  <2>2. Signed(f) /\ Published(f) /\ HeardInTurn(f)
    BY DEF WiresWell
  <2>3. Legible(f)' = Legible(f)
    BY <2>1 DEF Legible
  <2> QED
    BY <2>1, <2>2, <2>3 DEF Signed, Published, HeardInTurn
<1>8. ASSUME NEW g \in Goroutines, NEW f \in Ends, f = EndOf(g)', Ours(f)', Alive(f)',
             NEW i \in DOMAIN wire'[f], NEW j \in DOMAIN wire'[f][i].items
      PROVE  BehindNext(g, wire'[f][i].items[j])
  <2>1. f = EndOf(g) /\ Ours(f)
    BY <1>8 DEF EndOf, Ours
  <2>2. ASSUME Onward(g), Alive(f), i \in DOMAIN wire[f], wire'[f][i] = wire[f][i]
        PROVE  BehindNext(g, wire'[f][i].items[j])
    <3>1. PICK item : item = wire[f][i].items[j]
      OBVIOUS
    <3>2. item \in Items
      <4>1. wire[f][i] \in Records
        BY <2>2 DEF Types
      <4>2. wire[f][i].items \in Seq(Items)
        BY <4>1 DEF Records
      <4> QED
        BY <2>2, <3>1, <4>2
    <3>3. Behind(g, item)
      BY <2>1, <2>2, <3>1 DEF Ahead
    <3> QED
      BY <2>2, <3>1, <3>2, <3>3, BehindKept
  <2>3. CASE f # e
    <3>1. wire'[f] = wire[f] /\ nonces'[f] = nonces[f] /\ writer'[f] = writer[f]
      BY <1>5, <2>3
    <3>2. Legible(f)' = Legible(f)
      BY <3>1 DEF Legible
    <3>3. Alive(f)
      BY <1>8, <3>1, <3>2 DEF Alive
    <3>4. Onward(g)
      BY <2>1, <2>3
    <3> QED
      BY <1>8, <2>2, <3>1, <3>3, <3>4
  <2>4. CASE f = e
    <3>1. wire'[e] # << >>
      BY <1>8, <2>4
    <3>2. /\ AddsAll(e, groups) /\ writer'[e] = WriterOf(e)
          /\ Onward(g) /\ Past(g, groups)
      BY <1>1, <1>3, <1>8, <2>4, <3>1, AliveKept
    <3>3. Alive(e)
      BY <1>1, <1>3, <1>8, <2>4, <3>2, AliveKept
    <3>4. CASE i <= Len(wire[e])
      <4>1. i \in DOMAIN wire[e] /\ wire'[e][i] = wire[e][i]
        BY <1>3, <1>5, <1>8, <2>4, <3>4
      <4> QED
        BY <2>2, <2>4, <3>2, <3>3, <4>1
    <3>5. CASE ~(i <= Len(wire[e]))
      <4>1. i \in Len(wire[e]) + 1 .. Len(wire'[e])
        BY <1>3, <1>8, <2>4, <3>5
      <4>2. wire'[e][i] # Torn
        <5>1. DOMAIN Torn.items = {}
          BY DEF Torn, Record
        <5> QED
          BY <1>8, <2>4, <5>1
      <4>3. PICK m \in 1 .. Len(groups) : wire'[e][i].items = groups[m]
        <5>1. /\ i - Len(wire[e]) \in 1 .. Len(groups)
              /\ wire'[e][i] = Record(WriterOf(e), NonceOf(e, WriterOf(e)) + (i - Len(wire[e])) - 1,
                                      groups[i - Len(wire[e])])
          BY <4>1, <4>2 DEF Adds
        <5> QED
          BY <5>1 DEF Record
      <4>4. j \in DOMAIN groups[m]
        BY <1>8, <2>4, <4>3
      <4> QED
        BY <2>4, <3>2, <4>3, <4>4 DEF Past, BehindNext
    <3> QED
      BY <3>4, <3>5
  <2> QED
    BY <2>3, <2>4
<1>9. Ahead'
  <2>1. \A g \in Goroutines : EndOf(g)' \in Ends
    BY DEF EndOf, Ends, Types
  <2> QED
    BY <1>8, <2>1 DEF Ahead, Behind, BehindNext
<1> QED
  BY <1>7, <1>9

\* Nothing is written.
LEMMA QuietKeeps ==
  ASSUME Types, WiresWell, Ahead, UNCHANGED <<wire, nonces, writer, kind, side>>,
         \A g \in Goroutines : Onward(g)
  PROVE  WiresWell' /\ Ahead'
<1>1. \A e \in Ends : Legible(e)' = Legible(e) /\ Ours(e)' = Ours(e) /\ Alive(e)' = Alive(e)
  BY DEF Legible, Ours, Alive
<1>2. WiresWell'
  BY <1>1 DEF WiresWell, Signed, Published, HeardInTurn
<1>3. \A g \in Goroutines : EndOf(g)' = EndOf(g) /\ EndOf(g) \in Ends
  BY DEF EndOf, Ends, Types
<1>4. ASSUME NEW g \in Goroutines, Ours(EndOf(g)), Alive(EndOf(g)), NEW i \in DOMAIN wire[EndOf(g)],
             NEW j \in DOMAIN wire[EndOf(g)][i].items
      PROVE  BehindNext(g, wire[EndOf(g)][i].items[j])
  <2>1. PICK item : item = wire[EndOf(g)][i].items[j]
    OBVIOUS
  <2>2. item \in Items
    <3>1. wire[EndOf(g)] \in Seq(Records)
      BY <1>3 DEF Types
    <3>2. wire[EndOf(g)][i] \in Records
      BY <1>4, <3>1
    <3>3. wire[EndOf(g)][i].items \in Seq(Items)
      BY <3>2 DEF Records
    <3> QED
      BY <1>4, <2>1, <3>3
  <2>3. Behind(g, item)
    BY <1>4, <2>1 DEF Ahead
  <2>4. BehindNext(g, item)
    BY <2>2, <2>3, BehindKept
  <2> QED
    BY <2>1, <2>4
<1> QED
  BY <1>1, <1>2, <1>3, <1>4 DEF Ahead, Behind, BehindNext

-----------------------------------------------------------------------------
\* What is read.

ReadTypes ==
  /\ reader \in [Ends -> Nat] /\ turn \in [Ends -> Nat] /\ taken \in [Ends -> Nat]
  /\ handed \in [Ends -> Seq(Items)] /\ cache \in Seq(Items)

LEMMA FarEnds ==
  ASSUME NEW e \in Ends
  PROVE  Far(e) \in Ends /\ Far(e) # e
BY DEF Far, Ends

\* A wire that may have grown.
Grown ==
  \A f \in Ends : \A i \in DOMAIN wire[f] : i \in DOMAIN wire'[f] /\ wire'[f][i] = wire[f][i]

LEMMA AddsGrown ==
  ASSUME Types, NEW e \in Ends, NEW w, NEW groups, Adds(e, w, groups)
  PROVE  Grown
<1>1. /\ Len(wire[e]) \in Nat /\ Len(wire'[e]) \in Nat
      /\ DOMAIN wire[e] = 1 .. Len(wire[e]) /\ DOMAIN wire'[e] = 1 .. Len(wire'[e])
  BY LegibleOld
<1>2. /\ Len(wire[e]) <= Len(wire'[e]) /\ \A i \in 1 .. Len(wire[e]) : wire'[e][i] = wire[e][i]
      /\ \A f \in Ends \ {e} : wire'[f] = wire[f]
  BY DEF Adds
<1>3. \A i \in DOMAIN wire[e] : i \in DOMAIN wire'[e] /\ wire'[e][i] = wire[e][i]
  BY <1>1, <1>2
<1> QED
  BY <1>2, <1>3 DEF Grown

\* It is legible as far as it was.
LEMMA GrownLegible ==
  ASSUME Types, Grown, NEW f \in Ends, NEW i \in Legible(f)
  PROVE  /\ i \in Legible(f)' /\ i \in DOMAIN wire[f] /\ wire'[f][i] = wire[f][i]
         /\ \A j \in 1 .. i : j \in DOMAIN wire[f] /\ wire'[f][j] = wire[f][j] /\ j \in Legible(f)
         /\ 1 \in 1 .. i /\ i \in Nat
<1>1. /\ i \in DOMAIN wire[f] /\ DOMAIN wire[f] = 1 .. Len(wire[f]) /\ Len(wire[f]) \in Nat
      /\ \A j \in 1 .. i : wire[f][j] # Torn /\ wire[f][j].n = j - 1 /\ wire[f][j].writer = wire[f][1].writer
  BY LenProperties DEF Legible, Types
<1>2. \A j \in 1 .. i : j \in DOMAIN wire[f]
  BY <1>1
<1>3. 1 \in 1 .. i /\ i \in Nat
  BY <1>1
<1>4. \A j \in 1 .. i : wire'[f][j] = wire[f][j]
  BY <1>2 DEF Grown
<1>5. i \in DOMAIN wire'[f]
  BY <1>1 DEF Grown
<1>6. i \in Legible(f)'
  BY <1>1, <1>3, <1>4, <1>5 DEF Legible
<1>7. \A j \in 1 .. i : j \in Legible(f)
  <2> SUFFICES ASSUME NEW j \in 1 .. i PROVE j \in Legible(f)
    OBVIOUS
  <2>1. \A k \in 1 .. j : k \in 1 .. i
    BY <1>3
  <2> QED
    BY <1>1, <1>2, <2>1 DEF Legible
<1> QED
  BY <1>1, <1>2, <1>3, <1>4, <1>6, <1>7

\* Readers that do not move.
LEMMA FollowKept ==
  ASSUME Types, ReadTypes, Grown, NEW e \in Ends, Follow(e),
         turn'[e] = turn[e], reader'[e] = reader[e], taken'[e] \in Nat, taken'[e] >= taken[e],
         handed'[e] = handed[e]
  PROVE  Follow(e)'
<1>1. PICK f \in Ends : f = Far(e)
  BY FarEnds
<1>2. turn[e] <= taken'[e]
  BY DEF ReadTypes, Follow
<1>3. ASSUME turn[e] > 0 PROVE turn[e] \in Legible(f)' /\ reader[e] = wire'[f][1].writer
  <2>1. turn[e] \in Legible(f) /\ reader[e] = wire[f][1].writer
    BY <1>1, <1>3 DEF Follow
  <2> QED
    BY <2>1, GrownLegible
<1>4. ASSUME NEW k \in DOMAIN handed[e]
      PROVE  \E i \in 1 .. turn[e] : \E j \in DOMAIN wire'[f][i].items : handed[e][k] = wire'[f][i].items[j]
  <2>1. PICK i \in 1 .. turn[e] : \E j \in DOMAIN wire[f][i].items : handed[e][k] = wire[f][i].items[j]
    BY <1>1, <1>4 DEF Follow, HandedFrom
  <2>2. turn[e] > 0
    BY DEF ReadTypes
  <2>3. turn[e] \in Legible(f)
    BY <1>1, <2>2 DEF Follow
  <2>4. wire'[f][i] = wire[f][i]
    BY <2>3, GrownLegible
  <2> QED
    BY <2>1, <2>4
<1>5. InTurn(handed[e]) /\ (reader[e] = 0 <=> turn[e] = 0)
  BY DEF Follow
<1> QED
  BY <1>1, <1>2, <1>3, <1>4, <1>5 DEF Follow, HandedFrom

LEMMA CachedKept ==
  ASSUME Types, ReadTypes, Grown, ReadsWell, UNCHANGED <<kind, side, turn, handed, cache>>
  PROVE  Cached'
<1> SUFFICES ASSUME cache # << >> PROVE cache = Tail(wire'[Far(side)][1].items)
  BY DEF ReadsWell, Cached
<1>1. side \in Ends /\ turn[side] > 0 /\ cache = Tail(wire[Far(side)][1].items)
  BY DEF ReadsWell, Cached, Types
<1>2. PICK f \in Ends : f = Far(side)
  BY <1>1, FarEnds
<1>3. turn[side] \in Legible(f)
  BY <1>1, <1>2 DEF ReadsWell, Follow
<1>4. wire'[f][1] = wire[f][1]
  BY <1>3, GrownLegible
<1> QED
  BY <1>1, <1>2, <1>4

\* The reader of an end opens the record at hand.
LEMMA OpensNext ==
  ASSUME Types, ReadTypes, NEW e \in Ends, Follow(e), Readable(e), Opens(e, NextOf(e)), TakesRecord(e),
         UNCHANGED wire
  PROVE  /\ turn[e] + 1 \in Legible(Far(e)) /\ NextOf(e) = wire[Far(e)][turn[e] + 1]
         /\ NextOf(e).n = turn[e]
         /\ turn'[e] = turn[e] + 1 /\ taken'[e] = turn'[e] /\ reader'[e] = wire[Far(e)][1].writer
         /\ reader'[e] # 0 /\ reader' \in [Ends -> Nat] /\ turn' \in [Ends -> Nat] /\ taken' \in [Ends -> Nat]
         /\ \A x \in Ends \ {e} : turn'[x] = turn[x] /\ reader'[x] = reader[x] /\ taken'[x] = taken[x]
<1>1. PICK f \in Ends : f = Far(e)
  BY FarEnds
<1>2. PICK t \in Nat : t = turn[e]
  BY DEF ReadTypes
<1>3. wire[f] \in Seq(Records) /\ Len(wire[f]) \in Nat /\ DOMAIN wire[f] = 1 .. Len(wire[f])
  BY LenProperties DEF Types
<1>4. PICK r : r = NextOf(e)
  OBVIOUS
<1>5. /\ taken[e] = t /\ r.n = t
      /\ IF reader[e] = 0 THEN r.n = 0 /\ r.writer # 0 ELSE r.writer = reader[e]
  BY <1>2, <1>4 DEF Opens
<1>6. t < Len(wire[f]) /\ r = wire[f][t + 1]
  BY <1>1, <1>4, <1>5 DEF Readable, Available, Whole, NextOf
<1>7. t + 1 \in DOMAIN wire[f] /\ r \in Records
  BY <1>3, <1>6
<1>8. r.writer # 0 /\ r.writer = wire[f][1].writer /\ \A i \in 1 .. t : i \in Legible(f)
  <2>1. CASE reader[e] = 0
    <3>1. t = 0
      BY <1>2, <2>1 DEF Follow
    <3> QED
      BY <1>5, <1>6, <2>1, <3>1
  <2>2. CASE reader[e] # 0
    <3>1. t # 0 /\ t > 0
      BY <1>2, <2>2 DEF Follow
    <3>2. t \in Legible(f) /\ reader[e] = wire[f][1].writer
      BY <1>1, <1>2, <3>1 DEF Follow
    <3>3. Grown
      BY DEF Grown
    <3>4. \A i \in 1 .. t : i \in Legible(f)
      BY <3>2, <3>3, GrownLegible
    <3> QED
      BY <1>5, <2>2, <3>2, <3>4
  <2> QED
    BY <2>1, <2>2
<1>9. \A i \in 1 .. t + 1 : wire[f][i] # Torn /\ wire[f][i].n = i - 1 /\ wire[f][i].writer = wire[f][1].writer
  <2> SUFFICES ASSUME NEW i \in 1 .. t + 1
               PROVE  wire[f][i] # Torn /\ wire[f][i].n = i - 1 /\ wire[f][i].writer = wire[f][1].writer
    OBVIOUS
  <2>1. CASE i = t + 1
    <3>1. Torn.writer = 0
      BY DEF Torn, Record
    <3> QED
      BY <1>5, <1>6, <1>8, <2>1, <3>1
  <2>2. CASE i # t + 1
    <3>1. i \in 1 .. t /\ i \in 1 .. i
      BY <2>2
    <3> QED
      BY <1>8, <3>1 DEF Legible
  <2> QED
    BY <2>1, <2>2
<1>10. t + 1 \in Legible(f)
  BY <1>7, <1>9 DEF Legible
<1>11. /\ taken' = [taken EXCEPT ![e] = t + 1] /\ turn' = [turn EXCEPT ![e] = t + 1]
       /\ reader' = [reader EXCEPT ![e] = r.writer] /\ r.writer \in Nat
  BY <1>4, <1>5, <1>7 DEF TakesRecord, Records
<1> QED
  BY <1>1, <1>2, <1>4, <1>5, <1>6, <1>8, <1>10, <1>11, SMTT(30) DEF ReadTypes

\* All of these items are among those.
PartOf(items, whole) == \A k \in DOMAIN items : \E j \in DOMAIN whole : items[k] = whole[j]

\* What it hands out comes behind what it has handed out.
LEMMA HandsOn ==
  ASSUME Types, NEW f \in Ends, HeardInTurn(f), NEW a \in Seq(Items), InTurn(a),
         NEW n \in Nat, n \in Legible(f), NEW m \in 1 .. n, HandedFrom(f, a, m - 1),
         NEW items \in Seq(Items), InTurn(items),
         PartOf(items, wire[f][m].items),
         NEW b, b = a \o items
  PROVE  InTurn(b) /\ HandedFrom(f, b, n)
<1>1. /\ b \in Seq(Items) /\ Len(b) = Len(a) + Len(items) /\ Len(a) \in Nat /\ Len(items) \in Nat
      /\ DOMAIN a = 1 .. Len(a) /\ DOMAIN b = 1 .. Len(b) /\ DOMAIN items = 1 .. Len(items)
  BY ConcatProperties, LenProperties
<1>2. \A k \in 1 .. Len(a) + Len(items) : b[k] = IF k <= Len(a) THEN a[k] ELSE items[k - Len(a)]
  BY ConcatProperties
<1>3. ASSUME NEW k \in DOMAIN b
      PROVE  \/ k \in DOMAIN a /\ b[k] = a[k]
             \/ k - Len(a) \in DOMAIN items /\ b[k] = items[k - Len(a)] /\ k > Len(a)
  BY <1>1, <1>2
<1>4. \A i \in 1 .. n : i \in Legible(f)
  <2>1. wire \in [Ends -> Seq(Records)] /\ n \in DOMAIN wire[f] /\ DOMAIN wire[f] = 1 .. Len(wire[f]) /\ Len(wire[f]) \in Nat
    BY LenProperties DEF Types, Legible
  <2> SUFFICES ASSUME NEW i \in 1 .. n PROVE i \in Legible(f)
    OBVIOUS
  <2>2. i \in DOMAIN wire[f] /\ \A j \in 1 .. i : j \in 1 .. n
    BY <2>1
  <2> QED
    BY <2>2 DEF Legible
<1>5. ASSUME NEW k \in DOMAIN b, NEW l \in DOMAIN b, k < l PROVE Follows(b[k], b[l])
  <2>1. CASE l \in DOMAIN a /\ b[l] = a[l]
    <3>1. k \in DOMAIN a /\ b[k] = a[k]
      BY <1>1, <1>3, <1>5, <2>1
    <3> QED
      BY <1>5, <2>1, <3>1 DEF InTurn
  <2>2. CASE k - Len(a) \in DOMAIN items /\ b[k] = items[k - Len(a)] /\ k > Len(a)
    <3>1. l - Len(a) \in DOMAIN items /\ b[l] = items[l - Len(a)] /\ k - Len(a) < l - Len(a)
      BY <1>1, <1>3, <1>5, <2>2
    <3> QED
      BY <2>2, <3>1 DEF InTurn
  <2>3. CASE /\ k \in DOMAIN a /\ b[k] = a[k]
             /\ l - Len(a) \in DOMAIN items /\ b[l] = items[l - Len(a)]
    <3>1. PICK i \in 1 .. m - 1 : \E j \in DOMAIN wire[f][i].items : b[k] = wire[f][i].items[j]
      BY <2>3 DEF HandedFrom
    <3>2. PICK j \in DOMAIN wire[f][i].items : b[k] = wire[f][i].items[j]
      BY <3>1
    <3>3. PICK o \in DOMAIN wire[f][m].items : b[l] = wire[f][m].items[o]
      BY <2>3 DEF PartOf
    <3>4. i \in 1 .. n /\ i < m
      OBVIOUS
    <3>5. i \in Legible(f) /\ m \in Legible(f)
      BY <1>4, <3>4
    <3> QED
      BY <3>2, <3>3, <3>4, <3>5 DEF HeardInTurn
  <2> QED
    BY <1>3, <2>1, <2>2, <2>3
<1>6. ASSUME NEW k \in DOMAIN b
       PROVE  \E i \in 1 .. n : \E j \in DOMAIN wire[f][i].items : b[k] = wire[f][i].items[j]
  <2>1. CASE k \in DOMAIN a /\ b[k] = a[k]
    <3>1. PICK i \in 1 .. m - 1 : \E j \in DOMAIN wire[f][i].items : b[k] = wire[f][i].items[j]
      BY <2>1 DEF HandedFrom
    <3>2. i \in 1 .. n
      OBVIOUS
    <3> QED
      BY <3>1, <3>2
  <2>2. CASE k - Len(a) \in DOMAIN items /\ b[k] = items[k - Len(a)]
    BY <2>2 DEF PartOf
  <2> QED
    BY <1>3, <2>1, <2>2
<1> QED
  BY <1>5, <1>6 DEF InTurn, HandedFrom

-----------------------------------------------------------------------------
\* What is written is proper.

\* The m-th group has at most one datum, the m-th of what the goroutine has left.
Carries(g, groups, k) ==
  \A m \in 1 .. Len(groups) : \A j \in DOMAIN groups[m] : groups[m][j].what = "data" =>
    /\ m <= k /\ groups[m][j] = call[g].left[m]
    /\ \A l \in DOMAIN groups[m] : groups[m][l].what = "data" => l = j

LEMMA CarriedProper ==
  ASSUME Types, NEW g \in Goroutines, Turned(g, call[g].left, call[g].last),
         NEW groups \in Seq(Seq(Items)), NEW k \in 0 .. Len(call[g].left), Carries(g, groups, k),
         Headed(groups, NonceOf(EndOf(g), WriterOf(EndOf(g))))
  PROVE  Proper(EndOf(g), groups)
<1>1. PICK s \in Seq(Items) : s = call[g].left
  BY DEF Types, Calls
<1>2. Len(s) \in Nat /\ DOMAIN s = 1 .. Len(s) /\ k \in Nat /\ k <= Len(s) /\ Len(groups) \in Nat
  BY <1>1, LenProperties
<1>3. ASSUME NEW m \in 1 .. Len(groups), NEW j \in DOMAIN groups[m], groups[m][j].what = "data"
      PROVE  m \in DOMAIN s /\ groups[m][j] = s[m] /\ groups[m][j].by = g
  <2>1. m <= k /\ groups[m][j] = s[m]
    BY <1>1, <1>3 DEF Carries
  <2>2. m \in DOMAIN s
    BY <1>2, <2>1
  <2> QED
    BY <1>1, <2>1, <2>2 DEF Turned
<1>4. InSequence(groups)
  <2> SUFFICES ASSUME NEW m \in 1 .. Len(groups), NEW o \in 1 .. Len(groups),
                      NEW i \in DOMAIN groups[m], NEW l \in DOMAIN groups[o], m < o \/ (m = o /\ i < l),
                      groups[m][i].what = "data", groups[o][l].what = "data"
               PROVE  groups[m][i].n < groups[o][l].n
    BY DEF InSequence, Follows
  <2>1. /\ m \in DOMAIN s /\ groups[m][i] = s[m] /\ o \in DOMAIN s /\ groups[o][l] = s[o]
    BY <1>3
  <2>2. m # o
    <3> SUFFICES ASSUME m = o PROVE FALSE
      OBVIOUS
    <3>1. l = i
      BY DEF Carries
    <3>2. i \in Nat
      <4>1. groups[m] \in Seq(Items)
        OBVIOUS
      <4> QED
        BY <4>1
    <3> QED
      BY <3>1, <3>2
  <2> QED
    BY <1>1, <2>1, <2>2 DEF Turned
<1>5. LeftAt(EndOf(g), groups)
  BY <1>1, <1>3 DEF LeftAt
<1> QED
  BY <1>4, <1>5 DEF Proper

\* What is left then is behind it.
LEMMA CarriedPast ==
  ASSUME Types, NEW g \in Goroutines, Turned(g, call[g].left, call[g].last),
         NEW groups \in Seq(Seq(Items)), NEW k \in 0 .. Len(call[g].left), Carries(g, groups, k),
         NEW c \in Calls, call'[g] = c, c.last >= call[g].last,
         \A l \in DOMAIN c.left : \E i \in DOMAIN call[g].left : i > k /\ c.left[l] = call[g].left[i],
         NEW h \in Goroutines
  PROVE  Past(h, groups)
<1>1. PICK s \in Seq(Items) : s = call[g].left
  BY DEF Types, Calls
<1>2. Len(s) \in Nat /\ DOMAIN s = 1 .. Len(s) /\ k \in Nat /\ k <= Len(s) /\ Len(groups) \in Nat
  BY <1>1, LenProperties
<1>3. call[g].last \in Nat /\ c.last \in Nat /\ \A i \in DOMAIN s : s[i].n \in Nat
  <2>1. \A i \in DOMAIN s : s[i] \in Items
    BY <1>2
  <2> QED
    BY <2>1 DEF Types, Calls, Items
<1> SUFFICES ASSUME NEW m \in 1 .. Len(groups), NEW j \in DOMAIN groups[m],
                    groups[m][j].what = "data", groups[m][j].by = h
             PROVE  /\ groups[m][j].n <= call'[h].last
                    /\ \A l \in DOMAIN call'[h].left : groups[m][j].n < call'[h].left[l].n
  BY DEF Past
<1>4. m <= k /\ groups[m][j] = s[m]
  BY <1>1 DEF Carries
<1>5. m \in DOMAIN s
  BY <1>2, <1>4
<1>6. s[m].by = g /\ s[m].n <= call[g].last
  BY <1>1, <1>5 DEF Turned
<1>7. h = g
  BY <1>4, <1>6
<1>8. ASSUME NEW l \in DOMAIN c.left PROVE s[m].n < c.left[l].n
  <2>1. PICK i \in DOMAIN s : i > k /\ c.left[l] = s[i]
    BY <1>1, <1>8
  <2>2. m < i
    BY <1>2, <1>4, <2>1
  <2> QED
    BY <1>1, <1>5, <2>1, <2>2 DEF Turned
<1> QED
  BY <1>3, <1>4, <1>5, <1>6, <1>7, <1>8, SMTT(30)

\* A record for each datum.
LEMMA GroupsCarry ==
  ASSUME Types, NEW g \in Goroutines, Turned(g, call[g].left, call[g].last),
         NEW k \in 1 .. Len(call[g].left), NEW groups, groups = Groups(SubSeq(call[g].left, 1, k)),
         NEW n \in Nat \ {0}
  PROVE  /\ groups \in Seq(Seq(Items)) /\ groups # << >> /\ Len(groups) = k
         /\ Carries(g, groups, k) /\ Headed(groups, n)
<1>1. PICK s \in Seq(Items) : s = call[g].left
  BY DEF Types, Calls
<1>2. Len(s) \in Nat /\ DOMAIN s = 1 .. Len(s) /\ k \in Nat /\ k <= Len(s) /\ 1 <= k
  BY <1>1, LenProperties
<1>3. PICK p : p = SubSeq(s, 1, k)
  OBVIOUS
<1>4. p \in Seq(Items) /\ Len(p) = k /\ \A i \in 1 .. k : p[i] = s[i]
  BY <1>2, <1>3, SubSeqProperties
<1>5. DOMAIN p = 1 .. k
  BY <1>4, LenProperties
<1>6. /\ groups \in Seq(Seq(Items)) /\ groups = [i \in 1 .. k |-> << p[i] >>]
  BY <1>1, <1>3, <1>4, <1>5, GroupsHold DEF Groups
<1>7. Len(groups) = k
  <2>1. DOMAIN groups = 1 .. Len(groups) /\ Len(groups) \in Nat /\ DOMAIN groups = 1 .. k
    BY <1>6, LenProperties
  <2> QED
    BY <1>2, <2>1
<1>8. ASSUME NEW m \in 1 .. Len(groups)
      PROVE  /\ groups[m] = << s[m] >> /\ DOMAIN groups[m] = {1} /\ groups[m] # << >>
             /\ m \in DOMAIN s
  <2>1. m \in 1 .. k /\ groups[m] = << p[m] >>
    BY <1>6, <1>7
  <2>2. m \in DOMAIN s /\ p[m] = s[m]
    BY <1>2, <1>4, <2>1
  <2>3. groups[m] = << s[m] >>
    BY <2>1, <2>2
  <2>4. DOMAIN << s[m] >> = {1} /\ << s[m] >> # << >>
    OBVIOUS
  <2> QED
    BY <2>2, <2>3, <2>4, Zenon
<1>9. Carries(g, groups, k)
  BY <1>1, <1>7, <1>8 DEF Carries
<1>10. ASSUME NEW m \in 1 .. Len(groups), NEW j \in DOMAIN groups[m]
       PROVE  groups[m][j] \notin Heads /\ n + m - 1 # 0
  <2>1. groups[m][j] = s[m] /\ s[m].what = "data"
    BY <1>1, <1>8 DEF Turned
  <2>2. groups[m][j] \notin Heads
    BY <2>1 DEF Heads, Item
  <2> QED
    BY <1>7, <2>2
<1>11. Headed(groups, n)
  BY <1>8, <1>10 DEF Headed
<1> QED
  BY <1>2, <1>6, <1>7, <1>9, <1>11, EmptySeq

\* The head shares its record with the first of them.
LEMMA FirstGroupsCarry ==
  ASSUME Types, NEW g \in Goroutines, Turned(g, call[g].left, call[g].last),
         NEW k \in 1 .. Len(call[g].left), NEW head \in {"request", "reply", "error"},
         NEW groups, groups = FirstGroups(head, SubSeq(call[g].left, 1, k))
  PROVE  /\ groups \in Seq(Seq(Items)) /\ groups # << >>
         /\ Carries(g, groups, k) /\ Headed(groups, 0)
<1>1. PICK s \in Seq(Items) : s = call[g].left
  BY DEF Types, Calls
<1>2. Len(s) \in Nat /\ DOMAIN s = 1 .. Len(s) /\ k \in Nat /\ k <= Len(s) /\ 1 <= k
  BY <1>1, LenProperties
<1>3. PICK p : p = SubSeq(s, 1, k)
  OBVIOUS
<1>4. p \in Seq(Items) /\ Len(p) = k /\ \A i \in 1 .. k : p[i] = s[i]
  BY <1>2, <1>3, SubSeqProperties
<1>5. DOMAIN p = 1 .. k /\ p # << >> /\ Len(p) # 0
  BY <1>2, <1>4, LenProperties, EmptySeq
<1>6. /\ Head(p) = s[1] /\ Tail(p) \in Seq(Items) /\ Len(Tail(p)) = k - 1
      /\ \A i \in 1 .. Len(Tail(p)) : Tail(p)[i] = p[i + 1]
  BY <1>2, <1>4, <1>5, HeadTailProperties
<1>7. PICK t \in Seq(Items) : t = Tail(p)
  BY <1>6
<1>8. PICK rest : rest = Groups(t)
  OBVIOUS
<1>9. /\ rest \in Seq(Seq(Items)) /\ Len(rest) = k - 1
      /\ \A i \in 1 .. k - 1 : rest[i] = << s[i + 1] >>
  <2>1. DOMAIN t = 1 .. k - 1 /\ Len(t) = k - 1 /\ \A i \in 1 .. k - 1 : t[i] = p[i + 1]
    BY <1>6, <1>7, LenProperties
  <2>2. rest \in Seq(Seq(Items)) /\ rest = [i \in 1 .. k - 1 |-> << t[i] >>]
    BY <1>8, <2>1, GroupsHold DEF Groups
  <2>3. Len(rest) = k - 1
    <3>1. DOMAIN rest = 1 .. Len(rest) /\ Len(rest) \in Nat /\ DOMAIN rest = 1 .. k - 1
      BY <2>2, LenProperties
    <3> QED
      BY <1>2, <3>1
  <2>4. ASSUME NEW i \in 1 .. k - 1 PROVE rest[i] = << s[i + 1] >>
    <3>1. i + 1 \in 1 .. k
      BY <1>2
    <3> QED
      BY <1>4, <2>1, <2>2, <3>1
  <2> QED
    BY <2>2, <2>3, <2>4
<1>10. PICK first : first = << Item(head), s[1] >>
  OBVIOUS
<1>11. /\ first \in Seq(Items) /\ << first >> \in Seq(Seq(Items)) /\ Len(<< first >>) = 1 /\ << first >>[1] = first
       /\ DOMAIN first = {1, 2} /\ first[1] = Item(head) /\ first[2] = s[1] /\ first # << >>
  <2>1. Item(head) \in Items
    BY DEF Item, Items
  <2>2. s[1] \in Items
    BY <1>2
  <2>3. first \in Seq(Items)
    BY <1>10, <2>1, <2>2
  <2> QED
    BY <1>10, <2>3
<1>12. groups = << first >> \o rest
  BY <1>1, <1>3, <1>5, <1>6, <1>7, <1>8, <1>10 DEF FirstGroups
<1>13. /\ groups \in Seq(Seq(Items)) /\ Len(groups) = 1 + (k - 1)
       /\ \A i \in 1 .. 1 + (k - 1) : groups[i] = IF i <= 1 THEN << first >>[i] ELSE rest[i - 1]
  <2>1. PICK a \in Seq(Seq(Items)) : a = << first >>
    BY <1>11
  <2>2. groups = a \o rest /\ Len(a) = 1
    BY <1>11, <1>12, <2>1
  <2>3. /\ groups \in Seq(Seq(Items)) /\ Len(groups) = Len(a) + Len(rest)
        /\ \A i \in 1 .. Len(a) + Len(rest) : groups[i] = IF i <= Len(a) THEN a[i] ELSE rest[i - Len(a)]
    <3>1. PICK T : T = Seq(Items)
      OBVIOUS
    <3>2. a \in Seq(T) /\ rest \in Seq(T)
      BY <1>9, <3>1
    <3>3. a \o rest \in Seq(T) /\ Len(a \o rest) = Len(a) + Len(rest)
      BY <3>2, ConcatProperties
    <3>4. \A i \in 1 .. Len(a) + Len(rest) : (a \o rest)[i] = IF i <= Len(a) THEN a[i] ELSE rest[i - Len(a)]
      BY <3>2, ConcatProperties
    <3> QED
      BY <2>2, <3>1, <3>3, <3>4
  <2> QED
    BY <1>9, <2>1, <2>2, <2>3
<1>14. Len(groups) = k /\ groups[1] = first
  BY <1>2, <1>11, <1>13
<1>15. ASSUME NEW m \in 1 .. Len(groups), m # 1
       PROVE  groups[m] = << s[m] >> /\ DOMAIN groups[m] = {1} /\ groups[m] # << >> /\ m \in DOMAIN s
  <2>1. m - 1 \in 1 .. k - 1 /\ ~(m <= 1) /\ m \in 1 .. 1 + (k - 1)
    BY <1>2, <1>14, <1>15
  <2>2. groups[m] = rest[m - 1]
    BY <1>13, <2>1
  <2>3. rest[m - 1] = << s[(m - 1) + 1] >>
    BY <1>9, <2>1
  <2>4. (m - 1) + 1 = m /\ m \in DOMAIN s
    BY <1>2, <1>14, <2>1
  <2>5. groups[m] = << s[m] >>
    BY <2>2, <2>3, <2>4
  <2>6. DOMAIN << s[m] >> = {1} /\ << s[m] >> # << >>
    OBVIOUS
  <2> QED
    BY <2>4, <2>5, <2>6, Zenon
<1>16. /\ Item(head).what # "data" /\ Item(head) \in Heads
       /\ \A i \in DOMAIN s : s[i].what = "data" /\ s[i] \notin Heads
  <2>1. Item(head).what = head /\ Item(head) \in Heads
    BY DEF Item, Heads
  <2>2. \A i \in DOMAIN s : s[i].what = "data"
    BY <1>1 DEF Turned
  <2>3. \A i \in DOMAIN s : s[i] \notin Heads
    BY <2>2 DEF Heads, Item
  <2> QED
    BY <2>1, <2>2, <2>3
<1>17. Carries(g, groups, k)
  <2> SUFFICES ASSUME NEW m \in 1 .. Len(groups), NEW j \in DOMAIN groups[m], groups[m][j].what = "data"
               PROVE  /\ m <= k /\ groups[m][j] = s[m]
                      /\ \A l \in DOMAIN groups[m] : groups[m][l].what = "data" => l = j
    BY <1>1 DEF Carries
  <2>1. CASE m = 1
    <3>1. j = 2
      BY <1>11, <1>14, <1>16, <2>1
    <3> QED
      BY <1>2, <1>11, <1>14, <1>16, <2>1, <3>1
  <2>2. CASE m # 1
    BY <1>14, <1>15, <2>2
  <2> QED
    BY <2>1, <2>2
<1>18. Headed(groups, 0)
  <2> SUFFICES ASSUME NEW m \in 1 .. Len(groups)
               PROVE  /\ groups[m] # << >>
                      /\ \A j \in DOMAIN groups[m] : groups[m][j] \in Heads <=> 0 + m - 1 = 0 /\ j = 1
    BY DEF Headed
  <2>1. CASE m = 1
    <3>1. 1 \in DOMAIN s
      BY <1>2
    <3> QED
      BY <1>11, <1>14, <1>16, <2>1, <3>1
  <2>2. CASE m # 1
    <3>1. 0 + m - 1 # 0
      BY <1>14, <2>2
    <3>2. \A j \in DOMAIN groups[m] : groups[m][j] = s[m]
      BY <1>15, <2>2
    <3> QED
      BY <1>15, <1>16, <2>2, <3>1, <3>2
  <2> QED
    BY <2>1, <2>2
<1> QED
  BY <1>2, <1>13, <1>14, <1>17, <1>18, EmptySeq

\* A group without data.
LEMMA AloneProper ==
  ASSUME Types, NEW e \in Ends, NEW what \in {"request", "reply", "error", "end"},
         NEW groups, groups = << << Item(what) >> >>,
         NonceOf(e, WriterOf(e)) \in Nat, what # "end" <=> NonceOf(e, WriterOf(e)) = 0
  PROVE  /\ groups \in Seq(Seq(Items)) /\ groups # << >> /\ Proper(e, groups)
         /\ \A h \in Goroutines : Past(h, groups)
<1>1. PICK s : s = << Item(what) >>
  OBVIOUS
<1>2. Item(what) \in Items /\ Item(what).what = what
  BY DEF Item, Items
<1>3. s \in Seq(Items) /\ DOMAIN s = {1} /\ s[1] = Item(what) /\ s # << >>
  BY <1>1, <1>2
<1>4. groups \in Seq(Seq(Items)) /\ Len(groups) = 1 /\ groups[1] = s /\ groups # << >> /\ 1 .. Len(groups) = {1}
  BY <1>1, <1>3
<1>5. Item(what) \in Heads <=> what # "end"
  BY <1>2 DEF Heads, Item
<1>6. Headed(groups, NonceOf(e, WriterOf(e)))
  <2>1. PICK n \in Nat : n = NonceOf(e, WriterOf(e))
    OBVIOUS
  <2>2. n + 1 - 1 = 0 <=> n = 0
    OBVIOUS
  <2> QED
    BY <1>3, <1>4, <1>5, <2>1, <2>2 DEF Headed
<1>7. \A m \in 1 .. Len(groups) : \A j \in DOMAIN groups[m] : groups[m][j].what # "data"
  BY <1>2, <1>3, <1>4
<1>8. InSequence(groups) /\ LeftAt(e, groups) /\ \A h \in Goroutines : Past(h, groups)
  BY <1>7 DEF InSequence, LeftAt, Past, Follows
<1> QED
  BY <1>4, <1>6, <1>8 DEF Proper

-----------------------------------------------------------------------------
\* The calls, whatever fails.

\* Goroutine g makes a call and is at `at' with it.
CallSide == pc \in [Goroutines -> Steps] /\ call \in [Goroutines -> Calls] /\ CallsWell

LEMMA CallStep ==
  ASSUME Types, CallsWell, NEW g \in Goroutines, NEW at \in Steps, NEW c \in Calls,
         Moves(g, at, c), UNCHANGED kind, WellCalled(g, at, c)
  PROVE  CallSide' /\ MovesTo(g, at, c) /\ \A h \in Goroutines \ {g} : Onward(h)
<1>1. pc \in [Goroutines -> Steps] /\ call \in [Goroutines -> Calls]
  BY DEF Types
<1>2. pc' \in [Goroutines -> Steps] /\ call' \in [Goroutines -> Calls] /\ MovesTo(g, at, c)
  BY <1>1 DEF Moves, MovesTo
<1>3. ASSUME NEW h \in Goroutines PROVE WellCalled(h, pc[h], call[h])'
  <2>1. CASE h = g
    BY <1>2, <2>1 DEF MovesTo, WellCalled, Agrees
  <2>2. CASE h # g
    <3>1. WellCalled(h, pc[h], call[h]) /\ pc'[h] = pc[h] /\ call'[h] = call[h]
      BY <1>2, <2>2 DEF CallsWell, MovesTo
    <3> QED
      BY <3>1 DEF WellCalled, Agrees
  <2> QED
    BY <2>1, <2>2
<1>4. ASSUME NEW h \in Goroutines \ {g} PROVE Onward(h)
  <2>1. call'[h] = call[h] /\ call[h] \in Calls
    BY <1>1, <1>2 DEF MovesTo
  <2>2. call[h].last \in Int /\ \A k \in DOMAIN call[h].left : call[h].left[k].n \in Int
    <3>1. call[h].last \in Nat /\ call[h].left \in Seq(Items)
      BY <2>1 DEF Calls
    <3>2. \A k \in DOMAIN call[h].left : call[h].left[k] \in Items
      BY <3>1
    <3> QED
      BY <3>1, <3>2 DEF Items
  <2> QED
    BY <2>1, <2>2 DEF Onward
<1> QED
  BY <1>2, <1>3, <1>4 DEF CallSide, CallsWell

\* A call that goes on with a part of what it had left.
LEMMA OnwardPart ==
  ASSUME Types, NEW g \in Goroutines, NEW c \in Calls, call'[g] = c, c.last >= call[g].last,
         \A k \in DOMAIN c.left : \/ \E l \in DOMAIN call[g].left : c.left[k] = call[g].left[l]
                                  \/ c.left[k].n > call[g].last
  PROVE  Onward(g)
<1>1. call[g] \in Calls
  BY DEF Types
<1>2. call[g].last \in Nat /\ c.last \in Nat /\ c.left \in Seq(Items)
  BY <1>1 DEF Calls
<1>3. \A k \in DOMAIN c.left : c.left[k] \in Items
  BY <1>2
<1>4. \A k \in DOMAIN c.left : c.left[k].n \in Nat
  BY <1>3 DEF Items
<1> QED
  BY <1>2, <1>4 DEF Onward

\* The call a goroutine begins: new data, or what failed.
Fresh(g, c) ==
  /\ c.left = c.data /\ ~c.failed /\ Turned(g, c.data, c.last)
  /\ \A i \in DOMAIN c.data : c.data[i].by = g
  /\ c.last >= call[g].last
  /\ \A k \in DOMAIN c.left : \/ \E l \in DOMAIN call[g].left : c.left[k] = call[g].left[l]
                              \/ c.left[k].n > call[g].last

LEMMA BeginsFresh ==
  ASSUME Types, CallsWell, NEW g \in Goroutines, NEW op \in Ops, NEW n \in Nat, Begins(g, op, n)
  PROVE  /\ pc[g] = "idle"
         /\ \E c \in Calls : /\ call' = [call EXCEPT ![g] = c] /\ c.op = op /\ Fresh(g, c)
                             /\ IF n = 0 THEN c.data = << >> ELSE c.data # << >>
<1> DEFINE data == [i \in 1 .. n |-> Datum(g, call[g].last + i)]
           c == [op |-> op, data |-> data, left |-> data, failed |-> FALSE, last |-> call[g].last + n]
<1>1. call \in [Goroutines -> Calls] /\ call[g].last \in Nat
  BY DEF Types, Calls
<1>2. \A i \in 1 .. n : /\ data[i] \in Items /\ data[i].by = g /\ data[i].what = "data"
                        /\ data[i].n = call[g].last + i
  BY <1>1 DEF Datum, Items
<1>3. data \in Seq(Items) /\ Len(data) = n /\ DOMAIN data = 1 .. n
  <2>1. data \in [1 .. n -> Items]
    BY <1>2
  <2>2. Seq(Items) = UNION {[1 .. m -> Items] : m \in Nat}
    BY SeqDef
  <2>3. data \in Seq(Items)
    BY <2>1, <2>2
  <2>4. DOMAIN data = 1 .. n /\ DOMAIN data = 1 .. Len(data) /\ Len(data) \in Nat
    BY <2>3, LenProperties
  <2> QED
    BY <2>3, <2>4
<1>4. IF n = 0 THEN data = << >> ELSE data # << >>
  BY <1>3, EmptySeq
<1>5. pc[g] = "idle" /\ call' = [call EXCEPT ![g] = c]
  <2>1. call' = [call EXCEPT ![g] = [op |-> op, data |-> data, left |-> data, failed |-> FALSE,
                                     last |-> call[g].last + n]]
    BY <1>1 DEF Begins
  <2> QED
    BY <2>1 DEF Begins
<1> HIDE DEF data
<1>6. c \in Calls
  BY <1>1, <1>3 DEF Calls
<1>7. c.op = op /\ c.left = data /\ c.data = data /\ ~c.failed /\ c.last = call[g].last + n
  OBVIOUS
<1>8. Turned(g, data, call[g].last + n)
  BY <1>1, <1>2, <1>3 DEF Turned
<1>9. call[g].last + n >= call[g].last /\ \A i \in DOMAIN data : data[i].by = g /\ data[i].n > call[g].last
  BY <1>1, <1>2, <1>3
<1> HIDE DEF c
<1>10. Fresh(g, c)
  BY <1>7, <1>8, <1>9 DEF Fresh
<1> QED
  BY <1>4, <1>5, <1>6, <1>7, <1>10

LEMMA RetriesFresh ==
  ASSUME Types, CallsWell, NEW g \in Goroutines, Retries(g)
  PROVE  /\ pc[g] = "idle"
         /\ \E c \in Calls : /\ call' = [call EXCEPT ![g] = c] /\ c.op = call[g].op /\ Fresh(g, c)
                             /\ c.data = call[g].data
<1> DEFINE c == [call[g] EXCEPT !.failed = FALSE]
<1>1. call \in [Goroutines -> Calls] /\ call[g] \in Calls
  BY DEF Types
<1>2. call' = [call EXCEPT ![g] = c] /\ pc[g] = "idle"
  BY <1>1 DEF Retries
<1>3. /\ c \in Calls /\ c.op = call[g].op /\ c.left = call[g].left /\ c.data = call[g].data /\ ~c.failed
      /\ c.last = call[g].last /\ call[g].last \in Nat
  BY <1>1 DEF Calls
<1>4. /\ call[g].left = call[g].data /\ Turned(g, call[g].data, call[g].last)
      /\ \A i \in DOMAIN call[g].data : call[g].data[i].by = g
  BY <1>2 DEF CallsWell, WellCalled, Agrees
<1> HIDE DEF c
<1>5. Fresh(g, c)
  BY <1>3, <1>4 DEF Fresh
<1> QED
  BY <1>2, <1>3, <1>5

\* The call a goroutine has when one is over.
LEMMA OverWell ==
  ASSUME Types, CallsWell, NEW g \in Goroutines, NEW a, a = call[g]
  PROVE  /\ Fails(g) => \E c \in Calls : /\ Moves(g, "idle", c) /\ WellCalled(g, "idle", c)
                                         /\ c.last = a.last /\ (c.left = a.data \/ c.left = << >>)
         /\ Returns(g) => \E c \in Calls : /\ Moves(g, "idle", c) /\ WellCalled(g, "idle", c)
                                           /\ c.last = a.last /\ c.left = << >>
<1>1. call \in [Goroutines -> Calls] /\ a \in Calls
  BY DEF Types
<1>2. WellCalled(g, pc[g], a)
  BY DEF CallsWell
<1> DEFINE none == [NoCall EXCEPT !.last = call[g].last]
           again == [call[g] EXCEPT !.left = call[g].data, !.failed = TRUE]
<1>3. none \in Calls /\ none.last = a.last /\ none.left = << >> /\ WellCalled(g, "idle", none)
  <2>1. << >> \in Seq(Items) /\ a.last \in Nat
    BY <1>1 DEF Calls
  <2>2. NoCall \in Calls /\ NoCall.op = "none" /\ NoCall.data = << >> /\ NoCall.left = << >>
    BY <2>1 DEF NoCall, Calls, Ops
  <2>3. none \in Calls /\ none.op = NoCall.op /\ none.data = NoCall.data /\ none.left = NoCall.left /\ none.last = a.last
    BY <2>1, <2>2 DEF Calls
  <2> HIDE DEF none
  <2>4. Agrees(g, "idle", none)
    BY <2>2, <2>3 DEF Agrees
  <2>5. Turned(g, none.data, none.last) /\ Turned(g, none.left, none.last)
    BY <2>2, <2>3 DEF Turned
  <2> QED
    BY <2>2, <2>3, <2>4, <2>5 DEF WellCalled
<1>4. ASSUME a.data # << >>
      PROVE  again \in Calls /\ again.last = a.last /\ again.left = a.data /\ WellCalled(g, "idle", again)
  <2>1. /\ again \in Calls /\ again.op = a.op /\ again.data = a.data /\ again.left = a.data
        /\ again.last = a.last
    BY <1>1 DEF Calls
  <2> HIDE DEF again
  <2>2. Agrees(g, pc[g], a) /\ Turned(g, a.data, a.last)
    BY <1>2 DEF WellCalled
  <2>3. Agrees(g, "idle", again)
    BY <2>1, <2>2 DEF Agrees
  <2>4. Turned(g, again.data, again.last) /\ Turned(g, again.left, again.last)
    BY <2>1, <2>2 DEF Turned
  <2> QED
    BY <1>4, <2>1, <2>3, <2>4 DEF WellCalled
<1>5. ASSUME Fails(g)
      PROVE  \E c \in Calls : /\ Moves(g, "idle", c) /\ WellCalled(g, "idle", c)
                              /\ c.last = a.last /\ (c.left = a.data \/ c.left = << >>)
  <2>1. CASE a.data = << >>
    <3>1. Moves(g, "idle", none)
      BY <1>5, <2>1 DEF Fails, Goes, Moves
    <3> QED
      BY <1>3, <3>1
  <2>2. CASE a.data # << >>
    <3>1. Moves(g, "idle", again)
      BY <1>5, <2>2 DEF Fails, Goes, Moves
    <3> QED
      BY <1>4, <2>2, <3>1
  <2> QED
    BY <2>1, <2>2
<1>6. ASSUME Returns(g)
      PROVE  \E c \in Calls : /\ Moves(g, "idle", c) /\ WellCalled(g, "idle", c)
                              /\ c.last = a.last /\ c.left = << >>
  <2>1. Moves(g, "idle", none)
    BY <1>6 DEF Returns, Goes, Moves
  <2> QED
    BY <1>3, <2>1
<1> QED
  BY <1>5, <1>6

-----------------------------------------------------------------------------
\* The inductive invariant, in two halves.

WireSide ==
  /\ writer \in [Ends -> Nat] /\ wire \in [Ends -> Seq(Records)] /\ nonces \in [Ends -> Seq(Nat)]
  /\ WiresWell /\ Ahead /\ ReadTypes /\ ReadsWell
OrderInv == Types /\ Holders /\ CallsWell /\ WiresWell /\ Ahead /\ ReadTypes /\ ReadsWell

LEMMA Halves ==
  ASSUME OrderInv, CallSide', WireSide', Holders', UNCHANGED <<kind, side>>, gone' \in [Ends -> BOOLEAN]
  PROVE  OrderInv'
BY DEF OrderInv, CallSide, WireSide, Types

\* Nobody reads.
LEMMA ReadersStay ==
  ASSUME OrderInv, Grown, UNCHANGED <<kind, side>>, UNCHANGED readVars
  PROVE  ReadTypes' /\ ReadsWell'
<1>1. ReadTypes' /\ UNCHANGED <<reader, turn, taken, cache, handed>>
  BY DEF OrderInv, ReadTypes, readVars
<1>2. ASSUME NEW e \in Ends PROVE Follow(e)'
  <2>1. /\ turn'[e] = turn[e] /\ reader'[e] = reader[e] /\ taken'[e] \in Nat /\ taken'[e] >= taken[e]
        /\ handed'[e] = handed[e]
    BY <1>1 DEF OrderInv, ReadTypes
  <2> QED
    BY <2>1, FollowKept DEF OrderInv, ReadsWell
<1>3. Cached'
  BY <1>1, CachedKept DEF OrderInv
<1> QED
  BY <1>1, <1>2, <1>3 DEF ReadsWell

LEMMA NothingGrown ==
  ASSUME UNCHANGED wire
  PROVE  Grown
BY DEF Grown

\* All the groups are written.
LEMMA PutsKeep ==
  ASSUME OrderInv, NEW e \in Ends, Ours(e), NEW groups \in Seq(Seq(Items)), groups # << >>, Proper(e, groups),
         Puts(e, WriterOf(e), groups), writer' = [writer EXCEPT ![e] = WriterOf(e)],
         \A h \in Goroutines : Onward(h) /\ Past(h, groups), UNCHANGED <<kind, side>>, UNCHANGED readVars
  PROVE  WireSide'
<1>1. Types /\ WiresWell /\ Ahead /\ Published(e)
  BY DEF OrderInv, WiresWell
<1>2. WriterOf(e) \in 1 .. Len(nonces[e]) + 1 /\ WriterOf(e) \in Nat
  BY <1>1, WriterOfKnown
<1>3. Adds(e, WriterOf(e), groups) /\ AddsAll(e, groups)
  BY <1>1, <1>2, PutsAdds
<1>4. writer' \in [Ends -> Nat] /\ writer'[e] = WriterOf(e) /\ \A f \in Ends \ {e} : writer'[f] = writer[f]
  BY <1>1, <1>2 DEF Types
<1>5. WiresWell' /\ Ahead'
  BY <1>1, <1>3, <1>4, WriteKeeps
<1>6. ReadTypes' /\ ReadsWell'
  BY <1>1, <1>3, AddsGrown, ReadersStay
<1> QED
  BY <1>3, <1>4, <1>5, <1>6 DEF WireSide, Adds

\* The connection fails.
LEMMA PutFailsKeep ==
  ASSUME OrderInv, NEW e \in Ends, Ours(e), NEW groups \in Seq(Seq(Items)), groups # << >>, Proper(e, groups),
         PutFails(e, WriterOf(e), groups), UNCHANGED writer,
         \A h \in Goroutines : EndOf(h) # e => Onward(h), UNCHANGED <<kind, side>>, UNCHANGED readVars
  PROVE  WireSide'
<1>1. Types /\ WiresWell /\ Ahead /\ Published(e)
  BY DEF OrderInv, WiresWell
<1>2. WriterOf(e) \in 1 .. Len(nonces[e]) + 1 /\ WriterOf(e) \in Nat
  BY <1>1, WriterOfKnown
<1>3. Adds(e, WriterOf(e), groups) /\ AddsPart(e, groups)
  BY <1>1, <1>2, PutFailsAdds
<1>4. writer' \in [Ends -> Nat] /\ writer'[e] = writer[e] /\ \A f \in Ends \ {e} : writer'[f] = writer[f]
  BY <1>1 DEF Types
<1>5. WiresWell' /\ Ahead'
  BY <1>1, <1>3, <1>4, WriteKeeps
<1>6. ReadTypes' /\ ReadsWell'
  BY <1>1, <1>3, AddsGrown, ReadersStay
<1> QED
  BY <1>3, <1>4, <1>5, <1>6 DEF WireSide, Adds

\* Nothing is written.
LEMMA UnwrittenKeep ==
  ASSUME OrderInv, UNCHANGED <<wire, nonces, writer, kind, side>>, \A h \in Goroutines : Onward(h),
         ReadTypes' /\ ReadsWell'
  PROVE  WireSide'
<1>1. WiresWell' /\ Ahead'
  BY QuietKeeps DEF OrderInv
<1> QED
  BY <1>1 DEF WireSide, OrderInv, Types

LEMMA QuietKeep ==
  ASSUME OrderInv, UNCHANGED <<wire, nonces, writer, kind, side>>, \A h \in Goroutines : Onward(h),
         UNCHANGED readVars
  PROVE  WireSide'
BY NothingGrown, ReadersStay, UnwrittenKeep

\* A goroutine moves, without writing or reading.
LEMMA QuietMove ==
  ASSUME OrderInv, NEW g \in Goroutines, NEW at \in Steps, NEW c \in Calls, Moves(g, at, c), WellCalled(g, at, c),
         c = call[g] \/ c.left = << >> \/ Fresh(g, c) \/ c.left = call[g].left, c.last >= call[g].last,
         UNCHANGED <<wire, nonces, writer, kind, side>>, UNCHANGED readVars
  PROVE  CallSide' /\ WireSide' /\ MovesTo(g, at, c)
<1>1. CallSide' /\ MovesTo(g, at, c) /\ \A h \in Goroutines \ {g} : Onward(h)
  BY CallStep DEF OrderInv
<1>2. \A k \in DOMAIN c.left : \/ \E l \in DOMAIN call[g].left : c.left[k] = call[g].left[l]
                               \/ c.left[k].n > call[g].last
  <2>1. CASE c.left = << >>
    <3>1. DOMAIN c.left = {}
      BY <2>1
    <3> QED
      BY <3>1
  <2>2. CASE Fresh(g, c)
    BY <2>2 DEF Fresh
  <2>3. CASE c = call[g] \/ c.left = call[g].left
    BY <2>3
  <2> QED
    BY <2>1, <2>2, <2>3
<1>3. Onward(g)
  BY <1>1, <1>2, OnwardPart DEF OrderInv, MovesTo
<1> QED
  BY <1>1, <1>3, QuietKeep

\* It goes on with the call it has.
LEMMA GoesOn ==
  ASSUME OrderInv, NEW g \in Goroutines, NEW at \in Steps, Goes(g, at), UNCHANGED <<call, kind>>,
         WellCalled(g, at, call[g])
  PROVE  CallSide' /\ MovesTo(g, at, call[g]) /\ \A h \in Goroutines : Onward(h)
<1>1. PICK c : c = call[g]
  OBVIOUS
<1>2. call \in [Goroutines -> Calls] /\ c \in Calls /\ c.last \in Nat /\ c.last >= c.last
  BY <1>1 DEF OrderInv, Types, Calls
<1>3. Moves(g, at, c)
  BY <1>1, <1>2 DEF Goes, Moves
<1>4. CallSide' /\ MovesTo(g, at, c) /\ \A h \in Goroutines \ {g} : Onward(h)
  BY <1>1, <1>2, <1>3, CallStep DEF OrderInv
<1>5. Onward(g)
  BY <1>1, <1>2, <1>4, OnwardPart DEF OrderInv, MovesTo
<1> QED
  BY <1>1, <1>4, <1>5

\* The call is over, and nothing is written.
LEMMA IsOver ==
  ASSUME OrderInv, NEW g \in Goroutines, (Fails(g) /\ call[g].left = call[g].data) \/ Returns(g), UNCHANGED kind
  PROVE  /\ CallSide' /\ \A h \in Goroutines : Onward(h)
         /\ \E c \in Calls : MovesTo(g, "idle", c) /\ c.last = call[g].last
                             /\ (c.left = call[g].left \/ c.left = << >>) /\ (Returns(g) => call'[g].left = << >>)
<1>1. PICK a : a = call[g]
  OBVIOUS
<1>2. a \in Calls /\ a.last \in Nat /\ a.last >= a.last
  BY <1>1 DEF OrderInv, Types, Calls
<1>3. PICK c \in Calls : /\ Moves(g, "idle", c) /\ WellCalled(g, "idle", c) /\ c.last = a.last
                         /\ (c.left = a.left \/ c.left = << >>) /\ (Returns(g) => c.left = << >>)
  <2>1. CASE Returns(g)
    BY <1>1, <2>1, OverWell DEF OrderInv
  <2>2. CASE ~Returns(g)
    BY <1>1, <2>2, OverWell DEF OrderInv
  <2> QED
    BY <2>1, <2>2
<1>4. CallSide' /\ MovesTo(g, "idle", c) /\ \A h \in Goroutines \ {g} : Onward(h)
  BY <1>3, CallStep DEF OrderInv, Steps
<1>5. \A k \in DOMAIN c.left : \E l \in DOMAIN a.left : c.left[k] = a.left[l]
  <2>1. DOMAIN << >> = {}
    OBVIOUS
  <2> QED
    BY <1>3, <2>1
<1>6. Onward(g)
  BY <1>1, <1>2, <1>3, <1>4, <1>5, OnwardPart DEF OrderInv, MovesTo
<1> QED
  BY <1>1, <1>3, <1>4, <1>6 DEF MovesTo

\* The write of it failed: those at the other end go on.
LEMMA IsGivenUp ==
  ASSUME OrderInv, NEW g \in Goroutines, Fails(g), UNCHANGED kind
  PROVE  /\ CallSide' /\ \A h \in Goroutines \ {g} : Onward(h)
         /\ \E c \in Calls : MovesTo(g, "idle", c)
<1>1. PICK c \in Calls : Moves(g, "idle", c) /\ WellCalled(g, "idle", c)
  BY OverWell DEF OrderInv
<1> QED
  BY <1>1, CallStep DEF OrderInv, Steps

-----------------------------------------------------------------------------
\* Goroutines that write.

\* The head alone, or the end.
LEMMA AlonePut ==
  ASSUME OrderInv, NEW e \in Ends, Ours(e), NEW what \in {"request", "reply", "error", "end"},
         NEW groups, groups = << << Item(what) >> >>, what # "end" <=> writer[e] = 0,
         Puts(e, WriterOf(e), groups), writer' = [writer EXCEPT ![e] = WriterOf(e)],
         \A h \in Goroutines : Onward(h), UNCHANGED <<kind, side>>, UNCHANGED readVars
  PROVE  WireSide'
<1>1. Types /\ Published(e)
  BY DEF OrderInv, WiresWell
<1>2. NonceOf(e, WriterOf(e)) \in Nat /\ (what # "end" <=> NonceOf(e, WriterOf(e)) = 0)
  BY <1>1, WriterOfKnown
<1>3. /\ groups \in Seq(Seq(Items)) /\ groups # << >> /\ Proper(e, groups)
      /\ \A h \in Goroutines : Past(h, groups)
  BY <1>1, <1>2, AloneProper
<1> QED
  BY <1>3, PutsKeep

LEMMA AloneFails ==
  ASSUME OrderInv, NEW e \in Ends, Ours(e), NEW what \in {"request", "reply", "error", "end"},
         NEW groups, groups = << << Item(what) >> >>, what # "end" <=> writer[e] = 0,
         PutFails(e, WriterOf(e), groups), UNCHANGED writer,
         \A h \in Goroutines : EndOf(h) # e => Onward(h), UNCHANGED <<kind, side>>, UNCHANGED readVars
  PROVE  WireSide'
<1>1. Types /\ Published(e)
  BY DEF OrderInv, WiresWell
<1>2. NonceOf(e, WriterOf(e)) \in Nat /\ (what # "end" <=> NonceOf(e, WriterOf(e)) = 0)
  BY <1>1, WriterOfKnown
<1>3. groups \in Seq(Seq(Items)) /\ groups # << >> /\ Proper(e, groups)
  BY <1>1, <1>2, AloneProper
<1> QED
  BY <1>3, PutFailsKeep

LEMMA Remainder ==
  ASSUME NEW s \in Seq(Items), NEW k \in 0 .. Len(s), NEW rest, rest = SubSeq(s, k + 1, Len(s))
  PROVE  /\ rest \in Seq(Items)
         /\ \A l \in DOMAIN rest : k + l \in DOMAIN s /\ k + l > k /\ rest[l] = s[k + l] /\ l \in Nat
<1>1. PICK n \in Nat : n = Len(s)
  BY LenProperties
<1>2. k \in Nat /\ k <= n /\ DOMAIN s = 1 .. n /\ \A i \in 1 .. n : s[i] \in Items
  BY <1>1, LenProperties
<1>3. PICK m \in Nat : m = k + 1 /\ m \in 1 .. n + 1
  BY <1>1, <1>2
<1>4. \A i \in m .. n : s[i] \in Items
  BY <1>2, <1>3
<1>5. rest = SubSeq(s, m, n)
  BY <1>1, <1>3
<1>6. /\ rest \in Seq(Items) /\ Len(rest) = (IF m <= n THEN n - m + 1 ELSE 0)
      /\ \A i \in 1 .. n - m + 1 : rest[i] = s[m + i - 1]
  BY <1>1, <1>3, <1>4, <1>5, SubSeqProperties
<1>7. DOMAIN rest = 1 .. Len(rest)
  BY <1>6, LenProperties
<1>8. ASSUME NEW l \in DOMAIN rest PROVE k + l \in DOMAIN s /\ k + l > k /\ rest[l] = s[k + l] /\ l \in Nat
  <2>1. l \in Nat /\ l >= 1 /\ l \in 1 .. n - m + 1
    BY <1>3, <1>6, <1>7
  <2>2. m + l - 1 = k + l /\ k + l \in 1 .. n /\ k + l > k
    BY <1>2, <1>3, <2>1
  <2> QED
    BY <1>2, <1>6, <2>1, <2>2
<1> QED
  BY <1>6, <1>8

\* What a goroutine has to write, or a part of it.
LEMMA PartPut ==
  ASSUME OrderInv, NEW g \in Goroutines, NEW e \in Ends, e = EndOf(g), Ours(e), call[g].data # << >>,
         NEW k \in 1 .. Len(call[g].left), NEW groups \in Seq(Seq(Items)), groups # << >>,
         Carries(g, groups, k), Headed(groups, NonceOf(e, WriterOf(e))),
         Puts(e, WriterOf(e), groups), writer' = [writer EXCEPT ![e] = WriterOf(e)],
         UNCHANGED <<kind, side>>, UNCHANGED readVars,
         NEW rest, rest = SubSeq(call[g].left, k + 1, Len(call[g].left)),
         \/ rest = << >> /\ Returns(g)
         \/ rest # << >> /\ pc' = [pc EXCEPT ![g] = "put"] /\ Leaves(g, rest)
  PROVE  /\ CallSide' /\ WireSide'
         /\ \E at \in {"idle", "put"} : \E c \in Calls : MovesTo(g, at, c)
<1>1. Types /\ CallsWell /\ Turned(g, call[g].left, call[g].last) /\ WellCalled(g, pc[g], call[g])
  BY DEF OrderInv, CallsWell, WellCalled
<1>2. Proper(e, groups)
  <2>1. k \in 0 .. Len(call[g].left)
    OBVIOUS
  <2> QED
    BY <1>1, <2>1, CarriedProper
<1>3. PICK a \in Calls : a = call[g]
  BY <1>1 DEF Types
<1>4. PICK s \in Seq(Items) : s = a.left
  BY <1>3 DEF Calls
<1>5. Len(s) \in Nat /\ DOMAIN s = 1 .. Len(s) /\ k \in Nat /\ k <= Len(s) /\ a.last \in Nat
  BY <1>3, <1>4, LenProperties, SMTT(30) DEF Calls
<1>6. /\ rest \in Seq(Items)
      /\ \A l \in DOMAIN rest : k + l \in DOMAIN s /\ k + l > k /\ rest[l] = s[k + l] /\ l \in Nat
  <2>1. rest = SubSeq(s, k + 1, Len(s))
    BY <1>3, <1>4
  <2>2. k \in 0 .. Len(s)
    BY <1>5
  <2> QED
    BY <2>1, <2>2, Remainder
<1>7. PICK at \in {"idle", "put"}, c \in Calls :
        /\ Moves(g, at, c) /\ WellCalled(g, at, c) /\ c.last = a.last /\ (c.left = << >> \/ c.left = rest)
  <2>1. CASE rest = << >> /\ Returns(g)
    BY <1>1, <1>3, <2>1, OverWell
  <2>2. CASE rest # << >> /\ pc' = [pc EXCEPT ![g] = "put"] /\ Leaves(g, rest)
    <3>1. PICK c : c = [a EXCEPT !.left = rest]
      OBVIOUS
    <3>2. /\ c \in Calls /\ c.op = a.op /\ c.data = a.data /\ c.left = rest /\ c.failed = a.failed
          /\ c.last = a.last
      BY <1>3, <1>6, <3>1 DEF Calls
    <3>3. Moves(g, "put", c)
      BY <1>1, <1>3, <2>2, <3>1 DEF Moves, Leaves, Types
    <3>4. Turned(g, rest, a.last)
      <4> SUFFICES ASSUME NEW i \in DOMAIN rest
                   PROVE  /\ rest[i].what = "data" /\ rest[i].by = g /\ rest[i].n <= a.last
                          /\ \A j \in DOMAIN rest : i < j => rest[i].n < rest[j].n
        BY DEF Turned
      <4>1. /\ k + i \in DOMAIN s /\ rest[i] = s[k + i] /\ i \in Nat
            /\ \A j \in DOMAIN rest : k + j \in DOMAIN s /\ rest[j] = s[k + j] /\ j \in Nat
        BY <1>6
      <4>2. \A j \in DOMAIN rest : i < j => k + i < k + j
        BY <1>5, <4>1
      <4> QED
        BY <1>1, <1>3, <1>4, <4>1, <4>2, ZenonT(40) DEF Turned
    <3>5. Agrees(g, "put", c)
      BY <1>1, <1>3, <3>2 DEF WellCalled, Agrees
    <3>6. WellCalled(g, "put", c)
      BY <1>1, <1>3, <2>2, <3>2, <3>4, <3>5 DEF WellCalled
    <3> QED
      BY <3>2, <3>3, <3>6
  <2> QED
    BY <2>1, <2>2
<1>8. at \in Steps
  BY DEF Steps
<1>9. CallSide' /\ MovesTo(g, at, c) /\ \A h \in Goroutines \ {g} : Onward(h)
  BY <1>1, <1>7, <1>8, CallStep
<1>10. \A l \in DOMAIN c.left : \E i \in DOMAIN a.left : i > k /\ c.left[l] = a.left[i]
  <2>1. DOMAIN << >> = {}
    OBVIOUS
  <2> QED
    BY <1>4, <1>6, <1>7, <2>1, ZenonT(40)
<1>11. call'[g] = c /\ c.last >= a.last
  BY <1>5, <1>7, <1>9 DEF MovesTo
<1>12. Onward(g)
  BY <1>1, <1>3, <1>10, <1>11, OnwardPart, ZenonT(40)
<1>13. \A h \in Goroutines : Past(h, groups)
  <2>1. k \in 0 .. Len(call[g].left)
    OBVIOUS
  <2>2. \A l \in DOMAIN c.left : \E i \in DOMAIN call[g].left : i > k /\ c.left[l] = call[g].left[i]
    BY <1>3, <1>10
  <2>3. c.last >= call[g].last
    BY <1>3, <1>11
  <2> QED
    BY <1>1, <1>11, <2>1, <2>2, <2>3, CarriedPast, SMTT(30)
<1>14. WireSide'
  BY <1>2, <1>9, <1>12, <1>13, PutsKeep
<1> QED
  BY <1>9, <1>14

LEMMA PartFails ==
  ASSUME OrderInv, NEW g \in Goroutines, NEW e \in Ends, e = EndOf(g), Ours(e),
         NEW k \in 1 .. Len(call[g].left), NEW groups \in Seq(Seq(Items)), groups # << >>,
         Carries(g, groups, k), Headed(groups, NonceOf(e, WriterOf(e))),
         PutFails(e, WriterOf(e), groups), UNCHANGED writer, Fails(g),
         UNCHANGED <<kind, side>>, UNCHANGED readVars
  PROVE  CallSide' /\ WireSide' /\ \E c \in Calls : MovesTo(g, "idle", c)
<1>1. Types /\ Turned(g, call[g].left, call[g].last)
  BY DEF OrderInv, CallsWell, WellCalled
<1>2. Proper(e, groups)
  <2>1. k \in 0 .. Len(call[g].left)
    OBVIOUS
  <2> QED
    BY <1>1, <2>1, CarriedProper
<1>3. /\ CallSide' /\ \A h \in Goroutines \ {g} : Onward(h)
      /\ \E c \in Calls : MovesTo(g, "idle", c)
  BY IsGivenUp
<1>4. WireSide'
  BY <1>2, <1>3, PutFailsKeep
<1> QED
  BY <1>3, <1>4

-----------------------------------------------------------------------------
\* The steps that neither write nor read.

LEMMA QuietStep ==
  ASSUME OrderInv, NEW g \in Goroutines, NEW at \in Steps, NEW c \in Calls, Moves(g, at, c), WellCalled(g, at, c),
         c = call[g] \/ c.left = << >> \/ Fresh(g, c) \/ c.left = call[g].left, c.last >= call[g].last,
         UNCHANGED <<wire, nonces, writer, kind, side, accept>>, UNCHANGED readVars,
         gone' \in [Ends -> BOOLEAN], HoldsAt(g, at, c.op)', \A h \in Goroutines \ {g} : access = h => access' = h
  PROVE  OrderInv'
<1>1. CallSide' /\ WireSide' /\ MovesTo(g, at, c)
  BY QuietMove
<1>2. Holders'
  BY <1>1, HoldersMoved DEF OrderInv
<1> QED
  BY <1>1, <1>2, Halves

\* What a goroutine of a stream may rely on.
LEMMA StreamHas ==
  ASSUME OrderInv, NEW g, InStream(g)
  PROVE  /\ kind = "stream" /\ g \in Goroutines /\ g \notin HandlerCallers /\ EndOf(g) = side /\ side \in Ends
         /\ Ours(side) /\ accept \notin {"request", "reply"}
         /\ WellCalled(g, pc[g], call[g]) /\ HoldsAt(g, pc[g], call[g].op)
         /\ call \in [Goroutines -> Calls] /\ call[g] \in Calls /\ call[g].last >= call[g].last
         /\ "free" \notin Goroutines /\ gone \in [Ends -> BOOLEAN] /\ writer \in [Ends -> Nat]
<1>1. kind = "stream" /\ g \in Goroutines /\ g \notin HandlerCallers /\ EndOf(g) = side
  BY PlainAssumption DEF InStream, Goroutines, EndOf
<1>2. call \in [Goroutines -> Calls] /\ call[g] \in Calls /\ gone \in [Ends -> BOOLEAN] /\ writer \in [Ends -> Nat]
      /\ side \in Ends
  BY <1>1 DEF OrderInv, Types
<1>3. call[g].last \in Nat
  BY <1>2 DEF Calls
<1>4. "free" \notin Goroutines
  BY PlainAssumption DEF Goroutines
<1>5. WellCalled(g, pc[g], call[g]) /\ HoldsAt(g, pc[g], call[g].op)
  BY <1>1 DEF OrderInv, CallsWell, Holders
<1>6. accept \notin {"request", "reply"}
  BY <1>1 DEF OrderInv, Holders
<1> QED
  BY <1>1, <1>2, <1>3, <1>4, <1>5, <1>6 DEF Ours

LEMMA StreamBeginsWell ==
  ASSUME OrderInv, NEW g \in Goroutines, StreamBegin(g)
  PROVE  OrderInv'
<1>1. PICK at \in {"lock", "check"} : Goes(g, at)
  BY DEF StreamBegin
<1>2. /\ kind = "stream" /\ g \notin HandlerCallers /\ EndOf(g) = side
      /\ UNCHANGED <<wire, nonces, writer, kind, side, accept, gone, access>> /\ UNCHANGED readVars
      /\ Types /\ CallsWell /\ gone' \in [Ends -> BOOLEAN] /\ WellCalled(g, pc[g], call[g])
  BY StreamHas DEF StreamBegin, wireVars, lockVars, OrderInv
<1>3. PICK op \in {"write", "vector"} :
        \/ \E n \in IF op = "write" THEN 1 .. 2 ELSE {2} : Begins(g, op, n)
        \/ call[g].op = op /\ Retries(g)
  BY DEF StreamBegin
<1> DEFINE Done == \E c \in Calls : /\ call' = [call EXCEPT ![g] = c] /\ c.op = op /\ Fresh(g, c) /\ c.data # << >>
<1>4. Done
  <2>1. ASSUME NEW n \in IF op = "write" THEN 1 .. 2 ELSE {2}, Begins(g, op, n) PROVE Done
    <3>1. op \in Ops /\ n \in Nat /\ n # 0
      BY DEF Ops
    <3> QED
      BY <1>2, <2>1, <3>1, BeginsFresh
  <2>2. ASSUME call[g].op = op, Retries(g) PROVE Done
    <3>1. call[g].data # << >>
      BY <1>2, <2>2 DEF WellCalled
    <3> QED
      BY <1>2, <2>2, <3>1, RetriesFresh
  <2> QED
    BY <1>3, <2>1, <2>2
<1>5. PICK c \in Calls : /\ call' = [call EXCEPT ![g] = c] /\ c.op = op /\ Fresh(g, c) /\ c.data # << >>
  BY <1>4
<1>6. WellCalled(g, at, c)
  BY <1>1, <1>2, <1>5 DEF Fresh, WellCalled, Agrees
<1>7. Moves(g, at, c) /\ at \in Steps /\ c.last >= call[g].last
  BY <1>1, <1>5 DEF Goes, Moves, Steps, Fresh
<1>8. HoldsAt(g, at, c.op)'
  BY <1>1, <1>2 DEF HoldsAt
<1> QED
  BY <1>2, <1>5, <1>6, <1>7, <1>8, QuietStep

LEMMA ChecksWell ==
  ASSUME OrderInv, NEW g \in Goroutines, Check(g) \/ Lock(g)
  PROVE  OrderInv'
<1>1. /\ kind = "stream" /\ g \notin HandlerCallers /\ EndOf(g) = side /\ pc[g] \in {"check", "lock"}
      /\ UNCHANGED <<wire, nonces, writer, kind, side, accept, gone, call>> /\ UNCHANGED readVars
      /\ gone' \in [Ends -> BOOLEAN] /\ WellCalled(g, pc[g], call[g])
      /\ call[g] \in Calls /\ call[g].last >= call[g].last
      /\ call \in [Goroutines -> Calls]
  BY StreamHas DEF Check, Lock, wireVars, lockVars
<1>2. \A h \in Goroutines \ {g} : access = h => access' = h
  BY StreamHas DEF Check, Lock, lockVars
<1>3. PICK at \in {"lock", "put", "first"} :
        /\ Goes(g, at) /\ (at = "put" => writer[side] # 0) /\ (at = "first" => access' = g /\ writer[side] = 0)
  BY DEF Check, Lock
<1>4. WellCalled(g, at, call[g])
  BY <1>1, <1>3 DEF WellCalled, Agrees
<1>5. PICK c \in Calls : c = call[g]
  BY <1>1
<1>6. Moves(g, at, c) /\ at \in Steps
  BY <1>1, <1>3, <1>5 DEF Goes, Moves, Steps
<1>7. HoldsAt(g, at, c.op)'
  BY <1>1, <1>3, <1>5 DEF HoldsAt, EndOf
<1> QED
  BY <1>1, <1>2, <1>4, <1>5, <1>6, <1>7, QuietStep

LEMMA ClosesWriteWell ==
  ASSUME OrderInv, NEW g \in Goroutines, CloseWrite(g)
  PROVE  OrderInv'
<1>1. /\ kind = "stream" /\ g \notin HandlerCallers /\ EndOf(g) = side /\ access = "free" /\ access' = g
      /\ UNCHANGED <<wire, nonces, writer, kind, side, accept, gone>> /\ UNCHANGED readVars
      /\ gone' \in [Ends -> BOOLEAN] /\ Types /\ CallsWell /\ "free" \notin Goroutines
      /\ Begins(g, "closeWrite", 0)
  BY StreamHas DEF CloseWrite, wireVars, OrderInv
<1>2. PICK at \in {"close", "first", "zero"} :
        /\ Goes(g, at) /\ (at = "zero" => writer[side] # 0) /\ (at = "first" => writer[side] = 0)
  BY DEF CloseWrite
<1>3. PICK c \in Calls : call' = [call EXCEPT ![g] = c] /\ c.op = "closeWrite" /\ Fresh(g, c) /\ c.data = << >>
  BY <1>1, BeginsFresh DEF Ops
<1>4. WellCalled(g, at, c)
  BY <1>1, <1>2, <1>3 DEF Fresh, WellCalled, Agrees
<1>5. Moves(g, at, c) /\ at \in Steps /\ c.last >= call[g].last
  BY <1>2, <1>3 DEF Goes, Moves, Steps, Fresh
<1>6. HoldsAt(g, at, c.op)'
  BY <1>1, <1>2 DEF HoldsAt, EndOf
<1>7. \A h \in Goroutines \ {g} : access = h => access' = h
  BY <1>1
<1> QED
  BY <1>1, <1>3, <1>4, <1>5, <1>6, <1>7, QuietStep

LEMMA ClosesWell ==
  ASSUME OrderInv, NEW g \in Goroutines, Close(g) \/ ClosePackets(g)
  PROVE  OrderInv'
<1>1. /\ UNCHANGED <<wire, nonces, writer, kind, side, accept, access, pc>> /\ UNCHANGED readVars
      /\ Types /\ CallsWell /\ Begins(g, "close", 0) /\ EndOf(g) \in Ends
      /\ g \in HandlerCallers => kind = "packets" /\ accept = "up"
      /\ pc \in [Goroutines -> Steps]
  BY PlainAssumption DEF Close, ClosePackets, InStream, IsPackets, wireVars, lockVars, OrderInv, EndOf, Ends, Types
<1>2. gone' \in [Ends -> BOOLEAN]
  BY DEF Close, ClosePackets, OrderInv, Types
<1>3. PICK c \in Calls : call' = [call EXCEPT ![g] = c] /\ c.op = "close" /\ Fresh(g, c) /\ c.data = << >>
  BY <1>1, BeginsFresh DEF Ops
<1>4. pc[g] = "idle"
  BY <1>1 DEF Begins
<1>5. WellCalled(g, "idle", c)
  BY <1>3 DEF Fresh, WellCalled, Agrees
<1>6. Moves(g, "idle", c) /\ "idle" \in Steps /\ c.last >= call[g].last
  BY <1>1, <1>3, <1>4 DEF Moves, Steps, Fresh
<1>7. HoldsAt(g, "idle", c.op)'
  BY DEF HoldsAt
<1> QED
  BY <1>1, <1>2, <1>3, <1>5, <1>6, <1>7, QuietStep

LEMMA ClosesLastWell ==
  ASSUME OrderInv, NEW g \in Goroutines, CloseLast(g)
  PROVE  OrderInv'
<1>1. /\ UNCHANGED <<wire, nonces, writer, kind, side, accept>> /\ UNCHANGED readVars
      /\ access = g /\ Returns(g) /\ gone' \in [Ends -> BOOLEAN]
  BY StreamHas DEF CloseLast, wireVars, lockVars, HoldsAt
<1>2. PICK c \in Calls : /\ Moves(g, "idle", c) /\ WellCalled(g, "idle", c) /\ c.last = call[g].last /\ c.left = << >>
  BY <1>1, OverWell DEF OrderInv
<1>3. HoldsAt(g, "idle", c.op)' /\ "idle" \in Steps /\ c.last >= call[g].last
  BY <1>2 DEF HoldsAt, Steps, Calls
<1> QED
  BY <1>1, <1>2, <1>3, QuietStep

LEMMA ReadBeginsWell ==
  ASSUME OrderInv, NEW g \in Goroutines, ReadBegin(g)
  PROVE  OrderInv'
<1>1. /\ kind = "stream" /\ g \notin HandlerCallers
      /\ UNCHANGED <<wire, nonces, writer, kind, side, accept, gone, access>> /\ UNCHANGED readVars
      /\ gone' \in [Ends -> BOOLEAN] /\ Types /\ CallsWell /\ Begins(g, "read", 0)
  BY StreamHas DEF ReadBegin, wireVars, lockVars, OrderInv
<1>2. PICK at \in {"reply", "next"} : Goes(g, at)
  BY DEF ReadBegin
<1>3. PICK c \in Calls : call' = [call EXCEPT ![g] = c] /\ c.op = "read" /\ Fresh(g, c) /\ c.data = << >>
  BY <1>1, BeginsFresh DEF Ops
<1>4. WellCalled(g, at, c)
  BY <1>1, <1>2, <1>3 DEF Fresh, WellCalled, Agrees
<1>5. Moves(g, at, c) /\ at \in Steps /\ c.last >= call[g].last
  BY <1>2, <1>3 DEF Goes, Moves, Steps, Fresh
<1>6. HoldsAt(g, at, c.op)'
  BY <1>1, <1>2 DEF HoldsAt
<1> QED
  BY <1>1, <1>3, <1>4, <1>5, <1>6, QuietStep

-----------------------------------------------------------------------------
\* The steps of a stream that write.

\* The goroutine has moved and the wire is well.
LEMMA StreamWrote ==
  ASSUME OrderInv, NEW g \in Goroutines, InStream(g), CallSide', WireSide', NEW at, NEW c, MovesTo(g, at, c),
         UNCHANGED <<kind, side, accept, gone>>, \A h \in Goroutines \ {g} : access = h => access' = h,
         \/ writer' = writer
         \/ access = g /\ writer' = [writer EXCEPT ![side] = WriterOf(side)],
         HoldsAt(g, at, c.op)'
  PROVE  OrderInv'
<1>1. kind = "stream" /\ side \in Ends /\ Published(side) /\ Ours(side) /\ writer \in [Ends -> Nat]
      /\ accept \notin {"request", "reply"} /\ gone' \in [Ends -> BOOLEAN] /\ Types
  BY StreamHas DEF OrderInv, WiresWell
<1>2. WriterOf(side) # 0
  BY <1>1, WriterOfKnown
<1>3. \A e \in Ends : writer[e] # 0 => writer'[e] # 0
  BY <1>1, <1>2
<1>4. Holders'
  BY <1>1, <1>3, HoldersMoved DEF OrderInv
<1> QED
  BY <1>1, <1>4, Halves

LEMMA FirstWell ==
  ASSUME OrderInv, NEW g \in Goroutines, First(g)
  PROVE  OrderInv'
<1>1. /\ kind = "stream" /\ EndOf(g) = side /\ side \in Ends /\ Ours(side) /\ access = g /\ writer[side] = 0
      /\ UNCHANGED <<kind, side, accept, gone>> /\ UNCHANGED readVars /\ g \notin HandlerCallers
      /\ WellCalled(g, pc[g], call[g]) /\ call[g].op \in {"write", "vector"} /\ InStream(g)
      /\ call[g] \in Calls /\ writer \in [Ends -> Nat]
      /\ Types /\ Published(side) /\ pc[g] = "first"
  BY StreamHas DEF First, HoldsAt, WellCalled, Agrees, OrderInv, WiresWell
<1>2. /\ call[g].left = call[g].data /\ call[g].data # << >> /\ Turned(g, call[g].left, call[g].last)
      /\ call[g].left \in Seq(Items) /\ Len(call[g].left) \in Nat /\ Len(call[g].left) > 0
  <2>1. /\ call[g].left = call[g].data /\ call[g].data # << >> /\ Turned(g, call[g].left, call[g].last)
        /\ call[g].left \in Seq(Items)
    BY <1>1 DEF WellCalled, Calls
  <2> QED
    BY <2>1, EmptySeq, LenProperties
<1>3. PICK k, groups, rest :
        /\ k \in Unpublished(g) /\ groups = FirstGroups(Opening, SubSeq(call[g].left, 1, k))
        /\ rest = SubSeq(call[g].left, k + 1, Len(call[g].left))
        /\ \/ /\ Puts(side, NewWriter(side), groups)
              /\ writer' = [writer EXCEPT ![side] = NewWriter(side)]
              /\ IF rest = << >> THEN access' = "free" /\ Returns(g)
                 ELSE Goes(g, "put") /\ Leaves(g, rest)
           \/ PutFails(side, NewWriter(side), groups) /\ Fails(g) /\ UNCHANGED writer
  BY DEF First
<1>4. k \in 1 .. Len(call[g].left)
  BY <1>1, <1>2, <1>3 DEF Unpublished
<1>5. Opening \in {"request", "reply", "error"}
  BY DEF Opening
<1>6. groups \in Seq(Seq(Items)) /\ groups # << >> /\ Carries(g, groups, k) /\ Headed(groups, 0)
  BY <1>1, <1>2, <1>3, <1>4, <1>5, FirstGroupsCarry
<1>7. WriterOf(side) = NewWriter(side) /\ NonceOf(side, WriterOf(side)) = 0 /\ WriterOf(side) # 0
  BY <1>1, WriterOfKnown DEF WriterOf
<1>8. Headed(groups, NonceOf(side, WriterOf(side)))
  BY <1>6, <1>7
<1>9. \A h \in Goroutines \ {g} : access = h => access' = h
  BY <1>1
<1>10. CASE /\ Puts(side, NewWriter(side), groups)
            /\ writer' = [writer EXCEPT ![side] = NewWriter(side)]
            /\ IF rest = << >> THEN access' = "free" /\ Returns(g)
               ELSE Goes(g, "put") /\ Leaves(g, rest)
  <2>1. \/ rest = << >> /\ Returns(g)
        \/ rest # << >> /\ pc' = [pc EXCEPT ![g] = "put"] /\ Leaves(g, rest)
    BY <1>10 DEF Goes
  <2>2. CallSide' /\ WireSide' /\ \E at \in {"idle", "put"} : \E c \in Calls : MovesTo(g, at, c)
    BY <1>1, <1>2, <1>3, <1>4, <1>6, <1>7, <1>8, <1>10, <2>1, PartPut
  <2>3. PICK at \in {"idle", "put"}, c \in Calls : MovesTo(g, at, c)
    BY <2>2
  <2>4. writer' = [writer EXCEPT ![side] = WriterOf(side)] /\ writer'[side] # 0
    BY <1>1, <1>7, <1>10
  <2>5. HoldsAt(g, at, c.op)'
    BY <1>1, <2>4 DEF HoldsAt, EndOf
  <2> QED
    BY <1>1, <1>9, <2>2, <2>3, <2>4, <2>5, StreamWrote
<1>11. CASE PutFails(side, NewWriter(side), groups) /\ Fails(g) /\ UNCHANGED writer
  <2>1. CallSide' /\ WireSide' /\ \E c \in Calls : MovesTo(g, "idle", c)
    BY <1>1, <1>4, <1>6, <1>7, <1>8, <1>11, PartFails
  <2>2. PICK c \in Calls : MovesTo(g, "idle", c)
    BY <2>1
  <2>3. HoldsAt(g, "idle", c.op)'
    BY DEF HoldsAt
  <2> QED
    BY <1>1, <1>9, <1>11, <2>1, <2>2, <2>3, StreamWrote
<1> QED
  BY <1>3, <1>10, <1>11

LEMMA PutWell ==
  ASSUME OrderInv, NEW g \in Goroutines, Put(g)
  PROVE  OrderInv'
<1>1. /\ kind = "stream" /\ EndOf(g) = side /\ side \in Ends /\ Ours(side) /\ writer[side] # 0
      /\ UNCHANGED <<kind, side, accept, gone, writer>> /\ UNCHANGED readVars /\ g \notin HandlerCallers
      /\ WellCalled(g, pc[g], call[g]) /\ InStream(g)
      /\ call[g] \in Calls /\ writer \in [Ends -> Nat]
      /\ Types /\ Published(side) /\ pc[g] = "put"
  BY StreamHas DEF Put, HoldsAt, OrderInv, WiresWell
<1>2. /\ call[g].data # << >> /\ Turned(g, call[g].left, call[g].last)
      /\ call[g].left \in Seq(Items) /\ Len(call[g].left) \in Nat /\ Len(call[g].left) > 0
  <2>1. /\ call[g].left # << >> /\ call[g].data # << >> /\ Turned(g, call[g].left, call[g].last)
        /\ call[g].left \in Seq(Items)
    BY <1>1 DEF WellCalled, Calls
  <2> QED
    BY <2>1, EmptySeq, LenProperties
<1>3. PICK k, groups, rest :
        /\ k \in AtOnce(g) /\ groups = Groups(SubSeq(call[g].left, 1, k))
        /\ rest = SubSeq(call[g].left, k + 1, Len(call[g].left))
        /\ \/ /\ Puts(side, writer[side], groups)
              /\ IF rest = << >> THEN access' = Unlocked(g) /\ Returns(g)
                 ELSE UNCHANGED <<access, pc>> /\ Leaves(g, rest)
           \/ PutFails(side, writer[side], groups) /\ access' = Unlocked(g) /\ Fails(g)
  BY DEF Put
<1>4. k \in 1 .. Len(call[g].left)
  BY <1>1, <1>2, <1>3 DEF AtOnce
<1>5. /\ WriterOf(side) = writer[side] /\ NonceOf(side, WriterOf(side)) \in Nat \ {0}
      /\ writer' = [writer EXCEPT ![side] = WriterOf(side)]
  BY <1>1, WriterOfKnown DEF WriterOf
<1>6. /\ groups \in Seq(Seq(Items)) /\ groups # << >> /\ Carries(g, groups, k)
      /\ Headed(groups, NonceOf(side, WriterOf(side)))
  BY <1>1, <1>2, <1>3, <1>4, <1>5, GroupsCarry
<1>7. \A h \in Goroutines \ {g} : access = h => access' = h
  BY <1>3 DEF Unlocked
<1>8. CASE /\ Puts(side, writer[side], groups)
           /\ IF rest = << >> THEN access' = Unlocked(g) /\ Returns(g)
              ELSE UNCHANGED <<access, pc>> /\ Leaves(g, rest)
  <2>1. pc' = pc => pc' = [pc EXCEPT ![g] = "put"]
    BY <1>1 DEF Types
  <2>2. \/ rest = << >> /\ Returns(g)
        \/ rest # << >> /\ pc' = [pc EXCEPT ![g] = "put"] /\ Leaves(g, rest)
    BY <1>8, <2>1
  <2>3. Puts(side, WriterOf(side), groups)
    BY <1>5, <1>8
  <2>4. rest = SubSeq(call[g].left, k + 1, Len(call[g].left))
    BY <1>3
  <2>5. CallSide' /\ WireSide' /\ \E at \in {"idle", "put"} : \E c \in Calls : MovesTo(g, at, c)
    BY <1>1, <1>2, <1>4, <1>5, <1>6, <2>2, <2>3, <2>4, PartPut
  <2>6. PICK at \in {"idle", "put"}, c \in Calls : MovesTo(g, at, c)
    BY <2>5
  <2>7. HoldsAt(g, at, c.op)'
    BY <1>1 DEF HoldsAt, EndOf
  <2> QED
    BY <1>1, <1>7, <2>5, <2>6, <2>7, StreamWrote
<1>9. CASE PutFails(side, writer[side], groups) /\ access' = Unlocked(g) /\ Fails(g)
  <2>1. CallSide' /\ WireSide' /\ \E c \in Calls : MovesTo(g, "idle", c)
    BY <1>1, <1>4, <1>5, <1>6, <1>9, PartFails
  <2>2. PICK c \in Calls : MovesTo(g, "idle", c)
    BY <2>1
  <2>3. HoldsAt(g, "idle", c.op)'
    BY DEF HoldsAt
  <2> QED
    BY <1>1, <1>7, <2>1, <2>2, <2>3, StreamWrote
<1> QED
  BY <1>3, <1>8, <1>9

LEMMA ClosesFirstWell ==
  ASSUME OrderInv, NEW g \in Goroutines, CloseFirst(g)
  PROVE  OrderInv'
<1>1. /\ kind = "stream" /\ EndOf(g) = side /\ side \in Ends /\ Ours(side) /\ access = g /\ writer[side] = 0
      /\ UNCHANGED <<kind, side, accept, gone>> /\ UNCHANGED readVars /\ g \notin HandlerCallers
      /\ WellCalled(g, pc[g], call[g]) /\ call[g].op = "closeWrite" /\ InStream(g)
      /\ writer \in [Ends -> Nat] /\ Types /\ Published(side) /\ pc[g] = "first"
  BY StreamHas DEF CloseFirst, HoldsAt, OrderInv, WiresWell
<1>2. WriterOf(side) = NewWriter(side) /\ WriterOf(side) # 0
  BY <1>1, WriterOfKnown DEF WriterOf
<1>3. PICK what \in {"request", "error"} : what = (IF side = "client" THEN "request" ELSE "error")
  OBVIOUS
<1>4. PICK groups : groups = << << Item(what) >> >> /\ groups = FirstGroups(what, << >>)
  BY DEF FirstGroups
<1>5. \/ /\ Puts(side, NewWriter(side), groups)
         /\ writer' = [writer EXCEPT ![side] = NewWriter(side)]
         /\ Goes(g, IF side = "client" THEN "zero" ELSE "close")
         /\ UNCHANGED <<access, call, calls, done>>
      \/ /\ PutFails(side, NewWriter(side), groups) /\ UNCHANGED writer
         /\ IF side = "client" THEN access' = "free" /\ Fails(g)
            ELSE Goes(g, "close") /\ UNCHANGED <<access, call, calls, done>>
  BY <1>3, <1>4 DEF CloseFirst
<1>6. /\ call[g].left = call[g].data /\ WellCalled(g, "zero", call[g]) /\ WellCalled(g, "close", call[g])
      /\ {"zero", "close"} \subseteq Steps
  BY <1>1 DEF WellCalled, Agrees, Steps
<1>7. \A h \in Goroutines \ {g} : access = h => access' = h
  BY <1>1
<1>8. CASE /\ Puts(side, NewWriter(side), groups)
           /\ writer' = [writer EXCEPT ![side] = NewWriter(side)]
           /\ Goes(g, IF side = "client" THEN "zero" ELSE "close")
           /\ UNCHANGED <<access, call, calls, done>>
  <2>1. PICK at \in {"zero", "close"} : Goes(g, at)
    BY <1>8
  <2>2. CallSide' /\ MovesTo(g, at, call[g]) /\ \A h \in Goroutines : Onward(h)
    BY <1>1, <1>6, <1>8, <2>1, GoesOn
  <2>3. WireSide'
    BY <1>1, <1>2, <1>4, <1>8, <2>2, AlonePut
  <2>4. writer' = [writer EXCEPT ![side] = WriterOf(side)] /\ writer'[side] # 0
    BY <1>1, <1>2, <1>8
  <2>5. HoldsAt(g, at, call[g].op)'
    BY <1>1, <1>8, <2>4 DEF HoldsAt, EndOf
  <2>6. PICK c : c = call[g] /\ call' = call
    BY <1>8
  <2>7. MovesTo(g, at, c) /\ HoldsAt(g, at, c.op)'
    BY <2>2, <2>5, <2>6 DEF HoldsAt
  <2> QED
    BY <1>1, <1>7, <2>2, <2>3, <2>4, <2>7, StreamWrote
<1>9. CASE /\ PutFails(side, NewWriter(side), groups) /\ UNCHANGED writer
           /\ IF side = "client" THEN access' = "free" /\ Fails(g)
              ELSE Goes(g, "close") /\ UNCHANGED <<access, call, calls, done>>
  <2>1. CallSide' /\ (\A h \in Goroutines : Onward(h))
        /\ \E at \in {"idle", "close"} : \E c : MovesTo(g, at, c) /\ (at = "close" => access' = g)
    <3>1. CASE side = "client"
      BY <1>1, <1>6, <1>9, <3>1, IsOver
    <3>2. CASE side # "client"
      BY <1>1, <1>6, <1>9, <3>2, GoesOn
    <3> QED
      BY <3>1, <3>2
  <2>2. PICK at, c : at \in {"idle", "close"} /\ MovesTo(g, at, c) /\ (at = "close" => access' = g)
    BY <2>1
  <2>3. WireSide'
    BY <1>1, <1>2, <1>4, <1>9, <2>1, AloneFails
  <2>4. HoldsAt(g, at, c.op)'
    BY <1>1, <2>2 DEF HoldsAt, EndOf
  <2> QED
    BY <1>1, <1>7, <1>9, <2>1, <2>2, <2>3, <2>4, StreamWrote
<1> QED
  BY <1>5, <1>8, <1>9

LEMMA ZeroWell ==
  ASSUME OrderInv, NEW g \in Goroutines, Zero(g)
  PROVE  OrderInv'
<1>1. /\ kind = "stream" /\ EndOf(g) = side /\ side \in Ends /\ Ours(side) /\ access = g /\ writer[side] # 0
      /\ UNCHANGED <<kind, side, accept, gone, writer>> /\ UNCHANGED readVars
      /\ WellCalled(g, pc[g], call[g]) /\ InStream(g)
      /\ writer \in [Ends -> Nat] /\ Types /\ Published(side) /\ pc[g] = "zero"
  BY StreamHas DEF Zero, HoldsAt, OrderInv, WiresWell
<1>2. WriterOf(side) = writer[side] /\ writer' = [writer EXCEPT ![side] = WriterOf(side)]
  BY <1>1 DEF WriterOf
<1>3. PICK groups : groups = << << Item("end") >> >>
  OBVIOUS
<1>4. \/ Puts(side, writer[side], groups) /\ Returns(g)
      \/ PutFails(side, writer[side], groups) /\ Fails(g)
  BY <1>3 DEF Zero
<1>5. call[g].left = call[g].data
  BY <1>1 DEF WellCalled
<1>6. CallSide' /\ (\A h \in Goroutines : Onward(h)) /\ \E c \in Calls : MovesTo(g, "idle", c)
  BY <1>1, <1>4, <1>5, IsOver
<1>7. PICK c \in Calls : MovesTo(g, "idle", c)
  BY <1>6
<1>8. WireSide'
  BY <1>1, <1>2, <1>3, <1>4, <1>6, AlonePut, AloneFails
<1>9. HoldsAt(g, "idle", c.op)'
  BY DEF HoldsAt
<1>10. \A h \in Goroutines \ {g} : access = h => access' = h
  BY <1>1
<1> QED
  BY <1>1, <1>6, <1>7, <1>8, <1>9, <1>10, StreamWrote

-----------------------------------------------------------------------------
\* The steps that read.

LEMMA SpoilsWell ==
  ASSUME OrderInv, NEW e \in Ends, Spoils(e), UNCHANGED <<wire, kind, side, handed, cache>>
  PROVE  ReadTypes' /\ ReadsWell'
<1>1. /\ taken' = [taken EXCEPT ![e] = taken[e] + 1] /\ UNCHANGED <<turn, reader>> /\ Grown
      /\ taken \in [Ends -> Nat] /\ Types /\ ReadTypes /\ ReadsWell
  BY NothingGrown DEF Spoils, OrderInv, ReadTypes
<1>2. ReadTypes' /\ \A x \in Ends : taken'[x] \in Nat /\ taken'[x] >= taken[x]
  BY <1>1 DEF ReadTypes
<1>3. ASSUME NEW x \in Ends PROVE Follow(x)'
  BY <1>1, <1>2, FollowKept DEF ReadsWell
<1>4. Cached'
  BY <1>1, CachedKept
<1> QED
  BY <1>2, <1>3, <1>4 DEF ReadsWell

\* A record of the far end that can be read.
LEMMA RecordRead ==
  ASSUME OrderInv, NEW e \in Ends, NEW i \in Legible(e)
  PROVE  /\ wire[e][i] \in Records /\ wire[e][i].items \in Seq(Items) /\ wire[e][i].items # << >>
         /\ InTurn(wire[e][i].items) /\ i \in Nat \ {0} /\ wire[e][i].n = i - 1
         /\ \A j \in DOMAIN wire[e][i].items : wire[e][i].items[j] \in Heads <=> i = 1 /\ j = 1
<1>1. wire[e] \in Seq(Records) /\ Signed(e) /\ HeardInTurn(e)
  BY DEF OrderInv, Types, WiresWell
<1>2. i \in DOMAIN wire[e] /\ i \in Nat \ {0} /\ i \in 1 .. i
  BY <1>1, LenProperties DEF Legible
<1>3. wire[e][i] \in Records /\ wire[e][i] # Torn /\ wire[e][i].n = i - 1
  BY <1>1, <1>2 DEF Legible
<1>4. wire[e][i].items \in Seq(Items)
  BY <1>3 DEF Records
<1>5. /\ wire[e][i].items # << >>
      /\ \A j \in DOMAIN wire[e][i].items : wire[e][i].items[j] \in Heads <=> wire[e][i].n = 0 /\ j = 1
  BY <1>1, <1>2, <1>3 DEF Signed
<1>6. wire[e][i].n = 0 <=> i = 1
  BY <1>2, <1>3
<1>7. InTurn(wire[e][i].items)
  BY <1>1, SMTT(30) DEF HeardInTurn, InTurn
<1> QED
  BY <1>2, <1>3, <1>4, <1>5, <1>6, <1>7

\* The record at hand opens; what is in it is handed out, or lost, or waits.
LEMMA TakesWell ==
  ASSUME OrderInv, NEW e \in Ends, Readable(e), Opens(e, NextOf(e)), TakesRecord(e),
         UNCHANGED <<wire, kind, side>>,
         \/ handed' = handed
         \/ handed' = [handed EXCEPT ![e] = @ \o NextOf(e).items]
  PROVE  /\ \A x \in Ends : Follow(x)'
         /\ reader' \in [Ends -> Nat] /\ turn' \in [Ends -> Nat] /\ taken' \in [Ends -> Nat]
         /\ handed' \in [Ends -> Seq(Items)]
<1>1. Types /\ ReadTypes /\ Follow(e) /\ Grown /\ handed \in [Ends -> Seq(Items)]
  BY NothingGrown DEF OrderInv, ReadsWell, ReadTypes
<1>2. PICK f \in Ends : f = Far(e)
  BY FarEnds
<1>3. /\ turn[e] + 1 \in Legible(f) /\ NextOf(e) = wire[f][turn[e] + 1]
      /\ turn'[e] = turn[e] + 1 /\ taken'[e] = turn'[e] /\ reader'[e] = wire[f][1].writer
      /\ reader'[e] # 0 /\ reader' \in [Ends -> Nat] /\ turn' \in [Ends -> Nat] /\ taken' \in [Ends -> Nat]
      /\ \A x \in Ends \ {e} : turn'[x] = turn[x] /\ reader'[x] = reader[x] /\ taken'[x] = taken[x]
  BY <1>1, <1>2, OpensNext
<1>4. PICK t \in Nat : t = turn[e]
  BY <1>1 DEF ReadTypes
<1>5. PICK items : items = NextOf(e).items
  BY SMTT(30)
<1>6. items \in Seq(Items) /\ InTurn(items) /\ items = wire[f][t + 1].items
  <2>1. items = wire[f][t + 1].items /\ t + 1 \in Legible(f)
    BY <1>3, <1>4, <1>5
  <2>2. wire[f][t + 1].items \in Seq(Items) /\ InTurn(wire[f][t + 1].items)
    BY <2>1, RecordRead, Zenon
  <2> QED
    BY <2>1, <2>2, Zenon
<1>7. handed' \in [Ends -> Seq(Items)] /\ \A x \in Ends \ {e} : handed'[x] = handed[x]
  <2>1. CASE handed' = handed
    BY <1>1, <2>1
  <2>2. CASE handed' = [handed EXCEPT ![e] = handed[e] \o items]
    <3>1. handed[e] \o items \in Seq(Items)
      BY <1>1, <1>6
    <3> QED
      BY <1>1, <2>2, <3>1
  <2> QED
    BY <1>5, <2>1, <2>2
<1>8. InTurn(handed[e]) /\ HandedFrom(f, handed[e], t)
  BY <1>1, <1>2, <1>4 DEF Follow
<1>9. InTurn(handed'[e]) /\ HandedFrom(f, handed'[e], t + 1)
  <2>1. CASE handed' = handed
    <3>1. \A i \in 1 .. t : i \in 1 .. t + 1
      OBVIOUS
    <3> QED
      BY <1>8, <2>1, <3>1 DEF HandedFrom
  <2>2. CASE handed' = [handed EXCEPT ![e] = handed[e] \o items]
    <3>1. handed'[e] = handed[e] \o items
      BY <1>1, <2>2
    <3>2. PICK n \in Nat : n = t + 1 /\ n - 1 = t /\ n \in 1 .. n /\ n <= n
      BY <1>4, SMTT(30)
    <3>3. n \in Legible(f) /\ items = wire[f][n].items
      BY <1>3, <1>4, <1>6, <3>2
    <3>4. PartOf(items, wire[f][n].items)
      BY <3>3 DEF PartOf
    <3>5. HeardInTurn(f)
      BY DEF OrderInv, WiresWell
    <3>6. HandedFrom(f, handed[e], n - 1) /\ handed[e] \in Seq(Items)
      BY <1>1, <1>8, <3>2
    <3>7. PICK a, b : a = handed[e] /\ b = handed'[e]
      OBVIOUS
    <3>8. InTurn(b) /\ HandedFrom(f, b, n)
      <4>1. /\ Types /\ f \in Ends /\ HeardInTurn(f) /\ a \in Seq(Items) /\ InTurn(a) /\ n \in Nat
            /\ n \in Legible(f) /\ n \in 1 .. n /\ items \in Seq(Items) /\ InTurn(items)
            /\ b = a \o items
        BY <1>1, <1>2, <1>6, <1>8, <3>1, <3>2, <3>3, <3>5, <3>6, <3>7
      <4>2. HandedFrom(f, a, n - 1) /\ PartOf(items, wire[f][n].items)
        BY <3>4, <3>6, <3>7
      <4> QED
        BY <4>1, <4>2, HandsOn
    <3> QED
      BY <3>2, <3>7, <3>8
  <2> QED
    BY <1>5, <2>1, <2>2
<1>10. Follow(e)'
  <2>1. t + 1 > 0 /\ t + 1 # 0
    OBVIOUS
  <2>2. turn'[e] <= taken'[e] /\ (reader'[e] = 0 <=> turn'[e] = 0) /\ turn'[e] = t + 1
    BY <1>3, <1>4, <2>1, SMTT(30)
  <2>3. t + 1 \in Legible(f)' /\ reader'[e] = wire'[f][1].writer
    BY <1>3, <1>4 DEF Legible
  <2> QED
    BY <1>2, <1>9, <2>2, <2>3 DEF Follow, InTurn, HandedFrom
<1>11. ASSUME NEW x \in Ends, x # e PROVE Follow(x)'
  <2>1. /\ Follow(x) /\ turn'[x] = turn[x] /\ reader'[x] = reader[x] /\ taken'[x] \in Nat /\ taken'[x] >= taken[x]
        /\ handed'[x] = handed[x]
    BY <1>1, <1>3, <1>7, <1>11 DEF OrderInv, ReadsWell, ReadTypes
  <2> QED
    BY <1>1, <2>1, FollowKept
<1> QED
  BY <1>3, <1>7, <1>10, <1>11

\* The reply comes first: what came with it waits.
LEMMA AnswerWell ==
  ASSUME OrderInv, NEW e \in Ends, kind = "stream" => e = side, Answered(e), TakesRecord(e),
         UNCHANGED <<wire, kind, side, handed>>,
         cache' = cache \/ (kind = "stream" /\ cache' = Tail(NextOf(e).items))
  PROVE  ReadTypes' /\ ReadsWell'
<1>1. Readable(e) /\ Opens(e, NextOf(e)) /\ Head(NextOf(e).items) = Item("reply")
  BY DEF Answered
<1>2. /\ \A x \in Ends : Follow(x)'
      /\ reader' \in [Ends -> Nat] /\ turn' \in [Ends -> Nat] /\ taken' \in [Ends -> Nat]
      /\ handed' \in [Ends -> Seq(Items)]
  BY <1>1, TakesWell
<1>3. PICK f \in Ends : f = Far(e)
  BY FarEnds
<1>4. Types /\ ReadTypes /\ Follow(e) /\ Cached
  BY DEF OrderInv, ReadsWell
<1>5. /\ turn[e] + 1 \in Legible(f) /\ NextOf(e) = wire[f][turn[e] + 1] /\ turn'[e] = turn[e] + 1
  BY <1>1, <1>3, <1>4, OpensNext
<1>6. PICK t \in Nat : t = turn[e]
  BY <1>4 DEF ReadTypes
<1>7. PICK items \in Seq(Items) : items = wire[f][t + 1].items /\ items # << >>
  BY <1>5, <1>6, RecordRead
<1>8. \A j \in DOMAIN items : items[j] \in Heads <=> t + 1 = 1 /\ j = 1
  BY <1>5, <1>6, <1>7, RecordRead, ZenonT(40)
<1>9. t = 0
  <2>1. 1 \in DOMAIN items /\ Head(items) = items[1]
    BY <1>7, EmptySeq, LenProperties
  <2>2. items[1] \in Heads
    BY <1>1, <1>5, <1>6, <1>7, <2>1 DEF Heads
  <2> QED
    BY <1>8, <2>1, <2>2
<1>10. handed[e] = << >>
  <2>1. \A k \in DOMAIN handed[e] : \E i \in 1 .. 0 : TRUE
    BY <1>4, <1>6, <1>9 DEF Follow, HandedFrom
  <2>2. \A k \in DOMAIN handed[e] : FALSE
    BY <2>1
  <2>3. handed[e] \in Seq(Items) /\ DOMAIN handed[e] = 1 .. Len(handed[e]) /\ Len(handed[e]) \in Nat
    BY <1>4, LenProperties DEF ReadTypes
  <2>4. Len(handed[e]) = 0
    <3>1. Len(handed[e]) > 0 => 1 \in 1 .. Len(handed[e])
      BY <2>3
    <3> QED
      BY <2>2, <2>3, <3>1
  <2> QED
    BY <2>3, <2>4, EmptySeq
<1>11. cache' \in Seq(Items)
  <2>1. cache \in Seq(Items)
    BY <1>4 DEF ReadTypes
  <2>2. Tail(items) \in Seq(Items)
    BY <1>7
  <2> QED
    BY <1>5, <1>6, <1>7, <2>1, <2>2
<1>12. Cached'
  <2> SUFFICES ASSUME cache' # << >>
               PROVE  /\ kind = "stream" /\ handed[side] = << >> /\ turn'[side] > 0
                      /\ cache' = Tail(wire[Far(side)][1].items)
    BY DEF Cached
  <2>1. kind = "stream" /\ e = side
    BY <1>4 DEF Cached
  <2>2. turn[side] = 0
    BY <1>6, <1>9, <2>1
  <2>3. cache' = Tail(NextOf(e).items)
    BY <1>4, <2>2 DEF Cached
  <2>4. turn'[side] > 0
    BY <1>5, <1>6, <1>9, <2>1
  <2> QED
    BY <1>3, <1>5, <1>6, <1>9, <1>10, <2>1, <2>3, <2>4
<1> QED
  BY <1>2, <1>11, <1>12 DEF ReadTypes, ReadsWell

\* The record at hand opens, and the cache is empty.
LEMMA NextWell ==
  ASSUME OrderInv, NEW e \in Ends, Readable(e), Opens(e, NextOf(e)), TakesRecord(e),
         UNCHANGED <<wire, kind, side, cache>>, cache = << >>,
         \/ handed' = handed
         \/ handed' = [handed EXCEPT ![e] = @ \o NextOf(e).items]
  PROVE  ReadTypes' /\ ReadsWell'
<1>1. /\ \A x \in Ends : Follow(x)'
      /\ reader' \in [Ends -> Nat] /\ turn' \in [Ends -> Nat] /\ taken' \in [Ends -> Nat]
      /\ handed' \in [Ends -> Seq(Items)]
  BY TakesWell
<1>2. cache' \in Seq(Items) /\ Cached'
  BY DEF Cached, OrderInv, ReadTypes
<1> QED
  BY <1>1, <1>2 DEF ReadTypes, ReadsWell

\* The cache is handed out.
LEMMA CacheWell ==
  ASSUME OrderInv, cache # << >>, handed' = [handed EXCEPT ![side] = @ \o cache], cache' = << >>,
         UNCHANGED <<wire, kind, side, turn, reader, taken>>
  PROVE  ReadTypes' /\ ReadsWell'
<1>1. Types /\ ReadTypes /\ Cached /\ side \in Ends /\ handed \in [Ends -> Seq(Items)] /\ cache \in Seq(Items)
  BY DEF OrderInv, ReadsWell, Types, ReadTypes
<1>2. PICK f \in Ends : f = Far(side)
  BY <1>1, FarEnds
<1>3. handed[side] = << >> /\ turn[side] > 0 /\ cache = Tail(wire[f][1].items) /\ Follow(side)
  BY <1>1, <1>2 DEF Cached, OrderInv, ReadsWell
<1>4. PICK n \in Nat : n = turn[side] /\ n > 0 /\ n \in Legible(f)
  BY <1>1, <1>2, <1>3 DEF ReadTypes, Follow
<1>5. 1 \in 1 .. n /\ 1 \in Legible(f)
  BY <1>1, <1>4, NothingGrown, GrownLegible
<1>6. PICK items \in Seq(Items) : items = wire[f][1].items /\ items # << >> /\ InTurn(items)
  BY <1>5, RecordRead
<1>7. PICK c \in Seq(Items) : c = cache
  BY <1>1
<1>8. /\ Len(items) \in Nat /\ DOMAIN items = 1 .. Len(items) /\ DOMAIN c = 1 .. Len(items) - 1
      /\ \A i \in DOMAIN c : c[i] = items[i + 1]
  <2>1. /\ Len(items) \in Nat /\ DOMAIN items = 1 .. Len(items) /\ Len(items) # 0
    BY <1>6, LenProperties, EmptySeq
  <2>2. c = Tail(items)
    BY <1>3, <1>6, <1>7
  <2>3. Len(c) = Len(items) - 1 /\ \A i \in 1 .. Len(c) : c[i] = items[i + 1]
    BY <1>6, <2>2, HeadTailProperties
  <2> QED
    BY <1>7, <2>1, <2>3, LenProperties
<1>9. InTurn(c) /\ \A k \in DOMAIN c : \E j \in DOMAIN items : c[k] = items[j]
  <2>1. \A i \in DOMAIN c : i + 1 \in DOMAIN items /\ c[i] = items[i + 1] /\ i \in Nat
    BY <1>8
  <2>2. \A i, j \in DOMAIN c : i < j => i + 1 < j + 1
    BY <2>1
  <2> QED
    BY <1>6, <2>1, <2>2 DEF InTurn
<1>10. handed'[side] = handed[side] \o c /\ \A x \in Ends \ {side} : handed'[x] = handed[x]
  BY <1>1, <1>7
<1>11. handed' \in [Ends -> Seq(Items)]
  <2>1. handed[side] \o c \in Seq(Items)
    BY <1>1, <1>7
  <2> QED
    BY <1>1, <1>7, <2>1
<1>12. InTurn(handed'[side]) /\ HandedFrom(f, handed'[side], n)
  <2>1. DOMAIN handed[side] = {} /\ 1 <= n
    BY <1>3, <1>4
  <2>2. InTurn(handed[side]) /\ HeardInTurn(f)
    BY <1>3 DEF Follow, OrderInv, WiresWell
  <2>3. HandedFrom(f, handed[side], 1 - 1)
    BY <2>1 DEF HandedFrom
  <2>4. PartOf(c, wire[f][1].items)
    BY <1>6, <1>9 DEF PartOf
  <2>5. PICK a, b : a = handed[side] /\ b = handed'[side] /\ b = a \o c /\ a \in Seq(Items)
    BY <1>1, <1>10
  <2>6. InTurn(b) /\ HandedFrom(f, b, n)
    <3>1. /\ Types /\ f \in Ends /\ HeardInTurn(f) /\ a \in Seq(Items) /\ InTurn(a) /\ n \in Nat
          /\ n \in Legible(f) /\ 1 \in 1 .. n /\ c \in Seq(Items) /\ InTurn(c) /\ b = a \o c
      BY <1>1, <1>2, <1>4, <1>5, <1>7, <1>9, <2>2, <2>5
    <3>2. HandedFrom(f, a, 1 - 1) /\ PartOf(c, wire[f][1].items)
      BY <2>3, <2>4, <2>5
    <3> QED
      BY <3>1, <3>2, HandsOn
  <2> QED
    BY <2>5, <2>6
<1>13. Follow(side)'
  <2>1. Legible(f)' = Legible(f)
    BY DEF Legible
  <2>2. /\ turn'[side] <= taken'[side] /\ (reader'[side] = 0 <=> turn'[side] = 0) /\ turn'[side] = n
        /\ n \in Legible(f)' /\ reader'[side] = wire'[f][1].writer
    BY <1>2, <1>3, <1>4, <2>1 DEF Follow
  <2>3. Follow(side)' = /\ turn'[side] <= taken'[side] /\ (reader'[side] = 0 <=> turn'[side] = 0)
                        /\ turn'[side] > 0 => turn'[side] \in Legible(f)' /\ reader'[side] = wire'[f][1].writer
                        /\ HandedFrom(f, handed'[side], turn'[side]) /\ InTurn(handed'[side])
    BY <1>2 DEF Follow, InTurn, HandedFrom
  <2> QED
    BY <1>12, <2>2, <2>3
<1>14. ASSUME NEW x \in Ends, x # side PROVE Follow(x)'
  <2>1. /\ Follow(x) /\ taken'[x] \in Nat /\ taken'[x] >= taken[x] /\ handed'[x] = handed[x]
    BY <1>1, <1>10, <1>14 DEF OrderInv, ReadsWell, ReadTypes
  <2> QED
    BY <1>1, <2>1, NothingGrown, FollowKept
<1>15. Cached' /\ cache' \in Seq(Items)
  BY DEF Cached
<1> QED
  BY <1>1, <1>11, <1>13, <1>14, <1>15 DEF ReadTypes, ReadsWell

-----------------------------------------------------------------------------
\* The readers of a stream.

\* A goroutine moves that has read.
LEMMA ReadMoved ==
  ASSUME OrderInv, NEW g \in Goroutines, CallSide', \A h \in Goroutines : Onward(h),
         NEW at, NEW c, MovesTo(g, at, c), UNCHANGED <<wire, nonces, writer, kind, side, accept, gone>>,
         ReadTypes', ReadsWell', \A h \in Goroutines \ {g} : access = h => access' = h,
         HoldsAt(g, at, c.op)'
  PROVE  OrderInv'
<1>1. WireSide'
  BY UnwrittenKeep
<1>2. Holders'
  BY HoldersMoved DEF OrderInv
<1>3. gone' \in [Ends -> BOOLEAN]
  BY DEF OrderInv, Types
<1> QED
  BY <1>1, <1>2, <1>3, Halves

\* It has not read anything.
LEMMA ReadNothing ==
  ASSUME OrderInv, UNCHANGED <<wire, kind, side, turn, reader, taken, handed, cache>>
  PROVE  ReadTypes' /\ ReadsWell'
BY NothingGrown, ReadersStay DEF readVars

LEMMA ReadResponseWell ==
  ASSUME OrderInv, NEW g \in Goroutines, ReadResponse(g)
  PROVE  OrderInv'
<1>1. /\ kind = "stream" /\ g \notin HandlerCallers /\ side \in Ends
      /\ UNCHANGED <<wire, nonces, writer, kind, side, accept, gone, access, handed>>
      /\ WellCalled(g, pc[g], call[g]) /\ pc[g] = "reply"
  BY StreamHas DEF ReadResponse, wireVars, lockVars
<1>2. call[g].left = call[g].data /\ call[g].op = "read" /\ WellCalled(g, "next", call[g]) /\ "next" \in Steps
  BY <1>1 DEF WellCalled, Agrees, Steps
<1>3. CASE /\ Answered(side) /\ TakesRecord(side) /\ Goes(g, "next")
           /\ cache' = Tail(NextOf(side).items) /\ UNCHANGED <<call, calls, done>>
  <2>1. ReadTypes' /\ ReadsWell'
    BY <1>1, <1>3, AnswerWell
  <2>2. PICK c : c = call[g]
    OBVIOUS
  <2>3. CallSide' /\ MovesTo(g, "next", c) /\ \A h \in Goroutines : Onward(h)
    BY <1>1, <1>2, <1>3, <2>2, GoesOn
  <2>4. HoldsAt(g, "next", c.op)'
    BY <1>1 DEF HoldsAt
  <2> QED
    BY <1>1, <2>1, <2>3, <2>4, ReadMoved
<1>4. CASE Fails(g) /\ \/ Spoils(side) /\ UNCHANGED cache
                       \/ UNCHANGED <<taken, turn, reader, cache>>
  <2>1. ReadTypes' /\ ReadsWell'
    BY <1>1, <1>4, SpoilsWell, ReadNothing
  <2>2. CallSide' /\ (\A h \in Goroutines : Onward(h)) /\ \E c \in Calls : MovesTo(g, "idle", c)
    BY <1>1, <1>2, <1>4, IsOver
  <2>3. PICK c \in Calls : MovesTo(g, "idle", c)
    BY <2>2
  <2>4. HoldsAt(g, "idle", c.op)'
    BY DEF HoldsAt
  <2> QED
    BY <1>1, <2>1, <2>2, <2>3, <2>4, ReadMoved
<1> QED
  BY <1>3, <1>4 DEF ReadResponse

LEMMA ReadNextWell ==
  ASSUME OrderInv, NEW g \in Goroutines, ReadNext(g)
  PROVE  OrderInv'
<1>1. /\ kind = "stream" /\ side \in Ends
      /\ UNCHANGED <<wire, nonces, writer, kind, side, accept, gone, access>>
      /\ WellCalled(g, pc[g], call[g]) /\ pc[g] = "next"
  BY StreamHas DEF ReadNext, wireVars, lockVars
<1>2. call[g].left = call[g].data /\ (Fails(g) \/ Returns(g))
  BY <1>1 DEF WellCalled, ReadNext
<1>3. CallSide' /\ (\A h \in Goroutines : Onward(h)) /\ \E c \in Calls : MovesTo(g, "idle", c)
  BY <1>1, <1>2, IsOver
<1>4. PICK c \in Calls : MovesTo(g, "idle", c)
  BY <1>3
<1>5. HoldsAt(g, "idle", c.op)'
  BY DEF HoldsAt
<1>6. ReadTypes' /\ ReadsWell'
  <2>1. CASE cache # << >> /\ handed' = [handed EXCEPT ![side] = @ \o cache] /\ cache' = << >>
             /\ UNCHANGED <<taken, turn, reader>>
    BY <1>1, <2>1, CacheWell
  <2>2. CASE cache = << >> /\ Readable(side) /\ Opens(side, NextOf(side)) /\ TakesRecord(side)
             /\ handed' = [handed EXCEPT ![side] = @ \o NextOf(side).items] /\ UNCHANGED cache
    BY <1>1, <2>2, NextWell
  <2>3. CASE Spoils(side) /\ UNCHANGED <<handed, cache>>
    BY <1>1, <2>3, SpoilsWell
  <2>4. CASE UNCHANGED <<taken, turn, reader, handed, cache>>
    BY <1>1, <2>4, ReadNothing
  <2> QED
    BY <2>1, <2>2, <2>3, <2>4 DEF ReadNext
<1> QED
  BY <1>1, <1>3, <1>4, <1>5, <1>6, ReadMoved

-----------------------------------------------------------------------------
\* Packets.

LEMMA PacketsHave ==
  ASSUME OrderInv, NEW g \in Goroutines, IsPackets
  PROVE  /\ kind = "packets" /\ EndOf(g) = (IF g \in Callers THEN "client" ELSE "server") /\ EndOf(g) \in Ends
         /\ g \in Callers <=> g \notin HandlerCallers
         /\ Ours(EndOf(g)) /\ side = "client" /\ cache = << >> /\ \A e \in Ends : Ours(e) /\ Published(e)
         /\ WellCalled(g, pc[g], call[g]) /\ HoldsAt(g, pc[g], call[g].op)
         /\ call \in [Goroutines -> Calls] /\ call[g] \in Calls /\ call[g].last >= call[g].last
         /\ gone \in [Ends -> BOOLEAN] /\ writer \in [Ends -> Nat] /\ Types /\ CallsWell
<1>1. kind = "packets" /\ side = "client" /\ cache = << >>
  BY DEF IsPackets, OrderInv, Types, ReadsWell, Cached
<1>2. g \in Callers <=> g \notin HandlerCallers
  BY PlainAssumption DEF Goroutines
<1>3. EndOf(g) = (IF g \in Callers THEN "client" ELSE "server") /\ EndOf(g) \in Ends
  BY <1>1, <1>2 DEF EndOf, Ends
<1>4. call \in [Goroutines -> Calls] /\ call[g] \in Calls /\ gone \in [Ends -> BOOLEAN] /\ writer \in [Ends -> Nat]
      /\ Types /\ CallsWell
  BY DEF OrderInv, Types
<1>5. call[g].last \in Nat
  BY <1>4 DEF Calls
<1>6. WellCalled(g, pc[g], call[g]) /\ HoldsAt(g, pc[g], call[g].op)
  BY DEF OrderInv, CallsWell, Holders
<1>7. \A e \in Ends : Ours(e) /\ Published(e)
  BY <1>1 DEF Ours, OrderInv, WiresWell
<1> QED
  BY <1>1, <1>2, <1>3, <1>4, <1>5, <1>6, <1>7

LEMMA PacketBeginsWell ==
  ASSUME OrderInv, NEW g \in Goroutines, PacketBegin(g)
  PROVE  OrderInv'
<1>1. /\ kind = "packets" /\ (g \in Callers <=> g \notin HandlerCallers)
      /\ UNCHANGED <<wire, nonces, writer, kind, side, accept, gone, access>> /\ UNCHANGED readVars
      /\ gone' \in [Ends -> BOOLEAN] /\ Types /\ CallsWell /\ WellCalled(g, pc[g], call[g])
      /\ g \in HandlerCallers => accept = "up"
  BY PacketsHave DEF PacketBegin, wireVars, lockVars
<1>2. PICK op \in {"send", "batch", "recv"}, at \in {"request", "reply", "batch", "next"} :
        /\ Goes(g, at)
        /\ \/ Begins(g, op, IF op = "send" THEN 1 ELSE IF op = "batch" THEN 2 ELSE 0)
           \/ call[g].op = op /\ Retries(g) /\ op # "recv"
        /\ at = "next" => op = "recv"
        /\ op = "recv" => at \in {"reply", "next"}
        /\ op = "recv" /\ at = "reply" => g \in Callers
        /\ op # "recv" /\ at = "reply" => g \notin Callers
  <2>1. CASE /\ Begins(g, "send", 1) \/ (call[g].op = "send" /\ Retries(g))
             /\ Goes(g, IF g \in Callers THEN "request" ELSE "reply")
    BY <2>1, Zenon
  <2>2. CASE /\ Begins(g, "batch", 2) \/ (call[g].op = "batch" /\ Retries(g))
             /\ Goes(g, IF g \in Callers THEN "batch" ELSE "reply")
    BY <2>2, Zenon
  <2>3. CASE Begins(g, "recv", 0) /\ Goes(g, IF g \in Callers THEN "reply" ELSE "next")
    BY <2>3, Zenon
  <2> QED
    BY <2>1, <2>2, <2>3 DEF PacketBegin
<1> DEFINE Done == \E c \in Calls : /\ call' = [call EXCEPT ![g] = c] /\ c.op = op /\ Fresh(g, c)
                                    /\ IF op = "recv" THEN c.data = << >> ELSE c.data # << >>
<1>3. Done
  <2>1. ASSUME NEW n \in Nat, n = (IF op = "send" THEN 1 ELSE IF op = "batch" THEN 2 ELSE 0), Begins(g, op, n)
        PROVE  Done
    <3>1. op \in Ops /\ (n = 0 <=> op = "recv")
      BY <2>1 DEF Ops
    <3> QED
      BY <1>1, <2>1, <3>1, BeginsFresh
  <2>2. ASSUME call[g].op = op, Retries(g), op # "recv" PROVE Done
    <3>1. call[g].data # << >>
      BY <1>1, <2>2 DEF WellCalled
    <3> QED
      BY <1>1, <2>2, <3>1, RetriesFresh
  <2> QED
    BY <1>2, <2>1, <2>2
<1>4. PICK c \in Calls : /\ call' = [call EXCEPT ![g] = c] /\ c.op = op /\ Fresh(g, c)
                         /\ IF op = "recv" THEN c.data = << >> ELSE c.data # << >>
  BY <1>3
<1>5. WellCalled(g, at, c)
  BY <1>1, <1>2, <1>4 DEF Fresh, WellCalled, Agrees
<1>6. Moves(g, at, c) /\ at \in Steps /\ c.last >= call[g].last
  BY <1>2, <1>4 DEF Goes, Moves, Steps, Fresh
<1>7. HoldsAt(g, at, c.op)'
  BY <1>1, <1>2, <1>4 DEF HoldsAt
<1> QED
  BY <1>1, <1>4, <1>5, <1>6, <1>7, QuietStep

LEMMA PacketLocksWell ==
  ASSUME OrderInv, NEW g \in Goroutines, BatchLock(g) \/ ReplyLock(g)
  PROVE  OrderInv'
<1>1. /\ kind = "packets" /\ g \in Callers /\ g \notin HandlerCallers /\ EndOf(g) = "client" /\ side = "client"
      /\ UNCHANGED <<wire, nonces, writer, kind, side, accept, gone, access, call>> /\ UNCHANGED readVars
      /\ gone' \in [Ends -> BOOLEAN] /\ WellCalled(g, pc[g], call[g]) /\ HoldsAt(g, pc[g], call[g].op)
      /\ call \in [Goroutines -> Calls] /\ call[g] \in Calls /\ call[g].last >= call[g].last
      /\ pc[g] \in {"batch", "reply"}
  BY PacketsHave DEF BatchLock, ReplyLock, ClientDoes, wireVars, lockVars
<1>2. PICK at \in {"request", "await", "next", "put"} :
        /\ Goes(g, at) /\ (at = "request" => pc[g] = "batch") /\ (at # "request" => pc[g] = "reply")
        /\ (at = "next" => call[g].op = "recv") /\ (at = "put" => call[g].op # "recv")
  BY DEF BatchLock, ReplyLock, ClientDoes
<1>3. WellCalled(g, at, call[g])
  BY <1>1, <1>2 DEF WellCalled, Agrees
<1>4. PICK c \in Calls : c = call[g]
  BY <1>1
<1>5. Moves(g, at, c) /\ at \in Steps
  BY <1>1, <1>2, <1>4 DEF Goes, Moves, Steps
<1>6. HoldsAt(g, at, c.op)'
  BY <1>1, <1>2, <1>4 DEF HoldsAt, EndOf
<1> QED
  BY <1>1, <1>3, <1>4, <1>5, <1>6, QuietStep

LEMMA ReadReplyWell ==
  ASSUME OrderInv, NEW g \in Goroutines, ReadReply(g)
  PROVE  OrderInv'
<1>1. /\ kind = "packets" /\ g \in Callers /\ g \notin HandlerCallers /\ EndOf(g) = "client" /\ side = "client"
      /\ UNCHANGED <<wire, nonces, writer, kind, side, accept, gone, access, cache, handed>>
      /\ WellCalled(g, pc[g], call[g]) /\ HoldsAt(g, pc[g], call[g].op) /\ pc[g] = "await"
      /\ "client" \in Ends
  BY PacketsHave DEF ReadReply, ClientDoes, wireVars, Ends
<1>2. call[g].left = call[g].data
  BY <1>1 DEF WellCalled
<1>3. CASE /\ Answered("client") /\ TakesRecord("client")
           /\ Goes(g, IF call[g].op = "recv" THEN "next" ELSE "put") /\ UNCHANGED <<call, calls, done>>
  <2>1. ReadTypes' /\ ReadsWell'
    BY <1>1, <1>3, AnswerWell
  <2>2. PICK at \in {"next", "put"} : Goes(g, at) /\ at = IF call[g].op = "recv" THEN "next" ELSE "put"
    BY <1>3
  <2>3. WellCalled(g, at, call[g]) /\ at \in Steps
    BY <1>1, <2>2 DEF WellCalled, Agrees, Steps
  <2>4. PICK c : c = call[g]
    OBVIOUS
  <2>5. CallSide' /\ MovesTo(g, at, c) /\ \A h \in Goroutines : Onward(h)
    BY <1>1, <1>3, <2>2, <2>3, <2>4, GoesOn
  <2>6. HoldsAt(g, at, c.op)'
    BY <1>1, <2>2, <2>4 DEF HoldsAt, EndOf
  <2> QED
    BY <1>1, <2>1, <2>5, <2>6, ReadMoved
<1>4. CASE Fails(g) /\ (Spoils("client") \/ UNCHANGED <<taken, turn, reader>>)
  <2>1. ReadTypes' /\ ReadsWell'
    BY <1>1, <1>4, SpoilsWell, ReadNothing
  <2>2. CallSide' /\ (\A h \in Goroutines : Onward(h)) /\ \E c \in Calls : MovesTo(g, "idle", c)
    BY <1>1, <1>2, <1>4, IsOver
  <2>3. PICK c \in Calls : MovesTo(g, "idle", c)
    BY <2>2
  <2>4. HoldsAt(g, "idle", c.op)'
    BY DEF HoldsAt
  <2> QED
    BY <1>1, <2>1, <2>2, <2>3, <2>4, ReadMoved
<1> QED
  BY <1>3, <1>4 DEF ReadReply

LEMMA ReadPacketWell ==
  ASSUME OrderInv, NEW g \in Goroutines, ReadPacket(g)
  PROVE  OrderInv'
<1>1. PICK e \in Ends : e = EndOf(g)
  BY PacketsHave DEF ReadPacket
<1>2. /\ kind = "packets"
      /\ UNCHANGED <<wire, nonces, writer, kind, side, accept, gone, access, cache>>
      /\ WellCalled(g, pc[g], call[g]) /\ pc[g] = "next" /\ cache = << >>
  BY PacketsHave DEF ReadPacket, wireVars, lockVars
<1>3. call[g].left = call[g].data /\ (Fails(g) \/ Returns(g))
  BY <1>2 DEF WellCalled, ReadPacket
<1>4. CallSide' /\ (\A h \in Goroutines : Onward(h)) /\ \E c \in Calls : MovesTo(g, "idle", c)
  BY <1>2, <1>3, IsOver
<1>5. PICK c \in Calls : MovesTo(g, "idle", c)
  BY <1>4
<1>6. HoldsAt(g, "idle", c.op)'
  BY DEF HoldsAt
<1>7. ReadTypes' /\ ReadsWell'
  <2>1. CASE /\ Readable(e) /\ Opens(e, NextOf(e)) /\ TakesRecord(e)
             /\ \/ handed' = [handed EXCEPT ![e] = @ \o NextOf(e).items]
                \/ handed' = handed
    BY <1>2, <2>1, NextWell
  <2>2. CASE Spoils(e) /\ UNCHANGED handed
    BY <1>2, <2>2, SpoilsWell
  <2>3. CASE UNCHANGED <<taken, turn, reader, handed>>
    BY <1>2, <2>3, ReadNothing
  <2> QED
    BY <1>1, <2>1, <2>2, <2>3 DEF ReadPacket
<1> QED
  BY <1>2, <1>4, <1>5, <1>6, <1>7, ReadMoved

\* The goroutine has moved and the wire is well.
LEMMA PacketWrote ==
  ASSUME OrderInv, NEW g \in Goroutines, IsPackets, CallSide', WireSide', NEW at, NEW c, MovesTo(g, at, c),
         UNCHANGED <<kind, side, accept, gone, access>>, NEW e \in Ends, e = EndOf(g),
         pc[g] # "idle",
         writer' = writer \/ writer' = [writer EXCEPT ![e] = WriterOf(e)],
         HoldsAt(g, at, c.op)'
  PROVE  OrderInv'
<1>1. /\ kind = "packets" /\ Published(e) /\ Ours(e) /\ writer \in [Ends -> Nat] /\ Types
      /\ gone' \in [Ends -> BOOLEAN]
      /\ (g \in HandlerCallers => accept = "up") /\ (g \notin HandlerCallers => e = "client")
  BY PacketsHave DEF HoldsAt
<1>2. WriterOf(e) # 0
  BY <1>1, WriterOfKnown
<1>3. \A f \in Ends : writer[f] # 0 => writer'[f] # 0
  BY <1>1, <1>2
<1>4. accept \in {"request", "reply"} => writer'["server"] = writer["server"]
  <2>1. "server" # "client" /\ "server" \in Ends
    BY DEF Ends
  <2> QED
    BY <1>1, <2>1
<1>5. Holders'
  BY <1>1, <1>3, <1>4, HoldersMoved DEF OrderInv
<1> QED
  BY <1>1, <1>5, Halves

\* The head that goes before the packets.
LEMMA HeadsWell ==
  ASSUME OrderInv, NEW g \in Goroutines, Request(g) \/ ServerReply(g)
  PROVE  OrderInv'
<1>1. PICK e \in Ends, what \in {"request", "reply"}, at \in {"reply", "put"} :
        /\ e = EndOf(g) /\ IsPackets
        /\ IF g \in Callers THEN pc[g] = "request" /\ at = "reply" ELSE pc[g] = "reply" /\ at = "put"
        /\ \/ writer[e] # 0 /\ Goes(g, at) /\ UNCHANGED <<wireVars, writer, call, calls, done>>
           \/ /\ writer[e] = 0 /\ Puts(e, NewWriter(e), FirstGroups(what, << >>))
              /\ writer' = [writer EXCEPT ![e] = NewWriter(e)]
              /\ Goes(g, at) /\ UNCHANGED <<call, calls, done>>
           \/ /\ writer[e] = 0 /\ PutFails(e, NewWriter(e), FirstGroups(what, << >>))
              /\ Fails(g) /\ UNCHANGED writer
  <2>1. CASE Request(g)
    <3>1. IsPackets /\ g \in Callers /\ pc[g] = "request" /\ EndOf(g) = "client" /\ "client" \in Ends
      BY <2>1, PacketsHave DEF Request, ClientDoes, Ends
    <3>2. \/ writer["client"] # 0 /\ Goes(g, "reply") /\ UNCHANGED <<wireVars, writer, call, calls, done>>
          \/ /\ writer["client"] = 0 /\ Puts("client", NewWriter("client"), FirstGroups("request", << >>))
             /\ writer' = [writer EXCEPT !["client"] = NewWriter("client")]
             /\ Goes(g, "reply") /\ UNCHANGED <<call, calls, done>>
          \/ /\ writer["client"] = 0 /\ PutFails("client", NewWriter("client"), FirstGroups("request", << >>))
             /\ Fails(g) /\ UNCHANGED writer
      BY <2>1, Zenon DEF Request
    <3> QED
      BY <3>1, <3>2
  <2>2. CASE ServerReply(g)
    <3>1. IsPackets /\ g \notin Callers /\ pc[g] = "reply" /\ EndOf(g) = "server" /\ "server" \in Ends
      BY <2>2, PacketsHave DEF ServerReply, ServerDoes, Ends
    <3>2. \/ writer["server"] # 0 /\ Goes(g, "put") /\ UNCHANGED <<wireVars, writer, call, calls, done>>
          \/ /\ writer["server"] = 0 /\ Puts("server", NewWriter("server"), FirstGroups("reply", << >>))
             /\ writer' = [writer EXCEPT !["server"] = NewWriter("server")]
             /\ Goes(g, "put") /\ UNCHANGED <<call, calls, done>>
          \/ /\ writer["server"] = 0 /\ PutFails("server", NewWriter("server"), FirstGroups("reply", << >>))
             /\ Fails(g) /\ UNCHANGED writer
      BY <2>2, Zenon DEF ServerReply
    <3> QED
      BY <3>1, <3>2
  <2> QED
    BY <2>1, <2>2
<1>2. /\ kind = "packets" /\ (g \in Callers <=> g \notin HandlerCallers) /\ Ours(e) /\ Published(e)
      /\ WellCalled(g, pc[g], call[g]) /\ HoldsAt(g, pc[g], call[g].op) /\ writer \in [Ends -> Nat]
      /\ UNCHANGED <<kind, side, accept, gone, access>> /\ UNCHANGED readVars
      /\ EndOf(g) = (IF g \in Callers THEN "client" ELSE "server") /\ side = "client"
  BY <1>1, PacketsHave DEF Request, ServerReply, lockVars
<1>3. /\ pc[g] # "idle" /\ call[g].left = call[g].data /\ WellCalled(g, at, call[g]) /\ at \in Steps
  BY <1>1, <1>2 DEF WellCalled, Agrees, Steps
<1>4. PICK groups : groups = << << Item(what) >> >> /\ groups = FirstGroups(what, << >>)
  BY DEF FirstGroups
<1>5. PICK c : c = call[g]
  OBVIOUS
<1>6. ASSUME writer'[e] # 0, UNCHANGED call, g \in HandlerCallers => kind = "packets" /\ accept = "up"
      PROVE  HoldsAt(g, at, c.op)'
  BY <1>1, <1>2, <1>6, PlainAssumption DEF HoldsAt, EndOf
<1>7. g \in HandlerCallers => kind = "packets" /\ accept = "up"
  BY <1>2, <1>3 DEF HoldsAt
<1>8. CASE writer[e] # 0 /\ Goes(g, at) /\ UNCHANGED <<wireVars, writer, call, calls, done>>
  <2>1. CallSide' /\ MovesTo(g, at, c) /\ \A h \in Goroutines : Onward(h)
    BY <1>2, <1>3, <1>5, <1>8, GoesOn
  <2>2. WireSide'
    BY <1>2, <1>8, <2>1, QuietKeep DEF wireVars
  <2> QED
    BY <1>1, <1>2, <1>3, <1>6, <1>7, <1>8, <2>1, <2>2, PacketWrote
<1>9. CASE /\ writer[e] = 0 /\ Puts(e, NewWriter(e), groups)
           /\ writer' = [writer EXCEPT ![e] = NewWriter(e)]
           /\ Goes(g, at) /\ UNCHANGED <<call, calls, done>>
  <2>1. CallSide' /\ MovesTo(g, at, c) /\ \A h \in Goroutines : Onward(h)
    BY <1>2, <1>3, <1>5, <1>9, GoesOn
  <2>2. WriterOf(e) = NewWriter(e) /\ WriterOf(e) # 0
    BY <1>2, <1>9, WriterOfKnown DEF WriterOf, OrderInv
  <2>3. WireSide'
    BY <1>2, <1>4, <1>9, <2>1, <2>2, AlonePut
  <2>4. writer'[e] # 0
    BY <1>2, <1>9, <2>2
  <2> QED
    BY <1>1, <1>2, <1>3, <1>6, <1>7, <1>9, <2>1, <2>2, <2>3, <2>4, PacketWrote
<1>10. CASE writer[e] = 0 /\ PutFails(e, NewWriter(e), groups) /\ Fails(g) /\ UNCHANGED writer
  <2>1. CallSide' /\ (\A h \in Goroutines : Onward(h)) /\ \E d \in Calls : MovesTo(g, "idle", d)
    BY <1>2, <1>3, <1>10, IsOver
  <2>2. PICK d \in Calls : MovesTo(g, "idle", d)
    BY <2>1
  <2>3. WriterOf(e) = NewWriter(e)
    BY <1>10 DEF WriterOf
  <2>4. WireSide'
    BY <1>2, <1>4, <1>10, <2>1, <2>3, AloneFails
  <2>5. HoldsAt(g, "idle", d.op)'
    BY DEF HoldsAt
  <2> QED
    BY <1>1, <1>2, <1>3, <1>10, <2>1, <2>2, <2>4, <2>5, PacketWrote
<1> QED
  BY <1>1, <1>4, <1>8, <1>9, <1>10

LEMMA PutPacketsWell ==
  ASSUME OrderInv, NEW g \in Goroutines, PutPackets(g)
  PROVE  OrderInv'
<1>1. PICK e \in Ends : e = EndOf(g)
  BY PacketsHave DEF PutPackets
<1>2. /\ kind = "packets" /\ IsPackets /\ Ours(e) /\ Published(e) /\ writer[e] # 0
      /\ UNCHANGED <<kind, side, accept, gone, access, writer>> /\ UNCHANGED readVars
      /\ WellCalled(g, pc[g], call[g]) /\ pc[g] = "put" /\ pc[g] # "idle"
      /\ call[g] \in Calls /\ writer \in [Ends -> Nat] /\ Types
  BY <1>1, PacketsHave DEF PutPackets, HoldsAt, lockVars
<1>3. PICK s \in Seq(Items) : s = call[g].left
  BY <1>2 DEF Calls
<1>4. PICK k : k = Len(s)
  OBVIOUS
<1>5. /\ call[g].data # << >> /\ Turned(g, call[g].left, call[g].last) /\ k \in 1 .. Len(call[g].left)
  <2>1. s # << >> /\ call[g].data # << >> /\ Turned(g, call[g].left, call[g].last)
    BY <1>2, <1>3 DEF WellCalled
  <2>2. Len(s) \in Nat /\ Len(s) # 0
    BY <2>1, EmptySeq, LenProperties
  <2> QED
    BY <1>3, <1>4, <2>1, <2>2
<1>6. PICK groups, rest : /\ groups = Groups(s) /\ groups = Groups(SubSeq(call[g].left, 1, k))
                          /\ rest = SubSeq(call[g].left, k + 1, Len(call[g].left)) /\ rest = << >>
  <2>1. SubSeq(s, 1, k) = s
    BY <1>4, SubSeqFull
  <2>2. SubSeq(s, k + 1, k) = << >>
    <3>1. k \in Int /\ k + 1 \in Int /\ k + 1 > k
      BY <1>3, <1>5, LenProperties
    <3> QED
      BY <3>1, SubSeqEmpty
  <2> QED
    BY <1>3, <1>4, <2>1, <2>2
<1>7. \/ Puts(e, writer[e], groups) /\ Returns(g)
      \/ PutFails(e, writer[e], groups) /\ Fails(g)
  BY <1>1, <1>3, <1>6 DEF PutPackets
<1>8. /\ WriterOf(e) = writer[e] /\ NonceOf(e, WriterOf(e)) \in Nat \ {0}
      /\ writer' = [writer EXCEPT ![e] = WriterOf(e)]
  BY <1>2, WriterOfKnown DEF WriterOf
<1>9. /\ groups \in Seq(Seq(Items)) /\ groups # << >> /\ Carries(g, groups, k)
      /\ Headed(groups, NonceOf(e, WriterOf(e)))
  BY <1>2, <1>5, <1>6, <1>8, GroupsCarry
<1>10. ASSUME NEW at, NEW c, MovesTo(g, at, c), at \in {"idle", "put"}
       PROVE  HoldsAt(g, at, c.op)'
  <2>1. HoldsAt(g, pc[g], call[g].op)
    BY <1>2, PacketsHave
  <2> QED
    BY <1>1, <1>2, <1>10, <2>1 DEF HoldsAt, EndOf
<1>11. CASE Puts(e, writer[e], groups) /\ Returns(g)
  <2>1. Puts(e, WriterOf(e), groups)
    BY <1>8, <1>11
  <2>2. rest = SubSeq(call[g].left, k + 1, Len(call[g].left)) /\ rest = << >> /\ Returns(g)
    BY <1>6, <1>11
  <2>3. CallSide' /\ WireSide' /\ \E at \in {"idle", "put"} : \E c \in Calls : MovesTo(g, at, c)
    BY <1>1, <1>2, <1>5, <1>8, <1>9, <2>1, <2>2, PartPut
  <2>4. PICK at \in {"idle", "put"}, c \in Calls : MovesTo(g, at, c)
    BY <2>3
  <2>5. HoldsAt(g, at, c.op)'
    BY <1>10, <2>4
  <2> QED
    BY <1>1, <1>2, <2>3, <2>4, <2>5, PacketWrote
<1>12. CASE PutFails(e, writer[e], groups) /\ Fails(g)
  <2>1. PutFails(e, WriterOf(e), groups) /\ Fails(g)
    BY <1>8, <1>12
  <2>2. CallSide' /\ WireSide' /\ \E c \in Calls : MovesTo(g, "idle", c)
    BY <1>1, <1>2, <1>5, <1>9, <2>1, PartFails
  <2>3. PICK c \in Calls : MovesTo(g, "idle", c)
    BY <2>2
  <2>4. HoldsAt(g, "idle", c.op)'
    BY <1>10, <2>3
  <2> QED
    BY <1>1, <1>2, <2>2, <2>3, <2>4, PacketWrote
<1> QED
  BY <1>7, <1>11, <1>12

-----------------------------------------------------------------------------
\* The service.

\* The calls stay as they are.
LEMMA CallsStay ==
  ASSUME OrderInv, UNCHANGED callVars, UNCHANGED <<kind, side>>
  PROVE  CallSide' /\ \A h \in Goroutines : Onward(h)
<1>1. Types /\ CallsWell /\ UNCHANGED <<pc, call, kind>>
  BY DEF OrderInv, callVars
<1>2. CallsWell'
  BY <1>1 DEF CallsWell, WellCalled, Agrees
<1>3. CallSide'
  BY <1>1, <1>2 DEF CallSide, Types
<1>4. ASSUME NEW h \in Goroutines PROVE Onward(h)
  <2>1. call'[h] = call[h] /\ call[h] \in Calls /\ WellCalled(h, pc[h], call[h])
    BY <1>1 DEF Types, CallsWell
  <2>2. call[h].last \in Nat /\ call[h].left \in Seq(Items)
    BY <2>1 DEF Calls
  <2>3. ASSUME NEW k \in DOMAIN call[h].left PROVE call[h].left[k].n \in Int
    <3>1. call[h].left[k] \in Items
      BY <2>2
    <3> QED
      BY <3>1 DEF Items
  <2> QED
    BY <2>1, <2>2, <2>3 DEF Onward
<1> QED
  BY <1>3, <1>4

\* The service goes on from where no handler runs yet.
LEMMA ServiceStep ==
  ASSUME OrderInv, IsPackets, accept # "up", UNCHANGED callVars, UNCHANGED <<kind, side, access>>,
         gone' \in [Ends -> BOOLEAN], WireSide',
         accept' # "request", accept' = "reply" => UNCHANGED writer /\ accept = "request",
         writer' = writer \/ writer' = [writer EXCEPT !["server"] = WriterOf("server")]
  PROVE  OrderInv'
<1>1. CallSide'
  BY CallsStay
<1>2. /\ kind = "packets" /\ Types /\ Holders /\ UNCHANGED <<pc, call>>
      /\ writer \in [Ends -> Nat] /\ "server" \in Ends /\ "client" \in Ends
  BY DEF IsPackets, OrderInv, Types, callVars, Ends
<1>3. WriterOf("server") # 0
  <2>1. Ours("server") /\ Published("server")
    BY <1>2 DEF Ours, OrderInv, WiresWell
  <2> QED
    BY <1>2, <2>1, WriterOfKnown
<1>4. \A f \in Ends : writer[f] # 0 => writer'[f] # 0
  BY <1>2, <1>3
<1>5. ASSUME NEW h \in Goroutines PROVE HoldsAt(h, pc[h], call[h].op)'
  <2>1. HoldsAt(h, pc[h], call[h].op) /\ EndOf(h)' = EndOf(h) /\ EndOf(h) \in Ends
    BY <1>2 DEF Holders, EndOf, Types, Ends
  <2>2. pc[h] \notin {"first", "zero", "close"} /\ (h \in HandlerCallers => pc[h] = "idle")
    BY <1>2, <2>1 DEF HoldsAt
  <2> QED
    BY <1>2, <1>4, <2>1, <2>2 DEF HoldsAt
<1>6. accept' \in {"request", "reply"} => kind' = "packets" /\ writer'["server"] = 0
  BY <1>2 DEF Holders
<1>7. Holders'
  BY <1>5, <1>6 DEF Holders
<1> QED
  BY <1>1, <1>7, Halves

LEMMA ServiceReads ==
  ASSUME OrderInv, (\E at \in {"request", "first"} : AcceptFails(at)) \/ AcceptRequest \/ AcceptFirst
  PROVE  OrderInv'
<1>1. /\ IsPackets /\ accept \in {"request", "first"}
      /\ UNCHANGED <<wireVars, writer, cache, kind, side, access>> /\ UNCHANGED callVars
  BY DEF AcceptFails, AcceptRequest, AcceptFirst, lockVars
<1>2. /\ gone \in [Ends -> BOOLEAN] /\ cache = << >> /\ "server" \in Ends
      /\ UNCHANGED <<wire, nonces>>
  <2>1. cache = << >>
    BY <1>1 DEF IsPackets, OrderInv, ReadsWell, Cached
  <2> QED
    BY <1>1, <2>1 DEF OrderInv, Types, Ends, wireVars
<1>3. \A h \in Goroutines : Onward(h)
  BY <1>1, CallsStay
<1>4. CASE \E at \in {"request", "first"} : AcceptFails(at)
  <2>1. /\ accept' = "failed" /\ gone' = [gone EXCEPT !["server"] = TRUE]
        /\ UNCHANGED <<turn, reader, taken, handed>>
    BY <1>4 DEF AcceptFails, Rejects
  <2>2. ReadTypes' /\ ReadsWell'
    BY <1>1, <1>2, <2>1, ReadNothing
  <2>3. WireSide'
    BY <1>1, <1>2, <1>3, <2>2, UnwrittenKeep
  <2>4. gone' \in [Ends -> BOOLEAN]
    BY <1>2, <2>1
  <2> QED
    BY <1>1, <2>1, <2>3, <2>4, ServiceStep
<1>5. CASE AcceptRequest
  <2>1. /\ accept = "request" /\ accept' = "reply" /\ UNCHANGED <<gone, handed>>
        /\ Readable("server") /\ Opens("server", NextOf("server")) /\ TakesRecord("server")
    BY <1>5 DEF AcceptRequest
  <2>2. ReadTypes' /\ ReadsWell'
    BY <1>1, <1>2, <2>1, NextWell
  <2>3. WireSide'
    BY <1>1, <1>2, <1>3, <2>2, UnwrittenKeep
  <2> QED
    BY <1>1, <1>2, <2>1, <2>3, ServiceStep
<1>6. CASE AcceptFirst
  <2>1. /\ accept' = "up" /\ UNCHANGED gone
        /\ Readable("server") /\ Opens("server", NextOf("server")) /\ TakesRecord("server")
        /\ handed' = [handed EXCEPT !["server"] = @ \o NextOf("server").items]
    BY <1>6 DEF AcceptFirst
  <2>2. ReadTypes' /\ ReadsWell'
    BY <1>1, <1>2, <2>1, NextWell
  <2>3. WireSide'
    BY <1>1, <1>2, <1>3, <2>2, UnwrittenKeep
  <2> QED
    BY <1>1, <1>2, <2>1, <2>3, ServiceStep
<1> QED
  BY <1>4, <1>5, <1>6

LEMMA ServiceAnswers ==
  ASSUME OrderInv, AcceptReply
  PROVE  OrderInv'
<1>1. /\ IsPackets /\ accept = "reply" /\ kind = "packets" /\ writer["server"] = 0 /\ "server" \in Ends
      /\ UNCHANGED <<kind, side, access>> /\ UNCHANGED callVars
      /\ gone \in [Ends -> BOOLEAN] /\ Ours("server")
  BY DEF AcceptReply, IsPackets, lockVars, OrderInv, Holders, Types, Ends, Ours
<1>2. PICK groups, w : groups = FirstGroups("reply", << >>) /\ w = NewWriter("server")
  OBVIOUS
<1>3. groups = << << Item("reply") >> >> /\ w = WriterOf("server")
  BY <1>1, <1>2 DEF FirstGroups, WriterOf
<1>4. \A h \in Goroutines : Onward(h)
  BY <1>1, CallsStay
<1>5. UNCHANGED readVars
  BY DEF AcceptReply, Rejects, readVars
<1>6. CASE /\ Puts("server", w, groups) /\ accept' = "first"
           /\ writer' = [writer EXCEPT !["server"] = w] /\ UNCHANGED gone
  <2>1. Puts("server", WriterOf("server"), groups) /\ writer' = [writer EXCEPT !["server"] = WriterOf("server")]
    BY <1>3, <1>6
  <2>2. WireSide'
    BY <1>1, <1>3, <1>4, <1>5, <2>1, AlonePut
  <2>3. gone' \in [Ends -> BOOLEAN]
    BY <1>1, <1>6
  <2> QED
    BY <1>1, <1>6, <2>1, <2>2, <2>3, ServiceStep
<1>7. CASE PutFails("server", w, groups) /\ Rejects /\ UNCHANGED writer
  <2>1. PutFails("server", WriterOf("server"), groups) /\ UNCHANGED writer
    BY <1>3, <1>7
  <2>2. WireSide'
    BY <1>1, <1>3, <1>4, <1>5, <2>1, AloneFails
  <2>3. accept' = "failed" /\ gone' \in [Ends -> BOOLEAN]
    BY <1>1, <1>7 DEF Rejects
  <2> QED
    BY <1>1, <1>7, <2>2, <2>3, ServiceStep
<1> QED
  BY <1>2, <1>6, <1>7 DEF AcceptReply

LEMMA NothingDone ==
  ASSUME OrderInv, UNCHANGED vars
  PROVE  OrderInv'
<1>1. UNCHANGED callVars /\ UNCHANGED readVars /\ UNCHANGED <<kind, side, wire, nonces, writer, accept, access, gone>>
  BY DEF vars, wireVars, lockVars
<1>2. CallSide' /\ \A h \in Goroutines : Onward(h)
  BY <1>1, CallsStay
<1>3. WireSide'
  BY <1>1, <1>2, QuietKeep
<1>4. Holders'
  BY <1>1 DEF OrderInv, Holders, HoldsAt, EndOf, callVars
<1>5. gone' \in [Ends -> BOOLEAN]
  BY <1>1 DEF OrderInv, Types
<1> QED
  BY <1>1, <1>2, <1>3, <1>4, <1>5, Halves

-----------------------------------------------------------------------------
\* All together, once more.

\* What the far end of a stream has said is in order.
LEMMA AnswerInOrder ==
  ASSUME NEW answer \in Seq(Seq(Items)), answer # << >> => answer \in Answers,
         NEW i \in DOMAIN answer, NEW k \in DOMAIN answer
  PROVE  /\ answer[i] # << >>
         /\ \A j \in DOMAIN answer[i], l \in DOMAIN answer[k] :
              /\ answer[i][j] \in Heads <=> i = 1 /\ j = 1
              /\ i < k \/ (i = k /\ j < l) => Follows(answer[i][j], answer[k][l])
<1>1. answer \in Answers
  OBVIOUS
<1> QED
  BY <1>1, AnswersAssumption, Zenon

LEMMA OrderInit == Init => OrderInv
<1> SUFFICES ASSUME Init PROVE OrderInv
  OBVIOUS
<1>1. Types /\ Holders /\ CallsAgree
  BY KeptInit DEF KeptInv, Whilst, Written, Init
<1>2. PICK requested \in BOOLEAN, answer \in Seq(Seq(Items)) :
        /\ wire = [client |-> IF requested THEN << Record(1, 0, << Item("request") >>) >> ELSE << >>,
                   server |-> Sealed(1, 0, answer)]
        /\ nonces = [e \in Ends |-> IF (e = "client" /\ requested)
                                       \/ (e = "server" /\ kind = "stream" /\ side = "client")
                                    THEN << Len(wire[e]) >> ELSE << >>]
        /\ writer = [e \in Ends |-> IF (e = "client" /\ requested)
                                       \/ (e = "server" /\ kind = "stream" /\ side = "client")
                                    THEN 1 ELSE 0]
        /\ ~(kind = "stream" /\ side = "client") => answer = << >>
        /\ answer # << >> => answer \in Answers
  BY Opened, Zenon
<1>3. /\ pc = [g \in Goroutines |-> "idle"] /\ call = [g \in Goroutines |-> NoCall]
      /\ reader = [e \in Ends |-> 0] /\ turn = [e \in Ends |-> 0] /\ taken = [e \in Ends |-> 0]
      /\ cache = << >> /\ handed = [e \in Ends |-> << >>] /\ kind \in {"stream", "packets"}
  BY DEF Init
<1>4. /\ Len(answer) \in Nat /\ DOMAIN answer = 1 .. Len(answer) /\ \A i \in DOMAIN answer : answer[i] \in Seq(Items)
      /\ Len(Sealed(1, 0, answer)) = Len(answer) /\ DOMAIN Sealed(1, 0, answer) = 1 .. Len(answer)
      /\ \A i \in DOMAIN answer : Sealed(1, 0, answer)[i] = Record(1, i - 1, answer[i])
  <2>1. /\ Sealed(1, 0, answer) \in Seq(Records) /\ Len(Sealed(1, 0, answer)) = Len(answer)
        /\ \A i \in 1 .. Len(answer) : Sealed(1, 0, answer)[i] = Record(1, 0 + i - 1, answer[i])
    BY SealedBy
  <2>2. Len(answer) \in Nat /\ DOMAIN answer = 1 .. Len(answer) /\ \A i \in DOMAIN answer : answer[i] \in Seq(Items)
    OBVIOUS
  <2>3. DOMAIN Sealed(1, 0, answer) = 1 .. Len(answer)
    BY <2>1, LenProperties
  <2>4. \A i \in DOMAIN answer : Record(1, 0 + i - 1, answer[i]) = Record(1, i - 1, answer[i])
    BY <2>2
  <2> QED
    BY <2>1, <2>2, <2>3, <2>4
<1>5. /\ DOMAIN wire["server"] = DOMAIN answer /\ Len(wire["server"]) = Len(answer)
      /\ \A i \in DOMAIN answer : /\ wire["server"][i].writer = 1 /\ wire["server"][i].n = i - 1
                                  /\ wire["server"][i].items = answer[i]
  <2>1. wire["server"] = Sealed(1, 0, answer)
    BY <1>2
  <2>2. \A i \in DOMAIN answer : wire["server"][i] = [writer |-> 1, n |-> i - 1, items |-> answer[i]]
    BY <1>4, <2>1 DEF Record
  <2>3. \A i \in DOMAIN answer : /\ wire["server"][i].writer = 1 /\ wire["server"][i].n = i - 1
                                 /\ wire["server"][i].items = answer[i]
    <3> SUFFICES ASSUME NEW i \in DOMAIN answer
                 PROVE  /\ wire["server"][i].writer = 1 /\ wire["server"][i].n = i - 1
                        /\ wire["server"][i].items = answer[i]
      OBVIOUS
    <3>1. PICK n, items : n = i - 1 /\ items = answer[i]
      OBVIOUS
    <3>2. wire["server"][i] = [writer |-> 1, n |-> n, items |-> items]
      BY <2>2, <3>1
    <3> QED
      BY <3>1, <3>2
  <2>4. DOMAIN wire["server"] = DOMAIN answer /\ Len(wire["server"]) = Len(answer)
    BY <1>4, <2>1
  <2> QED
    BY <2>3, <2>4
<1>6. /\ \A i \in DOMAIN wire["client"] : /\ i = 1 /\ requested
                                          /\ wire["client"][i].writer = 1 /\ wire["client"][i].n = 0
                                          /\ wire["client"][i].items = << Item("request") >>
      /\ requested => Len(wire["client"]) = 1 /\ wire["client"] # << >>
  BY <1>2 DEF Record
<1>7. CallsWell
  <2> SUFFICES ASSUME NEW g \in Goroutines PROVE WellCalled(g, "idle", NoCall)
    BY <1>3 DEF CallsWell
  <2>1. Agrees(g, "idle", NoCall)
    BY <1>1, <1>3 DEF CallsAgree
  <2> QED
    BY <2>1 DEF WellCalled, NoCall, Turned
<1>8. ASSUME NEW e \in Ends PROVE Signed(e) /\ Published(e) /\ HeardInTurn(e)
  <2>1. CASE e = "client"
    <3>1. requested => nonces[e] = << 1 >> /\ writer[e] = 1
      BY <1>2, <1>6, <2>1
    <3>2. ~requested => nonces[e] = << >> /\ writer[e] = 0
      BY <1>2, <2>1
    <3>3. Signed(e)
      <4> SUFFICES ASSUME NEW i \in DOMAIN wire[e]
                   PROVE  /\ 1 \in 1 .. Len(nonces[e]) /\ 0 < nonces[e][1]
                          /\ wire[e][i].items # << >> /\ wire[e][i].writer = 1 /\ wire[e][i].n = 0
                          /\ \A j \in DOMAIN wire[e][i].items : wire[e][i].items[j] \in Heads <=> 0 = 0 /\ j = 1
        BY DEF Signed
      <4>1. Item("request") \in Heads
        BY DEF Heads
      <4>2. wire[e][i].items = << Item("request") >> /\ wire[e][i].writer = 1 /\ wire[e][i].n = 0 /\ requested
        BY <1>6, <2>1
      <4>3. nonces[e] = << 1 >>
        BY <3>1, <4>2
      <4>4. 1 \in 1 .. Len(nonces[e]) /\ 0 < nonces[e][1]
        BY <4>3
      <4>5. \A j \in DOMAIN wire[e][i].items : wire[e][i].items[j] \in Heads <=> 0 = 0 /\ j = 1
        BY <4>1, <4>2
      <4> QED
        BY <4>2, <4>4, <4>5
    <3>4. Published(e)
      <4>1. CASE requested
        <5>1. nonces[e] = << 1 >> /\ writer[e] = 1 /\ wire[e] # << >>
          BY <1>6, <2>1, <3>1, <4>1
        <5>2. Len(nonces[e]) = 1 /\ nonces[e][1] = 1
          BY <5>1
        <5> QED
          BY <5>1, <5>2 DEF Published
      <4>2. CASE ~requested
        BY <3>2, <4>2 DEF Published
      <4> QED
        BY <4>1, <4>2
    <3>5. HeardInTurn(e)
      <4>1. \A i \in Legible(e) : i \in DOMAIN wire[e] /\ i = 1 /\ DOMAIN wire[e][i].items = 1 .. 1
        BY <1>6, <2>1 DEF Legible
      <4> QED
        BY <4>1 DEF HeardInTurn
    <3> QED
      BY <3>3, <3>4, <3>5
  <2>2. CASE e = "server"
    <3>1. CASE ~(kind = "stream" /\ side = "client")
      <4>1. answer = << >> /\ DOMAIN answer = {} /\ nonces[e] = << >> /\ writer[e] = 0
        BY <1>2, <2>2, <3>1
      <4>2. Signed(e)
        BY <1>5, <2>2, <4>1 DEF Signed
      <4>3. Published(e)
        BY <4>1 DEF Published
      <4>4. HeardInTurn(e)
        BY <1>5, <2>2, <4>1 DEF HeardInTurn, Legible
      <4> QED
        BY <4>2, <4>3, <4>4
    <3>2. CASE kind = "stream" /\ side = "client"
      <4>1. nonces[e] = << Len(answer) >> /\ ~Ours(e)
        BY <1>2, <1>5, <2>2, <3>2 DEF Ours
      <4>2. Signed(e)
        <5> SUFFICES ASSUME NEW i \in DOMAIN answer
                     PROVE  /\ 1 \in 1 .. Len(nonces[e]) /\ i - 1 < nonces[e][1] /\ answer[i] # << >>
                            /\ \A j \in DOMAIN answer[i] : answer[i][j] \in Heads <=> i - 1 = 0 /\ j = 1
          BY <1>5, <2>2, SMTT(30) DEF Signed
        <5>1. 1 \in 1 .. Len(nonces[e]) /\ i \in Nat /\ i - 1 < nonces[e][1]
          BY <1>4, <4>1
        <5>2. answer[i] # << >> /\ \A j \in DOMAIN answer[i] : answer[i][j] \in Heads <=> i = 1 /\ j = 1
          BY <1>2, AnswerInOrder
        <5> QED
          BY <5>1, <5>2
      <4>3. Published(e)
        BY <4>1 DEF Published
      <4>4. HeardInTurn(e)
        <5>1. \A i \in Legible(e) : i \in DOMAIN answer /\ wire[e][i].items = answer[i]
          BY <1>5, <2>2 DEF Legible
        <5>2. \A i, k \in DOMAIN answer : \A j \in DOMAIN answer[i], l \in DOMAIN answer[k] :
                i < k \/ (i = k /\ j < l) => Follows(answer[i][j], answer[k][l])
          BY <1>2, AnswerInOrder
        <5> QED
          BY <5>1, <5>2 DEF HeardInTurn
      <4> QED
        BY <4>2, <4>3, <4>4
    <3> QED
      BY <3>1, <3>2
  <2> QED
    BY <2>1, <2>2 DEF Ends
<1>9. Ahead
  <2> SUFFICES ASSUME NEW g \in Goroutines, NEW e \in Ends, Ours(e), NEW i \in DOMAIN wire[e],
                      NEW j \in DOMAIN wire[e][i].items
               PROVE  wire[e][i].items[j].what # "data"
    <3>1. \A g \in Goroutines : EndOf(g) \in Ends
      BY <1>1 DEF EndOf, Types, Ends
    <3> QED
      BY <3>1 DEF Ahead, Behind
  <2>1. CASE e = "client"
    BY <1>6, <2>1 DEF Item
  <2>2. CASE e = "server"
    <3>1. ~(kind = "stream" /\ side = "client")
      BY <2>2 DEF Ours
    <3>2. DOMAIN answer = {}
      BY <1>2, <3>1
    <3> QED
      BY <1>5, <2>2, <3>2
  <2> QED
    BY <2>1, <2>2 DEF Ends
<1>10. ReadTypes
  BY <1>3 DEF ReadTypes
<1>11. ReadsWell
  <2>1. ASSUME NEW e \in Ends PROVE Follow(e)
    BY <1>3 DEF Follow, HandedFrom, InTurn
  <2> QED
    BY <1>3, <2>1 DEF ReadsWell, Cached
<1> QED
  BY <1>1, <1>7, <1>8, <1>9, <1>10, <1>11 DEF OrderInv, WiresWell

LEMMA OrderNext == OrderInv /\ [Next]_vars => OrderInv'
<1> SUFFICES ASSUME OrderInv, [Next]_vars PROVE OrderInv'
  OBVIOUS
<1>1. CASE UNCHANGED vars
  BY <1>1, NothingDone
<1>2. ASSUME NEW g \in Goroutines,
             StreamBegin(g) \/ CloseWrite(g) \/ Close(g) \/ ReadBegin(g) \/ StreamStep(g)
      PROVE  OrderInv'
  BY <1>2, StreamBeginsWell, ClosesWriteWell, ClosesWell, ReadBeginsWell, ChecksWell, FirstWell, PutWell,
     ClosesFirstWell, ZeroWell, ClosesLastWell, ReadResponseWell, ReadNextWell
     DEF StreamStep
<1>3. ASSUME NEW g \in Goroutines, PacketBegin(g) \/ ClosePackets(g) \/ PacketStep(g)
      PROVE  OrderInv'
  BY <1>3, PacketBeginsWell, ClosesWell, PacketLocksWell, HeadsWell, ReadReplyWell, PutPacketsWell,
     ReadPacketWell
     DEF PacketStep
<1>4. CASE Accept
  BY <1>4, ServiceReads, ServiceAnswers DEF Accept
<1> QED
  BY <1>1, <1>2, <1>3, <1>4 DEF Next

\* Whatever the number of goroutines, calls and failures, and however they interleave and
\* are made again: of what writeRequest, writeResponse, Write, WriteVectorised, WritePacket
\* and WritePacketBatch put on a wire the far end can read one head, before all else, and
\* every datum at most once and in the order of its sender, though a write that failed may
\* have put a part of its data there; and Read and ReadPacket hand it out in that order.
THEOREM HeardOnce == Spec => []OnceInOrder
<1>1. OrderInv => OnceInOrder
  <2> SUFFICES ASSUME OrderInv, NEW e \in Ends
               PROVE  /\ HeardInTurn(e) /\ InTurn(handed[e])
                      /\ \A i \in Legible(e) : \A j \in DOMAIN wire[e][i].items :
                           wire[e][i].items[j] \in Heads <=> i = 1 /\ j = 1
    BY DEF OnceInOrder
  <2>1. HeardInTurn(e) /\ InTurn(handed[e])
    BY DEF OrderInv, WiresWell, ReadsWell, Follow
  <2> QED
    BY <2>1, RecordRead
<1> QED
  BY <1>1, OrderInit, OrderNext, PTL DEF Spec
=============================================================================
