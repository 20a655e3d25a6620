# sing-snell: a verification development

TLA+ models of sing-snell (Surge's snell protocol in Go), checked with TLC, and
proofs about them checked with TLAPS. The models are translated from the source;
`PROJECT.json` names the lines each definition stands for.

## The system

A snell *tunnel* is one TCP connection carrying two streams of encrypted records.
A record with an empty payload, the *zero chunk*, ends one direction. With reuse
on, a client runs one *logical connection* after another over the same tunnel:
request, data, zero chunk one way; reply, data, zero chunk the other way.

| Part | Source | State | Operations | Correct when |
|---|---|---|---|---|
| Reuse pool | `internal/reuse/reuse.go` | list of idle sessions with their time, `closed`, `ticking`, `drainWg`, and the atomic state word of each session | `Take`, `MoveToPool`, `ExpireLoop`, `DrainDone`, `Reset`, `Close` | a session has one holder; none is lost; `Close` returns; the expiry loop runs when it must |
| Reusing client | `snellv4/reuse.go`, `snellv6/reuse.go` (first half) | per logical connection: `closed`, `replyRead`, `readClosed`, `readActionCount`, `closeWriteOnce`; per session: `keepOnce`; per client: `closeIdle` | `DialContext`, `Write`, `CloseWrite`, `Read`, `Close`, `drain`, `Reset`, `SetKeepIdleConnections` | one thread at a time reads a tunnel; a connection reads its own response; a ready session is clean |
| Reusing server | `snellv5/reuse.go`, `snellv6/reuse.go` (second half) | per tunnel: reader, writer; per logical connection: `replyWritten`, `writeClosed`, `aborted`, `completion` | `Serve`, `Write`, `CloseWrite`, `Close`, `completeLogicalConnection` | nothing is written behind the zero chunk; the next record is read as a request only when this request stream has ended; `onClose` runs once |
| Record layer | `snellv{4,5,6}/record.go`, `snellv6/{shaped,handshake,salt}.go` | cipher, nonce, payload limit, cached record, write lock | `ReadRecord`, `NextRecord`, `Write*`, `WriteZeroChunk`, `WriteFirst` | nonces of both ends agree; sizes stay in their bounds; a write's records are contiguous; a reader that has lost its place fails closed |
| v6 profile | `snellv6/{profile,mixing}.go` | ranges derived from the key | `nextChunkSize`, `paddingLen`, `writeTarget`, mixing | sums stay within the record and the headroom; mixing is undone by the reader |
| Plain connections | `snellv4/client.go`, `snellv5/server.go`, `snellv6/{client,server}.go` | request written, reply read or written | `Read`, `Write`, `WriteVectorised`, `CloseWrite` | the head comes first and once; what a call returned nil for is on the connection |
| Services | `snellv5/server.go`, `snellv6/server.go` | users, `saltReplayCache` | `NewConnection`, `UpdateUsers`, `CheckAndAdd` | no salt seen recently is accepted; the user is one of a whole, current map; a connection has one owner |
| Packet connections | `snellv{4,5,6}/packet.go` | request written, reply read | `ReadPacket`, `WritePacket`, batches | request and reply are exchanged once; no call waits for ever |
| Obfuscation | `obfs.go` | head consumed, record remainder | `Read`, `Write` | framing survives reads of any size |
| Requests, addresses, keys | `request.go`, `address.go`, `crypto.go`, `snell.go` | none | encoding | decode is the inverse of encode |

How they interact: the client calls the pool under its mutex; sessions share an
atomic word with the pool and with every goroutine that still holds them; a
logical connection's `Close`, its last `Read`, the `drain` goroutine, `ExpireLoop`,
`Reset`, `Close` of the pool and the next connection's `DialContext` meet on that
word without a lock. That meeting is the hard part of the system and the core of
this development.

## Modules

* `ReusePool`: the pool. One operator per critical section. What a critical
  section takes off the list and closes after its unlock waits in `pending[t]`,
  so every interleaving of those closes is explored. The list is a set of entries
  with ages (its order is the order of ages).
* `ReuseTunnel`: the record streams and the far end of a tunnel as the client meets
  it. The far end reads a request, the rest of the request stream, replies, sends
  data, ends or aborts, in any order `Serve` allows, or goes away. Each record
  carries the connection that wrote it, for the properties only.
* `ReuseClient`: the client. Three threads per logical connection: `app` (dial,
  write, close), `rd` (one `Read` after another) and `dr` (the drain). One step per
  access to a shared atomic, critical section or record. `snellv4` and `snellv6`
  have the same control and share the module.
* `ReuseProperties`: what the client promises, and the fairness.
* `MCReuse`: the same with symmetry, for TLC.
* `ReuseProofs`, `ReuseCustodyProofs`: theorems about the client and the pool.
* `ReuseServer`: the far end in detail, `Serve` of v5 and v6 with its threads: `Serve`
  itself, the two copy goroutines of the connection handler, and the context that
  cancels it. One step per record, lock, shared flag or channel.
* `ReuseServerProperties`: what the server promises, and `FarEnd`: `ReuseServer` with
  the client's side mapped onto the variables of `ReuseTunnel` implements the far end
  that `ReuseClient` is checked against. `MCServer` is its instance for TLC.
* `ReuseServerProofs`: theorems about the server.
* `RecordStream`: one direction of a tunnel below all that: the record writers of v4,
  v5 and v6 (shaped, unshaped, raw), the goroutines that share one, and the nonces.
* `RecordProperties`, `MCRecords`, `RecordProofs`: what the record layer promises, its
  instance, and theorems.
* `Profile`: the numbers of v6's profile, which draws them from the key, and what is
  computed from them: padding, write target, headroom, mixing. Sets of possible values,
  no state. `ProfileProofs` has its theorems.
* `SaltCache`: `saltReplayCache`, two Bloom generations and their rotation. `Service`:
  `newConnection` of v5 and v6 from the first read to the owner the connection is left
  to, with several connections, `UpdateUsers` and `Serve` around it.
  `ServiceProperties`, `MCService`, `ServiceProofs`.
* `Obfs`: HTTP and TLS obfuscation, which hides a stream of bytes behind a head, or in
  hello and records. `RecordReader` EXTENDS it: the record readers of v4, v5 and shaped
  v6 on top, fed any number of bytes at a time, with deadlines and a cut connection.
  `TransportProperties`, `MCTransport`, `TransportProofs`.
* `PlainConn`: the two ends of a connection with one tunnel, their writers and locks;
  `PlainStream`: `Write`, `WriteVectorised`, `CloseWrite`, `Close`, `Read` of clientConn
  and serverConn; `PacketTunnel`: the packet connections, client, service and handler.
  `PlainProperties` puts them together. `MCPlain`, `PlainProofs`.

The client and the server are two modules that meet in `ReuseTunnel`: the client runs
against its nondeterministic far end, the server is shown to be one (`FarEnd`). The
record layer stands by itself: `ReuseTunnel` uses that a call's records arrive whole and
in order, which `WholeCalls`, `CallsComplete` and `NoncesAgree` establish for the
writers and `ReadsInOrder` and `NothingLost` for the readers, through obfuscation.
`Service` hands a connection to `Serve`, which `ReuseServer` has in detail, or to the
ends that `PlainConn` models.

Names follow the code: `app[c] = "askReader"` is the thread of `reuseConn.Close`
before `readActionCount.Load()`, `Leave` is a compare-and-swap from `StateActive`
that closes the session when it is refused, `Settle` the swap from `StateWaiting`
to `StateReady`.

### Abstractions

* `session.Close` is one step: the first swap to `StateClosed` and `Conn.Close`.
* A `Read` that receives a data record returns it; the caller calls again. The
  discard limit counts records (`DiscardLimit`), not bytes.
* `io.EOF` is the zero chunk, or the far end closing the TCP connection between two
  records: the record reader does not tell them apart, nor does the model.
* A write to a tunnel whose far end is gone may be lost or fail.
* On the server, the command of a request is a choice; a pong and an error reply are
  the same kind of record. The record that the reader has cached is the record not
  yet taken. `newConnection` is `Accept`, whose failure leaves the connection and
  `onClose` to its caller. The packet connection is the hand-over of the tunnel only.
* In `RecordStream` a buffer is a length and a payload limit a small number. The lock
  is taken with the first record of a call and v6's check of a batch is the first
  record's guard, so no call waits in between. Empty buffers, which every method but
  WriteZeroChunk ignores, are left out. The raw writer has no nonces; its records are
  numbered as if it had. Profile-dependent limits are any value within the jitter, or
  any bucket. `time.Now` is any earlier or later instant (`Tick`).
* A write that fails (`FlushFails`) has sent some of its records, and either the
  connection is gone or a deadline has passed and the writer goes on with the nonces that
  follow, as `PlainConn` has it too (`PutFails`). A batch that is refused has spent the
  nonces of what it had sealed (`Refuse`). Both note in `breaks` where on the wire the
  gap is. The lengths of the packets of a batch are not restricted.
* In `Service` a salt is a set of bits; a connection's requests are choices of a key and a
  command. Salts that pass are kept in the order of their `Add` for the properties.
* In `RecordReader` a record is a header, padding and payload of a few bytes, each byte
  known by its place; opening succeeds for the bytes that were sealed with the nonce at
  hand. `Read` of the TCP connection returns any prefix of what has arrived. The TLS hello
  and the HTTP head are sequences of as many tokens as tell their parsing apart.
* In `PlainConn` a record is a list of items: request, reply, error, data, end. A writer is
  a number; the writer made first is 1. The other end of a stream answers by a script
  chosen at the start; the two ends of a packet tunnel are both in the model. The reads
  of `c.writer` without the lock are a data race; they see nil or what was published.
  The request is written in one step; only a v6 `Write` may be interleaved between its
  records. `WriteBuffer` does what `Write` does.
* `Profile` replaces pseudorandom functions by any value of their range. The last turn of
  `writeTarget`'s loop starts from any target between the first and the frame.
* Time in the pool is a clock tick that ages every pool entry; `MaxAge` ticks stand for
  `PoolMaxAge`.

### Switches

Four constants say what the environment may do; the runs and the theorems name
the setting they hold for.

* `ReaderPauses`: the reader may stop between `readClosed.Store` and its
  compare-and-swap for as long as a whole later connection lasts.
* `LateWrites`: the application may still be in `Write` when it calls `CloseWrite`
  or `Close`.
* `ReadsPastEOF`: the application may call `Read` again after one returned EOF. No run
  sets it: `OwnResponse` holds only without (see below), so what a second `Read` behind
  io.EOF does to a later connection is modelled and not checked.
* `OrderlyClient` (server): the client ends each request stream before the next request.

`Events` lists what else happens in a run: Pool.Reset, Pool.Close,
SetKeepIdleConnections, the clock, the tunnel breaking.

## Runs

| Run | Instance | Shows |
|---|---|---|
| `handover` | 1 session, 3 connections, 2 data records, discard limit 1 | `Custody` (the inductive invariant below), `SingleReader`, `OwnResponse`, `DrainWaits`, `ReadyIsClean`, `NoMisread` |
| `idle` | 1 session, 2 connections of which one is dialled under ContextWithKeepSession, responses without data, idle switch at any time, the tunnel may break | `TypeOK`, `DrainsCounted` |
| `pool` | 2 sessions, a pool of 1, Pool.Close at any time, slow readers | `SoleHolder`, `NoneLost` |
| `fair` | 1 session, 2 connections, clock, Reset and Close | `ExpireLoopRuns`, `ClosedIsFinal`, and under fairness `CloseReturns`, `WaitingEnds`, `AllReleased` |
| `lost_wait` | 1 connection | violates `WaitingIsRead` |
| `late_settle` | 3 connections, `ReaderPauses` | violates `DrainWaits` |
| `late_write` | 1 connection, `LateWrites` | violates `NoMisread` |
| `server` | 2 connections, 1 data record down, 2 up, a tunnel window of 2, an orderly client that may stall or go | `TypeOK`, `ResponseOrder`, `WriteOrder`, `OwnRequest`, `OnCloseOnce`; `FarEnd`, the refinement of the far end of `ReuseTunnel`; under fairness `HandlerReleased`, `ServeGoesOn` |
| `records` | 2 goroutines, 3 calls, each of the five writers | `TypeOK`, `LimitsValid`, `NoncesAgree`, `WholeCalls`, `CallsComplete`, `SlowStart`, `MTUAccepted` |
| `service` | 2 connections of 2 requests, 4 salts of two bits, generations of 2, one `UpdateUsers` that succeeds, has a duplicate or a bad key; Service and MultiService of v6, MultiService of v5 | `ReplayFar`, `RefusedForRecent`, `UserCurrent`, `OneOwner` |
| `transport` | 3 records, HTTP, TLS and no disguise under v4, v5 and v6, any splitting of the bytes, 2 deadlines, a cut | `ReadsInOrder`, `NothingLost`, and under fairness `Arrives` |
| `plain` | 2 callers at the client, 1 at the handler, 3 calls, 1 failing write, streams and packets | `OnceInOrder`, `Kept`, and under fairness `CallsReturn` |

Bounds. Three connections over one session are what a stale step needs: one leaves
it behind, one is hit by it, a third is lent the session it corrupted. Two sessions
and a pool of one reach the full pool. Two data records and a discard limit
of one let a Read in progress and a drain each reach the limit (a drain comes behind a
Read that has taken the reply and one record) or meet the zero chunk first. Both at two,
where reading goes on behind a discarded record, hold as well (2,881,556 states), but take
four times as long; the theorems hold for all values. `InFlight` only bounds how
many records the application writes ahead. CHECK_DEADLOCK is off because the system
stops: every connection is dialled, used and closed once.

For the server, two uploaded records with a discard limit of one end a drain at the
limit and at the zero chunk, and a window of two lets a writer block with the reader
stalled. For the records, limits of 1 to 3 against buffers of 2, 3 and 4 cut a buffer into
one record, several, and several with a remainder; a batch of two packets is accepted, or
refused at its second one when the limit has shrunk over a pause; three calls are the first record
(which makes the writer) and two that compete; the first limit, the step and the cap are
all different; the clock takes two values, which is a pause in either direction; a failed write before,
between or behind two others leaves a gap, with and without a connection to go on with.

For the service, a generation of 2 and five accepted salts go through two rotations; the
bits of one salt are the union of parts of two others, so that a false positive happens;
two requests on a tunnel let `UpdateUsers` come between them. For the transport, a head
has a second CR where its end may begin, a TLS hello and record hold less than a
snell record and its salt, so that one is split; there are records with and without
padding and a zero chunk before the last one; v4 asks for more than it needs through its
buffer. For the plain
connections, three calls are two that race for the first write and one that follows or
repeats a failed one.

Fairness (`FairSpec` of the client): goroutines and threads that can step do (weak fairness per
thread, as the Go scheduler gives), the ticker ticks and time passes. Nothing is
asked of the server, which may never end its response, nor of the application,
which may keep its connection open; an application inside DialContext or Close
ends that call. For the server: `Serve` and the copy goroutines run unless they are
blocked, a handler call that has begun ends, and a client that is up reads; it need not
write, end its stream or close. For the transport: the application goes on reading, also
behind an error or a deadline, and a write that has begun is completed; `Arrives` excepts
a lost place and a cut. For the plain connections (`Spec` states it): a goroutine in a
call goes on when its lock is free and what it reads has arrived, and so does the
service's accept; writes to the TCP connection return. No application makes a call by
fairness, and a read may wait for data for ever, so `CallsReturn` leaves out reads.

## What the violations show

* `lost_wait`: `Close` sees a Read in progress and leaves the waiting session to it;
  that Read had looked at `closed` before and returns its record. Nobody reads the
  session, which sits unused until it ages out.
* `late_settle`: the reader's compare-and-swap is an ABA: the Waiting it finds may be
  that of the next connection.
* `late_write`: `Write` does not ask whether the connection is closed. A late record
  lands where the server expects the next request.

## What else was seen

Behaviour of the code that the models contain and no statement of the repository
contradicts:

* A second `Read` on a reusing connection, called after one returned io.EOF, is not
  stopped: `Close` has released the session and the Read may take the next connection's
  first record (`snellv4/reuse.go:471`, the switch `ReadsPastEOF`).
* `Serve` returns nil at io.EOF and leaves its connection open (`snellv5/reuse.go:143`);
  a ping outside of `Serve` never calls `onClose`. `OneOwner` names the first case.
* TLS obfuscation sets `serverHelloReceived`, `clientHelloReceived` and
  `sessionNameSkipped` before it reads: a deadline before the hello has arrived breaks
  the stream. The scan for the end of an HTTP head forgets a partial match when a read
  fails. `NothingLost` counts both as a lost place (`lost`), which the connections
  announce with NeedAdditionalReadDeadline.
* A v6 reader has raised nonce and sequence number for a zero chunk before it reads the
  padding behind it (`snellv6/shaped.go:402-422`). When a deadline passes in between and
  another one when the next Read has taken the rest of the padding for the beginning of a
  header, the reader is at the next record with the right nonce: io.EOF is never returned
  and the records of the next stream are read as this one's. `Missed` marks such an end in
  `delivered`; one deadline is not enough to see it, which is why the run has two.
* A payload as long as a header may be opened as one when a deadline has passed inside
  a record: both are sealed under the next nonce and without additional data
  (`mistaken`).
* The writer outlives a write that fails at a passed deadline: its nonces are spent and
  `writer`, lock and window stay as they are (`snellv4/record.go:585`,
  `snellv5/record.go:457,470`). The next Write goes out behind the gap and returns nil,
  although the reader can open nothing from there on. A packet over the limit behind good
  ones of a batch does the same without any failure of the connection: `WriteVectorised` of
  v4 and v5 returns ErrPayloadTooLarge and releases what it has sealed
  (`snellv4/record.go:716`, `snellv5/record.go:706`); v6 looks through the batch before it
  seals anything. `NoncesAgree` says what is left to rely on: the reader fails at the gap and
  never takes a later record for the missing one. (In raw mode there is no nonce to
  compare: the reader goes on with whatever comes.)
* In v6's raw mode nothing stops the retry of a failed first write from being taken for a
  second one, since no nonce tells them apart; `writeRequest` publishes the writer and
  returns 0 though a part may have been written.
* A `Write` that races `CloseWrite` of serverConn may put data behind the error reply and
  return nil; a `Write` after `CloseWrite` of clientConn goes behind the zero chunk. So
  `Kept` is about what is on the connection.
* `ReadPacket` drops a datagram that does not fit the buffer (`io.ErrShortBuffer`).

## Proofs

Every theorem holds for all values of the constants that its module's ASSUMEs and the
switches it names allow. Each rests on an inductive invariant, which TLC has checked on
the instance of the run that checks the property before it was proved.

### The client and the pool

`TypeCorrect`: type correctness, for every number of sessions and connections, every
pool size, age limit and discard limit; it includes that no Read or drain discards more
than the limit. It needs to know that a Read decrements a count it incremented, that a
connection that moves to the pool has a session, and that who goes on discarding is below
the limit; `ThreadsAgree` says so and is proved with it.

`CustodyKept` and `OneReader`: no two threads are ever inside the record reader of
a tunnel, for ~`ReaderPauses` and ~`ReadsPastEOF` (the run `late_settle` and
the late Read described above are why). `SingleReader` is
not inductive: it says nothing of a thread about to read. `Custody` strengthens it
to *one connection at most is busy with a session*, where busy means that its
application holds it, its Read may still take a record, or its drain runs or is
about to. The steps that pass a session on are the interesting ones: `Dial` takes a
ready entry, and `Tells` knows that nobody is busy with one; a settle by Read, drain
or Close leaves its own connection quiet, because a Read that met the EOF takes no
further record (`Alone`); `AskReader` may start a drain because a count of zero
after `closed` is set means no Read will pass its second look at `closed`.

`HoldersExclude`, `NoSessionLost`, `ClosingIsFinal`, `OneExpireLoop`: the pool and its
sessions, under no assumption. That two connections never hold the same session
(`SoleHolder`) needs to know which sessions were ever made (`Created`, in `HolderInv`):
`Dial` makes a fresh one, the pool lends one that nobody holds, and a holder lets go in
the step that offers it, parks it for its drain or closes it. `NoSessionLost` and
`OneExpireLoop` follow case by case from what each critical section of the pool takes
off its list. `WaitGroupExact`: `drainWg` is the number of connections that drain or
are about to (`Counted`), which is a finite set (`CountInv`), since each step adds or
removes one.

`NoRequestMisread`, for ~`LateWrites`: the server takes no left-over for a request. What
is on the way to it is, in order, requests each behind the end of the last
(`Alternates`), and whether the application has still to write its request, its data or
its zero chunk tells where the stream stands (`RequestInv`): only a connection that is
inside its request stream holds the session open. The run `late_write` shows the
assumption is needed.

`ResponsesKeptApart`, `ReadyMeansClean`, for `Orderly` (~`ReaderPauses` and
~`ReadsPastEOF`) and ~`LateWrites`; `DrainsOnlyWait`, for `Orderly`. The invariant
`FullInv` joins the three above with `ResponseInv`: what arrives on a tunnel is of the
connection that uses it or drains it, of one request and ending with one EOF (`Flow`,
`OwnTunnel`); who has seen the EOF leaves a clean session (`Clean`, `ReadEOF`); a
drain that may still discard has a waiting session (`DrainsWaiting`). The steps that
matter are those that pass a session on: a ready session is `Clean`, so its next
holder finds nothing of the last one. `late_settle` violates `DrainWaits` without
`Orderly`.

### The server

`ServerTypeCorrect`, `ResponsesOrdered`, `WritersAgree`, `OnClosedOnce`: the server, for
every number of connections and every behaviour of the client. That nothing follows a
zero chunk or an error reply (`ResponseOrder`) is not inductive; `WriteOrder` says what
the write lock, `closeWriteOnce` and the completion channel tell `Serve` and the copy
goroutines of each other (`Held`: who may still write; `Ending`: what the last record
of the stream then is). It is checked by the run `server` and proved with the types.

`RequestsKeptApart`: whoever reads a request stream reads its own. `UploadInv` says for
an orderly client what is on the way to the server: the rest of the current stream, then
whole requests in their order (`Carries`), and that a copy goroutine which still reads is
of the connection that `Serve` waits for (`Uploads`).

`ServerIsFarEnd`: the refinement `FarEnd`, step by step. Init maps to a far end that is up and idle;
each step of `Serve`, a copy goroutine, the context or the client maps to a step of
`ReuseTunnel`'s far end or to a stutter. It rests on `WriteOrder`, on `Uploads` and on
`Served`: `Serve` goes behind a connection only when it is completed, and the copy
goroutines of a completed connection are done.
`FarEnd` speaks of the server up to the moment the client closes the tunnel, after
which the client's model is done with it.

### The record writers

`RecordTypeCorrect`, `LimitsStayValid`, `NoncesStayInStep`: the record writers, for every
number of goroutines, profile and sequence of calls. The limits follow from the ranges
of the pacing fields (`WindowOK`), whatever the clock does. The nonces need more
(`Ordered`): what is sealed and unwritten belongs to the goroutine that has the lock
(`Locked`), it continues where a reader of the wire will be and ends at the writer's
nonce (`InStep`), and each record on the wire has the nonce that is due (`InOrder`).
Where a failed write or a refused batch has given records up, the writer is beyond the
nonce that is due (`Follows`, since a chain of records raises the nonce, `ChainRises`),
and so is all that it seals later (`BeyondGap`): the reader fails there and takes no record
for another. No assumption is made on sizes, failures or what the application does then.

`CallsStayWhole`: the records of one call stand together. `WholeInv`: what is sealed and
unwritten is the lock holder's and of its current call (`Locked`, `Owned`), the calls of
what is on the wire have begun (`Placed`), a running call that has a record there and
must not yield has the lock and the last record (`HoldsOn`), a goroutine runs one call
and the first record goes alone (`CallsApart`), a packet or zero chunk is one record
(`Single`).

`NothingDropped`: a call that returns no error has written all of its buffers, once.
`CountInv` accounts for a running call at each step: the lengths of its records on the
wire, of those that are sealed, and of what it has left add up to its buffers
(`Accounted`); a packet call has nothing on the wire until its last packet is sealed, and
its sealed records and the packets left are its packets in their order. A failed write
ends the call with an error and needs no account. With `WholeInv` the records of a packet
call stand together when they are written. What sums are of a joined or cut sequence
(`SumJoin`, `SumCut`) takes an induction; the library's theorems for it have an operator
parameter, so it is made by a least counterexample (`LeastElement`, from `WFMin`).

`PacketsAccepted`: a packet within the WriterMTU of its packet connection (a step of the
payload window in v4 and v5, the largest payload in v6, both with the address that is put
before the packet) is never refused, since packets come behind a record that was sealed,
from where on a limit is at least one `Step` (`FitInv`: `Started`, `Parts`).
`PausesStartSlow`: what a pause resets is the limit of the next record; `PaceInv` relates
each record on the wire, or sealed and waiting, to the one before it (`Paced`) and the
writer's times to the last of them (`Knows`, `LimitNow`). Records that were given up are
missing on the wire, and the time between their neighbours is not a pause of the writer's:
`SlowStart` leaves out the record behind such a gap.

### Services, readers, plain connections, profile

`NoReplay`, `CacheForgets`, `UsersAreCurrent`, `ConnectionsOwned`: the services, for any
number of connections, salts and updates, from `ServiceInv`: the filters hold exactly
the salts of the current and the last generation (`Generations`), nobody changes them
between another's look and its Add (`Exclusive`), the map that `UpdateUsers` publishes is
whole (`UsersWhole`), and newConnection has its connection until it returns
(`OwnUntilDone`).

`ReadersFailClosed`: for any records, disguise and number of deadlines, what a reader
hands out is what is written, in order and without a gap, unless it took a payload for a
header; a v6 reader may have missed zero chunks (`Handed`), at their place and nothing
else. `ReaderInv` says that sealed pieces alternate as headers and bodies should (`Sealed`),
and that reader and writer agree on the next nonce's piece whatever bytes the reader is
given (`Opened`), the zero chunk whose padding is being read being the one that comes next
(`Delivered`).

`ReadersLoseNothing`: a reader that no deadline has put out of its place meets each header
and each body where it looks for it, under any disguise, whatever the Reads return, and
comes to the end behind the last byte. Nothing in the state says where in the stream a
reader is, so the invariant does. `PlaceInv` lays the sealed pieces behind one another
(`Stream`) and says (`PlacedBy`) that what ReadFull has, what is buffered and what the last
Read returned are consecutive bytes of it, from the place of the piece that `nonce` names
(`Base`) up to a front; that the wire carries, in its disguise, the bytes from the front to
an end (`Wired`); and that the writer has the rest. What a disguise carries is said for each
one: the bytes themselves (`CarriesPlain`); the rest of a head, of which the reader has
matched the longest part of the terminator that it ends with (`CarriesHead`, `Matching`); or
a chain of records, each leading to the next by its length, behind the hello, the rest of a
record or the host name (`CarriesRecords`, `Framed`, `Lead`). `Under` allows for what a cut
has taken. `Stages` ties the length that ReadFull still needs to the piece at hand. The work
is in the steps that cross a boundary: a Read that ends inside a head, a hello, a name or a
record header; a Write behind bytes of which some have been read (`WritePlaced`); a header
whose body comes next (`HeaderPlaced`); a zero chunk before the padding (`PaddingPlaced`).
The records of a long write are joined by `appendRecords` with a fold of the library, which
the provers know nothing of; what it does, part by part, follows by a least counterexample
(`Climb`). TLC checked the invariant on a smaller instance of `transport` (1,490,162
states, the witnesses of `Placed` computed from the state) before it was proved; `lost` is
set by the deadlines, not by the proof. Two assumptions
on the constants of `Obfs` were made for it: what is read up to a length has its two bytes
(`obfs.go:276`, `413-418`), and a head ends with the only terminator it has
(`HeadsAssumption`; `obfs.go:137-143`, `212-213`), which the code that writes heads sees to
as long as the configured host and URI have none.

`WritesAreKept`: for any number of goroutines and calls, what a write returned nil for is
on the connection as long as no write fails. `Kept` needs to know who holds the lock and
whether there is a writer at each step of a call (`Holders`), that a call's data is what
its caller gave it and all of it is left until something is written (`CallsAgree`), that
an end has one writer whose records are on the wire in the order of their nonces
(`OneWriter`), and that what a running call has not left is on the wire
(`LeftOrWritten`). One failed write ends all of it, so the invariant holds while
`failures = 0`; after that `OnceInOrder` is what remains.

`HeardOnce`: whatever fails and is repeated, the far end hears one head, before all else,
and each datum at most once and in the order of its sender; and what is handed out is in
that order. The difficulty is a write that failed after a part of its data and is made
again. `OrderInv` rests on one idea: a wire is *alive* (`Alive`) while all of it can be
read and the writer's nonce is its length. A failed write spends more nonces than it
wrote records, or tears one, so it leaves nothing alive but a wire on which there is
nothing; a writer made after that starts behind records that are not its own. So what is written after a
failure is not `Legible`, and while a wire is alive all that is on it comes before what
each caller has left (`Ahead`). The rest is bookkeeping: writers sign their records with
nonces below their own, the head under the first (`Signed`, `Published`); calls have
their data in order (`CallsWell`); a reader has read the legible records behind each
other and what it handed out, or keeps in the cache, is of those (`ReadsWell`). Of a
far end that only answers, `AnswersAssumption` asks for a head first and data in order.

`RangesNotEmpty`, `ProfileSound`, `TargetGrows`, `PaddingFits`, `HeadroomSuffices`,
`MixingUndone`: the profile, for every key. There is no behaviour here to be explored, so
no run checks them; `MCRecords` evaluates a sample. `ProfileSound` gives the ranges, which
are also what the record writers assume of their profile (`StreamAssumption`);
`PaddingFits` follows from what each rule adds at most; the loop of `writeTarget` ends
because `TargetGrows`; the exchanges of mixing commute and undo themselves.

Assumptions are those on the constants (`StreamAssumption` and its like, evaluated by
TLC in every run) and the switches named in the theorems.

### Only model-checked

* Liveness: `CloseReturns`, `WaitingEnds`, `AllReleased`, `HandlerReleased`, `ServeGoesOn`,
  `Arrives`, `CallsReturn`. Fairness and ENABLED are out of the prover's reach.

Every safety invariant and action property that a passing run checks is also a theorem.

## Not modelled

* Encoding of requests and addresses, key derivation and ciphers: pure functions without
  state that the control depends on. What fillPadding writes and where the salt's bytes
  are put: what a reader skips.
* The reader of v6's raw mode, and ReadWait, which returns the same records in a buffer of
  the caller's kind.
* DialConn and Close of the plain client, which wrap and close a connection; the listener
  and the dialler, which are the caller's.
* The branch of `writeTunnelReply` for a packet tunnel inside `Serve` whose writer exists
  already; `ReuseServer` models the hand-over only.
* Address types that this server does not send and the v4 client skips.
* Backpressure of the TCP connection, except in `ReuseServer` (`Window`).
