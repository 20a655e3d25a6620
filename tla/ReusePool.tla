------------------------------ MODULE ReusePool ------------------------------
(***************************************************************************)
(* internal/reuse/reuse.go: the pool of idle tunnels that a client keeps   *)
(* (type Pool) and the atomic state word of every pooled session.          *)
(*                                                                         *)
(* Each operator below is one critical section of Pool.access.  The        *)
(* sessions a critical section removes as over-aged, or snapshots, are     *)
(* closed after the unlock: they wait in pending[t] for the thread t that  *)
(* ran it, and ClosePending closes them one at a time.                     *)
(*                                                                         *)
(* The list of entries is ordered by the time of PushBack, so it is kept   *)
(* as the set "entries" with the age of each entry, counted in clock ticks *)
(* and capped one past MaxAge: the front of the list is an entry of        *)
(* greatest age, and entries pushed within one tick are in any order.      *)
(***************************************************************************)
EXTENDS Integers, FiniteSets

CONSTANTS
  Sessions,   \* reuseSession objects the client may create
  Conns,      \* logical connections: each is one application thread
  PoolSize,   \* PoolSize
  MaxAge,     \* PoolMaxAge, in clock ticks
  Ticker,     \* the ExpireLoop goroutine, as an owner of pending closes
  Resetter,   \* the caller of Pool.Reset
  Shutter,    \* the caller of Pool.Close
  Events      \* what may happen around the connections in a run 

ASSUME PoolAssumption ==
  /\ PoolSize \in Nat \ {0}
  /\ MaxAge \in Nat
  /\ Ticker \notin Conns /\ Resetter \notin Conns /\ Shutter \notin Conns
  /\ Ticker # Resetter /\ Ticker # Shutter /\ Resetter # Shutter
  /\ Events \subseteq {"reset", "close", "idle", "time", "break"}

Threads == Conns \cup {Ticker, Resetter, Shutter}

\* "None" is a session that has not been created.
SessionState == {"None", "Ready", "Active", "Waiting", "Closed"}

VARIABLES
  state,       \* the state word of each session
  entries,     \* sessions in Pool.entries
  age,         \* age of each entry
  poolClosed,  \* Pool.closed
  ticking,     \* Pool.ticking
  loops,       \* running ExpireLoop goroutines
  drainWg,     \* counter of Pool.drainWg
  pending,     \* sessions each thread still has to close after its unlock
  shut         \* progress of the one Pool.Close call that finds closed = false

poolVars == <<state, entries, age, poolClosed, ticking, loops, drainWg, pending, shut>>

PoolTypeOK ==
  /\ state \in [Sessions -> SessionState]
  /\ entries \in SUBSET Sessions
  /\ age \in [Sessions -> 0 .. MaxAge + 1]
  /\ poolClosed \in BOOLEAN
  /\ ticking \in BOOLEAN
  /\ loops \in Nat
  /\ drainWg \in Int
  /\ pending \in [Threads -> SUBSET Sessions]
  /\ shut \in {"no", "closing", "waiting", "done"}

PoolInit ==
  /\ state = [s \in Sessions |-> "None"]
  /\ entries = {}
  /\ age = [s \in Sessions |-> 0]
  /\ poolClosed = FALSE
  /\ ticking = FALSE
  /\ loops = 0
  /\ drainWg = 0
  /\ pending = [t \in Threads |-> {}]
  /\ shut = "no"

-----------------------------------------------------------------------------
\* The purge every critical section starts with: closed sessions are dropped,
\* over-aged ones are dropped and handed to the caller to close.
Live    == {s \in entries : state[s] # "Closed" /\ age[s] <= MaxAge}
Expired == {s \in entries : state[s] # "Closed" /\ age[s] > MaxAge}

\* The entries the loop of Take may reach first among the ready ones.
FrontReady ==
  {s \in Live : /\ state[s] = "Ready"
                /\ \A r \in Live : state[r] = "Ready" => age[r] <= age[s]}

SetEntries(E, fresh) ==
  /\ entries' = E
  /\ age' = [s \in Sessions |-> IF s \in E \ fresh THEN age[s] ELSE 0]

Hold(t, S) == pending' = [pending EXCEPT ![t] = @ \cup S]

\* Mutant: Take forgets entries.Remove of the session it returns.
TakeReadyKeepsEntry(t, s) ==
  /\ ~poolClosed
  /\ s \in FrontReady
  /\ state' = [state EXCEPT ![s] = "Active"]
  /\ SetEntries(Live, {})
  /\ Hold(t, Expired)
  /\ UNCHANGED <<poolClosed, ticking, loops, drainWg, shut>>

\* Take finds a session and claims it with the compare-and-swap.
TakeReady(t, s) ==
  /\ ~poolClosed
  /\ s \in FrontReady
  /\ state' = [state EXCEPT ![s] = "Active"]
  /\ SetEntries(Live \ {s}, {})
  /\ Hold(t, Expired)
  /\ UNCHANGED <<poolClosed, ticking, loops, drainWg, shut>>

\* Take finds nothing to reuse.
TakeNone(t) ==
  /\ ~poolClosed
  /\ FrontReady = {}
  /\ SetEntries(Live, {})
  /\ Hold(t, Expired)
  /\ UNCHANGED <<state, poolClosed, ticking, loops, drainWg, shut>>

Fits == ~poolClosed /\ Cardinality(Live) < PoolSize

\* Mutant: MoveToPool returns false without closing a session that does not fit.
MoveToPoolLeaks(t, s, drain) ==
  /\ IF poolClosed
     THEN UNCHANGED <<entries, age, pending>>
     ELSE SetEntries(IF Fits THEN Live \cup {s} ELSE Live, {s}) /\ Hold(t, Expired)
  /\ drainWg' = IF Fits /\ drain THEN drainWg + 1 ELSE drainWg
  /\ ticking' = (ticking \/ Fits)
  /\ loops' = IF Fits /\ ~ticking THEN loops + 1 ELSE loops
  /\ UNCHANGED <<state, poolClosed, shut>>

\* MoveToPool(session, state, drain): a session that does not fit is closed,
\* after the over-aged ones.  "drain" stands for state == StateWaiting && drain.
MoveToPool(t, s, drain) ==
  /\ IF poolClosed
     THEN /\ UNCHANGED <<entries, age>>
          /\ Hold(t, {s})
     ELSE /\ SetEntries(IF Fits THEN Live \cup {s} ELSE Live, {s})
          /\ Hold(t, IF Fits THEN Expired ELSE Expired \cup {s})
  /\ drainWg' = IF Fits /\ drain THEN drainWg + 1 ELSE drainWg
  /\ ticking' = (ticking \/ Fits)
  /\ loops' = IF Fits /\ ~ticking THEN loops + 1 ELSE loops
  /\ UNCHANGED <<state, poolClosed, shut>>

-----------------------------------------------------------------------------
\* Mutant: ExpireLoop ends without resetting Pool.ticking.
ExpireTickStaysTicking ==
  /\ loops > 0
  /\ ~poolClosed
  /\ SetEntries(Live, {})
  /\ Hold(Ticker, Expired)
  /\ loops' = IF Live = {} THEN loops - 1 ELSE loops
  /\ UNCHANGED <<state, poolClosed, ticking, drainWg, shut>>

\* One tick of ExpireLoop while the pool is open: it ends when nothing is left.
ExpireTick ==
  /\ loops > 0
  /\ ~poolClosed
  /\ SetEntries(Live, {})
  /\ Hold(Ticker, Expired)
  /\ ticking' = (Live # {})
  /\ loops' = IF Live = {} THEN loops - 1 ELSE loops
  /\ UNCHANGED <<state, poolClosed, drainWg, shut>>

\* ExpireLoop after the pool closed: it ends at p.stop, or at a tick that finds
\* the pool closed.
ExpireStop ==
  /\ loops > 0
  /\ poolClosed
  /\ loops' = loops - 1
  /\ ticking' \in {ticking, FALSE}
  /\ UNCHANGED <<state, entries, age, poolClosed, drainWg, pending, shut>>

\* Reset snapshots the entries and clears the list.
ResetPool ==
  /\ ~poolClosed
  /\ Hold(Resetter, entries)
  /\ SetEntries({}, {})
  /\ UNCHANGED <<state, poolClosed, ticking, loops, drainWg, shut>>

\* Mutant: Close clears the list before it snapshots it.
ClosePoolForgets ==
  /\ "close" \in Events
  /\ ~poolClosed
  /\ poolClosed' = TRUE
  /\ shut' = "closing"
  /\ SetEntries({}, {})
  /\ UNCHANGED <<state, ticking, loops, drainWg, pending>>

\* Close marks the pool closed, snapshots the entries and stops the loop.
ClosePool ==
  /\ "close" \in Events
  /\ ~poolClosed
  /\ poolClosed' = TRUE
  /\ shut' = "closing"
  /\ Hold(Shutter, entries)
  /\ SetEntries({}, {})
  /\ UNCHANGED <<state, ticking, loops, drainWg>>

\* Close has closed its snapshot and enters drainWg.Wait.
CloseWait ==
  /\ shut = "closing"
  /\ pending[Shutter] = {}
  /\ shut' = "waiting"
  /\ UNCHANGED <<state, entries, age, poolClosed, ticking, loops, drainWg, pending>>

\* drainWg.Wait returns.
CloseReturn ==
  /\ shut = "waiting"
  /\ drainWg = 0
  /\ shut' = "done"
  /\ UNCHANGED <<state, entries, age, poolClosed, ticking, loops, drainWg, pending>>

\* session.Close: the first swap to StateClosed closes the tunnel.  The swap and
\* Conn.Close are one step: whatever another thread does between them it could
\* have done before the swap, and its compare-and-swap fails all the same.
SwapClosed(s) == state' = [state EXCEPT ![s] = "Closed"]

\* A thread closes one of the sessions it took off the list.
ClosePending(t) ==
  \E s \in pending[t] :
    /\ SwapClosed(s)
    /\ pending' = [pending EXCEPT ![t] = @ \ {s}]
    /\ UNCHANGED <<entries, age, poolClosed, ticking, loops, drainWg, shut>>

\* Time passes for the entries.
ClockTick ==
  /\ "time" \in Events
  /\ \E s \in entries : age[s] <= MaxAge
  /\ age' = [s \in Sessions |-> IF s \in entries /\ age[s] <= MaxAge
                                THEN age[s] + 1 ELSE age[s]]
  /\ UNCHANGED <<state, entries, poolClosed, ticking, loops, drainWg, pending, shut>>

=============================================================================
