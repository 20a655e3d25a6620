--------------------------- MODULE ServiceProperties ---------------------------
(***************************************************************************)
(* What the services promise: the salt cache, whatever the interleaving of *)
(* connections; the users; and who is left with a connection.              *)
(***************************************************************************)
EXTENDS Service

\* A salt passes again only after at least Generation others: two copies of a
\* first record, side by side or one after the other, are never both served.
ReplayFar ==
  \A i, j \in DOMAIN accepted : i < j /\ accepted[i] = accepted[j] => j - i > Generation

\* The cache forgets: a salt is refused only when the salts of the current
\* generation and the one before it set all its bits.
RefusedForRecent ==
  \A s \in Salts :
    Duplicate(s) =>
      \A b \in Bits[s] :
        \E i \in DOMAIN accepted : Len(accepted) - i < Generation + counts[current] /\ b \in Bits[accepted[i]]

\* Whoever is served has the user that its client ID has in a map that UpdateUsers
\* was called with as a whole and that was current after its request was read: not
\* one of a call that failed, one half built, or that of an earlier request.
UserCurrent ==
  \A c \in Conns :
    multi /\ (at[c] \in {"dispatch", "packet"} \/ owner[c]) =>
      \E i \in since[c] .. Len(published) :
        LET map == published[i] IN request[c].key \in DOMAIN map /\ user[c] = map[request[c].key]

\* A connection that newConnection has returned from is left to exactly one: to the
\* caller, by an error; to the handler; or to nobody, being closed.  A tunnel whose
\* stream has ended is the exception: Serve leaves it open.  Serve has run onClose
\* unless the handler will.
OneOwner ==
  \A c \in Conns :
    /\ at[c] = "error" => ~owner[c]
    /\ at[c] = "nil" => owner[c] # (~open[c] \/ atEOF[c])
    /\ at[c] \in {"nil", "error"} /\ serving[c] => owner[c] # onClosed[c]

-----------------------------------------------------------------------------
\* What these rest on.

BitsOf(list, first, last) == UNION {Bits[list[i]] : i \in first .. last}

\* The filters hold the salts of the current generation and of the one before it,
\* which is complete, and no others.
Generations ==
  LET n == Len(accepted) - counts[current] IN
  /\ n = 0 \/ n >= Generation
  /\ counts[1 - current] = 0
  /\ filters[current] = BitsOf(accepted, n + 1, Len(accepted))
  /\ filters[1 - current] = IF n = 0 THEN {} ELSE BitsOf(accepted, n - Generation + 1, n)

\* Between the look at the filters and the Add nobody else changes them.
Exclusive ==
  \A c \in Conns : at[c] = "add" => mutex = c /\ salt[c] \in Salts /\ ~Duplicate(salt[c])

\* UpdateUsers has what it went through in its map, and the service has a whole one.
UsersWhole ==
  /\ published # << >> /\ users = published[Len(published)]
  /\ index <= Len(updating) + 1
  /\ DOMAIN userMap = {updating[i][2] : i \in 1 .. index - 1}
  /\ \A i \in 1 .. index - 1 : userMap[updating[i][2]] = updating[i][1]

\* Until newConnection returns the connection is its own, and Serve is in it to stay.
OwnUntilDone ==
  \A c \in Conns :
    /\ since[c] <= Len(published)
    /\ at[c] = "next" => serving[c]
    /\ at[c] \notin {"nil", "error"} => open[c] /\ ~atEOF[c] /\ ~onClosed[c] /\ ~owner[c]

ServiceInv ==
  /\ TypeOK /\ Generations /\ Exclusive /\ ReplayFar
  /\ UsersWhole /\ OwnUntilDone /\ UserCurrent /\ OneOwner
=============================================================================
