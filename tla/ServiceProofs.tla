----------------------------- MODULE ServiceProofs -----------------------------
(***************************************************************************)
(* Theorems about the services, for every generation size, every way the   *)
(* hash spreads the salts over the filter, and any number of connections.  *)
(***************************************************************************)
EXTENDS ServiceProperties, SequenceTheorems, TLAPS

LEMMA NoUsersMap == NoUsers \in UserMaps
<1>1. NoUsers \in [{} -> Users]
  BY DEF NoUsers
<1> QED
  BY <1>1 DEF UserMaps

LEMMA TypeInit == Init => TypeOK
<1> SUFFICES ASSUME Init PROVE TypeOK OBVIOUS
<1> USE CacheAssumption, ServiceAssumption DEF Init, CacheInit
<1>1. CacheTypeOK
  BY DEF CacheTypeOK, Filters
<1>2. published \in Seq(UserMaps)
  BY NoUsersMap
<1>3. UserTypeOK
  BY <1>2, NoUsersMap DEF UserTypeOK
<1>4. ConnTypeOK
  BY DEF ConnTypeOK, Pcs
<1> QED
  BY <1>1, <1>3, <1>4 DEF TypeOK

-----------------------------------------------------------------------------
\* The salt cache.

\* What an Add leaves is a cache.
LEMMA AddTypes ==
  ASSUME CacheTypeOK, NEW s \in Salts, Add(s)
  PROVE  CacheTypeOK'
<1> USE CacheAssumption DEF CacheTypeOK, Filters
<1>1. Bits[s] \subseteq AllBits
  BY DEF AllBits
<1>2. current' \in Filters /\ counts' \in [Filters -> 0 .. Generation - 1]
  BY DEF Add
<1>3. SetBits(current, s) \in SUBSET AllBits
  BY <1>1 DEF SetBits
<1>4. filters' \in [Filters -> SUBSET AllBits]
  <2> DEFINE added == [filters EXCEPT ![current] = SetBits(current, s)]
  <2>1. added \in [Filters -> SUBSET AllBits]
    BY <1>3
  <2>2. [added EXCEPT ![1 - current] = {}] \in [Filters -> SUBSET AllBits]
    BY <2>1
  <2>3. filters' = added \/ filters' = [added EXCEPT ![1 - current] = {}]
    BY DEF Add
  <2> HIDE DEF added
  <2> QED
    BY <2>1, <2>2, <2>3
<1>5. accepted' \in Seq(Salts)
  BY DEF Add
<1> QED
  BY <1>2, <1>4, <1>5

\* An Add keeps the two generations in their filters.
LEMMA AddGenerations ==
  ASSUME CacheTypeOK, Generations, NEW s \in Salts, Add(s)
  PROVE  Generations'
<1> USE CacheAssumption
<1> DEFINE len == Len(accepted)
           n == len - counts[current]
           other == 1 - current
<1>1. /\ len \in Nat /\ current \in {0, 1} /\ other \in {0, 1} /\ other # current
      /\ 1 - other = current
      /\ counts[current] \in 0 .. Generation - 1
      /\ n \in Nat /\ n <= len /\ len = n + counts[current]
      /\ n = 0 \/ n >= Generation
  BY SMTT(30) DEF CacheTypeOK, Filters, Generations
<1>2. /\ accepted' = Append(accepted, s) /\ Len(accepted') = len + 1
      /\ accepted'[len + 1] = s
      /\ \A i \in 1 .. len : accepted'[i] = accepted[i]
  BY DEF Add, CacheTypeOK
<1>3. \A a, b \in Int : 1 <= a /\ b <= len => BitsOf(accepted', a, b) = BitsOf(accepted, a, b)
  <2> TAKE a, b \in Int
  <2> HAVE 1 <= a /\ b <= len
  <2>1. \A i \in a .. b : accepted'[i] = accepted[i]
    BY <1>1, <1>2
  <2> QED
    BY <2>1 DEF BitsOf
<1>4. \A a \in Int : 1 <= a /\ a <= len + 1 => BitsOf(accepted', a, len + 1) = BitsOf(accepted, a, len) \cup Bits[s]
  <2> TAKE a \in Int
  <2> HAVE 1 <= a /\ a <= len + 1
  <2>1. \A i : i \in a .. len + 1 <=> i \in a .. len \/ i = len + 1
    BY <1>1
  <2>2. \A i \in a .. len : accepted'[i] = accepted[i]
    BY <1>1, <1>2
  <2>3. ASSUME NEW b \in BitsOf(accepted', a, len + 1) PROVE b \in BitsOf(accepted, a, len) \cup Bits[s]
    BY <1>2, <2>1, <2>2 DEF BitsOf
  <2>4. ASSUME NEW b \in BitsOf(accepted, a, len) \cup Bits[s] PROVE b \in BitsOf(accepted', a, len + 1)
    BY <1>2, <2>1, <2>2 DEF BitsOf
  <2> QED
    BY <2>3, <2>4
<1>5. filters[current] = BitsOf(accepted, n + 1, len) /\ counts[other] = 0
      /\ filters[other] = IF n = 0 THEN {} ELSE BitsOf(accepted, n - Generation + 1, n)
  BY DEF Generations
<1> HIDE DEF len, n, other
<1>6. CASE counts[current] + 1 < Generation
  <2>0. ~(counts[current] + 1 >= Generation)
    BY <1>1, <1>6
  <2>1. /\ current' = current /\ counts'[current] = counts[current] + 1 /\ counts'[other] = 0
        /\ filters'[current] = filters[current] \cup Bits[s] /\ filters'[other] = filters[other]
    BY <1>1, <1>5, <2>0 DEF Add, SetBits, CacheTypeOK, Filters
  <2>2. Len(accepted') - counts'[current'] = n
    BY <1>1, <1>2, <2>1
  <2>3. filters'[current'] = BitsOf(accepted', n + 1, len + 1)
    BY <1>1, <1>4, <1>5, <2>1
  <2>4. ASSUME n # 0
        PROVE  BitsOf(accepted', n - Generation + 1, n) = BitsOf(accepted, n - Generation + 1, n)
    <3>1. n - Generation + 1 \in Int /\ n \in Int /\ 1 <= n - Generation + 1 /\ n <= len
      BY <1>1, <2>4
    <3> QED
      BY <1>3, <3>1
  <2>5. filters'[other] = IF n = 0 THEN {} ELSE BitsOf(accepted', n - Generation + 1, n)
    BY <1>5, <2>1, <2>4
  <2> QED
    BY <1>1, <1>2, <2>1, <2>2, <2>3, <2>5 DEF Generations, other
<1>7. CASE counts[current] + 1 >= Generation
  <2>1. /\ current' = other /\ counts'[current] = 0 /\ counts'[other] = 0
        /\ filters'[current] = filters[current] \cup Bits[s] /\ filters'[other] = {}
    BY <1>1, <1>5, <1>7 DEF Add, SetBits, CacheTypeOK, Filters, other
  <2>2. Len(accepted') - counts'[current'] = len + 1 /\ len + 1 >= Generation
        /\ (len + 1) - Generation + 1 = n + 1
    <3>1. counts[current] = Generation - 1
      BY <1>1, <1>7
    <3>2. len + 1 = n + Generation
      BY <1>1, <3>1
    <3>3. Len(accepted') - counts'[current'] = len + 1
      BY <1>1, <1>2, <2>1
    <3>4. n \in Nat /\ len \in Nat /\ Generation \in Nat
      BY <1>1
    <3>5. len + 1 >= Generation
      BY <3>2, <3>4
    <3>6. (len + 1) - Generation + 1 = n + 1
      BY <3>2, <3>4
    <3> QED
      BY <3>3, <3>5, <3>6
  <2>3. filters'[current] = BitsOf(accepted', n + 1, len + 1)
    BY <1>1, <1>4, <1>5, <2>1
  <2>4. BitsOf(accepted', (len + 1) + 1, len + 1) = {}
    BY <1>1 DEF BitsOf
  <2>5. filters'[1 - current'] = BitsOf(accepted', (len + 1) - Generation + 1, len + 1)
    BY <1>1, <2>1, <2>2, <2>3 DEF other
  <2>6. counts'[1 - current'] = 0 /\ len + 1 # 0
    BY <1>1, <2>1 DEF other
  <2>7. filters'[current'] = BitsOf(accepted', (len + 1) + 1, len + 1)
    BY <2>1, <2>4
  <2>8. Len(accepted') = len + 1 /\ counts'[current'] = 0
    BY <1>1, <1>2, <2>1
  <2> QED
    BY <1>1, <2>2, <2>5, <2>6, <2>7, <2>8 DEF Generations
<1> QED
  BY <1>1, <1>6, <1>7

\* A salt among the last Generation is a duplicate.
LEMMA RecentKnown ==
  ASSUME CacheTypeOK, Generations, NEW i \in 1 .. Len(accepted), Len(accepted) - i < Generation
  PROVE  Duplicate(accepted[i])
<1> USE CacheAssumption
<1> DEFINE n == Len(accepted) - counts[current]
<1>1. /\ current \in {0, 1} /\ 1 - current \in {0, 1}
      /\ counts[current] \in 0 .. Generation - 1 /\ Len(accepted) \in Nat
      /\ n = 0 \/ n >= Generation
  BY DEF CacheTypeOK, Filters, Generations
<1>2. CASE i > n
  <2>1. i \in n + 1 .. Len(accepted)
    BY <1>1, <1>2
  <2>2. Bits[accepted[i]] \subseteq BitsOf(accepted, n + 1, Len(accepted))
    BY <2>1 DEF BitsOf
  <2> QED
    BY <1>1, <2>2 DEF Duplicate, Contains, Generations, Filters
<1>3. CASE i <= n
  <2>1. n # 0 /\ i \in n - Generation + 1 .. n
    BY <1>1, <1>3
  <2>2. Bits[accepted[i]] \subseteq BitsOf(accepted, n - Generation + 1, n)
    BY <2>1 DEF BitsOf
  <2> QED
    BY <1>1, <2>1, <2>2 DEF Duplicate, Contains, Generations, Filters
<1> QED
  BY <1>1, <1>2, <1>3

LEMMA AddReplay ==
  ASSUME CacheTypeOK, Generations, ReplayFar, NEW s \in Salts, ~Duplicate(s), Add(s)
  PROVE  ReplayFar'
<1> USE CacheAssumption
<1> DEFINE len == Len(accepted)
<1>1. /\ len \in Nat /\ DOMAIN accepted = 1 .. len /\ DOMAIN accepted' = 1 .. len + 1
      /\ accepted'[len + 1] = s
      /\ \A i \in 1 .. len : accepted'[i] = accepted[i]
  BY DEF Add, CacheTypeOK
<1> SUFFICES ASSUME NEW i \in 1 .. len + 1, NEW j \in 1 .. len + 1, i < j,
                    accepted'[i] = accepted'[j]
             PROVE  j - i > Generation
  BY <1>1 DEF ReplayFar
<1>2. CASE j <= len
  BY <1>1, <1>2 DEF ReplayFar
<1>3. CASE j = len + 1
  <2>1. i \in 1 .. len /\ accepted[i] = s
    BY <1>1, <1>3
  <2>2. ~(len - i < Generation)
    BY <2>1, RecentKnown
  <2> QED
    BY <1>1, <1>3, <2>1, <2>2
<1> QED
  BY <1>1, <1>2, <1>3

LEMMA RefusedFromGenerations ==
  ASSUME CacheTypeOK, Generations
  PROVE  RefusedForRecent
<1> USE CacheAssumption
<1> DEFINE n == Len(accepted) - counts[current]
<1>1. /\ current \in {0, 1} /\ counts[current] \in 0 .. Generation - 1 /\ Len(accepted) \in Nat
      /\ n = 0 \/ n >= Generation
      /\ DOMAIN accepted = 1 .. Len(accepted)
  BY DEF CacheTypeOK, Filters, Generations
<1> SUFFICES ASSUME NEW s \in Salts, Duplicate(s), NEW b \in Bits[s]
             PROVE  \E i \in DOMAIN accepted :
                      Len(accepted) - i < Generation + counts[current] /\ b \in Bits[accepted[i]]
  BY DEF RefusedForRecent
<1>2. b \in filters[current] \/ b \in filters[1 - current]
  BY <1>1 DEF Duplicate, Contains, Filters
<1>3. CASE b \in filters[current]
  <2>1. PICK i \in n + 1 .. Len(accepted) : b \in Bits[accepted[i]]
    BY <1>3 DEF Generations, BitsOf
  <2>2. i \in 1 .. Len(accepted) /\ Len(accepted) - i < counts[current]
    BY <1>1, <2>1
  <2>3. Len(accepted) - i < Generation + counts[current]
    BY <1>1, <2>2
  <2> QED
    BY <1>1, <2>1, <2>2, <2>3
<1>4. CASE b \in filters[1 - current]
  <2>1. n # 0 /\ b \in BitsOf(accepted, n - Generation + 1, n)
    BY <1>4 DEF Generations
  <2>2. PICK i \in n - Generation + 1 .. n : b \in Bits[accepted[i]]
    BY <2>1 DEF BitsOf
  <2>3. i \in 1 .. Len(accepted) /\ Len(accepted) - i < Generation + counts[current]
    BY <1>1, <2>1, <2>2
  <2> QED
    BY <1>1, <2>2, <2>3
<1> QED
  BY <1>2, <1>3, <1>4

-----------------------------------------------------------------------------
\* Types.

\* What UpdateUsers has built when it is through is the map of its arguments.
LEMMA BuiltWhole ==
  ASSUME UserTypeOK, UsersWhole, updating # << >>, index = Len(updating) + 1
  PROVE  MapOf(updating) = userMap
<1>1. updating \in Seq(Users \X (Keys \cup {BadKey}))
  BY ServiceAssumption DEF UserTypeOK
<1>2. DOMAIN updating = 1 .. Len(updating) /\ 1 .. index - 1 = DOMAIN updating
  BY <1>1
<1>3. DOMAIN userMap = {updating[i][2] : i \in DOMAIN updating}
  BY <1>2 DEF UsersWhole
<1>4. ASSUME NEW k \in DOMAIN userMap
      PROVE  updating[CHOOSE i \in DOMAIN updating : updating[i][2] = k][1] = userMap[k]
  <2> DEFINE j == CHOOSE i \in DOMAIN updating : updating[i][2] = k
  <2>1. \E i \in DOMAIN updating : updating[i][2] = k
    BY <1>3
  <2>2. j \in DOMAIN updating /\ updating[j][2] = k
    BY <2>1
  <2> QED
    BY <1>2, <2>2 DEF UsersWhole
<1>5. userMap = [k \in DOMAIN userMap |-> userMap[k]]
  BY DEF UserTypeOK, UserMaps
<1> QED
  BY <1>3, <1>4, <1>5 DEF MapOf

LEMMA UpdateTypes ==
  ASSUME UserTypeOK, UsersWhole, BeginUpdate \/ AddUser \/ StoreUsers
  PROVE  UserTypeOK'
<1> USE ServiceAssumption, NoUsersMap DEF UserTypeOK
<1>1. CASE BeginUpdate
  BY <1>1 DEF BeginUpdate
<1>2. CASE AddUser
  <2> DEFINE entry == updating[index]
             good == entry[2] \in Keys /\ entry[2] \notin DOMAIN userMap
  <2>1. CASE ~good
    <3>1. userMap' = NoUsers /\ updating' = << >> /\ index' = 1
      BY <1>2, <2>1 DEF AddUser
    <3> QED
      BY <1>2, <3>1 DEF AddUser
  <2>2. CASE good
    <3>1. updating \in Seq(Users \X (Keys \cup {BadKey}))
      BY <1>2 DEF AddUser
    <3>2. entry[1] \in Users /\ entry[2] \in Keys
      BY <1>2, <2>2, <3>1 DEF AddUser
    <3>3. PICK ks \in SUBSET Keys : userMap \in [ks -> Users]
      BY DEF UserMaps
    <3>4. /\ userMap' = [k \in ks \cup {entry[2]} |-> IF k = entry[2] THEN entry[1] ELSE userMap[k]]
          /\ index' = index + 1 /\ updating' = updating
      BY <1>2, <2>2, <3>3 DEF AddUser
    <3>5. userMap' \in [ks \cup {entry[2]} -> Users]
      BY <3>2, <3>3, <3>4
    <3>6. ks \cup {entry[2]} \in SUBSET Keys
      BY <3>2, <3>3
    <3>7. userMap' \in UserMaps
      BY <3>5, <3>6 DEF UserMaps
    <3> QED
      BY <1>2, <3>4, <3>7 DEF AddUser
  <2> QED
    BY <2>1, <2>2
<1>3. CASE StoreUsers
  <2>1. MapOf(updating) = userMap
    BY <1>3, BuiltWhole DEF StoreUsers
  <2> QED
    BY <1>3, <2>1 DEF StoreUsers
<1> QED
  BY <1>1, <1>2, <1>3

LEMMA FailTypes ==
  ASSUME ConnTypeOK, NEW c \in Conns, Fail(c)
  PROVE  /\ at' \in [Conns -> Pcs]
         /\ open' \in [Conns -> BOOLEAN] /\ onClosed' \in [Conns -> BOOLEAN]
         /\ UNCHANGED <<atEOF, owner>>
BY DEF ConnTypeOK, Fail, Go, Pcs

LEMMA RequestTypes ==
  ASSUME ConnTypeOK, UserTypeOK, published # << >>, NEW c \in Conns, NewRequest(c)
  PROVE  /\ request' \in [Conns -> Requests \cup {Nobody}] /\ requests' \in [Conns -> Nat]
         /\ user' \in [Conns -> Users \cup {Nobody}] /\ since' \in [Conns -> Nat \ {0}]
<1>1. Len(published) \in Nat \ {0}
  BY DEF UserTypeOK
<1> QED
  BY <1>1 DEF ConnTypeOK, NewRequest

LEMMA ConnTypes ==
  ASSUME UserTypeOK, ConnTypeOK, UsersWhole, NEW c \in Conns, NewConnection(c)
  PROVE  ConnTypeOK'
<1> USE DEF Go, endVars, requestVars
<1>1. CASE ReadFirst(c)
  <2>1. CASE /\ NewRequest(c) /\ Go(c, IF version = 5 THEN "check" ELSE "decode")
             /\ UNCHANGED <<serving, endVars>>
    <3>1. at' \in [Conns -> Pcs] /\ UNCHANGED <<mutex, salt, serving, endVars>>
      BY <1>1, <2>1 DEF ReadFirst, ConnTypeOK, Pcs
    <3> QED
      BY <3>1, <2>1, RequestTypes DEF ConnTypeOK, UsersWhole
  <2>2. CASE Fail(c) /\ UNCHANGED requestVars
    BY <1>1, <2>2, FailTypes DEF ReadFirst, ConnTypeOK
  <2> QED
    BY <1>1, <2>1, <2>2 DEF ReadFirst
<1>2. CASE Check(c)
  <2> PICK s \in Salts : IF Duplicate(s) THEN Fail(c) /\ UNCHANGED <<salt, mutex>>
                         ELSE /\ Go(c, "add") /\ salt' = [salt EXCEPT ![c] = s] /\ mutex' = c
                              /\ UNCHANGED endVars
    BY <1>2 DEF Check
  <2>1. CASE Duplicate(s)
    BY <1>2, <2>1, FailTypes DEF Check, ConnTypeOK
  <2>2. CASE ~Duplicate(s)
    <3>1. /\ at' \in [Conns -> Pcs] /\ salt' \in [Conns -> Salts \cup {Nobody}]
          /\ mutex' \in Conns \cup {Nobody} /\ UNCHANGED endVars
      BY <2>2 DEF ConnTypeOK, Pcs
    <3> QED
      BY <1>2, <3>1 DEF Check, ConnTypeOK
  <2> QED
    BY <2>1, <2>2
<1>3. CASE Remember(c)
  BY <1>3 DEF Remember, ConnTypeOK, Pcs
<1>4. CASE Decode(c)
  <2>1. CASE Fail(c) /\ UNCHANGED serving
    BY <1>4, <2>1, FailTypes DEF Decode, ConnTypeOK
  <2>2. CASE ~(Fail(c) /\ UNCHANGED serving)
    <3>1. /\ at' \in [Conns -> Pcs] /\ serving' \in [Conns -> BOOLEAN] /\ UNCHANGED endVars
      BY <1>4, <2>2, ZenonT(40) DEF Decode, ConnTypeOK, Pcs
    <3>2. mutex' = mutex /\ salt' = salt /\ request' = request /\ requests' = requests
          /\ user' = user /\ since' = since
      BY <1>4 DEF Decode
    <3> QED
      BY <3>1, <3>2 DEF ConnTypeOK
  <2> QED
    BY <2>1, <2>2
<1>5. CASE Authenticate(c)
  <2>1. ASSUME request[c].key \in DOMAIN users PROVE users[request[c].key] \in Users
    BY <2>1 DEF UserTypeOK, UserMaps
  <2>2. CASE request[c].key \in DOMAIN users
    BY <1>5, <2>1, <2>2 DEF Authenticate, ConnTypeOK, Pcs
  <2>3. CASE request[c].key \notin DOMAIN users
    BY <1>5, <2>3, FailTypes DEF Authenticate, ConnTypeOK
  <2> QED
    BY <2>2, <2>3
<1>6. CASE HandOver(c)
  BY <1>6 DEF HandOver, ConnTypeOK, Pcs
<1>7. CASE StartPackets(c)
  <2>1. CASE Fail(c)
    BY <1>7, <2>1, FailTypes DEF StartPackets, ConnTypeOK
  <2>2. CASE ~Fail(c)
    <3>1. /\ at' \in [Conns -> Pcs] /\ open' \in [Conns -> BOOLEAN]
          /\ onClosed' \in [Conns -> BOOLEAN] /\ UNCHANGED <<atEOF, owner>>
      BY <1>7, <2>2, ZenonT(40) DEF StartPackets, ConnTypeOK, Pcs
    <3>2. mutex' = mutex /\ salt' = salt /\ request' = request /\ requests' = requests
          /\ serving' = serving /\ user' = user /\ since' = since
      BY <1>7 DEF StartPackets, requestVars
    <3> QED
      BY <3>1, <3>2 DEF ConnTypeOK
  <2> QED
    BY <2>1, <2>2
<1>8. CASE FirstPacket(c)
  <2>1. CASE Fail(c)
    BY <1>8, <2>1, FailTypes DEF FirstPacket, ConnTypeOK
  <2>2. CASE ~Fail(c)
    BY <1>8, <2>2 DEF FirstPacket, ConnTypeOK, Pcs
  <2> QED
    BY <2>1, <2>2
<1>9. CASE Pong(c)
  BY <1>9 DEF Pong, ConnTypeOK, Pcs
<1>10. CASE ServeHandler(c)
  <2>1. CASE Fail(c)
    BY <1>10, <2>1, FailTypes DEF ServeHandler, ConnTypeOK
  <2>2. CASE ~Fail(c)
    <3>1. /\ at' \in [Conns -> Pcs] /\ open' \in [Conns -> BOOLEAN]
          /\ onClosed' \in [Conns -> BOOLEAN] /\ UNCHANGED <<atEOF, owner>>
      BY <1>10, <2>2 DEF ServeHandler, ConnTypeOK, Pcs
    <3> QED
      BY <1>10, <3>1 DEF ServeHandler, ConnTypeOK
  <2> QED
    BY <2>1, <2>2
<1>11. CASE ReadNext(c)
  <2>1. CASE NewRequest(c) /\ Go(c, "decode") /\ UNCHANGED <<serving, endVars>>
    <3>1. at' \in [Conns -> Pcs]
      BY <2>1 DEF ConnTypeOK, Pcs
    <3> QED
      BY <1>11, <2>1, <3>1, RequestTypes DEF ReadNext, ConnTypeOK, UsersWhole
  <2>2. CASE Fail(c) /\ UNCHANGED requestVars
    BY <1>11, <2>2, FailTypes DEF ReadNext, ConnTypeOK
  <2>3. CASE /\ Go(c, "nil") /\ atEOF' = [atEOF EXCEPT ![c] = TRUE]
             /\ onClosed' = [onClosed EXCEPT ![c] = TRUE] /\ UNCHANGED <<requestVars, open, owner>>
    BY <1>11, <2>3 DEF ReadNext, ConnTypeOK, Pcs
  <2> QED
    BY <1>11, <2>1, <2>2, <2>3 DEF ReadNext
<1>12. CASE AcceptNext(c)
  BY <1>12 DEF AcceptNext, ConnTypeOK, Pcs
<1> QED
  BY <1>1, <1>2, <1>3, <1>4, <1>5, <1>6, <1>7, <1>8, <1>9, <1>10, <1>11, <1>12 DEF NewConnection

-----------------------------------------------------------------------------
\* Steps of a connection.

\* A step of one connection leaves the others and the users alone.
LEMMA Frame ==
  ASSUME ConnTypeOK, NEW c \in Conns, NewConnection(c), NEW d \in Conns, d # c
  PROVE  /\ at'[d] = at[d] /\ request'[d] = request[d] /\ user'[d] = user[d]
         /\ since'[d] = since[d] /\ serving'[d] = serving[d]
         /\ open'[d] = open[d] /\ atEOF'[d] = atEOF[d]
         /\ onClosed'[d] = onClosed[d] /\ owner'[d] = owner[d]
<1> USE DEF ConnTypeOK, Go, Fail, endVars, requestVars
<1>1. CASE ReadFirst(c)
  BY <1>1 DEF ReadFirst, NewRequest
<1>2. CASE Check(c)
  BY <1>2 DEF Check
<1>3. CASE Remember(c) \/ Decode(c) \/ Authenticate(c)
  BY <1>3 DEF Remember, Decode, Authenticate
<1>4. CASE HandOver(c) \/ StartPackets(c) \/ FirstPacket(c) \/ Pong(c)
  BY <1>4 DEF HandOver, StartPackets, FirstPacket, Pong
<1>5. CASE ServeHandler(c) \/ ReadNext(c)
  BY <1>5 DEF ServeHandler, ReadNext, NewRequest
<1>6. CASE AcceptNext(c)
  BY <1>6 DEF AcceptNext
<1> QED
  BY <1>1, <1>2, <1>3, <1>4, <1>5, <1>6 DEF NewConnection

LEMMA UsersStill ==
  ASSUME NEW c \in Conns, NewConnection(c)
  PROVE  UNCHANGED <<userVars, multi, version>>
BY DEF NewConnection, ReadFirst, Check, Remember, Decode, Authenticate, HandOver, StartPackets,
       FirstPacket, Pong, ServeHandler, ReadNext, AcceptNext

\* Only CheckAndAdd has to do with the cache and its mutex.
LEMMA CacheStill ==
  ASSUME ConnTypeOK, NEW c \in Conns, NewConnection(c), ~Check(c), ~Remember(c)
  PROVE  UNCHANGED <<cacheVars, mutex, salt>> /\ at'[c] # "add"
<1> USE DEF ConnTypeOK, Go, Fail
<1>1. CASE ReadFirst(c) \/ Decode(c) \/ Authenticate(c)
  BY <1>1 DEF ReadFirst, Decode, Authenticate
<1>2. CASE HandOver(c) \/ StartPackets(c) \/ FirstPacket(c) \/ Pong(c)
  BY <1>2 DEF HandOver, StartPackets, FirstPacket, Pong
<1>3. CASE ServeHandler(c) \/ ReadNext(c) \/ AcceptNext(c)
  BY <1>3 DEF ServeHandler, ReadNext, AcceptNext
<1> QED
  BY <1>1, <1>2, <1>3 DEF NewConnection

LEMMA CacheStep ==
  ASSUME TypeOK, Generations, Exclusive, ReplayFar, NEW c \in Conns, NewConnection(c)
  PROVE  Generations' /\ Exclusive' /\ ReplayFar'
<1> USE ServiceAssumption
<1>1. \A d \in Conns \ {c} : at'[d] = at[d]
  BY Frame DEF TypeOK
<1>2. CASE Check(c)
  <2>1. UNCHANGED cacheVars /\ mutex = Nobody
    BY <1>2 DEF Check
  <2>2. \A d \in Conns : at[d] # "add"
    BY <2>1 DEF Exclusive
  <2>3. at'[c] = "add" => mutex' = c /\ salt'[c] \in Salts /\ ~Duplicate(salt'[c])
    BY <1>2 DEF Check, Fail, Go, TypeOK, ConnTypeOK
  <2>4. \A s : Duplicate(s)' = Duplicate(s)
    BY <2>1 DEF Duplicate, Contains, cacheVars
  <2> QED
    BY <1>1, <2>1, <2>2, <2>3, <2>4 DEF Exclusive, Generations, ReplayFar, cacheVars, BitsOf
<1>3. CASE Remember(c)
  <2>1. at[c] = "add" /\ mutex = c /\ salt[c] \in Salts /\ ~Duplicate(salt[c]) /\ Add(salt[c])
    BY <1>3 DEF Remember, Exclusive
  <2>2. \A d \in Conns : at'[d] # "add"
    BY <1>1, <1>3, <2>1 DEF Exclusive, Remember, Go, TypeOK, ConnTypeOK
  <2>3. Generations' /\ ReplayFar'
    BY <2>1, AddGenerations, AddReplay DEF TypeOK
  <2> QED
    BY <2>2, <2>3 DEF Exclusive
<1>4. CASE ~Check(c) /\ ~Remember(c)
  <2>1. UNCHANGED <<cacheVars, mutex, salt>> /\ at'[c] # "add"
    BY <1>4, CacheStill DEF TypeOK
  <2>2. \A s : Duplicate(s)' = Duplicate(s)
    BY <2>1 DEF Duplicate, Contains, cacheVars
  <2> QED
    BY <1>1, <2>1, <2>2 DEF Exclusive, Generations, ReplayFar, cacheVars, BitsOf
<1> QED
  BY <1>2, <1>3, <1>4

\* What holds of one connection.
OwnOf(c) ==
  /\ since[c] <= Len(published)
  /\ at[c] \notin {"nil", "error"} => open[c] /\ ~atEOF[c] /\ ~onClosed[c] /\ ~owner[c]
  /\ at[c] = "error" => ~owner[c]
  /\ at[c] = "nil" => owner[c] # (~open[c] \/ atEOF[c])
  /\ at[c] \in {"nil", "error"} /\ serving[c] => owner[c] # onClosed[c]
  /\ at[c] = "next" => serving[c]
UserOf(c) ==
  multi /\ (at[c] \in {"dispatch", "packet"} \/ owner[c]) =>
    \E i \in since[c] .. Len(published) :
      LET map == published[i] IN request[c].key \in DOMAIN map /\ user[c] = map[request[c].key]

LEMMA OwnStep ==
  ASSUME TypeOK, UsersWhole, NEW c \in Conns, OwnOf(c), NewConnection(c)
  PROVE  OwnOf(c)'
<1> USE DEF OwnOf, TypeOK, ConnTypeOK, Go, Fail, endVars, requestVars
<1>1. published' = published /\ Len(published) \in Nat \ {0}
  BY UsersStill DEF userVars, UsersWhole, UserTypeOK
<1>2. CASE ReadFirst(c)
  BY <1>1, <1>2 DEF ReadFirst, NewRequest
<1>3. CASE Check(c) \/ Remember(c)
  BY <1>1, <1>3 DEF Check, Remember
<1>4. CASE Decode(c) \/ Authenticate(c)
  BY <1>1, <1>4 DEF Decode, Authenticate
<1>5. CASE HandOver(c) \/ StartPackets(c)
  BY <1>1, <1>5 DEF HandOver, StartPackets
<1>6. CASE FirstPacket(c) \/ Pong(c)
  BY <1>1, <1>6 DEF FirstPacket, Pong
<1>7. CASE ServeHandler(c)
  BY <1>1, <1>7 DEF ServeHandler
<1>8. CASE ReadNext(c)
  <2>1. CASE Go(c, "decode") /\ NewRequest(c) /\ UNCHANGED <<serving, endVars>>
    BY <1>1, <1>8, <2>1 DEF ReadNext, NewRequest
  <2>2. CASE Go(c, "nil") /\ ~Fail(c)
    BY <1>1, <1>8, <2>2 DEF ReadNext, NewRequest
  <2>3. CASE Fail(c) /\ UNCHANGED requestVars
    BY <1>1, <1>8, <2>3 DEF ReadNext
  <2> QED
    BY <1>8, <2>1, <2>2, <2>3 DEF ReadNext
<1>9. CASE AcceptNext(c)
  BY <1>1, <1>9 DEF AcceptNext
<1> QED
  BY <1>2, <1>3, <1>4, <1>5, <1>6, <1>7, <1>8, <1>9 DEF NewConnection

LEMMA UserStep ==
  ASSUME TypeOK, UsersWhole, NEW c \in Conns, OwnOf(c), UserOf(c), NewConnection(c)
  PROVE  UserOf(c)'
<1> USE DEF UserOf, OwnOf, TypeOK, ConnTypeOK, Go, Fail, endVars, requestVars
<1>1. published' = published /\ multi' = multi /\ Len(published) \in Nat \ {0}
  BY UsersStill DEF userVars, UsersWhole, UserTypeOK
<1>2. CASE ReadFirst(c)
  BY <1>1, <1>2 DEF ReadFirst, NewRequest
<1>3. CASE Check(c) \/ Remember(c)
  BY <1>1, <1>3 DEF Check, Remember
<1>4. CASE Decode(c)
  BY <1>1, <1>4 DEF Decode
<1>5. CASE Authenticate(c)
  <2>1. CASE request[c].key \in DOMAIN users
    <3>1. /\ Len(published) \in since'[c] .. Len(published)
          /\ request'[c].key \in DOMAIN published[Len(published)]
          /\ user'[c] = published[Len(published)][request'[c].key]
      BY <1>1, <1>5, <2>1 DEF Authenticate, UsersWhole
    <3> QED
      BY <1>1, <3>1
  <2>2. CASE request[c].key \notin DOMAIN users
    BY <1>1, <1>5, <2>2 DEF Authenticate
  <2> QED
    BY <2>1, <2>2
<1>6. CASE HandOver(c) \/ StartPackets(c)
  BY <1>1, <1>6, ZenonT(40) DEF HandOver, StartPackets
<1>7. CASE FirstPacket(c) \/ Pong(c)
  BY <1>1, <1>7 DEF FirstPacket, Pong
<1>8. CASE ServeHandler(c)
  BY <1>1, <1>8 DEF ServeHandler
<1>9. CASE ReadNext(c)
  <2>1. at'[c] \notin {"dispatch", "packet"} /\ ~owner'[c]
    BY <1>9 DEF ReadNext, NewRequest
  <2> QED
    BY <2>1
<1>10. CASE AcceptNext(c)
  <2>1. at'[c] = "read" /\ ~owner'[c]
    BY <1>10 DEF AcceptNext
  <2> QED
    BY <2>1
<1> QED
  BY <1>2, <1>3, <1>4, <1>5, <1>6, <1>7, <1>8, <1>9, <1>10 DEF NewConnection

-----------------------------------------------------------------------------
\* Steps of UpdateUsers.

LEMMA UpdateWhole ==
  ASSUME UserTypeOK, UsersWhole, BeginUpdate \/ AddUser \/ StoreUsers
  PROVE  UsersWhole'
<1> USE ServiceAssumption DEF UserTypeOK, UsersWhole
<1>1. CASE BeginUpdate
  <2>1. index' = 1 /\ userMap' = NoUsers /\ updating' \in Seq(Users \X (Keys \cup {BadKey}))
        /\ UNCHANGED <<users, published>>
    BY <1>1 DEF BeginUpdate
  <2>2. DOMAIN userMap' = {} /\ 1 .. index' - 1 = {}
    BY <2>1 DEF NoUsers
  <2> QED
    BY <2>1, <2>2
<1>2. CASE AddUser
  <2> DEFINE entry == updating[index]
             good == entry[2] \in Keys /\ entry[2] \notin DOMAIN userMap
  <2>1. CASE ~good
    <3>1. userMap' = NoUsers /\ updating' = << >> /\ index' = 1 /\ UNCHANGED <<users, published>>
      BY <1>2, <2>1 DEF AddUser
    <3>2. DOMAIN userMap' = {} /\ 1 .. index' - 1 = {}
      BY <3>1 DEF NoUsers
    <3> QED
      BY <3>1, <3>2
  <2>2. CASE good
    <3>1. /\ userMap' = [k \in DOMAIN userMap \cup {entry[2]} |->
                           IF k = entry[2] THEN entry[1] ELSE userMap[k]]
          /\ index' = index + 1 /\ updating' = updating /\ UNCHANGED <<users, published>>
      BY <1>2, <2>2 DEF AddUser
    <3>2. updating \in Seq(Users \X (Keys \cup {BadKey})) /\ index \in 1 .. Len(updating)
      BY <1>2 DEF AddUser
    <3>3. \A i : i \in 1 .. index' - 1 <=> i \in 1 .. index - 1 \/ i = index
      BY <3>1, <3>2
    <3>4. DOMAIN userMap' = {updating[i][2] : i \in 1 .. index' - 1}
      BY <3>1, <3>3
    <3>5. \A i \in 1 .. index - 1 : updating[i][2] \in DOMAIN userMap
      OBVIOUS
    <3>6. \A i \in 1 .. index' - 1 : userMap'[updating[i][2]] = updating[i][1]
      BY <2>2, <3>1, <3>3, <3>5
    <3>7. published' # << >> /\ users' = published'[Len(published')]
      BY <3>1
    <3>8. index' <= Len(updating') + 1
      BY <3>1, <3>2
    <3>9. DOMAIN userMap' = {updating'[i][2] : i \in 1 .. index' - 1}
      BY <3>1, <3>4
    <3>10. \A i \in 1 .. index' - 1 : userMap'[updating'[i][2]] = updating'[i][1]
      BY <3>1, <3>6
    <3> HIDE DEF UserTypeOK
    <3> QED
      BY <3>7, <3>8, <3>9, <3>10
  <2> QED
    BY <2>1, <2>2
<1>3. CASE StoreUsers
  <2>1. users' = userMap /\ published' = Append(published, userMap)
    BY <1>3, BuiltWhole DEF StoreUsers
  <2>2. published' # << >> /\ users' = published'[Len(published')]
    BY <2>1
  <2>3. index' = 1 /\ userMap' = NoUsers /\ updating' = << >>
    BY <1>3 DEF StoreUsers
  <2>4. DOMAIN userMap' = {} /\ 1 .. index' - 1 = {}
    BY <2>3 DEF NoUsers
  <2> QED
    BY <2>2, <2>3, <2>4
<1> QED
  BY <1>1, <1>2, <1>3

\* The maps only grow by one more, so what a connection knows of them stays true.
LEMMA UpdateKeeps ==
  ASSUME TypeOK, UsersWhole, UpdateUsers, NEW c \in Conns, OwnOf(c), UserOf(c)
  PROVE  OwnOf(c)' /\ UserOf(c)'
<1>1. /\ Len(published') >= Len(published) /\ Len(published) \in Nat /\ Len(published') \in Nat
      /\ \A i \in 1 .. Len(published) : published'[i] = published[i]
  BY DEF UpdateUsers, BeginUpdate, AddUser, StoreUsers, TypeOK, UserTypeOK
<1>2. UNCHANGED <<multi, connVars>> /\ since[c] \in Nat \ {0}
  BY DEF UpdateUsers, TypeOK, ConnTypeOK
<1>3. OwnOf(c)'
  BY <1>1, <1>2 DEF OwnOf, connVars, requestVars, endVars
<1>4. UserOf(c)'
  <2> SUFFICES ASSUME multi, at[c] \in {"dispatch", "packet"} \/ owner[c]
               PROVE  \E i \in since[c] .. Len(published') :
                        LET map == published'[i] IN
                          request[c].key \in DOMAIN map /\ user[c] = map[request[c].key]
    BY <1>2 DEF UserOf, connVars, requestVars, endVars
  <2>1. PICK i \in since[c] .. Len(published) :
          LET map == published[i] IN request[c].key \in DOMAIN map /\ user[c] = map[request[c].key]
    BY DEF UserOf
  <2>2. i \in since[c] .. Len(published') /\ published'[i] = published[i]
    BY <1>1, <1>2, <2>1
  <2> QED
    BY <2>1, <2>2
<1> QED
  BY <1>3, <1>4

-----------------------------------------------------------------------------
\* The invariant.

LEMMA InvInit == Init => ServiceInv
<1> SUFFICES ASSUME Init PROVE ServiceInv OBVIOUS
<1>1. TypeOK
  BY TypeInit
<1>2. Generations /\ ReplayFar
  <2>1. accepted = << >> /\ current = 0 /\ counts = [g \in {0, 1} |-> 0]
        /\ filters = [g \in {0, 1} |-> {}] /\ Len(accepted) = 0
    BY DEF Init, CacheInit, Filters
  <2>2. BitsOf(accepted, 0 + 1, 0) = {}
    BY DEF BitsOf
  <2> QED
    BY <2>1, <2>2 DEF Generations, ReplayFar
<1>3. Exclusive
  BY DEF Init, Exclusive
<1>4. UsersWhole
  <2>1. DOMAIN userMap = {} /\ 1 .. index - 1 = {}
    BY DEF Init, NoUsers
  <2> QED
    BY <2>1 DEF UsersWhole, Init
<1>5. OwnUntilDone /\ UserCurrent /\ OneOwner
  BY DEF Init, OwnUntilDone, UserCurrent, OneOwner
<1> QED
  BY <1>1, <1>2, <1>3, <1>4, <1>5 DEF ServiceInv

LEMMA ByConnection ==
  OwnUntilDone /\ OneOwner /\ UserCurrent <=> \A c \in Conns : OwnOf(c) /\ UserOf(c)
BY DEF OwnUntilDone, OneOwner, UserCurrent, OwnOf, UserOf

LEMMA InvStep == ServiceInv /\ [Next]_vars => ServiceInv'
<1> SUFFICES ASSUME ServiceInv, [Next]_vars PROVE ServiceInv' OBVIOUS
<1> USE DEF ServiceInv
<1>1. \A c \in Conns : OwnOf(c) /\ UserOf(c)
  BY ByConnection
<1>2. CASE UpdateUsers
  <2>1. TypeOK'
    <3>1. UserTypeOK'
      BY <1>2, UpdateTypes DEF UpdateUsers, TypeOK
    <3> QED
      BY <1>2, <3>1 DEF UpdateUsers, TypeOK, CacheTypeOK, ConnTypeOK, cacheVars, connVars,
                        requestVars, endVars
  <2>2. UsersWhole'
    BY <1>2, UpdateWhole DEF UpdateUsers, TypeOK
  <2>3. Generations' /\ Exclusive' /\ ReplayFar'
    BY <1>2 DEF UpdateUsers, Generations, Exclusive, ReplayFar, BitsOf, Duplicate, Contains,
                cacheVars, connVars
  <2>4. \A c \in Conns : OwnOf(c)' /\ UserOf(c)'
    BY <1>1, <1>2, UpdateKeeps
  <2> QED
    BY <2>1, <2>2, <2>3, <2>4 DEF OwnUntilDone, OneOwner, UserCurrent, OwnOf, UserOf
<1>3. ASSUME NEW c \in Conns, NewConnection(c) PROVE ServiceInv'
  <2>1. TypeOK'
    <3>1. ConnTypeOK'
      BY <1>3, ConnTypes DEF TypeOK
    <3>2. UNCHANGED <<userVars, multi, version>>
      BY <1>3, UsersStill
    <3>3. CacheTypeOK'
      <4>1. CASE Remember(c)
        BY <4>1, AddTypes DEF Remember, Exclusive, TypeOK
      <4>2. CASE ~Remember(c)
        <5>1. UNCHANGED cacheVars
          BY <1>3, <4>2, CacheStill DEF Check, TypeOK
        <5> QED
          BY <5>1 DEF cacheVars, CacheTypeOK, TypeOK
      <4> QED
        BY <4>1, <4>2
    <3> QED
      BY <3>1, <3>2, <3>3 DEF TypeOK, UserTypeOK, userVars
  <2>2. UsersWhole'
    BY <1>3, UsersStill DEF UsersWhole, userVars
  <2>3. Generations' /\ Exclusive' /\ ReplayFar'
    BY <1>3, CacheStep
  <2>4. ASSUME NEW d \in Conns PROVE OwnOf(d)' /\ UserOf(d)'
    <3>1. CASE d = c
      BY <1>1, <1>3, <3>1, OwnStep, UserStep
    <3>2. CASE d # c
      <4>1. UNCHANGED <<userVars, multi>>
        BY <1>3, UsersStill
      <4> QED
        BY <1>1, <1>3, <3>2, <4>1, Frame DEF OwnOf, UserOf, userVars, TypeOK
    <3> QED
      BY <3>1, <3>2
  <2> QED
    BY <2>1, <2>2, <2>3, <2>4 DEF OwnUntilDone, OneOwner, UserCurrent, OwnOf, UserOf
<1>4. CASE UNCHANGED vars
  BY <1>4 DEF vars, TypeOK, CacheTypeOK, UserTypeOK, ConnTypeOK, Generations, Exclusive, ReplayFar,
              UsersWhole, OwnUntilDone, UserCurrent, OneOwner, BitsOf, Duplicate, Contains,
              cacheVars, userVars, connVars, requestVars, endVars
<1> QED
  BY <1>2, <1>3, <1>4 DEF Next

\* What every state of a service satisfies.
THEOREM ServiceCorrect == Spec => []ServiceInv
<1> QED
  BY InvInit, InvStep, PTL DEF Spec

\* No salt passes twice with fewer than Generation others in between, whatever the
\* interleaving of connections and the collisions of the hash.
THEOREM NoReplay == Spec => []ReplayFar
<1>1. ServiceInv => ReplayFar
  BY DEF ServiceInv
<1> QED
  BY <1>1, ServiceCorrect, PTL

\* A salt is refused only for the salts of the last two generations.
THEOREM CacheForgets == Spec => []RefusedForRecent
<1>1. ServiceInv => RefusedForRecent
  BY RefusedFromGenerations DEF ServiceInv, TypeOK
<1> QED
  BY <1>1, ServiceCorrect, PTL

\* Whoever is served is a user of a map that was current after the request was read.
THEOREM UsersAreCurrent == Spec => []UserCurrent
<1>1. ServiceInv => UserCurrent
  BY DEF ServiceInv
<1> QED
  BY <1>1, ServiceCorrect, PTL

\* A connection that newConnection has returned from is left to exactly one.
THEOREM ConnectionsOwned == Spec => []OneOwner
<1>1. ServiceInv => OneOwner
  BY DEF ServiceInv
<1> QED
  BY <1>1, ServiceCorrect, PTL
=============================================================================
