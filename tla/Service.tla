-------------------------------- MODULE Service --------------------------------
(***************************************************************************)
(* Service and MultiService of snellv5/server.go and snellv6/server.go.    *)
(* newConnection runs in one goroutine per TCP connection, up to what the  *)
(* connection is handed to; UpdateUsers runs in a goroutine of its own.    *)
(* They share the salt cache, under its mutex, and the map of users, which *)
(* no lock guards.  ReuseServer has the tunnel that Serve runs; here each  *)
(* of its requests is authenticated and served, and the next one read.     *)
(***************************************************************************)
EXTENDS SaltCache, FiniteSets

CONSTANTS
  Kinds,       \* the services: a version, and whether it is a MultiService
  Conns,       \* TCP connections at a time
  Nobody,      \* none of them, no user, no salt
  Keys,        \* client IDs that may be user keys
  BadKey,      \* one that may not: empty or too long
  Users,
  Updates,     \* what UpdateUsers is called with: sequences of a user and its key
  MaxUpdates,  \* bound: calls of UpdateUsers that succeed
  MaxRequests, \* bound: requests of a reused tunnel
  MaxAccepted  \* bound: salts that pass

ASSUME ServiceAssumption ==
  /\ Kinds \subseteq {5, 6} \X BOOLEAN
  /\ Nobody \notin Conns \cup Users \cup Salts /\ BadKey \notin Keys
  /\ \A u \in Updates : u # << >> /\ u \in Seq(Users \X (Keys \cup {BadKey}))
  /\ MaxUpdates \in Nat /\ MaxRequests \in Nat /\ MaxAccepted \in Nat

\* A ping has no client ID, and "bad" is a record that readRequest refuses.
Requests == [command : {"connect", "connectV2", "udp"}, key : Keys \cup {BadKey}]
            \cup [command : {"ping", "bad"}, key : {BadKey}]
UserMaps == UNION {[ks -> Users] : ks \in SUBSET Keys}
NoUsers == [k \in {} |-> Nobody]
MapOf(list) == [k \in {list[i][2] : i \in DOMAIN list} |->
                  list[CHOOSE i \in DOMAIN list : list[i][2] = k][1]]

VARIABLES
  version,   \* 5 or 6
  multi,     \* a MultiService
  users,     \* MultiService.users
  published, \* history: the maps that UpdateUsers was called with and returned nil
  updating,  \* the arguments of UpdateUsers while it runs, else << >>
  userMap,   \* UpdateUsers: the map it builds
  index      \* UpdateUsers: the entry it is at

userVars == <<users, published, updating, userMap, index>>

VARIABLES
  at,       \* where the goroutine of each connection is
  mutex,    \* the connection that holds saltReplayCache.access, or Nobody
  salt,     \* the salt that CheckAndAdd is given, or Nobody
  request,  \* the request being served
  requests, \* requests so far
  serving,  \* the goroutine is inside Serve
  open,     \* the service has not closed the TCP connection
  atEOF,    \* Serve has read the end of the TCP stream
  onClosed, \* Serve has run onClose
  owner,    \* the handler has been given the connection and its onClose
  user,     \* the user in the context of the request, or Nobody
  since     \* history: the map that was current when the request was read

endVars == <<open, atEOF, onClosed, owner>>
requestVars == <<request, requests, serving, user, since>>
connVars == <<at, mutex, salt, requestVars, endVars>>
vars == <<cacheVars, version, multi, userVars, connVars>>

Pcs == {"read", "check", "add", "decode", "authenticate", "dispatch", "packet", "pong", "next",
        "nil", "error"}

UserTypeOK ==
  /\ users \in UserMaps /\ userMap \in UserMaps /\ published \in Seq(UserMaps)
  /\ updating \in Updates \cup {<< >>} /\ index \in Nat \ {0}

ConnTypeOK ==
  /\ at \in [Conns -> Pcs]
  /\ mutex \in Conns \cup {Nobody} /\ salt \in [Conns -> Salts \cup {Nobody}]
  /\ request \in [Conns -> Requests \cup {Nobody}] /\ requests \in [Conns -> Nat]
  /\ serving \in [Conns -> BOOLEAN]
  /\ user \in [Conns -> Users \cup {Nobody}] /\ since \in [Conns -> Nat \ {0}]
  /\ open \in [Conns -> BOOLEAN] /\ atEOF \in [Conns -> BOOLEAN]
  /\ onClosed \in [Conns -> BOOLEAN] /\ owner \in [Conns -> BOOLEAN]

TypeOK ==
  /\ CacheTypeOK /\ UserTypeOK /\ ConnTypeOK
  /\ version \in {5, 6} /\ multi \in BOOLEAN

Init ==
  /\ CacheInit
  /\ version \in {5, 6} /\ multi \in BOOLEAN /\ <<version, multi>> \in Kinds
  /\ users = NoUsers /\ published = << NoUsers >>
  /\ updating = << >> /\ userMap = NoUsers /\ index = 1
  /\ at = [c \in Conns |-> "read"]
  /\ mutex = Nobody
  /\ salt = [c \in Conns |-> Nobody]
  /\ request = [c \in Conns |-> Nobody]
  /\ requests = [c \in Conns |-> 0] /\ serving = [c \in Conns |-> FALSE]
  /\ open = [c \in Conns |-> TRUE] /\ atEOF = [c \in Conns |-> FALSE]
  /\ onClosed = [c \in Conns |-> FALSE] /\ owner = [c \in Conns |-> FALSE]
  /\ user = [c \in Conns |-> Nobody] /\ since = [c \in Conns |-> 1]

Go(c, pc) == at' = [at EXCEPT ![c] = pc]

\* newConnection returns an error: the connection and onClose are its caller's.
\* Serve has closed the connection and run onClose by then.
Fail(c) ==
  /\ Go(c, "error")
  /\ open' = [open EXCEPT ![c] = @ /\ ~serving[c]]
  /\ onClosed' = [onClosed EXCEPT ![c] = serving[c]]
  /\ UNCHANGED <<atEOF, owner>>

\* A record has been read and is taken for a request.
NewRequest(c) ==
  /\ requests' = [requests EXCEPT ![c] = @ + 1]
  /\ user' = [user EXCEPT ![c] = Nobody]
  /\ since' = [since EXCEPT ![c] = Len(published)]
  /\ \E r \in Requests : request' = [request EXCEPT ![c] = r]

-----------------------------------------------------------------------------
\* UpdateUsers.

BeginUpdate ==
  /\ multi
  /\ updating = << >> /\ Len(published) <= MaxUpdates
  /\ updating' \in Updates
  /\ userMap' = NoUsers /\ index' = 1
  /\ UNCHANGED <<users, published>>

\* Mutant: the entries are added to the map that authenticate reads.
AddUserInPlace ==
  /\ index \in DOMAIN updating
  /\ LET entry == updating[index] IN
       IF entry[2] \notin Keys \/ entry[2] \in DOMAIN userMap
       THEN updating' = << >> /\ userMap' = NoUsers /\ index' = 1 /\ UNCHANGED users
       ELSE /\ userMap' = [k \in DOMAIN userMap \cup {entry[2]} |->
                             IF k = entry[2] THEN entry[1] ELSE userMap[k]]
            /\ users' = userMap'
            /\ index' = index + 1
            /\ UNCHANGED updating
  /\ UNCHANGED published

\* One entry: a bad or duplicate key ends the call with an error.
AddUser ==
  /\ index \in DOMAIN updating
  /\ LET entry == updating[index] IN
       IF entry[2] \notin Keys \/ entry[2] \in DOMAIN userMap
       THEN updating' = << >> /\ userMap' = NoUsers /\ index' = 1
       ELSE /\ userMap' = [k \in DOMAIN userMap \cup {entry[2]} |->
                             IF k = entry[2] THEN entry[1] ELSE userMap[k]]
            /\ index' = index + 1
            /\ UNCHANGED updating
  /\ UNCHANGED <<users, published>>

\* The map is stored once it is complete.
StoreUsers ==
  /\ updating # << >> /\ index = Len(updating) + 1
  /\ users' = userMap
  /\ published' = Append(published, MapOf(updating))
  /\ updating' = << >> /\ userMap' = NoUsers /\ index' = 1

UpdateUsers == (BeginUpdate \/ AddUser \/ StoreUsers)
               /\ UNCHANGED <<cacheVars, version, multi, connVars>>

-----------------------------------------------------------------------------
\* newConnection.

\* The salt and the first record, or an error; v6 does not look at the salt again.
ReadFirst(c) ==
  /\ at[c] = "read" /\ Len(accepted) < MaxAccepted
  /\ \/ /\ NewRequest(c)
        /\ Go(c, IF version = 5 THEN "check" ELSE "decode")
        /\ UNCHANGED <<serving, endVars>>
     \/ Fail(c) /\ UNCHANGED requestVars
  /\ UNCHANGED <<cacheVars, userVars, mutex, salt>>

\* Mutant: CheckAndAdd without its mutex.
CheckUnlocked(c) ==
  /\ at[c] = "check"
  /\ \E s \in Salts :
       IF Duplicate(s) THEN Fail(c) /\ UNCHANGED salt
       ELSE /\ Len(accepted) < MaxAccepted
            /\ Go(c, "add") /\ salt' = [salt EXCEPT ![c] = s]
            /\ UNCHANGED endVars
  /\ UNCHANGED <<cacheVars, userVars, requestVars, mutex>>

\* CheckAndAdd, for whatever salt the record came with, up to the Add.
Check(c) ==
  /\ at[c] = "check" /\ mutex = Nobody
  /\ \E s \in Salts :
       IF Duplicate(s) THEN Fail(c) /\ UNCHANGED <<salt, mutex>>
       ELSE /\ Len(accepted) < MaxAccepted
            /\ Go(c, "add") /\ salt' = [salt EXCEPT ![c] = s] /\ mutex' = c
            /\ UNCHANGED endVars
  /\ UNCHANGED <<cacheVars, userVars, requestVars>>

\* The rest of CheckAndAdd.
Remember(c) ==
  /\ at[c] = "add"
  /\ Add(salt[c])
  /\ mutex' = Nobody
  /\ salt' = [salt EXCEPT ![c] = Nobody]
  /\ Go(c, "decode")
  /\ UNCHANGED <<userVars, requestVars, endVars>>

\* Mutant: Serve authenticates the first request of a tunnel only.
DecodeTrustsTunnel(c) ==
  /\ at[c] = "decode"
  /\ LET command == request[c].command IN
       IF command = "bad" THEN Fail(c) /\ UNCHANGED serving
       ELSE /\ Go(c, IF command = "ping" THEN "pong"
                     ELSE IF multi /\ ~serving[c] THEN "authenticate" ELSE "dispatch")
            /\ serving' = [serving EXCEPT ![c] = @ \/ command = "connectV2"]
            /\ UNCHANGED endVars
  /\ user' = [user EXCEPT ![c] = IF multi /\ serving[c] THEN CHOOSE u \in Users : TRUE ELSE @]
  /\ UNCHANGED <<cacheVars, userVars, mutex, salt, request, requests, since>>

\* readRequest, and the switch on the command.
Decode(c) ==
  /\ at[c] = "decode"
  /\ LET command == request[c].command IN
       IF command = "bad" THEN Fail(c) /\ UNCHANGED serving
       ELSE /\ Go(c, IF command = "ping" THEN "pong"
                     ELSE IF multi THEN "authenticate" ELSE "dispatch")
            /\ serving' = [serving EXCEPT ![c] = @ \/ command = "connectV2"]
            /\ UNCHANGED endVars
  /\ UNCHANGED <<cacheVars, userVars, mutex, salt, request, requests, user, since>>

\* MultiService.authenticate looks the client ID up in the map of the moment.
Authenticate(c) ==
  /\ at[c] = "authenticate"
  /\ LET key == request[c].key IN
       IF key \in DOMAIN users
       THEN user' = [user EXCEPT ![c] = users[key]] /\ Go(c, "dispatch") /\ UNCHANGED endVars
       ELSE Fail(c) /\ UNCHANGED user
  /\ UNCHANGED <<cacheVars, userVars, mutex, salt, request, requests, serving, since>>

\* CommandConnect outside Serve: the handler has the connection.
HandOver(c) ==
  /\ at[c] = "dispatch" /\ ~serving[c] /\ request[c].command = "connect"
  /\ Go(c, "nil") /\ owner' = [owner EXCEPT ![c] = TRUE]
  /\ UNCHANGED <<cacheVars, userVars, mutex, salt, requestVars, open, atEOF, onClosed>>

\* CommandUDP.  v6 refuses a record that holds more than the request and closes
\* the connection.  The tunnel reply may fail.
StartPackets(c) ==
  /\ at[c] = "dispatch" /\ request[c].command = "udp"
  /\ \/ Go(c, "packet") /\ UNCHANGED endVars
     \/ Fail(c)
     \/ /\ version = 6
        /\ Go(c, "error") /\ open' = [open EXCEPT ![c] = FALSE]
        /\ onClosed' = [onClosed EXCEPT ![c] = serving[c]]
        /\ UNCHANGED <<atEOF, owner>>
  /\ UNCHANGED <<cacheVars, userVars, mutex, salt, requestVars>>

\* Mutant: Serve runs onClose although it is the packet handler's.
FirstPacketCallsOnClose(c) ==
  /\ at[c] = "packet"
  /\ \/ /\ Go(c, "nil")
        /\ owner' = [owner EXCEPT ![c] = TRUE]
        /\ onClosed' = [onClosed EXCEPT ![c] = serving[c]]
        /\ UNCHANGED <<open, atEOF>>
     \/ Fail(c)
  /\ UNCHANGED <<cacheVars, userVars, mutex, salt, requestVars>>

\* newPacketConnection reads the first packet and gives the handler a packet
\* connection that starts with it, and with it onClose.
FirstPacket(c) ==
  /\ at[c] = "packet"
  /\ \/ /\ Go(c, "nil")
        /\ owner' = [owner EXCEPT ![c] = TRUE]
        /\ UNCHANGED <<open, atEOF, onClosed>>
     \/ Fail(c)
  /\ UNCHANGED <<cacheVars, userVars, mutex, salt, requestVars>>

\* CommandPing: the connection is closed whether the pong could be written or not.
Pong(c) ==
  /\ at[c] = "pong"
  /\ Go(c, "nil") \/ Go(c, "error")
  /\ open' = [open EXCEPT ![c] = FALSE]
  /\ onClosed' = [onClosed EXCEPT ![c] = serving[c]]
  /\ UNCHANGED <<cacheVars, userVars, mutex, salt, requestVars, atEOF, owner>>

-----------------------------------------------------------------------------
\* Serve, after its switch.

\* The handler has the logical connection until it is done and the request stream
\* read to its end; or it aborts the tunnel; or the context, the zero chunk or the
\* drain ends it.
ServeHandler(c) ==
  /\ at[c] = "dispatch" /\ serving[c] /\ request[c].command \in {"connect", "connectV2"}
  /\ \/ Go(c, "next") /\ UNCHANGED endVars
     \/ /\ Go(c, "nil")
        /\ open' = [open EXCEPT ![c] = FALSE] /\ onClosed' = [onClosed EXCEPT ![c] = TRUE]
        /\ UNCHANGED <<atEOF, owner>>
     \/ Fail(c)
  /\ UNCHANGED <<cacheVars, userVars, mutex, salt, requestVars>>

\* The next record.  At the end of the stream Serve returns nil and leaves the
\* connection open.
ReadNext(c) ==
  /\ at[c] = "next"
  /\ \/ /\ requests[c] < MaxRequests
        /\ NewRequest(c) /\ Go(c, "decode")
        /\ UNCHANGED <<serving, endVars>>
     \/ /\ Go(c, "nil")
        /\ atEOF' = [atEOF EXCEPT ![c] = TRUE] /\ onClosed' = [onClosed EXCEPT ![c] = TRUE]
        /\ UNCHANGED <<requestVars, open, owner>>
     \/ Fail(c) /\ UNCHANGED requestVars
  /\ UNCHANGED <<cacheVars, userVars, mutex, salt>>

\* The caller has done with the connection and accepts another.
AcceptNext(c) ==
  /\ at[c] \in {"nil", "error"}
  /\ Go(c, "read")
  /\ request' = [request EXCEPT ![c] = Nobody] /\ requests' = [requests EXCEPT ![c] = 0]
  /\ serving' = [serving EXCEPT ![c] = FALSE]
  /\ user' = [user EXCEPT ![c] = Nobody] /\ since' = [since EXCEPT ![c] = 1]
  /\ open' = [open EXCEPT ![c] = TRUE] /\ atEOF' = [atEOF EXCEPT ![c] = FALSE]
  /\ onClosed' = [onClosed EXCEPT ![c] = FALSE] /\ owner' = [owner EXCEPT ![c] = FALSE]
  /\ UNCHANGED <<cacheVars, userVars, mutex, salt>>

NewConnection(c) ==
  /\ \/ ReadFirst(c) \/ Check(c) \/ Remember(c) \/ Decode(c) \/ Authenticate(c)
     \/ HandOver(c) \/ StartPackets(c) \/ FirstPacket(c) \/ Pong(c)
     \/ ServeHandler(c) \/ ReadNext(c) \/ AcceptNext(c)
  /\ UNCHANGED <<version, multi>>

Next == UpdateUsers \/ \E c \in Conns : NewConnection(c)
Spec == Init /\ [][Next]_vars
=============================================================================
