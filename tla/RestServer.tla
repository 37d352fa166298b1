----------------------------- MODULE RestServer -----------------------------
(***************************************************************************)
(* The REST server (src/api/rest_server.cpp): a thread that accepts        *)
(* connections, a detached thread per connection that receives a request,  *)
(* calls the engine, answers and closes, and an owner that starts and      *)
(* stops the server.                                                       *)
(*                                                                         *)
(* The engine is the atomic map that EngineConcurrency implements.  The    *)
(* kernel's sockets are modelled from their use: a descriptor is a number  *)
(* the kernel hands out again once it is closed, and whoever still uses it *)
(* reaches its new owner.  A stream is counted in units of any size.       *)
(***************************************************************************)
EXTENDS OrderedMap

CONSTANTS
  Conn,             \* connections peers make, each at most once
  Exchanges,        \* requests they send: records with the fields below
  MaxHeader,        \* kMaxHeaderSize
  MaxBody,          \* max_body_size
  Chunk,            \* the most one recv returns
  Partial,          \* a value that is not the whole body of its request
  MaxDescriptor     \* bound: the process's limit of open descriptors

\* What is in a request: its method, its target (the endpoint, or "kv" with
\* a key), is the request line well formed, is there a header line after it,
\* the units up to the end of its header, its Content-Length (the length of
\* its body if it has no header line), and the units of body its peer sends.
Malformed    == -1  \* a Content-Length that is not a number
NoDescriptor == -1
Descriptor   == 1..MaxDescriptor

ASSUME ServerAssumption ==
  /\ MaxHeader \in Nat \ {0} /\ MaxBody \in Nat /\ Chunk \in Nat \ {0}
  /\ MaxDescriptor \in Nat
  /\ \A r \in Exchanges :
       /\ r.wellFormed \in BOOLEAN /\ r.fields \in BOOLEAN
       /\ r.header \in Nat \ {0}
       /\ r.length \in Nat \cup {Malformed}
       /\ r.body \in Nat
       /\ r.key \in Key /\ r.val \in Value
  /\ Conn \cap {"free", "listener"} = {}
  /\ Partial \notin Value \cup {NoValue} /\ NoValue \notin Value

VARIABLES
  running,          \* running_
  serverSocket,     \* server_socket_, a plain int read by the accept thread
  acceptPc,         \* where AcceptLoop is: "off" before it is started and
                    \* after it is joined, "ended" in between
  acceptArg,        \* the descriptor AcceptLoop has passed to accept
  stopPc,           \* where Stop is
  lateClients,      \* connections accepted since running_ became false
  descriptors,      \* the owner of each descriptor
  handler,          \* where each connection and its HandleClient are
  fd,               \* client_socket of each HandleClient
  got,              \* the units it has received
  contentLength,    \* content_length, once its header is complete
  code,             \* the status of its answer
  peer,             \* the other end of each connection
  request,          \* what its peer sends
  sent,             \* the units its peer has sent
  inbox,            \* the answers its peer has received
  map,              \* the contents of the engine
  applied,          \* connections whose mutation the engine has taken
  killed,           \* has SIGPIPE or a read out of bounds ended the process?
  closeWakes        \* does close end an accept waiting on the socket?

acceptVars == <<acceptPc, acceptArg, lateClients>>
ownerVars  == <<running, serverSocket, stopPc>>
threadVars == <<fd, got, contentLength, code>>
peerVars   == <<peer, request, sent>>
engineVars == <<map, applied>>

vars == <<acceptVars, ownerVars, descriptors, handler, threadVars, peerVars,
          inbox, engineVars, killed, closeWakes>>

Init ==
  /\ running = FALSE /\ serverSocket = NoDescriptor
  /\ acceptPc = "off" /\ acceptArg = NoDescriptor /\ lateClients = 0
  /\ stopPc = "idle"
  /\ descriptors = [d \in Descriptor |-> "free"]
  /\ handler = [c \in Conn |-> "none"]
  /\ fd = [c \in Conn |-> NoDescriptor]
  /\ got = [c \in Conn |-> 0]
  /\ contentLength = [c \in Conn |-> 0]
  /\ code = [c \in Conn |-> 400]
  /\ peer = [c \in Conn |-> "open"]
  /\ request = [c \in Conn |-> NoValue]
  /\ sent = [c \in Conn |-> 0]
  /\ inbox = [c \in Conn |-> {}]
  /\ map \in [Key -> Value \cup {NoValue}] /\ applied = {}
  /\ killed = FALSE
  /\ closeWakes \in BOOLEAN

-----------------------------------------------------------------------------
(* Descriptors and the listening socket.                                   *)

FreeDescriptors == {d \in Descriptor : descriptors[d] = "free"}
Opened(who) ==
  /\ FreeDescriptors # {}
  /\ descriptors' = [descriptors EXCEPT ![Min(FreeDescriptors)] = who]
Closed(d) == [descriptors EXCEPT ![d] = "free"]

Listens(d) == d # NoDescriptor /\ descriptors[d] = "listener"

\* A closed listening socket lives on in an accept that waits on it, where
\* close does not end that accept.
Listening ==
  \/ \E d \in Descriptor : Listens(d)
  \/ acceptPc = "waiting" /\ ~closeWakes

\* Connections nobody has accepted are reset with the listening socket.
Refused(h) == [c \in Conn |-> IF h[c] = "backlog" THEN "refused" ELSE h[c]]

-----------------------------------------------------------------------------
(* The owner: Start and Stop.                                              *)

\* Start, when the server does not run and socket, bind and listen succeed;
\* in every other case it leaves things as they are.
Start ==
  /\ ~running /\ stopPc = "idle" /\ acceptPc = "off"
  /\ Opened("listener")
  /\ serverSocket' = Min(FreeDescriptors)
  /\ running' = TRUE
  /\ acceptPc' = "check"
  /\ lateClients' = 0
  /\ UNCHANGED <<acceptArg, stopPc, handler, threadVars, peerVars, inbox,
                 engineVars, killed, closeWakes>>

StopBegins ==
  /\ stopPc = "idle" /\ running
  /\ running' = FALSE
  /\ stopPc' = "close"
  /\ UNCHANGED <<acceptVars, serverSocket, descriptors, handler, threadVars,
                 peerVars, inbox, engineVars, killed, closeWakes>>

\* CloseSocket(server_socket_).
StopCloses ==
  /\ stopPc = "close"
  /\ descriptors' = Closed(serverSocket)
  /\ handler' = IF acceptPc = "waiting" /\ ~closeWakes THEN handler ELSE Refused(handler)
  /\ stopPc' = "forget"
  /\ UNCHANGED <<acceptVars, running, serverSocket, threadVars, peerVars, inbox,
                 engineVars, killed, closeWakes>>

StopForgets ==
  /\ stopPc = "forget"
  /\ serverSocket' = NoDescriptor
  /\ stopPc' = "join"
  /\ UNCHANGED <<acceptVars, running, descriptors, handler, threadVars, peerVars,
                 inbox, engineVars, killed, closeWakes>>

\* accept_thread_.join().
StopJoins ==
  /\ stopPc = "join" /\ acceptPc = "ended"
  /\ acceptPc' = "off"
  /\ stopPc' = "idle"
  /\ UNCHANGED <<acceptArg, lateClients, running, serverSocket, descriptors, handler,
                 threadVars, peerVars, inbox, engineVars, killed, closeWakes>>

-----------------------------------------------------------------------------
(* AcceptLoop.                                                             *)

\* Mutant of CheckRunning: the loop leaves only when accept fails.
CheckNothing ==
  /\ acceptPc = "check"
  /\ acceptPc' = "read"
  /\ UNCHANGED <<acceptArg, lateClients, ownerVars, descriptors, handler, threadVars,
                 peerVars, inbox, engineVars, killed, closeWakes>>

\* The loop's condition.
CheckRunning ==
  /\ acceptPc = "check"
  /\ acceptPc' = IF running THEN "read" ELSE "ended"
  /\ UNCHANGED <<acceptArg, lateClients, ownerVars, descriptors, handler, threadVars,
                 peerVars, inbox, engineVars, killed, closeWakes>>

\* The argument of accept: -1 if Stop has been faster.
ReadSocket ==
  /\ acceptPc = "read"
  /\ acceptPc' = "accept" /\ acceptArg' = serverSocket
  /\ UNCHANGED <<lateClients, ownerVars, descriptors, handler, threadVars,
                 peerVars, inbox, engineVars, killed, closeWakes>>

\* Mutant of AfterFailure: a failed accept is always tried again.
RetryFailure == "accept"

\* Where AcceptLoop goes when accept fails.
AfterFailure == IF running THEN "check" ELSE "ended"

\* accept finds a listening socket under its descriptor, or fails.
EnterAccept ==
  /\ acceptPc = "accept"
  /\ acceptPc' = IF Listens(acceptArg) THEN "waiting" ELSE AfterFailure
  /\ UNCHANGED <<acceptArg, lateClients, ownerVars, descriptors, handler, threadVars,
                 peerVars, inbox, engineVars, killed, closeWakes>>

\* accept returns a connection and its HandleClient starts.
Accept(c) ==
  /\ acceptPc = "waiting"
  /\ Listening
  /\ handler[c] = "backlog"
  /\ Opened(c)
  /\ fd' = [fd EXCEPT ![c] = Min(FreeDescriptors)]
  /\ LET accepted == [handler EXCEPT ![c] = "receive"]
     IN  handler' = IF Listens(acceptArg) THEN accepted ELSE Refused(accepted)
  /\ lateClients' = IF running THEN lateClients ELSE lateClients + 1
  /\ acceptPc' = "check"
  /\ UNCHANGED <<acceptArg, ownerVars, got, contentLength, code, peerVars, inbox,
                 engineVars, killed, closeWakes>>

\* accept fails: no descriptor is left, or the socket it waits on is closed.
AcceptFails ==
  /\ acceptPc = "waiting"
  /\ FreeDescriptors = {} \/ ~Listening
  /\ acceptPc' = AfterFailure
  /\ handler' = IF Listens(acceptArg) THEN handler ELSE Refused(handler)
  /\ UNCHANGED <<acceptArg, lateClients, ownerVars, descriptors, threadVars,
                 peerVars, inbox, engineVars, killed, closeWakes>>

AcceptLoop ==
  CheckRunning \/ ReadSocket \/ EnterAccept \/ (\E c \in Conn : Accept(c)) \/ AcceptFails

-----------------------------------------------------------------------------
(* ReceiveRequest: the header, then as much body as it declares.           *)

\* The lengths ParseContentLength may find.  With no header line after the
\* request line header_end - header_start wraps around and the search goes on
\* through the body and past the buffer until it meets a Content-Length.
Lengths(r) == IF r.fields THEN {r.length} ELSE {Malformed} \cup 0..(MaxBody + 1)

\* The status of a request whose header is complete: 200 if it is good.
HeaderCode(r, length) ==
  IF ~r.wellFormed \/ length = Malformed THEN 400
  ELSE IF length > MaxBody THEN 413 ELSE 200

\* Mutant of Received: one unit more than the declared body is awaited.
ReceivedAndMore(r, length, n) ==
  IF n < r.header THEN (IF n < MaxHeader THEN "receive" ELSE "send")
  ELSE IF HeaderCode(r, length) # 200 THEN "send"
  ELSE IF n - r.header <= length THEN "receive" ELSE "handle"

\* What follows when n units of r are there.
Received(r, length, n) ==
  IF n < r.header THEN (IF n < MaxHeader THEN "receive" ELSE "send")
  ELSE IF HeaderCode(r, length) # 200 THEN "send"
  ELSE IF n - r.header < length THEN "receive" ELSE "handle"

\* The length is set when the header becomes complete, and stays.
LengthsAfter(c, n) ==
  IF got[c] < request[c].header /\ n >= request[c].header
  THEN Lengths(request[c]) ELSE {contentLength[c]}

\* recv returns n units; the same in both loops.
Receive(c) ==
  /\ handler[c] = "receive"
  /\ peer[c] # "reset"
  /\ \E n \in (got[c] + 1)..(got[c] + Chunk) :
       /\ n <= sent[c]
       /\ \E length \in LengthsAfter(c, n) :
            LET next == Received(request[c], length, n)
            IN  /\ got' = [got EXCEPT ![c] = n]
                /\ contentLength' = [contentLength EXCEPT ![c] = length]
                /\ handler' = [handler EXCEPT ![c] = next]
                /\ code' = [code EXCEPT ![c] =
                     IF next = "send" /\ n >= request[c].header
                     THEN HeaderCode(request[c], length) ELSE 400]
  /\ UNCHANGED <<acceptVars, ownerVars, descriptors, fd, peerVars, inbox,
                 engineVars, killed, closeWakes>>

\* The search for a Content-Length leaves the memory of the process.
ParseRunsAway(c) ==
  /\ handler[c] = "receive"
  /\ peer[c] # "reset"
  /\ request[c].wellFormed /\ ~request[c].fields
  /\ \E n \in (got[c] + 1)..(got[c] + Chunk) :
       n <= sent[c] /\ got[c] < request[c].header /\ n >= request[c].header
  /\ killed' = TRUE
  /\ UNCHANGED <<acceptVars, ownerVars, descriptors, handler, threadVars, peerVars,
                 inbox, engineVars, closeWakes>>

RecvFails(c) ==
  /\ handler[c] = "receive"
  /\ peer[c] = "reset" \/ (peer[c] = "closed" /\ got[c] = sent[c])

\* Mutant of ReceiveFails: the end of the stream is the end of the body.
ReceiveEnds(c) ==
  /\ RecvFails(c)
  /\ handler' = [handler EXCEPT ![c] =
                   IF got[c] >= request[c].header THEN "handle" ELSE "send"]
  /\ code' = [code EXCEPT ![c] = 400]
  /\ UNCHANGED <<acceptVars, ownerVars, descriptors, fd, got, contentLength, peerVars,
                 inbox, engineVars, killed, closeWakes>>

\* Mutant of ReceiveFails: parse_error has no initial value.
ReceiveFailsWithoutCode(c) ==
  /\ RecvFails(c)
  /\ handler' = [handler EXCEPT ![c] = "send"]
  /\ code' = [code EXCEPT ![c] = 0]
  /\ UNCHANGED <<acceptVars, ownerVars, descriptors, fd, got, contentLength, peerVars,
                 inbox, engineVars, killed, closeWakes>>

\* recv returns 0 or less, in either loop.
ReceiveFails(c) ==
  /\ RecvFails(c)
  /\ handler' = [handler EXCEPT ![c] = "send"]
  /\ code' = [code EXCEPT ![c] = 400]
  /\ UNCHANGED <<acceptVars, ownerVars, descriptors, fd, got, contentLength, peerVars,
                 inbox, engineVars, killed, closeWakes>>

-----------------------------------------------------------------------------
(* HandleRequest.                                                          *)

Mutates(r) == r.target = "kv" /\ r.method \in {"PUT", "DELETE"}

\* The value a PUT stores: as much body as the length says.
BodyOf(r, length, n) ==
  IF length = r.length /\ n - r.header >= length THEN r.val ELSE Partial

\* Endpoints that leave the map alone: "/scan" stands for a scan with a good
\* query, "/scan?" for one with a bad query, "/kv/%" for a bad key.
Reads == {<<"/stats", "GET">>, <<"/scan", "GET">>, <<"/health", "GET">>}
Syncs == {<<"/flush", "POST">>, <<"/sync", "POST">>}

\* What the engine and HandleRequest make of a request: the status of the
\* answer, the map, and whether the engine took the mutation asked for.
Same(m, status) == {[code |-> status, map |-> m, took |-> FALSE]}
Took(m)         == {[code |-> 200, map |-> m, took |-> TRUE]}

GetOutcomes(m, r) == Same(m, IF m[r.key] = NoValue THEN 404 ELSE 200)

\* Mutant of PutOutcomes: the engine's status is not looked at.
PutOutcomesUnchecked(m, r, body) == Took(With(m, r.key, body)) \cup Same(m, 200)

PutOutcomes(m, r, body) == Took(With(m, r.key, body)) \cup Same(m, 500)

DeleteOutcomes(m, r) ==
  Same(m, 500) \cup
  (IF m[r.key] = NoValue THEN Same(m, 404) ELSE Took(Without(m, r.key)))

KeyOutcomes(m, r, body) ==
  CASE r.method = "GET"    -> GetOutcomes(m, r)
    [] r.method = "PUT"    -> PutOutcomes(m, r, body)
    [] r.method = "DELETE" -> DeleteOutcomes(m, r)
    [] OTHER               -> Same(m, 405)

\* The routes; 500 is an I/O error of the engine.
Outcomes(m, r, body) ==
  IF r.method = "OPTIONS" THEN Same(m, 200) ELSE
  CASE <<r.target, r.method>> \in Reads        -> Same(m, 200)
    [] <<r.target, r.method>> \in Syncs        -> Same(m, 200) \cup Same(m, 500)
    [] r.target = "/scan?" /\ r.method = "GET" -> Same(m, 400)
    [] r.target = "/kv/%"                      -> Same(m, 400)
    [] r.target = "kv"                         -> KeyOutcomes(m, r, body)
    [] OTHER                                   -> Same(m, 404)

\* HandleRequest, with its one call of the engine.
HandleRequest(c) ==
  /\ handler[c] = "handle"
  /\ \E o \in Outcomes(map, request[c], BodyOf(request[c], contentLength[c], got[c])) :
       /\ map' = o.map
       /\ code' = [code EXCEPT ![c] = o.code]
       /\ applied' = IF o.took THEN applied \cup {c} ELSE applied
  /\ handler' = [handler EXCEPT ![c] = "send"]
  /\ UNCHANGED <<acceptVars, ownerVars, descriptors, fd, got, contentLength, peerVars,
                 inbox, killed, closeWakes>>

-----------------------------------------------------------------------------
(* SendAll and the end of HandleClient.                                    *)

\* send takes the whole answer; it reaches whoever the descriptor leads to.
SendAll(c) ==
  /\ handler[c] = "send"
  /\ LET to == descriptors[fd[c]]
     IN  /\ to \in Conn => peer[to] # "reset"
         /\ inbox' = IF to \in Conn
                     THEN [inbox EXCEPT ![to] = @ \cup {<<c, code[c]>>}] ELSE inbox
  /\ handler' = [handler EXCEPT ![c] = "close"]
  /\ UNCHANGED <<acceptVars, ownerVars, descriptors, threadVars, peerVars,
                 engineVars, killed, closeWakes>>

\* send fails: the answer is given up; POSIX raises SIGPIPE, which nothing
\* catches, and Windows does not.
SendFails(c) ==
  /\ handler[c] = "send"
  /\ LET to == descriptors[fd[c]] IN to \in Conn /\ peer[to] = "reset"
  /\ handler' = [handler EXCEPT ![c] = "close"]
  /\ killed' \in BOOLEAN
  /\ UNCHANGED <<acceptVars, ownerVars, descriptors, threadVars, peerVars, inbox,
                 engineVars, closeWakes>>

\* What closing a connection does to it: with units unread the connection
\* is reset, and the reset may overtake the answer.
AfterClose(c) == {inbox} \cup (IF sent[c] > got[c] THEN {[inbox EXCEPT ![c] = {}]} ELSE {})

\* CloseSocket: the descriptor is free again and the stream is gone.
CloseSocket(c) ==
  /\ descriptors' = Closed(fd[c])
  /\ inbox' \in AfterClose(c)
  /\ sent' = [sent EXCEPT ![c] = 0]
  /\ UNCHANGED <<acceptVars, ownerVars, peer, request, engineVars, killed, closeWakes>>

\* Mutant of CloseClient: no return after the answer to a bad request.
CloseAndHandle(c) ==
  /\ handler[c] = "close"
  /\ CloseSocket(c)
  /\ handler' = [handler EXCEPT ![c] = IF code[c] = 400 THEN "handle" ELSE "done"]
  /\ UNCHANGED threadVars

\* The last step of HandleClient on either path; its locals are gone.
CloseClient(c) ==
  /\ handler[c] = "close"
  /\ CloseSocket(c)
  /\ handler' = [handler EXCEPT ![c] = "done"]
  /\ fd' = [fd EXCEPT ![c] = NoDescriptor]
  /\ got' = [got EXCEPT ![c] = 0]
  /\ contentLength' = [contentLength EXCEPT ![c] = 0]
  /\ code' = [code EXCEPT ![c] = 400]

HandleClient(c) ==
  \/ Receive(c) \/ ParseRunsAway(c) \/ ReceiveFails(c) \/ HandleRequest(c)
  \/ SendAll(c) \/ SendFails(c) \/ CloseClient(c)

-----------------------------------------------------------------------------
(* The other ends of the connections.                                      *)

Connect(c) ==
  /\ handler[c] = "none"
  /\ Listening
  /\ handler' = [handler EXCEPT ![c] = "backlog"]
  /\ \E r \in Exchanges : request' = [request EXCEPT ![c] = r]
  /\ UNCHANGED <<acceptVars, ownerVars, descriptors, threadVars, peer, sent, inbox,
                 engineVars, killed, closeWakes>>

\* A connection with its HandleClient, and one its peer still uses.
Holding == {"receive", "handle", "send", "close"}
Open    == {"backlog", "receive", "handle", "send"}

PeerSends(c) ==
  /\ handler[c] \in Open /\ peer[c] = "open"
  /\ sent[c] < request[c].header + request[c].body
  /\ sent' = [sent EXCEPT ![c] = @ + 1]
  /\ UNCHANGED <<acceptVars, ownerVars, descriptors, handler, threadVars, peer,
                 request, inbox, engineVars, killed, closeWakes>>

\* The peer ends its side of the stream, or goes away.
PeerLeaves(c) ==
  /\ handler[c] \in Open /\ peer[c] = "open"
  /\ \E how \in {"closed", "reset"} : peer' = [peer EXCEPT ![c] = how]
  /\ UNCHANGED <<acceptVars, ownerVars, descriptors, handler, threadVars, request,
                 sent, inbox, engineVars, killed, closeWakes>>

Peer(c) == Connect(c) \/ PeerSends(c) \/ PeerLeaves(c)

-----------------------------------------------------------------------------
Stop == StopCloses \/ StopForgets \/ StopJoins

Next ==
  /\ ~killed
  /\ \/ Start \/ StopBegins \/ Stop \/ AcceptLoop
     \/ \E c \in Conn : HandleClient(c) \/ Peer(c)

Spec == Init /\ [][Next]_vars

Alive(A) == ~killed /\ A

\* Threads of the process keep running while it does; peers and
\* the owner's decision to stop need not do anything.
FairSpec ==
  /\ Spec
  /\ WF_vars(Alive(AcceptLoop)) /\ WF_vars(Alive(Stop))
  /\ \A c \in Conn : WF_vars(Alive(HandleClient(c)))

-----------------------------------------------------------------------------
(* Properties.                                                             *)

Codes == {200, 400, 404, 405, 413, 500}

\* Types; a status is always set before it is sent (rest_server.cpp 1137).
RestTypeOK ==
  /\ running \in BOOLEAN /\ killed \in BOOLEAN
  /\ closeWakes \in BOOLEAN
  /\ serverSocket \in Descriptor \cup {NoDescriptor}
  /\ acceptPc \in {"off", "check", "read", "accept", "waiting", "ended"}
  /\ acceptArg \in Descriptor \cup {NoDescriptor}
  /\ stopPc \in {"idle", "close", "forget", "join"}
  /\ lateClients \in Nat
  /\ descriptors \in [Descriptor -> Conn \cup {"free", "listener"}]
  /\ handler \in [Conn -> Holding \cup {"none", "backlog", "refused", "done"}]
  /\ fd \in [Conn -> Descriptor \cup {NoDescriptor}]
  /\ got \in [Conn -> Nat] /\ sent \in [Conn -> Nat]
  /\ contentLength \in [Conn -> Nat \cup {Malformed}]
  /\ code \in [Conn -> Codes]
  /\ peer \in [Conn -> {"open", "closed", "reset"}]
  /\ request \in [Conn -> Exchanges \cup {NoValue}]
  /\ inbox \in [Conn -> SUBSET (Conn \X Codes)]
  /\ map \in [Key -> Value \cup {NoValue, Partial}]
  /\ applied \subseteq Conn

\* Every peer gets one answer at most, to its own request and never to that
\* of a connection which had the same descriptor before or after (1126-1192).
OwnAnswers ==
  \A c \in Conn :
    /\ \A answer \in inbox[c] : answer[1] = c
    /\ Cardinality(inbox[c]) <= 1

\* A peer is told that its PUT or DELETE succeeded if and only if the engine
\* took it, whatever else went wrong with its connection.
AnswersAreTrue ==
  \A c \in Conn : \A answer \in inbox[c] :
    Mutates(request[c]) /\ answer[1] = c => (answer[2] = 200 <=> c \in applied)

\* The engine sees whole requests only: no body cut short by a peer that
\* left, nothing of a request refused as malformed or too large, and none
\* with a header that is not complete within one recv of MaxHeader.  This is
\* so of requests with a header line after the request line; of one with none
\* the length is whatever the search past its header met (395-432, 268-336).
WholeRequestsOnly ==
  /\ \A k \in Key : map[k] = Partial => \E c \in applied : ~request[c].fields
  /\ \A c \in applied :
       /\ request[c].header < MaxHeader + Chunk
       /\ handler[c] \in Holding /\ request[c].fields =>
            /\ got[c] - request[c].header >= request[c].length
            /\ HeaderCode(request[c], request[c].length) = 200

\* Stop may be overtaken by one connection, which the accept loop takes after
\* running_ is false and before it looks at it again (1087-1124), and no more.
OneLateClient == lateClients <= 1

\* A whole request with a header line that arrives at a HandleClient is
\* answered unless its peer leaves or the process ends: no slow or silent peer
\* and no Stop keeps it from its answer (338-489, 1126-1192).
Whole(c) ==
  LET r == request[c]
  IN  /\ r.fields /\ HeaderCode(r, r.length) = 200
      /\ r.header <= MaxHeader /\ r.body = r.length
      /\ sent[c] = r.header + r.body

Answered ==
  \A c \in Conn :
    (handler[c] \in Holding /\ Whole(c))
      ~> (inbox[c] # {} \/ peer[c] # "open" \/ killed)

\* Stop returns where close ends an accept that waits on the socket; where it
\* does not, unless the accept loop stays in that accept (1067-1085).
StopReturns ==
  (stopPc # "idle") ~>
    (stopPc = "idle" \/ killed \/ (~closeWakes /\ [](acceptPc = "waiting")))
=============================================================================
