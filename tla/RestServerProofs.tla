-------------------------- MODULE RestServerProofs --------------------------
(***************************************************************************)
(* For any number of connections and any requests: a peer gets at most one *)
(* answer, its own and a true one, and at most one connection slips in     *)
(* after Stop.  What carries it is the ownership of descriptors.           *)
(***************************************************************************)
EXTENDS RestServer, WellFoundedInduction, FiniteSetTheorems, TLAPS

-----------------------------------------------------------------------------
(* The kernel hands out a free descriptor.                                 *)

\* The descriptor the system gives to a new connection is one that is free.
LEMMA LowestFree ==
  ASSUME FreeDescriptors # {}
  PROVE  Min(FreeDescriptors) \in FreeDescriptors
<1> DEFINE Less == {p \in Nat \X Nat : p[1] < p[2]}
<1>1. IsWellFoundedOn(Less, Nat)
  BY NatLessThanWellFounded DEF OpToRel
<1>2. FreeDescriptors \subseteq Nat
  BY ServerAssumption DEF FreeDescriptors, Descriptor
<1>3. PICK n \in FreeDescriptors : \A m \in FreeDescriptors : <<m, n>> \notin Less
  BY <1>1, <1>2, WFMin
<1>4. ASSUME NEW m \in FreeDescriptors PROVE n <= m
  <2>1. m \in Nat /\ n \in Nat
    BY <1>2
  <2>2. CASE m < n
    <3>1. <<m, n>> \in Nat \X Nat /\ <<m, n>>[1] < <<m, n>>[2]
      BY <2>1, <2>2
    <3> QED
      BY <1>3, <3>1
  <2> QED
    BY <2>1, <2>2
<1> QED
  BY <1>4 DEF Min

-----------------------------------------------------------------------------
(* The inductive invariant.                                                *)

RequestsChosen == \A c \in Conn : handler[c] # "none" => request[c] \in Exchanges

\* The listening descriptor belongs to the listener until Stop closes it.
ListenerHeld ==
  /\ stopPc # "idle" => ~running
  /\ running \/ stopPc = "close" =>
       serverSocket \in Descriptor /\ descriptors[serverSocket] = "listener"

\* A thread that holds a connection holds its descriptor.
DescriptorsHeld ==
  \A c \in Conn : handler[c] \in Holding =>
    fd[c] \in Descriptor /\ descriptors[fd[c]] = c

\* A status is the truth about the mutation a connection asked for.
True(c, status) == Mutates(request[c]) => (status = 200 <=> c \in applied)

\* Nothing is answered before it is handled, and what is sent is true.
AnswersHeld ==
  \A c \in Conn :
    /\ handler[c] \notin {"send", "close", "done"} => c \notin applied
    /\ handler[c] = "send" => True(c, code[c])
    /\ \/ inbox[c] = {}
       \/ /\ handler[c] \in {"close", "done"}
          /\ \E status \in Codes : inbox[c] = {<<c, status>>} /\ True(c, status)

\* The whole of a good request has been received.
Complete(c) ==
  /\ got[c] - request[c].header >= contentLength[c]
  /\ HeaderCode(request[c], contentLength[c]) = 200

\* The length is the declared one from the moment the header is complete, and
\* a header is complete within one recv of MaxHeader.
LengthsHeld ==
  \A c \in Conn :
    /\ handler[c] \in {"none", "backlog"} => got[c] = 0
    /\ handler[c] = "receive" => got[c] < MaxHeader \/ got[c] >= request[c].header
    /\ handler[c] \in Holding /\ request[c].fields /\ got[c] >= request[c].header =>
         contentLength[c] = request[c].length
    /\ handler[c] \in Holding /\ got[c] >= request[c].header =>
         request[c].header < MaxHeader + Chunk

RequestsComplete ==
  /\ \A k \in Key : map[k] = Partial => \E c \in applied : ~request[c].fields
  /\ \A c \in applied : request[c].header < MaxHeader + Chunk
  /\ \A c \in Conn :
       handler[c] = "handle" \/ (handler[c] \in {"send", "close"} /\ c \in applied)
         => got[c] >= request[c].header /\ Complete(c)

LateHeld ==
  /\ lateClients \in {0, 1}
  /\ running \/ acceptPc \in {"read", "accept", "waiting"} => lateClients = 0

ServerInv ==
  /\ RestTypeOK /\ RequestsChosen /\ ListenerHeld /\ DescriptorsHeld
  /\ AnswersHeld /\ LengthsHeld /\ RequestsComplete /\ LateHeld

-----------------------------------------------------------------------------
(* It holds initially, and every step keeps each part of it.               *)

\* A connection has its request from the start.
LEMMA ChosenStep ==
  ASSUME ServerInv, Next
  PROVE  RequestsChosen'
<1> USE ServerAssumption
    DEF ServerInv, RestTypeOK, RequestsChosen, acceptVars, ownerVars, threadVars, peerVars, engineVars, Refused
<1>1. CASE Start
  BY <1>1 DEF Start, Opened
<1>2. CASE StopBegins
  BY <1>2 DEF StopBegins
<1>3. CASE StopCloses
  BY <1>3 DEF StopCloses, Closed
<1>4. CASE StopForgets
  BY <1>4 DEF StopForgets
<1>5. CASE StopJoins
  BY <1>5 DEF StopJoins
<1>6. CASE CheckRunning
  BY <1>6 DEF CheckRunning
<1>7. CASE EnterAccept
  BY <1>7 DEF EnterAccept, AfterFailure
<1>8. CASE AcceptFails
  BY <1>8 DEF AcceptFails, AfterFailure
<1>9. ASSUME NEW c \in Conn, Accept(c) PROVE RequestsChosen'
  BY <1>9 DEF Accept, Opened
<1>10. ASSUME NEW c \in Conn, Receive(c) PROVE RequestsChosen'
  BY <1>10 DEF Receive
<1>11. ASSUME NEW c \in Conn, ReceiveFails(c) PROVE RequestsChosen'
  BY <1>11 DEF ReceiveFails, RecvFails
<1>12. ASSUME NEW c \in Conn, HandleRequest(c) PROVE RequestsChosen'
  BY <1>12 DEF HandleRequest
<1>13. ASSUME NEW c \in Conn, SendAll(c) PROVE RequestsChosen'
  BY <1>13 DEF SendAll
<1>14. ASSUME NEW c \in Conn, SendFails(c) PROVE RequestsChosen'
  BY <1>14 DEF SendFails
<1>15. ASSUME NEW c \in Conn, CloseClient(c) PROVE RequestsChosen'
  BY <1>15 DEF CloseClient, CloseSocket, Closed
<1>16. ASSUME NEW c \in Conn, Connect(c) PROVE RequestsChosen'
  BY <1>16 DEF Connect
<1>17. ASSUME NEW c \in Conn, PeerSends(c) PROVE RequestsChosen'
  BY <1>17 DEF PeerSends
<1>18. ASSUME NEW c \in Conn, PeerLeaves(c) PROVE RequestsChosen'
  BY <1>18 DEF PeerLeaves
<1>19. CASE ReadSocket
  BY <1>19 DEF ReadSocket
<1>20. ASSUME NEW c \in Conn, ParseRunsAway(c) PROVE RequestsChosen'
  BY <1>20 DEF ParseRunsAway
<1> QED
  BY <1>1, <1>2, <1>3, <1>4, <1>5, <1>6, <1>7, <1>8, <1>9,
     <1>10, <1>11, <1>12, <1>13, <1>14, <1>15, <1>16, <1>17, <1>18, <1>19, <1>20
  DEF Next, Stop, AcceptLoop, HandleClient, Peer

\* Only Stop closes the listening descriptor.
LEMMA ListenerStep ==
  ASSUME ServerInv, Next
  PROVE  ListenerHeld'
<1> USE ServerAssumption
    DEF ServerInv, RestTypeOK, ListenerHeld, DescriptorsHeld, acceptVars, ownerVars, threadVars, peerVars, engineVars, Holding
<1>1. CASE Start
  <2>1. Min(FreeDescriptors) \in FreeDescriptors
    BY <1>1, LowestFree DEF Start, Opened
  <2> QED
    BY <1>1, <2>1 DEF Start, Opened, FreeDescriptors
<1>2. CASE StopBegins
  BY <1>2 DEF StopBegins
<1>3. CASE StopCloses
  BY <1>3 DEF StopCloses, Closed
<1>4. CASE StopForgets
  BY <1>4 DEF StopForgets
<1>5. CASE StopJoins
  BY <1>5 DEF StopJoins
<1>6. CASE CheckRunning
  BY <1>6 DEF CheckRunning
<1>7. CASE EnterAccept
  BY <1>7 DEF EnterAccept, AfterFailure
<1>8. CASE AcceptFails
  BY <1>8 DEF AcceptFails, AfterFailure
<1>9. ASSUME NEW c \in Conn, Accept(c) PROVE ListenerHeld'
  <2>1. Min(FreeDescriptors) \in FreeDescriptors
    BY <1>9, LowestFree DEF Accept, Opened
  <2> QED
    BY <1>9, <2>1 DEF Accept, Opened, FreeDescriptors
<1>10. ASSUME NEW c \in Conn, Receive(c) PROVE ListenerHeld'
  BY <1>10 DEF Receive
<1>11. ASSUME NEW c \in Conn, ReceiveFails(c) PROVE ListenerHeld'
  BY <1>11 DEF ReceiveFails, RecvFails
<1>12. ASSUME NEW c \in Conn, HandleRequest(c) PROVE ListenerHeld'
  BY <1>12 DEF HandleRequest
<1>13. ASSUME NEW c \in Conn, SendAll(c) PROVE ListenerHeld'
  BY <1>13 DEF SendAll
<1>14. ASSUME NEW c \in Conn, SendFails(c) PROVE ListenerHeld'
  BY <1>14 DEF SendFails
<1>15. ASSUME NEW c \in Conn, CloseClient(c) PROVE ListenerHeld'
  BY <1>15 DEF CloseClient, CloseSocket, Closed
<1>16. ASSUME NEW c \in Conn, Connect(c) PROVE ListenerHeld'
  BY <1>16 DEF Connect
<1>17. ASSUME NEW c \in Conn, PeerSends(c) PROVE ListenerHeld'
  BY <1>17 DEF PeerSends
<1>18. ASSUME NEW c \in Conn, PeerLeaves(c) PROVE ListenerHeld'
  BY <1>18 DEF PeerLeaves
<1>19. CASE ReadSocket
  BY <1>19 DEF ReadSocket
<1>20. ASSUME NEW c \in Conn, ParseRunsAway(c) PROVE ListenerHeld'
  BY <1>20 DEF ParseRunsAway
<1> QED
  BY <1>1, <1>2, <1>3, <1>4, <1>5, <1>6, <1>7, <1>8, <1>9,
     <1>10, <1>11, <1>12, <1>13, <1>14, <1>15, <1>16, <1>17, <1>18, <1>19, <1>20
  DEF Next, Stop, AcceptLoop, HandleClient, Peer

\* A descriptor in use is not handed out, and only its thread closes it.
LEMMA DescriptorsStep ==
  ASSUME ServerInv, Next
  PROVE  DescriptorsHeld'
<1> USE ServerAssumption
    DEF ServerInv, RestTypeOK, ListenerHeld, DescriptorsHeld, acceptVars, ownerVars, threadVars, peerVars, engineVars, Holding, Refused
<1>1. CASE Start
  <2>1. Min(FreeDescriptors) \in FreeDescriptors
    BY <1>1, LowestFree DEF Start, Opened
  <2> QED
    BY <1>1, <2>1 DEF Start, Opened, FreeDescriptors
<1>2. CASE StopBegins
  BY <1>2 DEF StopBegins
<1>3. CASE StopCloses
  BY <1>3 DEF StopCloses, Closed
<1>4. CASE StopForgets
  BY <1>4 DEF StopForgets
<1>5. CASE StopJoins
  BY <1>5 DEF StopJoins
<1>6. CASE CheckRunning
  BY <1>6 DEF CheckRunning
<1>7. CASE EnterAccept
  BY <1>7 DEF EnterAccept, AfterFailure
<1>8. CASE AcceptFails
  BY <1>8 DEF AcceptFails, AfterFailure
<1>9. ASSUME NEW c \in Conn, Accept(c) PROVE DescriptorsHeld'
  <2>1. Min(FreeDescriptors) \in FreeDescriptors
    BY <1>9, LowestFree DEF Accept, Opened
  <2> QED
    BY <1>9, <2>1 DEF Accept, Opened, FreeDescriptors
<1>10. ASSUME NEW c \in Conn, Receive(c) PROVE DescriptorsHeld'
  BY <1>10 DEF Receive
<1>11. ASSUME NEW c \in Conn, ReceiveFails(c) PROVE DescriptorsHeld'
  BY <1>11 DEF ReceiveFails, RecvFails
<1>12. ASSUME NEW c \in Conn, HandleRequest(c) PROVE DescriptorsHeld'
  BY <1>12 DEF HandleRequest
<1>13. ASSUME NEW c \in Conn, SendAll(c) PROVE DescriptorsHeld'
  BY <1>13 DEF SendAll
<1>14. ASSUME NEW c \in Conn, SendFails(c) PROVE DescriptorsHeld'
  BY <1>14 DEF SendFails
<1>15. ASSUME NEW c \in Conn, CloseClient(c) PROVE DescriptorsHeld'
  BY <1>15 DEF CloseClient, CloseSocket, Closed
<1>16. ASSUME NEW c \in Conn, Connect(c) PROVE DescriptorsHeld'
  BY <1>16 DEF Connect
<1>17. ASSUME NEW c \in Conn, PeerSends(c) PROVE DescriptorsHeld'
  BY <1>17 DEF PeerSends
<1>18. ASSUME NEW c \in Conn, PeerLeaves(c) PROVE DescriptorsHeld'
  BY <1>18 DEF PeerLeaves
<1>19. CASE ReadSocket
  BY <1>19 DEF ReadSocket
<1>20. ASSUME NEW c \in Conn, ParseRunsAway(c) PROVE DescriptorsHeld'
  BY <1>20 DEF ParseRunsAway
<1> QED
  BY <1>1, <1>2, <1>3, <1>4, <1>5, <1>6, <1>7, <1>8, <1>9,
     <1>10, <1>11, <1>12, <1>13, <1>14, <1>15, <1>16, <1>17, <1>18, <1>19, <1>20
  DEF Next, Stop, AcceptLoop, HandleClient, Peer

\* The accept loop leaves after one late connection.
LEMMA LateStep ==
  ASSUME ServerInv, Next
  PROVE  LateHeld'
<1> USE ServerAssumption
    DEF ServerInv, RestTypeOK, LateHeld, acceptVars, ownerVars, threadVars, peerVars, engineVars
<1>1. CASE Start
  BY <1>1 DEF Start, Opened
<1>2. CASE StopBegins
  BY <1>2 DEF StopBegins
<1>3. CASE StopCloses
  BY <1>3 DEF StopCloses, Closed
<1>4. CASE StopForgets
  BY <1>4 DEF StopForgets
<1>5. CASE StopJoins
  BY <1>5 DEF StopJoins
<1>6. CASE CheckRunning
  BY <1>6 DEF CheckRunning
<1>7. CASE EnterAccept
  BY <1>7 DEF EnterAccept, AfterFailure
<1>8. CASE AcceptFails
  BY <1>8 DEF AcceptFails, AfterFailure
<1>9. ASSUME NEW c \in Conn, Accept(c) PROVE LateHeld'
  BY <1>9 DEF Accept, Opened
<1>10. ASSUME NEW c \in Conn, Receive(c) PROVE LateHeld'
  BY <1>10 DEF Receive
<1>11. ASSUME NEW c \in Conn, ReceiveFails(c) PROVE LateHeld'
  BY <1>11 DEF ReceiveFails, RecvFails
<1>12. ASSUME NEW c \in Conn, HandleRequest(c) PROVE LateHeld'
  BY <1>12 DEF HandleRequest
<1>13. ASSUME NEW c \in Conn, SendAll(c) PROVE LateHeld'
  BY <1>13 DEF SendAll
<1>14. ASSUME NEW c \in Conn, SendFails(c) PROVE LateHeld'
  BY <1>14 DEF SendFails
<1>15. ASSUME NEW c \in Conn, CloseClient(c) PROVE LateHeld'
  BY <1>15 DEF CloseClient, CloseSocket, Closed
<1>16. ASSUME NEW c \in Conn, Connect(c) PROVE LateHeld'
  BY <1>16 DEF Connect
<1>17. ASSUME NEW c \in Conn, PeerSends(c) PROVE LateHeld'
  BY <1>17 DEF PeerSends
<1>18. ASSUME NEW c \in Conn, PeerLeaves(c) PROVE LateHeld'
  BY <1>18 DEF PeerLeaves
<1>19. CASE ReadSocket
  BY <1>19 DEF ReadSocket
<1>20. ASSUME NEW c \in Conn, ParseRunsAway(c) PROVE LateHeld'
  BY <1>20 DEF ParseRunsAway
<1> QED
  BY <1>1, <1>2, <1>3, <1>4, <1>5, <1>6, <1>7, <1>8, <1>9,
     <1>10, <1>11, <1>12, <1>13, <1>14, <1>15, <1>16, <1>17, <1>18, <1>19, <1>20
  DEF Next, Stop, AcceptLoop, HandleClient, Peer

\* What ReceiveRequest makes of a request depends on all of it.
LEMMA ReceivedWhat ==
  ASSUME NEW r \in Exchanges, NEW length \in Nat \cup {Malformed}, NEW n \in Nat
  PROVE  /\ Received(r, length, n) \in {"receive", "send", "handle"}
         /\ Received(r, length, n) = "handle" =>
              /\ n >= r.header /\ n - r.header >= length
              /\ HeaderCode(r, length) = 200
         /\ Received(r, length, n) = "send" /\ n >= r.header =>
              HeaderCode(r, length) \in {400, 413}
         /\ Received(r, length, n) = "receive" => n < MaxHeader \/ n >= r.header
  BY ServerAssumption DEF Received, HeaderCode, Malformed

\* A step of Receive that ends with n units and this length.
ReceivesTo(c, n, length) ==
  LET next == Received(request[c], length, n)
  IN  /\ got' = [got EXCEPT ![c] = n]
      /\ contentLength' = [contentLength EXCEPT ![c] = length]
      /\ handler' = [handler EXCEPT ![c] = next]
      /\ code' = [code EXCEPT ![c] =
           IF next = "send" /\ n >= request[c].header
           THEN HeaderCode(request[c], length) ELSE 400]

\* The length is a number or Malformed, and the declared one if there is one.
LEMMA LengthsWhat ==
  ASSUME NEW c \in Conn, NEW n \in Nat, NEW length \in LengthsAfter(c, n),
         request[c] \in Exchanges, got[c] \in Nat,
         contentLength[c] \in Nat \cup {Malformed}
  PROVE  /\ length \in Nat \cup {Malformed}
         /\ n >= request[c].header /\ got[c] < request[c].header /\ request[c].fields
              => length = request[c].length
         /\ got[c] >= request[c].header => length = contentLength[c]
<1> USE ServerAssumption
<1>1. Lengths(request[c]) \subseteq Nat \cup {Malformed}
  BY DEF Lengths
<1>2. request[c].header \in Nat /\ request[c].fields \in BOOLEAN
  OBVIOUS
<1> QED
  BY <1>1, <1>2 DEF LengthsAfter, Lengths

\* The status of a mutation is 200 if and only if the engine took it.
LEMMA OutcomesAreTrue ==
  ASSUME NEW r \in Exchanges, NEW body \in Value \cup {Partial},
         NEW m \in [Key -> Value \cup {NoValue, Partial}],
         NEW o \in Outcomes(m, r, body)
  PROVE  /\ o.code \in {200, 400, 404, 405, 500}
         /\ o.map \in [Key -> Value \cup {NoValue, Partial}]
         /\ Mutates(r) => (o.code = 200 <=> o.took)
         /\ o.took => Mutates(r)
         /\ \A k \in Key : o.map[k] = Partial =>
              m[k] = Partial \/ (body = Partial /\ o.took)
<1> USE ServerAssumption DEF Mutates
<1>1. CASE \/ r.method = "OPTIONS"
           \/ <<r.target, r.method>> \in Reads \cup Syncs
           \/ r.target # "kv"
  <2>1. r.target = "kv" => <<r.target, r.method>> \notin Reads \cup Syncs
    BY DEF Reads, Syncs
  <2>2. ~Mutates(r)
    BY <1>1, <2>1
  <2>3. Outcomes(m, r, body) \in {Same(m, 200), Same(m, 200) \cup Same(m, 500),
                               Same(m, 400), Same(m, 404)}
    <3>1. CASE r.method = "OPTIONS"
      BY <3>1 DEF Outcomes
    <3>2. CASE r.method # "OPTIONS" /\ <<r.target, r.method>> \in Reads
      BY <3>2 DEF Outcomes, Reads, Syncs
    <3>3. CASE /\ r.method # "OPTIONS"
               /\ <<r.target, r.method>> \notin Reads
               /\ <<r.target, r.method>> \in Syncs
      BY <3>3 DEF Outcomes, Reads, Syncs
    <3>4. CASE /\ r.method # "OPTIONS"
               /\ <<r.target, r.method>> \notin Reads
               /\ <<r.target, r.method>> \notin Syncs
               /\ r.target # "kv"
      BY <3>4 DEF Outcomes
    <3> QED
      BY <1>1, <3>1, <3>2, <3>3, <3>4
  <2> QED
    BY <2>2, <2>3 DEF Same
<1>2. CASE r.target = "kv" /\ r.method # "OPTIONS"
  <2>1. o \in KeyOutcomes(m, r, body)
    BY <1>2 DEF Outcomes, Reads, Syncs
  <2>2. CASE r.method = "GET"
    BY <1>2, <2>1, <2>2 DEF KeyOutcomes, GetOutcomes, Same, Took
  <2>3. CASE r.method = "PUT"
    <3>1. o \in PutOutcomes(m, r, body)
      BY <2>1, <2>3 DEF KeyOutcomes
    <3> QED
      BY <1>2, <2>3, <3>1 DEF PutOutcomes, With, Same, Took
  <2>4. CASE r.method = "DELETE"
    BY <1>2, <2>1, <2>4 DEF KeyOutcomes, DeleteOutcomes, Without, Same, Took
  <2>5. CASE r.method \notin {"GET", "PUT", "DELETE"}
    BY <1>2, <2>1, <2>5 DEF KeyOutcomes, Same, Took
  <2> QED
    BY <2>2, <2>3, <2>4, <2>5
<1> QED
  BY <1>1, <1>2

\* Answers go to their own connection, once, and are true.
LEMMA AnswersStep ==
  ASSUME ServerInv, Next
  PROVE  AnswersHeld'
<1> USE ServerAssumption
    DEF ServerInv, RestTypeOK, RequestsChosen, DescriptorsHeld, AnswersHeld, True,
        acceptVars, ownerVars, threadVars, peerVars, engineVars, Holding, Refused
<1>1. CASE Start
  BY <1>1 DEF Start, Opened
<1>2. CASE StopBegins
  BY <1>2 DEF StopBegins
<1>3. CASE StopCloses
  BY <1>3 DEF StopCloses, Closed
<1>4. CASE StopForgets
  BY <1>4 DEF StopForgets
<1>5. CASE StopJoins
  BY <1>5 DEF StopJoins
<1>6. CASE CheckRunning
  BY <1>6 DEF CheckRunning
<1>7. CASE EnterAccept
  BY <1>7 DEF EnterAccept, AfterFailure
<1>8. CASE AcceptFails
  BY <1>8 DEF AcceptFails, AfterFailure
<1>9. ASSUME NEW c \in Conn, Accept(c) PROVE AnswersHeld'
  BY <1>9 DEF Accept, Opened
<1>10. ASSUME NEW c \in Conn, Receive(c) PROVE AnswersHeld'
  <2>1. request[c] \in Exchanges /\ got[c] \in Nat
    BY <1>10 DEF Receive
  <2>2. PICK n \in (got[c] + 1)..(got[c] + Chunk) :
          \E length \in LengthsAfter(c, n) : ReceivesTo(c, n, length)
    BY <1>10, Zenon DEF Receive, ReceivesTo
  <2>3. PICK length \in LengthsAfter(c, n) : ReceivesTo(c, n, length)
    BY <2>2
  <2>4. n \in Nat /\ length \in Nat \cup {Malformed}
    BY <2>1, <2>3, LengthsWhat
  <2> QED
    BY <1>10, <2>1, <2>3, <2>4, ReceivedWhat DEF Receive, ReceivesTo
<1>11. ASSUME NEW c \in Conn, ReceiveFails(c) PROVE AnswersHeld'
  BY <1>11 DEF ReceiveFails, RecvFails
<1>12. ASSUME NEW c \in Conn, HandleRequest(c) PROVE AnswersHeld'
  <2>1. request[c] \in Exchanges /\ got[c] \in Nat
    BY <1>12 DEF HandleRequest
  <2>2. PICK o \in Outcomes(map, request[c], BodyOf(request[c], contentLength[c], got[c])) :
          /\ map' = o.map
          /\ code' = [code EXCEPT ![c] = o.code]
          /\ applied' = IF o.took THEN applied \cup {c} ELSE applied
    BY <1>12 DEF HandleRequest
  <2>3. BodyOf(request[c], contentLength[c], got[c]) \in Value \cup {Partial}
    BY <2>1, ServerAssumption DEF BodyOf
  <2> QED
    BY <1>12, <2>1, <2>2, <2>3, OutcomesAreTrue DEF HandleRequest
<1>13. ASSUME NEW c \in Conn, SendAll(c) PROVE AnswersHeld'
  BY <1>13 DEF SendAll
<1>14. ASSUME NEW c \in Conn, SendFails(c) PROVE AnswersHeld'
  BY <1>14 DEF SendFails
<1>15. ASSUME NEW c \in Conn, CloseClient(c) PROVE AnswersHeld'
  BY <1>15 DEF CloseClient, CloseSocket, AfterClose
<1>16. ASSUME NEW c \in Conn, Connect(c) PROVE AnswersHeld'
  BY <1>16 DEF Connect
<1>17. ASSUME NEW c \in Conn, PeerSends(c) PROVE AnswersHeld'
  BY <1>17 DEF PeerSends
<1>18. ASSUME NEW c \in Conn, PeerLeaves(c) PROVE AnswersHeld'
  BY <1>18 DEF PeerLeaves
<1>19. CASE ReadSocket
  BY <1>19 DEF ReadSocket
<1>20. ASSUME NEW c \in Conn, ParseRunsAway(c) PROVE AnswersHeld'
  BY <1>20 DEF ParseRunsAway
<1> QED
  BY <1>1, <1>2, <1>3, <1>4, <1>5, <1>6, <1>7, <1>8, <1>9,
     <1>10, <1>11, <1>12, <1>13, <1>14, <1>15, <1>16, <1>17, <1>18, <1>19, <1>20
  DEF Next, Stop, AcceptLoop, HandleClient, Peer

\* The length of a request is set once, when its header is complete.
LEMMA LengthsStep ==
  ASSUME ServerInv, Next
  PROVE  LengthsHeld'
<1> USE ServerAssumption
    DEF ServerInv, RestTypeOK, RequestsChosen, AnswersHeld, LengthsHeld,
        acceptVars, ownerVars, threadVars, peerVars, engineVars, Holding, Refused
<1>1. CASE Start
  BY <1>1 DEF Start, Opened
<1>2. CASE StopBegins
  BY <1>2 DEF StopBegins
<1>3. CASE StopCloses
  BY <1>3 DEF StopCloses, Closed
<1>4. CASE StopForgets
  BY <1>4 DEF StopForgets
<1>5. CASE StopJoins
  BY <1>5 DEF StopJoins
<1>6. CASE CheckRunning
  BY <1>6 DEF CheckRunning
<1>7. CASE EnterAccept
  BY <1>7 DEF EnterAccept, AfterFailure
<1>8. CASE AcceptFails
  BY <1>8 DEF AcceptFails, AfterFailure
<1>9. ASSUME NEW c \in Conn, Accept(c) PROVE LengthsHeld'
  BY <1>9 DEF Accept, Opened
<1>10. ASSUME NEW c \in Conn, Receive(c) PROVE LengthsHeld'
  <2>1. request[c] \in Exchanges /\ got[c] \in Nat
    BY <1>10 DEF Receive
  <2>2. PICK n \in (got[c] + 1)..(got[c] + Chunk) :
          \E length \in LengthsAfter(c, n) : ReceivesTo(c, n, length)
    BY <1>10, Zenon DEF Receive, ReceivesTo
  <2>3. PICK length \in LengthsAfter(c, n) : ReceivesTo(c, n, length)
    BY <2>2
  <2>4. n \in Nat /\ length \in Nat \cup {Malformed}
    BY <2>1, <2>3, LengthsWhat
  <2> QED
    BY <1>10, <2>1, <2>3, <2>4, ReceivedWhat, LengthsWhat DEF Receive, ReceivesTo
<1>11. ASSUME NEW c \in Conn, ReceiveFails(c) PROVE LengthsHeld'
  BY <1>11 DEF ReceiveFails, RecvFails
<1>12. ASSUME NEW c \in Conn, HandleRequest(c) PROVE LengthsHeld'
  <2>1. request[c] \in Exchanges /\ got[c] \in Nat
    BY <1>12 DEF HandleRequest
  <2>2. PICK o \in Outcomes(map, request[c], BodyOf(request[c], contentLength[c], got[c])) :
          /\ map' = o.map
          /\ code' = [code EXCEPT ![c] = o.code]
          /\ applied' = IF o.took THEN applied \cup {c} ELSE applied
    BY <1>12 DEF HandleRequest
  <2>3. BodyOf(request[c], contentLength[c], got[c]) \in Value \cup {Partial}
    BY <2>1, ServerAssumption DEF BodyOf
  <2> QED
    BY <1>12, <2>1, <2>2, <2>3 DEF HandleRequest
<1>13. ASSUME NEW c \in Conn, SendAll(c) PROVE LengthsHeld'
  BY <1>13 DEF SendAll
<1>14. ASSUME NEW c \in Conn, SendFails(c) PROVE LengthsHeld'
  BY <1>14 DEF SendFails
<1>15. ASSUME NEW c \in Conn, CloseClient(c) PROVE LengthsHeld'
  BY <1>15 DEF CloseClient, CloseSocket, Closed
<1>16. ASSUME NEW c \in Conn, Connect(c) PROVE LengthsHeld'
  BY <1>16 DEF Connect
<1>17. ASSUME NEW c \in Conn, PeerSends(c) PROVE LengthsHeld'
  BY <1>17 DEF PeerSends
<1>18. ASSUME NEW c \in Conn, PeerLeaves(c) PROVE LengthsHeld'
  BY <1>18 DEF PeerLeaves
<1>19. CASE ReadSocket
  BY <1>19 DEF ReadSocket
<1>20. ASSUME NEW c \in Conn, ParseRunsAway(c) PROVE LengthsHeld'
  BY <1>20 DEF ParseRunsAway
<1> QED
  BY <1>1, <1>2, <1>3, <1>4, <1>5, <1>6, <1>7, <1>8, <1>9,
     <1>10, <1>11, <1>12, <1>13, <1>14, <1>15, <1>16, <1>17, <1>18, <1>19, <1>20
  DEF Next, Stop, AcceptLoop, HandleClient, Peer

\* A request is handled when all of it is there.
LEMMA CompleteStep ==
  ASSUME ServerInv, Next
  PROVE  RequestsComplete'
<1> USE ServerAssumption
    DEF ServerInv, RestTypeOK, RequestsChosen, AnswersHeld, LengthsHeld, RequestsComplete, Complete,
        acceptVars, ownerVars, threadVars, peerVars, engineVars, Holding, Refused
<1>1. CASE Start
  BY <1>1 DEF Start, Opened
<1>2. CASE StopBegins
  BY <1>2 DEF StopBegins
<1>3. CASE StopCloses
  BY <1>3 DEF StopCloses, Closed
<1>4. CASE StopForgets
  BY <1>4 DEF StopForgets
<1>5. CASE StopJoins
  BY <1>5 DEF StopJoins
<1>6. CASE CheckRunning
  BY <1>6 DEF CheckRunning
<1>7. CASE EnterAccept
  BY <1>7 DEF EnterAccept, AfterFailure
<1>8. CASE AcceptFails
  BY <1>8 DEF AcceptFails, AfterFailure
<1>9. ASSUME NEW c \in Conn, Accept(c) PROVE RequestsComplete'
  BY <1>9 DEF Accept, Opened
<1>10. ASSUME NEW c \in Conn, Receive(c) PROVE RequestsComplete'
  <2>1. request[c] \in Exchanges /\ got[c] \in Nat
    BY <1>10 DEF Receive
  <2>2. PICK n \in (got[c] + 1)..(got[c] + Chunk) :
          \E length \in LengthsAfter(c, n) : ReceivesTo(c, n, length)
    BY <1>10, Zenon DEF Receive, ReceivesTo
  <2>3. PICK length \in LengthsAfter(c, n) : ReceivesTo(c, n, length)
    BY <2>2
  <2>4. n \in Nat /\ length \in Nat \cup {Malformed}
    BY <2>1, <2>3, LengthsWhat
  <2> QED
    BY <1>10, <2>1, <2>3, <2>4, ReceivedWhat, LengthsWhat DEF Receive, ReceivesTo
<1>11. ASSUME NEW c \in Conn, ReceiveFails(c) PROVE RequestsComplete'
  BY <1>11 DEF ReceiveFails, RecvFails
<1>12. ASSUME NEW c \in Conn, HandleRequest(c) PROVE RequestsComplete'
  <2>1. request[c] \in Exchanges /\ got[c] \in Nat
    BY <1>12 DEF HandleRequest
  <2>2. PICK o \in Outcomes(map, request[c], BodyOf(request[c], contentLength[c], got[c])) :
          /\ map' = o.map
          /\ code' = [code EXCEPT ![c] = o.code]
          /\ applied' = IF o.took THEN applied \cup {c} ELSE applied
    BY <1>12 DEF HandleRequest
  <2>3. BodyOf(request[c], contentLength[c], got[c]) \in Value \cup {Partial}
    BY <2>1, ServerAssumption DEF BodyOf
  <2>4. /\ o.took => Mutates(request[c])
        /\ \A k \in Key : o.map[k] = Partial =>
             map[k] = Partial
             \/ (BodyOf(request[c], contentLength[c], got[c]) = Partial /\ o.took)
    BY <2>1, <2>3, OutcomesAreTrue
  <2>5. got[c] >= request[c].header /\ Complete(c)
    BY <1>12 DEF HandleRequest
  <2>6. BodyOf(request[c], contentLength[c], got[c]) = Partial => ~request[c].fields
    BY <1>12, <2>1, <2>5 DEF HandleRequest, BodyOf
  <2>7. request[c].header < MaxHeader + Chunk
    BY <1>12, <2>5 DEF HandleRequest
  <2>8. applied \subseteq applied' /\ applied' \subseteq applied \cup {c}
        /\ (o.took => c \in applied')
    BY <2>2
  <2>9. \A k \in Key : map'[k] = Partial => \E d \in applied' : ~request'[d].fields
    <3>1. request' = request /\ map' = o.map
      BY <1>12, <2>2 DEF HandleRequest
    <3> QED
      BY <2>4, <2>6, <2>8, <3>1
  <2>10. \A d \in applied' : request'[d].header < MaxHeader + Chunk
    BY <1>12, <2>7, <2>8 DEF HandleRequest
  <2>11. \A d \in Conn :
           handler'[d] = "handle" \/ (handler'[d] \in {"send", "close"} /\ d \in applied')
             => got'[d] >= request'[d].header /\ Complete(d)'
    BY <1>12, <2>5, <2>8 DEF HandleRequest
  <2> QED
    BY <2>9, <2>10, <2>11
<1>13. ASSUME NEW c \in Conn, SendAll(c) PROVE RequestsComplete'
  BY <1>13 DEF SendAll
<1>14. ASSUME NEW c \in Conn, SendFails(c) PROVE RequestsComplete'
  BY <1>14 DEF SendFails
<1>15. ASSUME NEW c \in Conn, CloseClient(c) PROVE RequestsComplete'
  BY <1>15 DEF CloseClient, CloseSocket, Closed
<1>16. ASSUME NEW c \in Conn, Connect(c) PROVE RequestsComplete'
  BY <1>16 DEF Connect
<1>17. ASSUME NEW c \in Conn, PeerSends(c) PROVE RequestsComplete'
  BY <1>17 DEF PeerSends
<1>18. ASSUME NEW c \in Conn, PeerLeaves(c) PROVE RequestsComplete'
  BY <1>18 DEF PeerLeaves
<1>19. CASE ReadSocket
  BY <1>19 DEF ReadSocket
<1>20. ASSUME NEW c \in Conn, ParseRunsAway(c) PROVE RequestsComplete'
  BY <1>20 DEF ParseRunsAway
<1> QED
  BY <1>1, <1>2, <1>3, <1>4, <1>5, <1>6, <1>7, <1>8, <1>9,
     <1>10, <1>11, <1>12, <1>13, <1>14, <1>15, <1>16, <1>17, <1>18, <1>19, <1>20
  DEF Next, Stop, AcceptLoop, HandleClient, Peer

\* Every step keeps the types.
LEMMA TypesStep ==
  ASSUME ServerInv, Next
  PROVE  RestTypeOK'
<1> USE ServerAssumption
    DEF ServerInv, RestTypeOK, RequestsChosen, DescriptorsHeld, acceptVars, ownerVars, threadVars, peerVars, engineVars,
        Holding, Refused, Codes
<1>1. CASE Start
  <2>1. Min(FreeDescriptors) \in FreeDescriptors
    BY <1>1, LowestFree DEF Start, Opened
  <2>2. serverSocket' \in Descriptor
    BY <1>1, <2>1 DEF Start, FreeDescriptors
  <2>3. descriptors' \in [Descriptor -> Conn \cup {"free", "listener"}]
    BY <1>1 DEF Start, Opened
  <2> HIDE DEF RestTypeOK
  <2>4. RestTypeOK
    OBVIOUS
  <2> QED
    BY ONLY <1>1, <2>2, <2>3, <2>4
       DEF Start, Opened, RestTypeOK, Holding, Codes, threadVars, peerVars, engineVars
<1>2. CASE StopBegins
  BY <1>2, ZenonT(30) DEF StopBegins
<1>3. CASE StopCloses
  <2>1. Closed(serverSocket) \in [Descriptor -> Conn \cup {"free", "listener"}]
    BY DEF Closed
  <2> QED
    BY <1>3, <2>1 DEF StopCloses
<1>4. CASE StopForgets
  BY <1>4 DEF StopForgets
<1>5. CASE StopJoins
  BY <1>5 DEF StopJoins
<1>6. CASE CheckRunning
  BY <1>6 DEF CheckRunning
<1>7. CASE EnterAccept
  BY <1>7 DEF EnterAccept, AfterFailure
<1>8. CASE AcceptFails
  BY <1>8 DEF AcceptFails, AfterFailure
<1>9. ASSUME NEW c \in Conn, Accept(c) PROVE RestTypeOK'
  <2>1. Min(FreeDescriptors) \in FreeDescriptors
    BY <1>9, LowestFree DEF Accept, Opened
  <2> QED
    BY <1>9, <2>1 DEF Accept, Opened, FreeDescriptors
<1>10. ASSUME NEW c \in Conn, Receive(c) PROVE RestTypeOK'
  <2>1. request[c] \in Exchanges /\ got[c] \in Nat
    BY <1>10 DEF Receive
  <2>2. PICK n \in (got[c] + 1)..(got[c] + Chunk) :
          \E length \in LengthsAfter(c, n) : ReceivesTo(c, n, length)
    BY <1>10, Zenon DEF Receive, ReceivesTo
  <2>3. PICK length \in LengthsAfter(c, n) : ReceivesTo(c, n, length)
    BY <2>2
  <2>4. n \in Nat /\ length \in Nat \cup {Malformed}
    BY <2>1, <2>3, LengthsWhat
  <2> QED
    BY <1>10, <2>1, <2>3, <2>4, ReceivedWhat DEF Receive, ReceivesTo
<1>11. ASSUME NEW c \in Conn, ReceiveFails(c) PROVE RestTypeOK'
  BY <1>11 DEF ReceiveFails, RecvFails
<1>12. ASSUME NEW c \in Conn, HandleRequest(c) PROVE RestTypeOK'
  <2>1. request[c] \in Exchanges /\ got[c] \in Nat
    BY <1>12 DEF HandleRequest
  <2>2. PICK o \in Outcomes(map, request[c], BodyOf(request[c], contentLength[c], got[c])) :
          /\ map' = o.map
          /\ code' = [code EXCEPT ![c] = o.code]
          /\ applied' = IF o.took THEN applied \cup {c} ELSE applied
    BY <1>12 DEF HandleRequest
  <2>3. BodyOf(request[c], contentLength[c], got[c]) \in Value \cup {Partial}
    BY <2>1, ServerAssumption DEF BodyOf
  <2> QED
    BY <1>12, <2>1, <2>2, <2>3, OutcomesAreTrue DEF HandleRequest
<1>13. ASSUME NEW c \in Conn, SendAll(c) PROVE RestTypeOK'
  BY <1>13 DEF SendAll
<1>14. ASSUME NEW c \in Conn, SendFails(c) PROVE RestTypeOK'
  BY <1>14 DEF SendFails
<1>15. ASSUME NEW c \in Conn, CloseClient(c) PROVE RestTypeOK'
  BY <1>15 DEF CloseClient, CloseSocket, AfterClose, Closed
<1>16. ASSUME NEW c \in Conn, Connect(c) PROVE RestTypeOK'
  BY <1>16 DEF Connect
<1>17. ASSUME NEW c \in Conn, PeerSends(c) PROVE RestTypeOK'
  BY <1>17 DEF PeerSends
<1>18. ASSUME NEW c \in Conn, PeerLeaves(c) PROVE RestTypeOK'
  BY <1>18 DEF PeerLeaves
<1>19. CASE ReadSocket
  BY <1>19 DEF ReadSocket
<1>20. ASSUME NEW c \in Conn, ParseRunsAway(c) PROVE RestTypeOK'
  BY <1>20 DEF ParseRunsAway
<1> QED
  BY <1>1, <1>2, <1>3, <1>4, <1>5, <1>6, <1>7, <1>8, <1>9,
     <1>10, <1>11, <1>12, <1>13, <1>14, <1>15, <1>16, <1>17, <1>18, <1>19, <1>20
  DEF Next, Stop, AcceptLoop, HandleClient, Peer

-----------------------------------------------------------------------------
(* The theorems.                                                           *)

\* A server that has not started has no connection and no thread.
LEMMA InitServerInv == Init => ServerInv
<1> SUFFICES ASSUME Init PROVE ServerInv
  OBVIOUS
<1> USE ServerAssumption DEF Init
<1>1. RestTypeOK
  <2>1. map \in [Key -> Value \cup {NoValue, Partial}]
    OBVIOUS
  <2>2. inbox \in [Conn -> SUBSET (Conn \X Codes)] /\ applied \subseteq Conn
    OBVIOUS
  <2>3. code \in [Conn -> Codes] /\ request \in [Conn -> Exchanges \cup {NoValue}]
    BY DEF Codes
  <2>4. /\ descriptors \in [Descriptor -> Conn \cup {"free", "listener"}]
        /\ fd \in [Conn -> Descriptor \cup {NoDescriptor}]
        /\ handler \in [Conn -> Holding \cup {"none", "backlog", "refused", "done"}]
    OBVIOUS
  <2> QED
    BY <2>1, <2>2, <2>3, <2>4 DEF RestTypeOK
<1>2. RequestsChosen /\ ListenerHeld /\ DescriptorsHeld /\ LateHeld
  BY DEF RequestsChosen, ListenerHeld, DescriptorsHeld, LateHeld, Holding
<1>3. AnswersHeld /\ LengthsHeld /\ RequestsComplete
  BY DEF AnswersHeld, LengthsHeld, RequestsComplete, Holding
<1> QED
  BY <1>1, <1>2, <1>3 DEF ServerInv

\* Nothing changes what the invariant is about if nothing changes.
LEMMA StutterServerInv == ServerInv /\ UNCHANGED vars => ServerInv'
  BY DEF ServerInv, RestTypeOK, RequestsChosen, ListenerHeld, DescriptorsHeld,
         AnswersHeld, LengthsHeld, RequestsComplete, LateHeld, True, Complete,
         vars, acceptVars, ownerVars, threadVars, peerVars, engineVars

\* The server keeps its invariant whatever peers, threads and the owner do.
THEOREM ServerInvariant == Spec => []ServerInv
<1>1. ServerInv /\ [Next]_vars => ServerInv'
  BY TypesStep, ChosenStep, ListenerStep, DescriptorsStep, AnswersStep, LengthsStep,
     CompleteStep, LateStep, StutterServerInv DEF ServerInv
<1> QED
  BY InitServerInv, <1>1, PTL DEF Spec

\* Types, the status of every answer included (rest_server.cpp 1126-1192).
THEOREM ServerTypes == Spec => []RestTypeOK
<1>1. ServerInv => RestTypeOK
  BY DEF ServerInv
<1> QED
  BY <1>1, ServerInvariant, PTL

\* A peer gets one answer at most, and its own, however descriptors are used
\* again (rest_server.cpp 1087-1192).
THEOREM AnswersAreOwn == Spec => []OwnAnswers
<1>1. ServerInv => OwnAnswers
  <2> SUFFICES ASSUME ServerInv, NEW c \in Conn
               PROVE  /\ \A answer \in inbox[c] : answer[1] = c
                      /\ Cardinality(inbox[c]) <= 1
    BY DEF OwnAnswers
  <2>1. CASE inbox[c] = {}
    BY <2>1, FS_EmptySet
  <2>2. CASE \E status \in Codes : inbox[c] = {<<c, status>>}
    <3>1. PICK status \in Codes : inbox[c] = {<<c, status>>}
      BY <2>2
    <3>2. Cardinality({<<c, status>>}) = 1
      BY FS_Singleton
    <3> QED
      BY <3>1, <3>2
  <2> QED
    BY <2>1, <2>2 DEF ServerInv, AnswersHeld
<1> QED
  BY <1>1, ServerInvariant, PTL

\* What a peer is told of its mutation is true (rest_server.cpp 740-942).
THEOREM AnswersTellTheTruth == Spec => []AnswersAreTrue
<1>1. ServerInv => AnswersAreTrue
  BY DEF ServerInv, AnswersHeld, True, AnswersAreTrue
<1> QED
  BY <1>1, ServerInvariant, PTL

\* The engine is given whole bodies of accepted requests, if they have a header
\* line, and headers of bounded size in every case (338-489).
THEOREM RequestsAreWhole == Spec => []WholeRequestsOnly
<1>1. ServerInv => WholeRequestsOnly
  <2> SUFFICES ASSUME ServerInv, NEW c \in applied, handler[c] \in Holding,
                      request[c].fields
               PROVE  /\ got[c] - request[c].header >= request[c].length
                      /\ HeaderCode(request[c], request[c].length) = 200
    BY DEF WholeRequestsOnly, ServerInv, RequestsComplete
  <2>1. c \in Conn /\ handler[c] \in {"send", "close"}
    BY DEF ServerInv, RestTypeOK, AnswersHeld, Holding
  <2>2. got[c] >= request[c].header /\ Complete(c)
    BY <2>1 DEF ServerInv, RequestsComplete
  <2>3. contentLength[c] = request[c].length
    BY <2>1, <2>2 DEF ServerInv, LengthsHeld
  <2> QED
    BY <2>2, <2>3 DEF Complete
<1> QED
  BY <1>1, ServerInvariant, PTL

\* At most one connection is accepted after Stop has begun (1067-1124).
THEOREM AtMostOneLateClient == Spec => []OneLateClient
<1>1. ServerInv => OneLateClient
  BY DEF ServerInv, LateHeld, OneLateClient
<1> QED
  BY <1>1, ServerInvariant, PTL
=============================================================================
