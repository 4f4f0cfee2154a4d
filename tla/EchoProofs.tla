----------------------------- MODULE EchoProofs -----------------------------
(***************************************************************************)
(* Theorems about Echo, for any number of clients, messages of any length  *)
(* and any size of the buffer.                                             *)
(***************************************************************************)
EXTENDS Echo, SequenceTheorems, TLAPS

-----------------------------------------------------------------------------
(* The bytes of a client, and the queue *)

\* The bytes a client has written are numbered from 1 on.
LEMMA WroteBytes ==
    ASSUME TypeOK, NEW c \in Clients
    PROVE  /\ wrote[c] \in Nat /\ wrote[c] <= Length /\ Length \in Nat
           /\ Wrote(c) \in Seq(Byte) /\ Len(Wrote(c)) = wrote[c]
           /\ \A i \in 1 .. wrote[c] : /\ Wrote(c)[i] = [of |-> c, at |-> i]
                                       /\ Wrote(c)[i] \in Byte
<1>1. wrote[c] \in Nat /\ wrote[c] <= Length /\ Length \in Nat
  BY EchoAssumption DEF TypeOK
<1>2. \A i \in 1 .. wrote[c] : /\ Wrote(c)[i] = [of |-> c, at |-> i]
                               /\ Wrote(c)[i] \in Byte
  BY <1>1 DEF Wrote, Byte
<1>3. Wrote(c) \in [1 .. wrote[c] -> Byte]
  BY <1>2 DEF Wrote
<1>4. Wrote(c) \in Seq(Byte)
  BY <1>1, <1>3, SeqDef
<1>5. Len(Wrote(c)) = wrote[c]
  <2>1. Len(Wrote(c)) \in Nat /\ DOMAIN Wrote(c) = 1 .. Len(Wrote(c))
    BY <1>4, LenProperties
  <2>2. 1 .. Len(Wrote(c)) = 1 .. wrote[c]
    BY <1>3, <2>1
  <2> QED BY <1>1, <2>1, <2>2
<1> QED BY <1>1, <1>2, <1>4, <1>5

\* What is left of a queue when its first has been taken, by places.
LEMMA QueueTaken ==
    ASSUME NEW q \in Seq(Clients), q # <<>>
    PROVE  /\ Head(q) = q[1] /\ Head(q) \in Clients /\ 1 \in DOMAIN q
           /\ Tail(q) \in Seq(Clients)
           /\ \A i \in DOMAIN Tail(q) : i + 1 \in DOMAIN q /\ Tail(q)[i] = q[i + 1]
                                        /\ i + 1 # 1
           /\ \A i \in DOMAIN q : i = 1 \/ (i - 1 \in DOMAIN Tail(q)
                                            /\ q[i] = Tail(q)[i - 1])
<1>1. /\ Head(q) \in Clients /\ Tail(q) \in Seq(Clients) /\ Len(Tail(q)) = Len(q) - 1
      /\ \A i \in 1 .. Len(Tail(q)) : Tail(q)[i] = q[i + 1]
  BY HeadTailProperties
<1>2. /\ Len(q) \in Nat \ {0} /\ DOMAIN q = 1 .. Len(q)
      /\ DOMAIN Tail(q) = 1 .. Len(q) - 1
  BY <1>1, EmptySeq, LenProperties
<1>3. Head(q) = q[1]
  OBVIOUS
<1> QED BY <1>1, <1>2, <1>3

\* A queue with one more, by places.
LEMMA QueueJoined ==
    ASSUME NEW q \in Seq(Clients), NEW c \in Clients
    PROVE  /\ Append(q, c) \in Seq(Clients)
           /\ Len(q) \in Nat /\ DOMAIN q = 1 .. Len(q)
           /\ DOMAIN Append(q, c) = 1 .. Len(q) + 1
           /\ \A i \in DOMAIN q : Append(q, c)[i] = q[i]
           /\ Append(q, c)[Len(q) + 1] = c
<1>1. /\ Append(q, c) \in Seq(Clients) /\ Len(Append(q, c)) = Len(q) + 1
      /\ \A i \in 1 .. Len(q) : Append(q, c)[i] = q[i]
      /\ Append(q, c)[Len(q) + 1] = c
  BY AppendProperties
<1> QED BY <1>1, LenProperties

\* The first n of a buffer.
LEMMA FirstOf ==
    ASSUME NEW S, NEW s, NEW n \in Nat, \A i \in 1 .. n : s[i] \in S
    PROVE  /\ SubSeq(s, 1, n) \in Seq(S) /\ Len(SubSeq(s, 1, n)) = n
           /\ \A i \in 1 .. n : SubSeq(s, 1, n)[i] = s[i]
<1>1. 1 \in Int /\ n \in Int
  OBVIOUS
<1>2. /\ SubSeq(s, 1, n) \in Seq(S)
      /\ Len(SubSeq(s, 1, n)) = IF 1 <= n THEN n - 1 + 1 ELSE 0
      /\ \A i \in 1 .. n - 1 + 1 : SubSeq(s, 1, n)[i] = s[1 + i - 1]
  BY <1>1, SubSeqProperties
<1> DEFINE t == SubSeq(s, 1, n)
<1> HIDE DEF t
<1>3. Len(t) = IF 1 <= n THEN n - 1 + 1 ELSE 0
  BY <1>2 DEF t
<1>4. \A i \in 1 .. n - 1 + 1 : t[i] = s[1 + i - 1]
  BY <1>2 DEF t
<1>5. Len(t) = n /\ \A i \in 1 .. n : t[i] = s[i]
  BY <1>3, <1>4
<1> QED BY <1>2, <1>5 DEF t

-----------------------------------------------------------------------------
(* Types *)

\* The client that is served is a client.
LEMMA ServedIsClient ==
    ASSUME TypeOK, ServesOne, pc \in {"recv", "send"}
    PROVE  client_sh \in Clients /\ client_sh # NoClient
BY EchoAssumption DEF TypeOK, ServesOne

\* A part of what has come goes into the buffer.
LEMMA RecvEffect ==
    ASSUME TypeOK, ServesOne, EchoFollows, Recv
    PROVE  \E n \in 1 .. RCVBUFFSIZE :
             /\ read[client_sh] \in Nat /\ read[client_sh] + n <= wrote[client_sh]
             /\ msglen' = n
             /\ read' = [read EXCEPT ![client_sh] = read[client_sh] + n]
             /\ msg' \in [1 .. RCVBUFFSIZE -> Byte \cup {Stale}]
             /\ \A i \in 1 .. n :
                  msg'[i] = [of |-> client_sh, at |-> read[client_sh] + i]
<1>1. PICK n \in 1 .. RCVBUFFSIZE :
        /\ read[client_sh] + n <= wrote[client_sh]
        /\ msg' = [i \in 1 .. RCVBUFFSIZE |->
              IF i <= n THEN Wrote(client_sh)[read[client_sh] + i] ELSE msg[i]]
        /\ msglen' = n
        /\ read' = [read EXCEPT ![client_sh] = @ + n]
  BY DEF Recv
<1>2. client_sh \in Clients
  BY ServedIsClient DEF Recv
<1>3. /\ read[client_sh] \in Nat /\ wrote[client_sh] \in Nat
      /\ RCVBUFFSIZE \in Nat /\ msg \in [1 .. RCVBUFFSIZE -> Byte \cup {Stale}]
  BY <1>2, EchoAssumption DEF TypeOK
<1>4. ASSUME NEW i \in 1 .. n
      PROVE  /\ Wrote(client_sh)[read[client_sh] + i]
                  = [of |-> client_sh, at |-> read[client_sh] + i]
             /\ Wrote(client_sh)[read[client_sh] + i] \in Byte
             /\ i \in 1 .. RCVBUFFSIZE
  <2>1. read[client_sh] + i \in 1 .. wrote[client_sh]
    BY <1>1, <1>3
  <2> QED BY <1>2, <1>3, <2>1, WroteBytes
<1>5. msg' \in [1 .. RCVBUFFSIZE -> Byte \cup {Stale}]
  <2> DEFINE cell(i) == IF i <= n THEN Wrote(client_sh)[read[client_sh] + i] ELSE msg[i]
  <2>1. ASSUME NEW i \in 1 .. RCVBUFFSIZE PROVE cell(i) \in Byte \cup {Stale}
    <3>1. CASE i <= n
      <4>1. i \in 1 .. n
        BY <1>1, <1>3, <3>1
      <4> QED BY <1>4, <3>1, <4>1
    <3>2. CASE ~(i <= n)
      BY <1>3, <3>2
    <3> QED BY <3>1, <3>2
  <2>2. msg' = [i \in 1 .. RCVBUFFSIZE |-> cell(i)]
    BY <1>1
  <2> HIDE DEF cell
  <2> QED BY <2>1, <2>2
<1>6. \A i \in 1 .. n : msg'[i] = [of |-> client_sh, at |-> read[client_sh] + i]
  BY <1>1, <1>4
<1> QED BY <1>1, <1>3, <1>5, <1>6

\* What is in the buffer is sent after what has been sent.
LEMMA SendEffect ==
    ASSUME TypeOK, ServesOne, EchoFollows, Send
    PROVE  /\ client_sh \in Clients
           /\ echoed' \in [Clients -> Seq(Byte)]
           /\ \A c \in Clients : c # client_sh => echoed'[c] = echoed[c]
           /\ Len(echoed'[client_sh]) = read[client_sh]
           /\ \A i \in DOMAIN echoed'[client_sh] :
                echoed'[client_sh][i] = [of |-> client_sh, at |-> i]
<1> DEFINE before == echoed[client_sh]  new == SubSeq(msg, 1, msglen)
<1>1. client_sh \in Clients /\ pc = "send"
  BY ServedIsClient DEF Send
<1>2. /\ msglen \in Nat /\ read[client_sh] \in Nat /\ before \in Seq(Byte)
      /\ read[client_sh] <= Length /\ Length \in Nat
      /\ Len(before) \in Nat /\ Len(before) = read[client_sh] - msglen
      /\ \A i \in 1 .. Len(before) : before[i] = [of |-> client_sh, at |-> i]
  <2>1. /\ before \in Seq(Byte) /\ msglen \in Nat
        /\ read[client_sh] \in 0 .. Length /\ Length \in Nat
    BY <1>1, EchoAssumption DEF TypeOK
  <2>2. Len(before) \in Nat /\ DOMAIN before = 1 .. Len(before)
    BY <2>1, LenProperties
  <2>3. Len(before) = read[client_sh] - msglen
    BY <1>1 DEF EchoFollows, SendsFrom
  <2>4. \A i \in DOMAIN before : before[i] = [of |-> client_sh, at |-> i]
    BY <1>1 DEF EchoFollows
  <2> QED BY <2>1, <2>2, <2>3, <2>4
<1>3. \A i \in 1 .. msglen : /\ msg[i] = [of |-> client_sh, at |-> Len(before) + i]
                             /\ msg[i] \in Byte
  <2> SUFFICES ASSUME NEW i \in 1 .. msglen
               PROVE  /\ msg[i] = [of |-> client_sh, at |-> Len(before) + i]
                      /\ msg[i] \in Byte
    OBVIOUS
  <2>1. msg[i] = [of |-> client_sh, at |-> Len(before) + i]
    BY <1>1, <1>2 DEF EchoFollows, SendsFrom
  <2>2. Len(before) + i \in 1 .. Length
    BY <1>2
  <2> QED BY <1>1, <2>1, <2>2 DEF Byte
<1>4. /\ new \in Seq(Byte) /\ Len(new) = msglen
      /\ \A i \in 1 .. msglen : new[i] = msg[i]
  <2>1. msglen \in Nat /\ \A i \in 1 .. msglen : msg[i] \in Byte
    BY <1>2, <1>3
  <2> HIDE DEF before
  <2> QED BY <2>1, FirstOf
<1> HIDE DEF new, before
<1>5. /\ before \o new \in Seq(Byte) /\ Len(before \o new) = read[client_sh]
      /\ \A i \in 1 .. read[client_sh] :
           (before \o new)[i] = IF i <= Len(before) THEN before[i] ELSE new[i - Len(before)]
  <2>1. Len(before) + Len(new) = read[client_sh]
    BY <1>2, <1>4
  <2>2. before \in Seq(Byte) /\ new \in Seq(Byte)
    BY <1>2, <1>4
  <2>3. /\ before \o new \in Seq(Byte) /\ Len(before \o new) = Len(before) + Len(new)
        /\ \A i \in 1 .. Len(before) + Len(new) :
             (before \o new)[i] = IF i <= Len(before) THEN before[i]
                                 ELSE new[i - Len(before)]
    BY <2>2, ConcatProperties
  <2> QED BY <2>1, <2>3
<1>6. \A i \in 1 .. read[client_sh] : (before \o new)[i] = [of |-> client_sh, at |-> i]
  <2> SUFFICES ASSUME NEW i \in 1 .. read[client_sh]
               PROVE  (before \o new)[i] = [of |-> client_sh, at |-> i]
    OBVIOUS
  <2>1. CASE i <= Len(before)
    BY <1>2, <1>5, <2>1
  <2>2. CASE ~(i <= Len(before))
    <3>1. i - Len(before) \in 1 .. msglen /\ Len(before) + (i - Len(before)) = i
      BY <1>2, <2>2
    <3>2. (before \o new)[i] = new[i - Len(before)]
      BY <1>5, <2>2
    <3> QED BY <1>3, <1>4, <3>1, <3>2
  <2> QED BY <2>1, <2>2
<1>7. /\ echoed' = [echoed EXCEPT ![client_sh] = before \o new]
      /\ echoed \in [Clients -> Seq(Byte)]
  BY DEF Send, TypeOK, before, new
<1>8. echoed'[client_sh] = before \o new /\ echoed' \in [Clients -> Seq(Byte)]
  BY <1>1, <1>5, <1>7
<1>9. DOMAIN echoed'[client_sh] = 1 .. read[client_sh]
  BY <1>5, <1>8, LenProperties
<1> QED BY <1>1, <1>5, <1>6, <1>7, <1>8, <1>9

\* The initial states.
LEMMA Initially == Init => TypeOK /\ ServesOne /\ Waiting /\ EchoFollows /\ OnlyEndedAreLeaked
<1> SUFFICES ASSUME Init
             PROVE  TypeOK /\ ServesOne /\ Waiting /\ EchoFollows /\ OnlyEndedAreLeaked
  OBVIOUS
<1>1. Length \in Nat /\ RCVBUFFSIZE \in Nat
  BY EchoAssumption
<1>2. <<>> \in Seq(Clients) /\ <<>> \in Seq(Byte) /\ Len(<<>>) = 0 /\ DOMAIN <<>> = {}
  OBVIOUS
<1>3. TypeOK
  BY <1>1, <1>2 DEF Init, TypeOK
<1>4. ServesOne /\ OnlyEndedAreLeaked
  BY DEF Init, ServesOne, OnlyEndedAreLeaked
<1>5. Waiting
  BY <1>2 DEF Init, Waiting
<1>6. EchoFollows
  BY <1>2 DEF Init, EchoFollows
<1> QED BY <1>3, <1>4, <1>5, <1>6

\* Every step keeps the types, and the server has a connection while it serves.
LEMMA TypesInductive ==
    ASSUME TypeOK, ServesOne, EchoFollows, [Next]_vars
    PROVE  TypeOK' /\ ServesOne'
<1> USE DEF server, client
<1>1. CASE Accept
  <2>1. /\ queue \in Seq(Clients) /\ queue # <<>> /\ client_sh' = Head(queue)
        /\ queue' = Tail(queue) /\ open' = open \cup {Head(queue)} /\ pc' = "recv"
        /\ UNCHANGED <<msg, msglen, read, echoed, phase, wrote>>
    BY <1>1 DEF Accept, TypeOK
  <2>2. Head(queue) \in Clients /\ Tail(queue) \in Seq(Clients)
    BY <2>1, QueueTaken
  <2> QED BY <2>1, <2>2 DEF TypeOK, ServesOne
<1>2. CASE AcceptFails \/ BrokenPipe
  <2>1. <<>> \in Seq(Clients)
    OBVIOUS
  <2> QED BY <1>2, <2>1 DEF AcceptFails, BrokenPipe, Exits, TypeOK, ServesOne
<1>3. CASE Recv
  <2>1. PICK n \in 1 .. RCVBUFFSIZE :
          /\ read[client_sh] \in Nat /\ read[client_sh] + n <= wrote[client_sh]
          /\ msglen' = n
          /\ read' = [read EXCEPT ![client_sh] = read[client_sh] + n]
          /\ msg' \in [1 .. RCVBUFFSIZE -> Byte \cup {Stale}]
    BY <1>3, RecvEffect
  <2>2. /\ client_sh \in Clients /\ wrote[client_sh] \in 0 .. Length
        /\ Length \in Nat /\ RCVBUFFSIZE \in Nat
    BY <1>3, ServedIsClient, EchoAssumption DEF Recv, TypeOK
  <2>3. read[client_sh] + n \in 0 .. Length /\ n \in 0 .. RCVBUFFSIZE
    BY <2>1, <2>2
  <2>4. read' \in [Clients -> 0 .. Length]
    BY <2>1, <2>3 DEF TypeOK
  <2> QED BY <1>3, <2>1, <2>3, <2>4 DEF Recv, TypeOK, ServesOne
<1>4. CASE RecvEnd
  <2>1. 0 \in 0 .. RCVBUFFSIZE
    BY EchoAssumption
  <2> QED BY <1>4, <2>1 DEF RecvEnd, TypeOK, ServesOne
<1>5. CASE RecvFails \/ SendFails
  BY <1>5 DEF RecvFails, SendFails, CloseClient, TypeOK, ServesOne
<1>6. CASE Send
  <2>1. echoed' \in [Clients -> Seq(Byte)]
    BY <1>6, SendEffect
  <2> QED BY <1>6, <2>1 DEF Send, TypeOK, ServesOne
<1>7. ASSUME NEW c \in Clients, Client(c) PROVE TypeOK' /\ ServesOne'
  <2>1. CASE Connect(c)
    <3>1. queue' \in Seq(Clients)
      BY <2>1, QueueJoined DEF Connect, TypeOK
    <3> QED BY <2>1, <3>1 DEF Connect, TypeOK, ServesOne
  <2>2. CASE Write(c)
    <3>1. PICK n \in wrote[c] + 1 .. Length : wrote' = [wrote EXCEPT ![c] = n]
      BY <2>2 DEF Write
    <3>2. n \in 0 .. Length
      BY EchoAssumption DEF TypeOK
    <3> QED BY <2>2, <3>1, <3>2 DEF Write, TypeOK, ServesOne
  <2>3. CASE Leave(c)
    BY <2>3 DEF Leave, TypeOK, ServesOne
  <2> QED BY <1>7, <2>1, <2>2, <2>3 DEF Client
<1>8. CASE UNCHANGED vars
  BY <1>8 DEF vars, TypeOK, ServesOne
<1> QED BY <1>1, <1>2, <1>3, <1>4, <1>5, <1>6, <1>7, <1>8 DEF Next, Server

-----------------------------------------------------------------------------
(* Who waits *)

\* Every step keeps the queue a queue of clients nothing has been read of.
LEMMA WaitingInductive ==
    ASSUME TypeOK, ServesOne, Waiting, EchoFollows, [Next]_vars
    PROVE  Waiting'
<1> USE DEF server, client
<1>0. queue \in Seq(Clients) /\ \A i \in DOMAIN queue : queue[i] \in Clients
  BY ElementOfSeq, LenProperties DEF TypeOK
<1>1. CASE Accept
  <2>1. /\ queue # <<>> /\ queue' = Tail(queue) /\ open' = open \cup {Head(queue)}
        /\ UNCHANGED <<read, phase, wrote>>
    BY <1>1 DEF Accept
  <2>2. /\ Head(queue) = queue[1] /\ Head(queue) \in Clients /\ 1 \in DOMAIN queue
        /\ \A i \in DOMAIN queue' : i + 1 \in DOMAIN queue /\ queue'[i] = queue[i + 1]
                                    /\ i + 1 # 1
    BY <1>0, <2>1, QueueTaken
  <2>3. \A i \in DOMAIN queue' : queue'[i] \notin open' /\ read'[queue'[i]] = 0
    BY <2>1, <2>2 DEF Waiting
  <2>4. \A i, j \in DOMAIN queue' : queue'[i] = queue'[j] => i = j
    <3> SUFFICES ASSUME NEW i \in DOMAIN queue', NEW j \in DOMAIN queue',
                        queue'[i] = queue'[j]
                 PROVE  i = j
      OBVIOUS
    <3>1. i + 1 = j + 1
      BY <2>2 DEF Waiting
    <3>2. i \in Nat /\ j \in Nat
      BY <1>0, <2>1, QueueTaken, LenProperties
    <3> QED BY <3>1, <3>2
  <2>5. ASSUME NEW c \in Clients, phase'[c] = "away"
        PROVE  c \notin open' /\ wrote'[c] = 0 /\ \A i \in DOMAIN queue' : queue'[i] # c
    BY <2>1, <2>2, <2>5 DEF Waiting
  <2> QED BY <2>3, <2>4, <2>5 DEF Waiting
<1>2. CASE AcceptFails \/ BrokenPipe
  <2>1. DOMAIN queue' = {} /\ open' = {} /\ UNCHANGED <<phase, wrote>>
    BY <1>2 DEF AcceptFails, BrokenPipe, Exits
  <2> QED BY <2>1 DEF Waiting
<1>3. CASE Recv
  <2>1. \E n : read' = [read EXCEPT ![client_sh] = n]
    BY <1>3 DEF Recv
  <2>2. client_sh \in open /\ UNCHANGED <<open, queue, phase, wrote>>
    BY <1>3 DEF Recv, ServesOne
  <2>3. \A i \in DOMAIN queue : read'[queue[i]] = read[queue[i]]
    BY <1>0, <2>1, <2>2 DEF Waiting, TypeOK
  <2> QED BY <2>2, <2>3 DEF Waiting
<1>4. CASE RecvEnd \/ Send \/ RecvFails \/ SendFails
  <2>1. open' \subseteq open /\ UNCHANGED <<queue, read, phase, wrote>>
    BY <1>4 DEF RecvEnd, Send, RecvFails, SendFails, CloseClient
  <2> QED BY <2>1 DEF Waiting
<1>5. ASSUME NEW c \in Clients, Connect(c) PROVE Waiting'
  <2>1. /\ phase[c] = "away" /\ phase' = [phase EXCEPT ![c] = "connected"]
        /\ queue' = Append(queue, c) /\ UNCHANGED <<open, read, wrote>>
    BY <1>5 DEF Connect
  <2>2. /\ Len(queue) \in Nat /\ DOMAIN queue = 1 .. Len(queue)
        /\ DOMAIN queue' = 1 .. Len(queue) + 1
        /\ \A i \in DOMAIN queue : queue'[i] = queue[i]
        /\ queue'[Len(queue) + 1] = c
    BY <1>0, <2>1, QueueJoined
  <2>3. \A i \in DOMAIN queue' : i \in DOMAIN queue \/ i = Len(queue) + 1
    BY <2>2
  <2>4. /\ c \notin open /\ wrote[c] = 0 /\ \A i \in DOMAIN queue : queue[i] # c
    BY <2>1 DEF Waiting
  <2>5. read[c] = 0
    BY <2>4 DEF EchoFollows, TypeOK
  <2>6. \A i \in DOMAIN queue' : queue'[i] \notin open' /\ read'[queue'[i]] = 0
    BY <2>1, <2>2, <2>3, <2>4, <2>5 DEF Waiting
  <2>7. \A i, j \in DOMAIN queue' : queue'[i] = queue'[j] => i = j
    BY <2>2, <2>3, <2>4 DEF Waiting
  <2>8. ASSUME NEW d \in Clients, phase'[d] = "away"
        PROVE  d \notin open' /\ wrote'[d] = 0 /\ \A i \in DOMAIN queue' : queue'[i] # d
    <3>1. d # c /\ phase[d] = "away"
      BY <2>1, <2>8 DEF TypeOK
    <3> QED BY <2>1, <2>2, <2>3, <3>1 DEF Waiting
  <2> QED BY <2>6, <2>7, <2>8 DEF Waiting
<1>6. ASSUME NEW c \in Clients, Write(c) \/ Leave(c) PROVE Waiting'
  <2>1. UNCHANGED <<open, queue, read>>
    BY <1>6 DEF Write, Leave
  <2>2. ASSUME NEW d \in Clients, phase'[d] = "away"
        PROVE  phase[d] = "away" /\ wrote'[d] = wrote[d]
    BY <1>6, <2>2 DEF Write, Leave, TypeOK
  <2> QED BY <2>1, <2>2 DEF Waiting
<1>7. CASE UNCHANGED vars
  BY <1>7 DEF vars, Waiting
<1> QED BY <1>1, <1>2, <1>3, <1>4, <1>5, <1>6, <1>7 DEF Next, Server, Client

-----------------------------------------------------------------------------
(* What is echoed *)

\* Every step keeps what has been sent an initial part of what was read, and
\* the buffer next after it.
LEMMA EchoInductive ==
    ASSUME TypeOK, ServesOne, Waiting, EchoFollows, [Next]_vars
    PROVE  EchoFollows'
<1> USE DEF server, client
<1>0. /\ \A c \in Clients : /\ read[c] \in Nat /\ wrote[c] \in Nat
                            /\ echoed[c] \in Seq(Byte) /\ Len(echoed[c]) \in Nat
      /\ Length \in Nat
  BY EchoAssumption, LenProperties DEF TypeOK
<1>1. CASE Accept
  <2>1. /\ queue \in Seq(Clients) /\ queue # <<>> /\ client_sh' = Head(queue)
        /\ pc' = "recv" /\ UNCHANGED <<msg, msglen, read, echoed, phase, wrote>>
    BY <1>1 DEF Accept, TypeOK
  <2>2. Head(queue) \in Clients /\ Head(queue) = queue[1] /\ 1 \in DOMAIN queue
    BY <2>1, QueueTaken
  <2>3. read[Head(queue)] = 0
    BY <2>2 DEF Waiting
  <2>4. Len(echoed[Head(queue)]) = 0
    BY <1>0, <2>2, <2>3 DEF EchoFollows
  <2>5. Len(echoed'[client_sh']) = SendsFrom'
    BY <2>1, <2>2, <2>3, <2>4 DEF SendsFrom
  <2>6. \A c \in Clients :
          /\ read'[c] <= wrote'[c] /\ Len(echoed'[c]) <= read'[c]
          /\ \A i \in DOMAIN echoed'[c] : echoed'[c][i] = [of |-> c, at |-> i]
    BY <2>1 DEF EchoFollows
  <2> QED BY <2>1, <2>5, <2>6 DEF EchoFollows
<1>2. CASE pc' \notin {"recv", "send"} /\ UNCHANGED <<read, echoed, wrote>>
  BY <1>2 DEF EchoFollows
<1>3. CASE Recv
  <2>1. PICK n \in 1 .. RCVBUFFSIZE :
          /\ read[client_sh] \in Nat /\ read[client_sh] + n <= wrote[client_sh]
          /\ msglen' = n
          /\ read' = [read EXCEPT ![client_sh] = read[client_sh] + n]
          /\ \A i \in 1 .. n :
               msg'[i] = [of |-> client_sh, at |-> read[client_sh] + i]
    BY <1>3, RecvEffect
  <2>2. /\ client_sh \in Clients /\ pc = "recv" /\ pc' = "send" /\ n \in Nat
        /\ UNCHANGED <<client_sh, echoed, wrote, phase>>
    BY <1>3, ServedIsClient, EchoAssumption DEF Recv
  <2>3. /\ read'[client_sh] = read[client_sh] + n
        /\ \A c \in Clients : c # client_sh => read'[c] = read[c]
    BY <2>1, <2>2 DEF TypeOK
  <2>4. SendsFrom' = read[client_sh] /\ SendsFrom = read[client_sh]
    BY <1>0, <2>1, <2>2, <2>3 DEF SendsFrom
  <2>5. \A c \in Clients : read'[c] <= wrote'[c] /\ Len(echoed'[c]) <= read'[c]
    <3> SUFFICES ASSUME NEW c \in Clients
                 PROVE  read'[c] <= wrote'[c] /\ Len(echoed'[c]) <= read'[c]
      OBVIOUS
    <3>1. CASE c = client_sh
      BY <1>0, <2>1, <2>2, <2>3, <3>1 DEF EchoFollows
    <3>2. CASE c # client_sh
      BY <2>2, <2>3, <3>2 DEF EchoFollows
    <3> QED BY <3>1, <3>2
  <2> QED BY <2>1, <2>2, <2>4, <2>5 DEF EchoFollows
<1>4. CASE RecvEnd \/ RecvFails \/ SendFails \/ AcceptFails \/ BrokenPipe
  <2>1. pc' \notin {"recv", "send"} /\ UNCHANGED <<read, echoed, wrote>>
    BY <1>4 DEF RecvEnd, RecvFails, SendFails, CloseClient, AcceptFails, BrokenPipe,
                Exits
  <2> QED BY <1>2, <2>1
<1>5. CASE Send
  <2>1. /\ client_sh \in Clients
        /\ \A c \in Clients : c # client_sh => echoed'[c] = echoed[c]
        /\ Len(echoed'[client_sh]) = read[client_sh]
        /\ \A i \in DOMAIN echoed'[client_sh] :
             echoed'[client_sh][i] = [of |-> client_sh, at |-> i]
    BY <1>5, SendEffect
  <2>2. /\ pc' = "recv" /\ UNCHANGED <<client_sh, msg, msglen, read, wrote, phase>>
    BY <1>5 DEF Send
  <2>3. SendsFrom' = read[client_sh]
    BY <1>0, <2>1, <2>2 DEF SendsFrom
  <2>4. ASSUME NEW c \in Clients
        PROVE  /\ read'[c] <= wrote'[c] /\ Len(echoed'[c]) <= read'[c]
               /\ \A i \in DOMAIN echoed'[c] : echoed'[c][i] = [of |-> c, at |-> i]
    <3>1. CASE c = client_sh
      BY <1>0, <2>1, <2>2, <3>1 DEF EchoFollows
    <3>2. CASE c # client_sh
      BY <2>1, <2>2, <3>2 DEF EchoFollows
    <3> QED BY <3>1, <3>2
  <2> QED BY <2>1, <2>2, <2>3, <2>4 DEF EchoFollows
<1>6. ASSUME NEW c \in Clients, Connect(c) \/ Leave(c) PROVE EchoFollows'
  <2>1. UNCHANGED <<pc, client_sh, msg, msglen, read, echoed, wrote>>
    BY <1>6 DEF Connect, Leave
  <2>2. SendsFrom' = SendsFrom
    BY <2>1 DEF SendsFrom
  <2> QED BY <2>1, <2>2 DEF EchoFollows
<1>7. ASSUME NEW c \in Clients, Write(c) PROVE EchoFollows'
  <2>1. PICK n \in wrote[c] + 1 .. Length : wrote' = [wrote EXCEPT ![c] = n]
    BY <1>7 DEF Write
  <2>2. UNCHANGED <<pc, client_sh, msg, msglen, read, echoed, phase>>
    BY <1>7 DEF Write
  <2>3. SendsFrom' = SendsFrom
    BY <2>2 DEF SendsFrom
  <2>4. \A d \in Clients : wrote'[d] >= wrote[d] /\ wrote'[d] \in Nat
    BY <1>0, <2>1 DEF TypeOK
  <2>5. \A d \in Clients : read[d] <= wrote'[d]
    BY <1>0, <2>4 DEF EchoFollows
  <2> QED BY <2>2, <2>3, <2>5 DEF EchoFollows
<1>8. CASE UNCHANGED vars
  <2>1. SendsFrom' = SendsFrom
    BY <1>8 DEF vars, SendsFrom
  <2> QED BY <1>8, <2>1 DEF vars, EchoFollows
<1> QED BY <1>1, <1>3, <1>4, <1>5, <1>6, <1>7, <1>8 DEF Next, Server, Client

\* What has been sent is a prefix of what the client wrote.
LEMMA FollowsIsOwn ==
    ASSUME TypeOK, EchoFollows
    PROVE  EchoIsOwn
<1> SUFFICES ASSUME NEW c \in Clients PROVE IsPrefix(echoed[c], Wrote(c))
  BY DEF EchoIsOwn
<1> DEFINE s == echoed[c]  t == Wrote(c)
<1>1. /\ s \in Seq(Byte) /\ Len(s) \in Nat /\ DOMAIN s = 1 .. Len(s)
      /\ t \in Seq(Byte) /\ Len(t) = wrote[c] /\ wrote[c] \in Nat /\ read[c] \in Nat
      /\ \A i \in 1 .. wrote[c] : t[i] = [of |-> c, at |-> i]
  BY WroteBytes, LenProperties, EchoAssumption DEF TypeOK
<1>2. Len(s) <= Len(t)
  BY <1>1 DEF EchoFollows
<1>3. \A i \in 1 .. Len(s) : s[i] = [of |-> c, at |-> i] /\ t[i] = [of |-> c, at |-> i]
  BY <1>1, <1>2 DEF EchoFollows
<1> HIDE DEF s, t
<1>4. SubSeq(s, 1, Len(s)) = s
  BY <1>1, SubSeqFull
<1>5. SubSeq(t, 1, Len(s)) = s
  <2>1. \A i \in 1 .. Len(s) : t[i] \in Byte
    BY <1>1, <1>2, ElementOfSeq
  <2>2. /\ SubSeq(t, 1, Len(s)) \in Seq(Byte) /\ Len(SubSeq(t, 1, Len(s))) = Len(s)
        /\ \A i \in 1 .. Len(s) : SubSeq(t, 1, Len(s))[i] = t[i]
    BY <1>1, <2>1, FirstOf
  <2> DEFINE u == SubSeq(t, 1, Len(s))
  <2> HIDE DEF u
  <2>3. u \in Seq(Byte) /\ Len(u) = Len(s) /\ \A i \in 1 .. Len(u) : u[i] = s[i]
    BY <1>3, <2>2 DEF u
  <2>4. u = s
    BY <1>1, <2>3, SeqEqual
  <2> QED BY <2>4 DEF u
<1> QED BY <1>2, <1>4, <1>5 DEF IsPrefix, s, t

-----------------------------------------------------------------------------
(* Which descriptors are left *)

\* The server drops a descriptor only of a client that has gone, and forgets
\* one only of a client that has ended its side.
LEMMA LeakInductive ==
    ASSUME TypeOK, ServesOne, Waiting, OnlyEndedAreLeaked, [Next]_vars
    PROVE  OnlyEndedAreLeaked'
<1> USE DEF server, client
<1>0. queue \in Seq(Clients)
  BY DEF TypeOK
<1>1. \A q \in Seq(Clients) : \A c : c \in ToSet(q) <=> \E i \in DOMAIN q : q[i] = c
  BY DEF ToSet
<1>2. CASE Accept
  <2>1. /\ pc = "accept" /\ client_sh = NoClient /\ queue # <<>>
        /\ client_sh' = Head(queue) /\ queue' = Tail(queue)
        /\ open' = open \cup {Head(queue)} /\ UNCHANGED phase
    BY <1>2 DEF Accept, ServesOne
  <2>2. /\ Head(queue) = queue[1] /\ Tail(queue) \in Seq(Clients)
        /\ \A i \in DOMAIN queue : i = 1 \/ (i - 1 \in DOMAIN Tail(queue)
                                             /\ queue[i] = Tail(queue)[i - 1])
    BY <1>0, <2>1, QueueTaken
  <2>3. ASSUME NEW c \in ToSet(queue) PROVE c \in open' \/ c \in ToSet(queue')
    <3>1. PICK i \in DOMAIN queue : queue[i] = c
      BY <1>0, <1>1, <2>3
    <3>2. CASE i = 1
      BY <2>1, <2>2, <3>1, <3>2
    <3>3. CASE i - 1 \in DOMAIN queue' /\ c = queue'[i - 1]
      BY <1>1, <2>1, <2>2, <3>3
    <3> QED BY <2>1, <2>2, <3>1, <3>2, <3>3
  <2>4. ASSUME NEW c \in Clients, c \in open', c # client_sh'
        PROVE  phase'[c] \in {"ended", "gone"}
    BY <2>1, <2>4, EchoAssumption DEF OnlyEndedAreLeaked
  <2> QED BY <2>1, <2>3, <2>4 DEF OnlyEndedAreLeaked
<1>3. CASE AcceptFails \/ BrokenPipe
  BY <1>3 DEF AcceptFails, BrokenPipe, Exits, OnlyEndedAreLeaked
<1>4. CASE Recv \/ Send
  <2>1. pc # "exited" /\ UNCHANGED <<client_sh, open, queue, phase>>
    BY <1>4 DEF Recv, Send
  <2> QED BY <2>1 DEF OnlyEndedAreLeaked
<1>5. CASE RecvEnd
  <2>1. /\ pc # "exited" /\ phase[client_sh] \in {"ended", "gone"}
        /\ UNCHANGED <<open, queue, phase>>
    BY <1>5 DEF RecvEnd
  <2> QED BY <2>1 DEF OnlyEndedAreLeaked
<1>6. CASE RecvFails \/ SendFails
  <2>1. /\ pc # "exited" /\ phase[client_sh] = "gone" /\ open' = open \ {client_sh}
        /\ UNCHANGED <<queue, phase>>
    BY <1>6 DEF RecvFails, SendFails, CloseClient
  <2> QED BY <2>1 DEF OnlyEndedAreLeaked
<1>7. ASSUME NEW c \in Clients, Connect(c) PROVE OnlyEndedAreLeaked'
  <2>1. /\ phase[c] = "away" /\ phase' = [phase EXCEPT ![c] = "connected"]
        /\ queue' = Append(queue, c) /\ UNCHANGED <<pc, client_sh, open>>
        /\ pc # "exited"
    BY <1>7 DEF Connect
  <2>2. /\ queue' \in Seq(Clients) /\ DOMAIN queue = 1 .. Len(queue) /\ Len(queue) \in Nat
        /\ DOMAIN queue' = 1 .. Len(queue) + 1
        /\ \A i \in DOMAIN queue : queue'[i] = queue[i]
        /\ queue'[Len(queue) + 1] = c
    BY <1>0, <2>1, QueueJoined
  <2>3. c \in ToSet(queue') /\ \A d \in ToSet(queue) : d \in ToSet(queue')
    BY <1>0, <1>1, <2>2
  <2>4. c \notin open /\ \A d \in Clients : d # c => phase'[d] = phase[d]
    BY <2>1 DEF Waiting, TypeOK
  <2> QED BY <2>1, <2>3, <2>4 DEF OnlyEndedAreLeaked
<1>8. ASSUME NEW c \in Clients, Write(c) PROVE OnlyEndedAreLeaked'
  BY <1>8 DEF Write, OnlyEndedAreLeaked
<1>9. ASSUME NEW c \in Clients, Leave(c) PROVE OnlyEndedAreLeaked'
  <2>1. /\ phase[c] \in {"connected", "ended"} /\ UNCHANGED <<pc, client_sh, open, queue>>
        /\ \E p \in {"ended", "gone"} : phase' = [phase EXCEPT ![c] = p]
    BY <1>9 DEF Leave
  <2>2. /\ phase'[c] \in {"ended", "gone"}
        /\ \A d \in Clients : d # c => phase'[d] = phase[d]
    BY <2>1 DEF TypeOK
  <2> QED BY <2>1, <2>2 DEF OnlyEndedAreLeaked
<1>10. CASE UNCHANGED vars
  BY <1>10 DEF vars, OnlyEndedAreLeaked
<1> QED BY <1>2, <1>3, <1>4, <1>5, <1>6, <1>7, <1>8, <1>9, <1>10
        DEF Next, Server, Client

-----------------------------------------------------------------------------
\* What the three properties rest on, in every reachable state.
THEOREM EchoKept == Spec => [](TypeOK /\ ServesOne /\ Waiting /\ EchoFollows)
<1>1. TypeOK /\ ServesOne /\ Waiting /\ EchoFollows /\ [Next]_vars
        => (TypeOK /\ ServesOne /\ Waiting /\ EchoFollows)'
  BY TypesInductive, WaitingInductive, EchoInductive
<1> QED BY <1>1, Initially, PTL DEF Spec

\* The buffer, the queue and the counts of bytes have their types (TypeOK).
THEOREM TypeCorrect == Spec => []TypeOK
BY EchoKept, PTL

\* A client is sent its own bytes, in order, none twice and none of another
\* client's left in the buffer (EchoIsOwn), whatever recv returns.
THEOREM EchoesAreOwn == Spec => []EchoIsOwn
<1>1. TypeOK /\ EchoFollows => EchoIsOwn
  BY FollowsIsOwn
<1> QED BY <1>1, EchoKept, PTL

\* The server keeps a descriptor too many for a client that ended its side, and
\* for no other (OnlyEndedAreLeaked).
THEOREM LeaksAreOfEnded == Spec => []OnlyEndedAreLeaked
<1>1. TypeOK /\ ServesOne /\ Waiting /\ OnlyEndedAreLeaked /\ [Next]_vars
        => OnlyEndedAreLeaked'
  BY LeakInductive
<1> QED BY <1>1, Initially, EchoKept, PTL DEF Spec
=============================================================================
