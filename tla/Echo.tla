-------------------------------- MODULE Echo --------------------------------
(***************************************************************************)
(* "Primer ftp": the echo server, one client after another, and its client  *)
(* echoc.  A byte is its sender and its place in what the sender wrote; TCP *)
(* hands the bytes over in any portions.                                    *)
(***************************************************************************)
EXTENDS Integers, FiniteSets, SequencesExt

CONSTANTS
    Clients, NoClient,
    Length,         \* bytes a client writes (bound); all of msgsend for echoc
    RCVBUFFSIZE,
    MaxFd           \* descriptors the server can have for connections

ASSUME EchoAssumption ==
    NoClient \notin Clients /\ {Length, RCVBUFFSIZE, MaxFd} \subseteq Nat \ {0}

VARIABLES
    pc,             \* where the server is
    client_sh,      \* the connection it serves
    open,           \* the connections it has a descriptor for
    msg, msglen,    \* its buffer
    queue,          \* connections not accepted yet
    phase,          \* phase[c]: where the client stands
    wrote,          \* wrote[c]: bytes the client has written
    read,           \* read[c]: bytes of it the server has read
    echoed          \* echoed[c]: what the server has sent to c

server == <<pc, client_sh, open, msg, msglen, queue, read, echoed>>
client == <<phase, wrote>>
vars   == <<server, client>>

Byte == [of : Clients, at : 1 .. Length]

\* The buffer holds what was there before, until recv writes over it.
Stale == [of |-> NoClient, at |-> 0]

Init ==
    /\ pc = "accept" /\ client_sh = NoClient /\ open = {} /\ queue = <<>>
    /\ msg = [i \in 1 .. RCVBUFFSIZE |-> Stale] /\ msglen = 0
    /\ phase = [c \in Clients |-> "away"]
    /\ wrote = [c \in Clients |-> 0] /\ read = wrote
    /\ echoed = [c \in Clients |-> <<>>]

Wrote(c) == [i \in 1 .. wrote[c] |-> [of |-> c, at |-> i]]

-----------------------------------------------------------------------------
(* echos.c *)

Accept ==
    /\ pc = "accept" /\ queue # <<>> /\ Cardinality(open) < MaxFd
    /\ client_sh' = Head(queue) /\ queue' = Tail(queue)
    /\ open' = open \cup {Head(queue)}
    /\ pc' = "recv"
    /\ UNCHANGED <<msg, msglen, read, echoed, client>>

Exits ==
    /\ pc' = "exited" /\ client_sh' = NoClient /\ open' = {} /\ queue' = <<>>
    /\ UNCHANGED <<msg, msglen, read, echoed, client>>

\* No descriptor is left, or the call fails for another reason.
AcceptFails == pc = "accept" /\ Exits

\* Mutant: recv with MSG_WAITALL.
RecvWaitsForAll ==
    /\ pc = "recv" /\ read[client_sh] + RCVBUFFSIZE <= wrote[client_sh]
    /\ msg' = [i \in 1 .. RCVBUFFSIZE |-> Wrote(client_sh)[read[client_sh] + i]]
    /\ msglen' = RCVBUFFSIZE
    /\ read' = [read EXCEPT ![client_sh] = @ + RCVBUFFSIZE]
    /\ pc' = "send"
    /\ UNCHANGED <<client_sh, open, queue, echoed, client>>

\* recv returns a part of what has come, and at most a buffer of it.
Recv ==
    /\ pc = "recv"
    /\ \E n \in 1 .. RCVBUFFSIZE :
        /\ read[client_sh] + n <= wrote[client_sh]
        /\ msg' = [i \in 1 .. RCVBUFFSIZE |->
              IF i <= n THEN Wrote(client_sh)[read[client_sh] + i] ELSE msg[i]]
        /\ msglen' = n
        /\ read' = [read EXCEPT ![client_sh] = @ + n]
    /\ pc' = "send"
    /\ UNCHANGED <<client_sh, open, queue, echoed, client>>

\* The loop ends with the connection, and client_sh is not closed.
RecvEnd ==
    /\ pc = "recv" /\ phase[client_sh] \in {"ended", "gone"}
    /\ read[client_sh] = wrote[client_sh]
    /\ pc' = "accept" /\ client_sh' = NoClient /\ msglen' = 0
    /\ UNCHANGED <<open, msg, queue, read, echoed, client>>

CloseClient ==
    /\ pc' = "accept" /\ client_sh' = NoClient /\ open' = open \ {client_sh}
    /\ UNCHANGED <<msg, msglen, queue, read, echoed, client>>

RecvFails == pc = "recv" /\ phase[client_sh] = "gone" /\ CloseClient

\* Mutant: the loop is left after one message.
SendOnce ==
    /\ pc = "send"
    /\ echoed' = [echoed EXCEPT ![client_sh] = @ \o SubSeq(msg, 1, msglen)]
    /\ pc' = "accept" /\ client_sh' = NoClient
    /\ UNCHANGED <<open, msg, msglen, queue, read, client>>

\* Mutant: the whole buffer is sent.
SendBuffer ==
    /\ pc = "send"
    /\ echoed' = [echoed EXCEPT ![client_sh] = @ \o msg]
    /\ pc' = "recv"
    /\ UNCHANGED <<client_sh, open, msg, msglen, queue, read, client>>

\* Mutant: the message is sent again.
SendAgain ==
    /\ pc = "send"
    /\ echoed' = [echoed EXCEPT ![client_sh] =
          @ \o SubSeq(msg, 1, msglen) \o SubSeq(msg, 1, msglen)]
    /\ pc' = "recv"
    /\ UNCHANGED <<client_sh, open, msg, msglen, queue, read, client>>

Send ==
    /\ pc = "send"
    /\ echoed' = [echoed EXCEPT ![client_sh] = @ \o SubSeq(msg, 1, msglen)]
    /\ pc' = "recv"
    /\ UNCHANGED <<client_sh, open, msg, msglen, queue, read, client>>

SendFails == pc = "send" /\ phase[client_sh] = "gone" /\ CloseClient

\* A send to a connection that was reset raises SIGPIPE, which is not caught.
BrokenPipe == pc = "send" /\ phase[client_sh] = "gone" /\ Exits

-----------------------------------------------------------------------------
(* A client *)

Connect(c) ==
    /\ phase[c] = "away" /\ pc # "exited"
    /\ phase' = [phase EXCEPT ![c] = "connected"] /\ queue' = Append(queue, c)
    /\ UNCHANGED <<pc, client_sh, open, msg, msglen, read, echoed, wrote>>

\* echoc sends all its message at once, another client a part of it.
Write(c) ==
    /\ phase[c] = "connected"
    /\ \E n \in wrote[c] + 1 .. Length : wrote' = [wrote EXCEPT ![c] = n]
    /\ UNCHANGED <<server, phase>>

\* echoc closes the connection after one recv, however much that returned;
\* another client closes its side of it, or all of it, at any time.
Leave(c) ==
    /\ phase[c] \in {"connected", "ended"}
    /\ \E p \in {"ended", "gone"} \ {phase[c]} : phase' = [phase EXCEPT ![c] = p]
    /\ UNCHANGED <<server, wrote>>

Server ==
    \/ Accept \/ Recv \/ RecvEnd \/ RecvFails \/ Send \/ SendFails \/ BrokenPipe
    \/ Cardinality(open) = MaxFd /\ AcceptFails

Client(c) == Connect(c) \/ Write(c) \/ Leave(c)

Next == Server \/ AcceptFails \/ \E c \in Clients : Client(c)

Ends(c) == client_sh = c /\ phase[c] = "connected" /\ Leave(c)

Spec == Init /\ [][Next]_vars

\* The server is scheduled, and a client it serves does not write for ever.
FairSpec ==
    Spec /\ WF_vars(Server) /\ \A c \in Clients : WF_vars(Ends(c))

-----------------------------------------------------------------------------
(* Properties *)

\* Every variable has its type.
TypeOK ==
    /\ pc \in {"accept", "recv", "send", "exited"}
    /\ client_sh \in Clients \cup {NoClient} /\ open \subseteq Clients
    /\ msg \in [1 .. RCVBUFFSIZE -> Byte \cup {Stale}] /\ msglen \in 0 .. RCVBUFFSIZE
    /\ queue \in Seq(Clients)
    /\ phase \in [Clients -> {"away", "connected", "ended", "gone"}]
    /\ wrote \in [Clients -> 0 .. Length] /\ read \in [Clients -> 0 .. Length]
    /\ echoed \in [Clients -> Seq(Byte)]

\* A client is sent its own bytes, in their order, none twice and none of the
\* buffer of another client, in whatever portions recv returns them.
EchoIsOwn == \A c \in Clients : IsPrefix(echoed[c], Wrote(c))

\* The server keeps one descriptor too many for each client that ended its
\* side, and for no other: a client that has not left has its connection until
\* the server is done with it.
OnlyEndedAreLeaked ==
    pc # "exited" => \A c \in Clients :
        /\ c \in open /\ c # client_sh => phase[c] \in {"ended", "gone"}
        /\ phase[c] \in {"connected", "ended"} =>
              c \in open \/ c \in ToSet(queue)

\* All a client wrote comes back to it, unless it closes the connection or the
\* server ends: also to one that has ended its side.
AllIsEchoed ==
    \A c \in Clients :
        wrote[c] > 0 ~> \/ Len(echoed[c]) = wrote[c]
                        \/ phase[c] = "gone" \/ pc = "exited"

-----------------------------------------------------------------------------
(* What makes the invariants inductive *)

\* The server has a connection, with its descriptor, exactly while it receives
\* and sends on it.
ServesOne ==
    /\ pc \in {"recv", "send"} => client_sh \in open
    /\ pc \in {"accept", "exited"} => client_sh = NoClient

\* Nothing has been read of a client that waits, and it has no descriptor; none
\* waits twice, and one that is away has not written.
Waiting ==
    /\ \A i \in DOMAIN queue : queue[i] \notin open /\ read[queue[i]] = 0
    /\ \A i, j \in DOMAIN queue : queue[i] = queue[j] => i = j
    /\ \A c \in Clients : phase[c] = "away" =>
         c \notin open /\ wrote[c] = 0 /\ \A i \in DOMAIN queue : queue[i] # c

\* The place in the client's bytes of what the server sends next: what it has
\* read, without what is still in the buffer.
SendsFrom == read[client_sh] - (IF pc = "send" THEN msglen ELSE 0)

\* What has been sent are the client's bytes from the first on, no more of them
\* than were read; and what is in the buffer follows them.
EchoFollows ==
    /\ \A c \in Clients :
         /\ read[c] <= wrote[c] /\ Len(echoed[c]) <= read[c]
         /\ \A i \in DOMAIN echoed[c] : echoed[c][i] = [of |-> c, at |-> i]
    /\ pc \in {"recv", "send"} => Len(echoed[client_sh]) = SendsFrom
    /\ pc = "send" => \A i \in 1 .. msglen :
         msg[i] = [of |-> client_sh, at |-> SendsFrom + i]
=============================================================================
