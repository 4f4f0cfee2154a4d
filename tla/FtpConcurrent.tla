---------------------------- MODULE FtpConcurrent ---------------------------
(***************************************************************************)
(* The concurrent build of ausftp: the parent of concurrent/main.c, which   *)
(* accepts and forks, its children, which serve one client each, and the    *)
(* signal handlers of concurrent/signals.c, which interrupt either of them  *)
(* between any two steps.  What a child says to its client is FtpSession;   *)
(* here a session is entered and left.  The model begins when server_init   *)
(* has returned: clients can connect, and setup_signals has not run yet.    *)
(*                                                                          *)
(* Descriptors are per process and copied by fork(), so the model keeps, for *)
(* each process, whether it holds the listener and which connections.       *)
(***************************************************************************)
EXTENDS Integers, Sequences, FiniteSets

CONSTANTS
    Clients,        \* each connects at most once
    Children,       \* processes that fork() may make, each at most once
    Parent,         \* the process main() starts in
    NoClient,       \* no connection
    MaxSignals      \* signals sent from outside (bound)

ASSUME ProcessAssumption ==
    /\ Parent \notin Children
    /\ NoClient \notin Clients
    /\ MaxSignals \in Nat

Processes == Children \cup {Parent}
Signals   == {"SIGINT", "SIGTERM"}

\* The label the interrupted program is at, and those of the handlers.
SetupLabels  == {"setpgid", "sigaction_int", "sigaction_term"}
LoopLabels   == {"accept", "fork", "close_new"}
ParentLabels == SetupLabels \cup LoopLabels
ChildLabels  == {"set_sigterm", "set_sigint", "close_listen", "session", "exit"}
HandlerNames == {"handle_sigint", "handle_sigterm", "handle_sigterm_child"}
HandlerSteps == {"close", "killpg", "exit"}

VARIABLES
    pc,             \* pc[p]: the label of p, "unborn" before fork, "gone" after exit
    frames,         \* frames[p]: handlers running in p, the innermost last
    disposition,    \* disposition[p][s]: what p does on signal s
    pending,        \* pending[p]: signals generated for p and not delivered
    listening,      \* listening[p]: p has the listening socket open
    server_socket,  \* server_socket[p]: the global of that name is >= 0 in p
    conns,          \* conns[p]: connections p has a descriptor for
    new_socket,     \* new_socket[p]: the connection main() last accepted
    queue,          \* connections the kernel has completed and nobody accepted
    client,         \* client[c]: where the client stands
    signals         \* how many signals came from outside

process == <<frames, disposition, pending>>
sockets == <<listening, server_socket, conns, new_socket>>
vars    == <<pc, process, sockets, queue, client, signals>>

-----------------------------------------------------------------------------
\* server_init has succeeded; the parent still has the default dispositions.
Init ==
    /\ pc = [p \in Processes |-> IF p = Parent THEN "setpgid" ELSE "unborn"]
    /\ frames = [p \in Processes |-> <<>>]
    /\ disposition = [p \in Processes |-> [s \in Signals |-> "default"]]
    /\ pending = [p \in Processes |-> {}]
    /\ listening = [p \in Processes |-> p = Parent]
    /\ server_socket = [p \in Processes |-> p = Parent]
    /\ conns = [p \in Processes |-> {}]
    /\ new_socket = [p \in Processes |-> NoClient]
    /\ queue = <<>>
    /\ client = [c \in Clients |-> "away"]
    /\ signals = 0

Alive(p) == pc[p] \notin {"unborn", "gone"}
Group    == {p \in Processes : Alive(p)}

\* Mutant: the handlers are installed with SA_NODEFER and an empty sa_mask.
NoMaskOf(h) == {}

\* Both parent handlers are installed with SIGINT in sa_mask, the child's with
\* an empty one; a signal is blocked in its own handler.
MaskOf(h) == CASE h = "handle_sigint"        -> {"SIGINT"}
               [] h = "handle_sigterm"       -> {"SIGINT", "SIGTERM"}
               [] h = "handle_sigterm_child" -> {"SIGTERM"}

Blocked(p) == UNION {MaskOf(frames[p][i].handler) : i \in DOMAIN frames[p]}

Deliverable(p) == pending[p] \ Blocked(p)

\* p executes the program, not a handler.  A system call under way when a
\* signal is generated may complete before the handler starts.
Runs(p, label) == pc[p] = label /\ frames[p] = <<>>

\* The sockets a process still has go when it does.  A connection nobody has
\* accepted is reset when the last descriptor of the listener goes.
SocketsAfter(open, held) ==
    LET nobody == \A p \in Processes : ~open[p]
        Unheld(c) == c \notin UNION {held[p] : p \in Processes}
        queued(c) == \E i \in DOMAIN queue : queue[i] = c
    IN  /\ listening' = open
        /\ conns' = held
        /\ queue' = IF nobody THEN <<>> ELSE queue
        /\ client' = [c \in Clients |->
             IF \/ nobody /\ queued(c)
                \/ client[c] = "accepted" /\ Unheld(c)
             THEN "closed" ELSE client[c]]

\* The process ends and the kernel closes all it had.
Terminates(p) ==
    /\ pc' = [pc EXCEPT ![p] = "gone"]
    /\ frames' = [frames EXCEPT ![p] = <<>>]
    /\ pending' = [pending EXCEPT ![p] = {}]
    /\ SocketsAfter([listening EXCEPT ![p] = FALSE], [conns EXCEPT ![p] = {}])
    /\ UNCHANGED <<disposition, server_socket, new_socket, signals>>

-----------------------------------------------------------------------------
(* The parent, setup_signals() *)

\* setpgid(0, 0): the parent leads a group, into which its children are born.
LeadGroup ==
    /\ Runs(Parent, "setpgid")
    /\ pc' = [pc EXCEPT ![Parent] = "sigaction_int"]
    /\ UNCHANGED <<process, sockets, queue, client, signals>>

InstallSigint ==
    /\ Runs(Parent, "sigaction_int")
    /\ disposition' = [disposition EXCEPT ![Parent]["SIGINT"] = "handle_sigint"]
    /\ pc' = [pc EXCEPT ![Parent] = "sigaction_term"]
    /\ UNCHANGED <<frames, pending, sockets, queue, client, signals>>

\* Mutant: sa_handler is not set again before the second sigaction.
InstallSigtermStale ==
    /\ Runs(Parent, "sigaction_term")
    /\ disposition' = [disposition EXCEPT ![Parent]["SIGTERM"] = "handle_sigint"]
    /\ pc' = [pc EXCEPT ![Parent] = "accept"]
    /\ UNCHANGED <<frames, pending, sockets, queue, client, signals>>

InstallSigterm ==
    /\ Runs(Parent, "sigaction_term")
    /\ disposition' = [disposition EXCEPT ![Parent]["SIGTERM"] = "handle_sigterm"]
    /\ pc' = [pc EXCEPT ![Parent] = "accept"]
    /\ UNCHANGED <<frames, pending, sockets, queue, client, signals>>

\* setpgid() fails for the leader of a session, and a sigaction(), also one of
\* a child, may: exit.
SetupFails(p) ==
    /\ \E label \in SetupLabels \cup {"set_sigterm", "set_sigint"} : Runs(p, label)
    /\ Terminates(p)

setup_signals == LeadGroup \/ InstallSigint \/ InstallSigterm

-----------------------------------------------------------------------------
(* The parent, main() *)

Accept ==
    /\ Runs(Parent, "accept") /\ queue # <<>> /\ listening[Parent]
    /\ LET c == Head(queue) IN
       /\ new_socket' = [new_socket EXCEPT ![Parent] = c]
       /\ conns' = [conns EXCEPT ![Parent] = @ \cup {c}]
       /\ client' = [client EXCEPT ![c] = "accepted"]
    /\ queue' = Tail(queue)
    /\ pc' = [pc EXCEPT ![Parent] = "fork"]
    /\ UNCHANGED <<process, listening, server_socket, signals>>

\* The child has a copy of every descriptor and of the dispositions, and no
\* pending signal; the kernel does not fork while one is to be delivered.
Fork ==
    /\ Runs(Parent, "fork") /\ Deliverable(Parent) = {}
    /\ \E p \in Children :
        /\ pc[p] = "unborn"
        /\ pc' = [pc EXCEPT ![Parent] = "close_new", ![p] = "set_sigterm"]
        /\ disposition' = [disposition EXCEPT ![p] = disposition[Parent]]
        /\ listening' = [listening EXCEPT ![p] = listening[Parent]]
        /\ server_socket' = [server_socket EXCEPT ![p] = server_socket[Parent]]
        /\ conns' = [conns EXCEPT ![p] = conns[Parent]]
        /\ new_socket' = [new_socket EXCEPT ![p] = new_socket[Parent]]
    /\ UNCHANGED <<frames, pending, queue, client, signals>>

\* Mutant: close_fd(new_socket) is left out in the parent.
ParentKeepsCopy ==
    /\ Runs(Parent, "close_new") \/ Runs(Parent, "fork")
    /\ pc' = [pc EXCEPT ![Parent] = "accept"]
    /\ new_socket' = [new_socket EXCEPT ![Parent] = NoClient]
    /\ UNCHANGED <<process, listening, server_socket, conns, queue, client, signals>>

\* Mutant: the parent waits for its child, as the iterative build would.
ParentWaitsForChild ==
    /\ Runs(Parent, "close_new") \/ Runs(Parent, "fork")
    /\ \A p \in Children : pc[p] \in {"unborn", "gone"}
    /\ pc' = [pc EXCEPT ![Parent] = "accept"]
    /\ new_socket' = [new_socket EXCEPT ![Parent] = NoClient]
    /\ SocketsAfter(listening,
                    [conns EXCEPT ![Parent] = @ \ {new_socket[Parent]}])
    /\ UNCHANGED <<process, server_socket, signals>>

\* The parent closes its copy, at once when fork() fails.
ParentCloses ==
    /\ Runs(Parent, "close_new") \/ Runs(Parent, "fork")
    /\ pc' = [pc EXCEPT ![Parent] = "accept"]
    /\ new_socket' = [new_socket EXCEPT ![Parent] = NoClient]
    /\ SocketsAfter(listening,
                    [conns EXCEPT ![Parent] = @ \ {new_socket[Parent]}])
    /\ UNCHANGED <<process, server_socket, signals>>

-----------------------------------------------------------------------------
(* A child *)

\* setup_child_signals: one sigaction after the other.
SetSigterm(p) ==
    /\ Runs(p, "set_sigterm")
    /\ disposition' = [disposition EXCEPT ![p]["SIGTERM"] = "handle_sigterm_child"]
    /\ pc' = [pc EXCEPT ![p] = "set_sigint"]
    /\ UNCHANGED <<frames, pending, sockets, queue, client, signals>>

SetSigint(p) ==
    /\ Runs(p, "set_sigint")
    /\ disposition' = [disposition EXCEPT ![p]["SIGINT"] = "ignore"]
    /\ pc' = [pc EXCEPT ![p] = "close_listen"]
    /\ UNCHANGED <<frames, pending, sockets, queue, client, signals>>

\* close(listen_fd); server_socket keeps its value.
CloseListen(p) ==
    /\ Runs(p, "close_listen")
    /\ pc' = [pc EXCEPT ![p] = "session"]
    /\ SocketsAfter([listening EXCEPT ![p] = FALSE], conns)
    /\ UNCHANGED <<process, server_socket, new_socket, signals>>

\* server_loop returns: QUIT, end of file, a failed recv or a failed welcome.
\* Each of them has closed the control connection.
SessionReturns(p) ==
    /\ Runs(p, "session")
    /\ pc' = [pc EXCEPT ![p] = "exit"]
    /\ SocketsAfter(listening, [conns EXCEPT ![p] = @ \ {new_socket[p]}])
    /\ UNCHANGED <<process, server_socket, new_socket, signals>>

ChildExits(p) == Runs(p, "exit") /\ Terminates(p)

\* A write to a connection the client has reset may raise SIGPIPE, which is
\* neither ignored nor handled.
BrokenPipe(p) == Runs(p, "session") /\ Terminates(p)

-----------------------------------------------------------------------------
(* Signals *)

\* Until setup_signals has got so far a signal ends the process.
DeliverDefault(p) ==
    /\ Alive(p)
    /\ \E s \in Deliverable(p) : disposition[p][s] = "default"
    /\ Terminates(p)

\* A pending signal that is not blocked starts its handler, or is discarded.
Deliver(p) ==
    \E s \in Deliverable(p) :
        /\ Alive(p) /\ disposition[p][s] # "default"
        /\ pending' = [pending EXCEPT ![p] = @ \ {s}]
        /\ frames' = IF disposition[p][s] = "ignore" THEN frames
                     ELSE [frames EXCEPT ![p] =
                             Append(@, [handler |-> disposition[p][s],
                                        step |-> "close"])]
        /\ UNCHANGED <<pc, disposition, sockets, queue, client, signals>>

\* The innermost handler of p is h, at this step.
InHandler(p, h, step) ==
    /\ Alive(p) /\ frames[p] # <<>>
    /\ LET top == frames[p][Len(frames[p])] IN
       top.handler = h /\ top.step = step

Advance(p, step) ==
    frames' = [frames EXCEPT ![p][Len(frames[p])].step = step]

\* Mutant: the handlers do not signal the group.
HandlerSkipsKillpg(p) ==
    /\ \E h \in {"handle_sigint", "handle_sigterm"} : InHandler(p, h, "close")
    /\ Advance(p, "exit")
    /\ SocketsAfter([listening EXCEPT ![p] = @ /\ ~server_socket[p]], conns)
    /\ server_socket' = [server_socket EXCEPT ![p] = FALSE]
    /\ UNCHANGED <<pc, disposition, pending, new_socket, signals>>

\* handle_sigint and handle_sigterm close the listener if the global says so.
\* close_fd() and server_socket = -1 are one step here: a handler that starts
\* between them closes a number that is closed, which changes nothing (see
\* FtpIterative, where they are two).
HandlerClosesListener(p) ==
    /\ \E h \in {"handle_sigint", "handle_sigterm"} : InHandler(p, h, "close")
    /\ Advance(p, "killpg")
    /\ SocketsAfter([listening EXCEPT ![p] = @ /\ ~server_socket[p]], conns)
    /\ server_socket' = [server_socket EXCEPT ![p] = FALSE]
    /\ UNCHANGED <<pc, disposition, pending, new_socket, signals>>

\* killpg(getpgrp(), SIGTERM) reaches every process of the group, the caller
\* included.
HandlerKillsGroup(p) ==
    /\ \E h \in {"handle_sigint", "handle_sigterm"} : InHandler(p, h, "killpg")
    /\ pending' = [q \in Processes |->
                     IF q \in Group THEN pending[q] \cup {"SIGTERM"}
                                    ELSE pending[q]]
    /\ Advance(p, "exit")
    /\ UNCHANGED <<pc, disposition, sockets, queue, client, signals>>

\* Mutant: only the data connection is closed.
HandlerKeepsControl(p) ==
    /\ InHandler(p, "handle_sigterm_child", "close")
    /\ Advance(p, "exit")
    /\ UNCHANGED <<pc, disposition, pending, sockets, queue, client, signals>>

\* handle_sigterm_child closes what the session has open.
HandlerClosesSession(p) ==
    /\ InHandler(p, "handle_sigterm_child", "close")
    /\ Advance(p, "exit")
    /\ SocketsAfter(listening,
                    IF pc[p] = "session"
                    THEN [conns EXCEPT ![p] = @ \ {new_socket[p]}]
                    ELSE conns)
    /\ UNCHANGED <<pc, disposition, pending, server_socket, new_socket, signals>>

\* No handler returns.  The SIGTERM a process has sent to its own group is
\* delivered before killpg() returns to it.
HandlerExits(p) ==
    /\ \E h \in HandlerNames : InHandler(p, h, "exit")
    /\ Deliverable(p) = {}
    /\ Terminates(p)

-----------------------------------------------------------------------------
(* The world outside *)

ClientConnects(c) ==
    /\ client[c] = "away"
    /\ \E p \in Processes : listening[p]
    /\ client' = [client EXCEPT ![c] = "queued"]
    /\ queue' = Append(queue, c)
    /\ UNCHANGED <<pc, process, sockets, signals>>

\* Control-C reaches the whole group; kill reaches one process.
Interrupt ==
    /\ signals < MaxSignals /\ signals' = signals + 1
    /\ Group # {}
    /\ pending' = [q \in Processes |->
                     IF q \in Group THEN pending[q] \cup {"SIGINT"} ELSE pending[q]]
    /\ UNCHANGED <<pc, frames, disposition, sockets, queue, client>>

Kill(p) ==
    /\ signals < MaxSignals /\ signals' = signals + 1
    /\ Alive(p)
    /\ pending' = [pending EXCEPT ![p] = @ \cup {"SIGTERM"}]
    /\ UNCHANGED <<pc, frames, disposition, sockets, queue, client>>

-----------------------------------------------------------------------------
\* What p does without waiting for anybody.
Progress(p) ==
    \/ SetSigterm(p) \/ SetSigint(p) \/ CloseListen(p) \/ ChildExits(p)
    \/ DeliverDefault(p) \/ Deliver(p)
    \/ HandlerClosesListener(p) \/ HandlerKillsGroup(p)
    \/ HandlerClosesSession(p) \/ HandlerExits(p)

ParentProgress ==
    setup_signals \/ Accept \/ Fork \/ ParentCloses

Next ==
    \/ ParentProgress
    \/ \E p \in Processes : Progress(p) \/ SetupFails(p)
    \/ \E p \in Children : SessionReturns(p) \/ BrokenPipe(p)
    \/ \E c \in Clients : ClientConnects(c)
    \/ Interrupt \/ \E p \in Processes : Kill(p)

Spec == Init /\ [][Next]_vars

\* Processes are scheduled; a client may stay in its session for ever.
FairSpec == /\ Spec
            /\ WF_vars(ParentProgress)
            /\ \A p \in Processes : WF_vars(Progress(p))

-----------------------------------------------------------------------------
(* Properties *)

\* Each signal has a handler that was written for it, or none.
Installed == \A p \in Processes :
    /\ disposition[p]["SIGINT"] \in {"handle_sigint", "ignore", "default"}
    /\ disposition[p]["SIGTERM"] \in {"handle_sigterm", "handle_sigterm_child", "default"}

\* Every variable has its type.
TypeOK ==
    /\ pc \in [Processes -> {"unborn", "gone"} \cup ParentLabels \cup ChildLabels]
    /\ frames \in [Processes -> Seq([handler : HandlerNames, step : HandlerSteps])]
    /\ disposition \in [Processes -> [Signals -> HandlerNames \cup {"ignore", "default"}]]
    /\ Installed
    /\ pending \in [Processes -> SUBSET Signals]
    /\ listening \in [Processes -> BOOLEAN]
    /\ server_socket \in [Processes -> BOOLEAN]
    /\ conns \in [Processes -> SUBSET Clients]
    /\ new_socket \in [Processes -> Clients \cup {NoClient}]
    /\ queue \in Seq(Clients)
    /\ client \in [Clients -> {"away", "queued", "accepted", "closed"}]
    /\ signals \in 0 .. MaxSignals

\* A child has a descriptor for its own client's connection and for nobody
\* else's, and the parent for none while it waits: so a client sees the end of
\* its connection when its own session ends.
OwnSocketOnly ==
    /\ \A p \in Children : conns[p] \subseteq {new_socket[p]}
    /\ \A p, q \in Children : p # q => conns[p] \cap conns[q] = {}
    /\ pc[Parent] = "accept" => conns[Parent] = {}

\* Once anybody's handler has ended the parent, every process left has been
\* told to end, or is already ending: no child outlives its server unnoticed.
OrphansAreDoomed ==
    pc[Parent] = "gone" =>
        \A p \in Group : "SIGTERM" \in pending[p] \/ frames[p] # <<>>

\* No handler is entered again while it runs in the same process, so the
\* in_handler guards are never needed: the masks exclude it.
NoReentry ==
    \A p \in Processes : \A i, j \in DOMAIN frames[p] :
        i # j => frames[p][i].handler # frames[p][j].handler

\* A client that has connected is accepted, or its connection is closed,
\* however long the sessions of the others last.
ClientAccepted ==
    \A c \in Clients : client[c] = "queued" ~> client[c] \in {"accepted", "closed"}

\* When the parent begins to shut down, every process of the group ends, and
\* nobody keeps the listener or a connection.
GroupShutsDown ==
    frames[Parent] # <<>> ~> /\ Group = {}
                             /\ \A p \in Processes : ~listening[p] /\ conns[p] = {}

\* "SIGTERM handler for parent": that handler, and the one for SIGINT, run in
\* the parent only.  Between fork() and setup_child_signals they run in a child.
ParentHandlersInParent ==
    \A p \in Children : \A i \in DOMAIN frames[p] :
        frames[p][i].handler = "handle_sigterm_child"
-----------------------------------------------------------------------------
(* The service the processes provide together *)

\* p has a session to enter, or is in one that no handler has closed yet.  The
\* parent has one from accept() until it closes its copy.
Serves(p) ==
    \/ p = Parent /\ pc[p] \in {"fork", "close_new"}
    \/ p # Parent /\ pc[p] \in {"set_sigterm", "set_sigint", "close_listen"}
    \/ /\ p # Parent /\ pc[p] = "session"
       /\ \A i \in DOMAIN frames[p] : frames[p][i].step # "exit"

Listens == \E p \in Processes : listening[p]
Served  == {new_socket[p] : p \in {q \in Processes : Serves(q)}}

Service == INSTANCE ConnectionService WITH open <- Listens, served <- Served

\* Parent and children implement the service: clients are accepted in their
\* order and only while somebody listens, and the kernel closes a connection,
\* which happens with the last copy of its descriptor, exactly when the last
\* process that serves it is done, whatever handler or exit ends it.
ImplementsService == Service!Spec

-----------------------------------------------------------------------------
(* What makes the invariants inductive *)

\* The parent stays the parent: its labels, its dispositions and its handlers
\* are its own, and it forks with both handlers installed and not before.
Roles ==
    /\ pc[Parent] \in ParentLabels \cup {"gone"}
    /\ pc[Parent] \in SetupLabels => \A p \in Children : pc[p] = "unborn"
    /\ pc[Parent] \in LoopLabels \cup {"sigaction_term"} =>
         disposition[Parent]["SIGINT"] = "handle_sigint"
    /\ pc[Parent] \in LoopLabels =>
         disposition[Parent]["SIGTERM"] = "handle_sigterm"
    /\ disposition[Parent]["SIGINT"] \in {"handle_sigint", "default"}
    /\ disposition[Parent]["SIGTERM"] \in {"handle_sigterm", "default"}
    /\ \A i \in DOMAIN frames[Parent] :
        frames[Parent][i].handler \in {"handle_sigint", "handle_sigterm"}

\* Before main() has a connection, and after the end.
IdleLabels == SetupLabels \cup {"unborn", "gone"}

\* A connection is in the queue, once, or has been accepted; who holds an
\* accepted one has it as new_socket; and between accept() and fork() the
\* parent alone has it.
Connections ==
    /\ \A p \in Processes : conns[p] \subseteq {new_socket[p]}
    /\ \A p \in Processes : \A c \in conns[p] : client[c] = "accepted"
    /\ \A i \in DOMAIN queue : client[queue[i]] = "queued"
    /\ \A i, j \in DOMAIN queue : i # j => queue[i] # queue[j]
    /\ \A p \in Processes : pc[p] \in IdleLabels => conns[p] = {}
    /\ pc[Parent] = "fork" =>
         \A p \in Children : conns[p] \cap conns[Parent] = {}

\* An unborn process has no handler running and no signal pending.
Unborn == \A p \in Processes :
    pc[p] = "unborn" => frames[p] = <<>> /\ pending[p] = {}

Doomed(p) == "SIGTERM" \in pending[p] \/ frames[p] # <<>>

\* Once a handler of the parent has called killpg(), all others are doomed.
GroupIsTold ==
    (pc[Parent] = "gone" \/
       \E i \in DOMAIN frames[Parent] : frames[Parent][i].step = "exit")
    => \A p \in Group \ {Parent} : Doomed(p)

\* A process holds a connection exactly while it serves it, a client that has
\* been accepted is held by somebody, and one that waits is in the queue.
Holding ==
    /\ \A p \in Processes :
         conns[p] = IF Serves(p) THEN {new_socket[p]} ELSE {}
    /\ \A c \in Clients :
         client[c] = "accepted" => \E p \in Processes : c \in conns[p]
    /\ \A c \in Clients :
         client[c] = "queued" => \E i \in DOMAIN queue : queue[i] = c

\* Nobody waits for a server that does not listen.
Quiet ==
    /\ (\A p \in Processes : ~listening[p]) => queue = <<>>
    /\ \A p \in Processes : pc[p] = "unborn" => ~listening[p]

\* Once a child is in its session it has its own dispositions, and no handler
\* but its own is running in it.
ChildSignals == \A p \in Children :
    /\ pc[p] \in {"set_sigint", "close_listen", "session"} =>
         disposition[p]["SIGTERM"] = "handle_sigterm_child"
    /\ pc[p] \in {"close_listen", "session"} => disposition[p]["SIGINT"] = "ignore"
    /\ pc[p] = "session" => \A i \in DOMAIN frames[p] :
         frames[p][i].handler = "handle_sigterm_child"
=============================================================================
