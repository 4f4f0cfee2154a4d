----------------------------- MODULE FtpIterative -----------------------------
(***************************************************************************)
(* The iterative build of ausftp as its clients see it: one process that    *)
(* serves one connection after another while the others wait in the queue   *)
(* of the kernel, and the handlers of iterative/signals.c, which may         *)
(* interrupt it anywhere.  What is said in a session is FtpSession; here it  *)
(* is entered and left.                                                     *)
(*                                                                          *)
(* The model begins when server_init has returned: clients can connect, and *)
(* setup_signals has not run yet.                                           *)
(***************************************************************************)
EXTENDS Integers, Sequences

CONSTANTS
    Clients,        \* each connects at most once
    NoClient,       \* no connection
    MaxSignals      \* signals sent to the process (bound)

ASSUME ClientAssumption == NoClient \notin Clients /\ MaxSignals \in Nat

Signals      == {"SIGINT", "SIGTERM"}
HandlerNames == {"handle_sigint", "handle_sigterm"}

VARIABLES
    pc,             \* where main() is
    frames,         \* handlers running, the innermost last
    disposition,    \* disposition[s]: what the process does on signal s
    pending,        \* signals generated and not delivered
    listening,      \* the listening socket is open
    server_socket,  \* the global of that name is >= 0
    new_socket,     \* the connection server_loop was called with
    queue,          \* connections nobody has accepted yet
    client,         \* client[c]: where the client stands
    signals         \* how many signals have been sent

vars == <<pc, frames, disposition, pending, listening, server_socket,
          new_socket, queue, client, signals>>

control == <<frames, disposition, pending, signals>>

Init ==
    /\ pc = "sigaction_int"
    /\ frames = <<>>
    /\ disposition = [s \in Signals |-> "default"]
    /\ pending = {}
    /\ listening = TRUE /\ server_socket = TRUE
    /\ new_socket = NoClient
    /\ queue = <<>>
    /\ client = [c \in Clients |-> "away"]
    /\ signals = 0

Runs(label) == pc = label /\ frames = <<>>

\* What becomes of the connections when the process closes its connection, or
\* its listener, or both.
Closed(session, listener) ==
    /\ queue' = IF listener THEN <<>> ELSE queue
    /\ client' = [c \in Clients |->
          IF \/ session /\ c = new_socket
             \/ listener /\ client[c] = "queued"
          THEN "closed" ELSE client[c]]

\* The process ends, and the kernel closes what it had open.
Terminates ==
    /\ pc' = "exited" /\ frames' = <<>> /\ pending' = {}
    /\ listening' = FALSE /\ new_socket' = NoClient
    /\ Closed(TRUE, listening)
    /\ UNCHANGED <<disposition, server_socket, signals>>

-----------------------------------------------------------------------------
(* setup_signals *)

SetSigint ==
    /\ Runs("sigaction_int")
    /\ disposition' = [disposition EXCEPT !["SIGINT"] = "handle_sigint"]
    /\ pc' = "sigaction_term"
    /\ UNCHANGED <<frames, pending, listening, server_socket, new_socket, queue,
                   client, signals>>

\* Mutant: sa_handler is not set again before the second sigaction.
SetSigtermStale ==
    /\ Runs("sigaction_term")
    /\ disposition' = [disposition EXCEPT !["SIGTERM"] = "handle_sigint"]
    /\ pc' = "accept"
    /\ UNCHANGED <<frames, pending, listening, server_socket, new_socket, queue,
                   client, signals>>

SetSigterm ==
    /\ Runs("sigaction_term")
    /\ disposition' = [disposition EXCEPT !["SIGTERM"] = "handle_sigterm"]
    /\ pc' = "accept"
    /\ UNCHANGED <<frames, pending, listening, server_socket, new_socket, queue,
                   client, signals>>

\* A sigaction() fails: exit.
SetupFails == (Runs("sigaction_int") \/ Runs("sigaction_term")) /\ Terminates

-----------------------------------------------------------------------------
(* main() *)

Accept ==
    /\ Runs("accept") /\ queue # <<>> /\ listening
    /\ new_socket' = Head(queue) /\ queue' = Tail(queue)
    /\ client' = [client EXCEPT ![Head(queue)] = "accepted"]
    /\ pc' = "session"
    /\ UNCHANGED <<control, listening, server_socket>>

\* main() says so and goes on: server_loop(-1) fails in its greeting.
AcceptFails ==
    /\ Runs("accept")
    /\ new_socket' = NoClient
    /\ pc' = "session"
    /\ UNCHANGED <<control, listening, server_socket, queue, client>>

\* Mutant: server_loop does not break when getexe_command fails.
SessionNeverReturns ==
    /\ Runs("session")
    /\ new_socket' = NoClient /\ Closed(TRUE, FALSE)
    /\ UNCHANGED <<pc, control, listening, server_socket>>

\* Mutant: server_loop returns without session_cleanup.
SessionLeftOpen ==
    /\ Runs("session")
    /\ pc' = "accept" /\ new_socket' = NoClient
    /\ UNCHANGED <<control, listening, server_socket, queue, client>>

\* server_loop returns, and the connection is closed.
SessionReturns ==
    /\ Runs("session")
    /\ pc' = "accept" /\ new_socket' = NoClient
    /\ Closed(TRUE, FALSE)
    /\ UNCHANGED <<control, listening, server_socket>>

\* A write to a connection the client has reset may raise SIGPIPE: the session
\* takes the server with it, and everybody who waits.
BrokenPipe == Runs("session") /\ new_socket # NoClient /\ Terminates

-----------------------------------------------------------------------------
(* Signals *)

\* Mutant: the handlers are installed with SA_NODEFER and an empty sa_mask.
NoMaskOf(h) == {}

\* Both are installed with SIGINT in sa_mask; a signal is blocked in its own
\* handler.  The sigprocmask calls of handle_sigint block what is blocked.
MaskOf(h) == CASE h = "handle_sigint"  -> {"SIGINT"}
               [] h = "handle_sigterm" -> {"SIGINT", "SIGTERM"}

Blocked == UNION {MaskOf(frames[i].handler) : i \in DOMAIN frames}

\* Before setup_signals a signal ends the process.
DeliverDefault ==
    /\ pc # "exited"
    /\ \E s \in pending \ Blocked : disposition[s] = "default"
    /\ Terminates

\* A handler starts on top of whatever the process is doing.
Deliver ==
    /\ pc # "exited"
    /\ \E s \in pending \ Blocked :
        /\ disposition[s] # "default"
        /\ pending' = pending \ {s}
        /\ frames' = Append(frames, [handler |-> disposition[s], step |-> "close"])
    /\ UNCHANGED <<pc, disposition, listening, server_socket, new_socket, queue,
                   client, signals>>

AtStep(step) == frames # <<>> /\ frames[Len(frames)].step = step

Advance(step) == frames' = [frames EXCEPT ![Len(frames)].step = step]

\* close_fd(server_socket), unless the global is negative already.
HandlerCloses ==
    /\ AtStep("close") /\ Advance("clear")
    /\ listening' = (listening /\ ~server_socket)
    /\ Closed(FALSE, listening /\ server_socket)
    /\ UNCHANGED <<pc, disposition, pending, server_socket, new_socket, signals>>

\* server_socket = -1.  Another handler may start in between.
HandlerClears ==
    /\ AtStep("clear") /\ Advance("exit")
    /\ server_socket' = FALSE
    /\ UNCHANGED <<pc, disposition, pending, listening, new_socket, queue, client,
                   signals>>

\* Mutant: the handler returns to the program it has interrupted.
HandlerReturns ==
    /\ AtStep("exit")
    /\ frames' = SubSeq(frames, 1, Len(frames) - 1)
    /\ UNCHANGED <<pc, disposition, pending, listening, server_socket, new_socket,
                   queue, client, signals>>

HandlerExits == AtStep("exit") /\ Terminates

-----------------------------------------------------------------------------
(* The world outside *)

ClientConnects(c) ==
    /\ listening /\ client[c] = "away"
    /\ client' = [client EXCEPT ![c] = "queued"]
    /\ queue' = Append(queue, c)
    /\ UNCHANGED <<pc, control, listening, server_socket, new_socket>>

Kill(s) ==
    /\ pc # "exited"
    /\ signals < MaxSignals /\ signals' = signals + 1
    /\ pending' = pending \cup {s}
    /\ UNCHANGED <<pc, frames, disposition, listening, server_socket, new_socket,
                   queue, client>>

-----------------------------------------------------------------------------
Handler == DeliverDefault \/ Deliver \/ HandlerCloses \/ HandlerClears \/ HandlerExits

Main == SetSigint \/ SetSigterm \/ Accept

Next ==
    \/ Main \/ SetupFails \/ AcceptFails \/ SessionReturns \/ BrokenPipe \/ Handler
    \/ \E c \in Clients : ClientConnects(c)
    \/ \E s \in Signals : Kill(s)

Spec == Init /\ [][Next]_vars

\* The process is scheduled.  accept() cannot fail for ever while a client
\* waits, and a session with nobody ends by itself; one with a client need not.
FairSpec ==
    /\ Spec
    /\ WF_vars(SetSigint \/ SetSigterm) /\ WF_vars(Handler) /\ SF_vars(Accept)
    /\ WF_vars(new_socket = NoClient /\ SessionReturns)

-----------------------------------------------------------------------------
(* Properties *)

Frame == [handler : HandlerNames, step : {"close", "clear", "exit"}]

\* Every variable has its type, and each signal a handler written for it, or none.
TypeOK ==
    /\ pc \in {"sigaction_int", "sigaction_term", "accept", "session", "exited"}
    /\ frames \in Seq(Frame)
    /\ disposition \in [Signals -> HandlerNames \cup {"default"}]
    /\ disposition["SIGINT"] \in {"handle_sigint", "default"}
    /\ disposition["SIGTERM"] \in {"handle_sigterm", "default"}
    /\ pending \subseteq Signals
    /\ listening \in BOOLEAN /\ server_socket \in BOOLEAN
    /\ new_socket \in Clients \cup {NoClient}
    /\ queue \in Seq(Clients)
    /\ client \in [Clients -> {"away", "queued", "accepted", "closed"}]
    /\ signals \in 0 .. MaxSignals

\* Neither handler is entered again while it runs: in_handler is never needed.
NoReentry ==
    \A i, j \in DOMAIN frames : i # j => frames[i].handler # frames[j].handler

Served == IF pc = "session" THEN {new_socket} \ {NoClient} ELSE {}

Service == INSTANCE ConnectionService WITH open <- listening, served <- Served

\* The one process implements the service the concurrent server implements: a
\* connection is open exactly while server_loop has it, those that wait are
\* accepted in their order, and a shutdown turns the rest away.
ImplementsService == Service!Spec

\* If no client stays in its session for ever, none waits for ever, whatever
\* accept() failures and signals come in between.
WaitingEnds ==
    (\A c \in Clients : client[c] = "accepted" ~> client[c] = "closed")
    => \A c \in Clients : client[c] = "queued" ~> client[c] # "queued"

\* A signal that is not held back by a handler ends the server, also when it
\* comes in the middle of a session or of another shutdown.
SignalEnds == pending # {} ~> pc = "exited"

-----------------------------------------------------------------------------
(* What makes the invariants inductive *)

\* Between sessions there is no connection.
Idle == pc # "session" => new_socket = NoClient
=============================================================================
