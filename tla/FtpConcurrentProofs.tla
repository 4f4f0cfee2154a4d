------------------------- MODULE FtpConcurrentProofs -------------------------
(***************************************************************************)
(* Theorems about FtpConcurrent, for any number of clients, children and    *)
(* signals from outside: its invariants first, then that it implements      *)
(* ConnectionService.  Two more invariants carry that: what a process holds *)
(* open is what it serves (Holding), and nobody is queued at a listener     *)
(* that is gone (Quiet).                                                    *)
(***************************************************************************)
EXTENDS FtpConcurrent, SequenceTheorems, TLAPS

Everywhere == {"unborn", "gone"} \cup ParentLabels \cup ChildLabels
Frame      == [handler : HandlerNames, step : HandlerSteps]
Standing   == {"away", "queued", "accepted", "closed"}

\* The names the actions use, so that later steps need not unfold the sets.
LEMMA Members ==
    /\ {"setpgid", "sigaction_int", "sigaction_term"} \subseteq Everywhere
    /\ {"unborn", "gone", "accept", "fork", "close_new", "set_sigterm",
        "set_sigint", "close_listen", "session", "exit"} \subseteq Everywhere
    /\ {"handle_sigint", "handle_sigterm", "handle_sigterm_child"}
         \subseteq HandlerNames
    /\ {"close", "killpg", "exit"} \subseteq HandlerSteps
    /\ {"SIGINT", "SIGTERM"} \subseteq Signals
BY DEF Everywhere, ParentLabels, SetupLabels, LoopLabels, ChildLabels, HandlerNames, HandlerSteps, Signals

\* The parent is a process, and no child is the parent.
LEMMA ProcessFacts ==
    /\ Parent \in Processes /\ Children \subseteq Processes
    /\ \A p \in Children : p # Parent
    /\ NoClient \notin Clients
BY ProcessAssumption DEF Processes

\* A process ends of itself, by an exit(), by a signal or by a handler.
Dies(p) == \/ ChildExits(p) \/ BrokenPipe(p) \/ HandlerExits(p)
           \/ DeliverDefault(p) \/ SetupFails(p)

\* Whatever ends a process, it was alive and has terminated.
LEMMA DiesTerminates ==
    ASSUME NEW p, Dies(p)
    PROVE  Terminates(p) /\ Alive(p)
BY DEF Dies, ChildExits, BrokenPipe, HandlerExits, DeliverDefault, SetupFails,
   InHandler, Alive, Runs, SetupLabels

\* The disjuncts of Next, with the process each is about.
LEMMA NextCases ==
    ASSUME Next
    PROVE  \/ setup_signals \/ Accept \/ Fork \/ ParentCloses
           \/ \E p \in Processes :
                \/ SetSigterm(p) \/ SetSigint(p) \/ CloseListen(p)
                \/ Dies(p) \/ Deliver(p)
                \/ HandlerClosesListener(p) \/ HandlerKillsGroup(p)
                \/ HandlerClosesSession(p)
           \/ \E p \in Children : SessionReturns(p)
           \/ \E c \in Clients : ClientConnects(c)
           \/ Interrupt \/ \E p \in Processes : Kill(p)
BY ProcessFacts DEF Next, ParentProgress, Progress, Dies

\* setup_signals moves the parent on and changes its dispositions.
LEMMA SetupMoves ==
    ASSUME setup_signals
    PROVE  /\ UNCHANGED <<frames, pending, listening, server_socket, conns>>
           /\ UNCHANGED <<new_socket, queue, client, signals>>
           /\ pc[Parent] \in SetupLabels /\ frames[Parent] = <<>>
           /\ \E l \in {"sigaction_int", "sigaction_term", "accept"} :
                pc' = [pc EXCEPT ![Parent] = l]
           /\ \/ disposition' = disposition
              \/ disposition' = [disposition EXCEPT
                                   ![Parent]["SIGINT"] = "handle_sigint"]
              \/ disposition' = [disposition EXCEPT
                                   ![Parent]["SIGTERM"] = "handle_sigterm"]
BY DEF setup_signals, LeadGroup, InstallSigint, InstallSigterm, Runs, SetupLabels,
   process, sockets

-----------------------------------------------------------------------------
(* Types *)

\* What SocketsAfter leaves of the queue and of the clients has their types.
LEMMA SocketTypes ==
    ASSUME NEW open \in [Processes -> BOOLEAN],
           NEW held \in [Processes -> SUBSET Clients],
           queue \in Seq(Clients), client \in [Clients -> Standing],
           SocketsAfter(open, held)
    PROVE  /\ (listening \in [Processes -> BOOLEAN])'
           /\ (conns \in [Processes -> SUBSET Clients])'
           /\ (queue \in Seq(Clients))'
           /\ (client \in [Clients -> Standing])'
<1>1. (queue \in Seq(Clients))'
  BY DEF SocketsAfter
<1>2. (client \in [Clients -> Standing])'
  BY DEF SocketsAfter, Standing
<1> QED BY <1>1, <1>2 DEF SocketsAfter

\* The labels.
LEMMA PcStays ==
    ASSUME TypeOK, Next
    PROVE  (pc \in [Processes -> Everywhere])'
<1>0. pc \in [Processes -> Everywhere]
  BY DEF TypeOK, Everywhere
<1>9. CASE setup_signals
  BY <1>0, <1>9, SetupMoves, Members
<1>1. CASE Accept
  BY <1>0, <1>1, Members DEF Accept
<1>2. CASE Fork
  <2>1. PICK p \in Children :
          pc' = [pc EXCEPT ![Parent] = "close_new", ![p] = "set_sigterm"]
    BY <1>2 DEF Fork
  <2> QED BY <1>0, <2>1, Members
<1>3. CASE ParentCloses
  BY <1>0, <1>3, Members DEF ParentCloses
<1>4. ASSUME NEW p \in Processes, SetSigterm(p) \/ SetSigint(p) \/ CloseListen(p)
      PROVE  (pc \in [Processes -> Everywhere])'
  BY <1>0, <1>4, Members DEF SetSigterm, SetSigint, CloseListen
<1>5. ASSUME NEW p \in Processes,
             SessionReturns(p) \/ Dies(p)
      PROVE  (pc \in [Processes -> Everywhere])'
  BY <1>0, <1>5, Members, DiesTerminates DEF SessionReturns, Terminates
<1>6. ASSUME NEW p \in Processes,
             \/ Deliver(p) \/ HandlerClosesListener(p) \/ HandlerKillsGroup(p)
             \/ HandlerClosesSession(p) \/ Kill(p)
      PROVE  (pc \in [Processes -> Everywhere])'
  BY <1>0, <1>6 DEF Deliver, HandlerClosesListener, HandlerKillsGroup,
     HandlerClosesSession, Kill
<1>7. ASSUME NEW c \in Clients, ClientConnects(c)
      PROVE  (pc \in [Processes -> Everywhere])'
  BY <1>0, <1>7 DEF ClientConnects
<1>8. CASE Interrupt
  BY <1>0, <1>8 DEF Interrupt
<1> QED BY <1>1, <1>2, <1>3, <1>4, <1>5, <1>6, <1>7, <1>8, <1>9, NextCases, ProcessFacts

\* The handlers that run.
LEMMA FramesStay ==
    ASSUME TypeOK, Next
    PROVE  (frames \in [Processes -> Seq(Frame)])'
<1>0. frames \in [Processes -> Seq(Frame)] /\ disposition \in [Processes -> [Signals -> HandlerNames \cup {"ignore", "default"}]]
  BY DEF TypeOK, Frame
<1>1. ASSUME NEW p \in Processes, Deliver(p)
      PROVE  (frames \in [Processes -> Seq(Frame)])'
  <2>1. PICK s \in Deliverable(p) :
          /\ disposition[p][s] # "default"
          /\ frames' = IF disposition[p][s] = "ignore" THEN frames
                       ELSE [frames EXCEPT ![p] =
                               Append(@, [handler |-> disposition[p][s],
                                          step |-> "close"])]
    BY <1>1 DEF Deliver
  <2>2. s \in Signals
    BY <2>1 DEF Deliverable, TypeOK
  <2>3. CASE disposition[p][s] = "ignore"
    BY <1>0, <2>1, <2>3
  <2>4. CASE disposition[p][s] # "ignore"
    <3> DEFINE f == [handler |-> disposition[p][s], step |-> "close"]
    <3>1. f \in Frame
      BY <1>0, <2>1, <2>2, <2>4, Members DEF Frame
    <3>2. Append(frames[p], f) \in Seq(Frame)
      BY <1>0, <3>1
    <3>3. frames' = [frames EXCEPT ![p] = Append(frames[p], f)]
      BY <1>0, <2>1, <2>4
    <3> QED BY <1>0, <3>2, <3>3
  <2> QED BY <2>3, <2>4
<1>2. ASSUME NEW p \in Processes, NEW step \in HandlerSteps,
             frames[p] # <<>>, Advance(p, step)
      PROVE  (frames \in [Processes -> Seq(Frame)])'
  <2> DEFINE n == Len(frames[p])
             top == [frames[p][n] EXCEPT !.step = step]
  <2>1. n \in DOMAIN frames[p] /\ frames[p][n] \in Frame
    BY <1>0, <1>2
  <2>2. top \in Frame
    BY <2>1 DEF Frame
  <2>3. [frames[p] EXCEPT ![n] = top] \in Seq(Frame)
    BY <1>0, <2>1, <2>2
  <2>4. frames' = [frames EXCEPT ![p] = [frames[p] EXCEPT ![n] = top]]
    BY <1>0, <1>2 DEF Advance
  <2> QED BY <1>0, <2>3, <2>4
<1>3. ASSUME NEW p \in Processes,
             \/ HandlerClosesListener(p) \/ HandlerKillsGroup(p)
             \/ HandlerClosesSession(p)
      PROVE  (frames \in [Processes -> Seq(Frame)])'
  BY <1>2, <1>3, Members DEF HandlerClosesListener, HandlerKillsGroup,
     HandlerClosesSession, InHandler
<1>4. ASSUME NEW p \in Processes, Dies(p)
      PROVE  (frames \in [Processes -> Seq(Frame)])'
  <2>1. frames' = [frames EXCEPT ![p] = <<>>]
    BY <1>4, DiesTerminates DEF Terminates
  <2>2. <<>> \in Seq(Frame)
    OBVIOUS
  <2> QED BY <1>0, <2>1, <2>2
<1>5. ASSUME NEW p \in Processes,
             SetSigterm(p) \/ SetSigint(p) \/ CloseListen(p) \/ SessionReturns(p)
             \/ Kill(p)
      PROVE  frames' = frames
  BY <1>5 DEF SetSigterm, SetSigint, CloseListen, SessionReturns, Kill, process
<1>6. ASSUME \/ Accept \/ Fork \/ ParentCloses \/ Interrupt
             \/ \E c \in Clients : ClientConnects(c)
      PROVE  frames' = frames
  BY <1>6 DEF Accept, Fork, ParentCloses, Interrupt, ClientConnects, process
<1>7. ASSUME setup_signals
      PROVE  frames' = frames
  BY <1>7, SetupMoves
<1> QED BY <1>0, <1>1, <1>3, <1>4, <1>5, <1>6, <1>7, NextCases, ProcessFacts

\* Dispositions and pending signals.
LEMMA SignalsStay ==
    ASSUME TypeOK, Next
    PROVE  /\ (disposition \in [Processes -> [Signals -> HandlerNames \cup {"ignore", "default"}]])'
           /\ (pending \in [Processes -> SUBSET Signals])'
           /\ (signals \in 0 .. MaxSignals)'
<1> DEFINE Actions == HandlerNames \cup {"ignore", "default"}
<1> HIDE DEF Actions
<1>0. /\ disposition \in [Processes -> [Signals -> Actions]]
      /\ pending \in [Processes -> SUBSET Signals]
      /\ signals \in 0 .. MaxSignals
  BY DEF TypeOK, Actions
<1>1. ASSUME NEW p \in Processes, SetSigterm(p) \/ SetSigint(p)
      PROVE  (disposition \in [Processes -> [Signals -> Actions]])'
  <2>1. "handle_sigterm_child" \in Actions /\ "ignore" \in Actions
    BY Members DEF Actions
  <2>2. PICK s \in Signals, a \in Actions :
          disposition' = [disposition EXCEPT ![p][s] = a]
    BY <1>1, <2>1, Members DEF SetSigterm, SetSigint
  <2> QED BY <1>0, <2>2
<1>2. ASSUME Fork
      PROVE  (disposition \in [Processes -> [Signals -> Actions]])'
  <2>1. PICK p \in Children :
          disposition' = [disposition EXCEPT ![p] = disposition[Parent]]
    BY <1>2 DEF Fork
  <2>2. disposition[Parent] \in [Signals -> Actions]
    BY <1>0, ProcessFacts
  <2> QED BY <1>0, <2>1, <2>2
<1>3. ASSUME NEW p \in Processes, SetSigterm(p) \/ SetSigint(p)
      PROVE  pending' = pending /\ signals' = signals
  BY <1>3 DEF SetSigterm, SetSigint
<1>4. ASSUME Fork
      PROVE  pending' = pending /\ signals' = signals
  BY <1>4 DEF Fork
<1>5. ASSUME \/ Accept \/ ParentCloses
             \/ \E p \in Processes : CloseListen(p) \/ SessionReturns(p)
                                      \/ HandlerClosesListener(p)
                                      \/ HandlerClosesSession(p)
             \/ \E c \in Clients : ClientConnects(c)
      PROVE  UNCHANGED <<disposition, pending, signals>>
  BY <1>5 DEF Accept, ParentCloses, CloseListen, SessionReturns,
     HandlerClosesListener, HandlerClosesSession, ClientConnects, process
<1>6. ASSUME NEW p \in Processes, Dies(p)
      PROVE  /\ UNCHANGED <<disposition, signals>>
             /\ (pending \in [Processes -> SUBSET Signals])'
  BY <1>0, <1>6, DiesTerminates DEF Terminates
<1>7. ASSUME NEW p \in Processes, Deliver(p)
      PROVE  /\ UNCHANGED <<disposition, signals>>
             /\ (pending \in [Processes -> SUBSET Signals])'
  BY <1>0, <1>7 DEF Deliver
<1>8. ASSUME NEW p \in Processes, HandlerKillsGroup(p)
      PROVE  /\ UNCHANGED <<disposition, signals>>
             /\ (pending \in [Processes -> SUBSET Signals])'
  BY <1>0, <1>8, Members DEF HandlerKillsGroup
<1>9. ASSUME Interrupt \/ \E p \in Processes : Kill(p)
      PROVE  /\ disposition' = disposition
             /\ (pending \in [Processes -> SUBSET Signals])'
             /\ (signals \in 0 .. MaxSignals)'
  BY <1>0, <1>9, Members, ProcessAssumption DEF Interrupt, Kill
<1>12. ASSUME setup_signals
       PROVE  /\ UNCHANGED <<pending, signals>>
              /\ (disposition \in [Processes -> [Signals -> Actions]])'
  <2>1. "handle_sigint" \in Actions /\ "handle_sigterm" \in Actions
    BY Members DEF Actions
  <2>2. \/ disposition' = disposition
        \/ \E s \in Signals, a \in Actions :
             disposition' = [disposition EXCEPT ![Parent][s] = a]
    BY <1>12, <2>1, SetupMoves, Members
  <2> QED BY <1>0, <1>12, <2>2, SetupMoves, ProcessFacts
<1>10. (disposition \in [Processes -> [Signals -> Actions]])'
  BY <1>0, <1>1, <1>2, <1>5, <1>6, <1>7, <1>8, <1>9, <1>12, NextCases, ProcessFacts
<1>11. (pending \in [Processes -> SUBSET Signals])' /\ (signals \in 0 .. MaxSignals)'
  BY <1>0, <1>3, <1>4, <1>5, <1>6, <1>7, <1>8, <1>9, <1>12, NextCases, ProcessFacts
<1> QED BY <1>10, <1>11 DEF Actions

\* Sockets, queue and clients.
LEMMA SocketsStay ==
    ASSUME TypeOK, Next
    PROVE  /\ (listening \in [Processes -> BOOLEAN])'
           /\ (server_socket \in [Processes -> BOOLEAN])'
           /\ (conns \in [Processes -> SUBSET Clients])'
           /\ (new_socket \in [Processes -> Clients \cup {NoClient}])'
           /\ (queue \in Seq(Clients))'
           /\ (client \in [Clients -> Standing])'
<1> DEFINE Goal == /\ (listening \in [Processes -> BOOLEAN])'
                   /\ (server_socket \in [Processes -> BOOLEAN])'
                   /\ (conns \in [Processes -> SUBSET Clients])'
                   /\ (new_socket \in [Processes -> Clients \cup {NoClient}])'
                   /\ (queue \in Seq(Clients))'
                   /\ (client \in [Clients -> Standing])'
<1>0. /\ listening \in [Processes -> BOOLEAN]
      /\ server_socket \in [Processes -> BOOLEAN]
      /\ conns \in [Processes -> SUBSET Clients]
      /\ new_socket \in [Processes -> Clients \cup {NoClient}]
      /\ queue \in Seq(Clients)
      /\ client \in [Clients -> Standing]
  BY DEF TypeOK, Standing
<1>1. CASE Accept
  <2>1. Head(queue) \in Clients /\ Tail(queue) \in Seq(Clients)
    BY <1>0, <1>1 DEF Accept
  <2>2. (client \in [Clients -> Standing])'
    BY <1>0, <1>1, <2>1 DEF Accept, Standing
  <2> QED BY <1>0, <1>1, <2>1, <2>2, ProcessFacts DEF Accept
<1>2. CASE Fork
  <2>1. PICK p \in Children :
          /\ listening' = [listening EXCEPT ![p] = listening[Parent]]
          /\ server_socket' = [server_socket EXCEPT ![p] = server_socket[Parent]]
          /\ conns' = [conns EXCEPT ![p] = conns[Parent]]
          /\ new_socket' = [new_socket EXCEPT ![p] = new_socket[Parent]]
    BY <1>2 DEF Fork
  <2> QED BY <1>0, <1>2, <2>1, ProcessFacts DEF Fork
<1>3. CASE ParentCloses
  <2> DEFINE held == [conns EXCEPT ![Parent] = @ \ {new_socket[Parent]}]
  <2>1. held \in [Processes -> SUBSET Clients]
    BY <1>0
  <2>2. SocketsAfter(listening, held)
    BY <1>3 DEF ParentCloses
  <2>3. (server_socket \in [Processes -> BOOLEAN])'
        /\ (new_socket \in [Processes -> Clients \cup {NoClient}])'
    BY <1>0, <1>3 DEF ParentCloses
  <2> HIDE DEF held
  <2> QED BY <1>0, <2>1, <2>2, <2>3, SocketTypes
<1>4. ASSUME NEW p \in Processes, CloseListen(p)
      PROVE  Goal
  <2> DEFINE open == [listening EXCEPT ![p] = FALSE]
  <2>1. open \in [Processes -> BOOLEAN] /\ SocketsAfter(open, conns)
    BY <1>0, <1>4 DEF CloseListen
  <2> HIDE DEF open
  <2> QED BY <1>0, <1>4, <2>1, SocketTypes DEF CloseListen
<1>5. ASSUME NEW p \in Processes, SessionReturns(p) \/ HandlerClosesSession(p)
      PROVE  Goal
  <2>1. PICK held \in [Processes -> SUBSET Clients] : SocketsAfter(listening, held)
    <3>1. [conns EXCEPT ![p] = @ \ {new_socket[p]}] \in [Processes -> SUBSET Clients]
      BY <1>0
    <3> QED BY <1>0, <1>5, <3>1 DEF SessionReturns, HandlerClosesSession
  <2> QED BY <1>0, <1>5, <2>1, SocketTypes DEF SessionReturns, HandlerClosesSession
<1>6. ASSUME NEW p \in Processes, Dies(p)
      PROVE  Goal
  <2> DEFINE open == [listening EXCEPT ![p] = FALSE]
             held == [conns EXCEPT ![p] = {}]
  <2>1. open \in [Processes -> BOOLEAN] /\ held \in [Processes -> SUBSET Clients]
    BY <1>0
  <2>2. SocketsAfter(open, held) /\ UNCHANGED <<server_socket, new_socket>>
    BY <1>6, DiesTerminates DEF Terminates
  <2> HIDE DEF open, held
  <2> QED BY <1>0, <2>1, <2>2, SocketTypes
<1>7. ASSUME NEW p \in Processes, HandlerClosesListener(p)
      PROVE  Goal
  <2> DEFINE open == [listening EXCEPT ![p] = @ /\ ~server_socket[p]]
  <2>1. open \in [Processes -> BOOLEAN]
    BY <1>0
  <2>2. SocketsAfter(open, conns) /\ new_socket' = new_socket
    BY <1>7 DEF HandlerClosesListener
  <2>3. (server_socket \in [Processes -> BOOLEAN])'
    BY <1>0, <1>7 DEF HandlerClosesListener
  <2> HIDE DEF open
  <2> QED BY <1>0, <2>1, <2>2, <2>3, SocketTypes
<1>8. ASSUME NEW c \in Clients, ClientConnects(c)
      PROVE  Goal
  <2>1. (queue \in Seq(Clients))'
    BY <1>0, <1>8 DEF ClientConnects
  <2>2. (client \in [Clients -> Standing])'
    BY <1>0, <1>8 DEF ClientConnects, Standing
  <2> QED BY <1>0, <1>8, <2>1, <2>2 DEF ClientConnects, sockets
<1>9. ASSUME \/ Interrupt
             \/ \E p \in Processes : \/ SetSigterm(p) \/ SetSigint(p) \/ Deliver(p)
                                      \/ HandlerKillsGroup(p) \/ Kill(p)
      PROVE  Goal
  BY <1>0, <1>9 DEF Interrupt, SetSigterm, SetSigint, Deliver, HandlerKillsGroup,
     Kill, sockets
<1>11. CASE setup_signals
  BY <1>0, <1>11, SetupMoves
<1> HIDE DEF Goal
<1>10. Goal
  BY <1>1, <1>2, <1>3, <1>4, <1>5, <1>6, <1>7, <1>8, <1>9, <1>11, NextCases, ProcessFacts
     DEF Goal
<1> QED BY <1>10 DEF Goal

\* Nothing but stuttering steps leaves every variable alone.
LEMMA Stutter ==
    ASSUME UNCHANGED vars
    PROVE  /\ UNCHANGED <<pc, frames, disposition, pending, listening>>
           /\ UNCHANGED <<server_socket, conns, new_socket, queue, client, signals>>
BY DEF vars, process, sockets

\* What a step does to the dispositions.
LEMMA DispositionCases ==
    ASSUME Next
    PROVE  \/ disposition' = disposition
           \/ setup_signals
           \/ \E p \in Children :
                disposition' = [disposition EXCEPT ![p] = disposition[Parent]]
           \/ \E p \in Processes :
                \/ /\ SetSigterm(p)
                   /\ disposition' = [disposition EXCEPT
                                       ![p]["SIGTERM"] = "handle_sigterm_child"]
                \/ /\ SetSigint(p)
                   /\ disposition' = [disposition EXCEPT ![p]["SIGINT"] = "ignore"]
<1>1. ASSUME ~setup_signals, ~Fork, ~\E p \in Processes : SetSigterm(p) \/ SetSigint(p)
      PROVE  disposition' = disposition
  BY <1>1, NextCases, ProcessFacts, DiesTerminates
     DEF Accept, ParentCloses, CloseListen, SessionReturns, Terminates, Deliver,
     HandlerClosesListener, HandlerKillsGroup, HandlerClosesSession, ClientConnects,
     Interrupt, Kill, process
<1>2. CASE Fork
  BY <1>2 DEF Fork
<1>3. ASSUME NEW p \in Processes
      PROVE  /\ SetSigterm(p) =>
                  disposition' = [disposition EXCEPT
                                   ![p]["SIGTERM"] = "handle_sigterm_child"]
             /\ SetSigint(p) =>
                  disposition' = [disposition EXCEPT ![p]["SIGINT"] = "ignore"]
  BY DEF SetSigterm, SetSigint
<1> QED BY <1>1, <1>2, <1>3

\* A step installs for a signal only what was written for it.
LEMMA InstalledStays ==
    ASSUME TypeOK, Next
    PROVE  Installed'
<1>0. disposition \in [Processes -> [Signals -> HandlerNames \cup {"ignore", "default"}]]
  BY DEF TypeOK
<1>1. Installed
  BY DEF TypeOK
<1>2. CASE disposition' = disposition
  BY <1>1, <1>2 DEF Installed
<1>3. CASE setup_signals
  BY <1>0, <1>1, <1>3, SetupMoves, Members, ProcessFacts DEF Installed
<1>4. ASSUME NEW p \in Children,
             disposition' = [disposition EXCEPT ![p] = disposition[Parent]]
      PROVE  Installed'
  BY <1>0, <1>1, <1>4, ProcessFacts DEF Installed
<1>5. ASSUME NEW p \in Processes,
             \/ disposition' = [disposition EXCEPT ![p]["SIGTERM"] = "handle_sigterm_child"]
             \/ disposition' = [disposition EXCEPT ![p]["SIGINT"] = "ignore"]
      PROVE  Installed'
  BY <1>0, <1>1, <1>5, Members DEF Installed
<1> QED BY <1>2, <1>3, <1>4, <1>5, DispositionCases

\* A step keeps the types.
LEMMA TypeStep == TypeOK /\ [Next]_vars => TypeOK'
<1> SUFFICES ASSUME TypeOK, [Next]_vars PROVE TypeOK'
  OBVIOUS
<1>1. CASE Next
  BY <1>1, PcStays, FramesStay, SignalsStay, SocketsStay, InstalledStays
     DEF TypeOK, Everywhere, Frame, Standing
<1>2. CASE UNCHANGED vars
  BY <1>2, Stutter DEF TypeOK, Installed
<1> QED BY <1>1, <1>2

\* The types hold at first.
LEMMA TypeInit == Init => TypeOK
<1> SUFFICES ASSUME Init PROVE TypeOK
  OBVIOUS
<1>2. <<>> \in Seq(Frame) /\ <<>> \in Seq(Clients)
  OBVIOUS
<1>3. frames \in [Processes -> Seq(Frame)]
  BY <1>2 DEF Init
<1>4. Installed
  BY DEF Init, Installed, Signals
<1> QED BY <1>2, <1>3, <1>4, ProcessAssumption
        DEF Init, TypeOK, Frame, ParentLabels, SetupLabels

\* Labels, handler stacks, dispositions, pending signals, descriptors and the
\* queue keep their types through every interleaving of program and handlers.
THEOREM TypeCorrect == Spec => []TypeOK
BY TypeInit, TypeStep, PTL DEF Spec

-----------------------------------------------------------------------------
(* Handlers *)

\* What a step does to the handler stacks: nothing, end a process, start a
\* handler of a signal that is not blocked, or advance the innermost one.
LEMMA FrameCases ==
    ASSUME TypeOK, Next
    PROVE  \/ frames' = frames
           \/ \E p \in Processes : frames' = [frames EXCEPT ![p] = <<>>]
           \/ \E p \in Processes : \E s \in Deliverable(p) :
                /\ disposition[p][s] \notin {"ignore", "default"}
                /\ frames' = [frames EXCEPT ![p] =
                                Append(@, [handler |-> disposition[p][s],
                                           step |-> "close"])]
           \/ \E p \in Processes, step \in HandlerSteps :
                frames[p] # <<>> /\ Advance(p, step)
<1>1. ASSUME NEW p \in Processes, Dies(p)
      PROVE  frames' = [frames EXCEPT ![p] = <<>>]
  BY <1>1, DiesTerminates DEF Terminates
<1>2. ASSUME NEW p \in Processes, Deliver(p)
      PROVE  \/ frames' = frames
             \/ \E s \in Deliverable(p) :
                  /\ disposition[p][s] \notin {"ignore", "default"}
                  /\ frames' = [frames EXCEPT ![p] =
                                  Append(@, [handler |-> disposition[p][s],
                                             step |-> "close"])]
  BY <1>2 DEF Deliver
<1>3. ASSUME NEW p \in Processes,
             \/ HandlerClosesListener(p) \/ HandlerKillsGroup(p)
             \/ HandlerClosesSession(p)
      PROVE  frames[p] # <<>> /\ (Advance(p, "killpg") \/ Advance(p, "exit"))
  BY <1>3 DEF HandlerClosesListener, HandlerKillsGroup, HandlerClosesSession,
     InHandler
<1>4. ASSUME NEW p \in Processes,
             SetSigterm(p) \/ SetSigint(p) \/ CloseListen(p) \/ SessionReturns(p)
             \/ Kill(p)
      PROVE  frames' = frames
  BY <1>4 DEF SetSigterm, SetSigint, CloseListen, SessionReturns, Kill, process
<1>5. ASSUME \/ Accept \/ Fork \/ ParentCloses \/ Interrupt
             \/ \E c \in Clients : ClientConnects(c)
      PROVE  frames' = frames
  BY <1>5 DEF Accept, Fork, ParentCloses, Interrupt, ClientConnects, process
<1>6. ASSUME setup_signals
      PROVE  frames' = frames
  BY <1>6, SetupMoves
<1> QED BY <1>1, <1>2, <1>3, <1>4, <1>5, <1>6, NextCases, ProcessFacts, Members

\* Advancing a handler changes the step of the innermost frame and no more.
LEMMA AdvanceKeeps ==
    ASSUME TypeOK, NEW p \in Processes, NEW step \in HandlerSteps,
           frames[p] # <<>>, Advance(p, step)
    PROVE  /\ \A q \in Processes : q # p => frames'[q] = frames[q]
           /\ DOMAIN frames'[p] = DOMAIN frames[p]
           /\ frames'[p] # <<>>
           /\ \A i \in DOMAIN frames[p] :
                /\ frames'[p][i].handler = frames[p][i].handler
                /\ frames'[p][i].step \in {frames[p][i].step, step}
           /\ Len(frames[p]) \in DOMAIN frames[p]
           /\ frames'[p][Len(frames[p])].step = step
<1> DEFINE n == Len(frames[p])
           top == [frames[p][n] EXCEPT !.step = step]
<1>1. frames \in [Processes -> Seq(Frame)]
  BY DEF TypeOK, Frame
<1>2. n \in DOMAIN frames[p] /\ frames[p][n] \in Frame
  BY <1>1
<1>3. top.handler = frames[p][n].handler /\ top.step = step
  BY <1>2 DEF Frame
<1>4. frames' = [frames EXCEPT ![p] = [frames[p] EXCEPT ![n] = top]]
  BY <1>1 DEF Advance
<1>5. frames'[p] = [frames[p] EXCEPT ![n] = top]
  BY <1>1, <1>4
<1>6. DOMAIN frames'[p] = DOMAIN frames[p]
  BY <1>5
<1>7. frames'[p][n].step = step
  BY <1>1, <1>2, <1>3, <1>5
<1> HIDE DEF n, top
<1>8. \A i \in DOMAIN frames[p] :
        frames'[p][i] = IF i = n THEN top ELSE frames[p][i]
  BY <1>1, <1>5
<1>9. frames'[p] # <<>>
  BY <1>1, <1>2, <1>6
<1> QED BY <1>1, <1>2, <1>3, <1>4, <1>6, <1>7, <1>8, <1>9 DEF n

\* Starting a handler adds a frame above the others.
LEMMA AppendKeeps ==
    ASSUME NEW st \in Seq(Frame), NEW f \in Frame
    PROVE  /\ Append(st, f) # <<>>
           /\ DOMAIN st = 1 .. Len(st)
           /\ DOMAIN Append(st, f) = 1 .. (Len(st) + 1)
           /\ \A i \in 1 .. Len(st) : Append(st, f)[i] = st[i]
           /\ Append(st, f)[Len(st) + 1] = f
OBVIOUS

\* At first the parent is before its first sigaction, and nobody is born.
LEMMA RolesInit == Init => Roles
BY ProcessFacts, Members DEF Init, Roles, ParentLabels, SetupLabels, LoopLabels, Signals

\* The parent keeps its labels, and leaves those of setup_signals for good.
LEMMA RolesLabel ==
    ASSUME TypeOK, Roles, Next
    PROVE  \/ pc'[Parent] \in {pc[Parent], "gone"}
           \/ setup_signals
           \/ /\ pc[Parent] \in LoopLabels /\ pc'[Parent] \in LoopLabels
              /\ Accept \/ Fork \/ ParentCloses
<1>0. pc \in [Processes -> Everywhere] /\ Parent \in Processes
  BY ProcessFacts DEF TypeOK, Everywhere
<1>1. ASSUME Accept \/ ParentCloses
      PROVE  pc[Parent] \in LoopLabels /\ pc'[Parent] \in LoopLabels
  BY <1>0, <1>1 DEF Accept, ParentCloses, Runs, LoopLabels
<1>2. ASSUME Fork
      PROVE  pc[Parent] \in LoopLabels /\ pc'[Parent] \in LoopLabels
  <2>1. PICK p \in Children :
          pc' = [pc EXCEPT ![Parent] = "close_new", ![p] = "set_sigterm"]
    BY <1>2 DEF Fork
  <2> QED BY <1>0, <1>2, <2>1, ProcessFacts DEF Fork, Runs, LoopLabels
<1>3. ASSUME NEW p \in Processes, SetSigterm(p) \/ SetSigint(p) \/ CloseListen(p)
      PROVE  pc'[Parent] = pc[Parent]
  BY <1>0, <1>3 DEF Roles, Runs, SetSigterm, SetSigint, CloseListen, ParentLabels,
     SetupLabels, LoopLabels
<1>4. ASSUME NEW p \in Children, SessionReturns(p)
      PROVE  pc'[Parent] = pc[Parent]
  BY <1>0, <1>4, ProcessFacts DEF SessionReturns
<1>5. ASSUME NEW p \in Processes, Dies(p)
      PROVE  pc'[Parent] \in {pc[Parent], "gone"}
  BY <1>0, <1>5, DiesTerminates DEF Terminates
<1>6. ASSUME \/ Interrupt
             \/ \E p \in Processes : \/ Deliver(p) \/ HandlerClosesListener(p)
                                      \/ HandlerKillsGroup(p) \/ Kill(p)
                                      \/ HandlerClosesSession(p)
             \/ \E c \in Clients : ClientConnects(c)
      PROVE  pc' = pc
  BY <1>6 DEF Interrupt, Deliver, HandlerClosesListener, HandlerKillsGroup, Kill,
     HandlerClosesSession, ClientConnects
<1> QED BY <1>1, <1>2, <1>3, <1>4, <1>5, <1>6, NextCases, ProcessFacts

\* A child is born by fork(), and nobody else is.
LEMMA BornByFork ==
    ASSUME TypeOK, Next, ~Fork, NEW p \in Children, pc[p] = "unborn"
    PROVE  pc'[p] = "unborn"
<1>0. pc \in [Processes -> Everywhere] /\ p \in Processes /\ p # Parent
  BY ProcessFacts DEF TypeOK, Everywhere
<1>1. CASE setup_signals
  BY <1>0, <1>1, SetupMoves
<1>2. CASE Accept \/ ParentCloses
  BY <1>0, <1>2 DEF Accept, ParentCloses
<1>3. ASSUME NEW q \in Processes,
             \/ SetSigterm(q) \/ SetSigint(q) \/ CloseListen(q) \/ SessionReturns(q)
             \/ Deliver(q) \/ HandlerClosesListener(q) \/ HandlerKillsGroup(q)
             \/ HandlerClosesSession(q) \/ Kill(q)
      PROVE  pc'[p] = "unborn"
  BY <1>0, <1>3 DEF SetSigterm, SetSigint, CloseListen, SessionReturns, Runs, Deliver,
     HandlerClosesListener, HandlerKillsGroup, HandlerClosesSession, Kill
<1>4. ASSUME NEW q \in Processes, Dies(q)
      PROVE  pc'[p] = "unborn"
  BY <1>0, <1>4, DiesTerminates DEF Terminates, Alive
<1>5. CASE Interrupt \/ \E c \in Clients : ClientConnects(c)
  BY <1>5 DEF Interrupt, ClientConnects
<1> QED BY <1>1, <1>2, <1>3, <1>4, <1>5, NextCases, ProcessFacts

\* No child is born while the parent sets up its handlers.
LEMMA RolesChildren ==
    ASSUME TypeOK, Roles, Next, pc'[Parent] \in SetupLabels
    PROVE  \A p \in Children : pc'[p] = "unborn"
<1>1. pc[Parent] \in SetupLabels
  BY RolesLabel, SetupMoves DEF SetupLabels, LoopLabels
<1>2. ~Fork /\ \A p \in Children : pc[p] = "unborn"
  BY <1>1 DEF Roles, Fork, Runs, SetupLabels
<1> QED BY <1>2, BornByFork

\* When the parent gets to accept() both handlers are installed.
LEMMA RolesSetup ==
    ASSUME TypeOK, Roles, setup_signals
    PROVE  /\ pc'[Parent] \in LoopLabels \cup {"sigaction_term"} =>
                disposition'[Parent]["SIGINT"] = "handle_sigint"
           /\ pc'[Parent] \in LoopLabels =>
                disposition'[Parent]["SIGTERM"] = "handle_sigterm"
<1>0. /\ pc \in [Processes -> Everywhere] /\ Parent \in Processes
      /\ disposition \in [Processes -> [Signals -> HandlerNames \cup {"ignore", "default"}]]
  BY ProcessFacts DEF TypeOK, Everywhere
<1>1. CASE LeadGroup
  BY <1>0, <1>1 DEF LeadGroup, LoopLabels
<1>2. CASE InstallSigint
  BY <1>0, <1>2, Members DEF InstallSigint, LoopLabels
<1>3. CASE InstallSigterm
  BY <1>0, <1>3, Members DEF InstallSigterm, Runs, Roles
<1> QED BY <1>1, <1>2, <1>3 DEF setup_signals

\* The dispositions are the default ones, those of setup_signals or those of
\* setup_child_signals; the parent's own change in setup_signals only.
LEMMA RolesDisposition ==
    ASSUME TypeOK, Roles, Next
    PROVE  /\ setup_signals \/ disposition'[Parent] = disposition[Parent]
           /\ disposition'[Parent]["SIGINT"] \in {"handle_sigint", "default"}
           /\ disposition'[Parent]["SIGTERM"] \in {"handle_sigterm", "default"}
<1>0. disposition \in [Processes -> [Signals -> HandlerNames \cup {"ignore", "default"}]]
  BY DEF TypeOK
<1>1. ASSUME NEW p \in Processes, SetSigterm(p) \/ SetSigint(p)
      PROVE  p # Parent
  BY <1>1 DEF SetSigterm, SetSigint, Roles, Runs, ParentLabels, SetupLabels, LoopLabels
<1>2. CASE setup_signals
  BY <1>0, <1>2, SetupMoves, Members, ProcessFacts DEF Roles
<1>3. CASE ~setup_signals
  <2>1. disposition'[Parent] = disposition[Parent]
    BY <1>0, <1>1, <1>3, DispositionCases, ProcessFacts
  <2> QED BY <2>1 DEF Roles
<1> QED BY <1>2, <1>3

\* The parent runs its own handlers.
LEMMA RolesHandlers ==
    ASSUME TypeOK, Roles, Next
    PROVE  \A i \in DOMAIN frames'[Parent] :
             frames'[Parent][i].handler \in {"handle_sigint", "handle_sigterm"}
<1>0. frames \in [Processes -> Seq(Frame)] /\ Parent \in Processes
  BY ProcessFacts DEF TypeOK, Frame
<1>1. ASSUME NEW p \in Processes, frames' = [frames EXCEPT ![p] = <<>>]
      PROVE  frames'[Parent] = frames[Parent] \/ DOMAIN frames'[Parent] = {}
  BY <1>0, <1>1
<1>2. ASSUME NEW p \in Processes, NEW s \in Deliverable(p),
             disposition[p][s] \notin {"ignore", "default"},
             frames' = [frames EXCEPT ![p] =
                         Append(@, [handler |-> disposition[p][s],
                                    step |-> "close"])]
      PROVE  \A i \in DOMAIN frames'[Parent] :
               frames'[Parent][i].handler \in {"handle_sigint", "handle_sigterm"}
  <2> DEFINE f == [handler |-> disposition[p][s], step |-> "close"]
  <2>1. s \in Signals
    BY <1>2 DEF Deliverable, TypeOK
  <2>2. f \in Frame
    BY <1>2, <2>1, Members DEF Frame, TypeOK
  <2>3. frames'[p] = Append(frames[p], f) /\ frames[p] \in Seq(Frame)
    BY <1>0, <1>2
  <2>4. p # Parent => frames'[Parent] = frames[Parent]
    BY <1>0, <1>2
  <2>5. p = Parent => f.handler \in {"handle_sigint", "handle_sigterm"}
    BY <1>2, <2>1 DEF Roles, Signals
  <2> HIDE DEF f
  <2>6. CASE p # Parent
    BY <2>4, <2>6 DEF Roles
  <2>7. CASE p = Parent
    BY <2>2, <2>3, <2>5, <2>7, AppendKeeps DEF Roles
  <2> QED BY <2>6, <2>7
<1>3. ASSUME NEW p \in Processes, NEW step \in HandlerSteps,
             frames[p] # <<>>, Advance(p, step)
      PROVE  /\ DOMAIN frames'[Parent] = DOMAIN frames[Parent]
             /\ \A i \in DOMAIN frames[Parent] :
                  frames'[Parent][i].handler = frames[Parent][i].handler
  BY <1>0, <1>3, AdvanceKeeps
<1> QED BY <1>1, <1>2, <1>3, FrameCases DEF Roles

\* A step keeps the roles.
LEMMA RolesStep == TypeOK /\ Roles /\ [Next]_vars => Roles'
<1>1. ASSUME TypeOK, Roles, Next PROVE Roles'
  <2>1. pc'[Parent] \in ParentLabels \cup {"gone"}
    <3>1. CASE setup_signals
      <4>1. Parent \in DOMAIN pc
        BY <1>1, ProcessFacts DEF TypeOK
      <4> QED BY <3>1, <4>1, SetupMoves DEF ParentLabels, SetupLabels, LoopLabels
    <3> QED BY <1>1, <3>1, RolesLabel DEF Roles, ParentLabels
  <2>2. /\ pc'[Parent] \in LoopLabels \cup {"sigaction_term"} =>
             disposition'[Parent]["SIGINT"] = "handle_sigint"
        /\ pc'[Parent] \in LoopLabels =>
             disposition'[Parent]["SIGTERM"] = "handle_sigterm"
    <3>1. CASE setup_signals
      BY <1>1, <3>1, RolesSetup
    <3>2. CASE ~setup_signals
      BY <1>1, <3>2, RolesLabel, RolesDisposition DEF Roles, LoopLabels
    <3> QED BY <3>1, <3>2
  <2> QED BY <1>1, <2>1, <2>2, RolesChildren, RolesDisposition, RolesHandlers DEF Roles
<1>2. ASSUME Roles, UNCHANGED vars PROVE Roles'
  BY <1>2, Stutter DEF Roles
<1> QED BY <1>1, <1>2

\* A signal is blocked while its own handler runs.
LEMMA OwnSignalBlocked ==
    ASSUME TypeOK, NEW p \in Processes, NEW s \in Signals,
           disposition[p][s] \notin {"ignore", "default"}
    PROVE  s \in MaskOf(disposition[p][s])
BY DEF TypeOK, Installed, Signals, MaskOf

\* A step starts no handler that already runs in the process.
LEMMA NoReentryStep == TypeOK /\ Roles /\ NoReentry /\ [Next]_vars => NoReentry'
<1> SUFFICES ASSUME TypeOK, Roles, NoReentry, [Next]_vars PROVE NoReentry'
  OBVIOUS
<1>0. frames \in [Processes -> Seq(Frame)]
  BY DEF TypeOK, Frame
<1>1. CASE frames' = frames
  BY <1>1 DEF NoReentry
<1>2. ASSUME NEW p \in Processes, frames' = [frames EXCEPT ![p] = <<>>]
      PROVE  NoReentry'
  BY <1>0, <1>2 DEF NoReentry
<1>3. ASSUME NEW p \in Processes, NEW s \in Deliverable(p),
             disposition[p][s] \notin {"ignore", "default"},
             frames' = [frames EXCEPT ![p] =
                         Append(@, [handler |-> disposition[p][s],
                                    step |-> "close"])]
      PROVE  NoReentry'
  <2> DEFINE f == [handler |-> disposition[p][s], step |-> "close"]
  <2>1. s \in Signals /\ s \notin Blocked(p)
    BY <1>3 DEF Deliverable, TypeOK
  <2>2. f \in Frame
    BY <1>3, <2>1, Members DEF Frame, TypeOK
  <2>3. frames'[p] = Append(frames[p], f) /\ frames[p] \in Seq(Frame)
    BY <1>0, <1>3
  <2>4. ASSUME NEW i \in DOMAIN frames[p] PROVE frames[p][i].handler # f.handler
    <3>1. s \notin MaskOf(frames[p][i].handler)
      BY <2>1 DEF Blocked
    <3> QED BY <1>3, <2>1, <3>1, OwnSignalBlocked
  <2>5. \A q \in Processes : q # p => frames'[q] = frames[q]
    BY <1>0, <1>3
  <2> HIDE DEF f
  <2>6. \A i, j \in DOMAIN frames'[p] :
          i # j => frames'[p][i].handler # frames'[p][j].handler
    BY <2>2, <2>3, <2>4, AppendKeeps DEF NoReentry
  <2> QED BY <2>5, <2>6 DEF NoReentry
<1>4. ASSUME NEW p \in Processes, NEW step \in HandlerSteps,
             frames[p] # <<>>, Advance(p, step)
      PROVE  NoReentry'
  BY <1>4, AdvanceKeeps DEF NoReentry
<1> QED BY <1>1, <1>2, <1>3, <1>4, FrameCases, Stutter

\* At first no handler runs.
LEMMA NoReentryInit == Init => NoReentry
BY DEF Init, NoReentry

\* For any number of signals in any order, the masks of sigaction keep every
\* handler from being entered again in the same process.
THEOREM HandlersDoNotReenter == Spec => []NoReentry
<1>1. Spec => []TypeOK
  BY TypeCorrect
<1>2. Spec => []Roles
  BY <1>1, RolesInit, RolesStep, PTL DEF Spec
<1> QED BY <1>1, <1>2, NoReentryInit, NoReentryStep, PTL DEF Spec

-----------------------------------------------------------------------------
(* Shutting down *)

\* At first no child has anything pending.
LEMMA UnbornInit == Init => Unborn
BY DEF Init, Unborn

\* No child gets a signal or a handler before it is born.
LEMMA UnbornStep == TypeOK /\ Unborn /\ [Next]_vars => Unborn'
<1> SUFFICES ASSUME TypeOK, Unborn, [Next]_vars PROVE Unborn'
  OBVIOUS
<1>0. /\ pc \in [Processes -> Everywhere]
      /\ frames \in [Processes -> Seq(Frame)]
      /\ pending \in [Processes -> SUBSET Signals]
  BY DEF TypeOK, Everywhere, Frame
<1>1. CASE Accept \/ ParentCloses
  BY <1>0, <1>1 DEF Accept, ParentCloses, Unborn, process
<1>2. CASE Fork
  <2>1. PICK p \in Children :
          pc' = [pc EXCEPT ![Parent] = "close_new", ![p] = "set_sigterm"]
    BY <1>2 DEF Fork
  <2> QED BY <1>0, <1>2, <2>1 DEF Fork, Unborn
<1>3. ASSUME NEW p \in Processes,
             SetSigterm(p) \/ SetSigint(p) \/ CloseListen(p) \/ SessionReturns(p)
      PROVE  Unborn'
  BY <1>0, <1>3 DEF SetSigterm, SetSigint, CloseListen, SessionReturns, Unborn,
     process
<1>4. ASSUME NEW p \in Processes, Dies(p)
      PROVE  Unborn'
  BY <1>0, <1>4, DiesTerminates DEF Terminates, Unborn
<1>5. ASSUME NEW p \in Processes, Deliver(p)
      PROVE  Unborn'
  BY <1>0, <1>5 DEF Deliver, Alive, Unborn
<1>6. ASSUME NEW p \in Processes,
             \/ HandlerClosesListener(p) \/ HandlerKillsGroup(p)
             \/ HandlerClosesSession(p)
      PROVE  Unborn'
  <2>1. /\ pc' = pc /\ pc[p] # "unborn"
        /\ \A q \in Processes : pc[q] = "unborn" => pending'[q] = pending[q]
    BY <1>0, <1>6 DEF HandlerClosesListener, HandlerKillsGroup,
       HandlerClosesSession, InHandler, Alive, Group
  <2>2. \A q \in Processes : q # p => frames'[q] = frames[q]
    BY <1>6, AdvanceKeeps, Members DEF HandlerClosesListener, HandlerKillsGroup,
       HandlerClosesSession, InHandler
  <2> QED BY <2>1, <2>2 DEF Unborn
<1>7. CASE \/ Interrupt
           \/ \E p \in Processes : Kill(p)
           \/ \E c \in Clients : ClientConnects(c)
  BY <1>0, <1>7 DEF Interrupt, Kill, ClientConnects, Alive, Group, Unborn, process
<1>9. CASE setup_signals
  <2>1. \E l \in {"sigaction_int", "sigaction_term", "accept"} :
          pc' = [pc EXCEPT ![Parent] = l]
    BY <1>9, SetupMoves
  <2> QED BY <1>0, <1>9, <2>1, SetupMoves DEF Unborn
<1>8. CASE UNCHANGED vars
  BY <1>8, Stutter DEF Unborn
<1> QED BY <1>1, <1>2, <1>3, <1>4, <1>5, <1>6, <1>7, <1>8, <1>9, NextCases, ProcessFacts

\* When a process other than the parent ends, the others stay told.
LEMMA OthersEnd ==
    ASSUME TypeOK, GroupIsTold, NEW p \in Processes, p # Parent, Terminates(p)
    PROVE  GroupIsTold'
BY ProcessFacts DEF TypeOK, GroupIsTold, Terminates, Group, Alive, Doomed

\* The parent may be gone, or about to exit, only after it has told the others.
LEMMA GroupIsToldStep ==
    TypeOK /\ Roles /\ Unborn /\ GroupIsTold /\ [Next]_vars => GroupIsTold'
<1> SUFFICES ASSUME TypeOK, Roles, Unborn, GroupIsTold, [Next]_vars
             PROVE  GroupIsTold'
  OBVIOUS
<1>0. /\ pc \in [Processes -> Everywhere]
      /\ frames \in [Processes -> Seq(Frame)]
      /\ pending \in [Processes -> SUBSET Signals]
      /\ Parent \in Processes
  BY ProcessFacts DEF TypeOK, Everywhere, Frame
<1>1. CASE Accept \/ Fork \/ ParentCloses
  <2>1. pc'[Parent] # "gone"
    <3>1. CASE Accept \/ ParentCloses
      BY <1>0, <3>1 DEF Accept, ParentCloses
    <3>2. CASE Fork
      <4>1. PICK p \in Children :
              pc' = [pc EXCEPT ![Parent] = "close_new", ![p] = "set_sigterm"]
        BY <3>2 DEF Fork
      <4> QED BY <1>0, <4>1, ProcessFacts
    <3> QED BY <1>1, <3>1, <3>2
  <2>2. frames'[Parent] = <<>>
    BY <1>1 DEF Accept, Fork, ParentCloses, Runs, process
  <2> QED BY <2>1, <2>2 DEF GroupIsTold
<1>2. ASSUME NEW p \in Processes,
             SetSigterm(p) \/ SetSigint(p) \/ CloseListen(p)
      PROVE  GroupIsTold'
  BY <1>0, <1>2 DEF SetSigterm, SetSigint, CloseListen, Runs, Roles, GroupIsTold,
     Group, Alive, Doomed, process, ParentLabels, SetupLabels, LoopLabels
<1>3. ASSUME NEW p \in Children, SessionReturns(p)
      PROVE  GroupIsTold'
  BY <1>0, <1>3, ProcessFacts DEF SessionReturns, Runs, GroupIsTold, Group, Alive,
     Doomed, process
<1>4. ASSUME NEW p \in Processes, p # Parent, Dies(p)
      PROVE  GroupIsTold'
  BY <1>4, OthersEnd, DiesTerminates
<1>5. ASSUME ChildExits(Parent) \/ BrokenPipe(Parent)
      PROVE  FALSE
  BY <1>5 DEF ChildExits, BrokenPipe, Runs, Roles, ParentLabels, SetupLabels, LoopLabels
<1>13. CASE DeliverDefault(Parent) \/ SetupFails(Parent)
  <2>1. Terminates(Parent) /\ pc[Parent] # "gone"
    BY <1>13, DiesTerminates DEF Dies, Alive
  <2>2. pc[Parent] \in SetupLabels
    <3>1. CASE SetupFails(Parent)
      BY <3>1 DEF SetupFails, Runs, Roles, ParentLabels, SetupLabels, LoopLabels
    <3>2. CASE DeliverDefault(Parent)
      <4>1. PICK s \in Signals : disposition[Parent][s] = "default"
        BY <1>0, <3>2 DEF DeliverDefault, Deliverable
      <4> QED BY <2>1, <4>1 DEF Roles, Signals, ParentLabels
    <3> QED BY <1>13, <3>1, <3>2
  <2>3. \A p \in Children : pc[p] = "unborn"
    BY <2>2 DEF Roles
  <2> QED BY <1>0, <2>1, <2>3 DEF Terminates, GroupIsTold, Group, Alive, Processes
<1>14. CASE setup_signals
  <2>1. pc'[Parent] # "gone" /\ frames'[Parent] = <<>>
    BY <1>0, <1>14, SetupMoves
  <2> QED BY <2>1 DEF GroupIsTold
<1>6. CASE HandlerExits(Parent)
  <2>1. PICK h \in HandlerNames : InHandler(Parent, h, "exit")
    BY <1>6 DEF HandlerExits
  <2>2. \E i \in DOMAIN frames[Parent] : frames[Parent][i].step = "exit"
    <3>1. frames[Parent] \in Seq(Frame) /\ frames[Parent] # <<>>
      BY <1>0, <2>1 DEF InHandler
    <3>2. Len(frames[Parent]) \in DOMAIN frames[Parent]
      BY <3>1
    <3> QED BY <2>1, <3>2 DEF InHandler
  <2>3. \A p \in Group \ {Parent} : Doomed(p)
    BY <2>2 DEF GroupIsTold
  <2> QED BY <1>0, <1>6, <2>3 DEF HandlerExits, Terminates, GroupIsTold, Group, Alive,
          Doomed
<1>7. ASSUME NEW p \in Processes, Deliver(p)
      PROVE  GroupIsTold'
  <2>1. PICK s \in Deliverable(p) :
          /\ pending' = [pending EXCEPT ![p] = @ \ {s}]
          /\ frames' = IF disposition[p][s] = "ignore" THEN frames
                       ELSE [frames EXCEPT ![p] =
                               Append(@, [handler |-> disposition[p][s],
                                          step |-> "close"])]
          /\ pc' = pc /\ disposition[p][s] # "default"
    BY <1>7 DEF Deliver
  <2>2. CASE disposition[p][s] = "ignore"
    <3>1. s # "SIGTERM"
      BY <2>2 DEF TypeOK, Installed
    <3> QED BY <1>0, <2>1, <2>2, <3>1 DEF GroupIsTold, Group, Alive, Doomed
  <2>3. CASE disposition[p][s] # "ignore"
    <3> DEFINE f == [handler |-> disposition[p][s], step |-> "close"]
    <3>1. f \in Frame /\ f.step # "exit"
      BY <2>1, <2>3, Members DEF Frame, TypeOK, Deliverable
    <3>2. frames' = [frames EXCEPT ![p] = Append(frames[p], f)]
      BY <2>1, <2>3
    <3> HIDE DEF f
    <3>3. /\ frames'[p] = Append(frames[p], f) /\ frames[p] \in Seq(Frame)
          /\ \A q \in Processes : q # p => frames'[q] = frames[q]
      BY <1>0, <3>2
    <3>4. /\ frames'[p] # <<>>
          /\ \A i \in DOMAIN frames'[p] : frames'[p][i].step = "exit" =>
               i \in DOMAIN frames[p] /\ frames[p][i].step = "exit"
      BY <3>1, <3>3, AppendKeeps
    <3>5. \A q \in Processes : Doomed(q) => Doomed(q)'
      BY <1>0, <2>1, <3>3, <3>4 DEF Doomed
    <3>6. (\E i \in DOMAIN frames'[Parent] : frames'[Parent][i].step = "exit")
            => \E i \in DOMAIN frames[Parent] : frames[Parent][i].step = "exit"
      BY <1>0, <3>3, <3>4
    <3> QED BY <2>1, <3>5, <3>6 DEF GroupIsTold, Group, Alive
  <2> QED BY <2>2, <2>3
<1>8. ASSUME NEW p \in Processes, HandlerClosesListener(p)
      PROVE  GroupIsTold'
  <2>1. frames[p] # <<>> /\ Advance(p, "killpg") /\ pc' = pc /\ pending' = pending
    BY <1>8 DEF HandlerClosesListener, InHandler
  <2>2. /\ \A q \in Processes : q # p => frames'[q] = frames[q]
        /\ DOMAIN frames'[p] = DOMAIN frames[p] /\ frames'[p] # <<>>
        /\ \A i \in DOMAIN frames[p] :
             frames'[p][i].step \in {frames[p][i].step, "killpg"}
    BY <2>1, AdvanceKeeps, Members
  <2>3. \A q \in Processes : Doomed(q) => Doomed(q)'
    BY <2>1, <2>2 DEF Doomed
  <2>4. (\E i \in DOMAIN frames'[Parent] : frames'[Parent][i].step = "exit")
          => \E i \in DOMAIN frames[Parent] : frames[Parent][i].step = "exit"
    BY <1>0, <2>2
  <2> QED BY <2>1, <2>3, <2>4 DEF GroupIsTold, Group, Alive
<1>9. ASSUME NEW p \in Processes, HandlerKillsGroup(p)
      PROVE  GroupIsTold'
  BY <1>0, <1>9 DEF HandlerKillsGroup, GroupIsTold, Group, Alive, Doomed
<1>10. ASSUME NEW p \in Processes, HandlerClosesSession(p)
       PROVE  GroupIsTold'
  <2>1. frames[p] # <<>> /\ Advance(p, "exit") /\ pc' = pc /\ pending' = pending
    BY <1>10 DEF HandlerClosesSession, InHandler
  <2>2. p # Parent
    <3>1. Len(frames[p]) \in DOMAIN frames[p]
      BY <1>0, <2>1
    <3> QED BY <1>10, <3>1 DEF HandlerClosesSession, InHandler, Roles
  <2>3. /\ \A q \in Processes : q # p => frames'[q] = frames[q]
        /\ frames'[p] # <<>>
    BY <2>1, AdvanceKeeps, Members
  <2>4. \A q \in Processes : Doomed(q) => Doomed(q)'
    BY <2>1, <2>3 DEF Doomed
  <2> QED BY <1>0, <2>1, <2>2, <2>3, <2>4 DEF GroupIsTold, Group, Alive
<1>11. CASE \/ Interrupt
            \/ \E p \in Processes : Kill(p)
            \/ \E c \in Clients : ClientConnects(c)
  BY <1>0, <1>11 DEF Interrupt, Kill, ClientConnects, GroupIsTold, Group, Alive,
     Doomed, process
<1>12. CASE UNCHANGED vars
  BY <1>12, Stutter DEF GroupIsTold, Group, Alive, Doomed
<1> QED BY <1>1, <1>2, <1>3, <1>4, <1>5, <1>6, <1>7, <1>8, <1>9, <1>10, <1>11, <1>12,
    <1>13, <1>14, NextCases, ProcessFacts DEF Dies

\* At first nobody has passed killpg.
LEMMA GroupIsToldInit == Init => GroupIsTold
BY ProcessFacts DEF Init, GroupIsTold

\* For any number of children and of signals, no process is left behind by a
\* parent that has ended: each is already ending or has SIGTERM pending.
THEOREM NoOrphanIsForgotten == Spec => []OrphansAreDoomed
<1>1. Spec => []TypeOK
  BY TypeCorrect
<1>2. Spec => []Roles
  BY <1>1, RolesInit, RolesStep, PTL DEF Spec
<1>3. Spec => []Unborn
  BY <1>1, UnbornInit, UnbornStep, PTL DEF Spec
<1>4. Spec => []GroupIsTold
  BY <1>1, <1>2, <1>3, GroupIsToldInit, GroupIsToldStep, PTL DEF Spec
<1>5. GroupIsTold => OrphansAreDoomed
  BY DEF GroupIsTold, OrphansAreDoomed, Group, Alive, Doomed
<1> QED BY <1>4, <1>5, PTL

-----------------------------------------------------------------------------
(* Sockets *)

\* Closing descriptors leaves every connection somebody still holds accepted,
\* and the queue a list of distinct waiting connections.
LEMMA ClosingKeeps ==
    ASSUME TypeOK, Connections, NEW open, NEW held,
           held \in [Processes -> SUBSET Clients],
           \A p \in Processes : held[p] \subseteq conns[p],
           SocketsAfter(open, held)
    PROVE  /\ conns' = held
           /\ \A p \in Processes : \A c \in held[p] : client'[c] = "accepted"
           /\ \A i \in DOMAIN queue' : client'[queue'[i]] = "queued"
           /\ \A i, j \in DOMAIN queue' : i # j => queue'[i] # queue'[j]
<1> DEFINE nobody == \A p \in Processes : ~open[p]
<1>1. conns' = held /\ queue' = IF nobody THEN <<>> ELSE queue
  BY DEF SocketsAfter
<1>2. ASSUME NEW p \in Processes, NEW c \in held[p]
      PROVE  client'[c] = "accepted"
  <2>1. c \in Clients /\ client[c] = "accepted"
    BY <1>2 DEF Connections
  <2>2. \A i \in DOMAIN queue : queue[i] # c
    BY <2>1 DEF Connections
  <2>3. c \in UNION {held[q] : q \in Processes}
    BY <1>2
  <2> QED BY <2>1, <2>2, <2>3 DEF SocketsAfter
<1>3. ASSUME NEW i \in DOMAIN queue'
      PROVE  client'[queue'[i]] = "queued"
  <2>1. ~nobody /\ queue' = queue
    BY <1>1, <1>3
  <2>2. queue[i] \in Clients /\ client[queue[i]] = "queued"
    BY <1>3, <2>1 DEF Connections, TypeOK
  <2> QED BY <2>1, <2>2 DEF SocketsAfter
<1>4. \A i, j \in DOMAIN queue' : i # j => queue'[i] # queue'[j]
  BY <1>1 DEF Connections
<1> QED BY <1>1, <1>2, <1>3, <1>4

\* So a step that only closes descriptors keeps both parts, if the program
\* counter it moves to asks for no more.
LEMMA ShrinkKeeps ==
    ASSUME TypeOK, Connections, OwnSocketOnly, NEW open, NEW held,
           held \in [Processes -> SUBSET Clients],
           \A p \in Processes : held[p] \subseteq conns[p],
           SocketsAfter(open, held),
           \A p \in Processes : held[p] = {} \/ new_socket'[p] = new_socket[p],
           \A p \in Processes : \/ pc'[p] = pc[p]
                                 \/ held[p] = {}
                                 \/ pc'[p] \notin IdleLabels,
           pc'[Parent] = "accept" => held[Parent] = {},
           pc'[Parent] = "fork" => pc[Parent] = "fork"
    PROVE  Connections' /\ OwnSocketOnly'
<1>1. /\ conns' = held
      /\ \A p \in Processes : \A c \in held[p] : client'[c] = "accepted"
      /\ \A i \in DOMAIN queue' : client'[queue'[i]] = "queued"
      /\ \A i, j \in DOMAIN queue' : i # j => queue'[i] # queue'[j]
  BY ClosingKeeps
<1>2. \A p \in Processes : held[p] \subseteq {new_socket'[p]}
  BY DEF Connections
<1>3. \A p \in Processes : pc'[p] \in IdleLabels => held[p] = {}
  BY DEF Connections
<1>4. pc'[Parent] = "fork" => \A p \in Children : held[p] \cap held[Parent] = {}
  BY ProcessFacts DEF Connections
<1>5. \A p, q \in Children : p # q => held[p] \cap held[q] = {}
  BY ProcessFacts DEF OwnSocketOnly
<1>6. Connections'
  BY <1>1, <1>2, <1>3, <1>4 DEF Connections
<1>7. OwnSocketOnly'
  BY <1>1, <1>2, <1>5, ProcessFacts DEF OwnSocketOnly
<1> QED BY <1>6, <1>7

\* accept() takes a connection nobody holds, and leaves the others waiting.
LEMMA AcceptKeeps ==
    ASSUME TypeOK, Connections, OwnSocketOnly, Accept
    PROVE  Connections' /\ OwnSocketOnly'
<1> DEFINE c == Head(queue)
<1>0. /\ pc \in [Processes -> Everywhere] /\ queue \in Seq(Clients)
      /\ conns \in [Processes -> SUBSET Clients]
      /\ new_socket \in [Processes -> Clients \cup {NoClient}]
      /\ client \in [Clients -> Standing]
  BY DEF TypeOK, Everywhere, Standing
<1>1. /\ queue # <<>> /\ pc[Parent] = "accept" /\ queue' = Tail(queue)
      /\ pc' = [pc EXCEPT ![Parent] = "fork"]
      /\ new_socket' = [new_socket EXCEPT ![Parent] = c]
      /\ conns' = [conns EXCEPT ![Parent] = @ \cup {c}]
      /\ client' = [client EXCEPT ![c] = "accepted"]
  BY DEF Accept, Runs
<1>2. c \in Clients /\ client[c] = "queued" /\ c = queue[1] /\ 1 \in DOMAIN queue
  BY <1>0, <1>1 DEF Connections
<1> HIDE DEF c
<1>3. \A p \in Processes : c \notin conns[p]
  BY <1>2 DEF Connections
<1>4. /\ conns'[Parent] = {c} /\ new_socket'[Parent] = c
      /\ \A p \in Processes \ {Parent} : /\ conns'[p] = conns[p]
                                         /\ new_socket'[p] = new_socket[p]
                                         /\ pc'[p] = pc[p]
      /\ pc'[Parent] = "fork"
  BY <1>0, <1>1, ProcessFacts DEF OwnSocketOnly
<1>5. \A i \in DOMAIN queue' : /\ i + 1 \in DOMAIN queue /\ i \in Nat \ {0}
                               /\ queue'[i] = queue[i + 1]
  BY <1>0, <1>1
<1>6. \A i \in DOMAIN queue' : client'[queue'[i]] = "queued"
  <2> TAKE i \in DOMAIN queue'
  <2>1. /\ i + 1 \in DOMAIN queue /\ i + 1 # 1 /\ queue'[i] = queue[i + 1]
    BY <1>5
  <2>2. queue[i + 1] # c /\ client[queue[i + 1]] = "queued" /\ queue[i + 1] \in Clients
    BY <1>0, <1>2, <2>1 DEF Connections
  <2> QED BY <1>0, <1>1, <2>1, <2>2
<1>7. \A i, j \in DOMAIN queue' : i # j => queue'[i] # queue'[j]
  <2> TAKE i, j \in DOMAIN queue'
  <2>1. /\ i + 1 \in DOMAIN queue /\ queue'[i] = queue[i + 1]
        /\ j + 1 \in DOMAIN queue /\ queue'[j] = queue[j + 1]
        /\ i # j => i + 1 # j + 1
    BY <1>5
  <2> QED BY <2>1 DEF Connections
<1>8. \A p \in Processes : \A d \in conns'[p] : client'[d] = "accepted"
  BY <1>0, <1>1, <1>2, <1>4 DEF Connections
<1>9. \A p \in Children : conns'[p] \cap conns'[Parent] = {}
  BY <1>3, <1>4, ProcessFacts
<1>10. Connections'
  BY <1>4, <1>6, <1>7, <1>8, <1>9 DEF Connections, IdleLabels, SetupLabels
<1>11. OwnSocketOnly'
  BY <1>4, ProcessFacts DEF OwnSocketOnly
<1> QED BY <1>10, <1>11

\* fork() copies one connection, which no other child has.
LEMMA ForkKeeps ==
    ASSUME TypeOK, Connections, OwnSocketOnly, Fork
    PROVE  Connections' /\ OwnSocketOnly'
<1>0. /\ pc \in [Processes -> Everywhere]
      /\ conns \in [Processes -> SUBSET Clients]
      /\ new_socket \in [Processes -> Clients \cup {NoClient}]
  BY DEF TypeOK, Everywhere
<1>1. PICK p \in Children :
        /\ pc[p] = "unborn"
        /\ pc' = [pc EXCEPT ![Parent] = "close_new", ![p] = "set_sigterm"]
        /\ conns' = [conns EXCEPT ![p] = conns[Parent]]
        /\ new_socket' = [new_socket EXCEPT ![p] = new_socket[Parent]]
  BY DEF Fork
<1>2. queue' = queue /\ client' = client /\ pc[Parent] = "fork"
  BY DEF Fork, Runs
<1>3. /\ conns'[p] = conns[Parent] /\ new_socket'[p] = new_socket[Parent]
      /\ pc'[p] = "set_sigterm" /\ pc'[Parent] = "close_new"
      /\ \A q \in Processes \ {p} : /\ conns'[q] = conns[q]
                                    /\ new_socket'[q] = new_socket[q]
      /\ \A q \in Processes \ {p, Parent} : pc'[q] = pc[q]
  BY <1>0, <1>1, ProcessFacts
<1>4. Connections'
  BY <1>2, <1>3, ProcessFacts DEF Connections, IdleLabels, SetupLabels
<1>5. \A q \in Children \ {p} : conns'[q] \cap conns'[p] = {}
  BY <1>2, <1>3, ProcessFacts DEF Connections
<1>6. OwnSocketOnly'
  BY <1>3, <1>4, <1>5, ProcessFacts DEF OwnSocketOnly, Connections
<1> QED BY <1>4, <1>6

\* A client that connects is not in the queue yet, and nobody holds it.
LEMMA ConnectKeeps ==
    ASSUME TypeOK, Connections, OwnSocketOnly, NEW c \in Clients, ClientConnects(c)
    PROVE  Connections' /\ OwnSocketOnly'
<1>0. queue \in Seq(Clients) /\ client \in [Clients -> Standing]
  BY DEF TypeOK, Standing
<1>1. /\ client[c] = "away" /\ client' = [client EXCEPT ![c] = "queued"]
      /\ queue' = Append(queue, c)
      /\ pc' = pc /\ conns' = conns /\ new_socket' = new_socket
  BY DEF ClientConnects, sockets
<1>2. \A i \in DOMAIN queue : queue[i] # c
  BY <1>1 DEF Connections
<1>3. /\ DOMAIN queue' = DOMAIN queue \cup {Len(queue) + 1}
      /\ Len(queue) + 1 \notin DOMAIN queue
      /\ queue'[Len(queue) + 1] = c
      /\ \A i \in DOMAIN queue : queue'[i] = queue[i]
  BY <1>0, <1>1
<1>4. \A i \in DOMAIN queue' : client'[queue'[i]] = "queued"
  BY <1>0, <1>1, <1>2, <1>3 DEF Connections
<1>5. \A i, j \in DOMAIN queue' : i # j => queue'[i] # queue'[j]
  BY <1>2, <1>3 DEF Connections
<1>6. \A p \in Processes : \A d \in conns'[p] : client'[d] = "accepted"
  BY <1>0, <1>1 DEF Connections, TypeOK
<1>7. Connections'
  BY <1>1, <1>4, <1>5, <1>6 DEF Connections
<1> QED BY <1>1, <1>7 DEF OwnSocketOnly

\* A step keeps what is said of the sockets: a case for each way one moves.
LEMMA SocketStep ==
    TypeOK /\ Roles /\ Connections /\ OwnSocketOnly /\ [Next]_vars
        => Connections' /\ OwnSocketOnly'
<1> SUFFICES ASSUME TypeOK, Roles, Connections, OwnSocketOnly, [Next]_vars
             PROVE  Connections' /\ OwnSocketOnly'
  OBVIOUS
<1>0. /\ pc \in [Processes -> Everywhere]
      /\ conns \in [Processes -> SUBSET Clients]
      /\ new_socket \in [Processes -> Clients \cup {NoClient}]
  BY DEF TypeOK, Everywhere
<1>1. CASE Accept
  BY <1>1, AcceptKeeps
<1>2. CASE Fork
  BY <1>2, ForkKeeps
<1>3. ASSUME NEW c \in Clients, ClientConnects(c)
      PROVE  Connections' /\ OwnSocketOnly'
  BY <1>3, ConnectKeeps
<1>4. CASE ParentCloses
  <2> DEFINE held == [conns EXCEPT ![Parent] = @ \ {new_socket[Parent]}]
  <2>1. /\ SocketsAfter(listening, held)
        /\ pc' = [pc EXCEPT ![Parent] = "accept"]
        /\ new_socket' = [new_socket EXCEPT ![Parent] = NoClient]
    BY <1>4 DEF ParentCloses
  <2>2. /\ held \in [Processes -> SUBSET Clients] /\ held[Parent] = {}
        /\ \A p \in Processes : held[p] \subseteq conns[p]
    BY <1>0, ProcessFacts DEF Connections
  <2> HIDE DEF held
  <2> QED BY <1>0, <2>1, <2>2, ShrinkKeeps, ProcessFacts DEF IdleLabels, SetupLabels
<1>5. ASSUME NEW p \in Processes, CloseListen(p)
      PROVE  Connections' /\ OwnSocketOnly'
  <2>1. /\ SocketsAfter([listening EXCEPT ![p] = FALSE], conns)
        /\ pc' = [pc EXCEPT ![p] = "session"] /\ new_socket' = new_socket
    BY <1>5 DEF CloseListen
  <2>2. p # Parent
    BY <1>5 DEF CloseListen, Runs, Roles, ParentLabels, SetupLabels, LoopLabels
  <2>3. /\ pc'[Parent] = pc[Parent]
        /\ \A q \in Processes : pc'[q] = pc[q] \/ pc'[q] \notin IdleLabels
        /\ \A q \in Processes : conns[q] \subseteq conns[q]
    BY <1>0, <2>1, <2>2, ProcessFacts DEF IdleLabels, SetupLabels
  <2>4. pc'[Parent] = "accept" => conns[Parent] = {}
    BY <2>3 DEF OwnSocketOnly
  <2> QED BY <1>0, <2>1, <2>3, <2>4, ShrinkKeeps
<1>6. ASSUME NEW p \in Children, SessionReturns(p)
      PROVE  Connections' /\ OwnSocketOnly'
  <2> DEFINE held == [conns EXCEPT ![p] = @ \ {new_socket[p]}]
  <2>1. /\ SocketsAfter(listening, held)
        /\ pc' = [pc EXCEPT ![p] = "exit"] /\ new_socket' = new_socket
    BY <1>6 DEF SessionReturns
  <2>2. /\ held \in [Processes -> SUBSET Clients] /\ held[Parent] = conns[Parent]
        /\ \A q \in Processes : held[q] \subseteq conns[q]
        /\ pc'[Parent] = pc[Parent]
        /\ \A q \in Processes : pc'[q] = pc[q] \/ pc'[q] \notin IdleLabels
    BY <1>0, <2>1, ProcessFacts DEF IdleLabels, SetupLabels
  <2> HIDE DEF held
  <2>3. pc'[Parent] = "accept" => held[Parent] = {}
    BY <2>2 DEF OwnSocketOnly
  <2> QED BY <2>1, <2>2, <2>3, ShrinkKeeps
<1>7. ASSUME NEW p \in Processes, Dies(p)
      PROVE  Connections' /\ OwnSocketOnly'
  <2> DEFINE held == [conns EXCEPT ![p] = {}]
             open == [listening EXCEPT ![p] = FALSE]
  <2>1. /\ SocketsAfter(open, held)
        /\ pc' = [pc EXCEPT ![p] = "gone"] /\ new_socket' = new_socket
    BY <1>7, DiesTerminates DEF Terminates
  <2>2. /\ held \in [Processes -> SUBSET Clients]
        /\ \A q \in Processes : held[q] \subseteq conns[q]
        /\ \A q \in Processes : pc'[q] = pc[q] \/ held[q] = {}
        /\ pc'[Parent] \in {pc[Parent], "gone"}
    BY <1>0, <2>1, ProcessFacts
  <2> HIDE DEF held, open
  <2>3. pc'[Parent] = "accept" => held[Parent] = {}
    BY <2>2, ProcessFacts DEF OwnSocketOnly
  <2> QED BY <2>1, <2>2, <2>3, ShrinkKeeps
<1>8. ASSUME NEW p \in Processes, HandlerClosesListener(p)
      PROVE  Connections' /\ OwnSocketOnly'
  <2>1. /\ SocketsAfter([listening EXCEPT ![p] = @ /\ ~server_socket[p]], conns)
        /\ pc' = pc /\ new_socket' = new_socket
    BY <1>8 DEF HandlerClosesListener
  <2>2. pc'[Parent] = "accept" => conns[Parent] = {}
    BY <2>1 DEF OwnSocketOnly
  <2> QED BY <1>0, <2>1, <2>2, ShrinkKeeps
<1>9. ASSUME NEW p \in Processes, HandlerClosesSession(p)
      PROVE  Connections' /\ OwnSocketOnly'
  <2> DEFINE held == IF pc[p] = "session"
                     THEN [conns EXCEPT ![p] = @ \ {new_socket[p]}] ELSE conns
  <2>1. SocketsAfter(listening, held) /\ pc' = pc /\ new_socket' = new_socket
    BY <1>9 DEF HandlerClosesSession
  <2>2. /\ held \in [Processes -> SUBSET Clients]
        /\ \A q \in Processes : held[q] \subseteq conns[q]
    BY <1>0
  <2> HIDE DEF held
  <2>3. pc'[Parent] = "accept" => held[Parent] = {}
    BY <2>1, <2>2, ProcessFacts DEF OwnSocketOnly
  <2> QED BY <2>1, <2>2, <2>3, ShrinkKeeps
<1>10. ASSUME UNCHANGED <<pc, conns, new_socket, queue, client>>
       PROVE  Connections' /\ OwnSocketOnly'
  BY <1>10 DEF Connections, OwnSocketOnly
<1>11. CASE \/ \E p \in Processes : Deliver(p) \/ HandlerKillsGroup(p) \/ Kill(p)
            \/ Interrupt
  BY <1>10, <1>11 DEF Deliver, HandlerKillsGroup, Kill, Interrupt, sockets
<1>12. ASSUME NEW p \in Processes, SetSigterm(p) \/ SetSigint(p)
       PROVE  Connections' /\ OwnSocketOnly'
  <2>1. /\ UNCHANGED <<conns, new_socket, queue, client>>
        /\ \A q \in Processes : pc'[q] = pc[q] \/
              pc'[q] \notin IdleLabels \cup {"fork", "accept"}
    BY <1>0, <1>12 DEF SetSigterm, SetSigint, sockets, IdleLabels, SetupLabels
  <2> QED BY <2>1, ProcessFacts DEF Connections, OwnSocketOnly
<1>14. CASE setup_signals
  <2>1. conns[Parent] = {} /\ UNCHANGED <<conns, new_socket, queue, client>>
    BY <1>14, SetupMoves, ProcessFacts DEF Connections, IdleLabels
  <2>2. \A q \in Processes : q # Parent => pc'[q] = pc[q]
    BY <1>0, <1>14, SetupMoves
  <2>3. pc'[Parent] # "fork"
    BY <1>0, <1>14, SetupMoves, ProcessFacts
  <2> QED BY <2>1, <2>2, <2>3, ProcessFacts DEF Connections, OwnSocketOnly
<1>13. CASE UNCHANGED vars
  BY <1>10, <1>13, Stutter
<1> QED BY <1>1, <1>2, <1>3, <1>4, <1>5, <1>6, <1>7, <1>8, <1>9, <1>11, <1>12, <1>13, <1>14,
    NextCases, ProcessFacts

\* At first there is no connection.
LEMMA SocketInit == Init => Connections /\ OwnSocketOnly
BY DEF Init, Connections, OwnSocketOnly, Processes

\* For any number of clients and children, no descriptor of a client's
\* connection outlives its session in another process.
THEOREM SocketsAreOwn == Spec => []OwnSocketOnly
<1>1. Spec => []TypeOK
  BY TypeCorrect
<1>2. Spec => []Roles
  BY <1>1, RolesInit, RolesStep, PTL DEF Spec
<1> QED BY <1>1, <1>2, SocketInit, SocketStep, PTL DEF Spec

-----------------------------------------------------------------------------
(* The handlers of a child *)

\* At first no child is born.
LEMMA ChildSignalsInit == Init => ChildSignals
BY ProcessFacts DEF Init, ChildSignals

\* The labels and dispositions of a child change together.
LEMMA ChildDisposition ==
    ASSUME TypeOK, Roles, ChildSignals, Next, NEW p \in Children
    PROVE  /\ pc'[p] \in {"set_sigint", "close_listen", "session"} =>
                disposition'[p]["SIGTERM"] = "handle_sigterm_child"
           /\ pc'[p] \in {"close_listen", "session"} =>
                disposition'[p]["SIGINT"] = "ignore"
<1>0. /\ pc \in [Processes -> Everywhere]
      /\ disposition \in [Processes -> [Signals -> HandlerNames \cup {"ignore", "default"}]]
      /\ p \in Processes /\ p # Parent
  BY ProcessFacts DEF TypeOK, Everywhere
<1>1. CASE Accept \/ ParentCloses
  BY <1>0, <1>1 DEF Accept, ParentCloses, ChildSignals, process
<1>8. CASE setup_signals
  <2>1. pc'[p] = pc[p] /\ disposition'[p] = disposition[p]
    BY <1>0, <1>8, SetupMoves
  <2> QED BY <2>1 DEF ChildSignals
<1>2. CASE Fork
  <2>1. PICK q \in Children :
          /\ pc' = [pc EXCEPT ![Parent] = "close_new", ![q] = "set_sigterm"]
          /\ disposition' = [disposition EXCEPT ![q] = disposition[Parent]]
    BY <1>2 DEF Fork
  <2> QED BY <1>0, <2>1 DEF ChildSignals
<1>3. ASSUME NEW q \in Processes, SetSigterm(q) \/ SetSigint(q)
      PROVE  /\ pc'[p] \in {"set_sigint", "close_listen", "session"} =>
                  disposition'[p]["SIGTERM"] = "handle_sigterm_child"
             /\ pc'[p] \in {"close_listen", "session"} =>
                  disposition'[p]["SIGINT"] = "ignore"
  BY <1>0, <1>3, Members DEF SetSigterm, SetSigint, Runs, ChildSignals
<1>4. ASSUME NEW q \in Processes, CloseListen(q) \/ SessionReturns(q)
      PROVE  /\ pc'[p] \in {"set_sigint", "close_listen", "session"} =>
                  disposition'[p]["SIGTERM"] = "handle_sigterm_child"
             /\ pc'[p] \in {"close_listen", "session"} =>
                  disposition'[p]["SIGINT"] = "ignore"
  BY <1>0, <1>4 DEF CloseListen, SessionReturns, Runs, ChildSignals, process
<1>5. ASSUME NEW q \in Processes, Dies(q)
      PROVE  /\ pc'[p] \in {"set_sigint", "close_listen", "session"} =>
                  disposition'[p]["SIGTERM"] = "handle_sigterm_child"
             /\ pc'[p] \in {"close_listen", "session"} =>
                  disposition'[p]["SIGINT"] = "ignore"
  BY <1>0, <1>5, DiesTerminates DEF Terminates, ChildSignals
<1>6. ASSUME NEW q \in Processes,
             \/ Deliver(q) \/ HandlerClosesListener(q) \/ HandlerKillsGroup(q)
             \/ HandlerClosesSession(q) \/ Kill(q)
      PROVE  pc' = pc /\ disposition' = disposition
  BY <1>6 DEF Deliver, HandlerClosesListener, HandlerKillsGroup,
     HandlerClosesSession, Kill
<1>7. ASSUME Interrupt \/ \E c \in Clients : ClientConnects(c)
      PROVE  pc' = pc /\ disposition' = disposition
  BY <1>7 DEF Interrupt, ClientConnects, process
<1> QED BY <1>1, <1>2, <1>3, <1>4, <1>5, <1>6, <1>7, <1>8, NextCases, ProcessFacts
        DEF ChildSignals

\* No handler of the parent is running in a child that has reached its session.
LEMMA ChildHandlers ==
    ASSUME TypeOK, Roles, ChildSignals, Next, NEW p \in Children
    PROVE  pc'[p] = "session" => \A i \in DOMAIN frames'[p] :
             frames'[p][i].handler = "handle_sigterm_child"
<1> DEFINE Mine == \A i \in DOMAIN frames'[p] :
                     frames'[p][i].handler = "handle_sigterm_child"
<1> SUFFICES ASSUME pc'[p] = "session" PROVE Mine
  OBVIOUS
<1>0. /\ frames \in [Processes -> Seq(Frame)] /\ pc \in [Processes -> Everywhere]
      /\ p \in Processes /\ p # Parent
  BY ProcessFacts DEF TypeOK, Frame, Everywhere
<1>1. \/ pc[p] = "session"
      \/ frames'[p] = <<>>
  <2>1. CASE Accept \/ ParentCloses
    BY <1>0, <2>1 DEF Accept, ParentCloses
  <2>7. CASE setup_signals
    BY <1>0, <2>7, SetupMoves
  <2>2. CASE Fork
    <3>1. PICK q \in Children :
            pc' = [pc EXCEPT ![Parent] = "close_new", ![q] = "set_sigterm"]
      BY <2>2 DEF Fork
    <3> QED BY <1>0, <3>1
  <2>3. ASSUME NEW q \in Processes,
               SetSigterm(q) \/ SetSigint(q) \/ CloseListen(q) \/ SessionReturns(q)
        PROVE  pc[p] = "session" \/ frames'[p] = <<>>
    BY <1>0, <2>3 DEF SetSigterm, SetSigint, CloseListen, SessionReturns, Runs,
       process
  <2>4. ASSUME NEW q \in Processes, Dies(q)
        PROVE  pc[p] = "session" \/ frames'[p] = <<>>
    BY <1>0, <2>4, DiesTerminates DEF Terminates
  <2>5. ASSUME NEW q \in Processes,
               \/ Deliver(q) \/ HandlerClosesListener(q) \/ HandlerKillsGroup(q)
               \/ HandlerClosesSession(q) \/ Kill(q)
        PROVE  pc' = pc
    BY <2>5 DEF Deliver, HandlerClosesListener, HandlerKillsGroup,
       HandlerClosesSession, Kill
  <2>6. CASE Interrupt \/ \E c \in Clients : ClientConnects(c)
    BY <2>6 DEF Interrupt, ClientConnects
  <2> QED BY <2>1, <2>2, <2>3, <2>4, <2>5, <2>6, <2>7, NextCases, ProcessFacts
<1>2. CASE frames'[p] = <<>>
  BY <1>2
<1>3. CASE pc[p] = "session"
  <2>1. CASE frames' = frames
    BY <1>3, <2>1 DEF ChildSignals
  <2>2. ASSUME NEW q \in Processes, frames' = [frames EXCEPT ![q] = <<>>]
        PROVE  Mine
    BY <1>0, <1>3, <2>2 DEF ChildSignals
  <2>3. ASSUME NEW q \in Processes, NEW s \in Deliverable(q),
               disposition[q][s] \notin {"ignore", "default"},
               frames' = [frames EXCEPT ![q] =
                            Append(@, [handler |-> disposition[q][s],
                                       step |-> "close"])]
        PROVE  Mine
    <3> DEFINE f == [handler |-> disposition[q][s], step |-> "close"]
    <3>1. s \in Signals
      BY <2>3 DEF Deliverable, TypeOK
    <3>2. f \in Frame
      BY <2>3, <3>1, Members DEF Frame, TypeOK
    <3>3. q = p => f.handler = "handle_sigterm_child"
      BY <1>3, <2>3, <3>1 DEF ChildSignals, Signals
    <3>4. frames'[q] = Append(frames[q], f) /\ frames[q] \in Seq(Frame)
      BY <1>0, <2>3
    <3>5. q # p => frames'[p] = frames[p]
      BY <1>0, <2>3
    <3> HIDE DEF f
    <3>6. q = p => \A i \in DOMAIN frames'[p] :
            \/ i \in DOMAIN frames[p] /\ frames'[p][i] = frames[p][i]
            \/ frames'[p][i] = f
      BY <3>2, <3>4, AppendKeeps
    <3> QED BY <1>3, <3>3, <3>5, <3>6 DEF ChildSignals
  <2>4. ASSUME NEW q \in Processes, NEW step \in HandlerSteps,
               frames[q] # <<>>, Advance(q, step)
        PROVE  Mine
    <3>1. \A i \in DOMAIN frames[p] : frames[p][i].handler = "handle_sigterm_child"
      BY <1>3 DEF ChildSignals
    <3>2. \/ frames'[p] = frames[p]
          \/ /\ DOMAIN frames'[p] = DOMAIN frames[p]
             /\ \A i \in DOMAIN frames[p] :
                  frames'[p][i].handler = frames[p][i].handler
      BY <1>0, <2>4, AdvanceKeeps
    <3> QED BY <3>1, <3>2
  <2> HIDE DEF Mine
  <2> QED BY <2>1, <2>2, <2>3, <2>4, FrameCases
<1> QED BY <1>1, <1>2, <1>3

\* A step keeps the handlers a child can have.
LEMMA ChildSignalsStep ==
    TypeOK /\ Roles /\ ChildSignals /\ [Next]_vars => ChildSignals'
<1>1. ASSUME TypeOK, Roles, ChildSignals, Next PROVE ChildSignals'
  BY <1>1, ChildDisposition, ChildHandlers DEF ChildSignals
<1>2. ASSUME ChildSignals, UNCHANGED vars PROVE ChildSignals'
  BY <1>2, Stutter DEF ChildSignals
<1> QED BY <1>1, <1>2

\* Once setup_child_signals is done a child has the handler "for child" set for
\* SIGTERM and ignores SIGINT, and no other handler runs in it during its session:
\* the handlers "for parent" end no session that has begun.
THEOREM ChildrenHaveOwnHandler == Spec => []ChildSignals
<1>1. Spec => []TypeOK
  BY TypeCorrect
<1>2. Spec => []Roles
  BY <1>1, RolesInit, RolesStep, PTL DEF Spec
<1> QED BY <1>1, <1>2, ChildSignalsInit, ChildSignalsStep, PTL DEF Spec

-----------------------------------------------------------------------------
(* What a process holds *)

Holds(p) == conns[p] = IF Serves(p) THEN {new_socket[p]} ELSE {}

\* A process whose own part of the state stays holds what it held.
LEMMA HoldsFrame ==
    ASSUME NEW p, Holds(p),
           pc'[p] = pc[p], frames'[p] = frames[p], conns'[p] = conns[p],
           new_socket'[p] = new_socket[p]
    PROVE  Holds(p)'
BY DEF Holds, Serves

\* A process that neither serves nor holds anything.
LEMMA HoldsNothing ==
    ASSUME NEW p, conns'[p] = {},
           \/ pc'[p] \in IdleLabels \cup {"accept", "exit"}
           \/ /\ p # Parent /\ pc'[p] = "session"
              /\ \E i \in DOMAIN frames'[p] : frames'[p][i].step = "exit"
    PROVE  Holds(p)'
BY DEF Holds, Serves, IdleLabels, SetupLabels

\* setup_signals is over before anything is held.
LEMMA HoldsSetup ==
    ASSUME TypeOK, Connections, setup_signals, NEW p \in Processes, Holds(p)
    PROVE  Holds(p)'
<1>1. conns'[Parent] = {} /\ pc'[Parent] \in IdleLabels \cup {"accept"}
  BY SetupMoves, ProcessFacts DEF TypeOK, Connections, IdleLabels, SetupLabels
<1>2. p # Parent => pc'[p] = pc[p]
  BY SetupMoves DEF TypeOK
<1> QED BY <1>1, <1>2, SetupMoves, HoldsFrame, HoldsNothing

\* The parent gets, hands on and closes a connection as its label says.
LEMMA HoldsParent ==
    ASSUME TypeOK, Roles, Accept \/ Fork \/ ParentCloses,
           \A p \in Processes : Holds(p), NEW p \in Processes
    PROVE  Holds(p)'
<1>0. /\ pc \in [Processes -> Everywhere] /\ conns \in [Processes -> SUBSET Clients]
      /\ new_socket \in [Processes -> Clients \cup {NoClient}]
      /\ Parent \in Processes /\ Holds(Parent) /\ Holds(p)
  BY ProcessFacts DEF TypeOK, Everywhere
<1>1. frames' = frames
  BY DEF Accept, Fork, ParentCloses, process
<1>2. CASE Accept
  <2>1. conns[Parent] = {}
    BY <1>0, <1>2 DEF Accept, Runs, Holds, Serves
  <2>2. CASE p = Parent
    BY <1>0, <1>2, <2>1, <2>2 DEF Accept, Holds, Serves
  <2>3. CASE p # Parent
    BY <1>0, <1>1, <1>2, <2>3, HoldsFrame DEF Accept
  <2> QED BY <2>2, <2>3
<1>3. CASE Fork
  <2>1. PICK q \in Children :
          /\ pc' = [pc EXCEPT ![Parent] = "close_new", ![q] = "set_sigterm"]
          /\ conns' = [conns EXCEPT ![q] = conns[Parent]]
          /\ new_socket' = [new_socket EXCEPT ![q] = new_socket[Parent]]
    BY <1>3 DEF Fork
  <2>2. conns[Parent] = {new_socket[Parent]} /\ q \in Processes /\ q # Parent
    BY <1>0, <1>3, ProcessFacts DEF Fork, Runs, Holds, Serves
  <2>3. CASE p = Parent
    BY <1>0, <2>1, <2>2, <2>3 DEF Holds, Serves
  <2>4. CASE p = q
    BY <1>0, <2>1, <2>2, <2>4 DEF Holds, Serves
  <2>5. CASE p # Parent /\ p # q
    BY <1>0, <1>1, <2>1, <2>5, HoldsFrame
  <2> QED BY <2>3, <2>4, <2>5
<1>4. CASE ParentCloses
  <2>1. /\ conns' = [conns EXCEPT ![Parent] = @ \ {new_socket[Parent]}]
        /\ pc' = [pc EXCEPT ![Parent] = "accept"]
        /\ new_socket' = [new_socket EXCEPT ![Parent] = NoClient]
    BY <1>4 DEF ParentCloses, SocketsAfter
  <2>2. CASE p = Parent
    <3>1. conns'[p] = {} /\ pc'[p] = "accept"
      BY <1>0, <2>1, <2>2 DEF Holds
    <3> QED BY <3>1, HoldsNothing
  <2>3. CASE p # Parent
    BY <1>0, <1>1, <2>1, <2>3, HoldsFrame
  <2> QED BY <2>2, <2>3
<1> QED BY <1>2, <1>3, <1>4

\* A child keeps its connection until its session ends or it dies.
LEMMA HoldsChild ==
    ASSUME TypeOK, Roles, NEW q \in Processes,
           \/ SetSigterm(q) \/ SetSigint(q) \/ CloseListen(q)
           \/ (q \in Children /\ SessionReturns(q)) \/ Dies(q),
           NEW p \in Processes, Holds(p)
    PROVE  Holds(p)'
<1>0. /\ pc \in [Processes -> Everywhere] /\ conns \in [Processes -> SUBSET Clients]
      /\ frames \in [Processes -> Seq(Frame)]
  BY DEF TypeOK, Everywhere, Frame
<1>1. CASE SetSigterm(q) \/ SetSigint(q) \/ CloseListen(q)
  <2>1. /\ q # Parent /\ frames[q] = <<>>
        /\ pc[q] \in {"set_sigterm", "set_sigint", "close_listen"}
    BY <1>1 DEF SetSigterm, SetSigint, CloseListen, Runs, Roles, ParentLabels,
       SetupLabels, LoopLabels
  <2>2. \E l \in {"set_sigint", "close_listen", "session"} :
          pc' = [pc EXCEPT ![q] = l]
    BY <1>1 DEF SetSigterm, SetSigint, CloseListen
  <2>3. frames' = frames /\ conns' = conns /\ new_socket' = new_socket
    BY <1>1 DEF SetSigterm, SetSigint, CloseListen, SocketsAfter, process, sockets
  <2>4. CASE p = q
    BY <1>0, <2>1, <2>2, <2>3, <2>4 DEF Holds, Serves
  <2>5. CASE p # q
    BY <1>0, <2>2, <2>3, <2>5, HoldsFrame
  <2> QED BY <2>4, <2>5
<1>2. CASE q \in Children /\ SessionReturns(q)
  <2>1. /\ pc' = [pc EXCEPT ![q] = "exit"] /\ frames' = frames
        /\ conns' = [conns EXCEPT ![q] = @ \ {new_socket[q]}]
        /\ new_socket' = new_socket
    BY <1>2 DEF SessionReturns, SocketsAfter, process
  <2>2. CASE p = q
    <3>1. pc'[p] = "exit" /\ conns'[p] = {}
      BY <1>0, <2>1, <2>2 DEF Holds
    <3> QED BY <3>1, HoldsNothing
  <2>3. CASE p # q
    BY <1>0, <2>1, <2>3, HoldsFrame
  <2> QED BY <2>2, <2>3
<1>3. CASE Dies(q)
  <2>1. /\ pc' = [pc EXCEPT ![q] = "gone"] /\ frames' = [frames EXCEPT ![q] = <<>>]
        /\ conns' = [conns EXCEPT ![q] = {}] /\ new_socket' = new_socket
    BY <1>3, DiesTerminates DEF Terminates, SocketsAfter
  <2>2. CASE p = q
    BY <1>0, <2>1, <2>2, HoldsNothing DEF IdleLabels
  <2>3. CASE p # q
    BY <1>0, <2>1, <2>3, HoldsFrame
  <2> QED BY <2>2, <2>3
<1> QED BY <1>1, <1>2, <1>3

\* A handler that starts serves on; only the last step of the child's own
\* handler ends a session, and it has closed the connection.
LEMMA HoldsHandler ==
    ASSUME TypeOK, Roles, ChildSignals, NEW q \in Processes,
           \/ Deliver(q) \/ HandlerClosesListener(q) \/ HandlerKillsGroup(q)
           \/ HandlerClosesSession(q),
           NEW p \in Processes, Holds(p)
    PROVE  Holds(p)'
<1>0. /\ pc \in [Processes -> Everywhere] /\ conns \in [Processes -> SUBSET Clients]
      /\ frames \in [Processes -> Seq(Frame)]
  BY DEF TypeOK, Everywhere, Frame
<1>1. CASE Deliver(q)
  <2>1. PICK s \in Deliverable(q) :
          /\ frames' = IF disposition[q][s] = "ignore" THEN frames
                       ELSE [frames EXCEPT ![q] =
                               Append(@, [handler |-> disposition[q][s],
                                          step |-> "close"])]
          /\ pc' = pc /\ conns' = conns /\ new_socket' = new_socket
          /\ disposition[q][s] # "default"
    BY <1>1 DEF Deliver, sockets
  <2>2. CASE disposition[q][s] = "ignore"
    BY <2>1, <2>2, HoldsFrame
  <2>3. CASE disposition[q][s] # "ignore"
    <3> DEFINE f == [handler |-> disposition[q][s], step |-> "close"]
    <3>1. f \in Frame /\ f.step # "exit"
      BY <2>1, <2>3, Members DEF Frame, TypeOK, Deliverable
    <3>2. frames'[q] = Append(frames[q], f) /\ frames[q] \in Seq(Frame)
      BY <1>0, <2>1, <2>3
    <3>3. \A r \in Processes : r # q => frames'[r] = frames[r]
      BY <1>0, <2>1, <2>3
    <3> HIDE DEF f
    <3>4. /\ DOMAIN frames[q] \subseteq DOMAIN frames'[q]
          /\ \A i \in DOMAIN frames[q] : frames'[q][i] = frames[q][i]
          /\ \A i \in DOMAIN frames'[q] :
               i \in DOMAIN frames[q] \/ frames'[q][i].step # "exit"
      BY <3>1, <3>2, AppendKeeps
    <3>5. (\A i \in DOMAIN frames'[q] : frames'[q][i].step # "exit")
            <=> (\A i \in DOMAIN frames[q] : frames[q][i].step # "exit")
      BY <3>4
    <3>6. CASE p = q
      BY <2>1, <3>5, <3>6 DEF Holds, Serves
    <3>7. CASE p # q
      BY <2>1, <3>3, <3>7, HoldsFrame
    <3> QED BY <3>6, <3>7
  <2> QED BY <2>2, <2>3
<1>2. CASE HandlerClosesListener(q) \/ HandlerKillsGroup(q)
  <2>1. PICK h \in {"handle_sigint", "handle_sigterm"}, st \in HandlerSteps :
          InHandler(q, h, st)
    BY <1>2, Members DEF HandlerClosesListener, HandlerKillsGroup
  <2>2. frames[q] # <<>> /\ (Advance(q, "killpg") \/ Advance(q, "exit"))
    BY <1>2, <2>1 DEF HandlerClosesListener, HandlerKillsGroup, InHandler
  <2>3. pc' = pc /\ conns' = conns /\ new_socket' = new_socket
    BY <1>2 DEF HandlerClosesListener, HandlerKillsGroup, SocketsAfter, sockets
  <2>4. CASE p = q
    <3>1. frames[q][Len(frames[q])].handler # "handle_sigterm_child"
      BY <2>1 DEF InHandler
    <3>2. Len(frames[q]) \in DOMAIN frames[q]
      BY <1>0, <2>2
    <3>3. p = Parent \/ pc[p] # "session"
      BY <2>4, <3>1, <3>2 DEF ChildSignals, Processes
    <3> QED BY <2>3, <3>3 DEF Holds, Serves
  <2>5. CASE p # q
    BY <2>2, <2>3, <2>5, AdvanceKeeps, HoldsFrame, Members
  <2> QED BY <2>4, <2>5
<1>3. CASE HandlerClosesSession(q)
  <2>1. /\ InHandler(q, "handle_sigterm_child", "close")
        /\ frames[q] # <<>> /\ Advance(q, "exit")
        /\ pc' = pc /\ new_socket' = new_socket
        /\ conns' = IF pc[q] = "session"
                    THEN [conns EXCEPT ![q] = @ \ {new_socket[q]}] ELSE conns
    BY <1>3 DEF HandlerClosesSession, InHandler, SocketsAfter
  <2>2. q # Parent
    <3>1. Len(frames[q]) \in DOMAIN frames[q]
      BY <1>0, <2>1
    <3> QED BY <2>1, <3>1 DEF InHandler, Roles
  <2>3. CASE p = q /\ pc[p] = "session"
    <3>1. \E i \in DOMAIN frames'[p] : frames'[p][i].step = "exit"
      BY <2>1, <2>3, AdvanceKeeps, Members
    <3>2. conns'[p] = {}
      BY <1>0, <2>1, <2>3 DEF Holds
    <3> QED BY <2>1, <2>2, <2>3, <3>1, <3>2, HoldsNothing
  <2>4. CASE p = q /\ pc[p] # "session"
    BY <2>1, <2>4 DEF Holds, Serves
  <2>5. CASE p # q
    <3>1. conns'[p] = conns[p] /\ frames'[p] = frames[p]
      BY <1>0, <2>1, <2>5, AdvanceKeeps, Members
    <3> QED BY <2>1, <3>1, HoldsFrame
  <2> QED BY <2>3, <2>4, <2>5
<1> QED BY <1>1, <1>2, <1>3

\* So every process holds what it serves after any step.
LEMMA HoldsStep ==
    ASSUME TypeOK, Roles, ChildSignals, Connections, Next,
           \A p \in Processes : Holds(p)
    PROVE  \A p \in Processes : Holds(p)'
<1> TAKE p \in Processes
<1>1. Holds(p)
  OBVIOUS
<1>2. CASE Accept \/ Fork \/ ParentCloses
  BY <1>2, HoldsParent
<1>3. ASSUME NEW q \in Processes,
             \/ SetSigterm(q) \/ SetSigint(q) \/ CloseListen(q)
             \/ (q \in Children /\ SessionReturns(q)) \/ Dies(q)
      PROVE  Holds(p)'
  BY <1>1, <1>3, HoldsChild
<1>4. ASSUME NEW q \in Processes,
             \/ Deliver(q) \/ HandlerClosesListener(q) \/ HandlerKillsGroup(q)
             \/ HandlerClosesSession(q)
      PROVE  Holds(p)'
  BY <1>1, <1>4, HoldsHandler
<1>5. CASE \/ \E c \in Clients : ClientConnects(c)
           \/ Interrupt \/ \E q \in Processes : Kill(q)
  <2>1. pc' = pc /\ frames' = frames /\ conns' = conns /\ new_socket' = new_socket
    BY <1>5 DEF ClientConnects, Interrupt, Kill, process, sockets
  <2> QED BY <1>1, <2>1, HoldsFrame
<1>6. CASE setup_signals
  BY <1>1, <1>6, HoldsSetup
<1> QED BY <1>2, <1>3, <1>4, <1>5, <1>6, NextCases, ProcessFacts

-----------------------------------------------------------------------------
(* What happens to connections *)

Closes(open, held) ==
    /\ SocketsAfter(open, held)
    /\ open \in [Processes -> BOOLEAN] /\ held \in [Processes -> SUBSET Clients]
    /\ \A p \in Processes : (open[p] => listening[p]) /\ held[p] \subseteq conns[p]

\* A step makes a connection, accepts one, copies one, or only closes.
LEMMA SocketCases ==
    ASSUME TypeOK, Next
    PROVE  \/ Accept \/ Fork \/ \E c \in Clients : ClientConnects(c)
           \/ UNCHANGED <<listening, conns, queue, client>>
           \/ \E open, held : Closes(open, held)
<1>0. /\ listening \in [Processes -> BOOLEAN] /\ conns \in [Processes -> SUBSET Clients]
      /\ server_socket \in [Processes -> BOOLEAN]
  BY DEF TypeOK
<1>1. CASE ParentCloses
  <2> DEFINE held == [conns EXCEPT ![Parent] = @ \ {new_socket[Parent]}]
  <2>1. Closes(listening, held)
    BY <1>0, <1>1 DEF ParentCloses, Closes
  <2> QED BY <2>1
<1>2. ASSUME NEW p \in Processes, CloseListen(p)
      PROVE  \E open, held : Closes(open, held)
  <2>1. Closes([listening EXCEPT ![p] = FALSE], conns)
    BY <1>0, <1>2 DEF CloseListen, Closes
  <2> QED BY <2>1
<1>3. ASSUME NEW p \in Processes, SessionReturns(p)
      PROVE  \E open, held : Closes(open, held)
  <2> DEFINE held == [conns EXCEPT ![p] = @ \ {new_socket[p]}]
  <2>1. Closes(listening, held)
    BY <1>0, <1>3 DEF SessionReturns, Closes
  <2> QED BY <2>1
<1>4. ASSUME NEW p \in Processes, Dies(p)
      PROVE  \E open, held : Closes(open, held)
  <2>1. Closes([listening EXCEPT ![p] = FALSE], [conns EXCEPT ![p] = {}])
    BY <1>0, <1>4, DiesTerminates DEF Terminates, Closes
  <2> QED BY <2>1
<1>5. ASSUME NEW p \in Processes, HandlerClosesListener(p)
      PROVE  \E open, held : Closes(open, held)
  <2> DEFINE open == [listening EXCEPT ![p] = @ /\ ~server_socket[p]]
  <2>1. open \in [Processes -> BOOLEAN] /\ \A q \in Processes : open[q] => listening[q]
    BY <1>0
  <2>2. SocketsAfter(open, conns)
    BY <1>5 DEF HandlerClosesListener
  <2> HIDE DEF open
  <2>3. Closes(open, conns)
    BY <1>0, <2>1, <2>2 DEF Closes
  <2> QED BY <2>3
<1>6. ASSUME NEW p \in Processes, HandlerClosesSession(p)
      PROVE  \E open, held : Closes(open, held)
  <2> DEFINE held == IF pc[p] = "session"
                     THEN [conns EXCEPT ![p] = @ \ {new_socket[p]}] ELSE conns
  <2>1. Closes(listening, held)
    BY <1>0, <1>6 DEF HandlerClosesSession, Closes
  <2> QED BY <2>1
<1>7. ASSUME NEW p \in Processes,
             \/ SetSigterm(p) \/ SetSigint(p) \/ Deliver(p)
             \/ HandlerKillsGroup(p) \/ Kill(p)
      PROVE  UNCHANGED <<listening, conns, queue, client>>
  BY <1>7 DEF SetSigterm, SetSigint, Deliver, HandlerKillsGroup, Kill, sockets
<1>8. ASSUME Interrupt
      PROVE  UNCHANGED <<listening, conns, queue, client>>
  BY <1>8 DEF Interrupt, sockets
<1>9. CASE setup_signals
  BY <1>9, SetupMoves
<1> QED BY <1>1, <1>2, <1>3, <1>4, <1>5, <1>6, <1>7, <1>8, <1>9, NextCases, ProcessFacts

HeldOrQueued ==
    /\ \A c \in Clients :
         client[c] = "accepted" => \E p \in Processes : c \in conns[p]
    /\ \A c \in Clients :
         client[c] = "queued" => \E i \in DOMAIN queue : queue[i] = c

\* A connection leaves the queue for a process, and ends with the last that has it.
LEMMA HeldOrQueuedStep ==
    ASSUME TypeOK, Unborn, Connections, \A p \in Processes : Holds(p), Quiet,
           HeldOrQueued, Next
    PROVE  HeldOrQueued'
<1>0. /\ queue \in Seq(Clients) /\ client \in [Clients -> Standing]
      /\ conns \in [Processes -> SUBSET Clients] /\ Parent \in Processes
  BY ProcessFacts DEF TypeOK, Standing
<1>1. CASE Accept
  <2>1. /\ queue # <<>> /\ queue' = Tail(queue)
        /\ client' = [client EXCEPT ![queue[1]] = "accepted"]
        /\ conns' = [conns EXCEPT ![Parent] = @ \cup {queue[1]}]
    BY <1>0, <1>1 DEF Accept
  <2>2. queue[1] \in Clients
    BY <1>0, <2>1
  <2>3. ASSUME NEW c \in Clients, client'[c] = "accepted"
        PROVE  \E p \in Processes : c \in conns'[p]
    BY <1>0, <2>1, <2>2, <2>3 DEF HeldOrQueued
  <2>4. ASSUME NEW c \in Clients, client'[c] = "queued"
        PROVE  \E i \in DOMAIN queue' : queue'[i] = c
    <3>1. client[c] = "queued" /\ c # queue[1]
      BY <1>0, <2>1, <2>2, <2>4
    <3>2. PICK i \in DOMAIN queue : queue[i] = c
      BY <3>1 DEF HeldOrQueued
    <3>3. i - 1 \in DOMAIN queue' /\ queue'[i - 1] = queue[i]
      BY <1>0, <2>1, <3>1, <3>2
    <3> QED BY <3>2, <3>3
  <2> QED BY <2>3, <2>4 DEF HeldOrQueued
<1>2. CASE Fork
  <2>1. PICK p \in Children :
          pc[p] = "unborn" /\ conns' = [conns EXCEPT ![p] = conns[Parent]]
    BY <1>2 DEF Fork
  <2>2. conns[p] = {} /\ p \in Processes
    BY <2>1, ProcessFacts DEF Connections, IdleLabels
  <2>3. \A q \in Processes : conns[q] \subseteq conns'[q]
    BY <1>0, <2>1, <2>2
  <2> QED BY <1>2, <2>3 DEF Fork, HeldOrQueued
<1>3. ASSUME NEW d \in Clients, ClientConnects(d)
      PROVE  HeldOrQueued'
  <2>1. /\ queue' = Append(queue, d) /\ client' = [client EXCEPT ![d] = "queued"]
        /\ conns' = conns
    BY <1>3 DEF ClientConnects, sockets
  <2>2. /\ DOMAIN queue' = DOMAIN queue \cup {Len(queue) + 1}
        /\ queue'[Len(queue) + 1] = d
        /\ \A i \in DOMAIN queue : queue'[i] = queue[i]
    BY <1>0, <2>1
  <2> QED BY <1>0, <2>1, <2>2 DEF HeldOrQueued
<1>4. CASE UNCHANGED <<listening, conns, queue, client>>
  BY <1>4 DEF HeldOrQueued
<1>5. ASSUME NEW open, NEW held, Closes(open, held)
      PROVE  HeldOrQueued'
  <2>1. ASSUME NEW c \in Clients, client'[c] = "accepted"
        PROVE  \E p \in Processes : c \in conns'[p]
    BY <1>5, <2>1 DEF Closes, SocketsAfter
  <2>2. ASSUME NEW c \in Clients, client'[c] = "queued"
        PROVE  \E i \in DOMAIN queue' : queue'[i] = c
    <3>1. client[c] = "queued"
      BY <1>5, <2>2 DEF Closes, SocketsAfter
    <3>2. PICK i \in DOMAIN queue : queue[i] = c
      BY <3>1 DEF HeldOrQueued
    <3>3. ~(\A p \in Processes : ~open[p])
      BY <1>5, <2>2, <3>2 DEF Closes, SocketsAfter
    <3> QED BY <1>5, <3>2, <3>3 DEF Closes, SocketsAfter
  <2> QED BY <2>1, <2>2 DEF HeldOrQueued
<1> QED BY <1>1, <1>2, <1>3, <1>4, <1>5, SocketCases

\* Nobody becomes unborn.
LEMMA UnbornOnlyByFork ==
    ASSUME TypeOK, Next, NEW p \in Processes, pc'[p] = "unborn"
    PROVE  pc[p] = "unborn"
<1>0. pc \in [Processes -> Everywhere]
  BY DEF TypeOK, Everywhere
<1>1. CASE Fork
  <2>1. PICK q \in Children :
          pc' = [pc EXCEPT ![Parent] = "close_new", ![q] = "set_sigterm"]
    BY <1>1 DEF Fork
  <2> QED BY <1>0, <2>1
<1>2. CASE Accept \/ ParentCloses
  BY <1>0, <1>2 DEF Accept, ParentCloses
<1>3. ASSUME NEW q \in Processes,
             \/ SetSigterm(q) \/ SetSigint(q) \/ CloseListen(q)
             \/ SessionReturns(q) \/ Dies(q)
      PROVE  pc[p] = "unborn"
  BY <1>0, <1>3, DiesTerminates DEF SetSigterm, SetSigint, CloseListen, SessionReturns,
     Terminates
<1>4. ASSUME NEW q \in Processes,
             \/ Deliver(q) \/ HandlerClosesListener(q) \/ HandlerKillsGroup(q)
             \/ HandlerClosesSession(q) \/ Kill(q)
      PROVE  pc[p] = "unborn"
  BY <1>0, <1>4 DEF Deliver, HandlerClosesListener, HandlerKillsGroup,
     HandlerClosesSession, Kill
<1>6. CASE setup_signals
  BY <1>0, <1>6, SetupMoves
<1>5. CASE Interrupt \/ \E c \in Clients : ClientConnects(c)
  BY <1>5 DEF Interrupt, ClientConnects
<1> QED BY <1>1, <1>2, <1>3, <1>4, <1>5, <1>6, NextCases, ProcessFacts

\* When nobody listens any more, nobody waits, and nobody will listen again.
LEMMA QuietStep ==
    ASSUME TypeOK, Quiet, Next
    PROVE  Quiet'
<1>0. listening \in [Processes -> BOOLEAN] /\ Parent \in Processes
  BY ProcessFacts DEF TypeOK
<1>1. CASE Accept
  BY <1>0, <1>1, UnbornOnlyByFork DEF Accept, Quiet
<1>2. CASE Fork
  <2>1. PICK p \in Children :
          /\ pc[p] = "unborn"
          /\ pc' = [pc EXCEPT ![Parent] = "close_new", ![p] = "set_sigterm"]
          /\ listening' = [listening EXCEPT ![p] = listening[Parent]]
    BY <1>2 DEF Fork
  <2>2. /\ p \in Processes /\ ~listening[p] /\ queue' = queue
        /\ pc \in [Processes -> Everywhere]
    BY <1>2, <2>1, ProcessFacts DEF Quiet, Fork, TypeOK, Everywhere
  <2>3. (\A q \in Processes : ~listening'[q]) => \A q \in Processes : ~listening[q]
    BY <1>0, <2>1, <2>2
  <2>4. \A q \in Processes : pc'[q] = "unborn" => pc[q] = "unborn" /\ q # p
    BY <2>1, <2>2, ProcessFacts
  <2>5. \A q \in Processes : pc'[q] = "unborn" => ~listening'[q]
    BY <1>0, <2>1, <2>4 DEF Quiet
  <2> QED BY <2>2, <2>3, <2>5 DEF Quiet
<1>3. ASSUME NEW c \in Clients, ClientConnects(c)
      PROVE  Quiet'
  BY <1>3, UnbornOnlyByFork DEF ClientConnects, Quiet, sockets
<1>4. CASE UNCHANGED <<listening, conns, queue, client>>
  BY <1>4, UnbornOnlyByFork DEF Quiet
<1>5. ASSUME NEW open, NEW held, Closes(open, held)
      PROVE  Quiet'
  BY <1>5, UnbornOnlyByFork DEF Closes, SocketsAfter, Quiet
<1> QED BY <1>1, <1>2, <1>3, <1>4, <1>5, SocketCases

\* The parts of Holding together.
LEMMA HoldingStep ==
    TypeOK /\ Roles /\ ChildSignals /\ Unborn /\ Connections /\ Quiet /\ Holding
        /\ [Next]_vars => Holding' /\ Quiet'
<1>1. ASSUME TypeOK, Roles, ChildSignals, Unborn, Connections, Quiet, Holding, Next
      PROVE  Holding' /\ Quiet'
  <2>1. (\A p \in Processes : Holds(p)) /\ HeldOrQueued
    BY <1>1 DEF Holding, Holds, HeldOrQueued
  <2>2. \A p \in Processes : Holds(p)'
    BY <1>1, <2>1, HoldsStep
  <2>3. HeldOrQueued' /\ Quiet'
    BY <1>1, <2>1, HeldOrQueuedStep, QuietStep
  <2> QED BY <2>2, <2>3 DEF Holding, Holds, HeldOrQueued
<1>2. ASSUME Holding, Quiet, UNCHANGED vars
      PROVE  Holding' /\ Quiet'
  <2>1. \A p : Serves(p)' <=> Serves(p)
    BY <1>2, Stutter DEF Serves
  <2> QED BY <1>2, <2>1, Stutter DEF Holding, Quiet
<1> QED BY <1>1, <1>2

\* At first nobody holds or serves anything.
LEMMA HoldingInit == Init => Holding /\ Quiet
BY DEF Init, Holding, Quiet, Serves

\* A process has a connection open exactly while it serves it: the parent from
\* accept to the end of its copy, a child until its session ends; a client is
\* accepted while somebody has its connection.  When nobody listens, nobody waits.
THEOREM HeldIsServed == Spec => [](Holding /\ Quiet)
<1>1. Spec => []TypeOK
  BY TypeCorrect
<1>2. Spec => []Roles
  BY <1>1, RolesInit, RolesStep, PTL DEF Spec
<1>3. Spec => []ChildSignals
  BY ChildrenHaveOwnHandler
<1>4. Spec => []Unborn
  BY <1>1, UnbornInit, UnbornStep, PTL DEF Spec
<1>5. Spec => [](Connections /\ OwnSocketOnly)
  BY <1>1, <1>2, SocketInit, SocketStep, PTL DEF Spec
<1> QED BY <1>1, <1>2, <1>3, <1>4, <1>5, HoldingInit, HoldingStep, PTL DEF Spec

-----------------------------------------------------------------------------
(* The refinement *)

\* The clients that are served are those whose connection somebody holds.
LEMMA ServedAreHeld ==
    ASSUME Holding
    PROVE  /\ Served = UNION {conns[p] : p \in Processes}
           /\ \A c : c \in Served <=> \E p \in Processes : c \in conns[p]
<1>1. ASSUME NEW c
      PROVE  c \in Served <=> \E p \in Processes : c \in conns[p]
  <2>1. c \in Served <=> \E p \in Processes : Serves(p) /\ c = new_socket[p]
    BY DEF Served
  <2>2. \A p \in Processes : c \in conns[p] <=> Serves(p) /\ c = new_socket[p]
    BY DEF Holding
  <2> QED BY <2>1, <2>2
<1> QED BY <1>1

\* The same after a step.
LEMMA ServedAreHeldNext ==
    ASSUME Holding'
    PROVE  /\ Served' = UNION {conns'[p] : p \in Processes}
           /\ \A c : c \in Served' <=> \E p \in Processes : c \in conns'[p]
<1>1. ASSUME NEW c
      PROVE  c \in Served' <=> \E p \in Processes : c \in conns'[p]
  <2>1. c \in Served' <=> \E p \in Processes : Serves(p)' /\ c = new_socket'[p]
    BY DEF Served
  <2>2. \A p \in Processes : c \in conns'[p] <=> Serves(p)' /\ c = new_socket'[p]
    BY DEF Holding
  <2> QED BY <2>1, <2>2
<1> QED BY <1>1

\* The first state is one of the service.
LEMMA ServiceInit == Init => Service!Init
<1> SUFFICES ASSUME Init PROVE Service!Init
  OBVIOUS
<1>1. Listens /\ Served = {}
  BY ProcessFacts DEF Init, Listens, Served, Serves
<1> QED BY <1>1 DEF Init, Service!Init

\* Closing descriptors ends sessions and, with the last listener, the service.
LEMMA ClosingEnds ==
    ASSUME TypeOK, Connections, Quiet, Holding, Holding',
           NEW open, NEW held, Closes(open, held)
    PROVE  Service!Next
<1> DEFINE S == Served \ Served'
           nobody == \A p \in Processes : ~open[p]
<1>1. /\ listening' = open /\ conns' = held
      /\ queue' = IF nobody THEN <<>> ELSE queue
  BY DEF Closes, SocketsAfter
<1>2. Served' = Served \ S /\ S \in SUBSET Served
  BY <1>1, ServedAreHeld, ServedAreHeldNext DEF Closes
<1>3. \A c \in Clients :
        (client[c] = "accepted" /\ c \notin UNION {held[p] : p \in Processes})
          <=> c \in S
  <2> TAKE c \in Clients
  <2>1. c \in Served <=> \E p \in Processes : c \in conns[p]
    BY ServedAreHeld
  <2>2. c \in Served' <=> \E p \in Processes : c \in held[p]
    BY <1>1, ServedAreHeldNext
  <2>3. client[c] = "accepted" <=> \E p \in Processes : c \in conns[p]
    BY DEF Holding, Connections
  <2> QED BY <2>1, <2>2, <2>3
<1>4. client' = [c \in Clients |->
                   IF \/ nobody /\ \E i \in DOMAIN queue : queue[i] = c
                      \/ c \in S
                   THEN "closed" ELSE client[c]]
  <2> HIDE DEF S
  <2> QED BY <1>3 DEF Closes, SocketsAfter
<1> HIDE DEF S
<1>5. CASE nobody /\ Listens
  <2>1. ~Listens' /\ queue' = <<>>
    BY <1>1, <1>5 DEF Listens
  <2>2. \A c \in Clients :
          (\E i \in DOMAIN queue : queue[i] = c) <=> client[c] = "queued"
    BY DEF Holding, Connections
  <2>3. client' = [c \in Clients |->
                     IF c \in S \/ client[c] = "queued" THEN "closed" ELSE client[c]]
    BY <1>4, <1>5, <2>2
  <2> HIDE DEF nobody
  <2>4. Service!Stops(S)
    BY <1>2, <1>5, <2>1, <2>3 DEF Service!Stops
  <2> QED BY <1>2, <2>4 DEF Service!Next
<1>6. CASE ~(nobody /\ Listens)
  <2>1. (Listens' <=> Listens) /\ queue' = queue
    BY <1>1, <1>6 DEF Listens, Closes, Quiet
  <2>2. nobody => queue = <<>>
    BY <1>6 DEF Listens, Quiet
  <2>3. client' = [c \in Clients |-> IF c \in S THEN "closed" ELSE client[c]]
    BY <1>4, <2>2
  <2> HIDE DEF nobody
  <2>4. Service!Ends(S)
    BY <1>2, <2>1, <2>3 DEF Service!Ends
  <2> QED BY <1>2, <2>4 DEF Service!Next
<1> QED BY <1>5, <1>6

\* Every step is a step of the service or changes nothing of it.
LEMMA ServiceStep ==
    TypeOK /\ Connections /\ Quiet /\ Holding /\ Holding' /\ [Next]_vars
        => [Service!Next]_Service!vars
<1> SUFFICES ASSUME TypeOK, Connections, Quiet, Holding, Holding', [Next]_vars
             PROVE  Service!Next \/ UNCHANGED Service!vars
  OBVIOUS
<1>0. /\ listening \in [Processes -> BOOLEAN] /\ conns \in [Processes -> SUBSET Clients]
      /\ queue \in Seq(Clients) /\ Parent \in Processes
  BY ProcessFacts DEF TypeOK
<1>1. CASE Accept
  <2> DEFINE c == Head(queue)
  <2>1. /\ queue # <<>> /\ queue' = Tail(queue) /\ listening' = listening
        /\ listening[Parent]
        /\ client' = [client EXCEPT ![c] = "accepted"]
        /\ conns' = [conns EXCEPT ![Parent] = @ \cup {c}]
    BY <1>1 DEF Accept
  <2> HIDE DEF c
  <2>2. Served' = Served \cup {c}
    BY <1>0, <2>1, ServedAreHeld, ServedAreHeldNext
  <2>3. Listens /\ Listens'
    BY <1>0, <2>1 DEF Listens
  <2>4. Service!Accepts
    BY <2>1, <2>2, <2>3 DEF Service!Accepts, c
  <2> QED BY <2>4 DEF Service!Next
<1>2. CASE Fork
  <2>1. PICK p \in Children :
          /\ pc[p] = "unborn"
          /\ listening' = [listening EXCEPT ![p] = listening[Parent]]
          /\ conns' = [conns EXCEPT ![p] = conns[Parent]]
    BY <1>2 DEF Fork
  <2>2. /\ p \in Processes /\ p # Parent /\ ~listening[p] /\ conns[p] = {}
        /\ queue' = queue /\ client' = client
    BY <1>2, <2>1, ProcessFacts DEF Quiet, Connections, IdleLabels, Fork
  <2>3. Listens' <=> Listens
    BY <1>0, <2>1, <2>2 DEF Listens
  <2>4. Served' = Served
    BY <1>0, <2>1, <2>2, ServedAreHeld, ServedAreHeldNext
  <2> QED BY <2>2, <2>3, <2>4 DEF Service!vars
<1>3. ASSUME NEW c \in Clients, ClientConnects(c)
      PROVE  Service!Next
  <2>1. /\ client[c] = "away" /\ client' = [client EXCEPT ![c] = "queued"]
        /\ queue' = Append(queue, c) /\ listening' = listening /\ conns' = conns
        /\ Listens
    BY <1>3 DEF ClientConnects, sockets, Listens
  <2>2. Served' = Served /\ Listens'
    BY <2>1, ServedAreHeld, ServedAreHeldNext DEF Listens
  <2>3. Service!Connects(c)
    BY <2>1, <2>2 DEF Service!Connects
  <2> QED BY <2>3 DEF Service!Next
<1>4. CASE UNCHANGED <<listening, conns, queue, client>>
  <2>1. Served' = Served /\ (Listens' <=> Listens)
    BY <1>4, ServedAreHeld, ServedAreHeldNext DEF Listens
  <2> QED BY <1>4, <2>1 DEF Service!vars
<1>5. ASSUME NEW open, NEW held, Closes(open, held)
      PROVE  Service!Next
  BY <1>5, ClosingEnds
<1> QED BY <1>1, <1>2, <1>3, <1>4, <1>5, SocketCases, Stutter

\* For any number of clients, children and signals, the parent, its children
\* and their handlers together keep the promise of ConnectionService.
THEOREM ServiceImplemented == Spec => ImplementsService
<1>1. Spec => []TypeOK
  BY TypeCorrect
<1>2. Spec => []Roles
  BY <1>1, RolesInit, RolesStep, PTL DEF Spec
<1>3. Spec => [](Connections /\ OwnSocketOnly)
  BY <1>1, <1>2, SocketInit, SocketStep, PTL DEF Spec
<1>4. Spec => [](Holding /\ Quiet)
  BY HeldIsServed
<1> QED BY <1>1, <1>3, <1>4, ServiceInit, ServiceStep, PTL
        DEF Spec, ImplementsService, Service!Spec
=============================================================================
