-------------------------- MODULE FtpIterativeProofs --------------------------
(***************************************************************************)
(* Theorems about FtpIterative, for any number of clients and signals.      *)
(***************************************************************************)
EXTENDS FtpIterative, SequenceTheorems, TLAPS

Labels   == {"sigaction_int", "sigaction_term", "accept", "session", "exited"}
Actions  == HandlerNames \cup {"default"}
Standing == {"away", "queued", "accepted", "closed"}

\* The names the sets are made of.
LEMMA Members ==
    /\ {"sigaction_int", "sigaction_term", "accept", "session", "exited"} \subseteq Labels
    /\ {"handle_sigint", "handle_sigterm", "default"} \subseteq Actions
    /\ {"SIGINT", "SIGTERM"} \subseteq Signals
    /\ HandlerNames \subseteq Actions
    /\ \A a \in Actions : a # "default" => a \in HandlerNames
BY DEF Labels, Actions, HandlerNames, Signals

\* The disjuncts of Next.
LEMMA NextCases ==
    ASSUME Next
    PROVE  \/ SetSigint \/ SetSigterm \/ Accept \/ AcceptFails
           \/ SessionReturns \/ BrokenPipe \/ SetupFails
           \/ DeliverDefault \/ Deliver
           \/ HandlerCloses \/ HandlerClears \/ HandlerExits
           \/ \E c \in Clients : ClientConnects(c)
           \/ \E s \in Signals : Kill(s)
BY DEF Next, Main, Handler

\* The ways the process ends.
LEMMA EndCases ==
    ASSUME SetupFails \/ BrokenPipe \/ DeliverDefault \/ HandlerExits
    PROVE  Terminates
BY DEF SetupFails, BrokenPipe, DeliverDefault, HandlerExits

-----------------------------------------------------------------------------
(* Types *)

\* The stack of handlers after a step: as it was, empty, one more, or one further on.
LEMMA FramesAfter ==
    ASSUME TypeOK, Next
    PROVE  /\ frames' \in Seq(Frame)
           /\ \/ frames' = frames \/ frames' = <<>>
              \/ \E s \in pending \ Blocked :
                   /\ disposition[s] # "default"
                   /\ frames' = Append(frames, [handler |-> disposition[s],
                                                step |-> "close"])
              \/ /\ DOMAIN frames' = DOMAIN frames
                 /\ \A i \in DOMAIN frames : frames'[i].handler = frames[i].handler
<1>0. frames \in Seq(Frame)
  BY DEF TypeOK
<1>1. CASE SetSigint \/ SetSigterm \/ Accept \/ AcceptFails \/ SessionReturns
  BY <1>0, <1>1 DEF SetSigint, SetSigterm, Accept, AcceptFails, SessionReturns, control
<1>2. CASE SetupFails \/ BrokenPipe \/ DeliverDefault \/ HandlerExits
  <2>1. frames' = <<>>
    BY <1>2, EndCases DEF Terminates
  <2> QED BY <2>1
<1>3. CASE Deliver
  <2>1. PICK s \in pending \ Blocked :
          /\ disposition[s] # "default"
          /\ frames' = Append(frames, [handler |-> disposition[s], step |-> "close"])
    BY <1>3 DEF Deliver
  <2>2. s \in Signals /\ disposition[s] \in HandlerNames
    BY <2>1 DEF TypeOK
  <2>3. [handler |-> disposition[s], step |-> "close"] \in Frame
    BY <2>2 DEF Frame
  <2> QED BY <1>0, <2>1, <2>3
<1>4. ASSUME NEW step \in {"clear", "exit"}, frames # <<>>, Advance(step)
      PROVE  /\ frames' \in Seq(Frame)
             /\ DOMAIN frames' = DOMAIN frames
             /\ \A i \in DOMAIN frames : frames'[i].handler = frames[i].handler
  <2> DEFINE n == Len(frames)
             top == [frames[n] EXCEPT !.step = step]
  <2>1. n \in DOMAIN frames /\ frames[n] \in Frame
    BY <1>0, <1>4
  <2>2. top \in Frame /\ top.handler = frames[n].handler
    BY <1>4, <2>1 DEF Frame
  <2>3. frames' = [frames EXCEPT ![n] = top]
    BY <1>0, <1>4 DEF Advance
  <2> HIDE DEF n, top
  <2>4. frames' \in Seq(Frame) /\ DOMAIN frames' = DOMAIN frames
    BY <1>0, <2>1, <2>2, <2>3
  <2>5. \A i \in DOMAIN frames : frames'[i] = IF i = n THEN top ELSE frames[i]
    BY <1>0, <2>3
  <2> QED BY <2>2, <2>4, <2>5
<1>5. CASE HandlerCloses \/ HandlerClears
  BY <1>4, <1>5 DEF HandlerCloses, HandlerClears, AtStep
<1>6. CASE \/ \E c \in Clients : ClientConnects(c)
           \/ \E s \in Signals : Kill(s)
  BY <1>0, <1>6 DEF ClientConnects, Kill, control
<1> QED BY <1>1, <1>2, <1>3, <1>5, <1>6, NextCases

\* Closing keeps the types of the queue and the clients.
LEMMA ClosedTypes ==
    ASSUME TypeOK, NEW session, NEW listener, Closed(session, listener)
    PROVE  queue' \in Seq(Clients) /\ client' \in [Clients -> Standing]
<1>1. client \in [Clients -> Standing]
  BY DEF TypeOK, Standing
<1> QED BY <1>1 DEF TypeOK, Closed, Standing

\* The types hold at first.
LEMMA TypeInit == Init => TypeOK
BY ClientAssumption DEF Init, TypeOK, Signals, HandlerNames

\* A step keeps the types.
LEMMA TypeStep == TypeOK /\ [Next]_vars => TypeOK'
<1> SUFFICES ASSUME TypeOK, [Next]_vars PROVE TypeOK'
  OBVIOUS
<1>0. /\ pc \in Labels /\ disposition \in [Signals -> Actions] /\ pending \subseteq Signals
      /\ disposition["SIGINT"] \in {"handle_sigint", "default"}
      /\ disposition["SIGTERM"] \in {"handle_sigterm", "default"}
      /\ listening \in BOOLEAN /\ server_socket \in BOOLEAN
      /\ new_socket \in Clients \cup {NoClient} /\ queue \in Seq(Clients)
      /\ client \in [Clients -> Standing] /\ signals \in 0 .. MaxSignals
  BY DEF TypeOK, Labels, Actions, Standing
<1> DEFINE Rest == /\ pc' \in Labels /\ disposition' \in [Signals -> Actions]
                   /\ disposition'["SIGINT"] \in {"handle_sigint", "default"}
                   /\ disposition'["SIGTERM"] \in {"handle_sigterm", "default"}
                   /\ pending' \subseteq Signals
                   /\ listening' \in BOOLEAN /\ server_socket' \in BOOLEAN
                   /\ new_socket' \in Clients \cup {NoClient}
                   /\ queue' \in Seq(Clients) /\ client' \in [Clients -> Standing]
                   /\ signals' \in 0 .. MaxSignals
<1>1. ASSUME SetSigint \/ SetSigterm PROVE Rest
  BY <1>0, <1>1, Members DEF SetSigint, SetSigterm
<1>2. ASSUME Accept PROVE Rest
  <2>1. Head(queue) \in Clients /\ Tail(queue) \in Seq(Clients)
    BY <1>0, <1>2 DEF Accept
  <2> QED BY <1>0, <1>2, <2>1, Members DEF Accept, control, Standing
<1>3. ASSUME AcceptFails PROVE Rest
  BY <1>0, <1>3, Members DEF AcceptFails, control
<1>4. ASSUME SessionReturns PROVE Rest
  BY <1>0, <1>4, ClosedTypes, Members DEF SessionReturns, control
<1>5. ASSUME Terminates PROVE Rest
  BY <1>0, <1>5, ClosedTypes, Members DEF Terminates
<1>6. ASSUME Deliver PROVE Rest
  BY <1>0, <1>6 DEF Deliver
<1>7. ASSUME HandlerCloses PROVE Rest
  BY <1>0, <1>7, ClosedTypes DEF HandlerCloses
<1>8. ASSUME HandlerClears PROVE Rest
  BY <1>0, <1>8 DEF HandlerClears
<1>9. ASSUME NEW c \in Clients, ClientConnects(c)
      PROVE  Rest
  BY <1>0, <1>9 DEF ClientConnects, control, Standing
<1>10. ASSUME NEW s \in Signals, Kill(s)
       PROVE  Rest
  BY <1>0, <1>10, ClientAssumption DEF Kill
<1>11. CASE UNCHANGED vars
  BY <1>11 DEF TypeOK, vars
<1> HIDE DEF Rest
<1>12. ASSUME Next PROVE Rest
  BY <1>1, <1>2, <1>3, <1>4, <1>5, <1>6, <1>7, <1>8, <1>9, <1>10, <1>12, NextCases,
     EndCases DEF Rest
<1>13. CASE Next
  BY <1>12, <1>13, FramesAfter DEF Rest, TypeOK, Labels, Actions, Standing
<1> QED BY <1>11, <1>13

\* The server's state keeps its type, for any clients and signals.
THEOREM TypeCorrect == Spec => []TypeOK
BY TypeInit, TypeStep, PTL DEF Spec

-----------------------------------------------------------------------------
(* Handlers *)

\* At first there is no session.
LEMMA IdleInit == Init => Idle
BY DEF Init, Idle, Signals

\* A step keeps that only a session has a connection.
LEMMA IdleStep == Idle /\ [Next]_vars => Idle'
<1> SUFFICES ASSUME Idle, [Next]_vars PROVE Idle'
  OBVIOUS
<1>1. ASSUME SetSigint \/ SetSigterm PROVE Idle'
  BY <1>1 DEF SetSigint, SetSigterm, Runs, Idle
<1>2. ASSUME Accept \/ AcceptFails \/ SessionReturns \/ Terminates PROVE Idle'
  BY <1>2 DEF Accept, AcceptFails, SessionReturns, Terminates, control, Idle
<1>3. ASSUME Deliver \/ HandlerCloses \/ HandlerClears PROVE Idle'
  BY <1>3 DEF Deliver, HandlerCloses, HandlerClears, Idle
<1>4. ASSUME \/ \E c \in Clients : ClientConnects(c)
             \/ \E s \in Signals : Kill(s)
             \/ UNCHANGED vars
      PROVE  Idle'
  BY <1>4 DEF ClientConnects, Kill, control, vars, Idle
<1> QED BY <1>1, <1>2, <1>3, <1>4, NextCases, EndCases

\* At first no handler runs.
LEMMA NoReentryInit == Init => NoReentry
BY DEF Init, NoReentry

\* A step starts no handler that already runs.
LEMMA NoReentryStep == TypeOK /\ NoReentry /\ [Next]_vars => NoReentry'
<1> SUFFICES ASSUME TypeOK, NoReentry, [Next]_vars PROVE NoReentry'
  OBVIOUS
<1>0. frames \in Seq(Frame)
  BY DEF TypeOK
<1>1. CASE UNCHANGED vars
  BY <1>1 DEF vars, NoReentry
<1>2. CASE frames' = frames \/ frames' = <<>>
  BY <1>2 DEF NoReentry
<1>3. CASE /\ DOMAIN frames' = DOMAIN frames
           /\ \A i \in DOMAIN frames : frames'[i].handler = frames[i].handler
  BY <1>3 DEF NoReentry
<1>4. ASSUME NEW s \in pending \ Blocked, disposition[s] # "default",
             frames' = Append(frames, [handler |-> disposition[s], step |-> "close"])
      PROVE  NoReentry'
  <2> DEFINE f == [handler |-> disposition[s], step |-> "close"]
  <2>1. s \in MaskOf(disposition[s])
    BY <1>4 DEF TypeOK, Signals, MaskOf
  <2>2. \A i \in DOMAIN frames : frames[i].handler # f.handler
    BY <1>4, <2>1 DEF Blocked
  <2> HIDE DEF f
  <2>3. /\ DOMAIN frames' = DOMAIN frames \cup {Len(frames) + 1}
        /\ \A i \in DOMAIN frames : frames'[i] = frames[i]
        /\ frames'[Len(frames) + 1] = f
    BY <1>0, <1>4 DEF f
  <2> QED BY <2>2, <2>3 DEF NoReentry
<1>5. CASE Next
  BY <1>2, <1>3, <1>4, <1>5, FramesAfter
<1> QED BY <1>1, <1>5

\* The masks of sigaction keep either handler from being entered again.
THEOREM HandlersDoNotReenter == Spec => []NoReentry
BY TypeCorrect, NoReentryInit, NoReentryStep, PTL DEF Spec

-----------------------------------------------------------------------------
(* The refinement *)

\* The first state is one of the service.
LEMMA ServiceInit == Init => Service!Init
BY DEF Init, Service!Init, Served

\* A step that closes the session, or the listener, or both.
LEMMA ClosingEnds ==
    ASSUME TypeOK, Idle, NEW session \in BOOLEAN, NEW listener \in BOOLEAN,
           Closed(session, listener),
           session => Served' = {}, ~session => Served' = Served,
           listener => listening /\ ~listening', ~listener => listening' = listening
    PROVE  Service!Next
<1> DEFINE S == IF session THEN Served ELSE {}
<1>1. S \in SUBSET Served /\ Served' = Served \ S
  OBVIOUS
<1>2. \A c \in Clients : c \in S <=> session /\ c = new_socket
  BY ClientAssumption DEF Served, Idle
<1>3. CASE listener
  <2>1. Service!Stops(S)
    BY <1>1, <1>2, <1>3 DEF Closed, Service!Stops, TypeOK
  <2> QED BY <1>1, <2>1 DEF Service!Next
<1>4. CASE ~listener
  <2>1. Service!Ends(S)
    BY <1>1, <1>2, <1>4 DEF Closed, Service!Ends, TypeOK
  <2> QED BY <1>1, <2>1 DEF Service!Next
<1> QED BY <1>3, <1>4

\* Every step is a step of the service or changes nothing of it.
LEMMA ServiceStep == TypeOK /\ Idle /\ Idle' /\ [Next]_vars => [Service!Next]_Service!vars
<1> SUFFICES ASSUME TypeOK, Idle, Idle', [Next]_vars
             PROVE  Service!Next \/ UNCHANGED Service!vars
  OBVIOUS
<1>1. CASE Accept
  <2>1. /\ queue # <<>> /\ listening /\ listening' = listening
        /\ queue' = Tail(queue) /\ new_socket' = Head(queue)
        /\ client' = [client EXCEPT ![Head(queue)] = "accepted"]
        /\ pc = "accept" /\ pc' = "session"
    BY <1>1 DEF Accept, Runs
  <2>2. Head(queue) \in Clients
    BY <2>1 DEF TypeOK
  <2>3. Served' = Served \cup {Head(queue)}
    BY <2>1, <2>2, ClientAssumption DEF Served
  <2>4. Service!Accepts
    BY <2>1, <2>3 DEF Service!Accepts
  <2> QED BY <2>4 DEF Service!Next
<1>2. CASE AcceptFails
  BY <1>2 DEF AcceptFails, Runs, Served, Service!vars
<1>3. CASE SessionReturns
  <2>1. Closed(TRUE, FALSE) /\ Served' = {} /\ listening' = listening
    BY <1>3 DEF SessionReturns, Served
  <2> QED BY <2>1, ClosingEnds
<1>4. CASE Terminates
  <2>1. Closed(TRUE, listening) /\ Served' = {} /\ ~listening'
    BY <1>4 DEF Terminates, Served
  <2>2. listening \in BOOLEAN
    BY DEF TypeOK
  <2>3. CASE listening
    <3>1. Closed(TRUE, TRUE)
      BY <2>1, <2>2, <2>3
    <3> QED BY <2>1, <2>3, <3>1, ClosingEnds
  <2>4. CASE ~listening
    <3>1. Closed(TRUE, FALSE) /\ listening' = listening
      BY <1>4, <2>1, <2>2, <2>4 DEF Terminates
    <3> QED BY <2>1, <3>1, ClosingEnds
  <2> QED BY <2>3, <2>4
<1>5. CASE HandlerCloses
  <2>1. /\ Closed(FALSE, listening /\ server_socket) /\ Served' = Served
        /\ listening' = (listening /\ ~server_socket)
    BY <1>5 DEF HandlerCloses, Served
  <2>2. listening \in BOOLEAN /\ server_socket \in BOOLEAN
    BY DEF TypeOK
  <2> QED BY <2>1, <2>2, ClosingEnds
<1>6. CASE SetSigint \/ SetSigterm
  BY <1>6 DEF SetSigint, SetSigterm, Runs, Served, Service!vars
<1>7. CASE Deliver \/ HandlerClears \/ \E s \in Signals : Kill(s)
  BY <1>7 DEF Deliver, HandlerClears, Kill, Served, Service!vars
<1>8. ASSUME NEW c \in Clients, ClientConnects(c)
      PROVE  Service!Next
  <2>1. Service!Connects(c)
    BY <1>8 DEF ClientConnects, control, Service!Connects, Served
  <2> QED BY <2>1 DEF Service!Next
<1>9. CASE UNCHANGED vars
  BY <1>9 DEF vars, Served, Service!vars
<1> QED BY <1>1, <1>2, <1>3, <1>4, <1>5, <1>6, <1>7, <1>8, <1>9, NextCases, EndCases

\* The iterative server keeps the promise of ConnectionService too, for any
\* number of clients and signals.
THEOREM ServiceImplemented == Spec => ImplementsService
<1>1. Spec => []TypeOK
  BY TypeCorrect
<1>2. Spec => []Idle
  BY IdleInit, IdleStep, PTL DEF Spec
<1> QED BY <1>1, <1>2, ServiceInit, ServiceStep, PTL
        DEF Spec, ImplementsService, Service!Spec
=============================================================================
