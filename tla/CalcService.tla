----------------------------- MODULE CalcService -----------------------------
(***************************************************************************)
(* The calculator of "Soap Server": main() of calcs.c, which serves one     *)
(* connection after another, the generated soap_serve and its five stubs,   *)
(* and the callers, each of which makes one call through the generated      *)
(* soap_call functions or sends a request of its own making.                *)
(*                                                                          *)
(* Neither side sets SOAP_IO_KEEPALIVE, so a connection carries one request *)
(* and the do loop of soap_serve is left after it.  Nobody registers a      *)
(* handler that answers with a status of SOAP_STOP or more.                 *)
(***************************************************************************)
EXTENDS CalcMessages, FiniteSetsExt

CONSTANTS
    Callers,    \* each makes one call
    Requests,   \* requests of callers that do not use soapClient.c
    PowDomain   \* the pairs pow() is defined for

ASSUME CallersAssumption ==
    /\ Null \notin Callers
    /\ Requests \subseteq [op : Ops \cup {"unknown", "malformed"}, version : 1 .. 2,
                          elements : Seq(Element), independents : Seq(Independent)]
    /\ PowDomain \subseteq Numbers \X Numbers

VARIABLES
    pc,         \* where main() is
    conn,       \* the caller soap_accept has connected to
    errno,      \* "EDOM", or any other value
    response,   \* the elements the stub is about to send
    backlog,    \* connections nobody has accepted yet
    call,       \* call[c]: how far the call of c is
    request,    \* request[c]: what c has sent
    result      \* result[c]: *result once the call has returned SOAP_OK, or the
                \* string of the fault it has returned

vars == <<pc, conn, errno, response, backlog, call, request, result>>

Init ==
    /\ pc = "accept" /\ conn = Null /\ errno = "other" /\ response = <<>>
    /\ backlog = <<>>
    /\ call = [c \in Callers |-> "idle"]
    /\ request = [c \in Callers |-> Null]
    /\ result = [c \in Callers |-> Null]

-----------------------------------------------------------------------------
(* Callers *)

\* soap_connect succeeds, or the call has failed.
Connects(c) ==
    /\ call[c] = "idle"
    /\ IF pc = "stopped"
       THEN call' = [call EXCEPT ![c] = "failed"] /\ UNCHANGED backlog
       ELSE call' = [call EXCEPT ![c] = "calling"] /\ backlog' = Append(backlog, c)
    /\ UNCHANGED <<pc, conn, errno, response, request, result>>

\* All that the server reads of the request has come; until then it has nothing
\* or a part of it.
Sends(c, req) ==
    /\ call[c] = "calling"
    /\ call' = [call EXCEPT ![c] = "sent"]
    /\ request' = [request EXCEPT ![c] = req]
    /\ UNCHANGED <<pc, conn, errno, response, backlog, result>>

Call(c, op) ==
    \E x, y \in Numbers :
        Sends(c, [op |-> op, version |-> 1,
                  elements |-> PutRequest(x, y), independents |-> <<>>])

CallAdd(c) == Call(c, "add")
CallSub(c) == Call(c, "sub")
CallMul(c) == Call(c, "mul")
CallDiv(c) == Call(c, "div")
CallPow(c) == Call(c, "pow")

OtherRequest(c) == \E req \in Requests : Sends(c, req)

\* The caller goes away in the middle of its request, or without waiting for
\* its answer.
CallerLeaves(c) ==
    /\ \/ call[c] = "calling" /\ call' = [call EXCEPT ![c] = "cut"]
       \/ call[c] = "sent" /\ call' = [call EXCEPT ![c] = "gone"]
    /\ UNCHANGED <<pc, conn, errno, response, backlog, request, result>>

-----------------------------------------------------------------------------
(* The server *)

SoapAccept ==
    /\ pc = "accept" /\ backlog # <<>>
    /\ conn' = Head(backlog) /\ backlog' = Tail(backlog)
    /\ pc' = "begin"
    /\ UNCHANGED <<errno, response, call, request, result>>

\* The loop of main() also ends when soap_accept gives no valid socket.
AcceptFails ==
    /\ pc = "accept" /\ pc' = "error"
    /\ UNCHANGED <<conn, errno, response, backlog, call, request, result>>

HasLeft(c) == call[c] \in {"cut", "gone"}

\* soap_begin_serve: whatever the library calls, none of it sets EDOM.  Nobody
\* sets recv_timeout: it waits for as long as the caller takes.  (What the stub
\* reads of the request later it waits for here.)
SoapBeginServe ==
    /\ pc = "begin" /\ call[conn] \in {"sent", "gone"}
    /\ request[conn].op # "malformed"
    /\ pc' = "serve"
    /\ errno' \in {errno, "other"}
    /\ UNCHANGED <<conn, response, backlog, call, request, result>>

\* soap_send_fault, after which soap_serve returns the error it reports; the
\* caller reads it by soap_recv_fault.  The version is that of the request.
SendFault(string) ==
    /\ IF HasLeft(conn) THEN UNCHANGED <<call, result>>
       ELSE LET version == request[conn].version IN
            /\ call' = [call EXCEPT ![conn] = "fault"]
            /\ result' = [result EXCEPT ![conn] =
                              GetFault(version, PutFault(version, string))]
    /\ pc' = "error"
    /\ UNCHANGED <<conn, response, backlog, request>>

\* The request is no envelope, or its caller has gone before it was whole.
BeginServeFails ==
    /\ pc = "begin"
    /\ HasLeft(conn) \/ (call[conn] = "sent" /\ request[conn].op = "malformed")
    /\ SendFault(LibraryFault) /\ UNCHANGED errno

\* Mutant: an unknown method is taken for the last one of the chain.
ServeUnknownAsPow ==
    /\ pc = "serve" /\ request[conn].op = "unknown"
    /\ response' = PutResponse(<<"unknown", Zero, Zero>>) /\ pc' = "respond"
    /\ UNCHANGED <<conn, errno, backlog, call, request, result>>

\* soap_serve_request finds no method of that name.
ServeUnknown ==
    /\ pc = "serve" /\ request[conn].op = "unknown"
    /\ SendFault(LibraryFault) /\ UNCHANGED errno

Value(op, x, y) ==
    [fault |-> Null, value |-> <<op, x, y>>, errno |-> errno]

Add(x, y) == Value("add", x, y)
Sub(x, y) == Value("sub", x, y)
Mul(x, y) == Value("mul", x, y)

Div(x, y) == [Value("div", x, y) EXCEPT
                 !.fault = IF y = Zero THEN DivideByZero(x) ELSE Null]

\* pow() sets errno to EDOM for arguments it is not defined for and otherwise
\* need not touch it; the test that follows looks at errno alone.
Pow(x, y) ==
    LET after == IF <<x, y>> \in PowDomain THEN errno ELSE "EDOM"
    IN  [Value("pow", x, y) EXCEPT
            !.errno = after,
            !.fault = IF after = "EDOM" THEN PowerOf(x, y) ELSE Null]

Compute(op, x, y) ==
    CASE op = "add" -> Add(x, y) [] op = "sub" -> Sub(x, y)
      [] op = "mul" -> Mul(x, y) [] op = "div" -> Div(x, y)
      [] op = "pow" -> Pow(x, y)

\* What all stubs share: the request is read and its numbers handed to the
\* operation, which answers with a result or a fault, and with errno after it.
\* (The sets of one element have TLC read the request once.)
Serve(op) ==
    /\ pc = "serve" /\ request[conn].op = op
    /\ \E read \in {GetRequest(request[conn].version, request[conn].elements,
                             request[conn].independents)} :
       \/ read.error /\ SendFault(LibraryFault) /\ UNCHANGED errno
       \/ /\ ~read.error
          /\ \E done \in {Compute(op, read.field["a"], read.field["b"])} :
             /\ errno' = done.errno
             /\ IF done.fault # Null THEN SendFault(done.fault)
                ELSE /\ response' = PutResponse(done.value) /\ pc' = "respond"
                     /\ UNCHANGED <<conn, backlog, call, request, result>>

ServeAdd == Serve("add")
ServeSub == Serve("sub")
ServeMul == Serve("mul")
ServeDiv == Serve("div")
ServePow == Serve("pow")

\* soap_recv: the caller reads the answer; *result keeps its default of zero
\* when the answer has no result in it.
Returns(c, elements) ==
    LET read == GetResponse(elements) IN
    /\ call' = [call EXCEPT ![c] = IF read.error THEN "failed" ELSE "ok"]
    /\ result' = [result EXCEPT ![c] =
                    IF read.field["result"] = Null THEN Zero
                    ELSE read.field["result"]]

\* Mutant: the connection is kept for another request.
RespondKeepsAlive ==
    /\ pc = "respond"
    /\ IF HasLeft(conn) THEN UNCHANGED <<call, result>>
                        ELSE Returns(conn, response)
    /\ pc' = "begin" /\ response' = <<>>
    /\ UNCHANGED <<conn, errno, backlog, request>>

\* The answer is sent, the connection closed, and main() accepts again.
Respond ==
    /\ pc = "respond"
    /\ IF HasLeft(conn) THEN UNCHANGED <<call, result>>
                        ELSE Returns(conn, response)
    /\ pc' = "accept" /\ conn' = Null /\ response' = <<>>
    /\ UNCHANGED <<errno, backlog, request>>

RespondFails ==
    /\ pc = "respond" /\ HasLeft(conn)
    /\ pc' = "error" /\ response' = <<>>
    /\ UNCHANGED <<conn, errno, backlog, call, request, result>>

\* Mutant: main() reports the fault and goes on.
MainGoesOn ==
    /\ pc = "error"
    /\ pc' = "accept" /\ conn' = Null
    /\ UNCHANGED <<errno, response, backlog, call, request, result>>

\* soap_serve was not SOAP_OK: main() leaves its loop and the process ends,
\* with it the connections that wait to be accepted.
MainStops ==
    /\ pc = "error"
    /\ pc' = "stopped" /\ conn' = Null /\ backlog' = <<>>
    /\ call' = [c \in Callers |->
                   IF call[c] \in {"calling", "sent"} THEN "failed" ELSE call[c]]
    /\ UNCHANGED <<errno, response, request, result>>

-----------------------------------------------------------------------------
ServeRequest ==
    \/ ServeAdd \/ ServeSub \/ ServeMul \/ ServeDiv \/ ServePow
    \/ ServeUnknown

Server ==
    \/ SoapAccept \/ SoapBeginServe \/ BeginServeFails \/ ServeRequest
    \/ Respond \/ RespondFails \/ MainStops

Caller(c) ==
    \/ Connects(c) \/ CallAdd(c) \/ CallSub(c) \/ CallMul(c) \/ CallDiv(c) \/ CallPow(c)
    \/ OtherRequest(c) \/ CallerLeaves(c)

Next == Server \/ AcceptFails \/ \E c \in Callers : Caller(c)

Spec == Init /\ [][Next]_vars

\* The server is scheduled.  That is all: a caller may never call, and one that
\* has connected may never send the rest of its request.
FairSpec == Spec /\ WF_vars(Server)

-----------------------------------------------------------------------------
(* Properties *)

\* What may be sent, through soapClient.c and not.
AllRequests ==
    Requests \cup [op : Ops, version : {1},
                   elements : {PutRequest(x, y) : x, y \in Numbers},
                   independents : {<<>>}]

\* Every variable has its type; a result is one of the five operations on
\* numbers a caller has given.
TypeOK ==
    /\ pc \in {"accept", "begin", "serve", "respond", "error", "stopped"}
    /\ conn \in Callers \cup {Null}
    /\ errno \in {"EDOM", "other"}
    /\ response \in {<<>>} \cup {PutResponse(v) : v \in Results}
    /\ backlog \in Seq(Callers)
    /\ call \in [Callers -> {"idle", "calling", "cut", "sent", "gone",
                           "ok", "fault", "failed"}]
    /\ request \in [Callers -> AllRequests \cup {Null}]
    /\ result \in [Callers -> Results \cup FaultStrings \cup {Null}]

\* What a request has for t: the first element of that name, or zero.
Text(req, t) ==
    LET At == {i \in DOMAIN req.elements : req.elements[i].tag = t}
    IN  IF At = {} THEN Zero ELSE req.elements[Min(At)].text

Places(req, id) ==
    {i \in DOMAIN req.independents : req.version = 1 /\ req.independents[i].id = id}

\* What it is meant to say for t: that text, or what it refers to.
Meaning(req, t) ==
    LET At == Places(req, Text(req, t))
    IN  IF At = {} THEN Text(req, t) ELSE req.independents[Min(At)].text

\* What nothing refers to must still be what it says it is.
Referred(req, id) == \E t \in {"a", "b"} : Text(req, t) = id

\* What is wrong with the independent element in place i: what it is meant for
\* or says it is needs a number it has not; it is named by an href and says it
\* is something else; it must be understood and nobody asked for it; or its name
\* is that of an earlier one that counts.
Wrong(req, i) ==
    LET e == req.independents[i] IN
    \/ e.text = Garbage /\ (Referred(req, e.id) \/ e.kind = "double")
    \/ Referred(req, e.id) /\ e.kind = "string"
    \/ ~Referred(req, e.id) /\ e.kind = "refused"
    \/ \E j \in 1 .. i - 1 :
          /\ req.independents[j].id = e.id /\ e.id # Null
          /\ Referred(req, e.id) \/ req.independents[j].kind \in {"double", "string"}

\* What is wrong with a request that cannot be read: it is none, or a number is
\* not one, or refers to nothing, or what must be understood is not, or one of
\* the elements after it is wrong, where there may be any.
Unreadable(req) ==
    \/ req.op \in {"unknown", "malformed"}
    \/ \E i \in DOMAIN req.elements : req.elements[i].tag = "refused"
    \/ \E t \in {"a", "b"} : Meaning(req, t) \notin Numbers
    \/ req.version = 1 /\ \E i \in DOMAIN req.independents : Wrong(req, i)

\* The result of the request's own operation on its own numbers.
Answers(req, value) ==
    LET x == Meaning(req, "a")
        y == Meaning(req, "b")
    IN  /\ ~Unreadable(req)
        /\ value = <<req.op, x, y>>
        /\ req.op = "div" => y # Zero
        /\ req.op = "pow" => <<x, y>> \in PowDomain

\* A call that returns SOAP_OK has the result of its own operation on its own
\* numbers, through the encoding and decoding on both sides and whatever was
\* served on other connections before: not those of another caller, not in
\* the other order, not a later element of the same name, not what another
\* href refers to.
AnswerIsOwn == \A c \in Callers : call[c] = "ok" => Answers(request[c], result[c])

\* A fault the request deserves, with the numbers of that request in it.
Deserved(req, string) ==
    LET x == Meaning(req, "a")
        y == Meaning(req, "b")
    IN  \/ Unreadable(req) /\ string = LibraryFault
        \/ req.op = "div" /\ y = Zero /\ string = DivideByZero(x)
        \/ req.op = "pow" /\ <<x, y>> \notin PowDomain /\ string = PowerOf(x, y)

\* A fault is the answer to a request that deserves it.  ns2__pow tests errno
\* without clearing it, and errno outlives a request; what keeps a caller from
\* a fault another has caused is that main() stops after the first.
FaultIsDeserved ==
    \A c \in Callers : call[c] = "fault" => Deserved(request[c], result[c])

\* Who has connected sends the rest of its request, or leaves.
CallersProceed == \A c \in Callers : call[c] = "calling" ~> call[c] # "calling"

\* As long as no caller keeps the server waiting in the middle of a request, for
\* which the code sets no limit, a request that has been sent comes to an end:
\* with a result, with a fault, or because the connection has ended with the
\* server, which the first fault stops.
CallReturns ==
    CallersProceed => \A c \in Callers : call[c] = "sent" ~> call[c] # "sent"

-----------------------------------------------------------------------------
(* What makes the invariants inductive *)

\* Who is served or waits has called, and who can have an answer has sent a
\* request.
Connected ==
    /\ pc \in {"begin", "serve", "respond"} => conn \in Callers /\ call[conn] # "idle"
    /\ pc \in {"serve", "respond"} => call[conn] \in {"sent", "gone"}
    /\ \A i \in DOMAIN backlog : call[backlog[i]] # "idle"
    /\ \A c \in Callers :
          call[c] \in {"sent", "gone", "ok", "fault"} => request[c] \in AllRequests

\* While requests are served, errno is not what a pow() outside its domain has
\* left: ns2__pow tests it without clearing it, but main() stops after a fault.
NothingIsStale == pc \notin {"error", "stopped"} => errno # "EDOM"

\* What is about to be sent is the answer to the request it is sent for.
ResponseIsOwn ==
    pc = "respond" => \E value \in Results :
        response = PutResponse(value) /\ Answers(request[conn], value)

CalcInv ==
    /\ TypeOK /\ Connected /\ NothingIsStale /\ ResponseIsOwn
    /\ AnswerIsOwn /\ FaultIsDeserved
=============================================================================
