-------------------------- MODULE ConnectionService --------------------------
(***************************************************************************)
(* What a server of ausftp promises to the clients that connect to it, for  *)
(* either build.  While it is open clients queue, and are accepted in the   *)
(* order they have come in.  A connection that has been accepted stays open  *)
(* exactly as long as some process of the server is serving it.  When the   *)
(* server stops, whoever is still queued is turned away and nobody is       *)
(* accepted any more; the sessions under way may go on.                     *)
(***************************************************************************)
EXTENDS Sequences

CONSTANT Clients    \* each connects at most once

VARIABLES
    open,       \* the server takes connections
    queue,      \* the clients that wait to be accepted, the first one first
    client,     \* client[c]: what c sees of its connection
    served      \* the clients some process has a session for

vars == <<open, queue, client, served>>

Init ==
    /\ open = TRUE
    /\ queue = <<>>
    /\ client = [c \in Clients |-> "away"]
    /\ served = {}

Connects(c) ==
    /\ open /\ client[c] = "away"
    /\ client' = [client EXCEPT ![c] = "queued"]
    /\ queue' = Append(queue, c)
    /\ UNCHANGED <<open, served>>

Accepts ==
    /\ open /\ queue # <<>>
    /\ client' = [client EXCEPT ![Head(queue)] = "accepted"]
    /\ served' = served \cup {Head(queue)}
    /\ queue' = Tail(queue)
    /\ UNCHANGED open

\* Sessions end, each with its connection.
Ends(S) ==
    /\ served' = served \ S
    /\ client' = [c \in Clients |-> IF c \in S THEN "closed" ELSE client[c]]
    /\ UNCHANGED <<open, queue>>

\* The server stops; sessions may end in the same step.
Stops(S) ==
    /\ open /\ open' = FALSE
    /\ queue' = <<>>
    /\ served' = served \ S
    /\ client' = [c \in Clients |->
                    IF c \in S \/ client[c] = "queued" THEN "closed" ELSE client[c]]

Next ==
    \/ \E c \in Clients : Connects(c)
    \/ Accepts
    \/ \E S \in SUBSET served : Ends(S) \/ Stops(S)

Spec == Init /\ [][Next]_vars
=============================================================================
