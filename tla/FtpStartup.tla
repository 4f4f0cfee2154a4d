----------------------------- MODULE FtpStartup -----------------------------
(***************************************************************************)
(* The start of the server, up to its first accept: argp hands the words of *)
(* the command line to parse_opt, and server_init makes the socket it       *)
(* listens on.  The two builds share this code.                             *)
(*                                                                          *)
(* A word is a text; what atoi and strncpy make of it is given by two       *)
(* constants.  The addresses of the host may change while the server starts.*)
(***************************************************************************)
EXTENDS Integers, SequencesExt

CONSTANTS
    Texts,          \* what may stand for PORT or ADDRESS
    ATOI,           \* ATOI[t]: the int atoi makes of t
    STRNCPY,        \* STRNCPY[t]: the first 15 characters of t
    LOCALHOST,      \* the address of config.h
    Interfaces,     \* texts that are an address of the host, now and then
    MaxWords        \* words on the command line (bound)

ASSUME TextAssumption ==
    /\ ATOI \in [Texts -> Int] /\ STRNCPY \in [Texts -> Texts]
    /\ LOCALHOST \in Texts /\ Interfaces \subseteq Texts
    /\ STRNCPY[LOCALHOST] = LOCALHOST
    /\ MaxWords \in Nat

FTP_PORT            == 21
IPPORT_RESERVED     == 1024
IPPORT_USERRESERVED == 5000

\* -p TEXT, -a TEXT, TEXT by itself, and any other option.
Words == [key : {"p", "a", "ARG"}, text : Texts] \cup {[key |-> "?"]}

VARIABLES
    argv,           \* the command line
    root,           \* geteuid() is 0
    rest,           \* what argp has not handed over yet
    arg_num,        \* texts by themselves handed over
    args,           \* struct arguments
    pc,             \* where the process is
    listen_socket,  \* what has become of the socket
    reuse,          \* the options it has: SO_REUSEADDR, SO_REUSEPORT
    held,           \* who holds the port, as bind finds it
    report,         \* the call of server_init whose failure it reported
    local           \* addresses the host has at this moment

vars == <<argv, root, rest, arg_num, args, pc, listen_socket, reuse, held, report, local>>

command == <<argv, root>>
parsing == <<rest, arg_num, args>>
socket  == <<listen_socket, reuse, held, report>>

\* A port is free, or connections of a server that was killed remain on it, or a
\* server of the same user listens on it, or a program that does not share it.
Holders == {"nobody", "remains", "server", "other"}

\* argp takes the options first, wherever they stand.  An order gives for each
\* turn the place of the word that is handed over in it.
Orders(words) ==
    LET Plain(i)     == words[i].key = "ARG"
        Before(i, j) == IF Plain(i) <=> Plain(j) THEN i < j ELSE Plain(j)
    IN  {order \in Surjection(DOMAIN words, DOMAIN words) :
            \A i, j \in DOMAIN words : i < j => Before(order[i], order[j])}

Permuted(words) ==
    {[i \in DOMAIN words |-> words[order[i]]] : order \in Orders(words)}

Init ==
    /\ argv \in SeqOf(Words, MaxWords) /\ root \in BOOLEAN
    /\ rest \in Permuted(argv) /\ arg_num = 0
    /\ args = [port |-> FTP_PORT, port_set |-> FALSE,
               address |-> STRNCPY[LOCALHOST], address_set |-> FALSE]
    /\ pc = "parse"
    /\ listen_socket = "none" /\ reuse = {} /\ held = "nobody" /\ report = "none"
    /\ local = Interfaces

-----------------------------------------------------------------------------
(* parse_opt *)

Exits == pc' = "usage" /\ UNCHANGED <<command, parsing, socket, local>>

SetPort(text)    == args' = [args EXCEPT !.port = ATOI[text], !.port_set = TRUE]
SetAddress(text) == args' = [args EXCEPT !.address = STRNCPY[text],
                                         !.address_set = TRUE]

Hands(key) == pc = "parse" /\ rest # <<>> /\ rest[1].key = key

Taken ==
    /\ rest' = Tail(rest)
    /\ UNCHANGED <<command, pc, socket, local>>

\* Mutant: the first -p counts, not the last.
OptPortOnce ==
    /\ Hands("p") /\ Taken /\ UNCHANGED arg_num
    /\ IF args.port_set THEN UNCHANGED args ELSE SetPort(rest[1].text)

OptPort == Hands("p") /\ SetPort(rest[1].text) /\ Taken /\ UNCHANGED arg_num

OptAddress == Hands("a") /\ SetAddress(rest[1].text) /\ Taken /\ UNCHANGED arg_num

\* argp does not know the option.
OptUnknown == Hands("?") /\ Exits

ArgPort ==
    /\ Hands("ARG") /\ arg_num = 0 /\ ~args.port_set
    /\ SetPort(rest[1].text)
    /\ Taken /\ arg_num' = arg_num + 1

ArgAddress ==
    /\ Hands("ARG") /\ arg_num = 1 /\ ~args.address_set
    /\ SetAddress(rest[1].text)
    /\ Taken /\ arg_num' = arg_num + 1

\* Mutant: what is too many is ignored.
TooManyArgsIgnored ==
    /\ Hands("ARG")
    /\ ~ (arg_num = 0 /\ ~args.port_set)
    /\ ~ (arg_num = 1 /\ ~args.address_set)
    /\ Taken /\ arg_num' = arg_num + 1 /\ UNCHANGED args

\* A PORT or an ADDRESS that is there already, or a third text.
TooManyArgs ==
    /\ Hands("ARG")
    /\ ~ (arg_num = 0 /\ ~args.port_set)
    /\ ~ (arg_num = 1 /\ ~args.address_set)
    /\ Exits

PortAllowed(port) ==
    IF port = FTP_PORT THEN root
    ELSE port \in IPPORT_RESERVED .. IPPORT_USERRESERVED

\* ARGP_KEY_END: the port and the address are allowed.
EndAccepts ==
    /\ pc = "parse" /\ rest = <<>>
    /\ PortAllowed(args.port) /\ args.address \in local
    /\ pc' = "socket"
    /\ UNCHANGED <<command, parsing, socket, local>>

\* They are not.
EndRefuses ==
    /\ pc = "parse" /\ rest = <<>>
    /\ ~ (PortAllowed(args.port) /\ args.address \in local)
    /\ pc' = "refused"
    /\ UNCHANGED <<command, parsing, socket, local>>

\* getifaddrs fails: no address is local.
EndFails ==
    /\ pc = "parse" /\ rest = <<>>
    /\ pc' = "refused"
    /\ UNCHANGED <<command, parsing, socket, local>>

-----------------------------------------------------------------------------
(* server_init *)

Step(here, next) ==
    /\ pc = here /\ pc' = next
    /\ UNCHANGED <<command, parsing, report, local>>

\* An early return: it says which call failed, and main exits.
Fails(call) ==
    /\ pc = call /\ pc' = "failed" /\ report' = call
    /\ UNCHANGED <<command, parsing, local>>

\* close(listen_socket), which each early return but the first has of its own.
CloseSocket == listen_socket' = "closed"

Socket ==
    /\ Step("socket", "reuseaddr")
    /\ listen_socket' = "open" /\ UNCHANGED <<reuse, held>>

SocketFails == Fails("socket") /\ UNCHANGED <<listen_socket, reuse, held>>

SetOption(option) == reuse' = reuse \cup {option} /\ UNCHANGED <<listen_socket, held>>

ReuseAddr == Step("reuseaddr", "reuseport") /\ SetOption("SO_REUSEADDR")

ReuseAddrFails == Fails("reuseaddr") /\ CloseSocket /\ UNCHANGED <<reuse, held>>

\* Mutant: SO_REUSEADDR twice.
ReusePortAsAddr == Step("reuseport", "bind") /\ SetOption("SO_REUSEADDR")

ReusePort == Step("reuseport", "bind") /\ SetOption("SO_REUSEPORT")

ReusePortFails == Fails("reuseport") /\ CloseSocket /\ UNCHANGED <<reuse, held>>

\* What the kernel asks of a socket that is to be bound.
Bindable(holder) ==
    /\ args.address \in local
    /\ \/ holder = "nobody"
       \/ holder = "remains" /\ reuse # {}
       \/ holder = "server" /\ "SO_REUSEPORT" \in reuse

\* inet_pton comes first; it refuses no text that was found among those
\* inet_ntop made of the interfaces, so the return after it is never taken.
Bind ==
    /\ Step("bind", "listen")
    /\ held' \in {holder \in Holders : Bindable(holder)}
    /\ listen_socket' = "bound" /\ UNCHANGED reuse

\* Mutant: this return forgets the socket.
BindFailsOpen ==
    /\ Fails("bind") /\ UNCHANGED <<listen_socket, reuse>>
    /\ held' \in {holder \in Holders : ~Bindable(holder)}

BindFails ==
    /\ Fails("bind") /\ CloseSocket /\ UNCHANGED reuse
    /\ held' \in {holder \in Holders : ~Bindable(holder)}

Listen ==
    /\ Step("listen", "accept")
    /\ listen_socket' = "listening" /\ UNCHANGED <<reuse, held>>

ListenFails == Fails("listen") /\ CloseSocket /\ UNCHANGED <<reuse, held>>

-----------------------------------------------------------------------------
\* The host gets an address or loses one.
AddressesChange ==
    /\ pc \notin {"accept", "failed", "refused", "usage"}
    /\ \E a \in Interfaces :
        local' = IF a \in local THEN local \ {a} ELSE local \cup {a}
    /\ UNCHANGED <<command, parsing, pc, socket>>

Parse ==
    \/ OptPort \/ OptAddress \/ OptUnknown \/ ArgPort \/ ArgAddress \/ TooManyArgs
    \/ EndAccepts \/ EndRefuses \/ EndFails

ServerInit ==
    \/ Socket \/ ReuseAddr \/ ReusePort \/ Bind \/ Listen
    \/ SocketFails \/ ReuseAddrFails \/ ReusePortFails \/ BindFails \/ ListenFails

Next == Parse \/ ServerInit \/ AddressesChange

Spec == Init /\ [][Next]_vars

-----------------------------------------------------------------------------
(* What the command line means, taken as a whole *)

\* Where the words with this key stand.
Given(key) == {i \in DOMAIN argv : argv[i].key = key}

Positions == Given("ARG")

\* PORT is the last -p, else the first text by itself, else 21.
PortAsked ==
    IF Given("p") # {} THEN ATOI[argv[Max(Given("p"))].text]
    ELSE IF Positions # {} THEN ATOI[argv[Min(Positions)].text]
    ELSE FTP_PORT

\* ADDRESS is the last -a, else the text after the first, else 127.0.0.1.
AddressAsked ==
    IF Given("a") # {} THEN STRNCPY[argv[Max(Given("a"))].text]
    ELSE IF Cardinality(Positions) > 1
    THEN STRNCPY[argv[Min(Positions \ {Min(Positions)})].text]
    ELSE LOCALHOST

\* A command line that gives one thing twice, or what the server does not know.
Misused ==
    \/ Given("?") # {}
    \/ Positions # {} /\ Given("p") # {}
    \/ Cardinality(Positions) > 1 /\ Given("a") # {}
    \/ Cardinality(Positions) > 2

-----------------------------------------------------------------------------
(* Properties *)

\* Every variable has its type.
TypeOK ==
    /\ argv \in Seq(Words) /\ rest \in Seq(Words) /\ root \in BOOLEAN
    /\ arg_num \in 0 .. 2
    /\ args \in [port : Int, port_set : BOOLEAN, address : Texts,
                 address_set : BOOLEAN]
    /\ pc \in {"parse", "socket", "reuseaddr", "reuseport", "bind", "listen",
               "accept", "failed", "refused", "usage"}
    /\ listen_socket \in {"none", "open", "bound", "listening", "closed"}
    /\ reuse \subseteq {"SO_REUSEADDR", "SO_REUSEPORT"} /\ held \in Holders
    /\ report \in {"none", "socket", "reuseaddr", "reuseport", "bind", "listen"}
    /\ local \subseteq Interfaces

\* The server listens where its command line asks, wherever the options stand
\* in it, and only on a port its user may have: 21 as root, or 1024 to 5000.
\* The usage message answers a command line that was misused, and no other.
CommandLineObeyed ==
    /\ listen_socket \in {"bound", "listening"} =>
         /\ args.port = PortAsked /\ args.address = AddressAsked
         /\ PortAllowed(PortAsked)
    /\ pc = "usage" => Misused
    /\ pc \in {"refused", "socket", "accept"} => ~Misused

\* A server that does not start leaves no socket behind, at whichever call
\* server_init failed, and it is never a server before it that keeps it from its
\* port, neither one that was killed ("avoid problem to reuse socket after force
\* quitting the server", server.c:28) nor one that still runs: bind refuses an
\* address that went away since it was checked, or a port another program has.
\* When server_init returns a socket, that socket listens.
InitAllOrNothing ==
    /\ pc \in {"failed", "refused", "usage"} => listen_socket \in {"none", "closed"}
    /\ pc = "failed" /\ report = "bind" => args.address \notin local \/ held = "other"
    /\ pc = "accept" => listen_socket = "listening"

-----------------------------------------------------------------------------
(* What makes the invariants inductive *)

\* How many words have been handed over.
Handed == Len(argv) - Len(rest)

\* Of the words in the order they are handed over, the turns of those with this
\* key that have been.
Turns(words, key) == {i \in 1 .. Handed : words[i].key = key}

\* rest is what has not been handed over; the texts by themselves are the last
\* words that have, as many as arg_num says; none is an option nobody knows.
HandedInOrder(words) ==
    /\ Handed \in Nat /\ \A i \in DOMAIN rest : rest[i] = words[Handed + i]
    /\ arg_num <= Handed
    /\ Turns(words, "ARG") = Handed - arg_num + 1 .. Handed
    /\ Turns(words, "?") = {}

\* The port is the default, or that of the last -p, or that of the first text.
PortSoFar(words) ==
    LET given == Turns(words, "p") IN
    /\ args.port_set <=> given # {} \/ arg_num > 0
    /\ given = {} \/ arg_num = 0
    /\ ~args.port_set => args.port = FTP_PORT
    /\ given # {} => \E last \in given : /\ \A i \in given : i <= last
                                         /\ args.port = ATOI[words[last].text]
    /\ arg_num > 0 => args.port = ATOI[words[Handed - arg_num + 1].text]

\* And so the address, with -a and the second text.
AddressSoFar(words) ==
    LET given == Turns(words, "a") IN
    /\ args.address_set <=> given # {} \/ arg_num > 1
    /\ given = {} \/ arg_num < 2
    /\ ~args.address_set => args.address = LOCALHOST
    /\ given # {} => \E last \in given : /\ \A i \in given : i <= last
                                         /\ args.address = STRNCPY[words[last].text]
    /\ arg_num > 1 => args.address = STRNCPY[words[Handed].text]

ParsedSoFar ==
    \E words \in Permuted(argv) :
        HandedInOrder(words) /\ PortSoFar(words) /\ AddressSoFar(words)

\* Once the words are accepted or refused, they have all been handed over; what
\* is bound is what was asked for.
ByProgress ==
    /\ pc \notin {"parse", "usage"} => rest = <<>>
    /\ pc = "usage" => Misused
    /\ pc \in {"socket", "reuseaddr", "reuseport", "bind", "listen", "accept", "failed"}
          => PortAllowed(args.port)
    /\ pc \in {"parse", "socket", "refused", "usage"} => listen_socket = "none"
    /\ pc \in {"reuseaddr", "reuseport", "bind"} => listen_socket = "open"
    /\ pc \in {"parse", "socket", "reuseaddr"} => reuse = {}
    /\ pc = "reuseport" => reuse = {"SO_REUSEADDR"}
    /\ pc = "bind" => reuse = {"SO_REUSEADDR", "SO_REUSEPORT"}
    /\ pc = "failed" /\ report = "bind" => args.address \notin local \/ held = "other"
    /\ pc = "listen" => listen_socket = "bound"
    /\ pc = "accept" => listen_socket = "listening"
    /\ pc = "failed" => listen_socket \in {"none", "closed"}
=============================================================================
