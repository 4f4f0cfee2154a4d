----------------------------- MODULE FtpSession -----------------------------
(***************************************************************************)
(* One process of ausftp: the accept loop of iterative/main.c, server_loop, *)
(* welcome, getexe_command and the nine command handlers, over the          *)
(* descriptor table the kernel keeps for the process and the directory it   *)
(* serves.  In the concurrent build each child runs the part from           *)
(* session_init on.                                                         *)
(*                                                                          *)
(* A handler that only looks at the session and answers is one action.      *)
(* RETR and STOR are one action per system call, because each call can fail *)
(* and each failure has its own way out.                                    *)
(***************************************************************************)
EXTENDS Integers, Sequences, FiniteSets

CONSTANTS
    Users,      \* arguments of USER
    Passwords,  \* arguments of PASS
    Stored,     \* Stored[u]: what the 63 characters kept of u amount to
    Accounts,   \* the lines of the ftpusers file, as <<user, password>>
    HostTexts,  \* the first four numbers of a PORT argument
    Hosts,      \* IPv4 addresses
    AnyHost,    \* 0.0.0.0, the address of a zeroed sockaddr_in
    BadHost,    \* no address: inet_pton refuses the text
    AddressOf,  \* AddressOf[t]: what inet_pton makes of the 15 characters of t
                \* that snprintf leaves in ip_str
    PortPairs,  \* last two numbers of a PORT argument, as <<p1, p2>>
    Names,      \* file names RETR and STOR can give
    Blocks,     \* what one read, write, send or recv moves
    Uploads,    \* contents a client may want to store
    MaxFd,      \* descriptors the process may have open
    Empty,      \* the empty argument, and the cleared user name
    Malformed,  \* a PORT argument that is too short or does not scan
    NoPort,     \* no PORT has been answered 200
    NoLine,     \* no command is waiting in the control connection
    Missing     \* the file does not exist

ASSUME NamesAssumption ==
    /\ Stored \in [Users -> Users]
    /\ Accounts \subseteq Users \X Passwords
    /\ Empty \notin Users \cup Passwords \cup Names
    /\ AnyHost \in Hosts /\ BadHost \notin Hosts
    /\ AddressOf \in [HostTexts -> Hosts \cup {BadHost}]

ASSUME NumbersAssumption ==
    /\ MaxFd \in Nat \ {0}
    /\ PortPairs \subseteq Int \X Int

ASSUME FilesAssumption ==
    /\ Uploads \subseteq Seq(Blocks)
    /\ Missing \notin Seq(Blocks)

VARIABLES
    pc,             \* where the process is
    control_sock,   \* sess.control_sock
    data_sock,      \* sess.data_sock
    logged_in,      \* sess.logged_in
    current_user,   \* sess.current_user
    data_addr,      \* sess.data_addr
    fdtab,          \* what each descriptor of the process refers to
    file_fd,        \* local of handle_RETR and handle_STOR
    xfer_sock,      \* the local data_sock of handle_RETR and handle_STOR
    xfer,           \* the transfer in progress
    files,          \* the served directory
    peer,           \* the client's end of the control connection
    line,           \* the command waiting in the control connection
    replies,        \* reply codes sent for the last command, in order
    auth,           \* history: the user whose password was last accepted
    accepted        \* history: the argument of the last PORT answered 200

sess    == <<control_sock, data_sock, logged_in, current_user, data_addr>>
locals  == <<file_fd, xfer_sock, xfer>>
history == <<auth, accepted>>
vars    == <<pc, sess, fdtab, locals, files, peer, line, replies, history>>

-----------------------------------------------------------------------------
(* Descriptors *)

Fd       == 0 .. (MaxFd - 1)
Kinds    == {"free", "listener", "control", "file", "data"}
NoFd     == -1
MasterFd == 0           \* the listening socket main() holds
InUse    == {f \in Fd : fdtab[f] # "free"}

\* The kernel hands out the lowest free descriptor.
IsLowestFree(f) == /\ fdtab[f] = "free"
                   /\ \A g \in Fd : g < f => fdtab[g] # "free"

\* close() of a descriptor that is not open, -1 included, changes nothing.
Closed(tab, f) == IF f \in Fd THEN [tab EXCEPT ![f] = "free"] ELSE tab

(* Data *)

Ports   == 0 .. 65535
Address == [host : Hosts, port : Ports]
ZeroAddress == [host |-> AnyHost, port |-> 0]

\* Mutant: the sum is not cut to sixteen bits.
WidePortOf(pair) == pair[1] * 256 + pair[2]

\* htons(p1 * 256 + p2): the sum is cut to sixteen bits.
PortOf(pair) == (pair[1] * 256 + pair[2]) % 65536

PortArgs == [host : HostTexts, pair : PortPairs]

\* The address of the data connection that a PORT argument names.
AddressNamed(named) == [host |-> AddressOf[named.host], port |-> PortOf(named.pair)]

Transfer == [name : Names \cup {Empty}, want : Seq(Blocks), pos : Nat,
             got : Seq(Blocks), clean : BOOLEAN]
NoTransfer == [name |-> Empty, want |-> <<>>, pos |-> 0, got |-> <<>>,
               clean |-> TRUE]

(* The uncoded line "Type set to binary." that TYPE sends before its 200. *)
Text  == 0
Codes == {Text, 150, 200, 215, 220, 221, 226, 230, 331, 425,
          500, 501, 502, 503, 504, 530, 550}

Lines ==
    [verb : {"USER"}, arg : Users \cup {Empty}]
        \cup [verb : {"PASS"}, arg : Passwords \cup {Empty}]
        \cup [verb : {"PORT"}, arg : PortArgs \cup {Malformed}]
        \cup [verb : {"RETR", "STOR"}, arg : Names \cup {Empty}]
        \cup [verb : {"TYPE"}, arg : {"I", "A"} \cup {Empty}]
        \cup [verb : {"QUIT", "SYST", "NOOP", "unknown", "blank"},
              arg : {Empty}]

ASSUME LinesAssumption == NoLine \notin Lines /\ NoPort \notin PortArgs

Transferring == {"retr_open", "retr_socket", "retr_connect", "retr_150",
                 "retr_loop", "retr_end", "stor_socket", "stor_connect",
                 "stor_open", "stor_150", "stor_loop", "stor_end"}
Labels == {"accept", "welcome", "recv", "cleanup", "killed"} \cup Transferring

-----------------------------------------------------------------------------
Init ==
    /\ pc = "accept"
    /\ control_sock = NoFd /\ data_sock = NoFd
    /\ logged_in = FALSE /\ current_user = Empty
    /\ data_addr = ZeroAddress
    /\ fdtab = [f \in Fd |-> IF f = MasterFd THEN "listener" ELSE "free"]
    /\ file_fd = NoFd /\ xfer_sock = NoFd /\ xfer = NoTransfer
    /\ files \in [Names -> {Missing} \cup Uploads]
    /\ peer = "none" /\ line = NoLine /\ replies = <<>>
    /\ auth = Empty /\ accepted = NoPort

(* Accepting a connection *)

\* Mutant: the address of the last PORT survives into the next session.
SessionInitKeepsAddress(fd) ==
    /\ control_sock' = fd /\ data_sock' = NoFd
    /\ logged_in' = FALSE /\ current_user' = Empty
    /\ auth' = Empty /\ accepted' = NoPort
    /\ UNCHANGED data_addr

SessionInit(fd) ==
    /\ control_sock' = fd /\ data_sock' = NoFd
    /\ logged_in' = FALSE /\ current_user' = Empty
    /\ data_addr' = ZeroAddress
    /\ auth' = Empty /\ accepted' = NoPort

\* accept() returns a connection; server_loop starts on it.
Accept ==
    /\ pc = "accept"
    /\ \E f \in Fd :
        /\ IsLowestFree(f)
        /\ fdtab' = [fdtab EXCEPT ![f] = "control"]
        /\ SessionInit(f)
    /\ pc' = "welcome" /\ peer' = "open" /\ replies' = <<>>
    /\ UNCHANGED <<locals, files, line>>

\* accept() fails; main() reports it and runs server_loop(-1) all the same.
AcceptFails ==
    /\ pc = "accept"
    /\ SessionInit(NoFd)
    /\ pc' = "welcome" /\ replies' = <<>>
    /\ UNCHANGED <<fdtab, locals, files, peer, line>>

Welcome ==
    /\ pc = "welcome" /\ control_sock # NoFd
    /\ peer \in {"open", "closed"}
    /\ pc' = "recv" /\ replies' = <<220>>
    /\ UNCHANGED <<sess, fdtab, locals, files, peer, line, history>>

\* The greeting is not written: server_loop returns without session_cleanup,
\* so sess keeps the number of the descriptor that has just been closed.
WelcomeFails ==
    /\ pc = "welcome"
    /\ control_sock = NoFd \/ peer = "reset"
    /\ pc' = "accept" /\ peer' = "none"
    /\ fdtab' = Closed(fdtab, control_sock)
    /\ line' = NoLine
    /\ UNCHANGED <<sess, locals, files, replies, history>>

-----------------------------------------------------------------------------
(* The control connection, getexe_command *)

\* recv() fails: the socket is closed but its number stays in the session.
RecvFails ==
    /\ pc = "recv" /\ line = NoLine /\ peer = "reset"
    /\ fdtab' = Closed(fdtab, control_sock)
    /\ pc' = "cleanup"
    /\ UNCHANGED <<sess, locals, files, peer, line, replies, history>>

\* Mutant: getexe_command returns 0 at the end of the connection.
RecvEofKeepsGoing ==
    /\ pc = "recv" /\ line = NoLine /\ peer \in {"closed", "reset"}
    /\ current_user' = Empty
    /\ fdtab' = Closed(fdtab, control_sock)
    /\ control_sock' = NoFd
    /\ UNCHANGED <<pc, data_sock, logged_in, data_addr, locals, files, peer,
                   line, replies, history>>

\* recv() returns 0.
RecvEof ==
    /\ pc = "recv" /\ line = NoLine /\ peer \in {"closed", "reset"}
    /\ current_user' = Empty
    /\ fdtab' = Closed(fdtab, control_sock)
    /\ control_sock' = NoFd
    /\ pc' = "cleanup"
    /\ UNCHANGED <<data_sock, logged_in, data_addr, locals, files, peer, line,
                   replies, history>>

SessionCleanup ==
    /\ pc = "cleanup"
    /\ fdtab' = Closed(Closed(fdtab, control_sock), data_sock)
    /\ control_sock' = NoFd /\ data_sock' = NoFd
    /\ logged_in' = FALSE /\ current_user' = Empty
    /\ pc' = "accept" /\ peer' = "none" /\ line' = NoLine
    /\ UNCHANGED <<data_addr, locals, files, replies, history>>

\* getexe_command has read a line and found its verb in ftp_commands.
Executes(verb) == pc = "recv" /\ line # NoLine /\ line.verb = verb

\* The handler sends these codes and getexe_command goes back to recv().
Answers(codes) ==
    /\ replies' = replies \o codes
    /\ line' = NoLine /\ pc' = "recv"
    /\ UNCHANGED <<fdtab, locals, files, peer>>

SessionUnchanged == UNCHANGED <<sess, history>>

UnknownCommand ==
    \/ Executes("unknown") /\ Answers(<<502>>) /\ SessionUnchanged
    \/ Executes("blank") /\ Answers(<<500>>) /\ SessionUnchanged

-----------------------------------------------------------------------------
(* Handlers that only touch the session *)

HandleUSER ==
    /\ Executes("USER")
    /\ \/ /\ line.arg = Empty
          /\ Answers(<<501>>) /\ UNCHANGED current_user
       \/ /\ line.arg # Empty
          /\ current_user' = Stored[line.arg]
          /\ Answers(<<331>>)
    /\ UNCHANGED <<control_sock, data_sock, logged_in, data_addr, history>>

\* Mutant: found starts at 0, so a user file that cannot be opened accepts all.
CheckCredentialsFoundAtFirst(user, pass) == {-1, 0}

\* check_credentials answers -1 for a pair that is not in the file, and for
\* any pair when the file cannot be opened.
CheckCredentials(user, pass) ==
    {-1} \cup (IF <<user, pass>> \in Accounts THEN {0} ELSE {})

\* Mutant: a refused password does not end the earlier login.
HandlePASSKeepsLogin ==
    /\ Executes("PASS")
    /\ \/ /\ current_user # Empty /\ <<current_user, line.arg>> \in Accounts
          /\ logged_in' = TRUE /\ auth' = current_user
          /\ Answers(<<230>>) /\ UNCHANGED current_user
       \/ /\ current_user # Empty /\ line.arg # Empty
          /\ current_user' = Empty
          /\ Answers(<<530>>) /\ UNCHANGED <<logged_in, auth>>
    /\ UNCHANGED <<control_sock, data_sock, data_addr, accepted>>

HandlePASS ==
    /\ Executes("PASS")
    /\ \/ /\ current_user = Empty
          /\ Answers(<<503>>) /\ SessionUnchanged
       \/ /\ current_user # Empty /\ line.arg = Empty
          /\ Answers(<<501>>) /\ SessionUnchanged
       \/ /\ current_user # Empty /\ line.arg # Empty
          /\ \E found \in CheckCredentials(current_user, line.arg) :
               \/ /\ found = 0
                  /\ logged_in' = TRUE /\ auth' = current_user
                  /\ Answers(<<230>>) /\ UNCHANGED current_user
               \/ /\ found # 0
                  /\ logged_in' = FALSE /\ current_user' = Empty
                  /\ Answers(<<530>>) /\ UNCHANGED auth
          /\ UNCHANGED <<control_sock, data_sock, data_addr, accepted>>

\* getexe_command returns -1 because the handler has set control_sock to -1.
HandleQUIT ==
    /\ Executes("QUIT")
    /\ replies' = replies \o <<221>>
    /\ current_user' = Empty
    /\ fdtab' = Closed(fdtab, control_sock)
    /\ control_sock' = NoFd
    /\ line' = NoLine /\ pc' = "cleanup"
    /\ UNCHANGED <<data_sock, logged_in, data_addr, locals, files, peer,
                   history>>

HandleSYST == Executes("SYST") /\ Answers(<<215>>) /\ SessionUnchanged
HandleNOOP == Executes("NOOP") /\ Answers(<<200>>) /\ SessionUnchanged

HandleTYPE ==
    /\ Executes("TYPE")
    /\ \/ ~logged_in /\ Answers(<<530>>)
       \/ logged_in /\ line.arg = "A" /\ Answers(<<504>>)
       \/ logged_in /\ line.arg # "A" /\ Answers(<<Text, 200>>)
    /\ SessionUnchanged

\* The port is stored before inet_pton has accepted the address.
HandlePORT ==
    /\ Executes("PORT")
    /\ \/ ~logged_in /\ Answers(<<530>>) /\ SessionUnchanged
       \/ logged_in /\ line.arg = Malformed /\ Answers(<<501>>)
            /\ SessionUnchanged
       \/ /\ logged_in /\ line.arg # Malformed
          /\ \/ /\ AddressOf[line.arg.host] = BadHost
                /\ data_addr' = [data_addr EXCEPT !.port = PortOf(line.arg.pair)]
                /\ Answers(<<501>>) /\ UNCHANGED accepted
             \/ /\ AddressOf[line.arg.host] # BadHost
                /\ data_addr' = AddressNamed(line.arg)
                /\ accepted' = line.arg
                /\ Answers(<<200>>)
          /\ UNCHANGED <<control_sock, data_sock, logged_in, current_user, auth>>

-----------------------------------------------------------------------------
(* Transfers *)

\* The three refusals RETR and STOR share, in the order they are tested.
TransferRefused ==
    /\ pc = "recv" /\ line # NoLine /\ line.verb \in {"RETR", "STOR"}
    /\ \/ ~logged_in /\ Answers(<<530>>)
       \/ logged_in /\ line.arg = Empty /\ Answers(<<501>>)
       \/ logged_in /\ line.arg # Empty /\ data_addr.port = 0 /\ Answers(<<503>>)
    /\ SessionUnchanged

TransferBegins(verb, label) ==
    /\ Executes(verb)
    /\ logged_in /\ line.arg # Empty /\ data_addr.port # 0
    /\ xfer' = [NoTransfer EXCEPT !.name = line.arg]
    /\ line' = NoLine /\ pc' = label
    /\ UNCHANGED <<sess, fdtab, file_fd, xfer_sock, files, peer, replies, history>>

\* Mutant: STOR opens, and empties, the file before it connects.
HandleSTOROpensFirst == TransferBegins("STOR", "stor_open")

HandleRETR == TransferBegins("RETR", "retr_open")
HandleSTOR == TransferBegins("STOR", "stor_socket")

\* The steps of a transfer leave the session and the control channel alone.
InTransfer == UNCHANGED <<sess, peer, line, history>>

\* Mutant: the early returns of RETR forget close(file_fd).
GivesUpKeepsFile(code) ==
    /\ replies' = replies \o <<code>>
    /\ fdtab' = Closed(fdtab, xfer_sock)
    /\ file_fd' = NoFd /\ xfer_sock' = NoFd /\ xfer' = NoTransfer
    /\ pc' = "recv"
    /\ InTransfer

\* An early return: reply, close what is open, go back to recv().
GivesUp(code) ==
    /\ replies' = replies \o <<code>>
    /\ fdtab' = Closed(Closed(fdtab, file_fd), xfer_sock)
    /\ file_fd' = NoFd /\ xfer_sock' = NoFd /\ xfer' = NoTransfer
    /\ pc' = "recv"
    /\ InTransfer

RetrOpen ==
    /\ pc = "retr_open" /\ files[xfer.name] # Missing
    /\ \E f \in Fd :
        /\ IsLowestFree(f)
        /\ fdtab' = [fdtab EXCEPT ![f] = "file"]
        /\ file_fd' = f
    /\ xfer' = [xfer EXCEPT !.want = files[xfer.name]]
    /\ pc' = "retr_socket"
    /\ UNCHANGED <<xfer_sock, files, replies>> /\ InTransfer

\* socket() of either handler.
DataSocket(from, to) ==
    /\ pc = from
    /\ \E f \in Fd :
        /\ IsLowestFree(f)
        /\ fdtab' = [fdtab EXCEPT ![f] = "data"]
        /\ xfer_sock' = f
    /\ pc' = to
    /\ UNCHANGED <<file_fd, xfer, files, replies>> /\ InTransfer

\* A step that opens nothing and writes nothing but codes.
Proceeds(from, codes, to) ==
    /\ pc = from
    /\ replies' = replies \o codes
    /\ pc' = to
    /\ UNCHANGED <<fdtab, locals, files>> /\ InTransfer

RetrSocket    == DataSocket("retr_socket", "retr_connect")
RetrConnect   == Proceeds("retr_connect", <<>>, "retr_150")
RetrAnnounces == Proceeds("retr_150", <<150>>, "retr_loop")

\* Mutant: no return after the 425 of a connect() that failed.
RetrFailsFallsThrough == Proceeds("retr_connect", <<425>>, "retr_150")

\* open() 550; socket() or connect() 425.  Each can fail for reasons of its
\* own, a full descriptor table among them.
RetrFails ==
    /\ \/ pc = "retr_open" /\ GivesUp(550)
       \/ pc \in {"retr_socket", "retr_connect"} /\ GivesUp(425)
    /\ UNCHANGED files

\* read() a block and send() it.  After the peer has gone a send may still
\* be taken by the kernel; nothing of it arrives.
RetrBlock ==
    /\ pc = "retr_loop" /\ xfer.pos < Len(files[xfer.name])
    /\ xfer' = [xfer EXCEPT
                  !.pos = @ + 1,
                  !.got = IF xfer.clean
                          THEN Append(@, files[xfer.name][xfer.pos + 1])
                          ELSE @]
    /\ UNCHANGED <<pc, fdtab, file_fd, xfer_sock, files, replies>> /\ InTransfer

\* Mutant: the copy loop tests read() >= 0 and never sees the end of the file.
RetrStopsOnlyOnError ==
    /\ pc = "retr_loop"
    /\ xfer.pos < Len(files[xfer.name]) /\ xfer' = [xfer EXCEPT !.clean = FALSE]
    /\ pc' = "retr_end"
    /\ UNCHANGED <<fdtab, file_fd, xfer_sock, files, replies>> /\ InTransfer

\* read() returns 0, or fails; or send() falls short because the peer is gone.
RetrStops ==
    /\ pc = "retr_loop"
    /\ \/ xfer.pos = Len(files[xfer.name]) /\ UNCHANGED xfer
       \/ xfer.pos < Len(files[xfer.name]) /\ xfer' = [xfer EXCEPT !.clean = FALSE]
    /\ pc' = "retr_end"
    /\ UNCHANGED <<fdtab, file_fd, xfer_sock, files, replies>> /\ InTransfer

RetrEnds == pc = "retr_end" /\ GivesUp(226) /\ UNCHANGED files

StorSocket    == DataSocket("stor_socket", "stor_connect")
StorConnect   == Proceeds("stor_connect", <<>>, "stor_open")
StorAnnounces == Proceeds("stor_150", <<150>>, "stor_loop")

StorFails ==
    /\ \/ pc \in {"stor_socket", "stor_connect"} /\ GivesUp(425)
       \/ pc = "stor_open" /\ GivesUp(550)
    /\ UNCHANGED files

\* Mutant: O_TRUNC is left out.
StorOpenAppends ==
    /\ pc = "stor_open"
    /\ \E f \in Fd :
        /\ IsLowestFree(f)
        /\ fdtab' = [fdtab EXCEPT ![f] = "file"]
        /\ file_fd' = f
    /\ files' = [files EXCEPT ![xfer.name] = IF @ = Missing THEN <<>> ELSE @]
    /\ \E content \in Uploads : xfer' = [xfer EXCEPT !.want = content]
    /\ pc' = "stor_150"
    /\ UNCHANGED <<xfer_sock, replies>> /\ InTransfer

\* open(O_CREAT | O_TRUNC).  What the client means to send is chosen here.
StorOpen ==
    /\ pc = "stor_open"
    /\ \E f \in Fd :
        /\ IsLowestFree(f)
        /\ fdtab' = [fdtab EXCEPT ![f] = "file"]
        /\ file_fd' = f
    /\ files' = [files EXCEPT ![xfer.name] = <<>>]
    /\ \E content \in Uploads : xfer' = [xfer EXCEPT !.want = content]
    /\ pc' = "stor_150"
    /\ UNCHANGED <<xfer_sock, replies>> /\ InTransfer

\* recv() a block and write() it.
StorBlock ==
    /\ pc = "stor_loop" /\ xfer.clean /\ xfer.pos < Len(xfer.want)
    /\ files' = [files EXCEPT ![xfer.name] = Append(@, xfer.want[xfer.pos + 1])]
    /\ xfer' = [xfer EXCEPT !.pos = @ + 1]
    /\ UNCHANGED <<pc, fdtab, file_fd, xfer_sock, replies>> /\ InTransfer

\* recv() returns 0 or fails; or write() falls short of the block it was given.
StorStops ==
    /\ pc = "stor_loop"
    /\ \/ (xfer.pos = Len(xfer.want) \/ ~xfer.clean) /\ UNCHANGED xfer
       \/ /\ xfer.clean /\ xfer.pos < Len(xfer.want)
          /\ xfer' = [xfer EXCEPT !.pos = @ + 1, !.clean = FALSE]
    /\ pc' = "stor_end"
    /\ UNCHANGED <<fdtab, file_fd, xfer_sock, files, replies>> /\ InTransfer

StorEnds == pc = "stor_end" /\ GivesUp(226) /\ UNCHANGED files

-----------------------------------------------------------------------------
(* SIGPIPE.  Nothing in the program ignores or handles it, so a write to a *)
(* connection its peer has reset may end the process.                       *)

Dies ==
    /\ pc' = "killed"
    /\ fdtab' = [f \in Fd |-> "free"]
    /\ peer' = "none" /\ line' = NoLine
    /\ UNCHANGED <<sess, locals, files, replies, history>>

WritesControl ==
    \/ pc = "recv" /\ line # NoLine
    \/ pc = "welcome" /\ control_sock # NoFd
    \/ pc \in Transferring \ {"retr_loop", "stor_loop"}

ControlPipeBreaks == peer = "reset" /\ WritesControl /\ Dies

DataPipeBreaks ==
    /\ pc = "retr_loop" /\ ~xfer.clean /\ xfer.pos < Len(files[xfer.name])
    /\ Dies

-----------------------------------------------------------------------------
(* The client *)

\* The client has read every reply and sends its next command, which arrives
\* whole and alone.
ClientSends ==
    /\ pc = "recv" /\ peer = "open" /\ line = NoLine
    /\ line' \in Lines
    /\ replies' = <<>>
    /\ UNCHANGED <<pc, sess, fdtab, locals, files, peer, history>>

ClientCloses ==
    /\ peer = "open" /\ peer' = "closed"
    /\ UNCHANGED <<pc, sess, fdtab, locals, files, line, replies, history>>

ClientResets ==
    /\ peer \in {"open", "closed"} /\ peer' = "reset"
    /\ UNCHANGED <<pc, sess, fdtab, locals, files, line, replies, history>>

\* The data connection is closed or reset before all of it went through.
DataChannelBreaks ==
    /\ pc \in {"retr_loop", "stor_loop"} /\ xfer.clean
    /\ xfer.pos < Len(xfer.want)
    /\ xfer' = [xfer EXCEPT !.clean = FALSE]
    /\ UNCHANGED <<pc, sess, fdtab, file_fd, xfer_sock, files, peer, line,
                   replies, history>>

-----------------------------------------------------------------------------
Handlers ==
    \/ HandleUSER \/ HandlePASS \/ HandleQUIT \/ HandleSYST \/ HandleTYPE
    \/ HandlePORT \/ HandleNOOP \/ UnknownCommand
    \/ TransferRefused \/ HandleRETR \/ HandleSTOR

Transfers ==
    \/ RetrOpen \/ RetrSocket \/ RetrConnect \/ RetrAnnounces \/ RetrFails
    \/ RetrBlock \/ RetrStops \/ RetrEnds
    \/ StorSocket \/ StorConnect \/ StorOpen \/ StorAnnounces \/ StorFails
    \/ StorBlock \/ StorStops \/ StorEnds

\* Everything the process does once a connection has been handed to it.
Server ==
    \/ Welcome \/ WelcomeFails \/ RecvFails \/ RecvEof \/ SessionCleanup
    \/ Handlers \/ Transfers

Environment ==
    \/ Accept \/ AcceptFails \/ ControlPipeBreaks \/ DataPipeBreaks
    \/ ClientSends \/ ClientCloses \/ ClientResets \/ DataChannelBreaks

Next == Server \/ Environment

Spec == Init /\ [][Next]_vars

\* The process is scheduled, and the peer of a data connection reads, sends
\* or goes away.  Clients are under no obligation on the control connection.
FairSpec == Spec /\ WF_vars(Server)

-----------------------------------------------------------------------------
(* Properties *)

\* Every variable has its type: the fields of ftp_session_t, the locals of the
\* transfer handlers, and the table of descriptors.
TypeOK ==
    /\ pc \in Labels
    /\ control_sock \in Fd \cup {NoFd}
    /\ data_sock = NoFd
    /\ logged_in \in BOOLEAN
    /\ current_user \in Users \cup {Empty}
    /\ data_addr \in Address
    /\ fdtab \in [Fd -> Kinds]
    /\ file_fd \in Fd \cup {NoFd} /\ xfer_sock \in Fd \cup {NoFd}
    /\ xfer \in Transfer
    /\ files \in [Names -> {Missing} \cup Seq(Blocks)]
    /\ peer \in {"none", "open", "closed", "reset"}
    /\ line \in Lines \cup {NoLine}
    /\ replies \in Seq(Codes)
    /\ auth \in Users \cup {Empty}
    /\ accepted \in PortArgs \cup {NoPort}

\* No path through the handlers, the error returns of RETR and STOR included,
\* leaves a descriptor behind: between commands the process holds the listener
\* and the control connection, between sessions the listener alone.  The
\* second close() of session_cleanup after a failed recv() closes nothing else.
NoDescriptorLeak ==
    /\ pc = "accept" => InUse = {MasterFd}
    /\ pc = "recv" => /\ InUse = {MasterFd, control_sock}
                      /\ fdtab[MasterFd] = "listener"
                      /\ fdtab[control_sock] = "control"

\* A session that is logged in has had a user and password of the ftpusers
\* file accepted since it began, and has a user name.
LoginSound ==
    logged_in /\ pc \in {"recv"} \cup Transferring =>
        /\ current_user # Empty
        /\ \E pass \in Passwords : <<auth, pass>> \in Accounts

\* The host a data connection goes to is the one the last PORT of this session
\* that was answered 200 named; while none has been, it is 0.0.0.0, as session_init
\* leaves it, and a transfer may still go there (see TransferNeedsPort).  Neither
\* a refused PORT nor an earlier client of the same process, whose record the
\* session reuses, leaves its host behind.
HostFromAcceptedPort ==
    data_addr.host = IF accepted = NoPort THEN AnyHost ELSE AddressOf[accepted.host]

\* A command gets one final reply, preceded by at most one preliminary line,
\* on every path through getexe_command, the handlers and their error returns.
ReplyDiscipline ==
    pc = "recv" /\ line = NoLine =>
        \/ \E code \in Codes \ {Text, 150} : replies = <<code>>
        \/ replies \in {<<Text, 200>>, <<150, 226>>}

\* What the client can conclude from the reply it has just read: 530 means the
\* session is not logged in (whichever handler sent it), 230 that the user
\* named last is, 331 that a user is named, a transfer that it was entitled.
ReplyTellsState ==
    pc = "recv" /\ line = NoLine =>
        /\ replies = <<530>> => ~logged_in
        /\ replies = <<230>> => logged_in /\ auth = current_user
        /\ replies = <<331>> => current_user # Empty
        /\ replies = <<150, 226>> => logged_in /\ data_addr.port # 0

InitialPart(s, t) == Len(s) <= Len(t) /\ \A i \in 1 .. Len(s) : s[i] = t[i]

\* What has arrived at the destination is always an initial part of the source,
\* and all of it when read, write, send and recv have all done their part.
FaithfulTransfer ==
    /\ pc \in {"retr_loop", "retr_end"} => InitialPart(xfer.got, files[xfer.name])
    /\ pc \in {"stor_loop", "stor_end"} => InitialPart(files[xfer.name], xfer.want)
    /\ pc = "retr_end" /\ xfer.clean => xfer.got = files[xfer.name]
    /\ pc = "stor_end" /\ xfer.clean => files[xfer.name] = xfer.want

\* A stored file changes only when a logged-in session has a data connection
\* open for it: a STOR whose connection fails leaves the old contents alone.
FilesChangeUnderTransfer ==
    [][\A n \in Names : files'[n] # files[n] =>
         /\ logged_in /\ xfer.name = n
         /\ xfer_sock \in Fd /\ fdtab[xfer_sock] = "data"]_vars

\* A client that goes away is noticed: the session it leaves ends, and the
\* process is back in accept() unless a broken pipe has ended it.
SessionEnds ==
    peer \in {"closed", "reset"} ~> pc \in {"accept", "killed"}

\* A command that has been received is answered, or the session ends.
CommandAnswered ==
    line # NoLine ~> \/ pc \in {"accept", "killed"}
                     \/ pc = "recv" /\ line = NoLine /\ replies # <<>>

-----------------------------------------------------------------------------
(* What makes the invariants inductive *)

InSession == {"welcome", "recv"} \cup Transferring
HoldsData == {"retr_connect", "retr_150", "retr_loop", "retr_end",
              "stor_connect", "stor_open", "stor_150", "stor_loop", "stor_end"}
HoldsFile == {"retr_socket", "retr_connect", "retr_150", "retr_loop",
              "retr_end", "stor_150", "stor_loop", "stor_end"}

Copying   == {"retr_loop", "retr_end", "stor_loop", "stor_end"}

\* A transfer has a file name, and the file it has open exists.  TypeOK is
\* inductive only with this: the copy loops index the contents of that file.
FileIsThere ==
    /\ pc \in Transferring => xfer.name \in Names
    /\ pc \in HoldsFile => files[xfer.name] # Missing

\* Which descriptor refers to what, at every label: the process holds what the
\* label says it holds, under the number the program has kept, and no more.
\* The number session_cleanup closes a second time refers to nothing.
Layout ==
    /\ pc \in {"recv"} \cup Transferring => control_sock \in Fd
    /\ pc = "cleanup" /\ control_sock \in Fd => fdtab[control_sock] = "free"
    /\ pc \in HoldsFile <=> file_fd \in Fd
    /\ pc \in HoldsData <=> xfer_sock \in Fd
    /\ \A f \in Fd :
        /\ fdtab[f] = "listener" <=> f = MasterFd
        /\ fdtab[f] = "control" <=> f = control_sock /\ pc \in InSession
        /\ fdtab[f] = "file" <=> f = file_fd
        /\ fdtab[f] = "data" <=> f = xfer_sock

\* dest holds the first blocks of source, all that were read so far unless
\* something went wrong, and a clean end means that all were.
CopyTracks(dest, source) ==
    /\ InitialPart(dest, source)
    /\ Len(dest) <= xfer.pos /\ xfer.pos <= Len(source)
    /\ xfer.clean => Len(dest) = xfer.pos
    /\ xfer.clean /\ pc \in {"retr_end", "stor_end"} => xfer.pos = Len(source)

\* Where the copy stands at every label of a transfer.
CopyProgress ==
    /\ pc \in Transferring \ Copying =>
         xfer.pos = 0 /\ xfer.got = <<>> /\ xfer.clean
    /\ pc = "stor_150" => files[xfer.name] = <<>>
    /\ pc \in {"retr_loop", "retr_end"} => CopyTracks(xfer.got, files[xfer.name])
    /\ pc \in {"stor_loop", "stor_end"} => CopyTracks(files[xfer.name], xfer.want)

\* Only logged-in sessions transfer, and no session starts logged in.
LoginByLabel ==
    /\ pc \in Transferring => logged_in
    /\ pc = "welcome" => ~logged_in

\* What the client has been told of its command, at every label: nothing before
\* the handler answers, and 150 from the copy loop on.
RepliesByLabel ==
    /\ line # NoLine => pc = "recv" /\ replies = <<>>
    /\ pc \in Transferring => data_addr.port # 0
    /\ pc \in Transferring \ Copying => replies = <<>>
    /\ pc \in Copying => replies = <<150>>

\* The two properties of the replies with what they rest on.
RepliesKept == RepliesByLabel /\ ReplyDiscipline /\ ReplyTellsState

\* After SIGPIPE the process, and all it held, is gone.
LayoutOrKilled == pc # "killed" => Layout

-----------------------------------------------------------------------------
(* Statements of the source that the code does not keep *)

\* responses.h and the comment at the end of both transfer handlers call 226
\* "Transfer complete"; it is sent however the copy loop ended.
CompleteMeansComplete ==
    [][pc' = "recv" =>
         /\ pc = "retr_end" => xfer.got = files[xfer.name]
         /\ pc = "stor_end" => files[xfer.name] = xfer.want]_vars

\* "we require a PORT command before RETR" (and STOR): a transfer goes to the
\* address of a PORT that was accepted.  A refused PORT has stored its port.
TransferNeedsPort ==
    [][pc = "recv" /\ pc' \in {"retr_open", "stor_socket"} =>
         accepted # NoPort /\ data_addr = AddressNamed(accepted)]_vars

=============================================================================
