-------------------------- MODULE FtpSessionProofs --------------------------
(***************************************************************************)
(* Theorems about FtpSession, for every user file, every set of names,     *)
(* hosts and ports, every upload and any number of descriptors.            *)
(***************************************************************************)
EXTENDS FtpSession, SequenceTheorems, TLAPS

-----------------------------------------------------------------------------
(* Types of the values the actions are built from *)

\* A command carries an argument of its verb's kind.
LEMMA ArgumentTypes ==
    ASSUME NEW l \in Lines
    PROVE  /\ l.verb = "USER" => l.arg \in Users \cup {Empty}
           /\ l.verb = "PASS" => l.arg \in Passwords \cup {Empty}
           /\ l.verb = "PORT" => l.arg \in PortArgs \cup {Malformed}
           /\ l.verb \in {"RETR", "STOR"} => l.arg \in Names \cup {Empty}
BY DEF Lines

\* A remainder of 65536 fits in sixteen bits.
LEMMA SixteenBits ==
    ASSUME NEW n \in Int
    PROVE  n % 65536 \in Ports
BY DEF Ports

\* htons yields a port number whatever the two numbers of PORT were.
LEMMA PortInRange ==
    ASSUME NEW pair \in PortPairs
    PROVE  PortOf(pair) \in Ports
<1> DEFINE sum == pair[1] * 256 + pair[2]
<1>1. sum \in Int
  BY NumbersAssumption
<1>2. PortOf(pair) = sum % 65536
  BY DEF PortOf
<1> HIDE DEF sum
<1>3. sum % 65536 \in Ports
  BY <1>1, SixteenBits
<1> QED BY <1>2, <1>3

\* A zeroed sockaddr_in is an address.
LEMMA ZeroAddressType == ZeroAddress \in Address
BY NamesAssumption DEF ZeroAddress, Address, Ports

\* A refused PORT replaces the port of an address.
LEMMA PortReplaced ==
    ASSUME NEW a \in Address, NEW port \in Ports
    PROVE  [a EXCEPT !.port = port] \in Address
BY DEF Address

\* An accepted PORT makes an address.
LEMMA AddressMade ==
    ASSUME NEW host \in Hosts, NEW port \in Ports
    PROVE  [host |-> host, port |-> port] \in Address
BY DEF Address

\* The record a transfer starts from.
LEMMA NoTransferType == NoTransfer \in Transfer
BY DEF NoTransfer, Transfer

\* Closing and opening descriptors yields a table.
LEMMA TableTypes ==
    ASSUME NEW tab \in [Fd -> Kinds], NEW f
    PROVE  /\ Closed(tab, f) \in [Fd -> Kinds]
           /\ \A k \in Kinds : [tab EXCEPT ![f] = k] \in [Fd -> Kinds]
BY DEF Closed, Kinds

\* Sending one or two more codes keeps the list a list of codes.
LEMMA ReplyTypes ==
    ASSUME NEW sent \in Seq(Codes)
    PROVE  /\ \A c \in Codes : sent \o <<c>> \in Seq(Codes)
           /\ \A c, d \in Codes : sent \o <<c, d>> \in Seq(Codes)
           /\ sent \o <<>> \in Seq(Codes)
OBVIOUS

\* The kinds, labels and codes by name, so that later steps need not unfold them.
LEMMA Members ==
    /\ {"free", "control", "file", "data"} \subseteq Kinds
    /\ {"accept", "welcome", "recv", "cleanup", "killed"} \subseteq Labels
    /\ Transferring \subseteq Labels
    /\ {Text, 150, 200, 215, 220, 221, 226, 230, 331, 425, 500, 501, 502, 503,
        504, 530, 550} \subseteq Codes
BY DEF Kinds, Labels, Codes

-----------------------------------------------------------------------------
(* The type invariant, one lemma per group of actions *)

\* Accepting a connection and greeting the client keep the types.
LEMMA AcceptTypes ==
    ASSUME TypeOK, Accept \/ AcceptFails \/ Welcome \/ WelcomeFails
    PROVE  TypeOK'
<1> USE DEF NoFd
<1>1. CASE Accept
  <2>1. (fdtab \in [Fd -> Kinds])'
    BY <1>1, TableTypes, Members DEF Accept, TypeOK
  <2>2. (replies \in Seq(Codes))' /\ pc' \in Labels
    BY <1>1, Members DEF Accept
  <2> QED BY <1>1, <2>1, <2>2, ZeroAddressType DEF TypeOK, Accept, SessionInit, locals
<1>2. CASE AcceptFails
  <2>1. (replies \in Seq(Codes))' /\ pc' \in Labels
    BY <1>2, Members DEF AcceptFails
  <2> QED BY <1>2, <2>1, ZeroAddressType DEF TypeOK, AcceptFails, SessionInit, locals
<1>3. CASE Welcome
  <2>1. (replies \in Seq(Codes))' /\ pc' \in Labels
    BY <1>3, Members DEF Welcome
  <2> QED BY <1>3, <2>1 DEF TypeOK, Welcome, sess, locals, history
<1>4. CASE WelcomeFails
  <2>1. (fdtab \in [Fd -> Kinds])' /\ pc' \in Labels
    BY <1>4, TableTypes, Members DEF WelcomeFails, TypeOK
  <2> QED BY <1>4, <2>1 DEF TypeOK, WelcomeFails, sess, locals, history
<1> QED BY <1>1, <1>2, <1>3, <1>4

\* Losing the control connection and session_cleanup keep the types.
LEMMA LeavingTypes ==
    ASSUME TypeOK, RecvFails \/ RecvEof \/ SessionCleanup
    PROVE  TypeOK'
<1>1. (fdtab \in [Fd -> Kinds])' /\ pc' \in Labels
  <2>1. Closed(fdtab, control_sock) \in [Fd -> Kinds]
    BY TableTypes DEF TypeOK
  <2>2. Closed(Closed(fdtab, control_sock), data_sock) \in [Fd -> Kinds]
    BY <2>1, TableTypes
  <2> QED BY <2>1, <2>2, Members DEF RecvFails, RecvEof, SessionCleanup
<1>2. CASE RecvFails
  BY <1>1, <1>2 DEF TypeOK, RecvFails, sess, locals, history
<1>3. CASE RecvEof
  BY <1>1, <1>3 DEF TypeOK, RecvEof, locals, history, NoFd
<1>4. CASE SessionCleanup
  BY <1>1, <1>4 DEF TypeOK, SessionCleanup, locals, history, NoFd
<1> QED BY <1>2, <1>3, <1>4

\* A reply of one or two codes disturbs nothing but pc, line and replies.
LEMMA AnswerTypes ==
    ASSUME TypeOK, NEW codes, Answers(codes),
           \/ codes \in {<<c>> : c \in Codes}
           \/ codes = <<Text, 200>>
    PROVE  /\ pc' \in Labels
           /\ (replies \in Seq(Codes))'
           /\ (line \in Lines \cup {NoLine})'
           /\ UNCHANGED <<fdtab, file_fd, xfer_sock, xfer, files, peer>>
<1>1. replies \in Seq(Codes)
  BY DEF TypeOK
<1>2. CASE codes \in {<<c>> : c \in Codes}
  <2>1. PICK c \in Codes : codes = <<c>>
    BY <1>2
  <2>2. replies \o codes \in Seq(Codes)
    BY <1>1, <2>1, ReplyTypes
  <2> QED BY <2>2, Members DEF Answers, TypeOK, locals
<1>3. CASE codes = <<Text, 200>>
  <2>1. replies \o codes \in Seq(Codes)
    BY <1>1, <1>3, ReplyTypes, Members
  <2> QED BY <2>1, Members DEF Answers, TypeOK, locals
<1> QED BY <1>2, <1>3

\* The handlers that only touch the session keep the types.
LEMMA HandlerTypes ==
    ASSUME TypeOK,
           HandleUSER \/ HandlePASS \/ HandleQUIT \/ HandleSYST \/ HandleTYPE
             \/ HandlePORT \/ HandleNOOP \/ UnknownCommand \/ TransferRefused
    PROVE  TypeOK'
<1> USE DEF Executes
<1>1. CASE HandleUSER
  <2>1. \E c \in Codes : Answers(<<c>>)
    BY <1>1, Members DEF HandleUSER
  <2>2. (current_user \in Users \cup {Empty})'
    BY <1>1, ArgumentTypes, NamesAssumption DEF HandleUSER, TypeOK
  <2> QED BY <1>1, <2>1, <2>2, AnswerTypes DEF HandleUSER, TypeOK, history
<1>2. CASE HandlePASS
  <2>1. \E c \in Codes : Answers(<<c>>)
    BY <1>2, Members DEF HandlePASS
  <2>2. /\ (current_user \in Users \cup {Empty})'
        /\ (auth \in Users \cup {Empty})'
        /\ (logged_in \in BOOLEAN)'
        /\ UNCHANGED <<control_sock, data_sock, data_addr, accepted>>
    BY <1>2 DEF HandlePASS, TypeOK, SessionUnchanged, sess, history
  <2> QED BY <2>1, <2>2, AnswerTypes DEF TypeOK
<1>3. CASE HandleQUIT
  <2>1. (replies \in Seq(Codes))' /\ pc' \in Labels
    BY <1>3, ReplyTypes, Members DEF HandleQUIT, TypeOK
  <2>2. (fdtab \in [Fd -> Kinds])'
    BY <1>3, TableTypes DEF HandleQUIT, TypeOK
  <2> QED BY <1>3, <2>1, <2>2 DEF HandleQUIT, TypeOK, locals, history, NoFd
<1>4. CASE HandleSYST \/ HandleTYPE \/ HandleNOOP \/ UnknownCommand \/ TransferRefused
  <2>1. SessionUnchanged
    BY <1>4 DEF HandleSYST, HandleTYPE, HandleNOOP, UnknownCommand, TransferRefused
  <2>2. \/ \E c \in Codes : Answers(<<c>>)
        \/ Answers(<<Text, 200>>)
    BY <1>4, Members
    DEF HandleSYST, HandleTYPE, HandleNOOP, UnknownCommand, TransferRefused
  <2>3. /\ pc' \in Labels /\ (replies \in Seq(Codes))'
        /\ (line \in Lines \cup {NoLine})'
        /\ UNCHANGED <<fdtab, file_fd, xfer_sock, xfer, files, peer>>
    BY <2>2, AnswerTypes
  <2> QED BY <2>1, <2>3 DEF TypeOK, SessionUnchanged, sess, history
<1>5. CASE HandlePORT
  <2>1. \E c \in Codes : Answers(<<c>>)
    BY <1>5, Members DEF HandlePORT
  <2>2. line \in Lines /\ line.verb = "PORT"
    BY <1>5 DEF HandlePORT, TypeOK
  <2>3. (data_addr \in Address)' /\ (accepted \in PortArgs \cup {NoPort})'
    <3>1. CASE SessionUnchanged
      BY <3>1 DEF SessionUnchanged, sess, history, TypeOK
    <3>2. CASE line.arg # Malformed /\ ~SessionUnchanged
      <4>1. line.arg \in PortArgs
        BY <2>2, <3>2, ArgumentTypes
      <4>2. line.arg.pair \in PortPairs /\ line.arg.host \in HostTexts
        BY <4>1 DEF PortArgs
      <4>3. PICK pair \in PortPairs : pair = line.arg.pair
        BY <4>2
      <4>4. PICK port \in Ports : port = PortOf(pair)
        BY PortInRange
      <4>5. data_addr \in Address /\ accepted \in PortArgs \cup {NoPort}
        BY DEF TypeOK
      <4>6. CASE /\ data_addr' = [data_addr EXCEPT !.port = port]
                 /\ accepted' = accepted
        BY <4>5, <4>6, PortReplaced
      <4>7. CASE /\ AddressOf[line.arg.host] # BadHost
                 /\ data_addr' = [host |-> AddressOf[line.arg.host], port |-> port]
                 /\ accepted' = line.arg
        <5>1. AddressOf[line.arg.host] \in Hosts
          BY <4>2, <4>7, NamesAssumption
        <5> QED BY <4>1, <4>7, <5>1, AddressMade
      <4> QED BY <1>5, <3>2, <4>3, <4>4, <4>6, <4>7 DEF HandlePORT, AddressNamed
    <3> QED BY <1>5, <3>1, <3>2 DEF HandlePORT
  <2>4. UNCHANGED <<control_sock, data_sock, logged_in, current_user, auth>>
    BY <1>5 DEF HandlePORT, SessionUnchanged, sess, history
  <2> QED BY <2>1, <2>3, <2>4, AnswerTypes DEF TypeOK
<1> QED BY <1>1, <1>2, <1>3, <1>4, <1>5

-----------------------------------------------------------------------------
(* Transfers *)

\* RETR and STOR that are not refused start a transfer of a named file.
LEMMA BeginTypes ==
    ASSUME TypeOK, HandleRETR \/ HandleSTOR
    PROVE  TypeOK' /\ FileIsThere'
<1>1. /\ line \in Lines /\ line.verb \in {"RETR", "STOR"} /\ line.arg # Empty
      /\ xfer' = [NoTransfer EXCEPT !.name = line.arg]
      /\ line' = NoLine /\ pc' \in {"retr_open", "stor_socket"}
      /\ UNCHANGED <<sess, fdtab, file_fd, xfer_sock, files, peer, replies, history>>
  BY DEF HandleRETR, HandleSTOR, TransferBegins, Executes, TypeOK
<1>2. line.arg \in Names
  BY <1>1, ArgumentTypes
<1>3. xfer' \in Transfer /\ xfer'.name \in Names
  BY <1>1, <1>2, NoTransferType DEF Transfer
<1>4. pc' \in Transferring /\ pc' \notin HoldsFile
  BY <1>1 DEF Transferring, HoldsFile
<1>5. pc' \in Labels
  BY <1>4, Members
<1>6. TypeOK'
  BY <1>1, <1>3, <1>5 DEF TypeOK, sess, history
<1> QED BY <1>3, <1>4, <1>6 DEF FileIsThere

\* An early return, or the 226 at the end, frees what the transfer held.
LEMMA GivesUpTypes ==
    ASSUME TypeOK, NEW code \in Codes, GivesUp(code), UNCHANGED files
    PROVE  TypeOK' /\ FileIsThere'
<1>1. (replies \in Seq(Codes))'
  BY ReplyTypes DEF TypeOK, GivesUp
<1>2. (fdtab \in [Fd -> Kinds])'
  <2>1. Closed(fdtab, file_fd) \in [Fd -> Kinds]
    BY TableTypes DEF TypeOK
  <2> QED BY <2>1, TableTypes DEF GivesUp
<1>3. pc' = "recv" /\ pc' \in Labels
  BY Members DEF GivesUp
<1>4. TypeOK'
  BY <1>1, <1>2, <1>3, NoTransferType
  DEF TypeOK, GivesUp, InTransfer, sess, history, NoFd
<1> QED BY <1>3, <1>4 DEF FileIsThere, Transferring, HoldsFile

\* socket() of either handler.
LEMMA DataSocketTypes ==
    ASSUME TypeOK, FileIsThere,
           \/ DataSocket("retr_socket", "retr_connect")
           \/ DataSocket("stor_socket", "stor_connect")
    PROVE  TypeOK' /\ FileIsThere'
<1>1. (fdtab \in [Fd -> Kinds])'
  <2>1. PICK f \in Fd : fdtab' = [fdtab EXCEPT ![f] = "data"]
    BY DEF DataSocket
  <2>2. fdtab \in [Fd -> Kinds] /\ "data" \in Kinds
    BY Members DEF TypeOK
  <2> QED BY <2>1, <2>2, TableTypes
<1>2. /\ pc \in Transferring /\ pc' \in Transferring
      /\ pc' \in HoldsFile => pc \in HoldsFile
  BY DEF DataSocket, Transferring, HoldsFile
<1>3. xfer_sock' \in Fd /\ UNCHANGED <<file_fd, xfer, files, replies>> /\ InTransfer
  BY DEF DataSocket
<1>4. TypeOK'
  BY <1>1, <1>2, <1>3, Members DEF TypeOK, InTransfer, sess, history
<1> QED BY <1>2, <1>3, <1>4 DEF FileIsThere

\* connect(), and the 150.
LEMMA ProceedsTypes ==
    ASSUME TypeOK, FileIsThere,
           RetrConnect \/ RetrAnnounces \/ StorConnect \/ StorAnnounces
    PROVE  TypeOK' /\ FileIsThere'
<1> USE DEF RetrConnect, RetrAnnounces, StorConnect, StorAnnounces, Proceeds
<1>1. (replies \in Seq(Codes))'
  <2>1. replies \in Seq(Codes) /\ 150 \in Codes
    BY Members DEF TypeOK
  <2>2. replies \o <<>> \in Seq(Codes) /\ replies \o <<150>> \in Seq(Codes)
    BY <2>1, ReplyTypes
  <2> QED BY <2>2
<1>2. /\ pc \in Transferring /\ pc' \in Transferring
      /\ pc' \in HoldsFile => pc \in HoldsFile
  BY DEF Transferring, HoldsFile
<1>3. UNCHANGED <<fdtab, locals, files>> /\ InTransfer
  OBVIOUS
<1>4. TypeOK'
  BY <1>1, <1>2, <1>3, Members DEF TypeOK, InTransfer, sess, history, locals
<1> QED BY <1>2, <1>3, <1>4 DEF FileIsThere, locals

\* open() of either handler, with the file it leaves.
LEMMA OpenTypes ==
    ASSUME TypeOK, FileIsThere, RetrOpen \/ StorOpen
    PROVE  TypeOK' /\ FileIsThere'
<1>1. (fdtab \in [Fd -> Kinds])'
  <2>1. PICK f \in Fd : fdtab' = [fdtab EXCEPT ![f] = "file"]
    BY DEF RetrOpen, StorOpen
  <2>2. fdtab \in [Fd -> Kinds] /\ "file" \in Kinds
    BY Members DEF TypeOK
  <2> QED BY <2>1, <2>2, TableTypes
<1>2. /\ pc \in Transferring /\ pc' \in Transferring /\ pc' \in Labels
      /\ file_fd' \in Fd /\ UNCHANGED <<xfer_sock, replies>> /\ InTransfer
  BY Members DEF RetrOpen, StorOpen, Transferring
<1>3. xfer.name \in Names
  BY <1>2 DEF FileIsThere
<1>4. CASE RetrOpen
  <2>1. files[xfer.name] \in Seq(Blocks) /\ UNCHANGED files
    BY <1>3, <1>4 DEF RetrOpen, TypeOK
  <2>2. xfer' \in Transfer /\ xfer'.name = xfer.name
    BY <1>4, <2>1 DEF RetrOpen, TypeOK, Transfer
  <2>3. TypeOK'
    BY <1>1, <1>2, <2>1, <2>2 DEF TypeOK, InTransfer, sess, history
  <2> QED BY <1>3, <1>4, <2>1, <2>2, <2>3 DEF FileIsThere, RetrOpen
<1>5. CASE StorOpen
  <2>1. PICK content \in Uploads : xfer' = [xfer EXCEPT !.want = content]
    BY <1>5 DEF StorOpen
  <2>2. xfer' \in Transfer /\ xfer'.name = xfer.name
    BY <2>1, FilesAssumption DEF TypeOK, Transfer
  <2>3. /\ files' \in [Names -> {Missing} \cup Seq(Blocks)]
        /\ files'[xfer.name] # Missing
    <3>1. files' = [files EXCEPT ![xfer.name] = <<>>]
      BY <1>5 DEF StorOpen
    <3>2. files \in [Names -> {Missing} \cup Seq(Blocks)] /\ <<>> \in Seq(Blocks)
      BY DEF TypeOK
    <3>3. <<>> # Missing
      BY <3>2, FilesAssumption
    <3>4. files'[xfer.name] = <<>>
      BY <1>3, <3>1, <3>2
    <3>5. [files EXCEPT ![xfer.name] = <<>>] \in [Names -> {Missing} \cup Seq(Blocks)]
      BY <3>2
    <3> QED BY <3>1, <3>3, <3>4, <3>5
  <2>4. TypeOK'
    BY <1>1, <1>2, <2>2, <2>3 DEF TypeOK, InTransfer, sess, history
  <2> QED BY <1>3, <2>2, <2>3, <2>4 DEF FileIsThere
<1> QED BY <1>4, <1>5

\* What the copy loops do to the record of a transfer.
LEMMA TransferUpdates ==
    ASSUME NEW x \in Transfer, NEW b \in Blocks
    PROVE  /\ [x EXCEPT !.pos = @ + 1, !.got = Append(@, b)] \in Transfer
           /\ [x EXCEPT !.pos = @ + 1, !.got = Append(@, b)].name = x.name
<1>1. x.pos + 1 \in Nat /\ Append(x.got, b) \in Seq(Blocks)
  BY DEF Transfer
<1> QED BY <1>1 DEF Transfer

\* The same without a block that arrives.
LEMMA TransferUpdatesEmpty ==
    ASSUME NEW x \in Transfer
    PROVE  /\ [x EXCEPT !.clean = FALSE] \in Transfer
           /\ [x EXCEPT !.clean = FALSE].name = x.name
           /\ [x EXCEPT !.pos = @ + 1] \in Transfer
           /\ [x EXCEPT !.pos = @ + 1].name = x.name
           /\ [x EXCEPT !.pos = @ + 1, !.clean = FALSE] \in Transfer
           /\ [x EXCEPT !.pos = @ + 1, !.clean = FALSE].name = x.name
           /\ [x EXCEPT !.pos = @ + 1, !.got = @] \in Transfer
           /\ [x EXCEPT !.pos = @ + 1, !.got = @].name = x.name
<1>1. x.pos + 1 \in Nat
  BY DEF Transfer
<1> QED BY <1>1 DEF Transfer

\* The copy loops append blocks to sequences of blocks.
LEMMA CopyTypes ==
    ASSUME TypeOK, FileIsThere,
           RetrBlock \/ RetrStops \/ StorBlock \/ StorStops
    PROVE  TypeOK' /\ FileIsThere'
<1>1. /\ pc \in Transferring /\ pc \in HoldsFile
      /\ pc' \in Transferring /\ pc' \in HoldsFile /\ pc' \in Labels
      /\ UNCHANGED <<fdtab, file_fd, xfer_sock, replies>> /\ InTransfer
  BY Members DEF RetrBlock, RetrStops, StorBlock, StorStops, Transferring, HoldsFile
<1>2. xfer.name \in Names /\ files[xfer.name] \in Seq(Blocks)
  BY <1>1 DEF FileIsThere, TypeOK
<1>3. xfer \in Transfer
  BY DEF TypeOK
<1>4. CASE RetrBlock
  <2>1. files[xfer.name][xfer.pos + 1] \in Blocks
    BY <1>2, <1>3, <1>4 DEF RetrBlock, Transfer
  <2>2. xfer' \in Transfer /\ xfer'.name = xfer.name /\ UNCHANGED files
    <3>1. CASE xfer.clean
      <4>1. xfer' = [xfer EXCEPT !.pos = @ + 1,
                                 !.got = Append(@, files[xfer.name][xfer.pos + 1])]
        BY <1>4, <3>1 DEF RetrBlock
      <4> QED BY <1>3, <1>4, <2>1, <4>1, TransferUpdates DEF RetrBlock
    <3>2. CASE ~xfer.clean
      <4>1. xfer' = [xfer EXCEPT !.pos = @ + 1, !.got = @]
        BY <1>4, <3>2 DEF RetrBlock
      <4> QED BY <1>3, <1>4, <4>1, TransferUpdatesEmpty DEF RetrBlock
    <3> QED BY <3>1, <3>2
  <2>3. TypeOK'
    BY <1>1, <2>2 DEF TypeOK, InTransfer, sess, history
  <2> QED BY <1>1, <1>2, <2>2, <2>3, FilesAssumption DEF FileIsThere
<1>5. CASE StorBlock
  <2>1. xfer.want[xfer.pos + 1] \in Blocks
    BY <1>3, <1>5 DEF StorBlock, Transfer
  <2>2. xfer' \in Transfer /\ xfer'.name = xfer.name
    BY <1>3, <1>5, TransferUpdatesEmpty DEF StorBlock
  <2>3. Append(files[xfer.name], xfer.want[xfer.pos + 1]) \in Seq(Blocks)
    BY <1>2, <2>1
  <2>4. /\ files' \in [Names -> {Missing} \cup Seq(Blocks)]
        /\ files'[xfer.name] # Missing
    BY <1>2, <1>5, <2>3, FilesAssumption DEF StorBlock, TypeOK
  <2>5. TypeOK'
    BY <1>1, <2>2, <2>4 DEF TypeOK, InTransfer, sess, history
  <2> QED BY <1>2, <2>2, <2>4, <2>5 DEF FileIsThere
<1>6. CASE RetrStops \/ StorStops
  <2>1. xfer' \in Transfer /\ xfer'.name = xfer.name /\ UNCHANGED files
    BY <1>3, <1>6, TransferUpdatesEmpty DEF RetrStops, StorStops
  <2>2. TypeOK'
    BY <1>1, <2>1 DEF TypeOK, InTransfer, sess, history
  <2> QED BY <1>1, <1>2, <2>1, <2>2, FilesAssumption DEF FileIsThere
<1> QED BY <1>4, <1>5, <1>6

-----------------------------------------------------------------------------
\* A process that dies of SIGPIPE, and the client's own steps, keep the types.
LEMMA EnvironmentTypes ==
    ASSUME TypeOK, FileIsThere,
           ControlPipeBreaks \/ DataPipeBreaks \/ ClientSends \/ ClientCloses
             \/ ClientResets \/ DataChannelBreaks \/ UNCHANGED vars
    PROVE  TypeOK' /\ FileIsThere'
<1> USE DEF sess, locals, history
<1>1. CASE ControlPipeBreaks \/ DataPipeBreaks
  <2>1. Dies
    BY <1>1 DEF ControlPipeBreaks, DataPipeBreaks
  <2>2. (fdtab \in [Fd -> Kinds])' /\ pc' \in Labels
    BY <2>1, Members DEF Dies
  <2>3. TypeOK'
    BY <2>1, <2>2 DEF Dies, TypeOK
  <2> QED BY <2>1, <2>3 DEF Dies, FileIsThere, Transferring, HoldsFile
<1>2. CASE ClientSends
  <2>1. (replies \in Seq(Codes))' /\ line' \in Lines
    BY <1>2 DEF ClientSends
  <2> QED BY <1>2, <2>1 DEF ClientSends, TypeOK, FileIsThere
<1>3. CASE ClientCloses \/ ClientResets
  BY <1>3 DEF ClientCloses, ClientResets, TypeOK, FileIsThere
<1>4. CASE DataChannelBreaks
  <2>1. xfer' \in Transfer /\ xfer'.name = xfer.name
    BY <1>4, TransferUpdatesEmpty DEF DataChannelBreaks, TypeOK
  <2> QED BY <1>4, <2>1 DEF DataChannelBreaks, TypeOK, FileIsThere
<1>5. CASE UNCHANGED vars
  BY <1>5 DEF vars, TypeOK, FileIsThere
<1> QED BY <1>1, <1>2, <1>3, <1>4, <1>5

\* Outside a transfer FileIsThere says nothing.
LEMMA NoFileNeeded ==
    ASSUME \/ Accept \/ AcceptFails \/ Welcome \/ WelcomeFails
           \/ RecvFails \/ RecvEof \/ SessionCleanup
           \/ HandleUSER \/ HandlePASS \/ HandleQUIT \/ HandleSYST \/ HandleTYPE
           \/ HandlePORT \/ HandleNOOP \/ UnknownCommand \/ TransferRefused
    PROVE  FileIsThere'
<1>1. pc' \in {"accept", "welcome", "recv", "cleanup"}
  BY DEF Accept, AcceptFails, Welcome, WelcomeFails, RecvFails, RecvEof,
         SessionCleanup, HandleUSER, HandlePASS, HandleQUIT, HandleSYST,
         HandleTYPE, HandlePORT, HandleNOOP, UnknownCommand, TransferRefused,
         Answers
<1> QED BY <1>1 DEF FileIsThere, Transferring, HoldsFile

\* Every step keeps the types and the existence of the open file.
LEMMA TypesInductive ==
    ASSUME TypeOK, FileIsThere, [Next]_vars
    PROVE  TypeOK' /\ FileIsThere'
<1>1. CASE Accept \/ AcceptFails \/ Welcome \/ WelcomeFails
  BY <1>1, AcceptTypes, NoFileNeeded
<1>2. CASE RecvFails \/ RecvEof \/ SessionCleanup
  BY <1>2, LeavingTypes, NoFileNeeded
<1>3. CASE Handlers
  BY <1>3, HandlerTypes, BeginTypes, NoFileNeeded DEF Handlers
<1>4. CASE RetrFails \/ RetrEnds \/ StorFails \/ StorEnds
  <2>1. \E code \in Codes : GivesUp(code)
    BY <1>4, Members DEF RetrFails, RetrEnds, StorFails, StorEnds
  <2>2. UNCHANGED files
    BY <1>4 DEF RetrFails, RetrEnds, StorFails, StorEnds
  <2> QED BY <2>1, <2>2, GivesUpTypes
<1>5. CASE RetrSocket \/ StorSocket
  BY <1>5, DataSocketTypes DEF RetrSocket, StorSocket
<1>6. CASE RetrConnect \/ RetrAnnounces \/ StorConnect \/ StorAnnounces
  BY <1>6, ProceedsTypes
<1>7. CASE RetrOpen \/ StorOpen
  BY <1>7, OpenTypes
<1>8. CASE RetrBlock \/ RetrStops \/ StorBlock \/ StorStops
  BY <1>8, CopyTypes
<1>9. CASE ControlPipeBreaks \/ DataPipeBreaks \/ ClientSends \/ ClientCloses
             \/ ClientResets \/ DataChannelBreaks \/ UNCHANGED vars
  BY <1>9, EnvironmentTypes
<1> QED BY <1>1, <1>2, <1>3, <1>4, <1>5, <1>6, <1>7, <1>8, <1>9
        DEF Next, Server, Transfers, Environment

\* The process starts well typed.
LEMMA TypesInitially == Init => TypeOK /\ FileIsThere
<1> SUFFICES ASSUME Init PROVE TypeOK /\ FileIsThere
  OBVIOUS
<1>1. (fdtab \in [Fd -> Kinds]) /\ replies \in Seq(Codes) /\ pc \in Labels
  BY Members DEF Init, Kinds
<1>2. files \in [Names -> {Missing} \cup Seq(Blocks)]
  BY FilesAssumption DEF Init
<1>3. TypeOK
  BY <1>1, <1>2, ZeroAddressType, NoTransferType DEF Init, TypeOK, NoFd
<1> QED BY <1>3 DEF Init, FileIsThere, Transferring, HoldsFile

\* The fields of the session, the descriptors, the transfer and the files keep
\* their types in every run (TypeOK), whatever commands and failures occur.
THEOREM TypeCorrect == Spec => []TypeOK
<1>1. Init => TypeOK /\ FileIsThere
  BY TypesInitially
<1>2. (TypeOK /\ FileIsThere) /\ [Next]_vars => (TypeOK /\ FileIsThere)'
  BY TypesInductive
<1> QED BY <1>1, <1>2, PTL DEF Spec

\* A transfer always has a name and the file it has open exists (FileIsThere).
THEOREM FileExists == Spec => []FileIsThere
<1>1. (TypeOK /\ FileIsThere) /\ [Next]_vars => (TypeOK /\ FileIsThere)'
  BY TypesInductive
<1> QED BY <1>1, TypesInitially, PTL DEF Spec

-----------------------------------------------------------------------------
(* Descriptors *)

\* -1 is no descriptor, and the listener's number is one.
LEMMA Numbers == NoFd \notin Fd /\ MasterFd \in Fd
BY NumbersAssumption DEF NoFd, Fd, MasterFd

\* Closing frees the descriptor it is given and touches no other.
LEMMA ClosedAt ==
    ASSUME NEW tab \in [Fd -> Kinds], NEW f, NEW g \in Fd
    PROVE  Closed(tab, f)[g] = IF g = f THEN "free" ELSE tab[g]
BY DEF Closed

\* Layout when a connection is accepted, refused, greeted or given up.
LEMMA AcceptLayout ==
    ASSUME TypeOK, Layout, Accept \/ AcceptFails \/ Welcome \/ WelcomeFails
    PROVE  Layout'
<1> USE Numbers DEF Transferring, InSession, HoldsFile, HoldsData
<1>1. CASE Accept
  <2>1. PICK f \in Fd : /\ fdtab[f] = "free"
                        /\ fdtab' = [fdtab EXCEPT ![f] = "control"]
                        /\ control_sock' = f
    BY <1>1 DEF Accept, IsLowestFree, SessionInit
  <2>2. pc = "accept" /\ pc' = "welcome" /\ UNCHANGED <<file_fd, xfer_sock>>
    BY <1>1 DEF Accept, locals
  <2>3. \A g \in Fd : fdtab'[g] = IF g = f THEN "control" ELSE fdtab[g]
    BY <2>1 DEF TypeOK
  <2> QED BY <2>1, <2>2, <2>3 DEF Layout
<1>2. CASE AcceptFails
  <2>1. /\ pc = "accept" /\ pc' = "welcome" /\ control_sock' = NoFd
        /\ UNCHANGED <<fdtab, file_fd, xfer_sock>>
    BY <1>2 DEF AcceptFails, SessionInit, locals
  <2> QED BY <2>1 DEF Layout
<1>3. CASE Welcome
  <2>1. /\ pc = "welcome" /\ pc' = "recv" /\ control_sock \in Fd
        /\ UNCHANGED <<control_sock, fdtab, file_fd, xfer_sock>>
    BY <1>3 DEF Welcome, TypeOK, sess, locals
  <2> QED BY <2>1 DEF Layout
<1>4. CASE WelcomeFails
  <2>1. /\ pc = "welcome" /\ pc' = "accept"
        /\ UNCHANGED <<control_sock, file_fd, xfer_sock>>
    BY <1>4 DEF WelcomeFails, sess, locals
  <2>2. \A g \in Fd : fdtab'[g] = IF g = control_sock THEN "free" ELSE fdtab[g]
    BY <1>4, ClosedAt DEF WelcomeFails, TypeOK
  <2> QED BY <2>1, <2>2 DEF Layout
<1> QED BY <1>1, <1>2, <1>3, <1>4

\* Layout when the control connection is closed, the second close included.
LEMMA LeavingLayout ==
    ASSUME TypeOK, Layout,
           RecvFails \/ RecvEof \/ SessionCleanup \/ HandleQUIT
    PROVE  Layout'
<1> USE Numbers DEF Transferring, InSession, HoldsFile, HoldsData
<1>1. CASE RecvFails \/ RecvEof \/ HandleQUIT
  <2>1. /\ pc = "recv" /\ pc' = "cleanup"
        /\ control_sock' \in {control_sock, NoFd}
        /\ UNCHANGED <<file_fd, xfer_sock>>
    BY <1>1 DEF RecvFails, RecvEof, HandleQUIT, Executes, sess, locals
  <2>2. \A g \in Fd : fdtab'[g] = IF g = control_sock THEN "free" ELSE fdtab[g]
    BY <1>1, ClosedAt DEF RecvFails, RecvEof, HandleQUIT, TypeOK
  <2> QED BY <2>1, <2>2 DEF Layout
<1>2. CASE SessionCleanup
  <2>1. /\ pc = "cleanup" /\ pc' = "accept" /\ control_sock' = NoFd
        /\ UNCHANGED <<file_fd, xfer_sock>>
    BY <1>2 DEF SessionCleanup, locals
  <2>2. /\ fdtab \in [Fd -> Kinds] /\ data_sock \notin Fd
        /\ control_sock \in Fd \cup {NoFd}
    BY DEF TypeOK
  <2>3. Closed(fdtab, control_sock) \in [Fd -> Kinds]
    BY <2>2, TableTypes
  <2>4. Closed(Closed(fdtab, control_sock), data_sock) = Closed(fdtab, control_sock)
    BY <2>2 DEF Closed
  <2>5. \A g \in Fd : fdtab'[g] = IF g = control_sock THEN "free" ELSE fdtab[g]
    <3>1. fdtab' = Closed(fdtab, control_sock)
      BY <1>2, <2>4 DEF SessionCleanup
    <3> QED BY <2>2, <3>1, ClosedAt
  <2> QED BY <2>1, <2>2, <2>5 DEF Layout
<1> QED BY <1>1, <1>2

\* Layout when a handler answers without touching a descriptor, or starts a
\* transfer.
LEMMA HandlerLayout ==
    ASSUME TypeOK, Layout,
           HandleUSER \/ HandlePASS \/ HandleSYST \/ HandleTYPE \/ HandlePORT
             \/ HandleNOOP \/ UnknownCommand \/ TransferRefused
             \/ HandleRETR \/ HandleSTOR
    PROVE  Layout'
<1>1. /\ pc = "recv" /\ pc' \in {"recv", "retr_open", "stor_socket"}
      /\ UNCHANGED <<control_sock, fdtab, file_fd, xfer_sock>>
  BY DEF HandleUSER, HandlePASS, HandleSYST, HandleTYPE, HandlePORT, HandleNOOP,
         UnknownCommand, TransferRefused, HandleRETR, HandleSTOR, TransferBegins,
         Executes, Answers, SessionUnchanged, sess, locals
<1> QED BY <1>1 DEF Layout, InSession, HoldsFile, HoldsData, Transferring

\* Layout when a transfer ends, early or not: both descriptors are freed.
LEMMA GivesUpLayout ==
    ASSUME TypeOK, Layout, pc \in Transferring, NEW code, GivesUp(code)
    PROVE  Layout'
<1>1. /\ fdtab \in [Fd -> Kinds]
      /\ Closed(fdtab, file_fd) \in [Fd -> Kinds]
  BY TableTypes DEF TypeOK
<1>2. \A g \in Fd : fdtab'[g] = IF g = xfer_sock \/ g = file_fd THEN "free"
                                                               ELSE fdtab[g]
  BY <1>1, ClosedAt DEF GivesUp
<1>3. /\ pc' = "recv" /\ file_fd' = NoFd /\ xfer_sock' = NoFd
      /\ control_sock' = control_sock
  BY DEF GivesUp, InTransfer, sess
<1> QED BY <1>2, <1>3, Numbers
        DEF Layout, InSession, HoldsFile, HoldsData, Transferring

\* Layout when a transfer opens its file or its socket.
LEMMA OpeningLayout ==
    ASSUME TypeOK, Layout, RetrOpen \/ StorOpen \/ RetrSocket \/ StorSocket
    PROVE  Layout'
<1> USE Numbers DEF Transferring, InSession, HoldsFile, HoldsData
<1>1. CASE RetrOpen \/ StorOpen
  <2>1. PICK f \in Fd : /\ fdtab[f] = "free" /\ file_fd' = f
                        /\ fdtab' = [fdtab EXCEPT ![f] = "file"]
    BY <1>1 DEF RetrOpen, StorOpen, IsLowestFree
  <2>2. /\ \/ pc = "retr_open" /\ pc' = "retr_socket"
           \/ pc = "stor_open" /\ pc' = "stor_150"
        /\ UNCHANGED <<control_sock, xfer_sock>>
    BY <1>1 DEF RetrOpen, StorOpen, InTransfer, sess
  <2>3. \A g \in Fd : fdtab'[g] = IF g = f THEN "file" ELSE fdtab[g]
    BY <2>1 DEF TypeOK
  <2> QED BY <2>1, <2>2, <2>3 DEF Layout
<1>2. CASE RetrSocket \/ StorSocket
  <2>1. PICK f \in Fd : /\ fdtab[f] = "free" /\ xfer_sock' = f
                        /\ fdtab' = [fdtab EXCEPT ![f] = "data"]
    BY <1>2 DEF RetrSocket, StorSocket, DataSocket, IsLowestFree
  <2>2. /\ \/ pc = "retr_socket" /\ pc' = "retr_connect"
           \/ pc = "stor_socket" /\ pc' = "stor_connect"
        /\ UNCHANGED <<control_sock, file_fd>>
    BY <1>2 DEF RetrSocket, StorSocket, DataSocket, InTransfer, sess
  <2>3. \A g \in Fd : fdtab'[g] = IF g = f THEN "data" ELSE fdtab[g]
    BY <2>1 DEF TypeOK
  <2> QED BY <2>1, <2>2, <2>3 DEF Layout
<1> QED BY <1>1, <1>2

\* Layout when a transfer connects, announces itself or copies.
LEMMA CopyingLayout ==
    ASSUME TypeOK, Layout,
           RetrConnect \/ RetrAnnounces \/ StorConnect \/ StorAnnounces
             \/ RetrBlock \/ RetrStops \/ StorBlock \/ StorStops
             \/ DataChannelBreaks
    PROVE  Layout'
<1>1. UNCHANGED <<control_sock, fdtab, file_fd, xfer_sock>>
  BY DEF RetrConnect, RetrAnnounces, StorConnect, StorAnnounces, Proceeds,
         RetrBlock, RetrStops, StorBlock, StorStops, DataChannelBreaks,
         InTransfer, sess, locals
<1>2. <<pc, pc'>> \in {<<"retr_connect", "retr_150">>, <<"retr_150", "retr_loop">>,
                      <<"retr_loop", "retr_loop">>, <<"retr_loop", "retr_end">>,
                      <<"stor_connect", "stor_open">>, <<"stor_150", "stor_loop">>,
                      <<"stor_loop", "stor_loop">>, <<"stor_loop", "stor_end">>}
  BY DEF RetrConnect, RetrAnnounces, StorConnect, StorAnnounces, Proceeds,
         RetrBlock, RetrStops, StorBlock, StorStops, DataChannelBreaks
<1> QED BY <1>1, <1>2 DEF Layout, InSession, HoldsFile, HoldsData, Transferring

\* Every step keeps the layout, until the process is killed.
LEMMA LayoutInductive ==
    ASSUME TypeOK, LayoutOrKilled, [Next]_vars
    PROVE  LayoutOrKilled'
<1> USE DEF LayoutOrKilled
<1>1. CASE pc = "killed"
  <2>1. pc' = "killed"
    BY <1>1
    DEF Next, Server, Handlers, Transfers, Environment, vars, Accept, AcceptFails,
        Welcome, WelcomeFails, RecvFails, RecvEof, SessionCleanup, HandleUSER,
        HandlePASS, HandleQUIT, HandleSYST, HandleTYPE, HandlePORT, HandleNOOP,
        UnknownCommand, TransferRefused, HandleRETR, HandleSTOR, TransferBegins,
        Executes, RetrOpen, RetrSocket, RetrConnect, RetrAnnounces, RetrFails,
        RetrBlock, RetrStops, RetrEnds, StorSocket, StorConnect, StorOpen,
        StorAnnounces, StorFails, StorBlock, StorStops, StorEnds, DataSocket,
        Proceeds, ControlPipeBreaks, DataPipeBreaks, WritesControl, Transferring,
        ClientSends, ClientCloses, ClientResets, DataChannelBreaks
  <2> QED BY <2>1
<1>2. CASE pc # "killed"
  <2> USE <1>2
  <2>1. CASE Accept \/ AcceptFails \/ Welcome \/ WelcomeFails
    BY <2>1, AcceptLayout
  <2>2. CASE RecvFails \/ RecvEof \/ SessionCleanup
    BY <2>2, LeavingLayout
  <2>3. CASE Handlers
    BY <2>3, LeavingLayout, HandlerLayout DEF Handlers
  <2>4. CASE RetrFails \/ RetrEnds \/ StorFails \/ StorEnds
    <3>1. pc \in Transferring /\ \E code \in Codes : GivesUp(code)
      BY <2>4, Members DEF RetrFails, RetrEnds, StorFails, StorEnds, Transferring
    <3> QED BY <3>1, GivesUpLayout
  <2>5. CASE RetrOpen \/ StorOpen \/ RetrSocket \/ StorSocket
    BY <2>5, OpeningLayout
  <2>6. CASE RetrConnect \/ RetrAnnounces \/ StorConnect \/ StorAnnounces
               \/ RetrBlock \/ RetrStops \/ StorBlock \/ StorStops
               \/ DataChannelBreaks
    BY <2>6, CopyingLayout
  <2>7. CASE ControlPipeBreaks \/ DataPipeBreaks
    BY <2>7 DEF ControlPipeBreaks, DataPipeBreaks, Dies
  <2>8. CASE ClientSends \/ ClientCloses \/ ClientResets \/ UNCHANGED vars
    <3>1. UNCHANGED <<pc, control_sock, fdtab, file_fd, xfer_sock>>
      BY <2>8 DEF ClientSends, ClientCloses, ClientResets, vars, sess, locals
    <3> QED BY <3>1 DEF Layout
  <2> QED BY <2>1, <2>2, <2>3, <2>4, <2>5, <2>6, <2>7, <2>8
          DEF Next, Server, Transfers, Environment
<1> QED BY <1>1, <1>2

\* The layout says what NoDescriptorLeak says.
LEMMA LayoutImpliesNoLeak ==
    ASSUME TypeOK, LayoutOrKilled
    PROVE  NoDescriptorLeak
<1> USE Numbers DEF LayoutOrKilled, Layout, InSession, HoldsFile, HoldsData,
                    Transferring, Kinds, InUse
<1>1. ASSUME pc = "accept" PROVE InUse = {MasterFd}
  <2>1. \A f \in Fd : fdtab[f] # "free" <=> f = MasterFd
    BY <1>1 DEF TypeOK
  <2> QED BY <2>1
<1>2. ASSUME pc = "recv"
      PROVE  /\ InUse = {MasterFd, control_sock}
             /\ fdtab[MasterFd] = "listener" /\ fdtab[control_sock] = "control"
  <2>1. control_sock \in Fd
    BY <1>2
  <2>2. \A f \in Fd : fdtab[f] # "free" <=> f = MasterFd \/ f = control_sock
    BY <1>2 DEF TypeOK
  <2> QED BY <1>2, <2>1, <2>2
<1> QED BY <1>1, <1>2 DEF NoDescriptorLeak

\* No sequence of commands, failures and disconnections leaks a descriptor
\* (NoDescriptorLeak), however many the process may have.
THEOREM DescriptorsConserved == Spec => []NoDescriptorLeak
<1>1. Init => LayoutOrKilled
  BY Numbers DEF Init, LayoutOrKilled, Layout, InSession, HoldsFile, HoldsData,
                 Transferring
<1>2. TypeOK /\ LayoutOrKilled /\ [Next]_vars => LayoutOrKilled'
  BY LayoutInductive
<1>3. TypeOK /\ LayoutOrKilled => NoDescriptorLeak
  BY LayoutImpliesNoLeak
<1> QED BY <1>1, <1>2, <1>3, TypeCorrect, PTL DEF Spec

-----------------------------------------------------------------------------
(* Logging in *)

\* What a step of a transfer, of the kernel or of the client leaves alone.
LEMMA SessionKept ==
    ASSUME Transfers \/ ControlPipeBreaks \/ DataPipeBreaks \/ ClientSends
             \/ ClientCloses \/ ClientResets \/ DataChannelBreaks
             \/ UNCHANGED vars
    PROVE  UNCHANGED <<logged_in, current_user, data_addr, auth, accepted>>
<1> USE DEF sess, history, InTransfer, GivesUp
<1>1. CASE Transfers
  BY <1>1 DEF Transfers, RetrOpen, RetrSocket, RetrConnect, RetrAnnounces,
     RetrFails, RetrBlock, RetrStops, RetrEnds, StorSocket, StorConnect, StorOpen,
     StorAnnounces, StorFails, StorBlock, StorStops, StorEnds, DataSocket, Proceeds
<1>2. CASE ~Transfers
  BY <1>2 DEF ControlPipeBreaks, DataPipeBreaks, Dies, ClientSends,
              ClientCloses, ClientResets, DataChannelBreaks, vars
<1> QED BY <1>1, <1>2

\* Those steps enter neither a transfer nor a new session.
LEMMA LabelKept ==
    ASSUME Transfers \/ ControlPipeBreaks \/ DataPipeBreaks \/ ClientSends
             \/ ClientCloses \/ ClientResets \/ DataChannelBreaks
             \/ UNCHANGED vars
    PROVE  \/ pc' = pc \/ pc' = "killed"
           \/ pc \in Transferring /\ pc' \in {"recv"} \cup Transferring
<1> USE DEF Transferring, GivesUp
<1>1. CASE Transfers
  BY <1>1 DEF Transfers, RetrOpen, RetrSocket, RetrConnect, RetrAnnounces,
     RetrFails, RetrBlock, RetrStops, RetrEnds, StorSocket, StorConnect, StorOpen,
     StorAnnounces, StorFails, StorBlock, StorStops, StorEnds, DataSocket, Proceeds
<1>2. CASE ~Transfers
  BY <1>2 DEF ControlPipeBreaks, DataPipeBreaks, Dies, ClientSends,
              ClientCloses, ClientResets, DataChannelBreaks, vars
<1> QED BY <1>1, <1>2

\* Every step keeps the login invariant.
LEMMA LoginInductive ==
    ASSUME TypeOK, LoginByLabel, LoginSound, [Next]_vars
    PROVE  LoginByLabel' /\ LoginSound'
<1> USE DEF LoginByLabel, LoginSound
<1>1. CASE Accept \/ AcceptFails
  BY <1>1 DEF Accept, AcceptFails, SessionInit, Transferring
<1>2. CASE Welcome
  BY <1>2 DEF Welcome, sess, Transferring
<1>3. CASE WelcomeFails \/ RecvFails \/ RecvEof \/ SessionCleanup \/ HandleQUIT
  <2>1. pc' \in {"accept", "cleanup"}
    BY <1>3 DEF WelcomeFails, RecvFails, RecvEof, SessionCleanup, HandleQUIT
  <2> QED BY <2>1 DEF Transferring
<1>4. CASE HandleUSER
  <2>1. pc = "recv" /\ pc' = "recv" /\ UNCHANGED <<logged_in, auth>>
    BY <1>4 DEF HandleUSER, Executes, Answers, history
  <2>2. current_user' = Empty => current_user = Empty
    <3>1. CASE line.arg = Empty
      BY <1>4, <3>1 DEF HandleUSER
    <3>2. CASE line.arg # Empty
      <4>1. line.arg \in Users /\ current_user' = Stored[line.arg]
        BY <1>4, <3>2, ArgumentTypes DEF HandleUSER, Executes, TypeOK
      <4> QED BY <4>1, NamesAssumption
    <3> QED BY <3>1, <3>2
  <2> QED BY <2>1, <2>2 DEF Transferring
<1>5. CASE HandlePASS
  <2>1. pc = "recv" /\ pc' = "recv"
    BY <1>5 DEF HandlePASS, Executes, Answers
  <2>2. CASE UNCHANGED <<logged_in, current_user, auth>>
    BY <2>1, <2>2 DEF Transferring
  <2>3. CASE /\ current_user # Empty /\ <<current_user, line.arg>> \in Accounts
             /\ auth' = current_user /\ current_user' = current_user
    <3>1. line.arg \in Passwords
      BY <2>3, NamesAssumption
    <3> QED BY <2>1, <2>3, <3>1 DEF Transferring
  <2>4. CASE ~logged_in'
    BY <2>1, <2>4 DEF Transferring
  <2>5. \/ UNCHANGED <<logged_in, current_user, auth>>
        \/ /\ current_user # Empty /\ <<current_user, line.arg>> \in Accounts
           /\ auth' = current_user /\ current_user' = current_user
        \/ ~logged_in'
    BY <1>5 DEF HandlePASS, CheckCredentials, SessionUnchanged, sess, history
  <2> QED BY <2>2, <2>3, <2>4, <2>5
<1>6. CASE HandleSYST \/ HandleTYPE \/ HandlePORT \/ HandleNOOP
             \/ UnknownCommand \/ TransferRefused
  <2>1. /\ pc = "recv" /\ pc' = "recv"
        /\ UNCHANGED <<logged_in, current_user, auth>>
    BY <1>6 DEF HandleSYST, HandleTYPE, HandlePORT, HandleNOOP, UnknownCommand,
                TransferRefused, Executes, Answers, SessionUnchanged, sess, history
  <2> QED BY <2>1 DEF Transferring
<1>7. CASE HandleRETR \/ HandleSTOR
  <2>1. /\ pc = "recv" /\ pc' \in {"retr_open", "stor_socket"} /\ logged_in
        /\ UNCHANGED <<logged_in, current_user, auth>>
    BY <1>7 DEF HandleRETR, HandleSTOR, TransferBegins, Executes, sess, history
  <2> QED BY <2>1 DEF Transferring
<1>8. CASE Transfers \/ ControlPipeBreaks \/ DataPipeBreaks \/ ClientSends
             \/ ClientCloses \/ ClientResets \/ DataChannelBreaks
             \/ UNCHANGED vars
  <2>1. UNCHANGED <<logged_in, current_user, auth>>
    BY <1>8, SessionKept
  <2>2. \/ pc' = pc \/ pc' = "killed"
        \/ pc \in Transferring /\ pc' \in {"recv"} \cup Transferring
    BY <1>8, LabelKept
  <2> QED BY <2>1, <2>2 DEF Transferring
<1> QED BY <1>1, <1>2, <1>3, <1>4, <1>5, <1>6, <1>7, <1>8
        DEF Next, Server, Handlers, Environment

\* A session is logged in only after a user and password of the ftpusers file,
\* and then it has a user name (LoginSound); for every such file.
THEOREM LoginIsSound == Spec => []LoginSound
<1>1. Init => LoginByLabel /\ LoginSound
  BY DEF Init, LoginByLabel, LoginSound, Transferring
<1>2. TypeOK /\ (LoginByLabel /\ LoginSound) /\ [Next]_vars
        => (LoginByLabel /\ LoginSound)'
  BY LoginInductive
<1> QED BY <1>1, <1>2, TypeCorrect, PTL DEF Spec

-----------------------------------------------------------------------------
(* The data address *)

\* Whatever PORTs were refused and whoever used the process before, the host a
\* transfer goes to is that of the last PORT answered 200 in this session, and
\* 0.0.0.0 when there was none: no refused PORT changes it, and session_init
\* clears what the session record held.
THEOREM HostIsAccepted == Spec => []HostFromAcceptedPort
<1> USE DEF HostFromAcceptedPort
<1>1. Init => HostFromAcceptedPort
  BY DEF Init, ZeroAddress
<1>2. TypeOK /\ HostFromAcceptedPort /\ [Next]_vars => HostFromAcceptedPort'
  <2> SUFFICES ASSUME TypeOK, HostFromAcceptedPort, [Next]_vars
               PROVE  HostFromAcceptedPort'
    OBVIOUS
  <2>1. CASE Accept \/ AcceptFails
    BY <2>1 DEF Accept, AcceptFails, SessionInit, ZeroAddress
  <2>2. CASE HandlePORT
    <3>1. CASE SessionUnchanged
      BY <3>1 DEF SessionUnchanged, sess, history
    <3>2. CASE /\ data_addr' = [data_addr EXCEPT !.port = PortOf(line.arg.pair)]
               /\ accepted' = accepted
      <4>1. data_addr'.host = data_addr.host
        BY <3>2 DEF TypeOK, Address
      <4> QED BY <3>2, <4>1
    <3>3. CASE /\ data_addr' = AddressNamed(line.arg) /\ accepted' = line.arg
               /\ line.arg # Malformed
      <4>1. line.arg \in PortArgs
        BY <2>2, <3>3, ArgumentTypes DEF HandlePORT, Executes, TypeOK
      <4>2. accepted' # NoPort
        BY <3>3, <4>1, LinesAssumption
      <4>3. data_addr'.host = AddressOf[accepted'.host]
        BY <3>3 DEF AddressNamed
      <4> QED BY <4>2, <4>3
    <3> QED BY <2>2, <3>1, <3>2, <3>3 DEF HandlePORT
  <2>3. CASE Welcome \/ WelcomeFails \/ RecvFails \/ RecvEof \/ SessionCleanup
               \/ HandleUSER \/ HandlePASS \/ HandleQUIT \/ HandleSYST
               \/ HandleTYPE \/ HandleNOOP \/ UnknownCommand \/ TransferRefused
               \/ HandleRETR \/ HandleSTOR
    <3>1. UNCHANGED <<data_addr, accepted>>
      BY <2>3 DEF Welcome, WelcomeFails, RecvFails, RecvEof, SessionCleanup,
         HandleUSER, HandlePASS, HandleQUIT, HandleSYST, HandleTYPE, HandleNOOP,
         UnknownCommand, TransferRefused, HandleRETR, HandleSTOR, TransferBegins,
         SessionUnchanged, sess, history
    <3> QED BY <3>1
  <2>4. CASE Transfers \/ ControlPipeBreaks \/ DataPipeBreaks \/ ClientSends
               \/ ClientCloses \/ ClientResets \/ DataChannelBreaks
               \/ UNCHANGED vars
    BY <2>4, SessionKept
  <2> QED BY <2>1, <2>2, <2>3, <2>4 DEF Next, Server, Handlers, Environment
<1> QED BY <1>1, <1>2, TypeCorrect, PTL DEF Spec

-----------------------------------------------------------------------------
(* What a transfer delivers *)

\* Adding the next block of the source to an initial part gives a longer one.
LEMMA NextBlock ==
    ASSUME NEW source \in Seq(Blocks), NEW dest \in Seq(Blocks),
           InitialPart(dest, source), Len(dest) < Len(source)
    PROVE  /\ InitialPart(Append(dest, source[Len(dest) + 1]), source)
           /\ Len(Append(dest, source[Len(dest) + 1])) = Len(dest) + 1
<1> DEFINE b == source[Len(dest) + 1]
           longer == Append(dest, b)
<1>1. b \in Blocks
  OBVIOUS
<1>2. /\ Len(longer) = Len(dest) + 1
      /\ \A i \in 1 .. Len(dest) : longer[i] = dest[i]
      /\ longer[Len(dest) + 1] = b
  BY <1>1, AppendProperties
<1>3. \A i \in 1 .. Len(longer) : longer[i] = source[i]
  <2> SUFFICES ASSUME NEW i \in 1 .. Len(longer) PROVE longer[i] = source[i]
    OBVIOUS
  <2>1. CASE i = Len(dest) + 1
    BY <1>2, <2>1
  <2>2. CASE i # Len(dest) + 1
    <3>1. i \in 1 .. Len(dest)
      BY <1>2, <2>2
    <3> QED BY <1>2, <3>1 DEF InitialPart
  <2> QED BY <2>1, <2>2
<1>4. Len(longer) <= Len(source)
  BY <1>2
<1> QED BY <1>2, <1>3, <1>4 DEF InitialPart

\* Every step of a transfer keeps the account of what has been copied.
LEMMA CopyInductive ==
    ASSUME TypeOK, FileIsThere, CopyProgress, [Next]_vars
    PROVE  CopyProgress'
<1>1. CASE pc' \notin Transferring
  BY <1>1 DEF CopyProgress, Copying, Transferring
<1>2. CASE UNCHANGED <<pc, xfer, files>>
  BY <1>2 DEF CopyProgress, CopyTracks
<1>3. CASE HandleRETR \/ HandleSTOR
  <2>1. /\ pc' \in {"retr_open", "stor_socket"}
        /\ xfer' = [NoTransfer EXCEPT !.name = line.arg]
    BY <1>3 DEF HandleRETR, HandleSTOR, TransferBegins
  <2> QED BY <2>1 DEF CopyProgress, NoTransfer, Transferring
<1>4. CASE RetrSocket \/ RetrConnect \/ StorSocket \/ StorConnect
  <2>1. /\ pc \in {"retr_socket", "retr_connect", "stor_socket", "stor_connect"}
        /\ pc' \in {"retr_connect", "retr_150", "stor_connect", "stor_open"}
        /\ UNCHANGED xfer
    BY <1>4 DEF RetrSocket, RetrConnect, StorSocket, StorConnect, DataSocket,
                Proceeds, locals
  <2> QED BY <2>1 DEF CopyProgress, Copying, Transferring
<1>5. CASE RetrOpen \/ StorOpen
  <2>1. pc \in {"retr_open", "stor_open"}
    BY <1>5 DEF RetrOpen, StorOpen
  <2>2. xfer.pos = 0 /\ xfer.got = <<>> /\ xfer.clean /\ xfer.name \in Names
    BY <2>1 DEF CopyProgress, Copying, Transferring, FileIsThere
  <2>3. \E content : xfer' = [xfer EXCEPT !.want = content]
    BY <1>5 DEF RetrOpen, StorOpen
  <2>4. xfer'.pos = 0 /\ xfer'.got = <<>> /\ xfer'.clean /\ xfer'.name = xfer.name
    BY <2>2, <2>3 DEF TypeOK, Transfer
  <2>5. CASE pc' = "retr_socket"
    BY <2>4, <2>5 DEF CopyProgress
  <2>6. CASE pc' = "stor_150" /\ StorOpen
    <3>1. files' = [files EXCEPT ![xfer.name] = <<>>]
      BY <2>6 DEF StorOpen
    <3>2. files'[xfer'.name] = <<>>
      BY <2>2, <2>4, <3>1 DEF TypeOK
    <3> QED BY <2>4, <2>6, <3>2 DEF CopyProgress
  <2> QED BY <1>5, <2>5, <2>6 DEF RetrOpen, StorOpen
<1>6. CASE RetrAnnounces
  <2>1. /\ pc = "retr_150" /\ pc' = "retr_loop" /\ UNCHANGED <<xfer, files>>
    BY <1>6 DEF RetrAnnounces, Proceeds, locals
  <2>2. files[xfer.name] \in Seq(Blocks)
    BY <2>1 DEF FileIsThere, TypeOK, Transferring, HoldsFile
  <2>3. xfer.pos = 0 /\ xfer.got = <<>>
    BY <2>1 DEF CopyProgress, Copying, Transferring
  <2>4. CopyTracks(<<>>, files[xfer.name])'
    BY <2>1, <2>2, <2>3 DEF CopyTracks, InitialPart
  <2> QED BY <2>1, <2>3, <2>4 DEF CopyProgress, Copying, Transferring
<1>7. CASE StorAnnounces
  <2>1. /\ pc = "stor_150" /\ pc' = "stor_loop" /\ UNCHANGED <<xfer, files>>
    BY <1>7 DEF StorAnnounces, Proceeds, locals
  <2>2. xfer.want \in Seq(Blocks)
    BY DEF TypeOK, Transfer
  <2>3. xfer.pos = 0 /\ files[xfer.name] = <<>>
    BY <2>1 DEF CopyProgress, Copying, Transferring
  <2>4. CopyTracks(files[xfer.name], xfer.want)'
    BY <2>1, <2>2, <2>3 DEF CopyTracks, InitialPart
  <2> QED BY <2>1, <2>4 DEF CopyProgress, Copying, Transferring
<1>8. CASE RetrBlock \/ RetrStops \/ (DataChannelBreaks /\ pc = "retr_loop")
  <2> DEFINE source == files[xfer.name]
  <2>1. /\ pc = "retr_loop" /\ pc' \in {"retr_loop", "retr_end"}
        /\ UNCHANGED files
    BY <1>8 DEF RetrBlock, RetrStops, DataChannelBreaks
  <2>2. source \in Seq(Blocks) /\ xfer \in Transfer
    BY <2>1 DEF FileIsThere, TypeOK, Transferring, HoldsFile
  <2>3. CopyTracks(xfer.got, source)
    BY <2>1 DEF CopyProgress
  <2>4. /\ xfer.pos \in Nat /\ xfer.got \in Seq(Blocks) /\ xfer.clean \in BOOLEAN
        /\ Len(source) \in Nat /\ Len(xfer.got) \in Nat
    BY <2>2 DEF Transfer
  <2>5. xfer'.name = xfer.name
    BY <1>8, <2>2, TransferUpdatesEmpty
    DEF RetrBlock, RetrStops, DataChannelBreaks, Transfer
  <2>6. CopyTracks(xfer.got, source)'
    <3>1. CASE RetrBlock /\ xfer.clean
      <4>1. Len(xfer.got) = xfer.pos /\ xfer.pos < Len(source)
        BY <2>3, <2>4, <3>1 DEF CopyTracks, RetrBlock
      <4>2. /\ xfer'.pos = xfer.pos + 1 /\ xfer'.clean = xfer.clean
            /\ xfer'.got = Append(xfer.got, source[Len(xfer.got) + 1])
        BY <2>2, <3>1, <4>1 DEF RetrBlock, Transfer
      <4>3. /\ InitialPart(xfer'.got, source) /\ Len(xfer'.got) = xfer'.pos
        BY <2>2, <2>3, <2>4, <4>1, <4>2, NextBlock DEF CopyTracks
      <4>4. pc' = "retr_loop" /\ xfer'.pos <= Len(source)
        BY <2>4, <3>1, <4>1, <4>2, <2>1 DEF RetrBlock
      <4> QED BY <2>1, <2>4, <2>5, <4>2, <4>3, <4>4 DEF CopyTracks
    <3>2. CASE RetrBlock /\ ~xfer.clean
      <4>1. /\ xfer'.pos = xfer.pos + 1 /\ xfer'.clean = xfer.clean
            /\ xfer'.got = xfer.got /\ pc' = "retr_loop"
        BY <2>1, <2>2, <3>2 DEF RetrBlock, Transfer
      <4>2. xfer.pos < Len(source)
        BY <3>2 DEF RetrBlock
      <4> QED BY <2>1, <2>3, <2>4, <2>5, <3>2, <4>1, <4>2 DEF CopyTracks
    <3>3. CASE UNCHANGED xfer /\ xfer.pos = Len(source)
      BY <2>1, <2>3, <2>4, <3>3 DEF CopyTracks
    <3>4. CASE xfer' = [xfer EXCEPT !.clean = FALSE]
      <4>1. /\ xfer'.pos = xfer.pos /\ xfer'.clean = FALSE
            /\ xfer'.got = xfer.got
        BY <2>2, <3>4 DEF Transfer
      <4> QED BY <2>1, <2>3, <2>4, <2>5, <4>1 DEF CopyTracks
    <3> QED BY <1>8, <3>1, <3>2, <3>3, <3>4
            DEF RetrBlock, RetrStops, DataChannelBreaks
  <2> QED BY <2>1, <2>6 DEF CopyProgress, Copying, Transferring
<1>9. CASE StorBlock \/ StorStops \/ (DataChannelBreaks /\ pc = "stor_loop")
  <2> DEFINE dest == files[xfer.name]
  <2>1. pc = "stor_loop" /\ pc' \in {"stor_loop", "stor_end"}
    BY <1>9 DEF StorBlock, StorStops, DataChannelBreaks
  <2>2. dest \in Seq(Blocks) /\ xfer \in Transfer /\ xfer.name \in Names
    BY <2>1 DEF FileIsThere, TypeOK, Transferring, HoldsFile
  <2>3. CopyTracks(dest, xfer.want)
    BY <2>1 DEF CopyProgress
  <2>4. /\ xfer.pos \in Nat /\ xfer.want \in Seq(Blocks) /\ xfer.clean \in BOOLEAN
        /\ Len(dest) \in Nat /\ Len(xfer.want) \in Nat
    BY <2>2 DEF Transfer
  <2>5. CopyTracks(dest, xfer.want)'
    <3>1. CASE StorBlock
      <4>1. /\ xfer.clean /\ Len(dest) = xfer.pos /\ xfer.pos < Len(xfer.want)
        BY <2>3, <2>4, <3>1 DEF CopyTracks, StorBlock
      <4>2. /\ xfer'.pos = xfer.pos + 1 /\ xfer'.clean = xfer.clean
            /\ xfer'.want = xfer.want /\ xfer'.name = xfer.name
        BY <2>2, <3>1 DEF StorBlock, Transfer
      <4>3. dest' = Append(dest, xfer.want[Len(dest) + 1])
        BY <2>2, <3>1, <4>1, <4>2 DEF StorBlock, TypeOK
      <4>4. InitialPart(dest', xfer.want) /\ Len(dest') = xfer'.pos
        BY <2>2, <2>3, <2>4, <4>1, <4>2, <4>3, NextBlock DEF CopyTracks
      <4>5. pc' = "stor_loop" /\ xfer'.pos <= Len(xfer.want)
        BY <2>1, <2>4, <3>1, <4>1, <4>2 DEF StorBlock
      <4> QED BY <2>4, <4>2, <4>4, <4>5 DEF CopyTracks
    <3>2. CASE UNCHANGED <<xfer, files>> /\ (xfer.pos = Len(xfer.want) \/ ~xfer.clean)
      BY <2>1, <2>3, <2>4, <3>2 DEF CopyTracks
    <3>3. CASE /\ xfer' = [xfer EXCEPT !.pos = @ + 1, !.clean = FALSE]
               /\ xfer.pos < Len(xfer.want) /\ UNCHANGED files
      <4>1. /\ xfer'.pos = xfer.pos + 1 /\ xfer'.clean = FALSE
            /\ xfer'.want = xfer.want /\ xfer'.name = xfer.name
        BY <2>2, <3>3 DEF Transfer
      <4> QED BY <2>3, <2>4, <3>3, <4>1 DEF CopyTracks
    <3>4. CASE xfer' = [xfer EXCEPT !.clean = FALSE] /\ UNCHANGED files
      <4>1. /\ xfer'.pos = xfer.pos /\ xfer'.clean = FALSE
            /\ xfer'.want = xfer.want /\ xfer'.name = xfer.name
        BY <2>2, <3>4 DEF Transfer
      <4> QED BY <2>3, <2>4, <3>4, <4>1 DEF CopyTracks
    <3> QED BY <1>9, <3>1, <3>2, <3>3, <3>4
            DEF StorBlock, StorStops, DataChannelBreaks
  <2> QED BY <2>1, <2>5 DEF CopyProgress, Copying, Transferring
<1>10. CASE Accept \/ AcceptFails \/ Welcome \/ WelcomeFails \/ RecvFails
              \/ RecvEof \/ SessionCleanup \/ HandleUSER \/ HandlePASS
              \/ HandleQUIT \/ HandleSYST \/ HandleTYPE \/ HandlePORT
              \/ HandleNOOP \/ UnknownCommand \/ TransferRefused \/ RetrFails
              \/ RetrEnds \/ StorFails \/ StorEnds \/ ControlPipeBreaks
              \/ DataPipeBreaks
  <2>1. pc' \in {"accept", "welcome", "recv", "cleanup", "killed"}
    BY <1>10 DEF Accept, AcceptFails, Welcome, WelcomeFails, RecvFails, RecvEof,
       SessionCleanup, HandleUSER, HandlePASS, HandleQUIT, HandleSYST, HandleTYPE,
       HandlePORT, HandleNOOP, UnknownCommand, TransferRefused, Answers, RetrFails,
       RetrEnds, StorFails, StorEnds, GivesUp, ControlPipeBreaks, DataPipeBreaks,
       Dies
  <2> QED BY <1>1, <2>1 DEF Transferring
<1>11. CASE ClientSends \/ ClientCloses \/ ClientResets \/ UNCHANGED vars
  BY <1>2, <1>11 DEF ClientSends, ClientCloses, ClientResets, vars, locals
<1>12. DataChannelBreaks => pc \in {"retr_loop", "stor_loop"}
  BY DEF DataChannelBreaks
<1> QED
  BY <1>3, <1>4, <1>5, <1>6, <1>7, <1>8, <1>9, <1>10, <1>11, <1>12
  DEF Next, Server, Handlers, Transfers, Environment

\* What arrives is an initial part of what was sent, and all of it when every
\* read, write, send and recv did its part (FaithfulTransfer), for files of
\* any length.
THEOREM TransfersAreFaithful == Spec => []FaithfulTransfer
<1>1. Init => CopyProgress
  BY DEF Init, CopyProgress, Copying, Transferring
<1>2. TypeOK /\ FileIsThere /\ CopyProgress /\ [Next]_vars => CopyProgress'
  BY CopyInductive
<1>3. TypeOK /\ FileIsThere /\ CopyProgress => FaithfulTransfer
  <2> SUFFICES ASSUME TypeOK, FileIsThere, CopyProgress PROVE FaithfulTransfer
    OBVIOUS
  <2>1. ASSUME pc = "retr_end", xfer.clean PROVE xfer.got = files[xfer.name]
    <3>1. CopyTracks(xfer.got, files[xfer.name])
      BY <2>1 DEF CopyProgress
    <3>2. files[xfer.name] \in Seq(Blocks) /\ xfer.got \in Seq(Blocks)
      BY <2>1 DEF FileIsThere, TypeOK, Transferring, HoldsFile, Transfer
    <3> QED BY <2>1, <3>1, <3>2, SeqEqual DEF CopyTracks, InitialPart
  <2>2. ASSUME pc = "stor_end", xfer.clean PROVE files[xfer.name] = xfer.want
    <3>1. CopyTracks(files[xfer.name], xfer.want)
      BY <2>2 DEF CopyProgress
    <3>2. files[xfer.name] \in Seq(Blocks) /\ xfer.want \in Seq(Blocks)
      BY <2>2 DEF FileIsThere, TypeOK, Transferring, HoldsFile, Transfer
    <3> QED BY <2>2, <3>1, <3>2, SeqEqual DEF CopyTracks, InitialPart
  <2> QED BY <2>1, <2>2 DEF FaithfulTransfer, CopyProgress, CopyTracks
<1> QED BY <1>1, <1>2, <1>3, TypeCorrect, FileExists, PTL DEF Spec

-----------------------------------------------------------------------------
\* A file changes only under a STOR of a logged-in session that has its data
\* connection open (FilesChangeUnderTransfer).
THEOREM FilesAreProtected == Spec => FilesChangeUnderTransfer
<1>1. Init => LayoutOrKilled /\ LoginByLabel /\ LoginSound
  BY Numbers DEF Init, LayoutOrKilled, Layout, InSession, HoldsFile, HoldsData,
                 Transferring, LoginByLabel, LoginSound
<1>2. TypeOK /\ (LayoutOrKilled /\ LoginByLabel /\ LoginSound) /\ [Next]_vars
        => (LayoutOrKilled /\ LoginByLabel /\ LoginSound)'
  BY LayoutInductive, LoginInductive
<1>3. TypeOK /\ LayoutOrKilled /\ LoginByLabel /\ [Next]_vars
        => [\A n \in Names : files'[n] # files[n] =>
              /\ logged_in /\ xfer.name = n
              /\ xfer_sock \in Fd /\ fdtab[xfer_sock] = "data"]_vars
  <2> SUFFICES ASSUME TypeOK, LayoutOrKilled, LoginByLabel, [Next]_vars,
                      NEW n \in Names, files'[n] # files[n]
               PROVE  /\ logged_in /\ xfer.name = n
                      /\ xfer_sock \in Fd /\ fdtab[xfer_sock] = "data"
    OBVIOUS
  <2>1. StorOpen \/ StorBlock
    BY DEF Next, Server, Handlers, Transfers, Environment, vars, Accept,
       AcceptFails, Welcome, WelcomeFails, RecvFails, RecvEof, SessionCleanup,
       HandleUSER, HandlePASS, HandleQUIT, HandleSYST, HandleTYPE, HandlePORT,
       HandleNOOP, UnknownCommand, TransferRefused, HandleRETR, HandleSTOR,
       TransferBegins, Answers, RetrOpen, RetrSocket, RetrConnect, RetrAnnounces,
       RetrFails, RetrBlock, RetrStops, RetrEnds, StorSocket, StorConnect,
       StorAnnounces, StorFails, StorStops, StorEnds, DataSocket, Proceeds,
       ControlPipeBreaks, DataPipeBreaks, Dies, ClientSends, ClientCloses,
       ClientResets, DataChannelBreaks
  <2>2. pc \in {"stor_open", "stor_loop"} /\ xfer.name = n
    <3>1. pc \in {"stor_open", "stor_loop"}
      BY <2>1 DEF StorOpen, StorBlock
    <3>2. \E content : files' = [files EXCEPT ![xfer.name] = content]
      BY <2>1 DEF StorOpen, StorBlock
    <3> QED BY <3>1, <3>2 DEF TypeOK
  <2>3. Layout /\ xfer_sock \in Fd /\ logged_in
    BY <2>2 DEF LayoutOrKilled, Layout, HoldsData, LoginByLabel, Transferring
  <2> QED BY <2>2, <2>3 DEF Layout
<1> QED BY <1>1, <1>2, <1>3, TypeCorrect, PTL DEF Spec, FilesChangeUnderTransfer

-----------------------------------------------------------------------------
(* Replies *)

\* Sending to a client that has been sent nothing, or 150.
LEMMA Sending ==
    ASSUME NEW c \in Codes, NEW d \in Codes
    PROVE  /\ <<>> \o <<c>> = <<c>>
           /\ <<>> \o <<c, d>> = <<c, d>>
           /\ <<>> \o <<>> = <<>>
           /\ <<c>> \o <<d>> = <<c, d>>
<1>1. <<>> \in Seq(Codes) /\ <<c>> \in Seq(Codes) /\ <<d>> \in Seq(Codes)
      /\ <<c, d>> \in Seq(Codes)
  OBVIOUS
<1>2. /\ <<>> \o <<c>> = <<c>> /\ <<>> \o <<c, d>> = <<c, d>>
      /\ <<>> \o <<>> = <<>>
  BY <1>1, ConcatEmptySeq
<1>3. <<c>> \o <<d>> = <<c, d>>
  <2>1. <<c>> \o <<d>> = Append(<<c>>, d)
    BY <1>1, AppendIsConcat
  <2>2. Append(<<c>>, d) = <<c, d>>
    <3> DEFINE one == <<c>>  two == <<c, d>>  sent == Append(one, d)
    <3>1. Len(one) = 1 /\ one[1] = c /\ Len(two) = 2 /\ two[1] = c /\ two[2] = d
      OBVIOUS
    <3>2. sent \in Seq(Codes) /\ Len(sent) = 2 /\ sent[1] = c /\ sent[2] = d
      BY <1>1, <3>1, AppendProperties
    <3> HIDE DEF one, two, sent
    <3>3. \A i \in 1 .. 2 : sent[i] = two[i]
      BY <3>1, <3>2
    <3>4. two \in Seq(Codes)
      BY <1>1 DEF two
    <3> QED BY <3>1, <3>2, <3>3, <3>4, SeqEqual DEF one, two, sent
  <2> QED BY <2>1, <2>2
<1> QED BY <1>2, <1>3

\* A step that leaves every session owes nothing to anybody.
LEMMA OutsideReplies ==
    ASSUME pc' \notin {"recv"} \cup Transferring, line' = NoLine
    PROVE  RepliesKept'
BY DEF RepliesKept, RepliesByLabel, ReplyDiscipline, ReplyTellsState, Transferring,
       Copying

\* A step after which the client has been sent one final reply, no data
\* transfer's, that is true of the session.
LEMMA SingleReply ==
    ASSUME pc' = "recv", line' = NoLine, NEW codes, replies' = codes,
           \/ codes \in {<<c>> : c \in Codes \ {Text, 150}}
           \/ codes = <<Text, 200>>,
           codes[1] = 530 => ~logged_in',
           codes[1] = 230 => logged_in' /\ auth' = current_user',
           codes[1] = 331 => current_user' # Empty
    PROVE  RepliesKept'
<1>1. codes # <<150, 226>>
  BY DEF Text
<1>2. RepliesByLabel'
  BY DEF RepliesByLabel, Transferring, Copying
<1>3. ReplyDiscipline'
  BY DEF ReplyDiscipline
<1>4. ReplyTellsState'
  BY <1>1 DEF ReplyTellsState
<1> QED BY <1>2, <1>3, <1>4 DEF RepliesKept

\* A handler that answers a waiting command sends these codes and no others.
LEMMA AnswerReplies ==
    ASSUME RepliesByLabel, pc = "recv", line # NoLine,
           NEW codes, Answers(codes),
           \/ codes \in {<<c>> : c \in Codes \ {Text, 150}}
           \/ codes = <<Text, 200>>
    PROVE  replies' = codes /\ pc' = "recv" /\ line' = NoLine
<1>1. replies = <<>> /\ replies' = replies \o codes /\ pc' = "recv" /\ line' = NoLine
  BY DEF RepliesByLabel, Answers
<1>2. <<>> \o codes = codes
  BY Sending, Members
<1> QED BY <1>1, <1>2

\* The replies of the handlers that only touch the session.
LEMMA HandlerReplies ==
    ASSUME TypeOK, RepliesByLabel,
           HandleUSER \/ HandlePASS \/ HandleSYST \/ HandleTYPE
             \/ HandlePORT \/ HandleNOOP \/ UnknownCommand \/ TransferRefused
    PROVE  RepliesKept'
<1>1. pc = "recv" /\ line # NoLine /\ line \in Lines
  BY DEF HandleUSER, HandlePASS, HandleSYST, HandleTYPE, HandlePORT, HandleNOOP,
         UnknownCommand, TransferRefused, Executes, TypeOK
<1>2. ASSUME NEW c \in Codes \ {Text, 150}, Answers(<<c>>),
             c = 530 => ~logged_in',
             c = 230 => logged_in' /\ auth' = current_user',
             c = 331 => current_user' # Empty
      PROVE  RepliesKept'
  <2>1. replies' = <<c>> /\ pc' = "recv" /\ line' = NoLine
    BY <1>1, <1>2, AnswerReplies
  <2>2. <<c>>[1] = c
    OBVIOUS
  <2> QED BY <1>2, <2>1, <2>2, SingleReply
<1>3. CASE HandleUSER
  <2>1. CASE line.arg = Empty
    <3>1. Answers(<<501>>)
      BY <1>3, <2>1 DEF HandleUSER
    <3> QED BY <1>2, <3>1 DEF Codes, Text
  <2>2. CASE line.arg # Empty
    <3>1. Answers(<<331>>) /\ current_user' = Stored[line.arg]
      BY <1>3, <2>2 DEF HandleUSER
    <3>2. line.arg \in Users
      BY <1>1, <1>3, <2>2, ArgumentTypes DEF HandleUSER, Executes
    <3>3. current_user' # Empty
      BY <3>1, <3>2, NamesAssumption
    <3> QED BY <1>2, <3>1, <3>3 DEF Codes, Text
  <2> QED BY <2>1, <2>2
<1>4. CASE HandlePASS
  <2>1. \/ Answers(<<503>>)
        \/ Answers(<<501>>)
        \/ Answers(<<230>>) /\ logged_in' = TRUE /\ auth' = current_user
             /\ UNCHANGED current_user
        \/ Answers(<<530>>) /\ logged_in' = FALSE
    BY <1>4 DEF HandlePASS
  <2>2. CASE Answers(<<503>>) \/ Answers(<<501>>)
    BY <1>2, <2>2 DEF Codes, Text
  <2>3. CASE Answers(<<230>>) /\ logged_in' = TRUE /\ auth' = current_user
               /\ UNCHANGED current_user
    BY <1>2, <2>3 DEF Codes, Text
  <2>4. CASE Answers(<<530>>) /\ logged_in' = FALSE
    BY <1>2, <2>4 DEF Codes, Text
  <2> QED BY <2>1, <2>2, <2>3, <2>4
<1>5. CASE HandleSYST \/ HandleNOOP \/ UnknownCommand
  <2>1. \E c \in {200, 215, 500, 502} : Answers(<<c>>)
    BY <1>5 DEF HandleSYST, HandleNOOP, UnknownCommand
  <2> QED BY <1>2, <2>1 DEF Codes, Text
<1>6. CASE HandleTYPE
  <2>1. CASE Answers(<<Text, 200>>)
    <3>1. replies' = <<Text, 200>> /\ pc' = "recv" /\ line' = NoLine
      BY <1>1, <2>1, AnswerReplies
    <3>2. <<Text, 200>>[1] \notin {530, 230, 331}
      BY DEF Text
    <3> QED BY <3>1, <3>2, SingleReply
  <2>2. CASE Answers(<<530>>) /\ ~logged_in
    <3>1. logged_in' = logged_in
      BY <1>6 DEF HandleTYPE, SessionUnchanged, sess
    <3> QED BY <1>2, <2>2, <3>1 DEF Codes, Text
  <2>3. CASE Answers(<<504>>)
    BY <1>2, <2>3 DEF Codes, Text
  <2> QED BY <1>6, <2>1, <2>2, <2>3 DEF HandleTYPE
<1>7. CASE HandlePORT \/ TransferRefused
  <2>1. UNCHANGED logged_in
    BY <1>7 DEF HandlePORT, TransferRefused, SessionUnchanged, sess
  <2>2. CASE Answers(<<530>>) /\ ~logged_in
    BY <1>2, <2>1, <2>2 DEF Codes, Text
  <2>3. CASE \E c \in {200, 501, 503} : Answers(<<c>>)
    BY <1>2, <2>3 DEF Codes, Text
  <2> QED BY <1>7, <2>2, <2>3 DEF HandlePORT, TransferRefused
<1> QED BY <1>3, <1>4, <1>5, <1>6, <1>7

\* The replies of a transfer: one code for an early return, 226 after 150, and
\* nothing between.
LEMMA TransferReplies ==
    ASSUME TypeOK, LoginByLabel, RepliesByLabel, Transfers
    PROVE  RepliesKept'
<1>1. UNCHANGED <<logged_in, current_user, data_addr, auth, accepted>>
  BY SessionKept
<1>2. pc \in Transferring /\ UNCHANGED line
  BY DEF Transfers, RetrOpen, RetrSocket, RetrConnect, RetrAnnounces, RetrFails,
     RetrBlock, RetrStops, RetrEnds, StorSocket, StorConnect, StorOpen,
     StorAnnounces, StorFails, StorBlock, StorStops, StorEnds, DataSocket,
     Proceeds, GivesUp, InTransfer, Transferring
<1>3. line = NoLine /\ line' = NoLine
  <2>1. "recv" \notin Transferring
    BY DEF Transferring
  <2> QED BY <1>2, <2>1 DEF RepliesByLabel
<1>4. logged_in /\ data_addr.port # 0
  BY <1>2 DEF LoginByLabel, RepliesByLabel
<1>5. ASSUME NEW c \in {425, 550}, GivesUp(c), pc \in Transferring \ Copying
      PROVE  RepliesKept'
  <2>1. c \in Codes
    BY <1>5 DEF Codes
  <2>2. replies' = replies \o <<c>> /\ replies = <<>> /\ pc' = "recv"
    BY <1>5 DEF GivesUp, RepliesByLabel
  <2>3. replies' = <<c>>
    BY <2>1, <2>2, Sending
  <2>4. <<c>>[1] \notin {530, 230, 331} /\ c \notin {Text, 150}
    BY <1>5 DEF Text
  <2> QED BY <1>3, <2>1, <2>2, <2>3, <2>4, SingleReply
<1>6. CASE RetrFails \/ StorFails
  <2>1. /\ pc \in {"retr_open", "retr_socket", "retr_connect", "stor_socket",
                   "stor_connect", "stor_open"}
        /\ \E c \in {425, 550} : GivesUp(c)
    BY <1>6 DEF RetrFails, StorFails
  <2>2. pc \in Transferring \ Copying
    BY <2>1 DEF Transferring, Copying
  <2> QED BY <1>5, <2>1, <2>2
<1>7. CASE RetrEnds \/ StorEnds
  <2>1. GivesUp(226) /\ pc \in Copying
    BY <1>7 DEF RetrEnds, StorEnds, Copying
  <2>2. replies' = <<150>> \o <<226>> /\ pc' = "recv"
    BY <2>1 DEF GivesUp, RepliesByLabel
  <2>3. replies' = <<150, 226>>
    BY <2>2, Sending, Members
  <2>4. RepliesByLabel'
    BY <1>3, <2>2 DEF RepliesByLabel, Transferring, Copying
  <2>5. ReplyDiscipline'
    BY <2>3 DEF ReplyDiscipline
  <2>6. ReplyTellsState'
    <3>1. <<150, 226>> \notin {<<530>>, <<230>>, <<331>>}
      OBVIOUS
    <3> QED BY <1>1, <1>4, <2>3, <3>1 DEF ReplyTellsState
  <2> QED BY <2>4, <2>5, <2>6 DEF RepliesKept
<1>8. CASE RetrAnnounces \/ StorAnnounces
  <2>1. /\ pc \in {"retr_150", "stor_150"} /\ pc' \in {"retr_loop", "stor_loop"}
        /\ replies' = replies \o <<150>>
    BY <1>8 DEF RetrAnnounces, StorAnnounces, Proceeds
  <2>2. replies' = <<>> \o <<150>>
    BY <2>1 DEF RepliesByLabel, Transferring, Copying
  <2>3. replies' = <<150>>
    BY <2>2, Sending, Members
  <2>4. pc' \in Copying /\ pc' # "recv"
    BY <2>1 DEF Copying
  <2> QED BY <1>1, <1>3, <1>4, <2>3, <2>4
          DEF RepliesKept, RepliesByLabel, ReplyDiscipline, ReplyTellsState
<1>9. CASE RetrOpen \/ RetrSocket \/ RetrConnect \/ StorSocket \/ StorConnect
             \/ StorOpen
  <2>1. /\ pc \in Transferring \ Copying /\ pc' \in Transferring \ Copying
        /\ replies' = replies \/ replies' = replies \o <<>>
    BY <1>9 DEF RetrOpen, RetrSocket, RetrConnect, StorSocket, StorConnect,
       StorOpen, DataSocket, Proceeds, Transferring, Copying
  <2>2. replies = <<>>
    BY <2>1 DEF RepliesByLabel
  <2>3. replies' = <<>>
    BY <2>1, <2>2, Sending, Members
  <2>4. pc' # "recv"
    BY <2>1 DEF Transferring
  <2> QED BY <1>1, <1>3, <1>4, <2>1, <2>3, <2>4
          DEF RepliesKept, RepliesByLabel, ReplyDiscipline, ReplyTellsState
<1>10. CASE RetrBlock \/ RetrStops \/ StorBlock \/ StorStops
  <2>1. pc \in Copying /\ pc' \in Copying /\ UNCHANGED replies
    BY <1>10 DEF RetrBlock, RetrStops, StorBlock, StorStops, Copying
  <2>2. pc' # "recv" /\ replies' = <<150>>
    BY <2>1 DEF Copying, RepliesByLabel
  <2> QED BY <1>1, <1>3, <1>4, <2>1, <2>2
          DEF RepliesKept, RepliesByLabel, ReplyDiscipline, ReplyTellsState
<1> QED BY <1>6, <1>7, <1>8, <1>9, <1>10 DEF Transfers

\* Every step keeps the account of the replies.
LEMMA RepliesInductive ==
    ASSUME TypeOK, LoginByLabel, RepliesKept, [Next]_vars
    PROVE  RepliesKept'
<1>0. RepliesByLabel /\ ReplyDiscipline /\ ReplyTellsState
  BY DEF RepliesKept
<1>1. CASE Accept \/ AcceptFails \/ WelcomeFails \/ RecvFails \/ RecvEof
             \/ SessionCleanup \/ HandleQUIT \/ ControlPipeBreaks \/ DataPipeBreaks
  <2>1. pc' \in {"accept", "welcome", "cleanup", "killed"}
    BY <1>1 DEF Accept, AcceptFails, WelcomeFails, RecvFails, RecvEof,
       SessionCleanup, HandleQUIT, ControlPipeBreaks, DataPipeBreaks, Dies
  <2>2. line' = NoLine
    <3>1. CASE Accept \/ AcceptFails
      <4>1. pc = "accept" /\ UNCHANGED line
        BY <3>1 DEF Accept, AcceptFails
      <4> QED BY <1>0, <4>1 DEF RepliesByLabel
    <3>2. CASE ~(Accept \/ AcceptFails)
      BY <1>1, <3>2 DEF WelcomeFails, RecvFails, RecvEof, SessionCleanup,
         HandleQUIT, ControlPipeBreaks, DataPipeBreaks, Dies
    <3> QED BY <3>1, <3>2
  <2> QED BY <2>1, <2>2, OutsideReplies DEF Transferring
<1>2. CASE Welcome
  <2>1. pc' = "recv" /\ replies' = <<220>> /\ line' = NoLine
    BY <1>0, <1>2 DEF Welcome, RepliesByLabel
  <2>2. <<220>>[1] \notin {530, 230, 331} /\ 220 \in Codes \ {Text, 150}
    BY DEF Codes, Text
  <2> QED BY <2>1, <2>2, SingleReply
<1>3. CASE HandleUSER \/ HandlePASS \/ HandleSYST \/ HandleTYPE
             \/ HandlePORT \/ HandleNOOP \/ UnknownCommand \/ TransferRefused
  BY <1>0, <1>3, HandlerReplies
<1>4. CASE HandleRETR \/ HandleSTOR
  <2>1. /\ pc = "recv" /\ line # NoLine /\ line' = NoLine
        /\ pc' \in {"retr_open", "stor_socket"}
        /\ data_addr.port # 0 /\ UNCHANGED <<data_addr, replies>>
    BY <1>4 DEF HandleRETR, HandleSTOR, TransferBegins, Executes, sess
  <2>2. replies' = <<>>
    BY <1>0, <2>1 DEF RepliesByLabel
  <2> QED BY <2>1, <2>2 DEF RepliesKept, RepliesByLabel, ReplyDiscipline,
          ReplyTellsState, Transferring, Copying
<1>5. CASE Transfers
  BY <1>0, <1>5, TransferReplies
<1>6. CASE ClientSends
  <2>1. /\ pc' = "recv" /\ line' # NoLine /\ replies' = <<>>
    BY <1>6, LinesAssumption DEF ClientSends
  <2> QED BY <2>1 DEF RepliesKept, RepliesByLabel, ReplyDiscipline,
          ReplyTellsState, Transferring, Copying
<1>7. CASE ClientCloses \/ ClientResets \/ DataChannelBreaks \/ UNCHANGED vars
  <2>1. UNCHANGED <<pc, line, replies, logged_in, auth, current_user, data_addr>>
    BY <1>7 DEF ClientCloses, ClientResets, DataChannelBreaks, vars, sess, history
  <2> QED BY <1>0, <2>1
          DEF RepliesKept, RepliesByLabel, ReplyDiscipline, ReplyTellsState
<1> QED BY <1>1, <1>2, <1>3, <1>4, <1>5, <1>6, <1>7
        DEF Next, Server, Handlers, Environment

\* The account of the replies holds in every reachable state.
THEOREM RepliesAccounted == Spec => []RepliesKept
<1>1. Init => LoginByLabel /\ LoginSound /\ RepliesKept
  BY DEF Init, LoginByLabel, LoginSound, RepliesKept, RepliesByLabel,
         ReplyDiscipline, ReplyTellsState, Transferring, Copying
<1>2. TypeOK /\ (LoginByLabel /\ LoginSound /\ RepliesKept) /\ [Next]_vars
        => (LoginByLabel /\ LoginSound /\ RepliesKept)'
  BY LoginInductive, RepliesInductive
<1> QED BY <1>1, <1>2, TypeCorrect, PTL DEF Spec

\* Every command gets one final reply, after at most one preliminary line, on
\* every path through the handlers and their error returns (ReplyDiscipline).
THEOREM RepliesAreDisciplined == Spec => []ReplyDiscipline
<1>1. RepliesKept => ReplyDiscipline
  BY DEF RepliesKept
<1> QED BY <1>1, RepliesAccounted, PTL

\* 530, 230, 331 and 226 tell the client the truth about its session, whichever
\* handler sent them (ReplyTellsState).
THEOREM RepliesTellState == Spec => []ReplyTellsState
<1>1. RepliesKept => ReplyTellsState
  BY DEF RepliesKept
<1> QED BY <1>1, RepliesAccounted, PTL
=============================================================================
