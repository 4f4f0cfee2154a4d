# Specifications of AUS-Redes-II

The repository holds the programs of a networks course: `ausftp`, an FTP server
in an iterative and in a concurrent build; `Primer ftp`, an echo server and its
client; and `Soap Server`, a calculator over SOAP with code generated by gSOAP.
This directory specifies them in TLA+, checks the specifications with TLC and
proves what matters most of them with TLAPS. `PROJECT.json` maps every
definition to its lines of the source, lists the runs, a mutant for each
property, the hazards of the code and the theorems.

To run a check: `tlc -config X.cfg M`. To check the proofs: `tlapm M.tla`.

## 1. Inventory

| Component | State | Operations | Specified in |
|---|---|---|---|
| Control protocol (`pi.c`, `handlers.c`, `responses.h`) | the line just received, the reply | `welcome`, `getexe_command`, nine handlers | `FtpSession`, `ControlChannel` |
| Session (`session.c`) | `ftp_session_t`: sockets, login, user, data address | `session_init`, `session_cleanup` | `FtpSession` |
| Data transfer (`handlers.c` RETR/STOR, `dtp.c`) | open file, data socket, the block being copied | one call after another, each of which may fail | `FtpSession`, `SharedFiles` |
| Helpers (`utils.c`) | the descriptor table | `close_fd`, `safe_dprintf` | `FtpSession` |
| Iterative server (`iterative/main.c`, `server.c`) | listener, one connection | accept, serve, close | `FtpSession`, `FtpIterative` |
| Signals of it (`iterative/signals.c`) | `server_socket`, dispositions, masks | two handlers | `FtpIterative` |
| Start (`arguments.c`, `server_init`) | `struct arguments`, the socket in the making | `parse_opt`, `server_init` | `FtpStartup` |
| Concurrent server (`concurrent/main.c`) | listener and connections of a group of processes | accept, fork, close, serve, exit | `FtpConcurrent`, `SharedFiles` |
| Signals of it (`concurrent/signals.c`) | dispositions, masks, process group | `setup_signals`, `setup_child_signals`, three handlers, `killpg` | `FtpConcurrent` |
| Echo programs (`echos.c`, `echoc.c`) | one connection, one buffer, the descriptor table | accept, recv, send | `Echo` |
| Calculator (`calcs.c`, `calcc.c`, `soapServer.c`, `soapClient.c`) | one connection, `errno` | five operations, their stubs and calls | `CalcService` |
| Serializers (`soapC.c`, `soapH.h`, `soapStub.h`; generated) | none | put and get of requests, responses and faults | `CalcMessages` |

How they interact. A client talks to one process over its control connection;
that process opens a second connection to the address the client gave with PORT.
In the iterative build the process of the listener serves the session itself,
and other clients wait in the queue of the kernel. In the concurrent build each
session runs in a child that has inherited the listener, the connection, the
signal dispositions and the process group. Handlers interrupt the program
anywhere and share `server_socket` and `current_sess` with it. The calculator
serves one connection at a time, waits for its request without a limit, and shares
`errno` between requests; a caller meets it through the generated stubs or writes
its own messages.

What is hard here, and what would make each component correct:

- **Session**: `sess` is static and reused for the next client; every call of a
  transfer may fail, each with its own way out; a second `close` follows a failed
  `recv`. Correct when no path leaks a descriptor, no login or address outlives
  its session, and each command is answered once by a reply that tells the truth.
- **Control connection**: TCP cuts and joins lines, and one `recv` is taken for one
  command. Correct when nothing but what a client wrote is ever taken for a
  command, and a client that waits for its answers gets one for each line.
- **Transfer**: copy loops with short reads and writes, connections that are
  reset, and SIGPIPE. Correct when the copy is an initial part of the source and
  an old file survives a STOR that never got its connection. In the concurrent build
  several copy loops meet in one file, without locks: correct when an upload that
  nobody disturbs is whole, and a reader never goes back to an earlier version.
- **Iterative server**: one session delays or, with SIGPIPE, ends everybody;
  failed accepts; signals at any point, within handlers too.
- **Concurrent server**: who still has which socket after `fork`; signals between
  `fork` and `setup_child_signals`, and in the parent before `setup_signals`;
  `killpg` that hits its caller; children born during a shutdown. Correct when
  clients are served as if by one server, and a shutdown forgets nobody.
- **Start**: options and positions that name the same thing; a check of the
  address before its use; five calls that may fail, each with a way out of its own;
  a server before it that still has the port. Correct when the server listens as
  asked, or not at all, and only a real conflict keeps it from its port.
- **Echo**: a byte stream in any portions, a stale buffer, a descriptor that is
  not closed.
- **Calculator**: `errno` from an earlier request, requests with elements missing,
  doubled or referred to, independent elements that are decoded by reference or by
  type, a caller that stalls, a loop that ends with the first error. Correct when an
  answer is that of the caller's own operation and numbers, and a fault is
  deserved.

The "hazards" of `PROJECT.json` give the line where each of these bites.

## 2. Modules

```
ConnectionService              what a connection may expect of either build
   ^ implemented by                ^ implemented by
FtpIterative                   FtpConcurrent  <- MCFtpConcurrent
   ^                               ^
FtpIterativeProofs             FtpConcurrentProofs

FtpSession <- MCFtpSession     FtpStartup <- MCFtpStartup      Echo
   ^                               ^                             ^
FtpSessionProofs               FtpStartupProofs              EchoProofs

ControlChannel <- MCControlChannel          SharedFiles <- MCSharedFiles
   ^                                           ^
ControlChannelProofs                        SharedFilesProofs

CalcMessages <- CalcService <- MCCalcService
                   ^
             CalcServiceProofs
```

Arrows with `<-` are EXTENDS; the implementations instantiate
`ConnectionService` with a refinement mapping.

**FtpSession**: one process from accept to accept. A handler that only looks at
the session and answers is one action (`HandlePASS` is all of `handle_PASS`,
`check_credentials` included); RETR and STOR are one action per system call
because each can fail and each failure closes other things. `fdtab` is the
kernel's descriptor table: `open`, `socket` and `accept` return the lowest free
number, or fail when there is none, so that a leak, or a number closed twice
and reused in between, shows. A line received is a record of verb and argument;
a text is a model value, and a PORT argument a text for the host and the pair
`p1, p2`. `AddressOf` is what `inet_pton` makes of the 15 characters that `snprintf`
leaves of that text: an address, 0.0.0.0 among them, or none; a text that is too long
may give the address of another. The port is `p1 * 256 + p2` cut to 16 bits.
`accepted` remembers the argument of the last PORT answered 200. `Blocks` are what
one call moves. `line` holds one command at a time: the client sends a command
and waits for its reply. In the concurrent build a child runs the part of this
module from `session_init` on.

**ControlChannel**: the control connection below `FtpSession`, as bytes. A client
writes lines and ends them with CR LF or with LF; `recv` returns any portion of
the stream that fits; `Receives` is all of `getexe_command` for that portion: the
terminator, the two `strchr`, the test for an empty command, the verb up to the
blank and the end of the connection after QUIT. A byte is known by its line and
its place in it, so that what is taken for a command shows where it comes from,
and a byte of the buffer that was not received shows as `Padding`. What the
handlers do is `FtpSession`; only the kind of reply is kept.

**SharedFiles**: the transfers of several children that name one file. STOR opens
it, which makes it empty, and writes at the offset of its own descriptor; RETR
reads at its own. A cell is what one call moves of the file; a write of several
is several steps, since nothing keeps others out. Who wrote a cell, and as the
how-manyth of its upload, is its identity. The connections are `FtpSession`'s
matter: here a transfer may stop short at any time.

**ConnectionService**: the abstract service. Clients connect while it is open,
are accepted in their order, have their connection closed exactly when their
session ends, and are turned away when it stops.

**FtpConcurrent**: parent and children. Per process: where it is, the stack of
handlers that run in it, its dispositions and pending signals, and the sockets it
has open. A socket is closed for its client with the last copy (`SocketsAfter`).
A handler is three steps (close, killpg, exit), between which other handlers may
start as far as the masks allow (`MaskOf`, from the `sa_mask` of each `sigaction`
and the signal itself). A session is entered and left; what is said in it is
`FtpSession`. The module begins when `server_init` has returned: clients can
connect, `setup_signals` is three steps, each of which may fail, and a signal that
comes before its `sigaction` ends the server (`DeliverDefault`).

**FtpIterative**: the same view of the iterative build: one process, its two
handlers, which step between `close_fd` and `server_socket = -1`, and the queue.
It begins when `server_init` has returned, before `setup_signals`, each of whose calls
may fail (`SetupFails`).

**FtpStartup**: the words of the command line, in the order argp hands them over
(options first), through `parse_opt` one by one; the checks at the end; each call
of `server_init`, and for each its early return with the `close` that stands there.
`reuse` are the options the socket has, and `held` is who has the port when `bind`
is called: nobody, what remains of a server that was killed, a server that runs, or
a program that does not share it; `Bindable` is what the kernel asks of the socket
then. The return after `inet_pton` is never taken, because the text was found among
those that `inet_ntop` made of the interfaces. What the command line means as a whole
(`PortAsked`, `AddressAsked`, `Misused`) is defined apart from the algorithm and
compared with it. The texts are given with what `atoi` and `strncpy` make of
them. The addresses of the host change while the server starts.

**Echo**: bytes are numbered by sender and place, the buffer keeps what was in
it, and `recv` returns any part of what has come. Clients write, end their side
and reset as they like; `echoc` is one of them.

**CalcMessages**, **CalcService**: a message is a sequence of elements, and in SOAP
1.1 a sequence of independent elements after it; the reading loops are recursive
functions over the elements. An independent element is decoded when an href or an
earlier element has its id, or when its `xsi:type` or name is one that
`soap_getelement` knows (`Known`); otherwise it is ignored, or refused. Decoding fails
on a text that is no number, an id read before, or another type than the href's. A
caller connects, sends the rest of its request in its own time, if at all, and
may leave at any moment. A fault is
written with the elements of SOAP 1.1 or of 1.2 and read by the same loop, and
its string names the numbers it is about. The result of
an operation on two numbers is left uninterpreted, so an answer shows which
operation it is of and on what. `pow` sets `errno` outside its domain and leaves
it alone otherwise; the server stops at the first request that is not `SOAP_OK`.

## 3. Runs

| Run | Shows | Size |
|---|---|---|
| `session` | descriptors, login, data address, replies and file contents, over every failure of every call; a client that leaves is noticed, a command received is answered | 277,978 states |
| `complete` | finding: 226 after a transfer that broke off | |
| `port` | finding: a transfer to an address no accepted PORT named, or without any | |
| `concurrent` | who holds which socket, no handler re-entered, no child forgotten, `ConnectionService` implemented | 504,055 states |
| `concurrent_live` | an endless session delays nobody else; a shutdown ends every process | 357,962 states |
| `fork_window` | finding: the parent's handlers run in a child | |
| `iterative` | `ConnectionService` implemented; nobody waits for ever if sessions end; a signal ends the server | 5,550 states |
| `startup` | every command line of three words: the server listens as asked, usage is shown when deserved, a failed start leaves no socket, and no server before it keeps it from its port | 186,344 states |
| `echo` | own bytes, in order, once; which descriptors stay open; all comes back | 35,516 states |
| `calc` | an answer is the caller's own, a fault is deserved and names its numbers, a call returns if no caller stalls | 102,063 states |
| `control_channel` | a command is a piece of one line, never used twice; a client that waits gets one reply for each line, unless a line was cut | 487,457 states |
| `shared_files` | cells keep their places, an undisturbed transfer is whole, readers do not go back | 1,333,786 states |

Deadlock checking is off in every run because each system may stop for good: a
process ends by a signal, a failed start or a first error. That a system does
not stop where it should go on is what the liveness properties are for.

Findings, where the run has a counterexample to what the repository says:

1. `CompleteMeansComplete`: both transfer handlers answer "226 Transfer complete."
   however their copy loop ended; 426 is defined and never sent.
2. `TransferNeedsPort`: `handle_PORT` stores the port before it refuses the
   address, so the test for "we require a PORT command before RETR" passes after
   a PORT that was refused. Its host is then that of an earlier PORT, or 0.0.0.0 when
   there was none, which is the one exception `HostFromAcceptedPort` has.
3. `ParentHandlersInParent`: between `fork` and `setup_child_signals` a child has
   the handlers called "for parent"; one SIGTERM meant for it ends the server.

What the other runs found to hold although it looks fragile: the second `close`
after a failed `recv` closes nothing else (the number cannot have been reused in
between); `in_handler` is never needed; `errno` of an earlier request is harmless
only because the calculator stops at its first fault (the mutant that goes on
breaks `FaultIsDeserved`); the echo server leaks one descriptor for each client
that ends in order, and only for those; lines that are cut or joined are lost as
commands but never mixed; two uploads of one file may leave a mixture of both, with
zeros where a longer one was cut off, but each cell at its own place.

### Bounds

- `MaxFd = 4` in `session`: listener, control, file and data connection. One leak
  makes the next transfer fail, two the next accept, and the lowest free number
  decides what a stale number hits.
- Two users, one of them in the accounts file, two hosts and two names: a login, an
  address or a file of another is there to be taken by mistake. Four texts for the
  host: a host, 0.0.0.0, one that is too long and cut to a host, and one
  `inet_pton` refuses.
- Uploads of `session`: nothing, a last block, and a block with another to come. Two
  blocks of different content tell reordering and truncation apart.
- Port pairs `4,1` and `256,0`: a port, and 65536, which is cut to 0, the value that
  stands for no PORT.
- Two clients, two children and two signals (one for liveness) in the concurrent
  runs: the second child is born while the first is signalled, the second signal
  finds a handler running. `killpg` makes further signals by itself. Clients and
  children are symmetric in the safety run; the liveness run uses no symmetry.
- Three clients and three signals in `iterative`: one served, two whose order
  matters; a signal for each handler and one more.
- Three words and five texts in `startup`: each rule relates at most three words.
  One text is longer than an address and shortened to another.
- Two clients, four bytes and a buffer of two in `echo`: a full buffer, a part of
  one over stale bytes, and a client served after another's descriptor was leaked.
- Three lines and a buffer of six in `control_channel`: the texts are nothing, a
  verb, and a verb with an argument, which with its CR LF is longer than what one
  `recv` takes: lines are cut in the verb, at the blank and between CR and LF, and
  joined with the next.
- Three uploads of three cells and one download in `shared_files`: an upload may be
  truncated by a second, which has ended when a third begins, while the reader has
  got a cell of each; the old file has up to three cells, or there is none.
- Two callers in `calc`: an earlier request and a later one. The requests of
  other clients have elements in the other order, twice, missing, unknown, to be
  refused, and references to one, two, no and doubled elements; independent elements
  that nothing refers to, of a type that is read, of another, of none and of one that
  is refused; and the same after a SOAP 1.2 message, where they are skipped.

### Fairness

- `FtpSession`: the server's steps are fair, because the process is scheduled and
  its calls return: the peer of a data connection reads, sends or goes away.
  Clients owe nothing on the control connection, where the code has no timeout.
- `FtpConcurrent`: each process is scheduled. A session may last for ever.
- `FtpIterative`: `Accept` is strongly fair: accept is called again and again and
  cannot fail each time while a connection waits, since no session leaves a
  descriptor behind (`NoDescriptorLeak`). A session with nobody, after a failed
  accept, ends by itself; `WaitingEnds` states that sessions with clients end as
  its premise.
- `CalcService`: the process is scheduled. Nobody sets `recv_timeout` before
  `soap_serve` (`calcs.c:7-12`), so a caller that connects and stalls in the middle of
  its request keeps everybody waiting, for ever if it likes. `CallReturns` therefore has
  a premise, `CallersProceed`: who has connected sends the rest or leaves. A caller
  that is turned away because the server has stopped counts as one whose call returned.
- `Echo`: the server is scheduled, and the client it serves does not write for
  ever. A full descriptor table makes accept fail at once, which ends the server.
- `FtpStartup`, `ControlChannel`, `SharedFiles`: none, their properties are safety.

## 4. Proofs

The theorems hold for every value of the constants under the assumptions that
the modules name: a value that stands for nothing (`NoClient`, `NoFile`, `Empty`,
the end of a line) is none of those it stands beside, the accounts and files are
made of users, passwords and blocks, texts are sequences of characters, and the
bounds are natural numbers. TLC evaluates them in every run. An invariant that
makes another inductive is defined at the end of the module it is about, under
"What makes the invariants inductive", and was itself checked by TLC on the
instance of the run.

- **FtpSessionProofs**: `TypeCorrect`, `DescriptorsConserved`, `LoginIsSound`,
  `HostIsAccepted`, `TransfersAreFaithful`, `FilesAreProtected`, `FileExists`,
  `RepliesAreDisciplined`, `RepliesTellState`. `HostIsAccepted` says that the host of
  the data address is the one the last accepted PORT of this session named, or
  0.0.0.0 if there was none; of the port finding 2 shows that it is not so. The
  invariant that carries the theorems says at every label what the process holds.
  `Layout` gives the contents of the descriptor table as a function of the label,
  which is why `NoDescriptorLeak`, a statement about two labels only, is
  inductive with it; `CopyProgress` says how far each copy is, `LoginByLabel`
  that only logged-in sessions transfer. `FileIsThere` is needed for the types
  already, since the copy loops index the file they have open. `RepliesByLabel` says
  what the client has been told at every label: nothing before a handler answers,
  150 from the copy loop on, and that a transfer has an address to connect to; with
  `LoginByLabel` each reply is then true of the session when the command is done.
- **FtpConcurrentProofs**: `TypeCorrect`, `HandlersDoNotReenter`,
  `NoOrphanIsForgotten`, `SocketsAreOwn`, `ChildrenHaveOwnHandler`, `HeldIsServed`,
  `ServiceImplemented`. `Installed`, a part of `TypeOK`, says which dispositions a
  process has at each label; `Roles` which handlers can run in it, and so its masks,
  and that nobody is born before the parent has both of its handlers, so that only a
  parent alone ends by the default action; `GroupIsTold` says that whoever has
  passed `killpg` has marked everybody, `Unborn` that a child starts with nothing
  pending, and `Connections` that a connection is waiting once or held. The mapping
  to `ConnectionService` says which clients are served from the labels of the
  processes (`Serves`); the kernel closes a connection by counting copies.
  `HeldIsServed` proves that the two agree, for which it needs the handlers a child
  can have: `ChildrenHaveOwnHandler`, the other side of finding 3, says that
  once a session has begun they are its own. From that every step is a step of
  `ConnectionService` or leaves its variables alone.
- **FtpIterativeProofs**: `TypeCorrect`, `HandlersDoNotReenter`,
  `ServiceImplemented`. The dispositions at each label are a part of `TypeOK`; `Idle`
  says that between sessions there is no connection.
- **FtpStartupProofs**: `TypeCorrect`, `CommandLineIsObeyed`, `InitIsAllOrNothing`, for
  command lines of any length. `parse_opt` sees one word at a time, while
  `PortAsked` and `Misused` speak of all of them. `ParsedSoFar` bridges the two: for
  the order in which argp hands the words over, `HandedInOrder` says which have
  been handed over, `PortSoFar` and `AddressSoFar` what the arguments are after
  them (the last option, or the first or second text, or the default). Once all
  have been, that is what the command line asks for. `ByProgress` says at each call of
  `server_init` how far the socket has come and which options it has, from which it
  follows that a server before it cannot be why `bind` fails.
- **SharedFilesProofs**: `TypeCorrect`, `StagesKept`, `CellsStayInPlace`,
  `AloneTransfersAreWhole`, `ReadersNeverGoBack`, for any number of transfers of any
  length. A write leaves zeros before it only when the file has become shorter than
  the writer's offset, which only another store can have done (`ShorterByOverlap`);
  an undisturbed reader is not beyond the end of the file (`AloneIsInside`); and
  since a store emptied the file, nothing older is in it (`NothingOlder`), so a
  reader that has a cell of that store can get nothing older either.
- **EchoProofs**: `TypeCorrect`, `EchoesAreOwn`, `LeaksAreOfEnded`. `EchoFollows` relates
  the bytes read, those in the buffer and those sent: what is in the buffer is the
  continuation of what has been sent, so the stale rest of the buffer is never
  reached. `ServesOne` and `Waiting` say who has a descriptor.
- **ControlChannelProofs**: `TypeCorrect`, `CommandsArePieces`, `WaitingClientServed`, for any
  texts, any number of lines and any portions. `StreamRuns`: from each byte that has not been
  received its line runs on to its end, and later lines follow; so a portion that
  `recv` returns is a piece of the lines, and what precedes its first CR or LF
  a piece of one. `TakenFirst`: all that is still to come was written later than what
  has been taken. `LastLineComes`: while the client waits, what is to come is of the
  last line only, so that the first stop in a portion ends its text, and nothing
  that is thrown away after it was text.
- **CalcServiceProofs**: `TypeCorrect`, `AnswersAreOwn`, `FaultsAreDeserved`, for requests
  with any number of elements in any order. The properties say what a request means
  by quantifiers over its elements; the program reads them in a loop. That the two agree
  (`RequestRead`: reading gives the meaning, and fails exactly for what is
  `Unreadable`) is an induction over the elements, carried out on sets of places with
  a least element (`UpToInduction`), since theorems that take a predicate as a parameter
  cannot be used: `ElementsGive` and `IndependentsGive` say what has been read after
  `m` of them. `ResponseRead` and `FaultRead` show that an answer arrives as it was
  written. `CalcInv` then needs only `Connected` (who is served has asked),
  `ResponseIsOwn` (what is about to be sent answers the request) and `NothingIsStale`
  (`errno` is not `EDOM` while requests are served), which is why an
  `errno` that nobody clears does no harm.

Both builds implement one specification: to a client, the concurrent server is
an iterative one that serves several at a time.

Checked by TLC only: everything about liveness (`SessionEnds`, `CommandAnswered`,
`ClientAccepted`, `GroupShutsDown`, `WaitingEnds`, `SignalEnds`, `AllIsEchoed`,
`CallReturns`), which needs fairness and ENABLED. Every invariant and every action
property of the passing runs is a theorem.

`WaitingClientIsServed` says where each character of a text is, in a command or on its
way, and leaves it to `PieceOfOneLine` and `StreamRuns` that they are there in their
order and once: together that is the texts joined, without an operator that joins
them, which is a recursive definition local to a library module.

An attempt to prove `FaultIsDeserved` showed that it said too little: a request was
counted as unreadable, and so as deserving any fault of the library, when two of its
independent elements had one name, although nothing referred to them and the reading
loop ignores both. `Wrong` now says of each independent element what is wrong with
it: such a name counts only if an href or the type of the earlier element has had it
read. The run has requests of both kinds.

## 5. Not modelled

- Lengths of strings (`cred[100]`, `USERNAME_MAX`), except that a user name is
  what its first characters are, and a line what the buffer holds of it.
- SIGCHLD, which the parent ignores so that the kernel reaps its children: nothing
  the program reads depends on it. `setpgid` that fails in a child, which is reported
  and changes nothing, as a child is born in that group; `reset_signals`, which nobody calls.
- A timeout for silent clients: the code has none, so nothing can be promised.
- printf, fflush and exit inside handlers: what an interrupted stream of the C
  library does is beyond these models, and so is an `exit` called by a handler that has
  interrupted the `exit` of another. `SignalEnds` is about the handlers' steps.
- In `FtpConcurrent`, a signal between `close_fd` and `server_socket = -1` of a handler:
  the second `close` of the number closes nothing, as `FtpIterative`, which has
  the two steps, shows.
- What `ConnectionService` leaves open: a server may end at any time, so a SIGTERM that
  meets the default action, or a SIGPIPE in the iterative build, is an end like any
  other, and no property objects. Nor does one object to `PORT ...,256,0`, which is
  answered 200 and followed by 503.
- `bind` for other reasons than the address and who has the port.
- What `echoc` prints after a recv shorter than its message.
- SOAP: the XML text, header types, keep-alive connections (neither
  side asks for them), chained references, ids on the elements inside the operation,
  and what is inside an independent element of another type than double: "string"
  stands for any of those that is read without error.

## 6. Plan

Done, in this order: `FtpSession` with its proofs; `FtpConcurrent` with its
proofs; `CalcMessages` and `CalcService`; `ConnectionService` and the two
refinements, with `FtpIterative`; `FtpStartup`; `Echo`; `ControlChannel`;
`SharedFiles`; the start of `FtpConcurrent`; the faults of the calculator; the
proofs of `ReplyDiscipline` and `ReplyTellsState`, and `SharedFilesProofs`, `EchoProofs`,
`ControlChannelProofs`, `FtpStartupProofs` and `CalcServiceProofs`.

Next, proofs: what the liveness properties rest on and needs no fairness. That no
state of a session is without a step of the server (`SessionEnds`) and that each step
of a shutdown brings it nearer its end (`GroupShutsDown`) can be stated as a measure
over labels that each step of a process decreases, an action property. That the two
builds serve no client before an earlier one is a consequence of `ConnectionService`
worth proving of it alone.
