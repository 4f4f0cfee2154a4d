---------------------------- MODULE ControlChannel ----------------------------
(***************************************************************************)
(* The control connection as a stream of bytes.  A client writes lines; TCP *)
(* hands them over in any portions; getexe_command takes what one recv has  *)
(* returned for one command, and what follows the first end of line in it   *)
(* for nothing.  FtpSession has a command in one piece; here is what that   *)
(* stands for, and for which clients.                                       *)
(***************************************************************************)
EXTENDS Integers, SequencesExt, FiniteSetsExt

CONSTANTS
    CR, LF, NUL, Space,     \* the characters the code looks for
    Stale,                  \* a character the buffer holds uninitialised
    Verbs,                  \* the names in ftp_commands, as sequences
    Quit,                   \* one of them
    Texts,                  \* what clients write in a line
    LineEnds,               \* what clients end it with
    BUFSIZE,
    MaxLines                \* lines a client writes (bound)

ASSUME ChannelAssumption ==
    /\ BUFSIZE \in Nat /\ BUFSIZE > 1 /\ MaxLines \in Nat
    /\ Quit \in Verbs
    /\ LineEnds \subseteq {<<CR, LF>>, <<LF>>}
    /\ \A t \in Texts : /\ t \in Seq(ToSet(t))
                         /\ ToSet(t) \cap {CR, LF, NUL, Stale} = {}

VARIABLES
    control,    \* "open", "ended" or "reset" by the client, "closed" by the server
    sent,       \* the lines the client has written: their text and end
    stream,     \* bytes written and not received
    taken,      \* per recv: the command the buffer held, and its reply
    alone,      \* history: no line was written before the last was received
    whole       \* history: each recv has returned one line, and all of it

vars == <<control, sent, stream, taken, alone, whole>>

\* A byte is known by the line it is of and its place there.
Byte(n, i)  == [of |-> n, at |-> i]
Padding     == Byte(0, 0)           \* of the buffer, and of no line
Terminator  == Byte(0, 1)           \* the '\0' the code puts
BytesOf(n, line) == [i \in 1 .. Len(line) |-> Byte(n, i)]

Char(b) == IF b = Padding THEN Stale
           ELSE IF b = Terminator THEN NUL ELSE sent[b.of].line[b.at]

Init ==
    /\ control = "open" /\ sent = <<>> /\ stream = <<>> /\ taken = <<>>
    /\ alone = TRUE /\ whole = TRUE

-----------------------------------------------------------------------------
(* The client *)

ClientSends ==
    /\ control = "open" /\ Len(sent) < MaxLines
    /\ \E text \in Texts, end \in LineEnds :
        /\ sent' = Append(sent, [text |-> text, line |-> text \o end])
        /\ stream' = stream \o BytesOf(Len(sent) + 1, text \o end)
    /\ alone' = (alone /\ stream = <<>>)
    /\ UNCHANGED <<control, taken, whole>>

ClientCloses ==
    /\ control = "open" /\ control' = "ended"
    /\ UNCHANGED <<sent, stream, taken, alone, whole>>

\* What has not been received is lost.
ClientResets ==
    /\ control \in {"open", "ended"} /\ control' = "reset" /\ stream' = <<>>
    /\ UNCHANGED <<sent, taken, alone, whole>>

-----------------------------------------------------------------------------
(* getexe_command *)

\* Mutant: the '\n' of a line that ends with it alone is not stripped.
UpToCR(bytes, stops) ==
    LET ends == {i \in DOMAIN bytes : Char(bytes[i]) \in stops \ {LF}}
    IN  IF ends = {} THEN bytes ELSE SubSeq(bytes, 1, Min(ends) - 1)

\* What strchr and a '\0' leave of a string.
UpTo(bytes, stops) ==
    LET ends == {i \in DOMAIN bytes : Char(bytes[i]) \in stops}
    IN  IF ends = {} THEN bytes ELSE SubSeq(bytes, 1, Min(ends) - 1)

\* Mutant: buffer[len] is not set.
NoTerminator(received) == received \o <<Padding, Terminator>>

\* Mutant: buffer[len - 1] is set.
ShortBuffer(received) ==
    SubSeq(received, 1, Len(received) - 1) \o <<Terminator, Padding>>

\* What follows the '\0' is uninitialised.
Buffer(received) == received \o <<Terminator, Padding>>

Characters(bytes) == [i \in DOMAIN bytes |-> Char(bytes[i])]

\* "500 Empty command", "502 Command not implemented", or a handler's.
Reply(text) ==
    LET verb == Characters(UpTo(text, {Space}))
    IN  CASE text = <<>>      -> "empty"
          [] verb = Quit      -> "goodbye"
          [] verb \in Verbs \ {Quit} -> "handled"
          [] OTHER            -> "unknown"

\* One recv, one command, one handler.  QUIT closes the connection.
Receives ==
    /\ control \in {"open", "ended"} /\ stream # <<>>
    /\ \E n \in 1 .. BUFSIZE - 1 :
        /\ n <= Len(stream)
        /\ LET received == SubSeq(stream, 1, n)
               text     == UpTo(Buffer(received), {CR, LF, NUL})
               reply    == Reply(text)
               line     == received[1].of
           IN  /\ taken' = Append(taken, [text |-> text, reply |-> reply])
               /\ whole' = (whole /\ received = BytesOf(line, sent[line].line))
               /\ control' = IF reply = "goodbye" THEN "closed" ELSE control
        /\ stream' = SubSeq(stream, n + 1, Len(stream))
    /\ UNCHANGED <<sent, alone>>

\* recv() returns 0 after the last byte, or fails after a reset.
RecvEnds ==
    /\ \/ control = "ended" /\ stream = <<>>
       \/ control = "reset"
    /\ control' = "closed"
    /\ UNCHANGED <<sent, stream, taken, alone, whole>>

-----------------------------------------------------------------------------
Next == ClientSends \/ ClientCloses \/ ClientResets \/ Receives \/ RecvEnds

Spec == Init /\ [][Next]_vars

-----------------------------------------------------------------------------
(* Properties *)

AllBytes == UNION {{Byte(n, i) : i \in DOMAIN sent[n].line} : n \in DOMAIN sent}

IsText(b) == b.at <= Len(sent[b.of].text)

\* Every variable has its type.
TypeOK ==
    /\ control \in {"open", "ended", "reset", "closed"}
    /\ \A n \in DOMAIN sent : /\ sent[n].text \in Texts
                               /\ \E end \in LineEnds : sent[n].line = sent[n].text \o end
    /\ stream \in Seq(AllBytes)
    /\ taken \in Seq([text : Seq(AllBytes), reply : {"empty", "goodbye", "handled", "unknown"}])
    /\ alone \in BOOLEAN /\ whole \in BOOLEAN

Before(b, c) == b.of < c.of \/ (b.of = c.of /\ b.at < c.at)

\* However lines are cut and joined on their way, what is taken for a command
\* is an unbroken piece of the text of one line, later than all that was taken
\* before it: no end of a line in it, nothing of another line, nothing twice
\* and nothing of what the buffer held.
PieceOfOneLine ==
    /\ \A k \in DOMAIN taken : \A i \in DOMAIN taken[k].text :
        LET text == taken[k].text IN
        /\ text[i] \in AllBytes /\ IsText(text[i])
        /\ i > 1 => text[i] = Byte(text[1].of, text[1].at + i - 1)
    /\ \A k, m \in DOMAIN taken : k < m =>
        \A i \in DOMAIN taken[k].text, j \in DOMAIN taken[m].text :
            Before(taken[k].text[i], taken[m].text[j])

\* A client that waits until its line has been received before it writes the
\* next one loses no text, into however many commands its lines are cut: each
\* character has been taken or is to come, so that the commands put together
\* (PieceOfOneLine) are the texts.  If no line was cut, the commands are the
\* lines, one reply for each: which is how FtpSession has them.
WaitingClientIsServed ==
    alone /\ control \in {"open", "ended"} =>
        /\ \A b \in AllBytes : IsText(b) =>
             \/ b \in ToSet(stream)
             \/ \E k \in DOMAIN taken : b \in ToSet(taken[k].text)
        /\ whole =>
             /\ Len(sent) = Len(taken) + (IF stream = <<>> THEN 0 ELSE 1)
             /\ \A k \in DOMAIN taken : Characters(taken[k].text) = sent[k].text

-----------------------------------------------------------------------------
(* What makes the invariants inductive *)

\* What has been sent are lines: a text and an end each.
LinesSent ==
    sent \in Seq([text : Texts, line : {t \o end : t \in Texts, end \in LineEnds}])

\* The bytes not yet received are those of the last lines sent: from each of
\* them on its line goes on to its end, and then come later lines.
StreamRuns ==
    /\ \A i \in DOMAIN stream :
         LET b    == stream[i]
             last == i + Len(sent[b.of].line) - b.at
         IN  /\ last \in DOMAIN stream
             /\ \A m \in i .. last : stream[m] = Byte(b.of, b.at + m - i)
    /\ \A i, j \in DOMAIN stream : i < j => Before(stream[i], stream[j])

\* What has been taken for a command was written before all that is to come.
TakenFirst ==
    \A k \in DOMAIN taken : \A i \in DOMAIN taken[k].text, j \in DOMAIN stream :
        Before(taken[k].text[i], stream[j])

\* While the client waits, what is to come is of the last line; and all of it,
\* if no line was cut.
LastLineComes ==
    alone =>
        /\ \A i \in DOMAIN stream : stream[i].of = Len(sent)
        /\ whole /\ stream # <<>> => stream = BytesOf(Len(sent), sent[Len(sent)].line)
=============================================================================
