----------------------------- MODULE SharedFiles -----------------------------
(***************************************************************************)
(* The children of the concurrent build at work on one file of their common *)
(* directory: RETR and STOR of the same name, each by a process of its own, *)
(* with descriptors and offsets of its own and no lock.  FtpSession has a   *)
(* transfer alone, with each of its calls and their failures; here are the  *)
(* calls that meet the file, and any number of transfers at a time.         *)
(*                                                                          *)
(* A cell is the smallest part of a file that one call moves.  A read or a  *)
(* write of several is several steps: others may come between them.         *)
(***************************************************************************)
EXTENDS Integers, Sequences, FiniteSets

CONSTANTS
    Stores,     \* the STOR commands, by whichever children
    Reads,      \* the RETR commands
    Old,        \* stands for whoever wrote the file before
    NoFile,     \* there is no file of that name
    MaxCells    \* cells a client sends (bound)

ASSUME TransfersAssumption ==
    Stores \cap Reads = {} /\ Old \notin Stores /\ MaxCells \in Nat

Transfers == Stores \cup Reads

\* The n-th cell of what s was sent.
Cell(s, n) == [by |-> s, at |-> n]

\* What a file holds where nobody has written: zeros.
Hole  == [by |-> Old, at |-> 0]
Cells == [by : Stores \cup {Old}, at : 1 .. MaxCells] \cup {Hole}

ASSUME NoFileAssumption == NoFile \notin Seq(Cells)

VARIABLES
    file,       \* the contents, or NoFile
    stage,      \* stage[t]: "idle", "open" while the copy loop runs, or "done"
    pos,        \* pos[t]: the offset of its descriptor
    sent,       \* sent[r]: what RETR has sent to its client
    complete,   \* complete[t]: the loop ended with the end of its input
    before      \* history, before[t]: the stores done when t opened the file

vars == <<file, stage, pos, sent, complete, before>>

Init ==
    /\ \/ file = NoFile
       \/ \E n \in 0 .. MaxCells : file = [i \in 1 .. n |-> Cell(Old, i)]
    /\ stage = [t \in Transfers |-> "idle"]
    /\ pos = [t \in Transfers |-> 0]
    /\ sent = [r \in Reads |-> <<>>]
    /\ complete = [t \in Transfers |-> FALSE]
    /\ before = [t \in Transfers |-> {}]

Opens(t) ==
    /\ stage' = [stage EXCEPT ![t] = "open"]
    /\ before' = [before EXCEPT ![t] = {s \in Stores : stage[s] = "done"}]

-----------------------------------------------------------------------------
(* handle_STOR *)

\* Mutant: O_TRUNC is left out.
StorOpensWhole(s) ==
    /\ stage[s] = "idle"
    /\ file' = IF file = NoFile THEN <<>> ELSE file
    /\ Opens(s)
    /\ UNCHANGED <<pos, sent, complete>>

\* open(O_WRONLY | O_CREAT | O_TRUNC), after the data connection is there.
StorOpens(s) ==
    /\ stage[s] = "idle"
    /\ file' = <<>>
    /\ Opens(s)
    /\ UNCHANGED <<pos, sent, complete>>

\* A write at an offset: the file is extended with zeros up to it if another
\* has made it shorter meanwhile.
Written(contents, offset, cell) ==
    [i \in 1 .. (IF Len(contents) > offset THEN Len(contents) ELSE offset + 1) |->
        IF i = offset + 1 THEN cell
        ELSE IF i \in DOMAIN contents THEN contents[i] ELSE Hole]

\* Mutant: O_APPEND.
StorAppends(s) ==
    /\ stage[s] = "open" /\ pos[s] < MaxCells
    /\ file' = Append(file, Cell(s, pos[s] + 1))
    /\ pos' = [pos EXCEPT ![s] = @ + 1]
    /\ UNCHANGED <<stage, sent, complete, before>>

\* recv, and write at the offset of the descriptor.
StorWrites(s) ==
    /\ stage[s] = "open" /\ pos[s] < MaxCells
    /\ file' = Written(file, pos[s], Cell(s, pos[s] + 1))
    /\ pos' = [pos EXCEPT ![s] = @ + 1]
    /\ UNCHANGED <<stage, sent, complete, before>>

\* recv returns 0: the client has sent all it had.
StorEnds(s) ==
    /\ stage[s] = "open"
    /\ stage' = [stage EXCEPT ![s] = "done"]
    /\ complete' = [complete EXCEPT ![s] = TRUE]
    /\ UNCHANGED <<file, pos, sent, before>>

-----------------------------------------------------------------------------
(* handle_RETR *)

\* open(O_RDONLY), before the data connection.
RetrOpens(r) ==
    /\ stage[r] = "idle" /\ file # NoFile
    /\ Opens(r)
    /\ UNCHANGED <<file, pos, sent, complete>>

\* Mutant: the offset moves on twice.
RetrSkips(r) ==
    /\ stage[r] = "open" /\ pos[r] < Len(file)
    /\ sent' = [sent EXCEPT ![r] = Append(@, file[pos[r] + 1])]
    /\ pos' = [pos EXCEPT ![r] = @ + 2]
    /\ UNCHANGED <<file, stage, complete, before>>

\* read at the offset of the descriptor, and send.
RetrReads(r) ==
    /\ stage[r] = "open" /\ pos[r] < Len(file)
    /\ sent' = [sent EXCEPT ![r] = Append(@, file[pos[r] + 1])]
    /\ pos' = [pos EXCEPT ![r] = @ + 1]
    /\ UNCHANGED <<file, stage, complete, before>>

\* read returns 0 at what is the end of the file now.
RetrEnds(r) ==
    /\ stage[r] = "open" /\ pos[r] >= Len(file)
    /\ stage' = [stage EXCEPT ![r] = "done"]
    /\ complete' = [complete EXCEPT ![r] = TRUE]
    /\ UNCHANGED <<file, pos, sent, before>>

-----------------------------------------------------------------------------
\* A connection that fails, before or in the loop, a write that falls short, or
\* a signal that ends the child: the file stays as it is.
StopsShort(t) ==
    /\ stage[t] = "open"
    /\ stage' = [stage EXCEPT ![t] = "done"]
    /\ UNCHANGED <<file, pos, sent, complete, before>>

Stor(s) == StorOpens(s) \/ StorWrites(s) \/ StorEnds(s)
Retr(r) == RetrOpens(r) \/ RetrReads(r) \/ RetrEnds(r)

Next ==
    \/ \E s \in Stores : Stor(s)
    \/ \E r \in Reads : Retr(r)
    \/ \E t \in Transfers : StopsShort(t)

Spec == Init /\ [][Next]_vars

-----------------------------------------------------------------------------
(* Properties *)

\* Every variable has its type.
TypeOK ==
    /\ file = NoFile \/ file \in Seq(Cells)
    /\ stage \in [Transfers -> {"idle", "open", "done"}]
    /\ pos \in [Transfers -> 0 .. MaxCells]
    /\ sent \in [Reads -> Seq(Cells)]
    /\ complete \in [Transfers -> BOOLEAN]
    /\ before \in [Transfers -> SUBSET Stores]

\* The stores that have begun, and whether two of them have overlapped.
Begun   == {s \in Stores : stage[s] # "idle"}
Overlap == \E s, t \in Begun : s # t /\ s \notin before[t] /\ t \notin before[s]

\* A cell that is right at this place: the one its client sent for it, and of a
\* store that has written that far.  Zeros come in only when stores overlap.
InPlace(c, i) ==
    /\ c = Hole => Overlap
    /\ c # Hole => c.at = i
    /\ c.by \in Stores => c.by \in Begun /\ i <= pos[c.by]

\* Whatever transfers come together, every cell is right where it is, in the
\* file and in what others are sent of it.
CellsInPlace ==
    /\ file # NoFile => \A i \in DOMAIN file : InPlace(file[i], i)
    /\ \A r \in Reads : \A i \in DOMAIN sent[r] : InPlace(sent[r][i], i)

\* A transfer that no store overlaps with is whole: until the next store
\* begins, a store has left in the file what its client sent and nothing else,
\* also when it stopped short, and a reader has been sent the beginning of the
\* file, all of it if nothing failed.
AloneIsWhole ==
    /\ \A s \in Begun : Begun \subseteq before[s] \cup {s} =>
         file = [i \in 1 .. pos[s] |-> Cell(s, i)]
    /\ \A r \in Reads : stage[r] # "idle" /\ Begun = before[r] =>
         /\ sent[r] = SubSeq(file, 1, pos[r])
         /\ complete[r] => sent[r] = file

\* However many stores come and go while a reader is at work, it never goes
\* back: after a cell of one store comes no cell of a version that was finished
\* before that store began.
ReadersMoveForward ==
    \A r \in Reads : \A i, j \in DOMAIN sent[r] :
        i < j /\ sent[r][i].by \in Stores /\ sent[r][j] # Hole =>
            sent[r][j].by \notin before[sent[r][i].by] \cup {Old}

-----------------------------------------------------------------------------
(* What makes the invariants inductive *)

\* What the stage of a transfer says of the rest: one that has not opened the
\* file has not moved, one that counts as complete has ended, one that was done
\* when another opened the file is done, and the file exists once one has begun.
ByStage ==
    /\ \A t \in Transfers :
        /\ stage[t] = "idle" => pos[t] = 0
        /\ stage[t] # "idle" => file # NoFile
        /\ complete[t] => stage[t] = "done"
        /\ \A s \in before[t] : stage[s] = "done"
    /\ file # NoFile => Len(file) <= MaxCells
    /\ \A r \in Reads : Len(sent[r]) = pos[r]

\* The file is shorter than what a store at work has written only after another
\* store has emptied it meanwhile: so only then a write leaves a hole.
ShorterByOverlap ==
    \A s \in Stores : stage[s] = "open" /\ pos[s] > Len(file) => Overlap

\* An undisturbed reader is not beyond the end of the file.
AloneIsInside ==
    \A r \in Reads : stage[r] # "idle" /\ Begun = before[r] => pos[r] <= Len(file)

\* Since a store emptied the file, nothing older has come into it.
NothingOlder ==
    file # NoFile => \A s \in Begun : \A i \in DOMAIN file :
        file[i] # Hole => file[i].by \notin before[s] \cup {Old}
=============================================================================
