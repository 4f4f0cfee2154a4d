-------------------------- MODULE SharedFilesProofs --------------------------
(***************************************************************************)
(* Theorems about SharedFiles, for any number of transfers at once and     *)
(* files of any length.                                                    *)
(***************************************************************************)
EXTENDS SharedFiles, SequenceTheorems, TLAPS

-----------------------------------------------------------------------------
(* Contents *)

\* A function on the first n numbers is a sequence of length n.
LEMMA FunctionIsSeq ==
    ASSUME NEW S, NEW n \in Nat, NEW f \in [1 .. n -> S]
    PROVE  f \in Seq(S) /\ Len(f) = n /\ DOMAIN f = 1 .. n
<1>1. f \in Seq(S)
  BY SeqDef
<1>2. Len(f) \in Nat /\ DOMAIN f = 1 .. Len(f)
  BY <1>1, LenProperties
<1>3. 1 .. Len(f) = 1 .. n
  BY <1>2
<1>4. Len(f) = n
  BY <1>2, <1>3
<1> QED BY <1>1, <1>2, <1>4

\* What a store or a hole puts into a file is a cell.
LEMMA CellTypes ==
    /\ Hole \in Cells /\ Hole \notin [by : Stores \cup {Old}, at : 1 .. MaxCells]
    /\ Hole.by = Old
    /\ \A s \in Stores \cup {Old} : \A n \in 1 .. MaxCells :
         /\ Cell(s, n) \in Cells /\ Cell(s, n) # Hole
         /\ Cell(s, n).by = s /\ Cell(s, n).at = n
BY TransfersAssumption DEF Cells, Cell, Hole

\* w is what a write of this cell at this offset leaves of the contents.
IsWritten(w, contents, offset, cell) ==
    /\ w \in Seq(Cells)
    /\ Len(w) = IF Len(contents) > offset THEN Len(contents) ELSE offset + 1
    /\ DOMAIN w = 1 .. Len(w)
    /\ \A i \in DOMAIN w :
         w[i] = IF i = offset + 1 THEN cell
                ELSE IF i \in 1 .. Len(contents) THEN contents[i] ELSE Hole

\* A write leaves that in a file.
LEMMA WrittenContents ==
    ASSUME NEW contents \in Seq(Cells), NEW offset \in Nat, NEW cell \in Cells
    PROVE  IsWritten(Written(contents, offset, cell), contents, offset, cell)
<1> DEFINE w == Written(contents, offset, cell)
<1> DEFINE n == IF Len(contents) > offset THEN Len(contents) ELSE offset + 1
<1>1. Len(contents) \in Nat /\ DOMAIN contents = 1 .. Len(contents)
  BY LenProperties
<1>2. n \in Nat
  BY <1>1
<1>3. w = [i \in 1 .. n |-> IF i = offset + 1 THEN cell
                            ELSE IF i \in 1 .. Len(contents) THEN contents[i] ELSE Hole]
  BY <1>1 DEF Written
<1>4. \A i \in 1 .. Len(contents) : contents[i] \in Cells
  BY ElementOfSeq
<1> HIDE DEF n, w
<1>5. w \in [1 .. n -> Cells]
  BY <1>3, <1>4, CellTypes
<1>6. w \in Seq(Cells) /\ Len(w) = n /\ DOMAIN w = 1 .. n
  BY <1>2, <1>5, FunctionIsSeq
<1>7. IsWritten(w, contents, offset, cell)
  BY <1>3, <1>6 DEF n, IsWritten
<1> QED BY <1>7 DEF w
-----------------------------------------------------------------------------
(* What each step does *)

\* A write puts the next cell of its store at the offset, and nothing else
\* but zeros where the file ended before that.
LEMMA StorWritesEffect ==
    ASSUME TypeOK, ByStage, NEW s \in Stores, StorWrites(s)
    PROVE  /\ file # NoFile /\ file \in Seq(Cells) /\ file' \in Seq(Cells)
           /\ pos[s] \in Nat /\ pos[s] < MaxCells
           /\ pos' = [pos EXCEPT ![s] = pos[s] + 1]
           /\ Len(file') = IF Len(file) > pos[s] THEN Len(file) ELSE pos[s] + 1
           /\ \A i \in DOMAIN file' :
                \/ i = pos[s] + 1 /\ file'[i] = Cell(s, i)
                \/ i # pos[s] + 1 /\ i \in DOMAIN file /\ file'[i] = file[i]
                \/ Len(file) < pos[s] /\ file'[i] = Hole
<1>1. /\ pos[s] \in Nat /\ pos[s] < MaxCells /\ MaxCells \in Nat
      /\ pos' = [pos EXCEPT ![s] = pos[s] + 1]
      /\ file' = Written(file, pos[s], Cell(s, pos[s] + 1))
  BY TransfersAssumption DEF StorWrites, TypeOK, Transfers
<1>2. file # NoFile /\ file \in Seq(Cells)
  BY DEF StorWrites, ByStage, TypeOK, Transfers
<1>3. Cell(s, pos[s] + 1) \in Cells
  BY <1>1, CellTypes
<1>4. Len(file) \in Nat /\ DOMAIN file = 1 .. Len(file)
  BY <1>2, LenProperties
<1>5. /\ file' \in Seq(Cells)
      /\ Len(file') = IF Len(file) > pos[s] THEN Len(file) ELSE pos[s] + 1
      /\ DOMAIN file' = 1 .. Len(file')
      /\ \A i \in DOMAIN file' :
           file'[i] = IF i = pos[s] + 1 THEN Cell(s, pos[s] + 1)
                      ELSE IF i \in 1 .. Len(file) THEN file[i] ELSE Hole
  <2> DEFINE cell == Cell(s, pos[s] + 1)
  <2>1. cell \in Cells /\ file' = Written(file, pos[s], cell)
    BY <1>1, <1>3
  <2> HIDE DEF cell
  <2>2. IsWritten(file', file, pos[s], cell)
    BY <1>1, <1>2, <2>1, WrittenContents
  <2> QED BY <2>2 DEF cell, IsWritten
<1>6. ASSUME NEW i \in DOMAIN file'
      PROVE  \/ i = pos[s] + 1 /\ file'[i] = Cell(s, i)
             \/ i # pos[s] + 1 /\ i \in DOMAIN file /\ file'[i] = file[i]
             \/ Len(file) < pos[s] /\ file'[i] = Hole
  BY <1>1, <1>4, <1>5
<1> QED BY <1>1, <1>2, <1>5, <1>6

\* A read sends the cell at the offset.
LEMMA RetrReadsEffect ==
    ASSUME TypeOK, ByStage, NEW r \in Reads, RetrReads(r)
    PROVE  /\ file # NoFile /\ file \in Seq(Cells) /\ UNCHANGED file
           /\ pos[r] \in Nat /\ pos[r] < MaxCells /\ pos[r] + 1 \in DOMAIN file
           /\ pos' = [pos EXCEPT ![r] = pos[r] + 1]
           /\ \A q \in Reads : q # r => sent'[q] = sent[q]
           /\ sent' \in [Reads -> Seq(Cells)]
           /\ sent'[r] = Append(sent[r], file[pos[r] + 1])
           /\ Len(sent'[r]) = pos[r] + 1 /\ DOMAIN sent'[r] = 1 .. pos[r] + 1
           /\ sent'[r][pos[r] + 1] = file[pos[r] + 1]
           /\ DOMAIN sent[r] = 1 .. pos[r]
           /\ \A i \in 1 .. pos[r] : sent'[r][i] = sent[r][i]
<1>1. file # NoFile /\ file \in Seq(Cells) /\ Len(file) <= MaxCells
  BY DEF RetrReads, ByStage, TypeOK, Transfers
<1>2. /\ pos[r] \in Nat /\ pos[r] < Len(file) /\ UNCHANGED file
      /\ pos' = [pos EXCEPT ![r] = pos[r] + 1]
      /\ sent' = [sent EXCEPT ![r] = Append(sent[r], file[pos[r] + 1])]
  BY TransfersAssumption DEF RetrReads, TypeOK, Transfers
<1>3. Len(file) \in Nat /\ DOMAIN file = 1 .. Len(file) /\ MaxCells \in Nat
  BY <1>1, LenProperties, TransfersAssumption
<1>4. pos[r] < MaxCells /\ pos[r] + 1 \in DOMAIN file
  BY <1>1, <1>2, <1>3
<1>5. file[pos[r] + 1] \in Cells
  BY <1>1, <1>3, <1>4, ElementOfSeq
<1>6. /\ sent \in [Reads -> Seq(Cells)] /\ sent[r] \in Seq(Cells)
      /\ Len(sent[r]) = pos[r] /\ DOMAIN sent[r] = 1 .. pos[r]
  BY LenProperties DEF TypeOK, ByStage
<1> DEFINE longer == Append(sent[r], file[pos[r] + 1])
<1>7. /\ longer \in Seq(Cells) /\ Len(longer) = pos[r] + 1
      /\ \A i \in 1 .. pos[r] : longer[i] = sent[r][i]
      /\ longer[pos[r] + 1] = file[pos[r] + 1]
  BY <1>5, <1>6, AppendProperties
<1>8. DOMAIN longer = 1 .. pos[r] + 1
  BY <1>7, LenProperties
<1> HIDE DEF longer
<1>9. /\ sent' \in [Reads -> Seq(Cells)] /\ sent'[r] = longer
      /\ \A q \in Reads : q # r => sent'[q] = sent[q]
  BY <1>2, <1>6, <1>7 DEF longer
<1> QED BY <1>1, <1>2, <1>4, <1>6, <1>7, <1>8, <1>9 DEF longer

\* A transfer begins: it alone changes its stage, and it notes the stores done.
LEMMA OpensEffect ==
    ASSUME TypeOK, NEW t \in Transfers, Opens(t)
    PROVE  /\ stage' \in [Transfers -> {"idle", "open", "done"}]
           /\ stage'[t] = "open"
           /\ \A u \in Transfers : u # t => stage'[u] = stage[u]
           /\ before' \in [Transfers -> SUBSET Stores]
           /\ before'[t] = {s \in Stores : stage[s] = "done"}
           /\ \A u \in Transfers : u # t => before'[u] = before[u]
BY DEF Opens, TypeOK

\* A transfer ends.
LEMMA EndsEffect ==
    ASSUME TypeOK, NEW t \in Transfers, stage' = [stage EXCEPT ![t] = "done"]
    PROVE  /\ stage' \in [Transfers -> {"idle", "open", "done"}]
           /\ stage'[t] = "done"
           /\ \A u \in Transfers : u # t => stage'[u] = stage[u]
BY DEF TypeOK
-----------------------------------------------------------------------------
(* Types and stages *)

\* A file that has just been emptied.
LEMMA EmptyFile == <<>> \in Seq(Cells) /\ Len(<<>>) = 0 /\ <<>> # NoFile
<1>1. <<>> \in Seq(Cells) /\ Len(<<>>) = 0
  BY EmptySeq
<1>2. <<>> # NoFile
  BY <1>1, NoFileAssumption, Zenon
<1> QED BY <1>1, <1>2

\* The initial states.
LEMMA TypesInitially == Init => TypeOK /\ ByStage
<1> SUFFICES ASSUME Init PROVE TypeOK /\ ByStage
  OBVIOUS
<1>1. MaxCells \in Nat
  BY TransfersAssumption
<1>2. ASSUME file # NoFile PROVE file \in Seq(Cells) /\ Len(file) <= MaxCells
  <2>1. PICK n \in 0 .. MaxCells : file = [i \in 1 .. n |-> Cell(Old, i)]
    BY <1>2 DEF Init
  <2>2. n \in Nat /\ n <= MaxCells /\ \A i \in 1 .. n : i \in 1 .. MaxCells
    BY <1>1
  <2>3. file \in [1 .. n -> Cells]
    BY <2>1, <2>2, CellTypes
  <2> QED BY <2>2, <2>3, FunctionIsSeq
<1>3. <<>> \in Seq(Cells) /\ Len(<<>>) = 0 /\ 0 \in 0 .. MaxCells
  BY <1>1
<1>4. TypeOK
  BY <1>2, <1>3 DEF Init, TypeOK
<1>5. ByStage
  BY <1>2, <1>3 DEF Init, ByStage, Transfers
<1> QED BY <1>4, <1>5

\* The steps of a STOR keep types and stages.
LEMMA StorTypes ==
    ASSUME TypeOK, ByStage, NEW s \in Stores, Stor(s)
    PROVE  TypeOK' /\ ByStage'
<1>1. s \in Transfers /\ s \notin Reads /\ MaxCells \in Nat
  BY TransfersAssumption DEF Transfers
<1>2. CASE StorOpens(s)
  <2>1. /\ file' = <<>> /\ Opens(s) /\ stage[s] = "idle"
        /\ UNCHANGED <<pos, sent, complete>>
    BY <1>2 DEF StorOpens
  <2>2. TypeOK'
    BY <1>1, <2>1, EmptyFile, OpensEffect DEF TypeOK
  <2>3. ByStage'
    <3>1. file' # NoFile /\ Len(file') <= MaxCells
      BY <1>1, <2>1, EmptyFile
    <3>2. \A t \in Transfers : /\ stage'[t] = "idle" => stage[t] = "idle"
                               /\ stage[t] = "done" => stage'[t] = "done"
      BY <1>1, <2>1, OpensEffect
    <3>3. \A t \in Transfers : \A u \in before'[t] : stage'[u] = "done"
      <4> SUFFICES ASSUME NEW t \in Transfers, NEW u \in before'[t]
                   PROVE  stage'[u] = "done"
        OBVIOUS
      <4>1. u \in Transfers /\ stage[u] = "done"
        BY <1>1, <2>1, OpensEffect DEF ByStage, TypeOK, Transfers
      <4> QED BY <3>2, <4>1
    <3> QED BY <2>1, <3>1, <3>2, <3>3 DEF ByStage
  <2> QED BY <2>2, <2>3
<1>3. CASE StorWrites(s)
  <2>1. /\ UNCHANGED <<stage, sent, complete, before>> /\ stage[s] = "open"
    BY <1>3 DEF StorWrites
  <2>2. /\ file' \in Seq(Cells) /\ pos[s] \in Nat /\ pos[s] < MaxCells
        /\ pos' = [pos EXCEPT ![s] = pos[s] + 1]
        /\ Len(file') = IF Len(file) > pos[s] THEN Len(file) ELSE pos[s] + 1
        /\ Len(file) <= MaxCells
    BY <1>3, StorWritesEffect DEF ByStage
  <2>3. /\ pos' \in [Transfers -> 0 .. MaxCells]
        /\ \A t \in Transfers : t # s => pos'[t] = pos[t]
    BY <1>1, <2>2 DEF TypeOK
  <2>4. TypeOK'
    BY <2>1, <2>2, <2>3 DEF TypeOK
  <2>5. Len(file') <= MaxCells /\ file' # NoFile
    BY <1>1, <2>2, NoFileAssumption
  <2>6. \A r \in Reads : Len(sent'[r]) = pos'[r]
    <3>1. \A r \in Reads : r # s /\ r \in Transfers
      BY <1>1 DEF Transfers
    <3> QED BY <2>1, <2>3, <3>1 DEF ByStage
  <2>7. ByStage'
    BY <2>1, <2>3, <2>5, <2>6 DEF ByStage
  <2> QED BY <2>4, <2>7
<1>4. CASE StorEnds(s)
  <2>1. /\ stage[s] = "open" /\ stage' = [stage EXCEPT ![s] = "done"]
        /\ complete' = [complete EXCEPT ![s] = TRUE]
        /\ UNCHANGED <<file, pos, sent, before>>
    BY <1>4 DEF StorEnds
  <2>2. TypeOK'
    BY <1>1, <2>1, EndsEffect DEF TypeOK
  <2>3. ByStage'
    <3>1. \A t \in Transfers : /\ stage'[t] = "idle" => stage[t] = "idle"
                               /\ stage[t] = "done" => stage'[t] = "done"
                               /\ stage'[t] # "idle" => stage[t] # "idle"
                               /\ complete'[t] => complete[t] \/ t = s
      BY <1>1, <2>1, EndsEffect DEF TypeOK
    <3>2. \A t \in Transfers : before[t] \subseteq Transfers
      BY DEF TypeOK, Transfers
    <3>3. stage'[s] = "done"
      BY <1>1, <2>1, EndsEffect
    <3> QED BY <2>1, <3>1, <3>2, <3>3 DEF ByStage
  <2> QED BY <2>2, <2>3
<1> QED BY <1>2, <1>3, <1>4 DEF Stor

\* The steps of a RETR keep types and stages.
LEMMA RetrTypes ==
    ASSUME TypeOK, ByStage, NEW r \in Reads, Retr(r)
    PROVE  TypeOK' /\ ByStage'
<1>1. r \in Transfers /\ MaxCells \in Nat
  BY TransfersAssumption DEF Transfers
<1>2. CASE RetrOpens(r)
  <2>1. /\ file # NoFile /\ Opens(r) /\ stage[r] = "idle"
        /\ UNCHANGED <<file, pos, sent, complete>>
    BY <1>2 DEF RetrOpens
  <2>2. TypeOK'
    BY <1>1, <2>1, OpensEffect DEF TypeOK
  <2>3. ByStage'
    <3>1. \A t \in Transfers : /\ stage'[t] = "idle" => stage[t] = "idle"
                               /\ stage[t] = "done" => stage'[t] = "done"
      BY <1>1, <2>1, OpensEffect
    <3>2. \A t \in Transfers : \A u \in before'[t] : stage'[u] = "done"
      <4> SUFFICES ASSUME NEW t \in Transfers, NEW u \in before'[t]
                   PROVE  stage'[u] = "done"
        OBVIOUS
      <4>1. u \in Transfers /\ stage[u] = "done"
        BY <1>1, <2>1, OpensEffect DEF ByStage, TypeOK, Transfers
      <4> QED BY <3>1, <4>1
    <3> QED BY <2>1, <3>1, <3>2 DEF ByStage
  <2> QED BY <2>2, <2>3
<1>3. CASE RetrReads(r)
  <2>1. UNCHANGED <<file, stage, complete, before>> /\ stage[r] = "open"
    BY <1>3 DEF RetrReads
  <2>2. /\ pos[r] \in Nat /\ pos[r] < MaxCells
        /\ pos' = [pos EXCEPT ![r] = pos[r] + 1]
        /\ \A q \in Reads : q # r => sent'[q] = sent[q]
        /\ sent' \in [Reads -> Seq(Cells)] /\ Len(sent'[r]) = pos[r] + 1
    BY <1>3, RetrReadsEffect
  <2>3. /\ pos' \in [Transfers -> 0 .. MaxCells] /\ pos'[r] = pos[r] + 1
        /\ \A t \in Transfers : t # r => pos'[t] = pos[t]
    BY <1>1, <2>2 DEF TypeOK
  <2>4. TypeOK'
    BY <2>1, <2>2, <2>3 DEF TypeOK
  <2>5. \A q \in Reads : Len(sent'[q]) = pos'[q]
    BY <2>2, <2>3 DEF ByStage, Transfers
  <2>6. ByStage'
    BY <2>1, <2>3, <2>5 DEF ByStage
  <2> QED BY <2>4, <2>6
<1>4. CASE RetrEnds(r)
  <2>1. /\ stage[r] = "open" /\ stage' = [stage EXCEPT ![r] = "done"]
        /\ complete' = [complete EXCEPT ![r] = TRUE]
        /\ UNCHANGED <<file, pos, sent, before>>
    BY <1>4 DEF RetrEnds
  <2>2. TypeOK'
    BY <1>1, <2>1, EndsEffect DEF TypeOK
  <2>3. ByStage'
    <3>1. \A t \in Transfers : /\ stage'[t] = "idle" => stage[t] = "idle"
                               /\ stage[t] = "done" => stage'[t] = "done"
                               /\ stage'[t] # "idle" => stage[t] # "idle"
                               /\ complete'[t] => complete[t] \/ t = r
      BY <1>1, <2>1, EndsEffect DEF TypeOK
    <3>2. \A t \in Transfers : before[t] \subseteq Transfers
      BY DEF TypeOK, Transfers
    <3>3. stage'[r] = "done"
      BY <1>1, <2>1, EndsEffect
    <3> QED BY <2>1, <3>1, <3>2, <3>3 DEF ByStage
  <2> QED BY <2>2, <2>3
<1> QED BY <1>2, <1>3, <1>4 DEF Retr

\* Every step keeps types and stages.
LEMMA TypesInductive ==
    ASSUME TypeOK, ByStage, [Next]_vars
    PROVE  TypeOK' /\ ByStage'
<1>1. ASSUME NEW t \in Transfers, StopsShort(t) PROVE TypeOK' /\ ByStage'
  <2>1. /\ stage[t] = "open" /\ stage' = [stage EXCEPT ![t] = "done"]
        /\ UNCHANGED <<file, pos, sent, complete, before>>
    BY <1>1 DEF StopsShort
  <2>2. TypeOK'
    BY <2>1, EndsEffect DEF TypeOK
  <2>3. ByStage'
    <3>1. \A u \in Transfers : /\ stage'[u] = "idle" => stage[u] = "idle"
                               /\ stage[u] = "done" => stage'[u] = "done"
                               /\ stage'[u] # "idle" => stage[u] # "idle"
      BY <2>1, EndsEffect
    <3>2. \A u \in Transfers : before[u] \subseteq Transfers
      BY DEF TypeOK, Transfers
    <3> QED BY <2>1, <3>1, <3>2 DEF ByStage
  <2> QED BY <2>2, <2>3
<1>2. CASE UNCHANGED vars
  BY <1>2 DEF vars, TypeOK, ByStage
<1> QED BY <1>1, <1>2, StorTypes, RetrTypes DEF Next

\* Offsets, contents and stages of every transfer have their types (TypeOK),
\* however many are at work.
THEOREM TypeCorrect == Spec => []TypeOK
<1>1. TypeOK /\ ByStage /\ [Next]_vars => (TypeOK /\ ByStage)'
  BY TypesInductive
<1> QED BY <1>1, TypesInitially, PTL DEF Spec

\* What the stages say of the rest, in every reachable state.
THEOREM StagesKept == Spec => []ByStage
<1>1. TypeOK /\ ByStage /\ [Next]_vars => (TypeOK /\ ByStage)'
  BY TypesInductive
<1> QED BY <1>1, TypesInitially, PTL DEF Spec
-----------------------------------------------------------------------------
(* What has begun stays begun *)

\* The steps by what they leave alone: an opening, a write, a read, an end.
LEMMA StepKinds ==
    ASSUME [Next]_vars
    PROVE  \/ \E s \in Stores : StorOpens(s)
           \/ \E s \in Stores : StorWrites(s)
           \/ \E r \in Reads : RetrOpens(r)
           \/ \E r \in Reads : RetrReads(r)
           \/ /\ \E t \in Transfers : /\ stage[t] = "open"
                                      /\ stage' = [stage EXCEPT ![t] = "done"]
              /\ UNCHANGED <<file, pos, sent, before>>
           \/ UNCHANGED vars
BY DEF Next, Stor, Retr, StorEnds, RetrEnds, StopsShort, Transfers

\* A store that has begun has begun for good, and when it began does not change;
\* no offset goes back.
LEMMA HistoryKept ==
    ASSUME TypeOK, ByStage, [Next]_vars
    PROVE  /\ Begun \subseteq Begun'
           /\ \A s \in Begun : before'[s] = before[s]
           /\ \A t \in Transfers : pos'[t] >= pos[t] /\ pos[t] \in Nat
<1>1. /\ Stores \subseteq Transfers /\ Reads \subseteq Transfers
      /\ pos \in [Transfers -> Nat] /\ stage \in [Transfers -> {"idle", "open", "done"}]
  BY TransfersAssumption DEF Transfers, TypeOK
<1>2. ASSUME NEW t \in Transfers, Opens(t), stage[t] = "idle", UNCHANGED pos
      PROVE  /\ Begun \subseteq Begun'
             /\ \A s \in Begun : before'[s] = before[s]
             /\ \A u \in Transfers : pos'[u] >= pos[u] /\ pos[u] \in Nat
  BY <1>1, <1>2, OpensEffect DEF Begun
<1>3. CASE \E s \in Stores : StorOpens(s)
  BY <1>1, <1>2, <1>3 DEF StorOpens
<1>4. CASE \E r \in Reads : RetrOpens(r)
  BY <1>1, <1>2, <1>4 DEF RetrOpens
<1>5. CASE \E t \in Transfers : StorWrites(t) \/ RetrReads(t)
  <2>1. PICK t \in Transfers : pos' = [pos EXCEPT ![t] = pos[t] + 1]
    BY <1>5 DEF StorWrites, RetrReads
  <2>2. UNCHANGED <<stage, before>>
    BY <1>5 DEF StorWrites, RetrReads
  <2> QED BY <1>1, <2>1, <2>2 DEF Begun
<1>6. CASE /\ \E t \in Transfers : /\ stage[t] = "open"
                                   /\ stage' = [stage EXCEPT ![t] = "done"]
           /\ UNCHANGED <<file, pos, sent, before>>
  BY <1>1, <1>6 DEF Begun
<1>7. CASE UNCHANGED vars
  BY <1>1, <1>7 DEF Begun, vars
<1> QED BY <1>1, <1>3, <1>4, <1>5, <1>6, <1>7, StepKinds

\* Stores that overlapped have overlapped.
LEMMA OverlapStays ==
    ASSUME TypeOK, ByStage, [Next]_vars, Overlap
    PROVE  Overlap'
BY HistoryKept DEF Overlap

\* A cell that is right where it is remains so.
LEMMA InPlaceStays ==
    ASSUME TypeOK, ByStage, [Next]_vars,
           NEW c, NEW i \in Nat, InPlace(c, i)
    PROVE  InPlace(c, i)'
<1>1. c = Hole => Overlap'
  BY OverlapStays DEF InPlace
<1>2. c.by \in Stores => c.by \in Begun' /\ i <= pos'[c.by]
  <2> SUFFICES ASSUME c.by \in Stores PROVE c.by \in Begun' /\ i <= pos'[c.by]
    OBVIOUS
  <2>1. c.by \in Begun /\ i <= pos[c.by] /\ c.by \in Transfers
    BY DEF InPlace, Transfers
  <2>2. pos[c.by] \in Nat /\ pos'[c.by] \in Nat
    BY <2>1, TypesInductive, TransfersAssumption DEF TypeOK
  <2> QED BY <2>1, <2>2, HistoryKept
<1> QED BY <1>1, <1>2 DEF InPlace

-----------------------------------------------------------------------------
(* Where cells are *)

\* A store at work whose file is shorter than what it wrote overlaps another.
LEMMA ShorterInductive ==
    ASSUME TypeOK, ByStage, ShorterByOverlap, [Next]_vars
    PROVE  ShorterByOverlap'
<1> SUFFICES ASSUME NEW s \in Stores, stage'[s] = "open", pos'[s] > Len(file')
             PROVE  Overlap'
  BY DEF ShorterByOverlap
<1>1. /\ s \in Transfers /\ pos[s] \in Nat /\ pos'[s] \in Nat
      /\ pos \in [Transfers -> Nat] /\ stage \in [Transfers -> {"idle", "open", "done"}]
      /\ Stores \subseteq Transfers /\ Stores \cap Reads = {}
  BY TypesInductive, TransfersAssumption DEF TypeOK, Transfers
<1>2. CASE \E t \in Stores : StorOpens(t)
  <2>1. PICK t \in Stores : StorOpens(t)
    BY <1>2
  <2>2. stage[t] = "idle" /\ Opens(t) /\ file' = <<>> /\ UNCHANGED pos
    BY <2>1 DEF StorOpens
  <2>3. pos'[t] = 0 /\ Len(file') = 0 /\ stage'[t] = "open"
    BY <1>1, <2>2, EmptyFile, OpensEffect DEF ByStage
  <2>4. s # t /\ stage[s] = "open" /\ before'[s] = before[s]
        /\ before'[t] = {u \in Stores : stage[u] = "done"}
    BY <1>1, <2>2, <2>3, OpensEffect
  <2>5. s \notin before'[t] /\ t \notin before'[s]
    BY <1>1, <2>2, <2>4 DEF ByStage
  <2>6. s \in Begun' /\ t \in Begun'
    BY <2>3 DEF Begun
  <2> QED BY <2>4, <2>5, <2>6 DEF Overlap
<1>3. CASE \E t \in Stores : StorWrites(t)
  <2>1. PICK t \in Stores : StorWrites(t)
    BY <1>3
  <2>2. /\ file \in Seq(Cells) /\ pos[t] \in Nat
        /\ pos' = [pos EXCEPT ![t] = pos[t] + 1]
        /\ Len(file') = IF Len(file) > pos[t] THEN Len(file) ELSE pos[t] + 1
    BY <2>1, StorWritesEffect
  <2>3. Len(file) \in Nat /\ UNCHANGED stage
    BY <2>1, <2>2, LenProperties DEF StorWrites
  <2>4. s # t
    BY <1>1, <2>2, <2>3
  <2>5. pos[s] > Len(file) /\ stage[s] = "open"
    BY <1>1, <2>2, <2>3, <2>4
  <2> QED BY <2>5, OverlapStays DEF ShorterByOverlap
<1>4. CASE stage[s] = "open" /\ pos[s] > Len(file)
  BY <1>4, OverlapStays DEF ShorterByOverlap
<1>5. CASE \E r \in Reads : RetrOpens(r)
  <2>1. PICK r \in Reads : RetrOpens(r)
    BY <1>5
  <2>2. UNCHANGED <<file, pos>> /\ Opens(r) /\ r # s /\ r \in Transfers
    BY <1>1, <2>1 DEF RetrOpens, Transfers
  <2> QED BY <1>1, <1>4, <2>2, OpensEffect
<1>6. CASE \E r \in Reads : RetrReads(r)
  <2>1. PICK r \in Reads : RetrReads(r)
    BY <1>6
  <2>2. UNCHANGED <<file, stage>> /\ pos' = [pos EXCEPT ![r] = pos[r] + 1] /\ r # s
    BY <1>1, <2>1 DEF RetrReads
  <2> QED BY <1>1, <1>4, <2>2
<1>7. CASE /\ \E t \in Transfers : /\ stage[t] = "open"
                                   /\ stage' = [stage EXCEPT ![t] = "done"]
           /\ UNCHANGED <<file, pos, sent, before>>
  BY <1>1, <1>4, <1>7
<1>8. CASE UNCHANGED vars
  BY <1>4, <1>8 DEF vars
<1> QED BY <1>2, <1>3, <1>5, <1>6, <1>7, <1>8, StepKinds
\* Every cell remains right where it is, and each new one is right.
LEMMA CellsInductive ==
    ASSUME TypeOK, ByStage, ShorterByOverlap, CellsInPlace, [Next]_vars
    PROVE  CellsInPlace'
<1>0. /\ Stores \cap Reads = {} /\ Old \notin Stores
      /\ Stores \subseteq Transfers /\ Reads \subseteq Transfers
  BY TransfersAssumption DEF Transfers
<1>2. ASSUME file # NoFile, NEW i \in DOMAIN file, NEW c, c = file[i]
      PROVE  InPlace(c, i)'
  <2>1. file \in Seq(Cells)
    BY <1>2 DEF TypeOK
  <2>2. i \in Nat
    BY <1>2, <2>1, LenProperties
  <2>3. InPlace(c, i)
    BY <1>2 DEF CellsInPlace
  <2> QED BY <2>2, <2>3, InPlaceStays
<1>3. ASSUME NEW r \in Reads, NEW i \in DOMAIN sent[r], NEW c, c = sent[r][i]
      PROVE  InPlace(c, i)'
  <2>1. sent[r] \in Seq(Cells)
    BY DEF TypeOK
  <2>2. i \in Nat
    BY <2>1, LenProperties
  <2>3. InPlace(c, i)
    BY <1>3 DEF CellsInPlace
  <2> QED BY <2>2, <2>3, InPlaceStays
<1>4. ASSUME file' # NoFile, NEW i \in DOMAIN file', NEW c, c = file'[i]
      PROVE  InPlace(c, i)'
  <2>1. CASE \E s \in Stores : StorOpens(s)
    <3>1. file' = <<>>
      BY <2>1 DEF StorOpens
    <3> QED BY <1>4, <3>1
  <2>2. CASE \E s \in Stores : StorWrites(s)
    <3>1. PICK s \in Stores : StorWrites(s)
      BY <2>2
    <3>2. /\ file # NoFile /\ pos[s] \in Nat /\ pos[s] < MaxCells
          /\ pos' = [pos EXCEPT ![s] = pos[s] + 1]
          /\ \/ i = pos[s] + 1 /\ c = Cell(s, i)
             \/ i # pos[s] + 1 /\ i \in DOMAIN file /\ c = file[i]
             \/ Len(file) < pos[s] /\ c = Hole
      BY <1>4, <3>1, StorWritesEffect
    <3>3. CASE i = pos[s] + 1 /\ c = Cell(s, i)
      <4>1. i \in 1 .. MaxCells /\ pos'[s] = i
        BY <1>0, <3>2, <3>3, TransfersAssumption DEF TypeOK
      <4>2. c # Hole /\ c.by = s /\ c.at = i
        BY <3>3, <4>1, CellTypes
      <4>3. s \in Begun'
        BY <3>1 DEF StorWrites, Begun
      <4> QED BY <4>1, <4>2, <4>3 DEF InPlace
    <3>4. CASE i \in DOMAIN file /\ c = file[i]
      BY <1>2, <3>2, <3>4
    <3>5. CASE Len(file) < pos[s] /\ c = Hole
      <4>1. Overlap
        <5>1. file \in Seq(Cells) /\ stage[s] = "open"
          BY <3>1, <3>2 DEF TypeOK, StorWrites
        <5>2. Len(file) \in Nat
          BY <5>1, LenProperties
        <5> QED BY <3>2, <3>5, <5>1, <5>2 DEF ShorterByOverlap
      <4>2. Overlap' /\ c.by \notin Stores
        BY <1>0, <3>5, <4>1, CellTypes, OverlapStays
      <4> QED BY <3>5, <4>2 DEF InPlace
    <3> QED BY <3>2, <3>3, <3>4, <3>5
  <2>3. CASE UNCHANGED file
    BY <1>2, <1>4, <2>3
  <2> QED BY <2>1, <2>2, <2>3, StepKinds DEF RetrOpens, RetrReads, vars
<1>5. ASSUME NEW r \in Reads, NEW i \in DOMAIN sent'[r], NEW c, c = sent'[r][i]
      PROVE  InPlace(c, i)'
  <2>1. CASE RetrReads(r)
    <3>1. /\ file # NoFile /\ pos[r] + 1 \in DOMAIN file
          /\ DOMAIN sent'[r] = 1 .. pos[r] + 1 /\ DOMAIN sent[r] = 1 .. pos[r]
          /\ sent'[r][pos[r] + 1] = file[pos[r] + 1] /\ pos[r] \in Nat
          /\ \A j \in 1 .. pos[r] : sent'[r][j] = sent[r][j]
      BY <2>1, RetrReadsEffect
    <3>2. CASE i = pos[r] + 1
      BY <1>2, <1>5, <3>1, <3>2
    <3>3. CASE i \in 1 .. pos[r]
      BY <1>3, <1>5, <3>1, <3>3
    <3> QED BY <1>5, <3>1, <3>2, <3>3
  <2>2. CASE sent'[r] = sent[r]
    BY <1>3, <1>5, <2>2
  <2>3. ASSUME NEW q \in Reads, RetrReads(q), q # r PROVE sent'[r] = sent[r]
    BY <2>3, RetrReadsEffect
  <2> QED BY <2>1, <2>2, <2>3, StepKinds DEF StorOpens, StorWrites, RetrOpens, vars
<1> QED BY <1>4, <1>5 DEF CellsInPlace

-----------------------------------------------------------------------------
(* Transfers that nobody overlaps with *)

\* Nothing older comes into a file after a store has emptied it.
LEMMA OlderInductive ==
    ASSUME TypeOK, ByStage, NothingOlder, [Next]_vars
    PROVE  NothingOlder'
<1> SUFFICES ASSUME file' # NoFile, NEW s \in Begun', NEW i \in DOMAIN file',
                    file'[i] # Hole
             PROVE  file'[i].by \notin before'[s] \cup {Old}
  BY DEF NothingOlder
<1>0. /\ Stores \subseteq Transfers /\ Reads \subseteq Transfers
      /\ Stores \cap Reads = {} /\ Old \notin Stores
  BY TransfersAssumption DEF Transfers
<1>1. CASE \E t \in Stores : StorOpens(t)
  <2>1. file' = <<>>
    BY <1>1 DEF StorOpens
  <2> QED BY <2>1
<1>2. ASSUME stage' = stage \/ \A t \in Stores : stage'[t] # "idle" => stage[t] # "idle"
      PROVE  s \in Begun
  BY <1>2 DEF Begun
<1>3. CASE \E t \in Stores : StorWrites(t)
  <2>1. PICK t \in Stores : StorWrites(t)
    BY <1>3
  <2>2. /\ file # NoFile /\ UNCHANGED <<before, stage>> /\ stage[t] = "open"
        /\ pos[t] \in Nat /\ pos[t] < MaxCells
        /\ \/ i = pos[t] + 1 /\ file'[i] = Cell(t, i)
           \/ i # pos[t] + 1 /\ i \in DOMAIN file /\ file'[i] = file[i]
    BY <2>1, StorWritesEffect DEF StorWrites
  <2>3. s \in Begun
    BY <1>2, <2>2
  <2>4. CASE i = pos[t] + 1 /\ file'[i] = Cell(t, i)
    <3>1. i \in 1 .. MaxCells
      BY <2>2, <2>4, TransfersAssumption
    <3>2. file'[i].by = t
      BY <2>4, <3>1, CellTypes
    <3>3. t \notin before[s]
      BY <1>0, <2>2, <2>3 DEF ByStage, Begun
    <3> QED BY <1>0, <2>2, <3>2, <3>3
  <2>5. CASE i \in DOMAIN file /\ file'[i] = file[i]
    BY <2>2, <2>3, <2>5 DEF NothingOlder
  <2> QED BY <2>2, <2>4, <2>5
<1>4. CASE UNCHANGED file
  <2>1. s \in Begun
    <3>1. \A t \in Stores : stage'[t] # "idle" => stage[t] # "idle"
      <4>1. CASE \E r \in Reads : RetrOpens(r)
        <5>1. PICK r \in Reads : Opens(r)
          BY <4>1 DEF RetrOpens
        <5> QED BY <1>0, <5>1, OpensEffect
      <4>2. CASE \E t \in Transfers : /\ stage[t] = "open"
                                      /\ stage' = [stage EXCEPT ![t] = "done"]
        BY <1>0, <4>2 DEF TypeOK
      <4>3. CASE UNCHANGED stage
        BY <4>3
      <4> QED BY <1>1, <1>3, <4>1, <4>2, <4>3, StepKinds
              DEF StorOpens, StorWrites, RetrReads, vars
    <3> QED BY <1>2, <3>1
  <2>2. before'[s] = before[s]
    BY <2>1, HistoryKept
  <2> QED BY <1>4, <2>1, <2>2 DEF NothingOlder
<1> QED BY <1>1, <1>3, <1>4, StepKinds DEF RetrOpens, RetrReads, vars

\* A reader is sent nothing older than what it has been sent, as the file gets
\* nothing older.
LEMMA ForwardInductive ==
    ASSUME TypeOK, ByStage, CellsInPlace, NothingOlder, ReadersMoveForward,
           [Next]_vars
    PROVE  ReadersMoveForward'
<1> SUFFICES ASSUME NEW r \in Reads,
                    NEW i \in DOMAIN sent'[r], NEW j \in DOMAIN sent'[r],
                    i < j, sent'[r][i].by \in Stores, sent'[r][j] # Hole
             PROVE  sent'[r][j].by \notin before'[sent'[r][i].by] \cup {Old}
  BY DEF ReadersMoveForward
<1>1. ASSUME NEW k \in DOMAIN sent[r], sent[r][k].by \in Stores
      PROVE  /\ sent[r][k].by \in Begun
             /\ before'[sent[r][k].by] = before[sent[r][k].by]
  <2>1. sent[r][k].by \in Begun
    BY <1>1 DEF CellsInPlace, InPlace
  <2> QED BY <2>1, HistoryKept
<1>2. CASE RetrReads(r)
  <2>1. /\ file # NoFile /\ pos[r] + 1 \in DOMAIN file
        /\ DOMAIN sent'[r] = 1 .. pos[r] + 1 /\ DOMAIN sent[r] = 1 .. pos[r]
        /\ sent'[r][pos[r] + 1] = file[pos[r] + 1] /\ pos[r] \in Nat
        /\ \A k \in 1 .. pos[r] : sent'[r][k] = sent[r][k]
    BY <1>2, RetrReadsEffect
  <2>2. i \in DOMAIN sent[r] /\ sent'[r][i] = sent[r][i]
    BY <2>1
  <2>3. CASE j = pos[r] + 1
    <3>1. file[j].by \notin before[sent[r][i].by] \cup {Old}
      BY <1>1, <2>1, <2>2, <2>3 DEF NothingOlder
    <3> QED BY <1>1, <2>1, <2>2, <2>3, <3>1
  <2>4. CASE j \in 1 .. pos[r]
    BY <1>1, <2>1, <2>2, <2>4 DEF ReadersMoveForward
  <2> QED BY <2>1, <2>3, <2>4
<1>3. CASE sent'[r] = sent[r]
  BY <1>1, <1>3 DEF ReadersMoveForward
<1>4. ASSUME NEW q \in Reads, RetrReads(q), q # r PROVE sent'[r] = sent[r]
  BY <1>4, RetrReadsEffect
<1> QED BY <1>2, <1>3, <1>4, StepKinds DEF StorOpens, StorWrites, RetrOpens, vars

\* A store that no other overlaps with leaves what its client sent.
LEMMA AloneStoreInductive ==
    ASSUME TypeOK, ByStage, AloneIsWhole, [Next]_vars,
           NEW s \in Begun', Begun' \subseteq before'[s] \cup {s}
    PROVE  file' = [i \in 1 .. pos'[s] |-> Cell(s, i)]
<1>0. /\ Stores \subseteq Transfers /\ Reads \subseteq Transfers
      /\ Stores \cap Reads = {} /\ s \in Stores
  BY TransfersAssumption DEF Transfers, Begun
<1>1. ASSUME s \in Begun PROVE file = [i \in 1 .. pos[s] |-> Cell(s, i)]
  <2>1. Begun \subseteq before[s] \cup {s}
    BY <1>1, HistoryKept
  <2> QED BY <1>1, <2>1 DEF AloneIsWhole
<1>2. ASSUME NEW t \in Stores, stage[t] # "done", stage'[t] # "idle", s \in Begun
      PROVE  t = s
  <2>1. t \in Begun' /\ before'[s] = before[s]
    BY <1>2, HistoryKept DEF Begun
  <2>2. t \notin before[s]
    BY <1>0, <1>2 DEF ByStage
  <2> QED BY <2>1, <2>2
<1>3. CASE \E t \in Stores : StorOpens(t)
  <2>1. PICK t \in Stores : StorOpens(t)
    BY <1>3
  <2>2. /\ file' = <<>> /\ Opens(t) /\ stage[t] = "idle" /\ UNCHANGED pos
        /\ stage'[t] = "open" /\ pos[t] = 0
        /\ \A u \in Transfers : u # t => stage'[u] = stage[u]
    BY <1>0, <2>1, OpensEffect DEF StorOpens, ByStage
  <2>3. s = t
    <3>1. CASE s \in Begun
      BY <1>2, <2>2, <3>1
    <3>2. CASE s \notin Begun
      BY <1>0, <2>2, <3>2 DEF Begun
    <3> QED BY <3>1, <3>2
  <2>4. pos'[s] = 0 /\ 1 .. 0 = {}
    BY <2>2, <2>3
  <2> QED BY <2>2, <2>4
<1>4. CASE \E t \in Stores : StorWrites(t)
  <2>1. PICK t \in Stores : StorWrites(t)
    BY <1>4
  <2>2. stage[t] = "open" /\ UNCHANGED <<stage, before>>
    BY <2>1 DEF StorWrites
  <2>3. s \in Begun
    BY <2>2 DEF Begun
  <2>4. s = t
    BY <1>2, <2>2, <2>3
  <2>5. /\ pos[s] \in Nat /\ pos'[s] = pos[s] + 1
        /\ file = [i \in 1 .. pos[s] |-> Cell(s, i)]
    BY <1>0, <1>1, <2>1, <2>3, <2>4, StorWritesEffect DEF TypeOK
  <2>6. DOMAIN file = 1 .. pos[s] /\ Len(file) = pos[s] /\ file \in Seq(Cells)
    <3>1. file \in Seq(Cells)
      BY <2>1, StorWritesEffect
    <3>2. Len(file) \in Nat /\ DOMAIN file = 1 .. Len(file)
      BY <3>1, LenProperties
    <3>3. 1 .. Len(file) = 1 .. pos[s]
      BY <2>5, <3>2
    <3> QED BY <2>5, <3>1, <3>2, <3>3
  <2>7. /\ file' \in Seq(Cells) /\ Len(file') = pos[s] + 1
        /\ \A i \in DOMAIN file' :
             \/ i = pos[s] + 1 /\ file'[i] = Cell(s, i)
             \/ i \in DOMAIN file /\ file'[i] = file[i]
    <3>1. StorWrites(s)
      BY <2>1, <2>4
    <3>2. /\ file' \in Seq(Cells)
          /\ Len(file') = IF Len(file) > pos[s] THEN Len(file) ELSE pos[s] + 1
          /\ \A i \in DOMAIN file' :
               \/ i = pos[s] + 1 /\ file'[i] = Cell(s, i)
               \/ i # pos[s] + 1 /\ i \in DOMAIN file /\ file'[i] = file[i]
               \/ Len(file) < pos[s] /\ file'[i] = Hole
      BY <1>0, <3>1, StorWritesEffect
    <3>3. ~(Len(file) < pos[s]) /\ ~(Len(file) > pos[s])
      BY <2>5, <2>6
    <3> QED BY <3>2, <3>3
  <2>8. \A i \in DOMAIN file' : file'[i] = Cell(s, i)
    BY <2>5, <2>6, <2>7
  <2>9. DOMAIN file' = 1 .. pos'[s] /\ file' = [i \in DOMAIN file' |-> file'[i]]
    BY <2>5, <2>7, LenProperties
  <2> QED BY <2>8, <2>9
<1>5. CASE UNCHANGED file
  <2>1. CASE UNCHANGED <<stage, before>> /\ pos'[s] = pos[s]
    <3>1. s \in Begun
      BY <2>1 DEF Begun
    <3> QED BY <1>1, <1>5, <2>1, <3>1
  <2>2. CASE \E r \in Reads : RetrOpens(r)
    <3>1. PICK r \in Reads : Opens(r) /\ UNCHANGED pos
      BY <2>2 DEF RetrOpens
    <3>2. r # s /\ stage'[s] = stage[s]
      BY <1>0, <3>1, OpensEffect
    <3>3. s \in Begun
      BY <1>0, <3>2 DEF Begun
    <3> QED BY <1>1, <1>5, <3>1, <3>3
  <2>3. CASE \E r \in Reads : RetrReads(r)
    <3>1. PICK r \in Reads : pos' = [pos EXCEPT ![r] = pos[r] + 1]
      BY <2>3 DEF RetrReads
    <3>2. UNCHANGED <<stage, before>> /\ pos'[s] = pos[s]
      BY <1>0, <2>3, <3>1 DEF RetrReads, TypeOK
    <3> QED BY <2>1, <3>2
  <2>4. CASE /\ \E t \in Transfers : /\ stage[t] = "open"
                                     /\ stage' = [stage EXCEPT ![t] = "done"]
             /\ UNCHANGED <<file, pos, sent, before>>
    <3>1. s \in Begun
      BY <1>0, <2>4 DEF Begun, TypeOK
    <3> QED BY <1>1, <1>5, <2>4, <3>1
  <2> QED BY <1>3, <1>4, <2>1, <2>2, <2>3, <2>4, StepKinds DEF vars
<1> QED BY <1>3, <1>4, <1>5, StepKinds DEF RetrOpens, RetrReads, vars

\* One more cell of a sequence.
LEMMA InitialPartGrows ==
    ASSUME NEW S, NEW seq \in Seq(S), NEW n \in Nat, n < Len(seq)
    PROVE  SubSeq(seq, 1, n + 1) = Append(SubSeq(seq, 1, n), seq[n + 1])
<1>1. /\ Len(seq) \in Nat /\ 1 \in 1 .. Len(seq) /\ n + 1 \in 1 .. Len(seq)
      /\ (n + 1) - 1 = n
  BY LenProperties
<1>2. \A i \in 1 .. n : i \in 1 .. Len(seq)
  BY <1>1
<1>3. SubSeq(seq, 1, n) \in Seq(S) /\ seq[n + 1] \in S
  <2>1. \A i \in 1 .. n : seq[i] \in S
    BY <1>2, ElementOfSeq
  <2> QED BY <1>1, <2>1, ElementOfSeq, SubSeqProperties
<1>4. SubSeq(seq, 1, n + 1) = SubSeq(seq, 1, n) \o <<seq[n + 1]>>
  BY <1>1, SubSeqRecursiveSecond
<1> QED BY <1>3, <1>4, AppendIsConcat

\* A reader that no store overlaps with has been sent the beginning of the file,
\* and all of it once the loop has ended with the end of the file.
LEMMA AloneReaderInductive ==
    ASSUME TypeOK, ByStage, AloneIsWhole, AloneIsInside, [Next]_vars,
           NEW r \in Reads, stage'[r] # "idle", Begun' = before'[r]
    PROVE  /\ pos'[r] <= Len(file')
           /\ sent'[r] = SubSeq(file', 1, pos'[r])
           /\ complete'[r] => sent'[r] = file'
<1>0. /\ Stores \subseteq Transfers /\ Reads \subseteq Transfers /\ r \in Transfers
      /\ Stores \cap Reads = {} /\ MaxCells \in Nat
  BY TransfersAssumption DEF Transfers
<1>1. CASE RetrOpens(r)
  <2>1. /\ file # NoFile /\ stage[r] = "idle" /\ UNCHANGED <<file, pos, sent, complete>>
    BY <1>1 DEF RetrOpens
  <2>2. /\ pos[r] = 0 /\ ~complete[r] /\ Len(sent[r]) = 0 /\ sent[r] \in Seq(Cells)
        /\ file \in Seq(Cells)
    BY <1>0, <2>1 DEF ByStage, TypeOK
  <2>3. sent[r] = <<>> /\ SubSeq(file, 1, 0) = <<>> /\ Len(file) >= 0
    BY <2>2, EmptySeq, LenProperties, SubSeqEmpty
  <2> QED BY <2>1, <2>2, <2>3
<1>2. ASSUME ~RetrOpens(r)
      PROVE  stage[r] # "idle" /\ before'[r] = before[r]
  <2>1. CASE \E t \in Stores : StorOpens(t)
    <3>1. PICK t \in Stores : Opens(t)
      BY <2>1 DEF StorOpens
    <3>2. t # r /\ t \in Transfers
      BY <1>0
    <3> QED BY <1>0, <3>1, <3>2, OpensEffect
  <2>2. CASE \E q \in Reads : RetrOpens(q)
    <3>1. PICK q \in Reads : RetrOpens(q)
      BY <2>2
    <3>2. Opens(q) /\ q # r /\ q \in Transfers
      BY <1>0, <1>2, <3>1 DEF RetrOpens
    <3> QED BY <1>0, <3>2, OpensEffect
  <2>3. CASE /\ \E t \in Transfers : /\ stage[t] = "open"
                                     /\ stage' = [stage EXCEPT ![t] = "done"]
             /\ UNCHANGED <<file, pos, sent, before>>
    BY <1>0, <2>3 DEF TypeOK
  <2>4. CASE UNCHANGED <<stage, before>>
    BY <2>4
  <2> QED BY <2>1, <2>2, <2>3, <2>4, StepKinds DEF StorWrites, RetrReads, vars
<1>3. ASSUME ~RetrOpens(r)
      PROVE  /\ Begun = before[r] /\ pos[r] <= Len(file)
             /\ sent[r] = SubSeq(file, 1, pos[r])
             /\ complete[r] => sent[r] = file
             /\ \A t \in Begun' : stage[t] = "done"
  <2>1. before[r] \subseteq Begun /\ \A t \in before[r] : stage[t] = "done"
    BY <1>0 DEF ByStage, TypeOK, Begun
  <2>2. Begun = before[r]
    BY <1>2, <1>3, <2>1, HistoryKept
  <2> QED BY <1>2, <1>3, <2>1, <2>2 DEF AloneIsWhole, AloneIsInside
<1>4. ASSUME NEW t \in Stores, StorOpens(t) \/ StorWrites(t), ~RetrOpens(r)
      PROVE  FALSE
  <2>1. stage[t] # "done" /\ stage'[t] = "open"
    <3>1. CASE StorOpens(t)
      BY <1>0, <3>1, OpensEffect DEF StorOpens
    <3>2. CASE StorWrites(t)
      BY <3>2 DEF StorWrites
    <3> QED BY <1>4, <3>1, <3>2
  <2>2. t \in Begun'
    BY <2>1 DEF Begun
  <2> QED BY <1>3, <1>4, <2>1, <2>2
<1>5. CASE RetrReads(r)
  <2>1. ~RetrOpens(r) /\ stage[r] = "open" /\ UNCHANGED <<file, complete>>
        /\ pos[r] < Len(file)
    BY <1>5 DEF RetrOpens, RetrReads
  <2>2. /\ file \in Seq(Cells) /\ pos[r] \in Nat /\ Len(file) \in Nat
        /\ pos' = [pos EXCEPT ![r] = pos[r] + 1]
        /\ sent'[r] = Append(sent[r], file[pos[r] + 1])
    BY <1>5, RetrReadsEffect, LenProperties
  <2>3. pos'[r] = pos[r] + 1 /\ ~complete[r]
    BY <1>0, <2>1, <2>2 DEF TypeOK, ByStage
  <2>4. sent'[r] = SubSeq(file, 1, pos[r] + 1)
    BY <1>3, <2>1, <2>2, InitialPartGrows
  <2> QED BY <2>1, <2>2, <2>3, <2>4
<1>6. ASSUME UNCHANGED file, sent'[r] = sent[r], pos'[r] = pos[r], ~RetrOpens(r),
             complete'[r] => complete[r] \/ pos[r] >= Len(file)
      PROVE  /\ pos'[r] <= Len(file')
             /\ sent'[r] = SubSeq(file', 1, pos'[r])
             /\ complete'[r] => sent'[r] = file'
  <2>1. file \in Seq(Cells) /\ pos[r] \in Nat
    BY <1>0, <1>2, <1>6 DEF ByStage, TypeOK
  <2>2. SubSeq(file, 1, Len(file)) = file /\ Len(file) \in Nat
    BY <2>1, SubSeqFull, LenProperties
  <2>3. pos[r] >= Len(file) => pos[r] = Len(file)
    BY <1>3, <1>6, <2>1, <2>2
  <2> QED BY <1>3, <1>6, <2>2, <2>3
<1>7. ASSUME NEW q \in Reads, RetrReads(q), q # r
      PROVE  UNCHANGED <<file, complete>> /\ sent'[r] = sent[r] /\ pos'[r] = pos[r]
             /\ ~RetrOpens(r)
  <2>1. UNCHANGED <<file, complete, stage>> /\ sent'[r] = sent[r]
        /\ pos' = [pos EXCEPT ![q] = pos[q] + 1]
    BY <1>7, RetrReadsEffect DEF RetrReads
  <2>2. pos'[r] = pos[r]
    BY <1>0, <1>7, <2>1 DEF TypeOK
  <2>3. ~RetrOpens(r)
    BY <1>0, <2>1, OpensEffect DEF RetrOpens
  <2> QED BY <2>1, <2>2, <2>3
<1>8. ASSUME NEW t \in Transfers,
             (t \in Stores /\ StorEnds(t)) \/ (t \in Reads /\ RetrEnds(t)) \/ StopsShort(t),
             ~RetrOpens(r)
      PROVE  /\ UNCHANGED <<file, pos, sent>>
             /\ complete'[r] => complete[r] \/ pos[r] >= Len(file)
  <2>1. CASE t \in Reads /\ RetrEnds(t)
    BY <1>0, <2>1 DEF RetrEnds, TypeOK
  <2>2. CASE t \in Stores /\ StorEnds(t)
    <3>1. t # r
      BY <1>0, <2>2
    <3> QED BY <1>0, <2>2, <3>1 DEF StorEnds, TypeOK
  <2>3. CASE StopsShort(t)
    BY <2>3 DEF StopsShort
  <2> QED BY <1>8, <2>1, <2>2, <2>3
<1>9. ASSUME NEW q \in Reads, RetrOpens(q) PROVE UNCHANGED <<file, pos, sent, complete>>
  BY <1>9 DEF RetrOpens
<1>10. CASE UNCHANGED vars
  <2>1. ~RetrOpens(r)
    BY <1>0, <1>10, OpensEffect DEF RetrOpens, vars
  <2> QED BY <1>6, <1>10, <2>1 DEF vars
<1>11. CASE \E s \in Stores : Stor(s)
  BY <1>0, <1>1, <1>4, <1>6, <1>8, <1>11 DEF Stor
<1>12. CASE \E q \in Reads : Retr(q)
  BY <1>0, <1>1, <1>5, <1>6, <1>7, <1>8, <1>9, <1>12 DEF Retr
<1>13. CASE \E t \in Transfers : StopsShort(t)
  BY <1>1, <1>6, <1>8, <1>13
<1> QED BY <1>10, <1>11, <1>12, <1>13 DEF Next

\* The part of AloneIsWhole about readers needs that they are inside the file.
LEMMA AloneInductive ==
    ASSUME TypeOK, ByStage, AloneIsWhole, AloneIsInside, [Next]_vars
    PROVE  AloneIsWhole' /\ AloneIsInside'
BY AloneStoreInductive, AloneReaderInductive DEF AloneIsWhole, AloneIsInside

\* Nothing has begun in the initial states.
LEMMA ContentsInitially ==
    Init => /\ ShorterByOverlap /\ CellsInPlace /\ NothingOlder
            /\ ReadersMoveForward /\ AloneIsWhole /\ AloneIsInside
<1> SUFFICES ASSUME Init
             PROVE  /\ ShorterByOverlap /\ CellsInPlace /\ NothingOlder
                    /\ ReadersMoveForward /\ AloneIsWhole /\ AloneIsInside
  OBVIOUS
<1>1. /\ Stores \subseteq Transfers /\ Reads \subseteq Transfers
      /\ MaxCells \in Nat /\ Old \notin Stores
  BY TransfersAssumption DEF Transfers
<1>2. \A t \in Transfers : stage[t] = "idle"
  BY DEF Init
<1>3. Begun = {} /\ \A r \in Reads : sent[r] = <<>> /\ DOMAIN sent[r] = {}
  <2>1. Begun = {}
    BY <1>1, <1>2 DEF Begun
  <2>2. \A r \in Reads : sent[r] = <<>>
    BY DEF Init
  <2>3. DOMAIN <<>> = {}
    OBVIOUS
  <2> QED BY <2>1, <2>2, <2>3
<1>4. CellsInPlace
  <2>1. ASSUME file # NoFile, NEW i \in DOMAIN file PROVE InPlace(file[i], i)
    <3>1. PICK n \in 0 .. MaxCells : file = [k \in 1 .. n |-> Cell(Old, k)]
      BY <2>1 DEF Init
    <3>2. i \in 1 .. MaxCells /\ file[i] = Cell(Old, i)
      BY <1>1, <2>1, <3>1
    <3>3. file[i] # Hole /\ file[i].by = Old /\ file[i].at = i
      BY <3>2, CellTypes
    <3> QED BY <1>1, <3>3 DEF InPlace
  <2> QED BY <1>3, <2>1 DEF CellsInPlace
<1> QED BY <1>1, <1>2, <1>3, <1>4
        DEF ShorterByOverlap, NothingOlder, ReadersMoveForward, AloneIsWhole,
            AloneIsInside

\* Whatever transfers of the file come together, a cell stays at the place its
\* client sent it for, and zeros come in only when stores overlap (CellsInPlace).
THEOREM CellsStayInPlace == Spec => []CellsInPlace
<1>1. TypeOK /\ ByStage /\ (ShorterByOverlap /\ CellsInPlace) /\ [Next]_vars
        => (ShorterByOverlap /\ CellsInPlace)'
  BY ShorterInductive, CellsInductive
<1> QED BY <1>1, ContentsInitially, TypeCorrect, StagesKept, PTL DEF Spec

\* A transfer no store overlaps with is whole (AloneIsWhole).
THEOREM AloneTransfersAreWhole == Spec => []AloneIsWhole
<1>1. TypeOK /\ ByStage /\ (AloneIsWhole /\ AloneIsInside) /\ [Next]_vars
        => (AloneIsWhole /\ AloneIsInside)'
  BY AloneInductive
<1> QED BY <1>1, ContentsInitially, TypeCorrect, StagesKept, PTL DEF Spec

\* A reader never goes back to a version of the file that was finished before
\* the one it has been sent a cell of (ReadersMoveForward).
THEOREM ReadersNeverGoBack == Spec => []ReadersMoveForward
<1>1. TypeOK /\ ByStage /\ CellsInPlace
        /\ (NothingOlder /\ ReadersMoveForward) /\ [Next]_vars
        => (NothingOlder /\ ReadersMoveForward)'
  BY OlderInductive, ForwardInductive
<1> QED BY <1>1, ContentsInitially, TypeCorrect, StagesKept, CellsStayInPlace, PTL
        DEF Spec
=============================================================================
