------------------------- MODULE ControlChannelProofs -------------------------
(***************************************************************************)
(* Theorems about ControlChannel, for any texts, any size of the buffer    *)
(* and any number of lines.                                                *)
(***************************************************************************)
EXTENDS ControlChannel, SequenceTheorems, WellFoundedInduction, TLAPS

-----------------------------------------------------------------------------
(* UpTo: what is left of the buffer *)

\* Some natural numbers, if any, have a least one, and Min is it.
LEMMA MinOfNat ==
    ASSUME NEW S \in SUBSET Nat, S # {}
    PROVE  Min(S) \in S /\ \A y \in S : Min(S) <= y
<1> DEFINE R == OpToRel(<, Nat)
<1>1. IsWellFoundedOn(R, Nat)
  BY NatLessThanWellFounded
<1>2. \A x, y \in S : y < x => <<y, x>> \in R
  BY DEF OpToRel
<1> HIDE DEF R
<1>3. PICK x \in S : \A y \in S : ~(<<y, x>> \in R)
  BY <1>1, WFMin
<1>4. ASSUME NEW y \in S PROVE x <= y
  <2>1. ~(y < x)
    BY <1>2, <1>3
  <2>2. x \in Nat /\ y \in Nat
    OBVIOUS
  <2> QED BY <2>1, <2>2
<1> QED BY <1>4 DEF Min

\* The buffer has what was received, and then the '\0'.
LEMMA BufferHolds ==
    ASSUME NEW B, NEW s \in Seq(B)
    PROVE  /\ Len(s) \in Nat /\ Buffer(s) \in Seq(B \cup {Terminator, Padding})
           /\ DOMAIN Buffer(s) = 1 .. Len(s) + 2
           /\ \A i \in 1 .. Len(s) : Buffer(s)[i] = s[i] /\ s[i] \in B
           /\ Buffer(s)[Len(s) + 1] = Terminator
<1> DEFINE C == B \cup {Terminator, Padding}
           rest == <<Terminator, Padding>>
<1>1. s \in Seq(C) /\ Len(s) \in Nat /\ \A i \in 1 .. Len(s) : s[i] \in B
  BY SeqMonotonic, LenProperties, ElementOfSeq
<1>2. rest \in Seq(C) /\ Len(rest) = 2 /\ rest[1] = Terminator
  OBVIOUS
<1> HIDE DEF C, rest
<1>3. /\ s \o rest \in Seq(C) /\ Len(s \o rest) = Len(s) + 2
      /\ \A i \in 1 .. Len(s) + 2 :
            (s \o rest)[i] = IF i <= Len(s) THEN s[i] ELSE rest[i - Len(s)]
  BY <1>1, <1>2, ConcatProperties
<1>4. Buffer(s) = s \o rest
  BY DEF Buffer, rest
<1>5. DOMAIN (s \o rest) = 1 .. Len(s) + 2
  BY <1>3, LenProperties
<1>6. \A i \in 1 .. Len(s) : (s \o rest)[i] = s[i]
  BY <1>1, <1>3
<1>7. (s \o rest)[Len(s) + 1] = Terminator
  <2>1. Len(s) + 1 \in 1 .. Len(s) + 2 /\ ~(Len(s) + 1 <= Len(s))
        /\ Len(s) + 1 - Len(s) = 1
    BY <1>1
  <2>2. (s \o rest)[Len(s) + 1] = rest[Len(s) + 1 - Len(s)]
    BY <1>3, <2>1
  <2> QED BY <1>2, <2>1, <2>2
<1> QED BY <1>1, <1>3, <1>4, <1>5, <1>6, <1>7 DEF C

\* A text taken from the buffer is the first of what was received, up to a stop:
\* the '\0' keeps what follows out of it.
FirstsOf(text, s, stops) ==
    \E m \in 0 .. Len(s) :
        /\ Len(text) = m /\ DOMAIN text = 1 .. m
        /\ \A i \in 1 .. m : text[i] = s[i] /\ Char(s[i]) \notin stops
        /\ m < Len(s) => Char(s[m + 1]) \in stops

\* What UpTo leaves of the buffer is such a text.
LEMMA TextIsOfReceived ==
    ASSUME NEW B, NEW s \in Seq(B), NEW stops, NUL \in stops
    PROVE  /\ UpTo(Buffer(s), stops) \in Seq(B)
           /\ FirstsOf(UpTo(Buffer(s), stops), s, stops)
<1> DEFINE b == Buffer(s)
           ends == {i \in DOMAIN b : Char(b[i]) \in stops}
           m == Min(ends) - 1
<1>1. /\ Len(s) \in Nat /\ DOMAIN b = 1 .. Len(s) + 2
      /\ \A i \in 1 .. Len(s) : b[i] = s[i] /\ s[i] \in B
      /\ b[Len(s) + 1] = Terminator
  BY BufferHolds
<1>2. Char(Terminator) = NUL
  <2>1. Terminator # Padding
    BY DEF Terminator, Padding, Byte
  <2> QED BY <2>1 DEF Char
<1>3. Len(s) + 1 \in ends
  BY <1>1, <1>2
<1>4. Min(ends) \in ends /\ \A y \in ends : Min(ends) <= y
  <2>1. ends \in SUBSET Nat /\ ends # {}
    BY <1>1, <1>3
  <2> HIDE DEF ends
  <2> QED BY <2>1, MinOfNat
<1>5. UpTo(b, stops) = SubSeq(b, 1, m)
  BY <1>3 DEF UpTo
<1>6. Min(ends) \in 1 .. Len(s) + 1
  <2>1. Min(ends) \in 1 .. Len(s) + 2 /\ Min(ends) <= Len(s) + 1
    BY <1>1, <1>3, <1>4
  <2> QED BY <1>1, <2>1
<1>7. m \in 0 .. Len(s)
  BY <1>1, <1>6
<1>8. \A i \in 1 .. m : b[i] = s[i] /\ b[i] \in B /\ Char(s[i]) \notin stops
  <2> SUFFICES ASSUME NEW i \in 1 .. m
               PROVE  b[i] = s[i] /\ b[i] \in B /\ Char(s[i]) \notin stops
    OBVIOUS
  <2>1. i \in 1 .. Len(s) /\ i \in 1 .. Len(s) + 2 /\ ~(Min(ends) <= i)
    BY <1>1, <1>6, <1>7
  <2>2. i \notin ends
    BY <1>4, <2>1
  <2>3. b[i] = s[i] /\ b[i] \in B
    BY <1>1, <2>1
  <2>4. Char(b[i]) \notin stops
    BY <1>1, <2>1, <2>2
  <2> QED BY <2>3, <2>4
<1>81. m < Len(s) => Char(s[m + 1]) \in stops
  <2> SUFFICES ASSUME m < Len(s) PROVE Char(s[m + 1]) \in stops
    OBVIOUS
  <2>1. m + 1 = Min(ends) /\ m + 1 \in 1 .. Len(s)
    BY <1>1, <1>6, <1>7
  <2> QED BY <1>1, <1>4, <2>1
<1> HIDE DEF b, m
<1> DEFINE text == SubSeq(b, 1, m)
<1>9. /\ text \in Seq(B) /\ Len(text) = m
      /\ \A i \in 1 .. m : text[i] = b[i]
  <2>1. 1 \in Int /\ m \in Int
    BY <1>1, <1>7
  <2>2. /\ text \in Seq(B)
        /\ Len(text) = IF 1 <= m THEN m - 1 + 1 ELSE 0
        /\ \A i \in 1 .. m - 1 + 1 : text[i] = b[1 + i - 1]
    BY <1>8, <2>1, SubSeqProperties
  <2> HIDE DEF text
  <2>3. Len(text) = m
    BY <1>1, <1>7, <2>2
  <2>4. \A i \in 1 .. m : text[i] = b[i]
    BY <1>1, <1>7, <2>2
  <2> QED BY <2>2, <2>3, <2>4
<1>10. DOMAIN text = 1 .. m
  BY <1>9, LenProperties
<1> HIDE DEF text
<1>11. FirstsOf(text, s, stops)
  BY <1>7, <1>8, <1>81, <1>9, <1>10 DEF FirstsOf
<1> QED BY <1>5, <1>9, <1>11 DEF text, b

-----------------------------------------------------------------------------
(* Lines and their bytes *)

\* A text is a sequence of characters that end no line, and an end is one or
\* two that do, '\n' the last.
LEMMA TextAndEnd ==
    ASSUME NEW t \in Texts, NEW e \in LineEnds
    PROVE  /\ Len(t) \in Nat /\ Len(t \o e) \in Nat /\ Len(t) < Len(t \o e)
           /\ DOMAIN (t \o e) = 1 .. Len(t \o e)
           /\ (t \o e)[Len(t \o e)] = LF
           /\ \A i \in 1 .. Len(t \o e) : i > Len(t) => (t \o e)[i] \in {CR, LF}
<1> DEFINE C == ToSet(t) \cup {CR, LF}
<1>1. t \in Seq(C) /\ Len(t) \in Nat
  <2>1. t \in Seq(ToSet(t))
    BY ChannelAssumption
  <2> HIDE DEF C
  <2>2. ToSet(t) \subseteq C
    BY DEF C
  <2> QED BY <2>1, <2>2, SeqMonotonic, LenProperties
<1>2. /\ e \in Seq(C) /\ Len(e) \in {1, 2} /\ e[Len(e)] = LF
      /\ \A i \in 1 .. Len(e) : e[i] \in {CR, LF}
  <2>1. CASE e = <<CR, LF>>
    BY <2>1
  <2>2. CASE e = <<LF>>
    BY <2>2
  <2> QED BY <2>1, <2>2, ChannelAssumption
<1> HIDE DEF C
<1>3. /\ t \o e \in Seq(C) /\ Len(t \o e) = Len(t) + Len(e)
      /\ \A i \in 1 .. Len(t) + Len(e) :
            (t \o e)[i] = IF i <= Len(t) THEN t[i] ELSE e[i - Len(t)]
  BY <1>1, <1>2, ConcatProperties
<1>4. DOMAIN (t \o e) = 1 .. Len(t \o e)
  BY <1>3, LenProperties
<1>5. ASSUME NEW i \in 1 .. Len(t) + Len(e), i > Len(t)
      PROVE  (t \o e)[i] = e[i - Len(t)] /\ i - Len(t) \in 1 .. Len(e)
  BY <1>1, <1>2, <1>3, <1>5
<1>6. (t \o e)[Len(t \o e)] = LF
  <2>1. /\ Len(t) + Len(e) \in 1 .. Len(t) + Len(e) /\ Len(t) + Len(e) > Len(t)
        /\ Len(t) + Len(e) - Len(t) = Len(e)
    BY <1>1, <1>2
  <2> QED BY <1>2, <1>3, <1>5, <2>1
<1>7. Len(t \o e) = Len(t) + Len(e)
  BY <1>3
<1>8. Len(t \o e) \in Nat /\ Len(t) < Len(t \o e)
  BY <1>1, <1>2, <1>7
<1>9. ASSUME NEW i \in 1 .. Len(t \o e), i > Len(t) PROVE (t \o e)[i] \in {CR, LF}
  <2>1. i \in 1 .. Len(t) + Len(e)
    BY <1>7
  <2>2. (t \o e)[i] = e[i - Len(t)] /\ i - Len(t) \in 1 .. Len(e)
    BY <1>5, <1>9, <2>1
  <2> QED BY <1>2, <2>2
<1> QED BY <1>1, <1>4, <1>6, <1>8, <1>9

\* So it is with every line sent.
LEMMA LineOfSent ==
    ASSUME TypeOK, NEW n \in DOMAIN sent
    PROVE  /\ Len(sent[n].text) \in Nat /\ Len(sent[n].line) \in Nat
           /\ Len(sent[n].text) < Len(sent[n].line)
           /\ DOMAIN sent[n].line = 1 .. Len(sent[n].line)
           /\ sent[n].line[Len(sent[n].line)] = LF
           /\ \A i \in 1 .. Len(sent[n].line) :
                 i > Len(sent[n].text) => sent[n].line[i] \in {CR, LF}
<1>1. PICK e \in LineEnds : sent[n].line = sent[n].text \o e
  BY DEF TypeOK
<1>2. sent[n].text \in Texts
  BY DEF TypeOK
<1> QED BY <1>1, <1>2, TextAndEnd

\* The lines sent are numbered from 1 on.
LEMMA SentNumbered ==
    ASSUME LinesSent
    PROVE  Len(sent) \in Nat /\ DOMAIN sent = 1 .. Len(sent)
BY LenProperties DEF LinesSent

\* A byte of what has been sent, by its line and place; it is neither of the
\* two that no client has written, and its character is the one there.
LEMMA ByteOfSent ==
    ASSUME TypeOK, LinesSent, NEW b \in AllBytes
    PROVE  /\ b.of \in DOMAIN sent /\ b.of \in Nat /\ b.at \in Nat
           /\ 1 <= b.at /\ b.at <= Len(sent[b.of].line)
           /\ b = Byte(b.of, b.at)
           /\ Char(b) = sent[b.of].line[b.at]
           /\ Char(b) \notin {CR, LF, NUL} => IsText(b)
<1>1. PICK n \in DOMAIN sent : \E i \in DOMAIN sent[n].line : b = Byte(n, i)
  BY DEF AllBytes
<1>2. PICK i \in DOMAIN sent[n].line : b = Byte(n, i)
  BY <1>1
<1>3. n \in Nat /\ n >= 1 /\ b.of = n /\ b.at = i
  BY <1>2, SentNumbered DEF Byte
<1>4. /\ i \in Nat /\ 1 <= i /\ i <= Len(sent[n].line)
      /\ Len(sent[n].text) \in Nat /\ Len(sent[n].line) \in Nat
      /\ i > Len(sent[n].text) => sent[n].line[i] \in {CR, LF}
  BY <1>2, LineOfSent
<1>5. b # Padding /\ b # Terminator
  <2>1. Padding.of = 0 /\ Terminator.of = 0
    BY DEF Padding, Terminator, Byte
  <2> QED BY <1>3, <2>1
<1>6. Char(b) = sent[n].line[i]
  BY <1>3, <1>5 DEF Char
<1>7. Char(b) \notin {CR, LF, NUL} => i <= Len(sent[n].text)
  BY <1>4, <1>6
<1> QED BY <1>2, <1>3, <1>4, <1>6, <1>7 DEF IsText

\* And the other way round.
LEMMA PlaceIsByte ==
    ASSUME TypeOK, LinesSent, NEW n \in DOMAIN sent, NEW i \in 1 .. Len(sent[n].line)
    PROVE  Byte(n, i) \in AllBytes /\ Byte(n, i).of = n /\ Byte(n, i).at = i
<1>1. i \in DOMAIN sent[n].line
  BY LineOfSent
<1> QED BY <1>1 DEF AllBytes, Byte

\* The bytes to come, by places.
LEMMA StreamBytes ==
    ASSUME TypeOK
    PROVE  /\ Len(stream) \in Nat /\ DOMAIN stream = 1 .. Len(stream)
           /\ \A i \in DOMAIN stream : stream[i] \in AllBytes
<1>1. stream \in Seq(AllBytes)
  BY DEF TypeOK
<1> QED BY <1>1, LenProperties, ElementOfSeq

\* The commands taken, by places.
LEMMA TakenBytes ==
    ASSUME TypeOK
    PROVE  /\ Len(taken) \in Nat /\ DOMAIN taken = 1 .. Len(taken)
           /\ \A k \in DOMAIN taken :
                /\ taken[k].text \in Seq(AllBytes)
                /\ \A i \in DOMAIN taken[k].text : taken[k].text[i] \in AllBytes
<1> DEFINE R == [text : Seq(AllBytes), reply : {"empty", "goodbye", "handled", "unknown"}]
<1>1. taken \in Seq(R)
  BY DEF TypeOK
<1> HIDE DEF R
<1>2. Len(taken) \in Nat /\ DOMAIN taken = 1 .. Len(taken)
  BY <1>1, LenProperties
<1>3. ASSUME NEW k \in DOMAIN taken PROVE taken[k].text \in Seq(AllBytes)
  <2>1. taken[k] \in R
    BY <1>1, <1>2, ElementOfSeq
  <2> QED BY <2>1 DEF R
<1>4. ASSUME NEW k \in DOMAIN taken, NEW i \in DOMAIN taken[k].text
      PROVE  taken[k].text[i] \in AllBytes
  <2>1. i \in 1 .. Len(taken[k].text)
    BY <1>3, LenProperties
  <2> QED BY <1>3, <2>1, ElementOfSeq
<1> QED BY <1>2, <1>3, <1>4

-----------------------------------------------------------------------------
(* The client writes *)

\* The invariant.
ChannelInv == TypeOK /\ LinesSent /\ StreamRuns /\ TakenFirst /\ PieceOfOneLine

\* A line more, the others as they were.
OneLineMore ==
    /\ \A n \in DOMAIN sent : n \in DOMAIN sent' /\ sent'[n] = sent[n]
    /\ Len(sent) \in Nat /\ DOMAIN sent' = 1 .. Len(sent) + 1

\* Its bytes come after all that is still to come.
ItsBytesCome ==
    LET line == sent'[Len(sent) + 1].line
    IN  /\ Len(line) \in Nat
        /\ DOMAIN stream' = 1 .. Len(stream) + Len(line)
        /\ \A i \in DOMAIN stream : stream'[i] = stream[i]
        /\ \A a \in 1 .. Len(line) : stream'[Len(stream) + a] = Byte(Len(sent) + 1, a)

\* What has been written stays written.
LEMMA LineMore ==
    ASSUME TypeOK, LinesSent, ClientSends
    PROVE  /\ LinesSent' /\ OneLineMore /\ AllBytes \subseteq AllBytes'
           /\ \A n \in DOMAIN sent' : /\ sent'[n].text \in Texts
                                      /\ \E end \in LineEnds :
                                            sent'[n].line = sent'[n].text \o end
<1> DEFINE R == [text : Texts, line : {t \o end : t \in Texts, end \in LineEnds}]
<1>1. PICK text \in Texts, end \in LineEnds :
        sent' = Append(sent, [text |-> text, line |-> text \o end])
  BY DEF ClientSends
<1> DEFINE new == [text |-> text, line |-> text \o end]
<1>2. sent \in Seq(R) /\ new \in R
  BY DEF LinesSent
<1> HIDE DEF R, new
<1>3. /\ sent' \in Seq(R) /\ Len(sent') = Len(sent) + 1
      /\ \A i \in 1 .. Len(sent) : sent'[i] = sent[i]
      /\ sent'[Len(sent) + 1] = new
  BY <1>1, <1>2, AppendProperties DEF new
<1>4. /\ Len(sent) \in Nat /\ DOMAIN sent = 1 .. Len(sent)
      /\ DOMAIN sent' = 1 .. Len(sent) + 1
  BY <1>2, <1>3, LenProperties
<1>5. OneLineMore
  BY <1>3, <1>4 DEF OneLineMore
<1>6. LinesSent'
  BY <1>3 DEF LinesSent, R
<1>7. AllBytes \subseteq AllBytes'
  <2> SUFFICES ASSUME NEW b \in AllBytes PROVE b \in AllBytes'
    OBVIOUS
  <2>1. PICK n \in DOMAIN sent : \E i \in DOMAIN sent[n].line : b = Byte(n, i)
    BY DEF AllBytes
  <2>2. n \in DOMAIN sent' /\ sent'[n] = sent[n]
    BY <1>5 DEF OneLineMore
  <2> QED BY <2>1, <2>2 DEF AllBytes
<1>8. ASSUME NEW n \in DOMAIN sent'
      PROVE  /\ sent'[n].text \in Texts
             /\ \E e \in LineEnds : sent'[n].line = sent'[n].text \o e
  <2>1. CASE n \in DOMAIN sent
    <3>1. sent'[n] = sent[n]
      BY <1>5, <2>1 DEF OneLineMore
    <3>2. sent[n].text \in Texts /\ \E e \in LineEnds : sent[n].line = sent[n].text \o e
      BY <2>1 DEF TypeOK
    <3> QED BY <3>1, <3>2
  <2>2. CASE n \notin DOMAIN sent
    <3>1. n = Len(sent) + 1
      BY <1>4, <2>2
    <3>2. sent'[n] = new
      BY <1>3, <3>1
    <3> QED BY <3>2 DEF new
  <2> QED BY <2>1, <2>2
<1> QED BY <1>5, <1>6, <1>7, <1>8

\* What is to come is still to come, and then the bytes of the new line.
LEMMA StreamMore ==
    ASSUME TypeOK, LinesSent, ClientSends
    PROVE  stream' \in Seq(AllBytes') /\ ItsBytesCome
<1>1. PICK text \in Texts, end \in LineEnds :
        /\ sent' = Append(sent, [text |-> text, line |-> text \o end])
        /\ stream' = stream \o BytesOf(Len(sent) + 1, text \o end)
  BY DEF ClientSends
<1> DEFINE line == text \o end
           N == Len(sent) + 1
           bytes == BytesOf(N, line)
<1>2. Len(line) \in Nat /\ DOMAIN line = 1 .. Len(line)
  BY TextAndEnd
<1>3. N \in DOMAIN sent' /\ sent'[N].line = line
  <2> DEFINE R == [text : Texts, line : {t \o e : t \in Texts, e \in LineEnds}]
             new == [text |-> text, line |-> line]
  <2>1. sent \in Seq(R) /\ new \in R
    BY DEF LinesSent
  <2>2. new.line = line
    OBVIOUS
  <2> HIDE DEF R, new
  <2>3. sent' = Append(sent, new)
    BY <1>1 DEF new
  <2>4. sent'[N] = new
    BY <2>1, <2>3, AppendProperties
  <2>5. N \in DOMAIN sent'
    BY LineMore DEF OneLineMore
  <2> QED BY <2>2, <2>4, <2>5
<1> HIDE DEF N, line
<1>4. /\ \A a \in 1 .. Len(line) : Byte(N, a) \in AllBytes'
      /\ stream \in Seq(AllBytes')
  <2>1. \A a \in 1 .. Len(line) : Byte(N, a) \in AllBytes'
    BY <1>2, <1>3 DEF AllBytes
  <2>2. AllBytes \subseteq AllBytes' /\ stream \in Seq(AllBytes)
    BY LineMore DEF TypeOK
  <2> QED BY <2>1, <2>2, SeqMonotonic
<1>5. /\ bytes \in Seq(AllBytes') /\ Len(bytes) = Len(line)
      /\ \A a \in 1 .. Len(line) : bytes[a] = Byte(N, a)
  <2>1. bytes = [a \in 1 .. Len(line) |-> Byte(N, a)]
    BY DEF BytesOf
  <2>2. bytes \in [1 .. Len(line) -> AllBytes']
    BY <1>4, <2>1
  <2>3. bytes \in Seq(AllBytes')
    BY <1>2, <2>2, SeqDef
  <2>4. Len(bytes) \in Nat /\ 1 .. Len(bytes) = 1 .. Len(line)
    BY <2>2, <2>3, LenProperties
  <2> QED BY <1>2, <2>1, <2>3, <2>4
<1> HIDE DEF bytes
<1>6. stream' = stream \o bytes
  BY <1>1 DEF bytes, N, line
<1> DEFINE S == AllBytes'
<1>7. stream \in Seq(S) /\ bytes \in Seq(S) /\ S = AllBytes'
  BY <1>4, <1>5
<1> HIDE DEF S
<1>8. /\ stream' \in Seq(S) /\ Len(stream') = Len(stream) + Len(line)
      /\ \A i \in 1 .. Len(stream) + Len(line) :
            stream'[i] = IF i <= Len(stream) THEN stream[i] ELSE bytes[i - Len(stream)]
  <2>1. /\ stream \o bytes \in Seq(S) /\ Len(stream \o bytes) = Len(stream) + Len(bytes)
        /\ \A i \in 1 .. Len(stream) + Len(bytes) :
              (stream \o bytes)[i] = IF i <= Len(stream) THEN stream[i]
                                     ELSE bytes[i - Len(stream)]
    BY <1>7, ConcatProperties
  <2> QED BY <1>5, <1>6, <2>1
<1>9. DOMAIN stream' = 1 .. Len(stream) + Len(line)
  BY <1>8, LenProperties
<1>10. Len(stream) \in Nat /\ DOMAIN stream = 1 .. Len(stream)
  BY StreamBytes
<1>11. \A i \in DOMAIN stream : stream'[i] = stream[i]
  BY <1>2, <1>8, <1>10
<1>12. ASSUME NEW a \in 1 .. Len(line) PROVE stream'[Len(stream) + a] = Byte(N, a)
  <2>1. Len(stream) + a \in 1 .. Len(stream) + Len(line) /\ ~(Len(stream) + a <= Len(stream))
        /\ Len(stream) + a - Len(stream) = a
    BY <1>2, <1>10
  <2>2. stream'[Len(stream) + a] = bytes[Len(stream) + a - Len(stream)]
    BY <1>8, <2>1
  <2> QED BY <1>5, <2>1, <2>2
<1>13. ItsBytesCome
  <2>1. sent'[Len(sent) + 1].line = line
    BY <1>3 DEF N
  <2>2. \A a \in 1 .. Len(line) : stream'[Len(stream) + a] = Byte(Len(sent) + 1, a)
    BY <1>12 DEF N
  <2> QED BY <1>2, <1>9, <1>11, <2>1, <2>2 DEF ItsBytesCome
<1> QED BY <1>7, <1>8, <1>13

\* A sequence of type R is one of a larger type.
LEMMA TakenGrows ==
    ASSUME NEW A, NEW B, A \subseteq B, NEW T,
           NEW s \in Seq([text : Seq(A), reply : T])
    PROVE  s \in Seq([text : Seq(B), reply : T])
<1>1. [text : Seq(A), reply : T] \subseteq [text : Seq(B), reply : T]
  <2> SUFFICES ASSUME NEW r \in [text : Seq(A), reply : T]
               PROVE  r \in [text : Seq(B), reply : T]
    OBVIOUS
  <2>1. r.text \in Seq(B)
    BY SeqMonotonic
  <2> QED BY <2>1
<1> QED BY <1>1, SeqMonotonic

\* One byte to come and the rest of its line.
GoesOn(i) ==
    LET last == i + Len(sent[stream[i].of].line) - stream[i].at
    IN  /\ last \in DOMAIN stream
        /\ \A m \in i .. last : stream[m] = Byte(stream[i].of, stream[i].at + m - i)

\* StreamRuns, by bytes.
LEMMA StreamGoesOn ==
    StreamRuns <=> /\ \A i \in DOMAIN stream : GoesOn(i)
                   /\ \A i, j \in DOMAIN stream : i < j => Before(stream[i], stream[j])
BY DEF StreamRuns, GoesOn

\* StreamRuns after a step, by bytes.
LEMMA StreamGoesOnPrime ==
    StreamRuns' <=> /\ \A i \in DOMAIN stream' : GoesOn(i)'
                    /\ \A i, j \in DOMAIN stream' : i < j => Before(stream'[i], stream'[j])
BY DEF StreamRuns, GoesOn, Before

\* What has been taken keeps its place and its text as lines are added.
LEMMA TakenStays ==
    ASSUME TypeOK, LinesSent, PieceOfOneLine, ClientSends
    PROVE  PieceOfOneLine'
<1>1. taken' = taken
  BY DEF ClientSends
<1>2. AllBytes \subseteq AllBytes' /\ OneLineMore
  BY LineMore
<1>3. ASSUME NEW b \in AllBytes, IsText(b) PROVE b.at <= Len(sent'[b.of].text)
  <2>1. sent'[b.of] = sent[b.of]
    BY <1>2, ByteOfSent DEF OneLineMore
  <2> QED BY <1>3, <2>1 DEF IsText
<1>4. ASSUME NEW k \in DOMAIN taken, NEW i \in DOMAIN taken[k].text
      PROVE  /\ taken[k].text[i] \in AllBytes'
             /\ taken[k].text[i].at <= Len(sent'[taken[k].text[i].of].text)
             /\ i > 1 => taken[k].text[i]
                            = Byte(taken[k].text[1].of, taken[k].text[1].at + i - 1)
  <2>1. /\ taken[k].text[i] \in AllBytes /\ IsText(taken[k].text[i])
        /\ i > 1 => taken[k].text[i]
                       = Byte(taken[k].text[1].of, taken[k].text[1].at + i - 1)
    BY DEF PieceOfOneLine
  <2> QED BY <1>2, <1>3, <2>1
<1>5. \A k, m \in DOMAIN taken : k < m =>
         \A i \in DOMAIN taken[k].text, j \in DOMAIN taken[m].text :
             Before(taken[k].text[i], taken[m].text[j])
  BY DEF PieceOfOneLine
<1> QED BY <1>1, <1>4, <1>5 DEF PieceOfOneLine, IsText, Before, Byte

\* The invariant is kept by a client that writes.
LEMMA SendsKeeps ==
    ASSUME ChannelInv, ClientSends
    PROVE  ChannelInv'
<1> USE DEF ChannelInv
<1> DEFINE N == Len(sent) + 1
           L == Len(sent'[N].line)
<1>1. /\ OneLineMore /\ AllBytes \subseteq AllBytes' /\ LinesSent'
      /\ stream' \in Seq(AllBytes') /\ ItsBytesCome
  BY LineMore, StreamMore
<1>2. /\ taken' = taken /\ control' = control
      /\ alone' \in BOOLEAN /\ whole' = whole
  BY DEF ClientSends
<1>3. /\ N \in Nat /\ L \in Nat /\ DOMAIN sent = 1 .. N - 1
      /\ Len(stream) \in Nat /\ DOMAIN stream = 1 .. Len(stream)
      /\ DOMAIN stream' = 1 .. Len(stream) + L
      /\ \A i \in DOMAIN stream : stream'[i] = stream[i]
      /\ \A a \in 1 .. L : stream'[Len(stream) + a] = Byte(N, a)
  BY <1>1, StreamBytes, SentNumbered DEF ItsBytesCome
<1> HIDE DEF N
<1>4. N \in DOMAIN sent' /\ \A n \in DOMAIN sent : sent'[n] = sent[n]
  BY <1>1, <1>3 DEF OneLineMore, N
<1> DEFINE M == L
<1>5. M = Len(sent'[N].line) /\ M = L
  OBVIOUS
<1> HIDE DEF M, L
<1>6. TypeOK'
  <2>1. taken' \in Seq([text : Seq(AllBytes'),
                        reply : {"empty", "goodbye", "handled", "unknown"}])
    BY <1>1, <1>2, TakenGrows DEF TypeOK
  <2>2. \A n \in DOMAIN sent' : /\ sent'[n].text \in Texts
                                /\ \E end \in LineEnds :
                                      sent'[n].line = sent'[n].text \o end
    BY LineMore
  <2> QED BY <1>1, <1>2, <2>1, <2>2 DEF TypeOK
<1>7. ASSUME NEW i \in DOMAIN stream'
      PROVE  i \in DOMAIN stream \/ (i - Len(stream) \in 1 .. M
                                     /\ i = Len(stream) + (i - Len(stream)))
  BY <1>3, <1>5
<1>8. ASSUME NEW i \in DOMAIN stream
      PROVE  /\ stream'[i] = stream[i] /\ stream[i] \in AllBytes /\ i \in Nat
             /\ stream[i].of < N /\ stream[i].of \in DOMAIN sent
  BY <1>3, StreamBytes, ByteOfSent
<1>9. StreamRuns'
  <2>1. ASSUME NEW i \in DOMAIN stream PROVE GoesOn(i)'
    <3>1. GoesOn(i)
      BY StreamGoesOn
    <3>2. /\ stream'[i] = stream[i] /\ sent'[stream[i].of] = sent[stream[i].of]
          /\ DOMAIN stream \subseteq DOMAIN stream' /\ i \in Nat /\ i >= 1
      BY <1>3, <1>4, <1>8
    <3> DEFINE last == i + Len(sent[stream[i].of].line) - stream[i].at
    <3>3. /\ last \in 1 .. Len(stream)
          /\ \A m \in i .. last :
                stream[m] = Byte(stream[i].of, stream[i].at + m - i)
      BY <1>3, <3>1 DEF GoesOn
    <3> HIDE DEF last
    <3>4. \A m \in i .. last : stream'[m] = Byte(stream[i].of, stream[i].at + m - i)
      <4> SUFFICES ASSUME NEW m \in i .. last
                   PROVE  stream'[m] = Byte(stream[i].of, stream[i].at + m - i)
        OBVIOUS
      <4>1. m \in DOMAIN stream
        BY <1>3, <3>2, <3>3
      <4> QED BY <1>3, <3>3, <4>1
    <3>5. last \in DOMAIN stream'
      BY <1>3, <3>2, <3>3
    <3> QED BY <3>2, <3>4, <3>5 DEF GoesOn, Byte, last
  <2>2. ASSUME NEW a \in 1 .. M, NEW i, i = Len(stream) + a PROVE GoesOn(i)'
    <3>1. /\ stream'[i] = Byte(N, a) /\ Byte(N, a).of = N /\ Byte(N, a).at = a
      BY <1>3, <1>5, <2>2 DEF Byte
    <3>2. /\ i + M - a = Len(stream) + M /\ Len(stream) + M \in DOMAIN stream'
          /\ i \in Nat /\ a \in Nat
      BY <1>3, <1>5, <2>2
    <3>3. ASSUME NEW m \in i .. Len(stream) + M
          PROVE  stream'[m] = Byte(N, a + m - i)
      <4>1. m - Len(stream) \in 1 .. M /\ Len(stream) + (m - Len(stream)) = m
            /\ m - Len(stream) = a + m - i
        BY <1>3, <1>5, <2>2, <3>2
      <4>2. stream'[Len(stream) + (m - Len(stream))] = Byte(N, m - Len(stream))
        BY <1>3, <1>5, <4>1
      <4> QED BY <4>1, <4>2
    <3> QED BY <1>5, <3>1, <3>2, <3>3 DEF GoesOn, Byte
  <2>3. ASSUME NEW i \in DOMAIN stream' PROVE GoesOn(i)'
    <3>1. CASE i \in DOMAIN stream
      BY <2>1, <3>1
    <3>2. CASE i - Len(stream) \in 1 .. M /\ i = Len(stream) + (i - Len(stream))
      BY <2>2, <3>2
    <3> QED BY <1>7, <3>1, <3>2
  <2>4. ASSUME NEW i \in DOMAIN stream', NEW j \in DOMAIN stream', i < j
        PROVE  Before(stream'[i], stream'[j])
    <3>1. CASE i \in DOMAIN stream /\ j \in DOMAIN stream
      BY <1>8, <2>4, <3>1, StreamGoesOn
    <3>2. CASE i \in DOMAIN stream /\ j \notin DOMAIN stream
      <4>1. stream'[j] = Byte(N, j - Len(stream))
        BY <1>3, <1>5, <1>7, <3>2
      <4>2. stream'[i].of < N
        BY <1>8, <3>2
      <4> QED BY <4>1, <4>2 DEF Before, Byte
    <3>3. CASE i \notin DOMAIN stream
      <4>1. j \notin DOMAIN stream /\ i \in Nat /\ j \in Nat
        BY <1>3, <1>5, <2>4, <3>3
      <4>2. /\ stream'[i] = Byte(N, i - Len(stream))
            /\ stream'[j] = Byte(N, j - Len(stream))
        BY <1>3, <1>5, <1>7, <3>3, <4>1
      <4>3. i - Len(stream) < j - Len(stream)
        BY <1>3, <2>4, <4>1
      <4> QED BY <4>2, <4>3 DEF Before, Byte
    <3> QED BY <3>1, <3>2, <3>3
  <2> QED BY <2>3, <2>4, StreamGoesOnPrime
<1>10. TakenFirst'
  <2> SUFFICES ASSUME NEW k \in DOMAIN taken, NEW i \in DOMAIN taken[k].text,
                      NEW j \in DOMAIN stream'
               PROVE  Before(taken[k].text[i], stream'[j])
    BY <1>2 DEF TakenFirst, Before
  <2>1. CASE j \in DOMAIN stream
    BY <1>8, <2>1 DEF TakenFirst
  <2>2. CASE j \notin DOMAIN stream
    <3>1. stream'[j] = Byte(N, j - Len(stream))
      BY <1>3, <1>5, <1>7, <2>2
    <3>2. taken[k].text[i].of < N
      BY <1>3, TakenBytes, ByteOfSent
    <3> QED BY <3>1, <3>2 DEF Before, Byte
  <2> QED BY <2>1, <2>2
<1>11. PieceOfOneLine'
  BY TakenStays
<1> QED BY <1>1, <1>6, <1>9, <1>10, <1>11

-----------------------------------------------------------------------------
(* The server receives *)

\* The last so many of a sequence.
LEMMA LastOf ==
    ASSUME NEW S, NEW s \in Seq(S), NEW n \in Nat, n <= Len(s)
    PROVE  /\ SubSeq(s, n + 1, Len(s)) \in Seq(S)
           /\ DOMAIN SubSeq(s, n + 1, Len(s)) = 1 .. Len(s) - n
           /\ \A i \in 1 .. Len(s) - n : SubSeq(s, n + 1, Len(s))[i] = s[n + i]
<1> DEFINE N == Len(s)
<1>1. N \in Nat /\ \A i \in n + 1 .. N : s[i] \in S
  BY LenProperties, ElementOfSeq
<1> HIDE DEF N
<1>2. n + 1 \in Int /\ N \in Int
  BY <1>1
<1> DEFINE t == SubSeq(s, n + 1, N)
<1>3. /\ t \in Seq(S)
      /\ Len(t) = IF n + 1 <= N THEN N - (n + 1) + 1 ELSE 0
      /\ \A i \in 1 .. N - (n + 1) + 1 : t[i] = s[n + 1 + i - 1]
  BY <1>1, <1>2, SubSeqProperties
<1> HIDE DEF t
<1>4. Len(t) = N - n
  BY <1>1, <1>3 DEF N
<1>5. \A i \in 1 .. N - n : t[i] = s[n + i]
  BY <1>1, <1>3
<1>6. DOMAIN t = 1 .. N - n
  BY <1>3, <1>4, LenProperties
<1> QED BY <1>3, <1>5, <1>6 DEF t, N

\* The first so many of a sequence.
LEMMA FirstsOfSeq ==
    ASSUME NEW S, NEW s \in Seq(S), NEW n \in Nat, n <= Len(s)
    PROVE  /\ SubSeq(s, 1, n) \in Seq(S) /\ Len(SubSeq(s, 1, n)) = n
           /\ \A i \in 1 .. n : SubSeq(s, 1, n)[i] = s[i] /\ i \in 1 .. Len(s)
<1>1. \A i \in 1 .. n : s[i] \in S /\ i \in 1 .. Len(s)
  BY LenProperties, ElementOfSeq
<1>2. 1 \in Int /\ n \in Int
  OBVIOUS
<1> DEFINE t == SubSeq(s, 1, n)
<1>3. /\ t \in Seq(S)
      /\ Len(t) = IF 1 <= n THEN n - 1 + 1 ELSE 0
      /\ \A i \in 1 .. n - 1 + 1 : t[i] = s[1 + i - 1]
  BY <1>1, <1>2, SubSeqProperties
<1> HIDE DEF t
<1>4. Len(t) = n /\ \A i \in 1 .. n : t[i] = s[i]
  BY <1>3
<1> QED BY <1>1, <1>3, <1>4 DEF t

\* The command that is taken: the first bytes of those to come, m of them at
\* most the n received, up to the end of a line.
Taken(n, m, entry) ==
    /\ n \in 1 .. Len(stream) /\ m \in 0 .. n
    /\ taken' = Append(taken, entry)
    /\ entry \in [text : Seq(AllBytes),
                  reply : {"empty", "goodbye", "handled", "unknown"}]
    /\ DOMAIN entry.text = 1 .. m
    /\ \A i \in 1 .. m : /\ entry.text[i] = stream[i]
                         /\ Char(stream[i]) \notin {CR, LF, NUL}
    /\ m < n => Char(stream[m + 1]) \in {CR, LF, NUL}
    /\ stream' \in Seq(AllBytes)
    /\ DOMAIN stream' = 1 .. Len(stream) - n
    /\ \A i \in 1 .. Len(stream) - n : stream'[i] = stream[n + i]

\* What was received is one line, and all of it.
OneLine(n) ==
    /\ n = Len(sent[stream[1].of].line)
    /\ \A i \in 1 .. n : stream[i] = Byte(stream[1].of, i)

\* A sequence of bytes is those of a line if they are at their places.
LEMMA BytesByPlace ==
    ASSUME NEW S, NEW s \in Seq(S), NEW n, NEW line, Len(line) \in Nat
    PROVE  s = BytesOf(n, line) <=> /\ Len(s) = Len(line)
                                    /\ \A i \in 1 .. Len(line) : s[i] = Byte(n, i)
<1> DEFINE N == Len(line)
           bytes == [i \in 1 .. N |-> Byte(n, i)]
<1>1. BytesOf(n, line) = bytes
  BY DEF BytesOf
<1>2. /\ Len(s) \in Nat /\ DOMAIN s = 1 .. Len(s)
      /\ s = [i \in 1 .. Len(s) |-> s[i]]
  BY LenProperties, SeqDef
<1>3. ASSUME s = bytes PROVE Len(s) = N /\ \A i \in 1 .. N : s[i] = Byte(n, i)
  <2>1. DOMAIN s = 1 .. N /\ \A i \in 1 .. N : s[i] = Byte(n, i)
    BY <1>3
  <2>2. 1 .. Len(s) = 1 .. N /\ N \in Nat
    BY <1>2, <2>1
  <2> HIDE DEF N
  <2>3. Len(s) = N
    BY <1>2, <2>2
  <2> QED BY <2>1, <2>3
<1>4. ASSUME Len(s) = N, \A i \in 1 .. N : s[i] = Byte(n, i) PROVE s = bytes
  <2>1. s = [i \in 1 .. N |-> s[i]]
    BY <1>2, <1>4
  <2> QED BY <1>4, <2>1
<1> QED BY <1>1, <1>3, <1>4

\* What a recv does: a command is taken of the bytes received, and these were a
\* line if none is to have been cut.
LEMMA ReceivesEffect ==
    ASSUME ChannelInv, Receives
    PROVE  /\ \E n, m, entry : Taken(n, m, entry) /\ (whole' => whole /\ OneLine(n))
           /\ control' \in {"open", "ended", "closed"} /\ whole' \in BOOLEAN
<1> USE DEF ChannelInv
<1> DEFINE textOf(n) == UpTo(Buffer(SubSeq(stream, 1, n)), {CR, LF, NUL})
           entryOf(n) == [text |-> textOf(n), reply |-> Reply(textOf(n))]
<1>1. PICK n \in 1 .. BUFSIZE - 1 :
        /\ n <= Len(stream)
        /\ taken' = Append(taken, entryOf(n))
        /\ whole' = (whole /\ SubSeq(stream, 1, n)
              = BytesOf(SubSeq(stream, 1, n)[1].of, sent[SubSeq(stream, 1, n)[1].of].line))
        /\ control' = IF Reply(textOf(n)) = "goodbye" THEN "closed" ELSE control
        /\ stream' = SubSeq(stream, n + 1, Len(stream))
  BY DEF Receives
<1> DEFINE text == textOf(n)
<1>2. n \in Nat /\ n >= 1 /\ stream \in Seq(AllBytes) /\ Len(stream) \in Nat
  BY <1>1, ChannelAssumption, StreamBytes DEF TypeOK
<1>3. /\ SubSeq(stream, 1, n) \in Seq(AllBytes) /\ Len(SubSeq(stream, 1, n)) = n
      /\ \A i \in 1 .. n : SubSeq(stream, 1, n)[i] = stream[i]
  BY <1>1, <1>2, FirstsOfSeq
<1>4. text \in Seq(AllBytes) /\ FirstsOf(text, SubSeq(stream, 1, n), {CR, LF, NUL})
  <2>1. NUL \in {CR, LF, NUL}
    OBVIOUS
  <2> QED BY <1>3, <2>1, TextIsOfReceived
<1>5. Reply(text) \in {"empty", "goodbye", "handled", "unknown"}
  BY DEF Reply
<1> DEFINE entry == entryOf(n)
<1>6. entry = [text |-> text, reply |-> Reply(text)] /\ entry.text = text
  OBVIOUS
<1> HIDE DEF textOf, entry
<1>7. PICK m \in 0 .. Len(SubSeq(stream, 1, n)) :
        /\ DOMAIN text = 1 .. m
        /\ \A i \in 1 .. m : /\ text[i] = SubSeq(stream, 1, n)[i]
                             /\ Char(SubSeq(stream, 1, n)[i]) \notin {CR, LF, NUL}
        /\ m < Len(SubSeq(stream, 1, n))
             => Char(SubSeq(stream, 1, n)[m + 1]) \in {CR, LF, NUL}
  BY <1>4 DEF FirstsOf
<1>8. m \in 0 .. n /\ \A i \in 1 .. m : i \in 1 .. n
  BY <1>2, <1>3, <1>7
<1>9. \A i \in 1 .. m : text[i] = stream[i] /\ Char(stream[i]) \notin {CR, LF, NUL}
  BY <1>3, <1>7, <1>8
<1>91. m < n => Char(stream[m + 1]) \in {CR, LF, NUL}
  <2>1. m < n => m + 1 \in 1 .. n
    BY <1>2, <1>8
  <2> QED BY <1>3, <1>7, <2>1
<1>10. /\ stream' \in Seq(AllBytes)
       /\ DOMAIN stream' = 1 .. Len(stream) - n
       /\ \A i \in 1 .. Len(stream) - n : stream'[i] = stream[n + i]
  BY <1>1, <1>2, LastOf
<1>11. taken' = Append(taken, entry) /\ n \in 1 .. Len(stream)
  BY <1>1, <1>2 DEF entry
<1>12. Taken(n, m, entry)
  BY <1>4, <1>5, <1>6, <1>7, <1>8, <1>9, <1>91, <1>10, <1>11 DEF Taken
<1>13. control' \in {"open", "ended", "closed"} /\ whole' \in BOOLEAN
  <2>1. control \in {"open", "ended"} /\ whole \in BOOLEAN
    BY DEF Receives, TypeOK
  <2> QED BY <1>1, <2>1
<1>14. whole' => whole /\ OneLine(n)
  <2> SUFFICES ASSUME whole' PROVE whole /\ OneLine(n)
    OBVIOUS
  <2> DEFINE of == SubSeq(stream, 1, n)[1].of
             line == sent[of].line
  <2>1. whole /\ SubSeq(stream, 1, n) = BytesOf(of, line)
    BY <1>1
  <2>2. of = stream[1].of /\ stream[1] \in AllBytes
    BY <1>1, <1>2, <1>3, StreamBytes
  <2>3. Len(line) \in Nat
    BY <2>2, ByteOfSent, LineOfSent
  <2> DEFINE received == SubSeq(stream, 1, n)
  <2> HIDE DEF of, line, received
  <2>4. n = Len(line) /\ \A i \in 1 .. n : received[i] = Byte(of, i)
    <3>1. received \in Seq(AllBytes) /\ received = BytesOf(of, line) /\ Len(received) = n
      BY <1>3, <2>1 DEF received
    <3>2. Len(received) = Len(line) /\ \A i \in 1 .. Len(line) : received[i] = Byte(of, i)
      BY <2>3, <3>1, BytesByPlace
    <3> QED BY <3>1, <3>2
  <2>5. \A i \in 1 .. n : stream[i] = Byte(of, i)
    BY <1>3, <2>4 DEF received
  <2> QED BY <2>1, <2>2, <2>4, <2>5 DEF OneLine, line
<1> QED BY <1>12, <1>13, <1>14

\* What is taken goes on as the line of its first byte does, and is text.
LEMMA TakenIsPiece ==
    ASSUME ChannelInv, NEW n, NEW m, NEW entry, Taken(n, m, entry), NEW i \in 1 .. m
    PROVE  /\ entry.text[i] \in AllBytes /\ IsText(entry.text[i])
           /\ i > 1 => entry.text[i] = Byte(entry.text[1].of, entry.text[1].at + i - 1)
<1> USE DEF ChannelInv
<1>1. /\ Len(stream) \in Nat /\ DOMAIN stream = 1 .. Len(stream)
      /\ \A j \in DOMAIN stream : stream[j] \in AllBytes
  BY StreamBytes
<1>2. /\ m \in Nat /\ m <= Len(stream)
      /\ \A j \in 1 .. m : /\ entry.text[j] = stream[j] /\ j \in DOMAIN stream
                           /\ Char(stream[j]) \notin {CR, LF, NUL}
  BY <1>1 DEF Taken
<1>3. entry.text[i] \in AllBytes /\ IsText(entry.text[i])
  <2>1. entry.text[i] = stream[i] /\ stream[i] \in AllBytes
        /\ Char(stream[i]) \notin {CR, LF, NUL}
    BY <1>1, <1>2
  <2> QED BY <2>1, ByteOfSent
<1>4. 1 \in 1 .. m /\ 1 \in DOMAIN stream
  BY <1>1, <1>2
<1> DEFINE b == stream[1]
           L == Len(sent[b.of].line)
           last == 1 + L - b.at
<1>5. /\ b \in AllBytes /\ b.of \in DOMAIN sent /\ b.at \in Nat /\ b.at <= L
      /\ b = Byte(b.of, b.at)
  BY <1>1, <1>4, ByteOfSent
<1>6. L \in Nat /\ L >= 1 /\ sent[b.of].line[L] = LF
  BY <1>5, LineOfSent
<1>7. /\ last \in DOMAIN stream
      /\ \A j \in 1 .. last : stream[j] = Byte(b.of, b.at + j - 1)
  BY <1>4, StreamGoesOn DEF GoesOn
<1> HIDE DEF b, L
<1>8. last \in Nat /\ last >= 1 /\ b.at + last - 1 = L
  BY <1>5, <1>6, <1>7
<1>9. Char(stream[last]) = LF
  <2>1. stream[last] = Byte(b.of, L)
    BY <1>7, <1>8
  <2>2. stream[last] \in AllBytes /\ stream[last].of = b.of /\ stream[last].at = L
    BY <1>1, <1>7, <2>1 DEF Byte
  <2> QED BY <1>6, <2>2, ByteOfSent
<1>10. m < last
  <2> SUFFICES ASSUME last <= m PROVE FALSE
    BY <1>2, <1>8
  <2>1. last \in 1 .. m
    BY <1>2, <1>8
  <2> QED BY <1>2, <1>9, <2>1
<1>11. stream[i] = Byte(b.of, b.at + i - 1)
  <2>1. i \in 1 .. last
    BY <1>2, <1>8, <1>10
  <2> QED BY <1>7, <2>1
<1>12. entry.text[i] = stream[i] /\ entry.text[1] = b
  BY <1>2, <1>4 DEF b
<1> QED BY <1>3, <1>11, <1>12

\* A sequence with one more, by places.
LEMMA OneMore ==
    ASSUME NEW S, NEW s \in Seq(S), NEW e \in S
    PROVE  /\ Append(s, e) \in Seq(S) /\ Len(s) \in Nat
           /\ DOMAIN s = 1 .. Len(s) /\ DOMAIN Append(s, e) = 1 .. Len(s) + 1
           /\ \A i \in DOMAIN s : Append(s, e)[i] = s[i]
           /\ Append(s, e)[Len(s) + 1] = e
<1>1. /\ Append(s, e) \in Seq(S) /\ Len(Append(s, e)) = Len(s) + 1
      /\ \A i \in 1 .. Len(s) : Append(s, e)[i] = s[i]
      /\ Append(s, e)[Len(s) + 1] = e
  BY AppendProperties
<1> QED BY <1>1, LenProperties

\* The commands with the one that is taken.
LEMMA TakenMore ==
    ASSUME TypeOK, NEW n, NEW m, NEW entry, Taken(n, m, entry)
    PROVE  /\ taken' \in Seq([text : Seq(AllBytes),
                              reply : {"empty", "goodbye", "handled", "unknown"}])
           /\ Len(taken) \in Nat /\ DOMAIN taken = 1 .. Len(taken)
           /\ DOMAIN taken' = 1 .. Len(taken) + 1
           /\ \A k \in DOMAIN taken : taken'[k] = taken[k]
           /\ taken'[Len(taken) + 1].text = entry.text
<1> DEFINE R == [text : Seq(AllBytes), reply : {"empty", "goodbye", "handled", "unknown"}]
<1>1. taken \in Seq(R) /\ taken' = Append(taken, entry)
  BY DEF TypeOK, Taken
<1>2. entry \in R
  BY DEF Taken
<1> HIDE DEF R
<1>3. /\ taken' \in Seq(R) /\ Len(taken) \in Nat
      /\ DOMAIN taken = 1 .. Len(taken) /\ DOMAIN taken' = 1 .. Len(taken) + 1
      /\ \A k \in DOMAIN taken : taken'[k] = taken[k]
      /\ taken'[Len(taken) + 1] = entry
  BY <1>1, <1>2, OneMore
<1> QED BY <1>3 DEF R

\* The invariant is kept by a recv and the command taken of it.
LEMMA ReceivesKeeps ==
    ASSUME ChannelInv, Receives
    PROVE  ChannelInv'
<1> USE DEF ChannelInv
<1>1. PICK n, m, entry : Taken(n, m, entry)
  BY ReceivesEffect
<1>2. /\ sent' = sent /\ alone' = alone
      /\ control' \in {"open", "ended", "closed"} /\ whole' \in BOOLEAN
  BY ReceivesEffect DEF Receives
<1>3. AllBytes' = AllBytes
  BY <1>2 DEF AllBytes
<1> DEFINE K == Len(taken) + 1
<1>4. /\ taken' \in Seq([text : Seq(AllBytes),
                         reply : {"empty", "goodbye", "handled", "unknown"}])
      /\ K \in Nat /\ DOMAIN taken = 1 .. K - 1 /\ DOMAIN taken' = 1 .. K
      /\ \A k \in DOMAIN taken : taken'[k] = taken[k]
      /\ taken'[K].text = entry.text
  <2>1. /\ taken' \in Seq([text : Seq(AllBytes),
                           reply : {"empty", "goodbye", "handled", "unknown"}])
        /\ Len(taken) \in Nat /\ DOMAIN taken = 1 .. Len(taken)
        /\ DOMAIN taken' = 1 .. K
        /\ \A k \in DOMAIN taken : taken'[k] = taken[k]
        /\ taken'[K].text = entry.text
    BY <1>1, TakenMore
  <2>2. K \in Nat /\ K - 1 = Len(taken)
    BY <2>1
  <2> QED BY <2>1, <2>2
<1> HIDE DEF K
<1>5. \A k \in DOMAIN taken' : k \in DOMAIN taken \/ k = K
  BY <1>4
<1>6. /\ n \in Nat /\ n >= 1 /\ Len(stream) \in Nat /\ DOMAIN stream = 1 .. Len(stream)
      /\ DOMAIN stream' = 1 .. Len(stream) - n
      /\ \A i \in DOMAIN stream' : stream'[i] = stream[n + i] /\ n + i \in DOMAIN stream
      /\ stream' \in Seq(AllBytes)
  <2>1. /\ n \in 1 .. Len(stream) /\ DOMAIN stream' = 1 .. Len(stream) - n
        /\ \A i \in 1 .. Len(stream) - n : stream'[i] = stream[n + i]
        /\ stream' \in Seq(AllBytes)
    BY <1>1 DEF Taken
  <2> QED BY <2>1, StreamBytes
<1>7. /\ DOMAIN entry.text = 1 .. m /\ m \in Nat /\ m <= n
      /\ \A i \in 1 .. m : /\ entry.text[i] = stream[i] /\ i \in DOMAIN stream
                           /\ entry.text[i] \in AllBytes /\ IsText(entry.text[i])
                           /\ i > 1 => entry.text[i]
                                 = Byte(entry.text[1].of, entry.text[1].at + i - 1)
  <2>1. /\ DOMAIN entry.text = 1 .. m /\ m \in 0 .. n /\ n \in 1 .. Len(stream)
        /\ \A i \in 1 .. m : entry.text[i] = stream[i]
    BY <1>1 DEF Taken
  <2>2. ASSUME NEW i \in 1 .. m
        PROVE  /\ entry.text[i] \in AllBytes /\ IsText(entry.text[i])
               /\ i > 1 => entry.text[i]
                              = Byte(entry.text[1].of, entry.text[1].at + i - 1)
    BY <1>1, TakenIsPiece
  <2>3. m \in Nat /\ m <= n /\ \A i \in 1 .. m : i \in DOMAIN stream
    BY <1>6, <2>1
  <2> QED BY <2>1, <2>2, <2>3
<1>8. TypeOK' /\ LinesSent'
  <2>1. taken' \in Seq([text : Seq(AllBytes'),
                        reply : {"empty", "goodbye", "handled", "unknown"}])
    BY <1>3, <1>4
  <2>2. stream' \in Seq(AllBytes')
    BY <1>3, <1>6
  <2>3. LinesSent'
    BY <1>2 DEF LinesSent
  <2>4. \A k \in DOMAIN sent' : /\ sent'[k].text \in Texts
                                /\ \E end \in LineEnds :
                                      sent'[k].line = sent'[k].text \o end
    BY <1>2 DEF TypeOK
  <2>5. alone' \in BOOLEAN
    BY <1>2 DEF TypeOK
  <2> QED BY <1>2, <2>1, <2>2, <2>3, <2>4, <2>5 DEF TypeOK
<1>9. StreamRuns'
  <2>1. ASSUME NEW i \in DOMAIN stream' PROVE GoesOn(i)'
    <3> DEFINE b == stream[n + i]
               L == Len(sent[b.of].line)
               last == n + i + L - b.at
    <3>1. /\ n + i \in DOMAIN stream /\ stream'[i] = b /\ i \in Nat
          /\ b.at \in Nat /\ L \in Nat
      BY <1>6, StreamBytes, ByteOfSent, LineOfSent
    <3>2. /\ last \in DOMAIN stream
          /\ \A p \in n + i .. last : stream[p] = Byte(b.of, b.at + p - (n + i))
      BY <3>1, StreamGoesOn DEF GoesOn
    <3>3. b.at <= L
      BY <3>1, StreamBytes, ByteOfSent
    <3> HIDE DEF b, L
    <3>4. i + L - b.at \in DOMAIN stream'
      BY <1>6, <3>1, <3>2, <3>3
    <3>5. ASSUME NEW p \in i .. i + L - b.at
          PROVE  stream'[p] = Byte(b.of, b.at + p - i)
      <4> DEFINE q == i + L - b.at
      <4>1. q \in Int /\ i \in Int /\ last = n + q
        BY <1>6, <3>1
      <4> HIDE DEF q, last
      <4>2. p \in Int /\ i <= p /\ p <= q
        BY <4>1 DEF q
      <4>3. p \in DOMAIN stream'
        BY <1>6, <3>1, <3>4, <4>1, <4>2 DEF q
      <4>4. n + p \in n + i .. last /\ b.at + (n + p) - (n + i) = b.at + p - i
        BY <1>6, <3>1, <4>1, <4>2
      <4>5. stream[n + p] = Byte(b.of, b.at + (n + p) - (n + i))
        BY <3>2, <4>4
      <4> QED BY <1>6, <4>3, <4>4, <4>5
    <3>6. stream'[i] = b /\ Len(sent'[b.of].line) = L
      BY <1>2, <3>1 DEF L
    <3> QED BY <3>4, <3>5, <3>6 DEF GoesOn, Byte
  <2>2. ASSUME NEW i \in DOMAIN stream', NEW j \in DOMAIN stream', i < j
        PROVE  Before(stream'[i], stream'[j])
    <3>1. n + i \in DOMAIN stream /\ n + j \in DOMAIN stream /\ n + i < n + j
      BY <1>6, <2>2
    <3> QED BY <1>6, <3>1, StreamGoesOn
  <2> QED BY <2>1, <2>2, StreamGoesOnPrime
<1>10. TakenFirst'
  <2> SUFFICES ASSUME NEW k \in DOMAIN taken', NEW i \in DOMAIN taken'[k].text,
                      NEW j \in DOMAIN stream'
               PROVE  Before(taken'[k].text[i], stream'[j])
    BY DEF TakenFirst, Before
  <2>1. stream'[j] = stream[n + j] /\ n + j \in DOMAIN stream
    BY <1>6
  <2>2. CASE k \in DOMAIN taken
    BY <1>4, <2>1, <2>2 DEF TakenFirst
  <2>3. CASE k = K
    <3>1. taken'[k].text[i] = stream[i] /\ i \in DOMAIN stream /\ i < n + j
      BY <1>4, <1>6, <1>7, <2>3
    <3> QED BY <2>1, <3>1, StreamGoesOn
  <2> QED BY <1>5, <2>2, <2>3
<1>11. PieceOfOneLine'
  <2>1. ASSUME NEW k \in DOMAIN taken', NEW i \in DOMAIN taken'[k].text
        PROVE  /\ taken'[k].text[i] \in AllBytes /\ IsText(taken'[k].text[i])
               /\ i > 1 => taken'[k].text[i]
                              = Byte(taken'[k].text[1].of, taken'[k].text[1].at + i - 1)
    <3>1. CASE k \in DOMAIN taken
      BY <1>4, <3>1 DEF PieceOfOneLine
    <3>2. CASE k = K
      BY <1>4, <1>7, <3>2
    <3> QED BY <1>5, <3>1, <3>2
  <2>2. ASSUME NEW k \in DOMAIN taken', NEW l \in DOMAIN taken', k < l,
               NEW i \in DOMAIN taken'[k].text, NEW j \in DOMAIN taken'[l].text
        PROVE  Before(taken'[k].text[i], taken'[l].text[j])
    <3>1. CASE l \in DOMAIN taken
      <4>1. k \in DOMAIN taken
        BY <1>4, <2>2, <3>1
      <4> QED BY <1>4, <2>2, <3>1, <4>1 DEF PieceOfOneLine
    <3>2. CASE l = K
      <4>1. k \in DOMAIN taken /\ taken'[l].text = entry.text
        BY <1>4, <1>5, <2>2, <3>2
      <4>2. entry.text[j] = stream[j] /\ j \in DOMAIN stream
        BY <1>7, <4>1
      <4> QED BY <1>4, <4>1, <4>2 DEF TakenFirst
    <3> QED BY <1>5, <3>1, <3>2
  <2> QED BY <1>2, <1>3, <2>1, <2>2 DEF PieceOfOneLine, IsText, Before, Byte
<1> QED BY <1>8, <1>9, <1>10, <1>11

-----------------------------------------------------------------------------
(* A client that waits *)

\* The invariant.
WaitingInv == ChannelInv /\ LastLineComes /\ WaitingClientIsServed

\* The characters of bytes, when so many lines have been sent.
CharactersIn(lines, bytes) ==
    [i \in DOMAIN bytes |->
        IF bytes[i] = Padding THEN Stale
        ELSE IF bytes[i] = Terminator THEN NUL ELSE lines[bytes[i].of].line[bytes[i].at]]

\* What a client that waits is promised, after a step.
LEMMA WaitingPrime ==
    ASSUME /\ alone' /\ control' \in {"open", "ended"} =>
                /\ \A b \in AllBytes' : b.at <= Len(sent'[b.of].text) =>
                     \/ b \in ToSet(stream')
                     \/ \E k \in DOMAIN taken' : b \in ToSet(taken'[k].text)
                /\ whole' =>
                     /\ Len(sent') = Len(taken') + (IF stream' = <<>> THEN 0 ELSE 1)
                     /\ \A k \in DOMAIN taken' :
                           CharactersIn(sent', taken'[k].text) = sent'[k].text
    PROVE  WaitingClientIsServed'
BY DEF WaitingClientIsServed, IsText, ToSet, Characters, CharactersIn, Char,
       Padding, Terminator, Byte

\* The text of a line has no end of a line in it.
LEMMA TextHasNoEnd ==
    ASSUME TypeOK, LinesSent, NEW n \in DOMAIN sent
    PROVE  /\ Len(sent[n].text) \in Nat
           /\ sent[n].text = [i \in 1 .. Len(sent[n].text) |-> sent[n].text[i]]
           /\ \A i \in 1 .. Len(sent[n].text) :
                /\ sent[n].line[i] = sent[n].text[i]
                /\ sent[n].line[i] \notin {CR, LF, NUL}
<1> DEFINE t == sent[n].text
<1>1. PICK e \in LineEnds : sent[n].line = t \o e
  BY DEF TypeOK
<1>2. t \in Seq(ToSet(t)) /\ ToSet(t) \cap {CR, LF, NUL, Stale} = {}
  BY ChannelAssumption DEF TypeOK
<1>3. e = <<CR, LF>> \/ e = <<LF>>
  BY ChannelAssumption
<1> DEFINE C == ToSet(t) \cup {CR, LF}
<1> HIDE DEF t
<1>4. t \in Seq(C) /\ e \in Seq(C)
  <2>1. ToSet(t) \subseteq C
    OBVIOUS
  <2>2. e \in Seq(C)
    <3>1. CR \in C /\ LF \in C
      OBVIOUS
    <3> HIDE DEF C
    <3>2. CASE e = <<CR, LF>>
      BY <3>1, <3>2
    <3>3. CASE e = <<LF>>
      BY <3>1, <3>3
    <3> QED BY <1>3, <3>2, <3>3
  <2> HIDE DEF C
  <2> QED BY <1>2, <2>1, <2>2, SeqMonotonic
<1> HIDE DEF C
<1>5. /\ Len(t) \in Nat /\ DOMAIN t = 1 .. Len(t)
      /\ t = [i \in 1 .. Len(t) |-> t[i]] /\ Len(e) \in Nat
  BY <1>4, LenProperties, SeqDef
<1>6. ASSUME NEW i \in 1 .. Len(t)
      PROVE  (t \o e)[i] = t[i] /\ t[i] \notin {CR, LF, NUL}
  <2>1. t[i] \in ToSet(t)
    BY <1>5 DEF ToSet
  <2>2. i \in 1 .. Len(t) + Len(e) /\ i <= Len(t)
    BY <1>5
  <2>3. (t \o e)[i] = t[i]
    BY <1>4, <2>2, ConcatProperties
  <2> QED BY <1>2, <2>1, <2>3
<1> QED BY <1>1, <1>5, <1>6 DEF t

\* A byte is of the text of its line just if it ends no line.
LEMMA TextOrEnd ==
    ASSUME TypeOK, LinesSent, NEW b \in AllBytes
    PROVE  IsText(b) <=> Char(b) \notin {CR, LF, NUL}
<1>1. /\ b.of \in DOMAIN sent /\ b.at \in Nat /\ 1 <= b.at
      /\ Char(b) = sent[b.of].line[b.at]
      /\ Char(b) \notin {CR, LF, NUL} => IsText(b)
  BY ByteOfSent
<1>2. ASSUME IsText(b) PROVE Char(b) \notin {CR, LF, NUL}
  <2>1. b.at \in 1 .. Len(sent[b.of].text)
    BY <1>1, <1>2, TextHasNoEnd DEF IsText
  <2> QED BY <1>1, <2>1, TextHasNoEnd
<1> QED BY <1>1, <1>2

\* A line more leaves the characters of what has been taken as they were.
LEMMA CharactersStay ==
    ASSUME TypeOK, LinesSent, OneLineMore, NEW k \in DOMAIN taken
    PROVE  CharactersIn(sent', taken[k].text) = Characters(taken[k].text)
<1> DEFINE bytes == taken[k].text
<1>1. \A i \in DOMAIN bytes : bytes[i] \in AllBytes
  BY TakenBytes
<1> HIDE DEF bytes
<1>2. ASSUME NEW i \in DOMAIN bytes
      PROVE  sent'[bytes[i].of].line[bytes[i].at] = sent[bytes[i].of].line[bytes[i].at]
  <2>1. bytes[i].of \in DOMAIN sent
    BY <1>1, ByteOfSent
  <2> QED BY <2>1 DEF OneLineMore
<1> QED BY <1>2 DEF CharactersIn, Characters, Char, bytes

\* A client that waits writes when all has been received.
LEMMA WaitingSends ==
    ASSUME WaitingInv, ClientSends
    PROVE  LastLineComes' /\ WaitingClientIsServed'
<1> USE DEF WaitingInv, ChannelInv
<1>1. /\ control' = control /\ taken' = taken /\ whole' = whole
      /\ alone' = (alone /\ stream = <<>>) /\ control = "open"
  BY DEF ClientSends
<1>2. /\ OneLineMore /\ ItsBytesCome /\ AllBytes \subseteq AllBytes' /\ LinesSent'
      /\ stream' \in Seq(AllBytes')
  BY LineMore, StreamMore
<1>3. TypeOK'
  BY SendsKeeps
<1> DEFINE N == Len(sent) + 1
           line == sent'[N].line
           L == Len(line)
<1>4. /\ N \in Nat /\ Len(sent') = N /\ DOMAIN sent' = 1 .. N /\ N \in DOMAIN sent'
      /\ DOMAIN sent = 1 .. N - 1 /\ \A n \in DOMAIN sent : sent'[n] = sent[n]
  <2>1. Len(sent) \in Nat /\ DOMAIN sent' = 1 .. N /\ DOMAIN sent = 1 .. Len(sent)
    BY <1>2, SentNumbered DEF OneLineMore
  <2>2. Len(sent') \in Nat /\ DOMAIN sent' = 1 .. Len(sent')
    BY <1>2, LenProperties DEF LinesSent
  <2>3. N \in Nat /\ N - 1 = Len(sent)
    BY <2>1
  <2> HIDE DEF N
  <2>4. Len(sent') = N
    BY <2>1, <2>2, <2>3
  <2> QED BY <1>2, <2>1, <2>3, <2>4 DEF OneLineMore
<1> SUFFICES ASSUME alone' PROVE LastLineComes' /\ WaitingClientIsServed'
  BY WaitingPrime DEF LastLineComes
<1>5. alone /\ stream = <<>>
  BY <1>1
<1>6. /\ L \in Nat /\ DOMAIN stream' = 1 .. L
      /\ \A a \in 1 .. L : stream'[a] = Byte(N, a)
  <2>1. /\ L \in Nat /\ DOMAIN stream' = 1 .. 0 + L
        /\ \A a \in 1 .. L : stream'[0 + a] = Byte(N, a)
    BY <1>2, <1>5 DEF ItsBytesCome
  <2> HIDE DEF L, N
  <2> QED BY <2>1
<1>7. L > 0 /\ DOMAIN line = 1 .. L
  <2>1. PICK e \in LineEnds : line = sent'[N].text \o e
    BY <1>3, <1>4 DEF TypeOK
  <2>2. sent'[N].text \in Texts
    BY <1>3, <1>4 DEF TypeOK
  <2>3. /\ Len(sent'[N].text) \in Nat /\ Len(sent'[N].text) < L
        /\ DOMAIN line = 1 .. L
    BY <2>1, <2>2, TextAndEnd
  <2> HIDE DEF L, N, line
  <2> QED BY <1>6, <2>3
<1> HIDE DEF N, line
<1>8. Len(stream') = L /\ stream' = BytesOf(N, line)
  <2> DEFINE S == AllBytes'
             bytes == stream'
  <2>1. bytes \in Seq(S) /\ Len(bytes) \in Nat /\ DOMAIN bytes = 1 .. Len(bytes)
    BY <1>2, LenProperties
  <2>2. Len(bytes) = L /\ \A a \in 1 .. L : bytes[a] = Byte(N, a)
    BY <1>6, <2>1
  <2> HIDE DEF S, bytes
  <2>3. bytes = BytesOf(N, line)
    BY <1>6, <2>1, <2>2, BytesByPlace
  <2> QED BY <2>2, <2>3 DEF bytes
<1>9. LastLineComes'
  <2>1. \A i \in DOMAIN stream' : stream'[i].of = Len(sent')
    BY <1>4, <1>6 DEF Byte
  <2>2. stream' = BytesOf(Len(sent'), sent'[Len(sent')].line)
    BY <1>4, <1>8 DEF line
  <2> QED BY <2>1, <2>2 DEF LastLineComes, BytesOf, Byte
<1>10. ASSUME NEW b \in AllBytes', b.at <= Len(sent'[b.of].text)
       PROVE  \/ b \in ToSet(stream')
              \/ \E k \in DOMAIN taken' : b \in ToSet(taken'[k].text)
  <2>1. PICK n \in DOMAIN sent' : \E i \in DOMAIN sent'[n].line : b = Byte(n, i)
    BY DEF AllBytes, Byte
  <2>2. PICK i \in DOMAIN sent'[n].line : b = Byte(n, i)
    BY <2>1
  <2>3. CASE n = N
    <3>1. i \in 1 .. L /\ i \in DOMAIN stream' /\ stream'[i] = b
      BY <1>6, <1>7, <2>2, <2>3 DEF line
    <3> QED BY <3>1 DEF ToSet
  <2>4. CASE n \in DOMAIN sent
    <3>1. i \in DOMAIN sent[n].line /\ sent'[n] = sent[n]
      BY <1>4, <2>2, <2>4
    <3>2. b \in AllBytes /\ b.of = n
      BY <2>2, <2>4, <3>1 DEF AllBytes, Byte
    <3>3. IsText(b)
      BY <1>10, <3>1, <3>2 DEF IsText
    <3>4. ToSet(stream) = {}
      BY <1>5 DEF ToSet
    <3> QED BY <1>1, <1>5, <3>2, <3>3, <3>4 DEF WaitingClientIsServed
  <2> QED BY <1>4, <2>2, <2>3, <2>4
<1>11. ASSUME whole'
       PROVE  /\ Len(sent') = Len(taken') + (IF stream' = <<>> THEN 0 ELSE 1)
              /\ \A k \in DOMAIN taken' :
                    CharactersIn(sent', taken'[k].text) = sent'[k].text
  <2>1. /\ Len(sent) = Len(taken) /\ Len(taken) \in Nat /\ DOMAIN taken = 1 .. Len(taken)
        /\ \A k \in DOMAIN taken : Characters(taken[k].text) = sent[k].text
    <3>1. /\ Len(sent) = Len(taken) + 0
          /\ \A k \in DOMAIN taken : Characters(taken[k].text) = sent[k].text
      BY <1>1, <1>5, <1>11 DEF WaitingClientIsServed
    <3> QED BY <3>1, TakenBytes
  <2>2. stream' # <<>>
    BY <1>6, <1>7
  <2>3. Len(sent') = Len(taken') + 1
    BY <1>1, <1>4, <2>1 DEF N
  <2>4. ASSUME NEW k \in DOMAIN taken
        PROVE  CharactersIn(sent', taken[k].text) = sent'[k].text
    <3>1. k \in DOMAIN sent
      BY <1>4, <2>1 DEF N
    <3> QED BY <1>2, <1>4, <2>1, <3>1, CharactersStay
  <2> QED BY <1>1, <2>2, <2>3, <2>4
<1>12. WaitingClientIsServed'
  BY <1>10, <1>11, WaitingPrime
<1> QED BY <1>9, <1>12

\* Of what is received a waiting client's text is taken, all of it.
LEMMA TextIsTaken ==
    ASSUME WaitingInv, alone, NEW n, NEW m, NEW entry, Taken(n, m, entry),
           NEW i \in 1 .. n
    PROVE  IsText(stream[i]) <=> i \in 1 .. m
<1> USE DEF WaitingInv, ChannelInv
<1>1. /\ Len(stream) \in Nat /\ DOMAIN stream = 1 .. Len(stream)
      /\ \A j \in DOMAIN stream : stream[j] \in AllBytes
  BY StreamBytes
<1>2. /\ n \in 1 .. Len(stream) /\ m \in 0 .. n
      /\ \A j \in 1 .. m : Char(stream[j]) \notin {CR, LF, NUL}
      /\ m < n => Char(stream[m + 1]) \in {CR, LF, NUL}
  BY DEF Taken
<1>3. i \in DOMAIN stream /\ i \in Nat
  BY <1>1, <1>2
<1>4. ASSUME i \in 1 .. m PROVE IsText(stream[i])
  BY <1>1, <1>2, <1>3, <1>4, TextOrEnd
<1>5. ASSUME i \notin 1 .. m PROVE ~IsText(stream[i])
  <2>1. m + 1 \in 1 .. n /\ m < n /\ m + 1 <= i /\ m + 1 \in DOMAIN stream
    BY <1>1, <1>2, <1>5
  <2>2. ~IsText(stream[m + 1])
    BY <1>1, <1>2, <2>1, TextOrEnd
  <2>3. stream[m + 1].of = Len(sent) /\ stream[i].of = Len(sent)
    BY <1>3, <2>1 DEF LastLineComes
  <2>4. CASE i = m + 1
    BY <2>2, <2>4
  <2>5. CASE m + 1 < i
    <3>1. Before(stream[m + 1], stream[i])
      BY <1>3, <2>1, <2>5 DEF StreamRuns
    <3>2. stream[m + 1].of \in Nat /\ stream[m + 1].at \in Nat /\ stream[i].at \in Nat
          /\ stream[m + 1].of \in DOMAIN sent
      BY <1>1, <1>3, <2>1, ByteOfSent
    <3>3. stream[m + 1].at < stream[i].at
      BY <2>3, <3>1, <3>2 DEF Before
    <3>4. Len(sent[Len(sent)].text) \in Nat
      BY <2>3, <3>2, LineOfSent
    <3> QED BY <2>2, <2>3, <3>2, <3>3, <3>4 DEF IsText
  <2> QED BY <1>3, <2>1, <2>4, <2>5
<1> QED BY <1>4, <1>5

\* When the line a waiting client wrote is received in one piece, its text is the
\* command, and nothing is to come.
LEMMA LineIsCommand ==
    ASSUME WaitingInv, alone, whole, NEW n, NEW m, NEW entry, Taken(n, m, entry),
           OneLine(n)
    PROVE  /\ stream # <<>> /\ stream' = <<>> /\ Len(sent) \in DOMAIN sent
           /\ Characters(entry.text) = sent[Len(sent)].text
<1> USE DEF WaitingInv, ChannelInv
<1> DEFINE N == Len(sent)
           text == sent[N].text
<1>1. /\ Len(stream) \in Nat /\ DOMAIN stream = 1 .. Len(stream)
      /\ \A j \in DOMAIN stream : stream[j] \in AllBytes
  BY StreamBytes
<1>2. /\ n \in 1 .. Len(stream) /\ m \in 0 .. n /\ DOMAIN entry.text = 1 .. m
      /\ \A j \in 1 .. m : entry.text[j] = stream[j]
      /\ stream' \in Seq(AllBytes) /\ DOMAIN stream' = 1 .. Len(stream) - n
  BY DEF Taken
<1>3. 1 \in DOMAIN stream /\ stream[1].of = N /\ N \in DOMAIN sent
  <2>1. 1 \in DOMAIN stream
    BY <1>1, <1>2
  <2>2. stream[1].of = N
    BY <2>1 DEF LastLineComes
  <2> QED BY <1>1, <2>1, <2>2, ByteOfSent
<1>4. stream # <<>>
  BY <1>3
<1> HIDE DEF N
<1>5. n = Len(sent[N].line) /\ \A j \in 1 .. n : stream[j] = Byte(N, j)
  BY <1>3 DEF OneLine
<1>6. Len(stream) = n
  <2>1. stream = BytesOf(N, sent[N].line) /\ stream \in Seq(AllBytes)
    BY <1>4 DEF LastLineComes, N, TypeOK
  <2>2. Len(sent[N].line) \in Nat
    BY <1>3, LineOfSent
  <2>3. Len(stream) = Len(sent[N].line)
    BY <2>1, <2>2, BytesByPlace
  <2> QED BY <1>5, <2>3
<1>7. stream' = <<>>
  <2>1. DOMAIN stream' = 1 .. 0
    BY <1>1, <1>2, <1>6
  <2>2. Len(stream') \in Nat /\ DOMAIN stream' = 1 .. Len(stream')
    BY <1>2, LenProperties
  <2>3. Len(stream') = 0
    BY <2>1, <2>2
  <2> QED BY <1>2, <2>3, EmptySeq
<1>8. /\ Len(text) \in Nat /\ Len(text) < n
      /\ text = [j \in 1 .. Len(text) |-> text[j]]
      /\ \A j \in 1 .. Len(text) : sent[N].line[j] = text[j]
  BY <1>3, <1>5, LineOfSent, TextHasNoEnd
<1>9. \A j \in 1 .. n : j <= Len(text) <=> j \in 1 .. m
  <2> SUFFICES ASSUME NEW j \in 1 .. n PROVE j <= Len(text) <=> j \in 1 .. m
    OBVIOUS
  <2>1. IsText(stream[j]) <=> j \in 1 .. m
    BY TextIsTaken
  <2>2. stream[j].of = N /\ stream[j].at = j
    <3>1. stream[j] = Byte(N, j)
      BY <1>5
    <3> QED BY <3>1 DEF Byte
  <2> QED BY <2>1, <2>2 DEF IsText
<1> DEFINE L == Len(text)
<1>10. m = L
  <2>1. L \in Nat /\ L < n /\ n \in Nat /\ m \in Nat /\ m <= n
    BY <1>1, <1>2, <1>8
  <2>2. \A j \in 1 .. n : j <= L <=> j \in 1 .. m
    BY <1>9
  <2> HIDE DEF L
  <2>3. m <= L
    <3>1. m \in 1 .. n => m <= L
      BY <2>1, <2>2
    <3> QED BY <2>1, <3>1
  <2>4. L <= m
    <3>1. L \in 1 .. n => L \in 1 .. m
      BY <2>1, <2>2
    <3> QED BY <2>1, <3>1
  <2> QED BY <2>1, <2>3, <2>4
<1>11. ASSUME NEW j \in 1 .. m PROVE Char(entry.text[j]) = text[j]
  <2>1. j \in 1 .. n /\ j \in DOMAIN stream /\ j \in 1 .. Len(text)
    BY <1>1, <1>2, <1>10
  <2>2. entry.text[j] = Byte(N, j) /\ entry.text[j] \in AllBytes
    BY <1>1, <1>2, <1>5, <2>1
  <2>3. Char(entry.text[j]) = sent[N].line[j]
    BY <2>2, ByteOfSent DEF Byte
  <2> QED BY <1>8, <2>1, <2>3
<1> HIDE DEF text, L
<1>12. Characters(entry.text) = [j \in 1 .. m |-> text[j]]
  BY <1>2, <1>11 DEF Characters
<1> QED BY <1>3, <1>4, <1>7, <1>8, <1>10, <1>12 DEF text, L, N

\* What is promised to a client that waits is kept as the server receives.
LEMMA WaitingReceives ==
    ASSUME WaitingInv, Receives
    PROVE  LastLineComes' /\ WaitingClientIsServed'
<1> USE DEF WaitingInv, ChannelInv
<1>1. PICK n, m, entry : Taken(n, m, entry) /\ (whole' => whole /\ OneLine(n))
  BY ReceivesEffect
<1>2. /\ sent' = sent /\ alone' = alone /\ control \in {"open", "ended"}
  BY DEF Receives
<1>3. /\ Len(taken) \in Nat /\ DOMAIN taken = 1 .. Len(taken)
      /\ DOMAIN taken' = 1 .. Len(taken) + 1
      /\ \A k \in DOMAIN taken : taken'[k] = taken[k]
      /\ taken'[Len(taken) + 1].text = entry.text
  BY <1>1, TakenMore
<1>4. /\ n \in 1 .. Len(stream) /\ m \in 0 .. n /\ DOMAIN entry.text = 1 .. m
      /\ \A j \in 1 .. m : entry.text[j] = stream[j]
      /\ DOMAIN stream' = 1 .. Len(stream) - n
      /\ \A i \in 1 .. Len(stream) - n : stream'[i] = stream[n + i]
  BY <1>1 DEF Taken
<1>5. /\ Len(stream) \in Nat /\ DOMAIN stream = 1 .. Len(stream)
      /\ \A j \in DOMAIN stream : stream[j] \in AllBytes
  BY StreamBytes
<1> SUFFICES ASSUME alone PROVE LastLineComes' /\ WaitingClientIsServed'
  BY <1>2, WaitingPrime DEF LastLineComes
<1>6. LastLineComes'
  <2>1. ASSUME NEW i \in DOMAIN stream' PROVE stream'[i].of = Len(sent')
    <3>1. n + i \in DOMAIN stream /\ stream'[i] = stream[n + i]
      BY <1>4, <1>5
    <3> QED BY <1>2, <3>1 DEF LastLineComes
  <2>2. whole' => stream' = <<>>
    BY <1>1, LineIsCommand
  <2> QED BY <2>1, <2>2 DEF LastLineComes
<1>7. ASSUME NEW b \in AllBytes', b.at <= Len(sent'[b.of].text)
      PROVE  \/ b \in ToSet(stream')
             \/ \E k \in DOMAIN taken' : b \in ToSet(taken'[k].text)
  <2>1. b \in AllBytes /\ IsText(b)
    BY <1>2, <1>7 DEF AllBytes, IsText
  <2>2. \/ b \in ToSet(stream)
        \/ \E k \in DOMAIN taken : b \in ToSet(taken[k].text)
    BY <1>2, <2>1 DEF WaitingClientIsServed
  <2>3. CASE \E k \in DOMAIN taken : b \in ToSet(taken[k].text)
    BY <1>3, <2>3
  <2>4. CASE b \in ToSet(stream)
    <3>1. PICK j \in DOMAIN stream : b = stream[j]
      BY <2>4 DEF ToSet
    <3>2. CASE j \in 1 .. n
      <4>1. j \in 1 .. m
        BY <1>1, <2>1, <3>1, <3>2, TextIsTaken
      <4>2. b \in ToSet(entry.text)
        BY <1>4, <3>1, <4>1 DEF ToSet
      <4>3. Len(taken) + 1 \in DOMAIN taken'
        BY <1>3
      <4> QED BY <1>3, <4>2, <4>3
    <3>3. CASE j \notin 1 .. n
      <4>1. /\ j - n \in 1 .. Len(stream) - n /\ n + (j - n) = j
        BY <1>4, <1>5, <3>3
      <4>2. stream'[j - n] = b /\ j - n \in DOMAIN stream'
        BY <1>4, <3>1, <4>1
      <4> QED BY <4>2 DEF ToSet
    <3> QED BY <3>2, <3>3
  <2> QED BY <2>2, <2>3, <2>4
<1>8. ASSUME whole'
      PROVE  /\ Len(sent') = Len(taken') + (IF stream' = <<>> THEN 0 ELSE 1)
             /\ \A k \in DOMAIN taken' :
                   CharactersIn(sent', taken'[k].text) = sent'[k].text
  <2>1. /\ whole /\ stream # <<>> /\ stream' = <<>> /\ Len(sent) \in DOMAIN sent
        /\ Characters(entry.text) = sent[Len(sent)].text
    BY <1>1, <1>8, LineIsCommand
  <2>2. /\ Len(sent) = Len(taken) + 1
        /\ \A k \in DOMAIN taken : Characters(taken[k].text) = sent[k].text
    BY <1>2, <2>1 DEF WaitingClientIsServed
  <2>3. Len(taken') = Len(taken) + 1
    <3>1. taken' \in Seq([text : Seq(AllBytes),
                          reply : {"empty", "goodbye", "handled", "unknown"}])
      BY <1>1, TakenMore
    <3>2. Len(taken') \in Nat /\ DOMAIN taken' = 1 .. Len(taken')
      BY <3>1, LenProperties
    <3> QED BY <1>3, <3>2
  <2>4. \A bytes : CharactersIn(sent', bytes) = Characters(bytes)
    BY <1>2 DEF CharactersIn, Characters, Char
  <2>5. ASSUME NEW k \in DOMAIN taken'
        PROVE  Characters(taken'[k].text) = sent'[k].text
    <3>1. CASE k \in DOMAIN taken
      BY <1>2, <1>3, <2>2, <3>1
    <3>2. CASE k = Len(taken) + 1
      BY <1>2, <1>3, <2>1, <2>2, <3>2
    <3> QED BY <1>3, <3>1, <3>2
  <2>6. Len(sent') = Len(taken') + 0
    BY <1>2, <1>3, <2>2, <2>3
  <2> QED BY <2>1, <2>4, <2>5, <2>6
<1>9. WaitingClientIsServed'
  BY <1>7, <1>8, WaitingPrime
<1> QED BY <1>6, <1>9

-----------------------------------------------------------------------------
(* The theorems *)

\* Nothing has been written.
LEMMA ChannelInit ==
    ASSUME Init
    PROVE  ChannelInv
<1>1. /\ control = "open" /\ sent = <<>> /\ stream = <<>> /\ taken = <<>>
      /\ alone = TRUE /\ whole = TRUE
  BY DEF Init
<1>2. DOMAIN sent = {} /\ DOMAIN stream = {} /\ DOMAIN taken = {}
  BY <1>1
<1>3. TypeOK
  BY <1>1, <1>2, EmptySeq DEF TypeOK
<1>4. LinesSent
  BY <1>1, EmptySeq DEF LinesSent
<1>5. StreamRuns /\ TakenFirst /\ PieceOfOneLine
  BY <1>2 DEF StreamRuns, TakenFirst, PieceOfOneLine
<1> QED BY <1>3, <1>4, <1>5 DEF ChannelInv

\* A reset leaves nothing to come.
LEMMA ResetsKeeps ==
    ASSUME ChannelInv, ClientResets
    PROVE  ChannelInv'
<1> USE DEF ChannelInv
<1>1. /\ sent' = sent /\ taken' = taken /\ alone' = alone /\ whole' = whole
      /\ control' = "reset" /\ stream' = <<>>
  BY DEF ClientResets
<1>2. AllBytes' = AllBytes /\ DOMAIN stream' = {}
  BY <1>1 DEF AllBytes
<1>3. TypeOK'
  <2>1. stream' \in Seq(AllBytes')
    BY <1>1, EmptySeq
  <2> QED BY <1>1, <1>2, <2>1 DEF TypeOK
<1>4. LinesSent' /\ PieceOfOneLine'
  BY <1>1, <1>2 DEF LinesSent, PieceOfOneLine, IsText, Before, Byte
<1>5. StreamRuns' /\ TakenFirst'
  BY <1>2 DEF StreamRuns, TakenFirst
<1> QED BY <1>3, <1>4, <1>5

\* Of the other steps only the state of the connection changes, if anything.
LEMMA OthersKeep ==
    ASSUME ChannelInv, control' \in {"open", "ended", "reset", "closed"},
           UNCHANGED <<sent, stream, taken, alone, whole>>
    PROVE  ChannelInv'
<1> USE DEF ChannelInv
<1>1. AllBytes' = AllBytes
  BY DEF AllBytes
<1>2. TypeOK'
  <2>1. stream' \in Seq(AllBytes') /\ alone' \in BOOLEAN /\ whole' \in BOOLEAN
    BY <1>1 DEF TypeOK
  <2>2. taken' \in Seq([text : Seq(AllBytes'),
                        reply : {"empty", "goodbye", "handled", "unknown"}])
    BY <1>1 DEF TypeOK
  <2>3. \A n \in DOMAIN sent' : /\ sent'[n].text \in Texts
                                /\ \E end \in LineEnds :
                                      sent'[n].line = sent'[n].text \o end
    BY DEF TypeOK
  <2> QED BY <2>1, <2>2, <2>3 DEF TypeOK
<1>3. LinesSent' /\ StreamRuns' /\ TakenFirst' /\ PieceOfOneLine'
  BY <1>1 DEF LinesSent, StreamRuns, TakenFirst, PieceOfOneLine, IsText, Before, Byte
<1> QED BY <1>2, <1>3

\* The invariant holds throughout.
THEOREM ChannelKept == Spec => []ChannelInv
<1>1. Init => ChannelInv
  BY ChannelInit
<1>2. ChannelInv /\ [Next]_vars => ChannelInv'
  <2> SUFFICES ASSUME ChannelInv, [Next]_vars PROVE ChannelInv'
    OBVIOUS
  <2>1. control \in {"open", "ended", "reset", "closed"}
    BY DEF ChannelInv, TypeOK
  <2>2. CASE ClientSends
    BY <2>2, SendsKeeps
  <2>3. CASE ClientCloses
    BY <2>3, OthersKeep DEF ClientCloses
  <2>4. CASE ClientResets
    BY <2>4, ResetsKeeps
  <2>5. CASE Receives
    BY <2>5, ReceivesKeeps
  <2>6. CASE RecvEnds
    BY <2>6, OthersKeep DEF RecvEnds
  <2>7. CASE UNCHANGED vars
    BY <2>1, <2>7, OthersKeep DEF vars
  <2> QED BY <2>2, <2>3, <2>4, <2>5, <2>6, <2>7 DEF Next
<1> QED BY <1>1, <1>2, PTL DEF Spec

\* Every variable keeps its type: whatever is in the stream or has been taken
\* are bytes that a client wrote.
THEOREM TypeCorrect == Spec => []TypeOK
<1>1. ChannelInv => TypeOK
  BY DEF ChannelInv
<1> QED BY <1>1, ChannelKept, PTL

\* Whatever recv returns, what getexe_command takes for a command is an
\* unbroken piece of the text of one line, later than all taken before.
THEOREM CommandsArePieces == Spec => []PieceOfOneLine
<1>1. ChannelInv => PieceOfOneLine
  BY DEF ChannelInv
<1> QED BY <1>1, ChannelKept, PTL

\* The invariant of a client that waits holds throughout.
THEOREM WaitingKept == Spec => []WaitingInv
<1>1. Init => WaitingInv
  <2> SUFFICES ASSUME Init PROVE WaitingInv
    OBVIOUS
  <2>1. ChannelInv /\ sent = <<>> /\ stream = <<>> /\ taken = <<>>
    BY ChannelInit DEF Init
  <2>2. AllBytes = {}
    BY <2>1 DEF AllBytes
  <2> QED BY <2>1, <2>2 DEF WaitingInv, LastLineComes, WaitingClientIsServed
<1>2. WaitingInv /\ ChannelInv' /\ [Next]_vars => WaitingInv'
  <2> SUFFICES ASSUME WaitingInv, ChannelInv', [Next]_vars
               PROVE  LastLineComes' /\ WaitingClientIsServed'
    BY DEF WaitingInv
  <2>1. CASE ClientSends
    BY <2>1, WaitingSends
  <2>2. CASE Receives
    BY <2>2, WaitingReceives
  <2>3. ASSUME UNCHANGED <<sent, stream, taken, alone, whole>>,
               control' \in {"open", "ended"} => control \in {"open", "ended"}
        PROVE  LastLineComes' /\ WaitingClientIsServed'
    <3>1. /\ sent' = sent /\ stream' = stream /\ taken' = taken
          /\ alone' = alone /\ whole' = whole
      BY <2>3
    <3>2. AllBytes' = AllBytes
      BY <3>1 DEF AllBytes
    <3>3. LastLineComes'
      BY <3>1 DEF WaitingInv, LastLineComes, BytesOf, Byte
    <3>4. \A bytes : CharactersIn(sent', bytes) = Characters(bytes)
      BY <3>1 DEF CharactersIn, Characters, Char
    <3>5. ASSUME alone, control \in {"open", "ended"}
          PROVE  /\ \A b \in AllBytes' : b.at <= Len(sent'[b.of].text) =>
                      \/ b \in ToSet(stream')
                      \/ \E k \in DOMAIN taken' : b \in ToSet(taken'[k].text)
                 /\ whole' =>
                      /\ Len(sent') = Len(taken') + (IF stream' = <<>> THEN 0 ELSE 1)
                      /\ \A k \in DOMAIN taken' : Characters(taken'[k].text) = sent'[k].text
      BY <3>1, <3>2, <3>5 DEF WaitingInv, WaitingClientIsServed, IsText
    <3>6. WaitingClientIsServed'
      BY <2>3, <3>1, <3>4, <3>5, WaitingPrime
    <3> QED BY <3>3, <3>6
  <2>4. CASE ClientCloses
    BY <2>3, <2>4 DEF ClientCloses
  <2>5. CASE RecvEnds
    BY <2>3, <2>5 DEF RecvEnds
  <2>6. CASE UNCHANGED vars
    BY <2>3, <2>6 DEF vars
  <2>7. CASE ClientResets
    <3>1. control' = "reset" /\ stream' = <<>>
      BY <2>7 DEF ClientResets
    <3> QED BY <3>1 DEF LastLineComes, WaitingClientIsServed
  <2> QED BY <2>1, <2>2, <2>4, <2>5, <2>6, <2>7 DEF Next
<1> QED BY <1>1, <1>2, ChannelKept, PTL DEF Spec

\* A client that waits until its line has been received before it writes the next
\* has every character of it taken by getexe_command or still on its way, and,
\* if no line was cut, one reply for each line.
THEOREM WaitingClientServed == Spec => []WaitingClientIsServed
<1>1. WaitingInv => WaitingClientIsServed
  BY DEF WaitingInv
<1> QED BY <1>1, WaitingKept, PTL
=============================================================================
