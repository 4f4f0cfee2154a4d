-------------------------- MODULE FtpStartupProofs --------------------------
(***************************************************************************)
(* Theorems about FtpStartup, for any number of words, any texts, whatever *)
(* atoi and strncpy make of them and whatever addresses the host has.      *)
(***************************************************************************)
EXTENDS FtpStartup, FiniteSetTheorems, SequenceTheorems, TLAPS

-----------------------------------------------------------------------------
(* Words and their order *)

\* A word that is no unknown option has a text.
LEMMA WordHasText ==
    ASSUME NEW w \in Words, w.key # "?"
    PROVE  w.text \in Texts /\ w.key \in {"p", "a", "ARG"}
BY DEF Words

\* The words, by places.
LEMMA WordsByPlace ==
    ASSUME TypeOK
    PROVE  /\ Len(argv) \in Nat /\ DOMAIN argv = 1 .. Len(argv)
           /\ \A i \in DOMAIN argv : argv[i] \in Words
           /\ Len(rest) \in Nat /\ DOMAIN rest = 1 .. Len(rest)
           /\ \A i \in DOMAIN rest : rest[i] \in Words
<1>1. argv \in Seq(Words) /\ rest \in Seq(Words)
  BY DEF TypeOK
<1> QED BY <1>1, LenProperties, ElementOfSeq

\* An order takes every word, each of the two kinds as it stands, and none but
\* texts after the first text.
LEMMA OrderFacts ==
    ASSUME TypeOK, NEW order \in Orders(argv)
    PROVE  /\ \A i \in DOMAIN argv : order[i] \in DOMAIN argv
           /\ \A k \in DOMAIN argv : \E i \in DOMAIN argv : order[i] = k
           /\ \A i, j \in DOMAIN argv :
                 i < j /\ (argv[order[i]].key = "ARG" <=> argv[order[j]].key = "ARG")
                 => order[i] < order[j]
           /\ \A i, j \in DOMAIN argv :
                 i < j /\ argv[order[i]].key = "ARG" => argv[order[j]].key = "ARG"
BY DEF Orders, Surjection

\* The words in an order.
HandedBy(order) == [i \in DOMAIN argv |-> argv[order[i]]]

\* What is handed over, by turns.
LEMMA HandedByTurn ==
    ASSUME TypeOK, NEW order \in Orders(argv)
    PROVE  /\ DOMAIN HandedBy(order) = 1 .. Len(argv) /\ Len(argv) \in Nat
           /\ \A i \in 1 .. Len(argv) : /\ HandedBy(order)[i] = argv[order[i]]
                                        /\ HandedBy(order)[i] \in Words
           /\ \A i, j \in 1 .. Len(argv) :
                 i < j /\ HandedBy(order)[i].key = "ARG"
                 => HandedBy(order)[j].key = "ARG"
<1>1. /\ DOMAIN argv = 1 .. Len(argv) /\ Len(argv) \in Nat
      /\ \A i \in DOMAIN argv : argv[i] \in Words
  BY WordsByPlace
<1>2. \A i \in 1 .. Len(argv) : /\ HandedBy(order)[i] = argv[order[i]]
                                /\ HandedBy(order)[i] \in Words
  BY <1>1, OrderFacts DEF HandedBy
<1>3. DOMAIN HandedBy(order) = 1 .. Len(argv)
  BY <1>1 DEF HandedBy
<1>4. ASSUME NEW i \in 1 .. Len(argv), NEW j \in 1 .. Len(argv),
             i < j, HandedBy(order)[i].key = "ARG"
      PROVE  HandedBy(order)[j].key = "ARG"
  <2>1. argv[order[i]].key = "ARG"
    BY <1>2, <1>4
  <2>2. argv[order[j]].key = "ARG"
    BY <1>1, <1>4, <2>1, OrderFacts
  <2> QED BY <1>2, <2>2
<1> QED BY <1>1, <1>2, <1>3, <1>4

-----------------------------------------------------------------------------
(* The meaning of a command line, when all of it has been handed over *)

\* Max and Min of a set that has one.
LEMMA MaxIs ==
    ASSUME NEW S \in SUBSET Int, NEW m \in S, \A x \in S : x <= m
    PROVE  Max(S) = m
<1>1. Max(S) \in S /\ Max(S) >= m
  BY DEF Max
<1>2. Max(S) \in Int /\ m \in Int
  BY <1>1
<1>3. Max(S) <= m
  BY <1>1
<1> QED BY <1>1, <1>2, <1>3

\* The same of Min.
LEMMA MinIs ==
    ASSUME NEW S \in SUBSET Int, NEW m \in S, \A x \in S : m <= x
    PROVE  Min(S) = m
<1>1. Min(S) \in S /\ Min(S) <= m
  BY DEF Min
<1>2. Min(S) \in Int /\ m \in Int
  BY <1>1
<1>3. m <= Min(S)
  BY <1>1
<1> QED BY <1>1, <1>2, <1>3

\* All words have been handed over, in this order.
AllHanded(order) ==
    /\ order \in Orders(argv) /\ rest = <<>>
    /\ HandedInOrder(HandedBy(order))
    /\ PortSoFar(HandedBy(order)) /\ AddressSoFar(HandedBy(order))

\* The places of the words with a key are those of the turns with it.
LEMMA GivenByTurns ==
    ASSUME TypeOK, NEW order, AllHanded(order), NEW key
    PROVE  /\ Given(key) = {order[i] : i \in Turns(HandedBy(order), key)}
           /\ Given(key) \in SUBSET Int
           /\ Turns(HandedBy(order), key) \subseteq DOMAIN argv
           /\ \A i, j \in Turns(HandedBy(order), key) : i < j => order[i] < order[j]
           /\ \A i, j \in Turns(HandedBy(order), key) : i <= j => order[i] <= order[j]
<1> DEFINE words == HandedBy(order)
<1>1. order \in Orders(argv) /\ rest = <<>>
  BY DEF AllHanded
<1>2. Len(argv) \in Nat /\ DOMAIN argv = 1 .. Len(argv) /\ Handed = Len(argv)
  <2>1. Len(rest) = 0
    BY <1>1
  <2> QED BY <2>1, WordsByPlace DEF Handed
<1>3. \A i \in DOMAIN argv : words[i] = argv[order[i]]
  BY <1>1, <1>2, HandedByTurn
<1>4. Turns(words, key) = {i \in DOMAIN argv : argv[order[i]].key = key}
  BY <1>2, <1>3 DEF Turns
<1>5. Given(key) = {order[i] : i \in Turns(words, key)}
  <2>1. ASSUME NEW k \in Given(key) PROVE \E i \in Turns(words, key) : k = order[i]
    <3>1. k \in DOMAIN argv /\ argv[k].key = key
      BY DEF Given
    <3>2. PICK i \in DOMAIN argv : order[i] = k
      BY <1>1, <3>1, OrderFacts
    <3> QED BY <1>4, <3>1, <3>2
  <2>2. ASSUME NEW i \in Turns(words, key) PROVE order[i] \in Given(key)
    BY <1>1, <1>4, OrderFacts DEF Given
  <2> HIDE DEF words
  <2> QED BY <2>1, <2>2
<1>6. ASSUME NEW i \in Turns(words, key), NEW j \in Turns(words, key), i < j
      PROVE  order[i] < order[j]
  BY <1>1, <1>4, <1>6, OrderFacts
<1>7. Given(key) \in SUBSET Int
  BY <1>2 DEF Given
<1>8. ASSUME NEW i \in Turns(words, key), NEW j \in Turns(words, key), i <= j
      PROVE  order[i] <= order[j]
  <2>1. i \in DOMAIN argv /\ order[i] \in DOMAIN argv /\ j \in DOMAIN argv
    BY <1>1, <1>4, OrderFacts
  <2>2. CASE i = j
    BY <1>2, <2>1, <2>2
  <2>3. CASE i < j
    <3>1. order[j] \in DOMAIN argv /\ order[i] < order[j]
      BY <1>1, <1>6, <2>1, <2>3, OrderFacts
    <3> QED BY <1>2, <2>1, <3>1
  <2> QED BY <1>2, <1>8, <2>1, <2>2, <2>3
<1> QED BY <1>4, <1>5, <1>6, <1>7, <1>8

\* The text by itself that came first, and the one after it.
LEMMA PositionsFound ==
    ASSUME TypeOK, NEW order, AllHanded(order)
    PROVE  /\ arg_num = 0 => Positions = {} /\ Cardinality(Positions) = 0
           /\ arg_num = 1 => /\ Positions = {order[Handed]} /\ Cardinality(Positions) = 1
                             /\ Min(Positions) = order[Handed]
           /\ arg_num = 2 => /\ Positions # {} /\ Cardinality(Positions) = 2
                             /\ Min(Positions) = order[Handed - 1]
                             /\ Min(Positions \ {Min(Positions)}) = order[Handed]
<1> DEFINE words == HandedBy(order)
           T == Turns(words, "ARG")
<1>1. /\ Positions = {order[i] : i \in T} /\ Positions \in SUBSET Int
      /\ \A i, j \in T : i < j => order[i] < order[j]
  BY GivenByTurns DEF Positions
<1>2. T = Handed - arg_num + 1 .. Handed /\ Handed \in Nat /\ arg_num \in Nat
      /\ arg_num <= Handed
  BY DEF AllHanded, HandedInOrder, TypeOK
<1> HIDE DEF T
<1>3. ASSUME arg_num = 0
      PROVE  Positions = {} /\ Cardinality(Positions) = 0
  <2>1. T = {}
    BY <1>2, <1>3
  <2> QED BY <1>1, <2>1, FS_EmptySet
<1>4. ASSUME arg_num = 1
      PROVE  /\ Positions = {order[Handed]} /\ Cardinality(Positions) = 1
             /\ Min(Positions) = order[Handed]
  <2>1. T = {Handed}
    BY <1>2, <1>4
  <2>2. Positions = {order[Handed]}
    BY <1>1, <2>1
  <2>3. order[Handed] \in Positions /\ order[Handed] \in Int
    BY <1>1, <2>2
  <2>4. \A x \in Positions : order[Handed] <= x
    BY <2>2, <2>3
  <2>5. Min(Positions) = order[Handed]
    BY <1>1, <2>3, <2>4, MinIs
  <2> QED BY <2>2, <2>5, FS_Singleton
<1>5. ASSUME arg_num = 2
      PROVE  /\ Positions # {} /\ Cardinality(Positions) = 2
             /\ Min(Positions) = order[Handed - 1]
             /\ Min(Positions \ {Min(Positions)}) = order[Handed]
  <2> DEFINE x == order[Handed - 1]
             y == order[Handed]
  <2>1. T = {Handed - 1, Handed} /\ Handed - 1 < Handed
    BY <1>2, <1>5
  <2>2. Positions = {x, y} /\ x < y
    BY <1>1, <2>1
  <2>3. x \in Int /\ y \in Int
    BY <1>1, <2>2
  <2> HIDE DEF x, y
  <2>4. Min(Positions) = x
    <3>1. x \in Positions /\ \A z \in Positions : x <= z
      BY <2>2, <2>3
    <3> QED BY <1>1, <3>1, MinIs
  <2>5. Positions \ {x} = {y}
    BY <2>2, <2>3
  <2>6. Min({y}) = y
    <3>1. {y} \in SUBSET Int /\ y \in {y} /\ \A z \in {y} : y <= z
      BY <2>3
    <3> QED BY <3>1, MinIs
  <2>7. Cardinality(Positions) = 2
    <3>1. IsFiniteSet({x}) /\ Cardinality({x}) = 1 /\ y \notin {x}
      BY <2>2, <2>3, FS_Singleton
    <3>2. Cardinality({x} \cup {y}) = 2
      BY <3>1, FS_AddElement
    <3>3. Positions = {x} \cup {y}
      BY <2>2
    <3> QED BY <3>2, <3>3
  <2> QED BY <2>2, <2>4, <2>5, <2>6, <2>7 DEF x, y
<1> QED BY <1>3, <1>4, <1>5

\* An operation's last option is the last one in the command line.
LEMMA LastGiven ==
    ASSUME TypeOK, NEW order, AllHanded(order), NEW key,
           NEW last \in Turns(HandedBy(order), key),
           \A i \in Turns(HandedBy(order), key) : i <= last
    PROVE  Given(key) # {} /\ Max(Given(key)) = order[last]
<1>1. /\ Given(key) = {order[i] : i \in Turns(HandedBy(order), key)}
      /\ Given(key) \in SUBSET Int
      /\ \A i \in Turns(HandedBy(order), key) : order[i] <= order[last]
  BY GivenByTurns
<1>2. order[last] \in Given(key) /\ \A x \in Given(key) : x <= order[last]
  BY <1>1
<1> QED BY <1>1, <1>2, MaxIs

\* The word that is handed over in a turn is the one in its place.
LEMMA WordOfTurn ==
    ASSUME TypeOK, NEW order, AllHanded(order), NEW i \in 1 .. Handed
    PROVE  HandedBy(order)[i] = argv[order[i]] /\ Handed = Len(argv)
<1>1. order \in Orders(argv) /\ Len(rest) = 0
  BY DEF AllHanded
<1>2. Handed = Len(argv)
  BY <1>1, WordsByPlace DEF Handed
<1> QED BY <1>1, <1>2, HandedByTurn

\* The port is the one asked for.
LEMMA PortIsAsked ==
    ASSUME TypeOK, NEW order, AllHanded(order)
    PROVE  args.port = PortAsked
<1> DEFINE words == HandedBy(order)
           given == Turns(words, "p")
<1>1. /\ args.port_set <=> given # {} \/ arg_num > 0
      /\ given = {} \/ arg_num = 0
      /\ ~args.port_set => args.port = FTP_PORT
      /\ given # {} => \E last \in given : /\ \A i \in given : i <= last
                                           /\ args.port = ATOI[words[last].text]
      /\ arg_num > 0 => args.port = ATOI[words[Handed - arg_num + 1].text]
  BY DEF AllHanded, PortSoFar
<1>2. /\ arg_num \in {0, 1, 2} /\ arg_num <= Handed /\ Handed \in Nat
      /\ given \subseteq 1 .. Handed
  BY DEF AllHanded, HandedInOrder, TypeOK, Turns
<1>3. Given("p") = {order[i] : i \in given}
  BY GivenByTurns
<1>4. CASE given # {}
  <2>1. PICK last \in given : /\ \A i \in given : i <= last
                              /\ args.port = ATOI[words[last].text]
    BY <1>1, <1>4
  <2>2. Given("p") # {} /\ Max(Given("p")) = order[last]
    BY <2>1, LastGiven
  <2>3. words[last] = argv[order[last]]
    BY <1>2, WordOfTurn
  <2> HIDE DEF words, given
  <2> QED BY <2>1, <2>2, <2>3 DEF PortAsked
<1>5. CASE given = {} /\ arg_num > 0
  <2>1. Given("p") = {}
    BY <1>3, <1>5
  <2>2. Positions # {} /\ Min(Positions) = order[Handed - arg_num + 1]
        /\ Handed - arg_num + 1 \in 1 .. Handed
    <3>1. CASE arg_num = 1
      <4>1. Handed - arg_num + 1 = Handed /\ Handed \in 1 .. Handed
        BY <1>2, <3>1
      <4> QED BY <3>1, <4>1, PositionsFound
    <3>2. CASE arg_num = 2
      <4>1. Handed - arg_num + 1 = Handed - 1 /\ Handed - 1 \in 1 .. Handed
        BY <1>2, <3>2
      <4> QED BY <3>2, <4>1, PositionsFound
    <3> QED BY <1>2, <1>5, <3>1, <3>2
  <2>3. words[Handed - arg_num + 1] = argv[order[Handed - arg_num + 1]]
    BY <2>2, WordOfTurn
  <2>4. args.port = ATOI[words[Handed - arg_num + 1].text]
    BY <1>1, <1>5
  <2> HIDE DEF words, given
  <2> QED BY <2>1, <2>2, <2>3, <2>4 DEF PortAsked
<1>6. CASE given = {} /\ ~(arg_num > 0)
  <2>1. Given("p") = {}
    BY <1>3, <1>6
  <2>2. Positions = {}
    BY <1>2, <1>6, PositionsFound
  <2>3. args.port = FTP_PORT
    BY <1>1, <1>6
  <2> QED BY <2>1, <2>2, <2>3 DEF PortAsked
<1> QED BY <1>4, <1>5, <1>6

\* And so is the address.
LEMMA AddressIsAsked ==
    ASSUME TypeOK, NEW order, AllHanded(order)
    PROVE  args.address = AddressAsked
<1> DEFINE words == HandedBy(order)
           given == Turns(words, "a")
<1>1. /\ args.address_set <=> given # {} \/ arg_num > 1
      /\ given = {} \/ arg_num < 2
      /\ ~args.address_set => args.address = LOCALHOST
      /\ given # {} => \E last \in given : /\ \A i \in given : i <= last
                                           /\ args.address = STRNCPY[words[last].text]
      /\ arg_num > 1 => args.address = STRNCPY[words[Handed].text]
  BY DEF AllHanded, AddressSoFar
<1>2. /\ arg_num \in {0, 1, 2} /\ arg_num <= Handed /\ Handed \in Nat
      /\ given \subseteq 1 .. Handed
  BY DEF AllHanded, HandedInOrder, TypeOK, Turns
<1>3. Given("a") = {order[i] : i \in given}
  BY GivenByTurns
<1>4. CASE given # {}
  <2>1. PICK last \in given : /\ \A i \in given : i <= last
                              /\ args.address = STRNCPY[words[last].text]
    BY <1>1, <1>4
  <2>2. Given("a") # {} /\ Max(Given("a")) = order[last]
    BY <2>1, LastGiven
  <2>3. words[last] = argv[order[last]]
    BY <1>2, WordOfTurn
  <2> HIDE DEF words, given
  <2> QED BY <2>1, <2>2, <2>3 DEF AddressAsked
<1>5. CASE given = {} /\ arg_num > 1
  <2>1. Given("a") = {} /\ arg_num = 2
    BY <1>2, <1>3, <1>5
  <2>2. Cardinality(Positions) > 1 /\ Min(Positions \ {Min(Positions)}) = order[Handed]
    BY <2>1, PositionsFound
  <2>3. words[Handed] = argv[order[Handed]]
    <3>1. Handed \in 1 .. Handed
      BY <1>2, <2>1
    <3> QED BY <3>1, WordOfTurn
  <2>4. args.address = STRNCPY[words[Handed].text]
    BY <1>1, <1>5
  <2> HIDE DEF words, given
  <2> QED BY <2>1, <2>2, <2>3, <2>4 DEF AddressAsked
<1>6. CASE given = {} /\ ~(arg_num > 1)
  <2>1. Given("a") = {}
    BY <1>3, <1>6
  <2>2. ~(Cardinality(Positions) > 1)
    BY <1>2, <1>6, PositionsFound
  <2>3. args.address = LOCALHOST
    BY <1>1, <1>6
  <2> QED BY <2>1, <2>2, <2>3 DEF AddressAsked
<1> QED BY <1>4, <1>5, <1>6

\* A command line all of which argp could hand over is not misused.
LEMMA HandedIsProper ==
    ASSUME TypeOK, NEW order, AllHanded(order)
    PROVE  ~Misused
<1> DEFINE words == HandedBy(order)
<1>1. /\ Turns(words, "?") = {}
      /\ Turns(words, "p") = {} \/ arg_num = 0
      /\ Turns(words, "a") = {} \/ arg_num < 2
      /\ arg_num \in {0, 1, 2}
  BY DEF AllHanded, HandedInOrder, PortSoFar, AddressSoFar, TypeOK
<1>2. /\ Given("?") = {order[i] : i \in Turns(words, "?")}
      /\ Given("p") = {order[i] : i \in Turns(words, "p")}
      /\ Given("a") = {order[i] : i \in Turns(words, "a")}
  BY GivenByTurns
<1>3. Given("?") = {}
  BY <1>1, <1>2
<1>4. Positions = {} \/ Given("p") = {}
  BY <1>1, <1>2, PositionsFound
<1>5. ~(Cardinality(Positions) > 1) \/ Given("a") = {}
  BY <1>1, <1>2, PositionsFound
<1>6. ~(Cardinality(Positions) > 2)
  BY <1>1, PositionsFound
<1> QED BY <1>3, <1>4, <1>5, <1>6 DEF Misused

-----------------------------------------------------------------------------
(* The steps of argp *)

\* In the order of the turns, the texts by themselves come last.
PlainLast(words) ==
    \A i, j \in 1 .. Len(argv) : i < j /\ words[i].key = "ARG" => words[j].key = "ARG"

\* The next word is handed over, and what has been stays as it was.
LEMMA OneHanded ==
    ASSUME TypeOK, NEW words, HandedInOrder(words), rest # <<>>, Taken
    PROVE  /\ Handed \in Nat /\ Handed + 1 \in 1 .. Len(argv) /\ Handed' = Handed + 1
           /\ rest[1] = words[Handed + 1] /\ rest[1] \in Words
           /\ rest' \in Seq(Words)
           /\ \A i \in DOMAIN rest' : rest'[i] = words[Handed' + i]
<1>1. /\ rest \in Seq(Words) /\ argv' = argv /\ rest' = Tail(rest)
      /\ Handed \in Nat /\ \A i \in DOMAIN rest : rest[i] = words[Handed + i]
      /\ Len(argv) \in Nat /\ Len(rest) \in Nat /\ DOMAIN rest = 1 .. Len(rest)
  BY WordsByPlace DEF TypeOK, HandedInOrder, Taken, command
<1>2. /\ rest' \in Seq(Words) /\ Len(rest') = Len(rest) - 1 /\ Len(rest) >= 1
      /\ \A i \in 1 .. Len(rest') : rest'[i] = rest[i + 1]
  BY <1>1, HeadTailProperties, EmptySeq
<1>3. Handed' = Handed + 1 /\ Handed + 1 \in 1 .. Len(argv)
  BY <1>1, <1>2 DEF Handed
<1>4. rest[1] = words[Handed + 1] /\ rest[1] \in Words
  BY <1>1, <1>2, WordsByPlace
<1>5. ASSUME NEW i \in DOMAIN rest' PROVE rest'[i] = words[Handed' + i]
  <2>1. i \in 1 .. Len(rest')
    BY <1>2, LenProperties
  <2>2. i + 1 \in DOMAIN rest /\ Handed + (i + 1) = Handed' + i
    <3>1. i \in Nat /\ i >= 1 /\ i <= Len(rest) - 1
      BY <1>1, <1>2, <2>1
    <3>2. i + 1 \in 1 .. Len(rest)
      BY <1>1, <3>1
    <3> QED BY <1>1, <1>3, <3>1, <3>2
  <2>3. rest'[i] = rest[i + 1] /\ rest[i + 1] = words[Handed + (i + 1)]
    BY <1>1, <1>2, <2>1, <2>2
  <2> QED BY <2>2, <2>3
<1> QED BY <1>1, <1>2, <1>3, <1>4, <1>5

\* Its turn is one of those with its key.
LEMMA TurnsOfKey ==
    ASSUME TypeOK, NEW words, HandedInOrder(words), rest # <<>>, Taken, NEW key
    PROVE  /\ rest[1].key = key => Turns(words, key)' = Turns(words, key) \cup {Handed + 1}
           /\ rest[1].key # key => Turns(words, key)' = Turns(words, key)
<1>1. /\ Handed \in Nat /\ Handed' = Handed + 1 /\ rest[1] = words[Handed + 1]
  BY OneHanded
<1> DEFINE t == Handed
<1>2. Turns(words, key)' = {i \in 1 .. Handed' : words[i].key = key}
  BY DEF Turns
<1>3. Turns(words, key)' = {i \in 1 .. t + 1 : words[i].key = key}
  BY <1>1, <1>2
<1>4. Turns(words, key) = {i \in 1 .. t : words[i].key = key}
  BY DEF Turns
<1>5. t \in Nat
  BY <1>1
<1> HIDE DEF t
<1>6. \A i : i \in 1 .. t + 1 <=> i \in 1 .. t \/ i = t + 1
  BY <1>5
<1>7. /\ words[t + 1].key = key => Turns(words, key)' = Turns(words, key) \cup {t + 1}
      /\ words[t + 1].key # key => Turns(words, key)' = Turns(words, key)
  BY <1>3, <1>4, <1>6
<1> QED BY <1>1, <1>7 DEF t

\* An option is handed over: no text has been, or it would come before it.
LEMMA OptionHanded ==
    ASSUME TypeOK, NEW words, HandedInOrder(words), PlainLast(words),
           rest # <<>>, Taken, arg_num' = arg_num,
           rest[1].key # "ARG", rest[1].key # "?"
    PROVE  HandedInOrder(words)' /\ arg_num = 0
<1>1. /\ Handed \in Nat /\ Handed + 1 \in 1 .. Len(argv) /\ Handed' = Handed + 1
      /\ rest[1] = words[Handed + 1] /\ Len(argv) \in Nat
      /\ \A i \in DOMAIN rest' : rest'[i] = words[Handed' + i]
  BY OneHanded, WordsByPlace
<1>2. Turns(words, "ARG")' = Turns(words, "ARG") /\ Turns(words, "?")' = Turns(words, "?")
  BY <1>1, TurnsOfKey
<1>3. /\ Turns(words, "ARG") = Handed - arg_num + 1 .. Handed
      /\ Turns(words, "?") = {} /\ arg_num \in 0 .. 2 /\ arg_num <= Handed
  BY DEF HandedInOrder, TypeOK
<1>4. arg_num = 0
  <2> SUFFICES ASSUME arg_num # 0 PROVE FALSE
    OBVIOUS
  <2>1. Handed \in Turns(words, "ARG") /\ Handed \in 1 .. Len(argv) /\ Handed < Handed + 1
    BY <1>1, <1>3
  <2>2. words[Handed].key = "ARG"
    BY <2>1 DEF Turns
  <2>3. words[Handed + 1].key = "ARG"
    BY <1>1, <2>1, <2>2 DEF PlainLast
  <2> QED BY <1>1, <2>3
<1>5. Handed' - arg_num' + 1 .. Handed' = {} /\ Turns(words, "ARG") = {}
  BY <1>1, <1>3, <1>4
<1>6. Handed' \in Nat /\ arg_num' <= Handed'
  BY <1>1, <1>3
<1> QED BY <1>1, <1>2, <1>3, <1>4, <1>5, <1>6 DEF HandedInOrder

\* A text is handed over: it is one more of those at the end.
LEMMA TextHanded ==
    ASSUME TypeOK, NEW words, HandedInOrder(words),
           rest # <<>>, Taken, arg_num' = arg_num + 1, rest[1].key = "ARG"
    PROVE  HandedInOrder(words)'
<1>1. /\ Handed \in Nat /\ Handed' = Handed + 1 /\ rest[1] = words[Handed + 1]
      /\ \A i \in DOMAIN rest' : rest'[i] = words[Handed' + i]
  BY OneHanded
<1>2. /\ Turns(words, "ARG")' = Turns(words, "ARG") \cup {Handed + 1}
      /\ Turns(words, "?")' = Turns(words, "?")
  BY <1>1, TurnsOfKey
<1>3. /\ Turns(words, "ARG") = Handed - arg_num + 1 .. Handed
      /\ Turns(words, "?") = {} /\ arg_num \in 0 .. 2 /\ arg_num <= Handed
  BY DEF HandedInOrder, TypeOK
<1>4. Turns(words, "ARG")' = Handed' - arg_num' + 1 .. Handed'
  <2> DEFINE t == Handed
             a == arg_num
  <2>1. t \in Nat /\ a \in 0 .. 2 /\ a <= t
    BY <1>1, <1>3
  <2> HIDE DEF t, a
  <2>2. (t - a + 1 .. t) \cup {t + 1} = (t + 1) - (a + 1) + 1 .. t + 1
    BY <2>1
  <2> QED BY <1>1, <1>2, <1>3, <2>2 DEF t, a
<1>5. Handed' \in Nat /\ arg_num' <= Handed'
  BY <1>1, <1>3
<1> QED BY <1>1, <1>2, <1>3, <1>4, <1>5 DEF HandedInOrder

\* A step that hands over another key leaves the port as it is.
LEMMA PortKept ==
    ASSUME TypeOK, NEW words, HandedInOrder(words), PortSoFar(words),
           rest # <<>>, Taken, rest[1].key # "p",
           args'.port = args.port, args'.port_set = args.port_set,
           \/ arg_num = 0 /\ arg_num' = 0
           \/ arg_num = 1 /\ arg_num' = 2
    PROVE  PortSoFar(words)'
<1>1. Turns(words, "p")' = Turns(words, "p")
  BY TurnsOfKey
<1>2. Handed \in Nat /\ Handed' = Handed + 1
  BY OneHanded
<1>3. arg_num = 1 => Handed' - arg_num' + 1 = Handed - arg_num + 1
  BY <1>2
<1>4. (arg_num > 0) = (arg_num' > 0)
  OBVIOUS
<1> QED BY <1>1, <1>3, <1>4 DEF PortSoFar

\* And the address.
LEMMA AddressKept ==
    ASSUME TypeOK, NEW words, HandedInOrder(words), AddressSoFar(words),
           rest # <<>>, Taken, rest[1].key # "a",
           args'.address = args.address, args'.address_set = args.address_set,
           arg_num \in {0, 1}, arg_num' \in {0, 1}
    PROVE  AddressSoFar(words)'
<1>1. Turns(words, "a")' = Turns(words, "a")
  BY TurnsOfKey
<1> QED BY <1>1 DEF AddressSoFar

\* A -p gives the port, as the last so far.
LEMMA OptPortKeeps ==
    ASSUME TypeOK, NEW words, HandedInOrder(words), PlainLast(words),
           PortSoFar(words), AddressSoFar(words), OptPort
    PROVE  HandedInOrder(words)' /\ PortSoFar(words)' /\ AddressSoFar(words)'
<1>1. /\ rest # <<>> /\ rest[1].key = "p" /\ Taken /\ arg_num' = arg_num
      /\ args' = [args EXCEPT !.port = ATOI[rest[1].text], !.port_set = TRUE]
  BY DEF OptPort, Hands, SetPort
<1>2. HandedInOrder(words)' /\ arg_num = 0
  BY <1>1, OptionHanded
<1>3. /\ args'.port = ATOI[rest[1].text] /\ args'.port_set = TRUE
      /\ args'.address = args.address /\ args'.address_set = args.address_set
  BY <1>1 DEF TypeOK
<1>4. AddressSoFar(words)'
  BY <1>1, <1>2, <1>3, AddressKept
<1>5. /\ Turns(words, "p")' = Turns(words, "p") \cup {Handed + 1}
      /\ rest[1] = words[Handed + 1] /\ Handed \in Nat
  BY <1>1, OneHanded, TurnsOfKey
<1>6. /\ Handed + 1 \in Turns(words, "p")'
      /\ \A i \in Turns(words, "p")' : i <= Handed + 1
      /\ args'.port = ATOI[words[Handed + 1].text]
  BY <1>3, <1>5 DEF Turns
<1>7. PortSoFar(words)'
  BY <1>1, <1>2, <1>3, <1>6 DEF PortSoFar
<1> QED BY <1>2, <1>4, <1>7

\* A -a gives the address.
LEMMA OptAddressKeeps ==
    ASSUME TypeOK, NEW words, HandedInOrder(words), PlainLast(words),
           PortSoFar(words), AddressSoFar(words), OptAddress
    PROVE  HandedInOrder(words)' /\ PortSoFar(words)' /\ AddressSoFar(words)'
<1>1. /\ rest # <<>> /\ rest[1].key = "a" /\ Taken /\ arg_num' = arg_num
      /\ args' = [args EXCEPT !.address = STRNCPY[rest[1].text], !.address_set = TRUE]
  BY DEF OptAddress, Hands, SetAddress
<1>2. HandedInOrder(words)' /\ arg_num = 0
  BY <1>1, OptionHanded
<1>3. /\ args'.address = STRNCPY[rest[1].text] /\ args'.address_set = TRUE
      /\ args'.port = args.port /\ args'.port_set = args.port_set
  BY <1>1 DEF TypeOK
<1>4. PortSoFar(words)'
  BY <1>1, <1>2, <1>3, PortKept
<1>5. /\ Turns(words, "a")' = Turns(words, "a") \cup {Handed + 1}
      /\ rest[1] = words[Handed + 1] /\ Handed \in Nat
  BY <1>1, OneHanded, TurnsOfKey
<1>6. /\ Handed + 1 \in Turns(words, "a")'
      /\ \A i \in Turns(words, "a")' : i <= Handed + 1
      /\ args'.address = STRNCPY[words[Handed + 1].text]
  BY <1>3, <1>5 DEF Turns
<1>7. AddressSoFar(words)'
  BY <1>1, <1>2, <1>3, <1>6 DEF AddressSoFar
<1> QED BY <1>2, <1>4, <1>7

\* The first text gives the port.
LEMMA ArgPortKeeps ==
    ASSUME TypeOK, NEW words, HandedInOrder(words),
           PortSoFar(words), AddressSoFar(words), ArgPort
    PROVE  HandedInOrder(words)' /\ PortSoFar(words)' /\ AddressSoFar(words)'
<1>1. /\ rest # <<>> /\ rest[1].key = "ARG" /\ Taken
      /\ arg_num = 0 /\ arg_num' = 1 /\ ~args.port_set
      /\ args' = [args EXCEPT !.port = ATOI[rest[1].text], !.port_set = TRUE]
  BY DEF ArgPort, Hands, SetPort
<1>2. HandedInOrder(words)'
  BY <1>1, TextHanded
<1>3. /\ args'.port = ATOI[rest[1].text] /\ args'.port_set = TRUE
      /\ args'.address = args.address /\ args'.address_set = args.address_set
  BY <1>1 DEF TypeOK
<1>4. AddressSoFar(words)'
  BY <1>1, <1>3, AddressKept
<1>5. /\ Turns(words, "p")' = Turns(words, "p") /\ Handed' = Handed + 1
      /\ rest[1] = words[Handed + 1] /\ Handed \in Nat
  BY <1>1, OneHanded, TurnsOfKey
<1>6. Turns(words, "p")' = {}
  BY <1>1, <1>5 DEF PortSoFar
<1>7. args'.port = ATOI[words[Handed' - arg_num' + 1].text]
  <2>1. Handed' - arg_num' + 1 = Handed + 1
    BY <1>1, <1>5
  <2> QED BY <1>3, <1>5, <2>1
<1>8. PortSoFar(words)'
  BY <1>1, <1>3, <1>6, <1>7 DEF PortSoFar
<1> QED BY <1>2, <1>4, <1>8

\* And the second the address.
LEMMA ArgAddressKeeps ==
    ASSUME TypeOK, NEW words, HandedInOrder(words),
           PortSoFar(words), AddressSoFar(words), ArgAddress
    PROVE  HandedInOrder(words)' /\ PortSoFar(words)' /\ AddressSoFar(words)'
<1>1. /\ rest # <<>> /\ rest[1].key = "ARG" /\ Taken
      /\ arg_num = 1 /\ arg_num' = 2 /\ ~args.address_set
      /\ args' = [args EXCEPT !.address = STRNCPY[rest[1].text], !.address_set = TRUE]
  BY DEF ArgAddress, Hands, SetAddress
<1>2. HandedInOrder(words)'
  BY <1>1, TextHanded
<1>3. /\ args'.address = STRNCPY[rest[1].text] /\ args'.address_set = TRUE
      /\ args'.port = args.port /\ args'.port_set = args.port_set
  BY <1>1 DEF TypeOK
<1>4. PortSoFar(words)'
  BY <1>1, <1>3, PortKept
<1>5. /\ Turns(words, "a")' = Turns(words, "a") /\ Handed' = Handed + 1
      /\ rest[1] = words[Handed + 1]
  BY <1>1, OneHanded, TurnsOfKey
<1>6. Turns(words, "a")' = {}
  BY <1>1, <1>5 DEF AddressSoFar
<1>7. args'.address = STRNCPY[words[Handed'].text]
  BY <1>3, <1>5
<1>8. AddressSoFar(words)'
  BY <1>1, <1>3, <1>6, <1>7 DEF AddressSoFar
<1> QED BY <1>2, <1>4, <1>8

\* Distinct places of texts count.
LEMMA TwoPlaces ==
    ASSUME TypeOK, NEW x \in Positions, NEW y \in Positions, x # y
    PROVE  /\ Cardinality(Positions) > 1 /\ Cardinality(Positions) \in Nat
           /\ \A z \in Positions : z # x /\ z # y => Cardinality(Positions) > 2
<1>1. IsFiniteSet(Positions) /\ Cardinality(Positions) \in Nat
  <2>1. IsFiniteSet(1 .. Len(argv)) /\ Positions \in SUBSET (1 .. Len(argv))
    BY FS_Interval, WordsByPlace DEF Positions, Given
  <2> QED BY <2>1, FS_Subset, FS_CardinalityType
<1>2. IsFiniteSet({x} \cup {y}) /\ Cardinality({x} \cup {y}) = 2
  <2>1. IsFiniteSet({x}) /\ Cardinality({x}) = 1 /\ y \notin {x}
    BY FS_Singleton
  <2> QED BY <2>1, FS_AddElement
<1>3. Cardinality(Positions) > 1
  <2>1. {x} \cup {y} \in SUBSET Positions
    OBVIOUS
  <2>2. Cardinality({x} \cup {y}) <= Cardinality(Positions)
    BY <1>1, <2>1, FS_Subset
  <2> QED BY <1>1, <1>2, <2>2
<1>4. ASSUME NEW z \in Positions, z # x, z # y PROVE Cardinality(Positions) > 2
  <2> DEFINE S == {x} \cup {y}
  <2>1. S \cup {z} \in SUBSET Positions /\ z \notin S
    BY <1>4
  <2>2. IsFiniteSet(S) /\ Cardinality(S) = 2
    BY <1>2
  <2> HIDE DEF S
  <2>3. Cardinality(S \cup {z}) = 3
    BY <2>1, <2>2, FS_AddElement
  <2>4. Cardinality(S \cup {z}) <= Cardinality(Positions)
    BY <1>1, <2>1, FS_Subset
  <2> QED BY <1>1, <2>3, <2>4
<1> QED BY <1>1, <1>3, <1>4

\* The words in the order they are handed over come by an order.
LEMMA PermutedByOrder ==
    ASSUME NEW words \in Permuted(argv)
    PROVE  \E order \in Orders(argv) : words = HandedBy(order)
BY DEF Permuted, HandedBy

\* So they are words, and the texts by themselves the last.
LEMMA PermutedWords ==
    ASSUME TypeOK, NEW words \in Permuted(argv)
    PROVE  PlainLast(words) /\ words \in Seq(Words) /\ Len(words) = Len(argv)
<1>1. PICK order \in Orders(argv) : words = HandedBy(order)
  BY PermutedByOrder
<1>2. /\ DOMAIN words = 1 .. Len(argv) /\ Len(argv) \in Nat
      /\ \A i \in 1 .. Len(argv) : words[i] \in Words
      /\ PlainLast(words)
  BY <1>1, HandedByTurn DEF PlainLast
<1>3. words \in [1 .. Len(argv) -> Words]
  BY <1>1, <1>2 DEF HandedBy
<1>4. words \in Seq(Words)
  BY <1>2, <1>3, SeqDef
<1>5. Len(words) \in Nat /\ 1 .. Len(words) = 1 .. Len(argv)
  BY <1>2, <1>4, LenProperties
<1> QED BY <1>2, <1>4, <1>5

\* A word whose turn has come or comes next is in the command line.
LEMMA TurnIsGiven ==
    ASSUME TypeOK, NEW order \in Orders(argv), NEW i \in 1 .. Len(argv)
    PROVE  order[i] \in Given(HandedBy(order)[i].key)
<1>1. i \in DOMAIN argv /\ order[i] \in DOMAIN argv
  BY WordsByPlace, OrderFacts
<1>2. HandedBy(order)[i] = argv[order[i]]
  BY HandedByTurn
<1> QED BY <1>1, <1>2 DEF Given

\* A text there is no place for is one too many.
LEMMA TooManyIsMisuse ==
    ASSUME TypeOK, NEW words \in Permuted(argv), HandedInOrder(words),
           PortSoFar(words), AddressSoFar(words), TooManyArgs
    PROVE  Misused
<1>1. PICK order \in Orders(argv) : words = HandedBy(order)
  BY PermutedByOrder
<1>2. /\ rest # <<>> /\ rest[1].key = "ARG"
      /\ ~(arg_num = 0 /\ ~args.port_set) /\ ~(arg_num = 1 /\ ~args.address_set)
  BY DEF TooManyArgs, Hands
<1>3. /\ Handed \in Nat /\ Handed + 1 \in 1 .. Len(argv) /\ Len(argv) \in Nat
      /\ rest[1] = words[Handed + 1]
  <2>1. Len(rest) \in Nat /\ Len(rest) >= 1 /\ 1 \in DOMAIN rest
    BY <1>2, WordsByPlace, EmptySeq DEF TypeOK
  <2> QED BY <2>1, WordsByPlace DEF HandedInOrder, Handed
<1>4. /\ Turns(words, "ARG") = Handed - arg_num + 1 .. Handed
      /\ arg_num \in {0, 1, 2} /\ arg_num <= Handed
  BY DEF HandedInOrder, TypeOK
<1>5. \A i \in 1 .. Len(argv) : words[i].key = "ARG" => order[i] \in Positions
  BY <1>1, TurnIsGiven DEF Positions
<1>6. order[Handed + 1] \in Positions
  BY <1>2, <1>3, <1>5
<1>7. Positions \in SUBSET Int
  BY WordsByPlace DEF Positions, Given
<1>8. \A i \in Turns(words, "ARG") : /\ order[i] \in Positions
                                     /\ order[i] # order[Handed + 1]
  <2> SUFFICES ASSUME NEW i \in Turns(words, "ARG")
               PROVE  order[i] \in Positions /\ order[i] # order[Handed + 1]
    OBVIOUS
  <2>1. i \in 1 .. Len(argv) /\ i < Handed + 1 /\ words[i].key = "ARG"
    BY <1>3 DEF Turns
  <2>2. argv[order[i]].key = "ARG" /\ argv[order[Handed + 1]].key = "ARG"
    BY <1>1, <1>2, <1>3, <2>1, HandedByTurn
  <2>3. i \in DOMAIN argv /\ Handed + 1 \in DOMAIN argv
    BY <1>3, <2>1, WordsByPlace
  <2>4. order[i] < order[Handed + 1]
    BY <2>1, <2>2, <2>3, OrderFacts
  <2>5. order[i] \in Int /\ order[Handed + 1] \in Int /\ order[i] \in Positions
    BY <1>5, <1>6, <1>7, <2>1
  <2> QED BY <2>4, <2>5
<1>9. CASE arg_num = 0
  <2>1. PICK i \in Turns(words, "p") : TRUE
    BY <1>2, <1>9 DEF PortSoFar
  <2>2. i \in 1 .. Len(argv) /\ words[i].key = "p"
    BY <1>3, <2>1 DEF Turns
  <2>3. Given("p") # {}
    BY <1>1, <2>2, TurnIsGiven
  <2> QED BY <1>6, <2>3 DEF Misused
<1>10. CASE arg_num = 1
  <2>1. PICK i \in Turns(words, "a") : TRUE
    BY <1>2, <1>10 DEF AddressSoFar
  <2>2. i \in 1 .. Len(argv) /\ words[i].key = "a"
    BY <1>3, <2>1 DEF Turns
  <2>3. Given("a") # {}
    BY <1>1, <2>2, TurnIsGiven
  <2>4. Handed \in Turns(words, "ARG")
    BY <1>3, <1>4, <1>10
  <2>5. order[Handed] \in Positions /\ order[Handed] # order[Handed + 1]
    BY <1>8, <2>4
  <2>6. Cardinality(Positions) > 1
    BY <1>6, <2>5, TwoPlaces
  <2> QED BY <2>3, <2>6 DEF Misused
<1>11. CASE arg_num = 2
  <2>1. Handed \in Turns(words, "ARG") /\ Handed - 1 \in Turns(words, "ARG")
    BY <1>3, <1>4, <1>11
  <2>2. /\ order[Handed] \in Positions /\ order[Handed] # order[Handed + 1]
        /\ order[Handed - 1] \in Positions /\ order[Handed - 1] # order[Handed + 1]
    BY <1>8, <2>1
  <2>3. order[Handed - 1] < order[Handed]
    <3>1. Handed \in 1 .. Len(argv) /\ Handed - 1 \in 1 .. Len(argv) /\ Handed - 1 < Handed
      BY <1>3, <1>4, <1>11
    <3>2. words[Handed].key = "ARG" /\ words[Handed - 1].key = "ARG"
      BY <2>1 DEF Turns
    <3>3. argv[order[Handed]].key = "ARG" /\ argv[order[Handed - 1]].key = "ARG"
      BY <1>1, <3>1, <3>2, HandedByTurn
    <3>4. Handed \in DOMAIN argv /\ Handed - 1 \in DOMAIN argv
      BY <3>1, WordsByPlace
    <3> QED BY <3>1, <3>3, <3>4, OrderFacts
  <2>4. order[Handed - 1] # order[Handed]
    <3>1. order[Handed - 1] \in Int /\ order[Handed] \in Int
      BY <1>7, <2>2
    <3> QED BY <2>3, <3>1
  <2>5. Cardinality(Positions) > 2
    BY <1>6, <2>2, <2>4, TwoPlaces
  <2> QED BY <2>5 DEF Misused
<1> QED BY <1>4, <1>9, <1>10, <1>11

\* An option nobody knows is misuse.
LEMMA UnknownIsMisuse ==
    ASSUME TypeOK, NEW words \in Permuted(argv), HandedInOrder(words), OptUnknown
    PROVE  Misused
<1>1. PICK order \in Orders(argv) : words = HandedBy(order)
  BY PermutedByOrder
<1>2. rest # <<>> /\ rest[1].key = "?"
  BY DEF OptUnknown, Hands
<1>3. Handed + 1 \in 1 .. Len(argv) /\ rest[1] = words[Handed + 1]
  <2>1. Len(rest) \in Nat /\ Len(rest) >= 1 /\ 1 \in DOMAIN rest
    BY <1>2, WordsByPlace, EmptySeq DEF TypeOK
  <2> QED BY <2>1, WordsByPlace DEF HandedInOrder, Handed
<1>4. order[Handed + 1] \in Given("?")
  BY <1>1, <1>2, <1>3, TurnIsGiven
<1> QED BY <1>4 DEF Misused

-----------------------------------------------------------------------------
(* The theorems *)

\* The invariant.
StartupInv == TypeOK /\ ParsedSoFar /\ ByProgress

\* Nothing has been handed over.
LEMMA StartupInit ==
    ASSUME Init
    PROVE  StartupInv
<1>1. /\ argv \in SeqOf(Words, MaxWords) /\ root \in BOOLEAN
      /\ rest \in Permuted(argv) /\ arg_num = 0
      /\ args = [port |-> FTP_PORT, port_set |-> FALSE,
                 address |-> STRNCPY[LOCALHOST], address_set |-> FALSE]
      /\ pc = "parse" /\ listen_socket = "none" /\ local = Interfaces
      /\ reuse = {} /\ held = "nobody" /\ report = "none"
  BY DEF Init
<1>2. argv \in Seq(Words)
  <2>1. PICK m \in 0 .. MaxWords : argv \in [1 .. m -> Words]
    BY <1>1 DEF SeqOf
  <2>2. m \in Nat
    BY <2>1, TextAssumption
  <2> QED BY <2>1, <2>2, SeqDef
<1>3. PICK order \in Orders(argv) : rest = HandedBy(order)
  BY <1>1, PermutedByOrder
<1>4. /\ Len(argv) \in Nat /\ DOMAIN argv = 1 .. Len(argv)
      /\ \A i \in DOMAIN argv : argv[i] \in Words
  BY <1>2, LenProperties, ElementOfSeq
<1>5. rest \in [1 .. Len(argv) -> Words]
  <2>1. \A i \in DOMAIN argv : order[i] \in DOMAIN argv
    BY DEF Orders, Surjection
  <2> QED BY <1>3, <1>4, <2>1 DEF HandedBy
<1>6. rest \in Seq(Words) /\ Len(rest) = Len(argv)
  <2>1. rest \in Seq(Words)
    BY <1>4, <1>5, SeqDef
  <2>2. Len(rest) \in Nat /\ 1 .. Len(rest) = 1 .. Len(argv)
    BY <1>5, <2>1, LenProperties
  <2> QED BY <1>4, <2>1, <2>2
<1>7. TypeOK
  <2>1. args \in [port : Int, port_set : BOOLEAN, address : Texts, address_set : BOOLEAN]
    BY <1>1, TextAssumption DEF FTP_PORT
  <2> QED BY <1>1, <1>2, <1>6, <2>1 DEF TypeOK, Holders
<1>8. Handed = 0
  BY <1>4, <1>6 DEF Handed
<1>9. \A key : Turns(rest, key) = {}
  BY <1>8 DEF Turns
<1>10. HandedInOrder(rest)
  <2>1. \A i \in DOMAIN rest : rest[i] = rest[Handed + i]
    BY <1>4, <1>5, <1>8
  <2> QED BY <1>1, <1>8, <1>9, <2>1 DEF HandedInOrder
<1>11. PortSoFar(rest) /\ AddressSoFar(rest)
  BY <1>1, <1>9, TextAssumption DEF PortSoFar, AddressSoFar
<1>12. ByProgress
  BY <1>1 DEF ByProgress
<1> QED BY <1>1, <1>7, <1>10, <1>11, <1>12 DEF StartupInv, ParsedSoFar

\* A step that keeps the command line, and hands over nothing, keeps what has
\* been made of it.
LEMMA ParsedStays ==
    ASSUME ParsedSoFar, argv' = argv, UNCHANGED parsing
    PROVE  ParsedSoFar'
<1>1. /\ Handed' = Handed /\ rest' = rest /\ arg_num' = arg_num /\ args' = args
  BY DEF Handed, parsing
<1>2. PICK words \in Permuted(argv) :
        HandedInOrder(words) /\ PortSoFar(words) /\ AddressSoFar(words)
  BY DEF ParsedSoFar
<1>3. HandedInOrder(words)' /\ PortSoFar(words)' /\ AddressSoFar(words)'
  <2>1. /\ Turns(words, "ARG")' = Turns(words, "ARG")
        /\ Turns(words, "?")' = Turns(words, "?")
        /\ Turns(words, "p")' = Turns(words, "p")
        /\ Turns(words, "a")' = Turns(words, "a")
    BY <1>1 DEF Turns
  <2> QED BY <1>1, <1>2, <2>1 DEF HandedInOrder, PortSoFar, AddressSoFar
<1>4. words \in Permuted(argv')
  BY <1>2
<1> QED BY <1>3, <1>4 DEF ParsedSoFar

\* argp hands over a word that is in its place.
LEMMA TakingKeeps ==
    ASSUME StartupInv, OptPort \/ OptAddress \/ ArgPort \/ ArgAddress
    PROVE  StartupInv'
<1> USE DEF StartupInv
<1>1. /\ pc = "parse" /\ rest # <<>> /\ Taken /\ rest[1].key \in {"p", "a", "ARG"}
      /\ arg_num' \in 0 .. 2
      /\ SetPort(rest[1].text) \/ SetAddress(rest[1].text)
  BY DEF OptPort, OptAddress, ArgPort, ArgAddress, Hands, TypeOK
<1>2. /\ argv' = argv /\ root' = root /\ pc' = pc /\ local' = local
      /\ listen_socket' = listen_socket /\ reuse' = reuse /\ held' = held
      /\ report' = report
  BY <1>1 DEF Taken, command, socket
<1>3. PICK words \in Permuted(argv) :
        HandedInOrder(words) /\ PortSoFar(words) /\ AddressSoFar(words)
  BY DEF ParsedSoFar
<1>4. PlainLast(words)
  BY PermutedWords
<1>5. HandedInOrder(words)' /\ PortSoFar(words)' /\ AddressSoFar(words)'
  <2>1. CASE OptPort
    BY <1>3, <1>4, <2>1, OptPortKeeps
  <2>2. CASE OptAddress
    BY <1>3, <1>4, <2>2, OptAddressKeeps
  <2>3. CASE ArgPort
    BY <1>3, <2>3, ArgPortKeeps
  <2>4. CASE ArgAddress
    BY <1>3, <2>4, ArgAddressKeeps
  <2> QED BY <2>1, <2>2, <2>3, <2>4
<1>6. ParsedSoFar'
  <2>1. words \in Permuted(argv')
    BY <1>2
  <2> QED BY <1>5, <2>1 DEF ParsedSoFar
<1>7. TypeOK'
  <2>1. rest' \in Seq(Words) /\ rest[1] \in Words
    BY <1>1, <1>3, OneHanded
  <2>2. rest[1].text \in Texts
    BY <1>1, <2>1, WordHasText
  <2>3. args' \in [port : Int, port_set : BOOLEAN, address : Texts, address_set : BOOLEAN]
    <3>1. ATOI[rest[1].text] \in Int /\ STRNCPY[rest[1].text] \in Texts
      BY <2>2, TextAssumption
    <3> QED BY <1>1, <3>1 DEF SetPort, SetAddress, TypeOK
  <2> QED BY <1>1, <1>2, <2>1, <2>3 DEF TypeOK
<1>8. ByProgress'
  BY <1>1, <1>2 DEF ByProgress
<1> QED BY <1>6, <1>7, <1>8

\* The exits of argp and of server_init, and the calls between.
StartupStep ==
    \/ OptUnknown \/ TooManyArgs \/ EndAccepts \/ EndRefuses \/ EndFails
    \/ ServerInit \/ AddressesChange

\* A program that goes on to its next call, or leaves.
LEMMA StepKeeps ==
    ASSUME StartupInv, StartupStep
    PROVE  StartupInv'
<1> USE DEF StartupInv
<1>1. /\ argv' = argv /\ root' = root /\ UNCHANGED parsing
      /\ rest' = rest /\ args' = args /\ arg_num' = arg_num
      /\ local' \subseteq Interfaces
  <2>1. UNCHANGED <<command, parsing>> /\ local' \subseteq Interfaces
    BY DEF StartupStep, OptUnknown, TooManyArgs, EndAccepts, EndRefuses, EndFails, Exits,
           ServerInit, Socket, SocketFails, ReuseAddr, ReuseAddrFails, ReusePort,
           ReusePortFails, Bind, BindFails, Listen, ListenFails, Step, Fails,
           AddressesChange, TypeOK
  <2> QED BY <2>1 DEF command, parsing
<1>2. ParsedSoFar'
  BY <1>1, ParsedStays
<1>3. /\ pc' \in {"parse", "socket", "reuseaddr", "reuseport", "bind", "listen",
                  "accept", "failed", "refused", "usage"}
      /\ listen_socket' \in {"none", "open", "bound", "listening", "closed"}
      /\ reuse' \subseteq {"SO_REUSEADDR", "SO_REUSEPORT"} /\ held' \in Holders
      /\ report' \in {"none", "socket", "reuseaddr", "reuseport", "bind", "listen"}
  <2>1. CASE ServerInit
    BY <2>1 DEF ServerInit, Socket, SocketFails, ReuseAddr, ReuseAddrFails, ReusePort,
         ReusePortFails, Bind, BindFails, Listen, ListenFails, Step, Fails, SetOption,
         CloseSocket, TypeOK
  <2>2. CASE ~ServerInit
    BY <2>2 DEF StartupStep, OptUnknown, TooManyArgs, EndAccepts, EndRefuses, EndFails,
         Exits, AddressesChange, socket, TypeOK
  <2> QED BY <2>1, <2>2
<1>4. TypeOK'
  BY <1>1, <1>3 DEF TypeOK
<1>5. Misused' <=> Misused
  BY <1>1 DEF Misused, Positions, Given
<1>6. ByProgress'
  <2>1. CASE OptUnknown \/ TooManyArgs
    <3>1. Misused
      <4>1. PICK words \in Permuted(argv) :
              HandedInOrder(words) /\ PortSoFar(words) /\ AddressSoFar(words)
        BY DEF ParsedSoFar
      <4> QED BY <2>1, <4>1, TooManyIsMisuse, UnknownIsMisuse
    <3>2. /\ pc = "parse" /\ pc' = "usage"
          /\ listen_socket' = listen_socket
      BY <2>1 DEF OptUnknown, TooManyArgs, Hands, Exits, socket
    <3> QED BY <1>5, <3>1, <3>2 DEF ByProgress
  <2>2. CASE EndAccepts
    BY <1>1, <2>2 DEF EndAccepts, socket, ByProgress, PortAllowed, FTP_PORT, IPPORT_RESERVED,
                      IPPORT_USERRESERVED
  <2>3. CASE EndRefuses \/ EndFails
    BY <1>1, <2>3 DEF EndRefuses, EndFails, socket, ByProgress
  <2>4. CASE ServerInit
    <3>1. PortAllowed(args.port)' <=> PortAllowed(args.port)
      BY <1>1 DEF PortAllowed
    <3>2. local' = local
      BY <2>4 DEF ServerInit, Socket, SocketFails, ReuseAddr, ReuseAddrFails, ReusePort,
           ReusePortFails, Bind, BindFails, Listen, ListenFails, Step, Fails
    <3>3. CASE Socket \/ ReuseAddr \/ ReusePort \/ Bind \/ Listen
      BY <1>1, <3>1, <3>3 DEF Socket, ReuseAddr, ReusePort, Bind, Listen, Step, SetOption,
                              ByProgress
    <3>4. CASE BindFails
      <4>1. pc = "bind" /\ pc' = "failed" /\ listen_socket' = "closed"
        BY <3>4 DEF BindFails, Fails, CloseSocket
      <4>2. held' \in Holders /\ ~Bindable(held')
        BY <3>4 DEF BindFails
      <4>3. args.address \notin local \/ held' = "other"
        BY <4>1, <4>2 DEF Bindable, Holders, ByProgress
      <4> QED BY <1>1, <3>1, <3>2, <4>1, <4>3 DEF ByProgress
    <3>5. CASE SocketFails \/ ReuseAddrFails \/ ReusePortFails \/ ListenFails
      BY <1>1, <3>1, <3>5 DEF SocketFails, ReuseAddrFails, ReusePortFails, ListenFails,
                              Fails, CloseSocket, ByProgress
    <3> QED BY <2>4, <3>3, <3>4, <3>5 DEF ServerInit
  <2>5. CASE AddressesChange
    BY <1>1, <1>5, <2>5 DEF AddressesChange, socket, ByProgress, PortAllowed
  <2> QED BY <2>1, <2>2, <2>3, <2>4, <2>5 DEF StartupStep
<1> QED BY <1>2, <1>4, <1>6

\* The invariant holds throughout.
THEOREM StartupKept == Spec => []StartupInv
<1>1. Init => StartupInv
  BY StartupInit
<1>2. StartupInv /\ [Next]_vars => StartupInv'
  <2> SUFFICES ASSUME StartupInv, [Next]_vars PROVE StartupInv'
    OBVIOUS
  <2>1. CASE OptPort \/ OptAddress \/ ArgPort \/ ArgAddress
    BY <2>1, TakingKeeps
  <2>2. CASE StartupStep
    BY <2>2, StepKeeps
  <2>3. CASE UNCHANGED vars
    <3>1. /\ argv' = argv /\ root' = root /\ rest' = rest /\ arg_num' = arg_num
          /\ args' = args /\ pc' = pc /\ listen_socket' = listen_socket /\ local' = local
          /\ reuse' = reuse /\ held' = held /\ report' = report
      BY <2>3 DEF vars
    <3>2. ParsedSoFar'
      BY <3>1, ParsedStays DEF parsing, StartupInv
    <3>3. TypeOK' /\ ByProgress'
      BY <3>1 DEF StartupInv, TypeOK, ByProgress, Misused, Positions, Given, PortAllowed
    <3> QED BY <3>2, <3>3 DEF StartupInv
  <2> QED BY <2>1, <2>2, <2>3 DEF Next, Parse, StartupStep
<1> QED BY <1>1, <1>2, PTL DEF Spec

\* Every variable keeps its type: whatever the words, the port is a number, the
\* address a text, and parse_opt counts no more than two texts.
THEOREM TypeCorrect == Spec => []TypeOK
<1>1. StartupInv => TypeOK
  BY DEF StartupInv
<1> QED BY <1>1, StartupKept, PTL

\* Of a command line of any length, in any order, the server takes the port and
\* the address it gives, and usage answers exactly the misused ones.
THEOREM CommandLineIsObeyed == Spec => []CommandLineObeyed
<1>1. ASSUME StartupInv, rest = <<>>
      PROVE  args.port = PortAsked /\ args.address = AddressAsked /\ ~Misused
  <2>1. PICK words \in Permuted(argv) :
          HandedInOrder(words) /\ PortSoFar(words) /\ AddressSoFar(words)
    BY <1>1 DEF StartupInv, ParsedSoFar
  <2>2. PICK order \in Orders(argv) : words = HandedBy(order)
    BY PermutedByOrder
  <2>3. AllHanded(order) /\ TypeOK
    BY <1>1, <2>1, <2>2 DEF AllHanded, StartupInv
  <2> QED BY <2>3, PortIsAsked, AddressIsAsked, HandedIsProper
<1>2. StartupInv => CommandLineObeyed
  <2> SUFFICES ASSUME StartupInv PROVE CommandLineObeyed
    OBVIOUS
  <2>1. /\ pc = "usage" => Misused
        /\ pc \in {"refused", "socket", "accept"} => rest = <<>>
    BY DEF StartupInv, ByProgress
  <2>2. listen_socket \in {"bound", "listening"} => rest = <<>> /\ PortAllowed(args.port)
    BY DEF StartupInv, ByProgress, TypeOK
  <2> QED BY <1>1, <2>1, <2>2 DEF CommandLineObeyed
<1> QED BY <1>2, StartupKept, PTL

\* A server that does not start leaves no socket, at whichever of the calls of
\* server_init it failed, and its port was not kept from it by a server before
\* it: the options that allow it to take such a port are both set when it binds.
\* One that starts listens.
THEOREM InitIsAllOrNothing == Spec => []InitAllOrNothing
<1>1. StartupInv => InitAllOrNothing
  BY DEF StartupInv, ByProgress, InitAllOrNothing
<1> QED BY <1>1, StartupKept, PTL
=============================================================================
