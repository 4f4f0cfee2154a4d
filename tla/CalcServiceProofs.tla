-------------------------- MODULE CalcServiceProofs --------------------------
(***************************************************************************)
(* Theorems about CalcService, for any number of callers, any numbers and  *)
(* requests of any length: an induction over the elements of a message     *)
(* shows what the serializers read, an inductive invariant the rest.       *)
(***************************************************************************)
EXTENDS CalcService, SequenceTheorems, WellFoundedInduction, TLAPS

-----------------------------------------------------------------------------
(* Induction *)

\* What holds of 0 and goes on from one number to the next holds up to n.
LEMMA UpToInduction ==
    ASSUME NEW n \in Nat, NEW S, 0 \in S,
           \A m \in 0 .. n - 1 : m \in S => m + 1 \in S
    PROVE  \A m \in 0 .. n : m \in S
<1> DEFINE Bad == (0 .. n) \ S
           R == OpToRel(<, Nat)
<1> SUFFICES ASSUME Bad # {} PROVE FALSE
  OBVIOUS
<1>1. IsWellFoundedOn(R, Nat)
  BY NatLessThanWellFounded
<1>2. Bad \subseteq Nat
  OBVIOUS
<1>3. \A x, y \in Bad : y < x => <<y, x>> \in R
  BY <1>2 DEF OpToRel
<1>4. \A x \in Bad : x \in 0 .. n /\ x \notin S
  OBVIOUS
<1>5. \A x \in 0 .. n : x \notin S => x \in Bad
  OBVIOUS
<1> HIDE DEF R, Bad
<1>6. PICK x \in Bad : \A y \in Bad : ~(<<y, x>> \in R)
  BY <1>1, <1>2, WFMin
<1>7. x \in 0 .. n /\ x \notin S /\ x # 0
  BY <1>4
<1>8. x - 1 \in 0 .. n - 1 /\ x - 1 \in 0 .. n /\ x - 1 < x /\ x - 1 + 1 = x
  BY <1>7
<1>9. x - 1 \notin Bad
  BY <1>3, <1>6, <1>8
<1>10. x - 1 \in S
  BY <1>5, <1>8, <1>9
<1>11. x - 1 + 1 \in S
  BY <1>8, <1>10
<1> QED BY <1>7, <1>8, <1>11

\* One step after another leads from r to somewhere.
LEMMA StepsExist ==
    ASSUME NEW R, NEW r \in R, NEW n \in Nat, NEW step \in [1 .. n -> [R -> R]]
    PROVE  \E f \in [0 .. n -> R] :
              f[0] = r /\ \A i \in 1 .. n : f[i] = step[i][f[i - 1]]
<1> DEFINE Leads(m, f) == /\ f \in [0 .. m -> R] /\ f[0] = r
                          /\ \A i \in 1 .. m : f[i] = step[i][f[i - 1]]
           S == {m \in 0 .. n : \E f : Leads(m, f)}
<1>1. 0 \in S
  <2> DEFINE f == [i \in 0 .. 0 |-> r]
  <2>1. Leads(0, f) /\ 0 \in 0 .. n
    OBVIOUS
  <2> HIDE DEF f, Leads
  <2> QED BY <2>1
<1>2. ASSUME NEW m \in 0 .. n - 1, m \in S PROVE m + 1 \in S
  <2>1. PICK f : Leads(m, f)
    BY <1>2
  <2> DEFINE g == [i \in 0 .. m + 1 |-> IF i <= m THEN f[i] ELSE step[m + 1][f[m]]]
  <2>2. m \in Nat /\ m + 1 \in 1 .. n /\ m \in 0 .. m /\ f[m] \in R
    BY <2>1
  <2>3. step[m + 1][f[m]] \in R
    BY <2>2
  <2>4. \A i \in 0 .. m + 1 : (i \in 0 .. m /\ i <= m) \/ (i = m + 1 /\ ~(i <= m))
    BY <2>2
  <2>5. \A i \in 0 .. m : f[i] \in R
    BY <2>1
  <2>6. g \in [0 .. m + 1 -> R]
    BY <2>3, <2>4, <2>5
  <2>7. g[0] = r
    BY <2>1, <2>2
  <2>8. ASSUME NEW i \in 1 .. m + 1 PROVE g[i] = step[i][g[i - 1]]
    <3>1. i \in 0 .. m + 1 /\ i - 1 \in 0 .. m + 1 /\ i - 1 <= m
      BY <2>2
    <3>2. g[i - 1] = f[i - 1]
      BY <3>1
    <3>3. CASE i <= m
      <4>1. i \in 1 .. m /\ g[i] = f[i]
        BY <2>2, <3>1, <3>3
      <4> QED BY <2>1, <3>2, <4>1
    <3>4. CASE i = m + 1
      <4>1. g[i] = step[m + 1][f[m]] /\ i - 1 = m
        BY <2>2, <3>1, <3>4
      <4> QED BY <3>2, <3>4, <4>1
    <3> QED BY <2>2, <3>1, <3>3, <3>4
  <2> HIDE DEF g
  <2>9. Leads(m + 1, g)
    BY <2>6, <2>7, <2>8
  <2> QED BY <2>2, <2>9
<1>3. n \in S
  <2> HIDE DEF S
  <2>1. \A m \in 0 .. n : m \in S
    BY <1>1, <1>2, UpToInduction
  <2> QED BY <2>1
<1> QED BY <1>3

-----------------------------------------------------------------------------
(* Reading the elements of a message *)

\* What a reader may have read of a message with these fields and texts.
ReadsOf(T, V) == [error : BOOLEAN, ids : SUBSET Ids, flags : SUBSET T, field : [T -> V]]

\* A message whose texts are of V.
IsMessage(elements, V) ==
    /\ Len(elements) \in Nat
    /\ \A i \in 1 .. Len(elements) : elements[i].text \in V

\* The turns of soap_in_ns2__add, from first to last.
TurnsOf(after, read, elements) ==
    /\ after[0] = read /\ after[Len(elements)] = TakeElements(read, elements)
    /\ \A i \in 1 .. Len(elements) : after[i] = TakeElement(after[i - 1], elements[i])

\* A turn keeps the type.
LEMMA TakeElementType ==
    ASSUME NEW T, NEW V, NEW read \in ReadsOf(T, V), NEW e, e.text \in V
    PROVE  TakeElement(read, e) \in ReadsOf(T, V)
<1>1. CASE read.error
  BY <1>1 DEF TakeElement
<1>2. CASE ~read.error /\ e.tag \notin read.flags
  BY <1>2 DEF TakeElement, Ignored, ReadsOf
<1>3. CASE ~read.error /\ e.tag \in read.flags /\ e.text = Garbage
  BY <1>3 DEF TakeElement, ReadsOf
<1>4. CASE ~read.error /\ e.tag \in read.flags /\ e.text # Garbage
  BY <1>4 DEF TakeElement, ReadsOf
<1> QED BY <1>1, <1>2, <1>3, <1>4

\* The recursion has its turns.
LEMMA TurnsExist ==
    ASSUME NEW T, NEW V, NEW read \in ReadsOf(T, V), NEW elements, IsMessage(elements, V)
    PROVE  \E after \in [0 .. Len(elements) -> ReadsOf(T, V)] : TurnsOf(after, read, elements)
<1> DEFINE n == Len(elements)
           R == ReadsOf(T, V)
           step == [i \in 1 .. n |-> [r \in R |-> TakeElement(r, elements[i])]]
           Equation(g) == g = [i \in 0 .. n |->
                IF i = 0 THEN read ELSE TakeElement(g[i - 1], elements[i])]
<1>1. n \in Nat
  BY DEF IsMessage
<1>2. step \in [1 .. n -> [R -> R]]
  BY TakeElementType DEF IsMessage
<1>3. PICK f \in [0 .. n -> R] : f[0] = read /\ \A i \in 1 .. n : f[i] = step[i][f[i - 1]]
  <2> HIDE DEF step, R, n
  <2>1. read \in R
    BY DEF R
  <2> QED BY <1>1, <1>2, <2>1, StepsExist
<1>4. \A i \in 1 .. n : f[i] = TakeElement(f[i - 1], elements[i])
  <2>1. ASSUME NEW i \in 1 .. n PROVE f[i] = TakeElement(f[i - 1], elements[i])
    <3>1. i - 1 \in 0 .. n /\ f[i - 1] \in R
      BY <1>1
    <3> HIDE DEF R, n
    <3> QED BY <1>3, <3>1
  <2> QED BY <2>1
<1>5. Equation(f)
  <2>1. ASSUME NEW i \in 0 .. n
        PROVE  f[i] = IF i = 0 THEN read ELSE TakeElement(f[i - 1], elements[i])
    <3>1. CASE i = 0
      BY <1>3, <3>1
    <3>2. CASE i # 0
      <4>1. i \in 1 .. n
        BY <1>1, <3>2
      <4> QED BY <1>4, <3>2, <4>1
    <3> QED BY <3>1, <3>2
  <2> QED BY <2>1
<1> DEFINE after == CHOOSE g : Equation(g)
<1>6. Equation(after)
  BY <1>5
<1>7. TakeElements(read, elements) = after[n]
  BY DEF TakeElements
<1> HIDE DEF after
<1>8. after[0] = read
  BY <1>1, <1>6
<1>9. \A i \in 1 .. n : after[i] = TakeElement(after[i - 1], elements[i])
  <2>1. ASSUME NEW i \in 1 .. n PROVE after[i] = TakeElement(after[i - 1], elements[i])
    <3>1. i \in 0 .. n /\ i # 0
      BY <1>1
    <3> QED BY <1>6, <3>1
  <2> QED BY <2>1
<1>10. \A i \in 0 .. n : after[i] \in R
  <2> DEFINE S == {i \in 0 .. n : after[i] \in R}
  <2>1. 0 \in S
    BY <1>1, <1>8
  <2>2. ASSUME NEW m \in 0 .. n - 1, m \in S PROVE m + 1 \in S
    <3>1. m + 1 \in 1 .. n /\ m + 1 - 1 = m
      BY <1>1
    <3>2. after[m + 1] = TakeElement(after[m], elements[m + 1])
      BY <1>9, <3>1
    <3>3. TakeElement(after[m], elements[m + 1]) \in R
      BY <2>2, <3>1, TakeElementType DEF IsMessage
    <3> QED BY <1>1, <3>1, <3>2, <3>3
  <2> HIDE DEF S
  <2>3. \A m \in 0 .. n : m \in S
    BY <1>1, <2>1, <2>2, UpToInduction
  <2> QED BY <2>3 DEF S
<1>11. after \in [0 .. n -> R]
  <2>1. after = [i \in 0 .. n |-> after[i]]
    BY <1>6
  <2> HIDE DEF R, n
  <2> QED BY <2>1, <1>10
<1> QED BY <1>7, <1>8, <1>9, <1>11 DEF TurnsOf

\* A turn of soap_getindependent keeps the type too.
LEMMA TakeIndependentType ==
    ASSUME NEW T, NEW V, NEW read \in ReadsOf(T, V),
           NEW e, e.id \in Ids \cup {Null}, e.text \in V
    PROVE  TakeIndependent(read, e) \in ReadsOf(T, V)
<1> DEFINE hrefs == Named(read, e)
           field == [t \in DOMAIN read.field |-> IF t \in hrefs THEN e.text ELSE read.field[t]]
           taken == [read EXCEPT !.ids = @ \cup ({e.id} \ {Null}), !.field = field]
<1>1. TakeIndependent(read, e) \in
        {read, [read EXCEPT !.error = TRUE], taken, [read EXCEPT !.error = (e.kind = "refused")]}
  <2>1. GetElement(read, hrefs, e) \in {[read EXCEPT !.error = TRUE], taken}
    BY Zenon DEF GetElement
  <2> HIDE DEF hrefs, taken
  <2> QED BY <2>1, Zenon DEF TakeIndependent, Ignored, hrefs
<1>2. /\ [read EXCEPT !.error = TRUE] \in ReadsOf(T, V)
      /\ [read EXCEPT !.error = (e.kind = "refused")] \in ReadsOf(T, V)
  BY DEF ReadsOf
<1>3. field \in [T -> V]
  <2> HIDE DEF hrefs
  <2> QED BY DEF ReadsOf
<1>4. taken \in ReadsOf(T, V)
  <2> HIDE DEF field
  <2> QED BY <1>3 DEF ReadsOf
<1> QED BY <1>1, <1>2, <1>4

\* Independent elements whose texts are of V.
AreIndependents(independents, V) ==
    /\ Len(independents) \in Nat
    /\ \A i \in 1 .. Len(independents) :
         independents[i].id \in Ids \cup {Null} /\ independents[i].text \in V

\* The turns of soap_getindependent, from first to last.
IndependentTurnsOf(after, read, independents) ==
    /\ after[0] = read /\ after[Len(independents)] = TakeIndependents(read, independents)
    /\ \A i \in 1 .. Len(independents) :
         after[i] = TakeIndependent(after[i - 1], independents[i])

\* This recursion has its turns as well.
LEMMA IndependentTurnsExist ==
    ASSUME NEW T, NEW V, NEW read \in ReadsOf(T, V),
           NEW independents, AreIndependents(independents, V)
    PROVE  \E after \in [0 .. Len(independents) -> ReadsOf(T, V)] :
              IndependentTurnsOf(after, read, independents)
<1> DEFINE n == Len(independents)
           R == ReadsOf(T, V)
           step == [i \in 1 .. n |-> [r \in R |-> TakeIndependent(r, independents[i])]]
           Equation(g) == g = [i \in 0 .. n |->
                IF i = 0 THEN read ELSE TakeIndependent(g[i - 1], independents[i])]
<1>1. n \in Nat
  BY DEF AreIndependents
<1>2. step \in [1 .. n -> [R -> R]]
  BY TakeIndependentType DEF AreIndependents
<1>3. PICK f \in [0 .. n -> R] : f[0] = read /\ \A i \in 1 .. n : f[i] = step[i][f[i - 1]]
  <2> HIDE DEF step, R, n
  <2>1. read \in R
    BY DEF R
  <2> QED BY <1>1, <1>2, <2>1, StepsExist
<1>4. \A i \in 1 .. n : f[i] = TakeIndependent(f[i - 1], independents[i])
  <2>1. ASSUME NEW i \in 1 .. n PROVE f[i] = TakeIndependent(f[i - 1], independents[i])
    <3>1. i - 1 \in 0 .. n /\ f[i - 1] \in R
      BY <1>1
    <3> HIDE DEF R, n
    <3> QED BY <1>3, <3>1
  <2> QED BY <2>1
<1>5. Equation(f)
  <2>1. ASSUME NEW i \in 0 .. n
        PROVE  f[i] = IF i = 0 THEN read ELSE TakeIndependent(f[i - 1], independents[i])
    <3>1. CASE i = 0
      BY <1>3, <3>1
    <3>2. CASE i # 0
      <4>1. i \in 1 .. n
        BY <1>1, <3>2
      <4> QED BY <1>4, <3>2, <4>1
    <3> QED BY <3>1, <3>2
  <2> QED BY <2>1
<1> DEFINE after == CHOOSE g : Equation(g)
<1>6. Equation(after)
  BY <1>5
<1>7. TakeIndependents(read, independents) = after[n]
  BY DEF TakeIndependents
<1> HIDE DEF after
<1>8. after[0] = read
  BY <1>1, <1>6
<1>9. \A i \in 1 .. n : after[i] = TakeIndependent(after[i - 1], independents[i])
  <2>1. ASSUME NEW i \in 1 .. n PROVE after[i] = TakeIndependent(after[i - 1], independents[i])
    <3>1. i \in 0 .. n /\ i # 0
      BY <1>1
    <3> QED BY <1>6, <3>1
  <2> QED BY <2>1
<1>10. \A i \in 0 .. n : after[i] \in R
  <2> DEFINE S == {i \in 0 .. n : after[i] \in R}
  <2>1. 0 \in S
    BY <1>1, <1>8
  <2>2. ASSUME NEW m \in 0 .. n - 1, m \in S PROVE m + 1 \in S
    <3>1. m + 1 \in 1 .. n /\ m + 1 - 1 = m
      BY <1>1
    <3>2. after[m + 1] = TakeIndependent(after[m], independents[m + 1])
      BY <1>9, <3>1
    <3>3. TakeIndependent(after[m], independents[m + 1]) \in R
      BY <2>2, <3>1, TakeIndependentType DEF AreIndependents
    <3> QED BY <1>1, <3>1, <3>2, <3>3
  <2> HIDE DEF S
  <2>3. \A m \in 0 .. n : m \in S
    BY <1>1, <2>1, <2>2, UpToInduction
  <2> QED BY <2>3 DEF S
<1>11. after \in [0 .. n -> R]
  <2>1. after = [i \in 0 .. n |-> after[i]]
    BY <1>6
  <2> HIDE DEF R, n
  <2> QED BY <2>1, <1>10
<1> QED BY <1>7, <1>8, <1>9, <1>11 DEF IndependentTurnsOf

-----------------------------------------------------------------------------
(* What the elements of a message give *)

\* The first element of that name is the one in place i.
FirstAt(elements, i, t) ==
    elements[i].tag = t /\ \A j \in 1 .. i - 1 : elements[j].tag # t

\* What stops the reading: an element that must not be ignored, or the first of
\* a name that is expected without a number.
Stops(elements, i, T) ==
    \/ elements[i].tag = "refused"
    \/ elements[i].tag \in T /\ elements[i].text = Garbage
       /\ FirstAt(elements, i, elements[i].tag)

\* What has been read of field t after m elements: the default while its flag is
\* up, then the text of the first element of that name.
GivesField(elements, m, t, default, read) ==
    \/ /\ t \in read.flags /\ read.field[t] = default
       /\ \A i \in 1 .. m : elements[i].tag # t
    \/ /\ t \notin read.flags
       /\ \E i \in 1 .. m : /\ FirstAt(elements, i, t) /\ elements[i].text # Garbage
                            /\ read.field[t] = elements[i].text

\* What has been read after m elements.
ElementsGive(elements, m, T, default, read) ==
    /\ read.ids = {}
    /\ ~read.error => /\ \A i \in 1 .. m : elements[i].tag # "refused"
                      /\ \A t \in T : GivesField(elements, m, t, default, read)
    /\ read.error => \E i \in 1 .. m : Stops(elements, i, T)

\* One turn more.
LEMMA ElementsTurn ==
    ASSUME NEW T, "refused" \notin T, NEW V, NEW default, NEW elements,
           NEW m \in Nat, NEW read \in ReadsOf(T, V),
           ElementsGive(elements, m, T, default, read)
    PROVE  ElementsGive(elements, m + 1, T, default, TakeElement(read, elements[m + 1]))
<1> DEFINE e == elements[m + 1]
           next == TakeElement(read, e)
<1>0. \A i : i \in 1 .. m + 1 <=> i \in 1 .. m \/ i = m + 1
  OBVIOUS
<1>1. /\ read.field \in [T -> V] /\ read.flags \in SUBSET T
      /\ DOMAIN read = {"error", "ids", "flags", "field"} /\ read.error \in BOOLEAN
  BY DEF ReadsOf
<1>2. CASE read.error
  <2>1. next = read
    BY <1>2 DEF TakeElement
  <2> QED BY <1>0, <1>2, <2>1 DEF ElementsGive
<1>3. CASE ~read.error /\ e.tag \notin read.flags
  <2>1. /\ next.ids = read.ids /\ next.flags = read.flags /\ next.field = read.field
        /\ next.error <=> e.tag = "refused"
    BY <1>1, <1>3 DEF TakeElement, Ignored, ReadsOf
  <2> HIDE DEF next
  <2>2. ASSUME e.tag # "refused", NEW t \in T
        PROVE  GivesField(elements, m + 1, t, default, next)
    <3>1. GivesField(elements, m, t, default, read)
      BY <1>3 DEF ElementsGive
    <3>2. CASE t \in read.flags
      BY <1>0, <1>3, <2>1, <3>1, <3>2 DEF GivesField
    <3>3. CASE t \notin read.flags
      BY <1>0, <2>1, <3>1, <3>3 DEF GivesField
    <3> QED BY <3>2, <3>3
  <2>3. ElementsGive(elements, m + 1, T, default, next)
    BY <1>0, <1>3, <2>1, <2>2 DEF ElementsGive, Stops
  <2> QED BY <2>3 DEF next
<1>4. ASSUME ~read.error, e.tag \in read.flags PROVE FirstAt(elements, m + 1, e.tag)
  <2>1. e.tag \in T /\ GivesField(elements, m, e.tag, default, read)
    BY <1>1, <1>4 DEF ElementsGive
  <2>2. \A i \in 1 .. m : elements[i].tag # e.tag
    BY <1>4, <2>1 DEF GivesField
  <2>3. m + 1 - 1 = m
    OBVIOUS
  <2> QED BY <2>2, <2>3 DEF FirstAt
<1>5. CASE ~read.error /\ e.tag \in read.flags /\ e.text = Garbage
  <2>1. next = [read EXCEPT !.error = TRUE]
    BY <1>5 DEF TakeElement
  <2>2. next.ids = read.ids /\ next.error
    BY <1>1, <2>1 DEF ReadsOf
  <2>3. Stops(elements, m + 1, T)
    BY <1>1, <1>4, <1>5 DEF Stops
  <2> QED BY <1>0, <2>2, <2>3 DEF ElementsGive
<1>6. CASE ~read.error /\ e.tag \in read.flags /\ e.text # Garbage
  <2>1. next = [read EXCEPT !.field[e.tag] = e.text, !.flags = @ \ {e.tag}]
    BY <1>6 DEF TakeElement
  <2>2. /\ next.ids = read.ids /\ ~next.error /\ next.flags = read.flags \ {e.tag}
        /\ next.field[e.tag] = e.text
        /\ \A t \in T : t # e.tag => next.field[t] = read.field[t]
    BY <1>1, <1>6, <2>1 DEF ReadsOf
  <2> HIDE DEF next
  <2>3. ASSUME NEW t \in T PROVE GivesField(elements, m + 1, t, default, next)
    <3>1. GivesField(elements, m, t, default, read)
      BY <1>6 DEF ElementsGive
    <3>2. CASE t = e.tag
      BY <1>0, <1>4, <1>6, <2>2, <3>2 DEF GivesField
    <3>3. CASE t # e.tag /\ t \in read.flags
      BY <1>0, <2>2, <3>1, <3>3 DEF GivesField
    <3>4. CASE t # e.tag /\ t \notin read.flags
      BY <1>0, <2>2, <3>1, <3>4 DEF GivesField
    <3> QED BY <3>2, <3>3, <3>4
  <2>4. e.tag # "refused"
    BY <1>1, <1>6
  <2>5. ElementsGive(elements, m + 1, T, default, next)
    BY <1>0, <1>6, <2>2, <2>3, <2>4 DEF ElementsGive
  <2> QED BY <2>5 DEF next
<1> QED BY <1>1, <1>2, <1>3, <1>5, <1>6

\* All turns, from a reader that has read nothing.
LEMMA ElementsRead ==
    ASSUME NEW T, "refused" \notin T, NEW V, NEW default \in V,
           NEW elements, IsMessage(elements, V),
           NEW read, read = TakeElements(Unread([t \in T |-> default]), elements)
    PROVE  /\ read \in ReadsOf(T, V)
           /\ ElementsGive(elements, Len(elements), T, default, read)
<1> DEFINE n == Len(elements)
           start == Unread([t \in T |-> default])
<1>1. n \in Nat
  BY DEF IsMessage
<1>2. start \in ReadsOf(T, V) /\ ElementsGive(elements, 0, T, default, start)
  BY DEF Unread, ReadsOf, ElementsGive, GivesField
<1> HIDE DEF start
<1>3. PICK after \in [0 .. n -> ReadsOf(T, V)] : TurnsOf(after, start, elements)
  BY <1>2, TurnsExist
<1> DEFINE S == {m \in 0 .. n : ElementsGive(elements, m, T, default, after[m])}
<1>4. 0 \in S
  BY <1>1, <1>2, <1>3 DEF TurnsOf
<1>5. ASSUME NEW m \in 0 .. n - 1, m \in S PROVE m + 1 \in S
  <2>1. m \in Nat /\ m + 1 \in 1 .. n /\ m + 1 \in 0 .. n /\ m \in 0 .. n /\ m + 1 - 1 = m
    BY <1>1
  <2>2. after[m + 1] = TakeElement(after[m], elements[m + 1])
    BY <1>3, <2>1 DEF TurnsOf
  <2>3. after[m] \in ReadsOf(T, V) /\ ElementsGive(elements, m, T, default, after[m])
    BY <1>3, <1>5, <2>1
  <2>4. ElementsGive(elements, m + 1, T, default, after[m + 1])
    BY <2>1, <2>2, <2>3, ElementsTurn
  <2> QED BY <2>1, <2>4
<1>6. n \in S
  <2> HIDE DEF S, n
  <2>1. \A m \in 0 .. n : m \in S
    BY <1>1, <1>4, <1>5, UpToInduction
  <2> QED BY <1>1, <2>1
<1>7. read = after[n] /\ n \in 0 .. n
  BY <1>1, <1>3 DEF TurnsOf, start
<1> QED BY <1>3, <1>6, <1>7

-----------------------------------------------------------------------------
(* What the independent elements give *)

\* What a field is after m independent elements, if what was read before refers
\* to them: what it was when none is named so, or the text of the only one.
Resolves(independents, m, refers, value) ==
    \/ value = refers /\ \A i \in 1 .. m : independents[i].id # refers
    \/ \E i \in 1 .. m :
         /\ independents[i].id = refers /\ independents[i].text # Garbage
         /\ value = independents[i].text
         /\ \A j \in 1 .. m : independents[j].id = refers => j = i

\* What was read before refers to id.
Refers(T, start, id) == \E t \in T : start.field[t] = id

\* Independent element i is decoded, and its id then counts.
Counts(independents, i, T, start) ==
    Refers(T, start, independents[i].id) \/ independents[i].kind \in {"double", "string"}

\* What stops the reading, but for an id that has been read before.
Unfit(independents, i, T, start) ==
    LET refers == Refers(T, start, independents[i].id) IN
    \/ independents[i].text = Garbage /\ (refers \/ independents[i].kind = "double")
    \/ refers /\ independents[i].kind = "string"
    \/ ~refers /\ independents[i].kind = "refused"

\* What stops the reading.
Breaks(independents, i, T, start) ==
    \/ Unfit(independents, i, T, start)
    \/ \E j \in 1 .. i - 1 : /\ independents[j].id = independents[i].id
                             /\ independents[i].id # Null
                             /\ Counts(independents, j, T, start)

\* What has been read after m independent elements.
IndependentsGive(independents, m, T, start, read) ==
    /\ ~read.error =>
         /\ ~start.error
         /\ \A id : id \in read.ids <=>
              /\ id # Null
              /\ \E i \in 1 .. m : independents[i].id = id /\ Counts(independents, i, T, start)
         /\ \A t \in T : Resolves(independents, m, start.field[t], read.field[t])
         /\ \A i \in 1 .. m : ~Breaks(independents, i, T, start)
    /\ read.error =>
         start.error \/ \E i \in 1 .. m : Breaks(independents, i, T, start)

\* One turn more.
LEMMA IndependentsTurn ==
    ASSUME NEW T, NEW V, Null \notin V, NEW start \in ReadsOf(T, V),
           NEW independents, NEW m \in Nat,
           NEW read \in ReadsOf(T, V), IndependentsGive(independents, m, T, start, read),
           \A i \in 1 .. m + 1 : /\ independents[i].id \in Ids \cup {Null}
                                 /\ independents[i].text \in Numbers \cup {Garbage}
    PROVE  IndependentsGive(independents, m + 1, T, start,
                            TakeIndependent(read, independents[m + 1]))
<1> DEFINE e == independents[m + 1]
           next == TakeIndependent(read, e)
           hrefs == Named(read, e)
           known == Known(read, hrefs, e)
           unfit == Unfit(independents, m + 1, T, start)
           breaks == Breaks(independents, m + 1, T, start)
<1>0. \A i : i \in 1 .. m + 1 <=> i \in 1 .. m \/ i = m + 1
  OBVIOUS
<1>1. /\ read.field \in [T -> V] /\ DOMAIN read.field = T /\ start.field \in [T -> V]
      /\ DOMAIN read = {"error", "ids", "flags", "field"} /\ read.error \in BOOLEAN
  BY DEF ReadsOf
<1>2. m + 1 \in 1 .. m + 1 /\ m + 1 \notin 1 .. m /\ m + 1 - 1 = m
  OBVIOUS
<1>3. CASE read.error
  <2>1. next = read
    BY <1>3 DEF TakeIndependent
  <2> QED BY <1>0, <1>3, <2>1 DEF IndependentsGive
<1> SUFFICES ASSUME ~read.error PROVE IndependentsGive(independents, m + 1, T, start, next)
  BY <1>3
<1>4. /\ ~start.error
      /\ \A id : id \in read.ids <=>
           /\ id # Null
           /\ \E i \in 1 .. m : independents[i].id = id /\ Counts(independents, i, T, start)
      /\ \A t \in T : Resolves(independents, m, start.field[t], read.field[t])
      /\ \A i \in 1 .. m : ~Breaks(independents, i, T, start)
  BY DEF IndependentsGive
<1>5. \A t \in T : t \in hrefs <=> read.field[t] = e.id
  BY <1>1 DEF Named
<1>6. hrefs \subseteq T
  BY <1>1 DEF Named
<1>7. \A t \in hrefs : start.field[t] = e.id /\ \A i \in 1 .. m : independents[i].id # e.id
  <2> SUFFICES ASSUME NEW t \in hrefs
               PROVE  start.field[t] = e.id /\ \A i \in 1 .. m : independents[i].id # e.id
    OBVIOUS
  <2>1. t \in T /\ read.field[t] = e.id /\ e.id \in Ids
    BY <1>1, <1>2, <1>5, <1>6
  <2>2. \A i \in 1 .. m : independents[i].text \notin Ids
    BY <1>0, TextsAssumption
  <2> QED BY <1>4, <2>1, <2>2 DEF Resolves
<1>8. \A t \in T : start.field[t] = e.id => e.id # Null
  BY <1>1
<1>9. ASSUME e.id \notin read.ids
      PROVE  /\ \A t \in T : t \in hrefs <=> start.field[t] = e.id
             /\ Refers(T, start, e.id) <=> hrefs # {}
             /\ breaks <=> unfit
  <2>1. ASSUME NEW t \in T, start.field[t] = e.id PROVE read.field[t] = e.id
    <3>1. Resolves(independents, m, start.field[t], read.field[t])
      BY <1>4
    <3>2. ASSUME NEW i \in 1 .. m, independents[i].id = start.field[t] PROVE FALSE
      <4>1. Counts(independents, i, T, start)
        BY <3>2 DEF Counts, Refers
      <4> QED BY <1>4, <1>8, <1>9, <2>1, <3>2, <4>1
    <3> QED BY <2>1, <3>1, <3>2 DEF Resolves
  <2>2. \A t \in T : t \in hrefs <=> start.field[t] = e.id
    BY <1>5, <1>7, <2>1
  <2>3. Refers(T, start, e.id) <=> hrefs # {}
    <3> HIDE DEF hrefs, e
    <3> QED BY <1>6, <2>2 DEF Refers
  <2>4. breaks <=> unfit
    BY <1>2, <1>4, <1>9 DEF Breaks
  <2> QED BY <2>2, <2>3, <2>4
<1>10. e.id \in read.ids => breaks
  BY <1>2, <1>4 DEF Breaks
<1>11. known <=> e.id \in read.ids \/ hrefs # {} \/ e.kind \in {"double", "string"}
  BY DEF Known
<1>12. next = IF known THEN GetElement(read, hrefs, e) ELSE Ignored(read, e.kind = "refused")
  BY DEF TakeIndependent
<1>13. ASSUME e.id \notin read.ids
       PROVE  unfit <=> \/ e.text = Garbage /\ (hrefs # {} \/ e.kind = "double")
                        \/ hrefs # {} /\ e.kind = "string"
                        \/ hrefs = {} /\ e.kind = "refused"
  <2> HIDE DEF hrefs
  <2> QED BY <1>9, <1>13 DEF Unfit
<1> HIDE DEF hrefs, known, next, unfit, breaks
<1>14. ASSUME next.error, breaks PROVE IndependentsGive(independents, m + 1, T, start, next)
  BY <1>2, <1>14 DEF IndependentsGive, breaks
<1>15. CASE e.id \in read.ids
  <2>1. next = [read EXCEPT !.error = TRUE]
    BY <1>11, <1>12, <1>15, Zenon DEF GetElement
  <2> QED BY <1>1, <1>10, <1>14, <1>15, <2>1
<1>16. CASE e.id \notin read.ids /\ unfit /\ known
  <2>1. \/ e.text = Garbage /\ (hrefs # {} \/ e.kind = "double")
        \/ hrefs # {} /\ e.kind = "string"
    BY <1>11, <1>13, <1>16
  <2>2. next = [read EXCEPT !.error = TRUE]
    BY <1>12, <1>16, <2>1, Zenon DEF GetElement
  <2> QED BY <1>1, <1>9, <1>14, <1>16, <2>2
<1>17. CASE e.id \notin read.ids /\ unfit /\ ~known
  <2>1. e.kind = "refused"
    BY <1>11, <1>13, <1>17
  <2>2. next = [read EXCEPT !.error = TRUE]
    BY <1>12, <1>17, <2>1 DEF Ignored
  <2> QED BY <1>1, <1>9, <1>14, <1>17, <2>2
<1>18. CASE e.id \notin read.ids /\ ~unfit /\ known
  <2> DEFINE field == [t \in T |-> IF t \in hrefs THEN e.text ELSE read.field[t]]
  <2>0. /\ ~(e.text = Garbage /\ (hrefs # {} \/ e.kind = "double"))
        /\ ~(hrefs # {} /\ e.kind = "string")
    BY <1>13, <1>18
  <2>1. next = [read EXCEPT !.ids = @ \cup ({e.id} \ {Null}), !.field = field]
    BY <1>1, <1>12, <1>18, <2>0, Zenon DEF GetElement
  <2>2. ~next.error /\ next.ids = read.ids \cup ({e.id} \ {Null}) /\ next.field = field
    <3> HIDE DEF field
    <3> QED BY <1>1, <2>1
  <2>3. ASSUME NEW t \in T
        PROVE  Resolves(independents, m + 1, start.field[t], next.field[t])
    <3>1. Resolves(independents, m, start.field[t], read.field[t])
      BY <1>4
    <3>2. CASE t \in hrefs
      <4>1. e.text # Garbage /\ next.field[t] = e.text
        BY <2>0, <2>2, <3>2
      <4> QED BY <1>0, <1>7, <3>2, <4>1 DEF Resolves
    <3>3. CASE t \notin hrefs
      <4>1. start.field[t] # e.id /\ next.field[t] = read.field[t]
        BY <1>9, <1>18, <2>2, <3>3
      <4> QED BY <1>0, <3>1, <4>1 DEF Resolves
    <3> QED BY <3>2, <3>3
  <2>4. Counts(independents, m + 1, T, start)
    BY <1>9, <1>11, <1>18 DEF Counts
  <2>5. ASSUME NEW id
        PROVE  id \in next.ids <=>
          /\ id # Null
          /\ \E i \in 1 .. m + 1 : independents[i].id = id /\ Counts(independents, i, T, start)
    BY <1>0, <1>2, <1>4, <2>2, <2>4
  <2>6. \A i \in 1 .. m + 1 : ~Breaks(independents, i, T, start)
    BY <1>0, <1>4, <1>9, <1>18 DEF breaks
  <2> QED BY <1>4, <2>2, <2>3, <2>5, <2>6 DEF IndependentsGive
<1>19. CASE e.id \notin read.ids /\ ~unfit /\ ~known
  <2>0. e.kind \notin {"double", "string", "refused"} /\ hrefs = {}
    BY <1>11, <1>13, <1>19
  <2>1. next = [read EXCEPT !.error = FALSE]
    BY <1>12, <1>19, <2>0 DEF Ignored
  <2>2. ~next.error /\ next.ids = read.ids /\ next.field = read.field
    BY <1>1, <2>1
  <2>3. \A t \in T : start.field[t] # e.id
    BY <1>9, <1>19, <2>0
  <2>4. \A t \in T : Resolves(independents, m + 1, start.field[t], next.field[t])
    BY <1>0, <1>4, <2>2, <2>3 DEF Resolves
  <2>5. ~Counts(independents, m + 1, T, start)
    BY <2>0, <2>3 DEF Counts, Refers
  <2>6. ASSUME NEW id
        PROVE  id \in next.ids <=>
          /\ id # Null
          /\ \E i \in 1 .. m + 1 : independents[i].id = id /\ Counts(independents, i, T, start)
    BY <1>0, <1>2, <1>4, <2>2, <2>5
  <2>7. \A i \in 1 .. m + 1 : ~Breaks(independents, i, T, start)
    BY <1>0, <1>4, <1>9, <1>19 DEF breaks
  <2> QED BY <1>4, <2>2, <2>4, <2>6, <2>7 DEF IndependentsGive
<1> QED BY <1>15, <1>16, <1>17, <1>18, <1>19 DEF next

\* All turns, after the elements of the message.
LEMMA IndependentsRead ==
    ASSUME NEW T, NEW V, Numbers \cup {Garbage} \subseteq V, Null \notin V,
           NEW start \in ReadsOf(T, V), start.ids = {},
           NEW independents, AreIndependents(independents, Numbers \cup {Garbage}),
           NEW read, read = TakeIndependents(start, independents)
    PROVE  /\ read \in ReadsOf(T, V)
           /\ IndependentsGive(independents, Len(independents), T, start, read)
<1> DEFINE n == Len(independents)
<1>1. n \in Nat /\ AreIndependents(independents, V)
  BY DEF AreIndependents
<1>2. IndependentsGive(independents, 0, T, start, start)
  BY DEF IndependentsGive, Resolves
<1>3. PICK after \in [0 .. n -> ReadsOf(T, V)] : IndependentTurnsOf(after, start, independents)
  BY <1>1, IndependentTurnsExist
<1> DEFINE S == {m \in 0 .. n : IndependentsGive(independents, m, T, start, after[m])}
<1>4. 0 \in S
  BY <1>1, <1>2, <1>3 DEF IndependentTurnsOf
<1>5. ASSUME NEW m \in 0 .. n - 1, m \in S PROVE m + 1 \in S
  <2>1. m \in Nat /\ m + 1 \in 1 .. n /\ m + 1 \in 0 .. n /\ m \in 0 .. n /\ m + 1 - 1 = m
    BY <1>1
  <2>2. after[m + 1] = TakeIndependent(after[m], independents[m + 1])
    BY <1>3, <2>1 DEF IndependentTurnsOf
  <2>3. after[m] \in ReadsOf(T, V) /\ IndependentsGive(independents, m, T, start, after[m])
    BY <1>3, <1>5, <2>1
  <2>4. \A i \in 1 .. m + 1 : /\ independents[i].id \in Ids \cup {Null}
                              /\ independents[i].text \in Numbers \cup {Garbage}
    BY <1>1, <2>1 DEF AreIndependents
  <2>5. IndependentsGive(independents, m + 1, T, start, after[m + 1])
    BY <2>1, <2>2, <2>3, <2>4, IndependentsTurn
  <2> QED BY <2>1, <2>5
<1>6. n \in S
  <2> HIDE DEF S, n
  <2>1. \A m \in 0 .. n : m \in S
    BY <1>1, <1>4, <1>5, UpToInduction
  <2> QED BY <1>1, <2>1
<1>7. read = after[n] /\ n \in 0 .. n
  BY <1>1, <1>3 DEF IndependentTurnsOf
<1> QED BY <1>3, <1>6, <1>7

-----------------------------------------------------------------------------
(* Requests *)

\* A least member of some numbers is what Min gives.
LEMMA LeastOf ==
    ASSUME NEW S, S \subseteq Int, NEW x \in S, \A y \in S : x <= y
    PROVE  Min(S) = x
<1>1. Min(S) \in S /\ \A y \in S : Min(S) <= y
  BY Zenon DEF Min
<1>2. Min(S) <= x /\ x <= Min(S) /\ Min(S) \in Int
  BY <1>1
<1> QED BY <1>2

\* What a caller may send.
IsRequest(req) ==
    /\ req.version \in 1 .. 2
    /\ req.elements \in Seq(Element) /\ req.independents \in Seq(Independent)

\* The text of a field is that of the first element of its name.
LEMMA TextIsFirst ==
    ASSUME NEW req, IsRequest(req), NEW t
    PROVE  /\ \A i \in DOMAIN req.elements :
                FirstAt(req.elements, i, t) => Text(req, t) = req.elements[i].text
           /\ (\A i \in DOMAIN req.elements : req.elements[i].tag # t) => Text(req, t) = Zero
<1> DEFINE At == {i \in DOMAIN req.elements : req.elements[i].tag = t}
<1>1. DOMAIN req.elements = 1 .. Len(req.elements) /\ Len(req.elements) \in Nat
  BY DEF IsRequest
<1>2. ASSUME NEW i \in DOMAIN req.elements, FirstAt(req.elements, i, t)
      PROVE  Text(req, t) = req.elements[i].text
  <2>1. At \subseteq Int /\ i \in At
    BY <1>1, <1>2 DEF FirstAt
  <2>2. \A j \in At : i <= j
    BY <1>1, <1>2 DEF FirstAt
  <2> HIDE DEF At
  <2>3. Min(At) = i /\ At # {}
    BY <2>1, <2>2, LeastOf
  <2> QED BY <2>3 DEF Text, At
<1>3. ASSUME \A i \in DOMAIN req.elements : req.elements[i].tag # t
      PROVE  Text(req, t) = Zero
  <2>1. At = {}
    BY <1>3
  <2> QED BY <2>1 DEF Text
<1> QED BY <1>2, <1>3

\* What a field means is the text of the first independent element it refers to,
\* where there may be any.
LEMMA MeaningIsFirst ==
    ASSUME NEW req, IsRequest(req), NEW t, NEW refers, refers = Text(req, t)
    PROVE  /\ \A i \in DOMAIN req.independents :
                /\ req.version = 1 /\ req.independents[i].id = refers
                /\ \A j \in 1 .. i - 1 : req.independents[j].id # refers
                => Meaning(req, t) = req.independents[i].text
           /\ (\A i \in DOMAIN req.independents : req.independents[i].id # refers)
                => Meaning(req, t) = refers
           /\ req.version # 1 => Meaning(req, t) = refers
<1> DEFINE At == Places(req, refers)
<1>1. /\ DOMAIN req.independents = 1 .. Len(req.independents)
      /\ Len(req.independents) \in Nat
  BY DEF IsRequest
<1>2. ASSUME NEW i \in DOMAIN req.independents, req.version = 1,
             req.independents[i].id = refers,
             \A j \in 1 .. i - 1 : req.independents[j].id # refers
      PROVE  Meaning(req, t) = req.independents[i].text
  <2>1. At \subseteq Int /\ i \in At
    BY <1>1, <1>2 DEF Places
  <2>2. \A j \in At : i <= j
    BY <1>1, <1>2 DEF Places
  <2> HIDE DEF At
  <2>3. Min(At) = i /\ At # {}
    BY <2>1, <2>2, LeastOf
  <2> QED BY <2>3 DEF Meaning, At
<1>3. ASSUME \/ \A i \in DOMAIN req.independents : req.independents[i].id # refers
             \/ req.version # 1
      PROVE  Meaning(req, t) = refers
  <2>1. At = {}
    BY <1>3 DEF Places
  <2> QED BY <2>1 DEF Meaning
<1> QED BY <1>2, <1>3

\* What soap_in_ns2__add and soap_getindependent read of a request is what it
\* means, and they fail exactly when it cannot be read.
LEMMA RequestRead ==
    ASSUME NEW req, IsRequest(req), NEW read,
           read = GetRequest(req.version, req.elements, req.independents)
    PROVE  /\ read.error \in BOOLEAN
           /\ read.error => Unreadable(req)
           /\ ~read.error /\ req.op \notin {"unknown", "malformed"} => ~Unreadable(req)
           /\ ~read.error => \A t \in {"a", "b"} :
                read.field[t] = Meaning(req, t) /\ read.field[t] \in Numbers
<1> DEFINE T == {"a", "b"}
           V == Numbers \cup {Garbage} \cup Ids
           first == TakeElements(Unread([t \in T |-> Zero]), req.elements)
           second == IF req.version = 1 THEN TakeIndependents(first, req.independents)
                                        ELSE first
           n == Len(req.elements)
           k == Len(req.independents)
<1>1. /\ DOMAIN req.elements = 1 .. n /\ n \in Nat
      /\ \A i \in 1 .. n : req.elements[i] \in Element
      /\ DOMAIN req.independents = 1 .. k /\ k \in Nat
      /\ \A i \in 1 .. k : req.independents[i] \in Independent
  BY DEF IsRequest
<1>2. /\ IsMessage(req.elements, V)
      /\ AreIndependents(req.independents, Numbers \cup {Garbage})
  BY <1>1 DEF IsMessage, AreIndependents, Element, Independent
<1>3. "refused" \notin T /\ Zero \in V /\ Null \notin V
  BY TextsAssumption
<1>4. first \in ReadsOf(T, V) /\ ElementsGive(req.elements, n, T, Zero, first)
  <2> HIDE DEF T, V, first
  <2> QED BY <1>2, <1>3, ElementsRead DEF first
<1>5. first.ids = {} /\ first.error \in BOOLEAN
  BY <1>4 DEF ElementsGive, ReadsOf
<1>6. /\ second \in ReadsOf(T, V)
      /\ req.version = 1 => IndependentsGive(req.independents, k, T, first, second)
      /\ req.version # 1 => second = first
  <2>1. Numbers \cup {Garbage} \subseteq V
    OBVIOUS
  <2> DEFINE taken == TakeIndependents(first, req.independents)
  <2>2. taken \in ReadsOf(T, V) /\ IndependentsGive(req.independents, k, T, first, taken)
    <3> HIDE DEF T, V, first, taken
    <3> QED BY <1>2, <1>3, <1>4, <1>5, <2>1, IndependentsRead DEF taken
  <2> HIDE DEF T, V, first
  <2> QED BY <1>4, <2>2
<1>7. read = [second EXCEPT !.error = @ \/ \E t \in T : second.field[t] \in Ids]
  BY DEF GetRequest, Unread
<1> HIDE DEF first, second
<1>8. /\ read.error <=> second.error \/ \E t \in T : second.field[t] \in Ids
      /\ read.error \in BOOLEAN /\ read.field = second.field
  BY <1>6, <1>7 DEF ReadsOf
<1>9. ASSUME ~first.error, NEW t \in T
      PROVE  first.field[t] = Text(req, t) /\ Text(req, t) \in Numbers \cup Ids
  <2>1. GivesField(req.elements, n, t, Zero, first)
    BY <1>4, <1>9 DEF ElementsGive
  <2>2. CASE /\ first.field[t] = Zero
             /\ \A i \in 1 .. n : req.elements[i].tag # t
    BY <1>1, <2>2, TextIsFirst, TextsAssumption
  <2>3. CASE \E i \in 1 .. n : /\ FirstAt(req.elements, i, t) /\ req.elements[i].text # Garbage
                               /\ first.field[t] = req.elements[i].text
    <3>1. PICK i \in 1 .. n : /\ FirstAt(req.elements, i, t) /\ req.elements[i].text # Garbage
                              /\ first.field[t] = req.elements[i].text
      BY <2>3
    <3>2. Text(req, t) = req.elements[i].text
      BY <1>1, <3>1, TextIsFirst
    <3>3. req.elements[i].text \in V
      BY <1>1 DEF Element
    <3> QED BY <3>1, <3>2, <3>3
  <2> QED BY <2>1, <2>2, <2>3 DEF GivesField
<1>10. ASSUME first.error PROVE Unreadable(req)
  <2>1. PICK i \in 1 .. n : Stops(req.elements, i, T)
    BY <1>4, <1>10 DEF ElementsGive
  <2>2. CASE req.elements[i].tag = "refused"
    BY <1>1, <2>2 DEF Unreadable
  <2>3. CASE /\ req.elements[i].tag \in T /\ req.elements[i].text = Garbage
             /\ FirstAt(req.elements, i, req.elements[i].tag)
    <3> DEFINE t == req.elements[i].tag
    <3>1. Text(req, t) = Garbage
      BY <1>1, <2>3, TextIsFirst
    <3>2. \A j \in DOMAIN req.independents : req.independents[j].id # Garbage
      BY <1>1, TextsAssumption DEF Independent
    <3>3. Meaning(req, t) = Garbage
      BY <3>1, <3>2, MeaningIsFirst
    <3> QED BY <2>3, <3>3, TextsAssumption DEF Unreadable
  <2> QED BY <2>1, <2>2, <2>3 DEF Stops
<1>11. ASSUME ~first.error, req.version = 1, NEW t \in T,
              Resolves(req.independents, k, first.field[t], second.field[t])
       PROVE  second.field[t] = Meaning(req, t) /\ second.field[t] \in Numbers \cup Ids
  <2>1. first.field[t] = Text(req, t) /\ Text(req, t) \in Numbers \cup Ids
    BY <1>9, <1>11
  <2>2. CASE /\ second.field[t] = Text(req, t)
             /\ \A i \in 1 .. k : req.independents[i].id # Text(req, t)
    BY <1>1, <2>1, <2>2, MeaningIsFirst
  <2>3. CASE \E i \in 1 .. k :
               /\ req.independents[i].id = Text(req, t) /\ req.independents[i].text # Garbage
               /\ second.field[t] = req.independents[i].text
               /\ \A j \in 1 .. k : req.independents[j].id = Text(req, t) => j = i
    <3>1. PICK i \in 1 .. k :
               /\ req.independents[i].id = Text(req, t) /\ req.independents[i].text # Garbage
               /\ second.field[t] = req.independents[i].text
               /\ \A j \in 1 .. k : req.independents[j].id = Text(req, t) => j = i
      BY <2>3
    <3>2. \A j \in 1 .. i - 1 : req.independents[j].id # Text(req, t)
      BY <1>1, <3>1
    <3>3. Meaning(req, t) = req.independents[i].text
      BY <1>1, <1>11, <3>1, <3>2, MeaningIsFirst
    <3>4. req.independents[i].text \in Numbers
      BY <1>1, <3>1 DEF Independent
    <3> QED BY <3>1, <3>3, <3>4
  <2> QED BY <1>11, <2>1, <2>2, <2>3 DEF Resolves
<1>12. ASSUME ~first.error, NEW i \in 1 .. k
       PROVE  Wrong(req, i) <=> Breaks(req.independents, i, T, first)
  <2>1. \A id : Refers(T, first, id) <=> Referred(req, id)
    BY <1>9, <1>12 DEF Refers, Referred
  <2> HIDE DEF T
  <2> QED BY <2>1 DEF Wrong, Breaks, Unfit, Counts
<1>13. ASSUME ~second.error
       PROVE  /\ ~first.error
              /\ \A t \in T : /\ second.field[t] = Meaning(req, t)
                              /\ second.field[t] \in Numbers \cup Ids
              /\ req.version = 1 => \A i \in 1 .. k : ~Wrong(req, i)
  <2>1. CASE req.version = 1
    <3>1. /\ ~first.error
          /\ \A t \in T : Resolves(req.independents, k, first.field[t], second.field[t])
          /\ \A i \in 1 .. k : ~Breaks(req.independents, i, T, first)
      BY <1>6, <1>13, <2>1 DEF IndependentsGive
    <3> QED BY <1>11, <1>12, <2>1, <3>1
  <2>2. CASE req.version # 1
    BY <1>6, <1>9, <1>13, <2>2, MeaningIsFirst
  <2> QED BY <2>1, <2>2
<1>14. ASSUME read.error PROVE Unreadable(req)
  <2>1. CASE ~second.error
    <3>1. PICK t \in T : second.field[t] \in Ids
      BY <1>8, <1>14, <2>1
    <3>2. Meaning(req, t) \in Ids
      BY <1>13, <2>1, <3>1
    <3> QED BY <3>2, TextsAssumption DEF Unreadable
  <2>2. CASE second.error /\ ~first.error
    <3>1. req.version = 1 /\ \E i \in 1 .. k : Breaks(req.independents, i, T, first)
      BY <1>6, <2>2 DEF IndependentsGive
    <3>2. \E i \in DOMAIN req.independents : Wrong(req, i)
      BY <1>1, <1>12, <2>2, <3>1
    <3> QED BY <3>1, <3>2 DEF Unreadable
  <2> QED BY <1>10, <2>1, <2>2
<1>15. ASSUME ~read.error, NEW t \in T
       PROVE  read.field[t] = Meaning(req, t) /\ read.field[t] \in Numbers
  BY <1>8, <1>13, <1>15
<1>16. ASSUME ~read.error, req.op \notin {"unknown", "malformed"} PROVE ~Unreadable(req)
  <2>1. \A i \in DOMAIN req.elements : req.elements[i].tag # "refused"
    BY <1>1, <1>4, <1>8, <1>13, <1>16 DEF ElementsGive
  <2>2. req.version = 1 => \A i \in DOMAIN req.independents : ~Wrong(req, i)
    BY <1>1, <1>8, <1>13, <1>16
  <2> QED BY <1>15, <1>16, <2>1, <2>2 DEF Unreadable
<1> QED BY <1>8, <1>14, <1>15, <1>16

-----------------------------------------------------------------------------
(* Answers *)

\* A message of one element for each of these fields, each of them a number or
\* a string, is read as it was written.
LEMMA WrittenIsRead ==
    ASSUME NEW T, "refused" \notin T, NEW V, Garbage \notin V, Null \in V,
           NEW elements, IsMessage(elements, V),
           \A i \in 1 .. Len(elements) : elements[i].tag \in T,
           \A i, j \in 1 .. Len(elements) : elements[i].tag = elements[j].tag => i = j,
           NEW read, read = TakeElements(Unread([t \in T |-> Null]), elements)
    PROVE  /\ ~read.error
           /\ \A i \in 1 .. Len(elements) : read.field[elements[i].tag] = elements[i].text
           /\ \A t \in T : (\A i \in 1 .. Len(elements) : elements[i].tag # t)
                => read.field[t] = Null
<1> DEFINE n == Len(elements)
<1>1. read \in ReadsOf(T, V) /\ ElementsGive(elements, n, T, Null, read)
  BY ElementsRead
<1>3. n \in Nat /\ \A i \in 1 .. n : elements[i].text # Garbage
  BY DEF IsMessage
<1>4. ~read.error
  <2> SUFFICES ASSUME read.error PROVE FALSE
    OBVIOUS
  <2>1. PICK i \in 1 .. n : Stops(elements, i, T)
    BY <1>1 DEF ElementsGive
  <2> QED BY <1>3, <2>1 DEF Stops
<1>5. \A t \in T : GivesField(elements, n, t, Null, read)
  BY <1>1, <1>4 DEF ElementsGive
<1>6. ASSUME NEW i \in 1 .. n PROVE read.field[elements[i].tag] = elements[i].text
  <2>1. GivesField(elements, n, elements[i].tag, Null, read)
    BY <1>5
  <2>2. PICK j \in 1 .. n : /\ FirstAt(elements, j, elements[i].tag)
                            /\ read.field[elements[i].tag] = elements[j].text
    BY <2>1 DEF GivesField
  <2>3. j = i
    BY <2>2 DEF FirstAt
  <2> QED BY <2>2, <2>3
<1>7. ASSUME NEW t \in T, \A i \in 1 .. n : elements[i].tag # t
      PROVE  read.field[t] = Null
  BY <1>5, <1>7 DEF GivesField, FirstAt
<1> QED BY <1>4, <1>6, <1>7

\* The result the caller reads is the one the server has written.
LEMMA ResponseRead ==
    ASSUME NEW value \in Results, NEW read, read = GetResponse(PutResponse(value))
    PROVE  ~read.error /\ read.field["result"] = value
<1> DEFINE T == {"result"}
           V == Results \cup {Null}
           elements == PutResponse(value)
<1>1. /\ Len(elements) = 1 /\ elements[1].tag = "result" /\ elements[1].text = value
      /\ \A i : i \in 1 .. Len(elements) <=> i = 1
  BY DEF PutResponse
<1> HIDE DEF elements
<1>2. IsMessage(elements, V)
  BY <1>1 DEF IsMessage
<1>3. /\ \A i \in 1 .. Len(elements) : elements[i].tag \in T
      /\ \A i, j \in 1 .. Len(elements) : elements[i].tag = elements[j].tag => i = j
  BY <1>1
<1>4. "refused" \notin T /\ Garbage \notin V /\ Null \in V
  BY TextsAssumption
<1>5. read = TakeElements(Unread([t \in T |-> Null]), elements)
  BY DEF GetResponse, elements
<1> HIDE DEF T, V
<1>6. ~read.error /\ read.field[elements[1].tag] = elements[1].text
  BY <1>1, <1>2, <1>3, <1>4, <1>5, WrittenIsRead
<1> QED BY <1>1, <1>6

\* Nor does a fault change its string on its way, in either version of SOAP.
LEMMA FaultRead ==
    ASSUME NEW version \in 1 .. 2, NEW string \in FaultStrings
    PROVE  GetFault(version, PutFault(version, string)) = string
<1> DEFINE T == FaultTags
           V == FaultStrings \cup {"Client", Null}
           elements == PutFault(version, string)
           read == TakeElements(Unread([t \in T |-> Null]), elements)
<1>1. /\ Len(elements) = 2 /\ \A i : i \in 1 .. Len(elements) <=> i \in {1, 2}
      /\ elements[1].text = "Client" /\ elements[2].text = string
      /\ version = 1 => elements[1].tag = "faultcode" /\ elements[2].tag = "faultstring"
      /\ version = 2 => elements[1].tag = "SOAP-ENV:Code"
                        /\ elements[2].tag = "SOAP-ENV:Reason"
  BY DEF PutFault
<1>0. version \in {1, 2}
  OBVIOUS
<1> HIDE DEF elements
<1>2. IsMessage(elements, V)
  BY <1>1 DEF IsMessage
<1>3. /\ \A i \in 1 .. Len(elements) : elements[i].tag \in T
      /\ \A i, j \in 1 .. Len(elements) : elements[i].tag = elements[j].tag => i = j
  BY <1>0, <1>1 DEF FaultTags
<1>4. "refused" \notin T /\ Garbage \notin V /\ Null \in V /\ string # Null
  BY TextsAssumption DEF FaultTags
<1>5. GetFault(version, elements) =
        IF version = 2 /\ read.field["SOAP-ENV:Reason"] # Null
        THEN read.field["SOAP-ENV:Reason"] ELSE read.field["faultstring"]
  BY DEF GetFault
<1> HIDE DEF T, V, read
<1>6. /\ \A i \in 1 .. Len(elements) : read.field[elements[i].tag] = elements[i].text
      /\ \A t \in T : (\A i \in 1 .. Len(elements) : elements[i].tag # t)
           => read.field[t] = Null
  BY <1>2, <1>3, <1>4, WrittenIsRead DEF read
<1>7. CASE version = 1
  BY <1>1, <1>5, <1>6, <1>7 DEF elements
<1>8. CASE version = 2
  BY <1>1, <1>4, <1>5, <1>6, <1>8 DEF elements
<1> QED BY <1>0, <1>7, <1>8

-----------------------------------------------------------------------------
(* The service *)

\* Whatever may be sent is a request.
LEMMA RequestsAre ==
    ASSUME NEW req \in AllRequests
    PROVE  IsRequest(req) /\ req.op \in Ops \cup {"unknown", "malformed"}
<1>1. CASE req \in Requests
  BY <1>1, CallersAssumption DEF IsRequest
<1>2. CASE req \in [op : Ops, version : {1},
                    elements : {PutRequest(x, y) : x, y \in Numbers},
                    independents : {<<>>}]
  <2>1. PICK x, y \in Numbers : req.elements = PutRequest(x, y)
    BY <1>2
  <2>2. PutRequest(x, y) \in Seq(Element)
    BY DEF PutRequest, Element
  <2>3. <<>> \in Seq(Independent)
    OBVIOUS
  <2>4. req.independents = <<>> /\ req.op \in Ops /\ req.version \in 1 .. 2
    BY <1>2
  <2> QED BY <2>1, <2>2, <2>3, <2>4 DEF IsRequest
<1> QED BY <1>1, <1>2 DEF AllRequests

\* What an operation gives for two numbers, when errno is clear before it.
LEMMA Computed ==
    ASSUME NEW op \in Ops, NEW x \in Numbers, NEW y \in Numbers, errno = "other",
           NEW done, done = Compute(op, x, y)
    PROVE  /\ done.value = <<op, x, y>> /\ done.value \in Results
           /\ done.errno \in {"EDOM", "other"}
           /\ done.fault = Null => /\ done.errno = "other"
                                   /\ op = "div" => y # Zero
                                   /\ op = "pow" => <<x, y>> \in PowDomain
           /\ done.fault # Null =>
                /\ done.fault \in FaultStrings
                /\ \/ op = "div" /\ y = Zero /\ done.fault = DivideByZero(x)
                   \/ op = "pow" /\ <<x, y>> \notin PowDomain /\ done.fault = PowerOf(x, y)
<1>1. <<op, x, y>> \in Results
  BY DEF Results
<1>2. /\ DivideByZero(x) \in FaultStrings /\ DivideByZero(x) # Null
      /\ PowerOf(x, y) \in FaultStrings /\ PowerOf(x, y) # Null
  BY TextsAssumption DEF FaultStrings
<1>3. CASE op \in {"add", "sub", "mul"}
  <2>1. done = [fault |-> Null, value |-> <<op, x, y>>, errno |-> errno]
    BY <1>3 DEF Compute, Add, Sub, Mul, Value
  <2> QED BY <1>1, <1>3, <2>1
<1>4. CASE op = "div"
  <2>1. done = [[fault |-> Null, value |-> <<op, x, y>>, errno |-> errno] EXCEPT
                   !.fault = IF y = Zero THEN DivideByZero(x) ELSE Null]
    BY <1>4 DEF Compute, Div, Value
  <2>2. /\ done.value = <<op, x, y>> /\ done.errno = "other"
        /\ done.fault = IF y = Zero THEN DivideByZero(x) ELSE Null
    BY <2>1
  <2> QED BY <1>1, <1>2, <1>4, <2>2
<1>5. CASE op = "pow"
  <2> DEFINE after == IF <<x, y>> \in PowDomain THEN errno ELSE "EDOM"
  <2>1. done = [[fault |-> Null, value |-> <<op, x, y>>, errno |-> errno] EXCEPT
                   !.errno = after,
                   !.fault = IF after = "EDOM" THEN PowerOf(x, y) ELSE Null]
    BY <1>5 DEF Compute, Pow, Value
  <2>2. /\ done.value = <<op, x, y>> /\ done.errno = after
        /\ done.fault = IF after = "EDOM" THEN PowerOf(x, y) ELSE Null
    BY <2>1
  <2> QED BY <1>1, <1>2, <1>5, <2>2
<1> QED BY <1>3, <1>4, <1>5 DEF Ops

\* A fault that the request deserves keeps the invariant.
LEMMA FaultKeeps ==
    ASSUME CalcInv, conn \in Callers, call[conn] \in {"cut", "sent", "gone"},
           NEW string \in FaultStrings, SendFault(string),
           ~HasLeft(conn) => Deserved(request[conn], string),
           errno' \in {"EDOM", "other"}
    PROVE  CalcInv'
<1>1. /\ pc' = "error" /\ UNCHANGED <<conn, response, backlog, request>>
      /\ \/ HasLeft(conn) /\ UNCHANGED <<call, result>>
         \/ /\ ~HasLeft(conn) /\ call' = [call EXCEPT ![conn] = "fault"]
            /\ result' = [result EXCEPT ![conn] = string]
  <2>1. CASE HasLeft(conn)
    BY <2>1 DEF SendFault
  <2>2. CASE ~HasLeft(conn)
    <3>1. request[conn] \in AllRequests
      BY <2>2 DEF CalcInv, Connected, HasLeft
    <3>2. request[conn].version \in 1 .. 2
      BY <3>1, RequestsAre DEF IsRequest
    <3> QED BY <2>2, <3>2, FaultRead DEF SendFault
  <2> QED BY <2>1, <2>2
<1>2. TypeOK /\ Connected /\ AnswerIsOwn /\ FaultIsDeserved
  BY DEF CalcInv
<1>3. TypeOK'
  BY <1>1, <1>2 DEF TypeOK
<1>4. \A c \in Callers : call'[c] = "idle" <=> call[c] = "idle"
  BY <1>1, <1>2 DEF TypeOK
<1>5. Connected'
  <2>1. \A i \in DOMAIN backlog : backlog[i] \in Callers
    BY <1>2 DEF TypeOK
  <2>2. pc' = "error" /\ backlog' = backlog /\ request' = request
    BY <1>1
  <2>3. ASSUME NEW c \in Callers, call'[c] \in {"sent", "gone", "ok", "fault"}
        PROVE  call[c] \in {"sent", "gone", "ok", "fault"}
    BY <1>1, <1>2, <2>3 DEF TypeOK, HasLeft
  <2> QED BY <1>2, <1>4, <2>1, <2>2, <2>3 DEF Connected
<1>6. AnswerIsOwn'
  <2>1. ASSUME NEW c \in Callers, call'[c] = "ok"
        PROVE  call[c] = "ok" /\ result'[c] = result[c]
    BY <1>1, <1>2, <2>1 DEF TypeOK
  <2> QED BY <1>1, <1>2, <2>1 DEF AnswerIsOwn
<1>7. FaultIsDeserved'
  <2>1. ASSUME NEW c \in Callers, call'[c] = "fault"
        PROVE  \/ call[c] = "fault" /\ result'[c] = result[c]
               \/ c = conn /\ ~HasLeft(conn) /\ result'[c] = string
    BY <1>1, <1>2, <2>1 DEF TypeOK
  <2> QED BY <1>1, <1>2, <2>1 DEF FaultIsDeserved
<1>8. NothingIsStale' /\ ResponseIsOwn'
  BY <1>1 DEF NothingIsStale, ResponseIsOwn
<1> QED BY <1>3, <1>5, <1>6, <1>7, <1>8 DEF CalcInv

\* A step that leaves calls, requests and results alone.
LEMMA QuietKeeps ==
    ASSUME CalcInv, TypeOK', Connected', NothingIsStale', ResponseIsOwn',
           call' = call, request' = request, result' = result
    PROVE  CalcInv'
<1>1. AnswerIsOwn'
  BY DEF CalcInv, AnswerIsOwn
<1>2. FaultIsDeserved'
  BY DEF CalcInv, FaultIsDeserved
<1> QED BY <1>1, <1>2 DEF CalcInv

\* A caller connects that had no call.
LEMMA ConnectsKeeps ==
    ASSUME CalcInv, NEW c \in Callers, Connects(c)
    PROVE  CalcInv'
<1>1. TypeOK /\ Connected /\ AnswerIsOwn /\ FaultIsDeserved /\ NothingIsStale /\ ResponseIsOwn
  BY DEF CalcInv
<1>2. /\ call[c] = "idle" /\ request' = request
      /\ pc' = pc /\ conn' = conn /\ errno' = errno /\ response' = response
      /\ result' = result
      /\ \/ call' = [call EXCEPT ![c] = "failed"] /\ backlog' = backlog
         \/ call' = [call EXCEPT ![c] = "calling"] /\ backlog' = Append(backlog, c)
  BY DEF Connects
<1>3. TypeOK'
  <2>0. backlog \in Seq(Callers)
    BY <1>1 DEF TypeOK
  <2>1. backlog' \in Seq(Callers)
    BY <1>2, <2>0
  <2>2. call' \in [Callers -> {"idle", "calling", "cut", "sent", "gone", "ok", "fault", "failed"}]
    BY <1>1, <1>2 DEF TypeOK
  <2> QED BY <1>1, <1>2, <2>1, <2>2 DEF TypeOK
<1>4. /\ call'[c] \in {"calling", "failed"}
      /\ \A d \in Callers : d # c => call'[d] = call[d]
  BY <1>1, <1>2 DEF TypeOK
<1>5. Connected'
  <2>1. \A i \in DOMAIN backlog' : call'[backlog'[i]] # "idle"
    <3>1. \A i \in DOMAIN backlog : backlog[i] \in Callers /\ call[backlog[i]] # "idle"
      BY <1>1 DEF TypeOK, Connected
    <3>2. backlog \in Seq(Callers)
      BY <1>1 DEF TypeOK
    <3>3. \A i \in DOMAIN backlog' :
             backlog'[i] = c \/ (i \in DOMAIN backlog /\ backlog'[i] = backlog[i])
      <4>1. CASE backlog' = backlog
        BY <4>1
      <4>2. CASE backlog' = Append(backlog, c)
        BY <3>2, <4>2
      <4> QED BY <1>2, <4>1, <4>2
    <3> QED BY <1>4, <3>1, <3>3
  <2>2. \A d \in Callers : call'[d] \in {"sent", "gone", "ok", "fault"} => call[d] = call'[d]
    BY <1>4
  <2>3. /\ pc \in {"begin", "serve", "respond"} => conn \in Callers /\ conn # c
        /\ conn \in Callers /\ conn # c => call'[conn] = call[conn]
    BY <1>1, <1>2, <1>4 DEF Connected
  <2> QED BY <1>1, <1>2, <2>1, <2>2, <2>3 DEF Connected
<1>6. ResponseIsOwn' /\ NothingIsStale'
  BY <1>1, <1>2 DEF ResponseIsOwn, NothingIsStale
<1>7. \A d \in Callers : call'[d] \in {"ok", "fault"} => call[d] = call'[d]
  BY <1>4
<1>8. AnswerIsOwn'
  BY <1>1, <1>2, <1>7 DEF AnswerIsOwn
<1>9. FaultIsDeserved'
  BY <1>1, <1>2, <1>7 DEF FaultIsDeserved
<1> QED BY <1>3, <1>5, <1>6, <1>8, <1>9 DEF CalcInv

\* A request comes whole, and nobody has had an answer to it yet.
LEMMA SendsKeeps ==
    ASSUME CalcInv, NEW c \in Callers, NEW req \in AllRequests, Sends(c, req)
    PROVE  CalcInv'
<1>1. TypeOK /\ Connected /\ AnswerIsOwn /\ FaultIsDeserved /\ NothingIsStale /\ ResponseIsOwn
  BY DEF CalcInv
<1>2. /\ call[c] = "calling" /\ call' = [call EXCEPT ![c] = "sent"]
      /\ request' = [request EXCEPT ![c] = req]
      /\ pc' = pc /\ conn' = conn /\ errno' = errno /\ response' = response
      /\ backlog' = backlog /\ result' = result
  BY DEF Sends
<1>3. TypeOK'
  BY <1>1, <1>2 DEF TypeOK
<1>4. /\ request'[c] = req /\ call'[c] = "sent"
      /\ \A d \in Callers : d # c => request'[d] = request[d] /\ call'[d] = call[d]
  BY <1>1, <1>2 DEF TypeOK
<1>5. pc \in {"serve", "respond"} => conn \in Callers /\ conn # c
  BY <1>1, <1>2 DEF Connected
<1>6. Connected'
  <2>1. \A i \in DOMAIN backlog : backlog[i] \in Callers
    BY <1>1 DEF TypeOK
  <2>2. \A d \in Callers : call'[d] \in {"sent", "gone", "ok", "fault"}
          => request'[d] \in AllRequests
    BY <1>1, <1>4 DEF Connected
  <2>3. \A d \in Callers : call'[d] = "idle" => call[d] = "idle"
    BY <1>4
  <2>4. /\ pc \in {"begin", "serve", "respond"} => conn \in Callers /\ call'[conn] # "idle"
        /\ pc \in {"serve", "respond"} => call'[conn] \in {"sent", "gone"}
    BY <1>1, <1>4, <1>5, <2>3 DEF Connected
  <2>5. \A i \in DOMAIN backlog : call'[backlog[i]] # "idle"
    BY <1>1, <2>1, <2>3 DEF Connected
  <2> QED BY <1>2, <2>2, <2>4, <2>5 DEF Connected
<1>7. ResponseIsOwn'
  <2>1. pc = "respond" => request'[conn] = request[conn]
    BY <1>4, <1>5
  <2> QED BY <1>1, <1>2, <2>1 DEF ResponseIsOwn
<1>8. AnswerIsOwn'
  <2>1. \A d \in Callers : call'[d] = "ok" => call[d] = "ok" /\ request'[d] = request[d]
    BY <1>4
  <2> QED BY <1>1, <1>2, <2>1 DEF AnswerIsOwn
<1>9. FaultIsDeserved'
  <2>1. \A d \in Callers : call'[d] = "fault" => call[d] = "fault" /\ request'[d] = request[d]
    BY <1>4
  <2> QED BY <1>1, <1>2, <2>1 DEF FaultIsDeserved
<1>10. NothingIsStale'
  BY <1>1, <1>2 DEF NothingIsStale
<1> QED BY <1>3, <1>6, <1>7, <1>8, <1>9, <1>10 DEF CalcInv

\* The steps of the callers.
LEMMA CallersKeep ==
    ASSUME CalcInv, NEW c \in Callers, Caller(c)
    PROVE  CalcInv'
<1>1. ASSUME NEW op \in Ops, Call(c, op) PROVE CalcInv'
  <2>1. PICK x, y \in Numbers :
          Sends(c, [op |-> op, version |-> 1,
                    elements |-> PutRequest(x, y), independents |-> <<>>])
    BY <1>1 DEF Call
  <2> DEFINE req == [op |-> op, version |-> 1,
                     elements |-> PutRequest(x, y), independents |-> <<>>]
  <2>2. req \in AllRequests
    BY DEF AllRequests
  <2> HIDE DEF req
  <2> QED BY <2>1, <2>2, SendsKeeps DEF req
<1>2. CASE OtherRequest(c)
  BY <1>2, SendsKeeps DEF OtherRequest, AllRequests
<1>3. CASE CallerLeaves(c)
  <2>1. TypeOK /\ Connected /\ AnswerIsOwn /\ FaultIsDeserved /\ NothingIsStale /\ ResponseIsOwn
    BY DEF CalcInv
  <2>2. /\ \/ call[c] = "calling" /\ call' = [call EXCEPT ![c] = "cut"]
           \/ call[c] = "sent" /\ call' = [call EXCEPT ![c] = "gone"]
        /\ pc' = pc /\ conn' = conn /\ errno' = errno /\ response' = response
        /\ backlog' = backlog /\ request' = request /\ result' = result
    BY <1>3 DEF CallerLeaves
  <2>3. /\ \/ call[c] = "calling" /\ call'[c] = "cut"
           \/ call[c] = "sent" /\ call'[c] = "gone"
        /\ \A d \in Callers : d # c => call'[d] = call[d]
    BY <2>1, <2>2 DEF TypeOK
  <2>4. TypeOK'
    BY <2>1, <2>2 DEF TypeOK
  <2>5. Connected'
    <3>1. \A i \in DOMAIN backlog : backlog[i] \in Callers
      BY <2>1 DEF TypeOK
    <3> QED BY <2>1, <2>2, <2>3, <3>1 DEF Connected
  <2>6. NothingIsStale' /\ ResponseIsOwn'
    BY <2>1, <2>2 DEF NothingIsStale, ResponseIsOwn
  <2>7. AnswerIsOwn'
    BY <2>1, <2>2, <2>3 DEF AnswerIsOwn
  <2>8. FaultIsDeserved'
    BY <2>1, <2>2, <2>3 DEF FaultIsDeserved
  <2> QED BY <2>4, <2>5, <2>6, <2>7, <2>8 DEF CalcInv
<1>4. CASE Connects(c)
  BY <1>4, ConnectsKeeps
<1> QED BY <1>1, <1>2, <1>3, <1>4 DEF Caller, CallAdd, CallSub, CallMul, CallDiv, CallPow, Ops

\* main() accepts a connection, or the library begins with its request.
LEMMA AcceptKeeps ==
    ASSUME CalcInv, SoapAccept \/ AcceptFails \/ SoapBeginServe
    PROVE  CalcInv'
<1>1. TypeOK /\ Connected /\ NothingIsStale
  BY DEF CalcInv
<1>2. CASE SoapAccept
  <2>1. /\ pc = "accept" /\ backlog # <<>> /\ conn' = Head(backlog)
        /\ backlog' = Tail(backlog) /\ pc' = "begin" /\ errno' = errno
        /\ response' = response /\ call' = call /\ request' = request /\ result' = result
    BY <1>2 DEF SoapAccept
  <2>2. backlog \in Seq(Callers)
    BY <1>1 DEF TypeOK
  <2>3. /\ Tail(backlog) \in Seq(Callers) /\ Head(backlog) = backlog[1] /\ 1 \in DOMAIN backlog
        /\ \A i \in DOMAIN Tail(backlog) :
             i + 1 \in DOMAIN backlog /\ Tail(backlog)[i] = backlog[i + 1]
    BY <2>1, <2>2
  <2>4. backlog[1] \in Callers
    BY <2>2, <2>3
  <2>5. TypeOK'
    BY <1>1, <2>1, <2>3, <2>4 DEF TypeOK
  <2>6. Connected'
    BY <1>1, <2>1, <2>3, <2>4 DEF Connected
  <2>7. NothingIsStale' /\ ResponseIsOwn'
    BY <1>1, <2>1 DEF NothingIsStale, ResponseIsOwn
  <2> QED BY <2>1, <2>5, <2>6, <2>7, QuietKeeps
<1>3. CASE AcceptFails
  <2>1. /\ pc' = "error" /\ conn' = conn /\ errno' = errno /\ response' = response
        /\ backlog' = backlog /\ call' = call /\ request' = request /\ result' = result
    BY <1>3 DEF AcceptFails
  <2>2. TypeOK'
    BY <1>1, <2>1 DEF TypeOK
  <2>3. Connected' /\ NothingIsStale' /\ ResponseIsOwn'
    BY <1>1, <2>1 DEF Connected, NothingIsStale, ResponseIsOwn
  <2> QED BY <2>1, <2>2, <2>3, QuietKeeps
<1>4. CASE SoapBeginServe
  <2>1. /\ pc = "begin" /\ call[conn] \in {"sent", "gone"} /\ pc' = "serve"
        /\ conn' = conn /\ errno' \in {errno, "other"}
        /\ response' = response /\ backlog' = backlog /\ call' = call
        /\ request' = request /\ result' = result
    BY <1>4 DEF SoapBeginServe
  <2>2. TypeOK'
    BY <1>1, <2>1 DEF TypeOK
  <2>3. Connected' /\ NothingIsStale' /\ ResponseIsOwn'
    BY <1>1, <2>1 DEF Connected, NothingIsStale, ResponseIsOwn
  <2> QED BY <2>1, <2>2, <2>3, QuietKeeps
<1> QED BY <1>2, <1>3, <1>4

\* The library's own faults.
LEMMA RefusalKeeps ==
    ASSUME CalcInv, BeginServeFails \/ ServeUnknown
    PROVE  CalcInv'
<1>1. TypeOK /\ Connected
  BY DEF CalcInv
<1>2. conn \in Callers /\ call[conn] \in {"cut", "sent", "gone"}
  BY <1>1 DEF Connected, BeginServeFails, ServeUnknown, HasLeft
<1>3. /\ SendFault(LibraryFault) /\ errno' \in {"EDOM", "other"}
      /\ ~HasLeft(conn) => request[conn].op \in {"unknown", "malformed"}
  BY <1>1 DEF BeginServeFails, ServeUnknown, TypeOK
<1>4. LibraryFault \in FaultStrings
  BY DEF FaultStrings
<1>5. ~HasLeft(conn) => Deserved(request[conn], LibraryFault)
  BY <1>3 DEF Deserved, Unreadable
<1> QED BY <1>2, <1>3, <1>4, <1>5, FaultKeeps

\* The five stubs.
LEMMA ServeKeeps ==
    ASSUME CalcInv, NEW op \in Ops, Serve(op)
    PROVE  CalcInv'
<1> DEFINE req == request[conn]
           read == GetRequest(req.version, req.elements, req.independents)
<1>1. TypeOK /\ Connected /\ NothingIsStale
  BY DEF CalcInv
<1>2. pc = "serve" /\ req.op = op
  BY DEF Serve
<1>3. conn \in Callers /\ call[conn] \in {"sent", "gone"} /\ req \in AllRequests
  BY <1>1, <1>2 DEF Connected
<1>4. IsRequest(req)
  BY <1>3, RequestsAre
<1>5. errno = "other"
  BY <1>1, <1>2 DEF NothingIsStale, TypeOK
<1> HIDE DEF req, read
<1>6. /\ read.error \in BOOLEAN /\ read.error => Unreadable(req)
      /\ ~read.error => ~Unreadable(req)
      /\ ~read.error => \A t \in {"a", "b"} :
           read.field[t] = Meaning(req, t) /\ read.field[t] \in Numbers
  <2>1. op \notin {"unknown", "malformed"}
    BY DEF Ops
  <2> QED BY <1>2, <1>4, <2>1, RequestRead DEF read
<1>7. CASE read.error /\ SendFault(LibraryFault) /\ errno' = errno
  <2>1. LibraryFault \in FaultStrings /\ Deserved(req, LibraryFault)
    BY <1>6, <1>7 DEF FaultStrings, Deserved
  <2> QED BY <1>3, <1>5, <1>7, <2>1, FaultKeeps DEF req
<1>8. ASSUME ~read.error, NEW done, done = Compute(op, read.field["a"], read.field["b"]),
             errno' = done.errno,
             \/ done.fault # Null /\ SendFault(done.fault)
             \/ /\ done.fault = Null /\ response' = PutResponse(done.value) /\ pc' = "respond"
                /\ UNCHANGED <<conn, backlog, call, request, result>>
      PROVE  CalcInv'
  <2> DEFINE x == read.field["a"]
             y == read.field["b"]
  <2>1. /\ x = Meaning(req, "a") /\ x \in Numbers /\ y = Meaning(req, "b") /\ y \in Numbers
        /\ ~Unreadable(req)
    BY <1>6, <1>8
  <2> HIDE DEF x, y
  <2>2. done = Compute(op, x, y)
    BY <1>8 DEF x, y
  <2>3. /\ done.value = <<op, x, y>> /\ done.value \in Results
        /\ done.errno \in {"EDOM", "other"}
        /\ done.fault = Null => /\ done.errno = "other"
                                /\ op = "div" => y # Zero
                                /\ op = "pow" => <<x, y>> \in PowDomain
        /\ done.fault # Null =>
             /\ done.fault \in FaultStrings
             /\ \/ op = "div" /\ y = Zero /\ done.fault = DivideByZero(x)
                \/ op = "pow" /\ <<x, y>> \notin PowDomain /\ done.fault = PowerOf(x, y)
    BY <1>5, <2>1, <2>2, Computed
  <2>4. CASE done.fault # Null /\ SendFault(done.fault)
    <3>1. Deserved(req, done.fault)
      BY <1>2, <2>1, <2>3, <2>4 DEF Deserved
    <3> QED BY <1>3, <1>8, <2>3, <2>4, <3>1, FaultKeeps DEF req
  <2>5. CASE /\ done.fault = Null /\ response' = PutResponse(done.value) /\ pc' = "respond"
             /\ UNCHANGED <<conn, backlog, call, request, result>>
    <3>1. /\ conn' = conn /\ backlog' = backlog /\ call' = call /\ request' = request
          /\ result' = result
      BY <2>5
    <3>2. Answers(req, done.value)
      BY <1>2, <2>1, <2>3, <2>5 DEF Answers
    <3>3. TypeOK'
      BY <1>1, <1>8, <2>3, <2>5, <3>1 DEF TypeOK
    <3>4. Connected'
      BY <1>1, <1>2, <2>5, <3>1 DEF Connected
    <3>5. NothingIsStale'
      BY <1>8, <2>3, <2>5 DEF NothingIsStale
    <3>6. ResponseIsOwn'
      BY <2>3, <2>5, <3>1, <3>2 DEF ResponseIsOwn, req
    <3> QED BY <3>1, <3>3, <3>4, <3>5, <3>6, QuietKeeps
  <2> QED BY <1>8, <2>4, <2>5
<1>9. \/ read.error /\ SendFault(LibraryFault) /\ errno' = errno
      \/ /\ ~read.error
         /\ \E done \in {Compute(op, read.field["a"], read.field["b"])} :
              /\ errno' = done.errno
              /\ IF done.fault # Null THEN SendFault(done.fault)
                 ELSE /\ response' = PutResponse(done.value) /\ pc' = "respond"
                      /\ UNCHANGED <<conn, backlog, call, request, result>>
  BY DEF Serve, read, req
<1> QED BY <1>7, <1>8, <1>9

\* The answer goes to the caller it was computed for.
LEMMA RespondKeeps ==
    ASSUME CalcInv, Respond
    PROVE  CalcInv'
<1>1. /\ TypeOK /\ Connected /\ NothingIsStale /\ ResponseIsOwn
      /\ AnswerIsOwn /\ FaultIsDeserved
  BY DEF CalcInv
<1>2. /\ pc = "respond" /\ pc' = "accept" /\ conn' = Null /\ response' = <<>>
      /\ errno' = errno /\ backlog' = backlog /\ request' = request
  BY DEF Respond
<1>3. conn \in Callers /\ call[conn] \in {"sent", "gone"}
  BY <1>1, <1>2 DEF Connected
<1>4. PICK value \in Results : response = PutResponse(value) /\ Answers(request[conn], value)
  BY <1>1, <1>2 DEF ResponseIsOwn
<1>5. \/ call' = call /\ result' = result
      \/ /\ call' = [call EXCEPT ![conn] = "ok"]
         /\ result' = [result EXCEPT ![conn] = value]
  <2>1. CASE HasLeft(conn)
    BY <2>1 DEF Respond
  <2>2. CASE ~HasLeft(conn)
    <3>1. Returns(conn, PutResponse(value))
      BY <1>4, <2>2 DEF Respond
    <3> DEFINE read == GetResponse(PutResponse(value))
    <3>2. /\ call' = [call EXCEPT ![conn] = IF read.error THEN "failed" ELSE "ok"]
          /\ result' = [result EXCEPT ![conn] =
                IF read.field["result"] = Null THEN Zero ELSE read.field["result"]]
      BY <3>1 DEF Returns
    <3>3. ~read.error /\ read.field["result"] = value /\ value # Null
      BY ResponseRead, TextsAssumption
    <3> HIDE DEF read
    <3> QED BY <3>2, <3>3
  <2> QED BY <2>1, <2>2
<1>6. \A c \in Callers :
        \/ call'[c] = call[c] /\ result'[c] = result[c]
        \/ c = conn /\ call'[c] = "ok" /\ result'[c] = value
  BY <1>1, <1>5 DEF TypeOK
<1>7. TypeOK'
  BY <1>1, <1>2, <1>5 DEF TypeOK
<1>8. Connected'
  <2>1. \A i \in DOMAIN backlog : backlog[i] \in Callers
    BY <1>1 DEF TypeOK
  <2>2. \A c \in Callers : call'[c] = "idle" <=> call[c] = "idle"
    BY <1>3, <1>6
  <2>3. \A c \in Callers : call'[c] \in {"sent", "gone", "ok", "fault"}
          => call[c] \in {"sent", "gone", "ok", "fault"}
    BY <1>3, <1>6
  <2> QED BY <1>1, <1>2, <2>1, <2>2, <2>3 DEF Connected
<1>9. NothingIsStale' /\ ResponseIsOwn'
  BY <1>1, <1>2 DEF NothingIsStale, ResponseIsOwn
<1>10. AnswerIsOwn'
  BY <1>1, <1>2, <1>4, <1>6 DEF AnswerIsOwn
<1>11. FaultIsDeserved'
  <2>1. \A c \in Callers : call'[c] = "fault" => call[c] = "fault" /\ result'[c] = result[c]
    BY <1>6
  <2> QED BY <1>1, <1>2, <2>1 DEF FaultIsDeserved
<1> QED BY <1>7, <1>8, <1>9, <1>10, <1>11 DEF CalcInv

\* After a fault nothing is answered any more.
LEMMA StopKeeps ==
    ASSUME CalcInv, RespondFails \/ MainStops
    PROVE  CalcInv'
<1>1. TypeOK /\ Connected /\ AnswerIsOwn /\ FaultIsDeserved
  BY DEF CalcInv
<1>2. CASE RespondFails
  <2>1. /\ pc' = "error" /\ response' = <<>> /\ conn' = conn /\ errno' = errno
        /\ backlog' = backlog /\ call' = call /\ request' = request /\ result' = result
    BY <1>2 DEF RespondFails
  <2>2. TypeOK'
    BY <1>1, <2>1 DEF TypeOK
  <2>3. Connected' /\ NothingIsStale' /\ ResponseIsOwn'
    BY <1>1, <2>1 DEF Connected, NothingIsStale, ResponseIsOwn
  <2> QED BY <2>1, <2>2, <2>3, QuietKeeps
<1>3. CASE MainStops
  <2>1. /\ pc' = "stopped" /\ conn' = Null /\ backlog' = <<>>
        /\ call' = [c \in Callers |->
                       IF call[c] \in {"calling", "sent"} THEN "failed" ELSE call[c]]
        /\ errno' = errno /\ response' = response /\ request' = request /\ result' = result
    BY <1>3 DEF MainStops
  <2>2. \A c \in Callers :
          /\ call'[c] = "idle" <=> call[c] = "idle"
          /\ call'[c] \in {"sent", "gone", "ok", "fault"} => call'[c] = call[c]
    BY <1>1, <2>1 DEF TypeOK
  <2>3. TypeOK'
    BY <1>1, <2>1 DEF TypeOK
  <2>4. Connected' /\ NothingIsStale' /\ ResponseIsOwn'
    BY <1>1, <2>1, <2>2 DEF Connected, NothingIsStale, ResponseIsOwn
  <2>5. AnswerIsOwn' /\ FaultIsDeserved'
    BY <1>1, <2>1, <2>2 DEF AnswerIsOwn, FaultIsDeserved
  <2> QED BY <2>3, <2>4, <2>5 DEF CalcInv
<1> QED BY <1>2, <1>3

-----------------------------------------------------------------------------
(* The theorems *)

\* At first nobody has asked for anything.
LEMMA CalcInit == Init => CalcInv
<1> SUFFICES ASSUME Init PROVE CalcInv
  OBVIOUS
<1>1. TypeOK
  BY DEF Init, TypeOK
<1>2. Connected /\ NothingIsStale /\ ResponseIsOwn
  BY DEF Init, Connected, NothingIsStale, ResponseIsOwn
<1>3. AnswerIsOwn /\ FaultIsDeserved
  BY DEF Init, AnswerIsOwn, FaultIsDeserved
<1> QED BY <1>1, <1>2, <1>3 DEF CalcInv

\* Every step keeps the invariant.
LEMMA CalcNext == CalcInv /\ [Next]_vars => CalcInv'
<1> SUFFICES ASSUME CalcInv, [Next]_vars PROVE CalcInv'
  OBVIOUS
<1>1. CASE SoapAccept \/ AcceptFails \/ SoapBeginServe
  BY <1>1, AcceptKeeps
<1>2. CASE BeginServeFails \/ ServeUnknown
  BY <1>2, RefusalKeeps
<1>3. CASE ServeAdd \/ ServeSub \/ ServeMul \/ ServeDiv \/ ServePow
  <2>1. \E op \in Ops : Serve(op)
    BY <1>3 DEF ServeAdd, ServeSub, ServeMul, ServeDiv, ServePow, Ops
  <2> QED BY <2>1, ServeKeeps
<1>4. CASE Respond
  BY <1>4, RespondKeeps
<1>5. CASE RespondFails \/ MainStops
  BY <1>5, StopKeeps
<1>6. CASE \E c \in Callers : Caller(c)
  BY <1>6, CallersKeep
<1>7. CASE UNCHANGED vars
  <2>1. /\ pc' = pc /\ conn' = conn /\ errno' = errno /\ response' = response
        /\ backlog' = backlog /\ call' = call /\ request' = request /\ result' = result
    BY <1>7 DEF vars
  <2>2. TypeOK'
    BY <2>1 DEF CalcInv, TypeOK
  <2>3. Connected' /\ NothingIsStale' /\ ResponseIsOwn'
    BY <2>1 DEF CalcInv, Connected, NothingIsStale, ResponseIsOwn
  <2> QED BY <2>1, <2>2, <2>3, QuietKeeps
<1> QED BY <1>1, <1>2, <1>3, <1>4, <1>5, <1>6, <1>7 DEF Next, Server, ServeRequest

\* Whatever is called and however many call, the invariant holds.
THEOREM CalcInvHolds == Spec => []CalcInv
BY CalcInit, CalcNext, PTL DEF Spec

\* Every variable has its type: also for requests of any length, what has been
\* read of them is numbers.
THEOREM TypeCorrect == Spec => []TypeOK
<1>1. CalcInv => TypeOK
  BY DEF CalcInv
<1> QED BY <1>1, CalcInvHolds, PTL

\* A call that returns SOAP_OK has the result of its own operation on its own
\* numbers, whatever the others have sent.
THEOREM AnswersAreOwn == Spec => []AnswerIsOwn
<1>1. CalcInv => AnswerIsOwn
  BY DEF CalcInv
<1> QED BY <1>1, CalcInvHolds, PTL

\* A fault is the answer to a request that deserves it, with its numbers.
THEOREM FaultsAreDeserved == Spec => []FaultIsDeserved
<1>1. CalcInv => FaultIsDeserved
  BY DEF CalcInv
<1> QED BY <1>1, CalcInvHolds, PTL
=============================================================================
