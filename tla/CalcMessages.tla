---------------------------- MODULE CalcMessages ----------------------------
(***************************************************************************)
(* What the serializers of soapC.c make of a call and of its answer.  A     *)
(* message is the sequence of the elements inside ns2:add, ns2:addResponse  *)
(* and so on; the envelope around it is read and written by the library.    *)
(* The five operations have serializers that differ in their names only.    *)
(***************************************************************************)
EXTENDS Integers, Sequences

CONSTANTS
    Numbers,    \* doubles a caller uses
    Zero,       \* 0.0, what soap_default_double puts
    Garbage,    \* text that is no number
    Ids,        \* names of independent elements
    Null        \* no pointer

Ops == {"add", "sub", "mul", "div", "pow"}

\* The double that operation op gives for x and y, left uninterpreted.
Results == Ops \X Numbers \X Numbers

\* The string of a fault: that of ns2__div, that of ns2__pow, and one for all
\* that the library has.
DivideByZero(x) == <<"Trying to divide", x, "by zero">>
PowerOf(x, y)   == <<"Can't take power", x, y>>
LibraryFault    == <<"of the library">>

FaultStrings ==
    {LibraryFault} \cup {DivideByZero(x) : x \in Numbers}
                   \cup {PowerOf(x, y) : x, y \in Numbers}

ASSUME TextsAssumption ==
    /\ Zero \in Numbers /\ Garbage \notin Numbers
    /\ Ids \cap (Numbers \cup {Garbage, Null}) = {}
    /\ Garbage \notin Results \cup FaultStrings \cup {"Client"}
    /\ Null \notin Numbers \cup {Garbage} \cup Results \cup FaultStrings

\* Its text may be in an independent element, which follows the message and
\* which an href names.  "refused" stands for what soap_ignore_element does not
\* let pass: an element of the envelope, or one that must be understood.
Element == [tag : {"a", "b", "result", "other", "refused"},
            text : Numbers \cup {Garbage} \cup Ids]

\* The elements of a fault in SOAP 1.1, and those that SOAP 1.2 has for them.
FaultTags == {"faultcode", "faultstring", "SOAP-ENV:Code", "SOAP-ENV:Reason"}

\* An independent element: the name hrefs know it by, if it has one, and what
\* its xsi:type or its name makes of it: a double, something else that the
\* switch of soap_getelement knows, nothing it knows, or "refused" as above.
Independent == [id : Ids \cup {Null},
                kind : {"double", "string", "plain", "refused"},
                text : Numbers \cup {Garbage}]

\* soap_out_ns2__add: both numbers are embedded.
PutRequest(x, y) == <<[tag |-> "a", text |-> x], [tag |-> "b", text |-> y]>>

\* soap_out_ns2__addResponse
PutResponse(value) == <<[tag |-> "result", text |-> value]>>

\* soap_out_SOAP_ENV__Fault: what soap_sender_fault has not set is NULL and
\* leaves no element.
PutFault(version, string) ==
    LET Written(code, reason) == <<[tag |-> code, text |-> "Client"],
                                   [tag |-> reason, text |-> string]>>
    IN  IF version = 1 THEN Written("faultcode", "faultstring")
                       ELSE Written("SOAP-ENV:Code", "SOAP-ENV:Reason")

\* soap_ignore_element
Ignored(read, refused) == [read EXCEPT !.error = refused]

\* Mutant: soap_flag_a and soap_flag_b are not counted down.
TakeElementAgain(read, e) ==
    IF read.error THEN read
    ELSE IF e.tag \notin read.flags THEN Ignored(read, e.tag = "refused")
    ELSE IF e.text = Garbage THEN [read EXCEPT !.error = TRUE]
    ELSE [read EXCEPT !.field[e.tag] = e.text]

\* One turn of the for (;;) of soap_in_ns2__add.  An element whose flag is
\* still up is taken and its flag lowered; any other is ignored, because the
\* context is not SOAP_XML_STRICT; a text that is no number ends the reading.
TakeElement(read, e) ==
    IF read.error THEN read
    ELSE IF e.tag \notin read.flags THEN Ignored(read, e.tag = "refused")
    ELSE IF e.text = Garbage THEN [read EXCEPT !.error = TRUE]
    ELSE [read EXCEPT !.field[e.tag] = e.text, !.flags = @ \ {e.tag}]

Named(read, e) == {t \in DOMAIN read.field : read.field[t] = e.id}

\* soap_getelement decodes what it knows the type of: by the id, if one of the
\* hrefs or an earlier element has it, or by the xsi:type or the name.
Known(read, hrefs, e) ==
    e.id \in read.ids \/ hrefs # {} \/ e.kind \in {"double", "string"}

\* It fails on an id it has read before, on another type than the hrefs are for,
\* and on a text that is no double where one is read.
GetElement(read, hrefs, e) ==
    IF \/ e.id \in read.ids
       \/ hrefs # {} /\ e.kind = "string"
       \/ e.text = Garbage /\ (hrefs # {} \/ e.kind = "double")
    THEN [read EXCEPT !.error = TRUE]
    ELSE [read EXCEPT !.ids = @ \cup ({e.id} \ {Null}),
                      !.field = [t \in DOMAIN @ |-> IF t \in hrefs THEN e.text ELSE @[t]]]

\* One turn of the for (;;) of soap_getindependent.
TakeIndependent(read, e) ==
    LET hrefs == Named(read, e)
    IN  IF read.error THEN read
        ELSE IF Known(read, hrefs, e) THEN GetElement(read, hrefs, e)
        ELSE Ignored(read, e.kind = "refused")

\* All turns, from what has been read before.
TakeElements(read, elements) ==
    LET after[i \in 0 .. Len(elements)] ==
            IF i = 0 THEN read ELSE TakeElement(after[i - 1], elements[i])
    IN  after[Len(elements)]

TakeIndependents(read, independents) ==
    LET after[i \in 0 .. Len(independents)] ==
            IF i = 0 THEN read ELSE TakeIndependent(after[i - 1], independents[i])
    IN  after[Len(independents)]

\* Nothing is required: a field no element gives keeps its default.
Unread(default) ==
    [error |-> FALSE, ids |-> {}, flags |-> DOMAIN default, field |-> default]

\* Only a SOAP 1.1 message has independent elements; what follows the operation
\* in any other is skipped.  soap_end_recv refuses an href that has led nowhere.
GetRequest(version, elements, independents) ==
    LET first == TakeElements(Unread([t \in {"a", "b"} |-> Zero]), elements)
        read  == IF version = 1 THEN TakeIndependents(first, independents) ELSE first
    IN  [read EXCEPT !.error = @ \/ \E t \in {"a", "b"} : read.field[t] \in Ids]

\* The answers of this server have no independent elements.
GetResponse(elements) == TakeElements(Unread([t \in {"result"} |-> Null]), elements)

\* soap_getfault, and soap_faultstring of what it has read.
GetFault(version, elements) ==
    LET field == TakeElements(Unread([t \in FaultTags |-> Null]), elements).field
    IN  IF version = 2 /\ field["SOAP-ENV:Reason"] # Null
        THEN field["SOAP-ENV:Reason"] ELSE field["faultstring"]
=============================================================================
