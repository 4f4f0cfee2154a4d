--------------------------- MODULE MCCalcService ---------------------------
(* A finite instance of CalcService for TLC.  m stands for a negative number *)
(* that is not whole: pow(m, m) is a domain error.                           *)
EXTENDS CalcService

CONSTANTS m, i1, i2

MCNumbers   == {Zero, m}
MCIds       == {i1, i2}
MCPowDomain == (MCNumbers \X MCNumbers) \ {<<m, m>>}

El(t, x) == [tag |-> t, text |-> x]
Ind(i, k, x) == [id |-> i, kind |-> k, text |-> x]

Request(name, body, after) ==
    [op |-> name, version |-> 1, elements |-> body, independents |-> after]

DivRequest(body, after) == Request("div", body, after)
Plain == <<El("a", m), El("b", m)>>
Refers == <<El("a", i1), El("b", m)>>
Soap12(req) == [req EXCEPT !.version = 2]

\* Elements in the other order, twice, missing, unknown, or without a number;
\* numbers that are referred to, once or twice, and references that lead to two
\* elements, or to one that says it is no number; elements nothing refers to,
\* with and without a type; and independent elements in SOAP 1.2, where a
\* reference leads nowhere.
MCRequests ==
    {DivRequest(<<El("b", i2), El("a", i1)>>,
                <<Ind(i2, "plain", m), Ind(i1, "double", Zero)>>),
     DivRequest(<<El("a", i1), El("a", Zero), El("b", i1)>>, <<Ind(i1, "refused", m)>>),
     DivRequest(<<El("a", Garbage), El("b", m)>>, <<>>),
     DivRequest(<<El("b", m), El("refused", m)>>, <<>>),
     DivRequest(Refers, <<Ind(i1, "plain", m), Ind(i1, "plain", Zero)>>),
     DivRequest(Refers, <<Ind(i1, "string", m)>>),
     DivRequest(Refers, <<Ind(Null, "string", Garbage), Ind(i1, "plain", Zero)>>),
     DivRequest(Plain, <<Ind(i2, "plain", Garbage), Ind(i2, "plain", Zero)>>),
     DivRequest(Plain, <<Ind(i2, "double", m), Ind(i2, "plain", Zero)>>),
     DivRequest(Plain, <<Ind(Null, "double", Garbage)>>),
     DivRequest(Plain, <<Ind(i2, "refused", m)>>),
     Soap12(DivRequest(<<El("a", m), El("other", m)>>, <<Ind(i1, "double", Garbage)>>)),
     Soap12(DivRequest(Refers, <<Ind(i1, "double", m)>>)),
     Request("unknown", <<>>, <<>>), Request("malformed", <<>>, <<>>)}
=============================================================================
