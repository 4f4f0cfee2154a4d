---------------------------- MODULE MCFtpSession ----------------------------
(* Finite instances of FtpSession for TLC. *)
EXTENDS FtpSession

CONSTANTS u1, u2, p1, h1, h2, n1, n2, b1, b2

MCUsers     == {u1, u2}
MCPasswords == {p1}
MCStored    == [u \in MCUsers |-> u]
MCAccounts  == {<<u1, p1>>}
MCHosts     == {h1, h2, AnyHost}
\* Four numbers that are an address, that are zero, that are one with a digit
\* too many (192,168,100,1000), and that are none.
MCHostTexts == {"h1", "zero", "long", "bad"}
MCAddressOf == [t \in MCHostTexts |-> CASE t = "h1"   -> h1
                                       [] t = "zero" -> AnyHost
                                       [] t = "long" -> h2
                                       [] t = "bad"  -> BadHost]
MCNames     == {n1, n2}
MCBlocks    == {b1, b2}
\* Nothing, one block, and two that begin with another.
MCUploads   == {<<>>, <<b1>>, <<b2, b1>>}
\* The last pair is 65536: the port it makes is 0.
MCPortPairs == {<<4, 1>>, <<256, 0>>}
=============================================================================
