--------------------------- MODULE MCFtpStartup ---------------------------
(* FtpStartup for TLC: two ports, three addresses, up to three words. *)
EXTENDS FtpStartup

\* A number for PORT and a text for ADDRESS; "lan+" is longer than an address
\* and its first 15 characters are the address "lan".
MCTexts == {"21", "2121", "lo", "lan", "lan+"}

MCATOI == [t \in MCTexts |->
    CASE t = "21" -> 21 [] t = "2121" -> 2121 [] t = "lo" -> 127 [] OTHER -> 192]

MCSTRNCPY == [t \in MCTexts |-> IF t = "lan+" THEN "lan" ELSE t]
=============================================================================
