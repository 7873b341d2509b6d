--------------------------- MODULE MCSearchConsole ---------------------------
EXTENDS SearchConsoleProperties

CONSTANTS c1, c2

TwoCalls == {c1, c2}

(* One call asks anything but a disconnect; the other disconnects.         *)
AskedOf == [c \in TwoCalls |-> IF c = c1 THEN Operations \ {"disconnect"} ELSE {"disconnect"}]
=============================================================================
