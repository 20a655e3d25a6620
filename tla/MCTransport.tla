------------------------------ MODULE MCTransport ------------------------------
EXTENDS TransportProperties
\* Heads with a second CR where the end of the head may begin.
Tokens(values) == [i \in DOMAIN values |-> << values[i], 0, 0 >>]
SomeHeads == {Tokens(<< "cr", "cr", "lf", "cr", "lf" >>), Tokens(<< "cr", "lf", "cr", "cr", "lf", "cr", "lf" >>)}
\* Version 5 without obfuscation reads as 6 does.
SomeDisguises == {4, 5} \X {"http", "tls"} \cup {4, 6} \X {"none"}
Rec(pad, len) == [pad |-> pad, len |-> len]
SomeRecords == << {Rec(1, 2)}, {Rec(0, 1), Rec(0, 0), Rec(1, 0)}, {Rec(0, 1)} >>
=============================================================================
