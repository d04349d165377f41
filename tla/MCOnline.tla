------------------------------ MODULE MCOnline ------------------------------
(* OnlineCircuit with p = 2, DELTA = 4 and two runs: requests with each    *)
(* rotation, and pads in and out of range.                                 *)
EXTENDS OnlineCircuit

MCRequests ==
    {[k \in Runs |-> [e |-> [i \in Coords |-> (x * i + 3 * k) % Q], b_bar_prime |-> (z + k) % DELTA]] :
        x \in {0, 5, 7}, z \in {0, 1, 3}}
MCPadTables ==
    {[k \in Runs |-> [j \in Zdelta |-> (j + k) % P]],
     [k \in Runs |-> [j \in Zdelta |-> IF j = 1 THEN 1 ELSE 0]],
     [k \in Runs |-> [j \in Zdelta |-> IF j = 2 THEN Pf - 1 ELSE IF j = 3 THEN P ELSE 1]]}
=============================================================================
