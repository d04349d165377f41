-------------------------- MODULE MCPreprocCircuit --------------------------
(* PreprocCircuit with q = 4, three blocks in four rows and three          *)
(* evaluations in 16: masks that are all 0 (the largest quotient), all     *)
(* q - 1, and mixed, and openings of m in and out of Zq.                   *)
EXTENDS PreprocCircuit

MCMaskTables ==
    {[v \in EvaluationIds |-> [i \in Blocks |-> [b \in Bit |-> x * (v + i + 2 * b + 1) % Q]]] : x \in {0, 1, 3}}
MCSumOpenings == {0, 1, 3, Q + 1}
=============================================================================
