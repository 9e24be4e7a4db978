---------------------------- MODULE MCApoStream ----------------------------
EXTENDS ApoStream, TLC

CONSTANTS width, delay, matrix

(* Three kinds of stage stand for the twenty: width keeps its parameters   *)
(* over prepare(), delay is zeroed by it, and the matrix, in the run about *)
(* all-zero parameters, is put back to the identity.                       *)

MCOrder == <<Stage0, CHOOSE s \in Stages \ {Stage0, Conv} : TRUE, Conv>>
MCTwice == <<Stage0, Stage0, Conv>>
MCRawOrders == {MCOrder, MCTwice}

MCLeast == [s \in Stages |-> 0]
MCMost == [s \in Stages |-> IF s = width THEN 2 ELSE 1]
MCInitial == [s \in Stages |-> IF s = delay THEN 0 ELSE 1]
MCLimit == [r \in Rates |-> r]
MCRawValues == {0, 3, NaN}
=============================================================================
