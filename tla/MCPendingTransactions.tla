------------------------ MODULE MCPendingTransactions ------------------------
(***************************************************************************)
(* Two ordinary transactions, a, which may be included long after it is    *)
(* first seen, and b, which needs it, and two of an elected witness: v,    *)
(* after which a fails, and w, which needs v.                              *)
(***************************************************************************)
EXTENDS PendingTransactions

CONSTANTS a, b, v, w

MCExpiration == [x \in Tx |-> IF x = a THEN 9 ELSE 3]
MCNeeds == [x \in Tx |-> IF x = b THEN {a} ELSE IF x = w THEN {v} ELSE {}]
MCClash == [x \in Tx |-> IF x = a THEN {v} ELSE {}]
MCWitnessTx == Tx \cap {v, w}
MCSize == [x \in Tx |-> 1]
==============================================================================
