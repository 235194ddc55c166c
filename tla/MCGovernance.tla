----------------------------- MODULE MCGovernance -----------------------------
(***************************************************************************)
(* Three accounts: b votes for itself and for a, and c for itself.  With   *)
(* the null account they can form a chain longer than votes are passed.    *)
(***************************************************************************)
EXTENDS Governance

CONSTANTS a, b, c

MCProxies == [x \in Account \cup {Null} |-> IF x = a THEN b ELSE NoProxy]
===============================================================================
