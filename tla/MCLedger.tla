------------------------------- MODULE MCLedger -------------------------------
(***************************************************************************)
(* Three interchangeable accounts and prices that do not divide evenly.    *)
(***************************************************************************)
EXTENDS Ledger

MCPrices == {[base |-> 2, quote |-> 3], [base |-> 3, quote |-> 2]}
MCFeeds == {[hive |-> 3, hbd |-> 2], [hive |-> 1, hbd |-> 3]}
MCMoves == {[HIVE |-> 0, HBD |-> 2]}
MCEscrowMoves ==
  {[amount |-> [HIVE |-> 1, HBD |-> 1], fee |-> [HIVE |-> 1, HBD |-> 0]]}
AccountSymmetry == Permutations(Account)
===============================================================================
