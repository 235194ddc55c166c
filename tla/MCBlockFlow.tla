----------------------------- MODULE MCBlockFlow -----------------------------
(***************************************************************************)
(* BlockFlow on small trees of blocks.  A tree is given as a table from    *)
(* each block to its number, its parent and its producer.                  *)
(***************************************************************************)
EXTENDS BlockFlow

\* The blocks in use.
CONSTANT MCBlock

\* A main chain a, a fork b from the root, a fork c from block 2 and a
\* fork d from block 5.
MCTree ==
  [g  |-> <<1, "g",  "w1">>,
   a2 |-> <<2, "g",  "w1">>, a3 |-> <<3, "a2", "w2">>, a4 |-> <<4, "a3", "w3">>,
   a5 |-> <<5, "a4", "w4">>, a6 |-> <<6, "a5", "w1">>,
   b2 |-> <<2, "g",  "w4">>, b3 |-> <<3, "b2", "w1">>, b4 |-> <<4, "b3", "w4">>,
   b5 |-> <<5, "b4", "w2">>,
   c3 |-> <<3, "a2", "w3">>, c4 |-> <<4, "c3", "w1">>, c5 |-> <<5, "c4", "w2">>,
   d6 |-> <<6, "a5", "w2">>, d7 |-> <<7, "d6", "w3">>]

MCNum == [b \in MCBlock |-> MCTree[b][1]]
MCPrev == [b \in MCBlock \ {"g"} |-> MCTree[b][2]]
MCProducer == [b \in MCBlock |-> MCTree[b][3]]
MCScheduled == {"w1", "w2", "w3", "w4"}
MCConfirmable == {<<"w1", "a3">>, <<"w3", "a3">>, <<"w4", "a4">>, <<"w3", "a5">>,
                  <<"w2", "b3">>, <<"w3", "b4">>}
                   \cap (MCScheduled \X MCBlock)
==============================================================================
