----------------------------- MODULE MCFetchPool -----------------------------
(***************************************************************************)
(* A listed file of two chunks, an empty file and a single-chunk file      *)
(* whose chunk is larger than the budget, on three workers, with up to two *)
(* interrupts.                                                             *)
(***************************************************************************)
EXTENDS FetchPool

MCFiles == {"f", "g", "e"}
MCChunks == {"c1", "c2", "c3"}
MCFileOrder == <<"f", "e", "g">>
MCPlanOf == [f |-> <<"c1", "c2">>, g |-> <<"c3">>, e |-> <<>>]
MCListed == {"f"}
MCCharge == [c1 |-> 2, c2 |-> 4, c3 |-> 6]
MCLimit == 4
MCWorkers == {"w1", "w2", "w3"}

=============================================================================
