---------------------------- MODULE MCByteBudget ----------------------------
(***************************************************************************)
(* Five calls: a small one, two that fill the limit together, one larger   *)
(* than the limit by itself, and one of a zero-length chunk.               *)
(***************************************************************************)
EXTENDS ByteBudget

MCCallers == 1 .. 5
MCCharge == <<1, 2, 2, 6, 0>>
MCLimit == 4

=============================================================================
