------------------------------- MODULE Transfer -------------------------------
(***************************************************************************)
(* What the transfer of a volume's files promises to the code that calls   *)
(* it, whatever the pool inside does: files are created, chunks land in    *)
(* files that exist, and the outcome is final.                             *)
(*   - It returns only with every file created, every chunk landed and     *)
(*     nothing having gone wrong.                                          *)
(*   - It raises only after something went wrong, and from then on nothing *)
(*     is written any more, so the caller may clean up.                    *)
(*   - Interrupted while it waits for its threads, it abandons them: they  *)
(*     may go on writing.  That is the one case a caller must not take for *)
(*     a finished transfer.                                                *)
(***************************************************************************)
EXTENDS Naturals

CONSTANTS
    Files,      \* the regular files to materialize
    Chunks,     \* the chunks to fetch
    FileOf      \* FileOf[c]: the file that holds chunk c

VARIABLES
    created,    \* files that exist at their full size
    landed,     \* chunks whose bytes are in their file
    trouble,    \* an operation failed or the user interrupted
    outcome     \* "running", "returned", "raised" or "abandoned"

transferVars == <<created, landed, trouble, outcome>>

TypeOK ==
    /\ created \subseteq Files
    /\ landed \subseteq Chunks
    /\ trouble \in BOOLEAN
    /\ outcome \in {"running", "returned", "raised", "abandoned"}

Init ==
    /\ created = {}
    /\ landed = {}
    /\ trouble = FALSE
    /\ outcome = "running"

\* Threads still work for the transfer.
Active == outcome \in {"running", "abandoned"}

Create(f) ==
    /\ Active
    /\ f \notin created
    /\ created' = created \cup {f}
    /\ UNCHANGED <<landed, trouble, outcome>>

Land(c) ==
    /\ Active
    /\ c \notin landed
    /\ FileOf[c] \in created
    /\ landed' = landed \cup {c}
    /\ UNCHANGED <<created, trouble, outcome>>

GoWrong ==
    /\ Active
    /\ trouble' = TRUE
    /\ UNCHANGED <<created, landed, outcome>>

Return ==
    /\ outcome = "running"
    /\ ~ trouble
    /\ created = Files
    /\ landed = Chunks
    /\ outcome' = "returned"
    /\ UNCHANGED <<created, landed, trouble>>

Raise ==
    /\ outcome = "running"
    /\ trouble
    /\ outcome' = "raised"
    /\ UNCHANGED <<created, landed, trouble>>

Abandon ==
    /\ outcome = "running"
    /\ trouble' = TRUE
    /\ outcome' = "abandoned"
    /\ UNCHANGED <<created, landed>>

Next ==
    \/ \E f \in Files : Create(f)
    \/ \E c \in Chunks : Land(c)
    \/ GoWrong
    \/ Return
    \/ Raise
    \/ Abandon

Spec == Init /\ [][Next]_transferVars

=============================================================================
