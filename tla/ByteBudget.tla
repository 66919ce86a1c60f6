------------------------------ MODULE ByteBudget ------------------------------
(***************************************************************************)
(* ByteBudget of volumes/_materialize.py: a counting budget under one      *)
(* threading.Condition that bounds the chunk bytes the pool's workers hold *)
(* in memory.  A caller is one call of _fetch_chunk: it calls acquire      *)
(* once, and release once in its finally clause.                           *)
(*                                                                         *)
(* Everything a thread does while it holds the condition's lock is one     *)
(* step: the test of acquire together with the admission or with the       *)
(* parking in wait() (which gives the lock up atomically), and the         *)
(* decrement of release together with its notify_all.  A woken caller      *)
(* takes the lock again and repeats the test.                              *)
(***************************************************************************)
EXTENDS Naturals, FiniteSets

CONSTANTS
    Callers,    \* the calls of _fetch_chunk
    Charge,     \* Charge[c]: the bytes call c asks for
    Limit       \* options.max_bytes_in_flight

ASSUME ChargeAssumption == Charge \in [Callers -> Nat]
ASSUME LimitAssumption == Limit \in Nat \ {0}    \* __init__ refuses limit <= 0

VARIABLES
    inFlight,   \* self._in_flight
    call        \* where each call stands

budgetVars == <<inFlight, call>>

CallState == {"idle", "trying", "waiting", "holding", "released"}

InState(s) == {c \in Callers : call[c] = s}

Init ==
    /\ inFlight = 0
    /\ call = [c \in Callers |-> "idle"]

-----------------------------------------------------------------------------

\* Mutant: a call larger than the limit is not let through alone.
MustWait_Oversize(c) == inFlight + Charge[c] > Limit

\* Mutant: the test ignores what the call itself is about to add.
MustWait_IgnoresSize(c) == inFlight >= Limit

\* The condition of acquire's while loop.
MustWait(c) ==
    /\ inFlight # 0
    /\ inFlight + Charge[c] > Limit

\* A worker enters acquire.
Call(c) ==
    /\ call[c] = "idle"
    /\ call' = [call EXCEPT ![c] = "trying"]
    /\ UNCHANGED inFlight

\* acquire leaves its loop and takes the bytes.
Admit(c) ==
    /\ call[c] = "trying"
    /\ ~ MustWait(c)
    /\ inFlight' = inFlight + Charge[c]
    /\ call' = [call EXCEPT ![c] = "holding"]

\* acquire parks in self._condition.wait().
Park(c) ==
    /\ call[c] = "trying"
    /\ MustWait(c)
    /\ call' = [call EXCEPT ![c] = "waiting"]
    /\ UNCHANGED inFlight

\* Mutant: release forgets notify_all.
Woken_Nobody(c) == [call EXCEPT ![c] = "released"]

\* The calls after c left and notify_all woke every parked one.
Woken(c) ==
    [d \in Callers |->
        IF d = c THEN "released"
        ELSE IF call[d] = "waiting" THEN "trying"
        ELSE call[d]]

\* Mutant: release gives back one copy, acquire took two.
Release_OneCopy(c) ==
    /\ call[c] = "holding"
    /\ inFlight' = inFlight - Charge[c] \div 2
    /\ call' = Woken(c)

\* release gives the bytes back and wakes all.
Release(c) ==
    /\ call[c] = "holding"
    /\ inFlight' = inFlight - Charge[c]
    /\ call' = Woken(c)

Next == \E c \in Callers : Call(c) \/ Admit(c) \/ Park(c) \/ Release(c)

\* A thread that can take the lock eventually does, and a chunk's read always
\* ends (bounded retries, timeouts), so its finally clause runs.  Nothing
\* forces the pool to start a call.
Fairness ==
    \A c \in Callers : WF_budgetVars(Admit(c) \/ Park(c)) /\ WF_budgetVars(Release(c))

Spec == Init /\ [][Next]_budgetVars /\ Fairness

-----------------------------------------------------------------------------

\* inFlight counts bytes and each call is in one of its states.
TypeOK ==
    /\ inFlight \in Nat
    /\ call \in [Callers -> CallState]

\* The bytes the holding calls asked for, each byte tagged with its call.
HeldBytes == UNION {{c} \X (1 .. Charge[c]) : c \in InState("holding")}

\* The counter is the sum of the charges of the calls that hold the budget:
\* no path of acquire or release loses or double-counts a byte.
Accounting == inFlight = Cardinality(HeldBytes)

\* The bytes in memory stay within the limit, unless a single call larger
\* than the limit went through: then it is the only call that holds any.
BudgetBound ==
    \/ inFlight <= Limit
    \/ \E c \in InState("holding") :
           \A d \in InState("holding") \ {c} : Charge[d] = 0

\* A call is parked only while some other call still holds bytes, whose
\* release will wake it: the wakeup the parked call needs is never lost.
NoLostWakeup ==
    InState("waiting") # {} => \E c \in InState("holding") : Charge[c] > 0

\* Every call of acquire returns, the ones larger than the limit included
\* (the class comment's "allowed through alone rather than deadlocking").
EveryCallAdmitted ==
    \A c \in Callers : call[c] = "trying" ~> call[c] \in {"holding", "released"}

=============================================================================
