-------------------------- MODULE ByteBudgetProofs --------------------------
(***************************************************************************)
(* Proofs about ByteBudget, for every set of calls, every charge           *)
(* and every limit.  The four invariants are mutually dependent: that the  *)
(* counter is the sum of the held charges is what turns the counter's      *)
(* value, which the code tests, into the existence of a holder, which the  *)
(* bound and the wakeup argument need.                                     *)
(***************************************************************************)
EXTENDS ByteBudget, FiniteSetTheorems, TLAPS

\* The bytes one call holds once it is admitted.
BytesOf(c) == {c} \X (1 .. Charge[c])

IInv ==
    /\ TypeOK
    /\ IsFiniteSet(HeldBytes)
    /\ Accounting
    /\ BudgetBound
    /\ NoLostWakeup

\* A call's tagged bytes are as many as its charge.
LEMMA BytesOfCard ==
    ASSUME NEW c \in Callers
    PROVE  /\ IsFiniteSet(BytesOf(c))
           /\ Cardinality(BytesOf(c)) = Charge[c]
<1>1. Charge[c] \in Nat
  BY ChargeAssumption
<1>2. IsFiniteSet(1 .. Charge[c]) /\ Cardinality(1 .. Charge[c]) = Charge[c]
  BY <1>1, FS_Interval
<1>3. IsFiniteSet({c}) /\ Cardinality({c}) = 1
  BY FS_Singleton
<1>4. /\ IsFiniteSet({c} \X (1 .. Charge[c]))
      /\ Cardinality({c} \X (1 .. Charge[c])) = Cardinality({c}) * Cardinality(1 .. Charge[c])
  BY <1>2, <1>3, FS_Product
<1>5. Cardinality({c} \X (1 .. Charge[c])) = 1 * Charge[c]
  BY <1>2, <1>3, <1>4
<1>6. 1 * Charge[c] = Charge[c]
  BY <1>1
<1> QED
  BY <1>4, <1>5, <1>6 DEF BytesOf

\* When the counter is zero, every call that holds the budget holds no byte.
LEMMA ZeroMeansNothingHeld ==
    ASSUME IsFiniteSet(HeldBytes), Accounting, inFlight = 0,
           NEW c \in InState("holding")
    PROVE  Charge[c] = 0
<1>1. HeldBytes = {}
  BY FS_EmptySet DEF Accounting
<1>2. BytesOf(c) = {}
  BY <1>1 DEF HeldBytes, BytesOf
<1>3. c \in Callers
  BY DEF InState
<1> QED
  BY <1>2, <1>3, BytesOfCard, FS_EmptySet

\* When the counter is positive, some call holds at least one byte.
LEMMA PositiveMeansSomeoneHolds ==
    ASSUME IsFiniteSet(HeldBytes), Accounting, inFlight # 0
    PROVE  \E c \in InState("holding") : Charge[c] > 0
<1>1. HeldBytes # {}
  BY FS_EmptySet DEF Accounting
<1>2. PICK c \in InState("holding") : BytesOf(c) # {}
  BY <1>1 DEF HeldBytes, BytesOf
<1>3. c \in Callers
  BY DEF InState
<1>4. Charge[c] \in Nat
  BY <1>3, ChargeAssumption
<1>5. Charge[c] # 0
  BY <1>2, <1>3, BytesOfCard, FS_EmptySet
<1> QED
  BY <1>2, <1>4, <1>5

\* The initial state satisfies the inductive invariant.
LEMMA InitIInv == Init => IInv
<1> SUFFICES ASSUME Init PROVE IInv
  OBVIOUS
<1>1. InState("holding") = {} /\ InState("waiting") = {}
  BY DEF Init, InState
<1>2. HeldBytes = {}
  BY <1>1 DEF HeldBytes
<1>3. IsFiniteSet(HeldBytes) /\ Cardinality(HeldBytes) = 0
  BY <1>2, FS_EmptySet
<1>4. TypeOK
  BY DEF Init, TypeOK, CallState
<1>5. BudgetBound
  BY LimitAssumption DEF Init, BudgetBound
<1> QED
  BY <1>1, <1>3, <1>4, <1>5 DEF IInv, Accounting, NoLostWakeup, Init

\* A step that moves only calls that hold nothing, and adds no parked call,
\* keeps the invariant.
LEMMA HoldersUnchanged ==
    ASSUME IInv, TypeOK', UNCHANGED inFlight,
           InState("holding")' = InState("holding")
    PROVE  IsFiniteSet(HeldBytes)' /\ Accounting' /\ BudgetBound'
<1>1. HeldBytes' = HeldBytes
  BY DEF HeldBytes
<1> QED
  BY <1>1 DEF IInv, Accounting, BudgetBound

LEMMA CallStep ==
    ASSUME IInv, NEW c \in Callers, Call(c)
    PROVE  IInv'
<1>1. TypeOK'
  BY DEF IInv, TypeOK, Call, CallState
<1>2. InState("holding")' = InState("holding") /\ InState("waiting")' = InState("waiting")
  BY DEF IInv, TypeOK, Call, InState
<1>3. UNCHANGED inFlight
  BY DEF Call
<1>4. NoLostWakeup'
  BY <1>2 DEF IInv, NoLostWakeup
<1> QED
  BY <1>1, <1>2, <1>3, <1>4, HoldersUnchanged DEF IInv

\* A call parks only when the counter is positive: some other call holds.
LEMMA ParkStep ==
    ASSUME IInv, NEW c \in Callers, Park(c)
    PROVE  IInv'
<1>1. TypeOK'
  BY DEF IInv, TypeOK, Park, CallState
<1>2. InState("holding")' = InState("holding")
  BY DEF IInv, TypeOK, Park, InState
<1>3. UNCHANGED inFlight
  BY DEF Park
<1>4. \E d \in InState("holding") : Charge[d] > 0
  BY PositiveMeansSomeoneHolds DEF IInv, Park, MustWait
<1>5. NoLostWakeup'
  BY <1>2, <1>4 DEF NoLostWakeup
<1> QED
  BY <1>1, <1>2, <1>3, <1>5, HoldersUnchanged DEF IInv

\* An admitted call adds exactly its bytes; it exceeds the limit only from a
\* zero counter, and then no other call holds a byte.
LEMMA AdmitStep ==
    ASSUME IInv, NEW c \in Callers, Admit(c)
    PROVE  IInv'
<1>0. /\ inFlight \in Nat /\ Charge[c] \in Nat
      /\ call[c] = "trying" /\ c \notin InState("holding")
      /\ inFlight' = inFlight + Charge[c]
  BY ChargeAssumption DEF IInv, TypeOK, Admit, InState
<1>1. TypeOK'
  BY <1>0 DEF IInv, TypeOK, Admit, CallState
<1>2. InState("holding")' = InState("holding") \cup {c}
  BY DEF IInv, TypeOK, Admit, InState
<1>3. InState("waiting")' = InState("waiting")
  BY DEF IInv, TypeOK, Admit, InState
<1>4. HeldBytes' = HeldBytes \cup BytesOf(c)
  BY <1>2 DEF HeldBytes, BytesOf
<1>5. HeldBytes \cap BytesOf(c) = {}
  BY <1>0 DEF HeldBytes, BytesOf
<1>6. IsFiniteSet(HeldBytes)' /\ Accounting'
  <2>1. IsFiniteSet(HeldBytes) /\ Cardinality(HeldBytes) = inFlight
    BY DEF IInv, Accounting
  <2>2. IsFiniteSet(BytesOf(c)) /\ Cardinality(BytesOf(c)) = Charge[c]
    BY BytesOfCard
  <2>3. Cardinality(HeldBytes \cap BytesOf(c)) = 0
    BY <1>5, FS_EmptySet
  <2>4. /\ IsFiniteSet(HeldBytes \cup BytesOf(c))
        /\ Cardinality(HeldBytes \cup BytesOf(c)) = inFlight + Charge[c] - 0
    BY <2>1, <2>2, <2>3, FS_Union
  <2> QED
    BY <1>0, <1>4, <2>4 DEF Accounting
<1>7. BudgetBound'
  <2>1. CASE inFlight = 0
    <3>1. \A d \in InState("holding") : Charge[d] = 0
      BY <2>1, ZeroMeansNothingHeld DEF IInv
    <3> QED
      BY <1>2, <3>1 DEF BudgetBound
  <2>2. CASE inFlight + Charge[c] <= Limit
    BY <1>0, <2>2 DEF BudgetBound
  <2> QED
    BY <1>0, <2>1, <2>2, LimitAssumption DEF Admit, MustWait
<1>8. NoLostWakeup'
  BY <1>2, <1>3 DEF IInv, NoLostWakeup
<1> QED
  BY <1>1, <1>6, <1>7, <1>8 DEF IInv

\* A release takes exactly its own bytes away and leaves nobody parked.
LEMMA ReleaseStep ==
    ASSUME IInv, NEW c \in Callers, Release(c)
    PROVE  IInv'
<1>0. /\ inFlight \in Nat /\ Charge[c] \in Nat
      /\ c \in InState("holding")
      /\ inFlight' = inFlight - Charge[c]
      /\ call' = Woken(c)
  BY ChargeAssumption DEF IInv, TypeOK, Release, InState
<1>2. InState("holding")' = InState("holding") \ {c}
  BY <1>0 DEF Woken, InState
<1>3. InState("waiting")' = {}
  BY <1>0 DEF Woken, InState
<1>4. HeldBytes = HeldBytes' \cup BytesOf(c)
  BY <1>0, <1>2 DEF HeldBytes, BytesOf
<1>5. HeldBytes' \cap BytesOf(c) = {}
  BY <1>2 DEF HeldBytes, BytesOf
<1>6. IsFiniteSet(HeldBytes') /\ Cardinality(HeldBytes') \in Nat
      /\ inFlight = Cardinality(HeldBytes') + Charge[c]
  <2>1. IsFiniteSet(HeldBytes) /\ Cardinality(HeldBytes) = inFlight
    BY DEF IInv, Accounting
  <2>2. IsFiniteSet(BytesOf(c)) /\ Cardinality(BytesOf(c)) = Charge[c]
    BY BytesOfCard
  <2>3. HeldBytes' \in SUBSET HeldBytes
    BY <1>4
  <2>4. IsFiniteSet(HeldBytes') /\ Cardinality(HeldBytes') \in Nat
    BY <2>1, <2>3, FS_Subset, FS_CardinalityType
  <2>5. Cardinality(HeldBytes' \cap BytesOf(c)) = 0
    BY <1>5, FS_EmptySet
  <2>6. Cardinality(HeldBytes' \cup BytesOf(c))
           = Cardinality(HeldBytes') + Charge[c] - 0
    BY <2>2, <2>4, <2>5, FS_Union
  <2> QED
    BY <1>0, <1>4, <2>1, <2>4, <2>6
<1>7. Accounting' /\ inFlight' \in Nat
  BY <1>0, <1>6 DEF Accounting
<1>8. TypeOK'
  BY <1>0, <1>7 DEF IInv, TypeOK, Woken, CallState
<1>9. BudgetBound'
  <2>1. CASE inFlight <= Limit
    BY <1>0, <2>1, <1>7, LimitAssumption DEF BudgetBound
  <2>2. CASE \E d \in InState("holding") :
                \A e \in InState("holding") \ {d} : Charge[e] = 0
    <3>1. PICK d \in InState("holding") :
                \A e \in InState("holding") \ {d} : Charge[e] = 0
      BY <2>2
    <3>2. CASE d # c
      BY <1>2, <3>1, <3>2 DEF BudgetBound
    <3>3. CASE d = c
      <4>1. \A e \in InState("holding")' : e \in Callers /\ BytesOf(e) = {}
        <5> SUFFICES ASSUME NEW e \in InState("holding")'
                     PROVE  e \in Callers /\ BytesOf(e) = {}
          OBVIOUS
        <5>1. e \in Callers /\ Charge[e] = 0
          BY <1>2, <3>1, <3>3 DEF InState
        <5>2. Cardinality(BytesOf(e)) = 0 /\ IsFiniteSet(BytesOf(e))
          BY <5>1, BytesOfCard
        <5> QED
          BY <5>1, <5>2, FS_EmptySet
      <4>2. HeldBytes' = {}
        BY <4>1 DEF HeldBytes, BytesOf
      <4>3. inFlight' = 0
        BY <1>7, <4>2, FS_EmptySet DEF Accounting
      <4> QED
        BY <4>3, LimitAssumption DEF BudgetBound
    <3> QED
      BY <3>2, <3>3
  <2> QED
    BY <2>1, <2>2 DEF IInv, BudgetBound
<1>10. NoLostWakeup'
  BY <1>3 DEF NoLostWakeup
<1> QED
  BY <1>6, <1>7, <1>8, <1>9, <1>10 DEF IInv

\* The invariant is inductive.
LEMMA NextIInv == IInv /\ [Next]_budgetVars => IInv'
<1> SUFFICES ASSUME IInv, [Next]_budgetVars PROVE IInv'
  OBVIOUS
<1>1. CASE \E c \in Callers : Call(c)
  BY <1>1, CallStep
<1>2. CASE \E c \in Callers : Admit(c)
  BY <1>2, AdmitStep
<1>3. CASE \E c \in Callers : Park(c)
  BY <1>3, ParkStep
<1>4. CASE \E c \in Callers : Release(c)
  BY <1>4, ReleaseStep
<1>5. CASE UNCHANGED budgetVars
  BY <1>5 DEF budgetVars, IInv, TypeOK, HeldBytes, InState, Accounting,
              BudgetBound, NoLostWakeup
<1> QED
  BY <1>1, <1>2, <1>3, <1>4, <1>5 DEF Next

LEMMA AlwaysIInv == Spec => []IInv
  BY InitIInv, NextIInv, PTL DEF Spec

\* acquire and release keep the counter a natural number and every call in
\* one of its states, whatever the interleaving of the workers.
THEOREM BudgetType == Spec => []TypeOK
<1>1. IInv => TypeOK
  BY DEF IInv
<1> QED
  BY <1>1, AlwaysIInv, PTL

\* The counter always equals the bytes the holding calls asked for.
THEOREM BudgetAccounting == Spec => []Accounting
<1>1. IInv => Accounting
  BY DEF IInv
<1> QED
  BY <1>1, AlwaysIInv, PTL

\* The workers never hold more than the limit, but for one oversize call that
\* holds alone.
THEOREM BudgetIsBounded == Spec => []BudgetBound
<1>1. IInv => BudgetBound
  BY DEF IInv
<1> QED
  BY <1>1, AlwaysIInv, PTL

\* A parked call always has a holder whose release will wake it.
THEOREM WakeupNeverLost == Spec => []NoLostWakeup
<1>1. IInv => NoLostWakeup
  BY DEF IInv
<1> QED
  BY <1>1, AlwaysIInv, PTL

=============================================================================
