---------------------------- MODULE HotLoadProofs ----------------------------
(***************************************************************************)
(* Theorems about HotLoad, for any calls made together, any number of      *)
(* retries and of daemon stops.                                            *)
(*                                                                         *)
(* All of them rest on one observation: an attach or detach is sent again  *)
(* only after its last request was answered, so that the daemon and the    *)
(* socket hold one request of it at most, and none while it is about to    *)
(* send.                                                                   *)
(***************************************************************************)
EXTENDS HotLoad, TLAPS

\* The counter and the phase of a request loop go together.
LoopInv ==
    /\ \A c \in Calls : tries[c] <= Attempts(c)
    /\ \A c \in Calls : phase[c] \in {"sending", "in flight"} => tries[c] >= 1
    /\ \A c \in Calls : phase[c] = "pausing" => tries[c] >= 1 /\ tries[c] < Attempts(c)
    /\ \A c \in Calls : outcome[c] # Pending => phase[c] = "done"
    /\ LoopReturnsOrRaises

\* What is outstanding of an attach or a detach.
SentInv ==
    /\ OneRequestAtATime
    /\ \A r \in requests : r.call \in Mutating => phase[r.call] \in {"in flight", "done"}
    /\ \A r \in requests : r.stage \in {"journaled", "ready"} => r.call \in Attaches
    /\ \A r \in requests : r.stage = "ok" => r.call \notin Attaches

\* What is mounted, or was until it was detached.
Mounted(c) ==
    \/ \E a \in records : a.call = c /\ a.state = "READY"
    \/ \E d \in removers : VictimOf[d] = c

RecordsInv ==
    /\ \A a \in records : a.key = <<a.call, 0>>
    /\ \A a \in records :
           a.state = "READY" =>
               /\ phase[a.call] \in {"in flight", "done"}
               /\ \A r \in requests : r.call = a.call => r.stage = "ready"
    /\ \A r \in requests : r.stage = "ready" => Mounted(r.call)
    /\ ReturnedIsMounted
    /\ NoConnectionNothingMounted

\* A detach that removed a record is answered with that, or not at all.
RemoversInv ==
    /\ \A d \in removers :
           /\ phase[d] \in {"in flight", "done"}
           /\ outcome[d] # "not found"
           /\ \A r \in requests : r.call = d => r.stage = "ok"
    /\ \A d \in Detaches : outcome[d] = "not found" => \A r \in requests : r.call # d

IInv == TypeOK /\ LoopInv /\ SentInv /\ RecordsInv /\ RemoversInv

-----------------------------------------------------------------------------

\* A call makes one attempt at least, and as many as its options say at most.
LEMMA AttemptsBounds ==
    ASSUME NEW c \in Calls
    PROVE  /\ Attempts(c) \in 1 .. MaxRetries + 1
           /\ c \in Probes => Attempts(c) = 1
  BY RetriesAssumption DEF Attempts

\* An attempt that is not the last leaves one to make.
LEMMA NotLast ==
    ASSUME IInv, NEW c \in Calls, ~ LastAttempt(c)
    PROVE  tries[c] < Attempts(c)
  <1>1. tries[c] \in 0 .. MaxRetries + 1 /\ Attempts(c) \in 1 .. MaxRetries + 1
    BY AttemptsBounds DEF IInv, TypeOK
  <1>2. tries[c] <= Attempts(c) /\ tries[c] # Attempts(c)
    BY DEF IInv, LoopInv, LastAttempt
  <1> QED
    BY <1>1, <1>2, RetriesAssumption

\* Init establishes the invariant.
LEMMA InitInv == Init => IInv
  <1> SUFFICES ASSUME Init PROVE IInv
    OBVIOUS
  <1> PICK mix \in Mixes : phase = [c \in Calls |-> IF c \in mix THEN "new" ELSE "never"]
    BY DEF Init
  <1>1. TypeOK
    <2>1. Probes \subseteq Calls
      BY DEF Calls
    <2> QED
      BY <2>1, RetriesAssumption DEF Init, TypeOK
  <1>2. LoopInv
    <2>1. \A c \in Calls : phase[c] \in {"new", "never"} /\ tries[c] = 0 /\ outcome[c] = Pending
      BY DEF Init
    <2> QED
      BY <2>1, AttemptsBounds, RetriesAssumption DEF LoopInv, LoopReturnsOrRaises, Pending
  <1>3. SentInv
    BY DEF Init, SentInv, OneRequestAtATime
  <1>4. RecordsInv
    BY DEF Init, RecordsInv, ReturnedIsMounted, NoConnectionNothingMounted, Pending, Calls
  <1>5. RemoversInv
    BY DEF Init, RemoversInv
  <1> QED
    BY <1>1, <1>2, <1>3, <1>4, <1>5 DEF IInv

-----------------------------------------------------------------------------

\* A call that ends with an outcome that is true.
LEMMA EndInv ==
    ASSUME IInv, NEW c \in Calls, NEW o \in Outcomes, End(c, o),
           requests' \subseteq requests, UNCHANGED daemonVars,
           o # "assertion",
           o = "returned" /\ c \in Attaches => Mounted(c),
           o = "no connection" /\ c \in Attaches =>
               /\ \A r \in requests' : r.call # c
               /\ \A a \in records : a.call = c => a.state = "FAILED",
           o = "not found" /\ c \in Detaches =>
               c \notin removers /\ \A r \in requests' : r.call # c
    PROVE  IInv'
  <1> USE DEF End, daemonVars
  <1>1. TypeOK'
    BY DEF IInv, TypeOK
  <1>2. LoopInv'
    BY DEF IInv, TypeOK, LoopInv, LoopReturnsOrRaises, Attempts
  <1>3. SentInv'
    BY DEF IInv, TypeOK, SentInv, OneRequestAtATime
  <1>4. RecordsInv'
    <2> USE DEF IInv, RecordsInv
    <2>1. (\A a \in records : a.key = <<a.call, 0>>)'
      OBVIOUS
    <2>2. (\A a \in records :
              a.state = "READY" =>
                  /\ phase[a.call] \in {"in flight", "done"}
                  /\ \A r \in requests : r.call = a.call => r.stage = "ready")'
      BY DEF TypeOK, Mutating, Calls
    <2>3. (\A r \in requests : r.stage = "ready" => Mounted(r.call))'
      BY DEF Mounted
    <2>4. ReturnedIsMounted'
      BY DEF TypeOK, ReturnedIsMounted, Mounted, Calls
    <2>5. NoConnectionNothingMounted'
      BY DEF TypeOK, NoConnectionNothingMounted, Calls
    <2> QED
      BY <2>1, <2>2, <2>3, <2>4, <2>5
  <1>5. RemoversInv'
    BY DEF IInv, TypeOK, RemoversInv, Calls, Mutating
  <1> QED
    BY <1>1, <1>2, <1>3, <1>4, <1>5 DEF IInv

\* A call that goes on to another attempt, with nothing outstanding.
LEMMA PauseInv ==
    ASSUME IInv, NEW c \in Calls, Pause(c),
           requests' \subseteq requests, UNCHANGED daemonVars,
           phase[c] \in {"sending", "in flight"}, ~ LastAttempt(c),
           c \in Mutating =>
               /\ \A r \in requests' : r.call # c
               /\ \A a \in records : a.call = c => a.state = "FAILED"
               /\ c \notin removers
    PROVE  IInv'
  <1> USE DEF Pause, daemonVars
  <1>1. TypeOK'
    BY DEF IInv, TypeOK
  <1>2. LoopInv'
    <2>1. tries[c] < Attempts(c)
      BY NotLast
    <2>2. tries[c] >= 1
      BY DEF IInv, LoopInv
    <2> QED
      BY <2>1, <2>2 DEF IInv, TypeOK, LoopInv, LoopReturnsOrRaises, Attempts
  <1>3. SentInv'
    BY DEF IInv, TypeOK, SentInv, OneRequestAtATime
  <1>4. RecordsInv'
    <2> USE DEF IInv, RecordsInv
    <2>1. (\A a \in records : a.key = <<a.call, 0>>)'
      OBVIOUS
    <2>2. (\A a \in records :
              a.state = "READY" =>
                  /\ phase[a.call] \in {"in flight", "done"}
                  /\ \A r \in requests : r.call = a.call => r.stage = "ready")'
      BY DEF TypeOK, Mutating, Calls
    <2>3. (\A r \in requests : r.stage = "ready" => Mounted(r.call))'
      BY DEF Mounted
    <2>4. ReturnedIsMounted'
      BY DEF TypeOK, ReturnedIsMounted, Mounted
    <2>5. NoConnectionNothingMounted'
      BY DEF TypeOK, NoConnectionNothingMounted
    <2> QED
      BY <2>1, <2>2, <2>3, <2>4, <2>5
  <1>5. RemoversInv'
    <2>1. removers \subseteq Mutating /\ Detaches \subseteq Mutating /\ Mutating \subseteq Calls
      BY DEF IInv, TypeOK, Mutating, Calls
    <2>2. \A d \in removers : d # c /\ phase'[d] = phase[d]
      BY <2>1 DEF IInv, TypeOK
    <2> QED
      BY <2>1, <2>2 DEF IInv, RemoversInv
  <1> QED
    BY <1>1, <1>2, <1>3, <1>4, <1>5 DEF IInv

\* While an attach or a detach is not with the daemon, the daemon has nothing
\* of it, and has mounted and removed nothing for it.
LEMMA NothingOut ==
    ASSUME IInv, NEW c \in Mutating, phase[c] \in {"sending", "pausing", "new", "never"}
    PROVE  /\ \A r \in requests : r.call # c
           /\ \A a \in records : a.call = c => a.state = "FAILED"
           /\ c \notin removers
  <1>1. \A r \in requests : r.call # c
    BY DEF IInv, SentInv
  <1>2. \A a \in records : a.call = c => a.state = "FAILED"
    BY DEF IInv, TypeOK, RecordsInv
  <1>3. c \notin removers
    BY DEF IInv, RemoversInv
  <1> QED
    BY <1>1, <1>2, <1>3

\* What a lost request is reported as.
LEMMA FailureOutcomes ==
    ASSUME NEW error \in {"never sent", "timeout", "dropped", "unusable"}
    PROVE  /\ HttpFailure(error) \in Outcomes
           /\ HttpFailure(error) \notin {"assertion", "returned", "not found"}
           /\ HttpFailure(error) = "no connection" => error = "never sent"
  <1>1. CASE error = "never sent"
    BY <1>1 DEF HttpFailure, Outcomes
  <1>2. CASE error = "timeout"
    BY <1>2 DEF HttpFailure, Outcomes
  <1>3. CASE error = "dropped"
    BY <1>3 DEF HttpFailure, Outcomes
  <1>4. CASE error = "unusable"
    BY <1>4 DEF HttpFailure, Outcomes
  <1> QED
    BY <1>1, <1>2, <1>3, <1>4

LEMMA NotSentInv == ASSUME IInv, NEW c \in Calls, NotSent(c) PROVE IInv'
  <1>1. /\ phase[c] = "sending" /\ UNCHANGED <<requests, daemonVars>>
        /\ HttpError(c, "never sent")
    BY DEF NotSent
  <1>2. c \in Mutating =>
            /\ \A r \in requests' : r.call # c
            /\ \A a \in records : a.call = c => a.state = "FAILED"
            /\ c \notin removers
    BY <1>1, NothingOut
  <1> requests' \subseteq requests /\ UNCHANGED daemonVars
    BY <1>1
  <1>3. CASE End(c, HttpFailure("never sent"))
    BY <1>1, <1>2, <1>3, FailureOutcomes, EndInv DEF Mutating
  <1>4. CASE Pause(c) /\ ~ LastAttempt(c)
    BY <1>1, <1>2, <1>4, PauseInv
  <1> QED
    BY <1>1, <1>3, <1>4 DEF HttpError

\* A request that may have been sent is sent again only if it only reads.
LEMMA LoseInv == ASSUME IInv, NEW c \in Calls, Lose(c) PROVE IInv'
  <1>1. phase[c] = "in flight" /\ requests' \subseteq requests /\ UNCHANGED daemonVars
    BY DEF Lose
  <1>2. PICK error \in {"timeout", "dropped", "unusable"} : HttpError(c, error)
    BY DEF Lose
  <1>3. CASE End(c, HttpFailure(error))
    <2>1. /\ HttpFailure(error) \in Outcomes
          /\ HttpFailure(error) \notin {"assertion", "returned", "not found", "no connection"}
      BY <1>2, FailureOutcomes
    <2> QED
      BY <1>1, <1>3, <2>1, EndInv
  <1>4. CASE Pause(c) /\ ~ LastAttempt(c) /\ RetryHttpError(c, error)
    <2>1. c \notin Mutating
      BY <1>2, <1>4 DEF RetryHttpError
    <2> QED
      BY <1>1, <1>4, <2>1, PauseInv
  <1> QED
    BY <1>2, <1>3, <1>4 DEF HttpError

\* What an answer is reported as.
LEMMA AnswerOutcomes ==
    ASSUME NEW answer \in Answers
    PROVE  /\ ClassifyResponse(answer) \in Outcomes
           /\ ClassifyResponse(answer) \notin {"assertion", "no connection"}
           /\ ClassifyResponse(answer) = "returned" => answer \in {"ready", "ok"}
           /\ ClassifyResponse(answer) = "not found" => answer = "not found"
  <1>1. CASE answer \in {"ready", "failed"}
    BY <1>1 DEF ClassifyResponse, ReadyAttachment, Outcomes
  <1>2. CASE answer = "ok"
    BY <1>2 DEF ClassifyResponse, Outcomes
  <1>3. CASE answer = "garbage"
    BY <1>3 DEF ClassifyResponse, Outcomes
  <1>4. CASE answer = "not found"
    BY <1>4 DEF ClassifyResponse, Outcomes
  <1>5. CASE answer \in {"retryable", "rejected", "conflict"}
    BY <1>5 DEF ClassifyResponse, Outcomes
  <1> QED
    BY <1>1, <1>2, <1>3, <1>4, <1>5 DEF Answers

LEMMA ReceiveInv == ASSUME IInv, NEW c \in Calls, Receive(c) PROVE IInv'
  <1>1. PICK r \in requests :
            /\ r.call = c /\ r.stage \in Answers
            /\ requests' = requests \ {r}
            /\ IF r.stage = "retryable" /\ ~ LastAttempt(c)
               THEN Pause(c)
               ELSE End(c, ClassifyResponse(r.stage))
    BY DEF Receive
  <1>2. phase[c] = "in flight" /\ UNCHANGED daemonVars
    BY DEF Receive
  <1>3. c \in Mutating => \A s \in requests' : s.call # c
    BY <1>1 DEF IInv, SentInv, OneRequestAtATime
  <1>4. r.stage # "ready" => \A a \in records : a.call = c => a.state = "FAILED"
    BY <1>1 DEF IInv, TypeOK, RecordsInv
  <1>5. r.stage # "ok" => c \notin removers
    BY <1>1 DEF IInv, RemoversInv
  <1>6. CASE r.stage = "retryable" /\ ~ LastAttempt(c)
    <2>1. Pause(c) /\ requests' \subseteq requests
      BY <1>1, <1>6
    <2> QED
      BY <1>2, <1>3, <1>4, <1>5, <1>6, <2>1, PauseInv
  <1>7. CASE ~ (r.stage = "retryable" /\ ~ LastAttempt(c))
    <2> DEFINE o == ClassifyResponse(r.stage)
    <2>1. End(c, o) /\ requests' \subseteq requests
      BY <1>1, <1>7
    <2>2. o \in Outcomes /\ o \notin {"assertion", "no connection"}
      BY <1>1, AnswerOutcomes
    <2>3. o = "returned" /\ c \in Attaches => Mounted(c)
      <3>1. o = "returned" /\ c \in Attaches => r.stage = "ready"
        BY <1>1, AnswerOutcomes DEF IInv, SentInv
      <3> QED
        BY <1>1, <3>1 DEF IInv, RecordsInv
    <2>4. o = "not found" /\ c \in Detaches =>
              c \notin removers /\ \A s \in requests' : s.call # c
      BY <1>1, <1>3, <1>5, AnswerOutcomes DEF Mutating
    <2> HIDE DEF o
    <2> QED
      BY <1>2, <2>1, <2>2, <2>3, <2>4, EndInv
  <1> QED
    BY <1>6, <1>7

LEMMA CancelInv == ASSUME IInv, NEW c \in Calls, Cancel(c) PROVE IInv'
  <1>1. End(c, "cancelled") /\ requests' \subseteq requests /\ UNCHANGED daemonVars
    BY DEF Cancel
  <1> QED
    BY <1>1, EndInv DEF Outcomes

\* A call that is about to send leaves what there is of the others.
LEMMA SendingInv ==
    ASSUME IInv, NEW c \in Calls, phase[c] # "done",
           phase' = [phase EXCEPT ![c] = "sending"],
           UNCHANGED <<outcome, requests, records, removers>>,
           c \in Mutating =>
               /\ \A r \in requests : r.call # c
               /\ \A a \in records : a.call = c => a.state = "FAILED"
               /\ c \notin removers
    PROVE  RecordsInv' /\ RemoversInv'
  <1> removers \subseteq Mutating /\ Detaches \subseteq Mutating /\ Attaches \subseteq Mutating
      /\ Mutating \subseteq Calls
    BY DEF IInv, TypeOK, Mutating, Calls
  <1>1. \A d \in Calls : d # c => phase'[d] = phase[d]
    BY DEF IInv, TypeOK
  <1>2. RecordsInv'
    <2>1. \A a \in records : a.call \in Attaches
      BY DEF IInv, TypeOK
    <2>2. \A a \in records : a.state = "READY" => phase'[a.call] \in {"in flight", "done"}
      BY <1>1, <2>1 DEF IInv, RecordsInv
    <2> QED
      BY <2>2 DEF IInv, RecordsInv, ReturnedIsMounted, NoConnectionNothingMounted, Mounted
  <1>3. RemoversInv'
    BY <1>1 DEF IInv, RemoversInv
  <1> QED
    BY <1>2, <1>3

\* Its counter is within its attempts.
LEMMA CountedInv ==
    ASSUME IInv, NEW c \in Calls, phase[c] # "done",
           NEW n \in 1 .. MaxRetries + 1, n <= Attempts(c),
           phase' = [phase EXCEPT ![c] = "sending"],
           tries' = [tries EXCEPT ![c] = n],
           outcome' = outcome
    PROVE  /\ LoopInv'
           /\ tries' \in [Calls -> 0 .. MaxRetries + 1]
           /\ \A d \in Probes : tries'[d] <= 1
  <1>1. 1 <= n /\ n \in 0 .. MaxRetries + 1
    BY RetriesAssumption
  <1>2. phase \in [Calls -> {"never", "new", "sending", "in flight", "pausing", "done"}]
        /\ tries \in [Calls -> 0 .. MaxRetries + 1]
    BY DEF IInv, TypeOK
  <1>3. \A d \in Calls : d # c => phase'[d] = phase[d] /\ tries'[d] = tries[d]
    BY <1>2
  <1>4. phase'[c] = "sending" /\ tries'[c] = n
    BY <1>2
  <1>5. tries' \in [Calls -> 0 .. MaxRetries + 1]
    BY <1>1, <1>2
  <1>6. \A d \in Probes : tries'[d] <= 1
    <2>1. \A d \in Probes : d \in Calls /\ Attempts(d) = 1
      BY AttemptsBounds DEF Calls
    <2>2. \A d \in Probes : tries[d] <= 1
      BY DEF IInv, TypeOK
    <2> QED
      BY <1>3, <1>4, <2>1, <2>2
  <1>7. outcome[c] = Pending
    BY DEF IInv, LoopInv
  <1>8. (\A d \in Calls : tries[d] <= Attempts(d))'
    BY <1>3, <1>4 DEF IInv, LoopInv, Attempts
  <1>9. (\A d \in Calls : phase[d] \in {"sending", "in flight"} => tries[d] >= 1)'
    <2>1. tries'[c] >= 1
      BY <1>1, <1>4
    <2> QED
      BY <1>3, <2>1 DEF IInv, LoopInv
  <1>10. (\A d \in Calls : phase[d] = "pausing" => tries[d] >= 1 /\ tries[d] < Attempts(d))'
    BY <1>3, <1>4 DEF IInv, LoopInv, Attempts
  <1>11. (\A d \in Calls : outcome[d] # Pending => phase[d] = "done")'
    BY <1>3, <1>7 DEF IInv, LoopInv
  <1>12. LoopReturnsOrRaises'
    BY DEF IInv, LoopInv, LoopReturnsOrRaises
  <1> QED
    BY <1>5, <1>6, <1>8, <1>9, <1>10, <1>11, <1>12 DEF LoopInv

\* A call starts: none of it is anywhere yet.
LEMMA BeginInv == ASSUME IInv, NEW c \in Calls, Begin(c) PROVE IInv'
  <1>1. /\ phase[c] = "new" /\ phase' = [phase EXCEPT ![c] = "sending"]
        /\ tries' = [tries EXCEPT ![c] = 1]
        /\ UNCHANGED <<outcome, requests, daemonVars>>
    BY DEF Begin
  <1>2. c \in Mutating =>
            /\ \A r \in requests : r.call # c
            /\ \A a \in records : a.call = c => a.state = "FAILED"
            /\ c \notin removers
    BY <1>1, NothingOut
  <1> USE DEF daemonVars
  <1>3. 1 \in 1 .. MaxRetries + 1 /\ 1 <= Attempts(c)
    BY AttemptsBounds, RetriesAssumption
  <1>4. LoopInv' /\ TypeOK'
    <2>1. /\ LoopInv' /\ tries' \in [Calls -> 0 .. MaxRetries + 1]
          /\ \A d \in Probes : tries'[d] <= 1
      BY <1>1, <1>3, CountedInv
    <2> QED
      BY <1>1, <2>1 DEF IInv, TypeOK
  <1>5. SentInv'
    BY <1>1, <1>2 DEF IInv, TypeOK, SentInv, OneRequestAtATime
  <1>6. RecordsInv' /\ RemoversInv'
    BY <1>1, <1>2, SendingInv
  <1> QED
    BY <1>4, <1>5, <1>6 DEF IInv

\* The loop goes on: it has an attempt left.
LEMMA ResumeInv == ASSUME IInv, NEW c \in Calls, Resume(c) PROVE IInv'
  <1>1. tries[c] \in 1 .. MaxRetries + 1 /\ tries[c] < Attempts(c) /\ Attempts(c) \in 1 .. MaxRetries + 1
    <2>1. tries[c] \in 0 .. MaxRetries + 1
      BY DEF IInv, TypeOK
    <2>2. tries[c] >= 1 /\ tries[c] < Attempts(c)
      BY DEF IInv, LoopInv, Resume
    <2> QED
      BY <2>1, <2>2, AttemptsBounds, RetriesAssumption
  <1>2. tries[c] + 1 \in 1 .. MaxRetries + 1 /\ tries[c] + 1 <= Attempts(c)
    BY <1>1, RetriesAssumption
  <1>3. /\ phase[c] = "pausing" /\ phase' = [phase EXCEPT ![c] = "sending"]
        /\ tries' = [tries EXCEPT ![c] = tries[c] + 1]
        /\ UNCHANGED <<outcome, requests, daemonVars>>
    <2>1. ~ (tries[c] >= Attempts(c))
      BY <1>1, RetriesAssumption
    <2> QED
      BY <2>1 DEF Resume
  <1>4. c \in Mutating =>
            /\ \A r \in requests : r.call # c
            /\ \A a \in records : a.call = c => a.state = "FAILED"
            /\ c \notin removers
    BY <1>3, NothingOut
  <1> USE DEF daemonVars
  <1>5. LoopInv' /\ TypeOK'
    <2>1. /\ LoopInv' /\ tries' \in [Calls -> 0 .. MaxRetries + 1]
          /\ \A d \in Probes : tries'[d] <= 1
      BY <1>2, <1>3, CountedInv
    <2> QED
      BY <1>3, <2>1 DEF IInv, TypeOK
  <1>7. SentInv'
    BY <1>3, <1>4 DEF IInv, TypeOK, SentInv, OneRequestAtATime
  <1>8. RecordsInv' /\ RemoversInv'
    BY <1>3, <1>4, SendingInv
  <1> QED
    BY <1>5, <1>7, <1>8 DEF IInv

\* A request more, of which the daemon has no other.
LEMMA ConnectInv == ASSUME IInv, NEW c \in Calls, Connect(c) PROVE IInv'
  <1> DEFINE q == [call |-> c, try |-> tries[c], stage |-> "received"]
  <1>1. /\ phase[c] = "sending" /\ phase' = [phase EXCEPT ![c] = "in flight"]
        /\ requests' = requests \cup {q}
        /\ UNCHANGED <<tries, outcome, records, up, stops, removers>>
    BY DEF Connect
  <1>2. q.call = c /\ q.stage = "received"
    OBVIOUS
  <1>3. c \in Mutating =>
            /\ \A r \in requests : r.call # c
            /\ \A a \in records : a.call = c => a.state = "FAILED"
            /\ c \notin removers
    BY <1>1, NothingOut
  <1>4. TypeOK'
    <2>1. tries[c] \in 1 .. MaxRetries + 1
      <3>1. tries[c] \in 0 .. MaxRetries + 1
        BY DEF IInv, TypeOK
      <3>2. tries[c] >= 1
        BY <1>1 DEF IInv, LoopInv
      <3> QED
        BY <3>1, <3>2, RetriesAssumption
    <2>2. q \in [call : Calls, try : 1 .. MaxRetries + 1, stage : {"received", "journaled"} \cup Answers]
      BY <2>1
    <2> HIDE DEF q
    <2> QED
      BY <1>1, <2>2 DEF IInv, TypeOK
  <1> HIDE DEF q
  <1>5. LoopInv'
    BY <1>1 DEF IInv, TypeOK, LoopInv, LoopReturnsOrRaises, Attempts
  <1>6. SentInv'
    BY <1>1, <1>2, <1>3 DEF IInv, TypeOK, SentInv, OneRequestAtATime
  <1>7. RecordsInv'
    <2> USE DEF IInv, RecordsInv
    <2>1. (\A a \in records : a.key = <<a.call, 0>>)'
      BY <1>1
    <2>2. (\A a \in records :
              a.state = "READY" =>
                  /\ phase[a.call] \in {"in flight", "done"}
                  /\ \A r \in requests : r.call = a.call => r.stage = "ready")'
      BY <1>1, <1>2, <1>3 DEF TypeOK, Mutating, Calls
    <2>3. (\A r \in requests : r.stage = "ready" => Mounted(r.call))'
      BY <1>1, <1>2 DEF Mounted
    <2>4. ReturnedIsMounted'
      BY <1>1 DEF ReturnedIsMounted
    <2>5. NoConnectionNothingMounted'
      <3>1. outcome[c] # "no connection"
        BY <1>1 DEF LoopInv, Pending
      <3> QED
        BY <1>1, <1>2, <3>1 DEF NoConnectionNothingMounted
    <2> QED
      BY <2>1, <2>2, <2>3, <2>4, <2>5
  <1>8. RemoversInv'
    <2>1. outcome[c] # "not found"
      BY <1>1 DEF IInv, LoopInv, Pending
    <2>2. removers \subseteq Mutating /\ Mutating \subseteq Calls
      BY DEF IInv, TypeOK, Mutating, Calls
    <2> QED
      BY <1>1, <1>2, <1>3, <2>1, <2>2 DEF IInv, TypeOK, RemoversInv
  <1> QED
    BY <1>4, <1>5, <1>6, <1>7, <1>8 DEF IInv

-----------------------------------------------------------------------------

\* A step of the daemon on request r: the request may change its stage or be
\* gone, and nothing becomes mounted or removed by it.
LEMMA StageInv ==
    ASSUME IInv, NEW r \in requests, NEW stage \in {"journaled"} \cup Answers,
           r.stage \in {"received", "journaled"},
           requests' \subseteq (requests \ {r}) \cup {[r EXCEPT !.stage = stage]},
           UNCHANGED <<clientVars, records, removers, up, stops>>,
           stage \in {"journaled", "ready"} => r.call \in Attaches,
           stage = "ready" => Mounted(r.call),
           stage = "ok" => r.call \notin Attaches
    PROVE  IInv'
  <1> USE DEF clientVars
  <1> DEFINE Request == [call : Calls, try : 1 .. MaxRetries + 1,
                         stage : {"received", "journaled"} \cup Answers]
             q == [r EXCEPT !.stage = stage]
  <1>1. r \in Request /\ requests \subseteq Request
    BY DEF IInv, TypeOK
  <1>2. q \in Request /\ q.call = r.call /\ q.stage = stage
    BY <1>1
  <1> HIDE DEF Request, q
  <1>3. requests' \subseteq (requests \ {r}) \cup {q}
    BY DEF q
  <1>4. TypeOK'
    <2>1. requests' \subseteq Request
      BY <1>1, <1>2, <1>3
    <2> QED
      BY <2>1 DEF IInv, TypeOK, Request
  <1>5. LoopInv'
    BY DEF IInv, LoopInv, LoopReturnsOrRaises, Attempts
  <1>6. SentInv'
    BY <1>2, <1>3 DEF IInv, SentInv, OneRequestAtATime
  <1>7. \A c : (\A t \in requests : t.call # c) => (\A s \in requests' : s.call # c)
    BY <1>2, <1>3
  <1>8. \A a \in records : a.state = "READY" => a.call # r.call
    BY DEF IInv, RecordsInv
  <1>9. RecordsInv'
    <2> USE DEF IInv, RecordsInv
    <2>1. (\A a \in records : a.key = <<a.call, 0>>)'
      OBVIOUS
    <2>2. (\A a \in records :
              a.state = "READY" =>
                  /\ phase[a.call] \in {"in flight", "done"}
                  /\ \A s \in requests : s.call = a.call => s.stage = "ready")'
      BY <1>2, <1>3, <1>8
    <2>3. (\A s \in requests : s.stage = "ready" => Mounted(s.call))'
      BY <1>2, <1>3 DEF Mounted
    <2>4. ReturnedIsMounted'
      BY DEF ReturnedIsMounted
    <2>5. NoConnectionNothingMounted'
      BY <1>7 DEF NoConnectionNothingMounted
    <2> QED
      BY <2>1, <2>2, <2>3, <2>4, <2>5
  <1>10. RemoversInv'
    <2>1. r.call \notin removers
      BY DEF IInv, RemoversInv
    <2> QED
      BY <1>2, <1>3, <1>7, <2>1 DEF IInv, RemoversInv
  <1> QED
    BY <1>4, <1>5, <1>6, <1>9, <1>10 DEF IInv

\* So it is with every answer that changes nothing else.
LEMMA AnswerInv ==
    ASSUME IInv, NEW r \in requests, NEW answer \in Answers, Answer(r, answer),
           r.stage \in {"received", "journaled"},
           UNCHANGED <<clientVars, records, removers, up, stops>>,
           answer # "ready",
           answer = "ok" => r.call \notin Attaches
    PROVE  IInv'
  <1>1. requests' \subseteq (requests \ {r}) \cup {[r EXCEPT !.stage = answer]}
    BY DEF Answer
  <1>2. answer # "journaled" /\ answer \in {"journaled"} \cup Answers
    BY DEF Answers
  <1> QED
    BY <1>1, <1>2, StageInv

\* A request that is an attach's names its call by its key.
LEMMA KeysInv ==
    ASSUME IInv, NEW r \in requests, NEW a \in records, a.key = KeyOf(r)
    PROVE  a.call = r.call
  <1>1. <<a.call, 0>> = <<r.call, 0>>
    BY DEF IInv, RecordsInv, KeyOf
  <1> QED
    BY <1>1

LEMMA ServeAttachInv == ASSUME IInv, NEW r \in requests, ServeAttach(r) PROVE IInv'
  <1> DEFINE same == {a \in records : a.key = KeyOf(r)}
  <1>1. /\ r.call \in Attaches /\ r.stage = "received"
        /\ UNCHANGED <<clientVars, up, stops, removers>>
    BY DEF ServeAttach
  <1>2. \A a \in same : a.call = r.call /\ a.state = "FAILED"
    <2>1. \A a \in same : a.call = r.call
      BY KeysInv
    <2> QED
      BY <1>1, <2>1 DEF IInv, TypeOK, RecordsInv
  <1>3. CASE same # {} /\ UNCHANGED records /\
             \E a \in same : Answer(r, IF a.state = "READY" THEN "ready" ELSE "failed")
    <2>1. Answer(r, "failed")
      BY <1>2, <1>3
    <2> QED
      BY <1>1, <1>3, <2>1, AnswerInv DEF Answers
  <1>4. CASE Answer(r, "conflict") /\ UNCHANGED records
    BY <1>1, <1>4, AnswerInv DEF Answers
  <1>5. CASE /\ records' = records \cup {[key |-> KeyOf(r), call |-> r.call, state |-> "FAILED"]}
             /\ requests' = (requests \ {r}) \cup {[r EXCEPT !.stage = "journaled"]}
    <2> DEFINE new == [key |-> KeyOf(r), call |-> r.call, state |-> "FAILED"]
               Request == [call : Calls, try : 1 .. MaxRetries + 1,
                           stage : {"received", "journaled"} \cup Answers]
               q == [r EXCEPT !.stage = "journaled"]
    <2>1. r \in Request /\ requests \subseteq Request
      BY DEF IInv, TypeOK
    <2>2. q \in Request /\ q.call = r.call /\ q.stage = "journaled"
      BY <2>1
    <2>3. /\ new \in [key : Attaches \X Nat, call : Attaches, state : {"READY", "FAILED"}]
          /\ new.key = <<new.call, 0>> /\ new.call = r.call /\ new.state = "FAILED"
      BY <1>1 DEF KeyOf
    <2> HIDE DEF new, q
    <2>4. records' = records \cup {new} /\ requests' = (requests \ {r}) \cup {q}
      BY <1>5 DEF new, q
    <2> HIDE DEF Request
    <2> USE <1>1 DEF clientVars
    <2>5. TypeOK'
      <3>1. requests' \subseteq Request
        BY <2>1, <2>2, <2>4
      <3>2. records' \subseteq [key : Attaches \X Nat, call : Attaches, state : {"READY", "FAILED"}]
        BY <2>3, <2>4 DEF IInv, TypeOK
      <3> QED
        BY <3>1, <3>2 DEF IInv, TypeOK, Request
    <2>6. LoopInv'
      BY DEF IInv, LoopInv, LoopReturnsOrRaises, Attempts
    <2>7. SentInv'
      BY <2>2, <2>4 DEF IInv, SentInv, OneRequestAtATime
    <2>8. \A c : (\A t \in requests : t.call # c) => (\A s \in requests' : s.call # c)
      BY <2>2, <2>4
    <2>9. RecordsInv'
      <3> USE DEF IInv, RecordsInv
      <3>1. (\A a \in records : a.key = <<a.call, 0>>)'
        BY <2>3, <2>4
      <3>2. (\A a \in records :
                a.state = "READY" =>
                    /\ phase[a.call] \in {"in flight", "done"}
                    /\ \A s \in requests : s.call = a.call => s.stage = "ready")'
        BY <2>2, <2>3, <2>4
      <3>3. (\A s \in requests : s.stage = "ready" => Mounted(s.call))'
        BY <2>2, <2>4 DEF Mounted
      <3>4. ReturnedIsMounted'
        BY <2>4 DEF ReturnedIsMounted
      <3>5. NoConnectionNothingMounted'
        BY <2>3, <2>4, <2>8 DEF NoConnectionNothingMounted
      <3> QED
        BY <3>1, <3>2, <3>3, <3>4, <3>5
    <2>10. RemoversInv'
      <3>1. r.call \notin removers
        BY DEF IInv, RemoversInv
      <3>2. \A d \in removers : \A s \in requests' : s.call = d => s.stage = "ok"
        BY <2>2, <2>4, <3>1 DEF IInv, RemoversInv
      <3>3. \A d \in Detaches : outcome[d] = "not found" => \A s \in requests' : s.call # d
        BY <2>8 DEF IInv, RemoversInv
      <3> QED
        BY <3>2, <3>3 DEF IInv, RemoversInv
    <2> QED
      BY <2>5, <2>6, <2>7, <2>9, <2>10 DEF IInv
  <1> QED
    BY <1>3, <1>4, <1>5 DEF ServeAttach

\* The bind makes the record of the only request there is of its call READY,
\* and that request's answer says so.
LEMMA BindInv == ASSUME IInv, NEW r \in requests, Bind(r) PROVE IInv'
  <1>1. r.stage = "journaled" /\ r.call \in Attaches /\ UNCHANGED <<clientVars, up, stops, removers>>
    BY DEF Bind, IInv, SentInv
  <1>2. CASE UNCHANGED records /\ \E answer \in {"failed", "retryable"} : Answer(r, answer)
    BY <1>1, <1>2, AnswerInv DEF Answers
  <1>3. ASSUME NEW a \in records, a.key = KeyOf(r),
               records' = (records \ {a}) \cup {[a EXCEPT !.state = "READY"]},
               Answer(r, "ready")
        PROVE  IInv'
    <2> DEFINE Request == [call : Calls, try : 1 .. MaxRetries + 1,
                           stage : {"received", "journaled"} \cup Answers]
               Record == [key : Attaches \X Nat, call : Attaches, state : {"READY", "FAILED"}]
               q == [r EXCEPT !.stage = "ready"]
               b == [a EXCEPT !.state = "READY"]
    <2>1. r \in Request /\ requests \subseteq Request /\ a \in Record /\ records \subseteq Record
      BY DEF IInv, TypeOK
    <2>2. q \in Request /\ q.call = r.call /\ q.stage = "ready"
      BY <2>1 DEF Answers
    <2>3. b \in Record /\ b.call = r.call /\ b.state = "READY" /\ b.key = <<b.call, 0>>
      <3>1. a.call = r.call
        BY <1>3, KeysInv
      <3> QED
        BY <2>1, <3>1 DEF IInv, RecordsInv
    <2>4. requests' \subseteq (requests \ {r}) \cup {q} /\ records' = (records \ {a}) \cup {b}
      BY <1>3 DEF Answer
    <2> HIDE DEF q, b, Request, Record
    <2> USE <1>1 DEF clientVars
    <2>5. TypeOK'
      <3>1. requests' \subseteq Request /\ records' \subseteq Record
        BY <2>1, <2>2, <2>3, <2>4
      <3> QED
        BY <3>1 DEF IInv, TypeOK, Request, Record
    <2>6. LoopInv'
      BY DEF IInv, LoopInv, LoopReturnsOrRaises, Attempts
    <2>7. SentInv'
      BY <2>2, <2>4 DEF IInv, SentInv, OneRequestAtATime
    <2>8. \A c : (\A t \in requests : t.call # c) => (\A s \in requests' : s.call # c)
      BY <2>2, <2>4
    <2>9. a.call = r.call /\ \A c : Mounted(c) => Mounted(c)'
      <3>1. a.call = r.call
        BY <1>3, KeysInv
      <3> QED
        BY <2>3, <2>4, <3>1 DEF Mounted
    <2>10. RecordsInv'
      <3> USE DEF IInv, RecordsInv
      <3>1. (\A d \in records : d.key = <<d.call, 0>>)'
        BY <2>3, <2>4
      <3>2. (\A d \in records :
                d.state = "READY" =>
                    /\ phase[d.call] \in {"in flight", "done"}
                    /\ \A s \in requests : s.call = d.call => s.stage = "ready")'
        <4>1. /\ phase'[r.call] \in {"in flight", "done"}
              /\ \A s \in requests' : s.call = r.call => s.stage = "ready"
          BY <2>2, <2>4 DEF SentInv, OneRequestAtATime, Mutating
        <4> QED
          BY <2>2, <2>3, <2>4, <4>1
      <3>3. (\A s \in requests : s.stage = "ready" => Mounted(s.call))'
        <4>1. Mounted(r.call)'
          BY <2>3, <2>4 DEF Mounted
        <4> QED
          BY <2>2, <2>4, <2>9, <4>1
      <3>4. ReturnedIsMounted'
        <4>1. \A c \in Attaches : outcome'[c] = "returned" => Mounted(c)
          BY DEF ReturnedIsMounted, Mounted
        <4>2. \A c \in Attaches : outcome'[c] = "returned" => Mounted(c)'
          BY <2>9, <4>1
        <4> QED
          BY <4>2 DEF ReturnedIsMounted, Mounted
      <3>5. NoConnectionNothingMounted'
        <4>1. outcome[r.call] # "no connection"
          BY DEF NoConnectionNothingMounted
        <4>2. \A c \in Attaches : outcome[c] = "no connection" => \A s \in requests' : s.call # c
          BY <2>8 DEF NoConnectionNothingMounted
        <4>3. \A c \in Attaches :
                  outcome[c] = "no connection" => \A d \in records' : d.call = c => d.state = "FAILED"
          BY <2>3, <2>4, <4>1 DEF NoConnectionNothingMounted
        <4> QED
          BY <4>2, <4>3 DEF NoConnectionNothingMounted
      <3> QED
        BY <3>1, <3>2, <3>3, <3>4, <3>5
    <2>11. RemoversInv'
      <3>1. r.call \notin removers
        BY DEF IInv, RemoversInv
      <3>2. \A d \in removers : \A s \in requests' : s.call = d => s.stage = "ok"
        BY <2>2, <2>4, <3>1 DEF IInv, RemoversInv
      <3>3. \A d \in Detaches : outcome[d] = "not found" => \A s \in requests' : s.call # d
        BY <2>8 DEF IInv, RemoversInv
      <3> QED
        BY <3>2, <3>3 DEF IInv, RemoversInv
    <2> QED
      BY <2>5, <2>6, <2>7, <2>10, <2>11 DEF IInv
  <1> QED
    BY <1>2, <1>3 DEF Bind

\* A detach removes what is named after the attach it names, and is recorded
\* as the one that did.
LEMMA ServeDetachInv == ASSUME IInv, NEW r \in requests, ServeDetach(r) PROVE IInv'
  <1> DEFINE named == {a \in records : a.call = VictimOf[r.call]}
             answer == IF named = {} THEN "not found" ELSE "ok"
             Request == [call : Calls, try : 1 .. MaxRetries + 1,
                         stage : {"received", "journaled"} \cup Answers]
             q == [r EXCEPT !.stage = answer]
  <1>1. /\ r.call \in Detaches /\ r.call \notin Attaches /\ r.stage = "received"
        /\ records' = records \ named
        /\ removers' = IF named = {} THEN removers ELSE removers \cup {r.call}
        /\ UNCHANGED <<clientVars, up, stops>>
    BY CallsAssumption DEF ServeDetach
  <1>2. r \in Request /\ requests \subseteq Request
    BY DEF IInv, TypeOK
  <1>3. q \in Request /\ q.call = r.call /\ q.stage = answer
    BY <1>2 DEF Answers
  <1>4. requests' \subseteq (requests \ {r}) \cup {q}
    BY DEF ServeDetach, Answer
  <1> HIDE DEF q, Request
  <1> USE DEF clientVars
  <1>5. TypeOK'
    <2>1. requests' \subseteq Request
      BY <1>2, <1>3, <1>4
    <2>2. records' \subseteq records /\ removers' \subseteq Detaches
      BY <1>1 DEF IInv, TypeOK
    <2> QED
      BY <1>1, <2>1, <2>2 DEF IInv, TypeOK, Request
  <1>6. LoopInv'
    BY <1>1 DEF IInv, LoopInv, LoopReturnsOrRaises, Attempts
  <1>7. SentInv'
    BY <1>1, <1>3, <1>4 DEF IInv, SentInv, OneRequestAtATime
  <1>8. \A c : (\A t \in requests : t.call # c) => (\A s \in requests' : s.call # c)
    BY <1>3, <1>4
  <1>9. \A c : Mounted(c) => Mounted(c)'
    <2>1. ASSUME NEW c, NEW a \in records, a.call = c, a.state = "READY"
          PROVE  Mounted(c)'
      BY <1>1, <2>1 DEF Mounted
    <2>2. ASSUME NEW c, NEW d \in removers, VictimOf[d] = c
          PROVE  Mounted(c)'
      BY <1>1, <2>2 DEF Mounted
    <2> QED
      BY <2>1, <2>2 DEF Mounted
  <1>10. RecordsInv'
    <2> USE DEF IInv, RecordsInv
    <2>1. records' \subseteq records
      BY <1>1
    <2>2. (\A a \in records :
              a.state = "READY" =>
                  /\ phase[a.call] \in {"in flight", "done"}
                  /\ \A s \in requests : s.call = a.call => s.stage = "ready")'
      <3>1. \A a \in records : a.call # r.call
        BY <1>1 DEF TypeOK
      <3> QED
        BY <1>1, <1>3, <1>4, <2>1, <3>1
    <2>3. (\A s \in requests : s.stage = "ready" => Mounted(s.call))'
      BY <1>3, <1>4, <1>9
    <2>4. ReturnedIsMounted'
      <3>1. \A c \in Attaches : outcome[c] = "returned" => Mounted(c)
        BY DEF ReturnedIsMounted, Mounted
      <3>2. \A c \in Attaches : outcome'[c] = "returned" => Mounted(c)'
        BY <1>1, <1>9, <3>1
      <3> QED
        BY <3>2 DEF ReturnedIsMounted, Mounted
    <2>5. NoConnectionNothingMounted'
      <3>1. \A c \in Attaches : outcome[c] = "no connection" => \A s \in requests' : s.call # c
        BY <1>8 DEF NoConnectionNothingMounted
      <3> QED
        BY <1>1, <2>1, <3>1 DEF NoConnectionNothingMounted
    <2> QED
      BY <2>1, <2>2, <2>3, <2>4, <2>5
  <1>11. RemoversInv'
    <2>1. r.call \notin removers
      BY <1>1 DEF IInv, RemoversInv
    <2>2. phase[r.call] \in {"in flight", "done"} /\ outcome[r.call] # "not found"
      BY <1>1 DEF IInv, SentInv, RemoversInv, Mutating
    <2>3. \A s \in requests' : s.call = r.call => s = q
      BY <1>1, <1>3, <1>4 DEF IInv, SentInv, OneRequestAtATime, Mutating
    <2>4. \A d \in removers' : \A s \in requests' : s.call = d => s.stage = "ok"
      BY <1>1, <1>3, <1>4, <2>1, <2>3 DEF IInv, RemoversInv
    <2>5. \A d \in Detaches : outcome[d] = "not found" => \A s \in requests' : s.call # d
      BY <1>8 DEF IInv, RemoversInv
    <2> QED
      BY <1>1, <2>2, <2>4, <2>5 DEF IInv, RemoversInv
  <1> QED
    BY <1>5, <1>6, <1>7, <1>10, <1>11 DEF IInv

LEMMA ServeReadInv == ASSUME IInv, NEW r \in requests, ServeRead(r) PROVE IInv'
  <1>1. /\ Answer(r, "ok") /\ r.stage = "received" /\ r.call \notin Attaches
        /\ UNCHANGED <<clientVars, records, removers, up, stops>>
    BY DEF ServeRead, Mutating, daemonVars
  <1> QED
    BY <1>1, AnswerInv DEF Answers

LEMMA RefuseInv == ASSUME IInv, NEW r \in requests, Refuse(r) PROVE IInv'
  <1>1. /\ r.stage = "received"
        /\ UNCHANGED <<clientVars, records, removers, up, stops>>
    BY DEF Refuse, daemonVars
  <1>2. PICK answer \in {"retryable", "rejected", "garbage"} : Answer(r, answer)
    BY DEF Refuse
  <1> QED
    BY <1>1, <1>2, AnswerInv DEF Answers

\* Stopping and starting lose requests, never records.
LEMMA FewerInv ==
    ASSUME IInv, requests' \subseteq requests, UNCHANGED <<clientVars, records, removers>>,
           up' \in BOOLEAN, stops' \in 0 .. MaxStops
    PROVE  IInv'
  <1> USE DEF clientVars
  <1>1. TypeOK'
    BY DEF IInv, TypeOK
  <1>2. LoopInv'
    BY DEF IInv, LoopInv, LoopReturnsOrRaises, Attempts
  <1>3. SentInv'
    BY DEF IInv, SentInv, OneRequestAtATime
  <1>4. RecordsInv'
    BY DEF IInv, RecordsInv, ReturnedIsMounted, NoConnectionNothingMounted, Mounted
  <1>5. RemoversInv'
    BY DEF IInv, RemoversInv
  <1> QED
    BY <1>1, <1>2, <1>3, <1>4, <1>5 DEF IInv

LEMMA StopRestartInv == ASSUME IInv, Stop \/ Restart \/ UNCHANGED vars PROVE IInv'
  <1>1. up \in BOOLEAN /\ stops \in 0 .. MaxStops
    BY DEF IInv, TypeOK
  <1>2. CASE Stop
    <2>1. stops + 1 \in 0 .. MaxStops
      BY <1>1, <1>2, RetriesAssumption DEF Stop
    <2> QED
      BY <1>1, <1>2, <2>1, FewerInv DEF Stop
  <1>3. CASE Restart
    BY <1>1, <1>3, FewerInv DEF Restart
  <1>4. CASE UNCHANGED vars
    BY <1>1, <1>4, FewerInv DEF vars, daemonVars
  <1> QED
    BY <1>2, <1>3, <1>4

-----------------------------------------------------------------------------

LEMMA NextInv == IInv /\ [Next]_vars => IInv'
  <1> SUFFICES ASSUME IInv, [Next]_vars PROVE IInv'
    OBVIOUS
  <1>1. ASSUME NEW c \in Calls, Begin(c) \/ Client(c) \/ Cancel(c) PROVE IInv'
    BY <1>1, BeginInv, ConnectInv, NotSentInv, LoseInv, ReceiveInv, ResumeInv, CancelInv DEF Client
  <1>2. CASE Daemon
    BY <1>2, ServeAttachInv, BindInv, ServeDetachInv, ServeReadInv, RefuseInv, StopRestartInv DEF Daemon
  <1> QED
    BY <1>1, <1>2, StopRestartInv DEF Next

LEMMA InvAlways == Spec => []IInv
  BY InitInv, NextInv, PTL DEF Spec

\* Both clients' loops keep their types, and a probe makes one attempt
\* (_request, healthy).
THEOREM HotLoadType == Spec => []TypeOK
  <1>1. IInv => TypeOK
    BY DEF IInv
  <1> QED
    BY <1>1, InvAlways, PTL

\* Nothing that may have been sent is sent again beside itself, for any number
\* of retries and stops (_retry_http_error).
THEOREM HotLoadOneRequest == Spec => []OneRequestAtATime
  <1>1. IInv => OneRequestAtATime
    BY DEF IInv, SentInv
  <1> QED
    BY <1>1, InvAlways, PTL

\* An attach that returned is mounted or was detached (_ready_attachment).
THEOREM HotLoadReturned == Spec => []ReturnedIsMounted
  <1>1. IInv => ReturnedIsMounted
    BY DEF IInv, RecordsInv
  <1> QED
    BY <1>1, InvAlways, PTL

\* A detach told NOT_FOUND removed nothing itself (_retry_http_error).
THEOREM HotLoadNotFound == Spec => []NotFoundIsNotOwn
  <1>1. IInv => NotFoundIsNotOwn
    BY DEF IInv, RemoversInv, NotFoundIsNotOwn
  <1> QED
    BY <1>1, InvAlways, PTL

\* An attach told that it could not connect is not mounted and will not be,
\* though an attempt it retried may have left a FAILED record (_http_failure).
THEOREM HotLoadNoConnection == Spec => []NoConnectionNothingMounted
  <1>1. IInv => NoConnectionNothingMounted
    BY DEF IInv, RecordsInv
  <1> QED
    BY <1>1, InvAlways, PTL

\* The assertion after the loop is never reached (_request).
THEOREM HotLoadLoop == Spec => []LoopReturnsOrRaises
  <1>1. IInv => LoopReturnsOrRaises
    BY DEF IInv, LoopInv
  <1> QED
    BY <1>1, InvAlways, PTL

\* A conflict is never with a record of one's own: the attempts of an attach
\* share its key, and a record of the call has it (attach's idempotency key).
THEOREM HotLoadReplay == Spec => OwnRecordReplayed
  <1> DEFINE Own == \A q \in requests' \ requests :
                        q.stage = "conflict" => \A a \in records : a.call # q.call
  <1>1. ASSUME IInv, NEW r \in requests, NEW answer \in Answers, Answer(r, answer),
               answer # "conflict"
        PROVE  Own
    <2>1. \A q \in requests' \ requests : q = [r EXCEPT !.stage = answer]
      BY <1>1 DEF Answer
    <2>2. [r EXCEPT !.stage = answer].stage = answer
      BY <1>1 DEF IInv, TypeOK
    <2> QED
      BY <1>1, <2>1, <2>2
  <1>2. ASSUME IInv, NEW r \in requests, ServeAttach(r) PROVE Own
    <2> DEFINE same == {a \in records : a.key = KeyOf(r)}
    <2>1. CASE \E a \in same : Answer(r, IF a.state = "READY" THEN "ready" ELSE "failed")
      BY <1>1, <1>2, <2>1 DEF Answers
    <2>2. CASE same = {} /\ Answer(r, "conflict")
      <3>1. \A a \in records : a.call # r.call
        BY <1>2, <2>2 DEF IInv, RecordsInv, KeyOf
      <3>2. \A q \in requests' \ requests : q = [r EXCEPT !.stage = "conflict"]
        BY <2>2 DEF Answer
      <3>3. [r EXCEPT !.stage = "conflict"].call = r.call
        BY <1>2 DEF IInv, TypeOK
      <3> QED
        BY <3>1, <3>2, <3>3
    <2>3. CASE requests' = (requests \ {r}) \cup {[r EXCEPT !.stage = "journaled"]}
      <3>1. [r EXCEPT !.stage = "journaled"].stage = "journaled"
        BY <1>2 DEF IInv, TypeOK
      <3> QED
        BY <2>3, <3>1
    <2> QED
      BY <1>2, <2>1, <2>2, <2>3 DEF ServeAttach
  <1>3. ASSUME IInv, NEW r \in requests, Bind(r) \/ ServeDetach(r) \/ ServeRead(r) \/ Refuse(r)
        PROVE  Own
    <2>1. PICK answer \in Answers \ {"conflict"} : Answer(r, answer)
      <3>1. CASE Bind(r)
        BY <3>1 DEF Bind, Answers
      <3>2. CASE ServeDetach(r)
        BY <3>2 DEF ServeDetach, Answers
      <3>3. CASE ServeRead(r)
        BY <3>3 DEF ServeRead, Answers
      <3>4. CASE Refuse(r)
        BY <3>4 DEF Refuse, Answers
      <3> QED
        BY <1>3, <3>1, <3>2, <3>3, <3>4
    <2> QED
      BY <1>1, <1>3, <2>1
  <1>4. ASSUME NEW c \in Calls, Connect(c) PROVE Own
    <2> DEFINE new == [call |-> c, try |-> tries[c], stage |-> "received"]
    <2>1. new.stage # "conflict"
      OBVIOUS
    <2> HIDE DEF new
    <2>2. \A q \in requests' \ requests : q = new
      BY <1>4 DEF Connect, new
    <2> QED
      BY <2>1, <2>2
  <1>5. IInv /\ [Next]_vars =>
            [\A r \in requests' \ requests :
                r.stage = "conflict" => \A a \in records : a.call # r.call]_vars
    <2> SUFFICES ASSUME IInv, [Next]_vars PROVE Own
      OBVIOUS
    <2>1. CASE requests' \subseteq requests
      BY <2>1
    <2>2. CASE \E c \in Calls : Begin(c) \/ Client(c) \/ Cancel(c)
      <3>1. PICK c \in Calls : Begin(c) \/ Client(c) \/ Cancel(c)
        BY <2>2
      <3>2. Begin(c) \/ NotSent(c) \/ Lose(c) \/ Receive(c) \/ Resume(c) \/ Cancel(c)
                => requests' \subseteq requests
        BY DEF Begin, NotSent, Lose, Receive, Resume, Cancel
      <3> QED
        BY <1>4, <2>1, <3>1, <3>2 DEF Client
    <2>3. CASE Daemon
      BY <1>2, <1>3, <2>1, <2>3 DEF Daemon, Stop, Restart
    <2> QED
      BY <2>1, <2>2, <2>3 DEF Next, vars
  <1> QED
    BY <1>5, InvAlways, PTL DEF Spec, OwnRecordReplayed

=============================================================================
