------------------------------- MODULE HotLoad -------------------------------
(***************************************************************************)
(* HotLoadClient and AsyncHotLoadClient of hotload/_client.py: the request *)
(* loop of attach, detach, the lookups and the health probe, with its      *)
(* retries, idempotency key and classification of failures, against the    *)
(* pod's Hot Load daemon.                                                  *)
(*                                                                         *)
(* The daemon is not in the repository.  It is modelled from the wire      *)
(* contract of _client.py's docstring and from AttachmentState: it         *)
(* journals an attach as FAILED before it binds, keeps that record when    *)
(* the request is interrupted, answers a repeated key with the record it   *)
(* has, lets one record hold a target, and may refuse anything or stop.    *)
(* An error it calls retryable comes before it acts, or interrupts an      *)
(* attach between journal and bind; a DELETE is refused only before it     *)
(* acts.                                                                   *)
(*                                                                         *)
(* Timeouts are a choice: a request may be given up at any time, while the *)
(* daemon still works on it or after it answered.                          *)
(***************************************************************************)
EXTENDS Naturals, FiniteSets

CONSTANTS
    Attaches,       \* calls of attach
    Detaches,       \* calls of detach
    Lookups,        \* calls of list_attachments and get_attachment
    Probes,         \* calls of healthy
    TargetOf,       \* TargetOf[c]: the directory name attach c asks for
    VictimOf,       \* VictimOf[c]: the attach whose attachment detach c names
    Mixes,          \* bound: which calls are made together
    MaxRetries,     \* options.max_retries
    MaxStops        \* bound: how often the daemon stops

Calls == Attaches \cup Detaches \cup Lookups \cup Probes

\* The calls whose method is not GET.
Mutating == Attaches \cup Detaches

ASSUME CallsAssumption ==
    /\ IsFiniteSet(Calls)
    /\ Attaches \cap Detaches = {} /\ Mutating \cap (Lookups \cup Probes) = {}
    /\ VictimOf \in [Detaches -> Attaches]
    /\ Mixes \subseteq SUBSET Calls
ASSUME RetriesAssumption == MaxRetries \in Nat /\ MaxStops \in Nat

VARIABLES
    phase,      \* where each call is in its request loop
    tries,      \* the attempt it is at
    outcome,    \* what the caller got
    requests,   \* requests on the socket or with the daemon, and their answers
    records,    \* the daemon's journal of attachments
    up,         \* the daemon listens
    stops,      \* how often it stopped
    removers    \* history: detaches whose request removed a record

clientVars == <<phase, tries, outcome>>
daemonVars == <<records, up, stops, removers>>
vars == <<clientVars, requests, daemonVars>>

Pending == "pending"
Outcomes == {"returned", "attach error", "api error", "not found", "protocol error",
             "no connection", "timeout", "interrupted", "cancelled", "assertion"}
Answers == {"ready", "failed", "ok", "retryable", "rejected", "conflict",
            "not found", "garbage"}

TypeOK ==
    /\ phase \in [Calls -> {"never", "new", "sending", "in flight", "pausing", "done"}]
    /\ tries \in [Calls -> 0 .. MaxRetries + 1]
    /\ \A c \in Probes : tries[c] <= 1
    /\ outcome \in [Calls -> Outcomes \cup {Pending}]
    /\ requests \subseteq [call : Calls, try : 1 .. MaxRetries + 1,
                            stage : {"received", "journaled"} \cup Answers]
    /\ records \subseteq [key : Attaches \X Nat, call : Attaches, state : {"READY", "FAILED"}]
    /\ up \in BOOLEAN /\ stops \in 0 .. MaxStops
    /\ removers \subseteq Detaches

Init ==
    /\ phase \in {[c \in Calls |-> IF c \in mix THEN "new" ELSE "never"] : mix \in Mixes}
    /\ tries = [c \in Calls |-> 0]
    /\ outcome = [c \in Calls |-> Pending]
    /\ requests = {}
    /\ records = {}
    /\ up \in BOOLEAN
    /\ stops = 0
    /\ removers = {}

-----------------------------------------------------------------------------
(***************************************************************************)
(* The client: one iteration of _request's loop is a connection, the wait  *)
(* for an answer, and the pause before the next attempt.                   *)
(***************************************************************************)

Attempts(c) == IF c \in Probes THEN 1 ELSE MaxRetries + 1

\* Mutant: the last attempt is off by one.
LastAttempt_OffByOne(c) == tries[c] > Attempts(c)

LastAttempt(c) == tries[c] = Attempts(c)

\* The call ends with outcome o.
End(c, o) ==
    /\ phase' = [phase EXCEPT ![c] = "done"]
    /\ outcome' = [outcome EXCEPT ![c] = o]
    /\ UNCHANGED tries

Pause(c) ==
    /\ phase' = [phase EXCEPT ![c] = "pausing"]
    /\ UNCHANGED <<tries, outcome>>

\* A public method is called.  The id a detach names comes from an attachment
\* the daemon reported.
Begin(c) ==
    /\ phase[c] = "new"
    /\ c \in Detaches => \E a \in records : a.call = VictimOf[c]
    /\ phase' = [phase EXCEPT ![c] = "sending"]
    /\ tries' = [tries EXCEPT ![c] = 1]
    /\ UNCHANGED <<outcome, requests, daemonVars>>

\* Mutant: whatever is lost is sent again.
RetryHttpError_Any(c, error) == error # "unusable"

\* _retry_http_error: what was never sent, and what only reads.
RetryHttpError(c, error) ==
    /\ error # "unusable"
    /\ error = "never sent" \/ c \notin Mutating

\* Mutant: every lost request is called a failure to connect.
HttpFailure_Vague(error) == IF error = "unusable" THEN "protocol error" ELSE "no connection"

\* _http_failure: the error a lost request is reported as.
HttpFailure(error) ==
    CASE error = "unusable"   -> "protocol error"
      [] error = "never sent" -> "no connection"
      [] error = "timeout"    -> "timeout"
      [] error = "dropped"    -> "interrupted"

\* except httpx.HTTPError.
HttpError(c, error) ==
    IF LastAttempt(c) \/ ~ RetryHttpError(c, error)
    THEN End(c, HttpFailure(error))
    ELSE Pause(c)

\* The request reaches the daemon.
Connect(c) ==
    /\ phase[c] = "sending"
    /\ up
    /\ phase' = [phase EXCEPT ![c] = "in flight"]
    /\ requests' = requests \cup {[call |-> c, try |-> tries[c], stage |-> "received"]}
    /\ UNCHANGED <<tries, outcome, records, up, stops, removers>>

\* No socket, no connection in time, or none free in the pool.
NotSent(c) ==
    /\ phase[c] = "sending"
    /\ HttpError(c, "never sent")
    /\ UNCHANGED <<requests, daemonVars>>

\* The client still waits for the answer to request r.
Awaited(r) == phase[r.call] = "in flight" /\ r.try = tries[r.call]

\* The read timeout, a dropped connection or an answer httpx cannot decode.
\* The daemon is not told: what it has of the request it keeps working on.
Lose(c) ==
    /\ phase[c] = "in flight"
    /\ \E error \in {"timeout", "dropped", "unusable"} : HttpError(c, error)
    /\ requests' = {r \in requests : ~ (r.call = c /\ r.stage \in Answers)}
    /\ UNCHANGED daemonVars

\* Mutant: attach returns whatever attachment it is given.
ReadyAttachment_Any(answer) == "returned"

\* _ready_attachment: only a READY attachment is returned.
ReadyAttachment(answer) == IF answer = "ready" THEN "returned" ELSE "attach error"

\* _classify_response, and what the method makes of a success.
ClassifyResponse(answer) ==
    CASE answer \in {"ready", "failed"} -> ReadyAttachment(answer)
      [] answer = "ok"                  -> "returned"
      [] answer = "garbage"             -> "protocol error"
      [] answer = "not found"           -> "not found"
      [] OTHER                          -> "api error"

\* An answer arrives.
Receive(c) ==
    /\ phase[c] = "in flight"
    /\ \E r \in requests :
        /\ r.call = c /\ r.try = tries[c] /\ r.stage \in Answers
        /\ requests' = requests \ {r}
        /\ IF r.stage = "retryable" /\ ~ LastAttempt(c)
           THEN Pause(c)
           ELSE End(c, ClassifyResponse(r.stage))
    /\ UNCHANGED daemonVars

\* Mutant: the loop does not count its attempts.
Resume_Uncounted(c) ==
    /\ phase[c] = "pausing"
    /\ phase' = [phase EXCEPT ![c] = "sending"]
    /\ UNCHANGED <<tries, outcome, requests, daemonVars>>

\* The pause is over: the loop goes on, or falls out into its assertion.
Resume(c) ==
    /\ phase[c] = "pausing"
    /\ IF tries[c] >= Attempts(c)
       THEN End(c, "assertion")
       ELSE /\ phase' = [phase EXCEPT ![c] = "sending"]
            /\ tries' = [tries EXCEPT ![c] = @ + 1]
            /\ UNCHANGED outcome
    /\ UNCHANGED <<requests, daemonVars>>

\* The caller's task is cancelled, or a KeyboardInterrupt comes: neither is an
\* HTTPError, so it passes the loop.
Cancel(c) ==
    /\ phase[c] \in {"sending", "in flight", "pausing"}
    /\ End(c, "cancelled")
    /\ requests' = {r \in requests : ~ (r.call = c /\ r.stage \in Answers)}
    /\ UNCHANGED daemonVars

-----------------------------------------------------------------------------
(***************************************************************************)
(* The daemon.                                                             *)
(***************************************************************************)

\* Request r is answered; nobody reads the answer to a request given up.
Answer(r, answer) ==
    requests' = (requests \ {r}) \cup
                    IF Awaited(r) THEN {[r EXCEPT !.stage = answer]} ELSE {}

\* Mutant: every attempt mints its own key.
KeyOf_PerAttempt(r) == <<r.call, r.try>>

\* The idempotency key of an attach: minted once per call.
KeyOf(r) == <<r.call, 0>>

\* POST: a known key replays its record, a held target is a conflict, anything
\* else is journaled as FAILED.
ServeAttach(r) ==
    /\ r.call \in Attaches /\ r.stage = "received"
    /\ LET same == {a \in records : a.key = KeyOf(r)}
           holders == {a \in records : TargetOf[a.call] = TargetOf[r.call]}
       IN  \/ /\ same # {}
              /\ \E a \in same :
                     Answer(r, IF a.state = "READY" THEN "ready" ELSE "failed")
              /\ UNCHANGED records
           \/ /\ same = {} /\ holders # {}
              /\ Answer(r, "conflict")
              /\ UNCHANGED records
           \/ /\ same = {} /\ holders = {}
              /\ records' = records \cup
                     {[key |-> KeyOf(r), call |-> r.call, state |-> "FAILED"]}
              /\ requests' = (requests \ {r}) \cup {[r EXCEPT !.stage = "journaled"]}
    /\ UNCHANGED <<clientVars, up, stops, removers>>

\* The bind succeeds, unless the record was detached meanwhile, or the attach
\* is abandoned with its record left FAILED.
Bind(r) ==
    /\ r.stage = "journaled"
    /\ \/ \E a \in records :
              /\ a.key = KeyOf(r)
              /\ records' = (records \ {a}) \cup {[a EXCEPT !.state = "READY"]}
              /\ Answer(r, "ready")
       \/ /\ \E answer \in {"failed", "retryable"} : Answer(r, answer)
          /\ UNCHANGED records
    /\ UNCHANGED <<clientVars, up, stops, removers>>

\* DELETE.
ServeDetach(r) ==
    /\ r.call \in Detaches /\ r.stage = "received"
    /\ LET named == {a \in records : a.call = VictimOf[r.call]}
       IN  /\ records' = records \ named
           /\ Answer(r, IF named = {} THEN "not found" ELSE "ok")
           /\ removers' = IF named = {} THEN removers ELSE removers \cup {r.call}
    /\ UNCHANGED <<clientVars, up, stops>>

\* GET.
ServeRead(r) ==
    /\ r.call \notin Mutating /\ r.stage = "received"
    /\ Answer(r, "ok")
    /\ UNCHANGED <<clientVars, daemonVars>>

\* The daemon, or something in front of it, refuses without acting.
Refuse(r) ==
    /\ r.stage = "received"
    /\ \E answer \in {"retryable", "rejected", "garbage"} : Answer(r, answer)
    /\ UNCHANGED <<clientVars, daemonVars>>

\* The daemon stops and forgets its unfinished requests, never its journal.
Stop ==
    /\ up
    /\ stops < MaxStops
    /\ up' = FALSE
    /\ stops' = stops + 1
    /\ requests' = {r \in requests : r.stage \in Answers}
    /\ UNCHANGED <<clientVars, records, removers>>

Restart ==
    /\ ~ up
    /\ up' = TRUE
    /\ UNCHANGED <<clientVars, requests, records, stops, removers>>

-----------------------------------------------------------------------------

Client(c) ==
    \/ Connect(c)
    \/ NotSent(c)
    \/ Lose(c)
    \/ Receive(c)
    \/ Resume(c)

Daemon ==
    \/ \E r \in requests :
           \/ ServeAttach(r)
           \/ Bind(r)
           \/ ServeDetach(r)
           \/ ServeRead(r)
           \/ Refuse(r)
    \/ Stop
    \/ Restart

Next ==
    \/ \E c \in Calls : Begin(c) \/ Client(c) \/ Cancel(c)
    \/ Daemon

\* Connecting, waiting and pausing are bounded by timeouts; the daemon owes
\* nothing.
Fairness == \A c \in Calls : WF_vars(Client(c))

Spec == Init /\ [][Next]_vars /\ Fairness

-----------------------------------------------------------------------------
(***************************************************************************)
(* Properties.                                                             *)
(***************************************************************************)

\* The daemon never has two requests of one attach or detach: once a request
\* may have been sent it is not sent again (_retry_http_error's comment).
OneRequestAtATime ==
    \A r, s \in requests : r.call = s.call /\ r.call \in Mutating => r = s

\* A retried attach never runs into its own record as a conflict: its attempts
\* share one key, which the daemon answers with that record.
OwnRecordReplayed ==
    [][\A r \in requests' \ requests :
           r.stage = "conflict" => \A a \in records : a.call # r.call]_vars

\* An attach returns only when its attachment is mounted, and it stays mounted
\* until someone detaches it, whatever the daemon and other callers do.
ReturnedIsMounted ==
    \A c \in Attaches :
        outcome[c] = "returned" =>
            \/ \E a \in records : a.call = c /\ a.state = "READY"
            \/ \E d \in removers : VictimOf[d] = c

\* NOT_FOUND is about someone else's detach, never about this one's own, which
\* went through although its answer was lost.
NotFoundIsNotOwn ==
    \A c \in Detaches : outcome[c] = "not found" => c \notin removers

\* An attach told that it could not connect is not mounted, then or later: no
\* attempt of it is under way that may still bind.  What it may have left is the
\* FAILED record of an attempt it retried (ConnectionMessageIsRight).
NoConnectionNothingMounted ==
    \A c \in Attaches :
        outcome[c] = "no connection" =>
            /\ \A r \in requests : r.call # c
            /\ \A a \in records : a.call = c => a.state = "FAILED"

\* "The message says whether the daemon may have seen the request"
\* (HotLoadConnectionError): an attach told that it could not connect left the
\* daemon no record.
ConnectionMessageIsRight ==
    \A c \in Attaches :
        outcome[c] = "no connection" => \A a \in records : a.call # c

\* The assertion after _request's loop: the loop returns or raises.
LoopReturnsOrRaises == \A c \in Calls : outcome[c] # "assertion"

\* Every call ends, whatever the daemon does or fails to do: from some time on
\* none is under way.
EveryCallEnds == <>[](\A c \in Calls : phase[c] \in {"never", "new", "done"})

=============================================================================
