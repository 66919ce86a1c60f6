------------------------------ MODULE OriginRead ------------------------------
(***************************************************************************)
(* Object reads against the origin bucket while credentials expire:        *)
(* ObjectStore.get (volumes/_s3.py) over _CredentialSource, whose refresh  *)
(* resolves the pinned version again (_resolve, _with_retry), for which it *)
(* needs a cannery token from the client's cache (_token) of               *)
(* volumes/_client.py.                                                     *)
(*                                                                         *)
(* Several pulls share one client, and with it the token cache and its     *)
(* lock; the reads of one pull share its credential source and its lock.   *)
(* A source holds its lock while it resolves, and the resolve holds the    *)
(* cache's lock while it mints, so the locks nest in that order.           *)
(*                                                                         *)
(* Time is discrete and passes at any point: nothing bounds a request, for *)
(* the timeouts bound only its connect and the silence between two pieces  *)
(* of its answer.  The bucket, cannery and the Baseten API are external:   *)
(* they give any answer and any lifetime, but the bucket never serves a    *)
(* request whose credentials have expired.                                 *)
(***************************************************************************)
EXTENDS Naturals, FiniteSets

CONSTANTS
    Pulls,          \* pulls of one volume on one client
    Reads,          \* the calls of ObjectStore.get
    PullOf,         \* PullOf[r]: the pull read r belongs to
    Attempts,       \* ATTEMPTS
    Margin,         \* _EXPIRY_MARGIN
    Lives,          \* the lifetimes cannery gives origin credentials
    TokenLife,      \* the lifetime of a cannery token
    MaxTime         \* bound on the clock

ASSUME PullOfAssumption == PullOf \in [Reads -> Pulls] /\ Pulls \cap Reads = {}
ASSUME BoundsAssumption ==
    /\ Attempts \in Nat \ {0}
    /\ Margin \in Nat /\ TokenLife \in Nat /\ MaxTime \in Nat
    /\ Lives \subseteq Nat /\ Lives # {}

VARIABLES
    now,        \* the clock
    tag,        \* the version the pulled tag names, or Gone
    token,      \* when the cached cannery token expires; 0 is no token
    tokLock,    \* the thread that holds _tokens_lock
    phase,      \* phase[p]: "new", "opening", "open" or "failed"
    version,    \* version[p]: what the first resolve of pull p found
    current,    \* current[p]: _CredentialSource._current
    lock,       \* lock[p]: the read that holds the source's lock
    resolve,    \* resolve[t]: where the _resolve that thread t runs is
    place,      \* place[r]: where read r is
    attempt,    \* attempt[r]: the loop counter of get
    credential, \* credential[r]: the credentials its requests are signed with
    sent        \* sent[r]: when its request left

clientVars == <<token, tokLock>>
pullVars == <<phase, version, current, lock, resolve>>
readVars == <<place, attempt, credential, sent>>
vars == <<now, tag, clientVars, pullVars, readVars>>

NoOne == "nobody"
ASSUME NoOneAssumption == NoOne \notin Pulls \cup Reads
Gone == "gone"
NoVersion == "none"
Versions == {"v1", "v2"}

\* An origin credential, and the version the resolve that issued it named.
Credential == [expires : Nat, issued : Nat, of : Versions \cup {NoVersion}]
NoCredential == [expires |-> 0, issued |-> 0, of |-> NoVersion]

\* The threads that resolve: one that opens each pull, and the readers.
Threads == Pulls \cup Reads
Owner(t) == IF t \in Pulls THEN t ELSE PullOf[t]

\* A _resolve in progress: its step, the attempt of its _with_retry, and the
\* answer that is on its way back.
Resolving == [step : {"none", "token", "mint", "post", "answered"},
              tries : 0 .. Attempts, answer : Credential]
NoResolve == [step |-> "none", tries |-> 0, answer |-> NoCredential]

TypeOK ==
    /\ now \in 0 .. MaxTime
    /\ tag \in Versions \cup {Gone}
    /\ token \in Nat
    /\ tokLock \in Threads \cup {NoOne}
    /\ phase \in [Pulls -> {"new", "opening", "open", "failed"}]
    /\ version \in [Pulls -> Versions \cup {NoVersion}]
    /\ current \in [Pulls -> Credential]
    /\ lock \in [Pulls -> Reads \cup {NoOne}]
    /\ resolve \in [Threads -> Resolving]
    /\ place \in [Reads -> {"idle", "request", "backoff", "refresh",
                            "resolving", "done", "error", "assertion"}]
    /\ attempt \in [Reads -> 0 .. Attempts]
    /\ credential \in [Reads -> Credential]
    /\ sent \in [Reads -> Nat]

Init ==
    /\ now = 0
    /\ tag = "v1"
    /\ token = 0
    /\ tokLock = NoOne
    /\ phase = [p \in Pulls |-> "new"]
    /\ version = [p \in Pulls |-> NoVersion]
    /\ current = [p \in Pulls |-> NoCredential]
    /\ lock = [p \in Pulls |-> NoOne]
    /\ resolve = [t \in Threads |-> NoResolve]
    /\ place = [r \in Reads |-> "idle"]
    /\ attempt = [r \in Reads |-> 0]
    /\ credential = [r \in Reads |-> NoCredential]
    /\ sent = [r \in Reads |-> 0]

-----------------------------------------------------------------------------
(***************************************************************************)
(* The world.                                                              *)
(***************************************************************************)

\* Time passes, whatever is in flight and whoever sleeps.
Tick ==
    /\ now < MaxTime
    /\ now' = now + 1
    /\ UNCHANGED <<tag, clientVars, pullVars, readVars>>

\* Somebody pushes a new version to the tag or deletes it.
MoveTag ==
    /\ tag = "v1"
    /\ tag' \in {"v2", Gone}
    /\ UNCHANGED <<now, clientVars, pullVars, readVars>>

-----------------------------------------------------------------------------
(***************************************************************************)
(* Resolving a ref.                                                        *)
(***************************************************************************)

Fresh(expires) == expires > now + Margin

\* The thread's resolve moves to the step of a request it sends now.
Request(t, step) ==
    resolve' = [resolve EXCEPT ![t] =
        [step |-> step, tries |-> 1, answer |-> NoCredential]]

\* _with_retry: another attempt of the same request, while any is left.
TryAgain(t) ==
    /\ resolve[t].tries < Attempts
    /\ resolve' = [resolve EXCEPT ![t] =
           [step |-> IF @.step = "mint" THEN "mint" ELSE "post",
            tries |-> @.tries + 1, answer |-> NoCredential]]

\* Mutant: a refresh resolves the caller's ref again.
Named_Ref(t) == tag

\* What a resolve names: the caller's ref for the one that opens a pull, the
\* digest that one found for every later one.
Named(t) == IF t \in Pulls THEN tag ELSE version[Owner(t)]

\* get ends at place e, and its locals with it.
EndOfGet(r, e) ==
    /\ place' = [place EXCEPT ![r] = e]
    /\ attempt' = [attempt EXCEPT ![r] = 0]
    /\ credential' = [credential EXCEPT ![r] = NoCredential]
    /\ sent' = [sent EXCEPT ![r] = 0]

\* The with statement of current() or refresh() gives the source's lock up.
Unlock(t) == lock' = [lock EXCEPT ![Owner(t)] = IF t = @ THEN NoOne ELSE @]

\* Mutant: a resolve that raises leaves its source locked.
ResolveRaises_Locked(t) ==
    /\ resolve' = [resolve EXCEPT ![t] = NoResolve]
    /\ UNCHANGED lock
    /\ IF t \in Pulls
       THEN phase' = [phase EXCEPT ![t] = "failed"] /\ UNCHANGED readVars
       ELSE EndOfGet(t, "error") /\ UNCHANGED phase
    /\ UNCHANGED <<version, current>>

\* The resolve raises: the pull it opens fails, or the read it was for.
ResolveRaises(t) ==
    /\ resolve' = [resolve EXCEPT ![t] = NoResolve]
    /\ Unlock(t)
    /\ IF t \in Pulls
       THEN phase' = [phase EXCEPT ![t] = "failed"] /\ UNCHANGED readVars
       ELSE EndOfGet(t, "error") /\ UNCHANGED phase
    /\ UNCHANGED <<version, current>>

\* pull: its first _resolve.
Open(p) ==
    /\ phase[p] = "new"
    /\ phase' = [phase EXCEPT ![p] = "opening"]
    /\ resolve' = [resolve EXCEPT ![p].step = "token"]
    /\ UNCHANGED <<now, tag, clientVars, version, current, lock, readVars>>

\* _token takes _tokens_lock and finds a token with more than the margin left.
UseCachedToken(t) ==
    /\ resolve[t].step = "token"
    /\ tokLock = NoOne
    /\ Fresh(token)
    /\ Request(t, "post")
    /\ UNCHANGED <<now, tag, clientVars, phase, version, current, lock, readVars>>

\* Mutant: the cache is unlocked while the mint is under way.
BeginMint_Unlocked(t) ==
    /\ resolve[t].step = "token"
    /\ tokLock = NoOne
    /\ ~ Fresh(token)
    /\ Request(t, "mint")
    /\ UNCHANGED <<now, tag, clientVars, phase, version, current, lock, readVars>>

\* It finds none, and keeps the lock while it mints.
BeginMint(t) ==
    /\ resolve[t].step = "token"
    /\ tokLock = NoOne
    /\ ~ Fresh(token)
    /\ tokLock' = t
    /\ Request(t, "mint")
    /\ UNCHANGED <<now, tag, token, phase, version, current, lock, readVars>>

Minted(t) ==
    /\ resolve[t].step = "mint"
    /\ token' = now + TokenLife
    /\ tokLock' = NoOne
    /\ Request(t, "post")
    /\ UNCHANGED <<now, tag, phase, version, current, lock, readVars>>

\* A mint fails: it is repeated, or _token raises and its with statement gives
\* the lock up.
MintFailed(t) ==
    /\ resolve[t].step = "mint"
    /\ \/ TryAgain(t) /\ UNCHANGED <<tokLock, phase, version, current, lock, readVars>>
       \/ ResolveRaises(t) /\ tokLock' = NoOne
    /\ UNCHANGED <<now, tag, token>>

\* cannery issues credentials for the version the ref names, if it names one.
CanneryAnswers(t) ==
    /\ resolve[t].step = "post"
    /\ Named(t) # Gone
    /\ \E life \in Lives :
           resolve' = [resolve EXCEPT ![t].step = "answered", ![t].answer =
               [expires |-> now + life, issued |-> now, of |-> Named(t)]]
    /\ UNCHANGED <<now, tag, clientVars, phase, version, current, lock, readVars>>

\* A retryable failure of the post, or an error raised to the caller: a ref
\* that names nothing, a rejected or expired token, no attempt left.
ResolveFailed(t) ==
    /\ resolve[t].step \in {"post", "answered"}
    /\ \/ TryAgain(t) /\ UNCHANGED <<phase, version, current, lock, readVars>>
       \/ ResolveRaises(t)
    /\ UNCHANGED <<now, tag, clientVars>>

\* Read r sends its next request, signed with c.
SendRequest(r, n, c) ==
    /\ place' = [place EXCEPT ![r] = "request"]
    /\ attempt' = [attempt EXCEPT ![r] = n]
    /\ credential' = [credential EXCEPT ![r] = c]
    /\ sent' = [sent EXCEPT ![r] = now]

\* The answer arrives at a pull that opens.
Opened(p) ==
    /\ resolve[p].step = "answered"
    /\ phase' = [phase EXCEPT ![p] = "open"]
    /\ version' = [version EXCEPT ![p] = resolve[p].answer.of]
    /\ current' = [current EXCEPT ![p] = resolve[p].answer]
    /\ resolve' = [resolve EXCEPT ![p] = NoResolve]
    /\ UNCHANGED <<now, tag, clientVars, lock, readVars>>

\* It arrives at the read that holds the source's lock: current() hands the
\* new credentials to the first attempt, which leaves at once, refresh() to a
\* next one after the backoff.
Renewed(r) ==
    /\ resolve[r].step = "answered"
    /\ current' = [current EXCEPT ![PullOf[r]] = resolve[r].answer]
    /\ resolve' = [resolve EXCEPT ![r] = NoResolve]
    /\ Unlock(r)
    /\ IF attempt[r] = 0
       THEN SendRequest(r, 1, resolve[r].answer)
       ELSE /\ place' = [place EXCEPT ![r] = "backoff"]
            /\ credential' = [credential EXCEPT ![r] = resolve[r].answer]
            /\ UNCHANGED <<attempt, sent>>
    /\ UNCHANGED <<now, tag, clientVars, phase, version>>

-----------------------------------------------------------------------------
(***************************************************************************)
(* ObjectStore.get.                                                        *)
(***************************************************************************)

\* Mutant: the source is not locked during a resolve.
SourceFree_Unlocked(r) == TRUE

SourceFree(r) == lock[PullOf[r]] = NoOne

\* The source's lock is taken for a resolve on behalf of read r.
ResolveFor(r) ==
    /\ lock' = [lock EXCEPT ![PullOf[r]] = r]
    /\ resolve' = [resolve EXCEPT ![r].step = "token"]
    /\ place' = [place EXCEPT ![r] = "resolving"]
    /\ UNCHANGED <<now, tag, clientVars, phase, version, current, attempt,
                   credential, sent>>

\* credentials.current() has credentials with more than the margin left, and
\* the first attempt goes out with them.
Current(r) ==
    /\ place[r] = "idle"
    /\ phase[PullOf[r]] = "open"
    /\ SourceFree(r)
    /\ Fresh(current[PullOf[r]].expires)
    /\ SendRequest(r, 1, current[PullOf[r]])
    /\ UNCHANGED <<now, tag, clientVars, pullVars>>

\* credentials.current() finds them near expiry and resolves again.
CurrentNearExpiry(r) ==
    /\ place[r] = "idle"
    /\ phase[PullOf[r]] = "open"
    /\ SourceFree(r)
    /\ ~ Fresh(current[PullOf[r]].expires)
    /\ ResolveFor(r)

\* Mutant: a refresh is content with credentials that have not expired.
Refresh_Lazy(r) ==
    /\ place[r] = "refresh"
    /\ SourceFree(r)
    /\ IF current[PullOf[r]].expires > now
       THEN /\ place' = [place EXCEPT ![r] = "backoff"]
            /\ credential' = [credential EXCEPT ![r] = current[PullOf[r]]]
            /\ UNCHANGED <<now, tag, clientVars, pullVars, attempt, sent>>
       ELSE ResolveFor(r)

\* credentials.refresh(), after the bucket rejected the credentials: it
\* resolves whatever the source holds by now.
Refresh(r) ==
    /\ place[r] = "refresh"
    /\ SourceFree(r)
    /\ ResolveFor(r)

\* The read leaves its request for another place in the loop.
Leave(r, p) ==
    /\ place' = [place EXCEPT ![r] = p]
    /\ UNCHANGED <<now, tag, clientVars, pullVars, attempt, credential, sent>>

\* get returns or raises by itself.
End(r, p) == EndOfGet(r, p) /\ UNCHANGED <<now, tag, clientVars, pullVars>>

\* The bucket serves the object: get returns, or raises on a truncated body.
Served(r) ==
    /\ place[r] = "request"
    /\ credential[r].expires > now
    /\ End(r, "done") \/ End(r, "error")

\* The bucket calls the credentials expired or invalid; no attempt is checked.
Rejected(r) ==
    /\ place[r] = "request"
    /\ Leave(r, "refresh")

\* A transport error or a retryable answer: another attempt if one is left.
Retryable(r) ==
    /\ place[r] = "request"
    /\ IF attempt[r] = Attempts THEN End(r, "error") ELSE Leave(r, "backoff")

\* Any other answer is final.
Refused(r) ==
    /\ place[r] = "request"
    /\ End(r, "error")

\* The sleep is over: the next round of the loop, or the end of its range and
\* the assertion behind it.
NextRound(r) ==
    /\ place[r] = "backoff"
    /\ IF attempt[r] < Attempts
       THEN /\ SendRequest(r, attempt[r] + 1, credential[r])
            /\ UNCHANGED <<now, tag, clientVars, pullVars>>
       ELSE End(r, "assertion")

-----------------------------------------------------------------------------

Resolver(t) ==
    \/ UseCachedToken(t)
    \/ BeginMint(t)
    \/ Minted(t)
    \/ MintFailed(t)
    \/ CanneryAnswers(t)
    \/ ResolveFailed(t)

Reader(r) ==
    \/ Current(r)
    \/ CurrentNearExpiry(r)
    \/ Refresh(r)
    \/ Renewed(r)
    \/ Served(r)
    \/ Rejected(r)
    \/ Retryable(r)
    \/ Refused(r)
    \/ NextRound(r)

Next ==
    \/ Tick
    \/ MoveTag
    \/ \E p \in Pulls : Open(p) \/ Opened(p)
    \/ \E t \in Threads : Resolver(t)
    \/ \E r \in Reads : Reader(r)

\* Every request is answered or times out and every thread is scheduled.  No
\* fairness of the locks is needed: each is taken finitely often.
Fairness ==
    /\ \A p \in Pulls : WF_vars(Open(p)) /\ WF_vars(Opened(p))
    /\ \A t \in Threads : WF_vars(Resolver(t))
    /\ \A r \in Reads : WF_vars(Reader(r))

Spec == Init /\ [][Next]_vars /\ Fairness

-----------------------------------------------------------------------------
(***************************************************************************)
(* Properties.                                                             *)
(***************************************************************************)

\* A read of an open pull ends, with the object or an exception, while another
\* read wants its source and other pulls want the token cache: no failing mint
\* or resolve keeps either lock, and the two are never taken crosswise.
EveryReadEnds ==
    \A r \in Reads :
        phase[PullOf[r]] = "open" ~> place[r] \in {"done", "error", "assertion"}

\* The credentials of a source are never replaced by older ones: a resolve
\* that was slow cannot overwrite the result of a later one.
NeverOlder ==
    [][\A p \in Pulls : current'[p].issued >= current[p].issued]_vars

\* The comment in _object_store: every refresh reads the version the pull
\* began with, wherever the tag has moved meanwhile.
OneVersion ==
    \A p \in Pulls : phase[p] = "open" => current[p].of = version[p]

\* The token cache is checked and filled under one lock: a mint never
\* replaces a token that is still fresh, so two pulls never mint twice.
FreshTokenKept ==
    [][\A t \in Threads :
          resolve[t].step = "mint" /\ resolve'[t].step = "post" => ~ Fresh(token)]_vars

\* The attempts of a get share credentials whose expiry nobody looks at again,
\* so they may lapse on the way.  After the rejection that brings, a read does
\* not come back with what was rejected: its next credentials were issued no
\* earlier than its rejected request left.
RejectedNotReused ==
    [][\A r \in Reads :
          place[r] \in {"refresh", "resolving"} /\ place'[r] = "backoff" =>
              credential'[r].issued >= sent[r]]_vars

\* "unreachable: the retry loop returns or raises" (the end of get).
LoopReturnsOrRaises == \A r \in Reads : place[r] # "assertion"

=============================================================================
