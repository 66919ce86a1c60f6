--------------------------- MODULE OriginReadProofs ---------------------------
(***************************************************************************)
(* Proofs about OriginRead, for any pulls, reads, number of attempts,      *)
(* lifetimes and clock.                                                    *)
(***************************************************************************)
EXTENDS OriginRead, TLAPS

-----------------------------------------------------------------------------
(***************************************************************************)
(* The type invariant.                                                     *)
(***************************************************************************)

Phases == {"new", "opening", "open", "failed"}
Steps == {"none", "token", "mint", "post", "answered"}
Places == {"idle", "request", "backoff", "refresh", "resolving", "done", "error",
           "assertion"}

LEMMA Constants ==
    /\ Attempts \in Nat /\ Attempts >= 1
    /\ Margin \in Nat /\ TokenLife \in Nat /\ MaxTime \in Nat
    /\ \A life \in Lives : life \in Nat
BY BoundsAssumption

LEMMA Actors ==
    /\ \A p \in Pulls : p \in Threads /\ p \notin Reads /\ p # NoOne /\ Owner(p) = p
    /\ \A r \in Reads : /\ r \in Threads /\ r \notin Pulls /\ r # NoOne
                        /\ Owner(r) = PullOf[r] /\ PullOf[r] \in Pulls
    /\ \A t \in Threads : t \in Pulls \/ t \in Reads
BY PullOfAssumption, NoOneAssumption DEF Threads, Owner

LEMMA Credentials ==
    /\ NoCredential \in Credential
    /\ NoCredential.issued = 0
    /\ \A c \in Credential : c.expires \in Nat /\ c.issued \in Nat
                             /\ c.of \in Versions \cup {NoVersion}
    /\ \A e, i \in Nat, v \in Versions \cup {NoVersion} :
           /\ [expires |-> e, issued |-> i, of |-> v] \in Credential
           /\ [expires |-> e, issued |-> i, of |-> v].expires = e
           /\ [expires |-> e, issued |-> i, of |-> v].issued = i
           /\ [expires |-> e, issued |-> i, of |-> v].of = v
BY DEF NoCredential, Credential

LEMMA Resolves ==
    /\ NoResolve \in Resolving /\ NoResolve.step = "none"
    /\ \A u \in Resolving : /\ u.step \in Steps /\ u.tries \in 0 .. Attempts
                            /\ u.answer \in Credential
    /\ \A x \in Steps, n \in 0 .. Attempts, c \in Credential :
           /\ [step |-> x, tries |-> n, answer |-> c] \in Resolving
           /\ [step |-> x, tries |-> n, answer |-> c].step = x
BY Credentials, Constants DEF NoResolve, Resolving, Steps

\* What a step can do to a resolve, and that it keeps all others.
OnlyAt(s, t, u) == t \in [Threads -> Resolving] /\ \A v \in Threads \ {u} : t[v] = s[v]

LEMMA SetNoResolve ==
    ASSUME NEW s \in [Threads -> Resolving], NEW u \in Threads,
           NEW t, t = [s EXCEPT ![u] = NoResolve]
    PROVE  OnlyAt(s, t, u) /\ t[u].step = "none"
BY Resolves DEF OnlyAt

LEMMA SetToken ==
    ASSUME NEW s \in [Threads -> Resolving], NEW u \in Threads,
           NEW t, t = [s EXCEPT ![u].step = "token"]
    PROVE  OnlyAt(s, t, u) /\ t[u].step = "token"
<1>1. [s[u] EXCEPT !.step = "token"] \in Resolving /\ [s[u] EXCEPT !.step = "token"].step = "token"
  BY DEF Resolving
<1>2. t = [s EXCEPT ![u] = [s[u] EXCEPT !.step = "token"]]
  OBVIOUS
<1>. QED
  BY <1>1, <1>2 DEF OnlyAt

LEMMA SetRequest ==
    ASSUME resolve \in [Threads -> Resolving], now \in Nat, NEW u \in Threads,
           NEW x \in Steps, Request(u, x)
    PROVE  OnlyAt(resolve, resolve', u) /\ resolve'[u].step = x
<1> DEFINE Sent == [step |-> x, tries |-> 1, answer |-> NoCredential]
<1>1. Sent \in Resolving /\ Sent.step = x
  <2>1. 1 \in 0 .. Attempts /\ NoCredential \in Credential
    BY Constants, Credentials
  <2>. QED
    BY <2>1, Resolves
<1>2. resolve' = [resolve EXCEPT ![u] = Sent]
  BY DEF Request
<1>. QED
  BY <1>1, <1>2 DEF OnlyAt

LEMMA SetAgain ==
    ASSUME resolve \in [Threads -> Resolving], now \in Nat, NEW u \in Threads, TryAgain(u)
    PROVE  /\ OnlyAt(resolve, resolve', u)
           /\ resolve'[u].step = IF resolve[u].step = "mint" THEN "mint" ELSE "post"
<1> DEFINE x == IF resolve[u].step = "mint" THEN "mint" ELSE "post"
           n == resolve[u].tries + 1
           Sent == [step |-> x, tries |-> n, answer |-> NoCredential]
<1>1. x \in Steps /\ n \in 0 .. Attempts
  BY Resolves, Constants DEF TryAgain, Steps
<1>2. Sent \in Resolving /\ Sent.step = x
  <2> HIDE DEF x, n
  <2>. QED
    BY <1>1, Resolves, Credentials
<1>3. resolve' = [resolve EXCEPT ![u] = Sent]
  BY DEF TryAgain
<1>. QED
  BY <1>2, <1>3 DEF OnlyAt

LEMMA SetAnswer ==
    ASSUME resolve \in [Threads -> Resolving], NEW u \in Threads, NEW c \in Credential,
           resolve' = [resolve EXCEPT ![u].step = "answered", ![u].answer = c]
    PROVE  /\ OnlyAt(resolve, resolve', u)
           /\ resolve'[u].step = "answered" /\ resolve'[u].answer = c
<1> DEFINE Answered == [resolve[u] EXCEPT !.step = "answered", !.answer = c]
<1>1. /\ Answered \in Resolving /\ Answered.step = "answered" /\ Answered.answer = c
  BY DEF Resolving
<1>2. resolve' = [resolve EXCEPT ![u] = Answered]
  OBVIOUS
<1>. QED
  BY <1>1, <1>2 DEF OnlyAt

LEMMA InitType == Init => TypeOK
<1>. SUFFICES ASSUME Init PROVE TypeOK
  OBVIOUS
<1>1. current \in [Pulls -> Credential] /\ credential \in [Reads -> Credential]
  BY Credentials DEF Init
<1>2. resolve \in [Threads -> Resolving]
  BY Resolves DEF Init
<1>3. now \in 0 .. MaxTime /\ attempt \in [Reads -> 0 .. Attempts]
  BY Constants DEF Init
<1>. QED
  BY <1>1, <1>2, <1>3 DEF Init, TypeOK, Versions

\* TypeOK, with names for its sets.
LEMMA Types ==
    TypeOK <=> /\ now \in 0 .. MaxTime
               /\ tag \in Versions \cup {Gone}
               /\ token \in Nat
               /\ tokLock \in Threads \cup {NoOne}
               /\ phase \in [Pulls -> Phases]
               /\ version \in [Pulls -> Versions \cup {NoVersion}]
               /\ current \in [Pulls -> Credential]
               /\ lock \in [Pulls -> Reads \cup {NoOne}]
               /\ resolve \in [Threads -> Resolving]
               /\ place \in [Reads -> Places]
               /\ attempt \in [Reads -> 0 .. Attempts]
               /\ credential \in [Reads -> Credential]
               /\ sent \in [Reads -> Nat]
BY DEF TypeOK, Phases, Places

\* The parts of the actions.
LEMMA EndOfGetType ==
    ASSUME TypeOK, NEW r \in Reads, NEW e \in Places, EndOfGet(r, e)
    PROVE  /\ place' \in [Reads -> Places] /\ attempt' \in [Reads -> 0 .. Attempts]
           /\ credential' \in [Reads -> Credential] /\ sent' \in [Reads -> Nat]
<1>1. 0 \in 0 .. Attempts /\ NoCredential \in Credential
  BY Constants, Credentials
<1>. QED
  BY <1>1, Types DEF EndOfGet

LEMMA SendRequestType ==
    ASSUME TypeOK, NEW r \in Reads, NEW n \in 0 .. Attempts, NEW c \in Credential,
           SendRequest(r, n, c)
    PROVE  /\ place' \in [Reads -> Places] /\ attempt' \in [Reads -> 0 .. Attempts]
           /\ credential' \in [Reads -> Credential] /\ sent' \in [Reads -> Nat]
<1>1. now \in Nat /\ "request" \in Places
  BY Types, Constants DEF Places
<1>. QED
  BY <1>1, Types DEF SendRequest

LEMMA UnlockType ==
    ASSUME TypeOK, NEW t \in Threads, Unlock(t)
    PROVE  lock' \in [Pulls -> Reads \cup {NoOne}]
BY Types, Actors DEF Unlock

LEMMA ResolveRaisesType ==
    ASSUME TypeOK, NEW t \in Threads, ResolveRaises(t)
    PROVE  /\ phase' \in [Pulls -> Phases] /\ lock' \in [Pulls -> Reads \cup {NoOne}]
           /\ resolve' \in [Threads -> Resolving]
           /\ place' \in [Reads -> Places] /\ attempt' \in [Reads -> 0 .. Attempts]
           /\ credential' \in [Reads -> Credential] /\ sent' \in [Reads -> Nat]
           /\ UNCHANGED <<version, current>>
<1>1. lock' \in [Pulls -> Reads \cup {NoOne}]
  BY UnlockType DEF ResolveRaises
<1>2. resolve' \in [Threads -> Resolving]
  BY Types, SetNoResolve DEF ResolveRaises, OnlyAt
<1>3. UNCHANGED <<version, current>>
  BY DEF ResolveRaises
<1>4. CASE t \in Pulls
  <2>1. phase' = [phase EXCEPT ![t] = "failed"] /\ UNCHANGED readVars
    BY <1>4 DEF ResolveRaises
  <2>. QED
    BY <1>1, <1>2, <1>3, <2>1, Types DEF Phases, readVars
<1>5. CASE t \notin Pulls
  <2>1. EndOfGet(t, "error") /\ UNCHANGED phase /\ t \in Reads
    BY <1>5, Actors DEF ResolveRaises
  <2>2. "error" \in Places
    BY DEF Places
  <2>. QED
    BY <1>1, <1>2, <1>3, <2>1, <2>2, EndOfGetType, Types
<1>. QED
  BY <1>4, <1>5

LEMMA StepType ==
    ASSUME TypeOK, [Next]_vars
    PROVE  TypeOK'
<1> DEFINE NewTypes ==
        /\ now' \in 0 .. MaxTime
        /\ tag' \in Versions \cup {Gone}
        /\ token' \in Nat
        /\ tokLock' \in Threads \cup {NoOne}
        /\ phase' \in [Pulls -> Phases]
        /\ version' \in [Pulls -> Versions \cup {NoVersion}]
        /\ current' \in [Pulls -> Credential]
        /\ lock' \in [Pulls -> Reads \cup {NoOne}]
        /\ resolve' \in [Threads -> Resolving]
        /\ place' \in [Reads -> Places]
        /\ attempt' \in [Reads -> 0 .. Attempts]
        /\ credential' \in [Reads -> Credential]
        /\ sent' \in [Reads -> Nat]
<1>a. SUFFICES NewTypes
  BY DEF TypeOK, Phases, Places
<1>b. /\ now \in 0 .. MaxTime /\ tag \in Versions \cup {Gone} /\ token \in Nat
      /\ tokLock \in Threads \cup {NoOne} /\ phase \in [Pulls -> Phases]
      /\ version \in [Pulls -> Versions \cup {NoVersion}] /\ current \in [Pulls -> Credential]
      /\ lock \in [Pulls -> Reads \cup {NoOne}] /\ resolve \in [Threads -> Resolving]
      /\ place \in [Reads -> Places] /\ attempt \in [Reads -> 0 .. Attempts]
      /\ credential \in [Reads -> Credential] /\ sent \in [Reads -> Nat]
  BY Types
<1>c. /\ Places = {"idle", "request", "backoff", "refresh", "resolving", "done", "error",
                   "assertion"}
      /\ Phases = {"new", "opening", "open", "failed"}
      /\ Steps = {"none", "token", "mint", "post", "answered"}
      /\ Versions = {"v1", "v2"} /\ Gone = "gone"
  BY DEF Places, Phases, Steps, Versions, Gone
<1>d. now \in Nat
  BY <1>b, Constants
<1> USE <1>b, <1>d DEF clientVars, pullVars, readVars
<1>1. CASE UNCHANGED vars
  BY <1>1 DEF vars
<1>2. CASE Tick
  <2>1. now' \in 0 .. MaxTime
    BY <1>2, Constants DEF Tick
  <2>. QED
    BY <1>2, <2>1 DEF Tick
<1>3. CASE MoveTag
  BY <1>3, <1>c DEF MoveTag
<1>4. ASSUME NEW p \in Pulls, Open(p) PROVE NewTypes
  <2>1. resolve' \in [Threads -> Resolving]
    <3>1. p \in Threads
      BY Actors
    <3>2. OnlyAt(resolve, resolve', p)
      BY <1>4, <3>1, SetToken DEF Open
    <3>. QED
      BY <3>2 DEF OnlyAt
  <2>2. phase' \in [Pulls -> Phases]
    BY <1>4, <1>c DEF Open
  <2>. QED
    BY <1>4, <2>1, <2>2 DEF Open
<1>5. ASSUME NEW p \in Pulls, Opened(p) PROVE NewTypes
  <2>1. resolve' \in [Threads -> Resolving] /\ p \in Threads
    BY <1>5, SetNoResolve, Actors DEF Opened, OnlyAt
  <2>2. resolve[p].answer \in Credential /\ resolve[p].answer.of \in Versions \cup {NoVersion}
    BY <2>1, Resolves, Credentials
  <2>3. phase' \in [Pulls -> Phases]
    BY <1>5, <1>c DEF Opened
  <2>4. /\ version' \in [Pulls -> Versions \cup {NoVersion}]
        /\ current' \in [Pulls -> Credential]
    BY <1>5, <2>2 DEF Opened
  <2>. QED
    BY <1>5, <2>1, <2>3, <2>4 DEF Opened
<1>6. ASSUME NEW t \in Threads, UseCachedToken(t) PROVE NewTypes
  BY <1>6, <1>c, SetRequest DEF UseCachedToken, OnlyAt
<1>7. ASSUME NEW t \in Threads, BeginMint(t) PROVE NewTypes
  BY <1>7, <1>c, SetRequest DEF BeginMint, OnlyAt
<1>8. ASSUME NEW t \in Threads, Minted(t) PROVE NewTypes
  <2>1. token' \in Nat
    BY <1>8, Constants DEF Minted
  <2>. QED
    BY <1>8, <1>c, <2>1, SetRequest DEF Minted, OnlyAt
<1>9. ASSUME NEW t \in Threads, MintFailed(t) PROVE NewTypes
  <2>1. CASE TryAgain(t) /\ UNCHANGED <<tokLock, phase, version, current, lock, readVars>>
    BY <1>9, <2>1, SetAgain DEF MintFailed, OnlyAt
  <2>2. CASE ResolveRaises(t) /\ tokLock' = NoOne
    BY <1>9, <2>2, ResolveRaisesType DEF MintFailed
  <2>. QED
    BY <1>9, <2>1, <2>2 DEF MintFailed
<1>10. ASSUME NEW t \in Threads, CanneryAnswers(t) PROVE NewTypes
  <2>1. PICK life \in Lives :
            resolve' = [resolve EXCEPT ![t].step = "answered", ![t].answer =
                [expires |-> now + life, issued |-> now, of |-> Named(t)]]
    BY <1>10 DEF CanneryAnswers
  <2>2. Named(t) \in Versions \cup {NoVersion}
    BY <1>10, Actors DEF CanneryAnswers, Named
  <2>3. now + life \in Nat
    BY Constants
  <2>4. [expires |-> now + life, issued |-> now, of |-> Named(t)] \in Credential
    BY <2>2, <2>3, Credentials
  <2>5. resolve' \in [Threads -> Resolving]
    BY <2>1, <2>4, SetAnswer DEF OnlyAt
  <2>. QED
    BY <1>10, <2>5 DEF CanneryAnswers
<1>11. ASSUME NEW t \in Threads, ResolveFailed(t) PROVE NewTypes
  <2>1. CASE TryAgain(t) /\ UNCHANGED <<phase, version, current, lock, readVars>>
    BY <1>11, <2>1, SetAgain DEF ResolveFailed, OnlyAt
  <2>2. CASE ResolveRaises(t)
    BY <1>11, <2>2, ResolveRaisesType DEF ResolveFailed
  <2>. QED
    BY <1>11, <2>1, <2>2 DEF ResolveFailed
<1>12. ASSUME NEW r \in Reads, Current(r) PROVE NewTypes
  <2>1. 1 \in 0 .. Attempts /\ current[PullOf[r]] \in Credential
    BY Constants, Actors
  <2>. QED
    BY <1>12, <2>1, SendRequestType DEF Current
<1>13. ASSUME NEW r \in Reads, ResolveFor(r) PROVE NewTypes
  <2>1. resolve' \in [Threads -> Resolving]
    <3>1. r \in Threads
      BY Actors
    <3>2. OnlyAt(resolve, resolve', r)
      BY <1>13, <3>1, SetToken DEF ResolveFor
    <3>. QED
      BY <3>2 DEF OnlyAt
  <2>. QED
    BY <1>13, <1>c, <2>1, Actors DEF ResolveFor
<1>14. ASSUME NEW r \in Reads, Renewed(r) PROVE NewTypes
  <2>1. resolve' \in [Threads -> Resolving] /\ r \in Threads
    BY <1>14, SetNoResolve, Actors DEF Renewed, OnlyAt
  <2>2. resolve[r].answer \in Credential /\ 1 \in 0 .. Attempts
    BY <2>1, Resolves, Constants
  <2>3. current' \in [Pulls -> Credential]
    BY <1>14, <2>2 DEF Renewed
  <2>4. lock' \in [Pulls -> Reads \cup {NoOne}]
    BY <1>14, <2>1, UnlockType DEF Renewed
  <2>5. /\ place' \in [Reads -> Places] /\ attempt' \in [Reads -> 0 .. Attempts]
        /\ credential' \in [Reads -> Credential] /\ sent' \in [Reads -> Nat]
    <3>1. CASE attempt[r] = 0
      BY <1>14, <2>2, <3>1, SendRequestType DEF Renewed
    <3>2. CASE attempt[r] # 0
      BY <1>14, <1>c, <2>2, <3>2 DEF Renewed
    <3>. QED
      BY <3>1, <3>2
  <2>. QED
    BY <1>14, <2>1, <2>3, <2>4, <2>5 DEF Renewed
<1>15. ASSUME NEW r \in Reads, NEW e \in {"done", "error", "assertion"}, End(r, e) PROVE NewTypes
  <2>1. e \in Places
    BY <1>c
  <2>. QED
    BY <1>15, <2>1, EndOfGetType DEF End
<1>16. ASSUME NEW r \in Reads, NEW e \in {"refresh", "backoff"}, Leave(r, e) PROVE NewTypes
  BY <1>16, <1>c DEF Leave
<1>17. ASSUME NEW r \in Reads, NextRound(r) PROVE NewTypes
  <2>1. CASE attempt[r] < Attempts
    <3>1. attempt[r] + 1 \in 0 .. Attempts /\ credential[r] \in Credential
      BY <2>1, Constants
    <3>. QED
      BY <1>17, <2>1, <3>1, SendRequestType DEF NextRound
  <2>. QED
    BY <1>15, <1>17, <2>1 DEF NextRound
<1>18. ASSUME NEW r \in Reads, Reader(r) PROVE NewTypes
  BY <1>12, <1>13, <1>14, <1>15, <1>16, <1>17, <1>18
     DEF Reader, CurrentNearExpiry, Refresh, Served, Rejected, Retryable, Refused
<1>. QED
  BY <1>1, <1>2, <1>3, <1>4, <1>5, <1>6, <1>7, <1>8, <1>9, <1>10, <1>11, <1>18
     DEF Next, Resolver

\* What the threads, the token cache and the sources can be, whatever fails or
\* expires.
THEOREM OriginType == Spec => []TypeOK
<1>1. Init => TypeOK
  BY InitType
<1>2. TypeOK /\ [Next]_vars => TypeOK'
  BY StepType
<1>. QED
  BY <1>1, <1>2, PTL DEF Spec

-----------------------------------------------------------------------------
(***************************************************************************)
(* The invariant of the threads, the sources and the reads.                *)
(***************************************************************************)

\* A thread that resolves does so where it may, under the locks it needs, and
\* its answer fits the source it is for.
ThreadInv(t) ==
    /\ t \in Pulls => (resolve[t].step # "none" => phase[t] = "opening")
    /\ t \in Reads =>
           /\ resolve[t].step # "none" => place[t] = "resolving" /\ lock[PullOf[t]] = t
           /\ place[t] # "idle" => phase[PullOf[t]] = "open"
    /\ resolve[t].step = "mint" => tokLock = t /\ token <= now + Margin
    /\ resolve[t].step = "answered" =>
           /\ resolve[t].answer.issued <= now
           /\ resolve[t].answer.issued >= current[Owner(t)].issued
           /\ t \in Reads => /\ resolve[t].answer.of = version[Owner(t)]
                             /\ resolve[t].answer.issued >= sent[t]

SourceInv(p) ==
    /\ current[p].issued <= now
    /\ phase[p] = "open" => current[p].of = version[p]

ReadInv(r) == sent[r] <= now

OriginInv ==
    /\ TypeOK
    /\ \A t \in Threads : ThreadInv(t)
    /\ \A p \in Pulls : SourceInv(p)
    /\ \A r \in Reads : ReadInv(r)

LEMMA InitInv == Init => OriginInv
<1>. SUFFICES ASSUME Init PROVE OriginInv
  OBVIOUS
<1>1. \A t \in Threads : resolve[t].step = "none"
  BY Resolves DEF Init
<1>2. \A p \in Pulls : current[p].issued = 0 /\ phase[p] = "new"
  BY Credentials DEF Init
<1>3. now = 0 /\ \A r \in Reads : place[r] = "idle" /\ sent[r] = 0
  BY DEF Init
<1>. QED
  BY <1>1, <1>2, <1>3, InitType DEF OriginInv, ThreadInv, SourceInv, ReadInv

\* What a step of thread u leaves alone.
SameRead(r) ==
    /\ place'[r] = place[r] /\ attempt'[r] = attempt[r]
    /\ credential'[r] = credential[r] /\ sent'[r] = sent[r]

Spares(u) ==
    /\ now' = now
    /\ OnlyAt(resolve, resolve', u)
    /\ \A v \in Threads \ {u} :
           /\ resolve[v].step # "none" =>
                  current'[Owner(v)] = current[Owner(v)] /\ version'[Owner(v)] = version[Owner(v)]
           /\ resolve[v].step = "mint" => tokLock' = tokLock /\ token' = token
    /\ \A r \in Reads \ {u} :
           /\ SameRead(r)
           /\ resolve[r].step # "none" => lock'[PullOf[r]] = lock[PullOf[r]]
    /\ \A p \in Pulls : phase[p] = "open" => phase'[p] = "open"
    /\ \A p \in Pulls \ {u} : phase'[p] = phase[p]

LEMMA OthersKept ==
    ASSUME OriginInv, NEW u \in Threads, Spares(u)
    PROVE  /\ \A v \in Threads \ {u} : ThreadInv(v)'
           /\ \A r \in Reads \ {u} : ReadInv(r)'
<1>1. ASSUME NEW v \in Threads \ {u} PROVE ThreadInv(v)'
  <2>1. ThreadInv(v) /\ resolve'[v] = resolve[v] /\ now' = now
    BY DEF OriginInv, Spares, OnlyAt
  <2>2. CASE v \in Pulls
    <3>1. v \notin Reads /\ phase'[v] = phase[v]
      BY <2>2, Actors DEF Spares
    <3>. QED
      BY <2>1, <2>2, <3>1 DEF Spares, ThreadInv
  <2>3. CASE v \in Reads
    <3>1. v \notin Pulls /\ SameRead(v) /\ Owner(v) = PullOf[v] /\ PullOf[v] \in Pulls
      BY <2>3, Actors DEF Spares
    <3>2. resolve[v].step # "none" => lock'[PullOf[v]] = lock[PullOf[v]]
      BY <2>3 DEF Spares
    <3>. QED
      BY <2>1, <2>3, <3>1, <3>2 DEF Spares, ThreadInv, SameRead
  <2>. QED
    BY <2>2, <2>3, Actors
<1>2. ASSUME NEW r \in Reads \ {u} PROVE ReadInv(r)'
  BY <1>2 DEF OriginInv, Spares, SameRead, ReadInv
<1>. QED
  BY <1>1, <1>2

\* The rest of a step of u: its own resolve and, if it is a read, its own get.
LEMMA StepOfThread ==
    ASSUME OriginInv, TypeOK', NEW u \in Threads, Spares(u), ThreadInv(u)',
           \A p \in Pulls : SourceInv(p)', u \in Reads => ReadInv(u)'
    PROVE  OriginInv'
BY OthersKept DEF OriginInv

LEMMA SourceKept ==
    ASSUME OriginInv, UNCHANGED <<now, version, current>>,
           \A p \in Pulls : phase'[p] = "open" => phase[p] = "open"
    PROVE  \A p \in Pulls : SourceInv(p)'
BY DEF OriginInv, SourceInv

\* The with statement of u takes no lock from a read that resolves.
LEMMA UnlockOwn ==
    ASSUME OriginInv, NEW u \in Threads, Unlock(u)
    PROVE  \A r \in Reads \ {u} :
               resolve[r].step # "none" => lock'[PullOf[r]] = lock[PullOf[r]]
<1>. SUFFICES ASSUME NEW r \in Reads \ {u}, resolve[r].step # "none"
              PROVE  lock'[PullOf[r]] = lock[PullOf[r]]
  OBVIOUS
<1>1. lock[PullOf[r]] = r /\ PullOf[r] \in Pulls
  BY Actors DEF OriginInv, ThreadInv
<1>. QED
  BY <1>1, Types DEF OriginInv, Unlock

\* A resolve that raises.
LEMMA RaisesInv ==
    ASSUME OriginInv, TypeOK', NEW u \in Threads, ResolveRaises(u), resolve[u].step # "none",
           now' = now,
           \A v \in Threads \ {u} : resolve[v].step = "mint" => tokLock' = tokLock /\ token' = token
    PROVE  OriginInv'
<1>1. OnlyAt(resolve, resolve', u) /\ resolve'[u].step = "none"
  BY SetNoResolve, Types DEF OriginInv, ResolveRaises
<1>2. ThreadInv(u) /\ UNCHANGED <<version, current>>
  BY DEF OriginInv, ResolveRaises
<1>3. \A r \in Reads \ {u} : resolve[r].step # "none" => lock'[PullOf[r]] = lock[PullOf[r]]
  BY UnlockOwn DEF ResolveRaises
<1>4. CASE u \in Pulls
  <2>1. /\ phase' = [phase EXCEPT ![u] = "failed"]
        /\ UNCHANGED <<place, attempt, credential, sent>>
    BY <1>4 DEF ResolveRaises, readVars
  <2>2. phase[u] = "opening" /\ u \notin Reads
    BY <1>2, <1>4, Actors DEF ThreadInv
  <2>3. /\ \A p \in Pulls : phase[p] = "open" <=> phase'[p] = "open"
        /\ \A p \in Pulls \ {u} : phase'[p] = phase[p]
    BY <2>1, <2>2, Types DEF OriginInv
  <2>4. Spares(u)
    BY <1>1, <1>2, <1>3, <2>1, <2>3 DEF Spares, SameRead
  <2>5. ThreadInv(u)'
    BY <1>1, <2>2 DEF ThreadInv
  <2>. QED
    BY <1>2, <2>2, <2>3, <2>4, <2>5, SourceKept, StepOfThread
<1>5. CASE u \in Reads
  <2>1. EndOfGet(u, "error") /\ UNCHANGED phase
    BY <1>5, Actors DEF ResolveRaises
  <2>2. place'[u] = "error" /\ sent'[u] = 0 /\ \A r \in Reads \ {u} : SameRead(r)
    BY <1>5, <2>1, Types DEF OriginInv, EndOfGet, SameRead
  <2>3. Spares(u)
    BY <1>1, <1>2, <1>3, <2>1, <2>2 DEF Spares
  <2>4. ThreadInv(u)' /\ ReadInv(u)'
    <3>1. phase[PullOf[u]] = "open" /\ u \notin Pulls
      BY <1>2, <1>5, Actors DEF ThreadInv
    <3>2. now \in Nat
      BY Types DEF OriginInv
    <3>. QED
      BY <1>1, <2>1, <2>2, <3>1, <3>2 DEF ThreadInv, ReadInv
  <2>. QED
    BY <1>2, <2>1, <2>3, <2>4, SourceKept, StepOfThread
<1>. QED
  BY <1>4, <1>5, Actors

\* The resolve of u sends a request: its first, or again after a failure.
LEMMA RequestInv ==
    ASSUME OriginInv, TypeOK', NEW u \in Threads, OnlyAt(resolve, resolve', u),
           resolve[u].step # "none", resolve'[u].step \in {"mint", "post"},
           UNCHANGED <<now, phase, version, current, lock, readVars>>,
           resolve'[u].step = "mint" => tokLock' = u /\ token' <= now + Margin,
           \A v \in Threads \ {u} : resolve[v].step = "mint" => tokLock' = tokLock /\ token' = token
    PROVE  OriginInv'
<1>1. UNCHANGED <<place, attempt, credential, sent>>
  BY DEF readVars
<1>2. Spares(u)
  BY <1>1 DEF Spares, SameRead
<1>3. ThreadInv(u)'
  BY <1>1 DEF OriginInv, ThreadInv
<1>4. u \in Reads => ReadInv(u)'
  BY <1>1 DEF OriginInv, ReadInv
<1>. QED
  BY <1>2, <1>3, <1>4, SourceKept, StepOfThread

\* A step of read r outside a resolve.
LEMMA ReadStepInv ==
    ASSUME OriginInv, TypeOK', NEW r \in Reads, UNCHANGED <<now, clientVars, pullVars>>,
           place[r] # "resolving", \A q \in Reads \ {r} : SameRead(q),
           place[r] # "idle" \/ phase[PullOf[r]] = "open", ReadInv(r)'
    PROVE  OriginInv'
<1>1. UNCHANGED <<token, tokLock, phase, version, current, lock, resolve>>
  BY DEF clientVars, pullVars
<1>2. r \in Threads /\ r \notin Pulls
  BY Actors
<1>3. resolve[r].step = "none"
  BY <1>2 DEF OriginInv, ThreadInv
<1>4. phase[PullOf[r]] = "open"
  BY <1>2 DEF OriginInv, ThreadInv
<1>5. Spares(r)
  BY <1>1, Types DEF OriginInv, Spares, OnlyAt
<1>6. ThreadInv(r)'
  BY <1>1, <1>2, <1>3, <1>4 DEF ThreadInv
<1>. QED
  BY <1>1, <1>2, <1>5, <1>6, SourceKept, StepOfThread

\* A request leaves.
LEMMA SendInv ==
    ASSUME OriginInv, NEW r \in Reads, NEW n \in 0 .. Attempts, NEW c \in Credential,
           SendRequest(r, n, c), now' = now
    PROVE  ReadInv(r)' /\ place'[r] = "request" /\ \A q \in Reads \ {r} : SameRead(q)
<1>1. /\ place'[r] = "request" /\ attempt'[r] = n /\ credential'[r] = c /\ sent'[r] = now
      /\ \A q \in Reads \ {r} : SameRead(q)
  BY Types DEF OriginInv, SendRequest, SameRead
<1>2. now \in Nat
  BY Types, Constants DEF OriginInv
<1>. QED
  BY <1>1, <1>2 DEF ReadInv

LEMMA EndInv ==
    ASSUME OriginInv, TypeOK', NEW r \in Reads, NEW e \in {"done", "error", "assertion"},
           End(r, e), place[r] \in {"request", "backoff"}
    PROVE  OriginInv'
<1>1. place'[r] = e /\ sent'[r] = 0 /\ \A q \in Reads \ {r} : SameRead(q)
  BY Types DEF OriginInv, End, EndOfGet, SameRead
<1>2. ReadInv(r)' /\ UNCHANGED <<now, clientVars, pullVars>>
  <2>1. now' = now /\ now \in Nat
    BY Types, Constants DEF OriginInv, End
  <2>. QED
    BY <1>1, <2>1 DEF ReadInv, End
<1>. QED
  BY <1>1, <1>2, ReadStepInv

LEMMA LeaveInv ==
    ASSUME OriginInv, TypeOK', NEW r \in Reads, NEW e \in {"refresh", "backoff"},
           Leave(r, e), place[r] = "request"
    PROVE  OriginInv'
<1>1. /\ place'[r] = e /\ UNCHANGED <<now, attempt, credential, sent, clientVars, pullVars>>
      /\ \A q \in Reads \ {r} : place'[q] = place[q]
  BY Types DEF OriginInv, Leave
<1>2. ReadInv(r)'
  BY <1>1 DEF OriginInv, ReadInv
<1>. QED
  BY <1>1, <1>2, ReadStepInv DEF SameRead

LEMMA ResolveForInv ==
    ASSUME OriginInv, TypeOK', NEW r \in Reads, ResolveFor(r), lock[PullOf[r]] = NoOne,
           place[r] \in {"idle", "refresh"}, phase[PullOf[r]] = "open"
    PROVE  OriginInv'
<1>1. OnlyAt(resolve, resolve', r) /\ resolve'[r].step = "token"
  <2>1. resolve \in [Threads -> Resolving] /\ r \in Threads
    BY Types, Actors DEF OriginInv
  <2>. QED
    BY <2>1, SetToken DEF ResolveFor
<1>2. /\ UNCHANGED <<now, token, tokLock, phase, version, current, attempt, credential, sent>>
      /\ place' = [place EXCEPT ![r] = "resolving"]
      /\ lock' = [lock EXCEPT ![PullOf[r]] = r]
  BY DEF ResolveFor, clientVars
<1>3. /\ place'[r] = "resolving" /\ \A q \in Reads \ {r} : SameRead(q)
      /\ lock'[PullOf[r]] = r
  BY <1>2, Types, Actors DEF OriginInv, SameRead
<1>4. \A q \in Reads \ {r} : resolve[q].step # "none" => lock'[PullOf[q]] = lock[PullOf[q]]
  <2>. SUFFICES ASSUME NEW q \in Reads \ {r}, resolve[q].step # "none"
                PROVE  lock'[PullOf[q]] = lock[PullOf[q]]
    OBVIOUS
  <2>1. lock[PullOf[q]] = q /\ q # NoOne
    BY Actors DEF OriginInv, ThreadInv
  <2>. QED
    BY <1>2, <2>1, Types, Actors DEF OriginInv
<1>5. r \in Threads /\ r \notin Pulls
  BY Actors
<1>6. Spares(r)
  BY <1>1, <1>2, <1>3, <1>4 DEF Spares
<1>7. ThreadInv(r)' /\ ReadInv(r)'
  BY <1>1, <1>2, <1>3, <1>5 DEF OriginInv, ThreadInv, ReadInv
<1>. QED
  BY <1>2, <1>5, <1>6, <1>7, SourceKept, StepOfThread

\* The answer of a resolve arrives.
LEMMA OpenedInv ==
    ASSUME OriginInv, TypeOK', NEW p \in Pulls, Opened(p)
    PROVE  OriginInv'
<1> DEFINE a == resolve[p].answer
<1>1. OnlyAt(resolve, resolve', p) /\ resolve'[p].step = "none"
  BY Types, SetNoResolve, Actors DEF OriginInv, Opened
<1>2. p \in Threads /\ p \notin Reads /\ Owner(p) = p
  BY Actors
<1>3. phase[p] = "opening" /\ a.issued <= now
  BY <1>2 DEF OriginInv, ThreadInv, Opened
<1>4. /\ UNCHANGED <<now, token, tokLock, lock, place, attempt, credential, sent>>
      /\ phase' = [phase EXCEPT ![p] = "open"]
      /\ version' = [version EXCEPT ![p] = a.of]
      /\ current' = [current EXCEPT ![p] = a]
  BY DEF Opened, clientVars, readVars
<1>5. \A v \in Threads \ {p} : resolve[v].step # "none" => Owner(v) # p
  BY <1>3, Actors DEF OriginInv, ThreadInv
<1>6. Spares(p)
  <2>1. \A v \in Threads : Owner(v) \in Pulls
    BY Actors
  <2>2. \A v \in Threads \ {p} : resolve[v].step # "none" =>
            current'[Owner(v)] = current[Owner(v)] /\ version'[Owner(v)] = version[Owner(v)]
    BY <1>4, <1>5, <2>1, Types DEF OriginInv
  <2>3. \A q \in Pulls \ {p} : phase'[q] = phase[q]
    BY <1>4, Types DEF OriginInv
  <2>. QED
    BY <1>1, <1>3, <1>4, <2>2, <2>3 DEF Spares, SameRead
<1>7. ThreadInv(p)'
  BY <1>1, <1>2 DEF ThreadInv
<1>8. ASSUME NEW q \in Pulls PROVE SourceInv(q)'
  BY <1>3, <1>4, Types DEF OriginInv, SourceInv
<1>. QED
  BY <1>2, <1>6, <1>7, <1>8, StepOfThread

LEMMA RenewedInv ==
    ASSUME OriginInv, TypeOK', NEW r \in Reads, Renewed(r)
    PROVE  OriginInv'
<1> DEFINE a == resolve[r].answer
<1>1. OnlyAt(resolve, resolve', r) /\ resolve'[r].step = "none"
  BY Types, SetNoResolve, Actors DEF OriginInv, Renewed
<1>2. r \in Threads /\ r \notin Pulls /\ Owner(r) = PullOf[r] /\ PullOf[r] \in Pulls
  BY Actors
<1>3. /\ place[r] = "resolving" /\ lock[PullOf[r]] = r /\ phase[PullOf[r]] = "open"
      /\ a.issued <= now /\ a.of = version[PullOf[r]]
  BY <1>2 DEF OriginInv, ThreadInv, Renewed
<1>4. /\ UNCHANGED <<now, token, tokLock, phase, version>>
      /\ current' = [current EXCEPT ![PullOf[r]] = a]
      /\ Unlock(r)
  BY DEF Renewed, clientVars
<1>5. a \in Credential
  BY <1>2, Types, Resolves DEF OriginInv
<1>6. ReadInv(r)' /\ place'[r] # "idle" /\ \A q \in Reads \ {r} : SameRead(q)
  <2>1. CASE attempt[r] = 0
    <3>1. SendRequest(r, 1, a) /\ 1 \in 0 .. Attempts
      BY <2>1, Constants DEF Renewed
    <3>. QED
      BY <1>4, <1>5, <3>1, SendInv
  <2>2. CASE attempt[r] # 0
    <3>1. /\ place' = [place EXCEPT ![r] = "backoff"]
          /\ credential' = [credential EXCEPT ![r] = a]
          /\ UNCHANGED <<attempt, sent>>
      BY <2>2 DEF Renewed
    <3>. QED
      BY <1>4, <3>1, Types DEF OriginInv, ReadInv, SameRead
  <2>. QED
    BY <2>1, <2>2
<1>7. \A v \in Threads \ {r} : resolve[v].step # "none" => Owner(v) # PullOf[r]
  BY <1>3, Actors DEF OriginInv, ThreadInv
<1>8. Spares(r)
  <2>1. \A v \in Threads \ {r} : resolve[v].step # "none" => current'[Owner(v)] = current[Owner(v)]
    BY <1>4, <1>7, Actors, Types DEF OriginInv
  <2>2. \A q \in Reads \ {r} : resolve[q].step # "none" => lock'[PullOf[q]] = lock[PullOf[q]]
    BY <1>2, <1>4, UnlockOwn
  <2>. QED
    BY <1>1, <1>4, <1>6, <2>1, <2>2 DEF Spares
<1>9. ThreadInv(r)'
  BY <1>1, <1>2, <1>3, <1>4, <1>6 DEF ThreadInv
<1>10. ASSUME NEW q \in Pulls PROVE SourceInv(q)'
  BY <1>3, <1>4, Types DEF OriginInv, SourceInv
<1>. QED
  BY <1>2, <1>6, <1>8, <1>9, <1>10, StepOfThread

LEMMA StepInv ==
    ASSUME OriginInv, [Next]_vars
    PROVE  OriginInv'
<1>t. TypeOK'
  BY StepType DEF OriginInv
<1>a. now \in Nat /\ token \in Nat /\ Margin \in Nat /\ resolve \in [Threads -> Resolving]
  BY Types, Constants DEF OriginInv
<1>1. CASE UNCHANGED vars
  BY <1>t, <1>1 DEF vars, clientVars, pullVars, readVars, OriginInv, ThreadInv, SourceInv, ReadInv
<1>2. CASE Tick
  <2>1. /\ UNCHANGED <<token, tokLock, phase, version, current, lock, resolve, place, attempt,
                       credential, sent>>
        /\ now' = now + 1
    BY <1>2 DEF Tick, clientVars, pullVars, readVars
  <2>2. \A t \in Threads : ThreadInv(t)'
    <3>. SUFFICES ASSUME NEW t \in Threads PROVE ThreadInv(t)'
      OBVIOUS
    <3>1. resolve[t].answer \in Credential
      BY <1>a, Resolves
    <3>2. resolve[t].answer.issued \in Nat
      BY <3>1, Credentials
    <3>. QED
      BY <1>a, <2>1, <3>2 DEF OriginInv, ThreadInv
  <2>3. \A p \in Pulls : SourceInv(p)'
    <3>. SUFFICES ASSUME NEW p \in Pulls PROVE SourceInv(p)'
      OBVIOUS
    <3>1. current[p].issued \in Nat
      BY Types, Credentials DEF OriginInv
    <3>. QED
      BY <1>a, <2>1, <3>1 DEF OriginInv, SourceInv
  <2>4. \A r \in Reads : ReadInv(r)'
    <3>. SUFFICES ASSUME NEW r \in Reads PROVE ReadInv(r)'
      OBVIOUS
    <3>1. sent[r] \in Nat
      BY Types DEF OriginInv
    <3>. QED
      BY <1>a, <2>1, <3>1 DEF OriginInv, ReadInv
  <2>. QED
    BY <1>t, <2>2, <2>3, <2>4 DEF OriginInv
<1>3. CASE MoveTag
  BY <1>t, <1>3 DEF MoveTag, clientVars, pullVars, readVars, OriginInv, ThreadInv, SourceInv,
     ReadInv
<1>4. ASSUME NEW p \in Pulls, Open(p) PROVE OriginInv'
  <2>1. OnlyAt(resolve, resolve', p) /\ resolve'[p].step = "token"
    <3>1. p \in Threads
      BY Actors
    <3>2. resolve \in [Threads -> Resolving]
      BY <1>a
    <3>. QED
      BY <1>4, <3>1, <3>2, SetToken DEF Open
  <2>2. /\ UNCHANGED <<now, token, tokLock, version, current, lock, place, attempt, credential, sent>>
        /\ phase[p] = "new" /\ phase' = [phase EXCEPT ![p] = "opening"]
    BY <1>4 DEF Open, clientVars, readVars
  <2>3. p \in Threads /\ p \notin Reads
    BY Actors
  <2>4. Spares(p)
    BY <2>1, <2>2, Types DEF OriginInv, Spares, SameRead
  <2>5. ThreadInv(p)'
    BY <2>1, <2>2, <2>3, Types DEF OriginInv, ThreadInv
  <2>6. \A q \in Pulls : phase'[q] = "open" => phase[q] = "open"
    BY <2>2, Types DEF OriginInv
  <2>. QED
    BY <1>t, <2>2, <2>3, <2>4, <2>5, <2>6, SourceKept, StepOfThread
<1>5. ASSUME NEW t \in Threads, UseCachedToken(t) PROVE OriginInv'
  <2>1. OnlyAt(resolve, resolve', t) /\ resolve'[t].step = "post"
    BY <1>a, <1>5, SetRequest DEF UseCachedToken, Steps
  <2>. QED
    BY <1>t, <1>5, <2>1, RequestInv DEF UseCachedToken, clientVars
<1>6. ASSUME NEW t \in Threads, BeginMint(t) PROVE OriginInv'
  <2>1. OnlyAt(resolve, resolve', t) /\ resolve'[t].step = "mint"
    BY <1>a, <1>6, SetRequest DEF BeginMint, Steps
  <2>2. token <= now + Margin
    BY <1>a, <1>6 DEF BeginMint, Fresh
  <2>3. \A v \in Threads \ {t} : resolve[v].step # "mint"
    BY <1>6, Actors DEF OriginInv, ThreadInv, BeginMint
  <2>. QED
    BY <1>t, <1>6, <2>1, <2>2, <2>3, RequestInv DEF BeginMint
<1>7. ASSUME NEW t \in Threads, Minted(t) PROVE OriginInv'
  <2>1. OnlyAt(resolve, resolve', t) /\ resolve'[t].step = "post"
    BY <1>a, <1>7, SetRequest DEF Minted, Steps
  <2>2. \A v \in Threads \ {t} : resolve[v].step # "mint"
    BY <1>7 DEF OriginInv, ThreadInv, Minted
  <2>. QED
    BY <1>t, <1>7, <2>1, <2>2, RequestInv DEF Minted
<1>8. ASSUME NEW t \in Threads, MintFailed(t) PROVE OriginInv'
  <2>1. \A v \in Threads \ {t} : resolve[v].step # "mint"
    BY <1>8 DEF OriginInv, ThreadInv, MintFailed
  <2>2. CASE TryAgain(t) /\ UNCHANGED <<tokLock, phase, version, current, lock, readVars>>
    <3>1. OnlyAt(resolve, resolve', t) /\ resolve'[t].step = "mint"
      BY <1>a, <1>8, <2>2, SetAgain DEF MintFailed
    <3>2. tokLock = t /\ token <= now + Margin
      BY <1>8 DEF OriginInv, ThreadInv, MintFailed
    <3>. QED
      BY <1>t, <1>8, <2>1, <2>2, <3>1, <3>2, RequestInv DEF MintFailed
  <2>3. CASE ResolveRaises(t) /\ tokLock' = NoOne
    BY <1>t, <1>8, <2>1, <2>3, RaisesInv DEF MintFailed
  <2>. QED
    BY <1>8, <2>2, <2>3 DEF MintFailed
<1>9. ASSUME NEW t \in Threads, CanneryAnswers(t) PROVE OriginInv'
  <2>1. PICK life \in Lives :
            resolve' = [resolve EXCEPT ![t].step = "answered", ![t].answer =
                [expires |-> now + life, issued |-> now, of |-> Named(t)]]
    BY <1>9 DEF CanneryAnswers
  <2> DEFINE a == [expires |-> now + life, issued |-> now, of |-> Named(t)]
  <2>2. /\ UNCHANGED <<now, token, tokLock, phase, version, current, lock, place, attempt,
                       credential, sent>>
        /\ resolve[t].step = "post" /\ Named(t) # Gone
    BY <1>9 DEF CanneryAnswers, clientVars, readVars
  <2>3. /\ a \in Credential
        /\ a.expires = now + life /\ a.issued = now /\ a.of = Named(t)
    <3>1. Named(t) \in Versions \cup {NoVersion}
      BY <2>2, Types, Actors DEF OriginInv, Named
    <3>2. now + life \in Nat
      BY <1>a, Constants
    <3>. QED
      BY <1>a, <3>1, <3>2, Credentials
  <2>4. /\ OnlyAt(resolve, resolve', t)
        /\ resolve'[t].step = "answered" /\ resolve'[t].answer = a
    <3>1. resolve' = [resolve EXCEPT ![t].step = "answered", ![t].answer = a]
      BY <2>1
    <3>2. a \in Credential /\ resolve \in [Threads -> Resolving]
      BY <1>a, <2>3
    <3> HIDE DEF a
    <3>. QED
      BY <3>1, <3>2, SetAnswer
  <2>5. Spares(t)
    BY <2>2, <2>4 DEF Spares, SameRead
  <2>6. ThreadInv(t)'
    <3>1. ThreadInv(t)
      BY DEF OriginInv
    <3>2. a.issued >= current[Owner(t)].issued
      BY <2>3, Actors DEF OriginInv, SourceInv
    <3>3. t \in Reads => a.of = version[Owner(t)] /\ a.issued >= sent[t]
      BY <2>3, Actors DEF Named, OriginInv, ReadInv
    <3> HIDE DEF a
    <3>. QED
      BY <1>a, <2>2, <2>3, <2>4, <3>1, <3>2, <3>3 DEF ThreadInv
  <2>7. t \in Reads => ReadInv(t)'
    BY <2>2 DEF OriginInv, ReadInv
  <2>. QED
    BY <1>t, <2>2, <2>5, <2>6, <2>7, SourceKept, StepOfThread
<1>10. ASSUME NEW t \in Threads, ResolveFailed(t) PROVE OriginInv'
  <2>1. UNCHANGED <<now, token, tokLock>>
    BY <1>10 DEF ResolveFailed, clientVars
  <2>2. CASE TryAgain(t) /\ UNCHANGED <<phase, version, current, lock, readVars>>
    <3>1. OnlyAt(resolve, resolve', t) /\ resolve'[t].step = "post"
      BY <1>a, <1>10, <2>2, SetAgain DEF ResolveFailed
    <3>. QED
      BY <1>t, <1>10, <2>1, <2>2, <3>1, RequestInv DEF ResolveFailed
  <2>3. CASE ResolveRaises(t)
    BY <1>t, <1>10, <2>1, <2>3, RaisesInv DEF ResolveFailed
  <2>. QED
    BY <1>10, <2>2, <2>3 DEF ResolveFailed
<1>11. ASSUME NEW r \in Reads, Reader(r) PROVE OriginInv'
  <2>1. CASE Current(r)
    <3>1. 1 \in 0 .. Attempts /\ current[PullOf[r]] \in Credential
      BY Types, Constants, Actors DEF OriginInv
    <3>2. /\ SendRequest(r, 1, current[PullOf[r]])
          /\ UNCHANGED <<now, clientVars, pullVars>>
          /\ place[r] = "idle" /\ phase[PullOf[r]] = "open"
      BY <2>1 DEF Current, Fresh
    <3>3. ReadInv(r)' /\ \A q \in Reads \ {r} : SameRead(q)
      BY <3>1, <3>2, SendInv
    <3>. QED
      BY <1>t, <3>2, <3>3, ReadStepInv
  <2>2. CASE CurrentNearExpiry(r)
    BY <1>t, <2>2, ResolveForInv DEF CurrentNearExpiry, SourceFree
  <2>3. CASE Refresh(r)
    <3>1. phase[PullOf[r]] = "open"
      BY <2>3, Actors DEF OriginInv, ThreadInv, Refresh
    <3>. QED
      BY <1>t, <2>3, <3>1, ResolveForInv DEF Refresh, SourceFree
  <2>4. CASE Served(r) \/ Refused(r)
    BY <1>t, <2>4, EndInv DEF Served, Refused
  <2>5. CASE Rejected(r)
    BY <1>t, <2>5, LeaveInv DEF Rejected
  <2>6. CASE Retryable(r)
    BY <1>t, <2>6, LeaveInv, EndInv DEF Retryable
  <2>7. CASE NextRound(r)
    <3>1. CASE attempt[r] < Attempts
      <4>1. attempt[r] + 1 \in 0 .. Attempts /\ credential[r] \in Credential
        BY <2>7, <3>1, Types, Constants DEF OriginInv, ReadInv, NextRound
      <4>2. /\ SendRequest(r, attempt[r] + 1, credential[r])
            /\ UNCHANGED <<now, clientVars, pullVars>> /\ place[r] = "backoff"
        BY <2>7, <3>1 DEF NextRound
      <4>3. ReadInv(r)' /\ \A q \in Reads \ {r} : SameRead(q)
        BY <4>1, <4>2, SendInv
      <4>. QED
        BY <1>t, <4>2, <4>3, ReadStepInv
    <3>. QED
      BY <1>t, <2>7, <3>1, EndInv DEF NextRound
  <2>. QED
    BY <1>t, <1>11, <2>1, <2>2, <2>3, <2>4, <2>5, <2>6, <2>7, RenewedInv DEF Reader
<1>. QED
  BY <1>t, <1>1, <1>2, <1>3, <1>4, <1>5, <1>6, <1>7, <1>8, <1>9, <1>10, <1>11, OpenedInv
     DEF Next, Resolver

THEOREM OriginInvariant == Spec => []OriginInv
<1>1. Init => OriginInv
  BY InitInv
<1>2. OriginInv /\ [Next]_vars => OriginInv'
  BY StepInv
<1>. QED
  BY <1>1, <1>2, PTL DEF Spec

-----------------------------------------------------------------------------
(***************************************************************************)
(* What a pull can rely on.                                                *)
(***************************************************************************)

\* The comment in _object_store: every refresh reads the version the pull
\* began with, wherever the tag has moved meanwhile.
THEOREM OriginOneVersion == Spec => []OneVersion
<1>1. OriginInv => OneVersion
  BY DEF OriginInv, SourceInv, OneVersion
<1>. QED
  BY <1>1, OriginInvariant, PTL

\* _token holds its lock while it mints, so no token still fresh is replaced.
THEOREM OriginFreshTokenKept == Spec => FreshTokenKept
<1> DEFINE Kept == \A t \in Threads :
        resolve[t].step = "mint" /\ resolve'[t].step = "post" => ~ Fresh(token)
<1>1. OriginInv => Kept
  BY Types, Constants DEF OriginInv, ThreadInv, Fresh
<1>. QED
  BY <1>1, OriginInvariant, PTL DEF FreshTokenKept

\* Only an answer changes what a source holds, and it was issued later.
THEOREM OriginNeverOlder == Spec => NeverOlder
<1> DEFINE Newer == \A p \in Pulls : current'[p].issued >= current[p].issued
<1>1. ASSUME OriginInv, [Next]_vars PROVE [Newer]_vars
  <2>. SUFFICES Newer
    OBVIOUS
  <2>a. \A p \in Pulls : current[p].issued \in Nat
    BY <1>1, Types, Credentials DEF OriginInv
  <2>1. ASSUME UNCHANGED current PROVE Newer
    BY <2>a, <2>1
  <2>2. ASSUME NEW p \in Pulls, Opened(p) PROVE Newer
    <3>1. current' = [current EXCEPT ![p] = resolve[p].answer] /\ resolve[p].step = "answered"
      BY <2>2 DEF Opened
    <3>2. resolve[p].answer.issued >= current[p].issued
      BY <1>1, <3>1, Actors DEF OriginInv, ThreadInv
    <3>. QED
      BY <1>1, <2>a, <3>1, <3>2, Types DEF OriginInv
  <2>3. ASSUME NEW r \in Reads, Renewed(r) PROVE Newer
    <3>1. current' = [current EXCEPT ![PullOf[r]] = resolve[r].answer] /\ resolve[r].step = "answered"
      BY <2>3 DEF Renewed
    <3>2. resolve[r].answer.issued >= current[PullOf[r]].issued
      BY <1>1, <3>1, Actors DEF OriginInv, ThreadInv
    <3>. QED
      BY <1>1, <2>a, <3>1, <3>2, Types DEF OriginInv
  <2>4. CASE UNCHANGED vars \/ Tick \/ MoveTag
    BY <2>1, <2>4 DEF vars, pullVars, Tick, MoveTag
  <2>5. ASSUME NEW p \in Pulls, Open(p) PROVE Newer
    BY <2>1, <2>5 DEF Open
  <2>6. ASSUME NEW t \in Threads, Resolver(t) PROVE Newer
    BY <2>1, <2>6 DEF Resolver, UseCachedToken, BeginMint, Minted, MintFailed, CanneryAnswers,
       ResolveFailed, ResolveRaises
  <2>7. ASSUME NEW r \in Reads, Reader(r), ~ Renewed(r) PROVE Newer
    BY <2>1, <2>7 DEF Reader, Current, CurrentNearExpiry, Refresh, Served, Rejected, Retryable,
       Refused, NextRound, ResolveFor, Leave, End, pullVars
  <2>. QED
    BY <1>1, <2>2, <2>3, <2>4, <2>5, <2>6, <2>7 DEF Next
<1>. QED
  BY <1>1, OriginInvariant, PTL DEF Spec, NeverOlder

\* A refresh resolves anew, after the rejection: what the read goes on with was
\* issued no earlier than its rejected request left.
THEOREM OriginRejectedNotReused == Spec => RejectedNotReused
<1> DEFINE Anew == \A r \in Reads :
        place[r] \in {"refresh", "resolving"} /\ place'[r] = "backoff" =>
            credential'[r].issued >= sent[r]
<1>1. ASSUME OriginInv, [Next]_vars PROVE [Anew]_vars
  <2>. SUFFICES ASSUME NEW r \in Reads, place[r] \in {"refresh", "resolving"},
                       place'[r] = "backoff"
                PROVE  credential'[r].issued >= sent[r]
    OBVIOUS
  <2>a. place \in [Reads -> Places] /\ credential \in [Reads -> Credential]
    BY <1>1, Types DEF OriginInv
  <2>1. ASSUME NEW q \in Reads, Renewed(q) PROVE credential'[r].issued >= sent[r]
    <3>1. q = r /\ attempt[r] # 0
      BY <2>a, <2>1 DEF Renewed, SendRequest
    <3>2. credential'[r] = resolve[r].answer /\ resolve[r].step = "answered"
      BY <2>a, <2>1, <3>1 DEF Renewed
    <3>. QED
      BY <1>1, <3>2, Actors DEF OriginInv, ThreadInv
  <2>2. ~ (UNCHANGED vars \/ Tick \/ MoveTag)
    BY DEF vars, readVars, Tick, MoveTag
  <2>3. ASSUME NEW p \in Pulls, Open(p) \/ Opened(p) PROVE FALSE
    BY <2>3 DEF Open, Opened, readVars
  <2>4. ASSUME NEW t \in Threads, ResolveRaises(t) PROVE FALSE
    BY <2>a, <2>4, Actors DEF ResolveRaises, EndOfGet, readVars
  <2>5. ASSUME NEW t \in Threads, Resolver(t) PROVE FALSE
    BY <2>4, <2>5 DEF Resolver, UseCachedToken, BeginMint, Minted, MintFailed, CanneryAnswers,
       ResolveFailed, readVars
  <2>6. ASSUME NEW q \in Reads, Reader(q), ~ Renewed(q) PROVE FALSE
    <3>1. \A e \in {"done", "error", "assertion"} : ~ End(q, e)
      BY <2>a DEF End, EndOfGet
    <3>2. \A n, c : ~ SendRequest(q, n, c)
      BY <2>a DEF SendRequest
    <3>3. ~ ResolveFor(q)
      BY <2>a DEF ResolveFor
    <3>4. \A e \in {"refresh", "backoff"} : ~ (place[q] = "request" /\ Leave(q, e))
      BY <2>a DEF Leave
    <3>. QED
      BY <2>6, <3>1, <3>2, <3>3, <3>4 DEF Reader, Current, CurrentNearExpiry, Refresh, Served,
         Rejected, Retryable, Refused, NextRound
  <2>. QED
    BY <1>1, <2>1, <2>2, <2>3, <2>5, <2>6 DEF Next
<1>. QED
  BY <1>1, OriginInvariant, PTL DEF Spec, RejectedNotReused

=============================================================================
