--------------------------- MODULE VolumePullProofs ---------------------------
(***************************************************************************)
(* Proofs about VolumePull, for any pulls, entries, user paths and number  *)
(* of interrupts.                                                          *)
(***************************************************************************)
EXTENDS VolumePull, TLAPS

-----------------------------------------------------------------------------
(***************************************************************************)
(* The type invariant.                                                     *)
(***************************************************************************)

Contents == [Paths -> Owner]
Dests == [node : {"absent", "dir", "file", "link"}, at : Contents]
Stagings == [there : BOOLEAN, at : Contents, locked : BOOLEAN]
Places == {"start", "checked", "closing", "cleanup", "removing"} \cup InTry \cup Ended

LEMMA Owners ==
    /\ \A p \in Pulls : p \in Owner /\ p # Nothing /\ p # User
    /\ Nothing \in Owner /\ User \in Owner
    /\ VolumePaths \subseteq Paths
BY OwnerAssumption DEF Owner, Paths, Nothing, User

LEMMA Values ==
    /\ Empty \in Contents /\ \A x \in Paths : Empty[x] = Nothing
    /\ Absent \in Dests /\ Absent.node = "absent" /\ Absent.at = Empty
    /\ EmptyDir \in Dests /\ EmptyDir.node = "dir" /\ EmptyDir.at = Empty
    /\ NoStaging \in Stagings /\ NoStaging.at = Empty /\ NoStaging.there = FALSE
    /\ NoStaging.locked = FALSE
<1>1. Empty \in Contents /\ \A x \in Paths : Empty[x] = Nothing
  BY Owners DEF Empty, Contents
<1>. QED
  BY <1>1 DEF Absent, EmptyDir, NoStaging, Dests, Stagings

\* Writing one path of a destination or of a staging directory.
LEMMA WriteDest ==
    ASSUME NEW d \in Dests, NEW x \in Paths, NEW o \in Owner
    PROVE  /\ [d EXCEPT !.at[x] = o] \in Dests
           /\ [d EXCEPT !.at[x] = o].node = d.node
           /\ [d EXCEPT !.at[x] = o].at = [d.at EXCEPT ![x] = o]
BY DEF Dests, Contents

LEMMA WriteStaging ==
    ASSUME NEW s \in [Pulls -> Stagings], NEW p \in Pulls, NEW x \in Paths, NEW o \in Owner,
           NEW t, t = [s EXCEPT ![p].at[x] = o]
    PROVE  /\ t \in [Pulls -> Stagings]
           /\ t[p].at = [s[p].at EXCEPT ![x] = o]
           /\ t[p].there = s[p].there /\ t[p].locked = s[p].locked
           /\ \A q \in Pulls \ {p} : t[q] = s[q]
<1>1. /\ [s[p] EXCEPT !.at[x] = o] \in Stagings
      /\ [s[p] EXCEPT !.at[x] = o].at = [s[p].at EXCEPT ![x] = o]
      /\ [s[p] EXCEPT !.at[x] = o].there = s[p].there
      /\ [s[p] EXCEPT !.at[x] = o].locked = s[p].locked
  BY DEF Stagings, Contents
<1>2. t = [s EXCEPT ![p] = [s[p] EXCEPT !.at[x] = o]]
  OBVIOUS
<1>. QED
  BY <1>1, <1>2

\* The other changes of a staging directory.
LEMMA SetThere ==
    ASSUME NEW s \in [Pulls -> Stagings], NEW p \in Pulls,
           NEW t, t = [s EXCEPT ![p].there = TRUE]
    PROVE  /\ t \in [Pulls -> Stagings]
           /\ t[p].there /\ t[p].at = s[p].at /\ t[p].locked = s[p].locked
           /\ \A q \in Pulls \ {p} : t[q] = s[q]
<1>1. /\ [s[p] EXCEPT !.there = TRUE] \in Stagings
      /\ [s[p] EXCEPT !.there = TRUE].there
      /\ [s[p] EXCEPT !.there = TRUE].at = s[p].at
      /\ [s[p] EXCEPT !.there = TRUE].locked = s[p].locked
  BY DEF Stagings
<1>2. t = [s EXCEPT ![p] = [s[p] EXCEPT !.there = TRUE]]
  OBVIOUS
<1>. QED
  BY <1>1, <1>2

LEMMA SetLocked ==
    ASSUME NEW s \in [Pulls -> Stagings], NEW p \in Pulls,
           NEW b \in BOOLEAN,
           NEW t, t = [s EXCEPT ![p].locked = b]
    PROVE  /\ t \in [Pulls -> Stagings]
           /\ t[p].there = s[p].there /\ t[p].at = s[p].at /\ t[p].locked = b
           /\ \A q \in Pulls \ {p} : t[q] = s[q]
<1>1. /\ [s[p] EXCEPT !.locked = b] \in Stagings
      /\ [s[p] EXCEPT !.locked = b].there = s[p].there
      /\ [s[p] EXCEPT !.locked = b].at = s[p].at
      /\ [s[p] EXCEPT !.locked = b].locked = b
  BY DEF Stagings
<1>2. t = [s EXCEPT ![p] = [s[p] EXCEPT !.locked = b]]
  OBVIOUS
<1>. QED
  BY <1>1, <1>2

LEMMA SetEmpty ==
    ASSUME NEW s \in [Pulls -> Stagings], NEW p \in Pulls,
           NEW t, t = [s EXCEPT ![p].at = Empty]
    PROVE  /\ t \in [Pulls -> Stagings]
           /\ t[p].there = s[p].there /\ t[p].at = Empty /\ t[p].locked = s[p].locked
           /\ \A q \in Pulls \ {p} : t[q] = s[q]
<1>1. /\ [s[p] EXCEPT !.at = Empty] \in Stagings
      /\ [s[p] EXCEPT !.at = Empty].there = s[p].there
      /\ [s[p] EXCEPT !.at = Empty].at = Empty
      /\ [s[p] EXCEPT !.at = Empty].locked = s[p].locked
  BY Values DEF Stagings
<1>2. t = [s EXCEPT ![p] = [s[p] EXCEPT !.at = Empty]]
  OBVIOUS
<1>. QED
  BY <1>1, <1>2

LEMMA SetNoStaging ==
    ASSUME NEW s \in [Pulls -> Stagings], NEW p \in Pulls,
           NEW t, t = [s EXCEPT ![p] = NoStaging]
    PROVE  t \in [Pulls -> Stagings] /\ t[p] = NoStaging /\ \A q \in Pulls \ {p} : t[q] = s[q]
BY Values

LEMMA InitType == Init => TypeOK
<1>. SUFFICES ASSUME Init PROVE TypeOK
  OBVIOUS
<1>1. dest \in Dests
  BY NodesAssumption, Owners DEF Init, Dests, Contents
<1>2. staging \in [Pulls -> Stagings]
  BY Values DEF Init
<1>3. interrupts \in 0 .. MaxInterrupts
  BY SwitchAssumption DEF Init
<1>. QED
  BY <1>1, <1>2, <1>3 DEF Init, TypeOK, Dests, Contents, Stagings

\* TypeOK, with names for its sets.
LEMMA Types ==
    TypeOK <=> /\ dest \in Dests
               /\ overwriters \subseteq Pulls
               /\ staging \in [Pulls -> Stagings]
               /\ pc \in [Pulls -> Places]
               /\ done \in [Pulls -> SUBSET VolumePaths]
               /\ late \in [Pulls -> BOOLEAN]
               /\ cut \in [Pulls -> BOOLEAN]
               /\ interrupts \in 0 .. MaxInterrupts
BY DEF TypeOK, Dests, Stagings, Places, Contents

\* The parts of a step's effect, each within its type.
LEMMA GotoType ==
    ASSUME pc \in [Pulls -> Places], NEW p \in Pulls, NEW s \in Places, Goto(p, s)
    PROVE  pc' \in [Pulls -> Places]
BY DEF Goto

LEMMA StepType ==
    ASSUME TypeOK, [Next]_vars
    PROVE  TypeOK'
<1> DEFINE NewTypes ==
        /\ dest' \in Dests
        /\ overwriters' \subseteq Pulls
        /\ staging' \in [Pulls -> Stagings]
        /\ pc' \in [Pulls -> Places]
        /\ done' \in [Pulls -> SUBSET VolumePaths]
        /\ late' \in [Pulls -> BOOLEAN]
        /\ cut' \in [Pulls -> BOOLEAN]
        /\ interrupts' \in 0 .. MaxInterrupts
<1>a. SUFFICES NewTypes
  BY DEF TypeOK, Dests, Stagings, Places, Contents, NewTypes
<1>b. /\ dest \in Dests /\ overwriters \subseteq Pulls /\ staging \in [Pulls -> Stagings]
      /\ pc \in [Pulls -> Places] /\ done \in [Pulls -> SUBSET VolumePaths]
      /\ late \in [Pulls -> BOOLEAN] /\ cut \in [Pulls -> BOOLEAN]
      /\ interrupts \in 0 .. MaxInterrupts
  BY Types
<1>c. /\ {"start", "checked", "closing", "cleanup", "removing", "making", "building",
          "stamping", "clearing", "renaming", "published", "returned", "raised", "crashed"} \subseteq Places
  BY DEF Places, InTry, Ended
<1> USE <1>b, <1>c DEF callVars
<1>1. CASE UNCHANGED vars
  <2>1. UNCHANGED <<dest, overwriters, staging, pc, done, late, cut, interrupts>>
    BY <1>1 DEF vars
  <2>. QED
    BY <2>1
<1>2. ASSUME NEW p \in Pulls, Check(p) PROVE NewTypes
  BY <1>2 DEF Check, Goto
<1>3. ASSUME NEW p \in Pulls, Prepare(p) PROVE NewTypes
  BY <1>3 DEF Prepare, Goto
<1>4. ASSUME NEW p \in Pulls, MakeRoot(p) PROVE NewTypes
  <2>1. staging' \in [Pulls -> Stagings]
    BY <1>4, SetThere DEF MakeRoot
  <2>2. dest' \in Dests
    BY <1>4, Values DEF MakeRoot
  <2>. QED
    BY <1>4, <2>1, <2>2 DEF MakeRoot, Goto
<1>5. ASSUME NEW p \in Pulls, MakeRootFails(p) PROVE NewTypes
  BY <1>5 DEF MakeRootFails, Goto
<1>6. ASSUME NEW p \in Pulls, NEW x \in VolumePaths, WriteEntry(p, x) PROVE NewTypes
  <2>1. staging' \in [Pulls -> Stagings]
    <3>1. x \in Paths /\ p \in Owner
      BY Owners
    <3>2. CASE staging' = staging
      BY <3>2
    <3>3. CASE staging' = [staging EXCEPT ![p].at[x] = p]
      BY <3>1, <3>3, WriteStaging
    <3>. QED
      BY <1>6, <3>2, <3>3 DEF WriteEntry
  <2>2. dest' \in Dests
    BY <1>6, WriteDest, Owners DEF WriteEntry
  <2>. QED
    BY <1>6, <2>1, <2>2 DEF WriteEntry
<1>7. ASSUME NEW p \in Pulls, Stamp(p) PROVE NewTypes
  <2>1. PICK b \in BOOLEAN : /\ b <=> p \in Stagers /\ ReadOnlyDirs
                             /\ staging' = [staging EXCEPT ![p].locked = b]
    BY <1>7 DEF Stamp
  <2>2. \A t : t = [staging EXCEPT ![p].locked = b] => t \in [Pulls -> Stagings]
    BY ONLY staging \in [Pulls -> Stagings], p \in Pulls, b \in BOOLEAN, SetLocked
  <2>3. staging' \in [Pulls -> Stagings]
    BY <2>1, <2>2
  <2>. QED
    BY <1>7, <2>3 DEF Stamp, Goto
<1>19. ASSUME NEW p \in Pulls, RunDone(p) PROVE NewTypes
  BY <1>19 DEF RunDone, Goto
<1>8. ASSUME NEW p \in Pulls, RunFails(p) PROVE NewTypes
  BY <1>8 DEF RunFails, Goto
<1>9. ASSUME NEW p \in Pulls, PoolClosed(p) PROVE NewTypes
  BY <1>9 DEF PoolClosed, Goto
<1>10. ASSUME NEW p \in Pulls, ClearDest(p) PROVE NewTypes
  <2>1. dest' \in Dests
    BY <1>10, Values DEF ClearDest
  <2>. QED
    BY <1>10, <2>1 DEF ClearDest, Goto
<1>11. ASSUME NEW p \in Pulls, Rename(p) PROVE NewTypes
  <2>1. [node |-> "dir", at |-> staging[p].at] \in Dests
    BY DEF Dests, Stagings
  <2>2. dest' \in Dests
    BY <1>11, <2>1 DEF Rename
  <2>3. staging' \in [Pulls -> Stagings]
    BY <1>11, SetNoStaging DEF Rename
  <2>. QED
    BY <1>11, <2>2, <2>3 DEF Rename, Goto
<1>12. ASSUME NEW p \in Pulls, Return(p) PROVE NewTypes
  BY <1>12 DEF Return, Goto
<1>13. ASSUME NEW p \in Pulls, EmptyStaging(p) PROVE NewTypes
  <2>1. staging' \in [Pulls -> Stagings]
    BY <1>13, SetEmpty DEF EmptyStaging
  <2>. QED
    BY <1>13, <2>1 DEF EmptyStaging, Goto
<1>14. ASSUME NEW p \in Pulls, RemoveStaging(p) PROVE NewTypes
  <2>1. staging' \in [Pulls -> Stagings]
    BY <1>14, SetNoStaging DEF RemoveStaging
  <2>. QED
    BY <1>14, <2>1 DEF RemoveStaging, Goto
<1>15. ASSUME NEW p \in Pulls, Interrupt(p) PROVE NewTypes
  <2>1. late' \in [Pulls -> BOOLEAN] /\ cut' \in [Pulls -> BOOLEAN]
    BY <1>15 DEF Interrupt
  <2>2. interrupts' \in 0 .. MaxInterrupts
    BY <1>15, SwitchAssumption DEF Interrupt
  <2>3. pc' \in [Pulls -> Places]
    BY <1>15 DEF Interrupt, Goto
  <2>. QED
    BY <1>15, <2>1, <2>2, <2>3 DEF Interrupt
<1>16. ASSUME NEW p \in Pulls, Crash(p) PROVE NewTypes
  BY <1>16 DEF Crash, Goto
<1>17. CASE UserMakesDir
  BY <1>17, Values DEF UserMakesDir
<1>18. ASSUME NEW x \in Paths, UserWrites(x) PROVE NewTypes
  <2>1. dest' \in Dests
    BY <1>18, WriteDest, Owners DEF UserWrites
  <2>. QED
    BY <1>18, <2>1 DEF UserWrites
<1>. QED
  BY <1>1, <1>2, <1>3, <1>4, <1>5, <1>6, <1>7, <1>8, <1>9, <1>10, <1>11, <1>12,
     <1>13, <1>14, <1>15, <1>16, <1>17, <1>18, <1>19 DEF Next, Step

\* What the calls, the staging directories and the destination can be
\* (VolumeClient.pull), whatever crashes, fails or is interrupted.
THEOREM PullType == Spec => []TypeOK
<1>1. Init => TypeOK
  BY InitType
<1>2. TypeOK /\ [Next]_vars => TypeOK'
  BY StepType
<1>. QED
  BY <1>1, <1>2, PTL DEF Spec

-----------------------------------------------------------------------------
(***************************************************************************)
(* A call and its own staging directory.  Until the move, the directory    *)
(* holds exactly what the call has written; a thread left behind implies   *)
(* that an interrupt cut the call short.                                   *)
(***************************************************************************)

TreeOf(p) == [x \in Paths |-> IF x \in done[p] THEN p ELSE Nothing]

Unmade == {"start", "checked", "making"}
Assembling == {"building", "closing", "stamping", "clearing", "renaming"}

CallInv(p) ==
    /\ late[p] => pc[p] \in {"cleanup", "removing", "raised"} /\ cut[p]
    /\ pc[p] \in Unmade => done[p] = {}
    /\ pc[p] \in {"clearing", "renaming", "published", "removing"} => p \in Stagers

StagingInv(p) ==
    p \in Stagers =>
        /\ staging[p].locked => ReadOnlyDirs
        /\ pc[p] \in Unmade => staging[p] = NoStaging
        /\ pc[p] \in Assembling => staging[p].at = TreeOf(p)
        /\ pc[p] \in {"stamping", "clearing", "renaming"} => done[p] = VolumePaths
        /\ ~ ReadOnlyDirs /\ ~ cut[p] =>
               /\ pc[p] = "removing" => staging[p].at = Empty
               /\ pc[p] = "raised" => ~ staging[p].there

LocalInv == \A p \in Pulls : CallInv(p) /\ StagingInv(p)

LEMMA InitLocal == Init => LocalInv
BY Values DEF Init, LocalInv, CallInv, StagingInv, Unmade, Assembling, NoStaging

\* A call that is not the one that steps keeps its part of the invariant.
Same(q) ==
    /\ pc'[q] = pc[q] /\ staging'[q] = staging[q] /\ done'[q] = done[q]
    /\ late'[q] = late[q] /\ cut'[q] = cut[q] /\ overwriters' = overwriters

LEMMA SameLocal ==
    ASSUME NEW q \in Pulls, Same(q), CallInv(q), StagingInv(q)
    PROVE  CallInv(q)' /\ StagingInv(q)'
BY DEF Same, CallInv, StagingInv, TreeOf, Stagers

LEMMA OneSteps ==
    ASSUME LocalInv, NEW p \in Pulls, \A q \in Pulls \ {p} : Same(q),
           CallInv(p)', StagingInv(p)'
    PROVE  LocalInv'
BY SameLocal DEF LocalInv

LEMMA StepLocal ==
    ASSUME TypeOK, LocalInv, [Next]_vars
    PROVE  LocalInv'
<1>a. /\ dest \in Dests /\ overwriters \subseteq Pulls /\ staging \in [Pulls -> Stagings]
      /\ pc \in [Pulls -> Places] /\ done \in [Pulls -> SUBSET VolumePaths]
      /\ late \in [Pulls -> BOOLEAN] /\ cut \in [Pulls -> BOOLEAN]
  BY Types
<1>b. \A p \in Pulls : CallInv(p) /\ StagingInv(p)
  BY DEF LocalInv
<1> USE <1>a, <1>b DEF Unmade, Assembling
<1>1. CASE UNCHANGED vars
  BY <1>1, SameLocal DEF vars, callVars, Same, LocalInv
<1>2. ASSUME NEW p \in Pulls, Check(p) PROVE LocalInv'
  <2>1. \A q \in Pulls \ {p} : Same(q)
    BY <1>2 DEF Check, Goto, callVars, Same
  <2>2. CallInv(p)' /\ StagingInv(p)'
    BY <1>2, Values DEF Check, Goto, callVars, CallInv, StagingInv, Stagers, TreeOf
  <2>. QED
    BY <2>1, <2>2, OneSteps
<1>3. ASSUME NEW p \in Pulls, Prepare(p) PROVE LocalInv'
  <2>1. \A q \in Pulls \ {p} : Same(q)
    BY <1>3 DEF Prepare, Goto, callVars, Same
  <2>2. CallInv(p)' /\ StagingInv(p)'
    BY <1>3, Values DEF Prepare, Goto, callVars, CallInv, StagingInv, Stagers, TreeOf
  <2>. QED
    BY <2>1, <2>2, OneSteps
<1>4. ASSUME NEW p \in Pulls, MakeRoot(p) PROVE LocalInv'
  <2>1. CASE p \in Stagers
    <3>1. staging' = [staging EXCEPT ![p].there = TRUE]
      BY <1>4, <2>1 DEF MakeRoot
    <3>2. /\ staging'[p].at = Empty /\ ~ staging'[p].locked
          /\ \A q \in Pulls \ {p} : staging'[q] = staging[q]
      BY <1>4, <2>1, <3>1, SetThere, Values DEF MakeRoot, StagingInv
    <3>3. \A q \in Pulls \ {p} : Same(q)
      BY <1>4, <3>2 DEF MakeRoot, Goto, callVars, Same
    <3>4. pc'[p] = "building" /\ done'[p] = {} /\ ~ late'[p] /\ overwriters' = overwriters
      BY <1>4 DEF MakeRoot, Goto, callVars, CallInv
    <3>5. Empty = TreeOf(p)'
      BY <3>4 DEF TreeOf, Empty
    <3>6. CallInv(p)' /\ StagingInv(p)'
      BY <3>2, <3>4, <3>5 DEF CallInv, StagingInv
    <3>. QED
      BY <3>3, <3>6, OneSteps
  <2>2. CASE p \notin Stagers
    <3>1. \A q \in Pulls \ {p} : Same(q)
      BY <1>4, <2>2 DEF MakeRoot, Goto, callVars, Same
    <3>2. CallInv(p)' /\ StagingInv(p)'
      BY <1>4, <2>2 DEF MakeRoot, Goto, callVars, CallInv, StagingInv, Stagers
    <3>. QED
      BY <3>1, <3>2, OneSteps
  <2>. QED
    BY <2>1, <2>2
<1>5. ASSUME NEW p \in Pulls, MakeRootFails(p) PROVE LocalInv'
  <2>1. \A q \in Pulls \ {p} : Same(q)
    BY <1>5 DEF MakeRootFails, Goto, callVars, Same
  <2>2. CallInv(p)' /\ StagingInv(p)'
    BY <1>5 DEF MakeRootFails, Goto, callVars, CallInv, StagingInv, Stagers
  <2>. QED
    BY <2>1, <2>2, OneSteps
<1>6. ASSUME NEW p \in Pulls, NEW x \in VolumePaths, WriteEntry(p, x) PROVE LocalInv'
  <2>1. /\ pc' = pc /\ late' = late /\ cut' = cut /\ overwriters' = overwriters
        /\ done' = [done EXCEPT ![p] = @ \cup {x}]
        /\ pc[p] \in {"building", "closing"} \/ late[p]
    BY <1>6 DEF WriteEntry
  <2>2. CASE p \in Stagers
    <3>1. staging' = [staging EXCEPT ![p].at[x] = p] /\ x \in Paths /\ p \in Owner
      BY <1>6, <2>2, Owners DEF WriteEntry
    <3>2. /\ staging'[p].at = [staging[p].at EXCEPT ![x] = p]
          /\ staging'[p].locked = staging[p].locked
          /\ \A q \in Pulls \ {p} : staging'[q] = staging[q]
      BY <3>1, WriteStaging
    <3>3. \A q \in Pulls \ {p} : Same(q)
      BY <2>1, <3>2 DEF Same
    <3>4. CallInv(p)'
      BY <2>1 DEF CallInv, Stagers
    <3>5. ASSUME pc[p] \in Assembling PROVE staging'[p].at = TreeOf(p)'
      <4>1. staging[p].at = [y \in Paths |-> IF y \in done[p] THEN p ELSE Nothing]
        BY <2>2, <3>5 DEF StagingInv, TreeOf
      <4>2. staging'[p].at = [y \in Paths |-> IF y \in done[p] \cup {x} THEN p ELSE Nothing]
        BY <3>1, <3>2, <4>1
      <4>. QED
        BY <2>1, <4>2 DEF TreeOf
    <3>6. StagingInv(p)'
      BY <2>1, <2>2, <3>2, <3>5 DEF CallInv, StagingInv, Stagers
    <3>. QED
      BY <3>3, <3>4, <3>6, OneSteps
  <2>3. CASE p \notin Stagers
    <3>1. \A q \in Pulls \ {p} : Same(q)
      BY <1>6, <2>1, <2>3 DEF WriteEntry, Same
    <3>2. CallInv(p)' /\ StagingInv(p)'
      BY <2>1, <2>3 DEF CallInv, StagingInv, Stagers
    <3>. QED
      BY <3>1, <3>2, OneSteps
  <2>. QED
    BY <2>2, <2>3
<1>7. ASSUME NEW p \in Pulls, Stamp(p) PROVE LocalInv'
  <2>1. PICK b \in BOOLEAN : /\ b <=> p \in Stagers /\ ReadOnlyDirs
                             /\ staging' = [staging EXCEPT ![p].locked = b]
    BY <1>7 DEF Stamp
  <2>2. /\ staging'[p].there = staging[p].there /\ staging'[p].at = staging[p].at
        /\ staging'[p].locked = b
        /\ \A q \in Pulls \ {p} : staging'[q] = staging[q]
    BY <2>1, SetLocked
  <2>3. \A q \in Pulls \ {p} : Same(q)
    BY <1>7, <2>2 DEF Stamp, Goto, callVars, Same
  <2>4. CallInv(p)' /\ StagingInv(p)'
    BY <1>7, <2>1, <2>2 DEF Stamp, Goto, callVars, CallInv, StagingInv, Stagers, TreeOf
  <2>. QED
    BY <2>3, <2>4, OneSteps
<1>19. ASSUME NEW p \in Pulls, RunDone(p) PROVE LocalInv'
  <2>1. \A q \in Pulls \ {p} : Same(q)
    BY <1>19 DEF RunDone, Goto, callVars, Same
  <2>2. CallInv(p)' /\ StagingInv(p)'
    BY <1>19 DEF RunDone, Goto, callVars, CallInv, StagingInv, Stagers, TreeOf
  <2>. QED
    BY <2>1, <2>2, OneSteps
<1>8. ASSUME NEW p \in Pulls, RunFails(p) PROVE LocalInv'
  <2>1. \A q \in Pulls \ {p} : Same(q)
    BY <1>8 DEF RunFails, Goto, callVars, Same
  <2>2. CallInv(p)' /\ StagingInv(p)'
    BY <1>8 DEF RunFails, Goto, callVars, CallInv, StagingInv, Stagers, TreeOf
  <2>. QED
    BY <2>1, <2>2, OneSteps
<1>9. ASSUME NEW p \in Pulls, PoolClosed(p) PROVE LocalInv'
  <2>1. \A q \in Pulls \ {p} : Same(q)
    BY <1>9 DEF PoolClosed, Goto, callVars, Same
  <2>2. CallInv(p)' /\ StagingInv(p)'
    BY <1>9 DEF PoolClosed, Goto, callVars, CallInv, StagingInv, Stagers
  <2>. QED
    BY <2>1, <2>2, OneSteps
<1>10. ASSUME NEW p \in Pulls, ClearDest(p) PROVE LocalInv'
  <2>1. \A q \in Pulls \ {p} : Same(q)
    BY <1>10 DEF ClearDest, Goto, callVars, Same
  <2>2. CallInv(p)' /\ StagingInv(p)'
    BY <1>10 DEF ClearDest, Goto, callVars, CallInv, StagingInv, Stagers, TreeOf
  <2>. QED
    BY <2>1, <2>2, OneSteps
<1>11. ASSUME NEW p \in Pulls, Rename(p) PROVE LocalInv'
  <2>1. /\ staging'[p] \in {staging[p], NoStaging}
        /\ \A q \in Pulls \ {p} : staging'[q] = staging[q]
    BY <1>11, SetNoStaging DEF Rename
  <2>2. \A q \in Pulls \ {p} : Same(q)
    BY <1>11, <2>1 DEF Rename, Goto, callVars, Same
  <2>3. CallInv(p)' /\ StagingInv(p)'
    BY <1>11, <2>1, Values DEF Rename, Goto, callVars, CallInv, StagingInv, Stagers
  <2>. QED
    BY <2>2, <2>3, OneSteps
<1>12. ASSUME NEW p \in Pulls, Return(p) PROVE LocalInv'
  <2>1. \A q \in Pulls \ {p} : Same(q)
    BY <1>12 DEF Return, Goto, callVars, Same
  <2>2. CallInv(p)' /\ StagingInv(p)'
    BY <1>12 DEF Return, Goto, callVars, CallInv, StagingInv, Stagers
  <2>. QED
    BY <2>1, <2>2, OneSteps
<1>13. ASSUME NEW p \in Pulls, EmptyStaging(p) PROVE LocalInv'
  <2>1. CASE p \in Stagers
    <3>1. /\ staging'[p].locked = staging[p].locked
          /\ staging[p].locked \/ staging'[p].at = Empty
          /\ \A q \in Pulls \ {p} : staging'[q] = staging[q]
      BY <1>13, <2>1, SetEmpty DEF EmptyStaging
    <3>2. \A q \in Pulls \ {p} : Same(q)
      BY <1>13, <2>1, <3>1 DEF EmptyStaging, Goto, callVars, Same
    <3>3. CallInv(p)' /\ StagingInv(p)'
      BY <1>13, <2>1, <3>1 DEF EmptyStaging, Goto, callVars, CallInv, StagingInv, Stagers
    <3>. QED
      BY <3>2, <3>3, OneSteps
  <2>2. CASE p \notin Stagers
    <3>1. \A q \in Pulls \ {p} : Same(q)
      BY <1>13, <2>2 DEF EmptyStaging, Goto, callVars, Same
    <3>2. CallInv(p)' /\ StagingInv(p)'
      BY <1>13, <2>2 DEF EmptyStaging, Goto, callVars, CallInv, StagingInv, Stagers
    <3>. QED
      BY <3>1, <3>2, OneSteps
  <2>. QED
    BY <2>1, <2>2
<1>14. ASSUME NEW p \in Pulls, RemoveStaging(p) PROVE LocalInv'
  <2>1. /\ staging'[p] = IF staging[p].at = Empty THEN NoStaging ELSE staging[p]
        /\ \A q \in Pulls \ {p} : staging'[q] = staging[q]
    BY <1>14, SetNoStaging DEF RemoveStaging
  <2>2. \A q \in Pulls \ {p} : Same(q)
    BY <1>14, <2>1 DEF RemoveStaging, Goto, callVars, Same
  <2>3. CallInv(p)' /\ StagingInv(p)'
    BY <1>14, <2>1, Values DEF RemoveStaging, Goto, callVars, CallInv, StagingInv, Stagers
  <2>. QED
    BY <2>2, <2>3, OneSteps
<1>15. ASSUME NEW p \in Pulls, Interrupt(p) PROVE LocalInv'
  <2>1. \A q \in Pulls \ {p} : Same(q)
    BY <1>15 DEF Interrupt, Goto, Same
  <2>2. /\ staging' = staging /\ done' = done /\ overwriters' = overwriters
        /\ pc[p] \notin {"start"} \cup Ended
    BY <1>15 DEF Interrupt
  <2>3. /\ late'[p] => late[p] \/ pc[p] = "closing"
        /\ cut[p] \/ pc[p] \in {"closing", "cleanup", "removing"} <=> cut'[p]
    BY <1>15 DEF Interrupt
  <2>4. /\ pc[p] = "checked" => pc'[p] = "raised"
        /\ pc[p] = "building" => pc'[p] = "closing"
        /\ pc[p] \in {"cleanup", "removing"} => pc'[p] = "raised"
        /\ pc[p] \in {"making", "closing", "stamping", "clearing", "renaming", "published"}
               => pc'[p] = "cleanup"
    BY <1>15 DEF Interrupt, Goto
  <2>5. pc[p] \in {"checked", "building", "cleanup", "removing", "making", "closing",
                  "stamping", "clearing", "renaming", "published"}
    BY <2>2 DEF Places, InTry, Ended
  <2>6. CallInv(p)'
    BY <2>2, <2>3, <2>4, <2>5 DEF CallInv, Stagers
  <2>7. StagingInv(p)'
    BY <2>2, <2>3, <2>4, <2>5, Values DEF StagingInv, Stagers, TreeOf
  <2>. QED
    BY <2>1, <2>6, <2>7, OneSteps
<1>16. ASSUME NEW p \in Pulls, Crash(p) PROVE LocalInv'
  <2>1. \A q \in Pulls \ {p} : Same(q)
    BY <1>16 DEF Crash, Goto, Same
  <2>2. CallInv(p)' /\ StagingInv(p)'
    BY <1>16 DEF Crash, Goto, CallInv, StagingInv, Stagers
  <2>. QED
    BY <2>1, <2>2, OneSteps
<1>17. CASE UserMakesDir
  BY <1>17, SameLocal DEF UserMakesDir, callVars, Same, LocalInv
<1>18. ASSUME NEW x \in Paths, UserWrites(x) PROVE LocalInv'
  BY <1>18, SameLocal DEF UserWrites, callVars, Same, LocalInv
<1>. QED
  BY <1>1, <1>2, <1>3, <1>4, <1>5, <1>6, <1>7, <1>8, <1>9, <1>10, <1>11, <1>12,
     <1>13, <1>14, <1>15, <1>16, <1>17, <1>18, <1>19 DEF Next, Step

LEMMA LocalInvariant == Spec => [](TypeOK /\ LocalInv)
<1>1. Init => TypeOK /\ LocalInv
  BY InitType, InitLocal
<1>2. TypeOK /\ LocalInv /\ [Next]_vars => (TypeOK /\ LocalInv)'
  BY StepType, StepLocal
<1>. QED
  BY <1>1, <1>2, PTL DEF Spec

\* A pull that raised has removed its staging directory (the cleanup of
\* VolumeClient.pull), unless an interrupt cut that short or the volume
\* records a directory without write permission.
THEOREM PullCleansUp ==
    ASSUME ~ ReadOnlyDirs
    PROVE  Spec => []CleanedUp
<1>1. TypeOK /\ LocalInv => CleanedUp
  BY DEF LocalInv, StagingInv, CleanedUp, Stagers
<1>. QED
  BY <1>1, LocalInvariant, PTL

-----------------------------------------------------------------------------
(***************************************************************************)
(* The destination: every step is a step of AtomicPublish or leaves it     *)
(* alone.                                                                  *)
(***************************************************************************)

NodeInv == dest.node \in {"absent", "file"} => dest.at = Empty

LEMMA NodeStep ==
    ASSUME TypeOK, NodeInv, [Next]_vars
    PROVE  NodeInv'
<1>a. dest \in Dests
  BY Types
<1>1. CASE UNCHANGED dest
  BY <1>1 DEF NodeInv, Empty
<1>2. CASE dest' \in {Absent, EmptyDir}
  BY <1>2, Values DEF NodeInv
<1>3. ASSUME NEW x \in Paths, NEW o \in Owner, dest.node \notin {"absent", "file"},
             dest' = [dest EXCEPT !.at[x] = o]
      PROVE  NodeInv'
  BY <1>a, <1>3, WriteDest DEF NodeInv
<1>4. ASSUME NEW t, dest' = [node |-> "dir", at |-> t] PROVE NodeInv'
  BY <1>4 DEF NodeInv
<1>5. ASSUME NEW p \in Pulls, Step(p) PROVE NodeInv'
  <2>1. ASSUME NEW x \in VolumePaths, WriteEntry(p, x) PROVE NodeInv'
    BY <1>1, <1>3, <2>1, Owners DEF WriteEntry, DestIsDir
  <2>2. CASE MakeRoot(p)
    BY <1>1, <1>2, <2>2 DEF MakeRoot
  <2>3. CASE ClearDest(p)
    BY <1>1, <1>2, <2>3 DEF ClearDest
  <2>4. CASE Rename(p)
    BY <1>1, <1>4, <2>4 DEF Rename
  <2>. QED
    BY <1>1, <1>5, <2>1, <2>2, <2>3, <2>4
       DEF Step, Check, Prepare, MakeRootFails, Stamp, RunDone, RunFails, PoolClosed,
           Return, EmptyStaging, RemoveStaging
<1>6. ASSUME NEW p \in Pulls, Interrupt(p) \/ Crash(p) PROVE NodeInv'
  BY <1>1, <1>6 DEF Interrupt, Crash
<1>7. CASE UserMakesDir
  BY <1>2, <1>7 DEF UserMakesDir
<1>8. ASSUME NEW x \in Paths, UserWrites(x) PROVE NodeInv'
  BY <1>3, <1>8, Owners DEF UserWrites
<1>. QED
  BY <1>1, <1>5, <1>6, <1>7, <1>8 DEF Next, vars

PublishInv == TypeOK /\ LocalInv /\ NodeInv

LEMMA PublishInvariant == Spec => []PublishInv
<1>1. Init => PublishInv
  BY InitType, InitLocal DEF Init, PublishInv, NodeInv
<1>2. PublishInv /\ [Next]_vars => PublishInv'
  BY StepType, StepLocal, NodeStep DEF PublishInv
<1>. QED
  BY <1>1, <1>2, PTL DEF Spec

LEMMA StepPublishes ==
    ASSUME PublishInv, [Next]_vars
    PROVE  [Atomic!Next]_(Atomic!publishVars)
<1>a. /\ dest \in Dests /\ overwriters \subseteq Pulls /\ staging \in [Pulls -> Stagings]
  BY Types DEF PublishInv
<1>b. \A p \in Pulls : CallInv(p) /\ StagingInv(p)
  BY DEF PublishInv, LocalInv
<1>c. /\ Atomic!Absent = Absent /\ Atomic!EmptyDir = EmptyDir
      /\ Atomic!Nothing = Nothing /\ Atomic!User = User
  BY DEF Atomic!Absent, Absent, Atomic!EmptyDir, EmptyDir, Atomic!Nothing, Nothing, Atomic!User,
         User, Atomic!Empty, Empty
<1>d. Absent.node = "absent" /\ EmptyDir.node = "dir"
  BY Values
<1>1. CASE UNCHANGED <<dest, overwriters>>
  BY <1>1 DEF Atomic!publishVars
<1>2. ASSUME NEW p \in Pulls, MakeRoot(p) PROVE [Atomic!Next]_(Atomic!publishVars)
  <2>1. CASE dest' = EmptyDir /\ dest.node = "absent" /\ overwriters' = overwriters
    <3>1. dest = Absent
      BY <1>a, <2>1 DEF PublishInv, NodeInv, Absent, Dests
    <3>. QED
      BY <1>c, <2>1, <3>1 DEF Atomic!Next, Atomic!MakeEmpty
  <2>. QED
    BY <1>1, <1>2, <2>1 DEF MakeRoot, callVars
<1>3. ASSUME NEW p \in Pulls, NEW x \in VolumePaths, WriteEntry(p, x)
      PROVE  [Atomic!Next]_(Atomic!publishVars)
  <2>1. CASE p \in Stagers
    BY <1>1, <1>3, <2>1 DEF WriteEntry
  <2>2. CASE p \notin Stagers
    <3>1. Atomic!Overwrite(p, x)
      BY <1>3, <2>2 DEF WriteEntry, DestIsDir, Stagers, Atomic!Overwrite
    <3>. QED
      BY <3>1 DEF Atomic!Next
  <2>. QED
    BY <2>1, <2>2
<1>4. ASSUME NEW p \in Pulls, ClearDest(p) PROVE [Atomic!Next]_(Atomic!publishVars)
  <2>1. CASE dest = EmptyDir /\ dest' = Absent /\ overwriters' = overwriters
    BY <1>c, <2>1 DEF Atomic!Next, Atomic!RemoveEmpty
  <2>. QED
    BY <1>1, <1>4, <2>1 DEF ClearDest, callVars
<1>5. ASSUME NEW p \in Pulls, Rename(p) PROVE [Atomic!Next]_(Atomic!publishVars)
  <2>1. CASE /\ dest \in {Absent, EmptyDir} /\ overwriters' = overwriters
             /\ dest' = [node |-> "dir", at |-> staging[p].at]
    <3>1. p \in Stagers
      BY <1>b, <1>5 DEF Rename, CallInv
    <3>2. staging[p].at = TreeOf(p) /\ done[p] = VolumePaths
      BY <1>b, <1>5, <3>1 DEF Rename, StagingInv, Assembling
    <3>3. staging[p].at = Atomic!TreeOf(p)
      BY <3>2 DEF TreeOf, Atomic!TreeOf, Atomic!Nothing, Nothing
    <3>4. Atomic!Publish(p)
      BY <1>c, <2>1, <3>1, <3>3 DEF Atomic!Publish, Stagers
    <3>. QED
      BY <3>4 DEF Atomic!Next
  <2>. QED
    BY <1>1, <1>5, <2>1 DEF Rename, callVars
<1>6. ASSUME NEW p \in Pulls, Step(p) PROVE [Atomic!Next]_(Atomic!publishVars)
  <2>1. CASE /\ ~ MakeRoot(p) /\ ~ ClearDest(p) /\ ~ Rename(p)
             /\ \A x \in VolumePaths : ~ WriteEntry(p, x)
    BY <1>1, <1>6, <2>1 DEF Step, callVars, Check, Prepare, MakeRootFails, Stamp, RunDone,
       RunFails, PoolClosed, Return, EmptyStaging, RemoveStaging
  <2>. QED
    BY <1>2, <1>3, <1>4, <1>5, <2>1
<1>7. ASSUME NEW p \in Pulls, Interrupt(p) \/ Crash(p)
      PROVE  [Atomic!Next]_(Atomic!publishVars)
  BY <1>1, <1>7 DEF Interrupt, Crash
<1>8. CASE UserMakesDir
  BY <1>8, <1>c DEF UserMakesDir, callVars, Atomic!Next, Atomic!MakeEmpty
<1>9. ASSUME NEW x \in Paths, UserWrites(x) PROVE [Atomic!Next]_(Atomic!publishVars)
  <2>1. Atomic!UserWrites(x)
    BY <1>9, <1>c DEF UserWrites, callVars, Atomic!UserWrites
  <2>. QED
    BY <2>1 DEF Atomic!Next
<1>10. CASE UNCHANGED vars
  BY <1>1, <1>10 DEF vars, callVars
<1>. QED
  BY <1>6, <1>7, <1>8, <1>9, <1>10 DEF Next

\* VolumePull implements AtomicPublish: "the tree is assembled beside it and
\* moved into place only once complete" (VolumeClient.pull), for any number of
\* pulls, users, crashes and interrupts.
THEOREM PullPublishes == Spec => PublishesAtomically
<1>1. Init => Atomic!Init
  <2>1. ASSUME Init PROVE dest.at \in [Paths -> {Nothing, User}] /\ overwriters \subseteq Pulls
    BY <2>1 DEF Init
  <2>. QED
    BY <2>1 DEF Atomic!Init, Atomic!Nothing, Nothing, Atomic!User, User
<1>2. PublishInv /\ [Next]_vars => [Atomic!Next]_(Atomic!publishVars)
  BY StepPublishes
<1>. QED
  BY <1>1, <1>2, PublishInvariant, PTL DEF Spec, PublishesAtomically, Atomic!Spec

\* A user's file is lost to nothing but a pull with overwrite, at an entry of
\* the volume (VolumeClient.pull).
THEOREM PullKeepsUserFiles == Spec => OnlyOverwriteReplaces
<1> DEFINE Kept == \A x \in Paths : dest.at[x] = User /\ dest'.at[x] # User =>
                       x \in VolumePaths /\ dest'.at[x] \in overwriters
<1>1. ASSUME PublishInv, [Next]_vars PROVE [Kept]_vars
  <2>1. dest \in Dests /\ overwriters \subseteq Pulls
    BY <1>1, Types DEF PublishInv
  <2>2. [Atomic!Next]_(Atomic!publishVars)
    BY <1>1, StepPublishes
  <2>3. /\ Atomic!Absent = Absent /\ Atomic!EmptyDir = EmptyDir /\ Nothing # User
    BY DEF Atomic!Absent, Absent, Atomic!EmptyDir, EmptyDir, Atomic!Nothing, Nothing, User,
           Atomic!Empty, Empty
  <2>4. CASE dest \in {Absent, EmptyDir}
    BY <2>3, <2>4, Values
  <2>5. ASSUME NEW p \in Pulls, NEW x \in VolumePaths, Atomic!Overwrite(p, x) PROVE Kept
    <3>1. dest' = [dest EXCEPT !.at[x] = p] /\ p \in overwriters /\ x \in Paths /\ p \in Owner
      BY <2>5, Owners DEF Atomic!Overwrite
    <3>2. dest'.at = [dest.at EXCEPT ![x] = p] /\ dest.at \in Contents
      BY <2>1, <3>1, WriteDest DEF Dests
    <3>. QED
      BY <2>5, <3>1, <3>2 DEF Contents
  <2>6. ASSUME NEW x \in Paths, Atomic!UserWrites(x) PROVE Kept
    <3>1. dest' = [dest EXCEPT !.at[x] = User]
      BY <2>6 DEF Atomic!UserWrites, Atomic!User, User
    <3>2. dest'.at = [dest.at EXCEPT ![x] = User] /\ dest.at \in Contents
      BY <2>1, <3>1, WriteDest, Owners DEF Dests
    <3>. QED
      BY <3>2 DEF Contents
  <2>7. CASE UNCHANGED Atomic!publishVars
    BY <2>7 DEF Atomic!publishVars
  <2>. QED
    BY <2>2, <2>3, <2>4, <2>5, <2>6, <2>7
       DEF Atomic!Next, Atomic!Publish, Atomic!RemoveEmpty, Atomic!MakeEmpty
<1>. QED
  BY <1>1, PublishInvariant, PTL DEF Spec, OnlyOverwriteReplaces

-----------------------------------------------------------------------------
(***************************************************************************)
(* Without pulls with overwrite a published tree stays.                    *)
(***************************************************************************)

ThereInv ==
    overwriters = {} =>
        \A p \in Pulls :
            pc[p] \in {"published", "returned"} => \A x \in VolumePaths : dest.at[x] = p

LEMMA StepThere ==
    ASSUME PublishInv, ThereInv, [Next]_vars
    PROVE  ThereInv'
<1>a. /\ dest \in Dests /\ overwriters \subseteq Pulls
      /\ pc \in [Pulls -> Places] /\ staging \in [Pulls -> Stagings]
  BY Types DEF PublishInv
<1>b. \A p \in Pulls : CallInv(p) /\ StagingInv(p)
  BY DEF PublishInv, LocalInv
<1>c. overwriters' = overwriters
  BY DEF Next, vars, callVars, Step, Interrupt, Crash, Check, Prepare, MakeRoot, MakeRootFails,
     WriteEntry, Stamp, RunDone, RunFails, PoolClosed, ClearDest, Rename, Return, EmptyStaging,
     RemoveStaging, UserMakesDir, UserWrites
<1>. SUFFICES ASSUME overwriters = {} PROVE ThereInv'
  BY <1>c DEF ThereInv
<1>d. Stagers = Pulls
  BY DEF Stagers
<1>1. ASSUME dest'.at = dest.at,
             \A q \in Pulls : pc'[q] \in {"published", "returned"}
                                 => pc[q] \in {"published", "returned"}
      PROVE  ThereInv'
  BY <1>1, <1>c DEF ThereInv
<1>2. CASE UNCHANGED vars
  BY <1>1, <1>2 DEF vars
<1>3. ASSUME NEW p \in Pulls, Rename(p) PROVE ThereInv'
  <2>1. CASE UNCHANGED dest /\ Goto(p, "cleanup")
    BY <1>1, <1>a, <2>1 DEF Goto
  <2>2. CASE /\ dest \in {Absent, EmptyDir} /\ Goto(p, "published")
             /\ dest' = [node |-> "dir", at |-> staging[p].at]
    <3>1. staging[p].at = TreeOf(p) /\ done[p] = VolumePaths
      BY <1>b, <1>d, <1>3 DEF Rename, StagingInv, Assembling
    <3>2. \A x \in VolumePaths : dest'.at[x] = p
      BY <2>2, <3>1, Owners DEF TreeOf
    <3>3. \A x \in VolumePaths : dest.at[x] = Nothing
      BY <2>2, Values, Owners
    <3>4. \A q \in Pulls \ {p} : pc'[q] = pc[q]
      BY <1>a, <2>2 DEF Goto
    <3>5. ASSUME NEW q \in Pulls \ {p}, pc[q] \in {"published", "returned"},
                 NEW x \in VolumePaths
          PROVE  FALSE
      BY <3>3, <3>5, Owners DEF ThereInv
    <3>. QED
      BY <1>c, <3>2, <3>4, <3>5 DEF ThereInv
  <2>. QED
    BY <1>3, <2>1, <2>2 DEF Rename
<1>4. ASSUME NEW p \in Pulls, NEW x \in VolumePaths, WriteEntry(p, x) PROVE ThereInv'
  BY <1>1, <1>4, <1>d DEF WriteEntry
<1>5. ASSUME NEW p \in Pulls, ClearDest(p) PROVE ThereInv'
  <2>1. dest'.at = dest.at
    BY <1>5, Values DEF ClearDest
  <2>2. \A q \in Pulls : pc'[q] \in {"published", "returned"}
                            => pc[q] \in {"published", "returned"}
    BY <1>a, <1>5 DEF ClearDest, Goto
  <2>. QED
    BY <1>1, <2>1, <2>2
<1>6. ASSUME NEW p \in Pulls, Step(p) \/ Interrupt(p) \/ Crash(p),
             ~ Rename(p), ~ ClearDest(p), \A x \in VolumePaths : ~ WriteEntry(p, x)
      PROVE  ThereInv'
  <2>1. dest' = dest
    BY <1>6, <1>d DEF Step, Interrupt, Crash, Check, Prepare, MakeRoot, MakeRootFails,
       Stamp, RunDone, RunFails, PoolClosed, Return, EmptyStaging, RemoveStaging
  <2>2. \A q \in Pulls : pc'[q] \in {"published", "returned"}
                            => pc[q] \in {"published", "returned"}
    <3>1. CASE Step(p)
      BY <1>6, <1>a, <1>d, <3>1 DEF Step, Goto, Check, Prepare, MakeRoot, MakeRootFails,
         Stamp, RunDone, RunFails, PoolClosed, Return, EmptyStaging, RemoveStaging
    <3>2. CASE Interrupt(p)
      BY <1>a, <3>2 DEF Interrupt, Goto
    <3>3. CASE Crash(p)
      BY <1>a, <3>3 DEF Crash, Goto
    <3>. QED
      BY <1>6, <3>1, <3>2, <3>3
  <2>. QED
    BY <1>1, <2>1, <2>2
<1>7. CASE UserMakesDir
  BY <1>1, <1>7, Values DEF UserMakesDir
<1>8. ASSUME NEW x \in Paths, UserWrites(x) PROVE ThereInv'
  <2>1. dest' = [dest EXCEPT !.at[x] = User] /\ pc' = pc /\ dest.at[x] = Nothing
    BY <1>8 DEF UserWrites
  <2>2. dest'.at = [dest.at EXCEPT ![x] = User] /\ dest.at \in Contents
    BY <1>a, <2>1, WriteDest, Owners DEF Dests
  <2>. QED
    BY <1>c, <2>1, <2>2, Owners DEF ThereInv, Contents
<1>. QED
  BY <1>2, <1>3, <1>4, <1>5, <1>6, <1>7, <1>8 DEF Next

\* A pull that returned has its whole tree in place, and without pulls with
\* overwrite nothing takes it away (VolumeClient.pull).
THEOREM PullReturnedIsThere == Spec => []ReturnedIsThere
<1>1. Init => PublishInv /\ ThereInv
  BY InitType, InitLocal DEF Init, PublishInv, NodeInv, ThereInv
<1>2. (PublishInv /\ ThereInv) /\ [Next]_vars => (PublishInv /\ ThereInv)'
  BY StepType, StepLocal, NodeStep, StepThere DEF PublishInv
<1>3. ThereInv => ReturnedIsThere
  BY DEF ThereInv, ReturnedIsThere
<1>. QED
  BY <1>1, <1>2, <1>3, PTL DEF Spec

=============================================================================
