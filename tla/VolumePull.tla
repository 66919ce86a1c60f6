------------------------------ MODULE VolumePull ------------------------------
(***************************************************************************)
(* VolumeClient.pull of volumes/_client.py as its destination sees it:     *)
(* the check of the destination, the staging directory beside it, the move *)
(* into place and the cleanup of a pull that fails, for several pulls into *)
(* one destination with a user at work there, crashes and interrupts.      *)
(*                                                                         *)
(* A pull with overwrite writes into the destination itself, entry by      *)
(* entry.  The transfer inside (FetchPool) is reduced to its writes: one   *)
(* step per entry, which go on while the pool closes, and beyond that when *)
(* an interrupt cut its closing short.                                     *)
(***************************************************************************)
EXTENDS Naturals, FiniteSets

CONSTANTS
    Pulls,          \* the calls of pull
    VolumePaths,    \* the selected entries of the volume
    UserPaths,      \* paths beside them
    ReadOnlyDirs,   \* the volume records a directory without write permission
    InitialNodes,   \* what the destination may be at first
    MaxInterrupts   \* bound on KeyboardInterrupts

ASSUME PathsAssumption == VolumePaths \cap UserPaths = {}
ASSUME SwitchAssumption == ReadOnlyDirs \in BOOLEAN /\ MaxInterrupts \in Nat
ASSUME NodesAssumption == InitialNodes \subseteq {"absent", "dir", "file", "link"}

VARIABLES
    dest,       \* the destination; "link" is a symlink to a directory
    overwriters, \* the calls with overwrite=True
    staging,    \* staging[p]: the directory _staging_dir named for p, beside
                \* the destination
    pc,         \* pc[p]: where call p is
    done,       \* done[p]: the entries its transfer has written
    late,       \* late[p]: its pool was left running
    cut,        \* cut[p]: an interrupt hit the pool's exit or the cleanup
    interrupts  \* KeyboardInterrupts so far

callVars == <<overwriters, done, late, cut, interrupts>>
vars == <<dest, staging, pc, callVars>>

Paths == VolumePaths \cup UserPaths
Nothing == "nothing"
User == "user"
Owner == Pulls \cup {Nothing, User}
ASSUME OwnerAssumption == Nothing \notin Pulls /\ User \notin Pulls

Empty == [x \in Paths |-> Nothing]
Absent == [node |-> "absent", at |-> Empty]
EmptyDir == [node |-> "dir", at |-> Empty]

\* A staging directory: whether it exists, its entries, and whether recorded
\* modes have made a directory in it read-only.
NoStaging == [there |-> FALSE, at |-> Empty, locked |-> FALSE]

Stagers == Pulls \ overwriters
InTry == {"making", "building", "stamping", "clearing", "renaming", "published"}
Ended == {"returned", "raised", "crashed"}

TypeOK ==
    /\ dest \in [node : {"absent", "dir", "file", "link"}, at : [Paths -> Owner]]
    /\ overwriters \subseteq Pulls
    /\ staging \in [Pulls -> [there : BOOLEAN, at : [Paths -> Owner], locked : BOOLEAN]]
    /\ pc \in [Pulls -> {"start", "checked", "closing", "cleanup", "removing"}
                            \cup InTry \cup Ended]
    /\ done \in [Pulls -> SUBSET VolumePaths]
    /\ late \in [Pulls -> BOOLEAN]
    /\ cut \in [Pulls -> BOOLEAN]
    /\ interrupts \in 0 .. MaxInterrupts

Init ==
    /\ dest \in [node : InitialNodes, at : [Paths -> {Nothing, User}]]
    /\ dest.node \in {"absent", "file"} => dest.at = Empty
    /\ overwriters \in SUBSET Pulls
    /\ staging = [p \in Pulls |-> NoStaging]
    /\ pc = [p \in Pulls |-> "start"]
    /\ done = [p \in Pulls |-> {}]
    /\ late = [p \in Pulls |-> FALSE]
    /\ cut = [p \in Pulls |-> FALSE]
    /\ interrupts = 0

-----------------------------------------------------------------------------

Goto(p, s) == pc' = [pc EXCEPT ![p] = s]

\* Path.is_dir and Path.exists follow a link.
DestIsDir == dest.node \in {"dir", "link"}

\* _check_destination.
Acceptable(p) ==
    \/ dest.node = "absent"
    \/ DestIsDir /\ (p \in overwriters \/ dest.at = Empty)

Check(p) ==
    /\ pc[p] = "start"
    /\ Goto(p, IF Acceptable(p) THEN "checked" ELSE "raised")
    /\ UNCHANGED <<dest, staging, callVars>>

\* Resolve, manifest, containment, selection and free space: all before
\* anything is written.
Prepare(p) ==
    /\ pc[p] = "checked"
    /\ Goto(p, "making") \/ Goto(p, "raised")
    /\ UNCHANGED <<dest, staging, callVars>>

\* root.mkdir(parents=True, exist_ok=True); the destination's own parents are
\* not modelled.
MakeRoot(p) ==
    /\ pc[p] = "making"
    /\ Goto(p, "building")
    /\ IF p \in Stagers
       THEN /\ staging' = [staging EXCEPT ![p].there = TRUE]
            /\ UNCHANGED dest
       ELSE /\ dest.node # "file"
            /\ dest' = IF dest.node = "absent" THEN EmptyDir ELSE dest
            /\ UNCHANGED staging
    /\ UNCHANGED callVars

MakeRootFails(p) ==
    /\ pc[p] = "making"
    /\ Goto(p, "cleanup")
    /\ UNCHANGED <<dest, staging, callVars>>

\* One entry is written below the root, if the root is there.
WriteEntry(p, x) ==
    /\ pc[p] \in {"building", "closing"} \/ late[p]
    /\ x \notin done[p]
    /\ done' = [done EXCEPT ![p] = @ \cup {x}]
    /\ IF p \in Stagers
       THEN /\ staging[p].there
            /\ staging' = [staging EXCEPT ![p].at[x] = p]
            /\ UNCHANGED dest
       ELSE /\ DestIsDir
            /\ dest' = [dest EXCEPT !.at[x] = p]
            /\ UNCHANGED staging
    /\ UNCHANGED <<overwriters, pc, late, cut, interrupts>>

\* The transfer is over and the pool closed: run stamps the recorded modes,
\* read-only directories among them.
Stamp(p) ==
    /\ pc[p] = "building"
    /\ done[p] = VolumePaths
    /\ Goto(p, "stamping")
    /\ staging' = [staging EXCEPT ![p].locked = p \in Stagers /\ ReadOnlyDirs]
    /\ UNCHANGED <<dest, callVars>>

RunDone(p) ==
    /\ pc[p] = "stamping"
    /\ Goto(p, IF p \in Stagers THEN "clearing" ELSE "returned")
    /\ UNCHANGED <<dest, staging, callVars>>

\* Something in run fails: in the transfer, where the pool closes before the
\* exception goes on, or between two stamps.
RunFails(p) ==
    /\ \/ pc[p] = "building" /\ Goto(p, "closing")
       \/ pc[p] = "stamping" /\ Goto(p, "cleanup")
    /\ UNCHANGED <<dest, staging, callVars>>

PoolClosed(p) ==
    /\ pc[p] = "closing"
    /\ Goto(p, "cleanup")
    /\ UNCHANGED <<dest, staging, callVars>>

\* Mutant: the destination is removed with whatever is in it.
ClearDest_Rmtree(p) ==
    /\ pc[p] = "clearing"
    /\ dest' = Absent
    /\ Goto(p, "renaming")
    /\ UNCHANGED <<staging, callVars>>

\* if dest.exists(): dest.rmdir(), which removes an empty directory, but no link
\* and nothing with something in it, and even an empty one not if it is a mount
\* point or ".".
ClearDest(p) ==
    /\ pc[p] = "clearing"
    /\ \/ dest = Absent /\ Goto(p, "renaming") /\ UNCHANGED dest
       \/ dest = EmptyDir /\ Goto(p, "renaming") /\ dest' = Absent
       \/ dest # Absent /\ Goto(p, "cleanup") /\ UNCHANGED dest
    /\ UNCHANGED <<staging, callVars>>

\* Mutant: the move replaces what is there.
Rename_Replaces(p) ==
    /\ pc[p] = "renaming"
    /\ dest' = [node |-> "dir", at |-> staging[p].at]
    /\ staging' = [staging EXCEPT ![p] = NoStaging]
    /\ Goto(p, "published")
    /\ UNCHANGED callVars

\* staging.rename(dest) replaces nothing but an empty directory, and may fail
\* whatever is there.
Rename(p) ==
    /\ pc[p] = "renaming"
    /\ \/ /\ dest \in {Absent, EmptyDir}
          /\ dest' = [node |-> "dir", at |-> staging[p].at]
          /\ staging' = [staging EXCEPT ![p] = NoStaging]
          /\ Goto(p, "published")
       \/ /\ Goto(p, "cleanup")
          /\ UNCHANGED <<dest, staging>>
    /\ UNCHANGED callVars

Return(p) ==
    /\ pc[p] = "published"
    /\ Goto(p, "returned")
    /\ UNCHANGED <<dest, staging, callVars>>

\* rmtree(staging, ignore_errors=True) empties the directory, except below a
\* read-only one, ...
EmptyStaging(p) ==
    /\ pc[p] = "cleanup"
    /\ IF p \in Stagers
       THEN /\ staging' = IF staging[p].locked THEN staging
                          ELSE [staging EXCEPT ![p].at = Empty]
            /\ Goto(p, "removing")
       ELSE UNCHANGED staging /\ Goto(p, "raised")
    /\ UNCHANGED <<dest, callVars>>

\* ... and removes it if it is empty by then; the exception goes on.
RemoveStaging(p) ==
    /\ pc[p] = "removing"
    /\ staging' = IF staging[p].at = Empty THEN [staging EXCEPT ![p] = NoStaging]
                  ELSE staging
    /\ Goto(p, "raised")
    /\ UNCHANGED <<dest, callVars>>

\* Mutant: the cleanup catches Exception, which no interrupt is.
Interrupt_PastCleanup(p) ==
    /\ pc[p] \notin {"start"} \cup Ended
    /\ interrupts < MaxInterrupts
    /\ interrupts' = interrupts + 1
    /\ Goto(p, "raised")
    /\ cut' = [cut EXCEPT ![p] = @ \/ pc[p] \in {"closing", "cleanup", "removing"}]
    /\ UNCHANGED <<dest, overwriters, staging, done, late>>

\* A KeyboardInterrupt in the call's thread.
Interrupt(p) ==
    /\ pc[p] \notin {"start"} \cup Ended
    /\ interrupts < MaxInterrupts
    /\ interrupts' = interrupts + 1
    /\ Goto(p, CASE pc[p] = "checked" -> "raised"
                 [] pc[p] = "building" -> "closing"
                 [] pc[p] \in {"cleanup", "removing"} -> "raised"
                 [] OTHER -> "cleanup")
    /\ late' = [late EXCEPT ![p] = @ \/ pc[p] = "closing"]
    /\ cut' = [cut EXCEPT ![p] = @ \/ pc[p] \in {"closing", "cleanup", "removing"}]
    /\ UNCHANGED <<dest, overwriters, staging, done>>

\* The process of the call is killed; its threads die with it.
Crash(p) ==
    /\ pc[p] \notin Ended
    /\ Goto(p, "crashed")
    /\ late' = [late EXCEPT ![p] = FALSE]
    /\ UNCHANGED <<dest, overwriters, staging, done, cut, interrupts>>

\* The user makes the destination or puts a file of theirs in it.
UserMakesDir ==
    /\ dest = Absent
    /\ dest' = EmptyDir
    /\ UNCHANGED <<staging, pc, callVars>>

UserWrites(x) ==
    /\ dest.node = "dir"
    /\ dest.at[x] = Nothing
    /\ dest' = [dest EXCEPT !.at[x] = User]
    /\ UNCHANGED <<staging, pc, callVars>>

-----------------------------------------------------------------------------

Step(p) ==
    \/ Check(p)
    \/ Prepare(p)
    \/ MakeRoot(p)
    \/ MakeRootFails(p)
    \/ \E x \in VolumePaths : WriteEntry(p, x)
    \/ Stamp(p)
    \/ RunDone(p)
    \/ RunFails(p)
    \/ PoolClosed(p)
    \/ ClearDest(p)
    \/ Rename(p)
    \/ Return(p)
    \/ EmptyStaging(p)
    \/ RemoveStaging(p)

Next ==
    \/ \E p \in Pulls : Step(p) \/ Interrupt(p) \/ Crash(p)
    \/ UserMakesDir
    \/ \E x \in Paths : UserWrites(x)

Spec == Init /\ [][Next]_vars

-----------------------------------------------------------------------------
(***************************************************************************)
(* Properties.                                                             *)
(***************************************************************************)

\* The destination changes as AtomicPublish allows: a pull without overwrite
\* adds its whole tree at once and over nothing, whatever fails, crashes or
\* races, and one with overwrite touches entries of the volume only.
Atomic == INSTANCE AtomicPublish
PublishesAtomically == Atomic!Spec

\* A user's file survives every pull, also one put there after the check
\* found the destination empty: only a pull with overwrite replaces it, and
\* only at an entry of the volume.
OnlyOverwriteReplaces ==
    [][\A x \in Paths : dest.at[x] = User /\ dest'.at[x] # User =>
           x \in VolumePaths /\ dest'.at[x] \in overwriters]_vars

\* A pull without overwrite that returned has its whole tree in place, and no
\* later pull without overwrite takes it away.
ReturnedIsThere ==
    overwriters = {} =>
        \A p \in Pulls :
            pc[p] = "returned" => \A x \in VolumePaths : dest.at[x] = p

\* A pull that raised has removed its staging directory, unless an interrupt
\* cut its cleanup, or the wait for its threads, short.
CleanedUp ==
    \A p \in Stagers :
        pc[p] = "raised" /\ ~ cut[p] => ~ staging[p].there

\* "a failed pull leaves nothing behind" (pull), of the staging directory.
NoStagingLeft ==
    \A p \in Stagers : pc[p] = "raised" => ~ staging[p].there

=============================================================================
