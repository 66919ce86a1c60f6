---------------------------- MODULE AtomicPublish ----------------------------
(***************************************************************************)
(* What pulls promise about their destination.  A pull without overwrite   *)
(* publishes: its whole tree appears in one step and only where nothing    *)
(* was, so it never replaces a user's file or another pull's tree.  A pull *)
(* with overwrite writes over whatever is at an entry of the volume, one   *)
(* entry at a time, and touches nothing beside them.                       *)
(***************************************************************************)
CONSTANTS
    Pulls,          \* the pulls into this destination
    VolumePaths,    \* the entries of the volume
    Paths           \* these, and paths only a user writes

VARIABLES
    dest,           \* the destination: its node and what is at each path
    overwriters     \* the pulls with overwrite

publishVars == <<dest, overwriters>>

Nothing == "nothing"
User == "user"
Empty == [x \in Paths |-> Nothing]
TreeOf(p) == [x \in Paths |-> IF x \in VolumePaths THEN p ELSE Nothing]
Absent == [node |-> "absent", at |-> Empty]
EmptyDir == [node |-> "dir", at |-> Empty]

Init ==
    /\ dest.at \in [Paths -> {Nothing, User}]
    /\ overwriters \subseteq Pulls

Publish(p) ==
    /\ p \notin overwriters
    /\ dest \in {Absent, EmptyDir}
    /\ dest' = [node |-> "dir", at |-> TreeOf(p)]
    /\ UNCHANGED overwriters

Overwrite(p, x) ==
    /\ p \in overwriters
    /\ dest.node \in {"dir", "link"}
    /\ dest' = [dest EXCEPT !.at[x] = p]
    /\ UNCHANGED overwriters

\* An empty destination makes room for the tree.
RemoveEmpty ==
    /\ dest = EmptyDir
    /\ dest' = Absent
    /\ UNCHANGED overwriters

\* A user, or a pull with overwrite.
MakeEmpty ==
    /\ dest = Absent
    /\ dest' = EmptyDir
    /\ UNCHANGED overwriters

UserWrites(x) ==
    /\ dest.node = "dir"
    /\ dest.at[x] = Nothing
    /\ dest' = [dest EXCEPT !.at[x] = User]
    /\ UNCHANGED overwriters

Next ==
    \/ \E p \in Pulls : Publish(p) \/ \E x \in VolumePaths : Overwrite(p, x)
    \/ RemoveEmpty
    \/ MakeEmpty
    \/ \E x \in Paths : UserWrites(x)

Spec == Init /\ [][Next]_publishVars

=============================================================================
