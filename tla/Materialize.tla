----------------------------- MODULE Materialize -----------------------------
(***************************************************************************)
(* _Materializer.run of volumes/_client.py and the file system helpers of  *)
(* volumes/_materialize.py: one pull writes the selected entries of a      *)
(* manifest below a root that may already hold anything, the leftovers of  *)
(* earlier pulls, finished or failed, among it.                            *)
(*                                                                         *)
(* A path is the sequence of its components.  The tree below the root maps *)
(* each path to an inode, so that two paths can share one.  Of a mode only *)
(* the owner's rights on a directory matter: "open" has both w and x,      *)
(* "sealed" x only, "shut" not even x.  The transfer's own interleavings   *)
(* are FetchPool's; here its creations and writes come in any order and    *)
(* may stop anywhere.  The root belongs to the user who pulls, is open and *)
(* nobody else writes below it meanwhile.                                  *)
(***************************************************************************)
EXTENDS Naturals, SequencesExt

CONSTANTS
    Names,          \* the names of files
    Paths,          \* the paths considered
    Contents,       \* bytes of files and targets of symlinks
    Modes,          \* modes
    Versions,       \* manifests: sequences of entries ContainedPaths accepts
    Includes,       \* sets of paths a pull may be given to narrow it
    Trees,          \* what the destination may hold before the first pull
    MaxPulls        \* bound: pulls into the destination

ASSUME PathsAssumption ==
    /\ IsFiniteSet(Paths)
    /\ Paths \subseteq Seq(Names) \ {<<>>}
    /\ \A p \in Paths : \A i \in 1 .. Len(p) : SubSeq(p, 1, i) \in Paths

ASSUME DataAssumption ==
    /\ {"none", "zeros"} \subseteq Contents
    /\ {"none", "private", "open", "sealed", "shut"} \subseteq Modes

\* What parse_manifest and ContainedPaths leave of a version's entries: see
\* EntriesFit of Manifest.  A link group is one file under several names.
ASSUME VersionsAssumption ==
    \A v \in Versions :
        /\ \A i \in DOMAIN v :
               /\ v[i] \in [index : Nat, path : Paths, type : {"directory", "file", "symlink"},
                            data : Contents, mode : Modes, group : Nat]
               /\ v[i].type = "directory" => v[i].data = "none"
        /\ \A i, j \in DOMAIN v :
               /\ v[i].path = v[j].path => v[i] = v[j]
               /\ IsStrictPrefix(v[i].path, v[j].path) => v[i].type = "directory"
               /\ v[i].group = v[j].group /\ v[i].group # 0 /\ v[i].type = "file"
                   /\ v[j].type = "file" =>
                      v[i].data = v[j].data /\ v[i].mode = v[j].mode

ASSUME IncludesAssumption == \A inc \in Includes : inc \subseteq Seq(Names)

ASSUME BoundAssumption == MaxPulls \in Nat

VARIABLES
    tree,           \* what is below the root, and how the last call ended
    stage,          \* the part of run the main thread is in
    todo,           \* the paths that part has still to treat
    unwritten,      \* files created whose bytes are not all written
    entries,        \* the entries of the version, as records
    include,        \* the paths the pull is narrowed to; {} is all
    pulls           \* how many pulls have begun

vars == <<tree, stage, todo, unwritten, entries, include, pulls>>

Absent == 0
Inodes == 1 .. Cardinality(Paths) + 1
Free == [kind |-> "free", data |-> "none", mode |-> "none", stamped |-> FALSE]

Stages == {"implied", "recorded", "files", "links", "stamp files",
           "stamp directories", "returned", "raised"}

-----------------------------------------------------------------------------
(***************************************************************************)
(* The file system.                                                        *)
(***************************************************************************)

Parent(p) == Front(p)
Depth(p) == Len(p)
Above(p, q) == IsStrictPrefix(p, q)

\* What is at p.
Kind(t, p) ==
    IF p = <<>> THEN "dir"
    ELSE IF t.name[p] = Absent THEN "absent"
    ELSE t.node[t.name[p]].kind

Mode(t, p) == IF p = <<>> THEN "open" ELSE t.node[t.name[p]].mode

Fault(t, f) == [t EXCEPT !.fault = f]

\* A file system: an inode is in use when a path names it, a directory has one
\* path, and what has a path is in a directory.
FileSystem(t) ==
    /\ t \in [name : [Paths -> Inodes \cup {Absent}],
             node : [Inodes -> [kind : {"free", "dir", "file", "symlink"}, data : Contents,
                                mode : Modes, stamped : BOOLEAN]],
             fault : {"none", "I/O", "in the way", "permission"},
             outside : BOOLEAN]
    /\ \A i \in Inodes : t.node[i].kind # "free" <=> \E p \in Paths : t.name[p] = i
    /\ \A i \in Inodes : t.node[i].kind = "dir" => t.node[i].data = "none"
    /\ \A p \in Paths : t.name[p] # Absent => Kind(t, Parent(p)) = "dir"
    /\ \A p, q \in Paths : Kind(t, p) = "dir" /\ t.name[p] = t.name[q] => p = q

ASSUME TreesAssumption ==
    \A t \in Trees : FileSystem(t) /\ t.fault = "none" /\ ~ t.outside

\* Every directory on the way to p can be searched.
Reachable(t, p) ==
    \A q \in Paths : Above(q, p) => Kind(t, q) # "dir" \/ Mode(t, q) # "shut"

\* An entry of p's directory can be made or removed.
Writable(t, p) ==
    /\ Reachable(t, p)
    /\ Kind(t, Parent(p)) # "dir" \/ Mode(t, Parent(p)) = "open"

\* Making or removing p changes the modification time of its directory.
Bump(t, p) ==
    IF Parent(p) = <<>> THEN t
    ELSE [t EXCEPT !.node[t.name[Parent(p)]].stamped = FALSE]

Unlink(t, p) ==
    LET i == t.name[p]
        shared == \E q \in Paths \ {p} : t.name[q] = i
    IN  Bump([t EXCEPT !.name[p] = Absent,
                       !.node[i] = IF shared THEN @ ELSE Free], p)

\* A new inode at p: below a symlink it lands wherever that points.
Make(t, p, node) ==
    IF Kind(t, Parent(p)) = "symlink" THEN [t EXCEPT !.outside = TRUE]
    ELSE LET i == CHOOSE j \in Inodes : t.node[j].kind = "free"
         IN  Bump([t EXCEPT !.name[p] = i, !.node[i] = node], p)

NewDir == [kind |-> "dir", data |-> "none", mode |-> "open", stamped |-> FALSE]
NewFile == [kind |-> "file", data |-> "zeros", mode |-> "private", stamped |-> FALSE]
NewSymlink(data) == [kind |-> "symlink", data |-> data, mode |-> "none", stamped |-> FALSE]

-----------------------------------------------------------------------------
(***************************************************************************)
(* The helpers of _materialize.py.  Each returns the tree it leaves.       *)
(***************************************************************************)

\* Mutant: a symlink to a directory will do for one.
EnsureComponent_Follows(t, p) ==
    IF t.fault # "none" THEN t
    ELSE CASE Kind(t, p) = "absent" -> IF Writable(t, p) THEN Make(t, p, NewDir) ELSE t
           [] Kind(t, p) = "file" -> Fault(t, "in the way")
           [] Kind(t, p) = "dir" -> [t EXCEPT !.node[t.name[p]].mode = "open"]
           [] Kind(t, p) = "symlink" -> t

\* One round of ensure_dir's loop.
EnsureComponent(t, p) ==
    IF t.fault # "none" THEN t
    ELSE IF ~ Reachable(t, p) THEN Fault(t, "permission")
    ELSE IF Kind(t, p) = "dir" THEN [t EXCEPT !.node[t.name[p]].mode = "open"]
    ELSE IF Kind(t, p) = "file" THEN Fault(t, "in the way")
    ELSE IF ~ Writable(t, p) THEN Fault(t, "permission")
    ELSE Make(IF Kind(t, p) = "symlink" THEN Unlink(t, p) ELSE t, p, NewDir)

\* ensure_dir: component by component from the root.
EnsureDir(t, p) ==
    LET made[i \in 0 .. Len(p)] ==
            IF i = 0 THEN t ELSE EnsureComponent(made[i - 1], SubSeq(p, 1, i))
    IN  made[Len(p)]

\* remove_if_present.
RemoveIfPresent(t, p) ==
    IF ~ Reachable(t, p) THEN Fault(t, "permission")
    ELSE IF Kind(t, p) = "absent" THEN t
    ELSE IF Kind(t, p) = "dir" THEN Fault(t, "in the way")
    ELSE IF Writable(t, p) THEN Unlink(t, p) ELSE Fault(t, "permission")

\* What is at p goes and node takes its place.
Replace(t, p, node) ==
    LET r == RemoveIfPresent(t, p)
    IN  IF r.fault # "none" THEN r
        ELSE IF ~ Writable(r, p) THEN Fault(r, "permission")
        ELSE Make(r, p, node)

\* Mutant: a file that is there is truncated.
CreateFile_Truncates(t, p) ==
    IF Kind(t, p) = "file" THEN [t EXCEPT !.node[t.name[p]].data = "zeros"]
    ELSE Replace(t, p, NewFile)

CreateFile(t, p) == Replace(t, p, NewFile)

CreateSymlink(t, p, data) == Replace(t, p, NewSymlink(data))

\* write_at: opens what create_file made.
WriteAt(t, p, data) == [t EXCEPT !.node[t.name[p]].data = data]

CreateHardlink(t, p, source) ==
    LET r == RemoveIfPresent(t, p)
    IN  IF r.fault # "none" THEN r
        ELSE IF ~ Writable(r, p) THEN Fault(r, "permission")
        ELSE Bump([r EXCEPT !.name[p] = r.name[source]], p)

\* _stamp: the recorded time, then the recorded mode.
Stamp(t, p, mode) ==
    IF ~ Reachable(t, p) THEN Fault(t, "permission")
    ELSE [t EXCEPT !.node[t.name[p]].stamped = TRUE, !.node[t.name[p]].mode = mode]

-----------------------------------------------------------------------------
(***************************************************************************)
(* What the manifest asks for.                                             *)
(***************************************************************************)

\* Mutant: the recorded directories above a selected entry are left out.
SelectPaths_NoAncestors(es, inc) ==
    {e.path : e \in {e \in es : inc = {} \/ \E i \in inc : IsPrefix(i, e.path)}}

\* select_paths: what an include names, and the recorded directories above it.
SelectPaths(es, inc) ==
    LET matched == {e.path : e \in {e \in es : inc = {} \/ \E i \in inc : IsPrefix(i, e.path)}}
    IN  matched \cup {e.path : e \in {e \in es : \E p \in matched : Above(e.path, p)}}

Selected == {e \in entries : e.path \in SelectPaths(entries, include)}

OfType(type) == {e.path : e \in {e \in Selected : e.type = type}}

EntryAt(p) == CHOOSE e \in entries : e.path = p

\* implicit_directories.
ImplicitDirectories == {q \in Paths : \E e \in Selected : Above(q, e.path)}

\* hardlink_groups: the first path of each in manifest order is the file, the
\* others are links to it.
FirstOf(p) ==
    LET e == EntryAt(p)
        group == {f \in Selected : f.type = "file" /\ f.group = e.group}
    IN  IF e.group = 0 THEN p
        ELSE (CHOOSE f \in group : \A g \in group : f.index <= g.index).path

Linked == {p \in OfType("file") : FirstOf(p) # p}

Files == OfType("file") \ Linked

-----------------------------------------------------------------------------

TypeOK ==
    /\ FileSystem(tree)
    /\ stage \in Stages
    /\ todo \subseteq Paths /\ unwritten \subseteq Paths
    /\ unwritten # {} => stage \in {"files", "raised"}
    /\ pulls \in 0 .. MaxPulls

Init ==
    /\ tree \in Trees
    /\ stage = "returned"
    /\ todo = {} /\ unwritten = {} /\ entries = {} /\ include = {}
    /\ pulls = 0

\* run begins: a version, narrowed, into whatever is there.  An include that is
\* nothing but slashes does not narrow it.
Pull ==
    /\ stage \in {"returned", "raised"}
    /\ pulls < MaxPulls
    /\ pulls' = pulls + 1
    /\ entries' \in {{v[i] : i \in DOMAIN v} : v \in Versions}
    /\ include' \in {inc \ {<<>>} : inc \in Includes}
    /\ \A i \in include' : \E e \in entries' : IsPrefix(i, e.path)
    /\ stage' = "implied"
    /\ todo' = ImplicitDirectories'
    /\ unwritten' = {}
    /\ tree' = Fault(tree, "none")

\* The call left tree t: the part goes on without p, or the fault is raised.
Outcome(t, p) ==
    /\ tree' = t
    /\ IF t.fault = "none"
       THEN todo' = todo \ {p} /\ UNCHANGED stage
       ELSE stage' = "raised" /\ UNCHANGED todo
    /\ UNCHANGED <<entries, include, pulls>>

\* Implied directories, shallowest first.
MakeImplied ==
    /\ stage = "implied"
    /\ \E p \in todo :
        /\ \A q \in todo : Depth(p) <= Depth(q)
        /\ Outcome(EnsureDir(tree, p), p)
    /\ UNCHANGED unwritten

\* Recorded directories and symlinks.
MakeRecorded ==
    /\ stage = "recorded"
    /\ \E p \in todo :
        Outcome(IF p \in OfType("directory") THEN EnsureDir(tree, p)
                ELSE CreateSymlink(tree, p, EntryAt(p).data), p)
    /\ UNCHANGED unwritten

\* A plan of the pool creates its file.
Create ==
    /\ stage = "files"
    /\ \E p \in todo :
        /\ Outcome(CreateFile(tree, p), p)
        /\ unwritten' = unwritten \cup {p}

\* The last chunk of a file is written.
Write ==
    /\ stage = "files"
    /\ \E p \in unwritten :
        /\ tree' = WriteAt(tree, p, EntryAt(p).data)
        /\ unwritten' = unwritten \ {p}
    /\ UNCHANGED <<stage, todo, entries, include, pulls>>

MakeLinks ==
    /\ stage = "links"
    /\ \E p \in todo : Outcome(CreateHardlink(tree, p, FirstOf(p)), p)
    /\ UNCHANGED unwritten

StampFiles ==
    /\ stage = "stamp files"
    /\ \E p \in todo : Outcome(Stamp(tree, p, EntryAt(p).mode), p)
    /\ UNCHANGED unwritten

\* Mutant: recorded directories are stamped shallowest first.
DirToStamp_Shallowest(p) == \A q \in todo : Depth(p) <= Depth(q)

\* Recorded directories, deepest first.
DirToStamp(p) == \A q \in todo : Depth(p) >= Depth(q)

StampDirectories ==
    /\ stage = "stamp directories"
    /\ \E p \in todo : DirToStamp(p) /\ Outcome(Stamp(tree, p, EntryAt(p).mode), p)
    /\ UNCHANGED unwritten

\* The part that follows each part of run, and the paths it treats.
After ==
    [s \in Stages \ {"returned", "raised"} |->
        CASE s = "implied" -> <<"recorded", OfType("directory") \cup OfType("symlink")>>
          [] s = "recorded" -> <<"files", Files>>
          [] s = "files" -> <<"links", Linked>>
          [] s = "links" -> <<"stamp files", Files>>
          [] s = "stamp files" -> <<"stamp directories", OfType("directory")>>
          [] s = "stamp directories" -> <<"returned", {}>>]

\* Mutant: run goes on while files are being written.
Advance_Early ==
    /\ stage \notin {"returned", "raised"}
    /\ todo = {}
    /\ stage' = After[stage][1]
    /\ todo' = After[stage][2]
    /\ UNCHANGED <<tree, unwritten, entries, include, pulls>>

\* A part of run is done.
Advance ==
    /\ stage \notin {"returned", "raised"}
    /\ todo = {} /\ unwritten = {}
    /\ stage' = After[stage][1]
    /\ todo' = After[stage][2]
    /\ UNCHANGED <<tree, unwritten, entries, include, pulls>>

\* A call fails for a reason of its own (a full disk, a bad chunk, an
\* interrupt), before it did anything or with what it replaces already gone; a
\* directory replaces a symlink only.
Fail ==
    /\ stage \notin {"returned", "raised"}
    /\ todo # {} \/ unwritten # {}
    /\ stage' = "raised"
    /\ \/ tree' = Fault(tree, "I/O")
       \/ /\ stage \in {"implied", "recorded", "files", "links"}
          /\ \E p \in todo :
              /\ stage = "implied" \/ p \in OfType("directory") => Kind(tree, p) = "symlink"
              /\ RemoveIfPresent(tree, p).fault = "none"
              /\ tree' = Fault(RemoveIfPresent(tree, p), "I/O")
    /\ UNCHANGED <<todo, unwritten, entries, include, pulls>>

Next ==
    \/ Pull
    \/ MakeImplied
    \/ MakeRecorded
    \/ Create
    \/ Write
    \/ MakeLinks
    \/ StampFiles
    \/ StampDirectories
    \/ Advance
    \/ Fail

Spec == Init /\ [][Next]_vars

-----------------------------------------------------------------------------
(***************************************************************************)
(* Properties.                                                             *)
(***************************************************************************)

\* An entry is asked for by name, or is a recorded directory above one.
Wanted(e) ==
    \/ include = {}
    \/ \E i \in include : IsPrefix(i, e.path) \/ (e.type = "directory" /\ Above(e.path, i))

KindOf(e) == IF e.type = "directory" THEN "dir" ELSE e.type

\* A pull that returns leaves each entry it was asked for as recorded: its
\* kind, bytes or target, its mode and its time, whatever was there before
\* and however earlier pulls ended; and paths share bytes exactly as their
\* link groups say.
TreeIsManifest ==
    stage = "returned" =>
        /\ \A e \in {e \in entries : Wanted(e)} :
               LET n == tree.node[tree.name[e.path]]
               IN  /\ tree.name[e.path] # Absent
                   /\ n.kind = KindOf(e)
                   /\ n.data = e.data
                   /\ e.type # "symlink" => n.mode = e.mode /\ n.stamped
        /\ \A e, f \in {e \in entries : Wanted(e) /\ e.type = "file"} :
               tree.name[e.path] = tree.name[f.path] <=>
                   e = f \/ (e.group = f.group /\ e.group # 0)

\* No pull is refused for the modes an earlier pull, or anyone, left on the
\* directories it works in.
NoPermissionNeeded == tree.fault # "permission"

\* What is at no path of a pull, nor above one, keeps its inode and bytes:
\* not even a hard link to something the pull replaces is written through.
UserFilesKept ==
    [][\A p \in Paths :
           (pulls' = pulls /\ \A e \in Selected : ~ IsPrefix(p, e.path)) =>
               /\ tree'.name[p] = tree.name[p]
               /\ tree.name[p] # Absent =>
                      tree'.node[tree.name[p]].data = tree.node[tree.name[p]].data]_vars

\* Nothing is made outside the root through a symlink that was in the way.
NothingOutside == ~ tree.outside

=============================================================================
