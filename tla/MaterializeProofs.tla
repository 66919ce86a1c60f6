--------------------------- MODULE MaterializeProofs ---------------------------
(***************************************************************************)
(* A pull that returns leaves the manifest's tree, needs no permission it  *)
(* does not have and touches nothing but its paths, for every version, and *)
(* whatever file system it starts in.                                      *)
(*                                                                         *)
(* The proof has three layers: paths and their prefixes; each operation of *)
(* the file system and each helper, by what it leaves at its path and that *)
(* it leaves the others alone (Same); and the invariant of run, which says *)
(* part by part what is in place of what the part is to make.              *)
(***************************************************************************)
EXTENDS Materialize, FiniteSetTheorems, TLAPS

-----------------------------------------------------------------------------
(***************************************************************************)
(* The invariant.                                                          *)
(***************************************************************************)

InodeAt(t, p) == t.node[t.name[p]]

OpenDir(t, p) == Kind(t, p) = "dir" /\ Mode(t, p) = "open"

\* What is left of the assumption on versions: the entries agree.
GoodEntries(es) ==
    /\ \A e \in es :
           /\ e \in [index : Nat, path : Paths, type : {"directory", "file", "symlink"},
                     data : Contents, mode : Modes, group : Nat]
           /\ e.type = "directory" => e.data = "none"
    /\ \A e, f \in es :
           /\ e.path = f.path => e = f
           /\ Above(e.path, f.path) => e.type = "directory"
           /\ e.group = f.group /\ e.group # 0 /\ e.type = "file" /\ f.type = "file" =>
                  e.data = f.data /\ e.mode = f.mode

PullInv ==
    /\ GoodEntries(entries)
    /\ include \subseteq Seq(Names)
    /\ \A i \in include : \E e \in entries : IsPrefix(i, e.path)
    /\ stage \notin {"raised"} => tree.fault = "none"

\* What each part of run has still to treat is what it is there for.
TodoInv ==
    /\ stage = "implied" => todo \subseteq ImplicitDirectories
    /\ stage = "recorded" => todo \subseteq OfType("directory") \cup OfType("symlink")
    /\ stage = "files" => todo \subseteq Files
    /\ stage = "links" => todo \subseteq Linked
    /\ stage = "stamp files" => todo \subseteq Files
    /\ stage = "stamp directories" => todo \subseteq OfType("directory")
    /\ stage = "files" => unwritten \subseteq Files \ todo

\* The parts of run, in their order, and which of them are over.
PastLinks == {"stamp files", "stamp directories", "returned"}
PastFiles == {"links"} \cup PastLinks
PastRecorded == {"files"} \cup PastFiles
PastImplied == {"recorded"} \cup PastRecorded

Implied(p) == stage \in PastImplied \/ (stage = "implied" /\ p \notin todo)
Recorded(p) == stage \in PastRecorded \/ (stage = "recorded" /\ p \notin todo)
Created(p) == stage \in PastFiles \/ (stage = "files" /\ p \notin todo)
LinkedUp(p) == stage \in PastLinks \/ (stage = "links" /\ p \notin todo)
FileStamped(p) ==
    \/ stage \in {"stamp directories", "returned"}
    \/ stage = "stamp files" /\ p \notin todo
DirStamped(p) == stage = "returned" \/ (stage = "stamp directories" /\ p \notin todo)

\* Directories are open from when they are made until they are stamped, and
\* no directory is stamped before one below it.
DirsInv ==
    /\ \A p \in ImplicitDirectories :
           Implied(p) /\ ~ (p \in OfType("directory") /\ DirStamped(p)) => OpenDir(tree, p)
    /\ \A p \in OfType("directory") :
           /\ Recorded(p) /\ ~ DirStamped(p) => OpenDir(tree, p)
           /\ DirStamped(p) => /\ Kind(tree, p) = "dir"
                               /\ Mode(tree, p) = EntryAt(p).mode
                               /\ InodeAt(tree, p).stamped
    /\ stage = "stamp directories" =>
           \A p \in todo : \A q \in OfType("directory") \ todo : Len(q) >= Len(p)

SymlinksInv ==
    \A p \in OfType("symlink") :
        Recorded(p) => Kind(tree, p) = "symlink" /\ InodeAt(tree, p).data = EntryAt(p).data

\* A file that was created has its inode to itself and its links.
FilesInv ==
    /\ \A p \in Files :
           /\ Created(p) =>
                  /\ Kind(tree, p) = "file"
                  /\ p \notin unwritten => InodeAt(tree, p).data = EntryAt(p).data
                  /\ \A q \in Paths \ {p} :
                         tree.name[q] = tree.name[p] =>
                             q \in Linked /\ FirstOf(q) = p /\ LinkedUp(q)
           /\ FileStamped(p) => Mode(tree, p) = EntryAt(p).mode /\ InodeAt(tree, p).stamped
    /\ \A p \in Linked : LinkedUp(p) => tree.name[p] = tree.name[FirstOf(p)]

RunInv == DirsInv /\ SymlinksInv /\ FilesInv

IInv == TypeOK /\ NothingOutside /\ NoPermissionNeeded /\ PullInv /\ TodoInv /\ RunInv

-----------------------------------------------------------------------------
(***************************************************************************)
(* Paths and their prefixes.                                               *)
(***************************************************************************)

LEMMA PathShape ==
    ASSUME NEW p \in Paths
    PROVE  /\ p \in Seq(Names) /\ Len(p) \in Nat /\ Len(p) >= 1
           /\ \A i \in 1 .. Len(p) : SubSeq(p, 1, i) \in Paths /\ Len(SubSeq(p, 1, i)) = i
           /\ SubSeq(p, 1, Len(p)) = p
<1>1. p \in Seq(Names) /\ p # <<>> /\ \A i \in 1 .. Len(p) : SubSeq(p, 1, i) \in Paths
  BY PathsAssumption
<1>2. Len(p) \in Nat /\ Len(p) >= 1
  BY <1>1
<1>3. \A i \in 1 .. Len(p) : Len(SubSeq(p, 1, i)) = i
  BY <1>1, <1>2
<1>4. SubSeq(p, 1, Len(p)) = p
  BY <1>1, <1>2
<1>. QED
  BY <1>1, <1>2, <1>3, <1>4

\* A prefix of a prefix is a prefix.
LEMMA SubPrefix ==
    ASSUME NEW p \in Paths, NEW j \in 1 .. Len(p), NEW i \in 1 .. j
    PROVE  SubSeq(SubSeq(p, 1, j), 1, i) = SubSeq(p, 1, i)
<1>1. p \in Seq(Names) /\ Len(p) \in Nat
  BY PathShape
<1>. QED
  BY <1>1

\* What is above a path is one of its shorter prefixes.
LEMMA AbovePrefix ==
    ASSUME NEW p \in Paths, NEW q \in Seq(Names), q # <<>>
    PROVE  /\ IsPrefix(q, p) <=> \E i \in 1 .. Len(p) : q = SubSeq(p, 1, i)
           /\ Above(q, p) <=> \E i \in 1 .. Len(p) - 1 : q = SubSeq(p, 1, i)
<1>1. /\ p \in Seq(Names) /\ Len(p) \in Nat
      /\ SubSeq(p, 1, Len(p)) = p
      /\ \A i \in 1 .. Len(p) : Len(SubSeq(p, 1, i)) = i
  BY PathShape
<1>2. Len(q) \in Nat /\ Len(q) >= 1 /\ SubSeq(q, 1, Len(q)) = q
  OBVIOUS
<1>3. IsPrefix(q, p) <=> Len(q) <= Len(p) /\ q = SubSeq(p, 1, Len(q))
  BY <1>2 DEF IsPrefix
<1>4. ASSUME NEW i \in 1 .. Len(p), q = SubSeq(p, 1, i) PROVE Len(q) = i /\ IsPrefix(q, p)
  BY <1>1, <1>3, <1>4
<1>5. IsPrefix(q, p) <=> \E i \in 1 .. Len(p) : q = SubSeq(p, 1, i)
  <2>1. IsPrefix(q, p) => Len(q) \in 1 .. Len(p) /\ q = SubSeq(p, 1, Len(q))
    BY <1>1, <1>2, <1>3
  <2>. QED
    BY <1>4, <2>1
<1>6. IsPrefix(q, p) /\ q # p => Len(q) \in 1 .. Len(p) - 1
  BY <1>1, <1>2, <1>3
<1>7. Above(q, p) => \E i \in 1 .. Len(p) - 1 : q = SubSeq(p, 1, i)
  BY <1>3, <1>6 DEF Above, IsStrictPrefix
<1>8. ASSUME NEW i \in 1 .. Len(p) - 1, q = SubSeq(p, 1, i) PROVE Above(q, p)
  <2>1. i \in 1 .. Len(p) /\ i # Len(p)
    <3>1. Len(p) \in Nat /\ i \in 1 .. Len(p) - 1
      BY <1>1, <1>8
    <3>2. \A n \in Nat : \A j \in 1 .. n - 1 : j \in 1 .. n /\ j # n
      OBVIOUS
    <3>. QED
      BY <3>1, <3>2
  <2>2. Len(q) = i /\ IsPrefix(q, p)
    BY <1>4, <1>8, <2>1
  <2>. QED
    BY <2>1, <2>2 DEF Above, IsStrictPrefix
<1>. QED
  BY <1>5, <1>7, <1>8

LEMMA ParentOf ==
    ASSUME NEW p \in Paths
    PROVE  /\ Len(p) = 1 => Parent(p) = <<>>
           /\ Len(p) > 1 => Parent(p) = SubSeq(p, 1, Len(p) - 1) /\ Parent(p) \in Paths
           /\ Parent(p) # p
<1>1. p \in Seq(Names) /\ Len(p) \in Nat /\ Len(p) >= 1
  BY PathShape
<1>2. Len(p) = 1 => Parent(p) = <<>>
  BY <1>1 DEF Parent, Front
<1>3. Len(p) > 1 => Parent(p) \in Paths
  BY <1>1, PathShape DEF Parent, Front
<1>4. Len(Parent(p)) # Len(p)
  BY <1>1 DEF Parent, Front
<1>. QED
  BY <1>1, <1>2, <1>3, <1>4 DEF Parent, Front

LEMMA AboveOrder ==
    ASSUME NEW p \in Paths, NEW q \in Paths
    PROVE  /\ Above(q, p) => Len(q) < Len(p) /\ q # p
           /\ \A r \in Paths : Above(r, q) /\ Above(q, p) => Above(r, p)
           /\ IsPrefix(q, p) <=> q = p \/ Above(q, p)
           /\ Above(q, p) <=> Len(p) > 1 /\ (q = Parent(p) \/ Above(q, Parent(p)))
<1>1. /\ p \in Seq(Names) /\ q \in Seq(Names) /\ p # <<>> /\ q # <<>>
      /\ Len(p) \in Nat /\ Len(q) \in Nat /\ Len(p) >= 1
      /\ SubSeq(p, 1, Len(p)) = p /\ SubSeq(q, 1, Len(q)) = q
  BY PathShape, PathsAssumption
<1>2. Above(q, p) => Len(q) < Len(p) /\ q # p
  BY <1>1, AbovePrefix, PathShape
<1>3. ASSUME NEW r \in Paths, Above(r, q), Above(q, p) PROVE Above(r, p)
  <2>1. r \in Seq(Names) /\ r # <<>>
    BY PathShape, PathsAssumption
  <2>2. PICK j \in 1 .. Len(p) - 1 : q = SubSeq(p, 1, j)
    BY <1>1, <1>3, AbovePrefix
  <2>3. PICK i \in 1 .. Len(q) - 1 : r = SubSeq(q, 1, i)
    BY <2>1, <1>3, AbovePrefix
  <2>4. Len(q) = j /\ i \in 1 .. j /\ i \in 1 .. Len(p) - 1
    BY <1>1, <2>2, <2>3, PathShape
  <2>5. r = SubSeq(p, 1, i)
    BY <1>1, <2>2, <2>3, <2>4, SubPrefix
  <2>. QED
    BY <2>1, <2>4, <2>5, AbovePrefix
<1>4. IsPrefix(q, p) <=> q = p \/ Above(q, p)
  BY <1>1 DEF Above, IsStrictPrefix, IsPrefix
<1>5. ASSUME Len(p) = 1 PROVE ~ Above(q, p)
  BY <1>1, <1>5, AbovePrefix
<1>6. ASSUME Len(p) > 1 PROVE Above(q, p) <=> q = Parent(p) \/ Above(q, Parent(p))
  <2>1. Parent(p) = SubSeq(p, 1, Len(p) - 1) /\ Parent(p) \in Paths
    BY <1>6, ParentOf
  <2>2. Len(Parent(p)) = Len(p) - 1
    BY <1>1, <1>6, <2>1, PathShape
  <2>3. \A i \in 1 .. Len(p) - 2 : SubSeq(Parent(p), 1, i) = SubSeq(p, 1, i)
    BY <1>1, <1>6, <2>1, SubPrefix
  <2>4. Above(q, Parent(p)) <=> \E i \in 1 .. Len(p) - 2 : q = SubSeq(p, 1, i)
    <3>1. Above(q, Parent(p)) <=>
              \E i \in 1 .. Len(Parent(p)) - 1 : q = SubSeq(Parent(p), 1, i)
      BY <1>1, <2>1, AbovePrefix
    <3>2. Len(Parent(p)) - 1 = Len(p) - 2
      BY <1>1, <2>2
    <3>. QED
      BY <2>3, <3>1, <3>2
  <2>5. Above(q, p) <=> \E i \in 1 .. Len(p) - 1 : q = SubSeq(p, 1, i)
    BY <1>1, AbovePrefix
  <2>6. \A i : i \in 1 .. Len(p) - 1 <=> i = Len(p) - 1 \/ i \in 1 .. Len(p) - 2
    BY <1>1, <1>6
  <2>. QED
    BY <2>1, <2>4, <2>5, <2>6
<1>. QED
  BY <1>1, <1>2, <1>3, <1>4, <1>5, <1>6

-----------------------------------------------------------------------------
(***************************************************************************)
(* The operations of the file system.                                      *)
(***************************************************************************)

NodeType == [kind : {"free", "dir", "file", "symlink"}, data : Contents,
             mode : Modes, stamped : BOOLEAN]

TreeType == [name : [Paths -> Inodes \cup {Absent}], node : [Inodes -> NodeType],
             fault : {"none", "I/O", "in the way", "permission"}, outside : BOOLEAN]

\* What is at q in t is at q in u, but perhaps for its modification time.
Same(t, u, q) ==
    /\ u.name[q] = t.name[q]
    /\ t.name[q] # Absent =>
           /\ InodeAt(u, q).kind = InodeAt(t, q).kind
           /\ InodeAt(u, q).data = InodeAt(t, q).data
           /\ InodeAt(u, q).mode = InodeAt(t, q).mode

\* Whatever is above p is a directory one can search and write in.
Clear(t, p) == \A q \in Paths : Above(q, p) => OpenDir(t, q)

LEMMA InodesType == Cardinality(Paths) \in Nat /\ Inodes \subseteq Nat /\ Absent \notin Inodes
  BY PathsAssumption, FS_CardinalityType DEF Inodes, Absent

LEMMA NewNodes ==
    /\ NewDir \in NodeType /\ NewFile \in NodeType /\ Free \in NodeType
    /\ \A data \in Contents : NewSymlink(data) \in NodeType
  BY DataAssumption DEF NodeType, NewDir, NewFile, Free, NewSymlink

\* The clauses of FileSystem.
InUse(t) == \A i \in Inodes : t.node[i].kind # "free" <=> \E p \in Paths : t.name[p] = i
DirsBare(t) == \A i \in Inodes : t.node[i].kind = "dir" => t.node[i].data = "none"
InDirs(t) == \A p \in Paths : t.name[p] # Absent => Kind(t, Parent(p)) = "dir"
DirsOnce(t) == \A p, q \in Paths : Kind(t, p) = "dir" /\ t.name[p] = t.name[q] => p = q

LEMMA FileSystemParts ==
    ASSUME NEW t
    PROVE  FileSystem(t) <=> t \in TreeType /\ InUse(t) /\ DirsBare(t) /\ InDirs(t) /\ DirsOnce(t)
  BY Zenon DEF FileSystem, TreeType, NodeType, InUse, DirsBare, InDirs, DirsOnce

LEMMA FileSystemType ==
    ASSUME NEW t, FileSystem(t)
    PROVE  t \in TreeType
  BY FileSystemParts

\* There are more inodes than paths, so one is free.
LEMMA FreeInode ==
    ASSUME NEW t, FileSystem(t)
    PROVE  \E j \in Inodes : t.node[j].kind = "free"
<1>1. SUFFICES ASSUME \A j \in Inodes : t.node[j].kind # "free" PROVE FALSE
  OBVIOUS
<1>2. \A j \in Inodes : \E p \in Paths : t.name[p] = j
  BY <1>1 DEF FileSystem
<1> DEFINE path == [j \in Inodes |-> CHOOSE p \in Paths : t.name[p] = j]
<1>3. path \in [Inodes -> Paths] /\ \A j \in Inodes : t.name[path[j]] = j
  BY <1>2
<1>4. /\ IsFiniteSet(Inodes) /\ IsFiniteSet(Paths)
      /\ Cardinality(Inodes) = Cardinality(Paths) + 1 /\ Cardinality(Paths) \in Nat
  BY InodesType, PathsAssumption, FS_Interval DEF Inodes
<1>5. Cardinality(Paths) < Cardinality(Inodes)
  BY <1>4
<1> HIDE DEF path
<1>6. \E i, j \in Inodes : i # j /\ path[i] = path[j]
  BY <1>3, <1>4, <1>5, FS_PigeonHole
<1>. QED
  BY <1>3, <1>6

\* The parent of a path is the root or a path.
LEMMA ParentCases ==
    ASSUME NEW p \in Paths
    PROVE  (Parent(p) = <<>> \/ Parent(p) \in Paths) /\ Parent(p) # p /\ p # <<>>
<1>1. p \in Seq(Names) /\ Len(p) \in Nat /\ Len(p) >= 1
  BY PathShape
<1>2. \A n \in Nat : n >= 1 => n = 1 \/ n > 1
  OBVIOUS
<1>3. Len(p) = 1 \/ Len(p) > 1
  BY <1>1, <1>2
<1>. QED
  BY <1>3, ParentOf, PathsAssumption

\* What is in a directory is in one that exists.
LEMMA ParentNamed ==
    ASSUME NEW t \in TreeType, NEW p \in Paths, Kind(t, Parent(p)) = "dir", Parent(p) # <<>>
    PROVE  /\ Parent(p) \in Paths /\ t.name[Parent(p)] \in Inodes
           /\ t.node[t.name[Parent(p)]].kind = "dir"
  BY ParentCases DEF TreeType, Kind

\* Inode i gets new contents.
SetNode(t, i, n) == [t EXCEPT !.node[i] = n]

LEMMA Rewrite ==
    ASSUME NEW t, FileSystem(t), NEW i \in Inodes, NEW n \in NodeType,
           n.kind = t.node[i].kind, n.kind = "dir" => n.data = "none",
           NEW u, u = SetNode(t, i, n)
    PROVE  /\ FileSystem(u)
           /\ u.name = t.name /\ u.fault = t.fault /\ u.outside = t.outside
           /\ u.node[i] = n
           /\ \A j \in Inodes \ {i} : u.node[j] = t.node[j]
           /\ \A p \in Paths \cup {<<>>} : Kind(u, p) = Kind(t, p)
<1>1. t \in TreeType
  BY FileSystemType
<1>2. /\ u \in TreeType /\ u.name = t.name /\ u.fault = t.fault /\ u.outside = t.outside
      /\ u.node[i] = n
      /\ \A j \in Inodes \ {i} : u.node[j] = t.node[j]
  BY <1>1 DEF TreeType, SetNode
<1>3. \A j \in Inodes : u.node[j].kind = t.node[j].kind
  BY <1>2
<1>4. \A p \in Paths \cup {<<>>} : Kind(u, p) = Kind(t, p)
  BY <1>1, <1>2, <1>3 DEF Kind, TreeType
<1>5. InUse(u)
  BY <1>2, <1>3, FileSystemParts DEF InUse
<1>6. DirsBare(u)
  BY <1>2, FileSystemParts DEF DirsBare
<1>7. InDirs(u)
  BY <1>2, <1>4, ParentCases, FileSystemParts DEF InDirs
<1>8. DirsOnce(u)
  BY <1>2, <1>4, FileSystemParts DEF DirsOnce
<1>. QED
  BY <1>2, <1>4, <1>5, <1>6, <1>7, <1>8, FileSystemParts

LEMMA BumpDoes ==
    ASSUME NEW t, FileSystem(t), NEW p \in Paths, Kind(t, Parent(p)) = "dir",
           NEW u, u = Bump(t, p)
    PROVE  /\ FileSystem(u)
           /\ u.name = t.name /\ u.fault = t.fault /\ u.outside = t.outside
           /\ \A j \in Inodes : /\ u.node[j].kind = t.node[j].kind
                                /\ u.node[j].data = t.node[j].data
                                /\ u.node[j].mode = t.node[j].mode
           /\ \A j \in Inodes : t.node[j].kind # "dir" => u.node[j] = t.node[j]
<1>1. CASE Parent(p) = <<>>
  BY <1>1 DEF Bump
<1>2. CASE Parent(p) # <<>>
  <2> DEFINE i == t.name[Parent(p)]
             n == [t.node[i] EXCEPT !.stamped = FALSE]
  <2>1. t \in TreeType
    BY FileSystemType
  <2>2. i \in Inodes /\ t.node[i].kind = "dir"
    BY <1>2, <2>1, ParentNamed
  <2>3. u = SetNode(t, i, n)
    BY <1>2 DEF Bump, SetNode
  <2>4. t.node[i] \in NodeType
    BY <2>1, <2>2 DEF TreeType
  <2>5. /\ n \in NodeType /\ n.kind = t.node[i].kind /\ n.data = t.node[i].data
        /\ n.mode = t.node[i].mode
    BY <2>4 DEF NodeType
  <2>6. n.data = "none"
    BY <2>2, <2>5 DEF FileSystem
  <2> HIDE DEF i, n
  <2>7. /\ FileSystem(u)
        /\ u.name = t.name /\ u.fault = t.fault /\ u.outside = t.outside
        /\ u.node[i] = n
        /\ \A j \in Inodes \ {i} : u.node[j] = t.node[j]
    BY <2>2, <2>3, <2>5, <2>6, Rewrite
  <2>. QED
    BY <2>2, <2>5, <2>7
<1>. QED
  BY <1>1, <1>2

LEMMA SameKind ==
    ASSUME NEW t, NEW u, NEW q \in Paths, Same(t, u, q)
    PROVE  Kind(u, q) = Kind(t, q) /\ (OpenDir(t, q) => OpenDir(u, q))
<1>1. q # <<>>
  BY PathsAssumption
<1>. QED
  BY <1>1 DEF Same, Kind, OpenDir, Mode, InodeAt

\* Where there is something there is an inode.
LEMMA NamedInode ==
    ASSUME NEW t \in TreeType, NEW q \in Paths, Kind(t, q) # "absent"
    PROVE  /\ t.name[q] \in Inodes /\ t.name[q] # Absent
           /\ InodeAt(t, q) \in NodeType /\ Kind(t, q) = InodeAt(t, q).kind
<1>1. q # <<>>
  BY PathsAssumption
<1>2. t.name[q] # Absent
  BY <1>1 DEF Kind
<1>. QED
  BY <1>1, <1>2 DEF Kind, TreeType, InodeAt

\* A path that is taken away: its inode goes with its last name.
Unnamed(t, p) ==
    [t EXCEPT !.name[p] = Absent,
              !.node[t.name[p]] = IF \E q \in Paths \ {p} : t.name[q] = t.name[p] THEN @ ELSE Free]

LEMMA UnnamedDoes ==
    ASSUME NEW t, FileSystem(t), NEW p \in Paths, Kind(t, p) \in {"file", "symlink"},
           NEW u, u = Unnamed(t, p)
    PROVE  /\ FileSystem(u)
           /\ u.fault = t.fault /\ u.outside = t.outside
           /\ u.name[p] = Absent
           /\ \A q \in Paths \ {p} :
                  /\ u.name[q] = t.name[q]
                  /\ t.name[q] # Absent => InodeAt(u, q) = InodeAt(t, q)
<1> DEFINE i == t.name[p]
           shared == \E q \in Paths \ {p} : t.name[q] = i
<1>1. t \in TreeType
  BY FileSystemType
<1>2. i \in Inodes /\ i # Absent /\ t.node[i].kind = Kind(t, p) /\ t.node[i] \in NodeType
  BY <1>1, NamedInode DEF InodeAt
<1>3. /\ u.fault = t.fault /\ u.outside = t.outside
      /\ u.name = [t.name EXCEPT ![p] = Absent]
      /\ u.node = [t.node EXCEPT ![i] = IF shared THEN t.node[i] ELSE Free]
  BY <1>1 DEF Unnamed, TreeType
<1>4. u \in TreeType
  <2>1. u = [t EXCEPT !.name = [t.name EXCEPT ![p] = Absent],
                      !.node = [t.node EXCEPT ![i] = IF shared THEN t.node[i] ELSE Free]]
    BY <1>1 DEF Unnamed, TreeType
  <2>2. [t.name EXCEPT ![p] = Absent] \in [Paths -> Inodes \cup {Absent}]
    BY <1>1 DEF TreeType
  <2>3. [t.node EXCEPT ![i] = IF shared THEN t.node[i] ELSE Free] \in [Inodes -> NodeType]
    BY <1>1, <1>2, NewNodes DEF TreeType
  <2>. QED
    BY <1>1, <2>1, <2>2, <2>3 DEF TreeType
<1>5. u.name[p] = Absent /\ \A q \in Paths \ {p} : u.name[q] = t.name[q]
  BY <1>1, <1>3 DEF TreeType
<1>6. \A j \in Inodes \ {i} : u.node[j] = t.node[j]
  BY <1>1, <1>3 DEF TreeType
<1>7. u.node[i] = IF shared THEN t.node[i] ELSE Free
  BY <1>1, <1>2, <1>3 DEF TreeType
<1>8. ASSUME NEW q \in Paths \ {p}, t.name[q] # Absent
      PROVE  InodeAt(u, q) = InodeAt(t, q)
  <2>1. t.name[q] \in Inodes
    BY <1>1, <1>8 DEF TreeType
  <2>. QED
    BY <1>5, <1>6, <1>7, <1>8, <2>1 DEF InodeAt
<1>9. \A q \in Paths \ {p} : Kind(u, q) = Kind(t, q)
  BY <1>5, <1>8 DEF Kind, InodeAt
<1>10. Kind(u, p) = "absent"
  BY <1>5, PathsAssumption DEF Kind
<1> HIDE DEF i
<1>11. InUse(u)
  <2>1. ASSUME NEW j \in Inodes, j # i
        PROVE  u.node[j].kind # "free" <=> \E q \in Paths : u.name[q] = j
    <3>1. (\E q \in Paths : u.name[q] = j) <=> \E q \in Paths : t.name[q] = j
      BY <1>5, <2>1, InodesType DEF i
    <3>. QED
      BY <1>6, <2>1, <3>1, FileSystemParts DEF InUse
  <2>2. CASE shared
    <3>1. u.node[i].kind # "free"
      BY <1>2, <1>7, <2>2
    <3>. QED
      BY <1>2, <1>5, <2>1, <2>2, <3>1 DEF InUse
  <2>3. CASE ~ shared
    <3>1. u.node[i].kind = "free"
      BY <1>7, <2>3 DEF Free
    <3>2. ~ \E q \in Paths : u.name[q] = i
      BY <1>2, <1>5, <2>3
    <3>. QED
      BY <1>2, <2>1, <3>1, <3>2 DEF InUse
  <2>. QED
    BY <2>2, <2>3
<1>12. DirsBare(u)
  BY <1>2, <1>6, <1>7, FileSystemParts DEF DirsBare, Free
<1>13. InDirs(u)
  <2>1. SUFFICES ASSUME NEW q \in Paths, u.name[q] # Absent PROVE Kind(u, Parent(q)) = "dir"
    BY DEF InDirs
  <2>2. q # p /\ t.name[q] # Absent
    BY <1>5, <2>1
  <2>3. Kind(t, Parent(q)) = "dir"
    BY <2>2, FileSystemParts DEF InDirs
  <2>4. Parent(q) # p
    BY <2>3
  <2>. QED
    BY <1>9, <2>3, <2>4, ParentCases DEF Kind
<1>14. DirsOnce(u)
  <2>1. SUFFICES ASSUME NEW q \in Paths, NEW r \in Paths, Kind(u, q) = "dir",
                        u.name[q] = u.name[r]
                 PROVE  q = r
    BY DEF DirsOnce
  <2>2. q # p /\ Kind(t, q) = "dir"
    BY <1>9, <1>10, <2>1
  <2>3. u.name[q] # Absent
    BY <2>1, <2>2, PathsAssumption DEF Kind
  <2>4. r # p
    BY <1>5, <2>1, <2>3
  <2>. QED
    BY <1>5, <2>1, <2>2, <2>4, FileSystemParts DEF DirsOnce
<1>. QED
  BY <1>3, <1>4, <1>5, <1>8, <1>11, <1>12, <1>13, <1>14, FileSystemParts

LEMMA UnlinkDoes ==
    ASSUME NEW t, FileSystem(t), NEW p \in Paths, Kind(t, p) \in {"file", "symlink"},
           NEW u, u = Unlink(t, p)
    PROVE  /\ FileSystem(u)
           /\ u.fault = t.fault /\ u.outside = t.outside
           /\ u.name[p] = Absent
           /\ \A q \in Paths \ {p} : Same(t, u, q)
<1> DEFINE v == Unnamed(t, p)
<1>1. /\ FileSystem(v)
      /\ v.fault = t.fault /\ v.outside = t.outside
      /\ v.name[p] = Absent
      /\ \A q \in Paths \ {p} :
             /\ v.name[q] = t.name[q]
             /\ t.name[q] # Absent => InodeAt(v, q) = InodeAt(t, q)
  BY UnnamedDoes
<1>2. u = Bump(v, p)
  BY DEF Unlink, Unnamed
<1> HIDE DEF v
<1>3. Kind(t, Parent(p)) = "dir"
  BY NamedInode, FileSystemParts DEF InDirs
<1>4. Kind(v, Parent(p)) = "dir"
  BY <1>1, <1>3, ParentCases DEF Kind, InodeAt
<1>5. /\ FileSystem(u)
      /\ u.name = v.name /\ u.fault = v.fault /\ u.outside = v.outside
      /\ \A j \in Inodes : /\ u.node[j].kind = v.node[j].kind
                           /\ u.node[j].data = v.node[j].data
                           /\ u.node[j].mode = v.node[j].mode
  BY <1>1, <1>2, <1>4, BumpDoes
<1>6. ASSUME NEW q \in Paths \ {p} PROVE Same(t, u, q)
  <2>1. t.name[q] # Absent => t.name[q] \in Inodes
    <3>1. t \in TreeType
      BY FileSystemType
    <3>. QED
      BY <1>6, <3>1 DEF TreeType
  <2>. QED
    BY <1>1, <1>5, <1>6, <2>1 DEF Same, InodeAt
<1>. QED
  BY <1>1, <1>5, <1>6

\* A path that gets an inode: a free one as node, or one that is in use.
SetName(t, p, i, node) == [t EXCEPT !.name[p] = i, !.node[i] = node]

LEMMA SetNameDoes ==
    ASSUME NEW t, FileSystem(t), NEW p \in Paths, t.name[p] = Absent, Kind(t, Parent(p)) = "dir",
           NEW i \in Inodes, NEW node \in NodeType,
           \/ /\ t.node[i].kind = "free" /\ node.kind # "free"
              /\ node.kind = "dir" => node.data = "none"
           \/ node = t.node[i] /\ node.kind \in {"file", "symlink"},
           NEW u, u = SetName(t, p, i, node)
    PROVE  /\ FileSystem(u)
           /\ u.fault = t.fault /\ u.outside = t.outside
           /\ u.name[p] = i /\ u.node[i] = node
           /\ \A q \in Paths \ {p} :
                  /\ u.name[q] = t.name[q]
                  /\ t.name[q] # Absent => InodeAt(u, q) = InodeAt(t, q)
<1>1. t \in TreeType /\ InUse(t) /\ DirsBare(t) /\ InDirs(t) /\ DirsOnce(t)
  BY FileSystemParts
<1>2. /\ u.fault = t.fault /\ u.outside = t.outside
      /\ u.name = [t.name EXCEPT ![p] = i]
      /\ u.node = [t.node EXCEPT ![i] = node]
  BY <1>1 DEF SetName, TreeType
<1>3. u \in TreeType
  <2>1. u = [t EXCEPT !.name = [t.name EXCEPT ![p] = i],
                      !.node = [t.node EXCEPT ![i] = node]]
    BY <1>1 DEF SetName, TreeType
  <2>2. [t.name EXCEPT ![p] = i] \in [Paths -> Inodes \cup {Absent}]
    BY <1>1 DEF TreeType
  <2>3. [t.node EXCEPT ![i] = node] \in [Inodes -> NodeType]
    BY <1>1 DEF TreeType
  <2>. QED
    BY <1>1, <2>1, <2>2, <2>3 DEF TreeType
<1>4. u.name[p] = i /\ \A q \in Paths \ {p} : u.name[q] = t.name[q]
  BY <1>1, <1>2 DEF TreeType
<1>5. u.node[i] = node /\ \A j \in Inodes \ {i} : u.node[j] = t.node[j]
  BY <1>1, <1>2 DEF TreeType
<1>6. ASSUME NEW q \in Paths, t.name[q] # Absent
      PROVE  InodeAt(u, q) = InodeAt(t, q) /\ q # p
  <2>1. q # p /\ t.name[q] \in Inodes /\ t.node[t.name[q]].kind # "free"
    BY <1>1, <1>6 DEF TreeType, InUse
  <2>2. CASE t.name[q] = i
    BY <1>4, <1>5, <2>1, <2>2 DEF InodeAt
  <2>3. CASE t.name[q] # i
    BY <1>4, <1>5, <2>1, <2>3 DEF InodeAt
  <2>. QED
    BY <2>2, <2>3
<1>7. i # Absent
  BY InodesType
<1>8. \A q \in Paths \ {p} : Kind(u, q) = Kind(t, q)
  BY <1>4, <1>6 DEF Kind, InodeAt
<1>9. Kind(u, p) = node.kind /\ node.kind # "free"
  BY <1>4, <1>5, <1>7, PathsAssumption DEF Kind
<1>10. InUse(u)
  <2>1. SUFFICES ASSUME NEW j \in Inodes
                 PROVE  u.node[j].kind # "free" <=> \E q \in Paths : u.name[q] = j
    BY DEF InUse
  <2>2. CASE j = i
    BY <1>4, <1>5, <1>9, <2>2
  <2>3. CASE j # i
    <3>1. (\E q \in Paths : u.name[q] = j) <=> \E q \in Paths : t.name[q] = j
      BY <1>4, <2>3, InodesType
    <3>. QED
      BY <1>1, <1>5, <2>3, <3>1 DEF InUse
  <2>. QED
    BY <2>2, <2>3
<1>11. DirsBare(u)
  BY <1>1, <1>5 DEF DirsBare
<1>12. InDirs(u)
  <2>1. SUFFICES ASSUME NEW q \in Paths, u.name[q] # Absent PROVE Kind(u, Parent(q)) = "dir"
    BY DEF InDirs
  <2>2. Kind(t, Parent(q)) = "dir"
    BY <1>1, <1>4, <2>1 DEF InDirs
  <2>3. Parent(q) # p
    BY <2>2, PathsAssumption DEF Kind
  <2>. QED
    BY <1>8, <2>2, <2>3, ParentCases DEF Kind
<1>13. DirsOnce(u)
  <2>1. SUFFICES ASSUME NEW q \in Paths, NEW r \in Paths, q # r, Kind(u, q) = "dir"
                 PROVE  u.name[q] # u.name[r]
    BY DEF DirsOnce
  <2>2. CASE q # p /\ r # p
    BY <1>1, <1>4, <1>8, <2>1, <2>2 DEF DirsOnce
  <2>3. CASE q = p
    <3>1. t.node[i].kind = "free"
      BY <1>9, <2>1, <2>3
    <3>. QED
      BY <1>1, <1>4, <2>1, <2>3, <3>1 DEF InUse
  <2>4. CASE r = p
    <3>1. Kind(t, q) = "dir" /\ t.name[q] # Absent /\ t.node[t.name[q]].kind = "dir"
      BY <1>8, <2>1, <2>4, PathsAssumption DEF Kind
    <3>. QED
      BY <1>4, <2>1, <2>4, <3>1
  <2>. QED
    BY <2>2, <2>3, <2>4
<1>. QED
  BY <1>2, <1>3, <1>4, <1>5, <1>6, <1>10, <1>11, <1>12, <1>13, FileSystemParts

\* A name for inode i at p, and the directory's time.
LEMMA NamedThenBumped ==
    ASSUME NEW t, FileSystem(t), NEW p \in Paths, t.name[p] = Absent, Kind(t, Parent(p)) = "dir",
           NEW i \in Inodes, NEW node \in NodeType,
           \/ /\ t.node[i].kind = "free" /\ node.kind # "free"
              /\ node.kind = "dir" => node.data = "none"
           \/ node = t.node[i] /\ node.kind \in {"file", "symlink"},
           NEW u, u = Bump(SetName(t, p, i, node), p)
    PROVE  /\ FileSystem(u)
           /\ u.fault = t.fault /\ u.outside = t.outside
           /\ u.name[p] = i
           /\ InodeAt(u, p).kind = node.kind
           /\ InodeAt(u, p).data = node.data
           /\ InodeAt(u, p).mode = node.mode
           /\ \A q \in Paths \ {p} : Same(t, u, q)
<1> DEFINE v == SetName(t, p, i, node)
<1>1. /\ FileSystem(v)
      /\ v.fault = t.fault /\ v.outside = t.outside
      /\ v.name[p] = i /\ v.node[i] = node
      /\ \A q \in Paths \ {p} :
             /\ v.name[q] = t.name[q]
             /\ t.name[q] # Absent => InodeAt(v, q) = InodeAt(t, q)
  BY SetNameDoes
<1> HIDE DEF v
<1>2. Kind(v, Parent(p)) = "dir"
  BY <1>1, ParentCases DEF Kind, InodeAt
<1>3. /\ FileSystem(u)
      /\ u.name = v.name /\ u.fault = v.fault /\ u.outside = v.outside
      /\ \A j \in Inodes : /\ u.node[j].kind = v.node[j].kind
                           /\ u.node[j].data = v.node[j].data
                           /\ u.node[j].mode = v.node[j].mode
  BY <1>1, <1>2, BumpDoes DEF v
<1>4. ASSUME NEW q \in Paths \ {p} PROVE Same(t, u, q)
  <2>1. t.name[q] # Absent => t.name[q] \in Inodes
    <3>1. t \in TreeType
      BY FileSystemType
    <3>. QED
      BY <1>4, <3>1 DEF TreeType
  <2>. QED
    BY <1>1, <1>3, <1>4, <2>1 DEF Same, InodeAt
<1>. QED
  BY <1>1, <1>3, <1>4 DEF InodeAt

\* With directories above it that are open, p can be made and removed.
LEMMA ClearDoes ==
    ASSUME NEW t, NEW p \in Paths, Clear(t, p)
    PROVE  Reachable(t, p) /\ Writable(t, p) /\ Kind(t, Parent(p)) = "dir"
<1>1. Reachable(t, p)
  BY DEF Reachable, Clear, OpenDir
<1>2. Parent(p) # <<>> => Parent(p) \in Paths /\ Above(Parent(p), p)
  <2>1. SUFFICES ASSUME Parent(p) # <<>> PROVE Parent(p) \in Paths /\ Above(Parent(p), p)
    OBVIOUS
  <2>2. Parent(p) \in Paths
    BY <2>1, ParentCases
  <2>3. Len(p) > 1
    <3>1. p \in Seq(Names) /\ Len(p) \in Nat /\ Len(p) >= 1
      BY PathShape
    <3>2. \A n \in Nat : n >= 1 => n = 1 \/ n > 1
      OBVIOUS
    <3>. QED
      BY <2>1, <3>1, <3>2, ParentOf
  <2>. QED
    BY <2>2, <2>3, AboveOrder
<1>3. Kind(t, Parent(p)) = "dir" /\ Mode(t, Parent(p)) = "open"
  BY <1>2 DEF Clear, OpenDir, Kind, Mode
<1>. QED
  BY <1>1, <1>3 DEF Writable

\* u is t but for how the last call ended, which is f.
Faulted(t, u, f) ==
    /\ FileSystem(u) /\ u.fault = f /\ u.outside = t.outside
    /\ u.name = t.name /\ u.node = t.node
    /\ \A q \in Paths : Same(t, u, q)

\* A fault is nothing but a fault.
LEMMA FaultDoes ==
    ASSUME NEW t, FileSystem(t), NEW f \in {"none", "I/O", "in the way", "permission"}
    PROVE  Faulted(t, Fault(t, f), f)
<1> DEFINE u == Fault(t, f)
<1>1. t \in TreeType /\ InUse(t) /\ DirsBare(t) /\ InDirs(t) /\ DirsOnce(t)
  BY FileSystemParts
<1>2. /\ u \in TreeType /\ u.fault = f /\ u.outside = t.outside
      /\ u.name = t.name /\ u.node = t.node
  BY <1>1 DEF Fault, TreeType
<1> HIDE DEF u
<1>3. \A q : Kind(u, q) = Kind(t, q)
  BY <1>2 DEF Kind
<1>4. InUse(u) /\ DirsBare(u) /\ InDirs(u) /\ DirsOnce(u)
  <2>1. InUse(u) /\ DirsBare(u)
    BY <1>1, <1>2 DEF InUse, DirsBare
  <2>2. InDirs(u)
    BY <1>1, <1>2, <1>3 DEF InDirs
  <2>3. DirsOnce(u)
    BY <1>1, <1>2, <1>3 DEF DirsOnce
  <2>. QED
    BY <2>1, <2>2, <2>3
<1>5. Faulted(t, u, f)
  BY <1>2, <1>4, FileSystemParts DEF Faulted, Same, InodeAt
<1>. QED
  BY <1>5 DEF u

LEMMA RemoveDoes ==
    ASSUME NEW t, FileSystem(t), t.fault = "none", NEW p \in Paths,
           NEW r, r = RemoveIfPresent(t, p)
    PROVE  /\ FileSystem(r) /\ r.outside = t.outside
           /\ \A q \in Paths \ {p} : Same(t, r, q)
           /\ r.fault = "none" => r.name[p] = Absent
           /\ r.fault # "none" => Same(t, r, p)
           /\ Clear(t, p) => r.fault \in {"none", "in the way"}
<1>1. CASE r = Fault(t, "permission") /\ ~ Clear(t, p)
  BY <1>1, FaultDoes DEF Faulted
<1>2. CASE r = Fault(t, "in the way")
  BY <1>2, FaultDoes DEF Faulted
<1>3. CASE r = t /\ Kind(t, p) = "absent"
  <2>1. ASSUME t.name[p] # Absent PROVE FALSE
    <3>1. t \in TreeType /\ p # <<>>
      BY FileSystemParts, PathsAssumption
    <3>2. t.node[t.name[p]] \in NodeType
      BY <2>1, <3>1 DEF TreeType
    <3>. QED
      BY <1>3, <2>1, <3>1, <3>2 DEF Kind, NodeType
  <2>. QED
    BY <1>3, <2>1 DEF Same
<1>4. CASE r = Unlink(t, p) /\ Kind(t, p) \in {"file", "symlink"}
  BY <1>4, UnlinkDoes
<1>5. Kind(t, p) \in {"absent", "dir", "file", "symlink"}
  <2>1. Kind(t, p) # "absent" => Kind(t, p) # "free"
    BY NamedInode, FileSystemParts DEF InUse, InodeAt
  <2>2. Kind(t, p) # "absent" => Kind(t, p) \in {"free", "dir", "file", "symlink"}
    BY NamedInode, FileSystemType DEF NodeType
  <2>. QED
    BY <2>1, <2>2
<1>6. Clear(t, p) => Reachable(t, p) /\ Writable(t, p)
  BY ClearDoes
<1>7. CASE ~ Reachable(t, p)
  BY <1>1, <1>6, <1>7 DEF RemoveIfPresent
<1>8. CASE Reachable(t, p) /\ Kind(t, p) = "absent"
  BY <1>3, <1>8 DEF RemoveIfPresent
<1>9. CASE Reachable(t, p) /\ Kind(t, p) = "dir"
  BY <1>2, <1>9 DEF RemoveIfPresent
<1>10. CASE Reachable(t, p) /\ Kind(t, p) \in {"file", "symlink"}
  <2>1. r = IF Writable(t, p) THEN Unlink(t, p) ELSE Fault(t, "permission")
    BY <1>10 DEF RemoveIfPresent
  <2>. QED
    BY <1>1, <1>4, <1>6, <1>10, <2>1
<1>. QED
  BY <1>5, <1>7, <1>8, <1>9, <1>10

\* The same directories are above p, open as before.
LEMMA SameClear ==
    ASSUME NEW t, NEW u, NEW p \in Paths, Clear(t, p),
           \A q \in Paths \ {p} : Same(t, u, q)
    PROVE  Clear(u, p)
  BY SameKind, AboveOrder DEF Clear

\* A new inode at a path that is taken by nothing.
LEMMA MakeDoes ==
    ASSUME NEW t, FileSystem(t), NEW p \in Paths, t.name[p] = Absent, Clear(t, p),
           NEW node \in NodeType, node.kind # "free", node.kind = "dir" => node.data = "none",
           NEW u, u = Make(t, p, node)
    PROVE  /\ FileSystem(u)
           /\ u.fault = t.fault /\ u.outside = t.outside
           /\ u.name[p] # Absent
           /\ InodeAt(u, p).kind = node.kind
           /\ InodeAt(u, p).data = node.data
           /\ InodeAt(u, p).mode = node.mode
           /\ \A q \in Paths \ {p} : Same(t, u, q) /\ u.name[q] # u.name[p]
<1> DEFINE i == CHOOSE j \in Inodes : t.node[j].kind = "free"
<1>1. i \in Inodes /\ t.node[i].kind = "free"
  BY FreeInode
<1>2. Kind(t, Parent(p)) = "dir"
  BY ClearDoes
<1>3. u = Bump(SetName(t, p, i, node), p)
  BY <1>2 DEF Make, SetName
<1>4. ASSUME NEW q \in Paths PROVE t.name[q] # i
  BY <1>1, <1>4, FileSystemParts DEF InUse
<1> HIDE DEF i
<1>5. /\ FileSystem(u)
      /\ u.fault = t.fault /\ u.outside = t.outside
      /\ u.name[p] = i
      /\ InodeAt(u, p).kind = node.kind
      /\ InodeAt(u, p).data = node.data
      /\ InodeAt(u, p).mode = node.mode
      /\ \A q \in Paths \ {p} : Same(t, u, q)
  BY <1>1, <1>2, <1>3, NamedThenBumped
<1>6. \A q \in Paths \ {p} : u.name[q] # u.name[p]
  BY <1>4, <1>5 DEF Same
<1>. QED
  BY <1>1, <1>5, <1>6, InodesType

-----------------------------------------------------------------------------
(***************************************************************************)
(* The helpers of _materialize.py.                                         *)
(***************************************************************************)

LEMMA SameTwice ==
    ASSUME NEW t, NEW u, NEW v, NEW q, Same(t, u, q), Same(u, v, q)
    PROVE  Same(t, v, q)
  BY DEF Same

\* From t to u only p has changed; a directory may have been in the way.
Kept(t, u, p) ==
    /\ FileSystem(u) /\ u.outside = t.outside
    /\ u.fault \in {"none", "in the way"}
    /\ \A q \in Paths \ {p} : Same(t, u, q)

\* In u node is at p, unless a directory was in the way, and all else is as in t.
Replaced(t, u, p, node) ==
    /\ Kept(t, u, p)
    /\ \A q \in Paths \ {p} : u.fault = "none" => u.name[q] # u.name[p]
    /\ u.fault = "none" =>
           /\ u.name[p] # Absent
           /\ InodeAt(u, p).kind = node.kind
           /\ InodeAt(u, p).data = node.data
           /\ InodeAt(u, p).mode = node.mode

LEMMA ReplaceDoes ==
    ASSUME NEW t, FileSystem(t), t.fault = "none", NEW p \in Paths, Clear(t, p),
           NEW node \in NodeType, node.kind # "free", node.kind = "dir" => node.data = "none",
           NEW u, u = Replace(t, p, node)
    PROVE  Replaced(t, u, p, node)
<1> DEFINE r == RemoveIfPresent(t, p)
<1>1. /\ FileSystem(r) /\ r.outside = t.outside
      /\ \A q \in Paths \ {p} : Same(t, r, q)
      /\ r.fault = "none" => r.name[p] = Absent
      /\ r.fault \in {"none", "in the way"}
  BY RemoveDoes
<1>2. u = IF r.fault # "none" THEN r
          ELSE IF ~ Writable(r, p) THEN Fault(r, "permission")
          ELSE Make(r, p, node)
  BY DEF Replace
<1> HIDE DEF r
<1>3. CASE r.fault # "none"
  BY <1>1, <1>2, <1>3 DEF Replaced, Kept
<1>4. CASE r.fault = "none"
  <2>1. Clear(r, p)
    BY <1>1, SameClear
  <2>2. u = Make(r, p, node)
    BY <1>2, <1>4, <2>1, ClearDoes
  <2>3. /\ FileSystem(u)
        /\ u.fault = r.fault /\ u.outside = r.outside
        /\ u.name[p] # Absent
        /\ InodeAt(u, p).kind = node.kind
        /\ InodeAt(u, p).data = node.data
        /\ InodeAt(u, p).mode = node.mode
        /\ \A q \in Paths \ {p} : Same(r, u, q) /\ u.name[q] # u.name[p]
    BY <1>1, <1>4, <2>1, <2>2, MakeDoes
  <2>. QED
    BY <1>1, <1>4, <2>3, SameTwice DEF Replaced, Kept
<1>. QED
  BY <1>3, <1>4

\* What an inode at p says of p.
LEMMA KindAt ==
    ASSUME NEW t, NEW p \in Paths
    PROVE  /\ t.name[p] # Absent => Kind(t, p) = InodeAt(t, p).kind
           /\ t.name[p] = Absent => Kind(t, p) = "absent"
           /\ Mode(t, p) = InodeAt(t, p).mode
  BY PathsAssumption DEF Kind, Mode, InodeAt

LEMMA CreateFileDoes ==
    ASSUME NEW t, FileSystem(t), t.fault = "none", NEW p \in Paths, Clear(t, p),
           NEW u, u = CreateFile(t, p)
    PROVE  /\ Kept(t, u, p)
           /\ u.fault = "none" =>
                  /\ Kind(u, p) = "file"
                  /\ \A q \in Paths \ {p} : u.name[q] # u.name[p]
<1> DEFINE node == NewFile
<1>1. node \in NodeType /\ node.kind = "file"
  BY NewNodes DEF NewFile
<1>2. u = Replace(t, p, node)
  BY DEF CreateFile
<1> HIDE DEF node
<1>3. node.kind # "free" /\ (node.kind = "dir" => node.data = "none")
  BY <1>1
<1>4. Replaced(t, u, p, node)
  BY <1>1, <1>2, <1>3, ReplaceDoes
<1>. QED
  BY <1>1, <1>4, KindAt DEF Replaced

LEMMA CreateSymlinkDoes ==
    ASSUME NEW t, FileSystem(t), t.fault = "none", NEW p \in Paths, Clear(t, p),
           NEW data \in Contents, NEW u, u = CreateSymlink(t, p, data)
    PROVE  /\ Kept(t, u, p)
           /\ u.fault = "none" => Kind(u, p) = "symlink" /\ InodeAt(u, p).data = data
<1> DEFINE node == NewSymlink(data)
<1>1. node \in NodeType /\ node.kind = "symlink" /\ node.data = data
  BY NewNodes DEF NewSymlink
<1>2. u = Replace(t, p, node)
  BY DEF CreateSymlink
<1> HIDE DEF node
<1>3. node.kind # "free" /\ (node.kind = "dir" => node.data = "none")
  BY <1>1
<1>4. Replaced(t, u, p, node)
  BY <1>1, <1>2, <1>3, ReplaceDoes
<1>. QED
  BY <1>1, <1>4, KindAt DEF Replaced

\* One component of ensure_dir's walk, everything above it being open.
LEMMA EnsureComponentDoes ==
    ASSUME NEW t, FileSystem(t), t.fault = "none", NEW p \in Paths, Clear(t, p),
           NEW u, u = EnsureComponent(t, p)
    PROVE  /\ FileSystem(u) /\ u.outside = t.outside
           /\ u.fault \in {"none", "in the way"}
           /\ \A q \in Paths \ {p} : Same(t, u, q)
           /\ u.fault = "none" => OpenDir(u, p)
           /\ OpenDir(t, p) => OpenDir(u, p)
<1>1. Reachable(t, p) /\ Writable(t, p) /\ p # <<>>
  BY ClearDoes, PathsAssumption
<1>2. CASE Kind(t, p) = "dir"
  <2> DEFINE i == t.name[p]
             n == [t.node[i] EXCEPT !.mode = "open"]
  <2>1. t \in TreeType /\ DirsBare(t) /\ DirsOnce(t)
    BY FileSystemParts
  <2>2. i \in Inodes /\ i # Absent /\ t.node[i] \in NodeType /\ t.node[i].kind = "dir"
    BY <1>2, <2>1, NamedInode DEF InodeAt
  <2>3. u = SetNode(t, i, n)
    BY <1>1, <1>2 DEF EnsureComponent, SetNode
  <2>4. n \in NodeType /\ n.kind = t.node[i].kind /\ n.mode = "open" /\ n.data = "none"
    BY <2>1, <2>2, DataAssumption DEF NodeType, DirsBare
  <2>5. ASSUME NEW q \in Paths \ {p} PROVE t.name[q] # i
    BY <1>2, <2>1, <2>5 DEF DirsOnce
  <2>6. ASSUME NEW q \in Paths, t.name[q] # Absent PROVE t.name[q] \in Inodes
    BY <2>1, <2>6 DEF TreeType
  <2>7. u.name[p] = i /\ i # Absent
    <3> HIDE DEF n
    <3>. QED
      BY <2>2, <2>3, <2>4, Rewrite
  <2> HIDE DEF i, n
  <2>8. /\ FileSystem(u)
        /\ u.name = t.name /\ u.fault = t.fault /\ u.outside = t.outside
        /\ u.node[i] = n
        /\ \A j \in Inodes \ {i} : u.node[j] = t.node[j]
    BY <2>2, <2>3, <2>4, Rewrite
  <2>9. OpenDir(u, p)
    BY <1>1, <2>2, <2>4, <2>7, <2>8 DEF OpenDir, Kind, Mode
  <2>10. ASSUME NEW q \in Paths \ {p} PROVE Same(t, u, q)
    BY <2>5, <2>6, <2>8, <2>10 DEF Same, InodeAt
  <2>. QED
    BY <2>8, <2>9, <2>10
<1>3. CASE Kind(t, p) = "file"
  <2>1. u = Fault(t, "in the way")
    BY <1>1, <1>3 DEF EnsureComponent
  <2>2. "in the way" \in {"none", "I/O", "in the way", "permission"}
    OBVIOUS
  <2>3. /\ FileSystem(u) /\ u.fault = "in the way" /\ u.outside = t.outside
        /\ \A q \in Paths : Same(t, u, q)
    <3>1. Faulted(t, Fault(t, "in the way"), "in the way")
      BY <2>2, FaultDoes
    <3>. QED
      BY <2>1, <3>1 DEF Faulted
  <2>. QED
    BY <1>3, <2>3 DEF OpenDir
<1>4. CASE Kind(t, p) \notin {"dir", "file"}
  <2> DEFINE r == IF Kind(t, p) = "symlink" THEN Unlink(t, p) ELSE t
  <2>1. u = Make(r, p, NewDir)
    BY <1>1, <1>4 DEF EnsureComponent
  <2>2. /\ FileSystem(r) /\ r.fault = t.fault /\ r.outside = t.outside
        /\ r.name[p] = Absent
        /\ \A q \in Paths \ {p} : Same(t, r, q)
    <3>1. CASE Kind(t, p) = "symlink"
      BY <3>1, UnlinkDoes
    <3>2. CASE Kind(t, p) # "symlink"
      <4>1. t.name[p] = Absent
        <5>1. ASSUME t.name[p] # Absent PROVE FALSE
          <6>1. t \in TreeType /\ InUse(t)
            BY FileSystemParts
          <6>2. t.name[p] \in Inodes /\ t.node[t.name[p]] \in NodeType
            BY <5>1, <6>1 DEF TreeType
          <6>3. t.node[t.name[p]].kind # "free"
            BY <6>1, <6>2 DEF InUse
          <6>4. Kind(t, p) = t.node[t.name[p]].kind
            BY <1>1, <5>1 DEF Kind
          <6>. QED
            BY <1>4, <3>2, <6>2, <6>3, <6>4 DEF NodeType
        <5>. QED
          BY <5>1
      <4>. QED
        BY <3>2, <4>1 DEF Same
    <3>. QED
      BY <3>1, <3>2
  <2> HIDE DEF r
  <2>3. Clear(r, p)
    BY <2>2, SameClear
  <2>4. NewDir.kind = "dir" /\ NewDir.data = "none" /\ NewDir.mode = "open" /\ NewDir \in NodeType
    BY NewNodes DEF NewDir
  <2>5. /\ FileSystem(u) /\ u.fault = r.fault /\ u.outside = r.outside
        /\ u.name[p] # Absent
        /\ InodeAt(u, p).kind = "dir" /\ InodeAt(u, p).mode = "open"
        /\ \A q \in Paths \ {p} : Same(r, u, q)
    <3> DEFINE node == NewDir
    <3>1. node \in NodeType /\ node.kind = "dir" /\ node.data = "none" /\ node.mode = "open"
      BY <2>4
    <3>2. u = Make(r, p, node)
      BY <2>1
    <3> HIDE DEF node
    <3>. QED
      BY <2>2, <2>3, <3>1, <3>2, MakeDoes
  <2>6. OpenDir(u, p)
    BY <1>1, <2>5 DEF OpenDir, Kind, Mode, InodeAt
  <2>. QED
    BY <2>2, <2>5, <2>6, SameTwice
<1>. QED
  BY <1>2, <1>3, <1>4

-----------------------------------------------------------------------------
(***************************************************************************)
(* Induction.  The library's theorems on it take an operator; a set in its *)
(* place will do.                                                          *)
(***************************************************************************)

\* Among finite sets there is a smallest one.
LEMMA MinimalFinite ==
    ASSUME NEW T, T # {}, \A x \in T : IsFiniteSet(x)
    PROVE  \E x \in T : \A y \in T : y \subseteq x => y = x
<1> DEFINE S == UNION T
<1> DEFINE R == StrictSubsetOrdering(S)
           F == FiniteSubsetsOf(S)
<1>1. IsWellFoundedOn(R, F)
  BY FS_StrictSubsetOrderingWellFounded
<1>2. T \subseteq F
  BY DEF FiniteSubsetsOf
<1>3. \E x \in T : \A y \in T : ~ (<<y, x>> \in R)
  <2> HIDE DEF R, F
  <2> QED
  BY <1>1, <1>2, WFMin
<1>4. PICK x \in T : \A y \in T : ~ (<<y, x>> \in R)
  BY <1>3
<1>5. ASSUME NEW y \in T, y \subseteq x PROVE y = x
  BY <1>4, <1>5 DEF StrictSubsetOrdering
<1> QED
  BY <1>5

LEMMA SetInduction ==
    ASSUME NEW S, 0 \in S, \A n \in Nat : n \in S => n + 1 \in S
    PROVE  Nat \subseteq S
<1>1. SUFFICES ASSUME NEW n \in Nat, n \notin S PROVE FALSE
  OBVIOUS
<1> DEFINE T == {0 .. m : m \in Nat \ S}
<1>2. \A x \in T : IsFiniteSet(x)
  BY FS_Interval
<1>3. PICK x \in T : \A y \in T : y \subseteq x => y = x
  <2> T # {}
    BY <1>1
  <2> HIDE DEF T
  <2> QED
   BY <1>2, MinimalFinite
<1>4. PICK m \in Nat \ S : x = 0 .. m
  OBVIOUS
<1>5. m # 0 /\ m - 1 \in Nat /\ (m - 1) + 1 = m
  BY <1>4
<1>6. m - 1 \in Nat \ S
  BY <1>4, <1>5
<1>7. 0 .. (m - 1) \in T /\ 0 .. (m - 1) \subseteq x
  BY <1>4, <1>6
<1>8. m \in x /\ m \notin 0 .. (m - 1)
  BY <1>4
<1> QED
  BY <1>3, <1>7, <1>8

-----------------------------------------------------------------------------
(***************************************************************************)
(* ensure_dir.                                                             *)
(***************************************************************************)

\* g is the walk's first n rounds.
IsWalk(g, t, p, n) ==
    g = [i \in 0 .. n |-> IF i = 0 THEN t ELSE EnsureComponent(g[i - 1], SubSeq(p, 1, i))]

LEMMA WalkExists ==
    ASSUME NEW t, NEW p
    PROVE  \A n \in Nat : \E g : IsWalk(g, t, p, n)
<1> DEFINE S == {n \in Nat : \E g : IsWalk(g, t, p, n)}
<1>1. 0 \in S
  <2>1. IsWalk([i \in 0 .. 0 |-> t], t, p, 0)
    BY DEF IsWalk
  <2>. QED
    BY <2>1
<1>2. ASSUME NEW n \in Nat, n \in S PROVE n + 1 \in S
  <2>1. PICK g : IsWalk(g, t, p, n)
    BY <1>2
  <2> DEFINE h == [i \in 0 .. n + 1 |->
                      IF i = n + 1 THEN EnsureComponent(g[n], SubSeq(p, 1, n + 1)) ELSE g[i]]
  <2>2. \A i \in 0 .. n : h[i] = g[i]
    BY <1>2
  <2>3. \A i \in 0 .. n :
            g[i] = IF i = 0 THEN t ELSE EnsureComponent(g[i - 1], SubSeq(p, 1, i))
    BY <2>1 DEF IsWalk
  <2>4. ASSUME NEW i \in 0 .. n + 1
        PROVE  h[i] = IF i = 0 THEN t ELSE EnsureComponent(h[i - 1], SubSeq(p, 1, i))
    <3>1. CASE i = n + 1
      <4>1. i # 0 /\ i - 1 = n /\ n \in 0 .. n
        BY <1>2, <3>1
      <4>. QED
        BY <2>2, <3>1, <4>1
    <3>2. CASE i # n + 1
      <4>1. i \in 0 .. n /\ (i # 0 => i - 1 \in 0 .. n)
        BY <1>2, <2>4, <3>2
      <4>. QED
        BY <2>2, <2>3, <3>2, <4>1
    <3>. QED
      BY <3>1, <3>2
  <2>5. h = [i \in 0 .. n + 1 |-> h[i]]
    OBVIOUS
  <2> HIDE DEF h
  <2>6. IsWalk(h, t, p, n + 1)
    BY <2>4, <2>5 DEF IsWalk
  <2>. QED
    BY <2>6
<1>. QED
  <2> HIDE DEF S
  <2>1. Nat \subseteq S
    BY <1>1, <1>2, SetInduction
  <2>. QED
    BY <2>1 DEF S

LEMMA EnsureDirWalks ==
    ASSUME NEW t, NEW p \in Paths
    PROVE  \E g : /\ g[0] = t
                  /\ \A i \in 1 .. Len(p) : g[i] = EnsureComponent(g[i - 1], SubSeq(p, 1, i))
                  /\ EnsureDir(t, p) = g[Len(p)]
<1> DEFINE g == CHOOSE g : IsWalk(g, t, p, Len(p))
<1>1. p \in Seq(Names) /\ Len(p) \in Nat
  BY PathShape
<1>2. EnsureDir(t, p) = g[Len(p)]
  BY DEF EnsureDir, IsWalk
<1>3. IsWalk(g, t, p, Len(p))
  BY <1>1, WalkExists
<1> HIDE DEF g
<1>4. \A i \in 0 .. Len(p) :
          g[i] = IF i = 0 THEN t ELSE EnsureComponent(g[i - 1], SubSeq(p, 1, i))
  BY <1>3 DEF IsWalk
<1>5. 0 \in 0 .. Len(p) /\ \A i \in 1 .. Len(p) : i \in 0 .. Len(p) /\ i # 0
  BY <1>1
<1>. QED
  BY <1>2, <1>4, <1>5

\* After i rounds towards p the first i directories are open, unless one of
\* them could not be made, and nothing else has changed.
Walked(t, u, p, i) ==
    /\ FileSystem(u) /\ u.outside = t.outside
    /\ u.fault \in {"none", "in the way"}
    /\ \A q \in Paths : (\A j \in 1 .. i : q # SubSeq(p, 1, j)) => Same(t, u, q)
    /\ u.fault = "none" => \A j \in 1 .. i : OpenDir(u, SubSeq(p, 1, j))
    /\ \A q \in Paths : OpenDir(t, q) => OpenDir(u, q)

LEMMA WalkRound ==
    ASSUME NEW t, NEW p \in Paths, NEW i \in Nat, i + 1 <= Len(p), NEW u, Walked(t, u, p, i),
           NEW v, v = EnsureComponent(u, SubSeq(p, 1, i + 1))
    PROVE  Walked(t, v, p, i + 1)
<1> DEFINE c == SubSeq(p, 1, i + 1)
<1>1. p \in Seq(Names) /\ Len(p) \in Nat
  BY PathShape
<1>2. /\ i + 1 \in 1 .. Len(p)
      /\ \A j \in 1 .. i : j \in 1 .. Len(p) /\ j \in 1 .. i + 1 /\ j # i + 1
      /\ \A j \in 1 .. i + 1 : j = i + 1 \/ j \in 1 .. i
      /\ (i + 1) - 1 = i
  BY <1>1
<1>3. c \in Paths /\ Len(c) = i + 1
  BY <1>2, PathShape
<1>4. \A j \in 1 .. i : SubSeq(p, 1, j) \in Paths /\ SubSeq(p, 1, j) # c
  <2>1. \A j \in 1 .. i : SubSeq(p, 1, j) \in Paths /\ Len(SubSeq(p, 1, j)) = j
    BY <1>2, PathShape
  <2>. QED
    BY <1>2, <1>3, <2>1
<1>5. CASE u.fault # "none"
  <2>1. v = u
    BY <1>5 DEF EnsureComponent
  <2>. QED
    BY <1>2, <1>5, <2>1 DEF Walked
<1>6. CASE u.fault = "none"
  <2>1. Clear(u, c)
    <3>1. SUFFICES ASSUME NEW q \in Paths, Above(q, c) PROVE OpenDir(u, q)
      BY DEF Clear
    <3>2. q \in Seq(Names) /\ q # <<>>
      BY PathsAssumption
    <3>3. PICK j \in 1 .. Len(c) - 1 : q = SubSeq(c, 1, j)
      BY <1>3, <3>1, <3>2, AbovePrefix
    <3>4. j \in 1 .. i /\ j \in 1 .. i + 1
      BY <1>2, <1>3
    <3>5. q = SubSeq(p, 1, j)
      BY <1>2, <3>3, <3>4, SubPrefix
    <3>. QED
      BY <1>6, <3>4, <3>5 DEF Walked
  <2>2. /\ FileSystem(v) /\ v.outside = u.outside
        /\ v.fault \in {"none", "in the way"}
        /\ \A q \in Paths \ {c} : Same(u, v, q)
        /\ v.fault = "none" => OpenDir(v, c)
        /\ OpenDir(u, c) => OpenDir(v, c)
    <3>1. FileSystem(u)
      BY DEF Walked
    <3>. HIDE DEF c
    <3>. QED
      BY <1>3, <1>6, <2>1, <3>1, EnsureComponentDoes DEF c
  <2>3. ASSUME NEW q \in Paths, \A j \in 1 .. i + 1 : q # SubSeq(p, 1, j)
        PROVE  Same(t, v, q)
    <3>1. q # c /\ \A j \in 1 .. i : q # SubSeq(p, 1, j)
      BY <1>2, <2>3
    <3>2. Same(t, u, q) /\ Same(u, v, q)
      BY <2>2, <3>1 DEF Walked
    <3>. QED
      BY <3>2, SameTwice
  <2>4. ASSUME NEW q \in Paths, OpenDir(u, q) PROVE OpenDir(v, q)
    BY <2>2, <2>4, SameKind
  <2>5. ASSUME v.fault = "none", NEW j \in 1 .. i + 1 PROVE OpenDir(v, SubSeq(p, 1, j))
    <3>1. CASE j = i + 1
      BY <2>2, <2>5, <3>1
    <3>2. CASE j \in 1 .. i
      BY <1>4, <1>6, <2>4, <3>2 DEF Walked
    <3>. QED
      BY <1>2, <2>5, <3>1, <3>2
  <2>6. \A q \in Paths : OpenDir(t, q) => OpenDir(v, q)
    BY <2>4 DEF Walked
  <2> HIDE DEF c
  <2>. QED
    BY <2>2, <2>3, <2>5, <2>6 DEF Walked
<1>. QED
  BY <1>5, <1>6

LEMMA EnsureDirDoes ==
    ASSUME NEW t, FileSystem(t), t.fault = "none", NEW p \in Paths,
           NEW u, u = EnsureDir(t, p)
    PROVE  /\ FileSystem(u) /\ u.outside = t.outside
           /\ u.fault \in {"none", "in the way"}
           /\ \A q \in Paths : ~ IsPrefix(q, p) => Same(t, u, q)
           /\ u.fault = "none" => OpenDir(u, p)
           /\ \A q \in Paths : OpenDir(t, q) => OpenDir(u, q)
<1>1. /\ p \in Seq(Names) /\ Len(p) \in Nat /\ Len(p) >= 1 /\ SubSeq(p, 1, Len(p)) = p
  BY PathShape
<1>2. PICK g : /\ g[0] = t
               /\ \A i \in 1 .. Len(p) : g[i] = EnsureComponent(g[i - 1], SubSeq(p, 1, i))
               /\ EnsureDir(t, p) = g[Len(p)]
  BY EnsureDirWalks
<1> DEFINE S == {i \in Nat : i <= Len(p) => Walked(t, g[i], p, i)}
<1>3. 0 \in S
  <2>1. \A q : Same(t, t, q)
    BY DEF Same
  <2>2. 1 .. 0 = {}
    OBVIOUS
  <2>3. Walked(t, t, p, 0)
    BY <2>1, <2>2 DEF Walked
  <2>. QED
    BY <1>2, <2>3
<1>4. ASSUME NEW i \in Nat, i \in S PROVE i + 1 \in S
  <2>1. SUFFICES ASSUME i + 1 <= Len(p) PROVE Walked(t, g[i + 1], p, i + 1)
    BY <1>4
  <2>2. i + 1 \in 1 .. Len(p) /\ (i + 1) - 1 = i /\ i <= Len(p)
    BY <1>1, <1>4, <2>1
  <2>3. g[i + 1] = EnsureComponent(g[i], SubSeq(p, 1, i + 1))
    BY <1>2, <2>2
  <2>. QED
    BY <1>4, <2>1, <2>2, <2>3, WalkRound
<1>5. Len(p) \in S
  <2> HIDE DEF S
  <2>. QED
    BY <1>1, <1>3, <1>4, SetInduction
<1>6. Walked(t, u, p, Len(p))
  BY <1>1, <1>2, <1>5
<1>7. ASSUME NEW q \in Paths, ~ IsPrefix(q, p) PROVE Same(t, u, q)
  <2>1. q \in Seq(Names) /\ q # <<>>
    BY PathsAssumption
  <2>2. \A j \in 1 .. Len(p) : q # SubSeq(p, 1, j)
    BY <1>7, <2>1, AbovePrefix
  <2>. QED
    BY <1>6, <2>2 DEF Walked
<1>8. u.fault = "none" => OpenDir(u, p)
  <2>1. Len(p) \in 1 .. Len(p)
    BY <1>1
  <2>. QED
    BY <1>1, <1>6, <2>1 DEF Walked
<1>. QED
  BY <1>6, <1>7, <1>8 DEF Walked

LEMMA CreateHardlinkDoes ==
    ASSUME NEW t, FileSystem(t), t.fault = "none", NEW p \in Paths, Clear(t, p),
           NEW source \in Paths, source # p, Kind(t, source) = "file",
           NEW u, u = CreateHardlink(t, p, source)
    PROVE  /\ Kept(t, u, p)
           /\ u.fault = "none" => u.name[p] = t.name[source]
<1> DEFINE r == RemoveIfPresent(t, p)
<1>1. /\ FileSystem(r) /\ r.outside = t.outside
      /\ \A q \in Paths \ {p} : Same(t, r, q)
      /\ r.fault = "none" => r.name[p] = Absent
      /\ r.fault \in {"none", "in the way"}
  BY RemoveDoes
<1>2. u = IF r.fault # "none" THEN r
          ELSE IF ~ Writable(r, p) THEN Fault(r, "permission")
          ELSE Bump([r EXCEPT !.name[p] = r.name[source]], p)
  BY DEF CreateHardlink
<1> HIDE DEF r
<1>3. CASE r.fault # "none"
  BY <1>1, <1>2, <1>3 DEF Kept
<1>4. CASE r.fault = "none"
  <2> DEFINE i == r.name[source]
             node == r.node[i]
  <2>1. Clear(r, p)
    BY <1>1, SameClear
  <2>2. Writable(r, p) /\ Kind(r, Parent(p)) = "dir"
    BY <2>1, ClearDoes
  <2>3. r \in TreeType /\ Kind(r, source) = "file"
    BY <1>1, SameKind, FileSystemType
  <2>4. i \in Inodes /\ node \in NodeType /\ node.kind = "file"
    BY <2>3, NamedInode DEF InodeAt
  <2>5. SetName(r, p, i, node) = [r EXCEPT !.name[p] = r.name[source]]
    BY <2>3, <2>4 DEF SetName, TreeType
  <2>6. u = Bump(SetName(r, p, i, node), p)
    BY <1>2, <1>4, <2>2, <2>5
  <2>7. i = t.name[source]
    BY <1>1 DEF Same
  <2>8. node = r.node[i]
    OBVIOUS
  <2> HIDE DEF i, node
  <2>9. /\ FileSystem(u)
        /\ u.fault = r.fault /\ u.outside = r.outside
        /\ u.name[p] = i
        /\ \A q \in Paths \ {p} : Same(r, u, q)
    BY <1>1, <1>4, <2>2, <2>4, <2>6, <2>8, NamedThenBumped
  <2>. QED
    BY <1>1, <1>4, <2>7, <2>9, SameTwice DEF Kept
<1>. QED
  BY <1>3, <1>4

\* write_at touches the names of one file.
LEMMA WriteAtDoes ==
    ASSUME NEW t, FileSystem(t), NEW p \in Paths, Kind(t, p) = "file", NEW data \in Contents,
           NEW u, u = WriteAt(t, p, data)
    PROVE  /\ FileSystem(u) /\ u.fault = t.fault /\ u.outside = t.outside
           /\ u.name = t.name /\ Kind(u, p) = "file"
           /\ InodeAt(u, p).data = data
           /\ \A q \in Paths : t.name[q] # t.name[p] => Same(t, u, q)
<1> DEFINE i == t.name[p]
           n == [t.node[i] EXCEPT !.data = data]
<1>1. t \in TreeType
  BY FileSystemType
<1>2. i \in Inodes /\ t.node[i] \in NodeType /\ t.node[i].kind = "file"
  BY <1>1, NamedInode DEF InodeAt
<1>3. u = SetNode(t, i, n)
  BY DEF WriteAt, SetNode
<1>4. n \in NodeType /\ n.kind = t.node[i].kind /\ n.data = data
  BY <1>2 DEF NodeType
<1>5. ASSUME NEW q \in Paths, t.name[q] # Absent PROVE t.name[q] \in Inodes
  BY <1>1, <1>5 DEF TreeType
<1> HIDE DEF n
<1>6. i = t.name[p]
  OBVIOUS
<1> HIDE DEF i
<1>7. /\ FileSystem(u)
      /\ u.name = t.name /\ u.fault = t.fault /\ u.outside = t.outside
      /\ u.node[i] = n
      /\ \A j \in Inodes \ {i} : u.node[j] = t.node[j]
      /\ Kind(u, p) = Kind(t, p)
  BY <1>2, <1>3, <1>4, Rewrite
<1>8. \A q \in Paths : t.name[q] # t.name[p] => Same(t, u, q)
  BY <1>5, <1>6, <1>7 DEF Same, InodeAt
<1>. QED
  BY <1>4, <1>6, <1>7, <1>8 DEF InodeAt

\* From t to u the inode of p got its time and its mode.
Restamped(t, u, p, mode) ==
    /\ FileSystem(u) /\ u.fault = t.fault /\ u.outside = t.outside
    /\ u.name = t.name
    /\ InodeAt(u, p).mode = mode /\ InodeAt(u, p).stamped
    /\ \A q \in Paths :
           /\ Kind(u, q) = Kind(t, q)
           /\ t.name[q] # t.name[p] => InodeAt(u, q) = InodeAt(t, q) \/ t.name[q] = Absent
           /\ t.name[q] # Absent => InodeAt(u, q).data = InodeAt(t, q).data

LEMMA StampDoes ==
    ASSUME NEW t, FileSystem(t), NEW p \in Paths, Kind(t, p) \in {"dir", "file", "symlink"},
           Reachable(t, p), NEW mode \in Modes,
           NEW u, u = Stamp(t, p, mode)
    PROVE  Restamped(t, u, p, mode)
<1> DEFINE i == t.name[p]
           n == [t.node[i] EXCEPT !.stamped = TRUE, !.mode = mode]
<1>1. t \in TreeType /\ DirsBare(t)
  BY FileSystemParts
<1>2. i \in Inodes /\ t.node[i] \in NodeType /\ (t.node[i].kind = "dir" => t.node[i].data = "none")
  BY <1>1, NamedInode DEF InodeAt, DirsBare
<1>3. u = SetNode(t, i, n)
  BY <1>1, <1>2 DEF Stamp, SetNode, TreeType
<1>4. /\ n \in NodeType /\ n.kind = t.node[i].kind /\ n.data = t.node[i].data
      /\ n.mode = mode /\ n.stamped
  BY <1>2 DEF NodeType
<1>5. ASSUME NEW q \in Paths, t.name[q] # Absent PROVE t.name[q] \in Inodes
  BY <1>1, <1>5 DEF TreeType
<1> HIDE DEF n
<1>6. i = t.name[p]
  OBVIOUS
<1> HIDE DEF i
<1>7. /\ FileSystem(u)
      /\ u.name = t.name /\ u.fault = t.fault /\ u.outside = t.outside
      /\ u.node[i] = n
      /\ \A j \in Inodes \ {i} : u.node[j] = t.node[j]
      /\ \A q \in Paths : Kind(u, q) = Kind(t, q)
  BY <1>2, <1>3, <1>4, Rewrite
<1>8. \A q \in Paths : t.name[q] # t.name[p] => InodeAt(u, q) = InodeAt(t, q) \/ t.name[q] = Absent
  BY <1>5, <1>6, <1>7 DEF InodeAt
<1>9. \A q \in Paths : t.name[q] # Absent => InodeAt(u, q).data = InodeAt(t, q).data
  BY <1>4, <1>5, <1>7 DEF InodeAt
<1>. QED
  BY <1>4, <1>6, <1>7, <1>8, <1>9 DEF InodeAt, Restamped

-----------------------------------------------------------------------------
(***************************************************************************)
(* What the manifest asks for.                                             *)
(***************************************************************************)

EntryType == [index : Nat, path : Paths, type : {"directory", "file", "symlink"},
              data : Contents, mode : Modes, group : Nat]

LEMMA EntriesDo ==
    ASSUME GoodEntries(entries)
    PROVE  /\ Selected \subseteq entries
           /\ \A e \in entries : e \in EntryType /\ EntryAt(e.path) = e
  BY DEF GoodEntries, EntryType, Selected, EntryAt

LEMMA OfTypeDoes ==
    ASSUME GoodEntries(entries), NEW type, NEW p \in OfType(type)
    PROVE  /\ p \in Paths /\ EntryAt(p) \in Selected /\ EntryAt(p) \in entries
           /\ EntryAt(p) \in EntryType
           /\ EntryAt(p).type = type /\ EntryAt(p).path = p
<1>1. PICK e \in Selected : e.type = type /\ e.path = p
  BY DEF OfType
<1>2. e \in entries /\ e \in EntryType /\ EntryAt(p) = e
  BY <1>1, EntriesDo
<1>. QED
  BY <1>1, <1>2 DEF EntryType

\* A path is of one type, and what is above a path is a directory.
LEMMA TypesApart ==
    ASSUME GoodEntries(entries)
    PROVE  /\ OfType("directory") \cap OfType("file") = {}
           /\ OfType("directory") \cap OfType("symlink") = {}
           /\ OfType("file") \cap OfType("symlink") = {}
           /\ ImplicitDirectories \cap (OfType("file") \cup OfType("symlink")) = {}
           /\ Files \subseteq OfType("file") /\ Linked \subseteq OfType("file")
           /\ Files \cap Linked = {}
<1>1. \A s, r : \A p \in OfType(s) \cap OfType(r) : s = r
  BY OfTypeDoes
<1>2. ASSUME NEW q \in ImplicitDirectories, q \in OfType("file") \cup OfType("symlink")
      PROVE  FALSE
  <2>1. PICK e \in Selected : Above(q, e.path)
    BY DEF ImplicitDirectories
  <2>2. EntryAt(q) \in entries /\ EntryAt(q).path = q /\ EntryAt(q).type \in {"file", "symlink"}
    BY <1>2, OfTypeDoes
  <2>3. e \in entries
    BY EntriesDo
  <2>. QED
    BY <2>1, <2>2, <2>3 DEF GoodEntries
<1>3. /\ "directory" # "file" /\ "directory" # "symlink" /\ "file" # "symlink"
  OBVIOUS
<1>4. /\ OfType("directory") \cap OfType("file") = {}
      /\ OfType("directory") \cap OfType("symlink") = {}
      /\ OfType("file") \cap OfType("symlink") = {}
  BY <1>1, <1>3
<1>. QED
  BY <1>2, <1>4 DEF Files, Linked

\* The directories above an entry are implied, and those above them too.
LEMMA ImpliedAbove ==
    ASSUME GoodEntries(entries), NEW q \in Paths
    PROVE  /\ \A type : \A p \in OfType(type) : Above(q, p) => q \in ImplicitDirectories
           /\ \A p \in ImplicitDirectories : Above(q, p) => q \in ImplicitDirectories
           /\ ImplicitDirectories \subseteq Paths
<1>1. ASSUME NEW type, NEW p \in OfType(type), Above(q, p)
      PROVE  q \in ImplicitDirectories
  BY <1>1 DEF OfType, ImplicitDirectories
<1>2. ASSUME NEW p \in ImplicitDirectories, Above(q, p) PROVE q \in ImplicitDirectories
  <2>1. PICK e \in Selected : p \in Paths /\ Above(p, e.path)
    BY <1>2 DEF ImplicitDirectories
  <2>2. e.path \in Paths
    BY EntriesDo DEF EntryType
  <2>3. Above(q, e.path)
    BY <1>2, <2>1, <2>2, AboveOrder
  <2>. QED
    BY <2>3 DEF ImplicitDirectories
<1>. QED
  BY <1>1, <1>2 DEF ImplicitDirectories

\* A set of entries that is not empty has a first.
LEMMA FirstExists ==
    ASSUME NEW group, group # {}, \A f \in group : f.index \in Nat
    PROVE  \E f \in group : \A g \in group : f.index <= g.index
<1> DEFINE T == {0 .. f.index : f \in group}
<1>1. T # {} /\ \A x \in T : IsFiniteSet(x)
  BY FS_Interval
<1>2. PICK x \in T : \A y \in T : y \subseteq x => y = x
  <2> HIDE DEF T
  <2>. QED
    BY <1>1, MinimalFinite
<1>3. PICK f \in group : x = 0 .. f.index
  OBVIOUS
<1>4. ASSUME NEW g \in group, ~ (f.index <= g.index) PROVE FALSE
  <2>1. 0 .. g.index \in T /\ 0 .. g.index \subseteq x
    BY <1>3, <1>4
  <2>2. f.index \in x /\ f.index \notin 0 .. g.index
    BY <1>3, <1>4
  <2>. QED
    BY <1>2, <2>1, <2>2
<1>. QED
  BY <1>4

\* Every file of a link group leads to the same first file of it.
LEMMA FirstOfDoes ==
    ASSUME GoodEntries(entries), NEW p \in OfType("file")
    PROVE  /\ FirstOf(p) \in Files /\ FirstOf(FirstOf(p)) = FirstOf(p)
           /\ EntryAt(FirstOf(p)).group = EntryAt(p).group
           /\ EntryAt(p).group = 0 => FirstOf(p) = p
           /\ \A q \in OfType("file") :
                  EntryAt(q).group = EntryAt(p).group /\ EntryAt(p).group # 0 =>
                      FirstOf(q) = FirstOf(p)
<1> DEFINE Group(e) == {f \in Selected : f.type = "file" /\ f.group = e.group}
           First(e) == CHOOSE f \in Group(e) : \A g \in Group(e) : f.index <= g.index
<1>1. \A q : FirstOf(q) = IF EntryAt(q).group = 0 THEN q ELSE First(EntryAt(q)).path
  BY DEF FirstOf
<1>2. /\ EntryAt(p) \in Selected /\ EntryAt(p).type = "file" /\ EntryAt(p).path = p
  BY OfTypeDoes
<1>3. \A q \in OfType("file") : EntryAt(q).group = EntryAt(p).group => First(EntryAt(q)) = First(EntryAt(p))
  OBVIOUS
<1>4. CASE EntryAt(p).group = 0
  <2>1. FirstOf(p) = p
    BY <1>1, <1>4
  <2>. QED
    BY <1>4, <2>1 DEF Files, Linked
<1>5. CASE EntryAt(p).group # 0
  <2> DEFINE G == Group(EntryAt(p))
             f == First(EntryAt(p))
  <2>1. EntryAt(p) \in G /\ \A g \in G : g.index \in Nat
    BY <1>2, EntriesDo DEF EntryType
  <2>2. f \in G
    <3>1. \E g \in G : \A h \in G : g.index <= h.index
      <4> HIDE DEF G
      <4>. QED
        BY <2>1, FirstExists
    <3>. QED
      BY <3>1
  <2>3. FirstOf(p) = f.path
    BY <1>1, <1>5
  <2>4. f \in Selected /\ f \in entries /\ f.type = "file" /\ f.group = EntryAt(p).group
    BY <2>2, EntriesDo
  <2>5. EntryAt(f.path) = f /\ f.path \in OfType("file")
    BY <2>4, EntriesDo DEF OfType
  <2>6. FirstOf(f.path) = f.path
    BY <1>1, <1>3, <1>5, <2>4, <2>5
  <2> HIDE DEF f, G
  <2>7. f.path \in Files
    BY <2>5, <2>6 DEF Files, Linked
  <2>8. \A q \in OfType("file") :
            EntryAt(q).group = EntryAt(p).group => FirstOf(q) = FirstOf(p)
    BY <1>1, <1>3, <1>5
  <2>. QED
    BY <1>5, <2>3, <2>4, <2>5, <2>6, <2>7, <2>8
<1>. QED
  BY <1>4, <1>5

\* Files of the same first are the same, or of the same link group.
LEMMA FirstOfSame ==
    ASSUME GoodEntries(entries), NEW p \in OfType("file"), NEW q \in OfType("file")
    PROVE  FirstOf(p) = FirstOf(q) <=>
               p = q \/ (EntryAt(p).group = EntryAt(q).group /\ EntryAt(p).group # 0)
  BY FirstOfDoes

\* A file is its own first, a link is not.
LEMMA FilesAndLinks ==
    /\ \A p \in OfType("file") : p \in Files \/ p \in Linked
    /\ \A p \in Files : FirstOf(p) = p
    /\ \A p \in Linked : FirstOf(p) # p
  BY DEF Files, Linked

\* select_paths selects what is wanted.
LEMMA WantedSelected ==
    ASSUME GoodEntries(entries), include \subseteq Seq(Names),
           \A i \in include : \E e \in entries : IsPrefix(i, e.path),
           NEW e \in entries, Wanted(e)
    PROVE  e \in Selected
<1> DEFINE matched == {f.path : f \in {f \in entries :
                           include = {} \/ \E i \in include : IsPrefix(i, f.path)}}
<1>1. \A p : p \in SelectPaths(entries, include) <=>
          \/ p \in matched
          \/ \E f \in entries : f.path = p /\ \E q \in matched : Above(p, q)
  BY DEF SelectPaths
<1>2. CASE include = {} \/ \E i \in include : IsPrefix(i, e.path)
  BY <1>1, <1>2 DEF Selected
<1>3. ASSUME NEW i \in include, Above(e.path, i) PROVE e.path \in SelectPaths(entries, include)
  <2>1. PICK f \in entries : IsPrefix(i, f.path)
    OBVIOUS
  <2>2. e.path \in Paths /\ f.path \in Paths /\ i \in Seq(Names)
    BY EntriesDo DEF EntryType
  <2>3. i # <<>>
    <3>1. e.path \in Seq(Names) /\ Len(e.path) \in Nat /\ Len(e.path) >= 1 /\ Len(e.path) <= Len(i)
      BY <1>3, <2>2, PathShape DEF Above, IsStrictPrefix, IsPrefix
    <3>2. Len(<<>>) = 0
      OBVIOUS
    <3>. QED
      BY <3>1, <3>2
  <2>4. PICK k \in 1 .. Len(f.path) : i = SubSeq(f.path, 1, k)
    BY <2>1, <2>2, <2>3, AbovePrefix
  <2>5. i \in Paths
    BY <2>2, <2>4, PathShape
  <2>6. Above(e.path, f.path)
    BY <1>3, <2>1, <2>2, <2>5, AboveOrder
  <2>7. f.path \in matched
    BY <2>1
  <2>. QED
    BY <1>1, <2>6, <2>7
<1>. QED
  BY <1>2, <1>3 DEF Wanted, Selected

-----------------------------------------------------------------------------
(***************************************************************************)
(* The invariant is kept by every step.                                    *)
(***************************************************************************)

\* Which parts are over, part by part.
LEMMA PartsDo ==
    /\ stage = "implied" =>
           \A q : /\ Implied(q) <=> q \notin todo
                  /\ ~ Recorded(q) /\ ~ Created(q) /\ ~ LinkedUp(q)
                  /\ ~ FileStamped(q) /\ ~ DirStamped(q)
    /\ stage = "recorded" =>
           \A q : /\ Implied(q)
                  /\ Recorded(q) <=> q \notin todo
                  /\ ~ Created(q) /\ ~ LinkedUp(q) /\ ~ FileStamped(q) /\ ~ DirStamped(q)
    /\ stage = "files" =>
           \A q : /\ Implied(q) /\ Recorded(q)
                  /\ Created(q) <=> q \notin todo
                  /\ ~ LinkedUp(q) /\ ~ FileStamped(q) /\ ~ DirStamped(q)
    /\ stage = "links" =>
           \A q : /\ Implied(q) /\ Recorded(q) /\ Created(q)
                  /\ LinkedUp(q) <=> q \notin todo
                  /\ ~ FileStamped(q) /\ ~ DirStamped(q)
    /\ stage = "stamp files" =>
           \A q : /\ Implied(q) /\ Recorded(q) /\ Created(q) /\ LinkedUp(q)
                  /\ FileStamped(q) <=> q \notin todo
                  /\ ~ DirStamped(q)
    /\ stage = "stamp directories" =>
           \A q : /\ Implied(q) /\ Recorded(q) /\ Created(q) /\ LinkedUp(q) /\ FileStamped(q)
                  /\ DirStamped(q) <=> q \notin todo
    /\ stage = "returned" =>
           \A q : /\ Implied(q) /\ Recorded(q) /\ Created(q) /\ LinkedUp(q)
                  /\ FileStamped(q) /\ DirStamped(q)
    /\ stage = "raised" =>
           \A q : /\ ~ Implied(q) /\ ~ Recorded(q) /\ ~ Created(q) /\ ~ LinkedUp(q)
                  /\ ~ FileStamped(q) /\ ~ DirStamped(q)
  BY DEF Implied, Recorded, Created, LinkedUp, FileStamped, DirStamped,
         PastImplied, PastRecorded, PastFiles, PastLinks

LEMMA PartsDoNext ==
    /\ stage' = "implied" =>
           \A q : /\ Implied(q)' <=> q \notin todo'
                  /\ ~ Recorded(q)' /\ ~ Created(q)' /\ ~ LinkedUp(q)'
                  /\ ~ FileStamped(q)' /\ ~ DirStamped(q)'
    /\ stage' = "recorded" =>
           \A q : /\ Implied(q)'
                  /\ Recorded(q)' <=> q \notin todo'
                  /\ ~ Created(q)' /\ ~ LinkedUp(q)' /\ ~ FileStamped(q)' /\ ~ DirStamped(q)'
    /\ stage' = "files" =>
           \A q : /\ Implied(q)' /\ Recorded(q)'
                  /\ Created(q)' <=> q \notin todo'
                  /\ ~ LinkedUp(q)' /\ ~ FileStamped(q)' /\ ~ DirStamped(q)'
    /\ stage' = "links" =>
           \A q : /\ Implied(q)' /\ Recorded(q)' /\ Created(q)'
                  /\ LinkedUp(q)' <=> q \notin todo'
                  /\ ~ FileStamped(q)' /\ ~ DirStamped(q)'
    /\ stage' = "stamp files" =>
           \A q : /\ Implied(q)' /\ Recorded(q)' /\ Created(q)' /\ LinkedUp(q)'
                  /\ FileStamped(q)' <=> q \notin todo'
                  /\ ~ DirStamped(q)'
    /\ stage' = "stamp directories" =>
           \A q : /\ Implied(q)' /\ Recorded(q)' /\ Created(q)' /\ LinkedUp(q)' /\ FileStamped(q)'
                  /\ DirStamped(q)' <=> q \notin todo'
    /\ stage' = "returned" =>
           \A q : /\ Implied(q)' /\ Recorded(q)' /\ Created(q)' /\ LinkedUp(q)'
                  /\ FileStamped(q)' /\ DirStamped(q)'
    /\ stage' = "raised" =>
           \A q : /\ ~ Implied(q)' /\ ~ Recorded(q)' /\ ~ Created(q)' /\ ~ LinkedUp(q)'
                  /\ ~ FileStamped(q)' /\ ~ DirStamped(q)'
  BY DEF Implied, Recorded, Created, LinkedUp, FileStamped, DirStamped,
         PastImplied, PastRecorded, PastFiles, PastLinks

\* Between two pulls what the manifest asks for does not change.
LEMMA SameManifest ==
    ASSUME UNCHANGED <<entries, include>>
    PROVE  /\ \A type : OfType(type)' = OfType(type)
           /\ \A p : EntryAt(p)' = EntryAt(p) /\ FirstOf(p)' = FirstOf(p)
           /\ Selected' = Selected /\ ImplicitDirectories' = ImplicitDirectories
           /\ Files' = Files /\ Linked' = Linked
<1>1. Selected' = Selected /\ \A p : EntryAt(p)' = EntryAt(p)
  BY DEF Selected, EntryAt
<1>2. \A type : OfType(type)' = OfType(type)
  BY <1>1 DEF OfType
<1>3. ASSUME NEW p PROVE FirstOf(p)' = FirstOf(p)
  <2> DEFINE group(e) == {f \in Selected : f.type = "file" /\ f.group = e.group}
  <2>1. group(EntryAt(p))' = group(EntryAt(p))
    BY <1>1
  <2>2. FirstOf(p) = IF EntryAt(p).group = 0 THEN p
                     ELSE (CHOOSE f \in group(EntryAt(p)) :
                               \A g \in group(EntryAt(p)) : f.index <= g.index).path
    BY DEF FirstOf
  <2>3. FirstOf(p)' = IF EntryAt(p)'.group = 0 THEN p
                      ELSE (CHOOSE f \in group(EntryAt(p))' :
                                \A g \in group(EntryAt(p))' : f.index <= g.index).path
    BY DEF FirstOf
  <2> HIDE DEF group
  <2>. QED
    BY <1>1, <2>1, <2>2, <2>3
<1>4. ImplicitDirectories' = ImplicitDirectories
  BY <1>1 DEF ImplicitDirectories
<1>5. Linked' = Linked
  BY <1>2, <1>3 DEF Linked
<1>. QED
  BY <1>1, <1>2, <1>3, <1>4, <1>5 DEF Files

\* A call that failed leaves a file system, and nothing else is asked for.
LEMMA RaisedInv ==
    ASSUME IInv, FileSystem(tree'), ~ tree'.outside, tree'.fault # "permission",
           stage' = "raised", todo' \subseteq Paths, unwritten' \subseteq Paths,
           UNCHANGED <<entries, include, pulls>>
    PROVE  IInv'
<1>1. TypeOK' /\ NothingOutside' /\ NoPermissionNeeded'
  BY DEF IInv, TypeOK, Stages, NothingOutside, NoPermissionNeeded
<1>2. PullInv' /\ TodoInv'
  BY DEF IInv, PullInv, TodoInv
<1>3. RunInv'
  BY PartsDoNext DEF RunInv, DirsInv, SymlinksInv, FilesInv
<1>. QED
  BY <1>1, <1>2, <1>3 DEF IInv

\* A call that succeeded goes on with the part.
LEMMA TreatedInv ==
    ASSUME IInv, FileSystem(tree'), ~ tree'.outside, tree'.fault = "none",
           stage' = stage, todo' \subseteq todo, unwritten' \subseteq Paths,
           unwritten' = unwritten \/ (stage = "files" /\ unwritten' \subseteq Files \ todo'),
           UNCHANGED <<entries, include, pulls>>, RunInv'
    PROVE  IInv'
<1>1. TypeOK' /\ NothingOutside' /\ NoPermissionNeeded'
  BY DEF IInv, TypeOK, NothingOutside, NoPermissionNeeded
<1>2. PullInv'
  BY DEF IInv, PullInv
<1>3. TodoInv'
  <2>1. /\ \A type : OfType(type)' = OfType(type)
        /\ ImplicitDirectories' = ImplicitDirectories /\ Files' = Files /\ Linked' = Linked
    BY SameManifest
  <2>. QED
    BY <2>1 DEF IInv, TodoInv
<1>. QED
  BY <1>1, <1>2, <1>3 DEF IInv

\* While the implied directories are open, entries can be made and removed.
LEMMA ClearEntries ==
    ASSUME GoodEntries(entries), \A q \in ImplicitDirectories : OpenDir(tree, q),
           NEW type, NEW p \in OfType(type)
    PROVE  Clear(tree, p)
  BY ImpliedAbove DEF Clear

LEMMA MakeImpliedInv ==
    ASSUME IInv, MakeImplied
    PROVE  IInv'
<1>1. PICK p \in todo : Outcome(EnsureDir(tree, p), p)
  BY DEF MakeImplied
<1>2. /\ stage = "implied" /\ UNCHANGED <<unwritten, entries, include, pulls>>
      /\ tree' = EnsureDir(tree, p)
  BY <1>1 DEF MakeImplied, Outcome
<1>3. /\ FileSystem(tree) /\ ~ tree.outside /\ tree.fault = "none" /\ todo \subseteq Paths
      /\ unwritten \subseteq Paths
  BY <1>2 DEF IInv, TypeOK, NothingOutside, PullInv
<1>4. p \in Paths
  BY <1>1, <1>3
<1>5. /\ FileSystem(tree') /\ ~ tree'.outside
      /\ tree'.fault \in {"none", "in the way"}
      /\ tree'.fault = "none" => OpenDir(tree', p)
      /\ \A q \in Paths : OpenDir(tree, q) => OpenDir(tree', q)
  <2>1. /\ FileSystem(tree') /\ tree'.outside = tree.outside
        /\ tree'.fault \in {"none", "in the way"}
        /\ tree'.fault = "none" => OpenDir(tree', p)
        /\ \A q \in Paths : OpenDir(tree, q) => OpenDir(tree', q)
    BY <1>2, <1>3, <1>4, EnsureDirDoes
  <2>. QED
    BY <1>3, <2>1
<1>6. CASE tree'.fault = "none"
  <2>1. stage' = "implied" /\ todo' = todo \ {p}
    BY <1>1, <1>2, <1>6 DEF Outcome
  <2>2. ASSUME NEW q \in ImplicitDirectories, q \notin todo' PROVE OpenDir(tree', q)
    <3>1. q \in Paths
      BY DEF ImplicitDirectories
    <3>2. CASE q = p
      BY <1>5, <1>6, <3>2
    <3>3. CASE q # p
      <4>1. q \notin todo
        BY <2>1, <2>2, <3>3
      <4>2. OpenDir(tree, q)
        BY <1>2, <4>1, PartsDo DEF IInv, RunInv, DirsInv
      <4>. QED
        BY <1>5, <3>1, <4>2
    <3>. QED
      BY <3>2, <3>3
  <2>3. RunInv'
    <3>1. ImplicitDirectories' = ImplicitDirectories
      BY <1>2, SameManifest
    <3>2. DirsInv'
      BY <2>1, <2>2, <3>1, PartsDoNext DEF DirsInv
    <3>3. SymlinksInv' /\ FilesInv'
      BY <2>1, PartsDoNext DEF SymlinksInv, FilesInv
    <3>. QED
      BY <3>2, <3>3 DEF RunInv
  <2>. QED
    BY <1>2, <1>3, <1>5, <1>6, <2>1, <2>3, TreatedInv
<1>7. CASE tree'.fault # "none"
  <2>1. stage' = "raised" /\ todo' = todo
    BY <1>1, <1>2, <1>7 DEF Outcome
  <2>. QED
    BY <1>2, <1>3, <1>5, <2>1, RaisedInv
<1>. QED
  BY <1>6, <1>7

LEMMA MakeRecordedInv ==
    ASSUME IInv, MakeRecorded
    PROVE  IInv'
<1>1. PICK p \in todo : Outcome(IF p \in OfType("directory") THEN EnsureDir(tree, p)
                                ELSE CreateSymlink(tree, p, EntryAt(p).data), p)
  BY DEF MakeRecorded
<1>2. /\ stage = "recorded" /\ UNCHANGED <<unwritten, entries, include, pulls>>
      /\ tree' = IF p \in OfType("directory") THEN EnsureDir(tree, p)
                 ELSE CreateSymlink(tree, p, EntryAt(p).data)
  BY <1>1 DEF MakeRecorded, Outcome
<1>3. /\ FileSystem(tree) /\ ~ tree.outside /\ tree.fault = "none" /\ todo \subseteq Paths
      /\ unwritten \subseteq Paths /\ GoodEntries(entries)
      /\ todo \subseteq OfType("directory") \cup OfType("symlink")
  BY <1>2 DEF IInv, TypeOK, NothingOutside, PullInv, TodoInv
<1>4. p \in Paths /\ p \in OfType("directory") \cup OfType("symlink")
  BY <1>1, <1>3
<1>5. /\ \A q \in ImplicitDirectories : OpenDir(tree, q)
      /\ \A q \in OfType("directory") : q \notin todo => OpenDir(tree, q)
      /\ \A q \in OfType("symlink") :
             q \notin todo => Kind(tree, q) = "symlink" /\ InodeAt(tree, q).data = EntryAt(q).data
  BY <1>2, PartsDo DEF IInv, RunInv, DirsInv, SymlinksInv
\* What the call did, for the entries that were made before and for p.
<1>6. /\ FileSystem(tree') /\ tree'.outside = tree.outside
      /\ tree'.fault \in {"none", "in the way"}
      /\ \A q \in ImplicitDirectories \cup OfType("directory") :
             OpenDir(tree, q) => OpenDir(tree', q)
      /\ \A q \in OfType("symlink") : q # p => Same(tree, tree', q)
      /\ tree'.fault = "none" /\ p \in OfType("directory") => OpenDir(tree', p)
      /\ tree'.fault = "none" /\ p \in OfType("symlink") =>
             Kind(tree', p) = "symlink" /\ InodeAt(tree', p).data = EntryAt(p).data
  <2>1. CASE p \in OfType("directory")
    <3>1. tree' = EnsureDir(tree, p)
      BY <1>2, <2>1
    <3>2. /\ FileSystem(tree') /\ tree'.outside = tree.outside
          /\ tree'.fault \in {"none", "in the way"}
          /\ \A q \in Paths : ~ IsPrefix(q, p) => Same(tree, tree', q)
          /\ tree'.fault = "none" => OpenDir(tree', p)
          /\ \A q \in Paths : OpenDir(tree, q) => OpenDir(tree', q)
      BY <1>3, <1>4, <3>1, EnsureDirDoes
    <3>3. ASSUME NEW q \in OfType("symlink") PROVE q \in Paths /\ ~ IsPrefix(q, p)
      <4>1. q \in Paths /\ q # p /\ q \notin ImplicitDirectories
        BY <1>3, <2>1, <3>3, OfTypeDoes, TypesApart
      <4>2. ~ Above(q, p)
        BY <1>3, <2>1, <4>1, ImpliedAbove
      <4>. QED
        BY <1>4, <4>1, <4>2, AboveOrder
    <3>4. \A q \in ImplicitDirectories \cup OfType("directory") : q \in Paths
      BY <1>3, OfTypeDoes DEF ImplicitDirectories
    <3>. QED
      BY <1>3, <2>1, <3>2, <3>3, <3>4, TypesApart
  <2>2. CASE p \in OfType("symlink")
    <3>1. p \notin OfType("directory") /\ p \notin ImplicitDirectories
      BY <1>3, <2>2, TypesApart
    <3>2. EntryAt(p).data \in Contents
      BY <1>3, <2>2, OfTypeDoes DEF EntryType
    <3>3. tree' = CreateSymlink(tree, p, EntryAt(p).data)
      BY <1>2, <3>1
    <3>4. Clear(tree, p)
      BY <1>3, <1>5, <2>2, ClearEntries
    <3>5. /\ Kept(tree, tree', p)
          /\ tree'.fault = "none" =>
                 Kind(tree', p) = "symlink" /\ InodeAt(tree', p).data = EntryAt(p).data
      BY <1>3, <1>4, <3>2, <3>3, <3>4, CreateSymlinkDoes
    <3>6. \A q \in ImplicitDirectories \cup OfType("directory") : q \in Paths /\ q # p
      BY <1>3, <3>1, OfTypeDoes DEF ImplicitDirectories
    <3>7. \A q \in OfType("symlink") : q \in Paths
      BY <1>3, OfTypeDoes
    <3>8. \A q \in Paths \ {p} : OpenDir(tree, q) => OpenDir(tree', q)
      BY <3>5, SameKind DEF Kept
    <3>. QED
      BY <3>1, <3>5, <3>6, <3>7, <3>8 DEF Kept
  <2>. QED
    BY <1>4, <2>1, <2>2
<1>7. CASE tree'.fault = "none"
  <2>1. stage' = "recorded" /\ todo' = todo \ {p}
    BY <1>1, <1>2, <1>7 DEF Outcome
  <2>2. /\ \A type : OfType(type)' = OfType(type)
        /\ \A q : EntryAt(q)' = EntryAt(q)
        /\ ImplicitDirectories' = ImplicitDirectories
    BY <1>2, SameManifest
  <2>3. \A q \in ImplicitDirectories : OpenDir(tree', q)
    BY <1>5, <1>6
  <2>4. \A q \in OfType("directory") : q \notin todo' => OpenDir(tree', q)
    BY <1>5, <1>6, <1>7, <2>1
  <2>5. ASSUME NEW q \in OfType("symlink"), q \notin todo'
        PROVE  Kind(tree', q) = "symlink" /\ InodeAt(tree', q).data = EntryAt(q).data
    <3>1. CASE q = p
      BY <1>6, <1>7, <2>5, <3>1
    <3>2. CASE q # p
      <4>1. /\ Kind(tree, q) = "symlink" /\ InodeAt(tree, q).data = EntryAt(q).data
            /\ Same(tree, tree', q) /\ q \in Paths
        BY <1>3, <1>5, <1>6, <2>1, <2>5, <3>2, OfTypeDoes
      <4>2. tree.name[q] # Absent
        BY <4>1, KindAt
      <4>. QED
        BY <4>1, <4>2, SameKind DEF Same
    <3>. QED
      BY <3>1, <3>2
  <2>6. DirsInv'
    BY <2>1, <2>2, <2>3, <2>4, PartsDoNext DEF DirsInv
  <2>7. SymlinksInv'
    BY <2>1, <2>2, <2>5, PartsDoNext DEF SymlinksInv
  <2>8. FilesInv'
    BY <2>1, PartsDoNext DEF FilesInv
  <2>9. RunInv'
    BY <2>6, <2>7, <2>8 DEF RunInv
  <2>. QED
    BY <1>2, <1>3, <1>6, <1>7, <2>1, <2>9, TreatedInv
<1>8. CASE tree'.fault # "none"
  <2>1. stage' = "raised" /\ todo' = todo
    BY <1>1, <1>2, <1>8 DEF Outcome
  <2>. QED
    BY <1>2, <1>3, <1>6, <2>1, RaisedInv
<1>. QED
  BY <1>7, <1>8

\* What a step left alone is as it was.
LEMMA SameThere ==
    ASSUME NEW t, NEW u, NEW q \in Paths, Same(t, u, q), Kind(t, q) # "absent"
    PROVE  /\ t.name[q] # Absent /\ u.name[q] = t.name[q] /\ Kind(u, q) = Kind(t, q)
           /\ InodeAt(u, q).data = InodeAt(t, q).data
           /\ InodeAt(u, q).mode = InodeAt(t, q).mode
  BY KindAt DEF Same

\* A step that leaves directories and symlinks alone keeps what is said of them.
LEMMA OthersKept ==
    ASSUME GoodEntries(entries), NEW t, NEW u,
           \A q \in ImplicitDirectories \cup OfType("directory") \cup OfType("symlink") :
               Same(t, u, q)
    PROVE  /\ \A q \in ImplicitDirectories \cup OfType("directory") :
                  OpenDir(t, q) => OpenDir(u, q)
           /\ \A q \in OfType("symlink") :
                  Kind(t, q) = "symlink" /\ InodeAt(t, q).data = EntryAt(q).data =>
                      Kind(u, q) = "symlink" /\ InodeAt(u, q).data = EntryAt(q).data
<1>1. \A q \in ImplicitDirectories \cup OfType("directory") \cup OfType("symlink") : q \in Paths
  BY OfTypeDoes DEF ImplicitDirectories
<1>2. \A q \in ImplicitDirectories \cup OfType("directory") : OpenDir(t, q) => OpenDir(u, q)
  BY <1>1, SameKind
<1>3. ASSUME NEW q \in OfType("symlink"), Kind(t, q) = "symlink"
      PROVE  Kind(u, q) = "symlink" /\ InodeAt(u, q).data = InodeAt(t, q).data
  BY <1>1, <1>3, SameThere
<1>. QED
  BY <1>2, <1>3

\* Between the recorded directories and their stamping.
LEMMA OthersInv ==
    ASSUME IInv, UNCHANGED <<entries, include>>,
           stage \in {"files", "links", "stamp files"}, stage' = stage,
           \A q \in ImplicitDirectories \cup OfType("directory") \cup OfType("symlink") :
               Same(tree, tree', q)
    PROVE  DirsInv' /\ SymlinksInv'
<1>1. /\ \A q \in ImplicitDirectories \cup OfType("directory") : OpenDir(tree, q)
      /\ \A q \in OfType("symlink") :
             Kind(tree, q) = "symlink" /\ InodeAt(tree, q).data = EntryAt(q).data
  BY PartsDo DEF IInv, RunInv, DirsInv, SymlinksInv
<1>2. /\ \A q \in ImplicitDirectories \cup OfType("directory") : OpenDir(tree', q)
      /\ \A q \in OfType("symlink") :
             Kind(tree', q) = "symlink" /\ InodeAt(tree', q).data = EntryAt(q).data
  BY <1>1, OthersKept DEF IInv, PullInv
<1>3. /\ \A type : OfType(type)' = OfType(type)
      /\ \A q : EntryAt(q)' = EntryAt(q)
      /\ ImplicitDirectories' = ImplicitDirectories
  BY SameManifest
<1>4. DirsInv'
  BY <1>2, <1>3, PartsDoNext DEF DirsInv
<1>5. SymlinksInv'
  BY <1>2, <1>3, PartsDoNext DEF SymlinksInv
<1>. QED
  BY <1>4, <1>5

LEMMA CreateInv ==
    ASSUME IInv, Create
    PROVE  IInv'
<1>1. PICK p \in todo : Outcome(CreateFile(tree, p), p) /\ unwritten' = unwritten \cup {p}
  BY DEF Create
<1>2. stage = "files" /\ UNCHANGED <<entries, include, pulls>> /\ tree' = CreateFile(tree, p)
  BY <1>1 DEF Create, Outcome
<1>3. /\ FileSystem(tree) /\ ~ tree.outside /\ tree.fault = "none" /\ todo \subseteq Paths
      /\ unwritten \subseteq Paths /\ GoodEntries(entries)
      /\ todo \subseteq Files /\ unwritten \subseteq Files \ todo
  BY <1>2 DEF IInv, TypeOK, NothingOutside, PullInv, TodoInv
<1>4. p \in Paths /\ p \in Files /\ p \in OfType("file")
  BY <1>1, <1>3, TypesApart
<1>5. \A q \in ImplicitDirectories : OpenDir(tree, q)
  BY <1>2, PartsDo DEF IInv, RunInv, DirsInv
<1>6. Clear(tree, p)
  BY <1>3, <1>4, <1>5, ClearEntries
<1>7. /\ Kept(tree, tree', p)
      /\ tree'.fault = "none" =>
             Kind(tree', p) = "file" /\ \A q \in Paths \ {p} : tree'.name[q] # tree'.name[p]
  BY <1>2, <1>3, <1>4, <1>6, CreateFileDoes
<1>8. CASE tree'.fault = "none"
  <2>1. stage' = "files" /\ todo' = todo \ {p}
    BY <1>1, <1>2, <1>8 DEF Outcome
  <2>2. /\ \A type : OfType(type)' = OfType(type)
        /\ \A q : EntryAt(q)' = EntryAt(q)
        /\ Files' = Files /\ Linked' = Linked
    BY <1>2, SameManifest
  <2>3. \A q \in ImplicitDirectories \cup OfType("directory") \cup OfType("symlink") :
            Same(tree, tree', q)
    <3>1. \A q \in ImplicitDirectories \cup OfType("directory") \cup OfType("symlink") :
              q \in Paths \ {p}
      BY <1>3, <1>4, OfTypeDoes, TypesApart DEF ImplicitDirectories
    <3>. QED
      BY <1>7, <3>1 DEF Kept
  <2>4. DirsInv' /\ SymlinksInv'
    BY <1>2, <2>1, <2>3, OthersInv
  <2>5. ASSUME NEW q \in Files, q \notin todo'
        PROVE  /\ Kind(tree', q) = "file"
               /\ q \notin unwritten' => InodeAt(tree', q).data = EntryAt(q).data
               /\ \A r \in Paths \ {q} : tree'.name[r] # tree'.name[q]
    <3>1. CASE q = p
      BY <1>1, <1>7, <1>8, <3>1
    <3>2. CASE q # p
      <4>1. q \in Paths \ {p} /\ q \notin todo
        BY <1>3, <2>1, <2>5, <3>2, TypesApart, OfTypeDoes
      <4>2. /\ Kind(tree, q) = "file"
            /\ q \notin unwritten => InodeAt(tree, q).data = EntryAt(q).data
            /\ \A r \in Paths \ {q} : tree.name[r] # tree.name[q]
        BY <1>2, <2>5, <4>1, PartsDo DEF IInv, RunInv, FilesInv
      <4>3. /\ tree'.name[q] = tree.name[q] /\ Kind(tree', q) = "file"
            /\ InodeAt(tree', q).data = InodeAt(tree, q).data
        <5>1. Same(tree, tree', q) /\ Kind(tree, q) # "absent"
          BY <1>7, <4>1, <4>2 DEF Kept
        <5>. QED
          BY <4>1, <4>2, <5>1, SameThere
      <4>4. \A r \in Paths \ {q} : tree'.name[r] # tree'.name[q]
        BY <1>7, <1>8, <4>1, <4>2, <4>3 DEF Kept, Same
      <4>. QED
        BY <1>1, <4>2, <4>3, <4>4
    <3>. QED
      BY <3>1, <3>2
  <2>6. FilesInv'
    BY <2>1, <2>2, <2>5, PartsDoNext DEF FilesInv
  <2>7. RunInv'
    BY <2>4, <2>6 DEF RunInv
  <2>8. unwritten' \subseteq Paths /\ unwritten' \subseteq Files \ todo'
    BY <1>1, <1>3, <1>4, <2>1
  <2>. QED
    BY <1>2, <1>3, <1>7, <1>8, <2>1, <2>7, <2>8, TreatedInv DEF Kept
<1>9. CASE tree'.fault # "none"
  <2>1. stage' = "raised" /\ todo' = todo
    BY <1>1, <1>2, <1>9 DEF Outcome
  <2>. QED
    BY <1>1, <1>2, <1>3, <1>4, <1>7, <2>1, RaisedInv DEF Kept
<1>. QED
  BY <1>8, <1>9

LEMMA WriteInv ==
    ASSUME IInv, Write
    PROVE  IInv'
<1>1. PICK p \in unwritten : /\ tree' = WriteAt(tree, p, EntryAt(p).data)
                             /\ unwritten' = unwritten \ {p}
  BY DEF Write
<1>2. stage = "files" /\ UNCHANGED <<stage, todo, entries, include, pulls>>
  BY DEF Write
<1>3. /\ FileSystem(tree) /\ ~ tree.outside /\ tree.fault = "none"
      /\ unwritten \subseteq Paths /\ GoodEntries(entries)
      /\ unwritten \subseteq Files \ todo
  BY <1>2 DEF IInv, TypeOK, NothingOutside, PullInv, TodoInv
<1>4. p \in Paths /\ p \in Files /\ p \notin todo /\ p \in OfType("file")
  BY <1>1, <1>3, TypesApart
<1>5. /\ \A q \in Files : q \notin todo =>
             /\ Kind(tree, q) = "file"
             /\ q \notin unwritten => InodeAt(tree, q).data = EntryAt(q).data
             /\ \A r \in Paths \ {q} : tree.name[r] # tree.name[q]
  BY <1>2, PartsDo DEF IInv, RunInv, FilesInv
<1>6. EntryAt(p).data \in Contents
  BY <1>3, <1>4, OfTypeDoes DEF EntryType
<1>7. /\ FileSystem(tree') /\ tree'.fault = tree.fault /\ tree'.outside = tree.outside
      /\ tree'.name = tree.name /\ Kind(tree', p) = "file"
      /\ InodeAt(tree', p).data = EntryAt(p).data
      /\ \A q \in Paths : tree.name[q] # tree.name[p] => Same(tree, tree', q)
  <2>1. Kind(tree, p) = "file"
    BY <1>4, <1>5
  <2>. QED
    BY <1>1, <1>3, <1>4, <1>6, <2>1, WriteAtDoes
<1>8. \A q \in Paths \ {p} : Same(tree, tree', q)
  BY <1>4, <1>5, <1>7
<1>9. /\ \A type : OfType(type)' = OfType(type)
      /\ \A q : EntryAt(q)' = EntryAt(q)
      /\ Files' = Files /\ Linked' = Linked
  BY <1>2, SameManifest
<1>10. DirsInv' /\ SymlinksInv'
  <2>1. \A q \in ImplicitDirectories \cup OfType("directory") \cup OfType("symlink") :
            q \in Paths \ {p}
    BY <1>3, <1>4, OfTypeDoes, TypesApart DEF ImplicitDirectories
  <2>. QED
    BY <1>2, <1>8, <2>1, OthersInv
<1>11. ASSUME NEW q \in Files, q \notin todo'
       PROVE  /\ Kind(tree', q) = "file"
              /\ q \notin unwritten' => InodeAt(tree', q).data = EntryAt(q).data
              /\ \A r \in Paths \ {q} : tree'.name[r] # tree'.name[q]
  <2>1. q \in Paths /\ q \notin todo
    BY <1>2, <1>3, <1>11, TypesApart, OfTypeDoes
  <2>2. \A r \in Paths \ {q} : tree'.name[r] # tree'.name[q]
    BY <1>5, <1>7, <1>11, <2>1
  <2>3. CASE q = p
    BY <1>7, <2>2, <2>3
  <2>4. CASE q # p
    <3>1. Same(tree, tree', q) /\ Kind(tree, q) = "file" /\ Kind(tree, q) # "absent"
      BY <1>5, <1>8, <1>11, <2>1, <2>4
    <3>2. Kind(tree', q) = "file" /\ InodeAt(tree', q).data = InodeAt(tree, q).data
      BY <2>1, <3>1, SameThere
    <3>3. q \notin unwritten' => InodeAt(tree, q).data = EntryAt(q).data
      BY <1>1, <1>5, <1>11, <2>1, <2>4
    <3>. QED
      BY <2>2, <3>2, <3>3
  <2>. QED
    BY <2>3, <2>4
<1>12. FilesInv'
  BY <1>2, <1>9, <1>11, PartsDoNext DEF FilesInv
<1>13. RunInv'
  BY <1>10, <1>12 DEF RunInv
<1>14. unwritten' \subseteq Paths /\ unwritten' \subseteq Files \ todo' /\ todo' = todo
  BY <1>1, <1>2, <1>3
<1>. QED
  BY <1>2, <1>3, <1>7, <1>13, <1>14, TreatedInv

LEMMA MakeLinksInv ==
    ASSUME IInv, MakeLinks
    PROVE  IInv'
<1>1. PICK p \in todo : Outcome(CreateHardlink(tree, p, FirstOf(p)), p)
  BY DEF MakeLinks
<1>2. /\ stage = "links" /\ UNCHANGED <<unwritten, entries, include, pulls>>
      /\ tree' = CreateHardlink(tree, p, FirstOf(p))
  BY <1>1 DEF MakeLinks, Outcome
<1>3. /\ FileSystem(tree) /\ ~ tree.outside /\ tree.fault = "none" /\ todo \subseteq Paths
      /\ unwritten \subseteq Paths /\ GoodEntries(entries)
      /\ todo \subseteq Linked
  BY <1>2 DEF IInv, TypeOK, NothingOutside, PullInv, TodoInv
<1>4. p \in Paths /\ p \in Linked /\ p \in OfType("file") /\ p \notin Files
  BY <1>1, <1>3, TypesApart
<1>5. \A q \in ImplicitDirectories : OpenDir(tree, q)
  BY <1>2, PartsDo DEF IInv, RunInv, DirsInv
<1>6. /\ \A q \in Files :
             /\ Kind(tree, q) = "file"
             /\ q \notin unwritten => InodeAt(tree, q).data = EntryAt(q).data
             /\ \A r \in Paths \ {q} :
                    tree.name[r] = tree.name[q] =>
                        r \in Linked /\ FirstOf(r) = q /\ r \notin todo
      /\ \A q \in Linked : q \notin todo => tree.name[q] = tree.name[FirstOf(q)]
  BY <1>2, PartsDo DEF IInv, RunInv, FilesInv
<1>7. Clear(tree, p)
  BY <1>3, <1>4, <1>5, ClearEntries
<1>8. \A q \in Linked : FirstOf(q) \in Files /\ FirstOf(q) \in Paths \ {p}
  BY <1>3, <1>4, FirstOfDoes, TypesApart, OfTypeDoes
<1>9. /\ Kept(tree, tree', p)
      /\ tree'.fault = "none" => tree'.name[p] = tree.name[FirstOf(p)]
  <2>1. FirstOf(p) \in Paths /\ FirstOf(p) # p /\ Kind(tree, FirstOf(p)) = "file"
    BY <1>4, <1>6, <1>8
  <2>. QED
    BY <1>2, <1>3, <1>4, <1>7, <2>1, CreateHardlinkDoes
<1>10. CASE tree'.fault = "none"
  <2>1. stage' = "links" /\ todo' = todo \ {p}
    BY <1>1, <1>2, <1>10 DEF Outcome
  <2>2. /\ \A type : OfType(type)' = OfType(type)
        /\ \A q : EntryAt(q)' = EntryAt(q) /\ FirstOf(q)' = FirstOf(q)
        /\ Files' = Files /\ Linked' = Linked
    BY <1>2, SameManifest
  <2>3. DirsInv' /\ SymlinksInv'
    <3>1. \A q \in ImplicitDirectories \cup OfType("directory") \cup OfType("symlink") :
              q \in Paths \ {p}
      BY <1>3, <1>4, OfTypeDoes, TypesApart DEF ImplicitDirectories
    <3>2. \A q \in ImplicitDirectories \cup OfType("directory") \cup OfType("symlink") :
              Same(tree, tree', q)
      BY <1>9, <3>1 DEF Kept
    <3>. QED
      BY <1>2, <2>1, <3>2, OthersInv
  <2>4. \A q \in Paths \ {p} : tree'.name[q] = tree.name[q]
    BY <1>9 DEF Kept, Same
  <2>5. ASSUME NEW q \in Files
        PROVE  /\ Kind(tree', q) = "file"
               /\ q \notin unwritten => InodeAt(tree', q).data = EntryAt(q).data
    <3>1. q \in Paths \ {p}
      BY <1>3, <1>4, TypesApart, OfTypeDoes
    <3>2. Same(tree, tree', q) /\ Kind(tree, q) # "absent"
      BY <1>6, <1>9, <3>1 DEF Kept
    <3>3. Kind(tree', q) = Kind(tree, q) /\ InodeAt(tree', q).data = InodeAt(tree, q).data
      BY <3>1, <3>2, SameThere
    <3>. QED
      BY <1>6, <3>3
  <2>6. ASSUME NEW q \in Files, NEW r \in Paths \ {q}, tree'.name[r] = tree'.name[q]
        PROVE  r \in Linked /\ FirstOf(r) = q /\ r \notin todo'
    <3>1. q \in Paths \ {p} /\ tree'.name[q] = tree.name[q]
      BY <1>3, <1>4, <2>4, TypesApart, OfTypeDoes
    <3>2. CASE r = p
      <4>1. tree.name[FirstOf(p)] = tree.name[q]
        BY <1>9, <1>10, <2>6, <3>1, <3>2
      <4>2. FirstOf(p) = q
        <5>1. SUFFICES ASSUME FirstOf(p) # q PROVE FALSE
          OBVIOUS
        <5>2. FirstOf(p) \in Linked
          BY <1>4, <1>6, <1>8, <4>1, <5>1
        <5>. QED
          BY <1>3, <1>4, <1>8, <5>2, TypesApart
      <4>. QED
        BY <1>4, <2>1, <3>2, <4>2
    <3>3. CASE r # p
      BY <1>6, <2>1, <2>4, <2>6, <3>1, <3>3
    <3>. QED
      BY <3>2, <3>3
  <2>7. ASSUME NEW q \in Linked, q \notin todo'
        PROVE  tree'.name[q] = tree'.name[FirstOf(q)]
    <3>1. tree'.name[FirstOf(q)] = tree.name[FirstOf(q)]
      BY <1>8, <2>4
    <3>2. CASE q = p
      BY <1>9, <1>10, <3>1, <3>2
    <3>3. CASE q # p
      <4>1. q \in Paths \ {p} /\ q \notin todo
        BY <1>3, <2>1, <2>7, <3>3, TypesApart, OfTypeDoes
      <4>. QED
        BY <1>6, <2>4, <3>1, <4>1
    <3>. QED
      BY <3>2, <3>3
  <2>8. FilesInv'
    <3>1. unwritten' = unwritten
      BY <1>2
    <3>. QED
      BY <2>1, <2>2, <2>5, <2>6, <2>7, <3>1, PartsDoNext DEF FilesInv
  <2>9. RunInv'
    BY <2>3, <2>8 DEF RunInv
  <2>. QED
    BY <1>2, <1>3, <1>9, <1>10, <2>1, <2>9, TreatedInv DEF Kept
<1>11. CASE tree'.fault # "none"
  <2>1. stage' = "raised" /\ todo' = todo
    BY <1>1, <1>2, <1>11 DEF Outcome
  <2>. QED
    BY <1>2, <1>3, <1>9, <2>1, RaisedInv DEF Kept
<1>. QED
  BY <1>10, <1>11

LEMMA StampFilesInv ==
    ASSUME IInv, StampFiles
    PROVE  IInv'
<1>1. PICK p \in todo : Outcome(Stamp(tree, p, EntryAt(p).mode), p)
  BY DEF StampFiles
<1>2. /\ stage = "stamp files" /\ UNCHANGED <<unwritten, entries, include, pulls>>
      /\ tree' = Stamp(tree, p, EntryAt(p).mode)
  BY <1>1 DEF StampFiles, Outcome
<1>3. /\ FileSystem(tree) /\ ~ tree.outside /\ tree.fault = "none" /\ todo \subseteq Paths
      /\ unwritten = {} /\ GoodEntries(entries)
      /\ todo \subseteq Files
  BY <1>2 DEF IInv, TypeOK, NothingOutside, PullInv, TodoInv
<1>4. p \in Paths /\ p \in Files /\ p \in OfType("file")
  BY <1>1, <1>3, TypesApart
<1>5. /\ \A q \in ImplicitDirectories \cup OfType("directory") : OpenDir(tree, q)
      /\ \A q \in OfType("symlink") : Kind(tree, q) = "symlink"
  BY <1>2, PartsDo DEF IInv, RunInv, DirsInv, SymlinksInv
<1>6. /\ \A q \in Files :
             /\ Kind(tree, q) = "file"
             /\ InodeAt(tree, q).data = EntryAt(q).data
             /\ \A r \in Paths \ {q} :
                    tree.name[r] = tree.name[q] => r \in Linked /\ FirstOf(r) = q
             /\ q \notin todo => Mode(tree, q) = EntryAt(q).mode /\ InodeAt(tree, q).stamped
      /\ \A q \in Linked : tree.name[q] = tree.name[FirstOf(q)]
  BY <1>2, <1>3, PartsDo DEF IInv, RunInv, FilesInv
<1>7. Reachable(tree, p)
  BY <1>3, <1>4, <1>5, ClearEntries, ClearDoes
<1>8. /\ FileSystem(tree') /\ tree'.fault = tree.fault /\ tree'.outside = tree.outside
      /\ tree'.name = tree.name
      /\ InodeAt(tree', p).mode = EntryAt(p).mode /\ InodeAt(tree', p).stamped
      /\ \A q \in Paths : tree.name[q] # tree.name[p] =>
             InodeAt(tree', q) = InodeAt(tree, q) \/ tree.name[q] = Absent
      /\ \A q \in Paths : Kind(tree', q) = Kind(tree, q)
      /\ \A q \in Paths : tree.name[q] # Absent =>
             InodeAt(tree', q).data = InodeAt(tree, q).data
  <2>1. EntryAt(p).mode \in Modes /\ Kind(tree, p) \in {"dir", "file", "symlink"}
    BY <1>3, <1>4, <1>6, OfTypeDoes DEF EntryType
  <2>2. Restamped(tree, tree', p, EntryAt(p).mode)
    BY <1>2, <1>3, <1>4, <1>7, <2>1, StampDoes
  <2>. QED
    BY <2>2 DEF Restamped
<1>9. stage' = stage /\ todo' = todo \ {p} /\ tree'.fault = "none"
  BY <1>1, <1>2, <1>3, <1>8 DEF Outcome
<1>10. /\ \A type : OfType(type)' = OfType(type)
       /\ \A q : EntryAt(q)' = EntryAt(q) /\ FirstOf(q)' = FirstOf(q)
       /\ Files' = Files /\ Linked' = Linked
  BY <1>2, SameManifest
<1>11. DirsInv' /\ SymlinksInv'
  <2>1. ASSUME NEW q \in ImplicitDirectories \cup OfType("directory") \cup OfType("symlink")
        PROVE  Same(tree, tree', q)
    <3>1. q \in Paths /\ Kind(tree, q) # "file"
      BY <1>3, <1>5, OfTypeDoes DEF ImplicitDirectories, OpenDir
    <3>2. tree.name[q] # tree.name[p]
      BY <1>4, <1>6, <3>1, PathsAssumption DEF Kind
    <3>. QED
      BY <1>8, <3>1, <3>2 DEF Same
  <2>. QED
    BY <1>2, <1>9, <2>1, OthersInv
<1>12. ASSUME NEW q \in Files
       PROVE  /\ Kind(tree', q) = "file"
              /\ InodeAt(tree', q).data = EntryAt(q).data
              /\ \A r \in Paths \ {q} :
                     tree'.name[r] = tree'.name[q] => r \in Linked /\ FirstOf(r) = q
              /\ q \notin todo' => Mode(tree', q) = EntryAt(q).mode /\ InodeAt(tree', q).stamped
  <2>1. q \in Paths /\ tree.name[q] # Absent
    BY <1>3, <1>6, TypesApart, OfTypeDoes, KindAt
  <2>2. /\ Kind(tree', q) = "file"
        /\ InodeAt(tree', q).data = EntryAt(q).data
        /\ \A r \in Paths \ {q} :
               tree'.name[r] = tree'.name[q] => r \in Linked /\ FirstOf(r) = q
    BY <1>6, <1>8, <2>1
  <2>3. CASE q = p
    BY <1>8, <2>1, <2>2, <2>3, KindAt
  <2>4. CASE q # p
    <3>1. tree.name[q] # tree.name[p]
      BY <1>3, <1>4, <1>6, <2>1, <2>4, TypesApart
    <3>2. InodeAt(tree', q) = InodeAt(tree, q)
      BY <1>8, <2>1, <3>1
    <3>3. Mode(tree', q) = Mode(tree, q)
      BY <2>1, <3>2, KindAt
    <3>4. q \notin todo' => q \notin todo
      BY <1>9, <2>4
    <3>. QED
      BY <1>6, <2>2, <3>2, <3>3, <3>4
  <2>. QED
    BY <2>3, <2>4
<1>13. FilesInv'
  <2>1. \A q \in Linked : tree'.name[q] = tree'.name[FirstOf(q)]
    BY <1>6, <1>8
  <2>. QED
    BY <1>2, <1>9, <1>10, <1>12, <2>1, PartsDoNext DEF FilesInv
<1>14. RunInv'
  BY <1>11, <1>13 DEF RunInv
<1>. QED
  BY <1>2, <1>3, <1>8, <1>9, <1>14, TreatedInv

LEMMA StampDirectoriesInv ==
    ASSUME IInv, StampDirectories
    PROVE  IInv'
<1>1. PICK p \in todo : DirToStamp(p) /\ Outcome(Stamp(tree, p, EntryAt(p).mode), p)
  BY DEF StampDirectories
<1>2. /\ stage = "stamp directories" /\ UNCHANGED <<unwritten, entries, include, pulls>>
      /\ tree' = Stamp(tree, p, EntryAt(p).mode)
  BY <1>1 DEF StampDirectories, Outcome
<1>3. /\ FileSystem(tree) /\ ~ tree.outside /\ tree.fault = "none" /\ todo \subseteq Paths
      /\ unwritten = {} /\ GoodEntries(entries)
      /\ todo \subseteq OfType("directory")
  BY <1>2 DEF IInv, TypeOK, NothingOutside, PullInv, TodoInv
<1>4. p \in Paths /\ p \in OfType("directory")
  BY <1>1, <1>3
<1>5. /\ \A q \in ImplicitDirectories :
             ~ (q \in OfType("directory") /\ q \notin todo) => OpenDir(tree, q)
      /\ \A q \in OfType("directory") :
             /\ q \in todo => OpenDir(tree, q)
             /\ q \notin todo => /\ Kind(tree, q) = "dir"
                                 /\ Mode(tree, q) = EntryAt(q).mode
                                 /\ InodeAt(tree, q).stamped
      /\ \A q \in todo : \A r \in OfType("directory") \ todo : Len(r) >= Len(q)
      /\ \A q \in OfType("symlink") :
             Kind(tree, q) = "symlink" /\ InodeAt(tree, q).data = EntryAt(q).data
  <2>1. DirsInv /\ SymlinksInv
    BY DEF IInv, RunInv
  <2>2. \A q : Implied(q) /\ Recorded(q) /\ (DirStamped(q) <=> q \notin todo)
    BY <1>2, PartsDo
  <2>. QED
    BY <1>2, <2>1, <2>2 DEF DirsInv, SymlinksInv
<1>6. /\ \A q \in Files :
             /\ Kind(tree, q) = "file"
             /\ InodeAt(tree, q).data = EntryAt(q).data
             /\ \A r \in Paths \ {q} :
                    tree.name[r] = tree.name[q] => r \in Linked /\ FirstOf(r) = q
             /\ Mode(tree, q) = EntryAt(q).mode /\ InodeAt(tree, q).stamped
      /\ \A q \in Linked : tree.name[q] = tree.name[FirstOf(q)]
  BY <1>2, <1>3, PartsDo DEF IInv, RunInv, FilesInv
\* What is above p is still to be stamped, so it is open.
<1>7. Reachable(tree, p)
  <2>1. SUFFICES ASSUME NEW q \in Paths, Above(q, p) PROVE OpenDir(tree, q)
    BY DEF Reachable, OpenDir
  <2>2. q \in ImplicitDirectories
    BY <1>3, <1>4, <2>1, ImpliedAbove
  <2>3. Len(q) < Len(p) /\ Len(q) \in Nat /\ Len(p) \in Nat
    BY <1>4, <2>1, AboveOrder, PathShape
  <2>4. ~ (q \in OfType("directory") /\ q \notin todo)
    <3>1. SUFFICES ASSUME q \in OfType("directory") \ todo PROVE FALSE
      OBVIOUS
    <3>2. Len(q) >= Len(p)
      BY <1>1, <1>5, <3>1
    <3>. QED
      BY <2>3, <3>2
  <2>. QED
    BY <1>5, <2>2, <2>4
<1>8. /\ FileSystem(tree') /\ tree'.fault = tree.fault /\ tree'.outside = tree.outside
      /\ tree'.name = tree.name
      /\ InodeAt(tree', p).mode = EntryAt(p).mode /\ InodeAt(tree', p).stamped
      /\ \A q \in Paths : tree.name[q] # tree.name[p] =>
             InodeAt(tree', q) = InodeAt(tree, q) \/ tree.name[q] = Absent
      /\ \A q \in Paths : Kind(tree', q) = Kind(tree, q)
  <2>1. EntryAt(p).mode \in Modes /\ Kind(tree, p) \in {"dir", "file", "symlink"}
    BY <1>1, <1>3, <1>4, <1>5, OfTypeDoes DEF EntryType, OpenDir
  <2>2. Restamped(tree, tree', p, EntryAt(p).mode)
    BY <1>2, <1>3, <1>4, <1>7, <2>1, StampDoes
  <2>. QED
    BY <2>2 DEF Restamped
<1>9. stage' = stage /\ todo' = todo \ {p} /\ tree'.fault = "none"
  BY <1>1, <1>2, <1>3, <1>8 DEF Outcome
<1>10. /\ \A type : OfType(type)' = OfType(type)
       /\ \A q : EntryAt(q)' = EntryAt(q) /\ FirstOf(q)' = FirstOf(q)
       /\ Files' = Files /\ Linked' = Linked
       /\ ImplicitDirectories' = ImplicitDirectories
  BY <1>2, SameManifest
<1>11. Kind(tree, p) = "dir"
  BY <1>1, <1>4, <1>5 DEF OpenDir
<1>12. ASSUME NEW q \in Paths, q # p, Kind(tree, q) # "absent"
       PROVE  InodeAt(tree', q) = InodeAt(tree, q) /\ Mode(tree', q) = Mode(tree, q)
  <2>1. tree.name[q] # tree.name[p]
    BY <1>3, <1>4, <1>11, <1>12, FileSystemParts DEF DirsOnce
  <2>2. tree.name[q] # Absent
    BY <1>12, KindAt
  <2>3. InodeAt(tree', q) = InodeAt(tree, q)
    BY <1>8, <1>12, <2>1, <2>2
  <2>. QED
    BY <1>12, <2>3, KindAt
<1>13. DirsInv'
  <2>1. ASSUME NEW q \in Paths, q # p, OpenDir(tree, q) PROVE OpenDir(tree', q)
    BY <1>8, <1>12, <2>1 DEF OpenDir
  <2>2. ASSUME NEW q \in ImplicitDirectories, ~ (q \in OfType("directory") /\ q \notin todo')
        PROVE  OpenDir(tree', q)
    <3>1. q \in Paths /\ q # p /\ ~ (q \in OfType("directory") /\ q \notin todo)
      BY <1>4, <1>9, <2>2 DEF ImplicitDirectories
    <3>. QED
      BY <1>5, <2>1, <2>2, <3>1
  <2>3. ASSUME NEW q \in OfType("directory"), q \in todo' PROVE OpenDir(tree', q)
    BY <1>3, <1>5, <1>9, <2>1, <2>3
  <2>4. ASSUME NEW q \in OfType("directory"), q \notin todo'
        PROVE  /\ Kind(tree', q) = "dir" /\ Mode(tree', q) = EntryAt(q).mode
               /\ InodeAt(tree', q).stamped
    <3>1. CASE q = p
      BY <1>4, <1>8, <1>11, <3>1, KindAt
    <3>2. CASE q # p
      <4>1. q \in Paths /\ q \notin todo
        BY <1>3, <1>9, <2>4, <3>2, OfTypeDoes
      <4>2. /\ Kind(tree, q) = "dir" /\ Mode(tree, q) = EntryAt(q).mode
            /\ InodeAt(tree, q).stamped
        BY <1>5, <2>4, <4>1
      <4>. QED
        BY <1>8, <1>12, <3>2, <4>1, <4>2
    <3>. QED
      BY <3>1, <3>2
  <2>5. \A q \in todo' : \A r \in OfType("directory") \ todo' : Len(r) >= Len(q)
    <3>1. ASSUME NEW q \in todo', NEW r \in OfType("directory") \ todo'
          PROVE  Len(r) >= Len(q)
      <4>1. q \in todo
        BY <1>9, <3>1
      <4>2. CASE r = p
        BY <1>1, <4>1, <4>2 DEF DirToStamp, Depth
      <4>3. CASE r # p
        BY <1>5, <1>9, <3>1, <4>1, <4>3
      <4>. QED
        BY <4>2, <4>3
    <3>. QED
      BY <3>1
  <2>6. stage' = "stamp directories"
    BY <1>2, <1>9
  <2>7. \A q : DirStamped(q)' <=> q \notin todo'
    BY <2>6, PartsDoNext
  <2>. QED
    BY <1>10, <2>2, <2>3, <2>4, <2>5, <2>7 DEF DirsInv
<1>14. SymlinksInv'
  <2>1. ASSUME NEW q \in OfType("symlink")
        PROVE  Kind(tree', q) = "symlink" /\ InodeAt(tree', q).data = EntryAt(q).data
    <3>1. q \in Paths /\ q # p /\ Kind(tree, q) = "symlink" /\ Kind(tree, q) # "absent"
      BY <1>3, <1>4, <1>5, OfTypeDoes, TypesApart
    <3>. QED
      BY <1>5, <1>8, <1>12, <3>1
  <2>. QED
    BY <1>10, <2>1 DEF SymlinksInv
<1>15. FilesInv'
  <2>1. ASSUME NEW q \in Files
        PROVE  /\ Kind(tree', q) = "file"
               /\ InodeAt(tree', q).data = EntryAt(q).data
               /\ Mode(tree', q) = EntryAt(q).mode /\ InodeAt(tree', q).stamped
    <3>1. q \in Paths /\ q # p /\ Kind(tree, q) = "file" /\ Kind(tree, q) # "absent"
      BY <1>3, <1>4, <1>6, OfTypeDoes, TypesApart
    <3>. QED
      BY <1>6, <1>8, <1>12, <3>1
  <2>2. /\ \A q \in Files : \A r \in Paths \ {q} :
               tree'.name[r] = tree'.name[q] => r \in Linked /\ FirstOf(r) = q
        /\ \A q \in Linked : tree'.name[q] = tree'.name[FirstOf(q)]
    BY <1>6, <1>8
  <2>3. \A q : LinkedUp(q)'
    BY <1>2, <1>9, PartsDoNext
  <2>. QED
    BY <1>10, <2>1, <2>2, <2>3 DEF FilesInv
<1>16. RunInv'
  BY <1>13, <1>14, <1>15 DEF RunInv
<1>. QED
  BY <1>2, <1>3, <1>8, <1>9, <1>16, TreatedInv

LEMMA ManifestPaths ==
    ASSUME GoodEntries(entries)
    PROVE  /\ \A type : OfType(type) \subseteq Paths
           /\ ImplicitDirectories \subseteq Paths /\ Files \subseteq Paths /\ Linked \subseteq Paths
<1>1. \A type : OfType(type) \subseteq Paths
  BY OfTypeDoes
<1>. QED
  BY <1>1, TypesApart DEF ImplicitDirectories

LEMMA AdvanceInv ==
    ASSUME IInv, Advance
    PROVE  IInv'
<1>1. /\ todo = {} /\ unwritten = {} /\ stage \in Stages \ {"returned", "raised"}
      /\ stage' = After[stage][1] /\ todo' = After[stage][2]
      /\ UNCHANGED <<tree, unwritten, entries, include, pulls>>
  BY DEF Advance, IInv, TypeOK
<1>2. GoodEntries(entries) /\ tree.fault = "none" /\ RunInv /\ FileSystem(tree)
  BY <1>1 DEF IInv, PullInv, TypeOK
<1>3. /\ \A type : OfType(type)' = OfType(type)
      /\ \A p : EntryAt(p)' = EntryAt(p) /\ FirstOf(p)' = FirstOf(p)
      /\ ImplicitDirectories' = ImplicitDirectories /\ Files' = Files /\ Linked' = Linked
      /\ tree' = tree /\ unwritten' = unwritten
  BY <1>1, SameManifest
\* The next part, what it is to treat, and what is true of it at its start.
<1>4. SUFFICES ASSUME NEW next \in Stages \ {"raised"}, NEW paths \in SUBSET Paths,
                      stage' = next, todo' = paths, TodoInv', RunInv'
               PROVE  IInv'
  <2>1. \A next \in Stages \ {"raised"} : \A paths \in SUBSET Paths :
            stage' = next /\ todo' = paths /\ TodoInv' /\ RunInv' => IInv'
    BY <1>4
  <2>2. /\ OfType("directory") \subseteq Paths /\ OfType("symlink") \subseteq Paths
        /\ Files \subseteq Paths /\ Linked \subseteq Paths
    BY <1>2, ManifestPaths
  <2>3. CASE stage = "implied"
    <3>1. stage' = "recorded" /\ todo' = OfType("directory") \cup OfType("symlink")
      BY <1>1, <2>3 DEF After
    <3>2. \A q \in ImplicitDirectories : OpenDir(tree, q)
      BY <1>1, <1>2, <2>3, PartsDo DEF RunInv, DirsInv
    <3>3. \A q : ~ DirStamped(q)' /\ (Recorded(q)' <=> q \notin todo')
      BY <3>1, PartsDoNext
    <3>4. DirsInv'
      BY <1>3, <3>1, <3>2, <3>3 DEF DirsInv
    <3>5. SymlinksInv'
      BY <1>3, <3>1, <3>3 DEF SymlinksInv
    <3>6. FilesInv'
      BY <3>1, PartsDoNext DEF FilesInv
    <3>7. TodoInv'
      BY <1>3, <3>1 DEF TodoInv
    <3>. QED
      BY <2>1, <2>2, <3>1, <3>4, <3>5, <3>6, <3>7 DEF RunInv, Stages
  <2>4. CASE stage = "recorded"
    <3>1. stage' = "files" /\ todo' = Files
      BY <1>1, <2>4 DEF After
    <3>2. /\ \A q \in ImplicitDirectories \cup OfType("directory") : OpenDir(tree, q)
          /\ \A q \in OfType("symlink") :
                 Kind(tree, q) = "symlink" /\ InodeAt(tree, q).data = EntryAt(q).data
      BY <1>1, <1>2, <2>4, PartsDo DEF RunInv, DirsInv, SymlinksInv
    <3>3. \A q : ~ DirStamped(q)' /\ ~ FileStamped(q)' /\ ~ LinkedUp(q)' /\ (Created(q)' <=> q \notin todo')
      BY <3>1, PartsDoNext
    <3>4. DirsInv'
      BY <1>3, <3>1, <3>2, <3>3 DEF DirsInv
    <3>5. SymlinksInv'
      BY <1>3, <3>2 DEF SymlinksInv
    <3>6. FilesInv'
      BY <1>3, <3>1, <3>3 DEF FilesInv
    <3>7. TodoInv'
      BY <1>1, <1>3, <3>1 DEF TodoInv
    <3>. QED
      BY <2>1, <2>2, <3>1, <3>4, <3>5, <3>6, <3>7 DEF RunInv, Stages
  <2>5. CASE stage = "files"
    <3>1. stage' = "links" /\ todo' = Linked
      BY <1>1, <2>5 DEF After
    <3>2. /\ \A q \in ImplicitDirectories \cup OfType("directory") : OpenDir(tree, q)
          /\ \A q \in OfType("symlink") :
                 Kind(tree, q) = "symlink" /\ InodeAt(tree, q).data = EntryAt(q).data
      BY <1>1, <1>2, <2>5, PartsDo DEF RunInv, DirsInv, SymlinksInv
    <3>3. \A q \in Files :
              /\ Kind(tree, q) = "file" /\ InodeAt(tree, q).data = EntryAt(q).data
              /\ \A r \in Paths \ {q} : tree.name[r] # tree.name[q]
      BY <1>1, <1>2, <2>5, PartsDo DEF RunInv, FilesInv
    <3>4. \A q : ~ DirStamped(q)' /\ ~ FileStamped(q)' /\ (LinkedUp(q)' <=> q \notin todo')
      BY <3>1, PartsDoNext
    <3>5. DirsInv'
      BY <1>3, <3>1, <3>2, <3>4 DEF DirsInv
    <3>6. SymlinksInv'
      BY <1>3, <3>2 DEF SymlinksInv
    <3>7. FilesInv'
      BY <1>3, <3>1, <3>3, <3>4 DEF FilesInv
    <3>8. TodoInv'
      BY <1>1, <1>3, <3>1 DEF TodoInv
    <3>. QED
      BY <2>1, <2>2, <3>1, <3>5, <3>6, <3>7, <3>8 DEF RunInv, Stages
  <2>6. CASE stage = "links"
    <3>1. stage' = "stamp files" /\ todo' = Files
      BY <1>1, <2>6 DEF After
    <3>2. /\ \A q \in ImplicitDirectories \cup OfType("directory") : OpenDir(tree, q)
          /\ \A q \in OfType("symlink") :
                 Kind(tree, q) = "symlink" /\ InodeAt(tree, q).data = EntryAt(q).data
      BY <1>1, <1>2, <2>6, PartsDo DEF RunInv, DirsInv, SymlinksInv
    <3>3. /\ \A q \in Files :
                 /\ Kind(tree, q) = "file" /\ InodeAt(tree, q).data = EntryAt(q).data
                 /\ \A r \in Paths \ {q} :
                        tree.name[r] = tree.name[q] => r \in Linked /\ FirstOf(r) = q
          /\ \A q \in Linked : tree.name[q] = tree.name[FirstOf(q)]
      BY <1>1, <1>2, <2>6, PartsDo DEF RunInv, FilesInv
    <3>4. \A q : ~ DirStamped(q)' /\ LinkedUp(q)' /\ (FileStamped(q)' <=> q \notin todo')
      BY <3>1, PartsDoNext
    <3>5. DirsInv'
      BY <1>3, <3>1, <3>2, <3>4 DEF DirsInv
    <3>6. SymlinksInv'
      BY <1>3, <3>2 DEF SymlinksInv
    <3>7. FilesInv'
      BY <1>3, <3>1, <3>3, <3>4 DEF FilesInv
    <3>8. TodoInv'
      BY <1>1, <1>3, <3>1 DEF TodoInv
    <3>. QED
      BY <2>1, <2>2, <3>1, <3>5, <3>6, <3>7, <3>8 DEF RunInv, Stages
  <2>7. CASE stage = "stamp files"
    <3>1. stage' = "stamp directories" /\ todo' = OfType("directory")
      BY <1>1, <2>7 DEF After
    <3>2. /\ \A q \in ImplicitDirectories \cup OfType("directory") : OpenDir(tree, q)
          /\ \A q \in OfType("symlink") :
                 Kind(tree, q) = "symlink" /\ InodeAt(tree, q).data = EntryAt(q).data
      BY <1>1, <1>2, <2>7, PartsDo DEF RunInv, DirsInv, SymlinksInv
    <3>3. /\ \A q \in Files :
                 /\ Kind(tree, q) = "file" /\ InodeAt(tree, q).data = EntryAt(q).data
                 /\ \A r \in Paths \ {q} :
                        tree.name[r] = tree.name[q] => r \in Linked /\ FirstOf(r) = q
                 /\ Mode(tree, q) = EntryAt(q).mode /\ InodeAt(tree, q).stamped
          /\ \A q \in Linked : tree.name[q] = tree.name[FirstOf(q)]
      BY <1>1, <1>2, <2>7, PartsDo DEF RunInv, FilesInv
    <3>4. \A q : LinkedUp(q)' /\ (DirStamped(q)' <=> q \notin todo')
      BY <3>1, PartsDoNext
    <3>5. DirsInv'
      BY <1>3, <3>1, <3>2, <3>4 DEF DirsInv
    <3>6. SymlinksInv'
      BY <1>3, <3>2 DEF SymlinksInv
    <3>7. FilesInv'
      BY <1>3, <3>3, <3>4 DEF FilesInv
    <3>8. TodoInv'
      BY <1>1, <1>3, <3>1 DEF TodoInv
    <3>. QED
      BY <2>1, <2>2, <3>1, <3>5, <3>6, <3>7, <3>8 DEF RunInv, Stages
  <2>8. CASE stage = "stamp directories"
    <3>1. stage' = "returned" /\ todo' = {}
      BY <1>1, <2>8 DEF After
    <3>2. /\ \A q \in ImplicitDirectories : q \notin OfType("directory") => OpenDir(tree, q)
          /\ \A q \in OfType("directory") : /\ Kind(tree, q) = "dir"
                                            /\ Mode(tree, q) = EntryAt(q).mode
                                            /\ InodeAt(tree, q).stamped
          /\ \A q \in OfType("symlink") :
                 Kind(tree, q) = "symlink" /\ InodeAt(tree, q).data = EntryAt(q).data
      BY <1>1, <1>2, <2>8, PartsDo DEF RunInv, DirsInv, SymlinksInv
    <3>3. /\ \A q \in Files :
                 /\ Kind(tree, q) = "file" /\ InodeAt(tree, q).data = EntryAt(q).data
                 /\ \A r \in Paths \ {q} :
                        tree.name[r] = tree.name[q] => r \in Linked /\ FirstOf(r) = q
                 /\ Mode(tree, q) = EntryAt(q).mode /\ InodeAt(tree, q).stamped
          /\ \A q \in Linked : tree.name[q] = tree.name[FirstOf(q)]
      BY <1>1, <1>2, <2>8, PartsDo DEF RunInv, FilesInv
    <3>4. \A q : LinkedUp(q)' /\ DirStamped(q)'
      BY <3>1, PartsDoNext
    <3>5. DirsInv'
      BY <1>3, <3>1, <3>2, <3>4 DEF DirsInv
    <3>6. SymlinksInv'
      BY <1>3, <3>2 DEF SymlinksInv
    <3>7. FilesInv'
      BY <1>3, <3>3, <3>4 DEF FilesInv
    <3>8. TodoInv'
      BY <3>1 DEF TodoInv
    <3>. QED
      BY <2>1, <3>1, <3>5, <3>6, <3>7, <3>8 DEF RunInv, Stages
  <2>. QED
    BY <1>1, <2>3, <2>4, <2>5, <2>6, <2>7, <2>8 DEF Stages
<1>5. TypeOK' /\ NothingOutside' /\ NoPermissionNeeded'
  BY <1>1, <1>2, <1>4 DEF IInv, TypeOK, NothingOutside, NoPermissionNeeded
<1>6. PullInv'
  BY <1>1, <1>2 DEF IInv, PullInv
<1>. QED
  BY <1>4, <1>5, <1>6 DEF IInv

LEMMA FailInv ==
    ASSUME IInv, Fail
    PROVE  IInv'
<1>1. /\ stage \notin {"returned", "raised"} /\ stage' = "raised"
      /\ UNCHANGED <<todo, unwritten, entries, include, pulls>>
  BY DEF Fail
<1>2. /\ FileSystem(tree) /\ ~ tree.outside /\ tree.fault = "none"
      /\ todo \subseteq Paths /\ unwritten \subseteq Paths
  BY <1>1 DEF IInv, TypeOK, NothingOutside, PullInv
<1>3. FileSystem(tree') /\ tree'.outside = tree.outside /\ tree'.fault = "I/O"
  <2>1. CASE tree' = Fault(tree, "I/O")
    <3>1. "I/O" \in {"none", "I/O", "in the way", "permission"}
      OBVIOUS
    <3>2. Faulted(tree, Fault(tree, "I/O"), "I/O")
      BY <1>2, <3>1, FaultDoes
    <3>. QED
      BY <2>1, <3>2 DEF Faulted
  <2>2. ASSUME NEW p \in todo, tree' = Fault(RemoveIfPresent(tree, p), "I/O")
        PROVE  FileSystem(tree') /\ tree'.outside = tree.outside /\ tree'.fault = "I/O"
    <3> DEFINE r == RemoveIfPresent(tree, p)
    <3>1. FileSystem(r) /\ r.outside = tree.outside
      BY <1>2, <2>2, RemoveDoes
    <3> HIDE DEF r
    <3>2. "I/O" \in {"none", "I/O", "in the way", "permission"} /\ tree' = Fault(r, "I/O")
      BY <2>2 DEF r
    <3>3. FileSystem(tree') /\ tree'.outside = r.outside /\ tree'.fault = "I/O"
      <4>1. Faulted(r, Fault(r, "I/O"), "I/O")
        BY <3>1, <3>2, FaultDoes
      <4>. QED
        BY <3>2, <4>1 DEF Faulted
    <3>. QED
      BY <3>1, <3>3
  <2>. QED
    BY <2>1, <2>2 DEF Fail
<1>. QED
  BY <1>1, <1>2, <1>3, RaisedInv

\* The entries of a version.
LEMMA VersionEntries ==
    ASSUME NEW v \in Versions
    PROVE  GoodEntries({v[i] : i \in DOMAIN v})
<1> DEFINE es == {v[i] : i \in DOMAIN v}
<1>1. ASSUME NEW e \in es
      PROVE  /\ e \in [index : Nat, path : Paths, type : {"directory", "file", "symlink"},
                       data : Contents, mode : Modes, group : Nat]
             /\ e.type = "directory" => e.data = "none"
  BY VersionsAssumption
<1>2. ASSUME NEW e \in es, NEW f \in es
      PROVE  /\ e.path = f.path => e = f
             /\ Above(e.path, f.path) => e.type = "directory"
             /\ e.group = f.group /\ e.group # 0 /\ e.type = "file" /\ f.type = "file" =>
                    e.data = f.data /\ e.mode = f.mode
  BY VersionsAssumption DEF Above
<1>. QED
  BY <1>1, <1>2 DEF GoodEntries

LEMMA PullStepInv ==
    ASSUME IInv, Pull
    PROVE  IInv'
<1>1. /\ pulls < MaxPulls /\ pulls' = pulls + 1
      /\ stage' = "implied" /\ todo' = ImplicitDirectories' /\ unwritten' = {}
      /\ tree' = Fault(tree, "none")
  BY DEF Pull
<1>2. FileSystem(tree') /\ tree'.outside = tree.outside /\ tree'.fault = "none"
  <2>1. FileSystem(tree) /\ "none" \in {"none", "I/O", "in the way", "permission"}
    BY DEF IInv, TypeOK
  <2>2. Faulted(tree, Fault(tree, "none"), "none")
    BY <2>1, FaultDoes
  <2>. QED
    BY <1>1, <2>2 DEF Faulted
<1>3. GoodEntries(entries')
  BY VersionEntries DEF Pull
<1>4. PullInv'
  BY <1>2, <1>3, IncludesAssumption DEF Pull, PullInv
<1>5. TypeOK' /\ NothingOutside' /\ NoPermissionNeeded'
  <2>1. pulls' \in 0 .. MaxPulls
    BY <1>1, BoundAssumption DEF IInv, TypeOK
  <2>2. todo' \subseteq Paths
    BY <1>1 DEF ImplicitDirectories
  <2>. QED
    BY <1>1, <1>2, <2>1, <2>2 DEF IInv, TypeOK, Stages, NothingOutside, NoPermissionNeeded
<1>6. TodoInv'
  BY <1>1 DEF TodoInv
<1>7. RunInv'
  BY <1>1, PartsDoNext DEF RunInv, DirsInv, SymlinksInv, FilesInv
<1>. QED
  BY <1>4, <1>5, <1>6, <1>7 DEF IInv

LEMMA InitInv == Init => IInv
<1> SUFFICES ASSUME Init PROVE IInv
  OBVIOUS
<1>1. /\ FileSystem(tree) /\ tree.fault = "none" /\ ~ tree.outside
      /\ stage = "returned" /\ todo = {} /\ unwritten = {} /\ entries = {} /\ include = {}
      /\ pulls = 0
  BY TreesAssumption DEF Init
<1>2. TypeOK /\ NothingOutside /\ NoPermissionNeeded
  BY <1>1, BoundAssumption DEF TypeOK, Stages, NothingOutside, NoPermissionNeeded
<1>3. PullInv /\ TodoInv
  BY <1>1 DEF PullInv, GoodEntries, TodoInv
<1>4. Selected = {}
  BY <1>1 DEF Selected
<1>5. (\A type : OfType(type) = {}) /\ ImplicitDirectories = {}
  BY <1>4 DEF OfType, ImplicitDirectories
<1>6. Files = {} /\ Linked = {}
  BY <1>5 DEF Files, Linked
<1>7. RunInv
  BY <1>1, <1>5, <1>6 DEF RunInv, DirsInv, SymlinksInv, FilesInv
<1>. QED
  BY <1>2, <1>3, <1>7 DEF IInv

LEMMA StutterInv ==
    ASSUME IInv, UNCHANGED vars
    PROVE  IInv'
<1>1. UNCHANGED <<entries, include>> /\ UNCHANGED <<tree, stage, todo, unwritten, pulls>>
  BY DEF vars
<1>2. /\ \A type : OfType(type)' = OfType(type)
      /\ \A p : EntryAt(p)' = EntryAt(p) /\ FirstOf(p)' = FirstOf(p)
      /\ ImplicitDirectories' = ImplicitDirectories /\ Files' = Files /\ Linked' = Linked
  BY <1>1, SameManifest
<1>3. TypeOK' /\ NothingOutside' /\ NoPermissionNeeded'
  BY <1>1 DEF IInv, TypeOK, NothingOutside, NoPermissionNeeded
<1>4. PullInv' /\ TodoInv'
  BY <1>1, <1>2 DEF IInv, PullInv, TodoInv
<1>5. \A p : /\ Implied(p)' <=> Implied(p)
             /\ Recorded(p)' <=> Recorded(p)
             /\ Created(p)' <=> Created(p)
             /\ LinkedUp(p)' <=> LinkedUp(p)
             /\ FileStamped(p)' <=> FileStamped(p)
             /\ DirStamped(p)' <=> DirStamped(p)
  BY <1>1 DEF Implied, Recorded, Created, LinkedUp, FileStamped, DirStamped
<1>6. DirsInv'
  BY <1>1, <1>2, <1>5 DEF IInv, RunInv, DirsInv
<1>7. SymlinksInv'
  BY <1>1, <1>2, <1>5 DEF IInv, RunInv, SymlinksInv
<1>8. FilesInv'
  BY <1>1, <1>2, <1>5 DEF IInv, RunInv, FilesInv
<1>. QED
  BY <1>3, <1>4, <1>6, <1>7, <1>8 DEF IInv, RunInv

LEMMA InvariantStep == IInv /\ [Next]_vars => IInv'
<1> SUFFICES ASSUME IInv, [Next]_vars PROVE IInv'
  OBVIOUS
<1>1. CASE Pull
  BY <1>1, PullStepInv
<1>2. CASE MakeImplied
  BY <1>2, MakeImpliedInv
<1>3. CASE MakeRecorded
  BY <1>3, MakeRecordedInv
<1>4. CASE Create
  BY <1>4, CreateInv
<1>5. CASE Write
  BY <1>5, WriteInv
<1>6. CASE MakeLinks
  BY <1>6, MakeLinksInv
<1>7. CASE StampFiles
  BY <1>7, StampFilesInv
<1>8. CASE StampDirectories
  BY <1>8, StampDirectoriesInv
<1>9. CASE Advance
  BY <1>9, AdvanceInv
<1>10. CASE Fail
  BY <1>10, FailInv
<1>11. CASE UNCHANGED vars
  BY <1>11, StutterInv
<1>. QED
  BY <1>1, <1>2, <1>3, <1>4, <1>5, <1>6, <1>7, <1>8, <1>9, <1>10, <1>11 DEF Next

LEMMA Invariant == Spec => []IInv
  BY InitInv, InvariantStep, PTL DEF Spec

-----------------------------------------------------------------------------
(***************************************************************************)
(* What run promises.                                                      *)
(***************************************************************************)

\* Every helper of _materialize.py leaves a file system: an inode is in use
\* exactly when a path names it, a directory has one path and what has a path
\* is in a directory.
THEOREM MaterializeType == Spec => []TypeOK
  BY Invariant, PTL DEF IInv

\* ensure_dir, create_file, create_symlink and create_hardlink make nothing
\* through a symlink, whatever the destination held.
THEOREM MaterializeNothingOutside == Spec => []NothingOutside
  BY Invariant, PTL DEF IInv

\* Directories are opened on the way down and sealed deepest first, so that a
\* pull needs no right that its recorded modes, or earlier ones, took away.
THEOREM MaterializeNoPermissionNeeded == Spec => []NoPermissionNeeded
  BY Invariant, PTL DEF IInv

\* A file of the manifest after a pull: the inode of the first of its group.
LEMMA FileThere ==
    ASSUME IInv, stage = "returned", NEW p \in OfType("file")
    PROVE  /\ FirstOf(p) \in Files /\ tree.name[p] = tree.name[FirstOf(p)]
           /\ tree.name[p] # Absent
           /\ InodeAt(tree, p).kind = "file"
           /\ InodeAt(tree, p).data = EntryAt(p).data
           /\ InodeAt(tree, p).mode = EntryAt(p).mode
           /\ InodeAt(tree, p).stamped
<1> DEFINE q == FirstOf(p)
<1>1. GoodEntries(entries) /\ unwritten = {} /\ FilesInv
  BY DEF IInv, PullInv, TypeOK, RunInv
<1>2. /\ \A r \in Files :
             /\ Kind(tree, r) = "file" /\ InodeAt(tree, r).data = EntryAt(r).data
             /\ Mode(tree, r) = EntryAt(r).mode /\ InodeAt(tree, r).stamped
      /\ \A r \in Linked : tree.name[r] = tree.name[FirstOf(r)]
  BY <1>1, PartsDo DEF FilesInv
<1>3. q \in Files /\ q \in OfType("file") /\ q \in Paths
  BY <1>1, FirstOfDoes, TypesApart, OfTypeDoes
<1>4. tree.name[p] = tree.name[q]
  BY <1>2, FilesAndLinks
<1>5. EntryAt(p).data = EntryAt(q).data /\ EntryAt(p).mode = EntryAt(q).mode
  <2>1. CASE q = p
    BY <2>1
  <2>2. CASE q # p
    <3>1. EntryAt(q).group = EntryAt(p).group /\ EntryAt(p).group # 0
      BY <1>1, <2>2, FirstOfDoes
    <3>2. /\ EntryAt(p) \in entries /\ EntryAt(p).type = "file"
          /\ EntryAt(q) \in entries /\ EntryAt(q).type = "file"
      BY <1>1, <1>3, OfTypeDoes
    <3>. QED
      BY <1>1, <3>1, <3>2 DEF GoodEntries
  <2>. QED
    BY <2>1, <2>2
<1> HIDE DEF q
<1>6. /\ tree.name[q] # Absent /\ InodeAt(tree, q).kind = "file"
      /\ InodeAt(tree, q).data = EntryAt(q).data
      /\ InodeAt(tree, q).mode = EntryAt(q).mode /\ InodeAt(tree, q).stamped
  BY <1>2, <1>3, KindAt
<1>. QED
  BY <1>3, <1>4, <1>5, <1>6 DEF InodeAt, q

\* Paths share an inode exactly when their first is the same.
LEMMA FilesShared ==
    ASSUME IInv, stage = "returned", NEW p \in OfType("file"), NEW q \in OfType("file")
    PROVE  tree.name[p] = tree.name[q] <=> FirstOf(p) = FirstOf(q)
<1>1. GoodEntries(entries) /\ FilesInv
  BY DEF IInv, PullInv, RunInv
<1>2. /\ FirstOf(p) \in Files /\ tree.name[p] = tree.name[FirstOf(p)]
      /\ FirstOf(q) \in Files /\ tree.name[q] = tree.name[FirstOf(q)]
  BY FileThere
<1>3. FirstOf(p) \in Paths /\ FirstOf(p) \notin Linked /\ Created(FirstOf(q))
  BY <1>1, <1>2, TypesApart, ManifestPaths, PartsDo
<1>4. tree.name[FirstOf(p)] = tree.name[FirstOf(q)] => FirstOf(p) = FirstOf(q)
  BY <1>1, <1>2, <1>3 DEF FilesInv
<1>. QED
  BY <1>2, <1>4

\* A pull that returns leaves what the manifest says at each path it was asked
\* for, and hard links exactly within link groups.
THEOREM MaterializeTree == Spec => []TreeIsManifest
<1>1. ASSUME IInv PROVE TreeIsManifest
  <2> SUFFICES ASSUME stage = "returned"
               PROVE  /\ \A e \in {e \in entries : Wanted(e)} :
                             LET n == tree.node[tree.name[e.path]]
                             IN  /\ tree.name[e.path] # Absent
                                 /\ n.kind = KindOf(e)
                                 /\ n.data = e.data
                                 /\ e.type # "symlink" => n.mode = e.mode /\ n.stamped
                      /\ \A e, f \in {e \in entries : Wanted(e) /\ e.type = "file"} :
                             tree.name[e.path] = tree.name[f.path] <=>
                                 e = f \/ (e.group = f.group /\ e.group # 0)
    BY DEF TreeIsManifest
  <2>1. /\ GoodEntries(entries) /\ include \subseteq Seq(Names) /\ FileSystem(tree)
        /\ \A i \in include : \E e \in entries : IsPrefix(i, e.path)
    BY <1>1 DEF IInv, PullInv, TypeOK
  <2>2. ASSUME NEW e \in entries, Wanted(e)
        PROVE  e \in Selected /\ e.path \in OfType(e.type) /\ EntryAt(e.path) = e /\ e \in EntryType
    BY <2>1, <2>2, WantedSelected, EntriesDo DEF OfType
  <2>3. ASSUME NEW e \in entries, Wanted(e)
        PROVE  /\ tree.name[e.path] # Absent
               /\ InodeAt(tree, e.path).kind = KindOf(e)
               /\ InodeAt(tree, e.path).data = e.data
               /\ e.type # "symlink" =>
                      InodeAt(tree, e.path).mode = e.mode /\ InodeAt(tree, e.path).stamped
    <3> DEFINE p == e.path
    <3>1. p \in OfType(e.type) /\ EntryAt(p) = e /\ p \in Paths
          /\ e.type \in {"directory", "file", "symlink"}
      BY <2>2, <2>3 DEF EntryType
    <3>2. CASE e.type = "file"
      BY <1>1, <3>1, <3>2, FileThere DEF KindOf
    <3>3. CASE e.type = "directory"
      <4>1. /\ Kind(tree, p) = "dir" /\ Mode(tree, p) = EntryAt(p).mode
            /\ InodeAt(tree, p).stamped
        BY <1>1, <3>1, <3>3, PartsDo DEF IInv, RunInv, DirsInv
      <4>2. tree.name[p] # Absent /\ InodeAt(tree, p).kind = "dir" /\ InodeAt(tree, p).mode = e.mode
        BY <3>1, <4>1, KindAt
      <4>3. InodeAt(tree, p).data = "none"
        <5>1. tree.name[p] \in Inodes
          BY <2>1, <3>1, <4>1, NamedInode, FileSystemType
        <5>. QED
          BY <2>1, <4>2, <5>1, FileSystemParts DEF DirsBare, InodeAt
      <4>4. e.data = "none"
        BY <2>1, <3>3 DEF GoodEntries
      <4>. QED
        BY <3>3, <4>1, <4>2, <4>3, <4>4 DEF KindOf
    <3>4. CASE e.type = "symlink"
      <4>1. Kind(tree, p) = "symlink" /\ InodeAt(tree, p).data = EntryAt(p).data
        BY <1>1, <3>1, <3>4, PartsDo DEF IInv, RunInv, SymlinksInv
      <4>2. tree.name[p] # Absent /\ InodeAt(tree, p).kind = "symlink"
        BY <3>1, <4>1, KindAt
      <4>. QED
        BY <3>1, <3>4, <4>1, <4>2 DEF KindOf
    <3>. QED
      BY <3>1, <3>2, <3>3, <3>4
  <2>4. ASSUME NEW e \in entries, NEW f \in entries, Wanted(e), Wanted(f),
               e.type = "file", f.type = "file"
        PROVE  tree.name[e.path] = tree.name[f.path] <=>
                   e = f \/ (e.group = f.group /\ e.group # 0)
    <3>1. /\ e.path \in OfType("file") /\ EntryAt(e.path) = e
          /\ f.path \in OfType("file") /\ EntryAt(f.path) = f
      BY <2>2, <2>4
    <3>2. tree.name[e.path] = tree.name[f.path] <=> FirstOf(e.path) = FirstOf(f.path)
      BY <1>1, <3>1, FilesShared
    <3>3. FirstOf(e.path) = FirstOf(f.path) <=>
              e.path = f.path \/ (e.group = f.group /\ e.group # 0)
      BY <2>1, <3>1, FirstOfSame
    <3>. QED
      BY <2>1, <3>1, <3>2, <3>3
  <2>. QED
    BY <2>3, <2>4 DEF InodeAt
<1>. QED
  BY <1>1, Invariant, PTL

-----------------------------------------------------------------------------
(***************************************************************************)
(* What a pull leaves alone.                                               *)
(***************************************************************************)

\* Not on the way to anything the pull selected.
Aside(p) == \A e \in Selected : ~ IsPrefix(p, e.path)

\* The inode at p and its bytes are as they were.
Untouched(p) ==
    /\ tree'.name[p] = tree.name[p]
    /\ tree.name[p] # Absent => tree'.node[tree.name[p]].data = tree.node[tree.name[p]].data

LEMMA SameUntouched ==
    ASSUME NEW p \in Paths, Same(tree, tree', p)
    PROVE  Untouched(p)
  BY DEF Same, Untouched, InodeAt

\* No part treats a path that is aside, nor one below it.
LEMMA AsideDoes ==
    ASSUME GoodEntries(entries), NEW p \in Paths, Aside(p)
    PROVE  /\ \A type : \A q \in OfType(type) : ~ IsPrefix(p, q) /\ p # q
           /\ \A q \in ImplicitDirectories : ~ IsPrefix(p, q) /\ p # q
<1>1. p \in Seq(Names) /\ Len(p) \in Nat
  BY PathShape
<1>2. IsPrefix(p, p)
  BY <1>1 DEF IsPrefix
<1>3. ASSUME NEW type, NEW q \in OfType(type) PROVE ~ IsPrefix(p, q)
  BY <1>3, OfTypeDoes DEF Aside
<1>4. ASSUME NEW q \in ImplicitDirectories, IsPrefix(p, q) PROVE FALSE
  <2>1. PICK e \in Selected : q \in Paths /\ Above(q, e.path)
    BY DEF ImplicitDirectories
  <2>2. e.path \in Paths
    BY EntriesDo DEF EntryType
  <2>3. IsPrefix(q, e.path)
    BY <2>1 DEF Above, IsStrictPrefix
  <2>4. IsPrefix(p, e.path)
    <3>1. p = q \/ Above(p, q)
      BY <1>4 DEF Above, IsStrictPrefix
    <3>2. Above(p, q) => Above(p, e.path)
      BY <2>1, <2>2, AboveOrder
    <3>. QED
      BY <2>3, <3>1, <3>2 DEF Above, IsStrictPrefix
  <2>. QED
    BY <2>4 DEF Aside
<1>. QED
  BY <1>2, <1>3, <1>4

\* _stamp renames nothing and writes no bytes, whether it succeeds or not.
LEMMA StampUntouched ==
    ASSUME NEW q, NEW mode, tree' = Stamp(tree, q, mode), FileSystem(tree), NEW p \in Paths
    PROVE  Untouched(p)
<1>1. tree \in TreeType
  BY FileSystemType
<1>2. tree'.name = tree.name /\ \A i \in Inodes : tree'.node[i].data = tree.node[i].data
  <2>1. CASE tree' = Fault(tree, "permission")
    <3>1. "permission" \in {"none", "I/O", "in the way", "permission"}
      OBVIOUS
    <3>2. tree'.name = tree.name /\ tree'.node = tree.node
      <4>1. Faulted(tree, Fault(tree, "permission"), "permission")
        BY <3>1, FaultDoes
      <4>. QED
        BY <2>1, <4>1 DEF Faulted
    <3>. QED
      BY <3>2
  <2>2. CASE tree' = [tree EXCEPT !.node[tree.name[q]].stamped = TRUE,
                                  !.node[tree.name[q]].mode = mode]
    <3> DEFINE i == tree.name[q]
    <3>1. /\ tree'.name = tree.name
          /\ tree'.node = [[tree.node EXCEPT ![i].stamped = TRUE] EXCEPT ![i].mode = mode]
      BY <1>1, <2>2 DEF TreeType
    <3> HIDE DEF i
    <3>2. /\ tree.node = [j \in Inodes |-> tree.node[j]]
          /\ \A j \in Inodes : tree.node[j] \in NodeType
      BY <1>1 DEF TreeType
    <3>3. ASSUME NEW j \in Inodes PROVE tree'.node[j].data = tree.node[j].data
      BY <3>1, <3>2 DEF NodeType
    <3>. QED
      BY <3>1, <3>3
  <2>. QED
    BY <2>1, <2>2 DEF Stamp
<1>3. tree.name[p] # Absent => tree.name[p] \in Inodes
  BY <1>1 DEF TreeType
<1>. QED
  BY <1>2, <1>3 DEF Untouched

\* While entries are made, the directories they go to are open.
LEMMA ClearParts ==
    ASSUME IInv, stage \in {"recorded", "files", "links"}, NEW type, NEW p \in OfType(type)
    PROVE  Clear(tree, p)
<1>1. GoodEntries(entries)
  BY DEF IInv, PullInv
<1>2. \A q \in ImplicitDirectories : OpenDir(tree, q)
  BY PartsDo DEF IInv, RunInv, DirsInv
<1>. QED
  BY <1>1, <1>2, ClearEntries

\* One step of the main thread or of the pool.
LEMMA StepUntouched ==
    ASSUME IInv, Next, pulls' = pulls, NEW p \in Paths, Aside(p)
    PROVE  Untouched(p)
<1>1. /\ FileSystem(tree) /\ GoodEntries(entries) /\ todo \subseteq Paths
      /\ pulls \in Nat
      /\ stage # "raised" => tree.fault = "none"
  BY BoundAssumption DEF IInv, TypeOK, PullInv
<1>2. /\ \A type : \A q \in OfType(type) : ~ IsPrefix(p, q) /\ p # q
      /\ \A q \in ImplicitDirectories : ~ IsPrefix(p, q) /\ p # q
  BY <1>1, AsideDoes
<1>3. CASE Pull
  BY <1>1, <1>3 DEF Pull
<1>4. CASE MakeImplied
  <2>1. PICK q \in todo : Outcome(EnsureDir(tree, q), q)
    BY <1>4 DEF MakeImplied
  <2>2. tree' = EnsureDir(tree, q) /\ q \in ImplicitDirectories /\ q \in Paths /\ tree.fault = "none"
    BY <1>1, <1>4, <2>1 DEF MakeImplied, Outcome, IInv, TodoInv
  <2>3. Same(tree, tree', p)
    BY <1>1, <1>2, <2>2, EnsureDirDoes
  <2>. QED
    BY <2>3, SameUntouched
<1>5. CASE MakeRecorded
  <2>1. PICK q \in todo : Outcome(IF q \in OfType("directory") THEN EnsureDir(tree, q)
                                  ELSE CreateSymlink(tree, q, EntryAt(q).data), q)
    BY <1>5 DEF MakeRecorded
  <2>2. /\ stage = "recorded" /\ tree.fault = "none" /\ q \in Paths
        /\ q \in OfType("directory") \cup OfType("symlink")
    BY <1>1, <1>5, <2>1 DEF MakeRecorded, IInv, TodoInv
  <2>3. p # q /\ ~ IsPrefix(p, q)
    BY <1>2, <2>2
  <2>4. CASE q \in OfType("directory")
    <3>1. tree' = EnsureDir(tree, q)
      BY <2>1, <2>4 DEF Outcome
    <3>2. Same(tree, tree', p)
      BY <1>1, <2>2, <2>3, <3>1, EnsureDirDoes
    <3>. QED
      BY <3>2, SameUntouched
  <2>5. CASE q \notin OfType("directory")
    <3>1. tree' = CreateSymlink(tree, q, EntryAt(q).data) /\ q \in OfType("symlink")
      BY <2>1, <2>2, <2>5 DEF Outcome
    <3>2. Clear(tree, q) /\ EntryAt(q).data \in Contents
      BY <1>1, <2>2, <3>1, ClearParts, OfTypeDoes DEF EntryType
    <3>3. Kept(tree, tree', q)
      BY <1>1, <2>2, <3>1, <3>2, CreateSymlinkDoes
    <3>. QED
      BY <2>3, <3>3, SameUntouched DEF Kept
  <2>. QED
    BY <2>4, <2>5
<1>6. CASE Create
  <2>1. PICK q \in todo : Outcome(CreateFile(tree, q), q)
    BY <1>6 DEF Create
  <2>2. stage = "files" /\ tree.fault = "none" /\ q \in Paths /\ tree' = CreateFile(tree, q)
    BY <1>1, <1>6, <2>1 DEF Create, Outcome
  <2>3. q \in OfType("file")
    BY <1>1, <2>1, <2>2, TypesApart DEF IInv, TodoInv
  <2>4. Kept(tree, tree', q)
    BY <1>1, <2>2, <2>3, ClearParts, CreateFileDoes
  <2>. QED
    BY <1>2, <2>3, <2>4, SameUntouched DEF Kept
<1>7. CASE Write
  <2>1. PICK q \in unwritten : tree' = WriteAt(tree, q, EntryAt(q).data)
    BY <1>7 DEF Write
  <2>2. stage = "files" /\ unwritten \subseteq Files \ todo
    BY <1>7 DEF Write, IInv, TodoInv
  <2>3. q \in Files /\ q \in OfType("file") /\ q \in Paths /\ q \notin todo
    BY <1>1, <2>1, <2>2, TypesApart, ManifestPaths
  <2>4. Kind(tree, q) = "file" /\ EntryAt(q).data \in Contents
    BY <1>1, <2>2, <2>3, PartsDo, OfTypeDoes DEF IInv, RunInv, FilesInv, EntryType
  <2>5. tree.name[p] # tree.name[q]
    BY <1>2, <2>2, <2>3, PartsDo DEF IInv, RunInv, FilesInv
  <2>6. Same(tree, tree', p)
    BY <1>1, <2>1, <2>3, <2>4, <2>5, WriteAtDoes
  <2>. QED
    BY <2>6, SameUntouched
<1>8. CASE MakeLinks
  <2>1. PICK q \in todo : Outcome(CreateHardlink(tree, q, FirstOf(q)), q)
    BY <1>8 DEF MakeLinks
  <2>2. /\ stage = "links" /\ tree.fault = "none" /\ q \in Paths
        /\ tree' = CreateHardlink(tree, q, FirstOf(q))
    BY <1>1, <1>8, <2>1 DEF MakeLinks, Outcome
  <2>3. q \in Linked /\ q \in OfType("file") /\ FirstOf(q) # q
    BY <1>1, <2>1, <2>2, TypesApart, FilesAndLinks DEF IInv, TodoInv
  <2>4. FirstOf(q) \in Files /\ FirstOf(q) \in Paths
    BY <1>1, <2>3, FirstOfDoes, ManifestPaths
  <2>5. Kind(tree, FirstOf(q)) = "file"
    BY <2>2, <2>4, PartsDo DEF IInv, RunInv, FilesInv
  <2>6. Clear(tree, q)
    BY <2>2, <2>3, ClearParts
  <2>7. Kept(tree, tree', q)
    BY <1>1, <2>2, <2>3, <2>4, <2>5, <2>6, CreateHardlinkDoes
  <2>. QED
    BY <1>2, <2>3, <2>7, SameUntouched DEF Kept
<1>9. CASE StampFiles
  <2>1. PICK q \in todo : tree' = Stamp(tree, q, EntryAt(q).mode)
    BY <1>9 DEF StampFiles, Outcome
  <2>. QED
    BY <1>1, <2>1, StampUntouched
<1>10. CASE StampDirectories
  <2>1. PICK q \in todo : tree' = Stamp(tree, q, EntryAt(q).mode)
    BY <1>10 DEF StampDirectories, Outcome
  <2>. QED
    BY <1>1, <2>1, StampUntouched
<1>11. CASE Advance
  BY <1>11 DEF Advance, Untouched
<1>12. CASE Fail
  <2>1. stage \notin {"returned", "raised"} /\ tree.fault = "none"
    BY <1>1, <1>12 DEF Fail
  <2>2. CASE tree' = Fault(tree, "I/O")
    <3>1. FileSystem(tree) /\ "I/O" \in {"none", "I/O", "in the way", "permission"}
      BY <1>1
    <3>2. tree'.name = tree.name /\ tree'.node = tree.node
      <4>1. Faulted(tree, Fault(tree, "I/O"), "I/O")
        BY <3>1, FaultDoes
      <4>. QED
        BY <2>2, <4>1 DEF Faulted
    <3>. QED
      BY <3>2 DEF Untouched
  <2>3. ASSUME NEW q \in todo, tree' = Fault(RemoveIfPresent(tree, q), "I/O"),
               stage \in {"implied", "recorded", "files", "links"}
        PROVE  Untouched(p)
    <3> DEFINE r == RemoveIfPresent(tree, q)
    <3>1. q \in Paths /\ p # q
      BY <1>1, <1>2, <2>3, TypesApart DEF IInv, TodoInv
    <3>2. FileSystem(r) /\ Same(tree, r, p)
      BY <1>1, <2>1, <3>1, RemoveDoes
    <3> HIDE DEF r
    <3>3. "I/O" \in {"none", "I/O", "in the way", "permission"} /\ tree' = Fault(r, "I/O")
      BY <2>3 DEF r
    <3>4. tree'.name = r.name /\ tree'.node = r.node
      <4>1. Faulted(r, Fault(r, "I/O"), "I/O")
        BY <3>2, <3>3, FaultDoes
      <4>. QED
        BY <3>3, <4>1 DEF Faulted
    <3>. QED
      BY <3>2, <3>4 DEF Same, InodeAt, Untouched
  <2>. QED
    BY <1>12, <2>2, <2>3 DEF Fail
<1>. QED
  BY <1>3, <1>4, <1>5, <1>6, <1>7, <1>8, <1>9, <1>10, <1>11, <1>12 DEF Next

\* A pull neither moves nor rewrites what is at no path of its selection and
\* above none, through a hard link to something it replaces least of all.
THEOREM MaterializeUserFilesKept == Spec => UserFilesKept
<1>1. ASSUME IInv, [Next]_vars
      PROVE  [\A p \in Paths :
                  (pulls' = pulls /\ \A e \in Selected : ~ IsPrefix(p, e.path)) =>
                      /\ tree'.name[p] = tree.name[p]
                      /\ tree.name[p] # Absent =>
                             tree'.node[tree.name[p]].data = tree.node[tree.name[p]].data]_vars
  <2>1. CASE Next
    BY <1>1, <2>1, StepUntouched DEF Aside, Untouched
  <2>. QED
    BY <1>1, <2>1
<1>. QED
  BY <1>1, Invariant, PTL DEF Spec, UserFilesKept

=============================================================================
