------------------------------- MODULE Manifest -------------------------------
(***************************************************************************)
(* Reading the two JSONL objects of a version (volumes/_manifest.py): the  *)
(* manifest, by parse_manifest and then ContainedPaths, and the chunkmap   *)
(* of a large file, by parse_chunkmap.  Everything a pull writes, and      *)
(* where, follows from what these let through.                             *)
(*                                                                         *)
(* A path or a target, as written, is the sequence split("/") makes of it, *)
(* so that "/a//b" is <<"", "a", "", "b">> and the empty string <<"">>.  A *)
(* path inside the tree is the sequence of its names.  Of an entry only    *)
(* its type, path and target are kept, of a chunk its place in the file.   *)
(***************************************************************************)
EXTENDS Integers, SequencesExt

CONSTANTS
    Parts,          \* what split("/") makes of a path or a target: names, "", "." and ".."
    Records,        \* Records[o]: the entries or chunks an object o may carry
    Headers,        \* Headers[o]: the counts and sizes its header may give
    Sizes,          \* Sizes[o]: the sizes a file record may give it
    MaxHops,        \* MAX_SYMLINK_HOPS
    MaxFollowed,    \* the links the kernel follows in one lookup
    MaxRecords      \* bound: entries or chunks in an object

\* What validation leaves of the numbers of a chunkmap.
ASSUME ChunksAssumption ==
    /\ Records["chunkmap"] \subseteq [offset : Nat, length : Nat]
    /\ Sizes["chunkmap"] \subseteq Nat

\* split("/") leaves at least one component and no slash in any.
ASSUME EntriesAssumption ==
    /\ "/" \notin Parts /\ {".", ".."} \subseteq Parts
    /\ \A e \in Records["manifest"] :
           /\ e \in [type : {"directory", "file", "symlink"}, path : Seq(Parts), target : Seq(Parts)]
           /\ e.path # <<>>

ASSUME HopsAssumption == MaxHops \in Nat /\ MaxFollowed \in Nat

Objects == {"manifest", "chunkmap"}

VARIABLES
    object,     \* which of the two is read
    size,       \* expected_size: what the file's record says of a chunkmap
    stage,      \* "lines", then "tiling", or "names" and "links"; how it ended
    header,     \* the header line, or NoHeader
    records,    \* the entries or the chunks, in the order of their lines
    at,         \* the record the loop of the stage has come to
    offset,     \* expected_offset
    rendered    \* the targets of the symlinks so far, as they will be written

vars == <<object, size, stage, header, records, at, offset, rendered>>

NoHeader == [count |-> -1, size |-> -1]

-----------------------------------------------------------------------------
(***************************************************************************)
(* Paths and targets.                                                      *)
(***************************************************************************)

Nul == "NUL"                            \* a component that holds a NUL byte
Unusable(text) == text = <<"">> \/ \E i \in DOMAIN text : text[i] = Nul
Absolute(text) == Len(text) > 1 /\ Head(text) = ""

\* clean_path: leading slashes are stripped.
Clean(text) ==
    LET named == {i \in DOMAIN text : text[i] # "" \/ i = Len(text)}
        first == CHOOSE i \in named : \A j \in named : i <= j
    IN  SubSeq(text, first, Len(text))

\* A walk that left the root; no sequence of names.
Escapes == <<"/">>

\* One component of a path, from the directory dir.
Follow(dir, part) ==
    IF dir = Escapes \/ part \in {"", "."} THEN dir
    ELSE IF part # ".." THEN Append(dir, part)
    ELSE IF dir = <<>> THEN Escapes ELSE Front(dir)

Normalize(text) ==
    LET dir[i \in 0 .. Len(text)] == IF i = 0 THEN <<>> ELSE Follow(dir[i - 1], text[i])
    IN  dir[Len(text)]

\* posixpath.relpath.
Relpath(path, start) ==
    LET common == LongestCommonPrefix({path, start})
        up == [i \in 1 .. Len(start) - Len(common) |-> ".."]
        down == SubSeq(path, Len(common) + 1, Len(path))
    IN  IF up \o down = <<>> THEN <<".">> ELSE up \o down

NameOf(e) == Clean(e.path)
DirOf(e) == Front(NameOf(e))

\* The symlinks recorded at a path.
LinksAt(path) ==
    {e \in Range(records) : e.type = "symlink" /\ NameOf(e) = path}

Links == {e \in Range(records) : e.type = "symlink"}

\* Where the walk of a link's target starts.
Start(l, target) == IF Absolute(target) THEN <<>> ELSE DirOf(l)

Named(part) == part \notin {"", ".", ".."}

\* Mutant: symlinks on the way are not followed.
RealTarget_Lexical == [l \in Links |-> FoldLeft(Follow, Start(l, l.target), l.target)]

\* The walk of a link's target, next[m] being where that of a link m on the way
\* leads.
WalkTarget(l, next) ==
    LET dir[i \in 0 .. Len(l.target)] ==
            IF i = 0 THEN Start(l, l.target)
            ELSE LET here == Follow(dir[i - 1], l.target[i])
                 IN  IF Named(l.target[i]) /\ LinksAt(here) # {}
                     THEN next[CHOOSE m \in LinksAt(here) : TRUE]
                     ELSE here
    IN  dir[Len(l.target)]

\* _real_target of each symlink: the place in the tree its target names, every
\* symlink on the way followed by a walk of its own, one hop deeper.
RealTarget ==
    LET real[hops \in 0 .. MaxHops + 1] == [l \in Links |->
            IF Unusable(l.target) \/ hops > MaxHops THEN Escapes
            ELSE WalkTarget(l, real[hops + 1])]
    IN  real[0]

\* Mutant: the target is made relative to the link itself.
Render_FromLink(l) ==
    IF ~ Absolute(l.target) THEN l.target
    ELSE IF Normalize(l.target) = Escapes THEN Escapes
    ELSE Relpath(Normalize(l.target), NameOf(l))

\* _render: a relative target stays, an absolute one is normalized as text and
\* made relative to the link's directory.
Render(l) ==
    IF ~ Absolute(l.target) THEN l.target
    ELSE IF Normalize(l.target) = Escapes THEN Escapes
    ELSE Relpath(Normalize(l.target), DirOf(l))

-----------------------------------------------------------------------------

TypeOK ==
    /\ object \in Objects /\ size \in Sizes[object]
    /\ stage \in {"lines", "tiling", "names", "links", "accepted", "refused"}
    /\ header \in Headers[object] \cup {NoHeader}
    /\ header = NoHeader => stage \in {"lines", "refused"}
    /\ records \in Seq(Records[object])
    /\ at \in 1 .. Len(records) + 1
    /\ offset \in Nat
    /\ \A r \in Range(rendered) : r.link \in Range(records) /\ r.target = Render(r.link)

Init ==
    /\ object \in Objects /\ size \in Sizes[object]
    /\ stage = "lines"
    /\ header = NoHeader
    /\ records = <<>>
    /\ at = 1
    /\ offset = 0
    /\ rendered = <<>>

Goto(s) == stage' = s /\ at' = 1

Refuse == Goto("refused") /\ UNCHANGED <<object, size, header, records, offset, rendered>>

\* The loops of parse_manifest and parse_chunkmap: a header line, of which
\* there is one.  A provenance line is skipped.
ReadHeader ==
    /\ stage = "lines"
    /\ \/ header # NoHeader /\ Refuse
       \/ /\ header = NoHeader
          /\ header' \in Headers[object]
          /\ UNCHANGED <<object, size, stage, records, at, offset, rendered>>

\* An entry or a chunk.
ReadRecord ==
    /\ stage = "lines"
    /\ Len(records) < MaxRecords
    /\ \E r \in Records[object] : records' = Append(records, r)
    /\ UNCHANGED <<object, size, stage, header, at, offset, rendered>>

\* A line off contract, or a slabmap file.
ReadUnusable == stage = "lines" /\ Refuse

\* The end of the object.  A chunkmap has to be what its header and the file's
\* record announce; the entry_count of a manifest is not compared.
EndOfLines ==
    /\ stage = "lines"
    /\ LET announced == IF object = "manifest" THEN header # NoHeader
                        ELSE header = [count |-> Len(records), size |-> size]
       IN  \/ ~ announced /\ Refuse
           \/ /\ announced
              /\ Goto(IF object = "manifest" THEN "names" ELSE "tiling")
              /\ UNCHANGED <<object, size, header, records, offset, rendered>>

-----------------------------------------------------------------------------
(***************************************************************************)
(* parse_chunkmap: the chunks are contiguous from zero.                    *)
(***************************************************************************)

\* Mutant: a gap will do.
CheckChunk_Gap ==
    /\ stage = "tiling" /\ at <= Len(records)
    /\ \/ records[at].offset < offset /\ Refuse
       \/ /\ records[at].offset >= offset
          /\ offset' = offset + records[at].length
          /\ at' = at + 1
          /\ UNCHANGED <<object, size, stage, header, records, rendered>>

CheckChunk ==
    /\ stage = "tiling" /\ at <= Len(records)
    /\ \/ records[at].offset # offset /\ Refuse
       \/ /\ records[at].offset = offset
          /\ offset' = offset + records[at].length
          /\ at' = at + 1
          /\ UNCHANGED <<object, size, stage, header, records, rendered>>

ChunksDone ==
    /\ stage = "tiling" /\ at > Len(records)
    /\ Goto(IF offset = size THEN "accepted" ELSE "refused")
    /\ UNCHANGED <<object, size, header, records, offset, rendered>>

-----------------------------------------------------------------------------
(***************************************************************************)
(* ContainedPaths.__init__: its loop over the names, then its loop over    *)
(* ancestors and symlinks.                                                 *)
(***************************************************************************)

\* Mutant: of two entries with one path the later counts.
GoodName_Twice(i) ==
    LET name == NameOf(records[i]) IN ~ Unusable(name) /\ Normalize(name) = name

GoodName(i) ==
    LET name == NameOf(records[i])
    IN  /\ ~ Unusable(name)
        /\ Normalize(name) = name
        /\ \A j \in 1 .. i - 1 : NameOf(records[j]) # name

CheckName ==
    /\ stage = "names" /\ at <= Len(records)
    /\ \/ ~ GoodName(at) /\ Refuse
       \/ /\ GoodName(at)
          /\ at' = at + 1
          /\ UNCHANGED <<object, size, stage, header, records, offset, rendered>>

NamesDone ==
    /\ stage = "names" /\ at > Len(records)
    /\ Goto("links")
    /\ UNCHANGED <<object, size, header, records, offset, rendered>>

\* _check_ancestors: nothing but directories is recorded above entry i.
GoodAncestors(i) ==
    \A e \in Range(records) :
        IsStrictPrefix(NameOf(e), NameOf(records[i])) => e.type = "directory"

GoodTarget(e) == RealTarget[e] # Escapes /\ Render(e) # Escapes

CheckLink ==
    /\ stage = "links" /\ at <= Len(records)
    /\ LET e == records[at]
           good == GoodAncestors(at) /\ (e.type = "symlink" => GoodTarget(e))
       IN  \/ ~ good /\ Refuse
           \/ /\ good
              /\ rendered' = IF e.type # "symlink" THEN rendered
                             ELSE Append(rendered, [link |-> e, target |-> Render(e)])
              /\ at' = at + 1
              /\ UNCHANGED <<object, size, stage, header, records, offset>>

LinksDone ==
    /\ stage = "links" /\ at > Len(records)
    /\ Goto("accepted")
    /\ UNCHANGED <<object, size, header, records, offset, rendered>>

Next ==
    \/ ReadHeader
    \/ ReadRecord
    \/ ReadUnusable
    \/ EndOfLines
    \/ CheckChunk
    \/ ChunksDone
    \/ CheckName
    \/ NamesDone
    \/ CheckLink
    \/ LinksDone

Spec == Init /\ [][Next]_vars

-----------------------------------------------------------------------------
(***************************************************************************)
(* Properties.                                                             *)
(***************************************************************************)

Accepted(o) == object = o /\ stage = "accepted"

BytesOf(c) == c.offset .. c.offset + c.length - 1

\* "a gap or overlap would leave the preallocated file with zeros or torn
\* bytes" (parse_chunkmap): the chunks of a chunkmap that is let through hold
\* every byte of the file once, and none beyond it.
ChunksTile ==
    Accepted("chunkmap") =>
        /\ \A i \in DOMAIN records : BytesOf(records[i]) \subseteq 0 .. size - 1
        /\ \A b \in 0 .. size - 1 :
               \E i \in DOMAIN records :
                   /\ b \in BytesOf(records[i])
                   /\ \A j \in DOMAIN records : b \in BytesOf(records[j]) => j = i

\* The entries of a manifest that is let through can all be made: no two have
\* one path, and nothing but a directory is above any, whatever their order.
EntriesFit ==
    Accepted("manifest") =>
        \A i, j \in DOMAIN records :
            i # j => /\ NameOf(records[i]) # NameOf(records[j])
                     /\ IsStrictPrefix(NameOf(records[i]), NameOf(records[j])) =>
                            records[i].type = "directory"

Nowhere == <<"?">>

\* What is at a path once the tree is made.
IsDirectory(path) ==
    \/ path = <<>>
    \/ \E e \in Range(records) :
           \/ IsStrictPrefix(path, NameOf(e))
           \/ path = NameOf(e) /\ e.type = "directory"

\* How far a lookup has come: where it is, what is left to walk and how many
\* links it has followed.
LookupStates == [dir : Seq(Parts \cup {"/", "?"}), rest : Seq(Parts), followed : Nat]

Lost == [dir |-> Nowhere, rest |-> <<>>, followed |-> 0]

\* A lookup as the kernel makes it, of a link's text in the tree: a work list
\* of components, in front of which the text of each link met is put, unless
\* too many have been.  It is lost where there is no directory in the tree to go
\* on from, outside the root too.
LookupStep(text, s) ==
    LET part == Head(s.rest)
        here == Follow(s.dir, part)
        met == IF Named(part) THEN LinksAt(here) ELSE {}
    IN  IF ~ IsDirectory(s.dir) THEN Lost
        ELSE IF met = {} THEN [dir |-> here, rest |-> Tail(s.rest), followed |-> s.followed]
        ELSE IF s.followed >= MaxFollowed THEN Lost
        ELSE LET l == CHOOSE m \in met : TRUE
             IN  [dir |-> Start(l, text[l]), rest |-> text[l] \o Tail(s.rest),
                  followed |-> s.followed + 1]

\* Where a lookup ends that has come as far as s.
LookupFrom(text) ==
    LET place[s \in LookupStates] ==
            IF s.rest = <<>> THEN s.dir ELSE place[LookupStep(text, s)]
    IN  place

Lookup(text, l) ==
    LookupFrom(text)[[dir |-> Start(l, text[l]), rest |-> text[l], followed |-> 1]]

Recorded == [l \in Links |-> l.target]
Written == [l \in Links |-> (CHOOSE r \in Range(rendered) : r.link = l).target]

\* "Symlink targets are walked one component at a time with symlinks followed
\* at every component" (ContainedPaths): the place the gate finds a target to
\* name is the place a lookup of the recorded targets leads to, if it leads
\* anywhere: one through what is no directory, over too many links, or out of
\* the root and on from there, does not.  An escape shows where it ends a walk.
RealIsLookup ==
    Accepted("manifest") =>
        \A l \in Links : Lookup(Recorded, l) \in {RealTarget[l], Nowhere}

\* "renders each symlink's target relative to the link" (ContainedPaths): where
\* the recorded target leads, what is written leads to what the gate looked at,
\* in a tree without absolute targets that climb: with one, the text that is
\* normalized and the walk can differ.
PlainWrittenIsReal ==
    Accepted("manifest") /\ (\A l \in Links : Absolute(l.target) => ".." \notin Range(l.target))
        => \A l \in Links :
               Lookup(Recorded, l) # Nowhere => Lookup(Written, l) = RealTarget[l]

=============================================================================
