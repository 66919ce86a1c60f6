---------------------------- MODULE ManifestProofs ----------------------------
(***************************************************************************)
(* Theorems about Manifest, for any records, headers and sizes: what the   *)
(* loops of parse_chunkmap and ContainedPaths establish step by step, and  *)
(* that the links of a manifest they let through lead, looked up by the    *)
(* kernel, where they were found to lead.                                  *)
(***************************************************************************)
EXTENDS Manifest, TLAPS, WellFoundedInduction, SequenceTheorems

\* The first n chunks lie end to end, in order, from zero to o.
Tiled(n, o) ==
    /\ \A i \in 1 .. n : records[i].offset + records[i].length <= o
    /\ \A i, j \in 1 .. n :
           i < j => records[i].offset + records[i].length <= records[j].offset
    /\ \A b \in 0 .. o - 1 : \E i \in 1 .. n : b \in BytesOf(records[i])

\* The loop of parse_chunkmap, and its end.
ChunksInv ==
    /\ stage = "lines" => offset = 0
    /\ stage = "tiling" => object = "chunkmap" /\ Tiled(at - 1, offset)
    /\ Accepted("chunkmap") => offset = size /\ Tiled(Len(records), offset)

\* The names up to n differ.
Distinct(n) == \A i \in 1 .. n : \A j \in 1 .. i - 1 : NameOf(records[j]) # NameOf(records[i])

\* The two loops of ContainedPaths, and their end.
NamesInv ==
    /\ stage \in {"names", "links"} => object = "manifest"
    /\ stage = "names" => Distinct(at - 1)
    /\ stage = "links" \/ Accepted("manifest") => Distinct(Len(records))
    /\ stage = "links" => \A i \in 1 .. at - 1 : GoodAncestors(i)
    /\ Accepted("manifest") => \A i \in DOMAIN records : GoodAncestors(i)

\* If it is a link, its target has been looked at and rendered.
Checked(e) ==
    e.type = "symlink" => GoodTarget(e) /\ \E r \in Range(rendered) : r.link = e

\* The symlinks of the second loop.
LinksInv ==
    /\ stage = "links" => \A i \in 1 .. at - 1 : Checked(records[i])
    /\ Accepted("manifest") => \A i \in DOMAIN records : Checked(records[i])

IInv ==
    /\ TypeOK
    /\ rendered \in Seq(Range(rendered))
    /\ ChunksInv
    /\ NamesInv
    /\ LinksInv

-----------------------------------------------------------------------------

\* Init establishes the invariant.
LEMMA InitInv == Init => IInv
  <1> SUFFICES ASSUME Init PROVE IInv
    OBVIOUS
  <1>1. TypeOK
    BY DEF Init, TypeOK, Range
  <1>2. rendered \in Seq(Range(rendered))
    BY DEF Init
  <1>3. ChunksInv /\ NamesInv
    BY DEF Init, ChunksInv, NamesInv, Accepted
  <1>4. LinksInv
    BY DEF Init, LinksInv, Accepted
  <1> QED
    BY <1>1, <1>2, <1>3, <1>4 DEF IInv

\* Where links lead is a matter of the records alone.
LEMMA SameTarget == UNCHANGED records => \A e : GoodTarget(e)' = GoodTarget(e)
  <1> DEFINE At(recs, path) == {e \in Range(recs) : e.type = "symlink" /\ NameOf(e) = path}
             Walk(recs, l, next) ==
                 LET dir[i \in 0 .. Len(l.target)] ==
                         IF i = 0 THEN Start(l, l.target)
                         ELSE LET here == Follow(dir[i - 1], l.target[i])
                              IN  IF Named(l.target[i]) /\ At(recs, here) # {}
                                  THEN next[CHOOSE m \in At(recs, here) : TRUE]
                                  ELSE here
                 IN  dir[Len(l.target)]
             Real(recs) ==
                 LET real[hops \in 0 .. MaxHops + 1] ==
                         [l \in {e \in Range(recs) : e.type = "symlink"} |->
                             IF Unusable(l.target) \/ hops > MaxHops THEN Escapes
                             ELSE Walk(recs, l, real[hops + 1])]
                 IN  real[0]
  <1>1. RealTarget = Real(records) /\ RealTarget' = Real(records')
    BY DEF RealTarget, WalkTarget, Links, LinksAt
  <1> HIDE DEF Real
  <1>2. UNCHANGED records => RealTarget' = RealTarget
    BY <1>1
  <1> QED
    BY <1>2 DEF GoodTarget

\* So a step that leaves the records alone and drops nothing rendered keeps what
\* has been checked.
LEMMA SameChecked ==
    ASSUME UNCHANGED records, Range(rendered) \subseteq Range(rendered)'
    PROVE  \A e : Checked(e) => Checked(e)'
  BY SameTarget DEF Checked

\* Refusing keeps the invariant, wherever it happens.
LEMMA RefuseInv == ASSUME IInv, Refuse PROVE IInv'
  BY DEF IInv, Refuse, Goto, TypeOK, ChunksInv, NamesInv, LinksInv, Accepted

\* So does a step that changes nothing.
LEMMA StutterInv == ASSUME IInv, UNCHANGED vars PROVE IInv'
  <1>1. LinksInv'
    BY SameChecked DEF IInv, vars, LinksInv, Accepted
  <1> QED
    BY <1>1 DEF IInv, vars, TypeOK, ChunksInv, Tiled, NamesInv, Distinct, GoodAncestors, Accepted

\* The lines are read.
LEMMA ReadHeaderInv == ASSUME IInv, ReadHeader PROVE IInv'
  <1>1. CASE Refuse
    BY <1>1, RefuseInv
  <1>2. CASE header' \in Headers[object] /\ UNCHANGED <<object, size, stage, records, at, offset, rendered>>
    <2>1. TypeOK'
      BY <1>2 DEF IInv, ReadHeader, TypeOK
    <2> QED
      BY <1>2, <2>1 DEF IInv, ReadHeader, ChunksInv, NamesInv, LinksInv, Accepted
  <1> QED
    BY <1>1, <1>2 DEF ReadHeader

LEMMA ReadRecordInv == ASSUME IInv, ReadRecord PROVE IInv'
  <1> PICK r \in Records[object] : records' = Append(records, r)
    BY DEF ReadRecord
  <1> USE DEF ReadRecord
  <1>1. records' \in Seq(Records[object]) /\ Len(records') = Len(records) + 1
    BY DEF IInv, TypeOK
  <1>2. Range(records) \subseteq Range(records')
    <2>1. \A i \in DOMAIN records : i \in DOMAIN records' /\ records'[i] = records[i]
      BY DEF IInv, TypeOK
    <2> QED
      BY <2>1 DEF Range
  <1>3. TypeOK'
    <2>1. at \in 1 .. Len(records') + 1
      BY <1>1 DEF IInv, TypeOK
    <2> QED
      BY <1>1, <1>2, <2>1 DEF IInv, TypeOK
  <1> QED
    BY <1>3 DEF IInv, ChunksInv, NamesInv, LinksInv, Accepted

\* The end of the lines starts one of the loops, at its first record.
LEMMA EndOfLinesInv == ASSUME IInv, EndOfLines PROVE IInv'
  <1> DEFINE announced == IF object = "manifest" THEN header # NoHeader
                          ELSE header = [count |-> Len(records), size |-> size]
  <1>1. CASE Refuse
    BY <1>1, RefuseInv
  <1>2. CASE announced /\ Goto(IF object = "manifest" THEN "names" ELSE "tiling")
             /\ UNCHANGED <<object, size, header, records, offset, rendered>>
    <2>1. object \in {"manifest", "chunkmap"} /\ stage = "lines" /\ offset = 0 /\ at' = 1
      BY <1>2 DEF IInv, TypeOK, Objects, EndOfLines, ChunksInv, Goto
    <2>2. Len(records) \in Nat
      BY DEF IInv, TypeOK
    <2>3. header # NoHeader
      BY <1>2, <2>2 DEF NoHeader
    <2>4. TypeOK'
      BY <1>2, <2>1, <2>2, <2>3 DEF IInv, TypeOK, Goto
    <2>5. ChunksInv'
      BY <1>2, <2>1 DEF ChunksInv, Goto, Tiled, Accepted
    <2>6. NamesInv' /\ LinksInv'
      BY <1>2, <2>1 DEF NamesInv, LinksInv, Goto, Distinct, Accepted
    <2> QED
      BY <1>2, <2>4, <2>5, <2>6 DEF IInv
  <1> QED
    BY <1>1, <1>2 DEF EndOfLines

\* A chunk that starts where the last one ended extends the tiling.
LEMMA CheckChunkInv == ASSUME IInv, CheckChunk PROVE IInv'
  <1>1. CASE Refuse
    BY <1>1, RefuseInv
  <1>2. CASE /\ records[at].offset = offset
             /\ offset' = offset + records[at].length
             /\ at' = at + 1
             /\ UNCHANGED <<object, size, stage, header, records, rendered>>
    <2>1. object = "chunkmap" /\ stage = "tiling" /\ Tiled(at - 1, offset)
      BY DEF IInv, CheckChunk, ChunksInv
    <2>2. at \in 1 .. Len(records) /\ Len(records) \in Nat /\ offset \in Nat
      BY DEF IInv, TypeOK, CheckChunk
    <2>3. \A i \in 1 .. Len(records) : records[i].offset \in Nat /\ records[i].length \in Nat
      BY <2>1, ChunksAssumption DEF IInv, TypeOK
    <2>4. TypeOK'
      BY <1>2, <2>2, <2>3 DEF IInv, TypeOK
    <2>5. ASSUME NEW o \in Nat, o = offset + records[at].length
          PROVE  Tiled(at, o)
      <3>1. \A i \in 1 .. at : i = at \/ i \in 1 .. at - 1
        BY <2>2
      <3>2. \A i \in 1 .. at - 1 : i \in 1 .. Len(records)
        BY <2>2
      <3>3. ASSUME NEW i \in 1 .. at PROVE records[i].offset + records[i].length <= o
        <4>1. CASE i = at
          BY <1>2, <2>2, <2>3, <2>5, <4>1
        <4>2. CASE i \in 1 .. at - 1
          <5>1. records[i].offset + records[i].length <= offset
            BY <2>1, <4>2 DEF Tiled
          <5> QED
            BY <2>2, <2>3, <2>5, <3>2, <4>2, <5>1
        <4> QED
          BY <3>1, <4>1, <4>2
      <3>4. \A i, j \in 1 .. at :
                i < j => records[i].offset + records[i].length <= records[j].offset
        BY <1>2, <2>1, <2>2, <2>3, <3>1, <3>2 DEF Tiled
      <3>5. ASSUME NEW b \in 0 .. o - 1
            PROVE  \E i \in 1 .. at : b \in BytesOf(records[i])
        <4>1. CASE b < offset
          <5>1. b \in 0 .. offset - 1
            BY <2>2, <4>1
          <5> PICK i \in 1 .. at - 1 : b \in BytesOf(records[i])
            BY <2>1, <5>1 DEF Tiled
          <5> QED
            BY <2>2
        <4>2. CASE b >= offset
          <5>1. at \in 1 .. at /\ b \in BytesOf(records[at])
            BY <1>2, <2>2, <2>3, <2>5, <4>2 DEF BytesOf
          <5> QED
            BY <5>1
        <4> QED
          BY <2>2, <2>3, <2>5, <4>1, <4>2
      <3>6. \A b \in 0 .. o - 1 :
                \E i \in 1 .. at : b \in BytesOf(records[i])
        BY <3>5
      <3> QED
        BY <3>3, <3>4, <3>6 DEF Tiled
    <2>6. ChunksInv'
      <3>1. at' - 1 = at
        BY <1>2, <2>2
      <3>2. offset' \in Nat /\ offset' = offset + records[at].length
        BY <1>2, <2>2, <2>3
      <3>3. Tiled(at, offset')
        BY <2>5, <3>2
      <3> QED
        BY <1>2, <2>1, <3>1, <3>3 DEF ChunksInv, Tiled, Accepted
    <2> QED
      BY <1>2, <2>1, <2>4, <2>6 DEF IInv, NamesInv, LinksInv, Accepted
  <1> QED
    BY <1>1, <1>2 DEF CheckChunk

LEMMA ChunksDoneInv == ASSUME IInv, ChunksDone PROVE IInv'
  <1>1. at - 1 = Len(records) /\ Len(records) \in Nat
    BY DEF IInv, TypeOK, ChunksDone
  <1>2. object = "chunkmap" /\ Tiled(Len(records), offset)
    BY <1>1 DEF IInv, ChunksInv, ChunksDone
  <1>3. TypeOK'
    BY <1>1 DEF IInv, TypeOK, ChunksDone, Goto
  <1>4. ChunksInv' /\ NamesInv' /\ LinksInv'
    BY <1>2 DEF ChunksInv, NamesInv, LinksInv, ChunksDone, Goto, Tiled, Accepted
  <1> QED
    BY <1>3, <1>4 DEF IInv, ChunksDone

\* A name that none of the names before it equals.
LEMMA CheckNameInv == ASSUME IInv, CheckName PROVE IInv'
  <1>1. CASE Refuse
    BY <1>1, RefuseInv
  <1>2. CASE /\ GoodName(at)
             /\ at' = at + 1
             /\ UNCHANGED <<object, size, stage, header, records, offset, rendered>>
    <2>1. stage = "names" /\ Distinct(at - 1)
      BY DEF IInv, CheckName, NamesInv
    <2>2. at \in 1 .. Len(records) /\ Len(records) \in Nat
      BY DEF IInv, TypeOK, CheckName
    <2>3. TypeOK'
      BY <1>2, <2>2 DEF IInv, TypeOK
    <2>4. Distinct(at)
      <3>1. \A i \in 1 .. at : i = at \/ i \in 1 .. at - 1
        BY <2>2
      <3> QED
        BY <1>2, <2>1, <3>1 DEF Distinct, GoodName
    <2>5. NamesInv'
      <3>1. at' - 1 = at
        BY <1>2, <2>2
      <3> QED
        BY <1>2, <2>1, <2>4, <3>1 DEF IInv, NamesInv, Distinct, Accepted
    <2> QED
      BY <1>2, <2>1, <2>3, <2>5 DEF IInv, ChunksInv, LinksInv, Accepted
  <1> QED
    BY <1>1, <1>2 DEF CheckName

LEMMA NamesDoneInv == ASSUME IInv, NamesDone PROVE IInv'
  <1>1. at - 1 = Len(records) /\ Len(records) \in Nat
    BY DEF IInv, TypeOK, NamesDone
  <1>2. object = "manifest" /\ Distinct(Len(records))
    BY <1>1 DEF IInv, NamesInv, NamesDone
  <1>3. TypeOK'
    BY <1>1 DEF IInv, TypeOK, NamesDone, Goto
  <1>4. ChunksInv' /\ NamesInv' /\ LinksInv'
    BY <1>2 DEF ChunksInv, NamesInv, LinksInv, NamesDone, Goto, Distinct, Accepted
  <1> QED
    BY <1>3, <1>4 DEF IInv, NamesDone

\* An entry with nothing but directories above it; a symlink is rendered.
LEMMA CheckLinkInv == ASSUME IInv, CheckLink PROVE IInv'
  <1> DEFINE e == records[at]
             link == [link |-> e, target |-> Render(e)]
  <1>1. CASE Refuse
    BY <1>1, RefuseInv
  <1>2. CASE /\ GoodAncestors(at) /\ (e.type = "symlink" => GoodTarget(e))
             /\ rendered' = IF e.type # "symlink" THEN rendered ELSE Append(rendered, link)
             /\ at' = at + 1
             /\ UNCHANGED <<object, size, stage, header, records, offset>>
    <2>1. stage = "links" /\ object = "manifest" /\ Distinct(Len(records))
      BY DEF IInv, CheckLink, NamesInv
    <2>2. at \in 1 .. Len(records) /\ Len(records) \in Nat /\ e \in Range(records)
      BY DEF IInv, TypeOK, CheckLink, Range
    <2>3. /\ rendered' \in Seq(Range(rendered'))
          /\ Range(rendered') \subseteq Range(rendered) \cup {link}
          /\ Range(rendered) \subseteq Range(rendered')
          /\ e.type = "symlink" => link \in Range(rendered')
      <3>1. CASE e.type # "symlink" /\ rendered' = rendered
        BY <3>1 DEF IInv
      <3>2. CASE rendered' = Append(rendered, link)
        <4>1. /\ rendered' \in Seq(Range(rendered) \cup {link})
              /\ Len(rendered) \in Nat /\ Len(rendered') = Len(rendered) + 1
              /\ \A i \in 1 .. Len(rendered) : rendered'[i] = rendered[i]
              /\ rendered'[Len(rendered) + 1] = link
          BY <3>2 DEF IInv
        <4>2. DOMAIN rendered' = 1 .. Len(rendered') /\ DOMAIN rendered = 1 .. Len(rendered)
          BY <4>1 DEF IInv
        <4>3. Range(rendered) \subseteq Range(rendered')
          <5>1. \A i \in DOMAIN rendered : i \in DOMAIN rendered' /\ rendered'[i] = rendered[i]
            BY <4>1, <4>2
          <5> QED
            BY <5>1 DEF Range
        <4>4. link \in Range(rendered')
          <5>1. Len(rendered) + 1 \in DOMAIN rendered'
            BY <4>1, <4>2
          <5> QED
            BY <4>1, <5>1 DEF Range
        <4> QED
          BY <4>1, <4>2, <4>3, <4>4 DEF Range
      <3> QED
        BY <1>2, <3>1, <3>2
    <2>4. TypeOK'
      BY <1>2, <2>2, <2>3 DEF IInv, TypeOK
    <2>5. \A i \in 1 .. at : GoodAncestors(i)
      <3>1. \A i \in 1 .. at : i = at \/ i \in 1 .. at - 1
        BY <2>2
      <3> QED
        BY <1>2, <2>1, <3>1 DEF IInv, NamesInv
    <2>6. NamesInv'
      <3>1. at' - 1 = at
        BY <1>2, <2>2
      <3> QED
        BY <1>2, <2>1, <2>5, <3>1 DEF NamesInv, Distinct, GoodAncestors, Accepted
    <2>7. LinksInv'
      <3>1. ASSUME NEW i \in 1 .. at PROVE Checked(records[i])'
        <4>1. CASE i = at
          <5>1. PICK x : x = e
            OBVIOUS
          <5>2. x.type = "symlink" => GoodTarget(x)'
            BY <1>2, <5>1, SameTarget
          <5>3. x.type = "symlink" => \E r \in Range(rendered') : r.link = x
            BY <2>3, <5>1
          <5>4. Checked(x)'
            BY <5>2, <5>3 DEF Checked
          <5> QED
            BY <1>2, <4>1, <5>1, <5>4
        <4>2. CASE i \in 1 .. at - 1
          <5>1. Checked(records[i])
            BY <2>1, <4>2 DEF IInv, LinksInv
          <5>2. Checked(records[i])'
            BY <1>2, <2>3, <5>1, SameChecked
          <5> QED
            BY <5>2
        <4> QED
          BY <2>2, <4>1, <4>2
      <3>2. at' - 1 = at /\ stage' = "links"
        BY <1>2, <2>1, <2>2
      <3> QED
        BY <3>1, <3>2 DEF LinksInv, Accepted
    <2> QED
      BY <1>2, <2>1, <2>3, <2>4, <2>6, <2>7 DEF IInv, ChunksInv, Accepted
  <1> QED
    BY <1>1, <1>2 DEF CheckLink

LEMMA LinksDoneInv == ASSUME IInv, LinksDone PROVE IInv'
  <1>1. at - 1 = Len(records) /\ Len(records) \in Nat /\ DOMAIN records = 1 .. Len(records)
    BY DEF IInv, TypeOK, LinksDone
  <1>2. /\ object = "manifest" /\ Distinct(Len(records))
        /\ \A i \in DOMAIN records : GoodAncestors(i)
    BY <1>1 DEF IInv, NamesInv, LinksDone
  <1>3. TypeOK'
    BY <1>1 DEF IInv, TypeOK, LinksDone, Goto
  <1>4. ChunksInv' /\ NamesInv'
    BY <1>2 DEF ChunksInv, NamesInv, LinksDone, Goto, Distinct, GoodAncestors, Accepted
  <1>5. LinksInv'
    <2>1. \A i \in DOMAIN records : Checked(records[i])
      BY <1>1 DEF IInv, LinksInv, LinksDone
    <2>2. \A x : Checked(x) => Checked(x)'
      BY SameChecked DEF LinksDone
    <2>3. records' = records /\ stage' = "accepted"
      BY DEF LinksDone, Goto
    <2>4. \A i \in DOMAIN records : Checked(records[i])'
      BY <2>1, <2>2, <2>3
    <2> QED
      BY <2>3, <2>4 DEF LinksInv
  <1> QED
    BY <1>3, <1>4, <1>5 DEF IInv, LinksDone

-----------------------------------------------------------------------------

\* The invariant holds of every read.
LEMMA InvAlways == Spec => []IInv
  <1>1. IInv /\ [Next]_vars => IInv'
    BY RefuseInv, StutterInv, ReadHeaderInv, ReadRecordInv, EndOfLinesInv, CheckChunkInv,
       ChunksDoneInv, CheckNameInv, NamesDoneInv, CheckLinkInv, LinksDoneInv
       DEF Next, ReadUnusable
  <1> QED
    BY <1>1, InitInv, PTL DEF Spec

\* A read keeps its types and goes nowhere but to "refused" without a header
\* (parse_manifest, parse_chunkmap, ContainedPaths).
THEOREM ManifestType == Spec => []TypeOK
  <1>1. IInv => TypeOK
    BY DEF IInv
  <1> QED
    BY <1>1, InvAlways, PTL

\* The chunks of an accepted chunkmap tile the file, whatever its header, its
\* records and their lengths: every byte is in one of them, none is beyond the
\* file (parse_chunkmap).
THEOREM ChunkmapTiles == Spec => []ChunksTile
  <1>1. ASSUME IInv, Accepted("chunkmap")
        PROVE  /\ \A i \in DOMAIN records : BytesOf(records[i]) \subseteq 0 .. size - 1
               /\ \A b \in 0 .. size - 1 :
                      \E i \in DOMAIN records :
                          /\ b \in BytesOf(records[i])
                          /\ \A j \in DOMAIN records : b \in BytesOf(records[j]) => j = i
    <2>1. offset = size /\ Tiled(Len(records), offset)
      BY <1>1 DEF IInv, ChunksInv
    <2>2. DOMAIN records = 1 .. Len(records) /\ Len(records) \in Nat /\ size \in Nat
      BY <1>1, <2>1 DEF IInv, TypeOK
    <2>3. \A i \in DOMAIN records : records[i].offset \in Nat /\ records[i].length \in Nat
      BY <1>1, ChunksAssumption DEF IInv, TypeOK, Accepted
    <2>4. \A i \in DOMAIN records : BytesOf(records[i]) \subseteq 0 .. size - 1
      BY <2>1, <2>2, <2>3 DEF Tiled, BytesOf
    <2>5. ASSUME NEW b, NEW i \in DOMAIN records, NEW j \in DOMAIN records,
                 b \in BytesOf(records[i]), b \in BytesOf(records[j]), i < j
          PROVE  FALSE
      <3>1. records[i].offset + records[i].length <= records[j].offset
        BY <2>1, <2>2, <2>5 DEF Tiled
      <3>2. b \in Int /\ b < records[i].offset + records[i].length /\ b >= records[j].offset
        BY <2>3, <2>5 DEF BytesOf
      <3> QED
        BY <2>3, <3>1, <3>2
    <2>6. ASSUME NEW b \in 0 .. size - 1
          PROVE  \E i \in DOMAIN records :
                     /\ b \in BytesOf(records[i])
                     /\ \A j \in DOMAIN records : b \in BytesOf(records[j]) => j = i
      <3> PICK i \in DOMAIN records : b \in BytesOf(records[i])
        BY <2>1, <2>2 DEF Tiled
      <3>1. ASSUME NEW j \in DOMAIN records, b \in BytesOf(records[j]) PROVE j = i
        BY <2>2, <2>5, <3>1
      <3> QED
        BY <3>1
    <2> QED
      BY <2>4, <2>6
  <1>2. IInv => ChunksTile
    BY <1>1 DEF ChunksTile
  <1> QED
    BY <1>2, InvAlways, PTL

\* Of an accepted manifest no two entries have one path and none is below
\* anything but a directory, whatever the order of its lines (ContainedPaths).
THEOREM ManifestFits == Spec => []EntriesFit
  <1>1. ASSUME IInv, Accepted("manifest"),
               NEW i \in DOMAIN records, NEW j \in DOMAIN records, i # j
        PROVE  /\ NameOf(records[i]) # NameOf(records[j])
               /\ IsStrictPrefix(NameOf(records[i]), NameOf(records[j])) =>
                      records[i].type = "directory"
    <2>1. DOMAIN records = 1 .. Len(records) /\ Len(records) \in Nat
      BY <1>1 DEF IInv, TypeOK
    <2>2. Distinct(Len(records)) /\ GoodAncestors(j)
      BY <1>1 DEF IInv, NamesInv
    <2>3. i \in 1 .. j - 1 \/ j \in 1 .. i - 1
      BY <1>1, <2>1
    <2>4. NameOf(records[i]) # NameOf(records[j])
      BY <2>1, <2>2, <2>3 DEF Distinct
    <2>5. records[i] \in Range(records)
      BY DEF Range
    <2> QED
      BY <2>2, <2>4, <2>5 DEF GoodAncestors
  <1>2. IInv => EntriesFit
    BY <1>1 DEF EntriesFit
  <1> QED
    BY <1>2, InvAlways, PTL

-----------------------------------------------------------------------------
(***************************************************************************)
(* Lookups.  Numbers and names first.                                      *)
(***************************************************************************)

\* Among natural numbers there is a smallest one.
LEMMA Smallest ==
    ASSUME NEW T, T \subseteq Nat, T # {}
    PROVE  \E x \in T : \A y \in T : x <= y
  <1> DEFINE R == OpToRel(<, Nat)
  <1>1. IsWellFoundedOn(R, Nat)
    BY NatLessThanWellFounded
  <1>2. PICK x \in T : \A y \in T : ~ (<<y, x>> \in R)
    <2> HIDE DEF R
    <2> QED
      BY <1>1, WFMin
  <1>3. \A y \in T : ~ (y < x)
    BY <1>2 DEF OpToRel
  <1>4. ASSUME NEW y \in T PROVE x <= y
    <2>1. x \in Nat /\ y \in Nat
      BY <1>2
    <2> QED
      BY <2>1, <1>3
  <1> QED
    BY <1>4, <1>2

\* Induction over the natural numbers, of a set in place of an operator.
LEMMA NatSet ==
    ASSUME NEW S, 0 \in S, \A n \in Nat : n \in S => n + 1 \in S
    PROVE  Nat \subseteq S
  <1> SUFFICES ASSUME NEW n \in Nat, n \notin S PROVE FALSE
    OBVIOUS
  <1> DEFINE T == Nat \ S
  <1>1. T \subseteq Nat /\ T # {}
    OBVIOUS
  <1>2. PICK m \in T : \A k \in T : m <= k
    <2> HIDE DEF T
    <2> QED
      BY <1>1, Smallest
  <1>3. m # 0 /\ m - 1 \in Nat /\ (m - 1) + 1 = m
    BY <1>2
  <1>4. m - 1 \in T
    BY <1>3
  <1> QED
    BY <1>2, <1>3, <1>4

\* What the name of an entry is made of.
LEMMA CleanIs ==
    ASSUME NEW text \in Seq(Parts), text # <<>>
    PROVE  \E f \in 1 .. Len(text) : Clean(text) = SubSeq(text, f, Len(text))
  <1> DEFINE named == {i \in DOMAIN text : text[i] # "" \/ i = Len(text)}
             first == CHOOSE i \in named : \A j \in named : i <= j
  <1>1. DOMAIN text = 1 .. Len(text) /\ Len(text) \in Nat /\ Len(text) # 0
    BY LenProperties
  <1>2. named \subseteq Nat /\ named # {} /\ named \subseteq 1 .. Len(text)
    <2>1. Len(text) \in named
      <3>1. Len(text) \in DOMAIN text
        BY <1>1
      <3> QED
        BY <3>1, Zenon
    <2>2. named \subseteq 1 .. Len(text)
      BY <1>1
    <2>3. 1 .. Len(text) \subseteq Nat
      BY <1>1
    <2> HIDE DEF named
    <2> QED
      BY <2>1, <2>2, <2>3
  <1>3. \E i \in named : \A j \in named : i <= j
    <2> HIDE DEF named
    <2> QED
      BY <1>2, Smallest
  <1>4. first \in named
    <2> HIDE DEF named
    <2> QED
      BY <1>3
  <1>5. Clean(text) = SubSeq(text, first, Len(text))
    BY DEF Clean
  <1> HIDE DEF first
  <1> QED
    BY <1>2, <1>4, <1>5

\* Names are sequences of components and a directory is all of the name of its
\* entry but the last.
LEMMA NameType ==
    ASSUME NEW e \in Records["manifest"]
    PROVE  /\ NameOf(e) \in Seq(Parts) /\ NameOf(e) # <<>>
           /\ DirOf(e) \in Seq(Parts) /\ Len(DirOf(e)) = Len(NameOf(e)) - 1
           /\ \A i \in 1 .. Len(DirOf(e)) : DirOf(e)[i] = NameOf(e)[i]
  <1>1. e.path \in Seq(Parts) /\ e.path # <<>>
    BY EntriesAssumption
  <1>2. PICK f \in 1 .. Len(e.path) : Clean(e.path) = SubSeq(e.path, f, Len(e.path))
    BY <1>1, CleanIs
  <1>3. Len(e.path) \in Nat
    BY <1>1
  <1>4. NameOf(e) \in Seq(Parts) /\ Len(NameOf(e)) = Len(e.path) - f + 1
    BY <1>1, <1>2, <1>3 DEF NameOf
  <1>5. NameOf(e) # <<>> /\ Len(NameOf(e)) >= 1 /\ Len(NameOf(e)) \in Nat
    BY <1>3, <1>4
  <1>6. /\ DirOf(e) \in Seq(Parts) /\ Len(DirOf(e)) = Len(NameOf(e)) - 1
        /\ \A i \in 1 .. Len(DirOf(e)) : DirOf(e)[i] = NameOf(e)[i]
    BY <1>4, <1>5 DEF DirOf, Front
  <1> QED
    BY <1>4, <1>5, <1>6

\* No path inside the tree is the walk that left it.
LEMMA Inside == \A path \in Seq(Parts) : path # Escapes
  <1> SUFFICES ASSUME Escapes \in Seq(Parts) PROVE FALSE
    OBVIOUS
  <1>1. Escapes[1] = "/" /\ Len(Escapes) = 1
    BY DEF Escapes
  <1>2. ASSUME NEW s \in Seq(Parts), Len(s) = 1 PROVE s[1] \in Parts
    BY <1>2, ElementOfSeq
  <1> QED
    BY <1>1, <1>2, EntriesAssumption

-----------------------------------------------------------------------------
(***************************************************************************)
(* The walk of a target and the real targets: the recursive functions by   *)
(* which they are defined exist, and do at each step what _real_target does. *)
(***************************************************************************)

\* Where component i of the target of l leads from here.
Turn(l, next, here, i) ==
    IF Named(l.target[i]) /\ LinksAt(Follow(here, l.target[i])) # {}
    THEN next[CHOOSE m \in LinksAt(Follow(here, l.target[i])) : TRUE]
    ELSE Follow(here, l.target[i])

\* g is the first n components of the walk.
IsTargetWalk(g, l, next, n) ==
    g = [i \in 0 .. n |-> IF i = 0 THEN Start(l, l.target) ELSE Turn(l, next, g[i - 1], i)]

\* The walk can be taken, however long it is.
LEMMA TargetWalkExists ==
    ASSUME NEW l, NEW next
    PROVE  \A n \in Nat : \E g : IsTargetWalk(g, l, next, n)
  <1> DEFINE S == {n \in Nat : \E g : IsTargetWalk(g, l, next, n)}
  <1>1. 0 \in S
    <2>1. IsTargetWalk([i \in 0 .. 0 |-> Start(l, l.target)], l, next, 0)
      BY DEF IsTargetWalk
    <2> QED
      BY <2>1
  <1>2. ASSUME NEW n \in Nat, n \in S PROVE n + 1 \in S
    <2>1. PICK g : IsTargetWalk(g, l, next, n)
      BY <1>2
    <2> DEFINE h == [i \in 0 .. n + 1 |->
                        IF i = n + 1 THEN Turn(l, next, g[n], n + 1) ELSE g[i]]
    <2>2. \A i \in 0 .. n : h[i] = g[i]
      BY <1>2
    <2>3. \A i \in 0 .. n : g[i] = IF i = 0 THEN Start(l, l.target) ELSE Turn(l, next, g[i - 1], i)
      BY <2>1 DEF IsTargetWalk
    <2>4. ASSUME NEW i \in 0 .. n + 1
          PROVE  h[i] = IF i = 0 THEN Start(l, l.target) ELSE Turn(l, next, h[i - 1], i)
      <3>1. CASE i = n + 1
        <4>1. i # 0 /\ i - 1 = n /\ n \in 0 .. n
          BY <1>2, <3>1
        <4> QED
          BY <2>2, <3>1, <4>1
      <3>2. CASE i # n + 1
        <4>1. i \in 0 .. n /\ (i # 0 => i - 1 \in 0 .. n)
          BY <1>2, <2>4, <3>2
        <4> QED
          BY <2>2, <2>3, <3>2, <4>1
      <3> QED
        BY <3>1, <3>2
    <2>5. h = [i \in 0 .. n + 1 |-> h[i]]
      OBVIOUS
    <2> HIDE DEF h
    <2>6. IsTargetWalk(h, l, next, n + 1)
      BY <2>4, <2>5 DEF IsTargetWalk
    <2> QED
      BY <2>6
  <1> HIDE DEF S
  <1>3. Nat \subseteq S
    BY <1>1, <1>2, NatSet
  <1> QED
    BY <1>3 DEF S

\* So WalkTarget is where it ends.
LEMMA WalkTargetWalks ==
    ASSUME NEW l, Len(l.target) \in Nat, NEW next
    PROVE  \E g : /\ g[0] = Start(l, l.target)
                  /\ \A i \in 1 .. Len(l.target) : g[i] = Turn(l, next, g[i - 1], i)
                  /\ WalkTarget(l, next) = g[Len(l.target)]
  <1> DEFINE g == CHOOSE g : IsTargetWalk(g, l, next, Len(l.target))
  <1>1. WalkTarget(l, next) = g[Len(l.target)]
    BY DEF WalkTarget, IsTargetWalk, Turn
  <1>2. IsTargetWalk(g, l, next, Len(l.target))
    BY TargetWalkExists
  <1> HIDE DEF g
  <1>3. \A i \in 0 .. Len(l.target) :
            g[i] = IF i = 0 THEN Start(l, l.target) ELSE Turn(l, next, g[i - 1], i)
    BY <1>2 DEF IsTargetWalk
  <1>4. 0 \in 0 .. Len(l.target) /\ \A i \in 1 .. Len(l.target) : i \in 0 .. Len(l.target) /\ i # 0
    OBVIOUS
  <1> QED
    BY <1>1, <1>3, <1>4

\* The real targets at a hop, those one hop deeper being next.
Reals(next, hops) ==
    [l \in Links |-> IF Unusable(l.target) \/ hops > MaxHops THEN Escapes ELSE WalkTarget(l, next)]

\* g holds the real targets from the hops lowest on.
IsReal(g, lowest) == g = [hops \in lowest .. MaxHops + 1 |-> Reals(g[hops + 1], hops)]

\* There is such a function, from the last hop down.
LEMMA RealExists == \E g : IsReal(g, 0)
  <1> DEFINE S == {n \in Nat : n <= MaxHops + 1 => \E g : IsReal(g, MaxHops + 1 - n)}
  <1> USE HopsAssumption
  <1>1. 0 \in S
    <2> DEFINE last == [l \in Links |-> Escapes]
               g == [hops \in MaxHops + 1 .. MaxHops + 1 |-> last]
    <2>1. \A next : Reals(next, MaxHops + 1) = last
      BY DEF Reals
    <2> HIDE DEF last
    <2>2. IsReal(g, MaxHops + 1)
      BY <2>1 DEF IsReal
    <2>3. MaxHops + 1 - 0 = MaxHops + 1
      OBVIOUS
    <2> QED
      BY <2>2, <2>3
  <1>2. ASSUME NEW n \in Nat, n \in S PROVE n + 1 \in S
    <2> SUFFICES ASSUME n + 1 <= MaxHops + 1
                 PROVE  \E g : IsReal(g, MaxHops + 1 - (n + 1))
      OBVIOUS
    <2> DEFINE k == MaxHops - n
    <2>0. k \in Nat /\ k <= MaxHops /\ MaxHops + 1 - n = k + 1 /\ MaxHops + 1 - (n + 1) = k
      BY <1>2
    <2> HIDE DEF k
    <2>1. PICK g : IsReal(g, k + 1)
      BY <1>2, <2>0
    <2> DEFINE h == [hops \in k .. MaxHops + 1 |->
                        IF hops = k THEN Reals(g[k + 1], k) ELSE g[hops]]
    <2>2. \A hops \in k + 1 .. MaxHops + 1 : h[hops] = g[hops]
      BY <2>0
    <2>3. \A hops \in k + 1 .. MaxHops + 1 : g[hops] = Reals(g[hops + 1], hops)
      BY <2>1 DEF IsReal
    <2>7. \A x, y : Reals(x, MaxHops + 1) = Reals(y, MaxHops + 1)
      BY DEF Reals
    <2>4. ASSUME NEW hops \in k .. MaxHops + 1
          PROVE  h[hops] = Reals(h[hops + 1], hops)
      <3>1. CASE hops = k
        <4>1. k + 1 \in k + 1 .. MaxHops + 1
          BY <2>0
        <4>2. h[hops + 1] = g[k + 1]
          BY <2>2, <3>1, <4>1
        <4> QED
          BY <3>1, <4>2
      <3>2. CASE hops # k /\ hops # MaxHops + 1
        <4>1. hops \in k + 1 .. MaxHops + 1 /\ hops + 1 \in k + 1 .. MaxHops + 1
          BY <2>0, <2>4, <3>2
        <4>2. h[hops + 1] = g[hops + 1] /\ h[hops] = g[hops]
          BY <2>2, <4>1
        <4>3. g[hops] = Reals(g[hops + 1], hops)
          BY <2>3, <4>1
        <4> QED
          BY <4>2, <4>3
      <3>3. CASE hops = MaxHops + 1
        <4>1. hops \in k + 1 .. MaxHops + 1
          BY <2>0, <3>3
        <4>2. h[hops] = g[hops]
          BY <2>2, <4>1
        <4>3. g[hops] = Reals(g[hops + 1], hops)
          BY <2>3, <4>1
        <4> QED
          BY <2>7, <3>3, <4>2, <4>3
      <3> QED
        BY <3>1, <3>2, <3>3
    <2>5. h = [hops \in k .. MaxHops + 1 |-> h[hops]]
      OBVIOUS
    <2> HIDE DEF h
    <2>6. IsReal(h, k)
      BY <2>4, <2>5 DEF IsReal
    <2> QED
      BY <2>0, <2>6
  <1> HIDE DEF S
  <1>3. MaxHops + 1 \in S
    BY <1>1, <1>2, NatSet
  <1>4. MaxHops + 1 - (MaxHops + 1) = 0
    OBVIOUS
  <1> QED
    BY <1>3, <1>4 DEF S

\* The real targets: a link on the way leads where it leads one hop deeper.
LEMMA RealTargets ==
    \E real : /\ RealTarget = real[0]
              /\ \A hops \in 0 .. MaxHops + 1 : real[hops] = Reals(real[hops + 1], hops)
  <1> DEFINE real == CHOOSE g : IsReal(g, 0)
  <1>1. RealTarget = real[0]
    BY DEF RealTarget, IsReal, Reals
  <1>2. IsReal(real, 0)
    BY RealExists
  <1> HIDE DEF real
  <1>3. \A hops \in 0 .. MaxHops + 1 : real[hops] = Reals(real[hops + 1], hops)
    BY <1>2 DEF IsReal
  <1> QED
    BY <1>1, <1>3

-----------------------------------------------------------------------------
(***************************************************************************)
(* What is left of a text, and what is known of a walk.                    *)
(***************************************************************************)

\* What is left of a text after its first i components.
After(s, i) == SubSeq(s, i + 1, Len(s))

\* Before anything is walked all of the text is left, at its end nothing.
LEMMA AfterIs ==
    ASSUME NEW s \in Seq(Parts), NEW r \in Seq(Parts)
    PROVE  After(s, 0) \o r = s \o r /\ After(s, Len(s)) \o r = r
  <1>1. After(s, 0) = s
    BY DEF After
  <1>2. After(s, Len(s)) \o r = r
    <2>1. After(s, Len(s)) = <<>>
      BY DEF After
    <2> QED
      BY <2>1
  <1> QED
    BY <1>1, <1>2

\* A component is taken off what is left.
LEMMA AfterNext ==
    ASSUME NEW s \in Seq(Parts), NEW r \in Seq(Parts), NEW i \in 0 .. Len(s) - 1
    PROVE  /\ After(s, i) \o r \in Seq(Parts)
           /\ After(s, i) \o r # <<>>
           /\ Head(After(s, i) \o r) = s[i + 1]
           /\ Tail(After(s, i) \o r) = After(s, i + 1) \o r
  <1> DEFINE x == After(s, i)
             y == After(s, i + 1)
  <1>1. x \in Seq(Parts) /\ Len(x) = Len(s) - i /\ \A j \in 1 .. Len(x) : x[j] = s[i + j]
    BY DEF After
  <1>2. y \in Seq(Parts) /\ Len(y) = Len(s) - i - 1 /\ \A j \in 1 .. Len(y) : y[j] = s[i + 1 + j]
    BY DEF After
  <1>3. Len(s) \in Nat /\ Len(r) \in Nat /\ Len(x) > 0 /\ Len(x) \in Nat /\ Len(y) \in Nat
    BY <1>1, <1>2
  <1> HIDE DEF x, y
  <1>4. /\ x \o r \in Seq(Parts) /\ Len(x \o r) = Len(x) + Len(r)
        /\ \A j \in 1 .. Len(x) + Len(r) : (x \o r)[j] = IF j <= Len(x) THEN x[j] ELSE r[j - Len(x)]
    BY <1>1, ConcatProperties
  <1>5. /\ y \o r \in Seq(Parts) /\ Len(y \o r) = Len(y) + Len(r)
        /\ \A j \in 1 .. Len(y) + Len(r) : (y \o r)[j] = IF j <= Len(y) THEN y[j] ELSE r[j - Len(y)]
    BY <1>2, ConcatProperties
  <1>6. x \o r # <<>>
    BY <1>3, <1>4
  <1>7. Head(x \o r) = s[i + 1]
    <2>1. Head(x \o r) = (x \o r)[1] /\ 1 \in 1 .. Len(x)
      BY <1>3, <1>4, <1>6
    <2>2. (x \o r)[1] = x[1] /\ x[1] = s[i + 1]
      BY <1>1, <1>3, <1>4, <2>1
    <2> QED
      BY <2>1, <2>2
  <1>8. Tail(x \o r) = y \o r
    <2>1. /\ Tail(x \o r) \in Seq(Parts) /\ Len(Tail(x \o r)) = Len(y \o r)
          /\ \A j \in 1 .. Len(Tail(x \o r)) : Tail(x \o r)[j] = (x \o r)[j + 1]
      BY <1>1, <1>2, <1>3, <1>4, <1>5, <1>6, HeadTailProperties
    <2>2. ASSUME NEW j \in 1 .. Len(y \o r) PROVE (x \o r)[j + 1] = (y \o r)[j]
      <3>1. CASE j <= Len(y)
        <4>1. j \in 1 .. Len(y) /\ j + 1 \in 1 .. Len(x) /\ j + 1 \in 1 .. Len(x) + Len(r)
          BY <1>1, <1>2, <1>3, <1>5, <2>2, <3>1
        <4>2. (x \o r)[j + 1] = s[i + (j + 1)] /\ (y \o r)[j] = s[i + 1 + j]
          BY <1>1, <1>2, <1>4, <1>5, <4>1, <3>1
        <4>3. i + (j + 1) = i + 1 + j
          BY <4>1
        <4> QED
          BY <4>2, <4>3
      <3>2. CASE j > Len(y)
        <4>1. j \in 1 .. Len(y) + Len(r) /\ j + 1 \in 1 .. Len(x) + Len(r)
              /\ ~ (j <= Len(y)) /\ ~ (j + 1 <= Len(x)) /\ (j + 1) - Len(x) = j - Len(y)
          BY <1>1, <1>2, <1>3, <1>5, <2>2, <3>2
        <4> QED
          BY <1>4, <1>5, <4>1
      <3>3. j \in Nat /\ Len(y) \in Nat
        BY <1>3, <1>5, <2>2
      <3>4. j <= Len(y) \/ j > Len(y)
        BY <3>3
      <3> QED
        BY <3>1, <3>2, <3>4
    <2> QED
      BY <1>5, <2>1, <2>2, SeqEqual
  <1> QED
    BY <1>4, <1>6, <1>7, <1>8 DEF x, y

\* Outside the tree there is no link.
LEMMA EscapesStays ==
    ASSUME records \in Seq(Records["manifest"])
    PROVE  /\ LinksAt(Escapes) = {}
           /\ \A part : Follow(Escapes, part) = Escapes
           /\ \A l, next, i : Turn(l, next, Escapes, i) = Escapes
  <1>1. \A e \in Range(records) : NameOf(e) # Escapes
    <2>1. Range(records) \subseteq Records["manifest"]
      BY DEF Range
    <2> QED
      BY <2>1, NameType, Inside
  <1>2. LinksAt(Escapes) = {}
    BY <1>1 DEF LinksAt
  <1>3. \A part : Follow(Escapes, part) = Escapes
    BY DEF Follow
  <1> QED
    BY <1>2, <1>3 DEF Turn

\* g walks the first n components of a target.
Turns(g, l, next, n) == \A i \in 1 .. n : g[i] = Turn(l, next, g[i - 1], i)

\* If such a walk does not end outside, it is never there.
LEMMA WalkStays ==
    ASSUME records \in Seq(Records["manifest"]), NEW l, NEW next, NEW g, NEW n \in Nat,
           Turns(g, l, next, n), g[n] # Escapes
    PROVE  \A i \in 0 .. n : g[i] # Escapes
  <1> DEFINE S == {j \in Nat : j <= n => g[n - j] # Escapes}
  <1>1. 0 \in S
    OBVIOUS
  <1>2. ASSUME NEW j \in Nat, j \in S PROVE j + 1 \in S
    <2> SUFFICES ASSUME j + 1 <= n, g[n - (j + 1)] = Escapes PROVE FALSE
      OBVIOUS
    <2>1. n - j \in 1 .. n /\ (n - j) - 1 = n - (j + 1)
      BY <1>2
    <2>2. g[n - j] = Turn(l, next, Escapes, n - j)
      BY <2>1 DEF Turns
    <2>3. g[n - j] # Escapes
      BY <1>2
    <2> QED
      BY <2>2, <2>3, EscapesStays
  <1> HIDE DEF S
  <1>3. Nat \subseteq S
    BY <1>1, <1>2, NatSet
  <1>4. ASSUME NEW i \in 0 .. n PROVE g[i] # Escapes
    <2>1. n - i \in S /\ n - i <= n /\ n - (n - i) = i
      BY <1>3
    <2> QED
      BY <2>1 DEF S
  <1> QED
    BY <1>4

\* What is known of a link of a manifest.
LEMMA LinkShape ==
    ASSUME records \in Seq(Records["manifest"]), NEW l \in Links
    PROVE  /\ l.target \in Seq(Parts)
           /\ Len(l.target) \in Nat
           /\ l \in Records["manifest"]
           /\ Recorded[l] = l.target
  <1>1. l \in Records["manifest"]
    BY DEF Links, Range
  <1> QED
    BY <1>1, EntriesAssumption DEF Recorded

\* What a walk meets is a link of the manifest.
LEMMA MetIsLink ==
    ASSUME NEW here, LinksAt(here) # {}
    PROVE  (CHOOSE m \in LinksAt(here) : TRUE) \in Links
  <1>1. LinksAt(here) \subseteq Links
    BY DEF LinksAt, Links
  <1> QED
    BY <1>1

-----------------------------------------------------------------------------
(***************************************************************************)
(* A lookup: the recursive function by which it is defined exists, because a *)
(* lookup that ends does so at one place.                                  *)
(***************************************************************************)

\* The records are those of a manifest and the texts of its links sequences.
Texts(text) ==
    /\ records \in Seq(Records["manifest"])
    /\ \A l \in Links : text[l] \in Seq(Parts)

\* Where a walk or a lookup can be, outside and nowhere included.
Places == Seq(Parts \cup {"/", "?"})

\* Every path of the tree is such a place.
LEMMA PlaceTypes ==
    /\ Escapes \in Places /\ Nowhere \in Places /\ <<>> \in Places
    /\ Seq(Parts) \subseteq Places
  BY DEF Escapes, Nowhere, Places

\* A component leads from place to place,
LEMMA FollowType ==
    ASSUME NEW dir \in Places, NEW part \in Parts
    PROVE  Follow(dir, part) \in Places
  <1>1. Escapes \in Places
    BY PlaceTypes
  <1>2. Append(dir, part) \in Places
    BY AppendProperties DEF Places
  <1>3. dir # <<>> => Front(dir) \in Places
    BY DEF Front, Places
  <1> QED
    BY <1>1, <1>2, <1>3 DEF Follow

\* and a text starts at one.
LEMMA StartType ==
    ASSUME records \in Seq(Records["manifest"]), NEW l \in Links, NEW text
    PROVE  Start(l, text) \in Places
  <1>1. l \in Records["manifest"]
    BY LinkShape
  <1> QED
    BY <1>1, NameType, PlaceTypes DEF Start

\* A step of a lookup that has more to do.
LEMMA StepType ==
    ASSUME NEW text, Texts(text), NEW s \in LookupStates, s.rest # <<>>
    PROVE  LookupStep(text, s) \in LookupStates
  <1> DEFINE part == Head(s.rest)
             here == Follow(s.dir, part)
             met == IF Named(part) THEN LinksAt(here) ELSE {}
             l == CHOOSE m \in met : TRUE
  <1>1. s.dir \in Places /\ s.rest \in Seq(Parts) /\ s.followed \in Nat
    BY DEF LookupStates, Places
  <1>2. part \in Parts /\ Tail(s.rest) \in Seq(Parts)
    BY <1>1, HeadTailProperties
  <1>3. here \in Places
    BY <1>1, <1>2, FollowType
  <1>4. Lost \in LookupStates
    BY PlaceTypes DEF Lost, LookupStates, Places
  <1>5. [dir |-> here, rest |-> Tail(s.rest), followed |-> s.followed] \in LookupStates
    BY <1>1, <1>2, <1>3 DEF LookupStates, Places
  <1>6. ASSUME met # {}
        PROVE  [dir |-> Start(l, text[l]), rest |-> text[l] \o Tail(s.rest),
                followed |-> s.followed + 1] \in LookupStates
    <2>1. l \in Links
      <3>1. met \subseteq Links
        BY DEF LinksAt, Links
      <3> HIDE DEF met
      <3> QED
        BY <1>6, <3>1
    <2> HIDE DEF l
    <2>2. text[l] \in Seq(Parts) /\ Start(l, text[l]) \in Places
      BY <2>1, StartType DEF Texts
    <2>3. text[l] \o Tail(s.rest) \in Seq(Parts)
      BY <1>2, <2>2
    <2> QED
      BY <1>1, <2>2, <2>3 DEF LookupStates, Places
  <1> QED
    BY <1>4, <1>5, <1>6 DEF LookupStep

\* A lookup that has come as far as s ends at place after n steps.
EndsAt(text, s, n, place) ==
    \E g : /\ g[0] = s
           /\ \A i \in 0 .. n - 1 : g[i].rest # <<>> /\ g[i + 1] = LookupStep(text, g[i])
           /\ g[n].rest = <<>> /\ g[n].dir = place

\* The places it ends at, of which there is one or, in a loop, none.
Ends(text, s) == {place \in Places : \E n \in Nat : EndsAt(text, s, n, place)}

\* With nothing left it ends where it is,
LEMMA EndsEmpty ==
    ASSUME NEW text, NEW s \in LookupStates, s.rest = <<>>
    PROVE  Ends(text, s) = {s.dir}
  <1>1. s.dir \in Places
    BY DEF LookupStates, Places
  <1>2. EndsAt(text, s, 0, s.dir)
    <2> DEFINE g == [i \in 0 .. 0 |-> s]
    <2>1. g[0] = s
      OBVIOUS
    <2>2. 0 .. 0 - 1 = {}
      OBVIOUS
    <2> HIDE DEF g
    <2> QED
      BY <2>1, <2>2 DEF EndsAt
  <1>3. ASSUME NEW n \in Nat, NEW place, EndsAt(text, s, n, place) PROVE place = s.dir
    <2>1. PICK g : /\ g[0] = s
                   /\ \A i \in 0 .. n - 1 : g[i].rest # <<>> /\ g[i + 1] = LookupStep(text, g[i])
                   /\ g[n].rest = <<>> /\ g[n].dir = place
      BY <1>3 DEF EndsAt
    <2>2. n = 0
      <3>1. n # 0 => 0 \in 0 .. n - 1
        BY <1>3
      <3> QED
        BY <2>1, <3>1
    <2> QED
      BY <2>1, <2>2
  <1> QED
    BY <1>1, <1>2, <1>3 DEF Ends

\* with something left where it ends after its next step.
LEMMA EndsStep ==
    ASSUME NEW text, NEW s, s.rest # <<>>
    PROVE  Ends(text, s) = Ends(text, LookupStep(text, s))
  <1> DEFINE u == LookupStep(text, s)
  <1>1. ASSUME NEW n \in Nat, NEW place, EndsAt(text, s, n, place)
        PROVE  \E k \in Nat : EndsAt(text, u, k, place)
    <2>1. PICK g : /\ g[0] = s
                   /\ \A i \in 0 .. n - 1 : g[i].rest # <<>> /\ g[i + 1] = LookupStep(text, g[i])
                   /\ g[n].rest = <<>> /\ g[n].dir = place
      BY <1>1 DEF EndsAt
    <2>2. n # 0 /\ n - 1 \in Nat /\ 0 \in 0 .. n - 1
      BY <1>1, <2>1
    <2> DEFINE h == [i \in 0 .. n - 1 |-> g[i + 1]]
    <2>3. \A i \in 0 .. n - 1 : h[i] = g[i + 1]
      OBVIOUS
    <2> HIDE DEF h
    <2>4. h[0] = u
      BY <2>1, <2>2, <2>3
    <2>5. ASSUME NEW i \in 0 .. (n - 1) - 1
          PROVE  h[i].rest # <<>> /\ h[i + 1] = LookupStep(text, h[i])
      <3>1. i \in 0 .. n - 1 /\ i + 1 \in 0 .. n - 1
        BY <1>1, <2>5
      <3>2. h[i] = g[i + 1] /\ h[i + 1] = g[(i + 1) + 1]
        BY <2>3, <3>1
      <3> QED
        BY <2>1, <3>1, <3>2
    <2>6. h[n - 1] = g[n]
      <3>1. n - 1 \in 0 .. n - 1 /\ (n - 1) + 1 = n
        BY <2>2
      <3> QED
        BY <2>3, <3>1
    <2>7. EndsAt(text, u, n - 1, place)
      <3> HIDE DEF u
      <3> QED
        BY <2>1, <2>4, <2>5, <2>6 DEF EndsAt
    <2> QED
      BY <2>2, <2>7
  <1>2. ASSUME NEW n \in Nat, NEW place, EndsAt(text, u, n, place)
        PROVE  EndsAt(text, s, n + 1, place)
    <2>1. PICK g : /\ g[0] = u
                   /\ \A i \in 0 .. n - 1 : g[i].rest # <<>> /\ g[i + 1] = LookupStep(text, g[i])
                   /\ g[n].rest = <<>> /\ g[n].dir = place
      BY <1>2 DEF EndsAt
    <2> DEFINE h == [i \in 0 .. n + 1 |-> IF i = 0 THEN s ELSE g[i - 1]]
    <2>2. h[0] = s /\ \A i \in 1 .. n + 1 : h[i] = g[i - 1]
      BY <1>2
    <2> HIDE DEF h
    <2>3. ASSUME NEW i \in 0 .. (n + 1) - 1
          PROVE  h[i].rest # <<>> /\ h[i + 1] = LookupStep(text, h[i])
      <3>1. CASE i = 0
        <4>1. 1 \in 1 .. n + 1 /\ 1 - 1 = 0
          BY <1>2
        <4>2. h[1] = u /\ h[i] = s /\ i + 1 = 1
          BY <2>1, <2>2, <3>1, <4>1
        <4> QED
          BY <4>2
      <3>2. CASE i # 0
        <4>1. i \in 1 .. n + 1 /\ i + 1 \in 1 .. n + 1 /\ i - 1 \in 0 .. n - 1
              /\ (i + 1) - 1 = (i - 1) + 1
          BY <1>2, <2>3, <3>2
        <4>2. h[i] = g[i - 1] /\ h[i + 1] = g[(i - 1) + 1]
          BY <2>2, <4>1
        <4> QED
          BY <2>1, <4>1, <4>2
      <3> QED
        BY <3>1, <3>2
    <2>4. h[n + 1] = g[n]
      <3>1. n + 1 \in 1 .. n + 1 /\ (n + 1) - 1 = n
        BY <1>2
      <3> QED
        BY <2>2, <3>1
    <2> QED
      BY <2>1, <2>2, <2>3, <2>4 DEF EndsAt
  <1>3. \A n \in Nat : n + 1 \in Nat
    OBVIOUS
  <1> HIDE DEF u
  <1>4. Ends(text, s) = Ends(text, u)
    BY <1>1, <1>2, <1>3 DEF Ends
  <1> QED
    BY <1>4 DEF u

\* f is the function by which LookupFrom is defined.
IsLookup(f, text) ==
    f = [s \in LookupStates |-> IF s.rest = <<>> THEN s.dir ELSE f[LookupStep(text, s)]]

\* There is one, the choice of an end.
LEMMA LookupExists ==
    ASSUME NEW text, Texts(text)
    PROVE  \E f : IsLookup(f, text)
  <1> DEFINE f == [s \in LookupStates |-> CHOOSE place \in Ends(text, s) : TRUE]
  <1>1. ASSUME NEW s \in LookupStates
        PROVE  f[s] = IF s.rest = <<>> THEN s.dir ELSE f[LookupStep(text, s)]
    <2>1. CASE s.rest = <<>>
      <3>1. Ends(text, s) = {s.dir}
        BY <2>1, EndsEmpty
      <3> QED
        BY <2>1, <3>1
    <2>2. CASE s.rest # <<>>
      <3>1. Ends(text, s) = Ends(text, LookupStep(text, s))
        BY <2>2, EndsStep
      <3>2. LookupStep(text, s) \in LookupStates
        BY <2>2, StepType
      <3> QED
        BY <2>2, <3>1, <3>2
    <2> QED
      BY <2>1, <2>2
  <1>2. f = [s \in LookupStates |-> f[s]]
    OBVIOUS
  <1> HIDE DEF f
  <1>3. IsLookup(f, text)
    BY <1>1, <1>2 DEF IsLookup
  <1> QED
    BY <1>3

\* A lookup leads where its next step leads.
LEMMA LookupLeads ==
    ASSUME NEW text, Texts(text), NEW s \in LookupStates
    PROVE  LookupFrom(text)[s] =
               IF s.rest = <<>> THEN s.dir ELSE LookupFrom(text)[LookupStep(text, s)]
  <1> DEFINE f == CHOOSE g : IsLookup(g, text)
  <1>1. LookupFrom(text) = f
    BY DEF LookupFrom, IsLookup, LookupStates
  <1>2. IsLookup(f, text)
    BY LookupExists
  <1> HIDE DEF f
  <1>3. \A t \in LookupStates : f[t] = IF t.rest = <<>> THEN t.dir ELSE f[LookupStep(text, t)]
    BY <1>2 DEF IsLookup
  <1> QED
    BY <1>1, <1>3

-----------------------------------------------------------------------------
(***************************************************************************)
(* A lookup, component by component.                                       *)
(***************************************************************************)

\* Where a lookup leads that is at dir, has rest left and has followed f links.
Leads(text, dir, rest, f) == LookupFrom(text)[[dir |-> dir, rest |-> rest, followed |-> f]]

\* A lookup in a directory takes a component as _real_target does, and goes on
\* with the text of the link it meets.
Taken(text, dir, part, rest, f) ==
    LET here == Follow(dir, part)
        l == CHOOSE m \in LinksAt(here) : TRUE
    IN  IF ~ (Named(part) /\ LinksAt(here) # {}) THEN Leads(text, here, rest, f)
        ELSE IF f >= MaxFollowed THEN Nowhere
        ELSE Leads(text, Start(l, text[l]), text[l] \o rest, f + 1)

\* With nothing left a lookup is where it leads.
LEMMA LeadsHere ==
    ASSUME NEW text, Texts(text), NEW dir \in Places, NEW f \in Nat
    PROVE  Leads(text, dir, <<>>, f) = dir
  <1> DEFINE s == [dir |-> dir, rest |-> <<>>, followed |-> f]
  <1>1. s \in LookupStates
    BY DEF LookupStates, Places
  <1>2. s.rest = <<>> /\ s.dir = dir
    OBVIOUS
  <1> HIDE DEF s
  <1>3. LookupFrom(text)[s] = dir
    BY <1>1, <1>2, LookupLeads
  <1> QED
    BY <1>3 DEF s, Leads

\* Otherwise it takes the next component, or is nowhere.
LEMMA LeadsOn ==
    ASSUME NEW text, Texts(text), NEW dir \in Places, NEW rest \in Seq(Parts), rest # <<>>,
           NEW f \in Nat
    PROVE  Leads(text, dir, rest, f) =
               IF IsDirectory(dir) THEN Taken(text, dir, Head(rest), Tail(rest), f) ELSE Nowhere
  <1> DEFINE s == [dir |-> dir, rest |-> rest, followed |-> f]
             part == Head(rest)
             here == Follow(dir, part)
             l == CHOOSE m \in LinksAt(here) : TRUE
  <1>1. s \in LookupStates
    BY DEF LookupStates, Places
  <1>2. s.rest = rest /\ s.dir = dir /\ s.followed = f
    OBVIOUS
  <1> HIDE DEF s
  <1>4. LookupFrom(text)[s] = LookupFrom(text)[LookupStep(text, s)]
    BY <1>1, <1>2, LookupLeads
  <1>5. LookupFrom(text)[s] = Leads(text, dir, rest, f)
    BY DEF Leads, s
  <1>6. LookupFrom(text)[Lost] = Nowhere
    <2>1. Lost \in LookupStates /\ Lost.rest = <<>> /\ Lost.dir = Nowhere
      BY PlaceTypes DEF Lost, LookupStates, Places
    <2> QED
      BY <2>1, LookupLeads
  <1>7. CASE ~ IsDirectory(dir)
    <2>1. LookupStep(text, s) = Lost
      BY <1>2, <1>7 DEF LookupStep
    <2> QED
      BY <1>4, <1>5, <1>6, <1>7, <2>1
  <1>8. CASE IsDirectory(dir) /\ ~ (Named(part) /\ LinksAt(here) # {})
    <2>1. LookupStep(text, s) = [dir |-> here, rest |-> Tail(rest), followed |-> f]
      BY <1>2, <1>8 DEF LookupStep
    <2>2. Taken(text, dir, part, Tail(rest), f) = Leads(text, here, Tail(rest), f)
      BY <1>8 DEF Taken
    <2> HIDE DEF here, part
    <2>3. LookupFrom(text)[LookupStep(text, s)] = Leads(text, here, Tail(rest), f)
      BY <2>1 DEF Leads
    <2>4. Taken(text, dir, Head(rest), Tail(rest), f) = Leads(text, here, Tail(rest), f)
      BY <2>2 DEF part
    <2> QED
      BY <1>4, <1>5, <1>8, <2>3, <2>4
  <1>9. CASE IsDirectory(dir) /\ Named(part) /\ LinksAt(here) # {} /\ f >= MaxFollowed
    <2>1. LookupStep(text, s) = Lost
      BY <1>2, <1>9 DEF LookupStep
    <2>2. Taken(text, dir, part, Tail(rest), f) = Nowhere
      BY <1>9 DEF Taken
    <2> QED
      BY <1>4, <1>5, <1>6, <1>9, <2>1, <2>2
  <1>10. CASE IsDirectory(dir) /\ Named(part) /\ LinksAt(here) # {} /\ ~ (f >= MaxFollowed)
    <2>1. LookupStep(text, s) =
              [dir |-> Start(l, text[l]), rest |-> text[l] \o Tail(rest), followed |-> f + 1]
      BY <1>2, <1>10 DEF LookupStep
    <2>2. Taken(text, dir, part, Tail(rest), f) =
              Leads(text, Start(l, text[l]), text[l] \o Tail(rest), f + 1)
      BY <1>10 DEF Taken
    <2> HIDE DEF l
    <2>3. LookupFrom(text)[LookupStep(text, s)] =
              Leads(text, Start(l, text[l]), text[l] \o Tail(rest), f + 1)
      BY <2>1 DEF Leads
    <2> QED
      BY <1>4, <1>5, <1>10, <2>2, <2>3
  <1> QED
    BY <1>7, <1>8, <1>9, <1>10

-----------------------------------------------------------------------------
(***************************************************************************)
(* The gate and the kernel: what _real_target finds of a link is where the *)
(* lookups of the recorded targets and of other texts lead.                *)
(***************************************************************************)

\* From the link l the lookup of the recorded targets and that of text come to
\* place together, having followed the same number of links, and each has left
\* what it had after l; or the first is nowhere.
Agree(text, l, place, rest, other, f) ==
    \/ Leads(Recorded, Start(l, l.target), l.target \o rest, f) = Nowhere
    \/ \E followed \in Nat :
           /\ Leads(Recorded, Start(l, l.target), l.target \o rest, f)
                  = Leads(Recorded, place, rest, followed)
           /\ Leads(text, Start(l, text[l]), text[l] \o other, f)
                  = Leads(text, place, other, followed)

\* From every link they agree on the places of next.
AgreeAll(text, next) ==
    \A l \in Links : next[l] # Escapes =>
        /\ next[l] \in Places
        /\ \A rest \in Seq(Parts), other \in Seq(Parts), f \in Nat :
               Agree(text, l, next[l], rest, other, f)

\* So they do after one more component, the same of both.
LEMMA OneTurn ==
    ASSUME NEW text, Texts(text), Texts(Recorded), NEW next, AgreeAll(text, next),
           NEW l, NEW i, NEW dir \in Places, Turn(l, next, dir, i) # Escapes,
           NEW rest \in Seq(Parts), rest # <<>>, Head(rest) = l.target[i],
           NEW other \in Seq(Parts), other # <<>>, Head(other) = l.target[i],
           NEW f \in Nat, Leads(Recorded, dir, rest, f) # Nowhere
    PROVE  /\ Turn(l, next, dir, i) \in Places
           /\ \E followed \in Nat :
                  /\ Leads(Recorded, dir, rest, f)
                         = Leads(Recorded, Turn(l, next, dir, i), Tail(rest), followed)
                  /\ Leads(text, dir, other, f)
                         = Leads(text, Turn(l, next, dir, i), Tail(other), followed)
  <1> DEFINE part == l.target[i]
             here == Follow(dir, part)
             m == CHOOSE e \in LinksAt(here) : TRUE
  <1>1. Tail(rest) \in Seq(Parts) /\ Tail(other) \in Seq(Parts) /\ part \in Parts
    BY HeadTailProperties
  <1>2. IsDirectory(dir)
    BY LeadsOn
  <1>3. Leads(Recorded, dir, rest, f) = Taken(Recorded, dir, part, Tail(rest), f)
    BY <1>2, LeadsOn
  <1>4. Leads(text, dir, other, f) = Taken(text, dir, part, Tail(other), f)
    BY <1>2, LeadsOn
  <1>5. CASE ~ (Named(part) /\ LinksAt(here) # {})
    <2>1. Turn(l, next, dir, i) = here
      BY <1>5 DEF Turn
    <2>2. here \in Places
      BY <1>1, FollowType
    <2>3. /\ Taken(Recorded, dir, part, Tail(rest), f) = Leads(Recorded, here, Tail(rest), f)
          /\ Taken(text, dir, part, Tail(other), f) = Leads(text, here, Tail(other), f)
      BY <1>5 DEF Taken
    <2> QED
      BY <1>3, <1>4, <2>1, <2>2, <2>3
  <1>6. CASE Named(part) /\ LinksAt(here) # {}
    <2>1. Turn(l, next, dir, i) = next[m]
      BY <1>6 DEF Turn
    <2>2. m \in Links
      BY <1>6, MetIsLink
    <2>3. ~ (f >= MaxFollowed)
      BY <1>3, <1>6 DEF Taken
    <2>4. /\ Taken(Recorded, dir, part, Tail(rest), f)
                 = Leads(Recorded, Start(m, Recorded[m]), Recorded[m] \o Tail(rest), f + 1)
          /\ Taken(text, dir, part, Tail(other), f)
                 = Leads(text, Start(m, text[m]), text[m] \o Tail(other), f + 1)
      BY <1>6, <2>3 DEF Taken
    <2>5. Recorded[m] = m.target
      BY <2>2, LinkShape DEF Texts
    <2> HIDE DEF m
    <2>6. next[m] # Escapes
      BY <2>1
    <2>7. next[m] \in Places /\ Agree(text, m, next[m], Tail(rest), Tail(other), f + 1)
      <3>1. f + 1 \in Nat
        OBVIOUS
      <3>2. \A r \in Seq(Parts), o \in Seq(Parts), k \in Nat : Agree(text, m, next[m], r, o, k)
        BY <2>2, <2>6 DEF AgreeAll
      <3>3. next[m] \in Places
        BY <2>2, <2>6 DEF AgreeAll
      <3> QED
        BY <1>1, <3>1, <3>2, <3>3
    <2>8. Leads(Recorded, Start(m, m.target), m.target \o Tail(rest), f + 1) # Nowhere
      BY <1>3, <2>4, <2>5
    <2>9. PICK followed \in Nat :
              /\ Leads(Recorded, Start(m, m.target), m.target \o Tail(rest), f + 1)
                     = Leads(Recorded, next[m], Tail(rest), followed)
              /\ Leads(text, Start(m, text[m]), text[m] \o Tail(other), f + 1)
                     = Leads(text, next[m], Tail(other), followed)
      BY <2>7, <2>8 DEF Agree
    <2> QED
      BY <1>3, <1>4, <2>1, <2>4, <2>5, <2>7, <2>9
  <1> QED
    BY <1>5, <1>6

\* The walk of a target, when it ends inside the tree.
LEMMA TargetWalk ==
    ASSUME records \in Seq(Records["manifest"]), NEW text, NEW next, AgreeAll(text, next),
           NEW l \in Links, WalkTarget(l, next) # Escapes
    PROVE  \E g : /\ g[0] = Start(l, l.target)
                  /\ WalkTarget(l, next) = g[Len(l.target)]
                  /\ \A i \in 1 .. Len(l.target) : g[i] = Turn(l, next, g[i - 1], i)
                  /\ \A i \in 0 .. Len(l.target) : g[i] # Escapes /\ g[i] \in Places
  <1>1. l.target \in Seq(Parts) /\ Len(l.target) \in Nat
    BY LinkShape
  <1>2. PICK g : /\ g[0] = Start(l, l.target)
                 /\ \A i \in 1 .. Len(l.target) : g[i] = Turn(l, next, g[i - 1], i)
                 /\ WalkTarget(l, next) = g[Len(l.target)]
    BY <1>1, WalkTargetWalks
  <1>3. \A i \in 0 .. Len(l.target) : g[i] # Escapes
    <2>1. Turns(g, l, next, Len(l.target))
      BY <1>2 DEF Turns
    <2> QED
      BY <1>1, <1>2, <2>1, WalkStays
  <1> DEFINE T == {i \in Nat : i <= Len(l.target) => g[i] \in Places}
  <1>4. 0 \in T
    BY <1>2, StartType
  <1>5. ASSUME NEW i \in Nat, i \in T PROVE i + 1 \in T
    <2> SUFFICES ASSUME i + 1 <= Len(l.target) PROVE g[i + 1] \in Places
      OBVIOUS
    <2> DEFINE here == Follow(g[i], l.target[i + 1])
    <2>1. i + 1 \in 1 .. Len(l.target) /\ (i + 1) - 1 = i /\ i + 1 \in 0 .. Len(l.target)
      BY <1>1
    <2>2. g[i] \in Places
      BY <1>1, <1>5
    <2>3. g[i + 1] = Turn(l, next, g[i], i + 1) /\ g[i + 1] # Escapes
      BY <1>2, <1>3, <2>1
    <2>4. l.target[i + 1] \in Parts
      BY <1>1, <2>1, ElementOfSeq
    <2>5. here \in Places
      BY <2>2, <2>4, FollowType
    <2>6. CASE Named(l.target[i + 1]) /\ LinksAt(here) # {}
      <3>1. g[i + 1] = next[CHOOSE m \in LinksAt(here) : TRUE]
        BY <2>3, <2>6 DEF Turn
      <3> QED
        BY <2>3, <2>6, <3>1, MetIsLink DEF AgreeAll
    <2>7. CASE ~ (Named(l.target[i + 1]) /\ LinksAt(here) # {})
      BY <2>3, <2>5, <2>7 DEF Turn
    <2> QED
      BY <2>6, <2>7
  <1> HIDE DEF T
  <1>6. Nat \subseteq T
    BY <1>4, <1>5, NatSet
  <1>7. \A i \in 0 .. Len(l.target) : g[i] \in Places
    <2>1. \A i \in 0 .. Len(l.target) : i \in T /\ i \in Nat /\ i <= Len(l.target)
      BY <1>1, <1>6
    <2> QED
      BY <2>1 DEF T
  <1> QED
    BY <1>2, <1>3, <1>7

\* A link whose text is as recorded: both walk it component by component.
LEMMA AgreeRecorded ==
    ASSUME NEW text, Texts(text), Texts(Recorded), NEW next, AgreeAll(text, next),
           NEW l \in Links, text[l] = l.target, WalkTarget(l, next) # Escapes,
           NEW rest \in Seq(Parts), NEW other \in Seq(Parts), NEW f \in Nat
    PROVE  Agree(text, l, WalkTarget(l, next), rest, other, f)
  <1> DEFINE t == l.target
             from == Leads(Recorded, Start(l, l.target), l.target \o rest, f)
             to == Leads(text, Start(l, l.target), l.target \o other, f)
  <1> SUFFICES ASSUME from # Nowhere
               PROVE  \E k \in Nat : /\ from = Leads(Recorded, WalkTarget(l, next), rest, k)
                                     /\ to = Leads(text, WalkTarget(l, next), other, k)
    BY DEF Agree
  <1> HIDE DEF from, to
  <1>1. t \in Seq(Parts) /\ Len(t) \in Nat /\ records \in Seq(Records["manifest"])
    BY LinkShape DEF Texts
  <1>2. PICK g : /\ g[0] = Start(l, t)
                 /\ WalkTarget(l, next) = g[Len(t)]
                 /\ \A i \in 1 .. Len(t) : g[i] = Turn(l, next, g[i - 1], i)
                 /\ \A i \in 0 .. Len(t) : g[i] # Escapes /\ g[i] \in Places
    BY <1>1, TargetWalk
  <1> DEFINE Both(i) == \E k \in Nat : /\ from = Leads(Recorded, g[i], After(t, i) \o rest, k)
                                       /\ to = Leads(text, g[i], After(t, i) \o other, k)
             T == {i \in Nat : i <= Len(t) => Both(i)}
  <1> HIDE DEF t
  <1>3. Both(0)
    <2>1. After(t, 0) \o rest = t \o rest /\ After(t, 0) \o other = t \o other
      BY <1>1, AfterIs
    <2>2. from = Leads(Recorded, g[0], t \o rest, f) /\ to = Leads(text, g[0], t \o other, f)
      BY <1>2 DEF from, to, t
    <2> QED
      BY <2>1, <2>2
  <1>4. ASSUME NEW i \in Nat, i + 1 <= Len(t), Both(i) PROVE Both(i + 1)
    <2> DEFINE r == After(t, i) \o rest
               o == After(t, i) \o other
    <2>1. i + 1 \in 1 .. Len(t) /\ (i + 1) - 1 = i /\ i \in 0 .. Len(t) - 1
          /\ i \in 0 .. Len(t) /\ i + 1 \in 0 .. Len(t)
      BY <1>1, <1>4
    <2>2. r \in Seq(Parts) /\ r # <<>> /\ Head(r) = t[i + 1] /\ Tail(r) = After(t, i + 1) \o rest
      BY <1>1, <2>1, AfterNext
    <2>6. o \in Seq(Parts) /\ o # <<>> /\ Head(o) = t[i + 1] /\ Tail(o) = After(t, i + 1) \o other
      BY <1>1, <2>1, AfterNext
    <2>3. g[i + 1] = Turn(l, next, g[i], i + 1) /\ g[i + 1] # Escapes /\ g[i] \in Places
      BY <1>2, <2>1
    <2>4. PICK k \in Nat : from = Leads(Recorded, g[i], r, k) /\ to = Leads(text, g[i], o, k)
      BY <1>4
    <2> HIDE DEF r, o
    <2>5. PICK followed \in Nat :
              /\ Leads(Recorded, g[i], r, k) = Leads(Recorded, g[i + 1], Tail(r), followed)
              /\ Leads(text, g[i], o, k) = Leads(text, g[i + 1], Tail(o), followed)
      <3>1. Head(r) = l.target[i + 1] /\ Head(o) = l.target[i + 1]
        BY <2>2, <2>6 DEF t
      <3>2. Leads(Recorded, g[i], r, k) # Nowhere /\ Turn(l, next, g[i], i + 1) # Escapes
        BY <2>3, <2>4
      <3> QED
        BY <2>2, <2>3, <2>6, <3>1, <3>2, OneTurn
    <2> QED
      BY <2>2, <2>4, <2>5, <2>6
  <1> HIDE DEF Both
  <1>5. 0 \in T /\ \A i \in Nat : i \in T => i + 1 \in T
    BY <1>1, <1>3, <1>4
  <1> HIDE DEF T
  <1>6. Len(t) \in T
    BY <1>1, <1>5, NatSet
  <1>7. Both(Len(t))
    BY <1>1, <1>6 DEF T
  <1>8. After(t, Len(t)) \o rest = rest /\ After(t, Len(t)) \o other = other
    BY <1>1, AfterIs
  <1> QED
    BY <1>2, <1>7, <1>8 DEF Both

-----------------------------------------------------------------------------
(***************************************************************************)
(* A target without "..", normalized and made relative.                    *)
(***************************************************************************)

\* g is what the first components of a text come to, up to n.
IsNormalizing(g, text, n) ==
    g = [i \in 0 .. n |-> IF i = 0 THEN <<>> ELSE Follow(g[i - 1], text[i])]

\* There is such a function for every text.
LEMMA NormalizingExists ==
    ASSUME NEW text
    PROVE  \A n \in Nat : \E g : IsNormalizing(g, text, n)
  <1> DEFINE S == {n \in Nat : \E g : IsNormalizing(g, text, n)}
  <1>1. 0 \in S
    <2>1. IsNormalizing([i \in 0 .. 0 |-> <<>>], text, 0)
      BY DEF IsNormalizing
    <2> QED
      BY <2>1
  <1>2. ASSUME NEW n \in Nat, n \in S PROVE n + 1 \in S
    <2>1. PICK g : IsNormalizing(g, text, n)
      BY <1>2
    <2> DEFINE h == [i \in 0 .. n + 1 |-> IF i = n + 1 THEN Follow(g[n], text[n + 1]) ELSE g[i]]
    <2>2. \A i \in 0 .. n : h[i] = g[i]
      BY <1>2
    <2>3. \A i \in 0 .. n : g[i] = IF i = 0 THEN <<>> ELSE Follow(g[i - 1], text[i])
      BY <2>1 DEF IsNormalizing
    <2>4. ASSUME NEW i \in 0 .. n + 1
          PROVE  h[i] = IF i = 0 THEN <<>> ELSE Follow(h[i - 1], text[i])
      <3>1. CASE i = n + 1
        <4>1. i # 0 /\ i - 1 = n /\ n \in 0 .. n
          BY <1>2, <3>1
        <4> QED
          BY <2>2, <3>1, <4>1
      <3>2. CASE i # n + 1
        <4>1. i \in 0 .. n /\ (i # 0 => i - 1 \in 0 .. n)
          BY <1>2, <2>4, <3>2
        <4> QED
          BY <2>2, <2>3, <3>2, <4>1
      <3> QED
        BY <3>1, <3>2
    <2>5. h = [i \in 0 .. n + 1 |-> h[i]]
      OBVIOUS
    <2> HIDE DEF h
    <2>6. IsNormalizing(h, text, n + 1)
      BY <2>4, <2>5 DEF IsNormalizing
    <2> QED
      BY <2>6
  <1> HIDE DEF S
  <1>3. Nat \subseteq S
    BY <1>1, <1>2, NatSet
  <1> QED
    BY <1>3 DEF S

\* So normalizing a text follows its components in order.
LEMMA NormalizeWalks ==
    ASSUME NEW text, Len(text) \in Nat
    PROVE  \E p : /\ p[0] = <<>>
                  /\ \A i \in 1 .. Len(text) : p[i] = Follow(p[i - 1], text[i])
                  /\ Normalize(text) = p[Len(text)]
  <1> DEFINE g == CHOOSE g : IsNormalizing(g, text, Len(text))
  <1>1. Normalize(text) = g[Len(text)]
    BY DEF Normalize, IsNormalizing
  <1>2. IsNormalizing(g, text, Len(text))
    BY NormalizingExists
  <1> HIDE DEF g
  <1>3. \A i \in 0 .. Len(text) : g[i] = IF i = 0 THEN <<>> ELSE Follow(g[i - 1], text[i])
    BY <1>2 DEF IsNormalizing
  <1>4. 0 \in 0 .. Len(text) /\ \A i \in 1 .. Len(text) : i \in 0 .. Len(text) /\ i # 0
    OBVIOUS
  <1> QED
    BY <1>1, <1>3, <1>4

\* p[i] is what the first i components of the text come to, one name after
\* another.
Grows(p, text) ==
    /\ p[0] = <<>> /\ Normalize(text) = p[Len(text)]
    /\ \A i \in 0 .. Len(text) : p[i] \in Seq(Parts) /\ p[i] # Escapes
    /\ \A i \in 1 .. Len(text) :
           /\ p[i] = Follow(p[i - 1], text[i])
           /\ p[i] = IF Named(text[i]) THEN Append(p[i - 1], text[i]) ELSE p[i - 1]

\* So it is without a "..".
LEMMA NormalizeGrows ==
    ASSUME NEW text \in Seq(Parts), ".." \notin Range(text)
    PROVE  \E p : Grows(p, text)
  <1>1. Len(text) \in Nat /\ \A i \in 1 .. Len(text) : text[i] \in Parts /\ text[i] # ".."
    <2>1. Len(text) \in Nat /\ DOMAIN text = 1 .. Len(text)
      OBVIOUS
    <2>2. \A i \in 1 .. Len(text) : text[i] \in Range(text)
      BY <2>1 DEF Range
    <2>3. \A i \in 1 .. Len(text) : text[i] \in Parts
      BY ElementOfSeq
    <2> QED
      BY <2>1, <2>2, <2>3
  <1>2. PICK p : /\ p[0] = <<>>
                 /\ \A i \in 1 .. Len(text) : p[i] = Follow(p[i - 1], text[i])
                 /\ Normalize(text) = p[Len(text)]
    BY <1>1, NormalizeWalks
  <1>3. ASSUME NEW path \in Seq(Parts), NEW part \in Parts, part # ".."
        PROVE  /\ Follow(path, part) = IF Named(part) THEN Append(path, part) ELSE path
               /\ Follow(path, part) \in Seq(Parts)
    <2>1. path # Escapes
      BY Inside
    <2>2. Follow(path, part) = IF Named(part) THEN Append(path, part) ELSE path
      BY <1>3, <2>1 DEF Follow, Named
    <2>3. Append(path, part) \in Seq(Parts)
      BY AppendProperties
    <2> QED
      BY <2>2, <2>3
  <1> DEFINE T == {i \in Nat : i <= Len(text) => p[i] \in Seq(Parts)}
  <1>4. 0 \in T
    BY <1>2, EmptySeq
  <1>5. ASSUME NEW i \in Nat, i \in T PROVE i + 1 \in T
    <2> SUFFICES ASSUME i + 1 <= Len(text) PROVE p[i + 1] \in Seq(Parts)
      OBVIOUS
    <2>1. i + 1 \in 1 .. Len(text) /\ (i + 1) - 1 = i /\ p[i] \in Seq(Parts)
      BY <1>1, <1>5
    <2>2. p[i + 1] = Follow(p[i], text[i + 1])
      BY <1>2, <2>1
    <2> QED
      BY <1>1, <1>3, <2>1, <2>2
  <1> HIDE DEF T
  <1>6. Nat \subseteq T
    BY <1>4, <1>5, NatSet
  <1>7. \A i \in 0 .. Len(text) : p[i] \in Seq(Parts)
    <2>1. \A i \in 0 .. Len(text) : i \in T /\ i \in Nat /\ i <= Len(text)
      BY <1>1, <1>6
    <2> QED
      BY <2>1 DEF T
  <1>8. \A i \in 1 .. Len(text) : p[i] = IF Named(text[i]) THEN Append(p[i - 1], text[i]) ELSE p[i - 1]
    <2> SUFFICES ASSUME NEW i \in 1 .. Len(text)
                 PROVE  p[i] = IF Named(text[i]) THEN Append(p[i - 1], text[i]) ELSE p[i - 1]
      OBVIOUS
    <2>1. i - 1 \in 0 .. Len(text)
      BY <1>1
    <2> QED
      BY <1>1, <1>2, <1>3, <1>7, <2>1
  <1> QED
    BY <1>2, <1>7, <1>8, Inside DEF Grows

\* The path that leads up from start to its first c names, and from there on to
\* path.
UpAndDown(path, start, c) ==
    LET up == [i \in 1 .. Len(start) - c |-> ".."]
        down == SubSeq(path, c + 1, Len(path))
    IN  IF up \o down = <<>> THEN <<".">> ELSE up \o down

\* A relative path goes up to a directory above both and down from there.
LEMMA RelpathIs ==
    ASSUME NEW path \in Seq(Parts), NEW start \in Seq(Parts)
    PROVE  \E c \in Nat :
               /\ c <= Len(path) /\ c <= Len(start)
               /\ SubSeq(path, 1, c) = SubSeq(start, 1, c)
               /\ Relpath(path, start) = UpAndDown(path, start, c)
  <1> DEFINE CP == CommonPrefixes({path, start})
             IsLongest(q) == \A other \in CP : Len(other) <= Len(q)
             common == CHOOSE longest \in CP : IsLongest(longest)
  <1>1. Len(path) \in Nat /\ Len(start) \in Nat
    OBVIOUS
  <1>2. ASSUME NEW q \in CP
        PROVE  /\ Len(q) \in Nat /\ Len(q) <= Len(path) /\ Len(q) <= Len(start)
               /\ SubSeq(path, 1, Len(q)) = SubSeq(start, 1, Len(q))
    <2>1. IsPrefix(q, path) /\ IsPrefix(q, start)
      BY <1>2 DEF CommonPrefixes
    <2>2. PICK s \in {path, start} : q \in Prefixes(s)
      BY <1>2 DEF CommonPrefixes
    <2>3. PICK n \in 0 .. Len(s) : q = SubSeq(s, 1, n)
      BY <2>2 DEF Prefixes
    <2>4. Len(q) \in Nat
      <3>1. s \in Seq(Parts)
        BY <2>2
      <3> QED
        BY <2>3, <3>1
    <2> QED
      BY <2>1, <2>4 DEF IsPrefix
  <1>3. <<>> \in CP
    <2>1. <<>> = SubSeq(path, 1, 0) /\ 0 \in 0 .. Len(path)
      BY <1>1
    <2>2. <<>> \in Prefixes(path)
      BY <2>1 DEF Prefixes
    <2>3. SubSeq(<<>>, 1, 0) = <<>> /\ SubSeq(path, 1, 0) = <<>> /\ SubSeq(start, 1, 0) = <<>>
          /\ Len(<<>>) = 0
      OBVIOUS
    <2>4. IsPrefix(<<>>, path) /\ IsPrefix(<<>>, start)
      BY <1>1, <2>3 DEF IsPrefix
    <2> QED
      BY <2>2, <2>4 DEF CommonPrefixes
  <1> HIDE DEF CP
  <1>4. \E q \in CP : IsLongest(q)
    <2> DEFINE Short == {Len(path) - Len(q) : q \in CP}
    <2>1. Short \subseteq Nat /\ Short # {}
      BY <1>1, <1>2, <1>3
    <2>2. PICK x \in Short : \A y \in Short : x <= y
      <3> HIDE DEF Short
      <3> QED
        BY <2>1, Smallest
    <2>3. PICK q \in CP : x = Len(path) - Len(q)
      BY <2>2
    <2>4. ASSUME NEW other \in CP PROVE Len(other) <= Len(q)
      <3>1. Len(path) - Len(other) \in Short
        OBVIOUS
      <3>2. Len(path) - Len(q) <= Len(path) - Len(other)
        BY <2>2, <2>3, <3>1
      <3> QED
        BY <1>1, <1>2, <3>2
    <2> QED
      BY <2>4
  <1>5. common \in CP
    <2> HIDE DEF IsLongest
    <2> QED
      BY <1>4
  <1>6. LongestCommonPrefix({path, start}) = common
    BY DEF LongestCommonPrefix, CP
  <1> HIDE DEF common
  <1>7. Relpath(path, start) = UpAndDown(path, start, Len(common))
    BY <1>6 DEF Relpath, UpAndDown
  <1> QED
    BY <1>2, <1>5, <1>7

\* What has been come to only grows, by names.
LEMMA GrowsNames ==
    ASSUME NEW text \in Seq(Parts), NEW p, Grows(p, text)
    PROVE  \A i \in 0 .. Len(text) :
               /\ Len(p[i]) \in Nat /\ Len(p[i]) <= Len(Normalize(text))
               /\ \A k \in 1 .. Len(p[i]) : Named(p[i][k]) /\ p[i][k] = Normalize(text)[k]
  <1> DEFINE n == Len(text)
             All(q) == \A k \in 1 .. Len(q) : Named(q[k])
             Heads(q, r) == Len(q) <= Len(r) /\ \A k \in 1 .. Len(q) : q[k] = r[k]
             S == {i \in Nat : i <= n => All(p[i])}
             T == {j \in Nat : j <= n => Heads(p[n - j], p[n])}
  <1>1. n \in Nat
    OBVIOUS
  <1> HIDE DEF n
  <1>2. \A i \in 0 .. n : p[i] \in Seq(Parts) /\ Len(p[i]) \in Nat
    BY DEF Grows, n
  <1>3. \A i \in 1 .. n : p[i] = IF Named(text[i]) THEN Append(p[i - 1], text[i]) ELSE p[i - 1]
    BY DEF Grows, n
  <1>4. ASSUME NEW i \in 1 .. n
        PROVE  Heads(p[i - 1], p[i]) /\ (All(p[i - 1]) => All(p[i]))
    <2>1. i - 1 \in 0 .. n /\ i \in 0 .. n
      BY <1>1
    <2>2. p[i - 1] \in Seq(Parts) /\ Len(p[i - 1]) \in Nat
      BY <1>2, <2>1
    <2>3. CASE Named(text[i])
      <3>1. p[i] = Append(p[i - 1], text[i])
        BY <1>3, <2>3
      <3>2. text[i] \in Parts
        BY ElementOfSeq DEF n
      <3>3. /\ Len(p[i]) = Len(p[i - 1]) + 1 /\ p[i][Len(p[i - 1]) + 1] = text[i]
            /\ \A k \in 1 .. Len(p[i - 1]) : p[i][k] = p[i - 1][k]
        BY <2>2, <3>1, <3>2, AppendProperties
      <3>4. Heads(p[i - 1], p[i])
        BY <2>2, <3>3
      <3>5. ASSUME All(p[i - 1]), NEW k \in 1 .. Len(p[i]) PROVE Named(p[i][k])
        <4>1. k = Len(p[i - 1]) + 1 \/ k \in 1 .. Len(p[i - 1])
          BY <2>2, <3>3
        <4> QED
          BY <2>3, <3>3, <3>5, <4>1
      <3> QED
        BY <3>4, <3>5
    <2>4. CASE ~ Named(text[i])
      <3>1. p[i] = p[i - 1]
        BY <1>3, <2>4
      <3> QED
        BY <2>2, <3>1
    <2> QED
      BY <2>3, <2>4
  <1>5. 0 \in S
    <2>1. p[0] = <<>>
      BY DEF Grows
    <2> QED
      BY <2>1
  <1>6. ASSUME NEW i \in Nat, i \in S PROVE i + 1 \in S
    <2> SUFFICES ASSUME i + 1 <= n PROVE All(p[i + 1])
      OBVIOUS
    <2>1. i + 1 \in 1 .. n /\ (i + 1) - 1 = i /\ i <= n
      BY <1>1
    <2>2. All(p[i])
      BY <1>6, <2>1
    <2> HIDE DEF All, Heads
    <2>3. All(p[(i + 1) - 1]) => All(p[i + 1])
      BY <1>4, <2>1
    <2> QED
      BY <2>1, <2>2, <2>3
  <1>7. 0 \in T
    <2>1. n - 0 = n /\ n \in 0 .. n
      BY <1>1
    <2>2. Heads(p[n], p[n])
      BY <1>2, <2>1
    <2> HIDE DEF Heads
    <2> QED
      BY <2>1, <2>2
  <1>8. ASSUME NEW j \in Nat, j \in T PROVE j + 1 \in T
    <2> SUFFICES ASSUME j + 1 <= n PROVE Heads(p[n - (j + 1)], p[n])
      OBVIOUS
    <2>1. n - j \in 1 .. n /\ (n - j) - 1 = n - (j + 1) /\ j <= n
      BY <1>1
    <2>2. Heads(p[n - j], p[n])
      BY <1>8, <2>1
    <2>3. Heads(p[(n - j) - 1], p[n - j])
      <3> HIDE DEF Heads, All
      <3> QED
        BY <1>4, <2>1
    <2>4. Heads(p[n - (j + 1)], p[n - j])
      BY <2>1, <2>3
    <2>5. /\ Len(p[n - (j + 1)]) \in Nat /\ Len(p[n - j]) \in Nat /\ Len(p[n]) \in Nat
      <3>1. n - (j + 1) \in 0 .. n /\ n - j \in 0 .. n /\ n \in 0 .. n
        BY <1>1, <2>1
      <3> QED
        BY <1>2, <3>1
    <2> QED
      BY <2>2, <2>4, <2>5
  <1> HIDE DEF S, T, All, Heads
  <1>9. Nat \subseteq S /\ Nat \subseteq T
    BY <1>5, <1>6, <1>7, <1>8, NatSet
  <1>10. ASSUME NEW i \in 0 .. n PROVE All(p[i]) /\ Heads(p[i], p[n])
    <2>1. i \in S /\ n - i \in T /\ i <= n /\ n - i <= n /\ n - (n - i) = i
      BY <1>1, <1>9
    <2> QED
      BY <2>1 DEF S, T
  <1>11. Normalize(text) = p[n]
    BY DEF Grows, n
  <1> QED
    BY <1>2, <1>10, <1>11 DEF n, All, Heads

-----------------------------------------------------------------------------
(***************************************************************************)
(* A link whose absolute target is written relative to its directory.      *)
(***************************************************************************)

\* What is above a link.
Above(l, k) == SubSeq(DirOf(l), 1, k)

\* It is directories, none of them a link, as the gate has checked the ancestors
\* of every entry.
LEMMA AboveLink ==
    ASSUME records \in Seq(Records["manifest"]), \A i \in DOMAIN records : GoodAncestors(i),
           NEW l \in Links, NEW k \in 0 .. Len(DirOf(l))
    PROVE  /\ Above(l, k) \in Seq(Parts) /\ Len(Above(l, k)) = k
           /\ \A j \in 1 .. k : Above(l, k)[j] = DirOf(l)[j]
           /\ IsDirectory(Above(l, k))
           /\ LinksAt(Above(l, k)) = {}
  <1>1. /\ NameOf(l) \in Seq(Parts) /\ NameOf(l) # <<>>
        /\ DirOf(l) \in Seq(Parts) /\ Len(DirOf(l)) = Len(NameOf(l)) - 1
        /\ \A i \in 1 .. Len(DirOf(l)) : DirOf(l)[i] = NameOf(l)[i]
    BY LinkShape, NameType
  <1>2. Len(DirOf(l)) \in Nat /\ Len(NameOf(l)) \in Nat /\ k \in Nat /\ k < Len(NameOf(l))
    BY <1>1
  <1>3. /\ Above(l, k) \in Seq(Parts) /\ Len(Above(l, k)) = k
        /\ \A j \in 1 .. k : Above(l, k)[j] = DirOf(l)[j]
    BY <1>1, <1>2 DEF Above
  <1>4. IsStrictPrefix(Above(l, k), NameOf(l))
    <2>1. SubSeq(Above(l, k), 1, k) = SubSeq(NameOf(l), 1, k)
      <3>1. \A j \in 1 .. k : j \in 1 .. Len(DirOf(l))
        BY <1>2
      <3>2. \A j \in 1 .. k : Above(l, k)[j] = NameOf(l)[j]
        BY <1>1, <1>3, <3>1, Zenon
      <3>3. /\ SubSeq(Above(l, k), 1, k) = Above(l, k)
            /\ SubSeq(NameOf(l), 1, k) \in Seq(Parts) /\ Len(SubSeq(NameOf(l), 1, k)) = k
            /\ \A j \in 1 .. k : SubSeq(NameOf(l), 1, k)[j] = NameOf(l)[j]
        BY <1>1, <1>2, <1>3
      <3>4. \A j \in 1 .. Len(Above(l, k)) : Above(l, k)[j] = SubSeq(NameOf(l), 1, k)[j]
        BY <1>3, <3>2, <3>3
      <3> QED
        BY <1>3, <3>3, <3>4, SeqEqual
    <2>2. Above(l, k) # NameOf(l)
      BY <1>2, <1>3
    <2> QED
      BY <1>2, <1>3, <2>1, <2>2 DEF IsStrictPrefix, IsPrefix
  <1>5. l \in Range(records) /\ l.type = "symlink"
    BY DEF Links
  <1>6. IsDirectory(Above(l, k))
    BY <1>4, <1>5 DEF IsDirectory
  <1>7. PICK i \in DOMAIN records : l = records[i]
    BY <1>5 DEF Range
  <1>8. ASSUME NEW e \in LinksAt(Above(l, k)) PROVE FALSE
    <2>1. e \in Range(records) /\ e.type = "symlink" /\ NameOf(e) = Above(l, k)
      BY <1>8 DEF LinksAt
    <2>2. GoodAncestors(i)
      BY <1>7
    <2>3. e.type = "directory"
      BY <1>4, <1>7, <2>1, <2>2 DEF GoodAncestors
    <2> QED
      BY <2>1, <2>3
  <1> QED
    BY <1>3, <1>6, <1>8

\* Going up from a link.
LEMMA Climb ==
    ASSUME NEW text, Texts(text), \A i \in DOMAIN records : GoodAncestors(i),
           NEW l \in Links, NEW c \in 0 .. Len(DirOf(l)), NEW r \in Seq(Parts), NEW f \in Nat
    PROVE  Leads(text, DirOf(l), [i \in 1 .. Len(DirOf(l)) - c |-> ".."] \o r, f)
               = Leads(text, Above(l, c), r, f)
  <1> DEFINE n == Len(DirOf(l))
             up == [i \in 1 .. n - c |-> ".."]
             S == {i \in Nat : i <= n - c => Leads(text, DirOf(l), up \o r, f)
                                  = Leads(text, Above(l, n - i), After(up, i) \o r, f)}
  <1>1. records \in Seq(Records["manifest"])
    BY DEF Texts
  <1>2. DirOf(l) \in Seq(Parts) /\ n \in Nat /\ n - c \in Nat /\ c \in Nat /\ c <= n
    BY <1>1, LinkShape, NameType
  <1> HIDE DEF n
  <1>3. up \in Seq(Parts) /\ Len(up) = n - c /\ \A i \in 1 .. n - c : up[i] = ".."
    <2>1. ".." \in Parts
      BY EntriesAssumption
    <2>2. up \in [1 .. n - c -> Parts]
      BY <2>1
    <2>3. up \in Seq(Parts) /\ Len(up) = n - c
      BY <1>2, <2>2
    <2> QED
      BY <2>3
  <1> HIDE DEF up
  <1>4. Above(l, n) = DirOf(l)
    BY <1>2 DEF Above, n
  <1>5. 0 \in S
    <2>1. After(up, 0) \o r = up \o r
      BY <1>3, AfterIs
    <2>2. n - 0 = n
      BY <1>2
    <2> QED
      BY <1>4, <2>1, <2>2
  <1>6. ASSUME NEW i \in Nat, i \in S PROVE i + 1 \in S
    <2> SUFFICES ASSUME i + 1 <= n - c
                 PROVE  Leads(text, DirOf(l), up \o r, f)
                            = Leads(text, Above(l, n - (i + 1)), After(up, i + 1) \o r, f)
      OBVIOUS
    <2> DEFINE dir == Above(l, n - i)
               before == After(up, i) \o r
    <2>1. /\ i \in 0 .. Len(up) - 1 /\ i + 1 \in 1 .. n - c
          /\ n - i \in 1 .. n /\ n - i \in 0 .. n /\ (n - i) - 1 = n - (i + 1)
      BY <1>2, <1>3
    <2>2. Leads(text, DirOf(l), up \o r, f) = Leads(text, dir, before, f)
      BY <1>2, <1>6
    <2>3. /\ before \in Seq(Parts) /\ before # <<>> /\ Head(before) = ".."
          /\ Tail(before) = After(up, i + 1) \o r
      BY <1>3, <2>1, AfterNext
    <2>4. dir \in Seq(Parts) /\ Len(dir) = n - i /\ IsDirectory(dir)
      BY <1>1, <2>1, AboveLink DEF n
    <2>5. dir # <<>> /\ dir # Escapes /\ dir \in Places
      BY <2>1, <2>4, Inside, PlaceTypes
    <2>6. Follow(dir, "..") = Above(l, n - (i + 1))
      <3>1. Follow(dir, "..") = Front(dir)
        BY <2>5 DEF Follow
      <3>2. Front(dir) = SubSeq(dir, 1, (n - i) - 1)
        BY <2>4 DEF Front
      <3>3. SubSeq(dir, 1, (n - i) - 1) = SubSeq(DirOf(l), 1, (n - i) - 1)
        <4> DEFINE k == n - i
        <4>1. k \in 1 .. n /\ dir = SubSeq(DirOf(l), 1, k)
          BY <2>1 DEF Above
        <4> HIDE DEF k, dir
        <4>2. SubSeq(SubSeq(DirOf(l), 1, k), 1, k - 1) = SubSeq(DirOf(l), 1, k - 1)
          BY <1>2, <4>1 DEF n
        <4> QED
          BY <4>1, <4>2 DEF k
      <3> QED
        BY <2>1, <3>1, <3>2, <3>3 DEF Above
    <2> HIDE DEF dir, before
    <2>7. Leads(text, dir, before, f) = Taken(text, dir, "..", Tail(before), f)
      BY <2>3, <2>4, <2>5, LeadsOn
    <2>8. Taken(text, dir, "..", Tail(before), f) = Leads(text, Follow(dir, ".."), Tail(before), f)
      BY DEF Taken, Named
    <2> QED
      BY <2>2, <2>3, <2>6, <2>7, <2>8
  <1> HIDE DEF S
  <1>7. n - c \in S
    BY <1>2, <1>5, <1>6, NatSet
  <1>8. After(up, n - c) \o r = r
    <2>1. After(up, Len(up)) \o r = r
      BY <1>3, AfterIs
    <2> QED
      BY <1>3, <2>1
  <1>9. n - (n - c) = c /\ n - c <= n - c
    BY <1>2
  <1>10. Leads(text, DirOf(l), up \o r, f) = Leads(text, Above(l, c), r, f)
    BY <1>7, <1>8, <1>9 DEF S
  <1> QED
    BY <1>10 DEF up, n

\* A link whose absolute target is written relative to its directory: the
\* recorded one is walked from the root, the written one from where the two
\* paths part.
LEMMA AgreeRendered ==
    ASSUME NEW text, Texts(text), Texts(Recorded), NEW next, AgreeAll(text, next),
           \A i \in DOMAIN records : GoodAncestors(i),
           NEW l \in Links, Absolute(l.target), ".." \notin Range(l.target),
           text[l] = Relpath(Normalize(l.target), DirOf(l)),
           WalkTarget(l, next) # Escapes,
           NEW rest \in Seq(Parts), NEW other \in Seq(Parts), NEW f \in Nat
    PROVE  Agree(text, l, WalkTarget(l, next), rest, other, f)
  <1> DEFINE t == l.target
             from == Leads(Recorded, Start(l, l.target), l.target \o rest, f)
             to == Leads(text, Start(l, text[l]), text[l] \o other, f)
             name == Normalize(t)
             dir == DirOf(l)
  <1> SUFFICES ASSUME from # Nowhere
               PROVE  \E k \in Nat : /\ from = Leads(Recorded, WalkTarget(l, next), rest, k)
                                     /\ to = Leads(text, WalkTarget(l, next), other, k)
    BY DEF Agree
  <1> HIDE DEF from, to
  <1>1. t \in Seq(Parts) /\ Len(t) \in Nat /\ records \in Seq(Records["manifest"])
    BY LinkShape DEF Texts
  <1>2. PICK g : /\ g[0] = Start(l, t)
                 /\ WalkTarget(l, next) = g[Len(t)]
                 /\ \A i \in 1 .. Len(t) : g[i] = Turn(l, next, g[i - 1], i)
                 /\ \A i \in 0 .. Len(t) : g[i] # Escapes /\ g[i] \in Places
    BY <1>1, TargetWalk
  <1>3. PICK p : Grows(p, t)
    BY <1>1, NormalizeGrows
  <1>4. dir \in Seq(Parts) /\ Len(dir) \in Nat
    BY <1>1, LinkShape, NameType
  <1>5. name \in Seq(Parts) /\ Len(name) \in Nat /\ name = p[Len(t)]
    BY <1>1, <1>3 DEF Grows
  <1>6. \A i \in 0 .. Len(t) :
            /\ p[i] \in Seq(Parts) /\ Len(p[i]) \in Nat /\ Len(p[i]) <= Len(name)
            /\ \A k \in 1 .. Len(p[i]) : Named(p[i][k]) /\ p[i][k] = name[k]
    <2>1. \A i \in 0 .. Len(t) : p[i] \in Seq(Parts)
      BY <1>3 DEF Grows
    <2>2. \A i \in 0 .. Len(t) :
              /\ Len(p[i]) \in Nat /\ Len(p[i]) <= Len(name)
              /\ \A k \in 1 .. Len(p[i]) : Named(p[i][k]) /\ p[i][k] = name[k]
      <3> HIDE DEF t
      <3> QED
        BY <1>1, <1>3, GrowsNames
    <2> QED
      BY <2>1, <2>2
  <1>20. text[l] = Relpath(name, dir)
    OBVIOUS
  <1> HIDE DEF name, dir
  <1>7. PICK c \in Nat :
            /\ c <= Len(name) /\ c <= Len(dir)
            /\ SubSeq(name, 1, c) = SubSeq(dir, 1, c)
            /\ text[l] = UpAndDown(name, dir, c)
    <2>1. name \in Seq(Parts) /\ dir \in Seq(Parts)
      BY <1>4, <1>5
    <2>2. \E c \in Nat :
              /\ c <= Len(name) /\ c <= Len(dir)
              /\ SubSeq(name, 1, c) = SubSeq(dir, 1, c)
              /\ Relpath(name, dir) = UpAndDown(name, dir, c)
      BY <2>1, RelpathIs, Zenon
    <2> QED
      BY <1>20, <2>2, Zenon
  <1> DEFINE up == [i \in 1 .. Len(dir) - c |-> ".."]
  <1>8. c \in 0 .. Len(dir) /\ up \in Seq(Parts) /\ Len(up) = Len(dir) - c
    <2> DEFINE n == Len(dir) - c
    <2>1. n \in Nat /\ c \in 0 .. Len(dir)
      BY <1>4, <1>7
    <2> HIDE DEF n
    <2>2. [i \in 1 .. n |-> ".."] \in [1 .. n -> Parts]
      BY EntriesAssumption
    <2>3. [i \in 1 .. n |-> ".."] \in Seq(Parts) /\ Len([i \in 1 .. n |-> ".."]) = n
      BY <2>1, <2>2
    <2> QED
      BY <2>1, <2>3 DEF n
  <1>9. from = Leads(Recorded, <<>>, t \o rest, f) /\ g[0] = <<>>
    BY <1>2 DEF from, Start
  <1> HIDE DEF t, up

  \* Above the link the recorded target meets no other.
  <1>10. ASSUME NEW i \in 0 .. Len(t), Len(p[i]) <= c
         PROVE  p[i] = Above(l, Len(p[i])) /\ LinksAt(p[i]) = {} /\ IsDirectory(p[i])
    <2>1. Len(p[i]) \in 0 .. Len(DirOf(l))
      BY <1>4, <1>6, <1>7, <1>10 DEF dir
    <2>2. /\ Above(l, Len(p[i])) \in Seq(Parts) /\ Len(Above(l, Len(p[i]))) = Len(p[i])
          /\ \A j \in 1 .. Len(p[i]) : Above(l, Len(p[i]))[j] = dir[j]
          /\ IsDirectory(Above(l, Len(p[i]))) /\ LinksAt(Above(l, Len(p[i]))) = {}
      BY <1>1, <2>1, AboveLink DEF dir
    <2>3. \A j \in 1 .. c : name[j] = dir[j]
      <3>1. \A j \in 1 .. c : SubSeq(name, 1, c)[j] = name[j] /\ SubSeq(dir, 1, c)[j] = dir[j]
        BY <1>4, <1>5, <1>7
      <3> QED
        BY <1>7, <3>1
    <2>4. \A j \in 1 .. Len(p[i]) : p[i][j] = Above(l, Len(p[i]))[j]
      BY <1>6, <1>7, <1>10, <2>2, <2>3
    <2>5. p[i] = Above(l, Len(p[i]))
      BY <1>6, <2>2, <2>4, SeqEqual
    <2> QED
      BY <2>2, <2>5

  \* The written one goes up to there.
  <1>11. to = Leads(text, Above(l, c), After(name, c) \o other, f)
    <2> DEFINE down == SubSeq(name, c + 1, Len(name))
    <2>1. down \in Seq(Parts) /\ down = After(name, c) /\ Len(down) = Len(name) - c
          /\ (Len(down) > 0 => down[1] = name[c + 1])
      BY <1>5, <1>7 DEF After
    <2>2. name = p[Len(t)] /\ \A k \in 1 .. Len(name) : Named(name[k])
      BY <1>1, <1>5, <1>6
    <2>3. text[l] = IF up \o down = <<>> THEN <<".">> ELSE up \o down
      BY <1>7 DEF up, UpAndDown
    <2> HIDE DEF down
    <2>4. /\ up \o down \in Seq(Parts) /\ Len(up \o down) = Len(up) + Len(down)
          /\ \A j \in 1 .. Len(up) + Len(down) :
                 (up \o down)[j] = IF j <= Len(up) THEN up[j] ELSE down[j - Len(up)]
      BY <1>8, <2>1, ConcatProperties
    <2>5. Len(up) \in Nat /\ Len(down) \in Nat /\ Len(other) \in Nat
      BY <1>8, <2>1
    <2>6. ~ Absolute(text[l])
      <3>1. CASE up \o down = <<>>
        <4>1. Head(text[l]) = "."
          BY <2>3, <3>1
        <4>2. "." # ""
          OBVIOUS
        <4> QED
          BY <4>1, <4>2 DEF Absolute
      <3>2. CASE up \o down # <<>> /\ Len(up) > 0
        <4>1. Head(up \o down) = up[1] /\ 1 \in 1 .. Len(up)
          BY <2>4, <2>5, <3>2
        <4>2. up[1] = ".."
          BY <1>8, <4>1 DEF up
        <4>3. Head(text[l]) = ".."
          BY <2>3, <3>2, <4>1, <4>2
        <4>4. ".." # ""
          OBVIOUS
        <4> QED
          BY <4>3, <4>4 DEF Absolute
      <3>3. CASE up \o down # <<>> /\ Len(up) = 0
        <4>1. Len(down) > 0
          BY <2>4, <2>5, <3>3
        <4>2. Head(up \o down) = down[1]
          BY <2>4, <2>5, <3>3, <4>1
        <4>3. c + 1 \in 1 .. Len(name)
          BY <1>5, <1>7, <2>1, <4>1
        <4>4. Named(down[1])
          BY <2>1, <2>2, <4>1, <4>3
        <4> QED
          BY <2>3, <3>3, <4>2, <4>4 DEF Absolute, Named
      <3>4. Len(up) > 0 \/ Len(up) = 0
        BY <2>5
      <3> QED
        BY <3>1, <3>2, <3>3, <3>4
    <2>7. to = Leads(text, dir, text[l] \o other, f)
      BY <2>6 DEF to, Start, dir
    <2>8. CASE up \o down = <<>>
      <3>1. Len(up) = 0 /\ Len(down) = 0 /\ c = Len(dir)
        BY <1>4, <1>7, <1>8, <2>4, <2>5, <2>8
      <3>2. down \o other = other
        BY <2>1, <3>1
      <3>3. Above(l, c) = dir
        BY <1>4, <3>1 DEF Above, dir
      <3>4. IsDirectory(dir) /\ dir \in Places
        BY <1>1, <1>4, <1>8, <3>3, AboveLink, PlaceTypes DEF dir
      <3>5. <<".">> \o other \in Seq(Parts) /\ <<".">> \o other # <<>>
            /\ Head(<<".">> \o other) = "." /\ Tail(<<".">> \o other) = other
        BY EntriesAssumption
      <3>6. Leads(text, dir, <<".">> \o other, f) = Taken(text, dir, ".", other, f)
        BY <3>4, <3>5, LeadsOn
      <3>7. Taken(text, dir, ".", other, f) = Leads(text, dir, other, f)
        BY DEF Taken, Named, Follow
      <3> QED
        BY <2>1, <2>3, <2>7, <2>8, <3>2, <3>3, <3>6, <3>7
    <2>9. CASE up \o down # <<>>
      <3>1. (up \o down) \o other = up \o (down \o other)
        <4>1. up \in Seq(Parts) /\ down \in Seq(Parts) /\ other \in Seq(Parts)
          BY <1>8, <2>1
        <4> QED
          BY <4>1, ConcatAssociative
      <3>2. down \o other \in Seq(Parts)
        BY <2>1
      <3>3. Leads(text, dir, up \o (down \o other), f) = Leads(text, Above(l, c), down \o other, f)
        <4>1. c \in 0 .. Len(DirOf(l))
          BY <1>8 DEF dir
        <4> DEFINE q == down \o other
        <4> HIDE DEF q
        <4>2. q \in Seq(Parts)
          BY <3>2 DEF q
        <4>3. Leads(text, DirOf(l), [i \in 1 .. Len(DirOf(l)) - c |-> ".."] \o q, f)
                  = Leads(text, Above(l, c), q, f)
          BY <4>1, <4>2, Climb
        <4> QED
          BY <4>3 DEF q, dir, up
      <3> QED
        BY <2>1, <2>3, <2>7, <2>9, <3>1, <3>3
    <2> QED
      BY <2>8, <2>9

  \* Until the paths part the recorded one is walked alone, then both are.
  <1> DEFINE Alone(i) == g[i] = p[i] /\ from = Leads(Recorded, g[i], After(t, i) \o rest, f)
             Both(i) == \E k \in Nat :
                 /\ from = Leads(Recorded, g[i], After(t, i) \o rest, k)
                 /\ to = Leads(text, g[i], After(name, Len(p[i])) \o other, k)
             Come(i) == /\ Len(p[i]) <= c => Alone(i)
                        /\ Len(p[i]) >= c => Both(i)
             T == {i \in Nat : i <= Len(t) => Come(i)}
  <1>12. ASSUME NEW i \in 0 .. Len(t), Alone(i), Len(p[i]) = c PROVE Both(i)
    <2>1. g[i] = Above(l, c)
      BY <1>10, <1>12, <1>6
    <2> QED
      BY <1>11, <1>12, <2>1
  <1>13. Come(0)
    <2>1. p[0] = <<>> /\ Len(p[0]) = 0 /\ 0 \in 0 .. Len(t)
      BY <1>1, <1>3 DEF Grows
    <2>2. After(t, 0) \o rest = t \o rest
      BY <1>1, AfterIs
    <2>3. Alone(0)
      BY <1>9, <2>1, <2>2
    <2> HIDE DEF Alone, Both
    <2> QED
      BY <1>7, <1>12, <2>1, <2>3
  <1>14. ASSUME NEW i \in Nat, i + 1 <= Len(t), Come(i) PROVE Come(i + 1)
    <2> DEFINE r == After(t, i) \o rest
               o == After(name, Len(p[i])) \o other
               part == t[i + 1]
    <2>1. i + 1 \in 1 .. Len(t) /\ (i + 1) - 1 = i /\ i \in 0 .. Len(t) - 1
          /\ i \in 0 .. Len(t) /\ i + 1 \in 0 .. Len(t)
      BY <1>1, <1>14
    <2>2. r \in Seq(Parts) /\ r # <<>> /\ Head(r) = part /\ Tail(r) = After(t, i + 1) \o rest
      <3> HIDE DEF o
      <3> QED
        BY <1>1, <2>1, AfterNext
    <2>3. g[i + 1] = Turn(l, next, g[i], i + 1) /\ g[i + 1] # Escapes /\ g[i] \in Places
      BY <1>2, <2>1
    <2>4. /\ p[i + 1] = Follow(p[i], part)
          /\ p[i + 1] = IF Named(part) THEN Append(p[i], part) ELSE p[i]
      BY <1>3, <2>1 DEF Grows
    <2>5. part \in Parts
      BY <1>1, <2>1, ElementOfSeq
    <2>6. /\ p[i] \in Seq(Parts) /\ Len(p[i]) \in Nat
          /\ p[i + 1] \in Seq(Parts) /\ Len(p[i + 1]) \in Nat /\ Len(p[i + 1]) <= Len(name)
      BY <1>6, <2>1
    <2>7. Named(part) => Len(p[i + 1]) = Len(p[i]) + 1
      BY <2>4, <2>5, <2>6, AppendProperties
    <2> HIDE DEF r, o, part
    <2>8. ASSUME Len(p[i + 1]) <= c PROVE Alone(i + 1)
      <3>1. Len(p[i]) <= c /\ Alone(i)
        BY <1>7, <1>14, <2>4, <2>6, <2>7, <2>8
      <3>2. LinksAt(p[i + 1]) = {} /\ IsDirectory(p[i])
        BY <1>10, <2>1, <2>8, <3>1
      <3>3. g[i + 1] = p[i + 1]
        BY <2>3, <2>4, <3>1, <3>2 DEF Turn, part, t
      <3>4. from = Leads(Recorded, p[i], r, f) /\ p[i] \in Places
        BY <2>3, <3>1 DEF r
      <3>5. Leads(Recorded, p[i], r, f) = Taken(Recorded, p[i], part, Tail(r), f)
        BY <2>2, <3>2, <3>4, LeadsOn
      <3>6. Taken(Recorded, p[i], part, Tail(r), f) = Leads(Recorded, p[i + 1], Tail(r), f)
        BY <2>4, <3>2 DEF Taken
      <3> QED
        BY <2>2, <3>3, <3>4, <3>5, <3>6
    <2>9. ASSUME Len(p[i]) >= c PROVE Both(i + 1)
      <3>1. PICK k \in Nat : from = Leads(Recorded, g[i], r, k) /\ to = Leads(text, g[i], o, k)
        BY <1>14, <2>9 DEF r, o
      <3>2. CASE Named(part)
        <4>1. Len(p[i]) \in 0 .. Len(name) - 1 /\ Len(p[i]) + 1 = Len(p[i + 1])
          BY <1>5, <2>6, <2>7, <3>2
        <4>2. /\ o \in Seq(Parts) /\ o # <<>> /\ Head(o) = name[Len(p[i]) + 1]
              /\ Tail(o) = After(name, Len(p[i]) + 1) \o other
          <5> DEFINE n == Len(p[i])
          <5>1. n \in 0 .. Len(name) - 1
            BY <4>1
          <5> HIDE DEF n
          <5>2. LET x == After(name, n) \o other
                IN  /\ x \in Seq(Parts) /\ x # <<>> /\ Head(x) = name[n + 1]
                    /\ Tail(x) = After(name, n + 1) \o other
            BY <1>5, <5>1, AfterNext
          <5> QED
            BY <5>2 DEF n, o
        <4>3. name[Len(p[i]) + 1] = part
          <5>1. p[i + 1][Len(p[i]) + 1] = part
            BY <2>4, <2>5, <2>6, <3>2, AppendProperties
          <5>2. Len(p[i]) + 1 \in 1 .. Len(p[i + 1])
            BY <2>6, <4>1
          <5>3. p[i + 1][Len(p[i]) + 1] = name[Len(p[i]) + 1]
            BY <1>6, <2>1, <5>2
          <5> QED
            BY <5>1, <5>3
        <4>4. PICK followed \in Nat :
                  /\ Leads(Recorded, g[i], r, k) = Leads(Recorded, g[i + 1], Tail(r), followed)
                  /\ Leads(text, g[i], o, k) = Leads(text, g[i + 1], Tail(o), followed)
          <5>1. Head(r) = l.target[i + 1] /\ Head(o) = l.target[i + 1]
            BY <2>2, <4>2, <4>3 DEF t, part
          <5>2. Leads(Recorded, g[i], r, k) # Nowhere /\ Turn(l, next, g[i], i + 1) # Escapes
            BY <2>3, <3>1
          <5> QED
            BY <2>2, <2>3, <4>2, <5>1, <5>2, OneTurn
        <4> QED
          BY <2>2, <3>1, <4>1, <4>2, <4>4
      <3>3. CASE ~ Named(part)
        <4>1. p[i + 1] = p[i]
          BY <2>4, <3>3
        <4>2. part # ".."
          BY <1>1, <2>1 DEF part, t, Range
        <4>3. g[i + 1] = Follow(g[i], part)
          BY <2>3, <3>3 DEF Turn, part, t
        <4>4. Follow(g[i], part) = g[i]
          BY <3>3, <4>2 DEF Follow, Named
        <4>5. IsDirectory(g[i]) /\ Leads(Recorded, g[i], r, k) = Taken(Recorded, g[i], part, Tail(r), k)
          BY <2>2, <2>3, <3>1, LeadsOn
        <4>6. Taken(Recorded, g[i], part, Tail(r), k) = Leads(Recorded, g[i], Tail(r), k)
          BY <3>3, <4>4 DEF Taken
        <4> QED
          BY <2>2, <3>1, <4>1, <4>3, <4>4, <4>5, <4>6 DEF o
      <3> QED
        BY <3>2, <3>3
    <2>10. ASSUME Len(p[i + 1]) >= c PROVE Both(i + 1)
      <3>1. CASE Len(p[i]) >= c
        BY <2>9, <3>1
      <3>2. CASE Len(p[i + 1]) = c
        <4>1. Alone(i + 1)
          BY <1>7, <2>8, <3>2
        <4> HIDE DEF Alone, Both
        <4> QED
          BY <1>12, <2>1, <3>2, <4>1
      <3>3. Len(p[i]) >= c \/ Len(p[i + 1]) = c
        BY <1>7, <2>4, <2>6, <2>7, <2>10
      <3> QED
        BY <3>1, <3>2, <3>3
    <2> HIDE DEF Alone, Both
    <2> QED
      BY <2>8, <2>10
  <1> HIDE DEF Come, Alone, Both
  <1>15. 0 \in T /\ \A i \in Nat : i \in T => i + 1 \in T
    BY <1>1, <1>13, <1>14
  <1> HIDE DEF T
  <1>16. Len(t) \in T
    BY <1>1, <1>15, NatSet
  <1>17. Come(Len(t))
    BY <1>1, <1>16 DEF T
  <1>18. PICK k \in Nat :
             /\ from = Leads(Recorded, g[Len(t)], After(t, Len(t)) \o rest, k)
             /\ to = Leads(text, g[Len(t)], After(name, Len(name)) \o other, k)
    BY <1>5, <1>7, <1>17 DEF Come, Both
  <1>19. After(t, Len(t)) \o rest = rest /\ After(name, Len(name)) \o other = other
    BY <1>1, <1>5, AfterIs
  <1> QED
    BY <1>2, <1>18, <1>19

-----------------------------------------------------------------------------
(***************************************************************************)
(* Every link, and the texts that _render makes.                           *)
(***************************************************************************)

\* Every text is the recorded target, or what _render makes of an absolute one
\* without "..".
Faithful(text) ==
    \A l \in Links :
        \/ text[l] = l.target
        \/ /\ Absolute(l.target) /\ ".." \notin Range(l.target)
           /\ text[l] = Relpath(Normalize(l.target), DirOf(l))

\* The gate and the kernel agree on every link, by induction on the hops the
\* gate has left.
LEMMA AgreeReal ==
    ASSUME NEW text, Texts(text), Texts(Recorded), Faithful(text),
           \A i \in DOMAIN records : GoodAncestors(i)
    PROVE  AgreeAll(text, RealTarget)
  <1>1. PICK real : /\ RealTarget = real[0]
                    /\ \A hops \in 0 .. MaxHops + 1 : real[hops] = Reals(real[hops + 1], hops)
    BY RealTargets
  <1> DEFINE last == MaxHops + 1
             S == {d \in Nat : d <= last => AgreeAll(text, real[last - d])}
  <1>2. last \in Nat /\ last - 0 = last /\ last \in 0 .. last
    BY HopsAssumption
  <1>3. 0 \in S
    <2>1. real[last] = Reals(real[last + 1], last)
      BY <1>1, <1>2
    <2>2. \A l \in Links : real[last][l] = Escapes
      BY <2>1, HopsAssumption DEF Reals
    <2>3. AgreeAll(text, real[last])
      BY <2>2 DEF AgreeAll
    <2> QED
      BY <1>2, <2>3
  <1>4. ASSUME NEW d \in Nat, d \in S PROVE d + 1 \in S
    <2> DEFINE k == last - (d + 1)
    <2> SUFFICES ASSUME d + 1 <= last PROVE AgreeAll(text, real[k])
      OBVIOUS
    <2>1. k \in 0 .. last /\ k + 1 = last - d /\ d <= last
      BY <1>2
    <2> HIDE DEF k
    <2> DEFINE next == real[k + 1]
    <2>2. AgreeAll(text, next)
      BY <1>4, <2>1
    <2>3. real[k] = Reals(next, k)
      BY <1>1, <2>1
    <2> HIDE DEF next, S, last
    <2>4. ASSUME NEW l \in Links, real[k][l] # Escapes
          PROVE  /\ real[k][l] \in Places
                 /\ \A rest \in Seq(Parts), other \in Seq(Parts), f \in Nat :
                        Agree(text, l, real[k][l], rest, other, f)
      <3>1. real[k][l] = WalkTarget(l, next) /\ WalkTarget(l, next) # Escapes
        BY <2>3, <2>4 DEF Reals
      <3>2. records \in Seq(Records["manifest"])
        BY DEF Texts
      <3>3. WalkTarget(l, next) \in Places
        <4>1. Len(l.target) \in 0 .. Len(l.target)
          BY <3>2, LinkShape
        <4> QED
          BY <2>2, <3>1, <3>2, <4>1, TargetWalk
      <3>4. ASSUME NEW rest \in Seq(Parts), NEW other \in Seq(Parts), NEW f \in Nat
            PROVE  Agree(text, l, WalkTarget(l, next), rest, other, f)
        <4>1. CASE text[l] = l.target
          BY <2>2, <3>1, <4>1, AgreeRecorded
        <4>2. CASE /\ Absolute(l.target) /\ ".." \notin Range(l.target)
                   /\ text[l] = Relpath(Normalize(l.target), DirOf(l))
          BY <2>2, <3>1, <4>2, AgreeRendered
        <4> QED
          BY <4>1, <4>2 DEF Faithful
      <3> QED
        BY <3>1, <3>3, <3>4
    <2> QED
      BY <2>4 DEF AgreeAll
  <1> HIDE DEF S
  <1>5. last \in S
    BY <1>2, <1>3, <1>4, NatSet
  <1>6. AgreeAll(text, real[last - last])
    BY <1>2, <1>5 DEF S
  <1> QED
    BY <1>1, <1>2, <1>6

\* So a lookup of the recorded targets that leads anywhere leads to the real
\* target of the link, and so does one of the texts.
LEMMA LookupAgrees ==
    ASSUME NEW text, Texts(text), Texts(Recorded), Faithful(text),
           \A i \in DOMAIN records : GoodAncestors(i),
           NEW l \in Links, RealTarget[l] # Escapes, Lookup(Recorded, l) # Nowhere
    PROVE  Lookup(Recorded, l) = RealTarget[l] /\ Lookup(text, l) = RealTarget[l]
  <1>1. AgreeAll(text, RealTarget)
    BY AgreeReal
  <1>2. <<>> \in Seq(Parts) /\ 1 \in Nat
    OBVIOUS
  <1>3. RealTarget[l] \in Places /\ Agree(text, l, RealTarget[l], <<>>, <<>>, 1)
    BY <1>1, <1>2 DEF AgreeAll
  <1>4. l.target \in Seq(Parts) /\ text[l] \in Seq(Parts) /\ Recorded[l] = l.target
    BY LinkShape DEF Texts
  <1>5. l.target \o <<>> = l.target /\ text[l] \o <<>> = text[l]
    BY <1>4
  <1>6. /\ Lookup(Recorded, l) = Leads(Recorded, Start(l, l.target), l.target \o <<>>, 1)
        /\ Lookup(text, l) = Leads(text, Start(l, text[l]), text[l] \o <<>>, 1)
    BY <1>4, <1>5 DEF Lookup, Leads
  <1>7. PICK k \in Nat : /\ Lookup(Recorded, l) = Leads(Recorded, RealTarget[l], <<>>, k)
                         /\ Lookup(text, l) = Leads(text, RealTarget[l], <<>>, k)
    BY <1>3, <1>6 DEF Agree
  <1> QED
    BY <1>3, <1>7, LeadsHere

\* A relative path is a sequence of components.
LEMMA RelpathType ==
    ASSUME NEW path \in Seq(Parts), NEW start \in Seq(Parts)
    PROVE  Relpath(path, start) \in Seq(Parts)
  <1>1. PICK c \in Nat : /\ c <= Len(path) /\ c <= Len(start)
                         /\ Relpath(path, start) = UpAndDown(path, start, c)
    BY RelpathIs
  <1> DEFINE n == Len(start) - c
             up == [i \in 1 .. n |-> ".."]
             down == SubSeq(path, c + 1, Len(path))
  <1>2. n \in Nat
    BY <1>1
  <1>3. down \in Seq(Parts)
    BY <1>1
  <1>4. <<".">> \in Seq(Parts)
    BY EntriesAssumption
  <1> HIDE DEF n, down
  <1>5. up \in [1 .. n -> Parts]
    BY EntriesAssumption
  <1>6. up \in Seq(Parts)
    BY <1>2, <1>5
  <1> HIDE DEF up
  <1>7. up \o down \in Seq(Parts)
    BY <1>3, <1>6
  <1>8. UpAndDown(path, start, c) = IF up \o down = <<>> THEN <<".">> ELSE up \o down
    BY DEF UpAndDown, up, down, n
  <1> QED
    BY <1>1, <1>4, <1>7, <1>8

\* What _render makes of a target it does not refuse.
LEMMA RenderIs ==
    ASSUME records \in Seq(Records["manifest"]), NEW l \in Links, Render(l) # Escapes,
           Absolute(l.target) => ".." \notin Range(l.target)
    PROVE  /\ Render(l) \in Seq(Parts)
           /\ \/ Render(l) = l.target
              \/ /\ Absolute(l.target) /\ ".." \notin Range(l.target)
                 /\ Render(l) = Relpath(Normalize(l.target), DirOf(l))
  <1>1. l.target \in Seq(Parts) /\ Len(l.target) \in Nat /\ DirOf(l) \in Seq(Parts)
    BY LinkShape, NameType
  <1>2. CASE ~ Absolute(l.target)
    BY <1>1, <1>2 DEF Render
  <1>3. CASE Absolute(l.target)
    <2>1. PICK p : Grows(p, l.target)
      BY <1>1, <1>3, NormalizeGrows
    <2>2. Normalize(l.target) \in Seq(Parts) /\ Normalize(l.target) # Escapes
      <3>1. Len(l.target) \in 0 .. Len(l.target)
        BY <1>1
      <3> QED
        BY <2>1, <3>1 DEF Grows
    <2>3. Render(l) = Relpath(Normalize(l.target), DirOf(l))
      BY <1>3, <2>2 DEF Render
    <2> QED
      BY <1>1, <1>3, <2>2, <2>3, RelpathType
  <1> QED
    BY <1>2, <1>3

-----------------------------------------------------------------------------

\* What the invariant says of an accepted manifest.
LEMMA AcceptedLinks ==
    ASSUME IInv, Accepted("manifest")
    PROVE  /\ records \in Seq(Records["manifest"])
           /\ \A i \in DOMAIN records : GoodAncestors(i)
           /\ \A l \in Links : GoodTarget(l) /\ Written[l] = Render(l)
           /\ Texts(Recorded) /\ Faithful(Recorded)
  <1>1. /\ records \in Seq(Records["manifest"])
        /\ \A i \in DOMAIN records : GoodAncestors(i) /\ Checked(records[i])
    BY DEF IInv, TypeOK, NamesInv, LinksInv, Accepted
  <1>2. ASSUME NEW l \in Links
        PROVE  GoodTarget(l) /\ Written[l] = Render(l)
    <2>1. PICK i \in DOMAIN records : records[i] = l
      BY DEF Links, Range
    <2>2. l.type = "symlink"
      BY DEF Links
    <2>3. GoodTarget(l) /\ \E r \in Range(rendered) : r.link = l
      BY <1>1, <2>1, <2>2 DEF Checked
    <2> DEFINE r == CHOOSE r \in Range(rendered) : r.link = l
    <2>4. r \in Range(rendered) /\ r.link = l
      BY <2>3
    <2>5. Written[l] = r.target
      BY DEF Written
    <2> HIDE DEF r
    <2>6. r.target = Render(l)
      BY <2>4 DEF IInv, TypeOK
    <2> QED
      BY <2>3, <2>5, <2>6
  <1>3. \A l \in Links : l.target \in Seq(Parts) /\ Recorded[l] = l.target
    BY <1>1, LinkShape
  <1> QED
    BY <1>1, <1>2, <1>3 DEF Texts, Faithful

\* Of an accepted manifest a lookup of a recorded target, as the kernel makes
\* it, is nowhere or where the gate found it to lead, however long the targets,
\* however the links lead to one another and whatever the two count as too many
\* (ContainedPaths._real_target).
THEOREM ManifestLookup == Spec => []RealIsLookup
  <1>1. ASSUME IInv, Accepted("manifest"), NEW l \in Links
        PROVE  Lookup(Recorded, l) \in {RealTarget[l], Nowhere}
    <2>1. RealTarget[l] # Escapes
      BY <1>1, AcceptedLinks DEF GoodTarget
    <2>2. Lookup(Recorded, l) # Nowhere => Lookup(Recorded, l) = RealTarget[l]
      BY <1>1, <2>1, AcceptedLinks, LookupAgrees
    <2> QED
      BY <2>2
  <1>2. IInv => RealIsLookup
    BY <1>1 DEF RealIsLookup
  <1> QED
    BY <1>2, InvAlways, PTL

\* Where it leads somewhere, a lookup of what is written leads there too, in a
\* manifest none of whose absolute targets climbs (ContainedPaths._render).
THEOREM ManifestWritten == Spec => []PlainWrittenIsReal
  <1>1. ASSUME IInv, Accepted("manifest"),
               \A l \in Links : Absolute(l.target) => ".." \notin Range(l.target),
               NEW l \in Links, Lookup(Recorded, l) # Nowhere
        PROVE  Lookup(Written, l) = RealTarget[l]
    <2>1. /\ records \in Seq(Records["manifest"])
          /\ \A m \in Links : RealTarget[m] # Escapes /\ Render(m) # Escapes
          /\ \A m \in Links : Written[m] = Render(m)
          /\ \A i \in DOMAIN records : GoodAncestors(i)
          /\ Texts(Recorded)
      BY <1>1, AcceptedLinks DEF GoodTarget
    <2>2. Texts(Written) /\ Faithful(Written)
      BY <1>1, <2>1, RenderIs DEF Texts, Faithful
    <2> QED
      BY <1>1, <2>1, <2>2, LookupAgrees
  <1>2. IInv => PlainWrittenIsReal
    BY <1>1 DEF PlainWrittenIsReal
  <1> QED
    BY <1>2, InvAlways, PTL

=============================================================================
