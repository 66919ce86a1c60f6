-------------------------------- MODULE Listing --------------------------------
(***************************************************************************)
(* A caller with a volume ref: it reads a manifest (fetch_manifest of      *)
(* volumes/_client.py), picks an entry it was shown, pins the version or   *)
(* goes back to the whole volume, in any order.  A ref it has this way can *)
(* be printed, pasted and used again.                                      *)
(*                                                                         *)
(* An entry is its clean path, a sequence of characters; resolving and     *)
(* reading the manifest are OriginRead's and Manifest's.                   *)
(***************************************************************************)
EXTENDS VolumeRef

CONSTANTS
    Texts,          \* what the caller may parse
    Volumes,        \* the sets of entries a version may have
    FullDigest      \* the version's digest, as cannery gives it

ASSUME TextsAssumption == Texts \subseteq Seq(Characters)

\* What ContainedPaths leaves of a path.
ASSUME VolumesAssumption ==
    \A es \in Volumes : \A p \in es :
        p \in Seq(Characters) /\ \A i \in DOMAIN Split(p) : Usable(Split(p)[i])

ASSUME DigestAssumption ==
    FullDigest \in Seq(Characters) /\ Range(Lower(HexOf(FullDigest))) \subseteq HexDigits

VARIABLES
    ref,            \* the ref the caller has, or NoRef
    entries,        \* the entries of the version it names
    listing         \* the entries fetch_manifest returned, or NoListing

vars == <<ref, entries, listing>>

NoRef == Fields(None, None, None, None, None)
NoListing == {None}

-----------------------------------------------------------------------------

\* _ref_include.
RefInclude(r) ==
    IF r.path = None \/ r.path = <<"/">> THEN <<>> ELSE RemovePrefix(r.path, <<"/">>)

Below(p, q) == IsPrefix(q \o <<"/">>, p)

\* select_paths with the ref's path: it and what is below it, and what is
\* recorded above; everything when nothing narrows.
SelectPaths(es, prefix) ==
    LET matched == {p \in es : p = prefix \/ Below(p, prefix)}
    IN  IF prefix = <<>> THEN es
        ELSE matched \cup {q \in es : \E p \in matched : Below(p, q)}

\* public_entries, with a slash in front; their order is left out.
PublicEntries(es) == {<<"/">> \o p : p \in es}

-----------------------------------------------------------------------------

Init ==
    /\ ref = NoRef
    /\ entries \in Volumes
    /\ listing = NoListing

\* The caller has another ref now, unless its call raised.
Have(r) ==
    /\ r # NotARef
    /\ ref' = r
    /\ listing' = NoListing
    /\ UNCHANGED entries

ParseText ==
    /\ ref = NoRef
    /\ \E text \in Texts : Have(Parse(text))

\* fetch_manifest: an include that matches nothing raises, a namespace too.
FetchManifest ==
    /\ ref # NoRef /\ listing = NoListing
    /\ ~ IsNamespace(ref)
    /\ LET selected == SelectPaths(entries, RefInclude(ref))
       IN  /\ RefInclude(ref) = <<>> \/ selected # {}
           /\ listing' = PublicEntries(selected)
    /\ UNCHANGED <<ref, entries>>

\* The version_ref of the answer.
TakeVersionRef == listing # NoListing /\ Have(Pinned(ref, FullDigest))

TakeEntry ==
    /\ listing # NoListing
    /\ \E path \in listing : Have(WithPath(ref, path))

DropPath == ref # NoRef /\ Have(WithoutPath(ref))

Next ==
    \/ ParseText
    \/ FetchManifest
    \/ TakeVersionRef
    \/ TakeEntry
    \/ DropPath

Spec == Init /\ [][Next]_vars

-----------------------------------------------------------------------------
(***************************************************************************)
(* Properties.                                                             *)
(***************************************************************************)

\* A ref is well formed: what it selects is in a volume, and its path is the
\* root or names, none of which steps aside.
TypeOK ==
    /\ entries \in Volumes
    /\ ref # NoRef =>
           /\ ref.namespace # <<>>
           /\ ref.volume = None => {ref.tag, ref.digest, ref.path} = {None}
           /\ ref.path \notin {None, <<"/">>} =>
                  /\ Head(ref.path) = "/"
                  /\ \A i \in DOMAIN Tail(Split(ref.path)) : Usable(Tail(Split(ref.path))[i])
    /\ listing # NoListing => \A p \in listing : Tail(p) \in entries

\* "a ref printed by one tool can be pasted into another" (_ref.py), "so a
\* shorthand can be pasted back in" (_DIGEST_SHORTHAND): what a ref prints as
\* parses to that ref, whichever calls it was made by, and its shorthand to the
\* ref with no more than the end of the digest missing.
RoundTrip ==
    ref # NoRef =>
        /\ Parse(Str(ref)) = ref
        /\ LET short == Parse(Shorthand(ref))
           IN  /\ short # NotARef
               /\ [short EXCEPT !.digest = ref.digest] = ref
               /\ ref.digest # None => IsPrefix(HexOf(short.digest), HexOf(ref.digest))

Names(r, path) == r # NotARef /\ r.path = path

\* "ref.with_path(entry.path) names this entry" (VolumeEntry.path).
WithPathNamesEntry ==
    listing # NoListing => \A path \in listing : Names(WithPath(ref, path), path)

\* So it does for every entry without a percent sign in its name.
PlainPathNamesEntry ==
    listing # NoListing =>
        \A path \in listing : "%" \notin Range(path) => Names(WithPath(ref, path), path)

=============================================================================
