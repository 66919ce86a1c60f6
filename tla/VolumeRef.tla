------------------------------- MODULE VolumeRef -------------------------------
(***************************************************************************)
(* The grammar of volume refs, bdn:<namespace>/<volume>[:tag|@digest][/path] *)
(* (volumes/_ref.py): what parse makes of a text, how a ref is printed, and *)
(* the refs made from a ref.                                               *)
(*                                                                         *)
(* A text is a sequence of characters after its scheme.  Which there are is *)
(* a parameter, but for those the grammar gives a meaning.  A part that     *)
(* raises VolumeRefError is Raises, a ref NotARef.                          *)
(***************************************************************************)
EXTENDS Naturals, SequencesExt

CONSTANTS
    NameMin, NameMax,   \* _NAME_MIN, _NAME_MAX
    TagMax,             \* _TAG_MAX
    DigestMax,          \* _DIGEST_MAX
    DigestShorthand,    \* _DIGEST_SHORTHAND
    ReservedNamespaces, \* _RESERVED_NAMESPACES
    ReservedVolumes,    \* _RESERVED_VOLUMES
    Characters,         \* what a text may hold
    Digits, LowerCase, UpperCase,
    HexLetters,         \* the lower-case hex digits that are letters
    LowerOf,            \* the lower case of an upper-case letter
    Escapes             \* [char, hex]: a character and the hex digits of its escape

ASSUME LimitsAssumption ==
    /\ NameMin \in Nat /\ NameMax \in Nat /\ TagMax \in Nat /\ DigestMax \in Nat
    /\ DigestShorthand \in 1 .. DigestMax

None == <<"none">>
Raises == <<"raises">>

Fields(namespace, volume, tag, digest, path) ==
    [namespace |-> namespace, volume |-> volume, tag |-> tag, digest |-> digest, path |-> path]

NotARef == Fields(Raises, Raises, Raises, Raises, Raises)

-----------------------------------------------------------------------------
(***************************************************************************)
(* Characters.                                                             *)
(***************************************************************************)

Punctuation == {"-", ".", "_", "~", ":", "@", "/", "%"}
Alphanumeric == Digits \cup LowerCase \cup UpperCase
HexDigits == Digits \cup HexLetters

\* _SEGMENT_SAFE and what urllib never quotes.
Safe == Alphanumeric \cup {"-", ".", "_", "~"}

Lower(s) == [i \in DOMAIN s |-> IF s[i] \in UpperCase THEN LowerOf[s[i]] ELSE s[i]]

ASSUME CharactersAssumption ==
    /\ Alphanumeric \cup Punctuation \subseteq Characters
    /\ {"none", "raises"} \cap Characters = {}
    /\ Digits \cap LowerCase = {} /\ UpperCase \cap (Digits \cup LowerCase) = {}
    /\ Punctuation \cap Alphanumeric = {}
    /\ LowerOf \in [UpperCase -> LowerCase]
    /\ HexLetters \subseteq LowerCase /\ "b" \in LowerCase /\ "3" \in Digits

\* Each character that has to be quoted has one escape, which names no other.
ASSUME EscapesAssumption ==
    /\ \A e \in Escapes :
           /\ e.char \in Characters
           /\ e.hex \in Seq(Digits \cup UpperCase) /\ Len(e.hex) = 2
    /\ \A e, f \in Escapes : e.char = f.char <=> Lower(e.hex) = Lower(f.hex)
    /\ \A c \in Characters \ Safe : \E e \in Escapes : e.char = c

\* The escapes at position i, of which there is one at most.
EscapesAt(s, i) ==
    IF i \in 1 .. Len(s) - 2 /\ s[i] = "%"
    THEN {e \in Escapes : Lower(e.hex) = Lower(SubSeq(s, i + 1, i + 2))}
    ELSE {}

\* urllib's unquote: what is no escape stays.
Unquoted(s, i) ==
    IF EscapesAt(s, i) # {} THEN <<(CHOOSE e \in EscapesAt(s, i) : TRUE).char>>
    ELSE IF EscapesAt(s, i - 1) \cup EscapesAt(s, i - 2) # {} THEN <<>>
    ELSE <<s[i]>>
Unquote(s) == FlattenSeq([i \in DOMAIN s |-> Unquoted(s, i)])

\* Mutant: nothing is quoted.
Quote_Nothing(s) == s

\* urllib's quote, with _SEGMENT_SAFE, of a character and of a segment.
QuoteChar(c) ==
    IF c \in Safe THEN <<c>> ELSE <<"%">> \o (CHOOSE e \in Escapes : e.char = c).hex
Quote(s) == FlattenSeq([i \in DOMAIN s |-> QuoteChar(s[i])])

\* What is before and after position i.
Until(s, i) == SubSeq(s, 1, i - 1)
Beyond(s, i) == SubSeq(s, i + 1, Len(s))
Find(s, c) == SelectInSeq(s, LAMBDA x : x = c)

\* The parts of a text with one more character.
Extended(parts, c) ==
    IF c = "/" THEN Append(parts, <<>>)
    ELSE Append(Front(parts), Append(Last(parts), c))

\* The parts between slashes, and parts with a slash in front of each.
Split(s) ==
    LET parts[i \in 0 .. Len(s)] == IF i = 0 THEN << <<>> >> ELSE Extended(parts[i - 1], s[i])
    IN  parts[Len(s)]
Slashed(parts) == FlattenSeq([i \in DOMAIN parts |-> <<"/">> \o parts[i]])

RemovePrefix(s, prefix) ==
    IF IsPrefix(prefix, s) THEN Beyond(s, Len(prefix)) ELSE s

-----------------------------------------------------------------------------
(***************************************************************************)
(* The parts of a ref.                                                     *)
(***************************************************************************)

Algorithm == <<"b", "3", ":">>

\* _name.
Name(segment, reserved) ==
    LET name == Lower(segment)
    IN  IF /\ Len(name) \in NameMin .. NameMax /\ name # <<>>
           /\ name[1] \in LowerCase
           /\ Range(name) \subseteq LowerCase \cup Digits \cup {"-"}
           /\ name \notin reserved
        THEN name ELSE Raises

\* _tag.
Tag(tag) ==
    IF /\ Len(tag) \in 1 .. TagMax
       /\ tag[1] \in Alphanumeric \cup {"_"}
       /\ Range(tag) \subseteq Alphanumeric \cup {"_", ".", "-"}
    THEN tag ELSE Raises

HexOf(digest) == RemovePrefix(digest, Algorithm)

\* _digest.
Digest(digest) ==
    LET lowered == Lower(digest)
    IN  IF Len(HexOf(lowered)) \in 1 .. DigestMax /\ Range(HexOf(lowered)) \subseteq HexDigits
        THEN lowered ELSE Raises

\* A segment that names something.
Usable(segment) == segment \notin {<<>>, <<".">>, <<".", ".">>}

\* rstrip("/").
Trimmed(s) == SubSeq(s, 1, SelectLastInSeq(s, LAMBDA c : c # "/"))

\* Mutant: segments are checked before they are decoded.
Path_ChecksFirst(rest) ==
    LET segments == Split(Trimmed(rest))
    IN  IF Trimmed(rest) = <<>> THEN <<"/">>
        ELSE IF \E i \in DOMAIN segments : ~ Usable(segments[i]) THEN Raises
        ELSE Slashed([i \in DOMAIN segments |-> Unquote(segments[i])])

\* _path.
Path(rest) ==
    LET segments == Split(Trimmed(rest))
        decoded == [i \in DOMAIN segments |-> Unquote(segments[i])]
    IN  IF Trimmed(rest) = <<>> THEN <<"/">>
        ELSE IF \E i \in DOMAIN decoded : "/" \in Range(decoded[i]) \/ ~ Usable(decoded[i])
        THEN Raises
        ELSE Slashed(decoded)

\* The constructor: what is inside a volume needs one, and one version is
\* named by a tag or a digest.
Ref(namespace, volume, tag, digest, path) ==
    IF \/ Raises \in {namespace, volume, tag, digest, path}
       \/ volume = None /\ {tag, digest, path} # {None}
       \/ tag # None /\ digest # None
    THEN NotARef
    ELSE Fields(namespace, volume, tag, digest, path)

-----------------------------------------------------------------------------
(***************************************************************************)
(* VolumeRef.                                                              *)
(***************************************************************************)

\* The second segment: the first "@" wins over any ":".
Selector(segment) ==
    LET a == Find(segment, "@")
        c == Find(segment, ":")
    IN  CASE a # 0 -> [name |-> Until(segment, a), tag |-> None,
                       digest |-> Digest(Beyond(segment, a))]
          [] a = 0 /\ c # 0 -> [name |-> Until(segment, c), tag |-> Tag(Beyond(segment, c)),
                                digest |-> None]
          [] OTHER -> [name |-> segment, tag |-> None, digest |-> None]

\* parse.
Parse(text) ==
    LET segments == Split(text)
        namespace == Name(segments[1], ReservedNamespaces)
        point == Selector(segments[2])
        \* Everything after the second slash.
        rest == Beyond(text, Len(segments[1]) + Len(segments[2]) + 2)
    IN  IF Len(segments) = 1 \/ Tail(segments) = << <<>> >>
        THEN Ref(namespace, None, None, None, None)
        ELSE Ref(namespace, Name(point.name, ReservedVolumes), point.tag, point.digest,
                 IF Len(segments) > 2 THEN Path(rest) ELSE None)

\* level.
IsNamespace(ref) == ref.volume = None

\* pinned.
Pinned(ref, digest) ==
    IF Len(HexOf(digest)) # DigestMax THEN NotARef
    ELSE Ref(ref.namespace, ref.volume, None, Algorithm \o Lower(HexOf(digest)), None)

\* Mutant: the slash a path begins with is left to _path.
WithPath_KeepsSlash(ref, path) ==
    Ref(ref.namespace, ref.volume, ref.tag, ref.digest, Path(path))

\* with_path and without_path.
WithPath(ref, path) ==
    Ref(ref.namespace, ref.volume, ref.tag, ref.digest, Path(RemovePrefix(path, <<"/">>)))
WithoutPath(ref) == [ref EXCEPT !.path = None]

\* __str__, without the scheme.
Str(ref) ==
    LET point == CASE ref.digest # None -> <<"@">> \o ref.digest
                   [] ref.digest = None /\ ref.tag # None -> <<":">> \o ref.tag
                   [] OTHER -> <<>>
        segments == Tail(Split(ref.path))
        path == CASE ref.path = None -> <<>>
                  [] ref.path = <<"/">> -> <<"/">>
                  [] OTHER -> Slashed([i \in DOMAIN segments |-> Quote(segments[i])])
    IN  ref.namespace \o <<"/">> \o (IF IsNamespace(ref) THEN <<>> ELSE ref.volume \o point \o path)

\* shorthand.
Shorthand(ref) ==
    IF ref.digest # None /\ Len(HexOf(ref.digest)) = DigestMax
    THEN Str([ref EXCEPT !.digest = SubSeq(HexOf(@), 1, DigestShorthand)])
    ELSE Str(ref)

=============================================================================
