------------------------------- MODULE MCListing -------------------------------
(***************************************************************************)
(* Instances of Listing: every short text over the delimiters of a ref,    *)
(* and volumes whose entries look like escapes, like texts that begin      *)
(* like a directory's, or plain.                                           *)
(***************************************************************************)
EXTENDS Listing

\* Concatenations of up to n of the parts, behind a beginning.
Grown(beginning, parts, n) ==
    {beginning \o FlattenSeq(s) : s \in BoundedSeq(parts, n)}

Volume == <<"g", "2", "/", "g", "g">>
Hex == {<<"2">>, <<"B">>}

MCTexts ==
    Grown(<<>>, {<<"G">>, <<"2">>, <<"-">>, <<"/">>, <<":">>, <<"@">>}, 5)
    \cup Grown(Volume, {<<"@">>, <<":">>, <<".">>, <<"G">>, Algorithm} \cup Hex, 4)
    \cup Grown(Volume \o <<"@", "B", "2", "/">>, {<<"2">>, <<"/">>}, 2)
    \cup Grown(Volume \o <<"/">>,
               {<<"%">>, <<"2">>, <<"5">>, <<"2", "E">>, <<"2", "F">>, <<".">>, <<"@">>, <<"/">>}, 4)

\* Names that hold an escape, or half of one.
PercentVolume == {<<"g">>, <<"g", "/", "%", "2", "5">>, <<"%", "2">>}
\* A directory, its content, and what only begins as it does.
PlainVolume == {<<"g">>, <<"g", "/", "2">>, <<"g", "-">>, <<"g", ".", "@">>, <<"2">>}
MCVolumes == {PercentVolume, PlainVolume}

\* A few members of every class of characters; the escape of each one whose
\* escape they can write.
MCDigits == {"0", "2", "3", "4", "5"}
MCHexLetters == {"a", "b", "e", "f"}
MCLowerCase == MCHexLetters \cup {"g"}
MCUpperCase == {"A", "B", "E", "F", "G", "R", "U"}
MCLowerOf == [c \in MCUpperCase |-> CASE c = "A" -> "a" [] c = "B" -> "b" [] c = "E" -> "e"
                                     [] c = "F" -> "f" [] OTHER -> "g"]
MCCharacters == MCDigits \cup MCLowerCase \cup MCUpperCase \cup Punctuation \cup {"quote"}
MCEscapes ==
    {[char |-> e[1], hex |-> <<e[2], e[3]>>] : e \in
        {<<"quote", "2", "2">>, <<"%", "2", "5">>, <<".", "2", "E">>, <<"/", "2", "F">>,
         <<"0", "3", "0">>, <<"2", "3", "2">>, <<"3", "3", "3">>, <<"4", "3", "4">>,
         <<"5", "3", "5">>, <<":", "3", "A">>, <<"@", "4", "0">>,
         <<"B", "4", "2">>, <<"E", "4", "5">>, <<"R", "5", "2">>,
         <<"U", "5", "5">>, <<"_", "5", "F">>}}

MCFullDigest == Algorithm \o <<"2", "B">>
MCReserved == {<<"g", "-">>}

=============================================================================
