------------------------------ MODULE MCManifest ------------------------------
(***************************************************************************)
(* Instances of Manifest: manifests and chunkmaps of up to three records.  *)
(***************************************************************************)
EXTENDS Manifest

a == <<"a">>
ab == <<"a", "b">>
b == <<"b">>
c == <<"c">>

Directories == {[type |-> "directory", path |-> p, target |-> <<>>] : p \in {a, ab}}
Files == {[type |-> "file", path |-> p, target |-> <<>>] :
              p \in {b, ab, <<"", "", "a">>, <<"">>, <<"a", "">>, <<"a", "..", "b">>,
                     <<"..">>, <<Nul>>}}
Symlinks(paths, targets) ==
    {[type |-> "symlink", path |-> p, target |-> t] : p \in paths, t \in targets}

\* Relative and absolute, through links and not, plain and climbing, to
\* nothing, to themselves and to nowhere.
Targets ==
    {<<"">>, <<"b">>, <<"b", "..", "b">>, <<"..", "b">>, <<"..", "..">>, <<"", "a", ".", "b">>,
     <<"", "b">>, <<"", "a", "..">>, <<"", "">>, <<Nul, "a">>}

\* Chunks of a byte or two, or none.
SmallChunks == [offset : 0 .. 3, length : 0 .. 2]
SmallHeaders == [count : 0 .. 3, size : {0, 3}]

OneHeader == [count |-> 0, size |-> 0]

MCParts == {"a", "b", "c", "", ".", "..", Nul}
MCRecords ==
    [manifest |-> Directories \cup Files \cup Symlinks({a, b, ab}, Targets)
                      \cup Symlinks({c}, {<<"a", "..">>, <<"", "b", "..">>}),
     chunkmap |-> SmallChunks]
MCHeaders == [manifest |-> {OneHeader}, chunkmap |-> SmallHeaders]
MCSizes == [manifest |-> {0}, chunkmap |-> {0, 3}]

=============================================================================
