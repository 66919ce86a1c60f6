---------------------------- MODULE MCMaterialize ----------------------------
(***************************************************************************)
(* Instances of Materialize for TLC.                                       *)
(***************************************************************************)
EXTENDS Materialize

d == <<"d">>
e == <<"d", "e">>
f == <<"d", "e", "f">>
g == <<"d", "g">>
u == <<"u">>

MCPaths == {d, e, f, g, u}
MCNames == {"d", "e", "f", "g", "u"}
MCContents == {"none", "zeros", "user", "v1", "v2"}
MCModes == {"none", "private", "open", "sealed", "shut", "user", "recorded"}

Dir(i, p, m) == [index |-> i, path |-> p, type |-> "directory", data |-> "none", mode |-> m, group |-> 0]
File(i, p, data, grp) == [index |-> i, path |-> p, type |-> "file", data |-> data, mode |-> "recorded", group |-> grp]
Symlink(i, p, data) == [index |-> i, path |-> p, type |-> "symlink", data |-> data, mode |-> "none", group |-> 0]

\* A version with a hard link out of a sealed directory in a shut one, and a
\* later one that has a symlink in its place and does not record the inner
\* directory.
MCVersions == {
    <<File(1, g, "v1", 1), Dir(2, e, "sealed"), Dir(3, d, "shut"), File(4, f, "v1", 1)>>,
    <<Dir(1, d, "sealed"), Symlink(2, g, "v2"), File(3, f, "v2", 0)>> }

MCIncludes == {{<<>>}, {<<>>, g}, {e}}

\* The destination before the first pull: each path may hold a file, a link, a
\* directory or nothing, and u may be another name of a file at g.
User(kind, data, mode) == [kind |-> kind, data |-> data, mode |-> mode, stamped |-> FALSE]
Node(c) == IF c = "absent" THEN Free
           ELSE IF c \in {"open", "shut"} THEN User("dir", "none", c)
           ELSE User(c, "user", "user")
Tree(c) ==
    [name |-> [p \in MCPaths |->
                  CASE p = d -> IF c[d] = "absent" THEN 0 ELSE 1
                    [] p = e -> IF c[e] = "absent" THEN 0 ELSE 2
                    [] p = f -> IF c[f] = "absent" THEN 0 ELSE 3
                    [] p = g -> IF c[g] = "absent" THEN 0 ELSE 4
                    [] p = u -> IF c[u] = "absent" THEN 0 ELSE IF c[u] = "shared" THEN 4 ELSE 5],
     node |-> [i \in 1 .. 6 |->
                  CASE i = 1 -> Node(c[d]) [] i = 2 -> Node(c[e]) [] i = 3 -> Node(c[f])
                    [] i = 4 -> Node(c[g]) [] i = 5 -> IF c[u] = "file" THEN Node("file") ELSE Free
                    [] i = 6 -> Free],
     fault |-> "none", outside |-> FALSE]
UserContents ==
    {c \in [{d, e, f, g, u} -> {"absent", "file", "symlink", "open", "shut", "shared"}] :
        /\ c[d] \in {"absent", "symlink", "open", "shut"}
        /\ c[e] \in {"absent", "symlink", "shut"}
        /\ c[f] \in {"absent", "file"}
        /\ c[g] \in {"absent", "file", "symlink", "open"}
        /\ c[u] \in {"absent", "file", "shared"}
        /\ c[d] \notin {"open", "shut"} => c[e] = "absent" /\ c[g] = "absent"
        /\ c[e] # "shut" => c[f] = "absent"
        /\ c[u] = "shared" => c[g] = "file"}
MCTrees == {Tree(c) : c \in UserContents}

=============================================================================
