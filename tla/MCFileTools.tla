---------------------------- MODULE MCFileTools -----------------------------
(***************************************************************************)
(* The tools of the runtime on a small instance: a name with a dot that is *)
(* registered twice, one beside it under the same table, one without a     *)
(* dot and one the prompt may leave out; tables of up to two entries; a    *)
(* directory in a directory, with a link.                                  *)
(***************************************************************************)
EXTENDS FileTools

CONSTANTS ls, read, reread, done_task, head, t1, t2,
          src, main, lib, link

MCNameOf == (ls :> <<"fs", "ls">>) @@ (read :> <<"fs", "read">>)
    @@ (reread :> <<"fs", "read">>) @@ (done_task :> <<"done_task">>)
    @@ (head :> <<"db", "head">>)
MCPlace == (ls :> 3) @@ (read :> 4) @@ (reread :> 4) @@ (done_task :> 2) @@ (head :> 1)
MCScore == [t \in {ls, read, reread, done_task, head} |-> IF t = ls THEN 1 ELSE 0]

Index(n) == [kind |-> "index", n |-> n]
Name(n) == [kind |-> "name", n |-> n]
Other == [kind |-> "other", n |-> 1]
MCContents ==
    {<<>>}
    \cup UNION {[{k} -> {"atom", "odd", t1, t2}] : k \in {Index(1), Index(2), Name(1), Other}}
    \cup UNION {[{Index(1), k} -> {"atom", t1, t2}] : k \in {Index(2), Name(1)}}
    \cup [{Name(3), Name(1)} -> {"atom", t1}]
MCArguments == {<<t1, t2>>, <<t1, t1>>, <<"odd">>}

MCParent == (src :> Root) @@ (main :> src) @@ (lib :> src) @@ (link :> lib)
MCKind == (src :> "dir") @@ (main :> "file") @@ (lib :> "dir") @@ (link :> "symlink")
=============================================================================
