----------------------------- MODULE LuaContext -----------------------------
(***************************************************************************)
(* The tools of an agent and the Lua context its scripts run in: the       *)
(* registry (src/tool_registry.cpp), the names under which bindTools puts  *)
(* the tools into the sandbox, and luaObjectToJson, through which passes   *)
(* what a script returns and, for consent and logs, what it calls a tool   *)
(* with (src/lua_context.cpp).                                             *)
(*                                                                         *)
(* The registry is a hash map: the order in which tools are bound is any.  *)
(* A Lua table is a function from keys to values; a value is a table, an   *)
(* atom that JSON has, or something odd whose tostring fails.  The text    *)
(* made of a value is the sequence of its brackets, names and atoms.       *)
(***************************************************************************)
EXTENDS Naturals, Sequences, FiniteSets, SequencesExt

CONSTANTS
    Tool,       \* tools, of which two may have one name
    NameOf,     \* the name of a tool, cut at its dots
    Place,      \* the place of a name among all in alphabetical order
    Score,      \* what the words of a query match of a tool
    AlwaysShow, \* tools with always_show_in_prompt
    MaxListed,  \* k of topKDocs
    Builtin,    \* tables the sandbox has without tools
    Table,      \* tables a script makes
    Contents,   \* what a table may hold
    Arguments,  \* what a script returns, or calls a tool with
    MaxDepth    \* kMaxDepth, 32 in the code

ASSUME LuaContextAssumption ==
    /\ MaxDepth \in Nat /\ MaxListed \in Nat
    /\ AlwaysShow \subseteq Tool
    /\ \A t \in Tool : NameOf[t] \in Seq(STRING) /\ NameOf[t] # <<>>

\* No name goes on where another ends, as with fs.ls, fs.size, fs.read, db.head
\* and done_task.
ASSUME NamesApart ==
    /\ \A t, u \in Tool : ~IsStrictPrefix(NameOf[t], NameOf[u])
    /\ \A t \in Tool, b \in Builtin : ~IsPrefix(NameOf[t], <<b>>)

Value == Table \cup {"atom", "odd"}

\* A table has finitely many entries.  The number of an index is the index, 1 or
\* more, that of a name its place among all in alphabetical order; every other key,
\* as 0, 1.5 or TRUE, is of the kind "other".
ASSUME ContentsAssumption ==
    /\ "atom" \notin Table /\ "odd" \notin Table
    /\ Arguments \subseteq Seq(Value)
    /\ \A c \in Contents :
        /\ IsFiniteSet(DOMAIN c)
        /\ \A k \in DOMAIN c : /\ k \in [kind : {"index", "name", "other"}, n : Nat \ {0}]
                                /\ c[k] \in Value

VARIABLES
    mode,     \* "register", "bind", "ready", "serialise", "returned", or a tool's
    registry, \* tools_
    unbound,  \* the names forEach has not come to
    flat,     \* tools["fs.read"]
    tree,     \* tools.fs.read, and fs.read of the sandbox
    heap,     \* the tables of the script
    given,    \* the values to be serialised
    next,     \* the place of the next of them
    stack,    \* the calls of serialize that are under way
    visited, json, error

contextVars == <<mode, registry, unbound, flat, tree, heap, given, next, stack,
                 visited, json, error>>
bindingVars == <<registry, unbound, flat, tree>>
valueVars == <<heap, given, next, stack, visited, json, error>>

ContextInit ==
    /\ mode = "register"
    /\ registry = [n \in {} |-> 0] /\ unbound = {}
    /\ flat = [n \in {} |-> 0]
    /\ tree = [root \in {"tools", "sandbox"} |->
                  IF root = "tools" THEN [n \in {} |-> 0]
                  ELSE [n \in {<<b>> : b \in Builtin} |-> "table"]]
    /\ heap = [t \in Table |-> [k \in {} |-> 0]]
    /\ given = <<>> /\ next = 1 /\ stack = <<>> /\ visited = {} /\ json = <<>> /\ error = "none"
-----------------------------------------------------------------------------
(***************************************************************************)
(* The registry, what the prompt lists of it, and the binding.             *)
(***************************************************************************)
\* Another tool of the same name is replaced.
RegisterTool(t) ==
    /\ mode = "register"
    /\ registry' = [n \in DOMAIN registry \cup {NameOf[t]} |->
                       IF n = NameOf[t] THEN t ELSE registry[n]]
    /\ UNCHANGED <<mode, unbound, flat, tree, valueVars>>

Before(t, u) ==
    \/ Score[t] > Score[u]
    \/ Score[t] = Score[u] /\ Place[t] < Place[u]

\* topKDocs: those always shown, and the first k of the others.
TopKDocs ==
    LET all == {registry[n] : n \in DOMAIN registry}
        others == all \ AlwaysShow
    IN  (all \cap AlwaysShow) \cup
            {t \in others : Cardinality({u \in others : Before(u, t)}) < MaxListed}

\* The runtime registers its tools before it makes an agent.
BindTools ==
    /\ mode = "register"
    /\ DOMAIN registry = {NameOf[t] : t \in Tool}
    /\ mode' = "bind"
    /\ unbound' = DOMAIN registry
    /\ UNCHANGED <<registry, flat, tree, valueVars>>

\* Mutant: an intermediate table is created whether there is one or not.
NestedAfresh(branches, path, t) ==
    LET above == {SubSeq(path, 1, i) : i \in 1 .. Len(path) - 1}
        kept == {p \in DOMAIN branches : p[1] # path[1]}
    IN  [p \in kept \cup above \cup {path} |->
            IF p = path THEN t ELSE IF p \in above THEN "table" ELSE branches[p]]

\* A table is made of what stands at an intermediate segment, if it is none, and
\* what stands at the last one goes, with all below it.
Nested(branches, path, t) ==
    LET above == {SubSeq(path, 1, i) : i \in 1 .. Len(path) - 1}
        kept == {p \in DOMAIN branches : ~IsPrefix(path, p)}
    IN  [p \in kept \cup above \cup {path} |->
            IF p = path THEN t ELSE IF p \in above THEN "table" ELSE branches[p]]

Bind(name) ==
    /\ mode = "bind"
    /\ unbound' = unbound \ {name}
    /\ flat' = IF Len(name) = 1 THEN flat
               ELSE [n \in DOMAIN flat \cup {name} |->
                        IF n = name THEN registry[name] ELSE flat[n]]
    /\ tree' = [root \in DOMAIN tree |-> Nested(tree[root], name, registry[name])]
    /\ UNCHANGED <<mode, registry, valueVars>>

FinishBinding ==
    /\ mode = "bind" /\ unbound = {}
    /\ mode' = "ready"
    /\ UNCHANGED <<bindingVars, valueVars>>
-----------------------------------------------------------------------------
(***************************************************************************)
(* luaObjectToJson.  A frame of the stack is a table, with the keys that   *)
(* are left of it; visited holds the tables of the frames.  An error goes  *)
(* up through every frame.                                                 *)
(***************************************************************************)
Keys(t, kind) == {k \in DOMAIN heap[t] : k.kind = kind}

\* has_string_key is not set, and numeric_count is max_index.
IsArray(t) ==
    /\ Keys(t, "name") = {}
    /\ Cardinality(Keys(t, "index"))
           = Max({0} \cup {k.n : k \in Keys(t, "index")})

Bracket(t, array, object) == IF IsArray(t) THEN array ELSE object

Fail(e) == error' = e /\ UNCHANGED <<stack, visited, json>>

\* serialize(v, depth), the label being what the caller has put before it.
Serialise(v, label, depth, frames) ==
    \/ depth > MaxDepth /\ Fail("depth")
    \/ /\ depth <= MaxDepth
       /\ \/ /\ v = "atom"
             /\ json' = json \o label \o <<[t |-> "atom", n |-> 0]>>
             /\ stack' = frames
             /\ UNCHANGED <<visited, error>>
          \/ v = "odd" /\ Fail("type")
          \/ /\ v \in Table
             /\ \/ v \in visited /\ Fail("cycle")
                \/ /\ v \notin visited
                   /\ \/ Keys(v, "other") # {} /\ Fail("key")
                      \/ /\ Keys(v, "other") = {}
                         /\ ~IsArray(v) /\ Keys(v, "index") # {}
                         /\ Fail("mixed")
                      \/ /\ Keys(v, "other") = {}
                         /\ IsArray(v) \/ Keys(v, "index") = {}
                         /\ visited' = visited \cup {v}
                         /\ stack' = Append(frames, [table |-> v, left |-> DOMAIN heap[v]])
                         /\ json' = json \o label \o <<[t |-> Bracket(v, "[", "{"), n |-> 0]>>
                         /\ UNCHANGED error

\* execute, with what a script returns, and luaVariadicToJson.
Execute ==
    /\ mode = "ready"
    /\ mode' = "serialise"
    /\ given' \in Arguments
    /\ heap' \in [Table -> Contents]
    /\ UNCHANGED <<bindingVars, next, stack, visited, json, error>>

NextArgument ==
    /\ mode = "serialise"
    /\ stack = <<>> /\ next <= Len(given) /\ error = "none"
    /\ next' = next + 1
    /\ Serialise(given[next], <<>>, 0, <<>>)
    /\ UNCHANGED <<mode, heap, given, bindingVars>>

Top == Last(stack)

NextEntry ==
    /\ mode = "serialise"
    /\ stack # <<>> /\ error = "none"
    /\ \E k \in Top.left :
        /\ \A other \in Top.left : k.n <= other.n
        /\ Serialise(heap[Top.table][k],
                     IF k.kind = "name" THEN <<[t |-> "name", n |-> k.n]>> ELSE <<>>,
                     Len(stack),
                     Append(Front(stack), [Top EXCEPT !.left = @ \ {k}]))
    /\ UNCHANGED <<mode, heap, given, next, bindingVars>>

\* Mutant: a table stays visited once it was serialised.
KeepVisited ==
    /\ mode = "serialise"
    /\ stack # <<>> /\ error = "none" /\ Top.left = {}
    /\ json' = Append(json, [t |-> Bracket(Top.table, "]", "}"), n |-> 0])
    /\ stack' = Front(stack)
    /\ UNCHANGED <<visited, mode, heap, given, next, error, bindingVars>>

CloseTable ==
    /\ mode = "serialise"
    /\ stack # <<>> /\ error = "none" /\ Top.left = {}
    /\ json' = Append(json, [t |-> Bracket(Top.table, "]", "}"), n |-> 0])
    /\ visited' = visited \ {Top.table}
    /\ stack' = Front(stack)
    /\ UNCHANGED <<mode, heap, given, next, error, bindingVars>>

PassErrorUp ==
    /\ mode = "serialise"
    /\ stack # <<>> /\ error # "none"
    /\ visited' = visited \ {Top.table}
    /\ stack' = Front(stack)
    /\ UNCHANGED <<mode, heap, given, next, json, error, bindingVars>>

Return ==
    /\ mode = "serialise"
    /\ stack = <<>>
    /\ next > Len(given) \/ error # "none"
    /\ mode' = "returned"
    /\ UNCHANGED <<bindingVars, valueVars>>

Serialising == NextArgument \/ NextEntry \/ CloseTable \/ PassErrorUp \/ Return

ContextNext ==
    \/ \E t \in Tool : RegisterTool(t)
    \/ BindTools
    \/ \E name \in unbound : Bind(name)
    \/ FinishBinding
    \/ Execute \/ Serialising

ContextSpec == ContextInit /\ [][ContextNext]_contextVars
-----------------------------------------------------------------------------
(***************************************************************************)
(* What the prompt lists can be called under the name it is listed with:   *)
(* in whatever order the hash map hands the tools out, each stands, after  *)
(* the last is bound, under its own name in the sandbox, in tools and, if  *)
(* it has a dot, as a flat name; the one registered last, where two have   *)
(* one name (tool_registry.cpp:87-161, lua_context.cpp:69-108).            *)
(***************************************************************************)
ListedToolsAreCallable ==
    mode \notin {"register", "bind"} =>
        /\ AlwaysShow \cap {registry[n] : n \in DOMAIN registry} \subseteq TopKDocs
        /\ \A t \in TopKDocs :
            \A root \in {"tools", "sandbox"} :
                /\ NameOf[t] \in DOMAIN tree[root]
                /\ tree[root][NameOf[t]] = t
                /\ Len(NameOf[t]) > 1 => NameOf[t] \in DOMAIN flat /\ flat[NameOf[t]] = t

(***************************************************************************)
(* What JSON is of a value, said without a stack and of the tables alone.  *)
(* A value fits into a number of levels: an atom into one, a table of all  *)
(* indexes from 1 on or of names only into one more than its values.       *)
(***************************************************************************)
Uniform(c) ==
    \/ \A k \in DOMAIN c : k.kind = "name"
    \/ \E n \in 0 .. Cardinality(DOMAIN c) :
          DOMAIN c = {[kind |-> "index", n |-> i] : i \in 1 .. n}

Fits(tables) ==
    LET fits[levels \in 0 .. MaxDepth + 1] ==
            [v \in Value |->
                /\ levels > 0
                /\ \/ v = "atom"
                   \/ /\ v \in Table
                      /\ Uniform(tables[v])
                      /\ \A k \in DOMAIN tables[v] : fits[levels - 1][tables[v][k]]]
    IN  fits

\* The text of the entries under some keys, in the order of their numbers, each with
\* its name before the text of its value.
Entry(c, k, textOf) ==
    (IF k.kind = "name" THEN <<[t |-> "name", n |-> k.n]>> ELSE <<>>) \o textOf[c[k]]

Entries(c, ks, textOf) ==
    FlattenSeq([n \in 1 .. Max({0} \cup {k.n : k \in DOMAIN c}) |->
                   IF \E k \in ks : k.n = n
                   THEN Entry(c, CHOOSE k \in ks : k.n = n, textOf) ELSE <<>>])

Open(c) == [t |-> IF \E k \in DOMAIN c : k.kind = "name" THEN "{" ELSE "[", n |-> 0]
Close(c) == [t |-> IF \E k \in DOMAIN c : k.kind = "name" THEN "}" ELSE "]", n |-> 0]

Text(tables) ==
    LET text[levels \in 0 .. MaxDepth + 1] ==
            [v \in Value |->
                IF levels = 0 THEN <<>>
                ELSE IF v \notin Table THEN <<[t |-> "atom", n |-> 0]>>
                ELSE <<Open(tables[v])>>
                     \o Entries(tables[v], DOMAIN tables[v], text[levels - 1])
                     \o <<Close(tables[v])>>]
    IN  text

\* A table that is reached from itself, from each to one it holds.
Holds(c, t) == \E k \in DOMAIN c : c[k] = t

Cyclic(tables) ==
    \E steps \in 1 .. MaxDepth + 1 : \E way \in [0 .. steps -> Table] :
        /\ way[0] = way[steps]
        /\ \A i \in 1 .. steps : Holds(tables[way[i - 1]], way[i])

(***************************************************************************)
(* A value is given its JSON, or an error, as it deserves: what fits gets  *)
(* its text, whether or not it has one table in two places, and nothing    *)
(* else gets any; what is called a cycle goes through a table that is      *)
(* below itself (lua_context.cpp:144-302).                                 *)
(***************************************************************************)
JsonIsOfTheValue ==
    mode = "returned" =>
        /\ error = "cycle" => Cyclic(heap)
        /\ IF error = "none"
           THEN /\ \A i \in DOMAIN given : Fits(heap)[MaxDepth + 1][given[i]]
                /\ json = FlattenSeq([i \in DOMAIN given |-> Text(heap)[MaxDepth + 1][given[i]]])
           ELSE \E i \in DOMAIN given : ~Fits(heap)[MaxDepth + 1][given[i]]
=============================================================================
