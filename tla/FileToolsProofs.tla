--------------------------- MODULE FileToolsProofs ---------------------------
(***************************************************************************)
(* Proofs about the tools of an agent, for any tools with names apart, any *)
(* script and any file.                                                    *)
(***************************************************************************)
EXTENDS FileTools, FiniteSetTheorems, NaturalsInduction, SequenceTheorems, TLAPS,
        WellFoundedInduction

(***************************************************************************)
(* A tool that is bound leaves the others where they are: its name is      *)
(* neither the start of theirs, which would go with it, nor do theirs stand *)
(* where it needs a table.                                                 *)
(***************************************************************************)
LEMMA NestedBinds ==
    ASSUME NEW branches, NEW t \in Tool, NEW u
    PROVE  /\ NameOf[t] \in DOMAIN Nested(branches, NameOf[t], u)
           /\ Nested(branches, NameOf[t], u)[NameOf[t]] = u
BY Zenon DEF Nested

LEMMA NestedKeeps ==
    ASSUME NEW branches, NEW t \in Tool, NEW v, NEW u \in Tool, NameOf[u] # NameOf[t],
           NameOf[u] \in DOMAIN branches
    PROVE  /\ NameOf[u] \in DOMAIN Nested(branches, NameOf[t], v)
           /\ Nested(branches, NameOf[t], v)[NameOf[u]] = branches[NameOf[u]]
<1>. DEFINE path == NameOf[t]
            name == NameOf[u]
            above == {SubSeq(path, 1, i) : i \in 1 .. Len(path) - 1}
            kept == {p \in DOMAIN branches : ~IsPrefix(path, p)}
<1>1. path \in Seq(STRING) /\ name \in Seq(STRING)
  BY LuaContextAssumption
<1>2. name \in kept
  BY NamesApart DEF IsStrictPrefix
<1>3. name \notin above
  <2>1. SUFFICES ASSUME NEW i \in 1 .. Len(path) - 1, name = SubSeq(path, 1, i)
                 PROVE  FALSE
    OBVIOUS
  <2>. HIDE DEF path, name
  <2>2. Len(path) \in Nat /\ i \in 1 .. Len(path)
    BY <1>1
  <2>3. Len(name) = i
    BY <1>1, <2>1, <2>2
  <2>4. SubSeq(name, 1, Len(name)) = name
    BY <1>1
  <2>5. IsPrefix(name, path)
    BY <2>1, <2>2, <2>3, <2>4 DEF IsPrefix
  <2>. QED
    BY <2>5, NamesApart DEF IsStrictPrefix, path, name
<1>4. Nested(branches, path, v) =
         [p \in kept \cup above \cup {path} |->
             IF p = path THEN v ELSE IF p \in above THEN "table" ELSE branches[p]]
  BY Zenon DEF Nested
<1>. HIDE DEF path, name, above, kept
<1>5. /\ name \in DOMAIN Nested(branches, path, v)
      /\ Nested(branches, path, v)[name] = branches[name]
  <2>1. name # path
    BY DEF name, path
  <2>. QED
    BY <1>2, <1>3, <1>4, <2>1
<1>. QED
  BY <1>5 DEF name, path
-----------------------------------------------------------------------------
Callable(name) ==
    /\ \A root \in {"tools", "sandbox"} :
          name \in DOMAIN tree[root] /\ tree[root][name] = registry[name]
    /\ Len(name) > 1 => name \in DOMAIN flat /\ flat[name] = registry[name]

\* What was bound stays callable while the rest is bound.
BindInv ==
    /\ DOMAIN tree = {"tools", "sandbox"}
    /\ \A name \in DOMAIN registry : registry[name] \in Tool /\ NameOf[registry[name]] = name
    /\ unbound \subseteq DOMAIN registry
    /\ mode \notin {"register", "bind"} => unbound = {}
    /\ mode # "register" => \A name \in DOMAIN registry \ unbound : Callable(name)

LEMMA InitBindInv == Init => BindInv
<1>. SUFFICES ASSUME Init PROVE BindInv
  OBVIOUS
<1>1. /\ mode = "register" /\ unbound = {} /\ registry = [n \in {} |-> 0]
      /\ DOMAIN tree = {"tools", "sandbox"}
  BY Zenon DEF Init, ContextInit
<1>2. DOMAIN registry = {}
  BY Zenon, <1>1
<1>. QED
  BY <1>1, <1>2 DEF BindInv

\* After the last is bound nothing is.
LEMMA BindingIsKept ==
    ASSUME BindInv, UNCHANGED bindingVars, mode # "register" \/ mode' = "register",
           mode' \notin {"register", "bind"} => unbound = {}
    PROVE  BindInv'
BY DEF BindInv, bindingVars, Callable

LEMMA StepBindInv == BindInv /\ [Next]_vars => BindInv'
<1>. SUFFICES ASSUME BindInv, [Next]_vars PROVE BindInv'
  OBVIOUS
<1>1. CASE UNCHANGED vars
  BY <1>1, BindingIsKept DEF vars, contextVars, bindingVars, BindInv
<1>2. ASSUME NEW t \in Tool, RegisterTool(t) PROVE BindInv'
  BY <1>2 DEF RegisterTool, BindInv
<1>3. CASE BindTools
  BY <1>3 DEF BindTools, BindInv
<1>4. ASSUME NEW name \in unbound, Bind(name) PROVE BindInv'
  <2>. DEFINE t == registry[name]
  <2>1. /\ mode = "bind" /\ mode' = mode /\ registry' = registry
        /\ unbound' = unbound \ {name}
        /\ flat' = IF Len(name) = 1 THEN flat
                   ELSE [n \in DOMAIN flat \cup {name} |->
                            IF n = name THEN registry[name] ELSE flat[n]]
        /\ tree' = [root \in DOMAIN tree |-> Nested(tree[root], name, t)]
    BY <1>4 DEF Bind
  <2>2. t \in Tool /\ NameOf[t] = name /\ name \in DOMAIN registry
    BY DEF BindInv
  <2>3. Callable(name)'
    <3>1. name \in Seq(STRING) /\ name # <<>>
      BY <2>2, LuaContextAssumption
    <3>2. \A root \in {"tools", "sandbox"} :
             name \in DOMAIN tree'[root] /\ tree'[root][name] = t
      BY <2>1, <2>2, NestedBinds DEF BindInv
    <3>3. Len(name) > 1 => name \in DOMAIN flat' /\ flat'[name] = t
      <4>1. Len(name) > 1 => Len(name) # 1
        <5>1. Len(name) \in Nat
          BY <3>1, LenProperties
        <5>2. \A n \in Nat : n > 1 => n # 1
          OBVIOUS
        <5>. QED
          BY Zenon, <5>1, <5>2
      <4>. QED
        BY <2>1, <4>1, Zenon
    <3>. QED
      BY <2>1, <3>2, <3>3 DEF Callable
  <2>4. ASSUME NEW n \in DOMAIN registry \ unbound PROVE Callable(n)'
    <3>1. registry[n] \in Tool /\ NameOf[registry[n]] = n /\ Callable(n) /\ n # name
      BY <2>1, <2>4 DEF BindInv
    <3>2. \A root \in {"tools", "sandbox"} :
             n \in DOMAIN tree'[root] /\ tree'[root][n] = registry[n]
      <4>1. ASSUME NEW root \in {"tools", "sandbox"}
            PROVE  n \in DOMAIN tree'[root] /\ tree'[root][n] = registry[n]
        <5>1. n \in DOMAIN tree[root] /\ tree[root][n] = registry[n]
          BY <3>1 DEF Callable
        <5>2. /\ n \in DOMAIN Nested(tree[root], name, t)
              /\ Nested(tree[root], name, t)[n] = tree[root][n]
          BY <2>2, <3>1, <5>1, NestedKeeps
        <5>3. tree'[root] = Nested(tree[root], name, t)
          BY <2>1 DEF BindInv
        <5>. QED
          BY <5>1, <5>2, <5>3
      <4>. QED
        BY <4>1
    <3>3. Len(n) > 1 => n \in DOMAIN flat' /\ flat'[n] = registry[n]
      BY <2>1, <3>1 DEF Callable
    <3>. QED
      BY <2>1, <3>2, <3>3 DEF Callable
  <2>. QED
    BY <2>1, <2>3, <2>4 DEF BindInv
<1>5. CASE FinishBinding \/ Execute \/ Serialising
  <2>1. /\ UNCHANGED bindingVars /\ mode # "register"
        /\ unbound = {} \/ mode \notin {"register", "bind"}
    BY <1>5 DEF FinishBinding, Execute, Serialising, NextArgument, NextEntry, CloseTable,
       PassErrorUp, Return
  <2>. QED
    BY <2>1, BindingIsKept DEF BindInv
<1>6. CASE CallRead \/ Listing
  <2>1. UNCHANGED bindingVars /\ mode \notin {"register", "bind"}
    BY <1>6 DEF CallRead, Listing, CallList, ListEntry, FailToStat, RefuseList, LeaveLevel,
       FailToIncrement, ReturnList, contextVars, bindingVars
  <2>. QED
    BY <2>1, BindingIsKept DEF BindInv
<1>7. CASE ReadBlock \/ Write
  BY <1>7, BindingIsKept DEF ReadBlock, Write, contextVars, bindingVars, BindInv
<1>. QED
  BY <1>1, <1>2, <1>3, <1>4, <1>5, <1>6, <1>7 DEF Next, Context, ContextNext

(***************************************************************************)
(* Whatever tools there are, whatever their order in the hash map and      *)
(* however many are registered under one name: what the prompt lists can   *)
(* be called.                                                              *)
(***************************************************************************)
THEOREM ListedAreCallable == Spec => []ListedToolsAreCallable
<1>1. BindInv => ListedToolsAreCallable
  <2>. SUFFICES ASSUME BindInv, mode \notin {"register", "bind"}
                PROVE  /\ AlwaysShow \cap {registry[n] : n \in DOMAIN registry} \subseteq TopKDocs
                       /\ \A t \in TopKDocs :
                             \E n \in DOMAIN registry :
                                n = NameOf[t] /\ registry[n] = t /\ Callable(n)
    BY DEF ListedToolsAreCallable, Callable
  <2>. QED
    BY DEF BindInv, TopKDocs
<1>. QED
  BY <1>1, InitBindInv, StepBindInv, PTL DEF Spec
-----------------------------------------------------------------------------
\* The size a call was told is no less than the file has been.
ReaderInv ==
    /\ reader \in [at : {"call", "sized", "eof", "failed"}, next : Nat, offset : Nat,
                   max : Nat, seen : Nat]
    /\ size \in Nat /\ least \in Nat /\ least <= size
    /\ reader.at = "sized" => least <= reader.seen
    /\ reader.at = "eof" => least <= reader.next

LEMMA InitReaderInv == Init => ReaderInv
<1>. SUFFICES ASSUME Init PROVE ReaderInv
  OBVIOUS
<1>1. /\ size \in Sizes /\ least = size
      /\ reader = [at |-> "call", next |-> 0, offset |-> 0, max |-> 0, seen |-> 0]
  BY Zenon DEF Init
<1>. QED
  BY <1>1, FileToolsAssumption DEF ReaderInv

\* The numbers a call of a script is taken for.
LEMMA ParsedNumbers ==
    ASSUME NEW offset \in Nat, NEW call \in Calls(offset)
    PROVE  Parsed(call).offset \in Nat /\ Parsed(call).max_bytes \in Nat
<1>1. "offset" \in DOMAIN call => call.offset = Number(offset)
  BY DEF Calls
<1>2. "max_bytes" \in DOMAIN call => call.max_bytes \in Maxima
  BY DEF Calls
<1>3. ASSUME NEW m \in Maxima, m.type = "number" PROVE m.value \in Nat
  BY <1>3, FileToolsAssumption DEF Maxima, Number
<1>4. Parsed(call).offset = IF Typed(call, "offset") THEN call.offset.value ELSE 0
  BY DEF Parsed, Defaults
<1>5. Parsed(call).max_bytes = IF Typed(call, "max_bytes") THEN call.max_bytes.value ELSE Default
  BY DEF Parsed, Defaults
<1>. QED
  BY <1>1, <1>2, <1>3, <1>4, <1>5, FileToolsAssumption DEF Typed, Type, Number

LEMMA StepReaderInv == ReaderInv /\ [Next]_vars => ReaderInv'
<1>. SUFFICES ASSUME ReaderInv, [Next]_vars PROVE ReaderInv'
  OBVIOUS
<1>1. CASE CallRead
  <2>1. PICK call \in Calls(reader.next) :
           LET arg == Parsed(call)
           IN  \/ reader' = [reader EXCEPT !.at = "failed"]
               \/ reader' = [reader EXCEPT !.at = "sized", !.seen = size,
                                 !.offset = arg.offset, !.max = arg.max_bytes]
    BY <1>1 DEF CallRead
  <2>2. Parsed(call).offset \in Nat /\ Parsed(call).max_bytes \in Nat
    BY ParsedNumbers DEF ReaderInv
  <2>3. size' = size /\ least' = least
    BY <1>1 DEF CallRead
  <2>. QED
    BY <2>1, <2>2, <2>3 DEF ReaderInv
<1>2. CASE ReadBlock
  <2>1. Read \in Nat
    BY FileToolsAssumption DEF ReaderInv, Read, ToRead, MinOf
  <2>2. size' = size /\ least' = least /\ reader.at = "sized"
    BY <1>2 DEF ReadBlock
  <2>3. CASE reader' = [reader EXCEPT !.at = "failed"]
    BY <2>2, <2>3 DEF ReaderInv
  <2>4. CASE reader' = [reader EXCEPT !.at = IF Eof THEN "eof" ELSE "call",
                                      !.next = reader.offset + Read]
    <3>1. reader'.at = IF Eof THEN "eof" ELSE "call"
      BY <2>4 DEF ReaderInv
    <3>2. reader'.next = reader.offset + Read
      BY <2>4 DEF ReaderInv
    <3>3. Eof => reader.seen <= reader'.next
      BY <2>1, <3>2 DEF ReaderInv, Eof
    <3>4. reader' \in [at : {"call", "sized", "eof", "failed"}, next : Nat, offset : Nat,
                       max : Nat, seen : Nat]
      <4>. DEFINE at == IF Eof THEN "eof" ELSE "call"
                  n == reader.offset + Read
      <4>1. at \in {"call", "sized", "eof", "failed"} /\ n \in Nat
        BY <2>1 DEF ReaderInv
      <4>2. reader' = [reader EXCEPT !.at = at, !.next = n]
        BY <2>4
      <4>. HIDE DEF at, n
      <4>. QED
        BY <4>1, <4>2 DEF ReaderInv
    <3>. QED
      BY <2>2, <3>1, <3>2, <3>3, <3>4 DEF ReaderInv
  <2>. QED
    BY <1>2, <2>3, <2>4 DEF ReadBlock
<1>3. CASE Write
  <2>1. size' \in Nat /\ reader' = reader /\ least' = MinOf(least, size')
    <3>1. size' \in Sizes \/ size' = 0
      BY <1>3 DEF Write
    <3>2. reader' = reader /\ least' = MinOf(least, size')
      BY <1>3 DEF Write
    <3>3. size' \in Nat
      <4>1. Sizes \subseteq Nat
        BY FileToolsAssumption
      <4>2. 0 \in Nat
        OBVIOUS
      <4>. QED
        BY Zenon, <3>1, <4>1, <4>2
    <3>. QED
      BY <3>2, <3>3
  <2>2. least' \in Nat /\ least' <= size' /\ least' <= least
    BY <2>1 DEF ReaderInv, MinOf
  <2>. QED
    BY <2>1, <2>2 DEF ReaderInv
<1>4. CASE Context \/ Listing \/ UNCHANGED vars
  <2>1. UNCHANGED fileVars
    BY <1>4 DEF Context, Listing, CallList, ListEntry, FailToStat, LeaveLevel,
       FailToIncrement, ReturnList, vars
  <2>. QED
    BY <2>1 DEF ReaderInv, fileVars
<1>. QED
  BY <1>1, <1>2, <1>3, <1>4 DEF Next

(***************************************************************************)
(* Whatever the sizes of file and blocks and however often others write: a *)
(* reader that is told of the end has what was there all the while.        *)
(***************************************************************************)
THEOREM ReaderIsServed == Spec => []ReaderGetsWhatWasThere
<1>1. ReaderInv => ReaderGetsWhatWasThere
  BY DEF ReaderInv, ReaderGetsWhatWasThere
<1>. QED
  BY <1>1, InitReaderInv, StepReaderInv, PTL DEF Spec
-----------------------------------------------------------------------------
\* Something on the way is still to be come to.
Pending(path) ==
    \E j \in 1 .. Len(path) : j <= Len(listing.levels) /\ path[j] \in listing.levels[j]

Wanted == {n \in Above(listing.depth) : Kind[n] \in listing.kinds}

ListType ==
    listing \in [depth : Nat, kinds : SUBSET {"dir", "file", "symlink"},
                 levels : Seq(SUBSET Node), rows : SUBSET Node,
                 cut : BOOLEAN, refused : BOOLEAN]

\* What the iterator holds has a way to it of as many steps as its level; what
\* is wanted is a row, or the iterator has yet to come to something on its way.
LevelInv ==
    /\ Len(listing.levels) <= listing.depth + 1
    /\ \A i \in 1 .. Len(listing.levels) : \A n \in listing.levels[i] :
          \E path \in [1 .. i -> Node] : Way(path, n)
    /\ listing.rows \subseteq Wanted

RowInv ==
    \A i \in 1 .. listing.depth : \A path \in [1 .. i -> Node], n \in Node :
        Way(path, n) /\ Kind[n] \in listing.kinds => n \in listing.rows \/ Pending(path)

ListInv ==
    /\ ListType
    /\ mode \notin {"listing", "listed"} => listing = NoListing
    /\ mode = "listing" => ~listing.refused
    /\ mode = "listed" /\ ~listing.refused => listing.levels = <<>>
    /\ mode \in {"listing", "listed"} /\ ~listing.refused =>
          LevelInv /\ (~listing.cut => RowInv)

LEMMA InitListInv == Init => ListInv
<1>. SUFFICES ASSUME Init PROVE ListInv
  OBVIOUS
<1>1. mode = "register" /\ listing = NoListing
  BY DEF Init, ContextInit
<1>2. ListType
  BY <1>1 DEF ListType, NoListing
<1>. QED
  BY <1>1, <1>2 DEF ListInv

\* A directory that is come to gives way to its entries.
LEMMA WayDown ==
    ASSUME NEW i \in Nat \ {0}, NEW path \in [1 .. i -> Node], NEW n \in Node, Way(path, n),
           NEW c \in Children(n)
    PROVE  \E longer \in [1 .. i + 1 -> Node] : Way(longer, c)
<1>. DEFINE longer == [j \in 1 .. i + 1 |-> IF j = i + 1 THEN c ELSE path[j]]
<1>1. /\ path \in Seq(Node) /\ Len(path) = i
      /\ c \in Node /\ Parent[c] = n
  BY DEF Children
<1>2. longer \in [1 .. i + 1 -> Node]
  BY <1>1
<1>3. longer \in Seq(Node) /\ Len(longer) = i + 1
  BY <1>2
<1>4. /\ longer[i + 1] = c /\ longer[1] = path[1] /\ path[i] = n
      /\ \A j \in 2 .. i : longer[j] = path[j] /\ longer[j - 1] = path[j - 1]
      /\ longer[i] = path[i]
  BY <1>1 DEF Way
<1>5. \A j \in 2 .. i + 1 : Parent[longer[j]] = longer[j - 1]
  <2>1. ASSUME NEW j \in 2 .. i + 1 PROVE Parent[longer[j]] = longer[j - 1]
    <3>1. CASE j = i + 1
      BY <1>1, <1>4, <3>1
    <3>2. CASE j \in 2 .. i
      BY <1>1, <1>4, <3>2 DEF Way
    <3>. QED
      BY <3>1, <3>2
  <2>. QED
    BY <2>1
<1>. QED
  BY <1>2, <1>3, <1>4, <1>5 DEF Way

\* What the iterator holds once it is through with an entry of its last level.
Rest(n) == Append(Front(listing.levels), Last(listing.levels) \ {n})

LEMMA EntryGone ==
    ASSUME ListType, listing.levels # <<>>, NEW n \in Last(listing.levels)
    PROVE  /\ Rest(n) \in Seq(SUBSET Node) /\ Len(Rest(n)) = Len(listing.levels)
           /\ n \in listing.levels[Len(Rest(n))] /\ n \in Node
           /\ Len(Rest(n)) \in Nat \ {0}
           /\ \A j \in 1 .. Len(Rest(n)) :
                 Rest(n)[j] = IF j = Len(Rest(n)) THEN listing.levels[j] \ {n}
                              ELSE listing.levels[j]
<1>. DEFINE rest == Rest(n)
            levels == listing.levels
            m == Len(levels)
<1>1. /\ levels \in Seq(SUBSET Node) /\ m \in Nat /\ m > 0
      /\ Last(levels) = levels[m] /\ Front(levels) = SubSeq(levels, 1, m - 1)
      /\ levels[m] \in SUBSET Node
  BY DEF ListType, Last, Front
<1>2. /\ Front(levels) \in Seq(SUBSET Node) /\ Len(Front(levels)) = m - 1
      /\ \A j \in 1 .. m - 1 : Front(levels)[j] = levels[j]
  BY <1>1
<1>. HIDE DEF levels, m, rest
<1>3. /\ rest \in Seq(SUBSET Node) /\ Len(rest) = m /\ rest[m] = levels[m] \ {n}
      /\ \A j \in 1 .. m - 1 : rest[j] = levels[j]
  <2>1. levels[m] \ {n} \in SUBSET Node /\ rest = Append(Front(levels), levels[m] \ {n})
    BY <1>1 DEF levels, rest, Rest
  <2>. QED
    BY ONLY <1>1, <1>2, <2>1
<1>4. n \in levels[m] /\ n \in Node /\ m \in Nat \ {0}
  BY <1>1 DEF levels
<1>5. ASSUME NEW j \in 1 .. m
      PROVE  rest[j] = IF j = m THEN levels[j] \ {n} ELSE levels[j]
  <2>1. j = m \/ j \in 1 .. m - 1
    BY <1>1
  <2>2. j \in 1 .. m - 1 => j # m
    BY <1>1
  <2>. QED
    BY <1>3, <2>1, <2>2, Zenon
<1>6. m = Len(listing.levels) /\ levels = listing.levels
  BY DEF levels, m
<1>. QED
  BY <1>3, <1>4, <1>5, <1>6, Zenon DEF rest

LEMMA EntryKeepsLevels ==
    ASSUME ListType, ListType', LevelInv, ~listing.refused, NEW n \in Last(listing.levels),
           listing.levels # <<>>,
           listing'.depth = listing.depth, listing'.kinds = listing.kinds,
           listing'.rows = IF Len(listing.levels) <= listing.depth /\ Kind[n] \in listing.kinds
                           THEN listing.rows \cup {n} ELSE listing.rows,
           \/ listing'.levels = Rest(n)
           \/ Enters(n) /\ listing'.levels = Append(Rest(n), Children(n))
    PROVE  LevelInv'
<1>. DEFINE rest == Rest(n)
            m == Len(rest)
            d == listing.depth
<1>1. /\ rest \in Seq(SUBSET Node) /\ m = Len(listing.levels)
      /\ n \in listing.levels[m] /\ n \in Node /\ m \in Nat \ {0}
      /\ \A j \in 1 .. m :
            rest[j] = IF j = m THEN listing.levels[j] \ {n} ELSE listing.levels[j]
  <2>. HIDE DEF ListType
  <2>. QED
    BY EntryGone
<1>2. d \in Nat /\ m <= d + 1
  BY <1>1 DEF LevelInv, ListType
<1>3. \A i \in 1 .. m : \A c \in rest[i] : \E path \in [1 .. i -> Node] : Way(path, c)
  BY <1>1 DEF LevelInv
<1>4. PICK way \in [1 .. m -> Node] : Way(way, n)
  BY <1>1 DEF LevelInv
<1>5. listing'.rows \subseteq Wanted'
  <2>1. Wanted' = Wanted
    BY DEF Wanted
  <2>2. m <= d /\ Kind[n] \in listing.kinds => n \in Wanted
    <3>1. m <= d => m \in 1 .. d
      BY <1>1, <1>2
    <3>. QED
      BY <1>1, <1>4, <3>1 DEF Wanted, Above
  <2>. QED
    BY <1>1, <2>1, <2>2 DEF LevelInv
<1>6. CASE listing'.levels = rest
  BY <1>2, <1>3, <1>5, <1>6 DEF LevelInv
<1>7. CASE Enters(n) /\ listing'.levels = Append(rest, Children(n))
  <2>1. m <= d /\ Children(n) \in SUBSET Node
    BY <1>1, <1>7 DEF Enters, Children
  <2>2. /\ Len(listing'.levels) = m + 1 /\ listing'.levels[m + 1] = Children(n)
        /\ \A i \in 1 .. m : listing'.levels[i] = rest[i]
    BY <1>1, <1>7, <2>1
  <2>3. \A c \in Children(n) : \E path \in [1 .. m + 1 -> Node] : Way(path, c)
    BY <1>1, <1>4, WayDown
  <2>4. ASSUME NEW i \in 1 .. m + 1, NEW c \in listing'.levels[i]
        PROVE  \E path \in [1 .. i -> Node] : Way(path, c)
    <3>1. i \in 1 .. m \/ i = m + 1
      BY <1>1
    <3>. QED
      BY <1>3, <2>2, <2>3, <3>1
  <2>5. m + 1 <= d + 1
    BY <1>1, <1>2, <2>1
  <2>. QED
    BY <1>5, <2>2, <2>4, <2>5 DEF LevelInv
<1>. QED
  BY <1>6, <1>7

LEMMA EntryKeepsRows ==
    ASSUME ListType, ListType', RowInv, LevelInv, NEW n \in Last(listing.levels),
           listing.levels # <<>>,
           listing'.depth = listing.depth, listing'.kinds = listing.kinds,
           listing'.rows = IF Len(listing.levels) <= listing.depth /\ Kind[n] \in listing.kinds
                           THEN listing.rows \cup {n} ELSE listing.rows,
           listing'.levels = IF Enters(n) THEN Append(Rest(n), Children(n)) ELSE Rest(n)
    PROVE  RowInv'
<1>. DEFINE rest == Rest(n)
            m == Len(rest)
            d == listing.depth
            new == listing'.levels
<1>1. /\ rest \in Seq(SUBSET Node) /\ m = Len(listing.levels)
      /\ n \in listing.levels[m] /\ n \in Node /\ m \in Nat \ {0}
      /\ \A j \in 1 .. m :
            rest[j] = IF j = m THEN listing.levels[j] \ {n} ELSE listing.levels[j]
  <2>. HIDE DEF ListType
  <2>. QED
    BY EntryGone
<1>2. d \in Nat
  BY DEF ListType
<1>3. /\ Len(new) \in Nat /\ m <= Len(new) /\ \A j \in 1 .. m : new[j] = rest[j]
      /\ Enters(n) => Len(new) = m + 1 /\ new[m + 1] = Children(n)
  <2>1. Children(n) \in SUBSET Node
    BY DEF Children
  <2>. QED
    BY <1>1, <2>1
<1>. HIDE DEF m, new
<1>4. ASSUME NEW i \in 1 .. d, NEW path \in [1 .. i -> Node], NEW c \in Node,
             Way(path, c), Kind[c] \in listing.kinds
      PROVE  c \in listing'.rows \/ \E j \in 1 .. i : j <= Len(new) /\ path[j] \in new[j]
  <2>0. i \in Nat /\ i <= d /\ Len(path) = i /\ path[i] = c
    BY <1>2, <1>4 DEF Way
  <2>1. CASE c \in listing.rows
    BY <2>1
  <2>2. ASSUME NEW j \in 1 .. i, j <= m, path[j] \in listing.levels[j], j # m \/ path[j] # n
        PROVE  j <= Len(new) /\ path[j] \in new[j]
    <3>1. j \in 1 .. m
      BY <1>1, <2>2
    <3>2. j <= Len(new)
      BY <1>1, <1>3, <3>1
    <3>3. path[j] \in rest[j]
      BY <1>1, <2>2, <3>1
    <3>. QED
      BY <1>3, <3>1, <3>2, <3>3
  <2>3. CASE m <= i /\ path[m] = n
    <3>1. CASE m = i
      <4>1. n = c /\ m <= d
        BY <2>0, <2>3, <3>1
      <4>. QED
        BY <1>1, <1>4, <4>1
    <3>2. CASE m # i
      <4>1. m + 1 \in 2 .. i /\ m <= d
        BY <1>1, <1>2, <2>0, <2>3, <3>2
      <4>2. m + 1 \in 1 .. i /\ path[m + 1] \in Node /\ (m + 1) - 1 = m
        BY <1>1, <4>1
      <4>3. Parent[path[m + 1]] = n
        BY <1>4, <2>0, <2>3, <4>1, <4>2 DEF Way
      <4>4. Kind[n] = "dir"
        BY <1>1, <4>2, <4>3, FileToolsAssumption
      <4>5. Enters(n) /\ path[m + 1] \in Children(n)
        BY <1>1, <4>1, <4>2, <4>3, <4>4 DEF Enters, Children
      <4>. QED
        BY <1>3, <4>2, <4>5
    <3>. QED
      BY <3>1, <3>2
  <2>4. CASE Pending(path)
    <3>1. PICK j \in 1 .. i : j <= m /\ path[j] \in listing.levels[j]
      BY <1>1, <2>0, <2>4 DEF Pending
    <3>2. CASE j = m /\ path[j] = n
      <4>1. m <= i
        BY <1>1, <2>0, <3>2
      <4>. QED
        BY <2>3, <3>2, <4>1
    <3>. QED
      BY <2>2, <3>1, <3>2
  <2>. QED
    BY <1>4, <2>1, <2>4 DEF RowInv
<1>5. \A i \in Nat : \A path \in [1 .. i -> Node] : Len(path) = i
  OBVIOUS
<1>6. ASSUME NEW i \in 1 .. listing'.depth, NEW path \in [1 .. i -> Node], NEW c \in Node,
             Way(path, c), Kind[c] \in listing'.kinds
      PROVE  c \in listing'.rows \/ Pending(path)'
  <2>1. i \in 1 .. d /\ Kind[c] \in listing.kinds /\ Len(path) = i
    BY <1>2, <1>5, <1>6
  <2>2. c \in listing'.rows \/ \E j \in 1 .. i : j <= Len(new) /\ path[j] \in new[j]
    BY <1>4, <1>6, <2>1
  <2>. QED
    BY <2>1, <2>2 DEF Pending, new
<1>. QED
  BY <1>6 DEF RowInv

LEMMA ListEntryKeeps == ListInv /\ ListEntry => ListInv'
<1>. SUFFICES ASSUME ListInv, ListEntry PROVE ListInv'
  OBVIOUS
<1>1. /\ mode = "listing" /\ mode' = "listing" /\ listing.levels # <<>>
      /\ ListType /\ ~listing.refused /\ LevelInv /\ (~listing.cut => RowInv)
  BY DEF ListInv, ListEntry, contextVars
<1>2. PICK n \in Last(listing.levels) :
         LET shown == Len(listing.levels) <= listing.depth /\ Kind[n] \in listing.kinds
             rows == IF shown THEN listing.rows \cup {n} ELSE listing.rows
         IN  \/ listing' = [listing EXCEPT !.rows = rows,
                    !.levels = IF Enters(n) THEN Append(Rest(n), Children(n)) ELSE Rest(n)]
             \/ listing' = [listing EXCEPT !.rows = rows, !.levels = Rest(n), !.cut = TRUE]
  BY DEF ListEntry, Rest
<1>. DEFINE rows == IF Len(listing.levels) <= listing.depth /\ Kind[n] \in listing.kinds
                    THEN listing.rows \cup {n} ELSE listing.rows
            levels == IF Enters(n) THEN Append(Rest(n), Children(n)) ELSE Rest(n)
<1>3. /\ Rest(n) \in Seq(SUBSET Node) /\ Children(n) \in SUBSET Node
      /\ n \in Node /\ listing.rows \in SUBSET Node
  BY <1>1, EntryGone DEF Children, ListType
<1>4. rows \in SUBSET Node /\ levels \in Seq(SUBSET Node)
  <2>1. Append(Rest(n), Children(n)) \in Seq(SUBSET Node)
    BY <1>3
  <2>. QED
    BY <1>3, <2>1
<1>5. CASE listing' = [listing EXCEPT !.rows = rows, !.levels = levels]
  <2>1. /\ listing'.rows = rows /\ listing'.levels = levels
        /\ UNCHANGED <<listing.depth, listing.kinds, listing.cut, listing.refused>> /\ ListType'
    <3>. HIDE DEF rows, levels
    <3>. QED
      BY <1>1, <1>4, <1>5 DEF ListType
  <2>2. LevelInv'
    BY <1>1, <2>1, EntryKeepsLevels
  <2>3. ~listing.cut => RowInv'
    BY <1>1, <2>1, EntryKeepsRows
  <2>. QED
    BY <1>1, <2>1, <2>2, <2>3 DEF ListInv
<1>6. CASE listing' = [listing EXCEPT !.rows = rows, !.levels = Rest(n), !.cut = TRUE]
  <2>1. /\ listing'.rows = rows /\ listing'.levels = Rest(n) /\ listing'.cut
        /\ UNCHANGED <<listing.depth, listing.kinds, listing.refused>> /\ ListType'
    <3>. HIDE DEF rows
    <3>. QED
      BY <1>1, <1>3, <1>4, <1>6 DEF ListType
  <2>2. LevelInv'
    BY <1>1, <2>1, EntryKeepsLevels
  <2>. QED
    BY <1>1, <2>1, <2>2 DEF ListInv
<1>. QED
  BY <1>2, <1>5, <1>6

LEMMA LeaveLevelKeeps == ListInv /\ LeaveLevel => ListInv'
<1>. SUFFICES ASSUME ListInv, LeaveLevel PROVE ListInv'
  OBVIOUS
<1>. DEFINE m == Len(listing.levels)
            front == Front(listing.levels)
<1>1. /\ mode = "listing" /\ mode' = "listing" /\ listing.levels # <<>>
      /\ Last(listing.levels) = {} /\ listing' = [listing EXCEPT !.levels = front]
      /\ ListType /\ ~listing.refused /\ LevelInv /\ (~listing.cut => RowInv)
  BY DEF ListInv, LeaveLevel, contextVars
<1>2. /\ listing.levels \in Seq(SUBSET Node) /\ m \in Nat /\ m > 0 /\ listing.levels[m] = {}
      /\ front = SubSeq(listing.levels, 1, m - 1)
  BY <1>1 DEF ListType, Last, Front
<1>3. /\ front \in Seq(SUBSET Node) /\ Len(front) = m - 1
      /\ \A j \in 1 .. m - 1 : front[j] = listing.levels[j]
  BY <1>2
<1>. HIDE DEF front
<1>4. /\ listing'.levels = front /\ ListType'
      /\ UNCHANGED <<listing.depth, listing.kinds, listing.cut, listing.refused, listing.rows>>
  BY <1>1, <1>3 DEF ListType
<1>. HIDE DEF m
<1>5. LevelInv'
  <2>1. Wanted' = Wanted
    BY <1>4 DEF Wanted
  <2>2. m - 1 <= listing.depth + 1
    BY <1>1, <1>2 DEF LevelInv, ListType, m
  <2>3. \A i \in 1 .. m - 1 : i \in 1 .. m
    BY <1>2
  <2>. QED
    BY <1>1, <1>3, <1>4, <2>1, <2>2, <2>3 DEF LevelInv, m
<1>6. ASSUME NEW path, Pending(path) PROVE Pending(path)'
  <2>1. PICK j \in 1 .. Len(path) : j <= m /\ path[j] \in listing.levels[j]
    BY <1>6 DEF Pending, m
  <2>2. j # m
    BY <1>2, <2>1
  <2>3. j \in 1 .. m - 1 /\ j <= m - 1
    BY <1>2, <2>1, <2>2
  <2>. QED
    BY <1>3, <1>4, <2>1, <2>3 DEF Pending
<1>7. ~listing.cut => RowInv'
  BY <1>1, <1>4, <1>6 DEF RowInv
<1>. QED
  BY <1>1, <1>4, <1>5, <1>7 DEF ListInv

LEMMA CallListKeeps == ListInv /\ CallList => ListInv'
<1>. SUFFICES ASSUME ListInv, CallList PROVE ListInv'
  OBVIOUS
<1>1. mode = "ready" /\ listing = NoListing /\ ListType
  BY DEF CallList, ListInv
<1>2. CASE RefuseList
  <2>1. /\ mode' = "listed" /\ listing' = [listing EXCEPT !.rows = {}, !.refused = TRUE]
    BY <1>2 DEF RefuseList
  <2>2. ListType' /\ listing'.refused
    BY <1>1, <2>1 DEF ListType
  <2>. QED
    BY <2>1, <2>2 DEF ListInv
<1>3. CASE ~RefuseList
  <2>1. PICK depth \in Depths, kinds \in SUBSET {"dir", "file", "symlink"}, made \in BOOLEAN :
           listing' = [NoListing EXCEPT !.depth = depth, !.kinds = kinds, !.cut = ~made,
                          !.levels = IF made THEN <<Children(Root)>> ELSE <<>>]
    BY <1>3 DEF CallList
  <2>. DEFINE levels == IF made THEN <<Children(Root)>> ELSE <<>>
              cut == ~made
  <2>2. levels \in Seq(SUBSET Node) /\ cut \in BOOLEAN
    <3>1. <<Children(Root)>> \in Seq(SUBSET Node)
      BY DEF Children
    <3>2. <<>> \in Seq(SUBSET Node)
      OBVIOUS
    <3>. QED
      BY <3>1, <3>2
  <2>3. /\ listing'.depth = depth /\ listing'.levels = levels /\ listing'.rows = {}
        /\ listing'.kinds = kinds /\ listing'.cut = ~made /\ ~listing'.refused /\ ListType'
    <3>1. listing' = [depth |-> depth, kinds |-> kinds, levels |-> levels, rows |-> {},
                      cut |-> cut, refused |-> FALSE]
      BY <2>1, Zenon DEF NoListing
    <3>. HIDE DEF levels
    <3>2. /\ listing'.depth = depth /\ listing'.levels = levels /\ listing'.rows = {}
          /\ listing'.kinds = kinds /\ listing'.cut = cut /\ listing'.refused = FALSE
      BY <3>1, Zenon
    <3>. HIDE DEF cut
    <3>3. ListType'
      BY <2>2, <3>1, FileToolsAssumption DEF ListType
    <3>. QED
      BY <3>2, <3>3 DEF cut
  <2>5. mode' = "listing"
    BY <1>3 DEF CallList
  <2>6. LevelInv'
    <3>1. CASE made
      <4>1. /\ Len(listing'.levels) = 1 /\ listing'.levels[1] = Children(Root)
            /\ depth \in Nat
        BY <2>3, <3>1, FileToolsAssumption
      <4>2. ASSUME NEW n \in Children(Root) PROVE \E path \in [1 .. 1 -> Node] : Way(path, n)
        <5>. DEFINE path == [i \in 1 .. 1 |-> n]
        <5>1. path \in [1 .. 1 -> Node] /\ path \in Seq(Node) /\ Len(path) = 1 /\ path[1] = n
          BY DEF Children
        <5>2. Way(path, n)
          BY <5>1 DEF Way, Children
        <5>. QED
          BY <5>1, <5>2
      <4>3. \A i \in 1 .. 1 : i = 1
        OBVIOUS
      <4>4. 1 <= listing'.depth + 1
        BY <2>3, <4>1
      <4>5. listing'.rows \subseteq Wanted'
        BY <2>3
      <4>. QED
        BY ONLY <4>1, <4>2, <4>3, <4>4, <4>5 DEF LevelInv
    <3>2. CASE ~made
      BY <2>3, <3>2, FileToolsAssumption DEF LevelInv
    <3>. QED
      BY <3>1, <3>2
  <2>7. ASSUME made PROVE RowInv'
    <3>1. ASSUME NEW i \in 1 .. depth, NEW path \in [1 .. i -> Node], NEW n \in Node,
                 Way(path, n)
          PROVE  Pending(path)'
      <4>1. i \in Nat /\ 1 \in 1 .. i /\ Len(path) = i /\ depth \in Nat
        BY FileToolsAssumption
      <4>2. path[1] \in Children(Root)
        BY <3>1, <4>1 DEF Way, Children
      <4>3. Len(listing'.levels) = 1 /\ listing'.levels[1] = Children(Root)
        BY <2>3, <2>7
      <4>. QED
        BY <4>1, <4>2, <4>3 DEF Pending
    <3>. QED
      BY <2>3, <3>1 DEF RowInv
  <2>. QED
    BY <2>3, <2>5, <2>6, <2>7 DEF ListInv
<1>. QED
  BY <1>2, <1>3

LEMMA StepListInv == ListInv /\ [Next]_vars => ListInv'
<1>. SUFFICES ASSUME ListInv, [Next]_vars PROVE ListInv'
  OBVIOUS
<1>1. ASSUME UNCHANGED listing, mode' = mode \/ {mode, mode'} \cap {"listing", "listed"} = {}
      PROVE  ListInv'
  BY <1>1 DEF ListInv, ListType, LevelInv, RowInv, Wanted, Pending
<1>2. CASE Context
  <2>1. UNCHANGED listing
    BY <1>2 DEF Context
  <2>2. mode' = mode \/ {mode, mode'} \cap {"listing", "listed"} = {}
    BY <1>2 DEF Context, ContextNext, RegisterTool, BindTools, Bind, FinishBinding, Execute,
       Serialising, NextArgument, NextEntry, CloseTable, PassErrorUp, Return
  <2>. QED
    BY <1>1, <2>1, <2>2
<1>3. CASE CallRead
  BY <1>1, <1>3 DEF CallRead
<1>4. CASE ReadBlock \/ Write \/ UNCHANGED vars
  BY <1>1, <1>4 DEF ReadBlock, Write, vars, contextVars
<1>5. CASE CallList
  BY <1>5, CallListKeeps
<1>6. CASE ListEntry
  BY <1>6, ListEntryKeeps
<1>7. CASE LeaveLevel
  BY <1>7, LeaveLevelKeeps
<1>8. CASE FailToStat
  <2>1. /\ mode' = "listed" /\ listing' = [listing EXCEPT !.rows = {}, !.refused = TRUE]
    BY <1>8 DEF FailToStat, RefuseList
  <2>2. ListType' /\ listing'.refused
    BY <2>1 DEF ListInv, ListType
  <2>. QED
    BY <2>1, <2>2 DEF ListInv
<1>9. CASE FailToIncrement
  <2>1. /\ mode = "listing" /\ mode' = "listing"
        /\ listing' = [listing EXCEPT !.levels = <<>>, !.cut = TRUE]
    BY <1>9 DEF FailToIncrement, contextVars
  <2>2. /\ ListType' /\ listing'.levels = <<>> /\ listing'.cut
        /\ UNCHANGED <<listing.depth, listing.kinds, listing.refused, listing.rows>>
    <3>1. <<>> \in Seq(SUBSET Node) /\ ListType
      BY <2>1 DEF ListInv
    <3>. QED
      BY <2>1, <3>1 DEF ListType
  <2>3. LevelInv'
    <3>1. LevelInv /\ listing.depth \in Nat
      BY <2>1 DEF ListInv, ListType
    <3>. QED
      BY <2>2, <3>1 DEF LevelInv, Wanted
  <2>. QED
    BY <2>1, <2>2, <2>3 DEF ListInv
<1>10. CASE ReturnList
  <2>1. mode = "listing" /\ mode' = "listed" /\ listing' = listing /\ listing.levels = <<>>
    BY <1>10 DEF ReturnList
  <2>. QED
    BY <2>1 DEF ListInv, ListType, LevelInv, RowInv, Wanted, Pending
<1>. QED
  BY <1>2, <1>3, <1>4, <1>5, <1>6, <1>7, <1>8, <1>9, <1>10 DEF Next, Listing

(***************************************************************************)
(* Whatever the directory holds and whatever is asked for: a call of fs.ls *)
(* that was not cut short returns all that is wanted, and any other call   *)
(* nothing that is not (fs_tools.cpp:322-399).                             *)
(***************************************************************************)
THEOREM ListingIsWhole == Spec => []ListsWhatIsAbove
<1>1. ListInv => ListsWhatIsAbove
  <2>. SUFFICES ASSUME ListInv, mode = "listed", ~listing.refused
                PROVE  /\ listing.rows \subseteq Wanted
                       /\ ~listing.cut => listing.rows = Wanted
    BY DEF ListsWhatIsAbove, Wanted
  <2>1. /\ listing.levels = <<>> /\ listing.rows \subseteq Wanted
        /\ ~listing.cut => RowInv
    BY DEF ListInv, LevelInv
  <2>2. ASSUME ~listing.cut, NEW n \in Wanted PROVE n \in listing.rows
    <3>1. PICK i \in 1 .. listing.depth : \E path \in [1 .. i -> Node] : Way(path, n)
      BY <2>2 DEF Wanted, Above
    <3>2. PICK path \in [1 .. i -> Node] : Way(path, n)
      BY <3>1
    <3>3. ~Pending(path)
      <4>1. Len(listing.levels) = 0
        BY <2>1
      <4>2. i \in Nat /\ Len(path) = i
        BY DEF ListInv, ListType
      <4>. QED
        BY <4>1, <4>2 DEF Pending
    <3>. QED
      BY <2>1, <2>2, <3>2, <3>3 DEF RowInv, Wanted, Above
  <2>. QED
    BY <2>1, <2>2
<1>. QED
  BY <1>1, InitListInv, StepListInv, PTL DEF Spec

-----------------------------------------------------------------------------
(***************************************************************************)
(* What follows is about data of any depth.  It is not reached by          *)
(* induction, but by the least number that would be a counterexample.      *)
(***************************************************************************)
Below == {ss \in Nat \X Nat : ss[1] < ss[2]}

\* A set of numbers that is not empty has a least.
LEMMA Least ==
    ASSUME NEW S, S \subseteq Nat, S # {}
    PROVE  \E x \in S : \A y \in S : x <= y
<1>1. IsWellFoundedOn(Below, Nat)
  BY NatLessThanWellFounded DEF Below, OpToRel
<1>2. \E x \in S : \A y \in S : ~(<<y, x>> \in Below)
  BY <1>1, WFMin
<1>3. \A x, y \in S : ~(<<y, x>> \in Below) => x <= y
  BY DEF Below
<1>. QED
  BY <1>2, <1>3

\* What holds of m, and of each number when it holds of the one before, holds up to n.
LEMMA Reach ==
    ASSUME NEW m \in Nat, NEW n \in Nat, NEW S, m \in S,
           \A i \in m .. n : i # m /\ i - 1 \in S => i \in S
    PROVE  \A i \in m .. n : i \in S
<1>. SUFFICES ASSUME (m .. n) \ S # {} PROVE FALSE
  OBVIOUS
<1>1. PICK x \in (m .. n) \ S : \A y \in (m .. n) \ S : x <= y
  BY Least, (m .. n) \ S \subseteq Nat
<1>2. x \in m .. n /\ x # m /\ x - 1 \in m .. n /\ ~(x <= x - 1)
  OBVIOUS
<1>3. x - 1 \in S
  BY <1>1, <1>2
<1>. QED
  BY <1>2, <1>3

\* A function that is given by its value for 0 and a step, and that there is one.
Computes(n, S, a, G) ==
    \E f \in [0 .. n -> S] : f[0] = a /\ \A i \in 1 .. n : f[i] = G[<<i, f[i - 1]>>]

LEMMA Recursion ==
    ASSUME NEW n \in Nat, NEW S, NEW a \in S, NEW G,
           \A i \in 1 .. n, u \in S : G[<<i, u>>] \in S
    PROVE  Computes(n, S, a, G)
<1>. DEFINE T == {i \in 0 .. n : Computes(i, S, a, G)}
<1>1. 0 \in T
  <2>. DEFINE f == [i \in 0 .. 0 |-> a]
  <2>1. f \in [0 .. 0 -> S] /\ f[0] = a
    OBVIOUS
  <2>. HIDE DEF f
  <2>2. \A j \in 1 .. 0 : f[j] = G[<<j, f[j - 1]>>]
    OBVIOUS
  <2>3. Computes(0, S, a, G)
    BY <2>1, <2>2 DEF Computes
  <2>. QED
    BY <2>3
<1>2. ASSUME NEW i \in 0 .. n, i # 0, i - 1 \in T PROVE i \in T
  <2>1. PICK f \in [0 .. i - 1 -> S] :
           f[0] = a /\ \A j \in 1 .. i - 1 : f[j] = G[<<j, f[j - 1]>>]
    BY <1>2 DEF Computes
  <2>. DEFINE g == [j \in 0 .. i |-> IF j = i THEN G[<<i, f[i - 1]>>] ELSE f[j]]
  <2>2. G[<<i, f[i - 1]>>] \in S /\ i \in Nat /\ 0 \in 0 .. i - 1
    <3>1. i \in 1 .. n /\ i - 1 \in 0 .. i - 1 /\ 0 \in 0 .. i - 1
      BY <1>2
    <3>. QED
      BY <3>1
  <2>3. g \in [0 .. i -> S] /\ g[0] = a
    <3>1. \A j \in 0 .. i : j # i => j \in 0 .. i - 1
      BY <2>2
    <3>. QED
      BY <1>2, <2>1, <2>2, <3>1
  <2>4. ASSUME NEW j \in 1 .. i PROVE g[j] = G[<<j, g[j - 1]>>]
    <3>1. j \in 0 .. i /\ j - 1 \in 0 .. i /\ j - 1 # i /\ (j # i => j \in 1 .. i - 1)
      OBVIOUS
    <3>2. g[j - 1] = f[j - 1] /\ (j # i => g[j] = f[j]) /\ (j = i => g[j] = G[<<i, f[i - 1]>>])
      BY <3>1
    <3>. HIDE DEF g
    <3>. QED
      BY <2>1, <3>1, <3>2
  <2>5. Computes(i, S, a, G)
    BY <2>3, <2>4 DEF Computes
  <2>. QED
    BY <2>5
<1>. HIDE DEF T
<1>3. \A i \in 0 .. n : i \in T
  BY <1>1, <1>2, Reach
<1>. QED
  BY <1>3 DEF T

\* What FlattenSeq makes of a sequence is the last of the sums of its first entries.
HasSums(T, s) ==
    \E f \in [0 .. Len(s) -> Seq(T)] :
        /\ f[0] = <<>> /\ f[Len(s)] = FlattenSeq(s)
        /\ \A i \in 1 .. Len(s) : f[i] = f[i - 1] \o s[i]

LEMMA FlattenSums ==
    ASSUME NEW T, NEW s \in Seq(Seq(T))
    PROVE  HasSums(T, s)
<1>. DEFINE U == Seq(T)
            empty == <<>>
            m == Len(s)
            Sum == [p \in Nat \X U |-> IF p[1] \in 1 .. m THEN p[2] \o s[p[1]] ELSE empty]
<1>0. /\ empty \in U /\ m \in Nat
      /\ \A i \in 1 .. m, u \in U : Sum[<<i, u>>] = u \o s[i] /\ Sum[<<i, u>>] \in U
  <2>1. empty \in U /\ m \in Nat
    OBVIOUS
  <2>2. \A i \in Nat, u \in U : i \in 1 .. m => u \o s[i] \in U
    OBVIOUS
  <2>. HIDE DEF U, empty, m
  <2>3. ASSUME NEW i \in 1 .. m, NEW u \in U
        PROVE  Sum[<<i, u>>] = u \o s[i] /\ Sum[<<i, u>>] \in U
    <3>1. i \in Nat /\ <<i, u>> \in Nat \X U
      BY <2>1
    <3>. QED
      BY <2>2, <3>1
  <2>. QED
    BY <2>1, <2>3
<1>. HIDE DEF U, empty, m, Sum
<1>1. PICK f \in [0 .. m -> U] : f[0] = empty /\ \A i \in 1 .. m : f[i] = Sum[<<i, f[i - 1]>>]
  <2>1. empty \in U /\ m \in Nat /\ \A i \in 1 .. m, u \in U : Sum[<<i, u>>] \in U
    BY <1>0
  <2>2. Computes(m, U, empty, Sum)
    BY ONLY <2>1, Recursion
  <2>. QED
    BY ONLY <2>2 DEF Computes
<1>2. ASSUME NEW i \in 1 .. m PROVE f[i] = f[i - 1] \o s[i]
  <2>1. i - 1 \in 0 .. m
    BY <1>0
  <2>2. f[i - 1] \in U
    BY <2>1
  <2>. QED
    BY <1>0, <1>1, <2>2
<1>. USE <1>1 DEF U, empty, m
<1>3. CASE Len(s) = 0
  <2>1. s = <<>> /\ FlattenSeq(s) = s
    BY <1>3 DEF FlattenSeq
  <2>. QED
    BY <1>1, <1>3, <2>1
<1>4. CASE Len(s) # 0
  <2>. DEFINE sums(g) == [i \in 1 .. Len(s) |-> IF i = 1 THEN s[i] ELSE g[i - 1] \o s[i]]
              h == [i \in 1 .. Len(s) |-> f[i]]
  <2>1. h = sums(h)
    <3>1. f[1] = s[1]
      <4>1. 1 \in 1 .. Len(s) /\ s[1] \in Seq(T) /\ f[1 - 1] = <<>>
        BY <1>4
      <4>2. f[1] = <<>> \o s[1]
        BY <1>2, <4>1
      <4>. QED
        BY <4>1, <4>2
    <3>2. ASSUME NEW i \in 1 .. Len(s) PROVE h[i] = IF i = 1 THEN s[i] ELSE h[i - 1] \o s[i]
      <4>1. i # 1 => i - 1 \in 1 .. Len(s)
        OBVIOUS
      <4>. QED
        BY <1>2, <3>1, <4>1
    <3>. QED
      BY <3>2
  <2>2. FlattenSeq(s) = (CHOOSE g : g = sums(g))[Len(s)]
    BY <1>4 DEF FlattenSeq
  <2>3. ASSUME NEW g, g = sums(g) PROVE g[Len(s)] = f[Len(s)]
    <3>. DEFINE S == {i \in 1 .. Len(s) : g[i] = f[i]}
    <3>0. \A i \in 1 .. Len(s) : g[i] = IF i = 1 THEN s[i] ELSE g[i - 1] \o s[i]
      BY <2>3
    <3>1. 1 \in S
      <4>1. 1 \in 1 .. Len(s) /\ s[1] \in Seq(T) /\ f[1 - 1] = <<>>
        BY <1>4
      <4>2. g[1] = s[1] /\ f[1] = <<>> \o s[1]
        BY <1>2, <3>0, <4>1
      <4>. QED
        BY <4>1, <4>2
    <3>2. ASSUME NEW i \in 1 .. Len(s), i # 1, i - 1 \in S PROVE i \in S
      <4>1. i \in 1 .. Len(s) /\ i # 1 /\ g[i - 1] = f[i - 1]
        BY <3>2
      <4>. QED
        BY <1>2, <3>0, <4>1
    <3>. HIDE DEF S
    <3>3. Len(s) \in 1 .. Len(s) /\ Len(s) \in Nat
      BY <1>4
    <3>4. Len(s) \in S
      BY <3>1, <3>2, <3>3, Reach
    <3>. QED
      BY <3>4 DEF S
  <2>4. (CHOOSE g : g = sums(g)) = sums(CHOOSE g : g = sums(g))
    <3>. HIDE DEF h, sums
    <3>. QED
      BY <2>1
  <2>5. FlattenSeq(s) = f[Len(s)]
    <3>. HIDE DEF h, sums
    <3>. QED
      BY <2>2, <2>3, <2>4
  <2>. QED
    BY <1>2, <2>5 DEF HasSums
<1>. QED
  BY <1>3, <1>4 DEF HasSums

\* What is changed at one place, and empty after it, is longer by what stands there.
LEMMA FlattenGrows ==
    ASSUME NEW T, NEW s \in Seq(Seq(T)), NEW r \in Seq(Seq(T)), NEW p \in 1 .. Len(r),
           p - 1 <= Len(s), Len(s) <= Len(r),
           \A i \in 1 .. p - 1 : r[i] = s[i],
           \A i \in p .. Len(s) : s[i] = <<>>,
           \A i \in p + 1 .. Len(r) : r[i] = <<>>
    PROVE  FlattenSeq(r) = FlattenSeq(s) \o r[p]
<1>. DEFINE m == Len(s)
            n == Len(r)
            U == Seq(T)
<1>1. /\ m \in Nat /\ n \in Nat /\ p \in Nat /\ p - 1 \in Nat /\ m <= n /\ p <= n /\ 1 <= p
      /\ \A i \in 1 .. m : s[i] \in U
      /\ \A i \in 1 .. n : r[i] \in U
      /\ \A u \in U : u \o <<>> = u
  OBVIOUS
<1>2. PICK f \in [0 .. m -> U] :
         f[0] = <<>> /\ f[m] = FlattenSeq(s) /\ \A i \in 1 .. m : f[i] = f[i - 1] \o s[i]
  <2>1. HasSums(T, s)
    BY FlattenSums
  <2>. QED
    BY ONLY <2>1 DEF HasSums
<1>3. PICK g \in [0 .. n -> U] :
         g[0] = <<>> /\ g[n] = FlattenSeq(r) /\ \A i \in 1 .. n : g[i] = g[i - 1] \o r[i]
  <2>1. HasSums(T, r)
    BY FlattenSums
  <2>. QED
    BY ONLY <2>1 DEF HasSums
<1>. HIDE DEF m, n, U
<1>4. f[p - 1] = g[p - 1]
  <2>. DEFINE S == {i \in 0 .. p - 1 : f[i] = g[i]}
  <2>1. 0 \in S
    BY <1>1, <1>2, <1>3
  <2>2. ASSUME NEW i \in 0 .. p - 1, i # 0, i - 1 \in S PROVE i \in S
    <3>1. i \in 1 .. m /\ i \in 1 .. n /\ i \in 0 .. p - 1 /\ f[i - 1] = g[i - 1]
      BY <1>1, <2>2 DEF m
    <3>2. r[i] = s[i]
      <4>1. i \in 1 .. p - 1
        BY <2>2, <3>1
      <4>. QED
        BY <4>1
    <3>. QED
      BY <1>2, <1>3, <3>1, <3>2
  <2>. HIDE DEF S
  <2>3. p - 1 \in Nat /\ p - 1 \in 0 .. p - 1
    BY <1>1
  <2>4. p - 1 \in S
    BY ONLY <2>1, <2>2, <2>3, Reach
  <2>. QED
    BY <2>4 DEF S
<1>5. f[m] = f[p - 1]
  <2>. DEFINE S == {i \in p - 1 .. m : f[i] = f[p - 1]}
  <2>1. p - 1 \in S /\ m \in p - 1 .. m
    BY <1>1 DEF m
  <2>2. ASSUME NEW i \in p - 1 .. m, i # p - 1, i - 1 \in S PROVE i \in S
    <3>1. i \in 1 .. m /\ i \in p .. m /\ i - 1 \in 0 .. m /\ f[i - 1] = f[p - 1]
      BY <1>1, <2>2
    <3>2. s[i] = <<>>
      BY <3>1 DEF m
    <3>3. f[i] = f[i - 1] \o <<>> /\ f[i - 1] \in U
      BY <1>2, <3>1, <3>2
    <3>4. f[i] = f[p - 1]
      BY <1>1, <3>1, <3>3
    <3>. QED
      BY <1>1, <3>1, <3>4
  <2>. HIDE DEF S
  <2>3. m \in S
    BY <1>1, <2>1, <2>2, Reach
  <2>. QED
    BY <2>3 DEF S
<1>6. g[n] = g[p]
  <2>. DEFINE S == {i \in p .. n : g[i] = g[p]}
  <2>1. p \in S /\ n \in p .. n
    BY <1>1
  <2>2. ASSUME NEW i \in p .. n, i # p, i - 1 \in S PROVE i \in S
    <3>1. i \in 1 .. n /\ i - 1 \in 0 .. n /\ g[i - 1] = g[p]
      BY <1>1, <2>2
    <3>2. r[i] = <<>>
      <4>1. i \in p + 1 .. n
        BY <1>1, <2>2
      <4>. QED
        BY <4>1 DEF n
    <3>3. g[i] = g[i - 1] \o <<>> /\ g[i - 1] \in U
      BY <1>3, <3>1, <3>2
    <3>4. g[i] = g[p]
      BY <1>1, <3>1, <3>3
    <3>. QED
      BY <1>1, <3>1, <3>4
  <2>. HIDE DEF S
  <2>3. n \in S
    BY <1>1, <2>1, <2>2, Reach
  <2>. QED
    BY <2>3 DEF S
<1>7. g[p] = g[p - 1] \o r[p]
  <2>1. p \in 1 .. n
    BY <1>1
  <2>. QED
    BY ONLY <1>3, <2>1
<1>. QED
  BY <1>2, <1>3, <1>4, <1>5, <1>6, <1>7

LEMMA FlattenEmpty ==
    ASSUME NEW T, NEW s \in Seq(Seq(T)), \A i \in 1 .. Len(s) : s[i] = <<>>
    PROVE  FlattenSeq(s) = <<>>
<1>. DEFINE n == Len(s)
            U == Seq(T)
<1>1. n \in Nat /\ <<>> \o <<>> = <<>>
  OBVIOUS
<1>2. PICK f \in [0 .. n -> U] :
         f[0] = <<>> /\ f[n] = FlattenSeq(s) /\ \A i \in 1 .. n : f[i] = f[i - 1] \o s[i]
  <2>1. HasSums(T, s)
    BY FlattenSums
  <2>. QED
    BY ONLY <2>1 DEF HasSums
<1>. DEFINE S == {i \in 0 .. n : f[i] = <<>>}
<1>3. 0 \in S
  BY <1>1, <1>2
<1>4. ASSUME NEW i \in 0 .. n, i # 0, i - 1 \in S PROVE i \in S
  <2>1. i \in 1 .. n /\ f[i - 1] = <<>> /\ s[i] = <<>>
    BY <1>1, <1>4
  <2>2. f[i] = <<>> \o <<>>
    BY <1>2, <2>1
  <2>. QED
    BY <1>1, <2>1, <2>2
<1>. HIDE DEF S, n
<1>5. n \in S
  <2>1. n \in 0 .. n
    BY <1>1
  <2>. QED
    BY ONLY <1>1, <1>3, <1>4, <2>1, Reach
<1>. QED
  BY <1>2, <1>5 DEF S

LEMMA FlattenType ==
    ASSUME NEW T, NEW s \in Seq(Seq(T))
    PROVE  FlattenSeq(s) \in Seq(T)
<1>1. Len(s) \in 0 .. Len(s)
  OBVIOUS
<1>2. HasSums(T, s)
  BY FlattenSums
<1>. QED
  BY ONLY <1>1, <1>2 DEF HasSums
-----------------------------------------------------------------------------
\* What Fits says of a value, with what it says of one level less.
Suits(tables, g, v) ==
    \/ v = "atom"
    \/ /\ v \in Table
       /\ Uniform(tables[v])
       /\ \A k \in DOMAIN tables[v] : g[tables[v][k]]

LEMMA FitsUnfold ==
    ASSUME NEW tables
    PROVE  Fits(tables) =
              CHOOSE g : g = [n \in 0 .. MaxDepth + 1 |->
                               [v \in Value |-> n > 0 /\ Suits(tables, g[n - 1], v)]]
BY DEF Fits, Suits

\* Fits is what its definition says, for every value and every number of levels.
LEMMA FitsIs ==
    ASSUME NEW tables, NEW levels \in 0 .. MaxDepth + 1, NEW v \in Value
    PROVE  Fits(tables)[levels][v] <=> levels > 0 /\ Suits(tables, Fits(tables)[levels - 1], v)
<1>. DEFINE S == [Value -> BOOLEAN]
            none == [w \in Value |-> FALSE]
            G == [p \in Nat \X S |-> [w \in Value |-> Suits(tables, p[2], w)]]
            Def(g) == [n \in 0 .. MaxDepth + 1 |->
                          [w \in Value |-> n > 0 /\ Suits(tables, g[n - 1], w)]]
<1>1. MaxDepth + 1 \in Nat /\ none \in S
  BY LuaContextAssumption
<1>2. ASSUME NEW n \in 1 .. MaxDepth + 1, NEW g \in S
      PROVE  G[<<n, g>>] = [w \in Value |-> Suits(tables, g, w)] /\ G[<<n, g>>] \in S
  <2>1. n \in Nat
    BY <1>1
  <2>2. G[<<n, g>>] = [w \in Value |-> Suits(tables, g, w)]
    BY <2>1
  <2>3. \A w \in Value : Suits(tables, g, w) \in BOOLEAN
    BY Zenon DEF Suits
  <2>. QED
    BY <2>2, <2>3
<1>. HIDE DEF G, S
<1>3. Computes(MaxDepth + 1, S, none, G)
  BY <1>1, <1>2, Recursion
<1>4. PICK f \in [0 .. MaxDepth + 1 -> S] :
          f[0] = none /\ \A n \in 1 .. MaxDepth + 1 : f[n] = G[<<n, f[n - 1]>>]
  BY ONLY <1>3 DEF Computes
<1>5. f = Def(f)
  <2>1. ASSUME NEW n \in 0 .. MaxDepth + 1
        PROVE  f[n] = [w \in Value |-> n > 0 /\ Suits(tables, f[n - 1], w)]
    <3>1. CASE n = 0
      BY <1>4, <3>1, ~(n > 0)
    <3>2. CASE n # 0
      <4>1. n \in 1 .. MaxDepth + 1 /\ n - 1 \in 0 .. MaxDepth + 1 /\ n > 0
        BY <1>1, <3>2
      <4>2. f[n] = [w \in Value |-> Suits(tables, f[n - 1], w)]
        BY <1>2, <1>4, <4>1
      <4>3. ASSUME NEW w \in Value
            PROVE  Suits(tables, f[n - 1], w) = (n > 0 /\ Suits(tables, f[n - 1], w))
        BY <4>1, Zenon DEF Suits
      <4>. QED
        BY <4>2, <4>3
    <3>. QED
      BY <3>1, <3>2
  <2>. QED
    BY <2>1
<1>6. Fits(tables) =
        CHOOSE g : g = [n \in 0 .. MaxDepth + 1 |->
                           [w \in Value |-> n > 0 /\ Suits(tables, g[n - 1], w)]]
  BY FitsUnfold
<1>7. Fits(tables) = Def(Fits(tables))
  <2>1. Fits(tables) = CHOOSE g : g = Def(g)
    BY <1>6
  <2>. HIDE DEF Def
  <2>. QED
    BY <1>5, <2>1
<1>8. Fits(tables)[levels] =
          [w \in Value |-> levels > 0 /\ Suits(tables, Fits(tables)[levels - 1], w)]
  BY ONLY <1>7
<1>9. Fits(tables)[levels][v] = (levels > 0 /\ Suits(tables, Fits(tables)[levels - 1], v))
  BY ONLY <1>8
<1>. QED
  BY <1>9
-----------------------------------------------------------------------------
\* The last of finitely many naturals.
LEMMA FiniteMax ==
    ASSUME NEW S, S \subseteq Nat, S # {}, IsFiniteSet(S)
    PROVE  Max(S) \in S /\ \A y \in S : y <= Max(S)
<1>. DEFINE n == Cardinality(S)
            Bounds == {b \in Nat : \A y \in S : y <= b}
<1>1. n \in Nat /\ \E f : f \in Bijection(1 .. n, S)
  BY FS_CardinalityType DEF ExistsBijection
<1>2. PICK f \in [1 .. n -> S] : \A y \in S : \E i \in 1 .. n : f[i] = y
  <2>1. PICK f \in Bijection(1 .. n, S) : TRUE
    BY <1>1
  <2>2. f \in Surjection(1 .. n, S)
    BY <2>1 DEF Bijection
  <2>. QED
    BY <2>2 DEF Surjection
<1>. HIDE DEF n
<1>. DEFINE T == {i \in 0 .. n : \E b \in Nat : \A j \in 1 .. i : f[j] <= b}
<1>3. 0 \in T
  <2>1. \A j \in 1 .. 0 : f[j] <= 0
    OBVIOUS
  <2>. QED
    BY <1>1, <2>1
<1>4. ASSUME NEW i \in 0 .. n, i # 0, i - 1 \in T PROVE i \in T
  <2>1. PICK b \in Nat : \A j \in 1 .. i - 1 : f[j] <= b
    BY <1>4
  <2>2. i \in 1 .. n /\ f[i] \in Nat
    <3>1. i \in 1 .. n
      BY <1>1, <1>4
    <3>2. f[i] \in S
      BY <3>1
    <3>. QED
      BY <3>1, <3>2
  <2>3. PICK d \in Nat : b <= d /\ f[i] <= d
    BY <2>2
  <2>4. ASSUME NEW j \in 1 .. i PROVE f[j] <= d
    <3>1. j \in 1 .. n /\ (j # i => j \in 1 .. i - 1)
      BY <1>1, <2>2
    <3>2. f[j] \in S
      BY <3>1
    <3>3. f[j] \in Nat
      BY <3>2
    <3>. QED
      BY <2>1, <2>3, <3>1, <3>3
  <2>. QED
    BY <2>4
<1>. HIDE DEF T
<1>5. n \in T
  <2>1. n \in 0 .. n
    BY <1>1
  <2>. QED
    BY ONLY <1>1, <1>3, <1>4, <2>1, Reach
<1>6. Bounds # {}
  <2>1. PICK b \in Nat : \A j \in 1 .. n : f[j] <= b
    BY <1>5 DEF T
  <2>. QED
    BY <1>2, <2>1
<1>7. PICK m \in Bounds : \A b \in Bounds : m <= b
  BY <1>6, Least
<1>8. m \in S
  <2>. SUFFICES ASSUME m \notin S PROVE FALSE
    OBVIOUS
  <2>1. \A y \in S : y \in Nat /\ y <= m /\ y # m
    OBVIOUS
  <2>2. m - 1 \in Nat
    <3>1. PICK y \in S : TRUE
      OBVIOUS
    <3>2. y \in Nat /\ m \in Nat /\ y <= m /\ y # m
      BY <2>1
    <3>. QED
      BY ONLY <3>2
  <2>3. m - 1 \in Bounds
    BY <2>1, <2>2
  <2>. QED
    BY <1>7, <2>2, <2>3
<1>9. \E x \in S : \A y \in S : x >= y
  BY <1>8
<1>10. Max(S) \in S /\ \A y \in S : Max(S) >= y
  BY <1>9 DEF Max
<1>. QED
  BY <1>10

LEMMA ImageIsFinite ==
    ASSUME NEW D, IsFiniteSet(D)
    PROVE  IsFiniteSet({k.n : k \in D})
<1>. DEFINE f == [k \in D |-> k.n]
<1>1. f \in Surjection(D, {k.n : k \in D})
  BY DEF Surjection
<1>. QED
  BY <1>1, FS_Surjection

\* The largest number of a key of a table.
Key == [kind : {"index", "name", "other"}, n : Nat \ {0}]
Largest(c) == Max({0} \cup {k.n : k \in DOMAIN c})

LEMMA LargestIs ==
    ASSUME NEW c \in Contents
    PROVE  Largest(c) \in Nat /\ \A k \in DOMAIN c : k.n \in 1 .. Largest(c)
<1>. DEFINE S == {0} \cup {k.n : k \in DOMAIN c}
<1>1. IsFiniteSet(DOMAIN c) /\ \A k \in DOMAIN c : k \in Key
  BY ContentsAssumption DEF Key
<1>2. IsFiniteSet(S)
  BY <1>1, ImageIsFinite, FS_Singleton, FS_Union
<1>3. S \subseteq Nat /\ S # {} /\ \A k \in DOMAIN c : k.n \in S /\ k.n \in Nat \ {0}
  BY <1>1 DEF Key
<1>4. Max(S) \in S /\ \A y \in S : y <= Max(S)
  BY ONLY <1>2, <1>3, FiniteMax
<1>5. Largest(c) = Max(S)
  BY DEF Largest
<1>. HIDE DEF S
<1>6. Max(S) \in Nat
  BY <1>3, <1>4
<1>7. ASSUME NEW k \in DOMAIN c PROVE k.n \in 1 .. Max(S)
  BY <1>3, <1>4, <1>6
<1>. QED
  BY <1>5, <1>6, <1>7
-----------------------------------------------------------------------------
\* The tokens of a text, and the entries of a table under some of its keys.
Token == [t : {"atom", "name", "[", "]", "{", "}"}, n : Nat]
Texts == Seq(Token)
Label(k) == IF k.kind = "name" THEN <<[t |-> "name", n |-> k.n]>> ELSE <<>>
Piece(c, ks, g, n) ==
    IF \E k \in ks : k.n = n THEN Entry(c, CHOOSE k \in ks : k.n = n, g) ELSE <<>>
Pieces(c, ks, g) == [n \in 1 .. Largest(c) |-> Piece(c, ks, g, n)]

LEMMA EntryType ==
    ASSUME NEW c \in Contents, NEW k \in DOMAIN c, NEW g \in [Value -> Texts]
    PROVE  /\ Label(k) \in Texts /\ g[c[k]] \in Texts /\ Entry(c, k, g) \in Texts
           /\ Entry(c, k, g) = Label(k) \o g[c[k]]
<1>1. c[k] \in Value /\ k \in Key
  BY ContentsAssumption DEF Key
<1>2. Label(k) \in Texts
  <2>1. [t |-> "name", n |-> k.n] \in Token /\ <<>> \in Seq(Token)
    BY <1>1 DEF Token, Key
  <2>. HIDE DEF Token
  <2>. QED
    BY <2>1 DEF Label, Texts
<1>3. g[c[k]] \in Texts
  BY <1>1
<1>4. Entry(c, k, g) = Label(k) \o g[c[k]]
  BY DEF Entry, Label
<1>5. \A u, w \in Texts : u \o w \in Texts
  BY DEF Texts
<1>. QED
  BY <1>2, <1>3, <1>4, <1>5

LEMMA PiecesType ==
    ASSUME NEW c \in Contents, NEW ks \in SUBSET DOMAIN c, NEW g \in [Value -> Texts]
    PROVE  /\ Pieces(c, ks, g) \in Seq(Texts) /\ Len(Pieces(c, ks, g)) = Largest(c)
           /\ \A n \in 1 .. Largest(c) : Pieces(c, ks, g)[n] = Piece(c, ks, g, n)
           /\ Entries(c, ks, g) = FlattenSeq(Pieces(c, ks, g)) /\ Entries(c, ks, g) \in Texts
<1>1. Largest(c) \in Nat
  BY LargestIs
<1>2. ASSUME NEW n PROVE Piece(c, ks, g, n) \in Texts
  <2>1. CASE \E k \in ks : k.n = n
    <3>. DEFINE k == CHOOSE k \in ks : k.n = n
    <3>1. k \in DOMAIN c
      BY <2>1
    <3>2. Piece(c, ks, g, n) = Entry(c, k, g)
      BY <2>1 DEF Piece
    <3>. HIDE DEF k
    <3>. QED
      BY <3>1, <3>2, EntryType
  <2>2. CASE ~\E k \in ks : k.n = n
    BY <2>2 DEF Piece, Texts
  <2>. QED
    BY <2>1, <2>2
<1>3. Pieces(c, ks, g) \in [1 .. Largest(c) -> Texts]
  BY <1>2 DEF Pieces
<1>4. /\ Pieces(c, ks, g) \in Seq(Texts) /\ Len(Pieces(c, ks, g)) = Largest(c)
      /\ \A n \in 1 .. Largest(c) : Pieces(c, ks, g)[n] = Piece(c, ks, g, n)
  BY <1>1, <1>3 DEF Pieces
<1>5. Entries(c, ks, g) = FlattenSeq(Pieces(c, ks, g))
  BY DEF Entries, Pieces, Piece, Largest
<1>6. Entries(c, ks, g) \in Texts
  BY <1>4, <1>5, FlattenType DEF Texts
<1>. QED
  BY <1>4, <1>5, <1>6

\* A later entry comes after the others.
LEMMA EntriesGrow ==
    ASSUME NEW c \in Contents, NEW ks \in SUBSET DOMAIN c, NEW g \in [Value -> Texts],
           NEW k \in DOMAIN c, \A j \in ks : j.n < k.n
    PROVE  Entries(c, ks \cup {k}, g) = Entries(c, ks, g) \o Entry(c, k, g)
<1>. DEFINE s == Pieces(c, ks, g)
            r == Pieces(c, ks \cup {k}, g)
            N == Largest(c)
            p == k.n
<1>1. /\ N \in Nat /\ p \in 1 .. N /\ \A j \in ks : j.n \in 1 .. N
  BY LargestIs
<1>2. /\ s \in Seq(Texts) /\ r \in Seq(Texts) /\ Len(s) = N /\ Len(r) = N
      /\ \A n \in 1 .. N : s[n] = Piece(c, ks, g, n)
      /\ \A n \in 1 .. N : r[n] = Piece(c, ks \cup {k}, g, n)
      /\ Entries(c, ks \cup {k}, g) = FlattenSeq(r) /\ Entries(c, ks, g) = FlattenSeq(s)
  BY PiecesType
<1>3. ASSUME NEW n \in 1 .. N, n < p PROVE r[n] = s[n]
  <2>1. k.n # n
    BY <1>1, <1>3
  <2>2. {j \in ks \cup {k} : j.n = n} = {j \in ks : j.n = n}
    BY <2>1
  <2>3. (CHOOSE j \in ks \cup {k} : j.n = n) = (CHOOSE j \in ks : j.n = n)
    <3>1. \A j : (j \in ks \cup {k} /\ j.n = n) <=> (j \in ks /\ j.n = n)
      BY <2>2
    <3>. QED
      BY <3>1
  <2>4. (\E j \in ks \cup {k} : j.n = n) <=> (\E j \in ks : j.n = n)
    BY <2>1
  <2>5. Piece(c, ks \cup {k}, g, n) = Piece(c, ks, g, n)
    BY <2>3, <2>4 DEF Piece
  <2>. QED
    BY <1>2, <2>5
<1>4. ASSUME NEW n \in 1 .. N, p <= n PROVE s[n] = <<>>
  <2>1. ~\E j \in ks : j.n = n
    BY <1>1, <1>4
  <2>. QED
    BY <1>2, <2>1 DEF Piece
<1>5. ASSUME NEW n \in 1 .. N, p < n PROVE r[n] = <<>>
  <2>1. ~\E j \in ks \cup {k} : j.n = n
    BY <1>1, <1>5
  <2>. QED
    BY <1>2, <2>1 DEF Piece
<1>6. r[p] = Entry(c, k, g)
  <2>1. \A j \in ks \cup {k} : j.n = p => j = k
    BY <1>1
  <2>2. (CHOOSE j \in ks \cup {k} : j.n = p) = k
    BY <2>1
  <2>. QED
    BY <1>1, <1>2, <2>2 DEF Piece
<1>. HIDE DEF s, r, N, p
<1>7. /\ p \in 1 .. Len(r) /\ p - 1 <= Len(s) /\ Len(s) <= Len(r)
      /\ \A i \in 1 .. p - 1 : r[i] = s[i]
      /\ \A i \in p .. Len(s) : s[i] = <<>>
      /\ \A i \in p + 1 .. Len(r) : r[i] = <<>>
  BY <1>1, <1>2, <1>3, <1>4, <1>5
<1>8. FlattenSeq(r) = FlattenSeq(s) \o r[p]
  <2>1. s \in Seq(Seq(Token)) /\ r \in Seq(Seq(Token))
    BY <1>2 DEF Texts
  <2>. HIDE DEF Token
  <2>. QED
    BY ONLY <1>7, <2>1, FlattenGrows
<1>. QED
  BY <1>2, <1>6, <1>8

LEMMA NoEntries ==
    ASSUME NEW c \in Contents, NEW g \in [Value -> Texts]
    PROVE  Entries(c, {}, g) = <<>>
<1>. DEFINE s == Pieces(c, {}, g)
<1>1. s \in Seq(Texts) /\ \A n \in 1 .. Len(s) : s[n] = <<>>
  <2>1. /\ s \in Seq(Texts) /\ Len(s) = Largest(c)
        /\ \A n \in 1 .. Largest(c) : s[n] = Piece(c, {}, g, n)
    BY PiecesType
  <2>2. \A n : Piece(c, {}, g, n) = <<>>
    BY Zenon DEF Piece
  <2>. HIDE DEF s
  <2>. QED
    BY <2>1, <2>2
<1>2. Entries(c, {}, g) = FlattenSeq(s)
  BY PiecesType
<1>. HIDE DEF s
<1>. QED
  BY <1>1, <1>2, FlattenEmpty DEF Texts

-----------------------------------------------------------------------------
\* What Text says of a value, with what it says of one level less.
Written(tables, g, v) ==
    IF v \notin Table THEN <<[t |-> "atom", n |-> 0]>>
    ELSE <<Open(tables[v])>>
         \o Entries(tables[v], DOMAIN tables[v], g)
         \o <<Close(tables[v])>>

LEMMA TextUnfold ==
    ASSUME NEW tables
    PROVE  Text(tables) =
              CHOOSE g : g = [n \in 0 .. MaxDepth + 1 |->
                               [v \in Value |-> IF n = 0 THEN <<>>
                                                ELSE Written(tables, g[n - 1], v)]]
BY DEF Text, Written

LEMMA WrittenType ==
    ASSUME NEW tables \in [Table -> Contents], NEW g \in [Value -> Texts], NEW v \in Value
    PROVE  Written(tables, g, v) \in Texts
<1>1. /\ \A a \in Token : <<a>> \in Texts
      /\ \A u, w \in Texts : u \o w \in Texts
  <2>. HIDE DEF Token
  <2>. QED
    BY DEF Texts
<1>2. CASE v \notin Table
  <2>1. [t |-> "atom", n |-> 0] \in Token
    BY DEF Token
  <2>. QED
    BY <1>1, <1>2, <2>1 DEF Written
<1>3. CASE v \in Table
  <2>1. Open(tables[v]) \in Token /\ Close(tables[v]) \in Token
    BY DEF Open, Close, Token
  <2>2. tables[v] \in Contents
    BY <1>3
  <2>3. Entries(tables[v], DOMAIN tables[v], g) \in Texts
    BY <2>2, PiecesType
  <2>. QED
    BY <1>1, <1>3, <2>1, <2>3 DEF Written
<1>. QED
  BY <1>2, <1>3

\* Text is what its definition says.
LEMMA TextIs ==
    ASSUME NEW tables \in [Table -> Contents]
    PROVE  /\ \A n \in 0 .. MaxDepth + 1 : Text(tables)[n] \in [Value -> Texts]
           /\ \A n \in 1 .. MaxDepth + 1, v \in Value :
                 Text(tables)[n][v] = Written(tables, Text(tables)[n - 1], v)
<1>. DEFINE S == [Value -> Texts]
            none == [w \in Value |-> <<>>]
            G == [p \in Nat \X S |-> [w \in Value |-> Written(tables, p[2], w)]]
            Def(g) == [n \in 0 .. MaxDepth + 1 |->
                          [v \in Value |-> IF n = 0 THEN <<>> ELSE Written(tables, g[n - 1], v)]]
<1>1. MaxDepth + 1 \in Nat /\ none \in S
  BY LuaContextAssumption DEF Texts
<1>2. ASSUME NEW n \in 1 .. MaxDepth + 1, NEW g \in S
      PROVE  G[<<n, g>>] = [w \in Value |-> Written(tables, g, w)] /\ G[<<n, g>>] \in S
  <2>1. n \in Nat
    BY <1>1
  <2>2. G[<<n, g>>] = [w \in Value |-> Written(tables, g, w)]
    BY <2>1
  <2>3. \A w \in Value : Written(tables, g, w) \in Texts
    BY WrittenType
  <2>. QED
    BY <2>2, <2>3
<1>. HIDE DEF G, S
<1>3. Computes(MaxDepth + 1, S, none, G)
  BY <1>1, <1>2, Recursion
<1>4. PICK f \in [0 .. MaxDepth + 1 -> S] :
          f[0] = none /\ \A n \in 1 .. MaxDepth + 1 : f[n] = G[<<n, f[n - 1]>>]
  BY ONLY <1>3 DEF Computes
<1>5. f = Def(f)
  <2>1. ASSUME NEW n \in 0 .. MaxDepth + 1
        PROVE  f[n] = [v \in Value |-> IF n = 0 THEN <<>> ELSE Written(tables, f[n - 1], v)]
    <3>1. CASE n = 0
      BY <1>4, <3>1
    <3>2. CASE n # 0
      <4>1. n \in 1 .. MaxDepth + 1 /\ n - 1 \in 0 .. MaxDepth + 1
        BY <1>1, <3>2
      <4>2. f[n] = [w \in Value |-> Written(tables, f[n - 1], w)]
        BY <1>2, <1>4, <4>1
      <4>. QED
        BY <3>2, <4>2
    <3>. QED
      BY <3>1, <3>2
  <2>. QED
    BY <2>1
<1>. DEFINE text == CHOOSE g : g = Def(g)
<1>6. text = Def(text)
  <2>. HIDE DEF Def
  <2>. QED
    BY <1>5
<1>7. Text(tables) = text
  BY TextUnfold
<1>. HIDE DEF text
<1>8. ASSUME NEW n \in 1 .. MaxDepth + 1, NEW v \in Value
      PROVE  text[n][v] = Written(tables, text[n - 1], v)
  <2>1. n \in 0 .. MaxDepth + 1 /\ n # 0
    BY <1>1
  <2>2. text[n] = [w \in Value |-> IF n = 0 THEN <<>> ELSE Written(tables, text[n - 1], w)]
    BY ONLY <1>6, <2>1
  <2>. QED
    BY ONLY <2>1, <2>2, v \in Value
<1>. DEFINE T == {n \in 0 .. MaxDepth + 1 : text[n] = f[n]}
<1>9. 0 \in T
  <2>1. 0 \in 0 .. MaxDepth + 1
    BY <1>1
  <2>2. text[0] = [v \in Value |-> <<>>]
    BY ONLY <1>6, <2>1
  <2>. QED
    BY <1>4, <2>1, <2>2
<1>10. ASSUME NEW n \in 0 .. MaxDepth + 1, n # 0, n - 1 \in T PROVE n \in T
  <2>1. n \in 1 .. MaxDepth + 1
    BY <1>1, <1>10
  <2>2. text[n] = Def(text)[n] /\ f[n] = Def(f)[n]
    <3>. HIDE DEF Def
    <3>. QED
      BY <1>5, <1>6
  <2>3. Def(text)[n] = [v \in Value |-> IF n = 0 THEN <<>> ELSE Written(tables, text[n - 1], v)]
    BY ONLY n \in 0 .. MaxDepth + 1
  <2>4. Def(f)[n] = [v \in Value |-> IF n = 0 THEN <<>> ELSE Written(tables, f[n - 1], v)]
    BY ONLY n \in 0 .. MaxDepth + 1
  <2>. HIDE DEF Def
  <2>. QED
    BY <1>10, <2>2, <2>3, <2>4
<1>. HIDE DEF T
<1>11. \A n \in 0 .. MaxDepth + 1 : n \in T
  BY ONLY <1>1, <1>9, <1>10, Reach
<1>12. \A n \in 0 .. MaxDepth + 1 : text[n] \in S
  BY <1>11 DEF T
<1>. QED
  BY <1>7, <1>8, <1>12 DEF S
-----------------------------------------------------------------------------
(***************************************************************************)
(* What the code calls an array, by counting its keys, are the indexes     *)
(* from 1 on: the test for gaps after it never fails.                      *)
(***************************************************************************)
LEMMA IndexesFromOne ==
    ASSUME NEW t \in Table, heap[t] \in Contents
    PROVE  /\ IsArray(t) /\ Keys(t, "other") = {} =>
                 \E n \in 0 .. Cardinality(DOMAIN heap[t]) :
                    DOMAIN heap[t] = {[kind |-> "index", n |-> i] : i \in 1 .. n}
           /\ \A n \in Nat : DOMAIN heap[t] = {[kind |-> "index", n |-> i] : i \in 1 .. n}
                 => IsArray(t)
<1>. DEFINE D == DOMAIN heap[t]
            I == Keys(t, "index")
            N == {k.n : k \in I}
            f == [k \in I |-> k.n]
            M == Max({0} \cup N)
<1>1. IsFiniteSet(D) /\ \A k \in D : k \in Key
  BY ContentsAssumption DEF Key
<1>2. I \subseteq D /\ IsFiniteSet(I) /\ Cardinality(I) \in Nat
  BY <1>1, FS_Subset, FS_CardinalityType DEF Keys
<1>3. IsFiniteSet(N) /\ Cardinality(N) = Cardinality(I)
  <2>1. f \in Surjection(I, N)
    BY DEF Surjection
  <2>2. \A j, k \in I : j.n = k.n => j = k
    BY <1>1 DEF Keys, Key
  <2>3. f \in Injection(I, N)
    BY <2>1, <2>2 DEF Injection, Surjection, IsInjective
  <2>. HIDE DEF f, I, N
  <2>. QED
    BY <1>2, <2>1, <2>3, FS_Surjection
<1>4. N \subseteq Nat \ {0}
  BY <1>1, <1>2 DEF Key
<1>5. M \in {0} \cup N /\ \A y \in {0} \cup N : y <= M
  <2>1. {0} \cup N \subseteq Nat /\ {0} \cup N # {}
    BY <1>4
  <2>2. IsFiniteSet({0} \cup N)
    BY <1>3, FS_Singleton, FS_Union
  <2>. HIDE DEF N
  <2>. QED
    BY <2>1, <2>2, FiniteMax
<1>6. IsArray(t) <=> Keys(t, "name") = {} /\ Cardinality(N) = M
  BY <1>3 DEF IsArray
<1>7. M \in Nat
  BY <1>4, <1>5
<1>8. ASSUME IsArray(t), Keys(t, "other") = {}
      PROVE  \E n \in 0 .. Cardinality(D) : D = {[kind |-> "index", n |-> i] : i \in 1 .. n}
  <2>1. D = I
    BY <1>1, <1>6, <1>8 DEF Keys, Key
  <2>2. Cardinality(N) = M /\ Cardinality(D) = M
    BY <1>3, <1>6, <1>8, <2>1
  <2>. HIDE DEF M
  <2>3. N = 1 .. M
    <3>1. N \subseteq 1 .. M
      BY <1>4, <1>5, <1>7
    <3>2. IsFiniteSet(1 .. M) /\ Cardinality(1 .. M) = M
      BY <1>7, FS_Interval
    <3>. HIDE DEF N
    <3>. QED
      BY <2>2, <3>1, <3>2, FS_Subset
  <2>4. ASSUME NEW k \in I PROVE k = [kind |-> "index", n |-> k.n] /\ k.n \in 1 .. M
    BY <1>1, <1>2, <2>3 DEF Keys, Key
  <2>5. ASSUME NEW i \in 1 .. M PROVE [kind |-> "index", n |-> i] \in I
    <3>1. PICK k \in I : k.n = i
      BY <2>3
    <3>. QED
      BY <2>4, <3>1
  <2>6. D = {[kind |-> "index", n |-> i] : i \in 1 .. M}
    <3>. HIDE DEF I, D
    <3>. QED
      BY <2>1, <2>4, <2>5
  <2>7. M \in 0 .. Cardinality(D)
    BY <1>7, <2>2
  <2>. QED
    BY <2>6, <2>7
<1>9. ASSUME NEW n \in Nat, D = {[kind |-> "index", n |-> i] : i \in 1 .. n} PROVE IsArray(t)
  <2>1. /\ \A k \in D : k.kind = "index" /\ k.n \in 1 .. n
        /\ \A i \in 1 .. n : \E k \in D : k.kind = "index" /\ k.n = i
    <3>1. \A i \in 1 .. n : /\ [kind |-> "index", n |-> i].kind = "index"
                            /\ [kind |-> "index", n |-> i].n = i
                            /\ [kind |-> "index", n |-> i] \in D
      BY <1>9
    <3>. HIDE DEF D
    <3>. QED
      BY <1>9, <3>1
  <2>2. Keys(t, "name") = {} /\ N = 1 .. n
    BY <2>1 DEF Keys
  <2>3. Cardinality(N) = n
    <3>1. Cardinality(1 .. n) = n
      BY FS_Interval
    <3>. HIDE DEF N
    <3>. QED
      BY <2>2, <3>1
  <2>4. M = n
    <3>1. n \in {0} \cup N /\ \A y \in {0} \cup N : y <= n
      BY <2>2
    <3>. HIDE DEF N
    <3>2. n <= M /\ M <= n
      BY <1>5, <3>1
    <3>. QED
      BY <1>7, <3>2
  <2>. QED
    BY <1>6, <2>2, <2>3, <2>4
<1>. QED
  BY <1>8, <1>9

\* What the two loops of serialize over the keys find out is whether the table is
\* uniform, and which brackets it has.
LEMMA UniformIsTold ==
    ASSUME NEW t \in Table, heap[t] \in Contents
    PROVE  /\ Uniform(heap[t]) <=> Keys(t, "other") = {} /\ (IsArray(t) \/ Keys(t, "index") = {})
           /\ Uniform(heap[t]) => /\ [t |-> Bracket(t, "[", "{"), n |-> 0] = Open(heap[t])
                                  /\ [t |-> Bracket(t, "]", "}"), n |-> 0] = Close(heap[t])
<1>. DEFINE c == heap[t]
            Indexes == \E n \in 0 .. Cardinality(DOMAIN c) :
                          DOMAIN c = {[kind |-> "index", n |-> i] : i \in 1 .. n}
            Names == \A k \in DOMAIN c : k.kind = "name"
<1>1. Uniform(c) <=> Names \/ Indexes
  BY DEF Uniform
<1>2. IsFiniteSet(DOMAIN c) /\ Cardinality(DOMAIN c) \in Nat
  BY ContentsAssumption, FS_CardinalityType
<1>3. Indexes => /\ IsArray(t) /\ \A k \in DOMAIN c : k.kind = "index"
  <2>. SUFFICES ASSUME NEW n \in 0 .. Cardinality(DOMAIN c),
                       DOMAIN c = {[kind |-> "index", n |-> i] : i \in 1 .. n}
                PROVE  IsArray(t) /\ \A k \in DOMAIN c : k.kind = "index"
    OBVIOUS
  <2>1. n \in Nat
    BY <1>2
  <2>2. IsArray(t)
    BY <2>1, IndexesFromOne
  <2>3. \A k \in DOMAIN c : k.kind = "index"
    OBVIOUS
  <2>. QED
    BY <2>2, <2>3
<1>4. IsArray(t) /\ Keys(t, "other") = {} => Indexes
  BY IndexesFromOne
<1>5. DOMAIN c = {} => Indexes
  <2>. SUFFICES ASSUME DOMAIN c = {} PROVE Indexes
    OBVIOUS
  <2>1. {[kind |-> "index", n |-> i] : i \in 1 .. 0} = {}
    OBVIOUS
  <2>2. 0 \in 0 .. Cardinality(DOMAIN c)
    BY <1>2
  <2>. QED
    BY <2>1, <2>2
<1>6. \A k \in DOMAIN c : k.kind \in {"index", "name", "other"}
  BY ContentsAssumption
<1>7. IsArray(t) => \A k \in DOMAIN c : k.kind # "name"
  BY DEF IsArray, Keys
<1>. HIDE DEF Indexes, c
<1>8. Uniform(c) <=> Keys(t, "other") = {} /\ (IsArray(t) \/ Keys(t, "index") = {})
  <2>1. Keys(t, "other") = {k \in DOMAIN c : k.kind = "other"}
        /\ Keys(t, "index") = {k \in DOMAIN c : k.kind = "index"}
    BY DEF Keys, c
  <2>. QED
    BY <1>1, <1>3, <1>4, <1>6, <2>1
<1>9. ASSUME Uniform(c) PROVE IsArray(t) <=> ~\E k \in DOMAIN c : k.kind = "name"
  BY <1>1, <1>3, <1>5, <1>7, <1>9
<1>10. ASSUME Uniform(c)
       PROVE  /\ [t |-> Bracket(t, "[", "{"), n |-> 0] = Open(c)
              /\ [t |-> Bracket(t, "]", "}"), n |-> 0] = Close(c)
  BY <1>9, <1>10, Zenon DEF Bracket, Open, Close
<1>. QED
  BY <1>8, <1>10 DEF c

-----------------------------------------------------------------------------
(***************************************************************************)
(* The frames of serialize.  A table is only begun if it is uniform.  What *)
(* is done of a frame comes before what is left of it; the frame on top    *)
(* has written what is done, any other all but the last of it, which is    *)
(* the table of the frame above.                                           *)
(***************************************************************************)
Frame == [table : Table, left : SUBSET Key]
Done(tables, frame) == DOMAIN tables[frame.table] \ frame.left

FrameOk(tables, frame) ==
    /\ Uniform(tables[frame.table])
    /\ frame.left \subseteq DOMAIN tables[frame.table]
    /\ \A k \in Done(tables, frame), j \in frame.left : k.n < j.n

FitAll(tables, frame, n, ks) == \A k \in ks : Fits(tables)[n][tables[frame.table][k]]

Begun(tables, frame, n, ks) ==
    <<Open(tables[frame.table])>> \o Entries(tables[frame.table], ks, Text(tables)[n])

OnTop(tables, frame, n, p, q) ==
    /\ FitAll(tables, frame, n, Done(tables, frame))
    /\ q = p \o Begun(tables, frame, n, Done(tables, frame))

Inside(tables, frame, n, t, p, q) ==
    \E k \in Done(tables, frame) :
        /\ tables[frame.table][k] = t
        /\ \A j \in Done(tables, frame) \ {k} : j.n < k.n
        /\ FitAll(tables, frame, n, Done(tables, frame) \ {k})
        /\ q = (p \o Begun(tables, frame, n, Done(tables, frame) \ {k})) \o Label(k)

\* How many levels the entries of the i-th frame may have.
Level(i) == MaxDepth + 1 - i

Frames(tables, frames) ==
    /\ frames \in Seq(Frame) /\ Len(frames) <= MaxDepth + 1
    /\ \A i \in 1 .. Len(frames) : FrameOk(tables, frames[i])
    /\ \A i \in 1 .. Len(frames) - 1 : Holds(tables[frames[i].table], frames[i + 1].table)

\* What is written before the table on top is begun: of every frame below it all up
\* to the table above.
Upto(tables, frames, start, p) ==
    \E pre \in [1 .. Len(frames) -> Texts] :
        /\ pre[1] = start
        /\ pre[Len(frames)] = p
        /\ \A i \in 1 .. Len(frames) - 1 :
              Inside(tables, frames[i], Level(i), frames[i + 1].table, pre[i], pre[i + 1])

Wrote(tables, frames, start, text) ==
    IF frames = <<>> THEN text = start
    ELSE \E p \in Texts :
            /\ Upto(tables, frames, start, p)
            /\ OnTop(tables, frames[Len(frames)], Level(Len(frames)), p, text)

\* The values that are through, and their texts.
Through == IF stack = <<>> THEN next - 1 ELSE next - 2
TextOfFirst(tables, values, n) ==
    FlattenSeq([i \in 1 .. n |-> Text(tables)[MaxDepth + 1][values[i]]])

\* The frames are those of tables each in the one below; what is visited are their tables.
StackInv ==
    /\ heap \in [Table -> Contents]
    /\ given \in Seq(Value) /\ next \in 1 .. Len(given) + 1
    /\ json \in Texts
    /\ Frames(heap, stack)
    /\ visited \subseteq {stack[i].table : i \in 1 .. Len(stack)}
    /\ stack # <<>> => next > 1 /\ given[next - 1] = stack[1].table

\* Without an error: the values that are through fit, and the frames add up to the text.
WrittenInv ==
    /\ \A i \in 1 .. Through : Fits(heap)[MaxDepth + 1][given[i]]
    /\ Wrote(heap, stack, TextOfFirst(heap, given, Through), json)

\* An error is that of the table on top, or of the last value.
RefusedInv ==
    IF stack = <<>> THEN next > 1 /\ ~Fits(heap)[MaxDepth + 1][given[next - 1]]
    ELSE ~Fits(heap)[Level(Len(stack)) + 1][stack[Len(stack)].table]

(***************************************************************************)
(* The invariant: a call under way either writes a chain of frames, or     *)
(* passes up the error of a table that does not fit.                       *)
(***************************************************************************)
JsonInv ==
    /\ mode \notin {"serialise", "returned"} =>
          /\ given = <<>> /\ stack = <<>> /\ next = 1
          /\ visited = {} /\ json = <<>> /\ error = "none"
    /\ mode \in {"serialise", "returned"} =>
          /\ StackInv
          /\ error = "none" => WrittenInv
          /\ error # "none" => RefusedInv
          /\ error = "cycle" => Cyclic(heap)
    /\ mode = "returned" => stack = <<>> /\ (next > Len(given) \/ error # "none")

\* The keys of a uniform table have different numbers.
LEMMA UniformApart ==
    ASSUME NEW c \in Contents, Uniform(c), NEW j \in DOMAIN c, NEW k \in DOMAIN c, j.n = k.n
    PROVE  j = k
<1>1. j \in Key /\ k \in Key
  BY ContentsAssumption DEF Key
<1>2. j.kind = k.kind
  <2>1. CASE \A i \in DOMAIN c : i.kind = "name"
    BY <2>1
  <2>2. CASE \E n \in 0 .. Cardinality(DOMAIN c) :
                DOMAIN c = {[kind |-> "index", n |-> i] : i \in 1 .. n}
    BY <2>2
  <2>. QED
    BY <2>1, <2>2 DEF Uniform
<1>. QED
  BY <1>1, <1>2 DEF Key

LEMMA ConcatTexts ==
    /\ \A u, v \in Texts : u \o v \in Texts
    /\ \A u \in Texts : u \o <<>> = u /\ <<>> \o u = u
    /\ \A a \in Token : <<a>> \in Texts
    /\ <<>> \in Texts
<1>. HIDE DEF Token
<1>. QED
  BY DEF Texts

LEMMA TextsAssociative ==
    ASSUME NEW u \in Texts, NEW v \in Texts, NEW w \in Texts
    PROVE  (u \o v) \o w = u \o (v \o w)
<1>. HIDE DEF Token
<1>. QED
  BY ConcatAssociative DEF Texts

LEMMA TextsClosed ==
    ASSUME NEW u \in Texts, NEW v \in Texts
    PROVE  u \o v \in Texts
BY ConcatTexts

\* Concatenation as an operator of its own, which the provers do not look into.
Cat(u, v) == u \o v

LEMMA CatType == \A u, v \in Texts : Cat(u, v) \in Texts
BY TextsClosed DEF Cat

LEMMA CatMoves == \A u, v, w \in Texts : Cat(Cat(u, v), w) = Cat(u, Cat(v, w))
<1>1. ASSUME NEW u \in Texts, NEW v \in Texts, NEW w \in Texts
      PROVE  Cat(Cat(u, v), w) = Cat(u, Cat(v, w))
  BY TextsAssociative DEF Cat
<1>. QED
  BY <1>1

LEMMA BegunType ==
    ASSUME NEW tables \in [Table -> Contents], NEW frame \in Frame, NEW n \in 0 .. MaxDepth + 1,
           NEW ks \in SUBSET DOMAIN tables[frame.table]
    PROVE  /\ tables[frame.table] \in Contents /\ Text(tables)[n] \in [Value -> Texts]
           /\ <<Open(tables[frame.table])>> \in Texts /\ <<Close(tables[frame.table])>> \in Texts
           /\ Entries(tables[frame.table], ks, Text(tables)[n]) \in Texts
           /\ Begun(tables, frame, n, ks) \in Texts
<1>1. tables[frame.table] \in Contents
  BY DEF Frame
<1>2. Text(tables)[n] \in [Value -> Texts]
  BY TextIs
<1>3. Entries(tables[frame.table], ks, Text(tables)[n]) \in Texts
  BY <1>1, <1>2, PiecesType
<1>4. Open(tables[frame.table]) \in Token /\ Close(tables[frame.table]) \in Token
  BY DEF Open, Close, Token
<1>. QED
  BY <1>1, <1>2, <1>3, <1>4, ConcatTexts DEF Begun

\* The loop comes to the next key, and writes its name.
WithoutKey(frame, k) == [frame EXCEPT !.left = @ \ {k}]

LEMMA EnterKey ==
    ASSUME NEW tables \in [Table -> Contents], NEW frame \in Frame, NEW n \in 0 .. MaxDepth + 1,
           FrameOk(tables, frame), NEW p \in Texts, NEW q \in Texts,
           OnTop(tables, frame, n, p, q),
           NEW k \in frame.left, \A j \in frame.left : k.n <= j.n
    PROVE  /\ WithoutKey(frame, k) \in Frame /\ WithoutKey(frame, k).table = frame.table
           /\ FrameOk(tables, WithoutKey(frame, k))
           /\ Inside(tables, WithoutKey(frame, k), n, tables[frame.table][k], p, q \o Label(k))
<1>. DEFINE c == tables[frame.table]
            after == WithoutKey(frame, k)
<1>1. c \in Contents /\ k \in DOMAIN c /\ frame.left \subseteq DOMAIN c /\ Uniform(c)
  BY DEF Frame, FrameOk
<1>2. after \in Frame /\ after.table = frame.table /\ after.left = frame.left \ {k}
  BY DEF WithoutKey, Frame
<1>. HIDE DEF after, c
<1>3. Done(tables, after) = Done(tables, frame) \cup {k} /\ k \notin Done(tables, frame)
  BY <1>1, <1>2 DEF Done, c
<1>4. \A j \in Done(tables, frame) : j.n < k.n
  BY DEF FrameOk
<1>5. ASSUME NEW i \in Done(tables, after), NEW j \in after.left PROVE i.n < j.n
  <2>1. j \in frame.left /\ j # k /\ j \in DOMAIN c /\ k.n <= j.n
    BY <1>1, <1>2, <1>5
  <2>2. CASE i \in Done(tables, frame)
    BY <2>1, <2>2 DEF FrameOk
  <2>3. CASE i = k
    <3>1. j.n # k.n
      BY <1>1, <2>1, UniformApart
    <3>2. j.n \in Nat /\ k.n \in Nat
      BY <1>1, <2>1, LargestIs
    <3>. QED
      BY <2>1, <2>3, <3>1, <3>2
  <2>. QED
    BY <1>3, <2>2, <2>3
<1>6. FrameOk(tables, after)
  BY <1>1, <1>2, <1>5 DEF FrameOk, c
<1>7. Done(tables, after) \ {k} = Done(tables, frame) /\ k \in Done(tables, after)
  BY <1>3
<1>8. /\ FitAll(tables, after, n, Done(tables, after) \ {k})
      /\ Begun(tables, after, n, Done(tables, after) \ {k}) = Begun(tables, frame, n, Done(tables, frame))
  BY <1>2, <1>7 DEF FitAll, Begun, OnTop
<1>9. q \o Label(k) = (p \o Begun(tables, after, n, Done(tables, after) \ {k})) \o Label(k)
  BY <1>8 DEF OnTop
<1>10. Inside(tables, after, n, c[k], p, q \o Label(k))
  BY <1>2, <1>4, <1>7, <1>8, <1>9 DEF Inside, c
<1>. QED
  BY <1>2, <1>6, <1>10 DEF after, c

\* The value of the key is written, and fits.
LEMMA LeaveKey ==
    ASSUME NEW tables \in [Table -> Contents], NEW frame \in Frame, NEW n \in 0 .. MaxDepth + 1,
           NEW p \in Texts, NEW q \in Texts, NEW t,
           Inside(tables, frame, n, t, p, q), Fits(tables)[n][t]
    PROVE  OnTop(tables, frame, n, p, q \o Text(tables)[n][t])
<1>. DEFINE c == tables[frame.table]
            text == Text(tables)[n]
<1>1. PICK k \in Done(tables, frame) :
         /\ c[k] = t
         /\ \A j \in Done(tables, frame) \ {k} : j.n < k.n
         /\ FitAll(tables, frame, n, Done(tables, frame) \ {k})
         /\ q = (p \o Begun(tables, frame, n, Done(tables, frame) \ {k})) \o Label(k)
  BY DEF Inside
<1>. DEFINE before == Done(tables, frame) \ {k}
            open == <<Open(c)>>
            done == Entries(c, before, text)
<1>2. k \in DOMAIN c /\ before \in SUBSET DOMAIN c /\ before \cup {k} = Done(tables, frame)
  BY DEF Done
<1>3. FitAll(tables, frame, n, Done(tables, frame))
  BY <1>1 DEF FitAll
<1>4. c \in Contents /\ text \in [Value -> Texts] /\ open \in Texts /\ done \in Texts
  BY <1>2, BegunType
<1>5. Label(k) \in Texts /\ text[t] \in Texts /\ Entry(c, k, text) = Label(k) \o text[t]
  BY <1>1, <1>2, <1>4, EntryType
<1>6. Entries(c, Done(tables, frame), text) = done \o (Label(k) \o text[t])
  BY <1>1, <1>2, <1>4, <1>5, EntriesGrow
<1>. DEFINE label == Label(k)
            new == text[t]
<1>7. /\ q = (p \o (open \o done)) \o Label(k)
      /\ Begun(tables, frame, n, Done(tables, frame)) = open \o (done \o (Label(k) \o text[t]))
  BY <1>1, <1>6 DEF Begun
<1>. HIDE DEF open, done, text
<1>8. q \o text[t] = p \o (open \o (done \o (Label(k) \o text[t])))
  <2>1. p \in Texts /\ text[t] \in Texts
    BY <1>5
  <2>2. Cat(Cat(Cat(p, Cat(open, done)), label), new) = Cat(p, Cat(open, Cat(done, Cat(label, new))))
    <3>1. label \in Texts /\ new \in Texts /\ open \in Texts /\ done \in Texts
      BY <1>4, <1>5
    <3>. HIDE DEF label, new
    <3>. QED
      <4>1. p \in Texts
        OBVIOUS
      <4>2. /\ Cat(open, done) \in Texts /\ Cat(label, new) \in Texts
            /\ Cat(p, Cat(open, done)) \in Texts
        BY ONLY <3>1, <4>1, CatType, Zenon
      <4>3. Cat(Cat(Cat(p, Cat(open, done)), label), new) = Cat(Cat(p, Cat(open, done)), Cat(label, new))
        BY ONLY <3>1, <4>2, CatMoves, SMT
      <4>4. Cat(Cat(p, Cat(open, done)), Cat(label, new)) = Cat(p, Cat(Cat(open, done), Cat(label, new)))
        BY ONLY <4>1, <4>2, CatMoves, Zenon
      <4>5. Cat(Cat(open, done), Cat(label, new)) = Cat(open, Cat(done, Cat(label, new)))
        BY ONLY <3>1, <4>2, CatMoves, SMT
      <4>. QED
        BY ONLY <4>3, <4>4, <4>5, Zenon
  <2>3. ((p \o (open \o done)) \o label) \o new = p \o (open \o (done \o (label \o new)))
    BY ONLY <2>2, Zenon DEF Cat
  <2>. QED
    BY ONLY <1>7, <2>3, Zenon
<1>9. q \o text[t] = p \o Begun(tables, frame, n, Done(tables, frame))
  BY <1>7, <1>8
<1>. QED
  BY <1>3, <1>9 DEF OnTop, text

\* A table that is begun has written its bracket.
LEMMA BeginTable ==
    ASSUME NEW tables \in [Table -> Contents], NEW t \in Table, Uniform(tables[t]),
           NEW n \in 0 .. MaxDepth + 1, NEW p \in Texts
    PROVE  /\ [table |-> t, left |-> DOMAIN tables[t]] \in Frame
           /\ FrameOk(tables, [table |-> t, left |-> DOMAIN tables[t]])
           /\ OnTop(tables, [table |-> t, left |-> DOMAIN tables[t]], n, p, p \o <<Open(tables[t])>>)
           /\ p \o <<Open(tables[t])>> \in Texts
<1>. DEFINE frame == [table |-> t, left |-> DOMAIN tables[t]]
<1>1. tables[t] \in Contents /\ DOMAIN tables[t] \subseteq Key
  BY ContentsAssumption DEF Key
<1>2. frame \in Frame /\ frame.table = t /\ frame.left = DOMAIN tables[t]
  BY <1>1 DEF Frame
<1>. HIDE DEF frame
<1>3. Done(tables, frame) = {}
  BY <1>2 DEF Done
<1>4. FrameOk(tables, frame)
  BY <1>2, <1>3 DEF FrameOk
<1>5. /\ Text(tables)[n] \in [Value -> Texts] /\ <<Open(tables[t])>> \in Texts
  BY <1>2, BegunType, {} \in SUBSET DOMAIN tables[frame.table]
<1>6. Begun(tables, frame, n, {}) = <<Open(tables[t])>>
  BY <1>1, <1>2, <1>5, NoEntries, ConcatTexts DEF Begun
<1>7. OnTop(tables, frame, n, p, p \o <<Open(tables[t])>>)
  BY <1>3, <1>6 DEF OnTop, FitAll
<1>. QED
  BY <1>2, <1>4, <1>5, <1>7, ConcatTexts DEF frame

\* A table whose entries are all written has its text, and fits.
LEMMA EndTable ==
    ASSUME NEW tables \in [Table -> Contents], NEW frame \in Frame, NEW n \in 0 .. MaxDepth,
           FrameOk(tables, frame), NEW p \in Texts, NEW q \in Texts,
           OnTop(tables, frame, n, p, q), frame.left = {}
    PROVE  /\ Fits(tables)[n + 1][frame.table]
           /\ q \o <<Close(tables[frame.table])>> = p \o Text(tables)[n + 1][frame.table]
           /\ q \o <<Close(tables[frame.table])>> \in Texts
<1>. DEFINE c == tables[frame.table]
            open == <<Open(c)>>
            close == <<Close(c)>>
            done == Entries(c, DOMAIN c, Text(tables)[n])
<1>1. /\ n \in 0 .. MaxDepth + 1 /\ n + 1 \in 1 .. MaxDepth + 1 /\ n + 1 \in 0 .. MaxDepth + 1
      /\ n + 1 > 0 /\ (n + 1) - 1 = n
  BY LuaContextAssumption
<1>2. frame.table \in Table /\ frame.table \in Value
  BY DEF Frame, Value
<1>3. Done(tables, frame) = DOMAIN c
  BY DEF Done
<1>4. Fits(tables)[n + 1][frame.table]
  <2>1. Suits(tables, Fits(tables)[n], frame.table)
    BY <1>2, <1>3 DEF Suits, FrameOk, OnTop, FitAll
  <2>. QED
    BY <1>1, <1>2, <2>1, FitsIs
<1>5. open \in Texts /\ close \in Texts /\ done \in Texts
  BY <1>1, BegunType, DOMAIN c \in SUBSET DOMAIN c
<1>6. q = p \o (open \o done)
  BY <1>3 DEF OnTop, Begun
<1>7. Text(tables)[n + 1][frame.table] = (open \o done) \o close
  <2>1. Text(tables)[n + 1][frame.table] = Written(tables, Text(tables)[n], frame.table)
    BY <1>1, <1>2, TextIs
  <2>2. Text(tables)[n + 1][frame.table] = open \o done \o close
    BY <1>2, <2>1 DEF Written
  <2>. QED
    BY <2>2
<1>. HIDE DEF open, close, done, c
<1>8. q \o close = p \o ((open \o done) \o close) /\ q \o close \in Texts
  <2>1. open \o done \in Texts /\ p \in Texts /\ p \o (open \o done) \in Texts
    BY ONLY <1>5, ConcatTexts, p \in Texts
  <2>2. (p \o (open \o done)) \o close = p \o ((open \o done) \o close)
    BY ONLY <1>5, <2>1, TextsAssociative
  <2>3. (p \o (open \o done)) \o close \in Texts
    BY ONLY <1>5, <2>1, ConcatTexts
  <2>. QED
    BY ONLY <1>6, <2>2, <2>3
<1>. QED
  BY <1>4, <1>7, <1>8 DEF close, c

-----------------------------------------------------------------------------
\* The frames below the one on top stay as they are.
LEMMA UptoFirst ==
    ASSUME NEW tables, NEW frames, Len(frames) = 1, NEW start \in Texts, NEW p
    PROVE  Upto(tables, frames, start, p) <=> p = start
<1>1. ASSUME p = start PROVE Upto(tables, frames, start, p)
  <2>. DEFINE pre == [i \in 1 .. 1 |-> start]
  <2>1. pre \in [1 .. 1 -> Texts] /\ pre[1] = start
    OBVIOUS
  <2>. HIDE DEF pre
  <2>. QED
    BY <1>1, <2>1 DEF Upto
<1>2. ASSUME Upto(tables, frames, start, p) PROVE p = start
  BY <1>2 DEF Upto
<1>. QED
  BY <1>1, <1>2

LEMMA UptoSame ==
    ASSUME NEW tables, NEW frames, NEW others, Len(frames) \in Nat \ {0},
           Len(others) = Len(frames),
           \A i \in 1 .. Len(frames) - 1 : others[i] = frames[i],
           others[Len(frames)].table = frames[Len(frames)].table,
           NEW start, NEW p, Upto(tables, frames, start, p)
    PROVE  Upto(tables, others, start, p)
<1>. DEFINE m == Len(frames)
<1>1. PICK pre \in [1 .. m -> Texts] :
         /\ pre[1] = start /\ pre[m] = p
         /\ \A i \in 1 .. m - 1 :
               Inside(tables, frames[i], Level(i), frames[i + 1].table, pre[i], pre[i + 1])
  BY DEF Upto
<1>2. ASSUME NEW i \in 1 .. m - 1
      PROVE  Inside(tables, others[i], Level(i), others[i + 1].table, pre[i], pre[i + 1])
  <2>1. others[i + 1].table = frames[i + 1].table
    <3>1. i + 1 = m \/ i + 1 \in 1 .. m - 1
      OBVIOUS
    <3>. QED
      BY <3>1
  <2>2. Inside(tables, frames[i], Level(i), frames[i + 1].table, pre[i], pre[i + 1])
    BY <1>1
  <2>. QED
    BY <2>1, <2>2
<1>. QED
  BY <1>1, <1>2 DEF Upto

LEMMA UptoPush ==
    ASSUME NEW tables, NEW frames, NEW more, Len(frames) \in Nat \ {0},
           Len(more) = Len(frames) + 1,
           \A i \in 1 .. Len(frames) : more[i] = frames[i],
           NEW start, NEW p, Upto(tables, frames, start, p), NEW q \in Texts,
           Inside(tables, frames[Len(frames)], Level(Len(frames)), more[Len(more)].table, p, q)
    PROVE  Upto(tables, more, start, q)
<1>. DEFINE m == Len(frames)
<1>1. PICK pre \in [1 .. m -> Texts] :
         /\ pre[1] = start /\ pre[m] = p
         /\ \A i \in 1 .. m - 1 :
               Inside(tables, frames[i], Level(i), frames[i + 1].table, pre[i], pre[i + 1])
  BY DEF Upto
<1>. DEFINE post == [i \in 1 .. m + 1 |-> IF i = m + 1 THEN q ELSE pre[i]]
<1>2. /\ post \in [1 .. m + 1 -> Texts] /\ post[m + 1] = q
      /\ \A i \in 1 .. m : post[i] = pre[i]
  OBVIOUS
<1>. HIDE DEF post
<1>3. post[1] = start
  BY <1>1, <1>2
<1>4. ASSUME NEW i \in 1 .. m
      PROVE  Inside(tables, more[i], Level(i), more[i + 1].table, post[i], post[i + 1])
  <2>1. CASE i = m
    <3>1. post[i] = p /\ post[i + 1] = q /\ more[i] = frames[m] /\ more[i + 1] = more[Len(more)]
      BY <1>1, <1>2, <2>1
    <3>. QED
      BY <2>1, <3>1
  <2>2. CASE i # m
    <3>1. i \in 1 .. m - 1 /\ i + 1 \in 1 .. m
      BY <2>2
    <3>2. more[i] = frames[i] /\ more[i + 1] = frames[i + 1] /\ post[i] = pre[i] /\ post[i + 1] = pre[i + 1]
      BY <1>2, <3>1
    <3>. QED
      BY <1>1, <3>1, <3>2
  <2>. QED
    BY <2>1, <2>2
<1>5. Len(more) - 1 = m
  OBVIOUS
<1>. QED
  BY <1>2, <1>3, <1>4, <1>5 DEF Upto

LEMMA UptoPop ==
    ASSUME NEW tables, NEW frames, NEW fewer, Len(fewer) \in Nat \ {0},
           Len(frames) = Len(fewer) + 1,
           \A i \in 1 .. Len(fewer) : fewer[i] = frames[i],
           NEW start, NEW q, Upto(tables, frames, start, q)
    PROVE  \E p \in Texts :
              /\ Upto(tables, fewer, start, p)
              /\ Inside(tables, fewer[Len(fewer)], Level(Len(fewer)), frames[Len(frames)].table, p, q)
<1>. DEFINE m == Len(fewer)
<1>1. PICK pre \in [1 .. m + 1 -> Texts] :
         /\ pre[1] = start /\ pre[m + 1] = q
         /\ \A i \in 1 .. (m + 1) - 1 :
               Inside(tables, frames[i], Level(i), frames[i + 1].table, pre[i], pre[i + 1])
  BY DEF Upto
<1>. DEFINE post == [i \in 1 .. m |-> pre[i]]
<1>2. post \in [1 .. m -> Texts] /\ \A i \in 1 .. m : post[i] = pre[i]
  OBVIOUS
<1>3. post[m] \in Texts /\ post[1] = start
  <2>1. m \in 1 .. m /\ 1 \in 1 .. m
    OBVIOUS
  <2>. QED
    BY <1>1, <1>2, <2>1
<1>. HIDE DEF post
<1>4. ASSUME NEW i \in 1 .. m - 1
      PROVE  Inside(tables, fewer[i], Level(i), fewer[i + 1].table, post[i], post[i + 1])
  <2>1. i \in 1 .. m /\ i + 1 \in 1 .. m /\ i \in 1 .. (m + 1) - 1
    OBVIOUS
  <2>2. fewer[i] = frames[i] /\ fewer[i + 1] = frames[i + 1] /\ post[i] = pre[i] /\ post[i + 1] = pre[i + 1]
    BY <1>2, <2>1
  <2>. QED
    BY <1>1, <2>1, <2>2
<1>5. Upto(tables, fewer, start, post[m])
  BY <1>2, <1>3, <1>4 DEF Upto
<1>6. Inside(tables, fewer[m], Level(m), frames[m + 1].table, post[m], q)
  <2>1. m \in 1 .. m /\ m \in 1 .. (m + 1) - 1
    OBVIOUS
  <2>2. fewer[m] = frames[m] /\ post[m] = pre[m]
    BY <1>2, <2>1
  <2>. QED
    BY <1>1, <2>1, <2>2
<1>. QED
  BY <1>3, <1>5, <1>6

LEMMA LevelIs ==
    /\ \A i \in 1 .. MaxDepth + 1 : /\ Level(i) \in 0 .. MaxDepth /\ Level(i) \in 0 .. MaxDepth + 1
                                     /\ Level(i - 1) = Level(i) + 1
    /\ Level(0) = MaxDepth + 1
    /\ \A i \in Nat : Level(i + 1) + 1 = Level(i)
BY LuaContextAssumption DEF Level

\* The frames with another on top, with one more, and without the last.
Others(frames, frame) == Append(Front(frames), frame)

LEMMA OthersAre ==
    ASSUME NEW frames \in Seq(Frame), frames # <<>>, NEW frame \in Frame
    PROVE  /\ Len(frames) \in Nat \ {0} /\ Last(frames) = frames[Len(frames)] /\ Last(frames) \in Frame
           /\ Front(frames) \in Seq(Frame) /\ Len(Front(frames)) = Len(frames) - 1
           /\ \A i \in 1 .. Len(frames) - 1 : Front(frames)[i] = frames[i]
           /\ Others(frames, frame) \in Seq(Frame) /\ Len(Others(frames, frame)) = Len(frames)
           /\ Others(frames, frame)[Len(frames)] = frame
           /\ \A i \in 1 .. Len(frames) - 1 : Others(frames, frame)[i] = frames[i]
<1>. HIDE DEF Frame
<1>1. /\ Len(frames) \in Nat \ {0} /\ Last(frames) = frames[Len(frames)]
      /\ Front(frames) = SubSeq(frames, 1, Len(frames) - 1)
  BY DEF Last, Front
<1>2. Last(frames) \in Frame
  BY <1>1
<1>3. /\ Front(frames) \in Seq(Frame) /\ Len(Front(frames)) = Len(frames) - 1
      /\ \A i \in 1 .. Len(frames) - 1 : Front(frames)[i] = frames[i]
  <2>1. 1 \in 1 .. Len(frames) + 1 /\ Len(frames) - 1 \in 0 .. Len(frames) /\ Len(frames) - 1 \in Nat
    BY <1>1
  <2>2. \A i \in 1 .. Len(frames) - 1 : SubSeq(frames, 1, Len(frames) - 1)[i] = frames[i]
    BY <1>1
  <2>3. \A i \in 1 .. Len(frames) - 1 : frames[i] \in Frame
    BY <1>1
  <2>4. /\ SubSeq(frames, 1, Len(frames) - 1) \in Seq(Frame)
        /\ Len(SubSeq(frames, 1, Len(frames) - 1)) =
              IF 1 <= Len(frames) - 1 THEN Len(frames) - 1 - 1 + 1 ELSE 0
    BY ONLY <1>1, <2>3, SubSeqProperties
  <2>5. Len(SubSeq(frames, 1, Len(frames) - 1)) = Len(frames) - 1
    <3>. DEFINE n == Len(frames)
                length == Len(SubSeq(frames, 1, Len(frames) - 1))
    <3>1. n \in Nat \ {0} /\ length = IF 1 <= n - 1 THEN n - 1 - 1 + 1 ELSE 0
      BY ONLY <1>1, <2>4, Zenon
    <3>. HIDE DEF n, length
    <3>2. length = n - 1
      BY ONLY <3>1
    <3>. QED
      BY ONLY <3>2, Zenon DEF n, length
  <2>. QED
    BY ONLY <1>1, <2>2, <2>4, <2>5
<1>. DEFINE front == Front(frames)
            m == Len(frames)
<1>. HIDE DEF front
<1>4. front \in Seq(Frame) /\ Len(front) = m - 1 /\ \A i \in 1 .. m - 1 : front[i] = frames[i]
  BY <1>3 DEF front
<1>. HIDE DEF m
<1>5. /\ Append(front, frame) \in Seq(Frame) /\ Len(Append(front, frame)) = m
      /\ Append(front, frame)[m] = frame
      /\ \A i \in 1 .. m - 1 : Append(front, frame)[i] = front[i]
  <2>1. m \in Nat \ {0}
    BY <1>1 DEF m
  <2>. QED
    BY <1>4, <2>1, AppendProperties
<1>6. \A i \in 1 .. m - 1 : Append(front, frame)[i] = frames[i]
  BY <1>4, <1>5
<1>7. Others(frames, frame) = Append(front, frame)
  BY DEF Others, front
<1>. QED
  BY <1>1, <1>2, <1>3, <1>5, <1>6, <1>7 DEF m

LEMMA OneMore ==
    ASSUME NEW frames \in Seq(Frame), NEW frame \in Frame
    PROVE  /\ Append(frames, frame) \in Seq(Frame) /\ Len(frames) \in Nat
           /\ Len(Append(frames, frame)) = Len(frames) + 1
           /\ Append(frames, frame)[Len(frames) + 1] = frame
           /\ \A i \in 1 .. Len(frames) : Append(frames, frame)[i] = frames[i]
           /\ Append(frames, frame) # <<>>
<1>. HIDE DEF Frame
<1>1. /\ Append(frames, frame) \in Seq(Frame) /\ Len(frames) \in Nat
      /\ Len(Append(frames, frame)) = Len(frames) + 1
      /\ Append(frames, frame)[Len(frames) + 1] = frame
      /\ \A i \in 1 .. Len(frames) : Append(frames, frame)[i] = frames[i]
  BY AppendProperties
<1>2. Append(frames, frame) # <<>>
  <2>1. Len(Append(frames, frame)) # 0 /\ Len(<<>>) = 0
    BY <1>1
  <2>. QED
    BY <2>1
<1>. QED
  BY <1>1, <1>2
LEMMA FramesSame ==
    ASSUME NEW tables, NEW frames, Frames(tables, frames), frames # <<>>,
           NEW frame \in Frame, FrameOk(tables, frame), frame.table = Last(frames).table
    PROVE  Frames(tables, Others(frames, frame))
<1>. DEFINE m == Len(frames)
            new == Others(frames, frame)
<1>1. /\ frames \in Seq(Frame) /\ m <= MaxDepth + 1
      /\ \A i \in 1 .. m : FrameOk(tables, frames[i])
      /\ \A i \in 1 .. m - 1 : Holds(tables[frames[i].table], frames[i + 1].table)
  BY DEF Frames
<1>2. /\ m \in Nat \ {0} /\ new \in Seq(Frame) /\ Len(new) = m /\ new[m] = frame
      /\ Last(frames) = frames[m]
      /\ \A i \in 1 .. m - 1 : new[i] = frames[i]
  BY <1>1, OthersAre
<1>. HIDE DEF m, new
<1>3. \A i \in 1 .. m : new[i].table = frames[i].table
  BY <1>2
<1>4. \A i \in 1 .. m : FrameOk(tables, new[i])
  BY <1>1, <1>2
<1>5. \A i \in 1 .. m - 1 : Holds(tables[new[i].table], new[i + 1].table)
  BY <1>1, <1>2, <1>3
<1>. QED
  BY <1>1, <1>2, <1>4, <1>5 DEF Frames, new

LEMMA FramesMore ==
    ASSUME NEW tables, NEW frames, Frames(tables, frames), frames # <<>>,
           Len(frames) <= MaxDepth, NEW frame \in Frame, FrameOk(tables, frame),
           Holds(tables[Last(frames).table], frame.table)
    PROVE  Frames(tables, Append(frames, frame))
<1>. DEFINE m == Len(frames)
            new == Append(frames, frame)
<1>1. /\ frames \in Seq(Frame) /\ m \in Nat /\ m + 1 <= MaxDepth + 1
      /\ \A i \in 1 .. m : FrameOk(tables, frames[i])
      /\ \A i \in 1 .. m - 1 : Holds(tables[frames[i].table], frames[i + 1].table)
  BY LuaContextAssumption DEF Frames
<1>2. /\ new \in Seq(Frame) /\ Len(new) = m + 1 /\ new[m + 1] = frame
      /\ \A i \in 1 .. m : new[i] = frames[i]
  BY <1>1, OneMore
<1>3. Last(frames) = frames[m]
  BY DEF Last
<1>. HIDE DEF m, new
<1>4. \A i \in 1 .. m + 1 : FrameOk(tables, new[i])
  BY <1>1, <1>2
<1>5. \A i \in 1 .. (m + 1) - 1 : Holds(tables[new[i].table], new[i + 1].table)
  BY <1>1, <1>2, <1>3
<1>. QED
  BY <1>1, <1>2, <1>4, <1>5 DEF Frames, new

LEMMA FramesFewer ==
    ASSUME NEW tables, NEW frames, Frames(tables, frames), frames # <<>>
    PROVE  Frames(tables, Front(frames))
<1>. DEFINE m == Len(frames)
            new == Front(frames)
<1>1. /\ frames \in Seq(Frame) /\ m <= MaxDepth + 1
      /\ \A i \in 1 .. m : FrameOk(tables, frames[i])
      /\ \A i \in 1 .. m - 1 : Holds(tables[frames[i].table], frames[i + 1].table)
  BY DEF Frames
<1>2. /\ m \in Nat \ {0} /\ new \in Seq(Frame) /\ Len(new) = m - 1
      /\ \A i \in 1 .. m - 1 : new[i] = frames[i]
  <2>1. Last(frames) \in Frame
    BY <1>1 DEF Last
  <2>. QED
    BY <1>1, <2>1, OthersAre
<1>. HIDE DEF m, new
<1>3. ASSUME NEW i \in 1 .. m - 1 PROVE FrameOk(tables, new[i])
  <2>1. i \in 1 .. m /\ new[i] = frames[i]
    BY <1>2
  <2>. QED
    BY <1>1, <2>1
<1>4. ASSUME NEW i \in 1 .. (m - 1) - 1 PROVE Holds(tables[new[i].table], new[i + 1].table)
  <2>1. i \in 1 .. m - 1 /\ i + 1 \in 1 .. m - 1
    BY <1>2
  <2>2. new[i] = frames[i] /\ new[i + 1] = frames[i + 1]
    BY <1>2, <2>1
  <2>. QED
    BY <1>1, <2>1, <2>2
<1>5. m - 1 <= MaxDepth + 1
  BY <1>1, <1>2, LuaContextAssumption
<1>. QED
  BY <1>2, <1>3, <1>4, <1>5 DEF Frames, new

\* What the loop of the table on top makes of its next key.
Going(tables, frames, start, text) ==
    /\ tables \in [Table -> Contents]
    /\ Frames(tables, frames) /\ frames # <<>>
    /\ start \in Texts /\ text \in Texts
    /\ Wrote(tables, frames, start, text)

NextKey(frames, k) == k \in Last(frames).left /\ \A j \in Last(frames).left : k.n <= j.n

LEMMA GoingIs ==
    ASSUME NEW tables, NEW frames, NEW start, NEW text, Going(tables, frames, start, text)
    PROVE  /\ frames \in Seq(Frame) /\ Len(frames) \in 1 .. MaxDepth + 1
           /\ Last(frames) = frames[Len(frames)] /\ Last(frames) \in Frame
           /\ FrameOk(tables, Last(frames))
           /\ Level(Len(frames)) \in 0 .. MaxDepth /\ Level(Len(frames)) \in 0 .. MaxDepth + 1
           /\ \E p \in Texts : /\ Upto(tables, frames, start, p)
                                /\ OnTop(tables, Last(frames), Level(Len(frames)), p, text)
<1>1. /\ frames \in Seq(Frame) /\ Len(frames) <= MaxDepth + 1 /\ frames # <<>>
      /\ \A i \in 1 .. Len(frames) : FrameOk(tables, frames[i])
  BY DEF Going, Frames
<1>2. Len(frames) \in Nat \ {0} /\ Last(frames) = frames[Len(frames)]
  BY <1>1 DEF Last
<1>3. Last(frames) \in Frame
  BY <1>1, <1>2
<1>4. Len(frames) \in 1 .. MaxDepth + 1
  BY <1>1, <1>2, LuaContextAssumption
<1>5. FrameOk(tables, Last(frames))
  BY <1>1, <1>2
<1>6. Level(Len(frames)) \in 0 .. MaxDepth /\ Level(Len(frames)) \in 0 .. MaxDepth + 1
  BY <1>4, LevelIs
<1>7. \E p \in Texts : /\ Upto(tables, frames, start, p)
                       /\ OnTop(tables, Last(frames), Level(Len(frames)), p, text)
  BY <1>1, <1>2 DEF Going, Wrote
<1>. QED
  BY <1>1, <1>2, <1>3, <1>4, <1>5, <1>6, <1>7

\* The loop takes its next key, and writes the name.
LEMMA KeyEntered ==
    ASSUME NEW tables, NEW frames, NEW start, NEW text, Going(tables, frames, start, text),
           NEW k, NextKey(frames, k)
    PROVE  /\ WithoutKey(Last(frames), k) \in Frame
           /\ Frames(tables, Others(frames, WithoutKey(Last(frames), k)))
           /\ tables[Last(frames).table] \in Contents
           /\ k \in DOMAIN tables[Last(frames).table]
           /\ tables[Last(frames).table][k] \in Value
           /\ Label(k) \in Texts
           /\ \E p \in Texts :
                 /\ Upto(tables, Others(frames, WithoutKey(Last(frames), k)), start, p)
                 /\ Inside(tables, WithoutKey(Last(frames), k), Level(Len(frames)),
                           tables[Last(frames).table][k], p, text \o Label(k))
<1>. DEFINE frame == WithoutKey(Last(frames), k)
            top == Last(frames)
            m == Len(frames)
<1>1. /\ frames \in Seq(Frame) /\ frames # <<>> /\ m \in 1 .. MaxDepth + 1
      /\ tables \in [Table -> Contents] /\ text \in Texts
      /\ top = frames[m] /\ top \in Frame /\ FrameOk(tables, top)
      /\ Level(m) \in 0 .. MaxDepth + 1 /\ Frames(tables, frames)
  BY GoingIs DEF Going
<1>2. PICK p \in Texts : Upto(tables, frames, start, p) /\ OnTop(tables, top, Level(m), p, text)
  BY GoingIs
<1>3. k \in top.left /\ \A j \in top.left : k.n <= j.n
  BY DEF NextKey
<1>4. /\ frame \in Frame /\ frame.table = top.table /\ FrameOk(tables, frame)
      /\ Inside(tables, frame, Level(m), tables[top.table][k], p, text \o Label(k))
  BY <1>1, <1>2, <1>3, EnterKey
<1>5. /\ tables[top.table] \in Contents /\ k \in DOMAIN tables[top.table]
      /\ tables[top.table][k] \in Value /\ Label(k) \in Texts
  <2>1. tables[top.table] \in Contents /\ k \in DOMAIN tables[top.table]
    BY <1>1, <1>3 DEF Frame, FrameOk
  <2>2. tables[top.table][k] \in Value /\ Label(k) \in Texts
    <3>1. [v \in Value |-> <<>>] \in [Value -> Texts]
      BY ConcatTexts
    <3>. QED
      BY <2>1, <3>1, EntryType, ContentsAssumption
  <2>. QED
    BY <2>1, <2>2
<1>6. Frames(tables, Others(frames, frame))
  BY <1>1, <1>4, FramesSame
<1>7. Upto(tables, Others(frames, frame), start, p)
  <2>1. /\ m \in Nat \ {0} /\ Len(Others(frames, frame)) = m /\ Others(frames, frame)[m] = frame
        /\ \A i \in 1 .. m - 1 : Others(frames, frame)[i] = frames[i]
    BY <1>1, <1>4, OthersAre
  <2>2. Others(frames, frame)[m].table = frames[m].table
    BY <1>1, <1>4, <2>1
  <2>. HIDE DEF frame, top
  <2>. QED
    BY <1>2, <2>1, <2>2, UptoSame
<1>. HIDE DEF frame
<1>. QED
  BY <1>2, <1>4, <1>5, <1>6, <1>7 DEF frame

\* Its value is an atom, or a table that is through.
LEMMA ValueWritten ==
    ASSUME NEW tables, NEW frames, NEW start, NEW text, Going(tables, frames, start, text),
           NEW k, NextKey(frames, k), NEW v, v = tables[Last(frames).table][k],
           Fits(tables)[Level(Len(frames))][v]
    PROVE  Going(tables, Others(frames, WithoutKey(Last(frames), k)), start,
                 (text \o Label(k)) \o Text(tables)[Level(Len(frames))][v])
<1>. DEFINE frame == WithoutKey(Last(frames), k)
            m == Len(frames)
            rest == Others(frames, frame)
            new == (text \o Label(k)) \o Text(tables)[Level(m)][v]
<1>1. /\ frame \in Frame /\ Frames(tables, rest) /\ v \in Value /\ Label(k) \in Texts
  BY KeyEntered
<1>2. PICK p \in Texts : Upto(tables, rest, start, p)
                         /\ Inside(tables, frame, Level(m), v, p, text \o Label(k))
  BY KeyEntered
<1>3. /\ frames \in Seq(Frame) /\ frames # <<>> /\ Level(m) \in 0 .. MaxDepth + 1
      /\ tables \in [Table -> Contents] /\ text \in Texts /\ start \in Texts
  BY GoingIs DEF Going
<1>4. text \o Label(k) \in Texts
  BY <1>1, <1>3, TextsClosed
<1>5. new \in Texts
  <2>1. Text(tables)[Level(m)] \in [Value -> Texts]
    BY <1>3, TextIs
  <2>2. Text(tables)[Level(m)][v] \in Texts
    BY <1>1, <2>1
  <2>. QED
    BY <1>4, <2>2, TextsClosed
<1>6. OnTop(tables, frame, Level(m), p, new)
  BY <1>1, <1>2, <1>3, <1>4, LeaveKey
<1>7. Len(rest) = m /\ rest[m] = frame /\ m \in Nat \ {0}
  BY <1>1, <1>3, OthersAre
<1>8. rest # <<>>
  BY <1>7
<1>. HIDE DEF rest, frame, new, m
<1>9. Wrote(tables, rest, start, new)
  BY <1>2, <1>6, <1>7, <1>8 DEF Wrote
<1>10. Going(tables, rest, start, new)
  BY <1>1, <1>3, <1>5, <1>8, <1>9 DEF Going
<1>. QED
  BY <1>10 DEF rest, frame, new, m
\* Its value is a table that is entered.
LEMMA TableEntered ==
    ASSUME NEW tables, NEW frames, NEW start, NEW text, Going(tables, frames, start, text),
           NEW k, NextKey(frames, k), NEW v \in Table, v = tables[Last(frames).table][k],
           Uniform(tables[v]), Len(frames) <= MaxDepth
    PROVE  Going(tables,
                 Append(Others(frames, WithoutKey(Last(frames), k)),
                        [table |-> v, left |-> DOMAIN tables[v]]),
                 start, (text \o Label(k)) \o <<Open(tables[v])>>)
<1>. DEFINE frame == WithoutKey(Last(frames), k)
            m == Len(frames)
            rest == Others(frames, frame)
            top == [table |-> v, left |-> DOMAIN tables[v]]
            more == Append(rest, top)
            label == text \o Label(k)
            new == label \o <<Open(tables[v])>>
<1>1. /\ frame \in Frame /\ Frames(tables, rest) /\ Label(k) \in Texts
  BY KeyEntered
<1>2. PICK p \in Texts : Upto(tables, rest, start, p)
                         /\ Inside(tables, frame, Level(m), v, p, label)
  BY KeyEntered
<1>3. /\ frames \in Seq(Frame) /\ frames # <<>> /\ m \in 1 .. MaxDepth /\ Level(m + 1) \in 0 .. MaxDepth + 1
      /\ tables \in [Table -> Contents] /\ text \in Texts /\ start \in Texts
  <2>1. m \in 1 .. MaxDepth + 1
    BY GoingIs
  <2>2. m \in 1 .. MaxDepth /\ m + 1 \in 1 .. MaxDepth + 1
    BY <2>1, LuaContextAssumption
  <2>. QED
    BY <2>2, LevelIs, GoingIs DEF Going
<1>4. label \in Texts
  BY <1>1, <1>3, TextsClosed
<1>5. /\ top \in Frame /\ FrameOk(tables, top) /\ top.table = v
      /\ OnTop(tables, top, Level(m + 1), label, new) /\ new \in Texts
  BY <1>3, <1>4, BeginTable
<1>6. Len(rest) = m /\ rest[m] = frame /\ m \in Nat \ {0} /\ rest \in Seq(Frame) /\ Last(rest) = frame
  <2>1. Len(rest) = m /\ rest[m] = frame /\ m \in Nat \ {0} /\ rest \in Seq(Frame)
    BY <1>1, <1>3, OthersAre
  <2>. QED
    BY <2>1 DEF Last
<1>7. rest # <<>>
  BY <1>6
<1>8. /\ Len(more) = m + 1 /\ more[m + 1] = top /\ more # <<>>
      /\ \A i \in 1 .. m : more[i] = rest[i]
  BY <1>5, <1>6, OneMore
<1>9. Holds(tables[frame.table], v)
  <2>1. frame.table = Last(frames).table
    BY DEF WithoutKey
  <2>2. k \in DOMAIN tables[Last(frames).table]
    BY KeyEntered
  <2>. QED
    BY <2>1, <2>2 DEF Holds
<1>. HIDE DEF frame, m, rest, top, more, label, new
<1>10. Frames(tables, more)
  <2>1. Len(rest) <= MaxDepth /\ Holds(tables[Last(rest).table], top.table)
    BY <1>3, <1>5, <1>6, <1>9
  <2>. QED
    BY <1>1, <1>5, <1>7, <2>1, FramesMore DEF more
<1>11. Upto(tables, more, start, label)
  <2>1. /\ Len(rest) \in Nat \ {0} /\ Len(more) = Len(rest) + 1
        /\ \A i \in 1 .. Len(rest) : more[i] = rest[i]
    BY <1>6, <1>8
  <2>2. Inside(tables, rest[Len(rest)], Level(Len(rest)), more[Len(more)].table, p, label)
    BY <1>2, <1>5, <1>6, <1>8
  <2>. QED
    BY <1>2, <1>4, <2>1, <2>2, UptoPush
<1>12. Wrote(tables, more, start, new)
  BY <1>4, <1>5, <1>8, <1>11 DEF Wrote
<1>13. Going(tables, more, start, new)
  BY <1>3, <1>5, <1>8, <1>10, <1>12 DEF Going
<1>. QED
  BY <1>13 DEF frame, m, rest, top, more, label, new

\* The table on top has its last bracket: one frame less, or the value is through.
LEMMA TableClosed ==
    ASSUME NEW tables, NEW frames, NEW start, NEW text, Going(tables, frames, start, text),
           Last(frames).left = {},
           NEW new, new = text \o <<Close(tables[Last(frames).table])>>
    PROVE  /\ Fits(tables)[Level(Len(frames)) + 1][Last(frames).table]
           /\ new \in Texts
           /\ Len(frames) = 1 => new = Cat(start, Text(tables)[MaxDepth + 1][frames[1].table])
           /\ Len(frames) # 1 => Going(tables, Front(frames), start, new)
<1>. DEFINE m == Len(frames)
            top == Last(frames)
            fewer == Front(frames)
<1>1. /\ frames \in Seq(Frame) /\ frames # <<>> /\ m \in 1 .. MaxDepth + 1
      /\ tables \in [Table -> Contents] /\ text \in Texts /\ start \in Texts
      /\ top = frames[m] /\ top \in Frame /\ FrameOk(tables, top)
      /\ Level(m) \in 0 .. MaxDepth /\ Frames(tables, frames)
  BY GoingIs DEF Going
<1>2. PICK p \in Texts : Upto(tables, frames, start, p) /\ OnTop(tables, top, Level(m), p, text)
  BY GoingIs
<1>3. /\ Fits(tables)[Level(m) + 1][top.table]
      /\ new = p \o Text(tables)[Level(m) + 1][top.table] /\ new \in Texts
  <2>. DEFINE closed == text \o <<Close(tables[top.table])>>
  <2>1. /\ Fits(tables)[Level(m) + 1][top.table]
        /\ closed = p \o Text(tables)[Level(m) + 1][top.table] /\ closed \in Texts
    BY <1>1, <1>2, EndTable
  <2>2. new = closed
    OBVIOUS
  <2>. HIDE DEF closed
  <2>. QED
    BY <2>1, <2>2
<1>4. ASSUME m = 1 PROVE new = Cat(start, Text(tables)[MaxDepth + 1][frames[1].table])
  <2>1. p = start
    BY <1>1, <1>2, <1>4, UptoFirst
  <2>2. Level(m) + 1 = MaxDepth + 1
    BY <1>1, <1>4, LevelIs, LuaContextAssumption
  <2>. QED
    BY <1>1, <1>3, <1>4, <2>1, <2>2 DEF Cat
<1>5. ASSUME m # 1 PROVE Going(tables, fewer, start, new)
  <2>1. /\ fewer \in Seq(Frame) /\ Len(fewer) = m - 1
        /\ \A i \in 1 .. m - 1 : fewer[i] = frames[i]
    BY <1>1, OthersAre
  <2>2. /\ Len(fewer) \in Nat \ {0} /\ Len(frames) = Len(fewer) + 1
        /\ \A i \in 1 .. Len(fewer) : fewer[i] = frames[i]
        /\ Len(fewer) \in 1 .. MaxDepth + 1
    <3>. HIDE DEF fewer, m
    <3>1. m - 1 \in Nat \ {0} /\ m = (m - 1) + 1 /\ m - 1 \in 1 .. MaxDepth + 1
      BY <1>1, <1>5, LuaContextAssumption
    <3>. QED
      BY <2>1, <3>1 DEF m
  <2>3. PICK q \in Texts :
           /\ Upto(tables, fewer, start, q)
           /\ Inside(tables, fewer[Len(fewer)], Level(Len(fewer)), frames[Len(frames)].table, q, p)
    BY <1>2, <2>2, UptoPop
  <2>4. Level(Len(fewer)) = Level(m) + 1 /\ Level(Len(fewer)) \in 0 .. MaxDepth + 1
    BY <1>1, <2>1, <2>2, LevelIs
  <2>5. fewer[Len(fewer)] \in Frame
    BY <2>1, <2>2
  <2>6. OnTop(tables, fewer[Len(fewer)], Level(Len(fewer)), q,
              p \o Text(tables)[Level(Len(fewer))][top.table])
    BY <1>1, <1>3, <2>3, <2>4, <2>5, LeaveKey
  <2>7. fewer # <<>>
    BY <2>2
  <2>8. Wrote(tables, fewer, start, new)
    <3>. HIDE DEF fewer
    <3>. QED
      BY <1>3, <2>3, <2>4, <2>6, <2>7 DEF Wrote
  <2>9. Frames(tables, fewer)
    BY <1>1, FramesFewer
  <2>. QED
    BY <1>1, <1>3, <2>7, <2>8, <2>9 DEF Going
<1>. QED
  BY <1>3, <1>4, <1>5
-----------------------------------------------------------------------------
\* A value that is not in a table.
LEMMA FirstTable ==
    ASSUME NEW tables \in [Table -> Contents], NEW v \in Table, Uniform(tables[v]),
           NEW start \in Texts
    PROVE  Going(tables, <<[table |-> v, left |-> DOMAIN tables[v]]>>, start,
                 start \o <<Open(tables[v])>>)
<1>. DEFINE top == [table |-> v, left |-> DOMAIN tables[v]]
            frames == <<top>>
            new == start \o <<Open(tables[v])>>
<1>1. 1 \in 1 .. MaxDepth + 1 /\ MaxDepth \in Nat
  BY LuaContextAssumption
<1>2. /\ top \in Frame /\ FrameOk(tables, top) /\ OnTop(tables, top, Level(1), start, new)
      /\ new \in Texts
  BY <1>1, LevelIs, BeginTable
<1>. HIDE DEF top, new
<1>3. frames \in Seq(Frame) /\ Len(frames) = 1 /\ frames[1] = top /\ frames # <<>>
  <2>. HIDE DEF Frame
  <2>. QED
    BY <1>2
<1>. HIDE DEF frames
<1>4. Frames(tables, frames)
  BY <1>1, <1>2, <1>3 DEF Frames
<1>5. Upto(tables, frames, start, start)
  BY <1>3, UptoFirst
<1>6. Wrote(tables, frames, start, new)
  BY <1>2, <1>3, <1>5 DEF Wrote
<1>. QED
  BY <1>2, <1>3, <1>4, <1>6 DEF Going, top, new, frames

LEMMA TextOfNone ==
    ASSUME NEW tables, NEW values
    PROVE  TextOfFirst(tables, values, 0) = <<>>
<1>1. [i \in 1 .. 0 |-> Text(tables)[MaxDepth + 1][values[i]]] = <<>>
  OBVIOUS
<1>2. <<>> \in Seq(Seq(Token)) /\ \A i \in 1 .. Len(<<>>) : <<>>[i] = <<>>
  OBVIOUS
<1>3. FlattenSeq(<<>>) = <<>>
  BY ONLY <1>2, FlattenEmpty
<1>. QED
  BY <1>1, <1>3, Zenon DEF TextOfFirst

\* One more value that is through adds its text.
LEMMA TextOfNext ==
    ASSUME NEW tables \in [Table -> Contents], NEW values \in Seq(Value),
           NEW n \in 0 .. Len(values)
    PROVE  /\ TextOfFirst(tables, values, n) \in Texts
           /\ n # 0 => /\ Text(tables)[MaxDepth + 1][values[n]] \in Texts
                       /\ TextOfFirst(tables, values, n) =
                             TextOfFirst(tables, values, n - 1)
                             \o Text(tables)[MaxDepth + 1][values[n]]
<1>. DEFINE text == Text(tables)[MaxDepth + 1]
            r == [i \in 1 .. n |-> text[values[i]]]
            s == [i \in 1 .. n - 1 |-> text[values[i]]]
<1>1. MaxDepth + 1 \in 0 .. MaxDepth + 1 /\ n \in Nat
  BY LuaContextAssumption
<1>2. text \in [Value -> Texts]
  BY <1>1, TextIs
<1>3. \A i \in 1 .. n : values[i] \in Value
  OBVIOUS
<1>. HIDE DEF text
<1>4. \A i \in 1 .. n : text[values[i]] \in Texts
  BY <1>2, <1>3
<1>5. /\ r \in Seq(Texts) /\ Len(r) = n /\ \A i \in 1 .. n : r[i] = text[values[i]]
  <2>. HIDE DEF Texts
  <2>. QED
    BY <1>1, <1>4
<1>6. TextOfFirst(tables, values, n) = FlattenSeq(r) /\ TextOfFirst(tables, values, n - 1) = FlattenSeq(s)
  BY DEF TextOfFirst, text
<1>7. ASSUME n # 0
      PROVE  /\ s \in Seq(Texts) /\ Len(s) = n - 1 /\ \A i \in 1 .. n - 1 : s[i] = text[values[i]]
  <2>. DEFINE m == n - 1
  <2>1. m \in Nat /\ \A i \in 1 .. m : i \in 1 .. n
    BY <1>1, <1>7
  <2>. HIDE DEF m, Texts
  <2>2. [i \in 1 .. m |-> text[values[i]]] \in Seq(Texts)
        /\ Len([i \in 1 .. m |-> text[values[i]]]) = m
    BY <1>4, <2>1
  <2>. QED
    BY <2>1, <2>2 DEF m
<1>. HIDE DEF r, s
<1>8. r \in Seq(Seq(Token)) /\ (n # 0 => s \in Seq(Seq(Token)))
  BY <1>5, <1>7 DEF Texts
<1>9. FlattenSeq(r) \in Texts
  <2>1. FlattenSeq(r) \in Seq(Token)
    BY ONLY <1>8, FlattenType
  <2>. QED
    BY <2>1 DEF Texts
<1>10. ASSUME n # 0 PROVE FlattenSeq(r) = FlattenSeq(s) \o r[n]
  <2>1. /\ n \in 1 .. Len(r) /\ n - 1 <= Len(s) /\ Len(s) <= Len(r)
        /\ \A i \in 1 .. n - 1 : r[i] = s[i]
        /\ \A i \in n .. Len(s) : s[i] = <<>>
        /\ \A i \in n + 1 .. Len(r) : r[i] = <<>>
    BY <1>1, <1>5, <1>7, <1>10
  <2>2. s \in Seq(Seq(Token))
    BY <1>8, <1>10
  <2>. QED
    BY ONLY <1>8, <2>1, <2>2, FlattenGrows
<1>11. ASSUME n # 0 PROVE r[n] = text[values[n]] /\ r[n] \in Texts
  BY <1>1, <1>4, <1>5, <1>11
<1>. QED
  BY <1>6, <1>9, <1>10, <1>11 DEF text

-----------------------------------------------------------------------------
\* What does not fit.
LEMMA Unfit ==
    ASSUME NEW tables, NEW n \in 0 .. MaxDepth + 1, NEW v \in Value,
           n = 0 \/ v = "odd" \/ (v \in Table /\ ~Uniform(tables[v]))
    PROVE  ~Fits(tables)[n][v]
<1>1. ~(n > 0 /\ Suits(tables, Fits(tables)[n - 1], v))
  BY ContentsAssumption DEF Suits
<1>. QED
  BY <1>1, FitsIs

LEMMA AtomFits ==
    ASSUME NEW tables \in [Table -> Contents], NEW n \in 1 .. MaxDepth + 1
    PROVE  /\ Fits(tables)[n]["atom"]
           /\ Text(tables)[n]["atom"] = <<[t |-> "atom", n |-> 0]>>
<1>1. n \in 0 .. MaxDepth + 1 /\ n > 0 /\ "atom" \in Value /\ "atom" \notin Table
  BY ContentsAssumption, LuaContextAssumption DEF Value
<1>2. Suits(tables, Fits(tables)[n - 1], "atom")
  BY DEF Suits
<1>3. Fits(tables)[n]["atom"]
  BY <1>1, <1>2, FitsIs
<1>4. Text(tables)[n]["atom"] = Written(tables, Text(tables)[n - 1], "atom")
  BY <1>1, TextIs
<1>. QED
  BY <1>1, <1>3, <1>4 DEF Written

\* A table that holds what does not fit does not fit, which passes an error up.
LEMMA HoldsUnfit ==
    ASSUME NEW tables, NEW n \in 0 .. MaxDepth, NEW t \in Table, NEW u,
           Holds(tables[t], u), ~Fits(tables)[n][u]
    PROVE  ~Fits(tables)[n + 1][t]
<1>1. n + 1 \in 0 .. MaxDepth + 1 /\ (n + 1) - 1 = n /\ t \in Value
  BY LuaContextAssumption DEF Value
<1>2. ~Suits(tables, Fits(tables)[n], t)
  BY ContentsAssumption DEF Suits, Holds
<1>. QED
  BY <1>1, <1>2, FitsIs

\* No table of a cycle fits into any number of levels: one that fits into the fewest
\* holds another that fits into fewer.
LEMMA CycleUnfit ==
    ASSUME NEW tables, NEW steps \in Nat \ {0}, NEW way \in [0 .. steps -> Table],
           way[0] = way[steps],
           \A i \in 1 .. steps : Holds(tables[way[i - 1]], way[i]),
           NEW n \in 0 .. MaxDepth + 1, NEW i \in 0 .. steps
    PROVE  ~Fits(tables)[n][way[i]]
<1>. DEFINE S == {x \in 0 .. MaxDepth + 1 : \E j \in 0 .. steps : Fits(tables)[x][way[j]]}
<1>. SUFFICES ASSUME S # {} PROVE FALSE
  OBVIOUS
<1>1. PICK x \in S : \A y \in S : x <= y
  <2>1. S \subseteq Nat
    OBVIOUS
  <2>. HIDE DEF S
  <2>. QED
    BY <2>1, Least
<1>2. x \in 0 .. MaxDepth + 1
  OBVIOUS
<1>3. PICK j \in 0 .. steps - 1 : Fits(tables)[x][way[j]]
  <2>1. PICK l \in 0 .. steps : Fits(tables)[x][way[l]]
    OBVIOUS
  <2>2. CASE l = steps
    <3>1. 0 \in 0 .. steps - 1
      OBVIOUS
    <3>. QED
      BY <2>1, <2>2, <3>1
  <2>3. CASE l # steps
    <3>1. l \in 0 .. steps - 1
      BY <2>3
    <3>. QED
      BY <2>1, <3>1
  <2>. QED
    BY <2>2, <2>3
<1>4. j \in 0 .. steps /\ j + 1 \in 1 .. steps /\ j + 1 \in 0 .. steps /\ (j + 1) - 1 = j
  OBVIOUS
<1>5. way[j] \in Table /\ way[j] \in Value
  BY <1>4 DEF Value
<1>6. x > 0 /\ Suits(tables, Fits(tables)[x - 1], way[j])
  BY <1>2, <1>3, <1>5, FitsIs
<1>7. Holds(tables[way[j]], way[j + 1])
  BY <1>4
<1>8. Fits(tables)[x - 1][way[j + 1]]
  BY <1>5, <1>6, <1>7, ContentsAssumption DEF Suits, Holds
<1>9. x - 1 \in S
  <2>1. x - 1 \in 0 .. MaxDepth + 1
    BY <1>2, <1>6, LuaContextAssumption
  <2>. QED
    BY <1>4, <1>8, <2>1
<1>10. ~(x <= x - 1)
  BY <1>2
<1>. QED
  BY <1>1, <1>9, <1>10

\* A table that is in a frame already is on a cycle.
LEMMA CycleFound ==
    ASSUME NEW tables, NEW frames, Frames(tables, frames), NEW j \in 1 .. Len(frames),
           Holds(tables[frames[Len(frames)].table], frames[j].table)
    PROVE  /\ Cyclic(tables)
           /\ \A n \in 0 .. MaxDepth + 1 : ~Fits(tables)[n][frames[j].table]
<1>. DEFINE m == Len(frames)
            steps == (m - j) + 1
            way == [i \in 0 .. steps |-> IF i = steps THEN frames[j].table ELSE frames[j + i].table]
<1>1. /\ m \in Nat /\ m <= MaxDepth + 1
      /\ \A i \in 1 .. m : frames[i] \in Frame
      /\ \A i \in 1 .. m - 1 : Holds(tables[frames[i].table], frames[i + 1].table)
  BY DEF Frames
<1>2. \A i \in 1 .. m : frames[i].table \in Table
  BY <1>1 DEF Frame
<1>3. /\ j \in 1 .. m /\ j \in Nat
      /\ Holds(tables[frames[m].table], frames[j].table)
  OBVIOUS
<1>. HIDE DEF m
<1>4. steps \in 1 .. MaxDepth + 1 /\ steps \in Nat \ {0} /\ 0 \in 0 .. steps /\ steps \in 0 .. steps /\ 0 # steps
  BY <1>1, <1>3, LuaContextAssumption
<1>5. \A i \in 0 .. steps : i # steps => j + i \in 1 .. m
  BY <1>1, <1>3
<1>6. way \in [0 .. steps -> Table] /\ way[0] = frames[j].table /\ way[steps] = frames[j].table
  <2>1. \A i \in 0 .. steps : way[i] \in Table
    BY <1>2, <1>3, <1>5
  <2>2. way[0] = frames[j + 0].table /\ j + 0 = j
    BY <1>3, <1>4
  <2>. QED
    BY <1>4, <2>1, <2>2
<1>7. ASSUME NEW i \in 1 .. steps PROVE Holds(tables[way[i - 1]], way[i])
  <2>1. i - 1 \in 0 .. steps /\ i - 1 # steps /\ i \in 0 .. steps
    BY <1>4
  <2>2. way[i - 1] = frames[j + (i - 1)].table
    BY <2>1
  <2>3. CASE i = steps
    <3>1. j + (i - 1) = m
      BY <1>1, <1>3, <2>3
    <3>2. way[i] = frames[j].table
      BY <2>1, <2>3
    <3>. HIDE DEF way, steps
    <3>. QED
      BY <1>3, <2>2, <3>1, <3>2
  <2>4. CASE i # steps
    <3>1. j + (i - 1) \in 1 .. m - 1 /\ (j + (i - 1)) + 1 = j + i
      <4>1. m \in Nat /\ j \in Nat /\ j >= 1 /\ i \in Nat /\ i >= 1 /\ i < (m - j) + 1
        BY <1>1, <1>3, <2>4
      <4>. QED
        BY ONLY <4>1
    <3>2. way[i] = frames[j + i].table
      BY <2>1, <2>4
    <3>. HIDE DEF way, steps
    <3>. QED
      BY <1>1, <2>2, <3>1, <3>2
  <2>. QED
    BY <2>3, <2>4
<1>. HIDE DEF way, steps
<1>8. Cyclic(tables)
  BY <1>4, <1>6, <1>7 DEF Cyclic
<1>9. ASSUME NEW n \in 0 .. MaxDepth + 1 PROVE ~Fits(tables)[n][frames[j].table]
  <2>1. ~Fits(tables)[n][way[0]]
    BY <1>4, <1>6, <1>7, CycleUnfit
  <2>. QED
    BY <1>6, <2>1
<1>. QED
  BY <1>8, <1>9
-----------------------------------------------------------------------------
\* What serialize makes of a value, said with the tables alone.
Refuses(v, depth) ==
    /\ depth > MaxDepth \/ v = "odd" \/ (v \in Table /\ ~Uniform(heap[v]))
    /\ error' \notin {"none", "cycle"}
    /\ stack' = stack /\ visited' = visited /\ json' = json

Recurs(v) ==
    /\ v \in Table /\ v \in visited
    /\ error' = "cycle"
    /\ stack' = stack /\ visited' = visited /\ json' = json

Prints(v, label, depth, frames) ==
    /\ depth <= MaxDepth /\ v = "atom"
    /\ json' = (json \o label) \o <<[t |-> "atom", n |-> 0]>>
    /\ stack' = frames /\ visited' = visited /\ error' = error

Begins(v, label, depth, frames) ==
    /\ depth <= MaxDepth /\ v \in Table /\ Uniform(heap[v])
    /\ json' = (json \o label) \o <<Open(heap[v])>>
    /\ stack' = Append(frames, [table |-> v, left |-> DOMAIN heap[v]])
    /\ visited' = visited \cup {v} /\ error' = error

LEMMA SerialiseDoes ==
    ASSUME NEW v, NEW label, NEW depth, NEW frames, Serialise(v, label, depth, frames),
           heap \in [Table -> Contents]
    PROVE  \/ Refuses(v, depth) \/ Recurs(v)
           \/ Prints(v, label, depth, frames) \/ Begins(v, label, depth, frames)
<1>1. v \in Table => heap[v] \in Contents
  OBVIOUS
<1>2. v \in Table => (Uniform(heap[v]) <=>
                         Keys(v, "other") = {} /\ (IsArray(v) \/ Keys(v, "index") = {}))
  BY <1>1, UniformIsTold
<1>3. v \in Table /\ Uniform(heap[v]) => [t |-> Bracket(v, "[", "{"), n |-> 0] = Open(heap[v])
  BY <1>1, UniformIsTold
<1>4. CASE depth > MaxDepth /\ Fail("depth")
  BY <1>4 DEF Fail, Refuses
<1>5. CASE /\ depth <= MaxDepth /\ v = "atom"
           /\ json' = json \o label \o <<[t |-> "atom", n |-> 0]>>
           /\ stack' = frames
           /\ UNCHANGED <<visited, error>>
  BY <1>5, Zenon DEF Prints
<1>6. CASE v = "odd" /\ Fail("type")
  BY <1>6 DEF Fail, Refuses
<1>7. CASE v \in Table /\ v \in visited /\ Fail("cycle")
  BY <1>7 DEF Fail, Recurs
<1>8. CASE v \in Table /\ Keys(v, "other") # {} /\ Fail("key")
  BY <1>2, <1>8 DEF Fail, Refuses
<1>9. CASE v \in Table /\ ~IsArray(v) /\ Keys(v, "index") # {} /\ Fail("mixed")
  BY <1>2, <1>9 DEF Fail, Refuses
<1>10. CASE /\ depth <= MaxDepth /\ v \in Table
            /\ Keys(v, "other") = {}
            /\ IsArray(v) \/ Keys(v, "index") = {}
            /\ visited' = visited \cup {v}
            /\ stack' = Append(frames, [table |-> v, left |-> DOMAIN heap[v]])
            /\ json' = json \o label \o <<[t |-> Bracket(v, "[", "{"), n |-> 0]>>
            /\ UNCHANGED error
  <2>1. v \in Table /\ Uniform(heap[v])
    BY <1>2, <1>10
  <2>2. [t |-> Bracket(v, "[", "{"), n |-> 0] = Open(heap[v])
    BY <1>3, <2>1
  <2>. QED
    BY <1>10, <2>1, <2>2, Zenon DEF Begins
<1>. QED
  BY <1>4, <1>5, <1>6, <1>7, <1>8, <1>9, <1>10, Zenon DEF Serialise

-----------------------------------------------------------------------------
\* What was written before the value under way.
Start == TextOfFirst(heap, given, Through)

LEMMA WrittenIsGoing ==
    ASSUME StackInv, WrittenInv, stack # <<>>
    PROVE  /\ Going(heap, stack, Start, json) /\ Start \in Texts
           /\ Through = next - 2 /\ Through \in 0 .. Len(given)
           /\ next - 1 \in 1 .. Len(given) /\ given[next - 1] = stack[1].table
<1>1. /\ Through = next - 2 /\ next > 1 /\ next \in 1 .. Len(given) + 1 /\ Len(given) \in Nat
      /\ given[next - 1] = stack[1].table
  BY DEF StackInv, Through
<1>2. Through \in 0 .. Len(given) /\ next - 1 \in 1 .. Len(given)
  BY <1>1
<1>3. Start \in Texts
  BY <1>2, TextOfNext DEF Start, StackInv
<1>4. Going(heap, stack, Start, json)
  BY <1>3 DEF Going, StackInv, WrittenInv, Start
<1>. QED
  BY <1>1, <1>2, <1>3, <1>4

\* A step after which no value is refused, and a table is still being written.
LEMMA GoesOn ==
    ASSUME StackInv, WrittenInv, stack # <<>>, mode' = "serialise",
           heap' = heap, given' = given, next' = next, error' = "none",
           Going(heap, stack', Start, json'), stack'[1].table = stack[1].table,
           visited' \subseteq {stack'[i].table : i \in 1 .. Len(stack')}
    PROVE  JsonInv'
<1>1. stack' # <<>> /\ Frames(heap, stack') /\ json' \in Texts /\ Wrote(heap, stack', Start, json')
  BY DEF Going
<1>2. Through = next - 2 /\ Through' = next - 2
  BY <1>1 DEF Through
<1>3. StackInv'
  BY <1>1 DEF StackInv
<1>4. Start = TextOfFirst(heap', given', Through')
  BY <1>2 DEF Start
<1>5. WrittenInv'
  <2>1. \A i \in 1 .. Through' : Fits(heap')[MaxDepth + 1][given'[i]]
    BY <1>2 DEF WrittenInv
  <2>2. Wrote(heap', stack', TextOfFirst(heap', given', Through'), json')
    BY <1>1, <1>4
  <2>. QED
    BY <2>1, <2>2 DEF WrittenInv
<1>. QED
  BY <1>3, <1>5 DEF JsonInv

\* A value that is refused.
LEMMA GoesWrong ==
    ASSUME StackInv, mode' = "serialise",
           heap' = heap, given' = given, next' = next, error' # "none",
           stack' = stack, visited' = visited, json' = json, stack # <<>>,
           ~Fits(heap)[Level(Len(stack)) + 1][stack[Len(stack)].table],
           error' = "cycle" => Cyclic(heap)
    PROVE  JsonInv'
<1>1. StackInv'
  BY DEF StackInv
<1>2. RefusedInv'
  BY DEF RefusedInv
<1>. QED
  BY <1>1, <1>2 DEF JsonInv

\* The steps of serialize.
LEMMA NextEntryKeeps == JsonInv /\ NextEntry => JsonInv'
<1>. SUFFICES ASSUME JsonInv, NextEntry PROVE JsonInv'
  OBVIOUS
<1>1. /\ mode = "serialise" /\ mode' = "serialise" /\ stack # <<>> /\ error = "none"
      /\ heap' = heap /\ given' = given /\ next' = next
      /\ StackInv /\ WrittenInv
  BY DEF NextEntry, JsonInv
<1>. DEFINE m == Len(stack)
            top == Last(stack)
<1>2. PICK k : /\ k \in top.left /\ \A other \in top.left : k.n <= other.n
               /\ Serialise(heap[top.table][k], Label(k), m, Others(stack, WithoutKey(top, k)))
  BY DEF NextEntry, Top, Label, Others, WithoutKey
<1>. DEFINE v == heap[top.table][k]
            rest == Others(stack, WithoutKey(top, k))
<1>3. /\ Going(heap, stack, Start, json) /\ heap \in [Table -> Contents]
      /\ visited \subseteq {stack[i].table : i \in 1 .. m}
  BY <1>1, WrittenIsGoing DEF StackInv
<1>4. /\ stack \in Seq(Frame) /\ m \in 1 .. MaxDepth + 1 /\ top = stack[m] /\ top \in Frame
      /\ Level(m) \in 0 .. MaxDepth /\ Level(m) \in 0 .. MaxDepth + 1 /\ Frames(heap, stack)
  BY <1>3, GoingIs DEF Going
<1>5. NextKey(stack, k)
  BY <1>2 DEF NextKey
<1>6. /\ WithoutKey(top, k) \in Frame /\ k \in DOMAIN heap[top.table] /\ v \in Value
  BY <1>3, <1>5, KeyEntered
<1>7. /\ Len(rest) = m /\ rest \in Seq(Frame) /\ rest[m] = WithoutKey(top, k)
      /\ \A i \in 1 .. m - 1 : rest[i] = stack[i]
  BY <1>1, <1>4, <1>6, OthersAre
<1>8. \A i \in 1 .. m : rest[i].table = stack[i].table
  <2>1. WithoutKey(top, k).table = top.table
    BY DEF WithoutKey
  <2>2. \A i \in 1 .. m : i = m \/ i \in 1 .. m - 1
    BY <1>4, LuaContextAssumption
  <2>. HIDE DEF rest
  <2>. QED
    BY <1>4, <1>7, <2>1, <2>2
<1>9. Holds(heap[top.table], v) /\ top.table \in Table
  BY <1>4, <1>6 DEF Holds, Frame
<1>10. ASSUME ~Fits(heap)[Level(m)][v] PROVE ~Fits(heap)[Level(m) + 1][stack[m].table]
  BY <1>4, <1>9, <1>10, HoldsUnfit
<1>11. 1 \in 1 .. m /\ m \in Nat
  BY <1>4, LuaContextAssumption
<1>. HIDE DEF v, rest
<1>12. CASE Refuses(v, m)
  <2>1. ~Fits(heap)[Level(m)][v]
    <3>1. m > MaxDepth => Level(m) = 0
      BY <1>4, LuaContextAssumption DEF Level
    <3>. QED
      BY <1>4, <1>6, <1>12, <3>1, Unfit DEF Refuses
  <2>. QED
    BY <1>1, <1>10, <1>12, <2>1, GoesWrong DEF Refuses
<1>13. CASE Recurs(v)
  <2>1. PICK j \in 1 .. m : v = stack[j].table
    BY <1>3, <1>13 DEF Recurs
  <2>2. Holds(heap[stack[m].table], stack[j].table)
    BY <1>4, <1>9, <2>1
  <2>3. Cyclic(heap) /\ \A n \in 0 .. MaxDepth + 1 : ~Fits(heap)[n][stack[j].table]
    BY <1>4, <2>2, CycleFound
  <2>4. ~Fits(heap)[Level(m)][v]
    BY <1>4, <2>1, <2>3
  <2>. QED
    BY <1>1, <1>10, <1>13, <2>3, <2>4, GoesWrong DEF Recurs
<1>14. CASE Prints(v, Label(k), m, rest)
  <2>1. Level(m) \in 1 .. MaxDepth + 1
    BY <1>4, <1>14, LuaContextAssumption DEF Prints, Level
  <2>2. Fits(heap)[Level(m)][v] /\ Text(heap)[Level(m)][v] = <<[t |-> "atom", n |-> 0]>>
    BY <1>3, <1>14, <2>1, AtomFits DEF Prints
  <2>3. Going(heap, rest, Start, (json \o Label(k)) \o Text(heap)[Level(m)][v])
    BY <1>3, <1>5, <2>2, ValueWritten DEF v, rest
  <2>4. Going(heap, stack', Start, json')
    BY <1>14, <2>2, <2>3, Zenon DEF Prints
  <2>5. stack' = rest /\ visited' = visited /\ error' = "none"
    BY <1>1, <1>14 DEF Prints
  <2>6. visited' \subseteq {stack'[i].table : i \in 1 .. Len(stack')}
    BY <1>3, <1>7, <1>8, <2>5
  <2>7. stack'[1].table = stack[1].table
    BY <1>8, <1>11, <2>5
  <2>. QED
    BY <1>1, <2>4, <2>5, <2>6, <2>7, GoesOn
<1>15. CASE Begins(v, Label(k), m, rest)
  <2>. DEFINE new == [table |-> v, left |-> DOMAIN heap[v]]
  <2>1. v \in Table /\ Uniform(heap[v]) /\ m <= MaxDepth
    BY <1>15 DEF Begins
  <2>2. /\ stack' = Append(rest, new) /\ visited' = visited \cup {v} /\ error' = "none"
        /\ json' = (json \o Label(k)) \o <<Open(heap[v])>>
    BY <1>1, <1>15 DEF Begins
  <2>3. Going(heap, Append(rest, new), Start, (json \o Label(k)) \o <<Open(heap[v])>>)
    BY <1>3, <1>5, <2>1, TableEntered DEF v, rest
  <2>4. Going(heap, stack', Start, json')
    BY <2>2, <2>3, Zenon
  <2>5. new \in Frame
    <3>1. DOMAIN heap[v] \subseteq Key
      BY <1>3, <2>1, ContentsAssumption DEF Key
    <3>. QED
      BY <2>1, <3>1 DEF Frame
  <2>6. /\ Len(stack') = m + 1 /\ stack'[m + 1] = new
        /\ \A i \in 1 .. m : stack'[i] = rest[i]
    BY <1>7, <2>2, <2>5, OneMore
  <2>7. \A i \in 1 .. m : stack'[i].table = stack[i].table
    BY <1>8, <2>6
  <2>8. stack'[m + 1].table = v
    BY <2>6
  <2>. HIDE DEF new
  <2>9. visited' \subseteq {stack'[i].table : i \in 1 .. Len(stack')}
    <3>1. \A i \in 1 .. m : i \in 1 .. Len(stack')
      BY <1>11, <2>6
    <3>2. m + 1 \in 1 .. Len(stack')
      BY <1>11, <2>6
    <3>3. ASSUME NEW t \in visited PROVE t \in {stack'[i].table : i \in 1 .. Len(stack')}
      <4>1. PICK i \in 1 .. m : t = stack[i].table
        BY <1>3
      <4>. QED
        BY <2>7, <3>1, <4>1
    <3>4. v \in {stack'[i].table : i \in 1 .. Len(stack')}
      BY <2>8, <3>2
    <3>. QED
      BY <2>2, <3>3, <3>4
  <2>10. stack'[1].table = stack[1].table
    BY <1>11, <2>7
  <2>. QED
    BY <1>1, <2>2, <2>4, <2>9, <2>10, GoesOn
<1>. QED
  <2>1. Refuses(v, m) \/ Recurs(v) \/ Prints(v, Label(k), m, rest) \/ Begins(v, Label(k), m, rest)
    BY <1>2, <1>3, SerialiseDoes DEF v, rest
  <2>. QED
    BY <1>12, <1>13, <1>14, <1>15, <2>1
\* A table, or a value, that is through.
LEMMA TextIsDone ==
    ASSUME heap \in [Table -> Contents], given \in Seq(Value), NEW n \in 1 .. Len(given),
           \A i \in 1 .. n - 1 : Fits(heap)[MaxDepth + 1][given[i]],
           Fits(heap)[MaxDepth + 1][given[n]],
           json' = TextOfFirst(heap, given, n - 1) \o Text(heap)[MaxDepth + 1][given[n]],
           mode' = "serialise", heap' = heap, given' = given, next' = n + 1,
           error' = "none", stack' = <<>>, visited' = {}
    PROVE  JsonInv'
<1>1. n \in Nat /\ n # 0 /\ n \in 0 .. Len(given) /\ n + 1 \in 1 .. Len(given) + 1 /\ (n + 1) - 1 = n
  OBVIOUS
<1>2. json' = TextOfFirst(heap, given, n) /\ json' \in Texts
  BY <1>1, TextOfNext
<1>3. Through' = n
  BY <1>1 DEF Through
<1>4. Frames(heap, <<>>)
  <2>1. <<>> \in Seq(Frame) /\ Len(<<>>) = 0 /\ 0 <= MaxDepth + 1
    BY LuaContextAssumption
  <2>. QED
    BY <2>1 DEF Frames
<1>5. StackInv'
  BY <1>1, <1>2, <1>4 DEF StackInv
<1>6. \A i \in 1 .. n : Fits(heap)[MaxDepth + 1][given[i]]
  <2>1. \A i \in 1 .. n : i = n \/ i \in 1 .. n - 1
    OBVIOUS
  <2>. QED
    BY <2>1
<1>7. WrittenInv'
  BY <1>2, <1>3, <1>6 DEF WrittenInv, Wrote
<1>. QED
  BY <1>5, <1>7 DEF JsonInv

LEMMA CloseTableKeeps == JsonInv /\ CloseTable => JsonInv'
<1>. SUFFICES ASSUME JsonInv, CloseTable PROVE JsonInv'
  OBVIOUS
<1>1. /\ mode = "serialise" /\ mode' = "serialise" /\ stack # <<>> /\ error = "none" /\ error' = "none"
      /\ heap' = heap /\ given' = given /\ next' = next
      /\ StackInv /\ WrittenInv
  BY DEF CloseTable, JsonInv
<1>2. /\ visited' = visited \ {Last(stack).table} /\ stack' = Front(stack)
      /\ Last(stack).left = {}
      /\ json' = Append(json, [t |-> Bracket(Last(stack).table, "]", "}"), n |-> 0])
  BY DEF CloseTable, Top
<1>. DEFINE m == Len(stack)
            top == Last(stack)
<1>3. /\ Going(heap, stack, Start, json) /\ heap \in [Table -> Contents]
      /\ visited \subseteq {stack[i].table : i \in 1 .. m}
      /\ Through = next - 2 /\ next - 1 \in 1 .. Len(given) /\ given[next - 1] = stack[1].table
      /\ given \in Seq(Value) /\ json \in Texts
  BY <1>1, WrittenIsGoing DEF StackInv
<1>4. /\ stack \in Seq(Frame) /\ m \in 1 .. MaxDepth + 1 /\ top = stack[m] /\ top \in Frame
      /\ FrameOk(heap, top)
  BY <1>3, GoingIs
<1>5. json' = json \o <<Close(heap[top.table])>>
  <2>1. top.table \in Table /\ heap[top.table] \in Contents /\ Uniform(heap[top.table])
    BY <1>3, <1>4 DEF Frame, FrameOk
  <2>2. [t |-> Bracket(top.table, "]", "}"), n |-> 0] = Close(heap[top.table])
    BY <2>1, UniformIsTold
  <2>3. Append(json, Close(heap[top.table])) = json \o <<Close(heap[top.table])>>
    <3>1. Close(heap[top.table]) \in Token
      BY DEF Close, Token
    <3>. HIDE DEF Token, top
    <3>. QED
      BY <1>3, <3>1, AppendIsConcat DEF Texts
  <2>. QED
    BY <1>2, <2>2, <2>3, Zenon
<1>6. /\ Fits(heap)[Level(m) + 1][top.table]
      /\ m = 1 => json' = Cat(Start, Text(heap)[MaxDepth + 1][stack[1].table])
      /\ m # 1 => Going(heap, stack', Start, json')
  BY <1>2, <1>3, <1>5, TableClosed
<1>7. /\ Len(stack') = m - 1 /\ \A i \in 1 .. m - 1 : stack'[i] = stack[i]
      /\ stack' \in Seq(Frame)
  BY <1>1, <1>2, <1>4, OthersAre
<1>8. \A t \in visited' : \E i \in 1 .. m - 1 : t = stack[i].table
  <2>1. ASSUME NEW t \in visited' PROVE \E i \in 1 .. m - 1 : t = stack[i].table
    <3>1. t \in visited /\ t # stack[m].table
      BY <1>2, <1>4
    <3>2. PICK i \in 1 .. m : t = stack[i].table
      BY <1>3, <3>1
    <3>3. i \in 1 .. m - 1
      BY <1>4, <3>1, <3>2, LuaContextAssumption
    <3>. QED
      BY <3>2, <3>3
  <2>. QED
    BY <2>1
<1>9. CASE m = 1
  <2>. DEFINE n == next - 1
  <2>1. n \in 1 .. Len(given) /\ next' = n + 1 /\ Through = n - 1 /\ given[n] = stack[1].table
    <3>1. next \in Int
      BY <1>1 DEF StackInv
    <3>. QED
      BY <1>1, <1>3, <3>1
  <2>2. stack' = <<>> /\ visited' = {}
    BY <1>7, <1>8, <1>9
  <2>3. Level(m) + 1 = MaxDepth + 1 /\ top = stack[1]
    BY <1>4, <1>9, LuaContextAssumption DEF Level
  <2>4. Fits(heap)[MaxDepth + 1][given[n]]
    BY <1>6, <2>1, <2>3
  <2>5. \A i \in 1 .. n - 1 : Fits(heap)[MaxDepth + 1][given[i]]
    BY <1>1, <2>1 DEF WrittenInv
  <2>6. json' = TextOfFirst(heap, given, n - 1) \o Text(heap)[MaxDepth + 1][given[n]]
    BY <1>6, <1>9, <2>1, Zenon DEF Start, Cat
  <2>. HIDE DEF n
  <2>. QED
    BY <1>1, <1>3, <2>1, <2>2, <2>4, <2>5, <2>6, TextIsDone
<1>10. CASE m # 1
  <2>1. 1 \in 1 .. m - 1
    <3>1. m \in 1 .. MaxDepth + 1 /\ MaxDepth \in Nat /\ m # 1
      BY <1>4, <1>10, LuaContextAssumption
    <3>. HIDE DEF m
    <3>. QED
      BY ONLY <3>1
  <2>2. stack'[1].table = stack[1].table
    BY <1>7, <2>1
  <2>3. visited' \subseteq {stack'[i].table : i \in 1 .. Len(stack')}
    BY <1>7, <1>8
  <2>. QED
    BY <1>1, <1>6, <1>10, <2>2, <2>3, GoesOn
<1>. QED
  BY <1>9, <1>10

LEMMA NextArgumentKeeps == JsonInv /\ NextArgument => JsonInv'
<1>. SUFFICES ASSUME JsonInv, NextArgument PROVE JsonInv'
  OBVIOUS
<1>. DEFINE v == given[next]
<1>1. /\ mode = "serialise" /\ mode' = "serialise" /\ stack = <<>> /\ error = "none"
      /\ heap' = heap /\ given' = given /\ next' = next + 1 /\ next <= Len(given)
      /\ Serialise(v, <<>>, 0, <<>>)
      /\ StackInv /\ WrittenInv
  BY DEF NextArgument, JsonInv
<1>2. /\ heap \in [Table -> Contents] /\ given \in Seq(Value) /\ next \in 1 .. Len(given)
      /\ json \in Texts /\ visited = {} /\ v \in Value
      /\ Through = next - 1 /\ next \in Nat \ {0} /\ next - 1 \in 0 .. Len(given)
      /\ next + 1 \in 1 .. Len(given) + 1 /\ next + 1 > 1 /\ (next + 1) - 1 = next
      /\ (next + 1) - 2 = next - 1
  BY <1>1 DEF StackInv, Through
<1>3. /\ json = TextOfFirst(heap, given, next - 1)
      /\ \A i \in 1 .. next - 1 : Fits(heap)[MaxDepth + 1][given[i]]
  BY <1>1, <1>2 DEF WrittenInv, Wrote
<1>4. json \o <<>> = json
  BY <1>2, ConcatTexts
<1>5. MaxDepth + 1 \in 1 .. MaxDepth + 1 /\ MaxDepth + 1 \in 0 .. MaxDepth + 1 /\ MaxDepth >= 0
  BY LuaContextAssumption
<1>6. ~Recurs(v)
  BY <1>2 DEF Recurs
<1>. HIDE DEF v
<1>7. CASE Refuses(v, 0)
  <2>1. ~Fits(heap)[MaxDepth + 1][v]
    BY <1>2, <1>5, <1>7, LuaContextAssumption, Unfit DEF Refuses
  <2>2. StackInv'
    BY <1>1, <1>2, <1>7 DEF StackInv, Refuses
  <2>3. RefusedInv'
    BY <1>1, <1>2, <1>7, <2>1 DEF RefusedInv, Refuses, v
  <2>. QED
    BY <1>1, <1>7, <2>2, <2>3 DEF JsonInv, Refuses
<1>8. CASE Prints(v, <<>>, 0, <<>>)
  <2>1. Fits(heap)[MaxDepth + 1][v] /\ Text(heap)[MaxDepth + 1][v] = <<[t |-> "atom", n |-> 0]>>
    BY <1>2, <1>5, <1>8, AtomFits DEF Prints
  <2>2. json' = json \o Text(heap)[MaxDepth + 1][v]
    BY <1>4, <1>8, <2>1, Zenon DEF Prints
  <2>3. stack' = <<>> /\ visited' = {} /\ error' = "none"
    BY <1>1, <1>2, <1>8 DEF Prints
  <2>. QED
    BY <1>1, <1>2, <1>3, <2>1, <2>2, <2>3, TextIsDone DEF v
<1>9. CASE Begins(v, <<>>, 0, <<>>)
  <2>. DEFINE new == [table |-> v, left |-> DOMAIN heap[v]]
  <2>1. v \in Table /\ Uniform(heap[v]) /\ visited' = {v} /\ error' = "none"
    BY <1>1, <1>2, <1>9 DEF Begins
  <2>2. stack' = <<new>> /\ json' = json \o <<Open(heap[v])>>
    <3>1. stack' = Append(<<>>, new)
      BY <1>9 DEF Begins
    <3>2. Append(<<>>, new) = <<new>>
      <4>. HIDE DEF new
      <4>. QED
        OBVIOUS
    <3>. QED
      BY <1>4, <1>9, <3>1, <3>2, Zenon DEF Begins
  <2>3. Going(heap, stack', json, json')
    BY <1>2, <2>1, <2>2, FirstTable
  <2>4. stack' # <<>> /\ Len(stack') = 1 /\ stack'[1].table = v
    <3>1. new.table = v
      OBVIOUS
    <3>. HIDE DEF new
    <3>. QED
      BY <2>2, <3>1
  <2>5. StackInv'
    <3>1. visited' \subseteq {stack'[i].table : i \in 1 .. Len(stack')}
      BY <2>1, <2>4
    <3>2. given[(next + 1) - 1] = stack'[1].table
      BY <1>2, <2>4 DEF v
    <3>. QED
      BY <1>1, <1>2, <2>3, <2>4, <3>1, <3>2 DEF StackInv, Going
  <2>6. WrittenInv'
    <3>1. Through' = next - 1
      BY <1>1, <1>2, <2>4 DEF Through
    <3>2. Wrote(heap, stack', json, json')
      BY <2>3 DEF Going
    <3>. QED
      BY <1>1, <1>3, <3>1, <3>2 DEF WrittenInv
  <2>. QED
    BY <1>1, <2>1, <2>5, <2>6 DEF JsonInv
<1>. QED
  BY <1>1, <1>2, <1>6, <1>7, <1>8, <1>9, SerialiseDoes

LEMMA PassErrorUpKeeps == JsonInv /\ PassErrorUp => JsonInv'
<1>. SUFFICES ASSUME JsonInv, PassErrorUp PROVE JsonInv'
  OBVIOUS
<1>. DEFINE m == Len(stack)
<1>1. /\ mode = "serialise" /\ mode' = "serialise" /\ stack # <<>> /\ error # "none" /\ error' = error
      /\ heap' = heap /\ given' = given /\ next' = next /\ json' = json
      /\ visited' = visited \ {Last(stack).table} /\ stack' = Front(stack)
      /\ StackInv /\ RefusedInv /\ (error = "cycle" => Cyclic(heap))
  BY DEF PassErrorUp, JsonInv, Top
<1>2. /\ Frames(heap, stack) /\ stack \in Seq(Frame) /\ m <= MaxDepth + 1
      /\ next > 1 /\ given[next - 1] = stack[1].table
      /\ visited \subseteq {stack[i].table : i \in 1 .. m}
      /\ \A i \in 1 .. m - 1 : Holds(heap[stack[i].table], stack[i + 1].table)
      /\ ~Fits(heap)[Level(m) + 1][stack[m].table]
  BY <1>1 DEF StackInv, RefusedInv, Frames
<1>3. m \in Nat \ {0} /\ Last(stack) = stack[m] /\ stack[m] \in Frame
  BY <1>1, <1>2 DEF Last
<1>4. /\ Len(stack') = m - 1 /\ \A i \in 1 .. m - 1 : stack'[i] = stack[i]
      /\ stack' \in Seq(Frame) /\ Frames(heap, stack')
  <2>1. Frames(heap, stack')
    BY <1>1, <1>2, FramesFewer
  <2>. QED
    BY <1>1, <1>2, <1>3, <2>1, OthersAre
<1>5. ASSUME NEW t \in visited' PROVE t \in {stack'[i].table : i \in 1 .. Len(stack')}
  <2>1. t \in visited /\ t # stack[m].table
    BY <1>1, <1>3
  <2>2. PICK i \in 1 .. m : t = stack[i].table
    BY <1>2, <2>1
  <2>3. i \in 1 .. m - 1
    BY <1>3, <2>1, <2>2
  <2>4. t = stack'[i].table /\ i \in 1 .. Len(stack')
    BY <1>4, <2>2, <2>3
  <2>. QED
    BY <2>4
<1>6. CASE m = 1
  <2>1. stack' = <<>>
    BY <1>4, <1>6
  <2>2. Level(m) + 1 = MaxDepth + 1
    BY <1>6, LuaContextAssumption DEF Level
  <2>3. ~Fits(heap)[MaxDepth + 1][given[next - 1]]
    BY <1>2, <1>6, <2>2
  <2>4. StackInv'
    BY <1>1, <1>4, <1>5, <2>1 DEF StackInv
  <2>5. RefusedInv'
    BY <1>1, <1>2, <2>1, <2>3 DEF RefusedInv
  <2>. QED
    BY <1>1, <2>4, <2>5 DEF JsonInv
<1>7. CASE m # 1
  <2>. DEFINE l == m - 1
  <2>1. l \in Nat \ {0} /\ l + 1 = m /\ l \in 1 .. m - 1 /\ m \in 1 .. MaxDepth + 1 /\ 1 \in 1 .. m - 1
    <3>1. m \in Nat \ {0} /\ m <= MaxDepth + 1 /\ MaxDepth \in Nat /\ m # 1
      BY <1>2, <1>3, <1>7, LuaContextAssumption
    <3>. HIDE DEF m
    <3>. QED
      BY ONLY <3>1
  <2>2. Level(l) = Level(m) + 1 /\ Level(m) + 1 \in 0 .. MaxDepth
    BY <1>2, <1>3, <2>1, LuaContextAssumption DEF Level
  <2>3. Holds(heap[stack[l].table], stack[m].table) /\ stack[l].table \in Table
    <3>1. stack[l] \in Frame
      BY <1>2, <2>1
    <3>. QED
      BY <1>2, <2>1, <3>1 DEF Frame
  <2>4. ~Fits(heap)[Level(l) + 1][stack[l].table]
    BY <1>2, <2>2, <2>3, HoldsUnfit
  <2>5. /\ stack' # <<>> /\ Len(stack') = l /\ stack'[l] = stack[l] /\ stack'[1] = stack[1]
    BY <1>4, <2>1
  <2>6. StackInv'
    BY <1>1, <1>2, <1>4, <1>5, <2>5 DEF StackInv
  <2>7. RefusedInv'
    BY <1>1, <2>4, <2>5 DEF RefusedInv
  <2>. QED
    BY <1>1, <2>6, <2>7 DEF JsonInv
<1>. QED
  BY <1>6, <1>7
LEMMA InitJsonInv == Init => JsonInv
BY DEF Init, ContextInit, JsonInv

LEMMA ExecuteKeeps == JsonInv /\ Execute => JsonInv'
<1>. SUFFICES ASSUME JsonInv, Execute PROVE JsonInv'
  OBVIOUS
<1>1. /\ mode' = "serialise" /\ given' \in Seq(Value) /\ heap' \in [Table -> Contents]
      /\ next' = 1 /\ stack' = <<>> /\ visited' = {} /\ json' = <<>> /\ error' = "none"
  BY ContentsAssumption DEF Execute, JsonInv
<1>2. Frames(heap', <<>>)
  <2>1. <<>> \in Seq(Frame) /\ Len(<<>>) = 0 /\ 0 <= MaxDepth + 1
    BY LuaContextAssumption
  <2>. QED
    BY <2>1 DEF Frames
<1>3. StackInv'
  <2>1. 1 \in 1 .. Len(given') + 1
    BY <1>1
  <2>. QED
    BY <1>1, <1>2, <2>1, ConcatTexts DEF StackInv
<1>4. WrittenInv'
  <2>1. Through' = 0
    BY <1>1 DEF Through
  <2>2. TextOfFirst(heap', given', 0) = <<>>
    BY TextOfNone
  <2>. QED
    BY <1>1, <2>1, <2>2 DEF WrittenInv, Wrote
<1>. QED
  BY <1>1, <1>3, <1>4 DEF JsonInv

LEMMA ReturnKeeps == JsonInv /\ Return => JsonInv'
<1>. SUFFICES ASSUME JsonInv, Return PROVE JsonInv'
  OBVIOUS
<1>1. /\ mode = "serialise" /\ mode' = "returned" /\ stack = <<>> /\ (next > Len(given) \/ error # "none")
      /\ UNCHANGED valueVars
  BY DEF Return
<1>2. StackInv /\ (error = "none" => WrittenInv) /\ (error # "none" => RefusedInv)
      /\ (error = "cycle" => Cyclic(heap))
  BY <1>1 DEF JsonInv
<1>3. StackInv'
  BY <1>1, <1>2 DEF StackInv, valueVars
<1>4. error = "none" => WrittenInv'
  BY <1>1, <1>2 DEF WrittenInv, Through, valueVars
<1>5. error # "none" => RefusedInv'
  BY <1>1, <1>2 DEF RefusedInv, valueVars
<1>. QED
  BY <1>1, <1>2, <1>3, <1>4, <1>5 DEF JsonInv, valueVars

\* Whatever else is done leaves what a script returns alone.
LEMMA ValueKept ==
    ASSUME JsonInv, UNCHANGED valueVars,
           mode' = mode \/ (mode \notin {"serialise", "returned"} /\ mode' \notin {"serialise", "returned"})
    PROVE  JsonInv'
<1>1. StackInv => StackInv'
  BY DEF StackInv, valueVars
<1>2. WrittenInv => WrittenInv'
  BY DEF WrittenInv, Through, valueVars
<1>3. RefusedInv => RefusedInv'
  BY DEF RefusedInv, valueVars
<1>. QED
  BY <1>1, <1>2, <1>3 DEF JsonInv, valueVars

LEMMA StepJsonInv == JsonInv /\ [Next]_vars => JsonInv'
<1>. SUFFICES ASSUME JsonInv, [Next]_vars PROVE JsonInv'
  OBVIOUS
<1>1. CASE UNCHANGED vars
  BY <1>1, ValueKept DEF vars, contextVars, valueVars
<1>2. ASSUME NEW t \in Tool, RegisterTool(t) PROVE JsonInv'
  BY <1>2, ValueKept DEF RegisterTool
<1>3. CASE BindTools
  BY <1>3, ValueKept DEF BindTools
<1>4. ASSUME NEW name \in unbound, Bind(name) PROVE JsonInv'
  BY <1>4, ValueKept DEF Bind
<1>5. CASE FinishBinding
  BY <1>5, ValueKept DEF FinishBinding
<1>6. CASE Execute
  BY <1>6, ExecuteKeeps
<1>7. CASE Serialising
  BY <1>7, NextArgumentKeeps, NextEntryKeeps, CloseTableKeeps, PassErrorUpKeeps, ReturnKeeps
     DEF Serialising
<1>8. CASE CallRead
  BY <1>8, ValueKept DEF CallRead
<1>9. CASE ReadBlock
  BY <1>9, ValueKept DEF ReadBlock, contextVars, valueVars
<1>10. CASE Write
  BY <1>10, ValueKept DEF Write, contextVars, valueVars
<1>11. CASE CallList
  BY <1>11, ValueKept DEF CallList, RefuseList
<1>12. CASE FailToStat
  BY <1>12, ValueKept DEF FailToStat, RefuseList
<1>13. CASE ListEntry \/ LeaveLevel \/ FailToIncrement
  BY <1>13, ValueKept DEF ListEntry, LeaveLevel, FailToIncrement, contextVars, valueVars
<1>14. CASE ReturnList
  BY <1>14, ValueKept DEF ReturnList
<1>. QED
  BY <1>1, <1>2, <1>3, <1>4, <1>5, <1>6, <1>7, <1>8, <1>9, <1>10, <1>11, <1>12, <1>13, <1>14
     DEF Next, Context, ContextNext, Listing

LEMMA JsonInvSays == JsonInv => JsonIsOfTheValue
<1>. SUFFICES ASSUME JsonInv, mode = "returned"
              PROVE  /\ error = "cycle" => Cyclic(heap)
                     /\ IF error = "none"
                        THEN /\ \A i \in DOMAIN given : Fits(heap)[MaxDepth + 1][given[i]]
                             /\ json = FlattenSeq([i \in DOMAIN given |->
                                                      Text(heap)[MaxDepth + 1][given[i]]])
                        ELSE \E i \in DOMAIN given : ~Fits(heap)[MaxDepth + 1][given[i]]
  BY DEF JsonIsOfTheValue
<1>1. /\ stack = <<>> /\ StackInv /\ (error = "cycle" => Cyclic(heap))
      /\ (next > Len(given) \/ error # "none")
      /\ (error = "none" => WrittenInv) /\ (error # "none" => RefusedInv)
  BY DEF JsonInv
<1>2. given \in Seq(Value) /\ next \in 1 .. Len(given) + 1 /\ DOMAIN given = 1 .. Len(given)
  BY <1>1 DEF StackInv
<1>3. CASE error = "none"
  <2>1. Through = Len(given)
    BY <1>1, <1>2, <1>3 DEF Through
  <2>2. /\ \A i \in 1 .. Len(given) : Fits(heap)[MaxDepth + 1][given[i]]
        /\ json = TextOfFirst(heap, given, Len(given))
    BY <1>1, <1>3, <2>1 DEF WrittenInv, Wrote
  <2>. QED
    BY <1>1, <1>2, <1>3, <2>2 DEF TextOfFirst
<1>4. CASE error # "none"
  <2>1. next > 1 /\ ~Fits(heap)[MaxDepth + 1][given[next - 1]]
    BY <1>1, <1>4 DEF RefusedInv
  <2>2. next - 1 \in DOMAIN given
    BY <1>2, <2>1
  <2>. QED
    BY <1>1, <1>4, <2>1, <2>2
<1>. QED
  BY <1>3, <1>4

(***************************************************************************)
(* Whatever tables a script makes, of any depth and shape, what fits is    *)
(* given its JSON, and what does not fit, or holds itself, an error.       *)
(***************************************************************************)
THEOREM JsonOfTheValue == Spec => []JsonIsOfTheValue
<1>1. Init => JsonInv
  BY InitJsonInv
<1>2. JsonInv /\ [Next]_vars => JsonInv'
  BY StepJsonInv
<1>3. JsonInv => JsonIsOfTheValue
  BY JsonInvSays
<1>. QED
  BY <1>1, <1>2, <1>3, PTL DEF Spec
=============================================================================
