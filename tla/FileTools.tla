----------------------------- MODULE FileTools ------------------------------
(***************************************************************************)
(* The tools that read files (src/fs_tools.cpp), called from a script      *)
(* through the names LuaContext bound: fs.read, by a script that follows   *)
(* its blocks to the end while others write to the file, and fs.ls.  Both  *)
(* take their arguments by place or from one table                         *)
(* (include/lua_args.hpp).  A script does one thing: it returns a value,   *)
(* reads a file or lists a directory.                                      *)
(*                                                                         *)
(* The file system and its iterator are external.  A file is its length:   *)
(* what is appended goes to its end, and a file that is cut keeps its      *)
(* beginning.  The directory does not change while it is listed.           *)
(***************************************************************************)
EXTENDS LuaContext

CONSTANTS
    Path,      \* paths other than the file's: "", outside the root, no file
    FilePath,  \* the path of the file
    Blocks,    \* max_bytes a script may ask for
    Default,   \* max_bytes of a call without it, 4096
    Cap,       \* max_read_bytes of the tool
    Sizes,     \* lengths of the file
    MaxWrites, \* bound: changes made to it
    Node,      \* what the directory holds, at any depth
    Root,      \* the directory
    Parent,    \* the directory each node is in
    Kind,      \* "dir", "file" or "symlink"
    Depths     \* depths a script asks for

\* A script that asks for no bytes gets nowhere, and none does here.
ASSUME FileToolsAssumption ==
    /\ Blocks \subseteq Nat \ {0} /\ Default \in Nat \ {0} /\ Cap \in Nat \ {0}
    /\ Sizes \subseteq Nat /\ MaxWrites \in Nat
    /\ FilePath \notin Path /\ Root \notin Node
    /\ Parent \in [Node -> Node \cup {Root}]
    /\ Kind \in [Node -> {"dir", "file", "symlink"}]
    /\ \A n \in Node : Parent[n] # Root => Kind[Parent[n]] = "dir"
    /\ Depths \subseteq Nat

VARIABLES
    size, exists, \* of the file
    writes,
    reader,       \* the script: where it is, the next offset it asks for, and
                  \* the arguments and the size of the call under way
    least,        \* the least length the file had so far
    listing       \* the call of fs.ls: the levels of its iterator, and its rows

fileVars == <<size, exists, writes, reader, least>>
vars == <<contextVars, fileVars, listing>>

NoListing == [depth |-> 0, kinds |-> {}, levels |-> <<>>, rows |-> {},
              cut |-> FALSE, refused |-> FALSE]

Init ==
    /\ ContextInit
    /\ size \in Sizes /\ exists = TRUE /\ writes = 0
    /\ reader = [at |-> "call", next |-> 0, offset |-> 0, max |-> 0, seen |-> 0]
    /\ least = size
    /\ listing = NoListing
-----------------------------------------------------------------------------
(***************************************************************************)
(* parse_pos_or_table, for fs.read(path, offset, max_bytes).  What a       *)
(* script hands over is a function from the fields it gives to typed       *)
(* values.  A place that is passed over holds nil, which has no type       *)
(* a field has.                                                            *)
(***************************************************************************)
Fields == <<"path", "offset", "max_bytes">>
Type == [path |-> "string", offset |-> "number", max_bytes |-> "number"]
Defaults == [path |-> "", offset |-> 0, max_bytes |-> Default]

Typed(call, f) == f \in DOMAIN call /\ call[f].type = Type[f]

\* By place, every argument up to the last given must have its type; from a table,
\* one that has not counts as not given.
Refused(form, call) ==
    \/ ~Typed(call, "path")
    \/ /\ form = "places"
       /\ \E i, j \in DOMAIN Fields :
             i <= j /\ Fields[j] \in DOMAIN call /\ ~Typed(call, Fields[i])

Parsed(call) == [f \in DOMAIN Defaults |-> IF Typed(call, f) THEN call[f].value ELSE Defaults[f]]

\* The calls a script makes that wants the file from an offset on.
Number(n) == [type |-> "number", value |-> n]

Paths == {[type |-> "string", value |-> p] : p \in Path \cup {FilePath}}
Maxima == {Number(n) : n \in Blocks} \cup {[type |-> "string", value |-> "1"]}

Calls(offset) ==
    {[path |-> p, offset |-> Number(offset)] : p \in Paths}
    \cup {[path |-> p, offset |-> Number(offset), max_bytes |-> m] : p \in Paths, m \in Maxima}
    \cup {call \in {[path |-> p] : p \in Paths} : offset = 0}
    \cup {call \in {[path |-> p, max_bytes |-> m] : p \in Paths, m \in Maxima} : offset = 0}

MinOf(m, n) == IF m < n THEN m ELSE n
-----------------------------------------------------------------------------
(***************************************************************************)
(* fs.read.  The size is asked for first; the file is opened and read      *)
(* after, and may have changed.                                            *)
(***************************************************************************)
Bound(path) == path \in DOMAIN tree["sandbox"] /\ tree["sandbox"][path] \in Tool

\* Inside the root, existing, regular.
Readable(path) == path = FilePath /\ exists

CallRead ==
    /\ mode \in {"ready", "reading"} /\ reader.at = "call"
    /\ Bound(<<"fs", "read">>)
    /\ mode' = "reading"
    /\ \E call \in Calls(reader.next), form \in {"places", "table"} :
          LET arg == Parsed(call)
          IN  reader' =
                  IF \/ Refused(form, call) \/ ~Readable(arg.path)
                     \/ arg.offset > size
                  THEN [reader EXCEPT !.at = "failed"]
                  ELSE [reader EXCEPT !.at = "sized", !.seen = size,
                            !.offset = arg.offset, !.max = arg.max_bytes]
    /\ UNCHANGED <<bindingVars, valueVars, size, exists, writes, least, listing>>

ToRead == MinOf(reader.max, Cap)
Read == IF reader.offset >= size THEN 0 ELSE MinOf(ToRead, size - reader.offset)

\* Mutant: the bytes asked for are counted, not those read.
EofOfTheRequest == reader.offset + reader.max >= reader.seen

\* Mutant: the end of the file counts as not yet reached.
EofPastTheEnd == reader.offset + Read > reader.seen

Eof == reader.offset + Read >= reader.seen

\* The script adds bytes_read to its offset.
ReadBlock ==
    /\ reader.at = "sized"
    /\ reader' =
           IF ~exists THEN [reader EXCEPT !.at = "failed"]
           ELSE [reader EXCEPT !.at = IF Eof THEN "eof" ELSE "call",
                               !.next = reader.offset + Read]
    /\ UNCHANGED <<contextVars, size, exists, writes, least, listing>>

Write ==
    /\ mode = "reading" /\ exists
    /\ writes < MaxWrites /\ writes' = writes + 1
    /\ \/ size' \in Sizes /\ UNCHANGED exists
       \/ exists' = FALSE /\ size' = 0
    /\ least' = MinOf(least, size')
    /\ UNCHANGED <<contextVars, reader, listing>>
-----------------------------------------------------------------------------
(***************************************************************************)
(* fs.ls.  The iterator holds, for each level it is in, the entries it has *)
(* not come to.  An error of its increment, as of its making, leaves it at *)
(* the end, where the loop stops before it looks at the error.             *)
(***************************************************************************)
Children(d) == {n \in Node : Parent[n] = d}

RefuseList == mode' = "listed" /\ listing' = [listing EXCEPT !.rows = {}, !.refused = TRUE]

\* The arguments may not have their types, as with fs.read, and the path may be
\* no directory inside the root.
CallList ==
    /\ mode = "ready"
    /\ Bound(<<"fs", "ls">>)
    /\ \/ RefuseList
       \/ /\ mode' = "listing"
          /\ \E depth \in Depths, kinds \in SUBSET {"dir", "file", "symlink"},
                made \in BOOLEAN :
                listing' = [NoListing EXCEPT
                    !.depth = depth, !.kinds = kinds, !.cut = ~made,
                    !.levels = IF made THEN <<Children(Root)>> ELSE <<>>]
    /\ UNCHANGED <<bindingVars, valueVars, fileVars>>

\* Mutant: what is not listed is not entered either.
EntersListed(n) ==
    /\ Kind[n] = "dir" /\ "dir" \in listing.kinds
    /\ Len(listing.levels) <= listing.depth

\* disable_recursion_pending where the depth is reached; links are not followed.
Enters(n) == Kind[n] = "dir" /\ Len(listing.levels) <= listing.depth

ListEntry ==
    /\ mode = "listing"
    /\ listing.levels # <<>>
    /\ \E n \in Last(listing.levels) :
          LET rest == Append(Front(listing.levels), Last(listing.levels) \ {n})
              shown == Len(listing.levels) <= listing.depth /\ Kind[n] \in listing.kinds
          IN  \/ listing' = [listing EXCEPT
                     !.rows = IF shown THEN @ \cup {n} ELSE @,
                     !.levels = IF Enters(n) THEN Append(rest, Children(n)) ELSE rest]
              \/ \* The entry cannot be entered: skip_permission_denied.
                 /\ Enters(n)
                 /\ listing' = [listing EXCEPT
                     !.rows = IF shown THEN @ \cup {n} ELSE @,
                     !.levels = rest, !.cut = TRUE]
    /\ UNCHANGED <<contextVars, fileVars>>

\* What an entry is cannot be told.
FailToStat ==
    /\ mode = "listing"
    /\ listing.levels # <<>> /\ Last(listing.levels) # {}
    /\ Len(listing.levels) <= listing.depth
    /\ RefuseList
    /\ UNCHANGED <<bindingVars, valueVars, fileVars>>

LeaveLevel ==
    /\ mode = "listing"
    /\ listing.levels # <<>> /\ Last(listing.levels) = {}
    /\ listing' = [listing EXCEPT !.levels = Front(@)]
    /\ UNCHANGED <<contextVars, fileVars>>

FailToIncrement ==
    /\ mode = "listing"
    /\ listing.levels # <<>>
    /\ listing' = [listing EXCEPT !.levels = <<>>, !.cut = TRUE]
    /\ UNCHANGED <<contextVars, fileVars>>

ReturnList ==
    /\ mode = "listing" /\ listing.levels = <<>>
    /\ mode' = "listed"
    /\ UNCHANGED <<bindingVars, valueVars, fileVars, listing>>

Listing ==
    \/ CallList \/ ListEntry \/ FailToStat \/ LeaveLevel \/ FailToIncrement
    \/ ReturnList
-----------------------------------------------------------------------------
Context == ContextNext /\ UNCHANGED <<fileVars, listing>>

\* The agent thread runs a script as long as it can: nothing in it waits.
Script ==
    \/ Serialising /\ UNCHANGED <<fileVars, listing>>
    \/ CallRead \/ ReadBlock \/ Listing

Next == Context \/ CallRead \/ ReadBlock \/ Write \/ Listing

Spec == Init /\ [][Next]_vars /\ WF_vars(Script)
-----------------------------------------------------------------------------
(***************************************************************************)
(* A script that follows the blocks of fs.read until eof, whichever way it *)
(* calls it and in whatever blocks, has at least what the file held all    *)
(* the while: a file that others write to is not ended early, between the  *)
(* question for its size and the read or between two calls                 *)
(* (fs_tools.cpp:206-231).                                                 *)
(***************************************************************************)
ReaderGetsWhatWasThere ==
    reader.at = "eof" => reader.next >= least

\* A way from the directory down to n.
Way(path, n) ==
    /\ Parent[path[1]] = Root
    /\ path[Len(path)] = n
    /\ \A i \in 2 .. Len(path) : Parent[path[i]] = path[i - 1]

Above(depth) ==
    {n \in Node : \E steps \in 1 .. depth : \E path \in [1 .. steps -> Node] : Way(path, n)}

(***************************************************************************)
(* What is above a depth is reached from the directory in that many steps  *)
(* at most.  fs.ls lists what of it is of the kinds asked for, through     *)
(* directories it does not list itself; when it meets a directory it may   *)
(* not enter, or its iterator fails, part of that, and nothing else        *)
(* (fs_tools.cpp:322-399).                                                 *)
(***************************************************************************)
ListsWhatIsAbove ==
    mode = "listed" /\ ~listing.refused =>
        LET wanted == {n \in Above(listing.depth) : Kind[n] \in listing.kinds}
        IN  IF listing.cut THEN listing.rows \subseteq wanted ELSE listing.rows = wanted

(***************************************************************************)
(* Whatever a script hands over, and a table that holds itself, what it    *)
(* starts comes to an end: a file that is no longer written to is read to  *)
(* its end in blocks of a byte or more.                                    *)
(***************************************************************************)
ScriptEnds ==
    /\ mode = "serialise" ~> mode = "returned"
    /\ mode = "listing" ~> mode = "listed"
    /\ reader.at = "sized" ~> reader.at \in {"eof", "failed"}
=============================================================================
