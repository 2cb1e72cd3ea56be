---------------------------- MODULE OutputPaging ----------------------------
(***************************************************************************)
(* How the model gets to read a message that is too long for it: the cut   *)
(* Agent::prune_message makes in what is sent, with a hint at the tool     *)
(* db.head, and the blocks the tool hands out (src/db_tools.cpp).  Both    *)
(* cut between grapheme clusters, with the functions of src/utf8_text.cpp. *)
(*                                                                         *)
(* A text is its length in bytes and the places inside it where a cluster  *)
(* ends and the next one begins.  The functions walk the code points and   *)
(* can stop nowhere else; as the state of the search is reset at each      *)
(* break, the rest of a text from a break on has the same breaks.          *)
(***************************************************************************)
EXTENDS Integers, FiniteSetsExt

CONSTANTS
    Limits,      \* values of options.max_tool_out_bytes
    MaxRead,     \* DbHeadTool::max_bytes_
    Blocks,      \* values of bytes_to_read
    TagBytes,    \* of <truncated> and </truncated>
    HintBytes,   \* of the hint at db.head
    MaxBytes     \* bound: the length of a message

ASSUME OutputPagingAssumption ==
    /\ Limits \subseteq Nat /\ Blocks \subseteq Nat
    /\ MaxRead \in Nat \ {0}
    /\ TagBytes \in Nat /\ HintBytes \in Nat /\ MaxBytes \in Nat

VARIABLES
    text,     \* Message::content
    saved,    \* Message::id # 0
    limit,    \* options.max_tool_out_bytes
    shown,    \* bytes of the content in the request
    offset,   \* the offset_bytes of the reader's next call
    block,    \* the bytes handed out last: first, and one past the last
    asked,    \* the bytes_to_read of that call, NotAsked before the first
    eof       \* what it said of the end

messageVars == <<text, saved, limit, shown>>
vars == <<messageVars, offset, block, asked, eof>>

Texts ==
    UNION {[size : {s}, breaks : SUBSET (1 .. s - 1)] : s \in 0 .. MaxBytes}

Lesser(m, n) == IF m <= n THEN m ELSE n
-----------------------------------------------------------------------------
(***************************************************************************)
(* utf8_text.cpp                                                           *)
(***************************************************************************)

\* Mutant: a break inside the limit is passed by for the one after it.
PrefixRoundedUp(t, max) ==
    IF max >= t.size THEN t.size
    ELSE Min({b \in t.breaks : b >= max} \cup {t.size})

\* prefix_by_bytes: up to the last break within the budget.
PrefixByBytes(t, max) ==
    IF max >= t.size THEN t.size ELSE Max({b \in t.breaks : b <= max} \cup {0})

\* align_offset: the first break from there on.
AlignOffset(t, o) ==
    IF o = 0 THEN 0 ELSE Min({b \in t.breaks : b >= o} \cup {t.size})

\* What follows the first start bytes of a text.
Rest(t, start) ==
    [size |-> t.size - start, breaks |-> {b - start : b \in {c \in t.breaks : c > start}}]

\* The length of slice_by_bytes, which begins at AlignOffset(t, o).
SliceByBytes(t, o, max) ==
    IF max = 0 \/ AlignOffset(t, o) >= t.size THEN 0
    ELSE PrefixByBytes(Rest(t, AlignOffset(t, o)), max)
-----------------------------------------------------------------------------
(***************************************************************************)
(* prune_message                                                           *)
(***************************************************************************)
Room(max, overhead) == IF overhead > max THEN 0 ELSE max - overhead

Overhead(hasId) == IF hasId THEN HintBytes + TagBytes + 5 ELSE TagBytes

\* The bytes of content sent of a message, and all that is sent for it: without
\* room for the hint three dots stand between the tags.
PruneMessage(t, hasId, max) ==
    IF t.size <= max THEN t.size ELSE PrefixByBytes(t, Room(max, Overhead(hasId)))

SentBytes(t, hasId, max) ==
    IF t.size <= max THEN t.size
    ELSE IF ~hasId THEN TagBytes + PruneMessage(t, hasId, max)
    ELSE TagBytes + 1 + HintBytes
         + (IF Overhead(hasId) > max THEN 3 ELSE PruneMessage(t, hasId, max))

NotAsked == -1

Init ==
    /\ text \in Texts
    /\ saved \in BOOLEAN
    /\ limit \in Limits
    /\ shown = PruneMessage(text, saved, limit)
    /\ offset \in 0 .. MaxBytes + 1
    /\ block = [first |-> 0, next |-> 0]
    /\ asked = NotAsked
    /\ eof = FALSE

(***************************************************************************)
(* A call of db.head, by a script that begins anywhere and reads on from   *)
(* next_offset.                                                            *)
(***************************************************************************)

\* Mutant: a cluster longer than the block is not handed out.
SliceOnly(t, start, n) == SliceByBytes(t, start, n)

\* Mutant: a cluster longer than the block is cut.
CutCluster(t, start, n) ==
    IF SliceByBytes(t, start, n) = 0 /\ start < t.size THEN Lesser(n, t.size - start)
    ELSE SliceByBytes(t, start, n)

\* A block that no cluster fits in holds one all the same.
BlockLength(t, start, n) ==
    IF SliceByBytes(t, start, n) = 0 /\ start < t.size /\ n > 0
    THEN AlignOffset(t, start + 1) - start
    ELSE SliceByBytes(t, start, n)

\* Mutant: next_offset counts what was asked for.
ReadByBlocks(n) ==
    LET toRead == Lesser(n, MaxRead)
        start  == AlignOffset(text, offset)
        next   == start + BlockLength(text, start, toRead)
    IN  /\ block' = [first |-> start, next |-> next]
        /\ offset' = start + toRead
        /\ eof' = (offset' >= text.size)
        /\ asked' = n
        /\ UNCHANGED messageVars

Read(n) ==
    LET toRead == Lesser(n, MaxRead)
        start  == AlignOffset(text, offset)
        next   == start + BlockLength(text, start, toRead)
    IN  /\ block' = [first |-> start, next |-> next]
        /\ offset' = next
        /\ eof' = (next >= text.size)
        /\ asked' = n
        /\ UNCHANGED messageVars

\* Only what has an id can be read.
Next == saved /\ \E n \in Blocks : Read(n)

Spec == Init /\ [][Next]_vars
-----------------------------------------------------------------------------
TypeOK ==
    /\ DOMAIN text = {"size", "breaks"}
    /\ text.size \in 0 .. MaxBytes /\ text.breaks \subseteq 1 .. text.size - 1
    /\ saved \in BOOLEAN /\ limit \in Limits
    /\ shown \in 0 .. MaxBytes
    /\ offset \in 0 .. MaxBytes + 1
    /\ block \in [first : 0 .. MaxBytes, next : 0 .. MaxBytes]
    /\ asked \in Blocks \cup {NotAsked}
    /\ eof \in BOOLEAN

Boundaries == text.breaks \cup {0, text.size}

(***************************************************************************)
(* What is sent of a message that is too long ends between two clusters,   *)
(* and fits the limit with its tags and its hint, or holds nothing of the  *)
(* message (src/agent.cpp:440-481).                                        *)
(***************************************************************************)
CutFits ==
    /\ shown \in Boundaries
    /\ shown > 0 => SentBytes(text, saved, limit) <= limit

(***************************************************************************)
(* A block begins and ends between clusters, wherever the reader began,    *)
(* and is no longer than was asked for unless it is one cluster            *)
(* (utf8_text.cpp:57-108, db_tools.cpp:121-129).                           *)
(***************************************************************************)
BlocksAreWhole ==
    asked # NotAsked =>
        /\ block.first \in Boundaries /\ block.next \in Boundaries
        /\ \/ block.next - block.first <= Lesser(asked, MaxRead)
           \/ \A b \in Boundaries : ~(block.first < b /\ b < block.next)

(***************************************************************************)
(* A reader that passes next_offset on gets every byte once and in order:  *)
(* each block begins where the one before ended, though every call moves   *)
(* its offset to a boundary again (db_tools.cpp:121-131).                  *)
(***************************************************************************)
NothingIsSkipped ==
    [][/\ asked # NotAsked => block'.first = block.next
       /\ eof' => block'.next = text.size]_vars

(***************************************************************************)
(* ... and gets to the end: a call that asks for a byte hands one out, as  *)
(* long as there is one, however small the block and MaxRead are against   *)
(* the cluster (db_tools.cpp:125-129).                                     *)
(***************************************************************************)
EveryReadAdvances ==
    [][(asked' > 0 /\ block'.first < text.size) => block'.next > block'.first]_vars
=============================================================================
