-------------------------- MODULE OutputPagingProofs --------------------------
(***************************************************************************)
(* Proofs about the cut of a message and the blocks it is read in, for     *)
(* every text, limit and size of a block: what the functions of            *)
(* utf8_text.cpp return, and from it what a reader gets.                   *)
(***************************************************************************)
EXTENDS OutputPaging, WellFoundedInduction, TLAPS

TextType(t) == t.size \in Nat /\ t.breaks \subseteq 1 .. t.size - 1

BoundariesOf(t) == t.breaks \cup {0, t.size}
-----------------------------------------------------------------------------
Below == {ss \in Nat \X Nat : ss[1] < ss[2]}

LEMMA BelowIsWellFounded == IsWellFoundedOn(Below, Nat)
BY NatLessThanWellFounded DEF Below, OpToRel

\* Min and Max are what their names say.
LEMMA MinOf ==
    ASSUME NEW S, S \subseteq Nat, S # {}
    PROVE  Min(S) \in S /\ \A y \in S : Min(S) <= y
<1>1. \E x \in S : \A y \in S : ~(<<y, x>> \in Below)
  BY BelowIsWellFounded, WFMin
<1>2. \A x, y \in S : ~(<<y, x>> \in Below) => x <= y
  BY DEF Below
<1>3. \E x \in S : \A y \in S : x <= y
  BY <1>1, <1>2
<1>. QED
  BY <1>3 DEF Min

LEMMA MaxOf ==
    ASSUME NEW n \in Nat, NEW S, S \subseteq 0 .. n, S # {}
    PROVE  Max(S) \in S /\ \A y \in S : y <= Max(S)
<1>. DEFINE T == {n - y : y \in S}
<1>1. T \subseteq Nat /\ T # {}
  <2>1. \A y \in S : y \in 0 .. n /\ n - y \in Nat
    OBVIOUS
  <2>2. \A y \in S : n - y \in T
    OBVIOUS
  <2>3. T \subseteq Nat
    BY <2>1
  <2>. QED
    BY <2>2, <2>3
<1>2. PICK m \in T : \A y \in T : m <= y
  BY <1>1, MinOf
<1>3. PICK x \in S : m = n - x
  OBVIOUS
<1>4. ASSUME NEW y \in S PROVE x >= y
  <2>1. n - x <= n - y
    BY <1>2, <1>3
  <2>. QED
    BY <2>1
<1>5. \E z \in S : \A y \in S : z >= y
  BY <1>4
<1>6. Max(S) \in S /\ \A y \in S : Max(S) >= y
  BY <1>5 DEF Max
<1>. QED
  BY <1>6
-----------------------------------------------------------------------------
\* align_offset returns the first boundary from an offset on.
LEMMA Aligned ==
    ASSUME NEW t, TextType(t), NEW o \in Nat
    PROVE  /\ AlignOffset(t, o) \in BoundariesOf(t)
           /\ o <= t.size => AlignOffset(t, o) >= o
           /\ \A b \in BoundariesOf(t) : b >= o => AlignOffset(t, o) <= b
           /\ o \in BoundariesOf(t) => AlignOffset(t, o) = o
<1>. DEFINE S == {b \in t.breaks : b >= o} \cup {t.size}
<1>1. S \subseteq Nat /\ S # {}
  BY DEF TextType
<1>2. Min(S) \in S /\ \A y \in S : Min(S) <= y
  BY <1>1, MinOf
<1>3. CASE o = 0
  BY <1>3 DEF AlignOffset, BoundariesOf, TextType
<1>4. CASE o # 0
  <2>1. AlignOffset(t, o) = Min(S)
    BY <1>4 DEF AlignOffset
  <2>. HIDE DEF S
  <2>2. Min(S) \in Nat
    BY <1>1, <1>2
  <2>3. o <= t.size => Min(S) >= o
    BY <1>2 DEF S
  <2>4. \A b \in BoundariesOf(t) : b >= o => Min(S) <= b
    BY <1>2, <1>4 DEF BoundariesOf, S
  <2>5. o \in BoundariesOf(t) => Min(S) <= o /\ o <= t.size
    BY <1>4, <2>4 DEF BoundariesOf, TextType
  <2>6. Min(S) \in BoundariesOf(t)
    BY <1>2 DEF S, BoundariesOf
  <2>. QED
    BY <2>1, <2>2, <2>3, <2>4, <2>5, <2>6
<1>. QED
  BY <1>3, <1>4

\* prefix_by_bytes ends at the last boundary within the budget.
LEMMA Prefix ==
    ASSUME NEW t, TextType(t), NEW max \in Nat
    PROVE  /\ PrefixByBytes(t, max) \in BoundariesOf(t)
           /\ PrefixByBytes(t, max) <= max
<1>. DEFINE S == {b \in t.breaks : b <= max} \cup {0}
<1>1. S \subseteq 0 .. max /\ S # {}
  BY DEF TextType
<1>2. Max(S) \in S
  BY <1>1, MaxOf
<1>. QED
  BY <1>1, <1>2 DEF PrefixByBytes, BoundariesOf, TextType

\* The rest of a text from a boundary on is a text, with the same boundaries.
LEMMA RestIsAText ==
    ASSUME NEW t, TextType(t), NEW s \in BoundariesOf(t), s < t.size
    PROVE  /\ TextType(Rest(t, s))
           /\ \A b \in BoundariesOf(Rest(t, s)) : s + b \in BoundariesOf(t)
<1>1. s \in Nat /\ s < t.size /\ t.size \in Nat
  BY DEF BoundariesOf, TextType
<1>2. Rest(t, s).size = t.size - s
  BY DEF Rest
<1>3. ASSUME NEW b \in Rest(t, s).breaks
      PROVE  b \in 1 .. Rest(t, s).size - 1 /\ s + b \in t.breaks
  <2>1. PICK c \in t.breaks : c > s /\ b = c - s
    BY DEF Rest
  <2>2. c \in 1 .. t.size - 1
    BY DEF TextType
  <2>. QED
    BY <1>1, <1>2, <2>1, <2>2
<1>. QED
  BY <1>1, <1>2, <1>3 DEF TextType, BoundariesOf

\* slice_by_bytes hands out whole clusters within the budget.
LEMMA Slice ==
    ASSUME NEW t, TextType(t), NEW o \in BoundariesOf(t), NEW n \in Nat
    PROVE  /\ SliceByBytes(t, o, n) \in 0 .. n
           /\ o + SliceByBytes(t, o, n) \in BoundariesOf(t)
<1>1. o \in Nat /\ AlignOffset(t, o) = o /\ t.size \in Nat
  BY Aligned DEF BoundariesOf, TextType
<1>2. CASE n = 0 \/ o >= t.size
  BY <1>1, <1>2 DEF SliceByBytes
<1>3. CASE n # 0 /\ o < t.size
  <2>1. SliceByBytes(t, o, n) = PrefixByBytes(Rest(t, o), n)
    BY <1>1, <1>3 DEF SliceByBytes
  <2>2. /\ TextType(Rest(t, o))
        /\ \A b \in BoundariesOf(Rest(t, o)) : o + b \in BoundariesOf(t)
    BY <1>3, RestIsAText
  <2>3. /\ PrefixByBytes(Rest(t, o), n) \in BoundariesOf(Rest(t, o))
        /\ PrefixByBytes(Rest(t, o), n) <= n
    BY <2>2, Prefix
  <2>4. BoundariesOf(Rest(t, o)) \subseteq Nat
    BY <2>2 DEF BoundariesOf, TextType
  <2>. QED
    BY <2>1, <2>2, <2>3, <2>4
<1>. QED
  BY <1>1, <1>2, <1>3

\* A block is a slice, or one cluster when no slice holds any.
LEMMA Block ==
    ASSUME NEW t, TextType(t), NEW s \in BoundariesOf(t), NEW n \in Nat
    PROVE  /\ BlockLength(t, s, n) \in Nat
           /\ s + BlockLength(t, s, n) \in BoundariesOf(t)
           /\ \/ BlockLength(t, s, n) <= n
              \/ \A b \in BoundariesOf(t) : ~(s < b /\ b < s + BlockLength(t, s, n))
           /\ n > 0 /\ s < t.size => BlockLength(t, s, n) > 0
<1>1. /\ SliceByBytes(t, s, n) \in 0 .. n
      /\ s + SliceByBytes(t, s, n) \in BoundariesOf(t)
  BY Slice
<1>2. s \in Nat /\ t.size \in Nat /\ BoundariesOf(t) \subseteq Nat
  BY DEF BoundariesOf, TextType
<1>3. CASE SliceByBytes(t, s, n) = 0 /\ s < t.size /\ n > 0
  <2>1. BlockLength(t, s, n) = AlignOffset(t, s + 1) - s
    BY <1>3 DEF BlockLength
  <2>2. /\ AlignOffset(t, s + 1) \in BoundariesOf(t)
        /\ AlignOffset(t, s + 1) >= s + 1
        /\ \A b \in BoundariesOf(t) : b >= s + 1 => AlignOffset(t, s + 1) <= b
    BY <1>2, <1>3, Aligned
  <2>. QED
    BY <1>2, <2>1, <2>2
<1>4. CASE ~(SliceByBytes(t, s, n) = 0 /\ s < t.size /\ n > 0)
  <2>1. BlockLength(t, s, n) = SliceByBytes(t, s, n)
    BY <1>4 DEF BlockLength
  <2>. QED
    BY <1>1, <1>2, <1>4, <2>1
<1>. QED
  BY <1>3, <1>4
-----------------------------------------------------------------------------
\* After a call, the reader's next offset is the end of the block it got.
ReadInv ==
    /\ TypeOK
    /\ asked # NotAsked => offset = block.next
    /\ BlocksAreWhole

\* What a call hands out.
LEMMA ReadStep ==
    ASSUME ReadInv, NEW n \in Blocks, Read(n)
    PROVE  /\ TypeOK' /\ block'.first = AlignOffset(text, offset)
           /\ block'.first \in Boundaries /\ offset' = block'.next
           /\ BlocksAreWhole'
           /\ n > 0 /\ block'.first < text.size => block'.next > block'.first
           /\ asked' = n /\ eof' = (block'.next >= text.size)
<1>. DEFINE toRead == Lesser(n, MaxRead)
            start == AlignOffset(text, offset)
            length == BlockLength(text, start, toRead)
<1>1. /\ TextType(text) /\ Boundaries = BoundariesOf(text)
      /\ offset \in Nat /\ Boundaries \subseteq 0 .. text.size
      /\ text.size \in 0 .. MaxBytes
  BY OutputPagingAssumption DEF ReadInv, TypeOK, TextType, Boundaries, BoundariesOf
<1>2. toRead \in Nat /\ (n > 0 => toRead > 0) /\ n # NotAsked
  BY OutputPagingAssumption DEF Lesser, NotAsked
<1>3. start \in Boundaries
  BY <1>1, Aligned
<1>. HIDE DEF toRead, start, length
<1>4. /\ length \in Nat /\ start + length \in Boundaries
      /\ \/ length <= toRead
         \/ \A b \in Boundaries : ~(start < b /\ b < start + length)
      /\ toRead > 0 /\ start < text.size => length > 0
  BY <1>1, <1>2, <1>3, Block DEF length
<1>5. /\ block' = [first |-> start, next |-> start + length]
      /\ offset' = start + length /\ asked' = n /\ UNCHANGED messageVars
      /\ eof' = (start + length >= text.size)
  BY DEF Read, toRead, start, length
<1>6. TypeOK'
  BY <1>1, <1>3, <1>4, <1>5, OutputPagingAssumption DEF ReadInv, TypeOK, messageVars
<1>7. BlocksAreWhole'
  <2>1. Boundaries' = Boundaries
    BY <1>5 DEF Boundaries, messageVars
  <2>2. (start + length) - start = length
    BY <1>1, <1>3, <1>4
  <2>3. Lesser(asked', MaxRead) = toRead
    BY <1>5 DEF toRead
  <2>. QED
    BY <1>3, <1>4, <1>5, <2>1, <2>2, <2>3 DEF BlocksAreWhole
<1>8. n > 0 /\ start < text.size => start + length > start
  BY <1>1, <1>2, <1>3, <1>4
<1>. QED
  BY <1>3, <1>5, <1>6, <1>7, <1>8 DEF start

LEMMA InitRead == Init => ReadInv
<1>. SUFFICES ASSUME Init PROVE ReadInv
  OBVIOUS
<1>1. PICK s \in 0 .. MaxBytes : text \in [size : {s}, breaks : SUBSET (1 .. s - 1)]
  BY DEF Init, Texts
<1>2. /\ DOMAIN text = {"size", "breaks"} /\ text.size \in 0 .. MaxBytes
      /\ text.breaks \subseteq 1 .. text.size - 1
  BY <1>1
<1>3. limit \in Nat /\ shown = PruneMessage(text, saved, limit)
  BY OutputPagingAssumption DEF Init
<1>4. shown \in 0 .. MaxBytes
  <2>1. CASE text.size <= limit
    BY <1>2, <1>3, <2>1 DEF PruneMessage
  <2>2. CASE text.size > limit
    <3>1. Room(limit, Overhead(saved)) \in Nat
      BY <1>3, OutputPagingAssumption DEF Room, Overhead
    <3>2. PrefixByBytes(text, Room(limit, Overhead(saved))) \in BoundariesOf(text)
      BY <1>2, <3>1, Prefix, OutputPagingAssumption DEF TextType
    <3>3. BoundariesOf(text) \subseteq 0 .. MaxBytes
      BY <1>2, OutputPagingAssumption DEF BoundariesOf
    <3>. QED
      BY <1>2, <1>3, <2>2, <3>2, <3>3, OutputPagingAssumption DEF PruneMessage
  <2>. QED
    BY <1>2, <1>3, <2>1, <2>2, OutputPagingAssumption
<1>5. TypeOK
  <2>1. block \in [first : 0 .. MaxBytes, next : 0 .. MaxBytes]
    BY OutputPagingAssumption DEF Init
  <2>2. /\ saved \in BOOLEAN /\ limit \in Limits /\ offset \in 0 .. MaxBytes + 1
        /\ asked \in Blocks \cup {NotAsked} /\ eof \in BOOLEAN
    BY DEF Init
  <2>. QED
    BY <1>2, <1>4, <2>1, <2>2 DEF TypeOK
<1>. QED
  BY <1>5 DEF Init, ReadInv, BlocksAreWhole

LEMMA NextRead == ReadInv /\ [Next]_vars => ReadInv'
<1>. SUFFICES ASSUME ReadInv, [Next]_vars PROVE ReadInv'
  OBVIOUS
<1>1. ASSUME NEW n \in Blocks, Read(n) PROVE ReadInv'
  BY <1>1, ReadStep DEF ReadInv
<1>2. CASE UNCHANGED vars
  BY <1>2 DEF vars, messageVars, ReadInv, TypeOK, BlocksAreWhole, Boundaries
<1>. QED
  BY <1>1, <1>2 DEF Next

THEOREM Reading == Spec => []ReadInv
BY InitRead, NextRead, PTL DEF Spec

(***************************************************************************)
(* Every state of the cut and of the reader is well typed.                 *)
(***************************************************************************)
THEOREM TypeCorrect == Spec => []TypeOK
<1>1. ReadInv => TypeOK
  BY DEF ReadInv
<1>. QED
  BY <1>1, Reading, PTL

(***************************************************************************)
(* A cut message fits its limit, or nothing of it is sent                  *)
(* (src/agent.cpp:440-481).                                                *)
(***************************************************************************)
THEOREM CutsFit == Spec => []CutFits
<1>1. TypeOK /\ Init => CutFits
  <2>. SUFFICES ASSUME TypeOK, Init PROVE CutFits
    OBVIOUS
  <2>. DEFINE room == Room(limit, Overhead(saved))
  <2>1. /\ TextType(text) /\ limit \in Nat /\ shown = PruneMessage(text, saved, limit)
        /\ Boundaries = BoundariesOf(text) /\ saved \in BOOLEAN /\ text.size \in Nat
    BY OutputPagingAssumption DEF TypeOK, Init, TextType, Boundaries, BoundariesOf
  <2>2. CASE text.size <= limit
    BY <2>1, <2>2 DEF PruneMessage, SentBytes, CutFits, Boundaries
  <2>3. CASE text.size > limit
    <3>1. /\ room \in Nat /\ Overhead(saved) \in Nat
          /\ room > 0 => room = limit - Overhead(saved)
      BY <2>1, OutputPagingAssumption DEF Room, Overhead
    <3>2. shown = PrefixByBytes(text, room)
      BY <2>1, <2>3 DEF PruneMessage
    <3>3. shown \in Boundaries /\ shown <= room /\ shown \in Nat
      BY <2>1, <3>1, <3>2, Prefix DEF BoundariesOf, TextType
    <3>4. shown > 0 => shown + Overhead(saved) <= limit
      BY <2>1, <3>1, <3>3
    <3>5. shown > 0 => SentBytes(text, saved, limit) <= limit
      <4>1. CASE ~saved
        BY <2>1, <2>3, <3>3, <3>4, <4>1, OutputPagingAssumption DEF SentBytes, Overhead
      <4>2. CASE saved
        <5>1. Overhead(saved) = HintBytes + TagBytes + 5
          BY <4>2 DEF Overhead
        <5>2. shown > 0 => ~(Overhead(saved) > limit)
          BY <2>1, <3>1, <3>3, <3>4
        <5>3. shown > 0 => SentBytes(text, saved, limit) = TagBytes + 1 + HintBytes + shown
          <6>1. ~(text.size <= limit)
            BY <2>1, <2>3
          <6>. QED
            BY <2>1, <4>2, <5>2, <6>1, Zenon DEF SentBytes
        <5>. QED
          BY <2>1, <3>3, <3>4, <5>1, <5>3, OutputPagingAssumption
      <4>. QED
        BY <2>1, <4>1, <4>2
    <3>. QED
      BY <3>3, <3>5 DEF CutFits
  <2>. QED
    BY <2>1, <2>2, <2>3
<1>2. CutFits /\ [Next]_vars => CutFits'
  BY DEF CutFits, Next, Read, vars, messageVars, Boundaries
<1>3. Init => TypeOK
  BY InitRead DEF ReadInv
<1>. QED
  BY <1>1, <1>2, <1>3, PTL DEF Spec

(***************************************************************************)
(* Blocks begin and end between clusters (db_tools.cpp:121-129).           *)
(***************************************************************************)
THEOREM WholeBlocks == Spec => []BlocksAreWhole
<1>1. ReadInv => BlocksAreWhole
  BY DEF ReadInv
<1>. QED
  BY <1>1, Reading, PTL

(***************************************************************************)
(* Who follows next_offset misses nothing (db_tools.cpp:130-131).          *)
(***************************************************************************)
THEOREM NothingSkipped == Spec => NothingIsSkipped
<1>1. ReadInv /\ [Next]_vars =>
        [/\ asked # NotAsked => block'.first = block.next
         /\ eof' => block'.next = text.size]_vars
  <2>. SUFFICES ASSUME ReadInv, NEW n \in Blocks, Read(n)
                PROVE  /\ asked # NotAsked => block'.first = block.next
                       /\ eof' => block'.next = text.size
    BY DEF Next
  <2>1. /\ block'.first = AlignOffset(text, offset)
        /\ eof' = (block'.next >= text.size)
        /\ asked' = n /\ BlocksAreWhole'
    BY ReadStep
  <2>2. TextType(text) /\ offset \in Nat /\ Boundaries = BoundariesOf(text)
    BY OutputPagingAssumption DEF ReadInv, TypeOK, TextType, Boundaries, BoundariesOf
  <2>3. asked # NotAsked => offset \in Boundaries /\ offset = block.next
    BY DEF ReadInv, BlocksAreWhole
  <2>4. block'.next \in Boundaries
    <3>1. asked' # NotAsked
      BY <2>1, OutputPagingAssumption DEF NotAsked
    <3>. QED
      BY <2>1, <3>1 DEF BlocksAreWhole, Boundaries, Read, messageVars
  <2>5. Boundaries \subseteq 0 .. text.size /\ text.size \in Nat
    BY <2>2 DEF TextType, BoundariesOf
  <2>6. asked # NotAsked => AlignOffset(text, offset) = offset
    BY <2>2, <2>3, Aligned
  <2>7. eof' => block'.next = text.size
    <3>1. block'.next >= text.size => block'.next = text.size
      <4>1. block'.next \in 0 .. text.size
        BY <2>4, <2>5
      <4>. QED
        BY <2>5, <4>1
    <3>2. eof' => block'.next >= text.size
      BY <2>1, Zenon
    <3>. QED
      BY <3>1, <3>2, Zenon
  <2>. QED
    BY <2>1, <2>3, <2>6, <2>7
<1>. QED
  BY <1>1, Reading, PTL DEF Spec, NothingIsSkipped

(***************************************************************************)
(* A call that asks for a byte gets one, up to the end: a reader needs no  *)
(* more calls than the text has bytes (db_tools.cpp:125-129).              *)
(***************************************************************************)
THEOREM ReadsAdvance == Spec => EveryReadAdvances
<1>1. ReadInv /\ [Next]_vars =>
        [(asked' > 0 /\ block'.first < text.size) => block'.next > block'.first]_vars
  BY ReadStep DEF Next
<1>. QED
  BY <1>1, Reading, PTL DEF Spec, EveryReadAdvances
=============================================================================
