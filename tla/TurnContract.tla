---------------------------- MODULE TurnContract ----------------------------
(***************************************************************************)
(* What one call of ChatStreamer::stream promises the driver of a turn,    *)
(* with no word of HTTP, retries or waiting: text is delivered piece by    *)
(* piece, a failed attempt's text is withdrawn as a whole before any more  *)
(* is delivered, and the turn is closed once.  The answer the caller gets  *)
(* is the text in front of the reader, possibly followed by one notice     *)
(* that is shown to the reader and is not part of the answer.  Only a      *)
(* reader who asked to stop sees a turn abandoned, with an empty answer.   *)
(***************************************************************************)
EXTENDS Sequences, Naturals

CONSTANTS Piece, Notice, MaxRestarts

VARIABLES text, restarts, answer, phase, stopAsked

vars == <<text, restarts, answer, phase, stopAsked>>

Init ==
    /\ text = <<>>
    /\ restarts = 0
    /\ answer = <<>>
    /\ phase = "open"
    /\ stopAsked \in BOOLEAN   \* the driver may outlive the turn that stopped it

AskStop ==
    /\ ~stopAsked
    /\ stopAsked' = TRUE
    /\ UNCHANGED <<text, restarts, answer, phase>>

Deliver ==
    /\ phase = "open"
    /\ \E p \in Piece : text' = Append(text, p)
    /\ UNCHANGED <<restarts, answer, phase, stopAsked>>

Restart ==
    /\ phase = "open"
    /\ restarts < MaxRestarts
    /\ text' = <<>>
    /\ restarts' = restarts + 1
    /\ UNCHANGED <<answer, phase, stopAsked>>

\* Complete, with or without a notice for the reader.
Complete ==
    /\ phase = "open"
    /\ phase' = "complete"
    /\ answer' = text
    /\ text' \in {text, Append(text, Notice)}
    /\ UNCHANGED <<restarts, stopAsked>>

Abandon ==
    /\ phase = "open"
    /\ stopAsked
    /\ phase' = "abandoned"
    /\ UNCHANGED <<text, restarts, answer, stopAsked>>

Next == AskStop \/ Deliver \/ Restart \/ Complete \/ Abandon

Spec == Init /\ [][Next]_vars
=============================================================================
