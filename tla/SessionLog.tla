----------------------------- MODULE SessionLog -----------------------------
(***************************************************************************)
(* What the brain store promises its users, with no word of statements,    *)
(* connections or failures: messages are stored one by one, a stored       *)
(* message keeps its number for good, its holder learns that number and    *)
(* may store a new version under it, and whoever resumes a session gets    *)
(* all of its messages, in the order of their numbers.  A message that is  *)
(* not stored has the number 0.                                            *)
(***************************************************************************)
EXTENDS Naturals, Sequences, FiniteSets

CONSTANTS User, Session, Message

VARIABLES rows,    \* the stored messages; a number is a place in it
          held     \* what each user holds, with the number each message has

vars == <<rows, held>>

Init ==
    /\ rows = <<>>
    /\ held = [u \in User |-> <<>>]

Write ==
    \E u \in User, no \in Message :
        /\ held' = [held EXCEPT ![u] = Append(@, [no |-> no, version |-> 0, id |-> 0])]
        /\ UNCHANGED rows

Store ==
    \E u \in User, s \in Session :
        \E i \in DOMAIN held[u] :
            /\ held[u][i].id = 0
            /\ rows' = Append(rows, [session |-> s, no |-> held[u][i].no,
                                     version |-> held[u][i].version])
            /\ held' = [held EXCEPT ![u][i].id = Len(rows) + 1]

Revise ==
    \E u \in User :
        \E i \in DOMAIN held[u] :
            /\ held' = [held EXCEPT ![u][i].version = 1]
            /\ UNCHANGED rows

StoreRevised ==
    \E u \in User :
        \E i \in DOMAIN held[u] :
            /\ held[u][i].id \in DOMAIN rows
            /\ rows[held[u][i].id].no = held[u][i].no
            /\ rows' = [rows EXCEPT ![held[u][i].id].version = held[u][i].version]
            /\ UNCHANGED held

Ascending(S) ==
    CHOOSE f \in [1 .. Cardinality(S) -> S] : \A i, j \in DOMAIN f : i < j => f[i] < f[j]

NumbersOf(s) == Ascending({i \in 1 .. Len(rows) : rows[i].session = s})

Resume ==
    \E u \in User, s \in Session :
        /\ held' = [held EXCEPT ![u] =
               [i \in 1 .. Len(NumbersOf(s)) |->
                   [no |-> rows[NumbersOf(s)[i]].no,
                    version |-> rows[NumbersOf(s)[i]].version,
                    id |-> NumbersOf(s)[i]]]]
        /\ UNCHANGED rows

Leave ==
    \E u \in User :
        /\ held' = [held EXCEPT ![u] = <<>>]
        /\ UNCHANGED rows

Next == Write \/ Store \/ Revise \/ StoreRevised \/ Resume \/ Leave

Spec == Init /\ [][Next]_vars
=============================================================================
