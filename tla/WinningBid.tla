----------------------------- MODULE WinningBid -----------------------------
(***************************************************************************)
(* What the relay promises of the auction of one slot, whoever serves the  *)
(* submissions and however: only a submission that was let in can win, and *)
(* none that is forged is let in, a block is stored before it can win and  *)
(* is lost only with all that is stored, and only a builder that took part *)
(* is marked as served.                                                    *)
(***************************************************************************)
CONSTANTS
    Submissions,  \* what builders may send: a builder, a block, ...
    Forged,       \* those that must not take part
    None          \* no winner, or nobody served

VARIABLES
    candidates,   \* the submissions that take part
    winner,       \* the one to be handed to the proposer
    stored,       \* hashes of the blocks whose payload can be had
    intact,       \* 1 until something stored is lost
    marked        \* the builder that was served

promised == <<candidates, winner, stored, intact, marked>>

Open ==
    /\ candidates = {}
    /\ winner = None
    /\ stored = {}
    /\ intact = 1
    /\ marked = None

Enter(s) ==
    /\ s \notin Forged
    /\ candidates' = candidates \cup {s}
    /\ UNCHANGED <<winner, stored, intact, marked>>

Store(s) ==
    /\ s \in candidates
    /\ stored' = stored \cup {s.block}
    /\ UNCHANGED <<candidates, winner, intact, marked>>

\* The winner changes from one candidate to another, at any time.
Choose(s) ==
    /\ s \in candidates
    /\ s.block \in stored \/ intact = 0
    /\ winner' = s
    /\ UNCHANGED <<candidates, stored, intact, marked>>

\* The winner times out, or what is stored does, as a whole.
Lapse ==
    /\ winner' \in {winner, None}
    /\ \/ stored' = {} /\ intact' = 0
       \/ UNCHANGED <<stored, intact>>
    /\ UNCHANGED <<candidates, marked>>

Serve(s) ==
    /\ s \in candidates
    /\ marked' = s.builder
    /\ UNCHANGED <<candidates, winner, stored, intact>>

\* All is lost but the memory of who took part.
Reopen ==
    /\ winner' = None
    /\ stored' = {}
    /\ intact' = 0
    /\ marked' = None
    /\ UNCHANGED candidates

Proceed ==
    \/ \E s \in Submissions : Enter(s) \/ Store(s) \/ Choose(s) \/ Serve(s)
    \/ Lapse
    \/ Reopen

Promise == Open /\ [][Proceed]_promised
=============================================================================
