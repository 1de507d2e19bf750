-------------------------------- MODULE Trade -------------------------------
(***************************************************************************)
(* What the relay promises of the trade that follows the auction of one    *)
(* slot, whoever serves the proposers and whenever: headers go out, and    *)
(* signed blocks reach builders, only when they are on record; a header    *)
(* goes only to the proposer it was made for; a payload goes out, and a    *)
(* builder is marked as paid, only for a signed block that was shown to a  *)
(* builder; and none of what was done is ever taken back, but the mark.    *)
(*                                                                         *)
(* Tests share the records of the trade: a header of theirs is on record   *)
(* without its block, and a block of theirs under a name that is given.    *)
(***************************************************************************)
CONSTANTS
    Submissions,  \* what builders may send: a builder, a block, ...
    Forged,       \* those that must not take part
    Proposers,
    Blocks,       \* hashes of the blocks
    TestProposer, \* who is on record for the blocks of a test, ...
    TestBlock,    \* ... and for which block
    None          \* nobody, or no block

VARIABLES
    candidates,   \* the submissions that take part
    headers,      \* on record: the header of a block, for a proposer
    offered,      \* the bids that proposers got
    evidence,     \* on record: a block that a proposer signed
    questions,    \* the signed blocks that builders were shown
    payloads,     \* the payloads that proposers got
    receipts,     \* on record: a payload, for a proposer
    marked        \* the builder that is to be paid

traded == <<candidates, headers, offered, evidence, questions, payloads,
            receipts, marked>>

Entry(p, k) == [proposer |-> p, block |-> k]

HeaderEntry(p, s, test) == Entry(p, IF test THEN None ELSE s.block)

Open ==
    /\ candidates = {} /\ headers = {} /\ offered = {} /\ evidence = {}
    /\ questions = {} /\ payloads = {} /\ receipts = {}
    /\ marked = None

Enter(s) ==
    /\ s \notin Forged
    /\ candidates' = candidates \cup {s}
    /\ UNCHANGED <<headers, offered, evidence, questions, payloads, receipts,
                   marked>>

RecordHeader(p, s, test) ==
    /\ headers' = headers \cup {HeaderEntry(p, s, test)}
    /\ UNCHANGED <<candidates, offered, evidence, questions, payloads,
                   receipts, marked>>

Offer(p, s, test) ==
    /\ s.proposer = p
    /\ HeaderEntry(p, s, test) \in headers
    /\ offered' = offered \cup {[proposer |-> p, bid |-> s, test |-> test]}
    /\ UNCHANGED <<candidates, headers, evidence, questions, payloads,
                   receipts, marked>>

\* Any proposer may sign any block that takes part.
RecordSigned(p, s) ==
    /\ evidence' = evidence \cup {Entry(p, s.block)}
    /\ UNCHANGED <<candidates, headers, offered, questions, payloads, receipts,
                   marked>>

Ask(p, s) ==
    /\ Entry(p, s.block) \in evidence
    /\ questions' = questions \cup
           {[proposer |-> p, block |-> s.block, builder |-> s.builder]}
    /\ UNCHANGED <<candidates, headers, offered, evidence, payloads, receipts,
                   marked>>

\* Anything may be sent as a test, in the given name.
AskTest(s) ==
    /\ s.block = TestBlock
    /\ Entry(TestProposer, TestBlock) \in evidence
    /\ questions' = questions \cup
           {[proposer |-> None, block |-> None, builder |-> s.builder]}
    /\ UNCHANGED <<candidates, headers, offered, evidence, payloads, receipts,
                   marked>>

Answer(q) ==
    /\ payloads' = payloads \cup {Entry(q.proposer, q.block)}
    /\ UNCHANGED <<candidates, headers, offered, evidence, questions, receipts,
                   marked>>

\* The block is what the builder said it is.
RecordPayload(q, k) ==
    /\ receipts' = receipts \cup {Entry(q.proposer, k)}
    /\ UNCHANGED <<candidates, headers, offered, evidence, questions, payloads,
                   marked>>

\* The builder that was asked last may be marked over another.
Mark(q) ==
    /\ marked' = q.builder
    /\ UNCHANGED <<candidates, headers, offered, evidence, questions, payloads,
                   receipts>>

\* What is remembered for a time only is lost.
Forget ==
    /\ marked' = None
    /\ UNCHANGED <<candidates, headers, offered, evidence, questions, payloads,
                   receipts>>

Proceed ==
    \/ \E s \in Submissions : Enter(s)
    \/ \E s \in candidates :
          \/ AskTest(s)
          \/ \E p \in Proposers :
                \/ RecordSigned(p, s) \/ Ask(p, s)
                \/ \E test \in BOOLEAN :
                      RecordHeader(p, s, test) \/ Offer(p, s, test)
    \/ \E q \in questions :
          Answer(q) \/ Mark(q) \/ \E k \in Blocks : RecordPayload(q, k)
    \/ Forget

Promise == Open /\ [][Proceed]_traded
=============================================================================
