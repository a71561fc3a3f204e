---------------------------- MODULE ChatContract ----------------------------
(***************************************************************************)
(* What a user sees of a chat: a question stands open until it is replied  *)
(* to, withdrawn, passed over in silence, or the chat is cleared; nothing  *)
(* else ever appears, and nothing is replied to twice or after it was      *)
(* given up or passed over.                                                *)
(***************************************************************************)
EXTENDS Naturals, Sequences

CONSTANT Null

VARIABLES
    shown,  \* the bubbles: questions and replies by the number of the turn
    open    \* the question that waits for its reply, Null if none does

Question(n) == [turn |-> n, role |-> "user"]
Reply(n) == [turn |-> n, role |-> "reply"]

Init == shown = <<>> /\ open = Null

\* Questions are numbered in their order.
Ask ==
    /\ open = Null
    /\ open' \in Nat /\ \A i \in DOMAIN shown : shown[i].turn < open'
    /\ shown' = Append(shown, Question(open'))

Answered == open # Null /\ open' = Null /\ shown' = Append(shown, Reply(open))

\* The question stays, nothing follows: its result could not be read.
Silence == open # Null /\ open' = Null /\ UNCHANGED shown

Withdraw == open # Null /\ open' = Null /\ shown' = SubSeq(shown, 1, Len(shown) - 1)
Clear == open' = Null /\ shown' = <<>>

Next == Ask \/ Answered \/ Silence \/ Withdraw \/ Clear

Spec == Init /\ [][Next]_<<shown, open>>
=============================================================================
