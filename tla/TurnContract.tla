---------------------------- MODULE TurnContract ----------------------------
(***************************************************************************)
(* What one chat turn promises its caller, whatever the pipeline does       *)
(* inside: at most MaxRuns statements reach the customer's database, none   *)
(* after one that succeeded, and the turn ends once, as an answer that no   *)
(* failed statement precedes, as a question back to the user that no        *)
(* successful statement precedes, or aborted (timeout or exception).        *)
(***************************************************************************)
EXTENDS Naturals

CONSTANT MaxRuns   \* statements one turn may send to the database

VARIABLES
    runs,    \* statements sent so far
    last,    \* outcome of the last one
    ending   \* how the turn ended

contractVars == <<runs, last, ending>>

ContractInit == runs = 0 /\ last = "none" /\ ending = "open"

RunStatement ==
    /\ ending = "open" /\ last # "ok" /\ runs < MaxRuns
    /\ runs' = runs + 1
    /\ last' \in {"ok", "failed"}
    /\ UNCHANGED ending

Answer == ending = "open" /\ last # "failed" /\ ending' = "answered" /\ UNCHANGED <<runs, last>>
AskBack == ending = "open" /\ last # "ok" /\ ending' = "asked" /\ UNCHANGED <<runs, last>>
Abort == ending = "open" /\ ending' = "aborted" /\ UNCHANGED <<runs, last>>

ContractNext == RunStatement \/ Answer \/ AskBack \/ Abort

ContractSpec == ContractInit /\ [][ContractNext]_contractVars
=============================================================================
