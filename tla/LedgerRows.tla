----------------------------- MODULE LedgerRows ----------------------------
(***************************************************************************)
(* What the cost ledger needs of the agent_run rows, whoever writes them:  *)
(* a row is inserted once and closed once, and it is as it closes that it  *)
(* is billed for an LLM call, or for none.  Runtime keeps this promise,    *)
(* and these are the actions CostLedger writes its rows with.              *)
(***************************************************************************)

CONSTANT Runs

VARIABLES stored, closed, billed    \* the runs with such a row

rows == <<stored, closed, billed>>

Init == stored = {} /\ closed = {} /\ billed = {}

Open(r) ==
    /\ r \notin stored
    /\ stored' = stored \cup {r}
    /\ UNCHANGED <<closed, billed>>

Close(r) ==
    /\ r \in stored \ closed
    /\ closed' = closed \cup {r}
    /\ billed' \in {billed, billed \cup {r}}
    /\ UNCHANGED stored

Next == \E r \in Runs : Open(r) \/ Close(r)

Spec == Init /\ [][Next]_rows
=============================================================================
