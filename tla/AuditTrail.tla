----------------------------- MODULE AuditTrail -----------------------------
(***************************************************************************)
(* What the audit tables promise to whoever reads them, without the        *)
(* wrappers, contexts, retries and threads that fill them: every row has a *)
(* one-way life, a row that succeeded charges either nothing or the one    *)
(* LLM call of its own run, a row in any other status charges nothing, and *)
(* what a row refers to is in the tables.                                  *)
(*                                                                         *)
(* The statuses are those of schemas/runs.py.  Where Faults holds          *)
(* "janitor", a janitor closes the row of a workflow from outside, and a   *)
(* workflow that is still alive may close it once more: no statement of    *)
(* the store reads the status before it writes one.                        *)
(***************************************************************************)
EXTENDS Naturals

CONSTANTS AgentRuns, WorkflowRuns, NoRun, Faults

Runs == AgentRuns \cup WorkflowRuns
NoCall == <<NoRun, 0>>

VARIABLES status, link, charge, artifact

trail == <<status, link, charge, artifact>>

Init ==
    /\ status   = [r \in Runs |-> "absent"]
    /\ link     = [r \in Runs |-> NoRun]
    /\ charge   = [r \in Runs |-> NoCall]
    /\ artifact = [r \in Runs |-> NoRun]

\* The workflow rows there are, and None.
Workflows == {w \in WorkflowRuns : status[w] # "absent"} \cup {NoRun}

OpenAgentRun(r) ==
    /\ status[r] = "absent"
    /\ status' = [status EXCEPT ![r] = "pending"]
    /\ \E w \in Workflows : link' = [link EXCEPT ![r] = w]
    /\ UNCHANGED <<charge, artifact>>

\* A run that succeeds is charged for its first call and for no other.
AgentRunSucceeds(r) ==
    /\ status[r] = "pending"
    /\ status' = [status EXCEPT ![r] = "succeeded"]
    /\ \E call \in {NoCall, <<r, 1>>} : charge' = [charge EXCEPT ![r] = call]
    /\ UNCHANGED <<link, artifact>>

AgentRunFails(r) ==
    /\ status[r] = "pending"
    /\ status' = [status EXCEPT ![r] = "failed"]
    /\ UNCHANGED <<link, charge, artifact>>

\* Only a run that succeeded has an artifact, and it has one at most.
StoreArtifact(r) ==
    /\ status[r] = "succeeded"
    /\ artifact[r] = NoRun
    /\ \E w \in Workflows \ {NoRun} : artifact' = [artifact EXCEPT ![r] = w]
    /\ UNCHANGED <<status, link, charge>>

OpenWorkflowRun(w) ==
    /\ status[w] = "absent"
    /\ status' = [status EXCEPT ![w] = "running"]
    /\ UNCHANGED <<link, charge, artifact>>

CloseWorkflowRun(w) ==
    /\ status[w] \in {"running", "aborted"}
    /\ \E s \in {"succeeded", "failed"} : status' = [status EXCEPT ![w] = s]
    /\ UNCHANGED <<link, charge, artifact>>

AbortWorkflowRun(w) ==
    /\ "janitor" \in Faults
    /\ status[w] = "running"
    /\ status' = [status EXCEPT ![w] = "aborted"]
    /\ UNCHANGED <<link, charge, artifact>>

Next ==
    \/ \E r \in AgentRuns : OpenAgentRun(r) \/ AgentRunSucceeds(r)
                            \/ AgentRunFails(r) \/ StoreArtifact(r)
    \/ \E w \in WorkflowRuns : OpenWorkflowRun(w) \/ CloseWorkflowRun(w)
                               \/ AbortWorkflowRun(w)

Spec == Init /\ [][Next]_trail
=============================================================================
