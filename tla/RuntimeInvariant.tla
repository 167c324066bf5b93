-------------------------- MODULE RuntimeInvariant --------------------------
(***************************************************************************)
(* The inductive invariant behind the safety properties of Runtime, in     *)
(* parts that RuntimeProofs proves one after the other: TypeOK and         *)
(* StackInv and RowInv hold under any sharing of contexts, ScopeInv needs  *)
(* private ones.                                                           *)
(***************************************************************************)
EXTENDS Runtime

IsActive(r) == pc[r] \in Active

(***************************************************************************)
(* The await chains.  cur[t] is the deepest active call of t, the calls    *)
(* below it are each suspended in their body, and no two active calls of a *)
(* task have the same depth, so leaving cur[t] makes its caller the        *)
(* deepest.                                                                *)
(***************************************************************************)
CurIsActive ==
    \A t \in Tasks : cur[t] # NoRun => IsActive(cur[t]) /\ task[cur[t]] = t

OnChain(r) ==
    /\ task[r] \in Tasks
    /\ cur[task[r]] # NoRun
    /\ depth[r] <= depth[cur[task[r]]]
    /\ r # cur[task[r]] => pc[r] = "body"
    /\ caller[r] = NoRun => depth[r] = 0
    /\ caller[r] # NoRun => /\ IsActive(caller[r])
                            /\ task[caller[r]] = task[r]
                            /\ depth[r] = depth[caller[r]] + 1

OneCallPerDepth ==
    \A r, s \in Runs :
        IsActive(r) /\ IsActive(s) /\ task[r] = task[s] /\ depth[r] = depth[s] => r = s

StackInv ==
    /\ CurIsActive
    /\ \A r \in Runs : IsActive(r) => OnChain(r)
    /\ OneCallPerDepth

(***************************************************************************)
(* A row and the statement its run has in the queue.                       *)
(***************************************************************************)
OpenStatus(r) == IF r \in AgentRuns THEN "pending" ELSE "running"
IsOpen(r) == status[r] \in {OpenStatus(r), "aborted"}

\* What the statement of a run finds in the table when it is executed.
QueuedFits(r) ==
    stage[r] = "queued" =>
        CASE stmt[r].op = "insert"   -> status[r] = "absent" /\ stmt[r].status = OpenStatus(r)
          [] stmt[r].op = "update"   -> IsOpen(r) /\ stmt[r].status \in {"succeeded", "failed"}
          [] stmt[r].op = "artifact" -> /\ r \in AgentRuns
                                        /\ status[r] = "succeeded"
                                        /\ artifact[r] = NoRun
                                        /\ stmt[r].wf # NoRun

\* The row of a run at each place of its wrapper.
RowAtPlace(r) ==
    /\ pc[r] = "unused" => status[r] = "absent" /\ stage[r] = "none" /\ own[r] = NoCall
    /\ pc[r] = "insert" => /\ stage[r] # "none"
                           /\ stmt[r].op = "insert"
                           /\ stage[r] = "applied" => IsOpen(r)
    /\ pc[r] \in Scoped => stage[r] = "none" /\ IsOpen(r)
    /\ pc[r] = "closeOk" => /\ stage[r] # "none"
                            /\ artifact[r] = NoRun
                            /\ stmt[r].op = "update" /\ stmt[r].status = "succeeded"
                            /\ stage[r] = "applied" => status[r] = "succeeded"
    /\ pc[r] = "closeFail" => stage[r] # "none" /\ stmt[r].op = "update"
    /\ pc[r] = "artifact" => /\ r \in AgentRuns
                             /\ stage[r] # "none"
                             /\ stmt[r].op = "artifact"
                             /\ status[r] = "succeeded"
                             /\ stage[r] = "applied" => artifact[r] = stmt[r].wf
    /\ pc[r] = "returned" => /\ stage[r] = "none"
                             /\ status[r] = "succeeded"
                             /\ stmt[r].op = "artifact" => artifact[r] = stmt[r].wf
    /\ pc[r] = "crashed" => stage[r] = "none"

\* A workflow named on a context, in a wrapper, in a row or in a statement.
Stored(w) == w # NoRun => status[w] # "absent"
NamesStored ==
    /\ \A c \in Contexts : Stored(workflowId[c])
    /\ \A w \in WorkflowRuns : Stored(priorWorkflow[w])
    /\ \A r \in Runs : Stored(stmt[r].wf) /\ Stored(link[r]) /\ Stored(artifact[r])

RunOK(r) ==
    /\ QueuedFits(r)
    /\ RowAtPlace(r)
    /\ artifact[r] # NoRun => status[r] = "succeeded"
    /\ status[r] \in {"absent", OpenStatus(r), "succeeded", "failed", "aborted"}
    /\ status[r] = "aborted" => "janitor" \in Faults /\ r \in WorkflowRuns
    /\ r \in WorkflowRuns => link[r] = NoRun /\ stmt[r].wf = NoRun

RowInv ==
    /\ \A r \in Runs : RunOK(r)
    /\ NamesStored

\* An agent call that sleeps before a retry has one left.
RetryInv ==
    \A r \in AgentRuns :
        attempt[r] <= MaxRetries /\ (pc[r] = "backoff" => attempt[r] < MaxRetries)

(***************************************************************************)
(* The LLM metadata.  Below(r) is the call in force where r was called;    *)
(* the context shows the call in force in the innermost scope.             *)
(***************************************************************************)
Below(r) == IF caller[r] = NoRun THEN NoCall ELSE own[caller[r]]
InForce(t) ==
    IF cur[t] = NoRun THEN NoCall
    ELSE IF pc[cur[t]] \in Scoped THEN own[cur[t]] ELSE Below(cur[t])

ScopeInv ==
    /\ \A t \in Tasks : lastCall[CtxOf[t]] = InForce(t)
    /\ \A r \in AgentRuns : pc[r] \in Scoped => savedCall[r] = Below(r)
    /\ \A w \in WorkflowRuns : pc[w] \in Scoped => own[w] = Below(w)
    /\ \A r \in AgentRuns : own[r] \in {NoCall, <<r, 1>>}
    /\ \A r \in AgentRuns : pc[r] = "llm" => own[r] = NoCall
    /\ \A w \in WorkflowRuns : pc[w] # "llm"

\* A row that succeeded, or is about to, charges the call of its own run.
ChargeOK(r) ==
    /\ r \in WorkflowRuns => stmt[r].call = NoCall /\ charge[r] = NoCall
    /\ status[r] # "succeeded" => charge[r] = NoCall
    /\ r \in AgentRuns /\ stage[r] = "queued" /\ stmt[r].op = "update"
       /\ stmt[r].status = "succeeded" =>
           stmt[r].call = own[r] /\ (own[r] = NoCall => r \in PureRuns)
    /\ r \in AgentRuns /\ status[r] = "succeeded" =>
           charge[r] = own[r] /\ (own[r] = NoCall => r \in PureRuns)

ChargeInv == \A r \in Runs : ChargeOK(r)

IInv == TypeOK /\ StackInv /\ RowInv /\ RetryInv /\ ScopeInv /\ ChargeInv

-----------------------------------------------------------------------------
(***************************************************************************)
(* The workflow a call belongs to, when contexts are private and the       *)
(* closing update of every workflow comes back.  WorkflowBelow(r) is the   *)
(* one r was called in: the innermost workflow among the calls below it,   *)
(* which an agent among them has put into its row.                         *)
(***************************************************************************)
WorkflowOf(r)    == IF r \in WorkflowRuns THEN r ELSE link[r]
WorkflowBelow(r) == IF caller[r] = NoRun THEN NoRun ELSE WorkflowOf(caller[r])

WorkflowInForce(t) ==
    IF cur[t] = NoRun THEN NoRun
    ELSE IF cur[t] \in WorkflowRuns /\ pc[cur[t]] # "insert" THEN cur[t]
    ELSE WorkflowBelow(cur[t])

\* An agent has the workflow it was called in in its row, once it has one.
LinkedBelow(r) ==
    /\ stmt[r].op = "insert" => stmt[r].wf = WorkflowBelow(r)
    /\ link[r] = IF pc[r] = "insert" /\ stage[r] # "applied" THEN NoRun ELSE WorkflowBelow(r)

\* The workflow a call was called in is further down on its await chain and is
\* suspended in its body.
Enclosed(r) ==
    WorkflowBelow(r) # NoRun =>
        /\ pc[WorkflowBelow(r)] = "body"
        /\ task[WorkflowBelow(r)] = task[r]
        /\ depth[WorkflowBelow(r)] < depth[r]

\* An artifact names the workflow in the row of the agent that made it.
RowLinked(r) ==
    /\ status[r] = "absent" => link[r] = NoRun
    /\ stage[r] = "queued" /\ stmt[r].op = "artifact" => stmt[r].wf = link[r]
    /\ artifact[r] \in {NoRun, link[r]}

NestingInv ==
    /\ \A t \in Tasks : workflowId[CtxOf[t]] = WorkflowInForce(t)
    /\ \A w \in WorkflowRuns :
          IsActive(w) /\ pc[w] # "insert" => priorWorkflow[w] = WorkflowBelow(w)
    /\ \A r \in AgentRuns : IsActive(r) => LinkedBelow(r)
    /\ \A r \in Runs : IsActive(r) => Enclosed(r)
    /\ \A r \in AgentRuns : RowLinked(r)
=============================================================================
