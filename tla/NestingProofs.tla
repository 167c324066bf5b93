---------------------------- MODULE NestingProofs ---------------------------
(***************************************************************************)
(* Proofs about the workflow a call belongs to, for any nesting of agents  *)
(* and workflows in any number of tasks: ctx.workflow_run_id, the links of *)
(* the rows and the artifacts agree with the await chain as long as the    *)
(* closing update of every workflow comes back, whatever other await of    *)
(* the store raises or is cancelled.  The last section proves what is left *)
(* of that when it does not come back.                                     *)
(***************************************************************************)
EXTENDS RuntimeProofs

\* The awaits of the store are not cancelled, and its statements raise only
\* where a foreign key fails.
StoreAnswers == "cancel" \notin Faults /\ "store" \notin Faults

-----------------------------------------------------------------------------
(***************************************************************************)
(* What a step does to the links, the statements and the chains.           *)
(***************************************************************************)

\* Only a worker that inserts a row writes a link, and it moves no call.
LEMMA LinkSteps ==
    ASSUME [Next]_vars
    PROVE  link' = link \/ \E r \in Runs : WorkerInsertsRow(r)
<1>1. ASSUME NEW t \in Tasks, BodyStep(t) \/ BodyEnds(t) PROVE link' = link
  BY <1>1 DEF BodyStep, CallAgent, CallWorkflow, InvokeLLM, BodyEnds, BackOff, AgentBodyRaises, FailAgent,
         AgentBodyReturns, AgentReturnsUnaudited, AgentValueInvalid, WorkflowBodyReturns,
         WorkflowBodyRaises, Submit, storeVars, rowVars
<1>2. ASSUME NEW t \in Tasks, Resume(t) \/ Cancel(t) PROVE link' = link
  BY <1>2 DEF Resume, LLMAnswers, LLMFails, BeginAgentBody, Retry, InsertAgentArtifact, AgentReturns,
         AgentReraises, AgentStoreFails, BeginWorkflowBody, WorkflowEnds, WorkflowStoreFails, Cancel,
         CancelBackoff, FailAgent, AgentStoreCancelled, WorkflowStoreCancelled, Submit, Consume,
         storeVars, rowVars
<1>3. ASSUME NEW r \in Runs, Worker(r) PROVE link' = link \/ WorkerInsertsRow(r)
  BY <1>3 DEF Worker, WorkerUpdatesRow, UpdateRow, WorkerInsertsArtifact, InsertArtifactRow,
         WorkerRejects, RejectStatement
<1>4. CASE (\E w \in WorkflowRuns : JanitorAborts(w)) \/ Crash \/ UNCHANGED vars
  BY <1>4 DEF JanitorAborts, Crash, vars, storeVars, rowVars
<1> QED BY <1>1, <1>2, <1>3, <1>4 DEF Next

\* A call that is active before and after a step was called in the same
\* workflow before and after: the agent that called it, if any, has its row.
LEMMA BelowKept ==
    ASSUME TypeOK, StackInv, RowInv, [Next]_vars, NEW s \in Runs, IsActive(s)
    PROVE  WorkflowBelow(s)' = WorkflowBelow(s)
<1> USE RunIdsDistinct DEF TypeOK, ContextTypeOK, StoreTypeOK
<1>1. caller'[s] = caller[s]
  <2>1. CASE \E t \in Tasks, r \in Runs : Enter(t, r)
    BY <2>1 DEF Enter, IsActive, Active
  <2> QED BY <2>1, StackSteps DEF Moves, Leaves, Leave, Crash, StackKept, stackVars
<1>2. CASE link' = link
  BY <1>1, <1>2 DEF WorkflowBelow, WorkflowOf
<1>3. ASSUME NEW r \in Runs, WorkerInsertsRow(r), caller[s] # NoRun
      PROVE  WorkflowBelow(s)' = WorkflowBelow(s)
  <2>1. IsActive(caller[s]) /\ caller[s] \in Runs /\ caller[s] # s
    BY <1>3 DEF StackInv, OnChain
  <2>2. pc[caller[s]] = "body"
    BY <1>3, <2>1 DEF StackInv, OnChain, CurIsActive
  <2>3. stage[caller[s]] = "none"
    BY <2>1, <2>2 DEF RowInv, RunOK, RowAtPlace, Scoped
  <2>4. caller[s] # r
    BY <1>3, <2>3 DEF WorkerInsertsRow, InsertRow, Executes
  <2>5. link'[caller[s]] = link[caller[s]]
    BY <1>3, <2>4 DEF WorkerInsertsRow, InsertRow
  <2> QED BY <1>1, <2>5 DEF WorkflowBelow, WorkflowOf
<1> QED BY <1>1, <1>2, <1>3, LinkSteps DEF WorkflowBelow

\* The body of a call runs in the workflow the calls made there are called in.
LEMMA BodyWorkflow ==
    ASSUME TypeOK, StackInv, NestingInv, NEW t \in Tasks, NEW s \in Runs, pc[s] = "body"
    PROVE  /\ s \in AgentRuns => WorkflowOf(s) = WorkflowBelow(s)
           /\ cur[t] = s => WorkflowInForce(t) = WorkflowOf(s)
<1>1. IsActive(s)
  BY DEF IsActive, Active
<1>2. s \in AgentRuns => WorkflowOf(s) = WorkflowBelow(s)
  BY <1>1, RunIdsDistinct DEF NestingInv, LinkedBelow, WorkflowOf
<1> QED BY <1>2, RunIdsDistinct DEF WorkflowInForce, WorkflowOf, Runs

\* A call that begins is called in the workflow on the context.
LEMMA EnterBelow ==
    ASSUME TypeOK, StackInv, RowInv, NestingInv, NEW t \in Tasks, NEW r \in Runs, Enter(t, r), link' = link
    PROVE  /\ WorkflowBelow(r)' = WorkflowInForce(t)
           /\ WorkflowInForce(t)' = WorkflowInForce(t)
<1> USE RunIdsDistinct DEF TypeOK, ContextTypeOK, Enter
<1>1. caller'[r] = cur[t] /\ cur'[t] = r /\ pc'[r] = "insert" /\ r # NoRun
  OBVIOUS
<1>2. cur[t] # NoRun => cur[t] \in Runs /\ pc[cur[t]] = "body"
  BY DEF MayCall, At
<1>3. cur[t] # NoRun => WorkflowInForce(t) = WorkflowOf(cur[t])
  BY <1>2, BodyWorkflow
<1>4. WorkflowBelow(r)' = WorkflowInForce(t)
  BY <1>1, <1>3 DEF WorkflowBelow, WorkflowOf, WorkflowInForce
<1> QED BY <1>1, <1>4 DEF WorkflowInForce

-----------------------------------------------------------------------------
(***************************************************************************)
(* The conjuncts of NestingInv, each kept by every step.                   *)
(***************************************************************************)

\* No await of the store raises.
NoError == \A r \in Runs : stage[r] # "error"

\* No worker rejects a statement, as no foreign key fails.
LEMMA NoErrorStep ==
    ASSUME StoreAnswers, TypeOK, RowInv, NoError, [Next]_vars
    PROVE  NoError'
<1> USE DEF TypeOK, StoreTypeOK, ContextTypeOK, NoError, Runs, At
<1>1. ASSUME NEW t \in Tasks, BodyStep(t) \/ BodyEnds(t) PROVE \A r \in Runs : stage'[r] # "error"
  BY <1>1 DEF BodyStep, CallAgent, CallWorkflow, InvokeLLM, BodyEnds, BackOff, AgentBodyRaises, FailAgent,
         AgentBodyReturns, AgentReturnsUnaudited, AgentValueInvalid, WorkflowBodyReturns,
         WorkflowBodyRaises, Submit, storeVars
<1>2. ASSUME NEW t \in Tasks, Resume(t) \/ Cancel(t) PROVE \A r \in Runs : stage'[r] # "error"
  BY <1>2 DEF Resume, LLMAnswers, LLMFails, BeginAgentBody, Retry, InsertAgentArtifact, AgentReturns,
         AgentReraises, AgentStoreFails, BeginWorkflowBody, WorkflowEnds, WorkflowStoreFails, Cancel,
         CancelBackoff, FailAgent, AgentStoreCancelled, WorkflowStoreCancelled, Submit, Consume, storeVars
<1>3. ASSUME NEW r \in Runs, Worker(r) PROVE \A q \in Runs : stage'[q] # "error"
  <2>1. CASE WorkerRejects(r)
    <3>1. ~ForeignKeys(r) /\ stage[r] = "queued"
      BY <2>1 DEF WorkerRejects, RejectStatement, StoreAnswers
    <3>2. ForeignKeys(r)
      BY <3>1 DEF ForeignKeys, RowInv, RunOK, QueuedFits, NamesStored, Stored
    <3> QED BY <3>1, <3>2
  <2> QED BY <1>3, <2>1 DEF Worker, WorkerInsertsRow, InsertRow, WorkerUpdatesRow, UpdateRow,
             WorkerInsertsArtifact, InsertArtifactRow, Executes
<1>4. CASE (\E w \in WorkflowRuns : JanitorAborts(w)) \/ Crash \/ UNCHANGED vars
  BY <1>4 DEF JanitorAborts, Crash, vars, storeVars
<1> QED BY <1>1, <1>2, <1>3, <1>4 DEF Next

\* The workflow a call was called in stays suspended below it.
LEMMA EnclosedStep ==
    ASSUME TypeOK, StackInv, RowInv, NestingInv, [Next]_vars, NEW s \in Runs, IsActive(s)'
    PROVE  Enclosed(s)'
<1> USE RunIdsDistinct DEF TypeOK, ContextTypeOK, StoreTypeOK
<1>1. \A q \in Runs : WorkflowBelow(q) # NoRun => WorkflowBelow(q) \in Runs
  BY DEF WorkflowBelow, WorkflowOf, Runs
<1>2. ASSUME NEW t \in Tasks, NEW r \in Runs, Enter(t, r) PROVE Enclosed(s)'
  <2>1. link' = link
    BY <1>2, LinkSteps DEF WorkerInsertsRow, LoopUnchanged, Enter
  <2>2. CASE s # r
    <3>1. IsActive(s)
      BY <1>2, <2>2 DEF Enter, IsActive
    <3>2. WorkflowBelow(s)' = WorkflowBelow(s) /\ Enclosed(s)
      BY <3>1, BelowKept DEF NestingInv
    <3>3. WorkflowBelow(s) # NoRun => WorkflowBelow(s) # r
      BY <1>2, <3>2 DEF Enclosed, Enter
    <3> QED BY <1>1, <1>2, <2>2, <3>2, <3>3 DEF Enclosed, Enter
  <2>3. CASE s = r
    <3>1. WorkflowBelow(r)' = WorkflowInForce(t)
      BY <1>2, <2>1, EnterBelow
    <3>2. CASE cur[t] = NoRun
      BY <2>3, <3>1, <3>2 DEF WorkflowInForce, Enclosed
    <3>3. CASE cur[t] # NoRun
      <4>1. /\ cur[t] \in Runs /\ pc[cur[t]] = "body" /\ IsActive(cur[t])
            /\ task[cur[t]] = t /\ cur[t] # r
        BY <1>2, <3>3 DEF Enter, MayCall, At, StackInv, CurIsActive
      <4>2. /\ task'[r] = t /\ depth'[r] = depth[cur[t]] + 1
            /\ \A q \in Runs \ {r} : pc'[q] = pc[q] /\ task'[q] = task[q] /\ depth'[q] = depth[q]
        BY <1>2, <3>3 DEF Enter
      <4>3. CASE cur[t] \in WorkflowRuns
        <5>1. WorkflowBelow(r)' = cur[t]
          BY <3>1, <3>3, <4>1, <4>3 DEF WorkflowInForce
        <5> QED BY <2>3, <4>1, <4>2, <5>1 DEF Enclosed
      <4>4. CASE cur[t] \in AgentRuns
        <5>1. WorkflowBelow(r)' = WorkflowBelow(cur[t])
          BY <3>1, <3>3, <4>4 DEF WorkflowInForce
        <5>2. Enclosed(cur[t])
          BY <4>1 DEF NestingInv
        <5>3. WorkflowBelow(cur[t]) # NoRun => WorkflowBelow(cur[t]) \in Runs \ {r}
          BY <1>1, <1>2, <4>1, <5>2 DEF Enclosed, Enter
        <5> QED BY <2>3, <4>1, <4>2, <5>1, <5>2, <5>3 DEF Enclosed
      <4> QED BY <4>1, <4>3, <4>4 DEF Runs
    <3> QED BY <3>2, <3>3
  <2> QED BY <2>2, <2>3
<1>3. ASSUME NEW t \in Tasks, Moves(t) \/ Leaves(t) PROVE Enclosed(s)'
  <2>1. /\ cur[t] \in Runs /\ cur[t] # NoRun
        /\ \A q \in Runs \ {cur[t]} : pc'[q] = pc[q]
        /\ task' = task /\ depth' = depth
    BY <1>3 DEF Moves, Leaves, Leave, Goto, stackVars
  <2>2. IsActive(cur[t]) /\ task[cur[t]] = t
    BY <2>1 DEF StackInv, CurIsActive
  <2>3. IsActive(s)
    BY <1>3, <2>1, <2>2 DEF IsActive
  <2>4. WorkflowBelow(s)' = WorkflowBelow(s) /\ Enclosed(s)
    BY <2>3, BelowKept DEF NestingInv
  <2>5. task[s] = t => depth[s] <= depth[cur[t]]
    BY <2>3 DEF StackInv, OnChain
  <2>6. WorkflowBelow(s) # NoRun => WorkflowBelow(s) # cur[t]
    BY <2>1, <2>2, <2>4, <2>5 DEF Enclosed
  <2> QED BY <1>1, <2>1, <2>4, <2>6 DEF Enclosed
<1>4. CASE StackKept
  BY <1>4, BelowKept DEF StackKept, stackVars, NestingInv, Enclosed, IsActive
<1>5. CASE Crash
  BY <1>5 DEF Crash, IsActive, Active
<1> QED BY <1>2, <1>3, <1>4, <1>5, StackSteps

\* An agent's row is inserted with the workflow its insert names, and its
\* artifact with the workflow of its row.
LEMMA InsertStep ==
    ASSUME TypeOK, StackInv, RowInv, NestingInv, [Next]_vars, NEW q \in Runs, WorkerInsertsRow(q)
    PROVE  /\ \A r \in AgentRuns : IsActive(r)' => LinkedBelow(r)'
           /\ \A r \in AgentRuns : RowLinked(r)'
<1> USE RunIdsDistinct DEF TypeOK, ContextTypeOK, StoreTypeOK
<1>1. /\ UNCHANGED <<pc, stmt, artifact>>
      /\ stage[q] = "queued" /\ stmt[q].op = "insert"
      /\ stage' = [stage EXCEPT ![q] = "applied"]
      /\ link' = [link EXCEPT ![q] = stmt[q].wf]
  BY DEF WorkerInsertsRow, InsertRow, Executes, LoopUnchanged
<1>2. artifact[q] = NoRun /\ status' = [status EXCEPT ![q] = stmt[q].status] /\ stmt[q].status # "absent"
  BY <1>1 DEF RowInv, RunOK, QueuedFits, OpenStatus, WorkerInsertsRow, InsertRow
<1>3. ASSUME NEW r \in AgentRuns, IsActive(r)' PROVE LinkedBelow(r)'
  <2>1. IsActive(r) /\ r \in Runs
    BY <1>1, <1>3 DEF IsActive, Runs
  <2>2. WorkflowBelow(r)' = WorkflowBelow(r) /\ LinkedBelow(r)
    BY <2>1, BelowKept DEF NestingInv
  <2> QED BY <1>1, <2>1, <2>2 DEF LinkedBelow
<1>4. ASSUME NEW r \in AgentRuns PROVE RowLinked(r)'
  BY <1>1, <1>2 DEF NestingInv, RowLinked, Runs
<1> QED BY <1>3, <1>4

\* What keeps the link of an active agent right when no row is inserted: no
\* insert is queued for it, and the await of its insert does not come back.
LinkKept(r) ==
    /\ IsActive(r)
    /\ stmt'[r] = stmt[r] \/ stmt'[r].op # "insert"
    /\ pc'[r] = "insert" /\ stage'[r] # "applied" <=> pc[r] = "insert" /\ stage[r] # "applied"

\* The rows of the agents at work name the workflow they were called in.
LEMMA LinkedStep ==
    ASSUME PrivateContexts, TypeOK, StackInv, RowInv, NestingInv, [Next]_vars,
           NEW r \in AgentRuns, IsActive(r)'
    PROVE  LinkedBelow(r)'
<1> USE RunIdsDistinct, StatementFields
    DEF TypeOK, ContextTypeOK, StoreTypeOK, At, Goto, Runs
<1>1. CASE \E q \in Runs : WorkerInsertsRow(q)
  BY <1>1, InsertStep
<1>2. CASE link' = link /\ LinkKept(r)
  <2>1. WorkflowBelow(r)' = WorkflowBelow(r) /\ LinkedBelow(r)
    BY <1>2, BelowKept DEF NestingInv, LinkKept
  <2> QED BY <1>2, <2>1 DEF LinkedBelow, LinkKept
<1>3. ASSUME NEW t \in Tasks, NEW q \in AgentRuns, CallAgent(t, q) PROVE LinkedBelow(r)'
  <2>1. link' = link /\ Enter(t, q) /\ stmt'[q] = Insert("pending", workflowId[Ctx(t)])
        /\ stage'[q] = "queued"
    BY <1>3 DEF CallAgent, Submit, rowVars
  <2>2. CASE r = q
    <3>1. WorkflowBelow(q)' = WorkflowInForce(t)
      BY <2>1, EnterBelow
    <3>2. stmt'[q].wf = WorkflowInForce(t)
      BY <2>1 DEF NestingInv, Ctx
    <3>3. pc'[q] = "insert" /\ link[q] = NoRun
      BY <2>1 DEF Enter, NestingInv, RowLinked, RowInv, RunOK, RowAtPlace
    <3> QED BY <2>1, <2>2, <3>1, <3>2, <3>3 DEF LinkedBelow
  <2>3. CASE r # q
    BY <1>2, <1>3, <2>1, <2>3 DEF CallAgent, Submit, Enter, LinkKept, IsActive
  <2> QED BY <2>2, <2>3
<1>4. ASSUME NEW t \in Tasks, NEW w \in WorkflowRuns, CallWorkflow(t, w) PROVE LinkedBelow(r)'
  BY <1>2, <1>4 DEF CallWorkflow, Submit, rowVars, Enter, LinkKept, IsActive
<1>5. ASSUME NEW t \in Tasks, InvokeLLM(t) \/ BodyEnds(t) PROVE LinkedBelow(r)'
  BY <1>2, <1>5 DEF InvokeLLM, BodyEnds, BackOff, AgentBodyRaises, FailAgent, AgentBodyReturns,
         AgentReturnsUnaudited, AgentValueInvalid, WorkflowBodyReturns, WorkflowBodyRaises,
         Leave, Submit, storeVars, rowVars, LinkKept, IsActive, Active
<1>6. ASSUME NEW t \in Tasks, Resume(t) PROVE LinkedBelow(r)'
  <2>1. CASE LLMAnswers(t) \/ LLMFails(t) \/ BeginAgentBody(t) \/ Retry(t)
             \/ InsertAgentArtifact(t) \/ BeginWorkflowBody(t)
    BY <1>2, <2>1, DecoratorArguments
       DEF LLMAnswers, LLMFails, BeginAgentBody, Retry, InsertAgentArtifact, BeginWorkflowBody,
           Submit, Consume, storeVars, rowVars, LinkKept, IsActive, Active
  <2>2. CASE AgentReturns(t) \/ AgentReraises(t) \/ AgentStoreFails(t)
             \/ WorkflowEnds(t) \/ WorkflowStoreFails(t)
    BY <1>2, <2>2
       DEF AgentReturns, AgentReraises, AgentStoreFails, WorkflowEnds, WorkflowStoreFails,
           Leave, Consume, LinkKept, IsActive, Active
  <2> QED BY <1>6, <2>1, <2>2 DEF Resume
<1>7. ASSUME NEW t \in Tasks, Cancel(t) PROVE LinkedBelow(r)'
  BY <1>2, <1>7
     DEF Cancel, CancelBackoff, FailAgent, AgentStoreCancelled, WorkflowStoreCancelled,
         Leave, Submit, Consume, storeVars, rowVars, LinkKept, IsActive, Active
<1>8. ASSUME NEW q \in Runs, Worker(q), ~WorkerInsertsRow(q) PROVE LinkedBelow(r)'
  <2>1. UNCHANGED <<pc, stmt, link>> /\ stage[q] = "queued"
        /\ (stage'[q] = "applied" => stmt[q].op # "insert")
        /\ \A s \in Runs \ {q} : stage'[s] = stage[s]
    BY <1>8 DEF Worker, WorkerUpdatesRow, UpdateRow, WorkerInsertsArtifact, InsertArtifactRow, Executes,
           WorkerRejects, RejectStatement, LoopUnchanged
  <2>2. pc[q] = "insert" => stmt[q].op = "insert"
    BY DEF RowInv, RunOK, RowAtPlace
  <2>3. LinkKept(r)
    BY <2>1, <2>2 DEF LinkKept, IsActive
  <2> QED BY <1>2, <2>1, <2>3
<1>9. CASE (\E w \in WorkflowRuns : JanitorAborts(w)) \/ UNCHANGED vars
  BY <1>2, <1>9 DEF JanitorAborts, LoopUnchanged, vars, storeVars, LinkKept, IsActive
<1>10. CASE Crash
  BY <1>10 DEF Crash, IsActive, Active
<1> QED BY <1>1, <1>3, <1>4, <1>5, <1>6, <1>7, <1>8, <1>9, <1>10 DEF Next, BodyStep

\* An artifact names the workflow in the row of the agent that made it.
LEMMA ArtifactStep ==
    ASSUME PrivateContexts, TypeOK, StackInv, RowInv, NestingInv, [Next]_vars, NEW r \in AgentRuns
    PROVE  RowLinked(r)'
<1> USE RunIdsDistinct, StatementFields
    DEF TypeOK, ContextTypeOK, StoreTypeOK, At, Goto, Runs
<1> DEFINE Kept ==
        /\ link' = link /\ artifact' = artifact
        /\ status'[r] = "absent" => status[r] = "absent"
        /\ stage'[r] = "queued" /\ stmt'[r].op = "artifact" => stage[r] = "queued" /\ stmt'[r] = stmt[r]
<1>1. CASE \E q \in Runs : WorkerInsertsRow(q)
  BY <1>1, InsertStep
<1>2. CASE Kept
  BY <1>2 DEF NestingInv, RowLinked
<1>3. ASSUME NEW t \in Tasks, InsertAgentArtifact(t) PROVE RowLinked(r)'
  <2>1. /\ cur[t] \in AgentRuns /\ pc[cur[t]] = "closeOk"
        /\ link' = link /\ artifact' = artifact /\ status' = status
        /\ stmt' = [stmt EXCEPT ![cur[t]] = InsertArtifact(workflowId[Ctx(t)])]
        /\ stage' = [stage EXCEPT ![cur[t]] = "queued"]
    BY <1>3, DecoratorArguments DEF InsertAgentArtifact, Submit, rowVars
  <2>2. workflowId[Ctx(t)] = WorkflowBelow(cur[t])
    BY <2>1 DEF NestingInv, WorkflowInForce, Ctx
  <2>3. link[cur[t]] = WorkflowBelow(cur[t])
    BY <2>1 DEF NestingInv, LinkedBelow, IsActive, Active
  <2> QED BY <2>1, <2>2, <2>3 DEF NestingInv, RowLinked
<1>4. ASSUME NEW t \in Tasks, BodyStep(t) \/ BodyEnds(t) PROVE RowLinked(r)'
  BY <1>2, <1>4 DEF BodyStep, CallAgent, CallWorkflow, InvokeLLM, BodyEnds, BackOff, AgentBodyRaises,
         FailAgent, AgentBodyReturns, AgentReturnsUnaudited, AgentValueInvalid, WorkflowBodyReturns,
         WorkflowBodyRaises, Submit, storeVars, rowVars
<1>5. ASSUME NEW t \in Tasks, Resume(t) PROVE RowLinked(r)'
  BY <1>2, <1>3, <1>5 DEF Resume, LLMAnswers, LLMFails, BeginAgentBody, Retry, AgentReturns,
         AgentReraises, AgentStoreFails, BeginWorkflowBody, WorkflowEnds, WorkflowStoreFails, Consume,
         storeVars
<1>6. ASSUME NEW t \in Tasks, Cancel(t) PROVE RowLinked(r)'
  BY <1>2, <1>6 DEF Cancel, CancelBackoff, FailAgent, AgentStoreCancelled, WorkflowStoreCancelled,
         Submit, Consume, storeVars, rowVars
<1>7. ASSUME NEW q \in Runs, Worker(q), ~WorkerInsertsRow(q) PROVE RowLinked(r)'
  <2>1. CASE WorkerInsertsArtifact(q)
    BY <2>1 DEF WorkerInsertsArtifact, InsertArtifactRow, Executes, NestingInv, RowLinked
  <2>2. CASE WorkerUpdatesRow(q)
    BY <1>2, <2>2 DEF WorkerUpdatesRow, UpdateRow, Executes, RowInv, RunOK, QueuedFits
  <2>3. CASE WorkerRejects(q)
    BY <1>2, <2>3 DEF WorkerRejects, RejectStatement
  <2> QED BY <1>7, <2>1, <2>2, <2>3 DEF Worker
<1>8. CASE (\E w \in WorkflowRuns : JanitorAborts(w)) \/ Crash \/ UNCHANGED vars
  BY <1>2, <1>8 DEF JanitorAborts, Crash, vars, storeVars, rowVars
<1> QED BY <1>1, <1>4, <1>5, <1>6, <1>7, <1>8 DEF Next

\* A step that saves no prior workflow id and brings w past no insert.
PriorKept(w) ==
    /\ priorWorkflow' = priorWorkflow
    /\ IsActive(w)' /\ pc'[w] # "insert" => IsActive(w) /\ pc[w] # "insert"

\* Only a workflow that begins its body saves a prior workflow id, and it is so
\* that it gets past the insert of its row.
LEMMA PriorSteps ==
    ASSUME TypeOK, [Next]_vars, NEW w \in WorkflowRuns
    PROVE  PriorKept(w) \/ \E t \in Tasks : BeginWorkflowBody(t)
<1> USE RunIdsDistinct, DecoratorArguments
    DEF TypeOK, ContextTypeOK, Runs, PriorKept, IsActive, Active, At, Goto, localVars
<1>1. ASSUME NEW t \in Tasks, BodyStep(t) \/ BodyEnds(t) PROVE PriorKept(w)
  BY <1>1 DEF BodyStep, CallAgent, CallWorkflow, Enter, InvokeLLM, BodyEnds, BackOff, AgentBodyRaises,
         FailAgent, AgentBodyReturns, AgentReturnsUnaudited, AgentValueInvalid, WorkflowBodyReturns,
         WorkflowBodyRaises, Leave
<1>2. ASSUME NEW t \in Tasks, Resume(t), ~BeginWorkflowBody(t) PROVE PriorKept(w)
  <2>1. CASE LLMAnswers(t) \/ LLMFails(t) \/ BeginAgentBody(t) \/ Retry(t) \/ InsertAgentArtifact(t)
    BY <2>1 DEF LLMAnswers, LLMFails, BeginAgentBody, Retry, InsertAgentArtifact
  <2>2. CASE AgentReturns(t) \/ AgentReraises(t) \/ AgentStoreFails(t)
             \/ WorkflowEnds(t) \/ WorkflowStoreFails(t)
    BY <2>2 DEF AgentReturns, AgentReraises, AgentStoreFails, WorkflowEnds, WorkflowStoreFails, Leave
  <2> QED BY <1>2, <2>1, <2>2 DEF Resume
<1>3. ASSUME NEW t \in Tasks, Cancel(t) PROVE PriorKept(w)
  BY <1>3 DEF Cancel, CancelBackoff, FailAgent, AgentStoreCancelled, WorkflowStoreCancelled, Leave
<1>4. CASE \/ \E r \in Runs : Worker(r)
           \/ \E q \in WorkflowRuns : JanitorAborts(q)
           \/ UNCHANGED vars
  BY <1>4 DEF Worker, WorkerInsertsRow, WorkerUpdatesRow, WorkerInsertsArtifact, WorkerRejects,
         JanitorAborts, LoopUnchanged, vars
<1>5. CASE Crash
  BY <1>5 DEF Crash
<1> QED BY <1>1, <1>2, <1>3, <1>4, <1>5 DEF Next

\* What a workflow at work will put back is the workflow it was called in.
LEMMA PriorStep ==
    ASSUME TypeOK, StackInv, RowInv, NestingInv, [Next]_vars,
           NEW w \in WorkflowRuns, IsActive(w)', pc'[w] # "insert"
    PROVE  priorWorkflow'[w] = WorkflowBelow(w)'
<1> USE RunIdsDistinct DEF TypeOK, ContextTypeOK, Runs
<1>1. ASSUME NEW t \in Tasks, BeginWorkflowBody(t) PROVE priorWorkflow'[w] = WorkflowBelow(w)'
  <2>1. /\ cur[t] \in WorkflowRuns /\ pc[cur[t]] = "insert"
        /\ pc' = [pc EXCEPT ![cur[t]] = "body"]
        /\ priorWorkflow' = [priorWorkflow EXCEPT ![cur[t]] = workflowId[Ctx(t)]]
    BY <1>1 DEF BeginWorkflowBody, At, Goto
  <2>2. IsActive(w) /\ WorkflowBelow(w)' = WorkflowBelow(w)
    BY <2>1, BelowKept DEF IsActive, Active
  <2>3. workflowId[Ctx(t)] = WorkflowBelow(cur[t])
    BY <2>1 DEF NestingInv, WorkflowInForce, Ctx
  <2> QED BY <2>1, <2>2, <2>3 DEF NestingInv
<1>2. CASE PriorKept(w)
  BY <1>2, BelowKept DEF NestingInv, PriorKept
<1> QED BY <1>1, <1>2, PriorSteps

\* A step of task t that leaves the other tasks and contexts as they are.
OthersKept(t) ==
    /\ \A u \in Tasks \ {t} : cur'[u] = cur[u]
    /\ \A u \in Tasks \ {t} : cur[u] # NoRun => pc'[cur[u]] = pc[cur[u]]
    /\ \A c \in Contexts \ {CtxOf[t]} : workflowId'[c] = workflowId[c]

\* If the context of task t names the workflow in force after such a step, every
\* context does.
LEMMA ContextOfTaskStep ==
    ASSUME PrivateContexts, TypeOK, StackInv, RowInv, NestingInv, [Next]_vars,
           NEW t \in Tasks, OthersKept(t), workflowId'[CtxOf[t]] = WorkflowInForce(t)',
           NEW u \in Tasks
    PROVE  workflowId'[CtxOf[u]] = WorkflowInForce(u)'
<1>1. CASE u = t
  BY <1>1
<1>2. CASE u # t
  <2>1. workflowId'[CtxOf[u]] = WorkflowInForce(u)
    BY <1>2, ContextOfTask DEF PrivateContexts, OthersKept, NestingInv
  <2>2. cur[u] # NoRun => cur[u] \in Runs /\ IsActive(cur[u])
    BY DEF StackInv, CurIsActive, TypeOK, ContextTypeOK
  <2>3. cur[u] # NoRun => WorkflowBelow(cur[u])' = WorkflowBelow(cur[u])
    BY <1>2, <2>2, BelowKept DEF OthersKept
  <2>4. cur'[u] = cur[u] /\ (cur[u] # NoRun => pc'[cur[u]] = pc[cur[u]])
    BY <1>2 DEF OthersKept
  <2>5. WorkflowInForce(u)' = WorkflowInForce(u)
    BY <2>3, <2>4 DEF WorkflowInForce
  <2> QED BY <2>1, <2>5
<1> QED BY <1>1, <1>2

\* When the innermost call ends, the workflow it was called in is in force.
LEMMA LeaveInForce ==
    ASSUME TypeOK, StackInv, RowInv, NestingInv, [Next]_vars, NEW t \in Tasks, Leaves(t)
    PROVE  WorkflowInForce(t)' = WorkflowBelow(cur[t])
<1> USE RunIdsDistinct DEF TypeOK, ContextTypeOK
<1> PICK f \in Runs : f = cur[t]
  BY DEF Leaves
<1>1. /\ cur'[t] = caller[f]
      /\ \A q \in Runs \ {f} : pc'[q] = pc[q]
      /\ f # NoRun /\ IsActive(f) /\ task[f] = t
  BY DEF Leaves, Leave, Goto, StackInv, CurIsActive
<1>2. CASE caller[f] = NoRun
  BY <1>1, <1>2 DEF WorkflowInForce, WorkflowBelow
<1>3. CASE caller[f] # NoRun
  <2> PICK c \in Runs : c = caller[f]
    BY <1>3
  <2>1. c # f /\ pc[c] = "body" /\ IsActive(c)
    BY <1>1, <1>3, ChainFacts DEF StackInv, OnChain
  <2>2. pc'[c] = "body" /\ cur'[t] = c /\ c # NoRun
    BY <1>1, <1>3, <2>1
  <2>3. WorkflowBelow(f) = WorkflowOf(c)
    BY <1>3 DEF WorkflowBelow
  <2>4. CASE c \in WorkflowRuns
    BY <2>2, <2>3, <2>4 DEF WorkflowInForce, WorkflowOf
  <2>5. CASE c \in AgentRuns
    <3>1. WorkflowBelow(c)' = WorkflowBelow(c)
      BY <2>1, BelowKept
    <3>2. WorkflowOf(c) = WorkflowBelow(c)
      BY <2>1, <2>5, BodyWorkflow
    <3> QED BY <2>2, <2>3, <2>5, <3>1, <3>2 DEF WorkflowInForce
  <2> QED BY <2>4, <2>5 DEF Runs
<1> QED BY <1>2, <1>3

\* A step of task t moves no other task, and no other context if only its own is
\* written.
LEMMA OthersKeptStep ==
    ASSUME TypeOK, StackInv, NEW t \in Tasks,
           (\E r \in Runs : Enter(t, r)) \/ Moves(t) \/ Leaves(t),
           \A c \in Contexts \ {CtxOf[t]} : workflowId'[c] = workflowId[c]
    PROVE  OthersKept(t)
<1> USE RunIdsDistinct DEF TypeOK, ContextTypeOK, OthersKept
<1>1. ASSUME NEW r \in Runs, Enter(t, r) PROVE OthersKept(t)
  BY <1>1 DEF Enter, StackInv, CurIsActive, IsActive, Active
<1>2. CASE Moves(t) \/ Leaves(t)
  BY <1>2, ChainFacts DEF Moves, Leaves, Leave, Goto, stackVars
<1> QED BY <1>1, <1>2

\* On private contexts ctx.workflow_run_id is the workflow in force after every
\* step.
LEMMA ContextStep ==
    ASSUME PrivateContexts, ClosingAnswers, TypeOK, StackInv, RowInv, NestingInv, [Next]_vars,
           NEW u \in Tasks
    PROVE  workflowId'[CtxOf[u]] = WorkflowInForce(u)'
<1> USE RunIdsDistinct, ContextOfTask DEF TypeOK, ContextTypeOK, At, Goto, Runs
<1>1. ASSUME NEW t \in Tasks, NEW r \in Runs, Enter(t, r), workflowId' = workflowId
      PROVE  workflowId'[CtxOf[u]] = WorkflowInForce(u)'
  <2>1. link' = link
    BY <1>1, LinkSteps DEF WorkerInsertsRow, LoopUnchanged, Enter
  <2>2. workflowId'[CtxOf[t]] = WorkflowInForce(t)'
    BY <1>1, <2>1, EnterBelow DEF NestingInv
  <2>3. OthersKept(t)
    BY <1>1, OthersKeptStep
  <2> QED BY <2>2, <2>3, ContextOfTaskStep
<1>2. ASSUME NEW t \in Tasks, Moves(t), workflowId' = workflowId,
             cur[t] \in WorkflowRuns => (pc[cur[t]] = "insert" <=> pc'[cur[t]] = "insert")
      PROVE  workflowId'[CtxOf[u]] = WorkflowInForce(u)'
  <2>1. cur'[t] = cur[t] /\ cur[t] \in Runs /\ IsActive(cur[t])
    BY <1>2 DEF Moves, stackVars, StackInv, CurIsActive
  <2>2. WorkflowBelow(cur[t])' = WorkflowBelow(cur[t])
    BY <2>1, BelowKept
  <2>3. WorkflowInForce(t)' = WorkflowInForce(t)
    BY <1>2, <2>1, <2>2 DEF WorkflowInForce
  <2>4. OthersKept(t)
    BY <1>2, OthersKeptStep
  <2> QED BY <1>2, <2>3, <2>4, ContextOfTaskStep DEF NestingInv
<1>3. ASSUME NEW t \in Tasks, Leaves(t), workflowId' = workflowId,
             cur[t] \in WorkflowRuns => pc[cur[t]] = "insert"
      PROVE  workflowId'[CtxOf[u]] = WorkflowInForce(u)'
  <2>1. workflowId[CtxOf[t]] = WorkflowBelow(cur[t])
    BY <1>3 DEF NestingInv, WorkflowInForce, Leaves
  <2>2. workflowId'[CtxOf[t]] = WorkflowInForce(t)'
    BY <1>3, <2>1, LeaveInForce
  <2>3. OthersKept(t)
    BY <1>3, OthersKeptStep
  <2> QED BY <2>2, <2>3, ContextOfTaskStep
<1>4. ASSUME NEW t \in Tasks, BodyStep(t)
      PROVE  workflowId'[CtxOf[u]] = WorkflowInForce(u)'
  <2>1. CASE InvokeLLM(t)
    BY <1>2, <2>1 DEF InvokeLLM, Moves, Active, contextVars
  <2> QED BY <1>1, <1>4, <2>1 DEF BodyStep, CallAgent, CallWorkflow, contextVars
<1>5. ASSUME NEW t \in Tasks, BodyEnds(t)
      PROVE  workflowId'[CtxOf[u]] = WorkflowInForce(u)'
  <2>1. CASE AgentValueInvalid(t)
    BY <1>3, <2>1 DEF AgentValueInvalid, Leaves, Leave, PC, Active
  <2> QED BY <1>2, <1>5, <2>1
          DEF BodyEnds, BackOff, AgentBodyRaises, FailAgent, AgentBodyReturns, AgentReturnsUnaudited,
              WorkflowBodyReturns, WorkflowBodyRaises, Moves, Active, contextVars
<1>6. ASSUME NEW t \in Tasks, Resume(t)
      PROVE  workflowId'[CtxOf[u]] = WorkflowInForce(u)'
  <2>1. CASE LLMAnswers(t) \/ LLMFails(t) \/ BeginAgentBody(t) \/ Retry(t) \/ InsertAgentArtifact(t)
    BY <1>2, <2>1, DecoratorArguments
       DEF LLMAnswers, LLMFails, BeginAgentBody, Retry, InsertAgentArtifact, Moves, Active, contextVars, stackVars
  <2>2. CASE AgentReturns(t) \/ AgentReraises(t) \/ AgentStoreFails(t)
    BY <1>3, <2>2 DEF AgentReturns, AgentReraises, AgentStoreFails, Leaves, Leave, PC, Active, contextVars
  <2>3. CASE BeginWorkflowBody(t)
    <3>1. /\ cur[t] \in WorkflowRuns /\ pc'[cur[t]] = "body" /\ cur'[t] = cur[t]
          /\ workflowId' = [workflowId EXCEPT ![CtxOf[t]] = cur[t]] /\ Moves(t)
      BY <2>3 DEF BeginWorkflowBody, Moves, Active, stackVars, Ctx
    <3>2. workflowId'[CtxOf[t]] = WorkflowInForce(t)'
      BY <3>1 DEF WorkflowInForce
    <3>3. OthersKept(t)
      BY <3>1, OthersKeptStep
    <3> QED BY <3>2, <3>3, ContextOfTaskStep
  <2>4. CASE WorkflowEnds(t)
    <3>1. /\ cur[t] \in WorkflowRuns /\ pc[cur[t]] \in {"closeOk", "closeFail"}
          /\ workflowId' = [workflowId EXCEPT ![CtxOf[t]] = priorWorkflow[cur[t]]] /\ Leaves(t)
      BY <2>4 DEF WorkflowEnds, Leaves, PC, Active, Ctx
    <3>2. priorWorkflow[cur[t]] = WorkflowBelow(cur[t])
      BY <3>1 DEF NestingInv, IsActive, Active
    <3>3. workflowId'[CtxOf[t]] = WorkflowInForce(t)'
      BY <3>1, <3>2, LeaveInForce
    <3>4. OthersKept(t)
      BY <3>1, OthersKeptStep
    <3> QED BY <3>3, <3>4, ContextOfTaskStep
  <2>5. CASE WorkflowStoreFails(t)
    <3>1. pc[cur[t]] = "insert"
      BY <2>5 DEF WorkflowStoreFails, ClosingAnswers
    <3> QED BY <1>3, <2>5, <3>1 DEF WorkflowStoreFails, Leaves, Leave, PC, Active, contextVars
  <2> QED BY <1>6, <2>1, <2>2, <2>3, <2>4, <2>5 DEF Resume
<1>7. ASSUME NEW t \in Tasks, Cancel(t)
      PROVE  workflowId'[CtxOf[u]] = WorkflowInForce(u)'
  <2>1. CASE CancelBackoff(t)
    BY <1>2, <2>1 DEF CancelBackoff, FailAgent, Moves, Active
  <2>2. CASE AgentStoreCancelled(t)
    BY <1>3, <2>2 DEF AgentStoreCancelled, Leaves, Leave, PC, Active, contextVars
  <2>3. CASE WorkflowStoreCancelled(t)
    <3>1. pc[cur[t]] = "insert"
      BY <2>3 DEF WorkflowStoreCancelled, ClosingAnswers
    <3> QED BY <1>3, <2>3, <3>1 DEF WorkflowStoreCancelled, Leaves, Leave, PC, Active, contextVars
  <2> QED BY <1>7, <2>1, <2>2, <2>3 DEF Cancel
<1>8. CASE \/ \E r \in Runs : Worker(r)
           \/ \E w \in WorkflowRuns : JanitorAborts(w)
           \/ UNCHANGED vars
  <2>1. UNCHANGED <<cur, pc, workflowId>>
    BY <1>8 DEF Worker, WorkerInsertsRow, WorkerUpdatesRow, WorkerInsertsArtifact, WorkerRejects,
           JanitorAborts, LoopUnchanged, vars, stackVars, contextVars
  <2>2. cur[u] # NoRun => WorkflowBelow(cur[u])' = WorkflowBelow(cur[u])
    <3>1. cur[u] # NoRun => cur[u] \in Runs /\ IsActive(cur[u])
      BY DEF StackInv, CurIsActive
    <3>2. \A s \in Runs : IsActive(s) => WorkflowBelow(s)' = WorkflowBelow(s)
      BY BelowKept
    <3> QED BY <2>1, <3>1, <3>2
  <2> QED BY <2>1, <2>2 DEF WorkflowInForce, NestingInv
<1>9. CASE Crash
  BY <1>9 DEF Crash, WorkflowInForce
<1> QED BY <1>4, <1>5, <1>6, <1>7, <1>8, <1>9 DEF Next

-----------------------------------------------------------------------------
(***************************************************************************)
(* The theorems.                                                           *)
(***************************************************************************)

\* NestingInv holds to begin with.
LEMMA NestingInit == Init => NestingInv
BY RunIdsDistinct, ContextOfTask
   DEF Init, StoreInit, ContextInit, NestingInv, WorkflowInForce, RowLinked, IsActive, Active, Runs

\* Every step keeps NestingInv, if the closing updates come back.
LEMMA NestingStep ==
    ASSUME PrivateContexts, TypeOK, StackInv, RowInv, NestingInv, [Next /\ ClosingAnswers]_vars
    PROVE  NestingInv'
<1> [Next]_vars /\ ClosingAnswers
  BY RunIdsDistinct
     DEF ClosingAnswers, WorkflowStoreFails, WorkflowStoreCancelled, Leave, Goto, At, Runs,
         TypeOK, ContextTypeOK, vars
<1>1. \A t \in Tasks : workflowId'[CtxOf[t]] = WorkflowInForce(t)'
  BY ContextStep
<1>2. \A w \in WorkflowRuns : IsActive(w)' /\ pc'[w] # "insert" => priorWorkflow'[w] = WorkflowBelow(w)'
  BY PriorStep
<1>3. \A r \in AgentRuns : IsActive(r)' => LinkedBelow(r)'
  BY LinkedStep
<1>4. \A r \in Runs : IsActive(r)' => Enclosed(r)'
  BY EnclosedStep
<1>5. \A r \in AgentRuns : RowLinked(r)'
  BY ArtifactStep
<1> QED BY <1>1, <1>2, <1>3, <1>4, <1>5 DEF NestingInv

\* Every call of every task belongs to the workflow it was called in, whatever
\* is nested in what, retried, crashed or aborted by the janitor, and whichever
\* await is cancelled or raises, but for the closing ones of workflows.
THEOREM Nesting ==
    ASSUME PrivateContexts
    PROVE  AnsweredSpec => [](TypeOK /\ RowInv /\ NestingInv)
<1>1. Init => TypeOK /\ StackInv /\ RowInv /\ NestingInv
  BY InitTypeOK, InitInv, NestingInit
<1>2. TypeOK /\ StackInv /\ RowInv /\ NestingInv /\ [Next /\ ClosingAnswers]_vars
          => (TypeOK /\ StackInv /\ RowInv /\ NestingInv)'
  BY TypeOKStep, StackInvStep, RowInvStep, NestingStep
<1> QED BY <1>1, <1>2, PTL DEF AnsweredSpec

\* ctx.workflow_run_id is the workflow whose body is running and is put back
\* when it ends, if the closing updates come back: crashes, the janitor, and
\* whatever else fails or is cancelled notwithstanding.
THEOREM WorkflowIdIsRestored ==
    ASSUME PrivateContexts
    PROVE  AnsweredSpec => []WorkflowIdRestored
<1>1. NestingInv => WorkflowIdRestored
  BY RunIdsDistinct DEF NestingInv, WorkflowIdRestored, WorkflowInForce, Ctx, At, Runs
<1> QED BY <1>1, Nesting, PTL

\* An agent at work belongs to a workflow that is still running, and its
\* artifact to the workflow of its row, if the closing updates come back and no
\* janitor aborts the workflow under it.
THEOREM WorkIsNested ==
    ASSUME PrivateContexts, "janitor" \notin Faults
    PROVE  AnsweredSpec => []WorkStaysInItsWorkflow
<1>1. TypeOK /\ RowInv /\ NestingInv => WorkStaysInItsWorkflow
  <2> SUFFICES ASSUME TypeOK, RowInv, NestingInv PROVE WorkStaysInItsWorkflow
    OBVIOUS
  <2> USE RunIdsDistinct DEF TypeOK, StoreTypeOK, Runs
  <2>1. ASSUME NEW r \in AgentRuns, IsActive(r), link[r] # NoRun PROVE status[link[r]] = "running"
    <3>1. link[r] = WorkflowBelow(r) /\ Enclosed(r)
      BY <2>1 DEF NestingInv, LinkedBelow
    <3>2. link[r] \in WorkflowRuns /\ pc[link[r]] = "body"
      BY <2>1, <3>1 DEF Enclosed
    <3> QED BY <3>2 DEF RowInv, RunOK, RowAtPlace, Scoped, IsOpen, OpenStatus
  <2> QED BY <2>1 DEF WorkStaysInItsWorkflow, IsActive, NestingInv, RowLinked
<1> QED BY <1>1, Nesting, PTL

\* Without cancellations and store failures every closing update comes back, so
\* the theorems above hold of Spec: crashes and the janitor do not matter.
THEOREM ClosingsComeBack ==
    ASSUME StoreAnswers
    PROVE  Spec => AnsweredSpec
<1>1. Init => TypeOK /\ StackInv /\ RowInv /\ NoError
  BY InitTypeOK, InitInv DEF Init, StoreInit, NoError
<1>2. TypeOK /\ StackInv /\ RowInv /\ NoError /\ [Next]_vars
          => (TypeOK /\ StackInv /\ RowInv /\ NoError)'
  BY TypeOKStep, StackInvStep, RowInvStep, NoErrorStep
<1>3. TypeOK /\ NoError => ClosingAnswers
  BY RunIdsDistinct DEF NoError, ClosingAnswers, WorkflowStoreFails, WorkflowStoreCancelled, StoreAnswers, At, Runs
<1>4. TypeOK /\ NoError /\ [Next]_vars => [Next /\ ClosingAnswers]_vars
  BY <1>3
<1> QED BY <1>1, <1>2, <1>4, PTL DEF Spec, AnsweredSpec
-----------------------------------------------------------------------------
(***************************************************************************)
(* Under all faults.  A closing update that does not come back leaves the  *)
(* id of its workflow on the context, from where the wrappers of later     *)
(* workflows save and restore it and later agents are linked to it.  All   *)
(* these places name workflows that have raised or are still at work       *)
(* around them.                                                            *)
(***************************************************************************)

\* The workflow w has raised or is at work in task t, its row inserted.
OpenIn(w, t) ==
    \/ w = NoRun
    \/ pc[w] = "raised"
    \/ IsActive(w) /\ pc[w] # "insert" /\ task[w] = t

\* The workflow w has raised or is at work around the call s.
Around(w, s) ==
    \/ w = NoRun
    \/ pc[w] = "raised"
    \/ IsActive(w) /\ task[w] = task[s] /\ depth[w] < depth[s]

\* Contexts, wrappers, inserts and rows name workflows that have raised or are
\* at work around them.
OpenInv ==
    /\ \A t \in Tasks : OpenIn(workflowId[CtxOf[t]], t)
    /\ \A v \in WorkflowRuns : IsActive(v) /\ pc[v] # "insert" => Around(priorWorkflow[v], v)
    /\ \A r \in AgentRuns :
          IsActive(r) => Around(link[r], r) /\ (pc[r] = "insert" => Around(stmt[r].wf, r))
    /\ \A r \in AgentRuns : pc[r] = "unused" => link[r] = NoRun

\* How a step moves a workflow.
LEMMA WorkflowSteps ==
    ASSUME TypeOK, [Next]_vars, NEW w \in WorkflowRuns
    PROVE  \/ Crash
           \/ \E t \in Tasks : Enter(t, w)
           \/ \E t \in Tasks : (BeginWorkflowBody(t) \/ WorkflowEnds(t)) /\ cur[t] = w
           \/ pc[w] = "body" /\ pc'[w] \in {"closeOk", "closeFail"}
           \/ IsActive(w) /\ pc'[w] = "raised"
           \/ pc'[w] = pc[w]
<1> USE RunIdsDistinct, DecoratorArguments
    DEF TypeOK, ContextTypeOK, Runs, IsActive, Active, At, Goto
<1>1. ASSUME NEW t \in Tasks, BodyStep(t)
      PROVE  pc'[w] = pc[w] \/ Enter(t, w)
  BY <1>1 DEF BodyStep, CallAgent, CallWorkflow, Enter, InvokeLLM
<1>2. ASSUME NEW t \in Tasks, Moves(t) \/ Leaves(t), cur[t] # w PROVE pc'[w] = pc[w]
  BY <1>2 DEF Moves, Leaves, Leave
<1>3. ASSUME NEW t \in Tasks, BodyEnds(t), cur[t] = w
      PROVE  pc[w] = "body" /\ pc'[w] \in {"closeOk", "closeFail"}
  BY <1>3 DEF BodyEnds, BackOff, AgentBodyRaises, FailAgent, AgentBodyReturns,
         AgentReturnsUnaudited, AgentValueInvalid, WorkflowBodyReturns, WorkflowBodyRaises
<1>4. ASSUME NEW t \in Tasks, Resume(t), cur[t] = w, ~(BeginWorkflowBody(t) \/ WorkflowEnds(t))
      PROVE  IsActive(w) /\ pc'[w] = "raised"
  BY <1>4 DEF Resume, LLMAnswers, LLMFails, BeginAgentBody, Retry, InsertAgentArtifact, AgentReturns,
         AgentReraises, AgentStoreFails, WorkflowStoreFails, Leave
<1>5. ASSUME NEW t \in Tasks, Cancel(t), cur[t] = w
      PROVE  IsActive(w) /\ pc'[w] = "raised"
  BY <1>5 DEF Cancel, CancelBackoff, AgentStoreCancelled, WorkflowStoreCancelled, Leave
<1>6. ASSUME NEW t \in Tasks, BodyEnds(t) \/ Resume(t) \/ Cancel(t) PROVE Moves(t) \/ Leaves(t)
  BY <1>6, StepOfCall
<1>7. CASE \/ \E r \in Runs : Worker(r)
           \/ \E q \in WorkflowRuns : JanitorAborts(q)
           \/ UNCHANGED vars
  BY <1>7 DEF Worker, WorkerInsertsRow, WorkerUpdatesRow, WorkerInsertsArtifact, WorkerRejects,
         JanitorAborts, LoopUnchanged, vars
<1> QED BY <1>1, <1>2, <1>3, <1>4, <1>5, <1>6, <1>7 DEF Next

\* How a step moves an agent that is at work after it.
LEMMA AgentSteps ==
    ASSUME TypeOK, RowInv, [Next]_vars, NEW r \in AgentRuns, IsActive(r)'
    PROVE  \/ \E t \in Tasks : CallAgent(t, r)
           \/ /\ IsActive(r)
              /\ link'[r] = link[r] \/ (WorkerInsertsRow(r) /\ pc[r] = "insert" /\ link'[r] = stmt[r].wf)
              /\ pc'[r] = "insert" => pc[r] = "insert" /\ stmt'[r] = stmt[r]
<1> USE RunIdsDistinct, DecoratorArguments
    DEF TypeOK, ContextTypeOK, StoreTypeOK, Runs, IsActive, Active, At, Goto
<1> DEFINE Kept == /\ IsActive(r)
                   /\ pc'[r] = "insert" => pc[r] = "insert" /\ stmt'[r] = stmt[r]
<1>1. ASSUME NEW t \in Tasks, BodyStep(t) PROVE Kept \/ CallAgent(t, r)
  <2>1. ASSUME NEW q \in AgentRuns, CallAgent(t, q), q # r PROVE Kept
    BY <2>1 DEF CallAgent, Enter, Submit
  <2>2. ASSUME NEW q \in WorkflowRuns, CallWorkflow(t, q) PROVE Kept
    BY <2>2 DEF CallWorkflow, Enter, Submit
  <2>3. CASE InvokeLLM(t)
    BY <2>3 DEF InvokeLLM, storeVars
  <2> QED BY <1>1, <2>1, <2>2, <2>3 DEF BodyStep
<1>2. ASSUME NEW t \in Tasks, BodyEnds(t) PROVE Kept
  BY <1>2 DEF BodyEnds, BackOff, AgentBodyRaises, FailAgent, AgentBodyReturns, AgentReturnsUnaudited,
         AgentValueInvalid, WorkflowBodyReturns, WorkflowBodyRaises, Leave, Submit, storeVars
<1>3. ASSUME NEW t \in Tasks, Resume(t) PROVE Kept
  <2>1. CASE LLMAnswers(t) \/ LLMFails(t) \/ BeginAgentBody(t) \/ Retry(t)
             \/ InsertAgentArtifact(t) \/ BeginWorkflowBody(t)
    BY <2>1 DEF LLMAnswers, LLMFails, BeginAgentBody, Retry, InsertAgentArtifact, BeginWorkflowBody,
           Submit, Consume, storeVars
  <2>2. CASE AgentReturns(t) \/ AgentReraises(t) \/ AgentStoreFails(t)
             \/ WorkflowEnds(t) \/ WorkflowStoreFails(t)
    BY <2>2 DEF AgentReturns, AgentReraises, AgentStoreFails, WorkflowEnds, WorkflowStoreFails,
           Leave, Consume
  <2> QED BY <1>3, <2>1, <2>2 DEF Resume
<1>4. ASSUME NEW t \in Tasks, Cancel(t) PROVE Kept
  BY <1>4 DEF Cancel, CancelBackoff, FailAgent, AgentStoreCancelled, WorkflowStoreCancelled,
         Leave, Submit, Consume, storeVars
<1>5. ASSUME \/ \E q \in Runs : Worker(q)
             \/ \E q \in WorkflowRuns : JanitorAborts(q)
             \/ UNCHANGED vars
      PROVE  Kept
  <2>1. pc' = pc
    BY <1>5 DEF Worker, WorkerInsertsRow, WorkerUpdatesRow, WorkerInsertsArtifact, WorkerRejects,
           JanitorAborts, LoopUnchanged, vars
  <2>2. stmt' = stmt
    BY <1>5 DEF Worker, WorkerInsertsRow, InsertRow, WorkerUpdatesRow, UpdateRow, WorkerInsertsArtifact,
           InsertArtifactRow, WorkerRejects, RejectStatement, Executes, JanitorAborts, vars, storeVars
  <2> QED BY <2>1, <2>2
<1>6. CASE Crash
  BY <1>6 DEF Crash
<1>7. Kept \/ \E t \in Tasks : CallAgent(t, r)
  BY <1>1, <1>2, <1>3, <1>4, <1>5, <1>6 DEF Next
<1>8. ASSUME IsActive(r)
      PROVE  link'[r] = link[r] \/ (WorkerInsertsRow(r) /\ pc[r] = "insert" /\ link'[r] = stmt[r].wf)
  <2>1. CASE link' = link
    BY <2>1
  <2>2. ASSUME NEW q \in Runs, WorkerInsertsRow(q), q # r PROVE link'[r] = link[r]
    BY <2>2 DEF WorkerInsertsRow, InsertRow
  <2>3. CASE WorkerInsertsRow(r)
    <3>1. stage[r] = "queued" /\ stmt[r].op = "insert" /\ link'[r] = stmt[r].wf
      BY <2>3 DEF WorkerInsertsRow, InsertRow, Executes
    <3>2. pc[r] = "insert"
      BY <1>8, <3>1 DEF RowInv, RunOK, RowAtPlace, Scoped
    <3> QED BY <2>3, <3>1, <3>2
  <2> QED BY <2>1, <2>2, <2>3, LinkSteps
<1> QED BY <1>7, <1>8

\* A call that has begun keeps its task and its depth.
LEMMA PlaceKept ==
    ASSUME TypeOK, [Next]_vars, NEW s \in Runs, pc[s] # "unused"
    PROVE  task'[s] = task[s] /\ depth'[s] = depth[s]
<1> USE DEF TypeOK, ContextTypeOK
<1>1. ASSUME NEW t \in Tasks, NEW r \in Runs, Enter(t, r)
      PROVE  task'[s] = task[s] /\ depth'[s] = depth[s]
  BY <1>1 DEF Enter
<1>2. CASE Crash \/ StackKept
  BY <1>2 DEF Crash, StackKept, stackVars
<1>3. ASSUME NEW t \in Tasks, Leaves(t)
      PROVE  task'[s] = task[s] /\ depth'[s] = depth[s]
  BY <1>3 DEF Leave, Leaves, Goto
<1> QED BY <1>1, <1>2, <1>3, StackSteps DEF Moves, Active, stackVars

\* What is around a call at work stays around it or raises.
LEMMA AroundKept ==
    ASSUME TypeOK, StackInv, [Next]_vars, NEW w \in WorkflowRuns \cup {NoRun}, NEW s \in Runs,
           IsActive(s), IsActive(s)', Around(w, s)
    PROVE  Around(w, s)'
<1> USE RunIdsDistinct DEF TypeOK, ContextTypeOK, Runs
<1>1. CASE w = NoRun
  BY <1>1 DEF Around
<1>2. CASE w \in WorkflowRuns /\ pc[w] = "raised"
  <2>1. pc'[w] = "raised" \/ Crash
    BY <1>2, WorkflowSteps DEF Enter, BeginWorkflowBody, WorkflowEnds, At
  <2> QED BY <1>2, <2>1 DEF Crash, Around, Active
<1>3. CASE w \in WorkflowRuns /\ IsActive(w) /\ task[w] = task[s] /\ depth[w] < depth[s]
  <2>1. /\ pc[w] # "unused" /\ pc[s] # "unused"
        /\ task'[w] = task[w] /\ depth'[w] = depth[w]
        /\ task'[s] = task[s] /\ depth'[s] = depth[s]
    BY <1>3, PlaceKept DEF IsActive, Active
  <2>2. \A t \in Tasks : cur[t] # w
    BY <1>3 DEF StackInv, CurIsActive, OnChain
  <2>3. ~Crash
    BY DEF Crash, IsActive, Active
  <2>4. IsActive(w)' \/ pc'[w] = "raised"
    BY <1>3, <2>1, <2>2, <2>3, WorkflowSteps DEF Enter, IsActive, Active
  <2> QED BY <1>3, <2>1, <2>4 DEF Around
<1> QED BY <1>1, <1>2, <1>3 DEF Around

\* What is open in a task stays open, or has raised, unless it ends in order.
LEMMA OpenKept ==
    ASSUME TypeOK, [Next]_vars, ~Crash, NEW w \in WorkflowRuns \cup {NoRun}, NEW t \in Tasks,
           OpenIn(w, t), \A u \in Tasks : WorkflowEnds(u) => cur[u] # w
    PROVE  OpenIn(w, t)'
<1> USE RunIdsDistinct DEF TypeOK, ContextTypeOK, Runs
<1>1. CASE w = NoRun
  BY <1>1 DEF OpenIn
<1>2. CASE w \in WorkflowRuns /\ pc[w] = "raised"
  <2>1. pc'[w] = "raised"
    BY <1>2, WorkflowSteps DEF Enter, BeginWorkflowBody, IsActive, Active, At
  <2> QED BY <2>1 DEF OpenIn
<1>3. CASE w \in WorkflowRuns /\ IsActive(w) /\ pc[w] # "insert" /\ task[w] = t
  <2>1. pc[w] # "unused" /\ task'[w] = task[w]
    BY <1>3, PlaceKept DEF IsActive, Active
  <2>2. pc'[w] = pc[w] \/ pc'[w] \in {"closeOk", "closeFail", "raised"}
    BY <1>3, <2>1, WorkflowSteps DEF Enter, BeginWorkflowBody, At
  <2> QED BY <1>3, <2>1, <2>2 DEF OpenIn, IsActive, Active
<1> QED BY <1>1, <1>2, <1>3 DEF OpenIn

\* ctx.workflow_run_id is written as a workflow begins and as it ends.
LEMMA ContextWrites ==
    ASSUME [Next]_vars
    PROVE  \/ Crash
           \/ \E t \in Tasks : BeginWorkflowBody(t) \/ WorkflowEnds(t)
           \/ workflowId' = workflowId
<1>1. ASSUME NEW t \in Tasks, BodyStep(t) \/ BodyEnds(t) PROVE workflowId' = workflowId
  BY <1>1 DEF BodyStep, CallAgent, CallWorkflow, InvokeLLM, BodyEnds, BackOff, AgentBodyRaises, FailAgent,
         AgentBodyReturns, AgentReturnsUnaudited, AgentValueInvalid, WorkflowBodyReturns,
         WorkflowBodyRaises, contextVars
<1>2. ASSUME NEW t \in Tasks, Resume(t), ~(BeginWorkflowBody(t) \/ WorkflowEnds(t))
      PROVE  workflowId' = workflowId
  BY <1>2 DEF Resume, LLMAnswers, LLMFails, BeginAgentBody, Retry, InsertAgentArtifact, AgentReturns,
         AgentReraises, AgentStoreFails, WorkflowStoreFails, contextVars
<1>3. ASSUME NEW t \in Tasks, Cancel(t) PROVE workflowId' = workflowId
  BY <1>3 DEF Cancel, CancelBackoff, FailAgent, AgentStoreCancelled, WorkflowStoreCancelled, contextVars
<1>4. CASE \/ \E r \in Runs : Worker(r)
           \/ \E w \in WorkflowRuns : JanitorAborts(w)
           \/ UNCHANGED vars
  BY <1>4 DEF Worker, WorkerInsertsRow, WorkerUpdatesRow, WorkerInsertsArtifact, WorkerRejects,
         JanitorAborts, LoopUnchanged, vars, contextVars
<1> QED BY <1>1, <1>2, <1>3, <1>4 DEF Next

\* On private contexts every context names a workflow that is open in its task.
LEMMA OpenContextStep ==
    ASSUME PrivateContexts, TypeOK, StackInv, OpenInv, [Next]_vars, NEW u \in Tasks
    PROVE  OpenIn(workflowId[CtxOf[u]], u)'
<1> USE RunIdsDistinct, ContextOfTask DEF TypeOK, ContextTypeOK, Runs
<1> DEFINE w == workflowId[CtxOf[u]]
<1>1. w \in WorkflowRuns \cup {NoRun} /\ OpenIn(w, u)
  BY DEF OpenInv
<1>2. CASE Crash
  BY <1>2 DEF Crash, OpenIn
<1>3. ASSUME ~Crash, workflowId'[CtxOf[u]] = w, \A t \in Tasks : WorkflowEnds(t) => cur[t] # w
      PROVE  OpenIn(workflowId[CtxOf[u]], u)'
  <2>1. OpenIn(w, u)'
    BY <1>1, <1>3, OpenKept
  <2> QED BY <1>3, <2>1 DEF OpenIn, IsActive
<1>4. ASSUME NEW t \in Tasks, BeginWorkflowBody(t) PROVE OpenIn(workflowId[CtxOf[u]], u)'
  <2>1. /\ workflowId' = [workflowId EXCEPT ![CtxOf[t]] = cur[t]]
        /\ cur[t] \in WorkflowRuns /\ pc' = [pc EXCEPT ![cur[t]] = "body"] /\ UNCHANGED task
        /\ task[cur[t]] = t
    BY <1>4 DEF BeginWorkflowBody, At, Goto, Ctx, stackVars, StackInv, CurIsActive
  <2>2. CASE u = t
    BY <2>1, <2>2 DEF OpenIn, IsActive, Active
  <2>3. CASE u # t
    <3>1. workflowId'[CtxOf[u]] = w
      BY <2>1, <2>3 DEF PrivateContexts
    <3>2. w # cur[t]
      BY <1>1, <1>4, <2>1, <2>3 DEF OpenIn, BeginWorkflowBody, At
    <3> QED BY <1>1, <2>1, <3>1, <3>2 DEF OpenIn, IsActive
  <2> QED BY <2>2, <2>3
<1>5. ASSUME NEW t \in Tasks, WorkflowEnds(t) PROVE OpenIn(workflowId[CtxOf[u]], u)'
  <2>1. /\ cur[t] \in WorkflowRuns /\ pc[cur[t]] \in {"closeOk", "closeFail"}
        /\ workflowId' = [workflowId EXCEPT ![CtxOf[t]] = priorWorkflow[cur[t]]]
        /\ \A q \in Runs \ {cur[t]} : pc'[q] = pc[q] /\ task'[q] = task[q]
        /\ task[cur[t]] = t /\ IsActive(cur[t])
    BY <1>5 DEF WorkflowEnds, At, Goto, Leave, Ctx, StackInv, CurIsActive
  <2>2. CASE u = t
    <3> DEFINE p == priorWorkflow[cur[t]]
    <3>1. p \in WorkflowRuns \cup {NoRun} /\ Around(p, cur[t])
      BY <2>1 DEF OpenInv
    <3>2. workflowId'[CtxOf[u]] = p
      BY <2>1, <2>2
    <3>3. p # NoRun => p # cur[t]
      BY <2>1, <3>1 DEF Around, IsActive, Active
    <3>4. p # NoRun /\ IsActive(p) => pc[p] = "body"
      <4> SUFFICES ASSUME p \in WorkflowRuns, IsActive(p) PROVE pc[p] = "body"
        BY <3>1
      <4>1. task[p] = t
        BY <2>1, <3>1 DEF Around, IsActive, Active
      <4> QED BY <3>3, <4>1 DEF StackInv, OnChain
    <3>5. p = NoRun \/ pc[p] = "raised" \/ (IsActive(p) /\ task[p] = t)
      BY <2>1, <3>1 DEF Around
    <3> HIDE DEF p
    <3>6. OpenIn(p, t)
      BY <3>4, <3>5 DEF OpenIn
    <3> QED BY <2>1, <2>2, <3>1, <3>2, <3>3, <3>6 DEF OpenIn, IsActive
  <2>3. CASE u # t
    <3>1. workflowId'[CtxOf[u]] = w
      BY <2>1, <2>3 DEF PrivateContexts
    <3>2. w # cur[t]
      BY <1>1, <2>1, <2>3 DEF OpenIn
    <3> QED BY <1>1, <2>1, <3>1, <3>2 DEF OpenIn, IsActive
  <2> QED BY <2>2, <2>3
<1>6. CASE ~Crash /\ ~(\E t \in Tasks : BeginWorkflowBody(t) \/ WorkflowEnds(t))
  BY <1>3, <1>6, ContextWrites
<1> QED BY <1>2, <1>4, <1>5, <1>6

\* A workflow at work will put back one that is around it.
LEMMA OpenPriorStep ==
    ASSUME TypeOK, StackInv, OpenInv, [Next]_vars,
           NEW v \in WorkflowRuns, IsActive(v)', pc'[v] # "insert"
    PROVE  Around(priorWorkflow[v], v)'
<1> USE RunIdsDistinct, ContextOfTask DEF TypeOK, ContextTypeOK, Runs
<1>1. ASSUME IsActive(v), Around(priorWorkflow[v], v), priorWorkflow'[v] = priorWorkflow[v]
      PROVE  Around(priorWorkflow[v], v)'
  <2>1. Around(priorWorkflow[v], v)'
            <=> \/ priorWorkflow[v] = NoRun
                \/ pc'[priorWorkflow[v]] = "raised"
                \/ /\ pc'[priorWorkflow[v]] \in Active
                   /\ task'[priorWorkflow[v]] = task'[v]
                   /\ depth'[priorWorkflow[v]] < depth'[v]
    BY <1>1 DEF Around, IsActive
  <2> DEFINE p == priorWorkflow[v]
  <2>2. p \in WorkflowRuns \cup {NoRun}
    OBVIOUS
  <2> QED BY <1>1, <2>1, <2>2, AroundKept DEF Around, IsActive
<1>2. ASSUME NEW t \in Tasks, BeginWorkflowBody(t) PROVE Around(priorWorkflow[v], v)'
  <2>1. /\ cur[t] \in WorkflowRuns /\ pc[cur[t]] = "insert"
        /\ pc' = [pc EXCEPT ![cur[t]] = "body"] /\ UNCHANGED <<task, depth>>
        /\ priorWorkflow' = [priorWorkflow EXCEPT ![cur[t]] = workflowId[CtxOf[t]]]
    BY <1>2 DEF BeginWorkflowBody, At, Goto, Ctx, stackVars
  <2>2. CASE v = cur[t]
    <3> DEFINE w == workflowId[CtxOf[t]]
    <3>1. w \in WorkflowRuns \cup {NoRun} /\ OpenIn(w, t)
      BY DEF OpenInv
    <3>2. task[v] = t /\ IsActive(v) /\ w # v /\ priorWorkflow'[v] = w
      BY <2>1, <2>2, <3>1 DEF StackInv, CurIsActive, OpenIn
    <3>3. w \in WorkflowRuns /\ IsActive(w) /\ task[w] = t => depth[w] < depth[v]
      BY <2>2, <3>2 DEF StackInv, OnChain, OneCallPerDepth
    <3> HIDE DEF w
    <3> QED BY <2>1, <2>2, <3>1, <3>2, <3>3 DEF OpenIn, Around, IsActive
  <2>3. CASE v # cur[t]
    <3>1. IsActive(v) /\ pc[v] # "insert" /\ priorWorkflow'[v] = priorWorkflow[v]
      BY <2>1, <2>3 DEF IsActive
    <3> QED BY <1>1, <3>1 DEF OpenInv
  <2> QED BY <2>2, <2>3
<1>3. CASE PriorKept(v)
  BY <1>1, <1>3 DEF PriorKept, OpenInv
<1> QED BY <1>2, <1>3, PriorSteps

\* An agent is called, and its row inserted, in a workflow that is around it.
LEMMA OpenLinkStep ==
    ASSUME TypeOK, StackInv, RowInv, OpenInv, [Next]_vars, NEW r \in AgentRuns, IsActive(r)'
    PROVE  Around(link[r], r)' /\ (pc'[r] = "insert" => Around(stmt[r].wf, r)')
<1> USE RunIdsDistinct, ContextOfTask DEF TypeOK, ContextTypeOK, StoreTypeOK, Runs
<1>1. ASSUME NEW t \in Tasks, CallAgent(t, r)
      PROVE  Around(link[r], r)' /\ (pc'[r] = "insert" => Around(stmt[r].wf, r)')
  <2>1. /\ pc[r] = "unused" /\ MayCall(t)
        /\ pc' = [pc EXCEPT ![r] = "insert"]
        /\ task' = [task EXCEPT ![r] = t]
        /\ depth' = [depth EXCEPT ![r] = IF cur[t] = NoRun THEN 0 ELSE depth[cur[t]] + 1]
        /\ link' = link /\ stmt'[r].wf = workflowId[CtxOf[t]]
    BY <1>1, StatementFields DEF CallAgent, Enter, Submit, rowVars, Ctx
  <2>2. link[r] = NoRun
    BY <2>1 DEF OpenInv
  <2> DEFINE w == workflowId[CtxOf[t]]
  <2>3. w \in WorkflowRuns \cup {NoRun} /\ OpenIn(w, t)
    BY DEF OpenInv
  <2>4. ASSUME w \in WorkflowRuns, IsActive(w), task[w] = t
        PROVE  cur[t] # NoRun /\ depth[w] <= depth[cur[t]] /\ cur[t] \in Runs
    BY <2>4 DEF StackInv, OnChain
  <2>5. w # r
    BY <2>3
  <2> HIDE DEF w
  <2>6. (w = NoRun \/ pc'[w] = "raised" \/ (pc'[w] \in Active /\ task'[w] = task'[r] /\ depth'[w] < depth'[r]))
    BY <2>1, <2>3, <2>4, <2>5 DEF OpenIn, IsActive
  <2> QED BY <2>1, <2>2, <2>6 DEF Around, IsActive, w
<1>2. ASSUME IsActive(r), link'[r] = link[r] \/ (pc[r] = "insert" /\ link'[r] = stmt[r].wf),
             pc'[r] = "insert" => pc[r] = "insert" /\ stmt'[r] = stmt[r]
      PROVE  Around(link[r], r)' /\ (pc'[r] = "insert" => Around(stmt[r].wf, r)')
  <2>1. \A w \in WorkflowRuns \cup {NoRun} :
            Around(w, r) => \/ w = NoRun
                            \/ pc'[w] = "raised"
                            \/ pc'[w] \in Active /\ task'[w] = task'[r] /\ depth'[w] < depth'[r]
    BY <1>2, AroundKept DEF Around, IsActive
  <2>2. /\ Around(link[r], r) /\ link[r] \in WorkflowRuns \cup {NoRun}
        /\ pc[r] = "insert" => Around(stmt[r].wf, r)
        /\ stmt[r].wf \in WorkflowRuns \cup {NoRun}
    BY <1>2 DEF OpenInv, Statement
  <2> QED BY <1>2, <2>1, <2>2 DEF Around, IsActive
<1> QED BY <1>1, <1>2, AgentSteps

\* A run that has not been called has no link.
LEMMA UnusedStep ==
    ASSUME TypeOK, RowInv, OpenInv, [Next]_vars, NEW r \in AgentRuns, pc'[r] = "unused"
    PROVE  link'[r] = NoRun
<1> USE RunIdsDistinct DEF TypeOK, ContextTypeOK, StoreTypeOK, Runs
<1>1. pc[r] = "unused"
  <2>1. ASSUME NEW t \in Tasks, NEW s \in Runs, Enter(t, s) PROVE pc[r] = "unused"
    BY <2>1 DEF Enter
  <2>2. ASSUME NEW t \in Tasks, Moves(t) \/ Leaves(t) PROVE pc[r] = "unused"
    BY <2>2 DEF Moves, Leaves, Leave, Goto, Active
  <2>3. CASE Crash \/ StackKept
    BY <2>3 DEF Crash, StackKept
  <2> QED BY <2>1, <2>2, <2>3, StackSteps
<1>2. stage[r] = "none" /\ link[r] = NoRun
  BY <1>1 DEF RowInv, RunOK, RowAtPlace, OpenInv
<1>3. ASSUME NEW q \in Runs, WorkerInsertsRow(q) PROVE link'[r] = link[r]
  BY <1>2, <1>3 DEF WorkerInsertsRow, InsertRow, Executes
<1> QED BY <1>2, <1>3, LinkSteps

\* With all faults, on private contexts, no context names a workflow that
\* returned and no agent is at work in one.
THEOREM ReturnedIsOver == ASSUME PrivateContexts PROVE Spec => []ReturnedWorkflowIsOver
<1>1. Init => TypeOK /\ StackInv /\ RowInv /\ OpenInv
  <2>1. Init => OpenInv
    BY ContextOfTask, RunIdsDistinct
       DEF Init, StoreInit, ContextInit, OpenInv, OpenIn, IsActive, Active, Runs
  <2> QED BY <2>1, InitTypeOK, InitInv
<1>2. TypeOK /\ StackInv /\ RowInv /\ OpenInv /\ [Next]_vars
          => (TypeOK /\ StackInv /\ RowInv /\ OpenInv)'
  <2>1. TypeOK /\ StackInv /\ RowInv /\ OpenInv /\ [Next]_vars => OpenInv'
    BY OpenContextStep, OpenPriorStep, OpenLinkStep, UnusedStep DEF OpenInv
  <2> QED BY <2>1, TypeOKStep, StackInvStep, RowInvStep
<1>3. TypeOK /\ OpenInv => ReturnedWorkflowIsOver
  BY RunIdsDistinct DEF OpenInv, OpenIn, Around, IsActive, Active, ReturnedWorkflowIsOver, Ctx, Runs
<1> QED BY <1>1, <1>2, <1>3, PTL DEF Spec
=============================================================================
