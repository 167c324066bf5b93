---------------------------- MODULE RuntimeProofs ---------------------------
(***************************************************************************)
(* Proofs of the safety properties of Runtime, for every set of runs,      *)
(* tasks and contexts, every bound and every combination of faults.        *)
(***************************************************************************)
EXTENDS RuntimeInvariant, TLAPS

\* The statements the platform issues are statements.
LEMMA StatementTypes ==
    /\ \A st \in Status, wf \in WorkflowRuns \cup {NoRun} : Insert(st, wf) \in Statement
    /\ \A st \in Status, call \in Call : Update(st, call) \in Statement
    /\ \A wf \in WorkflowRuns \cup {NoRun} : InsertArtifact(wf) \in Statement
    /\ NoCall \in Call
BY SMT DEF Insert, Update, InsertArtifact, Statement, Status, Call, NoCall

\* A call of the LLM is numbered by a natural number.
LEMMA CallNumber ==
    /\ \A call \in Call : call[2] \in Nat
    /\ \A r \in AgentRuns, n \in Nat : <<r, n>> \in Call
BY SMT DEF Call, NoCall

\* Contexts, chains and tables start well typed.
LEMMA InitTypeOK == Init => TypeOK
BY StatementTypes, BoundsAreNat, SMT
   DEF Init, StoreInit, ContextInit, TypeOK, StoreTypeOK, ContextTypeOK, Status, PC, Runs

\* What a step does to the types of the store's variables.
LEMMA SubmitType ==
    ASSUME StoreTypeOK, NEW r \in Runs, NEW s \in Statement, Submit(r, s)
    PROVE  StoreTypeOK'
BY DEF StoreTypeOK, Submit, rowVars

\* Consuming the result of an await keeps the types of the tables.
LEMMA ConsumeType ==
    ASSUME StoreTypeOK, NEW r \in Runs, Consume(r)
    PROVE  StoreTypeOK'
BY DEF StoreTypeOK, Consume

\* So does a step that leaves the store alone.
LEMMA StoreUnchangedType ==
    ASSUME StoreTypeOK, UNCHANGED storeVars
    PROVE  StoreTypeOK'
BY DEF StoreTypeOK, storeVars

\* Every step of the runtime keeps the types.
LEMMA TypeOKStep == TypeOK /\ [Next]_vars => TypeOK'
<1> SUFFICES ASSUME TypeOK, [Next]_vars PROVE TypeOK'
  OBVIOUS
<1> USE StatementTypes, CallNumber, ContextOfTask
    DEF TypeOK, Runs, Ctx, At
<1>1. ASSUME NEW t \in Tasks, NEW r \in AgentRuns, CallAgent(t, r) PROVE TypeOK'
  <2>1. StoreTypeOK'
    BY <1>1, SubmitType DEF CallAgent, ContextTypeOK, Status
  <2>2. ContextTypeOK'
    BY <1>1 DEF CallAgent, MayCall, ContextTypeOK, Goto, Enter, Leave, stackVars, contextVars, localVars, PC
  <2> QED BY <2>1, <2>2
<1>2. ASSUME NEW t \in Tasks, NEW w \in WorkflowRuns, CallWorkflow(t, w) PROVE TypeOK'
  <2>1. StoreTypeOK'
    BY <1>2, SubmitType DEF CallWorkflow, ContextTypeOK, Status
  <2>2. ContextTypeOK'
    BY <1>2 DEF CallWorkflow, MayCall, ContextTypeOK, Goto, Enter, Leave, stackVars, contextVars, localVars, PC
  <2> QED BY <2>1, <2>2
<1>3. ASSUME NEW t \in Tasks, InvokeLLM(t) PROVE TypeOK'
  <2>1. StoreTypeOK'
    BY <1>3, StoreUnchangedType DEF InvokeLLM, ContextTypeOK
  <2>2. ContextTypeOK'
    BY <1>3 DEF InvokeLLM, ContextTypeOK, Goto, Enter, Leave, stackVars, contextVars, localVars, PC
  <2> QED BY <2>1, <2>2
<1>4. ASSUME NEW t \in Tasks, BackOff(t) PROVE TypeOK'
  <2>1. StoreTypeOK'
    BY <1>4, StoreUnchangedType DEF BackOff, ContextTypeOK
  <2>2. ContextTypeOK'
    BY <1>4 DEF BackOff, ContextTypeOK, Goto, Enter, Leave, stackVars, contextVars, localVars, PC
  <2> QED BY <2>1, <2>2
<1>5. ASSUME NEW t \in Tasks, AgentBodyRaises(t) PROVE TypeOK'
  <2>1. StoreTypeOK'
    BY <1>5, SubmitType DEF AgentBodyRaises, FailAgent, ContextTypeOK, Status
  <2>2. ContextTypeOK'
    BY <1>5 DEF AgentBodyRaises, FailAgent, RestoreLastCall, ContextTypeOK, Goto, Enter, Leave, stackVars, contextVars, localVars, PC
  <2> QED BY <2>1, <2>2
<1>6. ASSUME NEW t \in Tasks, AgentBodyReturns(t) PROVE TypeOK'
  <2>1. StoreTypeOK'
    BY <1>6, SubmitType DEF AgentBodyReturns, ContextTypeOK, Status
  <2>2. ContextTypeOK'
    BY <1>6 DEF AgentBodyReturns, RestoreLastCall, ContextTypeOK, Goto, Enter, Leave, stackVars, contextVars, localVars, PC
  <2> QED BY <2>1, <2>2
<1>7. ASSUME NEW t \in Tasks, AgentReturnsUnaudited(t) PROVE TypeOK'
  <2>1. StoreTypeOK'
    BY <1>7, SubmitType DEF AgentReturnsUnaudited, ContextTypeOK, Status
  <2>2. ContextTypeOK'
    BY <1>7 DEF AgentReturnsUnaudited, RestoreLastCall, ContextTypeOK, Goto, Enter, Leave, stackVars, contextVars, localVars, PC
  <2> QED BY <2>1, <2>2
<1>8. ASSUME NEW t \in Tasks, AgentValueInvalid(t) PROVE TypeOK'
  <2>1. StoreTypeOK'
    BY <1>8, StoreUnchangedType DEF AgentValueInvalid, ContextTypeOK
  <2>2. ContextTypeOK'
    BY <1>8 DEF AgentValueInvalid, RestoreLastCall, ContextTypeOK, Goto, Enter, Leave, stackVars, contextVars, localVars, PC
  <2> QED BY <2>1, <2>2
<1>9. ASSUME NEW t \in Tasks, WorkflowBodyReturns(t) PROVE TypeOK'
  <2>1. StoreTypeOK'
    BY <1>9, SubmitType DEF WorkflowBodyReturns, ContextTypeOK, Status
  <2>2. ContextTypeOK'
    BY <1>9 DEF WorkflowBodyReturns, ContextTypeOK, Goto, Enter, Leave, stackVars, contextVars, localVars, PC
  <2> QED BY <2>1, <2>2
<1>10. ASSUME NEW t \in Tasks, WorkflowBodyRaises(t) PROVE TypeOK'
  <2>1. StoreTypeOK'
    BY <1>10, SubmitType DEF WorkflowBodyRaises, ContextTypeOK, Status
  <2>2. ContextTypeOK'
    BY <1>10 DEF WorkflowBodyRaises, ContextTypeOK, Goto, Enter, Leave, stackVars, contextVars, localVars, PC
  <2> QED BY <2>1, <2>2
<1>11. ASSUME NEW t \in Tasks, LLMAnswers(t) PROVE TypeOK'
  <2>1. StoreTypeOK'
    BY <1>11, StoreUnchangedType DEF LLMAnswers, ContextTypeOK
  <2>2. ContextTypeOK'
    BY <1>11 DEF LLMAnswers, ContextTypeOK, Goto, Enter, Leave, stackVars, contextVars, localVars, PC
  <2> QED BY <2>1, <2>2
<1>12. ASSUME NEW t \in Tasks, LLMFails(t) PROVE TypeOK'
  <2>1. StoreTypeOK'
    BY <1>12, StoreUnchangedType DEF LLMFails, ContextTypeOK
  <2>2. ContextTypeOK'
    BY <1>12 DEF LLMFails, ContextTypeOK, Goto, Enter, Leave, stackVars, contextVars, localVars, PC
  <2> QED BY <2>1, <2>2
<1>13. ASSUME NEW t \in Tasks, BeginAgentBody(t) PROVE TypeOK'
  <2>1. StoreTypeOK'
    BY <1>13, ConsumeType DEF BeginAgentBody, ContextTypeOK
  <2>2. ContextTypeOK'
    BY <1>13 DEF BeginAgentBody, ContextTypeOK, Goto, Enter, Leave, stackVars, contextVars, localVars, PC
  <2> QED BY <2>1, <2>2
<1>14. ASSUME NEW t \in Tasks, Retry(t) PROVE TypeOK'
  <2>1. StoreTypeOK'
    BY <1>14, StoreUnchangedType DEF Retry, ContextTypeOK
  <2>2. ContextTypeOK'
    BY <1>14 DEF Retry, ContextTypeOK, Goto, Enter, Leave, stackVars, contextVars, localVars, PC
  <2> QED BY <2>1, <2>2
<1>15. ASSUME NEW t \in Tasks, InsertAgentArtifact(t) PROVE TypeOK'
  <2>1. StoreTypeOK'
    BY <1>15, SubmitType, DecoratorArguments DEF InsertAgentArtifact, ContextTypeOK, Status
  <2>2. ContextTypeOK'
    BY <1>15 DEF InsertAgentArtifact, ContextTypeOK, Goto, Enter, Leave, stackVars, contextVars, localVars, PC
  <2> QED BY <2>1, <2>2
<1>16. ASSUME NEW t \in Tasks, AgentReturns(t) PROVE TypeOK'
  <2>1. StoreTypeOK'
    BY <1>16, ConsumeType DEF AgentReturns, ContextTypeOK
  <2>2. ContextTypeOK'
    BY <1>16 DEF AgentReturns, ContextTypeOK, Goto, Enter, Leave, stackVars, contextVars, localVars, PC
  <2> QED BY <2>1, <2>2
<1>17. ASSUME NEW t \in Tasks, AgentReraises(t) PROVE TypeOK'
  <2>1. StoreTypeOK'
    BY <1>17, ConsumeType DEF AgentReraises, ContextTypeOK
  <2>2. ContextTypeOK'
    BY <1>17 DEF AgentReraises, ContextTypeOK, Goto, Enter, Leave, stackVars, contextVars, localVars, PC
  <2> QED BY <2>1, <2>2
<1>18. ASSUME NEW t \in Tasks, AgentStoreFails(t) PROVE TypeOK'
  <2>1. StoreTypeOK'
    BY <1>18, ConsumeType DEF AgentStoreFails, ContextTypeOK
  <2>2. ContextTypeOK'
    BY <1>18 DEF AgentStoreFails, ContextTypeOK, Goto, Enter, Leave, stackVars, contextVars, localVars, PC
  <2> QED BY <2>1, <2>2
<1>19. ASSUME NEW t \in Tasks, BeginWorkflowBody(t) PROVE TypeOK'
  <2>1. StoreTypeOK'
    BY <1>19, ConsumeType DEF BeginWorkflowBody, ContextTypeOK
  <2>2. ContextTypeOK'
    BY <1>19 DEF BeginWorkflowBody, ContextTypeOK, Goto, Enter, Leave, stackVars, contextVars, localVars, PC
  <2> QED BY <2>1, <2>2
<1>20. ASSUME NEW t \in Tasks, WorkflowEnds(t) PROVE TypeOK'
  <2>1. StoreTypeOK'
    BY <1>20, ConsumeType DEF WorkflowEnds, ContextTypeOK
  <2>2. ContextTypeOK'
    BY <1>20 DEF WorkflowEnds, ContextTypeOK, Goto, Enter, Leave, stackVars, contextVars, localVars, PC
  <2> QED BY <2>1, <2>2
<1>21. ASSUME NEW t \in Tasks, WorkflowStoreFails(t) PROVE TypeOK'
  <2>1. StoreTypeOK'
    BY <1>21, ConsumeType DEF WorkflowStoreFails, ContextTypeOK
  <2>2. ContextTypeOK'
    BY <1>21 DEF WorkflowStoreFails, ContextTypeOK, Goto, Enter, Leave, stackVars, contextVars, localVars, PC
  <2> QED BY <2>1, <2>2
<1>22. ASSUME NEW t \in Tasks, CancelBackoff(t) PROVE TypeOK'
  <2>1. StoreTypeOK'
    BY <1>22, SubmitType DEF CancelBackoff, FailAgent, ContextTypeOK, Status
  <2>2. ContextTypeOK'
    BY <1>22 DEF CancelBackoff, FailAgent, RestoreLastCall, ContextTypeOK, Goto, Enter, Leave, stackVars, contextVars, localVars, PC
  <2> QED BY <2>1, <2>2
<1>23. ASSUME NEW t \in Tasks, AgentStoreCancelled(t) PROVE TypeOK'
  <2>1. StoreTypeOK'
    BY <1>23, ConsumeType, StoreUnchangedType DEF AgentStoreCancelled, ContextTypeOK
  <2>2. ContextTypeOK'
    BY <1>23 DEF AgentStoreCancelled, ContextTypeOK, Goto, Enter, Leave, stackVars, contextVars, localVars, PC
  <2> QED BY <2>1, <2>2
<1>24. ASSUME NEW t \in Tasks, WorkflowStoreCancelled(t) PROVE TypeOK'
  <2>1. StoreTypeOK'
    BY <1>24, ConsumeType, StoreUnchangedType DEF WorkflowStoreCancelled, ContextTypeOK
  <2>2. ContextTypeOK'
    BY <1>24 DEF WorkflowStoreCancelled, ContextTypeOK, Goto, Enter, Leave, stackVars, contextVars, localVars, PC
  <2> QED BY <2>1, <2>2
<1>25. ASSUME NEW r \in Runs, WorkerInsertsRow(r) PROVE TypeOK'
  <2>1. StoreTypeOK'
    BY <1>25 DEF WorkerInsertsRow, InsertRow, Executes, StoreTypeOK, Statement
  <2>2. ContextTypeOK'
    BY <1>25 DEF WorkerInsertsRow, LoopUnchanged, ContextTypeOK, stackVars, contextVars, localVars
  <2> QED BY <2>1, <2>2
<1>26. ASSUME NEW r \in Runs, WorkerUpdatesRow(r) PROVE TypeOK'
  <2>1. StoreTypeOK'
    BY <1>26 DEF WorkerUpdatesRow, UpdateRow, Executes, StoreTypeOK, Statement
  <2>2. ContextTypeOK'
    BY <1>26 DEF WorkerUpdatesRow, LoopUnchanged, ContextTypeOK, stackVars, contextVars, localVars
  <2> QED BY <2>1, <2>2
<1>27. ASSUME NEW r \in Runs, WorkerInsertsArtifact(r) PROVE TypeOK'
  <2>1. StoreTypeOK'
    BY <1>27 DEF WorkerInsertsArtifact, InsertArtifactRow, Executes, StoreTypeOK, Statement
  <2>2. ContextTypeOK'
    BY <1>27 DEF WorkerInsertsArtifact, LoopUnchanged, ContextTypeOK, stackVars, contextVars, localVars
  <2> QED BY <2>1, <2>2
<1>28. ASSUME NEW r \in Runs, WorkerRejects(r) PROVE TypeOK'
  <2>1. StoreTypeOK'
    BY <1>28 DEF WorkerRejects, RejectStatement, StoreTypeOK, Statement
  <2>2. ContextTypeOK'
    BY <1>28 DEF WorkerRejects, LoopUnchanged, ContextTypeOK, stackVars, contextVars, localVars
  <2> QED BY <2>1, <2>2
<1>29. ASSUME NEW w \in WorkflowRuns, JanitorAborts(w) PROVE TypeOK'
  BY <1>29 DEF JanitorAborts, LoopUnchanged, StoreTypeOK, ContextTypeOK, Status, stackVars, contextVars, localVars
<1>30. ASSUME Crash PROVE TypeOK'
  BY <1>30 DEF Crash, StoreTypeOK, ContextTypeOK, PC, rowVars, localVars
<1>31. ASSUME UNCHANGED vars PROVE TypeOK'
  BY <1>31 DEF vars, storeVars, StoreTypeOK, ContextTypeOK, stackVars, contextVars, localVars
<1> QED
  BY <1>1, <1>2, <1>3, <1>4, <1>5, <1>6, <1>7, <1>8, <1>9, <1>10, <1>11, <1>12, <1>13, <1>14, <1>15, <1>16, <1>17, <1>18, <1>19, <1>20, <1>21, <1>22, <1>23, <1>24, <1>25, <1>26, <1>27, <1>28, <1>29, <1>30, <1>31 DEF Next, BodyStep, BodyEnds, Resume, Cancel, Worker

\* Every variable keeps its type, under any faults and any sharing of contexts.
THEOREM TypeCorrect == Spec => []TypeOK
<1>1. Init => TypeOK
  BY InitTypeOK
<1>2. TypeOK /\ [Next]_vars => TypeOK'
  BY TypeOKStep
<1> QED BY <1>1, <1>2, PTL DEF Spec

-----------------------------------------------------------------------------
(***************************************************************************)
(* The await chains.  Every step enters a call, leaves the innermost one,  *)
(* moves the innermost one within its wrapper, wipes all chains or does    *)
(* not touch them.                                                         *)
(***************************************************************************)
Moves(t) ==
    /\ cur[t] \in Runs
    /\ \E p \in Active : pc' = [pc EXCEPT ![cur[t]] = p]
    /\ UNCHANGED stackVars

Leaves(t) ==
    /\ cur[t] \in Runs
    /\ \E p \in {"returned", "raised"} : Leave(t, p)

StackKept == UNCHANGED <<pc, stackVars>>

\* Only a call that begins enters a chain: the other steps of a task move its
\* innermost call or leave it.
LEMMA StepOfCall ==
    ASSUME TypeOK, NEW t \in Tasks, BodyEnds(t) \/ Resume(t) \/ Cancel(t)
    PROVE  Moves(t) \/ Leaves(t)
<1> USE DEF Runs, At
<1>1. CASE BodyEnds(t)
  BY <1>1 DEF BodyEnds, BackOff, AgentBodyRaises, FailAgent, AgentBodyReturns,
              AgentReturnsUnaudited, AgentValueInvalid, WorkflowBodyReturns,
              WorkflowBodyRaises, Moves, Leaves, Goto, Active, PC
<1>2. CASE Resume(t)
  <2>1. CASE LLMAnswers(t) \/ LLMFails(t) \/ BeginAgentBody(t) \/ Retry(t)
             \/ InsertAgentArtifact(t) \/ BeginWorkflowBody(t)
    BY <2>1, DecoratorArguments
       DEF LLMAnswers, LLMFails, BeginAgentBody, Retry, InsertAgentArtifact,
           BeginWorkflowBody, Moves, Goto, Active, stackVars
  <2>2. CASE AgentReturns(t) \/ AgentReraises(t) \/ AgentStoreFails(t)
             \/ WorkflowEnds(t) \/ WorkflowStoreFails(t)
    BY <2>2 DEF AgentReturns, AgentReraises, AgentStoreFails, WorkflowEnds,
                WorkflowStoreFails, Leaves, Active, PC
  <2> QED BY <1>2, <2>1, <2>2 DEF Resume
<1>3. CASE Cancel(t)
  BY <1>3 DEF Cancel, CancelBackoff, FailAgent, AgentStoreCancelled,
              WorkflowStoreCancelled, Moves, Leaves, Goto, Active, PC
<1> QED BY <1>1, <1>2, <1>3

\* Every step enters a call, moves the innermost one, leaves it, keeps the
\* chains, or is a crash.
LEMMA StackSteps ==
    ASSUME TypeOK, [Next]_vars
    PROVE  \/ \E t \in Tasks, r \in Runs : Enter(t, r)
           \/ \E t \in Tasks : Moves(t) \/ Leaves(t)
           \/ Crash
           \/ StackKept
<1> USE DEF Runs, At
<1>1. ASSUME NEW t \in Tasks, BodyStep(t)
      PROVE  (\E r \in Runs : Enter(t, r)) \/ Moves(t)
  BY <1>1 DEF BodyStep, CallAgent, CallWorkflow, InvokeLLM, Moves, Goto, Active
<1>2. ASSUME NEW t \in Tasks, BodyEnds(t) \/ Resume(t) \/ Cancel(t) PROVE Moves(t) \/ Leaves(t)
  BY <1>2, StepOfCall
<1>3. ASSUME NEW r \in Runs, Worker(r) PROVE StackKept
  BY <1>3 DEF Worker, WorkerInsertsRow, WorkerUpdatesRow, WorkerInsertsArtifact,
              WorkerRejects, LoopUnchanged, StackKept
<1>4. ASSUME NEW w \in WorkflowRuns, JanitorAborts(w) PROVE StackKept
  BY <1>4 DEF JanitorAborts, LoopUnchanged, StackKept
<1>5. CASE UNCHANGED vars
  BY <1>5 DEF vars, StackKept
<1> QED BY <1>1, <1>2, <1>3, <1>4, <1>5 DEF Next

\* A call that begins becomes the deepest of its chain.
LEMMA EnterStack ==
    ASSUME TypeOK, StackInv, NEW t \in Tasks, NEW r \in Runs, Enter(t, r)
    PROVE  StackInv'
<1> USE RunIdsDistinct DEF TypeOK, ContextTypeOK, StackInv, CurIsActive, OnChain, OneCallPerDepth,
        IsActive, Enter, MayCall, At, Active
<1>1. pc[r] = "unused" /\ r # NoRun /\ cur[t] # r
  OBVIOUS
<1>2. \A s \in Runs : IsActive(s)' <=> s = r \/ IsActive(s)
  OBVIOUS
<1>3. \A s \in Runs : IsActive(s) /\ task[s] = t => cur[t] # NoRun /\ depth[s] < depth'[r]
  OBVIOUS
<1>4. CurIsActive'
  BY <1>1
<1>5. \A s \in Runs : IsActive(s)' => OnChain(s)'
  <2>1. OnChain(r)'
    BY <1>1
  <2>2. ASSUME NEW s \in Runs, IsActive(s), s # r PROVE OnChain(s)'
    BY <1>1, <1>3, <2>2
  <2> QED BY <1>2, <2>1, <2>2
<1>6. OneCallPerDepth'
  BY <1>1, <1>2, <1>3
<1> QED BY <1>4, <1>5, <1>6

\* The innermost call may go from place to place without leaving the chain.
LEMMA MovesStack ==
    ASSUME TypeOK, StackInv, NEW t \in Tasks, Moves(t)
    PROVE  StackInv'
<1> USE RunIdsDistinct DEF TypeOK, ContextTypeOK, StackInv, IsActive, Moves, stackVars
<1>1. cur[t] \in Runs /\ cur[t] # NoRun /\ IsActive(cur[t]) /\ task[cur[t]] = t
  BY DEF CurIsActive
<1>2. \A s \in Runs : IsActive(s)' <=> IsActive(s)
  BY <1>1
<1>3. CurIsActive'
  BY <1>2 DEF CurIsActive
<1>4. \A s \in Runs : IsActive(s)' => OnChain(s)'
  BY <1>1, <1>2 DEF OnChain
<1>5. OneCallPerDepth'
  BY <1>2 DEF OneCallPerDepth
<1> QED BY <1>3, <1>4, <1>5

\* When the innermost call ends, its caller is the deepest that is left.
LEMMA LeavesStack ==
    ASSUME TypeOK, StackInv, NEW t \in Tasks, Leaves(t)
    PROVE  StackInv'
<1> USE RunIdsDistinct DEF TypeOK, ContextTypeOK, StackInv, IsActive, Leaves, Leave, Goto
<1> DEFINE f == cur[t]
<1>1. f \in Runs /\ f # NoRun /\ IsActive(f) /\ task[f] = t /\ OnChain(f)
  BY DEF CurIsActive
<1>2. \A s \in Runs : IsActive(s)' <=> s # f /\ IsActive(s)
  BY <1>1 DEF Active
<1>3. \A s \in Runs : IsActive(s) /\ s # f /\ task[s] = t =>
          depth[s] < depth[f] /\ pc[s] = "body"
  BY <1>1 DEF OnChain, OneCallPerDepth
<1>4. \A s \in Runs : IsActive(s) => caller[s] # f
  BY <1>1, <1>3 DEF OnChain
<1>5. CurIsActive'
  BY <1>1, <1>2, <1>3 DEF CurIsActive, OnChain
<1>6. ASSUME NEW s \in Runs, IsActive(s)' PROVE OnChain(s)'
  <2>1. IsActive(s) /\ s # f /\ OnChain(s) /\ caller[s] # f
    BY <1>2, <1>4, <1>6
  <2>2. CASE task[s] # t
    BY <1>1, <2>1, <2>2 DEF OnChain
  <2>3. CASE task[s] = t
    <3>1. depth[s] < depth[f] /\ pc[s] = "body" /\ pc'[s] = "body"
      BY <1>3, <2>1, <2>3
    <3>2. caller[f] # NoRun /\ depth[f] = depth[caller[f]] + 1
      BY <1>1, <2>1, <3>1 DEF OnChain
    <3> QED BY <1>1, <2>1, <2>3, <3>1, <3>2 DEF OnChain
  <2> QED BY <2>2, <2>3
<1>7. OneCallPerDepth'
  BY <1>2 DEF OneCallPerDepth
<1> QED BY <1>5, <1>6, <1>7

\* Every step keeps the await chains in order.
LEMMA StackInvStep == TypeOK /\ StackInv /\ [Next]_vars => StackInv'
<1> SUFFICES ASSUME TypeOK, StackInv, [Next]_vars PROVE StackInv'
  OBVIOUS
<1>1. CASE Crash
  BY <1>1 DEF Crash, TypeOK, ContextTypeOK, StackInv, CurIsActive, OneCallPerDepth,
              IsActive, Active
<1>2. CASE StackKept
  BY <1>2 DEF StackKept, stackVars, StackInv, CurIsActive, OnChain, OneCallPerDepth, IsActive
<1> QED BY <1>1, <1>2, StackSteps, EnterStack, MovesStack, LeavesStack

-----------------------------------------------------------------------------
(***************************************************************************)
(* Retries.                                                                *)
(***************************************************************************)

\* Every step keeps the attempts within MaxRetries (retry.py:122-129).
LEMMA RetryInvStep == TypeOK /\ RetryInv /\ [Next]_vars => RetryInv'
<1> SUFFICES ASSUME TypeOK, RetryInv, [Next]_vars PROVE RetryInv'
  OBVIOUS
<1> USE RunIdsDistinct, BoundsAreNat DEF TypeOK, ContextTypeOK, RetryInv, Runs
<1>1. CASE \E t \in Tasks : BackOff(t)
  BY <1>1 DEF BackOff, At, Goto, localVars
<1>2. CASE \E t \in Tasks : Retry(t)
  BY <1>2 DEF Retry, At, Goto
<1>3. CASE \E t \in Tasks : BeginAgentBody(t)
  BY <1>3 DEF BeginAgentBody, At, Goto
<1>4. CASE attempt' = attempt /\ \A r \in AgentRuns : pc'[r] = "backoff" => pc[r] = "backoff"
  BY <1>4
<1>5. ASSUME NEW t \in Tasks, BodyStep(t) PROVE RetryInv'
  BY <1>4, <1>5 DEF BodyStep, CallAgent, CallWorkflow, Enter, InvokeLLM, At, Goto, localVars
<1>6. ASSUME NEW t \in Tasks, BodyEnds(t) PROVE RetryInv'
  BY <1>1, <1>4, <1>6
     DEF BodyEnds, AgentBodyRaises, FailAgent, AgentBodyReturns, AgentReturnsUnaudited,
         AgentValueInvalid, WorkflowBodyReturns, WorkflowBodyRaises, Leave, At, Goto, localVars
<1>7. ASSUME NEW t \in Tasks, Resume(t) PROVE RetryInv'
  <2>1. CASE LLMAnswers(t) \/ LLMFails(t) \/ InsertAgentArtifact(t) \/ BeginWorkflowBody(t)
    BY <1>4, <2>1
       DEF LLMAnswers, LLMFails, InsertAgentArtifact, BeginWorkflowBody, At, Goto, localVars
  <2>2. CASE AgentReturns(t) \/ AgentReraises(t) \/ AgentStoreFails(t)
             \/ WorkflowEnds(t) \/ WorkflowStoreFails(t)
    BY <1>4, <2>2 DEF AgentReturns, AgentReraises, AgentStoreFails, WorkflowEnds,
                      WorkflowStoreFails, Leave, At, Goto, localVars
  <2> QED BY <1>2, <1>3, <1>7, <2>1, <2>2 DEF Resume
<1>8. ASSUME NEW t \in Tasks, Cancel(t) PROVE RetryInv'
  BY <1>4, <1>8 DEF Cancel, CancelBackoff, FailAgent, AgentStoreCancelled,
                    WorkflowStoreCancelled, Leave, At, Goto, localVars
<1>9. CASE \/ \E r \in Runs : Worker(r)
           \/ \E w \in WorkflowRuns : JanitorAborts(w)
           \/ Crash
           \/ UNCHANGED vars
  BY <1>4, <1>9 DEF Worker, WorkerInsertsRow, WorkerUpdatesRow, WorkerInsertsArtifact,
                    WorkerRejects, JanitorAborts, LoopUnchanged, Crash, vars, localVars
<1> QED BY <1>5, <1>6, <1>7, <1>8, <1>9 DEF Next

-----------------------------------------------------------------------------
(***************************************************************************)
(* Rows and statements.                                                    *)
(***************************************************************************)

\* The statements by their fields.
LEMMA StatementFields ==
    /\ \A st, wf : /\ Insert(st, wf).op = "insert"
                   /\ Insert(st, wf).status = st
                   /\ Insert(st, wf).wf = wf
    /\ \A st, call : /\ Update(st, call).op = "update"
                     /\ Update(st, call).status = st
                     /\ Update(st, call).wf = NoRun
                     /\ Update(st, call).call = call
    /\ \A st, wf : Insert(st, wf).call = NoCall
    /\ \A wf : InsertArtifact(wf).op = "artifact" /\ InsertArtifact(wf).wf = wf
BY DEF Insert, Update, InsertArtifact

\* A run no variable of which changes stays in order.
RunKept(r) ==
    /\ pc'[r] = pc[r] /\ stage'[r] = stage[r] /\ stmt'[r] = stmt[r]
    /\ status'[r] = status[r] /\ artifact'[r] = artifact[r] /\ own'[r] = own[r]
    /\ link'[r] = link[r]

\* A run whose place, row and statement stay is as good as it was.
LEMMA RunKeptOK ==
    ASSUME NEW r \in Runs, RunOK(r), RunKept(r)
    PROVE  RunOK(r)'
BY DEF RunOK, RunKept, QueuedFits, RowAtPlace, IsOpen, OpenStatus

\* A step that removes no row and stores no new name keeps the names stored.
LEMMA NamesKept ==
    ASSUME TypeOK, NamesStored,
           \A r \in Runs : status'[r] = "absent" => status[r] = "absent",
           UNCHANGED <<workflowId, priorWorkflow, stmt, link, artifact>>
    PROVE  NamesStored'
<1>1. \A w \in WorkflowRuns \cup {NoRun} : Stored(w) => (w # NoRun => status'[w] # "absent")
  BY DEF Stored, Runs
<1>2. \A r \in Runs : stmt[r].wf \in WorkflowRuns \cup {NoRun}
  BY DEF TypeOK, StoreTypeOK, Statement
<1> QED BY <1>1, <1>2 DEF NamesStored, Stored, TypeOK, StoreTypeOK, ContextTypeOK

\* A statement that names a stored workflow, or none, keeps the names stored.
LEMMA SubmitNames ==
    ASSUME TypeOK, NamesStored, NEW r \in Runs, NEW s \in Statement, Stored(s.wf),
           Submit(r, s), UNCHANGED <<workflowId, priorWorkflow>>
    PROVE  NamesStored'
BY DEF NamesStored, Stored, Submit, rowVars, TypeOK, StoreTypeOK, ContextTypeOK, Runs

\* The places a wrapper may go to when it gives the store a statement.
SubmitFits(r, s, place) ==
    \/ /\ place = "insert" /\ pc[r] = "unused" /\ s.op = "insert" /\ s.status = OpenStatus(r)
       /\ r \in WorkflowRuns => s.wf = NoRun
    \/ /\ place = "closeOk" /\ pc[r] = "body"
       /\ s.op = "update" /\ s.status = "succeeded" /\ s.wf = NoRun
    \/ /\ place = "closeFail" /\ pc[r] \in Scoped
       /\ s.op = "update" /\ s.status = "failed" /\ s.wf = NoRun
    \/ /\ place = "artifact" /\ r \in AgentRuns /\ pc[r] = "closeOk" /\ stage[r] = "applied"
       /\ s.op = "artifact" /\ s.wf # NoRun

SubmitStep(r, s, place) ==
    /\ r \in Runs /\ s \in Statement /\ Stored(s.wf)
    /\ Submit(r, s)
    /\ SubmitFits(r, s, place)
    /\ pc' = [pc EXCEPT ![r] = place]
    /\ UNCHANGED <<own, workflowId, priorWorkflow>>

\* A run that queues a statement which fits its row.
LEMMA SubmitRow ==
    ASSUME TypeOK, RowInv, NEW r, NEW s, NEW place, SubmitStep(r, s, place)
    PROVE  RowInv'
<1> USE DEF TypeOK, StoreTypeOK, ContextTypeOK, Submit, rowVars, SubmitStep
<1>1. RunOK(r)'
  BY RunIdsDistinct DEF RowInv, RunOK, QueuedFits, RowAtPlace, IsOpen, OpenStatus, SubmitFits, Scoped
<1>2. \A q \in Runs \ {r} : RunOK(q)'
  BY RunKeptOK DEF RowInv, RunKept
<1>3. NamesStored'
  BY SubmitNames DEF RowInv
<1> QED BY <1>1, <1>2, <1>3 DEF RowInv

\* A wrapper resumes after an await of the store, or a body goes on: the row
\* and the statement are as its new place demands.
ResumeFits(r, place) ==
    \/ place = "body" /\ pc[r] = "insert" /\ stage[r] = "applied" /\ stage'[r] = "none"
    \/ place \in Scoped /\ pc[r] \in Scoped /\ stage'[r] = stage[r]
    \/ place = "raised" /\ stage'[r] \in {stage[r], "none"}
    \/ /\ place = "returned" /\ pc[r] \in {"closeOk", "artifact"}
       /\ stage[r] = "applied" /\ stage'[r] = "none"

ResumeStep(r, place) ==
    /\ r \in Runs /\ place \in PC
    /\ Consume(r) \/ UNCHANGED storeVars
    /\ ResumeFits(r, place)
    /\ pc' = [pc EXCEPT ![r] = place]
    /\ \A q \in Runs \ {r} : own'[q] = own[q]

\* A run that consumes a result, or goes on without the store.
LEMMA ResumeRow ==
    ASSUME TypeOK, RowInv, NEW r, NEW place, ResumeStep(r, place), NamesStored'
    PROVE  RowInv'
<1> USE DEF TypeOK, StoreTypeOK, ContextTypeOK, Consume, storeVars, ResumeStep
<1>1. RunOK(r)'
  BY DEF RowInv, RunOK, QueuedFits, RowAtPlace, IsOpen, OpenStatus, ResumeFits, Scoped
<1>2. \A q \in Runs \ {r} : RunOK(q)'
  BY RunKeptOK DEF RowInv, RunKept
<1> QED BY <1>1, <1>2 DEF RowInv

\* The steps of a body keep the rows in order.
LEMMA BodyRow ==
    ASSUME TypeOK, RowInv, NEW t \in Tasks, BodyStep(t) \/ BodyEnds(t) PROVE RowInv'
<1> USE StatementTypes, StatementFields, RunIdsDistinct, ContextOfTask
    DEF At, Runs, Ctx, Goto, Scoped, localVars, contextVars, Status
<1>1. ASSUME NEW r \in AgentRuns, CallAgent(t, r) PROVE RowInv'
  <2>1. workflowId[Ctx(t)] \in WorkflowRuns \cup {NoRun} /\ Stored(workflowId[Ctx(t)])
    BY DEF RowInv, NamesStored, TypeOK, ContextTypeOK
  <2>2. SubmitStep(r, Insert("pending", workflowId[Ctx(t)]), "insert")
    BY <1>1, <2>1 DEF CallAgent, Enter, SubmitStep, SubmitFits, OpenStatus
  <2> QED BY <2>2, SubmitRow
<1>2. ASSUME NEW w \in WorkflowRuns, CallWorkflow(t, w) PROVE RowInv'
  <2>1. SubmitStep(w, Insert("running", NoRun), "insert")
    BY <1>2 DEF CallWorkflow, Enter, SubmitStep, SubmitFits, OpenStatus, Stored
  <2> QED BY <2>1, SubmitRow
<1>3. CASE InvokeLLM(t) \/ BackOff(t) \/ AgentValueInvalid(t)
  <2>1. \E place \in PC : ResumeStep(cur[t], place)
    BY <1>3 DEF InvokeLLM, BackOff, AgentValueInvalid, Leave, ResumeStep, ResumeFits, PC, storeVars
  <2>2. NamesStored'
    BY <1>3, NamesKept DEF InvokeLLM, BackOff, AgentValueInvalid, RowInv, storeVars
  <2> QED BY <2>1, <2>2, ResumeRow
<1>4. CASE AgentBodyRaises(t)
  <2>1. SubmitStep(cur[t], Update("failed", NoCall), "closeFail")
    BY <1>4 DEF AgentBodyRaises, FailAgent, SubmitStep, SubmitFits, Stored
  <2> QED BY <2>1, SubmitRow
<1>5. CASE AgentBodyReturns(t)
  <2>1. lastCall[Ctx(t)] \in Call
    BY DEF TypeOK, ContextTypeOK
  <2>2. SubmitStep(cur[t], Update("succeeded", lastCall[Ctx(t)]), "closeOk")
    BY <1>5, <2>1 DEF AgentBodyReturns, SubmitStep, SubmitFits, Stored
  <2> QED BY <2>2, SubmitRow
<1>6. CASE AgentReturnsUnaudited(t)
  <2>1. SubmitStep(cur[t], Update("failed", NoCall), "closeFail")
    BY <1>6 DEF AgentReturnsUnaudited, SubmitStep, SubmitFits, Stored
  <2> QED BY <2>1, SubmitRow
<1>7. CASE WorkflowBodyReturns(t)
  <2>1. SubmitStep(cur[t], Update("succeeded", NoCall), "closeOk")
    BY <1>7 DEF WorkflowBodyReturns, SubmitStep, SubmitFits, Stored
  <2> QED BY <2>1, SubmitRow
<1>8. CASE WorkflowBodyRaises(t)
  <2>1. SubmitStep(cur[t], Update("failed", NoCall), "closeFail")
    BY <1>8 DEF WorkflowBodyRaises, SubmitStep, SubmitFits, Stored
  <2> QED BY <2>1, SubmitRow
<1> QED BY <1>1, <1>2, <1>3, <1>4, <1>5, <1>6, <1>7, <1>8 DEF BodyStep, BodyEnds

\* So do the steps of the wrappers and their cancellations.
LEMMA ResumeRowInv ==
    ASSUME TypeOK, RowInv, NEW t \in Tasks, Resume(t) \/ Cancel(t) PROVE RowInv'
<1> USE StatementTypes, StatementFields, RunIdsDistinct, ContextOfTask
    DEF At, Runs, Ctx, Goto, Scoped, localVars, contextVars, Status
<1> DEFINE Resumes == \E place \in PC : ResumeStep(cur[t], place)
<1>1. CASE LLMAnswers(t) \/ LLMFails(t) \/ Retry(t)
  <2>1. Resumes
    BY <1>1 DEF LLMAnswers, LLMFails, Retry, ResumeStep, ResumeFits, PC, storeVars, TypeOK, ContextTypeOK
  <2>2. NamesStored'
    BY <1>1, NamesKept DEF LLMAnswers, LLMFails, Retry, RowInv, storeVars
  <2> QED BY <2>1, <2>2, ResumeRow
<1>2. CASE BeginAgentBody(t)
  <2>1. ResumeStep(cur[t], "body")
    BY <1>2 DEF BeginAgentBody, ResumeStep, ResumeFits, PC, Consume, TypeOK, StoreTypeOK, ContextTypeOK
  <2>2. NamesStored'
    BY <1>2, NamesKept DEF BeginAgentBody, RowInv, Consume
  <2> QED BY <2>1, <2>2, ResumeRow
<1>3. CASE BeginWorkflowBody(t)
  <2>1. ResumeStep(cur[t], "body")
    BY <1>3 DEF BeginWorkflowBody, ResumeStep, ResumeFits, PC, Consume, TypeOK, StoreTypeOK, ContextTypeOK
  <2>2. Stored(cur[t]) /\ Stored(workflowId[Ctx(t)])
    BY <1>3 DEF BeginWorkflowBody, RowInv, RunOK, RowAtPlace, IsOpen, OpenStatus, NamesStored, Stored
  <2>3. NamesStored'
    BY <1>3, <2>2 DEF BeginWorkflowBody, RowInv, Consume, NamesStored, Stored, TypeOK, ContextTypeOK
  <2> QED BY <2>1, <2>3, ResumeRow
<1>4. CASE InsertAgentArtifact(t)
  <2>1. Stored(workflowId[Ctx(t)]) /\ workflowId[Ctx(t)] \in WorkflowRuns \cup {NoRun}
    BY DEF RowInv, NamesStored, TypeOK, ContextTypeOK
  <2>2. cur[t] \in AgentRuns
    BY <1>4, DecoratorArguments DEF InsertAgentArtifact
  <2>3. SubmitStep(cur[t], InsertArtifact(workflowId[Ctx(t)]), "artifact")
    BY <1>4, <2>1, <2>2 DEF InsertAgentArtifact, SubmitStep, SubmitFits
  <2> QED BY <2>3, SubmitRow
<1>5. CASE AgentReturns(t) \/ AgentReraises(t) \/ AgentStoreFails(t) \/ WorkflowStoreFails(t)
           \/ AgentStoreCancelled(t) \/ WorkflowStoreCancelled(t)
  <2>1. Resumes
    BY <1>5 DEF AgentReturns, AgentReraises, AgentStoreFails, WorkflowStoreFails, AgentStoreCancelled,
                WorkflowStoreCancelled, Leave, ResumeStep, ResumeFits, PC, Consume, storeVars,
                TypeOK, StoreTypeOK
  <2>2. NamesStored'
    BY <1>5, NamesKept DEF AgentReturns, AgentReraises, AgentStoreFails, WorkflowStoreFails,
                AgentStoreCancelled, WorkflowStoreCancelled, RowInv, Consume, storeVars
  <2> QED BY <2>1, <2>2, ResumeRow
<1>6. CASE WorkflowEnds(t)
  <2>1. Resumes
    BY <1>6 DEF WorkflowEnds, Leave, ResumeStep, ResumeFits, PC, Consume, TypeOK, StoreTypeOK
  <2>2. NamesStored'
    BY <1>6 DEF WorkflowEnds, RowInv, Consume, NamesStored, Stored, TypeOK, ContextTypeOK
  <2> QED BY <2>1, <2>2, ResumeRow
<1>7. CASE CancelBackoff(t)
  <2>1. SubmitStep(cur[t], Update("failed", NoCall), "closeFail")
    BY <1>7 DEF CancelBackoff, FailAgent, SubmitStep, SubmitFits, Stored
  <2> QED BY <2>1, SubmitRow
<1> QED BY <1>1, <1>2, <1>3, <1>4, <1>5, <1>6, <1>7 DEF Resume, Cancel

\* So does a worker: what it executes was meant for the row it finds.
LEMMA WorkerRow ==
    ASSUME TypeOK, RowInv, NEW r \in Runs, Worker(r) PROVE RowInv'
<1> USE RunIdsDistinct DEF TypeOK, StoreTypeOK, ContextTypeOK, Executes, LoopUnchanged, localVars, contextVars
<1>1. \A q \in Runs \ {r} : RunOK(q)'
  BY RunKeptOK DEF RowInv, RunKept, Worker, WorkerInsertsRow, InsertRow, WorkerUpdatesRow, UpdateRow,
         WorkerInsertsArtifact, InsertArtifactRow, WorkerRejects, RejectStatement
<1>2. RunOK(r) /\ NamesStored /\ stmt[r] \in Statement
  BY DEF RowInv
<1>3. CASE WorkerInsertsRow(r)
  <2>1. RunOK(r)'
    BY <1>2, <1>3 DEF WorkerInsertsRow, InsertRow, RunOK, QueuedFits, RowAtPlace, IsOpen, OpenStatus, Scoped
  <2>2. NamesStored'
    BY <1>2, <1>3 DEF WorkerInsertsRow, InsertRow, RunOK, QueuedFits, OpenStatus, NamesStored, Stored,
           Statement, Runs
  <2> QED BY <1>1, <2>1, <2>2 DEF RowInv
<1>4. CASE WorkerUpdatesRow(r)
  <2>1. RunOK(r)'
    BY <1>2, <1>4 DEF WorkerUpdatesRow, UpdateRow, RunOK, QueuedFits, RowAtPlace, IsOpen, OpenStatus, Scoped
  <2>2. \A q \in Runs : status'[q] = "absent" => status[q] = "absent"
    BY <1>2, <1>4 DEF WorkerUpdatesRow, UpdateRow, RunOK, QueuedFits
  <2>3. NamesStored'
    BY <1>2, <1>4, <2>2, NamesKept DEF WorkerUpdatesRow, UpdateRow
  <2> QED BY <1>1, <2>1, <2>3 DEF RowInv
<1>5. CASE WorkerInsertsArtifact(r)
  <2>1. RunOK(r)'
    BY <1>2, <1>5 DEF WorkerInsertsArtifact, InsertArtifactRow, RunOK, QueuedFits, RowAtPlace, IsOpen,
           OpenStatus, Scoped
  <2>2. NamesStored'
    BY <1>2, <1>5 DEF WorkerInsertsArtifact, InsertArtifactRow, NamesStored, Stored
  <2> QED BY <1>1, <2>1, <2>2 DEF RowInv
<1>6. CASE WorkerRejects(r)
  <2>1. RunOK(r)'
    BY <1>2, <1>6 DEF WorkerRejects, RejectStatement, RunOK, QueuedFits, RowAtPlace, IsOpen, OpenStatus, Scoped
  <2>2. NamesStored'
    BY <1>2, <1>6, NamesKept DEF WorkerRejects, RejectStatement
  <2> QED BY <1>1, <2>1, <2>2 DEF RowInv
<1> QED BY <1>3, <1>4, <1>5, <1>6 DEF Worker

\* Every step keeps rows, statements and places in agreement.
LEMMA RowInvStep == TypeOK /\ RowInv /\ [Next]_vars => RowInv'
<1> SUFFICES ASSUME TypeOK, RowInv, [Next]_vars PROVE RowInv'
  OBVIOUS
<1>1. ASSUME NEW w \in WorkflowRuns, JanitorAborts(w) PROVE RowInv'
  <2> USE RunIdsDistinct DEF JanitorAborts, LoopUnchanged
  <2>1. RunOK(w)'
    BY <1>1 DEF RowInv, RunOK, QueuedFits, RowAtPlace, IsOpen, OpenStatus, Runs, TypeOK, StoreTypeOK
  <2>2. \A q \in Runs \ {w} : RunOK(q)'
    BY <1>1, RunKeptOK DEF RowInv, RunKept, TypeOK, StoreTypeOK
  <2>3. NamesStored'
    BY <1>1, NamesKept DEF RowInv, contextVars, localVars, TypeOK, StoreTypeOK
  <2> QED BY <2>1, <2>2, <2>3 DEF RowInv
<1>2. CASE Crash
  <2>1. \A r \in Runs : RunOK(r)'
    BY <1>2 DEF Crash, RowInv, RunOK, QueuedFits, RowAtPlace, IsOpen, OpenStatus, rowVars, Active, Scoped,
           TypeOK, StoreTypeOK, ContextTypeOK
  <2>2. NamesStored'
    BY <1>2 DEF Crash, RowInv, NamesStored, Stored, rowVars, localVars
  <2> QED BY <2>1, <2>2 DEF RowInv
<1>3. CASE UNCHANGED vars
  <2>1. \A r \in Runs : RunOK(r)'
    BY <1>3, RunKeptOK DEF RowInv, RunKept, vars, storeVars
  <2>2. NamesStored'
    BY <1>3, NamesKept DEF RowInv, vars, storeVars, contextVars, localVars
  <2> QED BY <2>1, <2>2 DEF RowInv
<1> QED BY <1>1, <1>2, <1>3, BodyRow, ResumeRowInv, WorkerRow DEF Next

-----------------------------------------------------------------------------
(***************************************************************************)
(* The LLM metadata, on private contexts.                                   *)
(***************************************************************************)

\* The calls below the innermost one, and those of other tasks, are neither
\* the innermost call nor called by it.
LEMMA ChainFacts ==
    ASSUME TypeOK, StackInv, NEW t \in Tasks, cur[t] \in Runs
    PROVE  /\ IsActive(cur[t]) /\ task[cur[t]] = t
           /\ \A s \in Runs : IsActive(s) => caller[s] # cur[t]
           /\ caller[cur[t]] # NoRun => pc[caller[cur[t]]] = "body" /\ caller[cur[t]] \in Runs
           /\ \A u \in Tasks \ {t} : cur[u] # NoRun => cur[u] \in Runs /\ cur[u] # cur[t] /\ IsActive(cur[u])
<1> USE RunIdsDistinct DEF TypeOK, ContextTypeOK, StackInv, CurIsActive, OnChain, IsActive
<1>1. IsActive(cur[t]) /\ task[cur[t]] = t
  OBVIOUS
<1>2. \A s \in Runs : IsActive(s) => caller[s] # cur[t]
  OBVIOUS
<1>3. caller[cur[t]] # NoRun => pc[caller[cur[t]]] = "body" /\ caller[cur[t]] \in Runs
  OBVIOUS
<1> QED BY <1>1, <1>2, <1>3

\* What a step of task t leaves as it was: the calls in force elsewhere.
ElsewhereKept(t) ==
    /\ \A u \in Tasks \ {t} : InForce(u)' = InForce(u)
    /\ \A s \in Runs : IsActive(s) => Below(s)' = Below(s)

\* What a step of one task leaves alone, for the other calls.
LEMMA Elsewhere ==
    ASSUME TypeOK, StackInv, NEW t \in Tasks, cur[t] \in Runs, Moves(t) \/ Leaves(t),
           \A s \in Runs \ {cur[t]} : own'[s] = own[s]
    PROVE  ElsewhereKept(t)
<1> USE RunIdsDistinct DEF TypeOK, ContextTypeOK, Moves, Leaves, Leave, Goto, stackVars
<1>1. \A s \in Runs : IsActive(s) => Below(s)' = Below(s)
  BY ChainFacts DEF Below
<1>2. ASSUME NEW u \in Tasks \ {t} PROVE InForce(u)' = InForce(u)
  BY <1>1, ChainFacts DEF InForce
<1> QED BY <1>1, <1>2 DEF ElsewhereKept

\* The same for the calls below one that begins.
LEMMA ElsewhereEnter ==
    ASSUME TypeOK, StackInv, NEW t \in Tasks, NEW r \in Runs, Enter(t, r), own' = own
    PROVE  ElsewhereKept(t)
<1> USE RunIdsDistinct DEF TypeOK, ContextTypeOK, Enter
<1>1. \A s \in Runs : IsActive(s) => s # r
  BY DEF IsActive, Active
<1>2. \A s \in Runs : IsActive(s) => Below(s)' = Below(s)
  BY <1>1 DEF Below
<1>3. ASSUME NEW u \in Tasks \ {t} PROVE InForce(u)' = InForce(u)
  BY <1>1, <1>2 DEF InForce, StackInv, CurIsActive
<1> QED BY <1>2, <1>3 DEF ElsewhereKept

\* A step of task t keeps ScopeInv if it does so for the innermost call.
LEMMA ScopeOfTask ==
    ASSUME TypeOK, StackInv, ScopeInv, PrivateContexts, NEW t \in Tasks, NEW r \in Runs,
           r = cur[t] \/ pc[r] = "unused",
           ElsewhereKept(t),
           \A q \in Runs \ {r} : pc'[q] = pc[q] /\ own'[q] = own[q],
           \A q \in AgentRuns \ {r} : savedCall'[q] = savedCall[q],
           \A c \in Contexts \ {CtxOf[t]} : lastCall'[c] = lastCall[c],
           lastCall'[CtxOf[t]] = InForce(t)',
           r \in AgentRuns => /\ pc'[r] \in Scoped => savedCall'[r] = Below(r)'
                              /\ own'[r] \in {NoCall, <<r, 1>>}
                              /\ pc'[r] = "llm" => own'[r] = NoCall,
           r \in WorkflowRuns => /\ pc'[r] \in Scoped => own'[r] = Below(r)'
                                 /\ pc'[r] # "llm"
    PROVE  ScopeInv'
<1> USE RunIdsDistinct, ContextOfTask DEF Runs
<1>1. \A u \in Tasks : lastCall'[CtxOf[u]] = InForce(u)'
  BY DEF ScopeInv, ElsewhereKept, PrivateContexts
<1>2. \A q \in Runs : pc[q] \in Scoped => Below(q)' = Below(q)
  BY DEF ElsewhereKept, IsActive, Scoped, Active
<1>3. \A q \in AgentRuns : pc'[q] \in Scoped => savedCall'[q] = Below(q)'
  BY <1>2 DEF ScopeInv
<1>4. \A w \in WorkflowRuns : pc'[w] \in Scoped => own'[w] = Below(w)'
  BY <1>2 DEF ScopeInv
<1>5. \A q \in AgentRuns : own'[q] \in {NoCall, <<q, 1>>} /\ (pc'[q] = "llm" => own'[q] = NoCall)
  BY DEF ScopeInv
<1>6. \A w \in WorkflowRuns : pc'[w] # "llm"
  BY DEF ScopeInv
<1> QED BY <1>1, <1>3, <1>4, <1>5, <1>6 DEF ScopeInv

\* The same for a step that moves the innermost call or leaves it.
ScopeMove(t) ==
    /\ cur[t] \in Runs
    /\ Moves(t) \/ Leaves(t)
    /\ \A q \in Runs \ {cur[t]} : own'[q] = own[q]
    /\ \A q \in AgentRuns \ {cur[t]} : savedCall'[q] = savedCall[q]
    /\ \A c \in Contexts \ {CtxOf[t]} : lastCall'[c] = lastCall[c]

\* A step of task t that keeps the chain of calls keeps ScopeInv if it does
\* so for the innermost call.
LEMMA ScopeOfMove ==
    ASSUME TypeOK, StackInv, ScopeInv, PrivateContexts, NEW t \in Tasks, ScopeMove(t),
           lastCall'[CtxOf[t]] = IF pc'[cur[t]] \in Scoped THEN own'[cur[t]] ELSE Below(cur[t]),
           cur[t] \in AgentRuns =>
               /\ pc'[cur[t]] \in Scoped => savedCall'[cur[t]] = Below(cur[t])
               /\ own'[cur[t]] \in {NoCall, <<cur[t], 1>>}
               /\ pc'[cur[t]] = "llm" => own'[cur[t]] = NoCall,
           cur[t] \in WorkflowRuns =>
               /\ pc'[cur[t]] \in Scoped => own'[cur[t]] = Below(cur[t])
               /\ pc'[cur[t]] # "llm"
    PROVE  ScopeInv'
<1> USE RunIdsDistinct DEF ScopeMove
<1>1. ElsewhereKept(t)
  BY Elsewhere
<1> PICK f \in Runs : f = cur[t]
  OBVIOUS
<1>2. IsActive(f) /\ Below(f)' = Below(f)
  BY <1>1, ChainFacts DEF ElsewhereKept
<1>3. \A q \in Runs \ {f} : pc'[q] = pc[q]
  BY DEF Moves, Leaves, Leave, Goto, TypeOK, ContextTypeOK
<1>4. lastCall'[CtxOf[t]] = InForce(t)'
  <2>1. CASE Moves(t)
    BY <1>2, <2>1 DEF Moves, stackVars, InForce
  <2>2. CASE Leaves(t)
    <3>1. pc'[f] \notin Scoped /\ cur'[t] = caller[f]
      BY <2>2 DEF Leaves, Leave, Goto, TypeOK, ContextTypeOK, Active, Scoped
    <3>2. caller[f] # NoRun => caller[f] \in Runs \ {f} /\ pc[caller[f]] = "body"
      BY <1>2, ChainFacts
    <3> QED BY <1>3, <3>1, <3>2 DEF InForce, Below, Scoped
  <2> QED BY <2>1, <2>2
<1> QED BY <1>1, <1>2, <1>3, <1>4, ScopeOfTask

\* On private contexts every step keeps the LLM metadata in scope.
LEMMA ScopeInvStep ==
    PrivateContexts /\ TypeOK /\ StackInv /\ RowInv /\ ScopeInv /\ [Next]_vars => ScopeInv'
<1> SUFFICES ASSUME PrivateContexts, TypeOK, StackInv, RowInv, ScopeInv, [Next]_vars PROVE ScopeInv'
  OBVIOUS
<1>1. ASSUME NEW t \in Tasks, NEW r \in Runs, Enter(t, r), UNCHANGED <<own, lastCall, savedCall>>
      PROVE  ScopeInv'
  <2> USE RunIdsDistinct DEF TypeOK, ContextTypeOK, Enter
  <2>1. ElsewhereKept(t)
    BY <1>1, ElsewhereEnter
  <2>2. pc[r] = "unused" /\ own[r] = NoCall /\ cur[t] # r
    BY <1>1 DEF RowInv, RunOK, RowAtPlace, StackInv, CurIsActive, IsActive, Active
  <2>3. InForce(t)' = InForce(t)
    BY <1>1, <2>2 DEF MayCall, At, InForce, Below, Scoped
  <2>4. lastCall'[CtxOf[t]] = InForce(t)' /\ pc'[r] = "insert"
    BY <1>1, <2>3 DEF ScopeInv
  <2> QED BY <1>1, <2>1, <2>2, <2>4, ScopeOfTask DEF Scoped
<1>2. ASSUME NEW t \in Tasks, BodyStep(t) PROVE ScopeInv'
  <2>1. CASE InvokeLLM(t)
    <3>1. ScopeMove(t) /\ lastCall' = lastCall /\ own' = own /\ savedCall' = savedCall
          /\ pc[cur[t]] = "body" /\ pc'[cur[t]] = "llm" /\ cur[t] \in AgentRuns /\ lastCall[CtxOf[t]] = NoCall
      BY <2>1 DEF InvokeLLM, At, Goto, ScopeMove, Moves, Runs, Active, contextVars, localVars, Ctx,
             TypeOK, ContextTypeOK
    <3>2. own[cur[t]] = NoCall
      BY <3>1, RunIdsDistinct DEF ScopeInv, InForce, Scoped, Runs
    <3> QED BY <3>1, <3>2, RunIdsDistinct, ScopeOfMove DEF ScopeInv, Scoped, Runs
  <2> QED BY <1>1, <1>2, <2>1 DEF BodyStep, CallAgent, CallWorkflow, contextVars, localVars, Runs

<1>3. ASSUME NEW t \in Tasks, cur[t] \in Runs, Moves(t) \/ Leaves(t), own' = own,
             savedCall' = savedCall, lastCall' = lastCall, pc[cur[t]] \in Scoped <=> pc'[cur[t]] \in Scoped,
             pc'[cur[t]] # "llm"
      PROVE  ScopeInv'
  <2>1. lastCall[CtxOf[t]] = IF pc[cur[t]] \in Scoped THEN own[cur[t]] ELSE Below(cur[t])
    BY <1>3, RunIdsDistinct DEF ScopeInv, InForce
  <2>2. ScopeMove(t)
    BY <1>3 DEF ScopeMove
  <2> QED BY <1>3, <2>1, <2>2, ScopeOfMove DEF ScopeInv, Runs
<1>4. ASSUME NEW t \in Tasks, cur[t] \in AgentRuns, Moves(t) \/ Leaves(t), own' = own,
             savedCall' = savedCall, RestoreLastCall(t), pc[cur[t]] \in Scoped, pc'[cur[t]] \notin Scoped
      PROVE  ScopeInv'
  <2>1. lastCall'[CtxOf[t]] = Below(cur[t])
    BY <1>4, ContextOfTask DEF RestoreLastCall, Ctx, ScopeInv, TypeOK, ContextTypeOK
  <2>2. ScopeMove(t)
    BY <1>4 DEF ScopeMove, RestoreLastCall, Ctx, Runs, TypeOK, ContextTypeOK
  <2>3. cur[t] \notin WorkflowRuns
    BY <1>4, RunIdsDistinct
  <2> QED BY <1>4, <2>1, <2>2, <2>3, ScopeOfMove DEF ScopeInv, Runs, Scoped
<1>5. ASSUME NEW t \in Tasks, cur[t] \in WorkflowRuns, Moves(t), own' = own,
             savedCall' = savedCall, lastCall' = lastCall, pc[cur[t]] \in Scoped, pc'[cur[t]] \notin Scoped
      PROVE  ScopeInv'
  <2>1. lastCall[CtxOf[t]] = Below(cur[t])
    BY <1>5, RunIdsDistinct DEF ScopeInv, InForce, Runs
  <2>2. ScopeMove(t)
    BY <1>5 DEF ScopeMove, Runs
  <2>3. cur[t] \notin AgentRuns
    BY <1>5, RunIdsDistinct
  <2> QED BY <1>5, <2>1, <2>2, <2>3, ScopeOfMove DEF ScopeInv, Runs, Scoped
<1>6. ASSUME NEW t \in Tasks, BodyEnds(t) PROVE ScopeInv'
  <2> USE DEF At, Goto, Runs, Moves, Leaves, Leave, Active, Scoped, PC, TypeOK, ContextTypeOK, Ctx
  <2>1. CASE BackOff(t)
    BY <1>3, <2>1 DEF BackOff, contextVars, localVars
  <2>2. CASE AgentBodyRaises(t) \/ AgentBodyReturns(t) \/ AgentReturnsUnaudited(t)
    BY <1>4, <2>2 DEF AgentBodyRaises, FailAgent, AgentBodyReturns, AgentReturnsUnaudited, localVars
  <2>3. CASE AgentValueInvalid(t)
    BY <1>4, <2>3 DEF AgentValueInvalid, localVars
  <2>4. CASE WorkflowBodyReturns(t) \/ WorkflowBodyRaises(t)
    BY <1>5, <2>4 DEF WorkflowBodyReturns, WorkflowBodyRaises, contextVars, localVars
  <2> QED BY <1>6, <2>1, <2>2, <2>3, <2>4 DEF BodyEnds
<1>7. ASSUME NEW t \in Tasks, Resume(t) PROVE ScopeInv'
  <2> USE DEF At, Goto, Runs, Moves, Leaves, Leave, Active, Scoped, PC, TypeOK, ContextTypeOK, Ctx
  <2>1. CASE LLMAnswers(t)
    <3>1. cur[t] \in AgentRuns /\ cur[t] \notin WorkflowRuns /\ pc[cur[t]] = "llm" /\ own[cur[t]] = NoCall
      BY <2>1, RunIdsDistinct DEF LLMAnswers, ScopeInv
    <3>2. own'[cur[t]] = <<cur[t], 1>> /\ lastCall'[CtxOf[t]] = own'[cur[t]]
      BY <2>1, <3>1, ContextOfTask DEF LLMAnswers, NoCall
    <3>3. ScopeMove(t) /\ pc'[cur[t]] = "body" /\ savedCall' = savedCall
      BY <2>1, <3>1 DEF LLMAnswers, ScopeMove, localVars
    <3> QED BY <3>1, <3>2, <3>3, ScopeOfMove DEF ScopeInv
  <2>2. CASE LLMFails(t) \/ Retry(t)
    BY <1>3, <2>2 DEF LLMFails, Retry, contextVars, localVars
  <2>3. CASE BeginAgentBody(t)
    <3>1. cur[t] \in AgentRuns /\ cur[t] \notin WorkflowRuns /\ pc[cur[t]] = "insert" /\ cur[t] # NoRun
      BY <2>3, RunIdsDistinct DEF BeginAgentBody
    <3>2. lastCall[CtxOf[t]] = Below(cur[t])
      BY <3>1 DEF ScopeInv, InForce
    <3>3. ScopeMove(t) /\ pc'[cur[t]] = "body" /\ savedCall'[cur[t]] = lastCall[CtxOf[t]]
          /\ own'[cur[t]] = NoCall /\ lastCall'[CtxOf[t]] = NoCall
      BY <2>3, <3>1, ContextOfTask DEF BeginAgentBody, ScopeMove
    <3> QED BY <3>1, <3>2, <3>3, ScopeOfMove
  <2>4. CASE BeginWorkflowBody(t)
    <3>1. cur[t] \in WorkflowRuns /\ cur[t] \notin AgentRuns /\ pc[cur[t]] = "insert" /\ cur[t] # NoRun
      BY <2>4, RunIdsDistinct DEF BeginWorkflowBody
    <3>2. lastCall[CtxOf[t]] = Below(cur[t])
      BY <3>1 DEF ScopeInv, InForce
    <3>3. ScopeMove(t) /\ pc'[cur[t]] = "body" /\ own'[cur[t]] = lastCall[CtxOf[t]] /\ lastCall' = lastCall
      BY <2>4, <3>1 DEF BeginWorkflowBody, ScopeMove
    <3> QED BY <3>1, <3>2, <3>3, ScopeOfMove
  <2>5. CASE InsertAgentArtifact(t)
    BY <1>3, <2>5, DecoratorArguments DEF InsertAgentArtifact, contextVars, localVars
  <2>6. CASE AgentReturns(t) \/ AgentReraises(t) \/ AgentStoreFails(t) \/ WorkflowStoreFails(t)
    BY <1>3, <2>6 DEF AgentReturns, AgentReraises, AgentStoreFails, WorkflowStoreFails, contextVars, localVars
  <2>7. CASE WorkflowEnds(t)
    <3>1. PICK how \in Ended : Leave(t, how) /\ cur[t] \in WorkflowRuns
                                /\ pc[cur[t]] \in {"closeOk", "closeFail"}
      BY <2>7 DEF WorkflowEnds, Ended
    <3>2. Leaves(t) /\ pc'[cur[t]] = how
      BY <3>1 DEF Ended
    <3> QED BY <1>3, <2>7, <3>1, <3>2 DEF WorkflowEnds, Ended, localVars
  <2> QED BY <1>7, <2>1, <2>2, <2>3, <2>4, <2>5, <2>6, <2>7 DEF Resume
<1>8. ASSUME NEW t \in Tasks, Cancel(t) PROVE ScopeInv'
  <2> USE DEF At, Goto, Runs, Moves, Leaves, Leave, Active, Scoped, PC, TypeOK, ContextTypeOK, Ctx
  <2>1. CASE CancelBackoff(t)
    BY <1>4, <2>1 DEF CancelBackoff, FailAgent, localVars
  <2>2. CASE AgentStoreCancelled(t) \/ WorkflowStoreCancelled(t)
    BY <1>3, <2>2 DEF AgentStoreCancelled, WorkflowStoreCancelled, contextVars, localVars
  <2> QED BY <1>8, <2>1, <2>2 DEF Cancel
<1>9. CASE Crash
  BY <1>9, ContextOfTask DEF Crash, ScopeInv, InForce, Runs, Active, Scoped, localVars, TypeOK, ContextTypeOK
<1>10. CASE \/ \E r \in Runs : Worker(r)
            \/ \E w \in WorkflowRuns : JanitorAborts(w)
            \/ UNCHANGED vars
  <2>1. UNCHANGED <<stackVars, contextVars, pc, own, localVars>>
    BY <1>10 DEF Worker, WorkerInsertsRow, WorkerUpdatesRow, WorkerInsertsArtifact, WorkerRejects,
           JanitorAborts, LoopUnchanged, vars
  <2> QED BY <2>1 DEF stackVars, contextVars, localVars, ScopeInv, InForce, Below
<1> QED BY <1>2, <1>6, <1>7, <1>8, <1>9, <1>10 DEF Next

-----------------------------------------------------------------------------
(***************************************************************************)
(* What a row charges.                                                     *)
(***************************************************************************)

\* A run that queues nothing and whose row stays is charged as before.
LEMMA ChargeKept ==
    ASSUME NEW r \in Runs, ChargeOK(r), status'[r] = status[r], charge'[r] = charge[r],
           own'[r] = own[r] \/ (status[r] # "succeeded" /\ stage'[r] # "queued"),
           stmt'[r] = stmt[r], stage'[r] = "queued" => stage[r] = "queued"
    PROVE  ChargeOK(r)'
BY DEF ChargeOK

\* A run that queues a statement that charges its own call.
LEMMA ChargeSubmit ==
    ASSUME TypeOK, ChargeInv, NEW r \in Runs, NEW s, Submit(r, s), own' = own,
           r \in WorkflowRuns => s.call = NoCall,
           s.op = "update" /\ s.status = "succeeded" /\ r \in AgentRuns =>
               s.call = own[r] /\ (own[r] = NoCall => r \in PureRuns)
    PROVE  ChargeInv'
<1> USE DEF TypeOK, StoreTypeOK, Submit, rowVars
<1>1. \A q \in Runs \ {r} : ChargeOK(q)'
  BY ChargeKept DEF ChargeInv
<1>2. ChargeOK(r)'
  BY DEF ChargeInv, ChargeOK
<1> QED BY <1>1, <1>2 DEF ChargeInv

\* A step that queues nothing and leaves the rows charges nothing.
LEMMA ChargeNoSubmit ==
    ASSUME TypeOK, ChargeInv, UNCHANGED <<status, charge, stmt>>,
           \A r \in Runs : /\ stage'[r] \in {stage[r], "none"}
                           /\ own'[r] = own[r] \/ (status[r] # "succeeded" /\ stage'[r] # "queued")
    PROVE  ChargeInv'
BY ChargeKept DEF ChargeInv

\* Every step keeps what the rows charge.
LEMMA ChargeInvStep ==
    TypeOK /\ RowInv /\ ScopeInv /\ ChargeInv /\ [Next]_vars => ChargeInv'
<1> SUFFICES ASSUME TypeOK, RowInv, ScopeInv, ChargeInv, [Next]_vars PROVE ChargeInv'
  OBVIOUS
<1> USE StatementFields, RunIdsDistinct, ContextOfTask DEF Runs, At, Ctx
<1>1. ASSUME NEW t \in Tasks, BodyStep(t) PROVE ChargeInv'
  <2>1. CASE InvokeLLM(t)
    BY <2>1, ChargeNoSubmit DEF InvokeLLM, storeVars
  <2> QED BY <1>1, <2>1, ChargeSubmit DEF BodyStep, CallAgent, CallWorkflow
<1>2. ASSUME NEW t \in Tasks, BodyEnds(t) PROVE ChargeInv'
  <2>1. CASE BackOff(t) \/ AgentValueInvalid(t)
    BY <2>1, ChargeNoSubmit DEF BackOff, AgentValueInvalid, storeVars
  <2>2. CASE AgentBodyReturns(t)
    <3>1. cur[t] \in AgentRuns /\ lastCall[CtxOf[t]] = own[cur[t]]
      BY <2>2 DEF AgentBodyReturns, ScopeInv, InForce, Scoped
    <3> QED BY <2>2, <3>1, ChargeSubmit DEF AgentBodyReturns
  <2>3. CASE AgentBodyRaises(t) \/ AgentReturnsUnaudited(t) \/ WorkflowBodyRaises(t)
    BY <2>3, ChargeSubmit DEF AgentBodyRaises, FailAgent, AgentReturnsUnaudited, WorkflowBodyRaises
  <2>4. CASE WorkflowBodyReturns(t)
    BY <2>4, ChargeSubmit DEF WorkflowBodyReturns
  <2> QED BY <1>2, <2>1, <2>2, <2>3, <2>4 DEF BodyEnds
<1>3. ASSUME NEW t \in Tasks, Resume(t) PROVE ChargeInv'
  <2>1. CASE LLMFails(t) \/ Retry(t)
    BY <2>1, ChargeNoSubmit DEF LLMFails, Retry, storeVars
  <2>2. CASE LLMAnswers(t)
    <3>1. stage[cur[t]] = "none" /\ status[cur[t]] # "succeeded"
      BY <2>2 DEF LLMAnswers, RowInv, RunOK, RowAtPlace, IsOpen, OpenStatus, Scoped
    <3> QED BY <2>2, <3>1, ChargeNoSubmit DEF LLMAnswers, storeVars, TypeOK, ContextTypeOK
  <2>3. CASE BeginAgentBody(t) \/ BeginWorkflowBody(t)
    <3>1. status[cur[t]] # "succeeded"
      BY <2>3 DEF BeginAgentBody, BeginWorkflowBody, RowInv, RunOK, RowAtPlace, IsOpen, OpenStatus
    <3> QED BY <2>3, <3>1, ChargeNoSubmit
            DEF BeginAgentBody, BeginWorkflowBody, Consume, TypeOK, StoreTypeOK, ContextTypeOK
  <2>4. CASE InsertAgentArtifact(t)
    BY <2>4, ChargeSubmit, DecoratorArguments DEF InsertAgentArtifact
  <2>5. CASE AgentReturns(t) \/ AgentReraises(t) \/ AgentStoreFails(t) \/ WorkflowEnds(t)
             \/ WorkflowStoreFails(t)
    BY <2>5, ChargeNoSubmit DEF AgentReturns, AgentReraises, AgentStoreFails, WorkflowEnds,
           WorkflowStoreFails, Consume, TypeOK, StoreTypeOK
  <2> QED BY <1>3, <2>1, <2>2, <2>3, <2>4, <2>5 DEF Resume
<1>4. ASSUME NEW t \in Tasks, Cancel(t) PROVE ChargeInv'
  <2>1. CASE CancelBackoff(t)
    BY <2>1, ChargeSubmit DEF CancelBackoff, FailAgent
  <2>2. CASE AgentStoreCancelled(t) \/ WorkflowStoreCancelled(t)
    BY <2>2, ChargeNoSubmit DEF AgentStoreCancelled, WorkflowStoreCancelled, Consume, storeVars,
           TypeOK, StoreTypeOK
  <2> QED BY <1>4, <2>1, <2>2 DEF Cancel
<1>5. ASSUME NEW r \in Runs, Worker(r) PROVE ChargeInv'
  <2> USE <1>5 DEF Worker, WorkerInsertsRow, InsertRow, WorkerUpdatesRow, UpdateRow, Executes,
          WorkerInsertsArtifact, InsertArtifactRow, WorkerRejects, RejectStatement, LoopUnchanged,
          TypeOK, StoreTypeOK
  <2>1. \A q \in Runs \ {r} : ChargeOK(q)'
    BY DEF ChargeInv, ChargeOK
  <2>2. ChargeOK(r) /\ QueuedFits(r)
    BY DEF ChargeInv, RowInv, RunOK
  <2>3. ChargeOK(r)'
    <3>1. CASE WorkerInsertsRow(r)
      BY <2>2, <3>1 DEF ChargeOK, QueuedFits, OpenStatus
    <3>2. CASE WorkerUpdatesRow(r)
      BY <2>2, <3>2 DEF ChargeOK, QueuedFits, OpenStatus, IsOpen
    <3>3. CASE WorkerInsertsArtifact(r) \/ WorkerRejects(r)
      BY <2>2, <3>3 DEF ChargeOK
    <3> QED BY <3>1, <3>2, <3>3
  <2> QED BY <2>1, <2>3 DEF ChargeInv
<1>6. ASSUME NEW w \in WorkflowRuns, JanitorAborts(w) PROVE ChargeInv'
  BY <1>6 DEF JanitorAborts, LoopUnchanged, ChargeInv, ChargeOK, TypeOK, StoreTypeOK
<1>7. CASE Crash \/ UNCHANGED vars
  BY <1>7, ChargeNoSubmit DEF Crash, rowVars, vars, storeVars
<1> QED BY <1>1, <1>2, <1>3, <1>4, <1>5, <1>6, <1>7 DEF Next

-----------------------------------------------------------------------------
(***************************************************************************)
(* The theorems.                                                           *)
(***************************************************************************)

\* The invariant holds before the first call.
LEMMA InitInv == Init => StackInv /\ RowInv /\ RetryInv /\ ScopeInv /\ ChargeInv
<1> SUFFICES ASSUME Init PROVE StackInv /\ RowInv /\ RetryInv /\ ScopeInv /\ ChargeInv
  OBVIOUS
<1> USE RunIdsDistinct, BoundsAreNat, ContextOfTask DEF Init, StoreInit, ContextInit, Runs
<1>1. StackInv
  BY DEF StackInv, CurIsActive, OneCallPerDepth, IsActive, Active
<1>2. RowInv
  <2>1. ASSUME NEW r \in Runs PROVE RunOK(r)
    <3>1. /\ pc[r] = "unused" /\ stage[r] = "none" /\ status[r] = "absent"
          /\ artifact[r] = NoRun /\ link[r] = NoRun /\ own[r] = NoCall
      BY <2>1
    <3>2. stmt[r].wf = NoRun
      BY <2>1 DEF Insert
    <3>3. QueuedFits(r)
      BY <3>1 DEF QueuedFits
    <3>4. RowAtPlace(r)
      BY <3>1 DEF RowAtPlace, Scoped
    <3> QED BY <3>1, <3>2, <3>3, <3>4 DEF RunOK
  <2>2. NamesStored
    BY StatementFields DEF NamesStored, Stored
  <2> QED BY <2>1, <2>2 DEF RowInv
<1>3. RetryInv
  <2>1. \A r \in AgentRuns : attempt[r] = 0 /\ pc[r] = "unused"
    OBVIOUS
  <2>2. 0 <= MaxRetries
    BY BoundsAreNat
  <2> QED BY <2>1, <2>2 DEF RetryInv
<1>4. ScopeInv
  BY DEF ScopeInv, InForce, Scoped
<1>5. ChargeInv
  <2>1. ASSUME NEW r \in Runs PROVE ChargeOK(r)
    <3>1. stage[r] = "none" /\ status[r] = "absent" /\ charge[r] = NoCall
      BY <2>1
    <3>2. stmt[r].call = NoCall
      BY <2>1 DEF Insert
    <3> QED BY <3>1, <3>2 DEF ChargeOK
  <2> QED BY <2>1 DEF ChargeInv
<1> QED BY <1>1, <1>2, <1>3, <1>4, <1>5

\* The await chains, the rows and the retries stay in order under any faults
\* and any sharing of contexts.
THEOREM RowsInvariant == Spec => [](StackInv /\ RowInv /\ RetryInv)
<1>1. Init => StackInv /\ RowInv /\ RetryInv
  BY InitInv
<1>2. TypeOK /\ StackInv /\ RowInv /\ RetryInv /\ [Next]_vars => (StackInv /\ RowInv /\ RetryInv)'
  BY StackInvStep, RowInvStep, RetryInvStep
<1> QED BY <1>1, <1>2, TypeCorrect, PTL DEF Spec

\* On private contexts IInv is an inductive invariant.
THEOREM Inductive == ASSUME PrivateContexts PROVE Spec => []IInv
<1>1. Init => IInv
  BY InitTypeOK, InitInv DEF IInv
<1>2. IInv /\ [Next]_vars => IInv'
  BY TypeOKStep, StackInvStep, RowInvStep, RetryInvStep, ScopeInvStep, ChargeInvStep DEF IInv
<1> QED BY <1>1, <1>2, PTL DEF Spec

\* No statement in the queue names a missing row, under any sharing of
\* contexts: the foreign keys of the schema never fail.
THEOREM NoDangling == Spec => []NoDanglingStatement
<1>1. TypeOK /\ RowInv => NoDanglingStatement
  BY RunIdsDistinct DEF RowInv, RunOK, QueuedFits, IsOpen, OpenStatus, NamesStored, Stored,
         NoDanglingStatement, ForeignKeys
<1> QED BY <1>1, TypeCorrect, RowsInvariant, PTL

\* On private contexts a body finds its own call and nothing else.
THEOREM Scoping == ASSUME PrivateContexts PROVE Spec => []MetadataScoped
<1>1. IInv => MetadataScoped
  BY RunIdsDistinct DEF IInv, ScopeInv, InForce, MetadataScoped, At, Ctx, Runs
<1> QED BY <1>1, Inductive, PTL

\* On private contexts no row charges a call it did not make, and no call is
\* charged twice.
THEOREM Charging == ASSUME PrivateContexts PROVE Spec => []ChargesAreReal
<1>1. IInv => ChargesAreReal
  BY DEF IInv, ScopeInv, ChargeInv, ChargeOK, ChargesAreReal, Runs
<1> QED BY <1>1, Inductive, PTL

\* A call that returned has left the record of what it did.
THEOREM Returning == ASSUME PrivateContexts PROVE Spec => []ReturnedIsRecorded
<1>1. IInv => ReturnedIsRecorded
  BY RunIdsDistinct DEF IInv, RowInv, RunOK, RowAtPlace, ChargeInv, ChargeOK, ReturnedIsRecorded, Runs
<1> QED BY <1>1, Inductive, PTL

-----------------------------------------------------------------------------
(***************************************************************************)
(* The runtime implements AuditTrail: a worker that executes a statement   *)
(* takes a step of the trail, and every other step leaves the tables.      *)
(***************************************************************************)
LEMMA TrailStep ==
    ASSUME IInv, [Next]_vars
    PROVE  [Trail!Next]_(Trail!trail)
<1> USE DEF Trail!trail
<1>1. CASE UNCHANGED rowVars
  BY <1>1 DEF rowVars
<1>2. ASSUME NEW r \in Runs, Worker(r) PROVE Trail!Next \/ UNCHANGED rowVars
  <2>1. RunOK(r) /\ ChargeOK(r) /\ NamesStored /\ stmt[r] \in Statement /\ StoreTypeOK
    BY <1>2 DEF IInv, RowInv, ChargeInv, TypeOK, StoreTypeOK
  <2>2. CASE WorkerInsertsRow(r)
    <3>1. CASE r \in AgentRuns
      <4>1. Trail!OpenAgentRun(r)
        BY <2>1, <2>2, <3>1 DEF WorkerInsertsRow, InsertRow, Executes, RunOK, QueuedFits, OpenStatus,
               NamesStored, Stored, Statement, Trail!OpenAgentRun, Trail!Workflows
      <4> QED BY <3>1, <4>1 DEF Trail!Next
    <3>2. CASE r \in WorkflowRuns
      <4>1. r \notin AgentRuns /\ stmt[r].wf = NoRun /\ link[r] = NoRun
        BY <2>1, <3>2, RunIdsDistinct DEF RunOK
      <4>2. link' = link
        BY <2>2, <4>1 DEF WorkerInsertsRow, InsertRow, IInv, TypeOK, StoreTypeOK
      <4>3. Trail!OpenWorkflowRun(r)
        BY <2>1, <2>2, <4>1, <4>2 DEF WorkerInsertsRow, InsertRow, Executes, RunOK, QueuedFits,
               OpenStatus, Trail!OpenWorkflowRun
      <4> QED BY <3>2, <4>3 DEF Trail!Next
    <3> QED BY <3>1, <3>2 DEF Runs
  <2>3. CASE WorkerUpdatesRow(r)
    <3> USE <2>3 DEF WorkerUpdatesRow, UpdateRow, Executes
    <3>1. IsOpen(r) /\ stmt[r].status \in {"succeeded", "failed"}
          /\ status' = [status EXCEPT ![r] = stmt[r].status]
      BY <2>1, <2>3 DEF RunOK, QueuedFits, IsOpen, OpenStatus, StoreTypeOK
    <3>2. stmt[r].status = "failed" \/ r \in WorkflowRuns => charge' = charge
      BY <2>1, <3>1, RunIdsDistinct DEF ChargeOK, StoreTypeOK, IsOpen, OpenStatus
    <3>3. r \in AgentRuns => status[r] = "pending"
      BY <2>1, <3>1, RunIdsDistinct DEF RunOK, IsOpen, OpenStatus
    <3>4. CASE r \in WorkflowRuns
      <4>1. Trail!CloseWorkflowRun(r)
        BY <3>1, <3>2, <3>4, RunIdsDistinct DEF IsOpen, OpenStatus, Trail!CloseWorkflowRun
      <4> QED BY <3>4, <4>1 DEF Trail!Next
    <3>5. CASE r \in AgentRuns /\ stmt[r].status = "failed"
      <4>1. Trail!AgentRunFails(r)
        BY <3>1, <3>2, <3>5, <3>3 DEF Trail!AgentRunFails
      <4> QED BY <3>5, <4>1 DEF Trail!Next
    <3>6. CASE r \in AgentRuns /\ stmt[r].status = "succeeded"
      <4>1. stmt[r].call \in {Trail!NoCall, <<r, 1>>}
        BY <2>1, <3>6 DEF ChargeOK, IInv, ScopeInv, Trail!NoCall, NoCall
      <4>2. charge' = [charge EXCEPT ![r] = stmt[r].call]
        BY <3>6, <3>3
      <4>3. Trail!AgentRunSucceeds(r)
        BY <3>1, <3>6, <3>3, <4>1, <4>2 DEF Trail!AgentRunSucceeds
      <4> QED BY <3>6, <4>3 DEF Trail!Next
    <3> QED BY <3>1, <3>4, <3>5, <3>6 DEF Runs
  <2>4. CASE WorkerInsertsArtifact(r)
    <3>1. r \in AgentRuns /\ Trail!StoreArtifact(r)
      BY <2>1, <2>4 DEF WorkerInsertsArtifact, InsertArtifactRow, Executes, RunOK, QueuedFits,
             NamesStored, Stored, Statement, Trail!StoreArtifact, Trail!Workflows
    <3> QED BY <3>1 DEF Trail!Next
  <2>5. CASE WorkerRejects(r)
    BY <2>5 DEF WorkerRejects, RejectStatement, rowVars
  <2> QED BY <1>2, <2>2, <2>3, <2>4, <2>5 DEF Worker
<1>3. ASSUME NEW t \in Tasks, BodyStep(t) \/ BodyEnds(t) PROVE UNCHANGED rowVars
  BY <1>3 DEF BodyStep, CallAgent, CallWorkflow, InvokeLLM, BodyEnds, BackOff, AgentBodyRaises, FailAgent,
         AgentBodyReturns, AgentReturnsUnaudited, AgentValueInvalid, WorkflowBodyReturns,
         WorkflowBodyRaises, Submit, storeVars, rowVars
<1>4. ASSUME NEW t \in Tasks, Resume(t) \/ Cancel(t) PROVE UNCHANGED rowVars
  BY <1>4 DEF Resume, LLMAnswers, LLMFails, BeginAgentBody, Retry, InsertAgentArtifact, AgentReturns,
         AgentReraises, AgentStoreFails, BeginWorkflowBody, WorkflowEnds, WorkflowStoreFails, Cancel,
         CancelBackoff, FailAgent, AgentStoreCancelled, WorkflowStoreCancelled, Submit, Consume,
         storeVars, rowVars
<1>5. ASSUME NEW w \in WorkflowRuns, JanitorAborts(w) PROVE Trail!Next
  <2>1. Trail!AbortWorkflowRun(w)
    BY <1>5 DEF JanitorAborts, Trail!AbortWorkflowRun
  <2> QED BY <2>1 DEF Trail!Next
<1>6. Crash \/ UNCHANGED vars => UNCHANGED rowVars
  BY DEF Crash, vars, storeVars, rowVars
<1> QED BY <1>1, <1>2, <1>3, <1>4, <1>5, <1>6 DEF Next

\* The tables the runtime fills, crashes, cancellations and failing statements
\* included, are an audit trail as AuditTrail specifies it.
THEOREM Refinement ==
    ASSUME PrivateContexts
    PROVE  Spec => ImplementsTrail
<1>1. Init => Trail!Init
  BY DEF Init, StoreInit, Trail!Init, Runs, Trail!Runs, NoCall, Trail!NoCall
<1>2. IInv /\ [Next]_vars => [Trail!Next]_(Trail!trail)
  BY TrailStep
<1> QED BY <1>1, <1>2, Inductive, PTL DEF Spec, ImplementsTrail, Trail!Spec

\* A step of the trail opens a row of the ledger, closes one, or is none of the
\* ledger's concern.
LEMMA LedgerStep ==
    ASSUME IInv, [Next]_vars
    PROVE  [Rows!Next]_(Rows!rows)
<1> USE DEF Rows!rows
<1>1. /\ [Trail!Next]_(Trail!trail)
      /\ status \in [Runs -> Status]
      /\ \A r \in AgentRuns : charge[r] # NoCall => status[r] = "succeeded"
      /\ charge \in [Runs -> Call]
  BY TrailStep DEF IInv, TypeOK, StoreTypeOK, ScopeInv, ChargeInv, ChargeOK, Runs
<1>2. ASSUME NEW r \in AgentRuns, Trail!OpenAgentRun(r) PROVE Rows!Next
  <2>1. Rows!Open(r)
    BY <1>1, <1>2 DEF Trail!OpenAgentRun, Rows!Open, Runs
  <2> QED BY <2>1 DEF Rows!Next
<1>3. ASSUME NEW r \in AgentRuns, Trail!AgentRunSucceeds(r) \/ Trail!AgentRunFails(r) PROVE Rows!Next
  <2>1. Rows!Close(r)
    BY <1>1, <1>3 DEF Trail!AgentRunSucceeds, Trail!AgentRunFails, Rows!Close, Runs
  <2> QED BY <2>1 DEF Rows!Next
<1>4. CASE \/ \E r \in AgentRuns : Trail!StoreArtifact(r)
           \/ UNCHANGED Trail!trail
  BY <1>4 DEF Trail!StoreArtifact, Trail!trail
<1>5. ASSUME NEW w \in WorkflowRuns,
             Trail!OpenWorkflowRun(w) \/ Trail!CloseWorkflowRun(w) \/ Trail!AbortWorkflowRun(w)
      PROVE  UNCHANGED Rows!rows
  <2>1. w \notin AgentRuns /\ charge' = charge
    BY <1>5, RunIdsDistinct DEF Trail!OpenWorkflowRun, Trail!CloseWorkflowRun, Trail!AbortWorkflowRun
  <2>2. \A r \in AgentRuns : status'[r] = status[r]
    BY <1>1, <1>5, <2>1 DEF Trail!OpenWorkflowRun, Trail!CloseWorkflowRun, Trail!AbortWorkflowRun, Runs
  <2> QED BY <2>1, <2>2
<1> QED BY <1>1, <1>2, <1>3, <1>4, <1>5 DEF Trail!Next

\* What the cost ledger relies on, the runtime provides.
THEOREM LedgerIsFed ==
    ASSUME PrivateContexts
    PROVE  Spec => FeedsLedger
<1>1. Init => Rows!Init
  BY DEF Init, StoreInit, Rows!Init, Runs
<1>2. IInv /\ [Next]_vars => [Rows!Next]_(Rows!rows)
  BY LedgerStep
<1> QED BY <1>1, <1>2, Inductive, PTL DEF Spec, FeedsLedger, Rows!Spec
=============================================================================
