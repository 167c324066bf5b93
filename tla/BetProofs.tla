----------------------------- MODULE BetProofs ------------------------------
(***************************************************************************)
(* Proofs about the script of the scenario: the order of its stages, the   *)
(* number of its judges, what it accepts and what it records, for any      *)
(* number of stages, judges and retries, whatever fails or is cancelled.   *)
(***************************************************************************)
EXTENDS BetInvariant, LeverageBetProofs, FiniteSetTheorems

\* Who is who.
LEMMA ScriptFacts ==
    /\ WorkflowRuns = {Bet} /\ Bet \in Runs /\ Bet \notin AgentRuns
    /\ Critic \in Outer /\ Outer \subseteq AgentRuns /\ JudgeRuns = AgentRuns \ Outer
    /\ PureRuns = {Critic} /\ ArtifactRuns = Outer
    /\ AgentRuns \subseteq Runs /\ \A r \in Runs : r = Bet \/ r \in AgentRuns
    /\ NoRun \notin Runs
<1>1. Stages \in Seq(AgentRuns) /\ Len(Stages) \in DOMAIN Stages
  BY ScenarioRuns
<1> QED BY <1>1, ScenarioRuns, RunIdsDistinct DEF Outer, Critic, Runs

ExcType == exc \in [Runs -> Exceptions \cup {"none"}]

-----------------------------------------------------------------------------
(***************************************************************************)
(* The steps, as far as the invariant is concerned: a call begins, the     *)
(* innermost call of a task goes from one place to another, or a worker    *)
(* executes a statement.                                                   *)
(***************************************************************************)
Begins(t, r) ==
    /\ Enter(t, r)
    /\ \/ r = Bet /\ cur[t] = NoRun
       \/ /\ cur[t] = Bet
          /\ \E i \in DOMAIN Stages :
                r = Stages[i] /\ \A j \in 1..(i - 1) : pc[Stages[j]] = "returned"
       \/ /\ r \in JudgeRuns
          /\ cur[t] = Critic /\ exc[Critic] = "none"
          /\ rule_eval(bet).accepted /\ Reports = {}
    /\ \E st \in {"pending", "running"}, wf \in WorkflowRuns \cup {NoRun} :
          Submit(r, Insert(st, wf)) /\ (r \in AgentRuns => wf = workflowId[CtxOf[t]])
    /\ UNCHANGED <<workflowId, own, attempt, exc, bet, report>>

\* What the innermost call of t leaves alone as it goes on.
Frame(t) ==
    /\ cur[t] \in Runs
    /\ \A q \in Runs \ {cur[t]} :
          pc'[q] = pc[q] /\ stage'[q] = stage[q] /\ stmt'[q] = stmt[q] /\ own'[q] = own[q]
    /\ \A q \in AgentRuns \ {cur[t]} : attempt'[q] = attempt[q]
    /\ \A q \in Runs \ {cur[t], caller[cur[t]]} : exc'[q] = exc[q]
    /\ UNCHANGED <<rowVars, caller, task, bet>>

GoesFrom(r, from, to) == pc[r] \in from /\ pc'[r] = to

StartsBody(r) ==
    /\ GoesFrom(r, {"insert"}, "body")
    /\ stage'[r] = "none" /\ stmt'[r] = stmt[r]
    /\ attempt'[r] = 0 /\ own'[r] = NoCall
    /\ UNCHANGED <<exc, report>>

UsesLLM(r) ==
    /\ \/ /\ r # Critic /\ GoesFrom(r, {"body"}, "llm")
          /\ exc[r] = "none" /\ exc'[r] = exc[r] /\ own'[r] = own[r]
       \/ GoesFrom(r, {"llm"}, "body") /\ (exc'[r] = exc[r] \/ own'[r] = own[r])
    /\ stage'[r] = stage[r] /\ stmt'[r] = stmt[r] /\ attempt'[r] = attempt[r]
    /\ \A q \in Runs \ {r} : exc'[q] = exc[q]
    /\ UNCHANGED report

FallsBack(r) ==
    /\ GoesFrom(r, {"body"}, "backoff")
    /\ IsRetryable(exc[r])
    /\ stage'[r] = stage[r] /\ stmt'[r] = stmt[r]
    /\ attempt'[r] = attempt[r] /\ own'[r] = own[r]
    /\ UNCHANGED <<exc, report>>

TriesAgain(r) ==
    /\ GoesFrom(r, {"backoff"}, "body")
    /\ stage'[r] = stage[r] /\ stmt'[r] = stmt[r]
    /\ attempt'[r] = attempt[r] + 1 /\ own'[r] = own[r]
    /\ exc'[r] = "none" /\ \A q \in Runs \ {r} : exc'[q] = exc[q]
    /\ UNCHANGED report

Succeeded(r) ==
    /\ GoesFrom(r, {"body"}, "closeOk")
    /\ exc[r] = "none"
    /\ stage'[r] = "queued" /\ stmt'[r].op = "update" /\ stmt'[r].status = "succeeded"
    /\ attempt'[r] = attempt[r] /\ own'[r] = own[r]
    /\ r # Critic => report' = report
    /\ r = Critic => \/ ~rule_eval(bet).accepted /\ report' = rule_eval(bet)
                     \/ Reports # {} /\ report' \in JudgeReports
    /\ UNCHANGED exc

Failed(r) ==
    /\ GoesFrom(r, {"body", "backoff"}, "closeFail")
    /\ exc'[r] # "none" /\ \A q \in Runs \ {r} : exc'[q] = exc[q]
    /\ stage'[r] = "queued" /\ stmt'[r].op = "update" /\ stmt'[r].status = "failed"
    /\ attempt'[r] = attempt[r] /\ own'[r] = own[r]
    /\ UNCHANGED report

Stores(r, t) ==
    /\ GoesFrom(r, {"closeOk"}, "artifact")
    /\ r \in Outer
    /\ stage[r] = "applied" /\ stage'[r] = "queued"
    /\ stmt'[r] = InsertArtifact(workflowId[CtxOf[t]])
    /\ attempt'[r] = attempt[r] /\ own'[r] = own[r]
    /\ UNCHANGED <<exc, report>>

Returns(r, t) ==
    /\ \/ GoesFrom(r, {"artifact"}, "returned")
       \/ GoesFrom(r, {"closeOk"}, "returned") /\ (r \in Outer => workflowId[CtxOf[t]] = NoRun)
    /\ stage[r] = "applied" /\ stage'[r] = "none" /\ stmt'[r] = stmt[r]
    /\ attempt'[r] = attempt[r] /\ own'[r] = own[r]
    /\ UNCHANGED <<exc, report>>

Raises(r) ==
    /\ GoesFrom(r, {"insert", "closeOk", "closeFail", "artifact"}, "raised")
    /\ \A q \in {r, caller[r]} \cap Runs : exc'[q] = exc'[r]
    /\ \/ pc[r] = "closeFail" /\ stage[r] = "applied" /\ exc'[r] = exc[r]
       \/ stage[r] = "error" /\ exc'[r] = "OperationalError"
       \/ exc'[r] = "CancelledError"
    /\ stage'[r] \in {stage[r], "none"} /\ stmt'[r] = stmt[r]
    /\ attempt'[r] = attempt[r] /\ own'[r] = own[r]
    /\ UNCHANGED report

AgentGoes(t) ==
    /\ cur[t] \in AgentRuns
    /\ Frame(t)
    /\ UNCHANGED workflowId
    /\ \/ StartsBody(cur[t]) \/ UsesLLM(cur[t]) \/ FallsBack(cur[t]) \/ TriesAgain(cur[t])
       \/ Succeeded(cur[t]) \/ Failed(cur[t]) \/ Stores(cur[t], t)
       \/ Returns(cur[t], t) \/ Raises(cur[t])

BetGoes(t) ==
    /\ cur[t] = Bet
    /\ Frame(t)
    /\ \/ GoesFrom(Bet, {"insert"}, "body") /\ workflowId' = [workflowId EXCEPT ![CtxOf[t]] = Bet]
       \/ GoesFrom(Bet, {"body"}, "closeOk") /\ pc[Critic] = "returned"
       \/ GoesFrom(Bet, {"closeOk"}, "returned")
       \/ pc'[Bet] \in {"closeFail", "raised"}
    /\ UNCHANGED <<report, attempt>>

Executed(r) ==
    /\ Worker(r)
    /\ UNCHANGED <<pc, cur, caller, task, workflowId, own, attempt, exc, bet, report>>

\* The bodies of the script.
LEMMA BodyKinds ==
    ASSUME TypeOK, ExcType, NEW t \in Tasks, Body(t)
    PROVE  (\E r \in Runs : Begins(t, r)) \/ AgentGoes(t) \/ BetGoes(t)
<1> USE ScriptFacts, StatementFields DEF Working, At, Goto, GoesFrom, TypeOK, ContextTypeOK, StoreTypeOK
<1>1. CASE RunBet(t)
  BY <1>1 DEF RunBet, CallWorkflow, Begins, contextVars, localVars
<1>2. ASSUME NEW i \in DOMAIN Stages, NextStage(t, i) PROVE Begins(t, Stages[i])
  <2>1. Stages[i] \in AgentRuns
    BY ScenarioRuns
  <2>2. workflowId[CtxOf[t]] \in WorkflowRuns \cup {NoRun}
    BY ContextOfTask
  <2> QED BY <1>2, <2>1, <2>2 DEF NextStage, CallAgent, Ctx, Begins, contextVars, localVars
<1>3. ASSUME NEW j \in JudgeRuns, CallJudge(t, j) PROVE Begins(t, j)
  <2>1. workflowId[CtxOf[t]] \in WorkflowRuns \cup {NoRun}
    BY ContextOfTask
  <2> QED BY <1>3, <2>1 DEF CallJudge, CallAgent, Ctx, Begins, contextVars, localVars
<1>4. CASE BetReturns(t) \/ BetRaises(t)
  BY <1>4 DEF BetReturns, BetRaises, WorkflowBodyReturns, WorkflowBodyRaises, BetGoes, Frame,
         Submit, stackVars, contextVars, localVars
<1>5. CASE Invokes(t)
  <2>1. UsesLLM(cur[t]) /\ Frame(t)
    BY <1>5 DEF Invokes, InvokeLLM, UsesLLM, Frame, stackVars, contextVars, localVars, storeVars, rowVars
  <2> QED BY <1>5, <2>1 DEF Invokes, InvokeLLM, AgentGoes, contextVars
<1>6. CASE LLMAgentReturns(t) \/ CriticReturns(t)
  <2>1. Succeeded(cur[t]) /\ Frame(t)
    BY <1>6 DEF LLMAgentReturns, CriticReturns, AgentBodyReturns, Succeeded, Frame, Submit,
           stackVars, localVars
  <2> QED BY <1>6, <2>1 DEF LLMAgentReturns, CriticReturns, AgentBodyReturns, AgentGoes
<1>7. CASE BacksOff(t)
  <2>1. FallsBack(cur[t]) /\ Frame(t)
    BY <1>7 DEF BacksOff, BackOff, FallsBack, Frame, stackVars, localVars, storeVars, rowVars
  <2> QED BY <1>7, <2>1 DEF BacksOff, BackOff, AgentGoes, contextVars
<1>8. CASE GivesUp(t)
  <2>1. Failed(cur[t]) /\ Frame(t)
    BY <1>8 DEF GivesUp, AgentBodyRaises, FailAgent, Failed, Frame, Submit, stackVars, localVars
  <2> QED BY <1>8, <2>1 DEF GivesUp, AgentBodyRaises, FailAgent, AgentGoes
<1> QED BY <1>1, <1>2, <1>3, <1>4, <1>5, <1>6, <1>7, <1>8, ScenarioRuns DEF Body

\* What the platform does with the calls of the script.
LEMMA PlatformKinds ==
    ASSUME TypeOK, ExcType, NEW t \in Tasks, Platform(t) \/ BackoffCancelled(t) \/ Cancelled(t)
    PROVE  AgentGoes(t) \/ BetGoes(t)
<1> USE ScriptFacts, StatementFields DEF At, Goto, GoesFrom, TypeOK, ContextTypeOK, StoreTypeOK
<1>1. CASE Answered(t) \/ LLMRaises(t)
  <2>1. UsesLLM(cur[t]) /\ Frame(t)
    BY <1>1 DEF Answered, LLMAnswers, LLMRaises, LLMFails, Sees, ExcType, UsesLLM, Frame,
           stackVars, localVars, storeVars, rowVars
  <2> QED BY <1>1, <2>1 DEF Answered, LLMAnswers, LLMRaises, LLMFails, AgentGoes, contextVars
<1>2. CASE Retries(t)
  <2>1. TriesAgain(cur[t]) /\ Frame(t)
    BY <1>2 DEF Retries, Retry, Sees, ExcType, TriesAgain, Frame, stackVars, storeVars, rowVars
  <2> QED BY <1>2, <2>1 DEF Retries, Retry, AgentGoes, contextVars
<1>3. CASE BackoffCancelled(t)
  <2>1. Failed(cur[t]) /\ Frame(t)
    BY <1>3 DEF BackoffCancelled, CancelBackoff, FailAgent, Sees, ExcType, Failed, Frame, Submit,
           stackVars, localVars
  <2> QED BY <1>3, <2>1 DEF BackoffCancelled, CancelBackoff, FailAgent, AgentGoes
<1>4. CASE BeginAgentBody(t) /\ UNCHANGED <<exc, bet, report>>
  <2>1. StartsBody(cur[t]) /\ Frame(t)
    BY <1>4 DEF BeginAgentBody, Consume, StartsBody, Frame, stackVars, rowVars
  <2> QED BY <1>4, <2>1 DEF BeginAgentBody, AgentGoes
<1>5. CASE InsertAgentArtifact(t) /\ UNCHANGED <<exc, bet, report>>
  <2>1. Stores(cur[t], t) /\ Frame(t)
    BY <1>5 DEF InsertAgentArtifact, Submit, Ctx, Stores, Frame, stackVars, localVars
  <2> QED BY <1>5, <2>1 DEF InsertAgentArtifact, AgentGoes, contextVars
<1>6. CASE AgentReturns(t) /\ UNCHANGED <<exc, bet, report>>
  <2>1. Returns(cur[t], t) /\ Frame(t)
    BY <1>6 DEF AgentReturns, Leave, Consume, Ctx, Returns, Frame, localVars, rowVars
  <2> QED BY <1>6, <2>1 DEF AgentReturns, AgentGoes, contextVars
<1>7. ASSUME NEW e, Throws(t, e), UNCHANGED <<bet, report>>,
             \/ AgentReraises(t) /\ e = exc[cur[t]]
             \/ AgentStoreFails(t) /\ e = "OperationalError"
             \/ AgentStoreCancelled(t) /\ e = "CancelledError"
      PROVE  AgentGoes(t)
  <2>1. cur[t] \in AgentRuns /\ cur[t] \in Runs /\ GoesFrom(cur[t], {"insert", "closeOk", "closeFail", "artifact"}, "raised")
    BY <1>7 DEF AgentReraises, AgentStoreFails, AgentStoreCancelled, Leave
  <2>2. /\ \A q \in {cur[t], caller[cur[t]]} \cap Runs : exc'[q] = e
        /\ \A q \in Runs \ {cur[t], caller[cur[t]]} : exc'[q] = exc[q]
    BY <1>7 DEF Throws
  <2>3. Raises(cur[t]) /\ Frame(t)
    BY <1>7, <2>1, <2>2 DEF AgentReraises, AgentStoreFails, AgentStoreCancelled, Leave, Consume,
           Raises, Frame, localVars, rowVars, storeVars
  <2> QED BY <1>7, <2>1, <2>3 DEF AgentReraises, AgentStoreFails, AgentStoreCancelled, AgentGoes, contextVars
<1>8. CASE BeginWorkflowBody(t) /\ UNCHANGED <<exc, bet, report>>
  BY <1>8 DEF BeginWorkflowBody, Consume, Ctx, BetGoes, Frame, stackVars, rowVars
<1>9. ASSUME NEW e, Throws(t, e), UNCHANGED <<bet, report>>,
             WorkflowEnds(t) \/ WorkflowStoreFails(t) \/ WorkflowStoreCancelled(t)
      PROVE  BetGoes(t)
  <2>1. cur[t] = Bet /\ Frame(t)
    BY <1>9 DEF WorkflowEnds, WorkflowStoreFails, WorkflowStoreCancelled, Leave, Consume, Throws,
           Frame, localVars, rowVars, storeVars
  <2> QED BY <1>9, <2>1 DEF WorkflowEnds, WorkflowStoreFails, WorkflowStoreCancelled, Leave, BetGoes, localVars
<1> QED
  BY <1>1, <1>2, <1>3, <1>4, <1>5, <1>6, <1>7, <1>8, <1>9
  DEF Platform, Proceeds, Ends, StoreRaises, Cancelled

\* Every step of the scenario is of one of these kinds.
LEMMA BetKinds ==
    ASSUME TypeOK, ExcType, [BetNext]_betVars
    PROVE  \/ \E t \in Tasks, r \in Runs : Begins(t, r)
           \/ \E t \in Tasks : AgentGoes(t) \/ BetGoes(t)
           \/ \E r \in Runs : Executed(r)
           \/ UNCHANGED betVars
<1>1. ASSUME NEW r \in Runs, BetWorker(r) PROVE Executed(r)
  BY <1>1 DEF BetWorker, Executed, Worker, WorkerInsertsRow, WorkerUpdatesRow, WorkerInsertsArtifact,
         WorkerRejects, LoopUnchanged, stackVars, contextVars, localVars
<1> QED BY <1>1, BodyKinds, PlatformKinds DEF BetNext

-----------------------------------------------------------------------------
(***************************************************************************)
(* The await chain.                                                        *)
(***************************************************************************)

\* An agent at work is below the workflow, which waits for it, and a judge is
\* below the Critic, too.
LEMMA BelowBet ==
    ASSUME TypeOK, StackInv, ChainInv, NEW r \in AgentRuns, IsActive(r)
    PROVE  /\ pc[Bet] = "body" /\ task[Bet] = task[r] /\ task[r] \in Tasks
           /\ workflowId[CtxOf[task[r]]] = Bet
           /\ r \in JudgeRuns => pc[Critic] = "body" /\ depth[r] = 2 + depth[Bet]
<1> USE ScriptFacts DEF TypeOK, ContextTypeOK
<1>1. OnChain(r) /\ CalledByScript(r)
  BY DEF StackInv, ChainInv
<1>2. IsActive(caller[r]) /\ task[caller[r]] = task[r] /\ task[r] \in Tasks
      /\ depth[r] = depth[caller[r]] + 1 /\ caller[r] # NoRun
  BY <1>1 DEF OnChain, CalledByScript
<1>3. ASSUME NEW s \in Runs, IsActive(s), OnChain(s), depth[s] < depth[r], task[s] = task[r]
      PROVE  pc[s] = "body"
  BY <1>1, <1>3 DEF OnChain
<1>4. CASE r \in Outer
  BY <1>1, <1>2, <1>3, <1>4 DEF CalledByScript, StackInv, ChainInv
<1>5. CASE r \in JudgeRuns
  <2>1. caller[r] = Critic /\ OnChain(Critic) /\ caller[Critic] = Bet
    BY <1>1, <1>2, <1>5 DEF CalledByScript, StackInv, ChainInv
  <2>2. IsActive(Bet) /\ task[Bet] = task[r] /\ depth[Critic] = depth[Bet] + 1 /\ OnChain(Bet)
    BY <1>2, <2>1 DEF OnChain, StackInv
  <2> QED BY <1>2, <1>3, <2>1, <2>2 DEF StackInv, ChainInv
<1> QED BY <1>4, <1>5

\* There is one judge at a time, and while there is, the Critic waits.
LEMMA OneJudge ==
    ASSUME TypeOK, StackInv, ChainInv
    PROVE  /\ \A j, k \in JudgeRuns : IsActive(j) /\ IsActive(k) => j = k
           /\ \A t \in Tasks : cur[t] = Critic => \A j \in JudgeRuns : ~IsActive(j)
           /\ \A t \in Tasks : cur[t] \in Runs /\ caller[cur[t]] = Critic => cur[t] \in JudgeRuns
           /\ \A j \in JudgeRuns : IsActive(j) => caller[j] = Critic /\ IsActive(Critic)
<1> USE ScriptFacts DEF TypeOK, ContextTypeOK
<1>1. ASSUME NEW j \in JudgeRuns, NEW k \in JudgeRuns, IsActive(j), IsActive(k) PROVE j = k
  <2>1. task[j] = task[k] /\ depth[j] = depth[k]
    BY <1>1, BelowBet
  <2> QED BY <1>1, <2>1 DEF StackInv, OneCallPerDepth
<1>2. \A j \in JudgeRuns : IsActive(j) => caller[j] = Critic
  BY DEF ChainInv, CalledByScript
<1>3. \A j \in JudgeRuns : IsActive(j) => IsActive(Critic)
  BY <1>2 DEF StackInv, OnChain
<1>4. ASSUME NEW t \in Tasks, cur[t] = Critic PROVE \A j \in JudgeRuns : ~IsActive(j)
  BY <1>2, <1>4, ChainFacts
<1>5. ASSUME NEW t \in Tasks, cur[t] \in Runs, caller[cur[t]] = Critic PROVE cur[t] \in JudgeRuns
  <2>1. IsActive(cur[t])
    BY <1>5, ChainFacts
  <2> QED BY <1>5, <2>1 DEF ChainInv, CalledByScript
<1> QED BY <1>1, <1>2, <1>3, <1>4, <1>5

\* A call that returned or raised stays so, and one that was not made is made
\* only by Begins.
LEMMA EndedStays ==
    ASSUME TypeOK, StackInv, ExcType, [BetNext]_betVars, NEW r \in Runs
    PROVE  /\ pc[r] \in Ended => pc'[r] = pc[r]
           /\ pc[r] = "unused" => pc'[r] = "unused" \/ \E t \in Tasks : Begins(t, r)
           /\ IsActive(r)' => IsActive(r) \/ \E t \in Tasks : Begins(t, r)
<1> USE ScriptFacts DEF TypeOK, ContextTypeOK, IsActive
<1>1. ASSUME NEW t \in Tasks, cur[t] \in Runs PROVE pc[cur[t]] \in Active
  BY <1>1, ChainFacts
<1>2. ASSUME NEW t \in Tasks, NEW q \in Runs, Begins(t, q)
      PROVE  pc[q] = "unused" /\ pc' = [pc EXCEPT ![q] = "insert"]
  BY <1>2 DEF Begins, Enter
<1>3. CASE \E t \in Tasks : AgentGoes(t) \/ BetGoes(t)
  BY <1>1, <1>3 DEF AgentGoes, BetGoes, Frame, Ended, Active
<1>4. CASE UNCHANGED pc
  BY <1>4
<1>5. CASE \E t \in Tasks, q \in Runs : Begins(t, q)
  <2>1. PICK t \in Tasks, q \in Runs : Begins(t, q)
    BY <1>5
  <2> QED BY <1>2, <2>1 DEF Ended
<1> QED BY <1>3, <1>4, <1>5, BetKinds DEF Executed, betVars, vars

\* The script keeps the shape of the chain.
LEMMA ChainStep ==
    ASSUME TypeOK, StackInv, ExcType, ChainInv, [BetNext]_betVars
    PROVE  ChainInv'
<1> USE ScriptFacts DEF TypeOK, ContextTypeOK, IsActive, CalledByScript
<1>1. ASSUME NEW t \in Tasks, NEW r \in Runs, Begins(t, r) PROVE ChainInv'
  <2>1. r # NoRun /\ pc[r] = "unused" /\ caller' = [caller EXCEPT ![r] = cur[t]]
        /\ task' = [task EXCEPT ![r] = t] /\ pc' = [pc EXCEPT ![r] = "insert"] /\ workflowId' = workflowId
    BY <1>1 DEF Begins, Enter
  <2>2. r \in Outer <=> \E i \in DOMAIN Stages : r = Stages[i]
    BY DEF Outer
  <2>3. cur[t] = IF r = Bet THEN NoRun ELSE IF r \in Outer THEN Bet ELSE Critic
    BY <1>1, <2>2 DEF Begins
  <2> QED BY <2>1, <2>3 DEF ChainInv, Active
<1>2. ASSUME NEW t \in Tasks, AgentGoes(t) PROVE ChainInv'
  <2>1. \A q \in Runs : IsActive(q)' => IsActive(q)
    BY <1>2, ChainFacts DEF AgentGoes, Frame
  <2> QED BY <1>2, <2>1 DEF ChainInv, AgentGoes, Frame
<1>3. ASSUME NEW t \in Tasks, BetGoes(t) PROVE ChainInv'
  <2>1. task[Bet] = t /\ \A q \in Runs : IsActive(q)' => IsActive(q)
    BY <1>3, ChainFacts DEF BetGoes, Frame
  <2>2. pc'[Bet] = "body" => workflowId' = [workflowId EXCEPT ![CtxOf[t]] = Bet]
    BY <1>3 DEF BetGoes, GoesFrom
  <2> QED BY <1>3, <2>1, <2>2, ContextOfTask DEF ChainInv, BetGoes, Frame
<1>4. CASE UNCHANGED <<pc, caller, task, workflowId>>
  BY <1>4 DEF ChainInv
<1> QED BY <1>1, <1>2, <1>3, <1>4, BetKinds DEF Executed, betVars, vars, stackVars, contextVars

\* It calls its stages in order.
LEMMA OrderStep ==
    ASSUME TypeOK, StackInv, ExcType, OrderInv, [BetNext]_betVars
    PROVE  OrderInv'
<1> USE ScriptFacts DEF TypeOK, ContextTypeOK
<1>1. \A r \in Runs : pc[r] = "returned" => pc'[r] = "returned"
  BY EndedStays DEF Ended
<1>2. \A i \in DOMAIN Stages : Stages[i] \in Outer
  BY DEF Outer
<1>3. ASSUME NEW i \in DOMAIN Stages, NEW j \in DOMAIN Stages, i < j, pc'[Stages[j]] # "unused"
      PROVE  pc'[Stages[i]] = "returned"
  <2>1. CASE pc[Stages[j]] # "unused"
    BY <1>1, <1>2, <1>3, <2>1 DEF OrderInv
  <2>2. ASSUME NEW t \in Tasks, Begins(t, Stages[j]) PROVE pc[Stages[i]] = "returned"
    <3>1. PICK k \in DOMAIN Stages : Stages[j] = Stages[k] /\ \A l \in 1..(k - 1) : pc[Stages[l]] = "returned"
      BY <1>2, <2>2 DEF Begins
    <3>2. k = j /\ i \in 1..(j - 1)
      BY <1>3, <3>1, ScenarioRuns
    <3> QED BY <3>1, <3>2
  <2> QED BY <1>1, <1>2, <1>3, <2>1, <2>2, EndedStays
<1>4. ASSUME pc'[Bet] \in {"closeOk", "returned"} PROVE pc'[Critic] = "returned"
  <2>1. CASE pc[Bet] \in {"closeOk", "returned"}
    BY <1>1, <2>1 DEF OrderInv
  <2>2. CASE \E t \in Tasks, r \in Runs : Begins(t, r)
    BY <1>1, <1>4, <2>1, <2>2 DEF Begins, Enter
  <2>3. CASE \E t \in Tasks : AgentGoes(t) \/ BetGoes(t)
    BY <1>1, <1>4, <2>1, <2>3 DEF AgentGoes, BetGoes, Frame, GoesFrom
  <2>4. CASE UNCHANGED pc
    BY <1>4, <2>1, <2>4
  <2> QED BY <2>2, <2>3, <2>4, BetKinds DEF Executed, betVars, vars
<1> QED BY <1>3, <1>4 DEF OrderInv

-----------------------------------------------------------------------------
(***************************************************************************)
(* Links and artifacts.                                                    *)
(***************************************************************************)

\* The script links every row and every artifact to the bet.
LEMMA LinkStep ==
    ASSUME TypeOK, StackInv, RowInv, ExcType, ChainInv, LinkInv, [BetNext]_betVars
    PROVE  LinkInv'
<1> USE ScriptFacts, StatementFields DEF TypeOK, ContextTypeOK, StoreTypeOK
<1>1. ASSUME NEW r \in AgentRuns, pc'[r] = pc[r], stmt'[r] = stmt[r], status'[r] = status[r],
             link'[r] = link[r], artifact'[r] = artifact[r]
      PROVE  LinkedToBet(r)'
  BY <1>1 DEF LinkInv, LinkedToBet
<1>2. ASSUME NEW t \in Tasks, NEW q \in Runs, Begins(t, q), NEW r \in AgentRuns PROVE LinkedToBet(r)'
  <2>1. PICK st \in {"pending", "running"}, wf \in WorkflowRuns \cup {NoRun} :
            Submit(q, Insert(st, wf)) /\ (q \in AgentRuns => wf = workflowId[CtxOf[t]])
    BY <1>2 DEF Begins
  <2>2. pc[q] = "unused" /\ pc' = [pc EXCEPT ![q] = "insert"]
    BY <1>2 DEF Begins, Enter
  <2>3. CASE r # q
    BY <1>1, <2>1, <2>2, <2>3 DEF Submit, rowVars
  <2>4. CASE r = q
    <3>1. cur[t] \in AgentRuns => IsActive(cur[t]) /\ task[cur[t]] = t
      BY ChainFacts
    <3>2. cur[t] \in Outer \/ (cur[t] = Bet /\ pc[Bet] = "body" /\ task[Bet] = t)
      <4>1. CASE cur[t] = Critic
        BY <4>1
      <4>2. CASE cur[t] = Bet
        <5>1. pc[Bet] = "body"
          BY <1>2, <4>2 DEF Begins, Enter, MayCall, At
        <5> QED BY <4>2, <5>1, ChainFacts
      <4> QED BY <1>2, <2>4, <4>1, <4>2 DEF Begins
    <3>3. workflowId[CtxOf[t]] = Bet
      BY <3>1, <3>2, BelowBet DEF ChainInv
    <3>4. status[q] = "absent"
      BY <2>2, <2>4 DEF RowInv, RunOK, RowAtPlace
    <3> QED BY <2>1, <2>2, <2>4, <3>3, <3>4 DEF LinkInv, LinkedToBet, Submit, rowVars
  <2> QED BY <2>3, <2>4
<1>3. ASSUME NEW t \in Tasks, AgentGoes(t), NEW r \in AgentRuns PROVE LinkedToBet(r)'
  <2>1. CASE r # cur[t]
    BY <1>1, <1>3, <2>1 DEF AgentGoes, Frame, rowVars
  <2>2. CASE r = cur[t]
    <3>1. IsActive(r) /\ workflowId[CtxOf[t]] = Bet /\ pc[r] # "unused"
      BY <2>2, ChainFacts, BelowBet DEF IsActive, Active
    <3>2. UNCHANGED <<status, link, artifact>> /\ LinkedToBet(r)
      BY <1>3 DEF AgentGoes, Frame, rowVars, LinkInv
    <3>3. CASE Stores(r, t)
      BY <3>1, <3>2, <3>3 DEF Stores, GoesFrom, LinkedToBet, InsertArtifact
    <3>4. CASE Succeeded(r) \/ Failed(r)
      BY <3>1, <3>2, <3>4 DEF Succeeded, Failed, GoesFrom, LinkedToBet
    <3>5. CASE Returns(r, t)
      <4>1. pc[r] = "artifact" => stmt[r].op = "artifact"
        BY DEF RowInv, RunOK, RowAtPlace
      <4> QED BY <3>1, <3>2, <3>5, <4>1 DEF Returns, GoesFrom, LinkedToBet
    <3>6. CASE StartsBody(r) \/ UsesLLM(r) \/ FallsBack(r) \/ TriesAgain(r) \/ Raises(r)
      BY <3>1, <3>2, <3>6 DEF StartsBody, UsesLLM, FallsBack, TriesAgain, Raises, GoesFrom, LinkedToBet
    <3> QED BY <1>3, <2>2, <3>3, <3>4, <3>5, <3>6 DEF AgentGoes
  <2> QED BY <2>1, <2>2
<1>4. ASSUME NEW t \in Tasks, BetGoes(t), NEW r \in AgentRuns PROVE LinkedToBet(r)'
  BY <1>1, <1>4 DEF BetGoes, Frame, rowVars
<1>5. ASSUME NEW q \in Runs, Executed(q), NEW r \in AgentRuns PROVE LinkedToBet(r)'
  <2>1. CASE r # q
    BY <1>1, <1>5, <2>1 DEF Executed, Worker, WorkerInsertsRow, InsertRow, WorkerUpdatesRow, UpdateRow,
           WorkerInsertsArtifact, InsertArtifactRow, WorkerRejects, RejectStatement, Executes
  <2>2. CASE r = q
    <3>1. stage[r] = "queued" => pc[r] # "unused"
      BY DEF RowInv, RunOK, RowAtPlace
    <3>2. LinkedToBet(r) /\ pc'[r] = pc[r]
      BY <1>5 DEF LinkInv, Executed
    <3>3. CASE WorkerInsertsRow(r)
      BY <3>1, <3>2, <3>3 DEF WorkerInsertsRow, InsertRow, Executes, LinkedToBet
    <3>4. CASE WorkerUpdatesRow(r)
      BY <3>1, <3>2, <3>4 DEF WorkerUpdatesRow, UpdateRow, Executes, LinkedToBet
    <3>5. CASE WorkerInsertsArtifact(r)
      BY <3>1, <3>2, <3>5 DEF WorkerInsertsArtifact, InsertArtifactRow, Executes, LinkedToBet
    <3>6. CASE WorkerRejects(r)
      BY <1>1, <3>2, <3>6 DEF WorkerRejects, RejectStatement
    <3> QED BY <1>5, <2>2, <3>3, <3>4, <3>5, <3>6 DEF Executed, Worker
  <2> QED BY <2>1, <2>2
<1>6. CASE UNCHANGED betVars
  BY <1>1, <1>6 DEF betVars, vars, storeVars, LinkInv
<1> QED BY <1>2, <1>3, <1>4, <1>5, <1>6, BetKinds DEF LinkInv

-----------------------------------------------------------------------------
(***************************************************************************)
(* Exceptions and judges.                                                  *)
(***************************************************************************)

\* The script keeps what is known of exceptions.
LEMMA ExcStep ==
    ASSUME TypeOK, StackInv, ExcType, ChainInv, ExcInv, [BetNext]_betVars
    PROVE  ExcInv'
<1> USE ScriptFacts DEF TypeOK, ContextTypeOK, ExcType, IsActive
<1>1. ASSUME NEW t \in Tasks, NEW q \in Runs, Begins(t, q) PROVE ExcInv'
  <2>1. pc' = [pc EXCEPT ![q] = "insert"] /\ exc' = exc /\ (q \in JudgeRuns => exc[Critic] = "none")
    <3>1. q \in Outer \/ q = Bet \/ exc[Critic] = "none"
      BY <1>1 DEF Begins, Outer
    <3> QED BY <1>1, <3>1 DEF Begins, Enter
  <2> QED BY <2>1 DEF ExcInv
<1>2. ASSUME NEW t \in Tasks, AgentGoes(t) PROVE ExcInv'
  <2>1. cur[t] \in AgentRuns /\ IsActive(cur[t]) /\ caller[cur[t]] # cur[t]
    BY <1>2, ChainFacts DEF AgentGoes
  <2>2. ASSUME NEW r \in AgentRuns, pc'[r] = "closeFail" PROVE exc'[r] # "none"
    <3>1. CASE r = cur[t]
      BY <1>2, <2>2, <3>1 DEF AgentGoes, GoesFrom, StartsBody, UsesLLM, FallsBack, TriesAgain,
             Succeeded, Failed, Stores, Returns, Raises
    <3>2. CASE r # cur[t]
      <4>1. r # caller[cur[t]]
        BY <1>2, <2>1, <2>2, <3>2, ChainFacts DEF AgentGoes, Frame
      <4> QED BY <1>2, <2>2, <3>2, <4>1 DEF AgentGoes, Frame, ExcInv
    <3> QED BY <3>1, <3>2
  <2>3. ASSUME NEW j \in JudgeRuns, IsActive(j)' PROVE exc'[Critic] = "none"
    <3>1. IsActive(j)
      BY <1>2, <2>1, <2>3 DEF AgentGoes, Frame
    <3>2. exc[Critic] = "none" /\ cur[t] # Critic
      BY <3>1, OneJudge DEF ExcInv
    <3>3. CASE caller[cur[t]] # Critic
      BY <1>2, <3>2, <3>3 DEF AgentGoes, Frame
    <3>4. CASE caller[cur[t]] = Critic
      <4>1. cur[t] = j
        BY <2>1, <3>1, <3>4, OneJudge
      <4>2. ~Raises(j)
        BY <2>3 DEF Raises, GoesFrom, Active
      <4> QED BY <1>2, <3>2, <4>1, <4>2 DEF AgentGoes, StartsBody, UsesLLM, FallsBack, TriesAgain,
                 Succeeded, Failed, Stores, Returns
    <3> QED BY <3>3, <3>4
  <2> QED BY <2>2, <2>3 DEF ExcInv
<1>3. ASSUME NEW t \in Tasks, BetGoes(t) PROVE ExcInv'
  <2>1. IsActive(Bet) /\ caller[Bet] = NoRun
    BY <1>3, ChainFacts DEF BetGoes, ChainInv
  <2> QED BY <1>3, <2>1 DEF BetGoes, Frame, ExcInv
<1>4. CASE UNCHANGED <<pc, exc>>
  BY <1>4 DEF ExcInv
<1> QED BY <1>1, <1>2, <1>3, <1>4, BetKinds DEF Executed, betVars, vars

\* Whom a step of an agent other than the Critic and the judges leaves alone.
LEMMA CriticWaits ==
    ASSUME TypeOK, StackInv, ExcType, ChainInv, NEW t \in Tasks,
           AgentGoes(t) \/ BetGoes(t), cur[t] \notin JudgeRuns \cup {Critic}
    PROVE  exc'[Critic] = exc[Critic] /\ pc'[Critic] = pc[Critic] /\ attempt'[Critic] = attempt[Critic]
           /\ \A j \in JudgeRuns : pc'[j] = pc[j]
<1> USE ScriptFacts DEF TypeOK, ContextTypeOK
<1>1. Frame(t) /\ (attempt'[Critic] = attempt[Critic])
  BY DEF AgentGoes, BetGoes, Frame
<1>2. caller[cur[t]] # Critic
  BY <1>1, OneJudge DEF Frame
<1> QED BY <1>1, <1>2 DEF Frame

\* What the Critic has reported is what the evaluation says.
LEMMA CriticStep ==
    ASSUME TypeOK, StackInv, ExcType, JudgeInv, CriticInv, [BetNext]_betVars
    PROVE  CriticInv'
<1> USE ScriptFacts DEF TypeOK, ContextTypeOK
<1>1. Reports # {} => Reports' # {} /\ rule_eval(bet).accepted
  <2>1. \A j \in JudgeRuns : pc[j] = "returned" => pc'[j] = "returned"
    BY EndedStays DEF Ended
  <2> QED BY <2>1 DEF Reports, JudgeInv, Judges
<1>2. ASSUME NEW t \in Tasks, NEW q \in Runs, Begins(t, q) PROVE CriticInv'
  BY <1>1, <1>2 DEF Begins, Enter, CriticInv
<1>3. ASSUME NEW t \in Tasks, AgentGoes(t), cur[t] = Critic PROVE CriticInv'
  <2>1. CASE Succeeded(Critic)
    BY <1>1, <1>3, <2>1 DEF AgentGoes, Frame, Succeeded, GoesFrom, CriticInv
  <2>2. CASE StartsBody(Critic) \/ UsesLLM(Critic) \/ FallsBack(Critic) \/ TriesAgain(Critic)
             \/ Failed(Critic) \/ Raises(Critic)
    BY <2>2 DEF StartsBody, UsesLLM, FallsBack, TriesAgain, Failed, Raises, GoesFrom, CriticInv
  <2>3. CASE Stores(Critic, t) \/ Returns(Critic, t)
    BY <1>1, <1>3, <2>3 DEF AgentGoes, Frame, Stores, Returns, GoesFrom, CriticInv
  <2> QED BY <1>3, <2>1, <2>2, <2>3 DEF AgentGoes
<1>4. ASSUME NEW t \in Tasks, AgentGoes(t), cur[t] # Critic PROVE CriticInv'
  <2>1. UNCHANGED report
    BY <1>4 DEF AgentGoes, StartsBody, UsesLLM, FallsBack, TriesAgain, Succeeded, Failed, Stores,
           Returns, Raises
  <2> QED BY <1>1, <1>4, <2>1 DEF AgentGoes, Frame, CriticInv
<1>5. ASSUME NEW t \in Tasks, BetGoes(t) PROVE CriticInv'
  BY <1>1, <1>5 DEF BetGoes, Frame, CriticInv
<1>6. CASE UNCHANGED <<pc, own, bet, report>>
  BY <1>1, <1>6 DEF CriticInv
<1> QED BY <1>2, <1>3, <1>4, <1>5, <1>6, BetKinds DEF Executed, betVars, vars

\* A step that begins no judge leaves their number alone, and one that does
\* finds the Critic without a report and without a judge at work.
LEMMA JudgesKept ==
    ASSUME TypeOK, StackInv, ExcType, [BetNext]_betVars,
           \A t \in Tasks, j \in JudgeRuns : ~Begins(t, j)
    PROVE  /\ Judges' = Judges
           /\ \A j \in JudgeRuns : j \in Reports' \/ IsActive(j)' => j \in Reports \/ IsActive(j)
<1> USE ScriptFacts DEF TypeOK, ContextTypeOK
<1>1. \A j \in JudgeRuns : pc[j] = "unused" => pc'[j] = "unused"
  BY EndedStays
<1>2. ASSUME NEW j \in JudgeRuns, pc[j] # "unused" PROVE pc'[j] # "unused"
  <2>1. CASE \E t \in Tasks, r \in Runs : Begins(t, r)
    BY <1>2, <2>1 DEF Begins, Enter
  <2>2. CASE \E t \in Tasks : AgentGoes(t) \/ BetGoes(t)
    BY <1>2, <2>2 DEF AgentGoes, BetGoes, Frame, GoesFrom, StartsBody, UsesLLM, FallsBack, TriesAgain,
           Succeeded, Failed, Stores, Returns, Raises
  <2> QED BY <1>2, <2>1, <2>2, BetKinds DEF Executed, betVars, vars
<1>3. ASSUME NEW j \in JudgeRuns, j \in Reports' \/ IsActive(j)' PROVE j \in Reports \/ IsActive(j)
  <2>1. pc[j] # "unused" /\ (pc[j] \in Ended => pc'[j] = pc[j])
    BY <1>1, <1>3, EndedStays DEF Reports, IsActive, Active
  <2>2. pc[j] # "crashed"
    <3>1. CASE \E t \in Tasks, r \in Runs : Begins(t, r)
      BY <1>3, <3>1 DEF Begins, Enter, Reports, IsActive, Active
    <3>2. CASE \E t \in Tasks : AgentGoes(t) \/ BetGoes(t)
      BY <1>3, <3>2, ChainFacts DEF AgentGoes, BetGoes, Frame, Reports, IsActive, Active
    <3> QED BY <1>3, <3>1, <3>2, BetKinds DEF Executed, betVars, vars, Reports, IsActive, Active
  <2> QED BY <1>3, <2>1, <2>2 DEF Reports, IsActive, Active, Ended, PC
<1> QED BY <1>1, <1>2, <1>3 DEF Judges

\* The script keeps its judges in bounds.
LEMMA JudgeStep ==
    ASSUME TypeOK, StackInv, ExcType, ChainInv, ExcInv, JudgeInv, CriticInv, [BetNext]_betVars
    PROVE  JudgeInv'
<1> USE ScriptFacts DEF TypeOK, ContextTypeOK
<1> DEFINE n == Cardinality(Judges)
<1>1. n \in Nat /\ attempt[Critic] \in Nat
  BY FS_CardinalityType DEF JudgeInv
<1>2. ASSUME NEW t \in Tasks, NEW q \in JudgeRuns, Begins(t, q) PROVE JudgeInv'
  <2>1. pc[q] = "unused" /\ pc' = [pc EXCEPT ![q] = "insert"] /\ pc[Critic] = "body"
        /\ rule_eval(bet).accepted /\ Reports = {} /\ exc[Critic] = "none" /\ cur[t] = Critic
        /\ UNCHANGED <<bet, attempt>>
    BY <1>2 DEF Begins, Enter, MayCall, At, Outer
  <2>2. MayJudge
    BY <2>1, OneJudge DEF MayJudge
  <2>3. Judges' = Judges \cup {q} /\ q \notin Judges
    BY <2>1 DEF Judges
  <2>4. IsFiniteSet(Judges') /\ Cardinality(Judges') = n + 1
    BY <2>3, FS_AddElement DEF JudgeInv
  <2>5. Reports' = {} /\ IsActive(q)'
    BY <2>1 DEF Reports, IsActive, Active
  <2>6. Cardinality(Judges') <= attempt'[Critic] + 1 /\ ~MayJudge'
    BY <1>1, <2>1, <2>2, <2>4, <2>5 DEF JudgeInv, MayJudge
  <2> QED BY <2>1, <2>4, <2>5, <2>6 DEF JudgeInv
<1>3. ASSUME \A t \in Tasks, j \in JudgeRuns : ~Begins(t, j) PROVE JudgeInv'
  <2>1. Judges' = Judges
        /\ \A j \in JudgeRuns : j \in Reports' \/ IsActive(j)' => j \in Reports \/ IsActive(j)
    BY <1>3, JudgesKept
  <2>2. \A j \in Reports' : \A k \in JudgeRuns : k \in Reports' \/ IsActive(k)' => j = k
    BY <2>1, OneJudge DEF JudgeInv, Reports
  <2>3. UNCHANGED bet
    BY BetKinds DEF Begins, AgentGoes, BetGoes, Frame, Executed, betVars
  <2>4. pc'[Critic] \in {"unused", "insert"} => pc[Critic] \in {"unused", "insert"}
    <3>1. CASE \E t \in Tasks, r \in Runs : Begins(t, r)
      BY <3>1 DEF Begins, Enter
    <3>2. CASE \E t \in Tasks : AgentGoes(t) \/ BetGoes(t)
      BY <3>2 DEF AgentGoes, BetGoes, Frame, GoesFrom, StartsBody, UsesLLM, FallsBack, TriesAgain,
             Succeeded, Failed, Stores, Returns, Raises
    <3> QED BY <3>1, <3>2, BetKinds DEF Executed, betVars, vars
  <2>5. n <= attempt'[Critic] + 1 /\ (MayJudge' => n <= attempt'[Critic])
    <3>1. CASE /\ attempt'[Critic] = attempt[Critic] /\ pc'[Critic] = pc[Critic]
               /\ exc'[Critic] = exc[Critic] /\ \A j \in JudgeRuns : pc'[j] = pc[j]
      BY <3>1 DEF JudgeInv, MayJudge, Reports, IsActive
    <3>2. ASSUME NEW t \in Tasks, NEW q \in Runs, Begins(t, q)
          PROVE  n <= attempt'[Critic] + 1 /\ (MayJudge' => n <= attempt'[Critic])
      <4>1. CASE q = Critic
        BY <1>1, <3>2, <4>1 DEF Begins, Enter, JudgeInv, MayJudge
      <4>2. CASE q # Critic
        BY <1>3, <3>1, <3>2, <4>2 DEF Begins, Enter
      <4> QED BY <4>1, <4>2
    <3>3. ASSUME NEW t \in Tasks, AgentGoes(t), cur[t] = Critic
          PROVE  n <= attempt'[Critic] + 1 /\ (MayJudge' => n <= attempt'[Critic])
      <4>1. CASE StartsBody(Critic)
        <5>1. n = 0
          BY <4>1, FS_EmptySet DEF StartsBody, GoesFrom, JudgeInv
        <5> QED BY <4>1, <5>1 DEF StartsBody
      <4>2. CASE TriesAgain(Critic)
        BY <1>1, <4>2 DEF TriesAgain, JudgeInv
      <4>3. CASE UsesLLM(Critic) \/ FallsBack(Critic) \/ Succeeded(Critic) \/ Failed(Critic)
                 \/ Stores(Critic, t) \/ Returns(Critic, t) \/ Raises(Critic)
        <5>1. attempt'[Critic] = attempt[Critic]
          BY <4>3 DEF UsesLLM, FallsBack, Succeeded, Failed, Stores, Returns, Raises
        <5>2. pc'[Critic] # "body"
          BY <4>3 DEF UsesLLM, FallsBack, Succeeded, Failed, Stores, Returns, Raises, GoesFrom, CriticInv
        <5> QED BY <1>1, <5>1, <5>2 DEF JudgeInv, MayJudge
      <4> QED BY <3>3, <4>1, <4>2, <4>3 DEF AgentGoes
    <3>4. ASSUME NEW t \in Tasks, AgentGoes(t), cur[t] \in JudgeRuns
          PROVE  n <= attempt'[Critic] + 1 /\ (MayJudge' => n <= attempt'[Critic])
      <4>1. attempt'[Critic] = attempt[Critic] /\ IsActive(cur[t]) /\ caller[cur[t]] = Critic
        BY <3>4, ChainFacts, OneJudge DEF AgentGoes, Frame
      <4>2. CASE Returns(cur[t], t)
        BY <1>1, <3>4, <4>1, <4>2 DEF Returns, GoesFrom, MayJudge, Reports, JudgeInv
      <4>3. CASE Raises(cur[t])
        <5>1. exc'[Critic] # "none"
          BY <3>4, <4>1, <4>3 DEF Raises, ExcInv
        <5> QED BY <1>1, <4>1, <5>1 DEF MayJudge, JudgeInv
      <4>4. CASE StartsBody(cur[t]) \/ UsesLLM(cur[t]) \/ FallsBack(cur[t]) \/ TriesAgain(cur[t])
                 \/ Succeeded(cur[t]) \/ Failed(cur[t]) \/ Stores(cur[t], t)
        <5>1. pc'[cur[t]] \in Active
          BY <4>4 DEF StartsBody, UsesLLM, FallsBack, TriesAgain, Succeeded, Failed, Stores,
                 GoesFrom, Active
        <5> QED BY <1>1, <3>4, <4>1, <5>1 DEF MayJudge, JudgeInv, IsActive
      <4> QED BY <3>4, <4>2, <4>3, <4>4 DEF AgentGoes
    <3>5. ASSUME NEW t \in Tasks, AgentGoes(t) \/ BetGoes(t), cur[t] \notin JudgeRuns \cup {Critic}
          PROVE  n <= attempt'[Critic] + 1 /\ (MayJudge' => n <= attempt'[Critic])
      BY <3>1, <3>5, CriticWaits
    <3>6. CASE UNCHANGED <<pc, attempt, exc>>
      BY <3>1, <3>6
    <3> QED BY <3>2, <3>3, <3>4, <3>5, <3>6, BetKinds DEF BetGoes, Executed, betVars, vars, localVars
  <2> QED BY <2>1, <2>2, <2>3, <2>4, <2>5 DEF JudgeInv
<1> QED BY <1>2, <1>3

\* A Critic that is not to return does not.
LEMMA LostStays ==
    ASSUME TypeOK, StackInv, ExcType, ChainInv, ExcInv, CriticInv, CriticIsLost, [BetNext]_betVars
    PROVE  CriticIsLost'
<1> USE ScriptFacts DEF TypeOK, ContextTypeOK
<1>1. ASSUME NEW t \in Tasks, NEW q \in Runs, Begins(t, q) PROVE CriticIsLost'
  BY <1>1 DEF Begins, Enter, CriticIsLost
<1>2. ASSUME NEW t \in Tasks, AgentGoes(t), cur[t] = Critic PROVE CriticIsLost'
  <2>1. ~IsRetryable("CancelledError") /\ "CancelledError" # "none"
    BY DEF IsRetryable
  <2> QED BY <1>2, <2>1 DEF AgentGoes, GoesFrom, StartsBody, UsesLLM, FallsBack, TriesAgain,
             Succeeded, Failed, Stores, Returns, Raises, CriticIsLost
<1>3. ASSUME NEW t \in Tasks, AgentGoes(t), cur[t] \in JudgeRuns PROVE CriticIsLost'
  <2>1. IsActive(cur[t]) /\ caller[cur[t]] = Critic /\ pc[Critic] = "body" /\ exc[Critic] = "none"
    BY <1>3, ChainFacts, OneJudge DEF ExcInv
  <2> QED BY <2>1 DEF CriticIsLost
<1>4. ASSUME NEW t \in Tasks, AgentGoes(t) \/ BetGoes(t), cur[t] \notin JudgeRuns \cup {Critic}
      PROVE  CriticIsLost'
  BY <1>4, CriticWaits DEF CriticIsLost
<1>5. CASE UNCHANGED <<pc, exc>>
  BY <1>5 DEF CriticIsLost
<1> QED BY <1>1, <1>2, <1>3, <1>4, <1>5, BetKinds DEF BetGoes, Executed, betVars, vars

\* A successful row of a judge has a judge, or a lost Critic, behind it.
SuccessOK(r) ==
    /\ r \in JudgeRuns /\ Succeeds(r) => pc[r] = "returned" \/ IsActive(r) \/ CriticIsLost
    /\ pc[r] \in {"insert", "closeFail"} => ~Succeeds(r)
    /\ pc[r] = "closeOk" /\ stage[r] = "error" => ~Succeeds(r)

\* The script keeps a lost Critic, or a judge at work, behind such a row.
LEMMA SuccessStep ==
    ASSUME TypeOK, StackInv, RowInv, ExcType, ChainInv, LinkInv, ExcInv, CriticInv, SuccessInv,
           [BetNext]_betVars
    PROVE  SuccessInv'
<1> USE ScriptFacts, StatementFields DEF TypeOK, ContextTypeOK, StoreTypeOK
<1>1. \A r \in AgentRuns : SuccessOK(r)
  BY DEF SuccessInv, SuccessOK
<1>2. CriticIsLost => CriticIsLost'
  BY LostStays
<1>3. ASSUME NEW r \in AgentRuns, pc'[r] = pc[r], stage'[r] = stage[r], stmt'[r] = stmt[r],
             status'[r] = status[r]
      PROVE  SuccessOK(r)'
  BY <1>1, <1>2, <1>3 DEF SuccessOK, Succeeds, IsActive
<1>4. ASSUME NEW t \in Tasks, NEW q \in Runs, Begins(t, q), NEW r \in AgentRuns PROVE SuccessOK(r)'
  <2>1. PICK st \in {"pending", "running"}, wf \in WorkflowRuns \cup {NoRun} : Submit(q, Insert(st, wf))
    BY <1>4 DEF Begins
  <2>2. pc[q] = "unused" /\ pc' = [pc EXCEPT ![q] = "insert"]
    BY <1>4 DEF Begins, Enter
  <2>3. CASE r # q
    BY <1>3, <2>1, <2>2, <2>3 DEF Submit, rowVars
  <2>4. CASE r = q
    <3>1. status[q] = "absent"
      BY <2>2, <2>4 DEF RowInv, RunOK, RowAtPlace
    <3> QED BY <2>1, <2>2, <2>4, <3>1 DEF SuccessOK, Succeeds, Submit, rowVars
  <2> QED BY <2>3, <2>4
<1>5. ASSUME NEW t \in Tasks, AgentGoes(t), NEW r \in AgentRuns PROVE SuccessOK(r)'
  <2>1. CASE r # cur[t]
    BY <1>3, <1>5, <2>1 DEF AgentGoes, Frame, rowVars
  <2>2. CASE r = cur[t]
    <3>1. status'[r] = status[r] /\ SuccessOK(r) /\ RowAtPlace(r)
      BY <1>1, <1>5 DEF AgentGoes, Frame, rowVars, RowInv, RunOK
    <3>2. pc[r] \in Scoped => status[r] # "succeeded" /\ stage[r] = "none"
      BY <3>1 DEF RowAtPlace, IsOpen, OpenStatus
    <3>3. CASE StartsBody(r)
      BY <3>1, <3>3 DEF StartsBody, GoesFrom, SuccessOK, Succeeds
    <3>4. CASE UsesLLM(r) \/ FallsBack(r) \/ TriesAgain(r)
      BY <3>1, <3>2, <3>4 DEF UsesLLM, FallsBack, TriesAgain, GoesFrom, SuccessOK, Succeeds, Scoped
    <3>5. CASE Succeeded(r)
      BY <3>1, <3>5 DEF Succeeded, GoesFrom, SuccessOK, IsActive, Active
    <3>6. CASE Failed(r)
      BY <3>1, <3>2, <3>6 DEF Failed, GoesFrom, SuccessOK, Succeeds, Scoped
    <3>7. CASE Stores(r, t) \/ Returns(r, t)
      BY <3>1, <3>7 DEF Stores, Returns, GoesFrom, SuccessOK, IsActive, Active
    <3>8. CASE Raises(r)
      <4>1. Succeeds(r)' => Succeeds(r)
        BY <3>1, <3>8 DEF Raises, Succeeds
      <4>2. pc'[r] = "raised"
        BY <3>8 DEF Raises, GoesFrom
      <4>3. ASSUME r \in JudgeRuns, Succeeds(r) PROVE CriticIsLost'
        <5>1. exc'[r] = "CancelledError"
          BY <3>1, <3>8, <4>3 DEF Raises, GoesFrom, SuccessOK, RowAtPlace, LinkInv, LinkedToBet
        <5>2. caller[r] = Critic /\ pc[Critic] = "body" /\ Critic # r
          BY <1>5, <2>2, <4>3, ChainFacts, OneJudge
        <5>3. exc'[Critic] = "CancelledError" /\ pc'[Critic] = "body"
          BY <1>5, <2>2, <3>8, <5>1, <5>2 DEF AgentGoes, Frame, Raises
        <5> QED BY <5>3 DEF CriticIsLost
      <4> QED BY <4>1, <4>2, <4>3 DEF SuccessOK
    <3> QED BY <1>5, <2>2, <3>3, <3>4, <3>5, <3>6, <3>7, <3>8 DEF AgentGoes
  <2> QED BY <2>1, <2>2
<1>6. ASSUME NEW t \in Tasks, BetGoes(t), NEW r \in AgentRuns PROVE SuccessOK(r)'
  BY <1>3, <1>6 DEF BetGoes, Frame, rowVars
<1>7. ASSUME NEW q \in Runs, Executed(q), NEW r \in AgentRuns PROVE SuccessOK(r)'
  <2>1. CASE r # q
    BY <1>3, <1>7, <2>1 DEF Executed, Worker, WorkerInsertsRow, InsertRow, WorkerUpdatesRow, UpdateRow,
           WorkerInsertsArtifact, InsertArtifactRow, WorkerRejects, RejectStatement, Executes
  <2>2. CASE r = q
    <3>1. SuccessOK(r) /\ RowAtPlace(r) /\ QueuedFits(r) /\ pc'[r] = pc[r]
      BY <1>1, <1>7 DEF Executed, RowInv, RunOK
    <3>2. (Succeeds(r)' => Succeeds(r)) => SuccessOK(r)' \/ (pc[r] = "closeOk" /\ stage'[r] = "error")
      BY <1>2, <3>1 DEF SuccessOK, IsActive
    <3>3. CASE WorkerInsertsRow(r)
      BY <3>1, <3>2, <3>3 DEF WorkerInsertsRow, InsertRow, Executes, QueuedFits, OpenStatus, Succeeds
    <3>4. CASE WorkerUpdatesRow(r)
      BY <3>1, <3>2, <3>4 DEF WorkerUpdatesRow, UpdateRow, Executes, Succeeds
    <3>5. CASE WorkerInsertsArtifact(r)
      BY <3>1, <3>2, <3>5 DEF WorkerInsertsArtifact, InsertArtifactRow, Executes, Succeeds
    <3>6. CASE WorkerRejects(r)
      <4>1. Succeeds(r)' => Succeeds(r)
        BY <3>6 DEF WorkerRejects, RejectStatement, Succeeds
      <4>2. pc[r] = "closeOk" => ~Succeeds(r)'
        BY <3>1, <3>6 DEF WorkerRejects, RejectStatement, Succeeds, RowAtPlace, QueuedFits, IsOpen, OpenStatus
      <4> QED BY <3>1, <3>2, <4>1, <4>2 DEF SuccessOK
    <3> QED BY <1>7, <2>2, <3>3, <3>4, <3>5, <3>6 DEF Executed, Worker
  <2> QED BY <2>1, <2>2
<1>8. ASSUME UNCHANGED betVars, NEW r \in AgentRuns PROVE SuccessOK(r)'
  BY <1>3, <1>8 DEF betVars, vars, storeVars
<1>9. (\A r \in AgentRuns : SuccessOK(r)') => SuccessInv'
  BY DEF SuccessInv, SuccessOK
<1> QED BY <1>4, <1>5, <1>6, <1>7, <1>8, <1>9, BetKinds

-----------------------------------------------------------------------------
(***************************************************************************)
(* Types, and the invariant put together.                                  *)
(***************************************************************************)
BetTypes ==
    /\ ExcType
    /\ bet \in Bets
    /\ report \in {NoReport} \cup {rule_eval(b) : b \in Bets} \cup JudgeReports

\* Whatever a request to the provider ends in is an exception that is known.
LEMMA RaisedIsKnown ==
    ASSUME NEW f \in FailuresOf(Provider)
    PROVE  Raised(Provider, f) \in Exceptions
<1>1. CASE Provider = "anthropic"
  <2>1. Raised(Provider, f) = AnthropicRaises(f) /\ f \in TransportFailures \cup {"empty", "invalid"}
    BY <1>1 DEF Raised, FailuresOf
  <2>2. "ValueError" \in Exceptions
    <3>1. MockRaises("empty") = "ValueError" /\ "empty" \in FailuresOf("mock")
      BY DEF MockRaises, FailuresOf, ContentFailures
    <3> QED BY <3>1 DEF Exceptions
  <2>3. f \in TransportFailures => f # "empty" /\ f # "invalid"
    BY DEF TransportFailures
  <2> QED BY <2>1, <2>2, <2>3 DEF AnthropicRaises, Exceptions
<1>2. CASE Provider = "openai"
  <2>1. Raised(Provider, f) = OpenAIRaises(f) /\ f \in TransportFailures \cup ContentFailures
    BY <1>2 DEF Raised, FailuresOf
  <2>2. "ValueError" \in Exceptions
    <3>1. MockRaises("empty") = "ValueError" /\ "empty" \in FailuresOf("mock")
      BY DEF MockRaises, FailuresOf, ContentFailures
    <3> QED BY <3>1 DEF Exceptions
  <2>3. f \in TransportFailures => f \notin ContentFailures
    BY DEF TransportFailures, ContentFailures
  <2> QED BY <2>1, <2>2, <2>3 DEF OpenAIRaises, Exceptions, ContentFailures
<1>3. CASE Provider = "mock"
  BY <1>3 DEF Raised, FailuresOf, Exceptions
<1> QED BY <1>1, <1>2, <1>3, ScenarioRuns

\* The script keeps the types of its variables.
LEMMA BetTypesStep == ASSUME TypeOK, BetTypes, [BetNext]_betVars PROVE BetTypes'
<1> USE ScriptFacts DEF TypeOK, ContextTypeOK, BetTypes, ExcType
<1>1. "OperationalError" \in Exceptions /\ "CancelledError" \in Exceptions
  BY DEF Exceptions
<1>2. ASSUME NEW t \in Tasks, Body(t) PROVE BetTypes'
  <2>1. CASE CriticReturns(t)
    BY <2>1 DEF CriticReturns
  <2>2. CASE UNCHANGED <<exc, bet, report>>
    BY <2>2
  <2> QED BY <1>2, <2>1, <2>2 DEF Body, RunBet, NextStage, CallJudge, BetReturns, BetRaises, Invokes,
             LLMAgentReturns, BacksOff, GivesUp
<1>3. ASSUME NEW t \in Tasks, Platform(t) \/ BackoffCancelled(t) \/ Cancelled(t) PROVE BetTypes'
  <2>1. CASE UNCHANGED <<exc, bet, report>>
    BY <2>1
  <2>2. ASSUME NEW e \in Exceptions \cup {"none"}, Sees(t, e) \/ Throws(t, e), UNCHANGED <<bet, report>>
        PROVE  BetTypes'
    BY <2>2 DEF Sees, Throws
  <2>3. CASE LLMRaises(t)
    BY <1>1, <2>2, <2>3, RaisedIsKnown DEF LLMRaises
  <2>4. CASE Ends(t)
    <3>1. exc[cur[t]] \in Exceptions \cup {"none"}
      BY <2>4 DEF Ends, AgentReraises, WorkflowEnds, At
    <3> QED BY <2>2, <2>4, <3>1 DEF Ends
  <2> QED BY <1>1, <1>3, <2>1, <2>2, <2>3, <2>4 DEF Platform, Answered, Retries, Proceeds, StoreRaises,
             BackoffCancelled, Cancelled
<1>4. CASE (\E r \in Runs : BetWorker(r)) \/ UNCHANGED betVars
  BY <1>4 DEF BetWorker, betVars
<1> QED BY <1>2, <1>3, <1>4 DEF BetNext

\* What holds of the script whatever fails or is cancelled.
BInv == TypeOK /\ StackInv /\ RowInv /\ RetryInv /\ BetTypes /\ BetInv

\* It holds initially.
LEMMA InitBInv == BetInit => BInv
<1> SUFFICES ASSUME BetInit PROVE BInv
  OBVIOUS
<1>1. TypeOK /\ StackInv /\ RowInv /\ RetryInv
  BY InitTypeOK, InitInv DEF BetInit
<1>2. BetTypes
  BY DEF BetInit, BetTypes, ExcType
<1>3. /\ pc = [r \in Runs |-> "unused"] /\ own = [r \in Runs |-> NoCall]
      /\ attempt = [r \in AgentRuns |-> 0]
      /\ stmt = [r \in Runs |-> Insert("absent", NoRun)] /\ stage = [r \in Runs |-> "none"]
      /\ status = [r \in Runs |-> "absent"] /\ artifact = [r \in Runs |-> NoRun]
  BY DEF BetInit, Init, StoreInit, ContextInit
<1>4. Judges = {} /\ Reports = {}
  BY <1>3, ScriptFacts DEF Judges, Reports
<1>5. ChainInv /\ OrderInv
  <2>1. \A i \in DOMAIN Stages : Stages[i] \in Runs
    BY ScriptFacts DEF Outer
  <2> QED BY <1>3, <2>1, ScriptFacts DEF ChainInv, OrderInv, IsActive, Active
<1>6. LinkInv /\ ExcInv /\ SuccessInv
  BY <1>3, ScriptFacts DEF LinkInv, LinkedToBet, ExcInv, SuccessInv, Succeeds, IsActive, Active, Insert
<1>7. JudgeInv /\ CriticInv
  BY <1>3, <1>4, ScriptFacts, FS_EmptySet DEF JudgeInv, CriticInv, MayJudge
<1> QED BY <1>1, <1>2, <1>5, <1>6, <1>7 DEF BInv, BetInv

\* Every step of the script keeps it.
LEMMA BInvStep == BInv /\ [BetNext]_betVars => BInv'
<1> SUFFICES ASSUME BInv, [BetNext]_betVars PROVE BInv'
  OBVIOUS
<1>1. (TypeOK /\ StackInv /\ RowInv /\ RetryInv)'
  BY BetStep, TypeOKStep, StackInvStep, RowInvStep, RetryInvStep DEF BInv
<1>2. BetTypes'
  BY BetTypesStep DEF BInv
<1>3. (ChainInv /\ OrderInv /\ LinkInv /\ ExcInv /\ JudgeInv /\ CriticInv /\ SuccessInv)'
  BY ChainStep, OrderStep, LinkStep, ExcStep, JudgeStep, CriticStep, SuccessStep DEF BInv, BetInv, BetTypes
<1> QED BY <1>1, <1>2, <1>3 DEF BInv, BetInv

\* The inductive invariant of the script, with any sharing of contexts.
LEMMA BInvHolds == BetSpec => []BInv
<1>1. BetInit => BInv
  BY InitBInv
<1>2. BInv /\ [BetNext]_betVars => BInv'
  BY BInvStep
<1> QED BY <1>1, <1>2, PTL DEF BetSpec

\* The chain, the stages, the links, the exceptions, the judges and the Critic
\* of the script stay as BetInvariant says (workflow.py, agents.py).
THEOREM BetInductive == BetSpec => []BetInv
<1>1. BInv => BetInv
  BY DEF BInv
<1> QED BY <1>1, BInvHolds, PTL

-----------------------------------------------------------------------------
(***************************************************************************)
(* What the script guarantees.                                             *)
(***************************************************************************)

\* Every variable of the scenario has its type.
THEOREM BetTypeCorrect == BetSpec => []BetTypeOK
<1>1. BInv => BetTypeOK
  BY DEF BInv, BetTypes, ExcType, BetTypeOK
<1> QED BY <1>1, BInvHolds, PTL

\* A stage has a row only if those before it have succeeded and left their
\* artifacts, whatever is cancelled or fails (agents.py, workflow.py).
THEOREM StagesAreInOrder == BetSpec => []StagesInOrder
<1> USE ScriptFacts
<1>1. ASSUME BInv, NEW i \in DOMAIN Stages, NEW j \in DOMAIN Stages, i < j, status[Stages[j]] # "absent"
      PROVE  status[Stages[i]] = "succeeded" /\ artifact[Stages[i]] = Bet
  <2>1. Stages[i] \in Outer /\ Stages[j] \in Outer
    BY DEF Outer
  <2>2. pc[Stages[i]] = "returned"
    BY <1>1, <2>1 DEF BInv, RowInv, RunOK, RowAtPlace, BetInv, OrderInv
  <2>3. status[Stages[i]] = "succeeded" /\ (stmt[Stages[i]].op = "artifact" => artifact[Stages[i]] = stmt[Stages[i]].wf)
    BY <1>1, <2>1, <2>2 DEF BInv, RowInv, RunOK, RowAtPlace
  <2>4. stmt[Stages[i]].op = "artifact" /\ stmt[Stages[i]].wf = Bet
    BY <1>1, <2>1, <2>2 DEF BInv, BetInv, LinkInv, LinkedToBet
  <2> QED BY <2>3, <2>4
<1>2. BInv => StagesInOrder
  BY <1>1 DEF StagesInOrder
<1> QED BY <1>2, BInvHolds, PTL

\* The stages and the judges are at work only while the bet is running, and
\* their artifacts belong to it, whatever is cancelled or fails and whoever uses
\* the context (agent.py:77-102, workflow.py:49-67).
THEOREM BetIsNested ==
    ASSUME "janitor" \notin Faults
    PROVE  BetSpec => []WorkStaysInItsWorkflow
<1> USE ScriptFacts
<1>1. ASSUME BInv, NEW r \in AgentRuns, IsActive(r), link[r] # NoRun PROVE status[link[r]] = "running"
  <2>1. link[r] = Bet
    BY <1>1 DEF BInv, TypeOK, StoreTypeOK
  <2>2. pc[Bet] = "body"
    BY <1>1, BelowBet DEF BInv, BetInv
  <2>3. status[Bet] = "running"
    BY <2>2, <1>1 DEF BInv, RowInv, RunOK, RowAtPlace, Scoped, IsOpen, OpenStatus
  <2> QED BY <2>1, <2>3
<1>2. ASSUME BInv, NEW r \in AgentRuns, artifact[r] # NoRun PROVE artifact[r] = link[r]
  <2>1. artifact[r] = Bet /\ status[r] = "succeeded"
    BY <1>2 DEF BInv, TypeOK, StoreTypeOK, RowInv, RunOK
  <2> QED BY <1>2, <2>1 DEF BInv, BetInv, LinkInv, LinkedToBet
<1>3. BInv => WorkStaysInItsWorkflow
  BY <1>1, <1>2 DEF WorkStaysInItsWorkflow, IsActive
<1> QED BY <1>3, BInvHolds, PTL

\* The retries of the Critic open at most one judge each, and none after a
\* report (agents.py:150-156, retry.py:122-129).
THEOREM JudgesAreBounded == BetSpec => []JudgesBounded
<1>1. ASSUME BInv PROVE JudgesBounded
  <2>1. Cardinality(Judges) \in Nat /\ attempt[Critic] \in Nat /\ MaxRetries \in Nat
    BY <1>1, FS_CardinalityType, ScriptFacts, BoundsAreNat
    DEF BInv, BetInv, JudgeInv, TypeOK, ContextTypeOK
  <2>2. Cardinality(Judges) <= MaxRetries + 1
    BY <1>1, <2>1, ScriptFacts DEF BInv, BetInv, JudgeInv, RetryInv
  <2>3. \A j, k \in Reports : j = k
    BY <1>1 DEF BInv, BetInv, JudgeInv, Reports
  <2>4. Cardinality(Reports) <= 1
    <3>1. CASE Reports = {}
      BY <3>1, FS_EmptySet
    <3>2. CASE Reports # {}
      <4>1. PICK j : Reports = {j}
        BY <2>3, <3>2
      <4> QED BY <4>1, FS_Singleton
    <3> QED BY <3>1, <3>2
  <2> QED BY <2>2, <2>4 DEF JudgesBounded, Judges
<1> QED BY <1>1, BInvHolds, PTL

\* What the Critic accepts, the rules found sound and a judge with a
\* successful row accepted (agents.py:153-156, rules.py:46-66).
THEOREM AcceptanceIsEvaluated == BetSpec => []AcceptedIsEvaluated
<1> USE ScriptFacts
<1>1. ASSUME BInv, pc[Critic] = "returned", report.accepted
      PROVE  Sound(bet) /\ report.by = "judge" /\ \E j \in Reports : status[j] = "succeeded" /\ link[j] = Bet
  <2>1. rule_eval(bet).accepted
    BY <1>1 DEF BInv, BetInv, CriticInv
  <2>2. report \in JudgeReports /\ Reports # {}
    BY <1>1, <2>1 DEF BInv, BetInv, CriticInv
  <2>3. Sound(bet)
    BY <1>1, <2>1, RulesAcceptTheSound, BetShape DEF BInv, BetTypes
  <2>4. report.by = "judge"
    BY <2>2 DEF JudgeReports, Report
  <2>5. \A j \in Reports : status[j] = "succeeded" /\ link[j] = Bet
    BY <1>1 DEF BInv, Reports, RowInv, RunOK, RowAtPlace, BetInv, LinkInv, LinkedToBet
  <2> QED BY <2>2, <2>3, <2>4, <2>5
<1>2. BInv => AcceptedIsEvaluated
  BY <1>1 DEF AcceptedIsEvaluated
<1> QED BY <1>2, BInvHolds, PTL

\* Whom the retry table names is retried to the last attempt, when the
\* provider is Anthropic (PLAN.md, retry.py:50-66).
THEOREM AnthropicIsRetried ==
    ASSUME Provider = "anthropic"
    PROVE  BetSpec => TransientIsRetried
<1>1. ASSUME NEW f \in PlannedRetries PROVE IsRetryable(Raised(Provider, f))
  BY <1>1 DEF PlannedRetries, Raised, AnthropicRaises, AnthropicError, IsRetryable
<1>2. ASSUME BInv, NEW t \in Tasks, GivesUp(t), NEW f \in PlannedRetries, exc[cur[t]] = Raised(Provider, f)
      PROVE  attempt[cur[t]] = MaxRetries
  BY <1>1, <1>2, BoundsAreNat DEF BInv, RetryInv, TypeOK, ContextTypeOK, GivesUp, At, RetriesLeft
<1>3. BInv /\ [BetNext]_betVars =>
        [\A t \in Tasks : GivesUp(t) /\ (\E f \in PlannedRetries : exc[cur[t]] = Raised(Provider, f))
                          => attempt[cur[t]] = MaxRetries]_betVars
  BY <1>2
<1> QED BY <1>3, BInvHolds, PTL DEF BetSpec, TransientIsRetried

\* An attempt that is tried again has completed no LLM call: an agent of the
\* script that has its answer returns it.
CleanInv ==
    \A r \in AgentRuns :
        /\ pc[r] = "body" => exc[r] = "none" \/ own[r] = NoCall
        /\ pc[r] = "llm" => exc[r] = "none"
        /\ pc[r] = "backoff" => own[r] = NoCall

\* Every step of the script on private contexts keeps it.
LEMMA CleanStep ==
    ASSUME BInv, IInv, CleanInv, [BetNext]_betVars
    PROVE  CleanInv'
<1> USE ScriptFacts DEF TypeOK, ContextTypeOK
<1>1. TypeOK /\ StackInv /\ ExcType /\ ChainInv /\ own[Critic] = NoCall
  BY DEF BInv, BetInv, BetTypes, CriticInv
<1>2. ASSUME NEW t \in Tasks, NEW q \in Runs, Begins(t, q) PROVE CleanInv'
  BY <1>1, <1>2 DEF Begins, Enter, CleanInv
<1>3. ASSUME NEW t \in Tasks, AgentGoes(t), NEW r \in AgentRuns
      PROVE  /\ pc'[r] = "body" => exc'[r] = "none" \/ own'[r] = NoCall
             /\ pc'[r] = "llm" => exc'[r] = "none"
             /\ pc'[r] = "backoff" => own'[r] = NoCall
  <2>1. cur[t] \in AgentRuns /\ IsActive(cur[t]) /\ caller[cur[t]] # cur[t]
    BY <1>1, <1>3, ChainFacts DEF AgentGoes
  <2>2. CASE r = cur[t] /\ UsesLLM(r)
    <3>1. pc[r] = "llm" => own[r] = NoCall
      BY DEF IInv, ScopeInv
    <3> QED BY <2>2, <3>1 DEF UsesLLM, GoesFrom, CleanInv
  <2>3. CASE r = cur[t] /\ ~UsesLLM(r)
    BY <1>3, <2>3 DEF AgentGoes, GoesFrom, StartsBody, FallsBack, TriesAgain, Succeeded, Failed,
           Stores, Returns, Raises, IsRetryable, CleanInv
  <2>4. CASE r # cur[t] /\ r = caller[cur[t]]
    <3>1. r = Critic /\ pc[r] = "body"
      BY <1>1, <2>1, <2>4, ChainFacts DEF ChainInv, CalledByScript
    <3> QED BY <1>1, <1>3, <2>4, <3>1 DEF AgentGoes, Frame
  <2>5. CASE r # cur[t] /\ r # caller[cur[t]]
    BY <1>3, <2>5 DEF AgentGoes, Frame, CleanInv
  <2> QED BY <2>2, <2>3, <2>4, <2>5
<1>4. ASSUME NEW t \in Tasks, BetGoes(t) PROVE CleanInv'
  <2>1. caller[Bet] = NoRun
    BY <1>1, <1>4, ChainFacts DEF BetGoes, ChainInv
  <2> QED BY <1>4, <2>1 DEF BetGoes, Frame, CleanInv
<1>5. CASE UNCHANGED <<pc, own, exc>>
  BY <1>5 DEF CleanInv
<1> QED BY <1>1, <1>2, <1>3, <1>4, <1>5, BetKinds DEF CleanInv, Executed, betVars, vars

\* A retry of an agent of the bet finds no metadata on its context, so that the
\* guard lets it call the LLM again (agents.py, retry.py:108-131, context.py:83).
THEOREM BetRetriesClean ==
    ASSUME PrivateContexts
    PROVE  BetSpec => RetriesStartClean
<1>1. BetSpec => []IInv
  BY BetImplementsRuntime, Inductive, PTL DEF ImplementsRuntime
<1>2. BetInit => CleanInv
  BY ScriptFacts DEF BetInit, Init, ContextInit, CleanInv
<1>3. BInv /\ IInv /\ CleanInv /\ [BetNext]_betVars => CleanInv'
  BY CleanStep
<1>4. ASSUME IInv, CleanInv, NEW t \in Tasks, Retry(t) PROVE lastCall[Ctx(t)] = NoCall
  <2>1. cur[t] \in AgentRuns /\ pc[cur[t]] = "backoff" /\ cur[t] # NoRun
    BY <1>4, ScriptFacts DEF Retry, At
  <2> QED BY <1>4, <2>1 DEF IInv, ScopeInv, InForce, Scoped, CleanInv, Ctx
<1>5. IInv /\ CleanInv => [\A t \in Tasks : Retry(t) => lastCall[Ctx(t)] = NoCall]_vars
  BY <1>4
<1> QED BY <1>1, <1>2, <1>3, <1>5, BInvHolds, PTL DEF BetSpec, RetriesStartClean

\* What a bet that returned has left in the tables, when every task has a
\* context of its own (agents.py, workflow.py).
THEOREM BetIsOnRecord == ASSUME PrivateContexts PROVE BetSpec => []BetIsRecorded
<1> USE ScriptFacts
<1>1. ASSUME BInv, IInv, NEW r \in AgentRuns, status[r] = "succeeded"
      PROVE  link[r] = Bet /\ charge[r] = IF r = Critic THEN NoCall ELSE <<r, 1>>
  <2>1. charge[r] = own[r] /\ (own[r] = NoCall => r = Critic) /\ own[r] \in {NoCall, <<r, 1>>}
    BY <1>1 DEF IInv, ChargeInv, ChargeOK, ScopeInv
  <2>2. own[Critic] = NoCall /\ link[r] = Bet
    BY <1>1 DEF BInv, BetInv, CriticInv, LinkInv, LinkedToBet
  <2> QED BY <2>1, <2>2
<1>2. ASSUME BInv, NEW r \in AgentRuns, pc[r] = "returned"
      PROVE  /\ status[r] = "succeeded"
             /\ r \in Outer => artifact[r] = Bet
             /\ r \in JudgeRuns => artifact[r] = NoRun
  <2>1. status[r] = "succeeded" /\ (stmt[r].op = "artifact" => artifact[r] = stmt[r].wf)
    BY <1>2 DEF BInv, RowInv, RunOK, RowAtPlace
  <2> QED BY <1>2, <2>1 DEF BInv, BetInv, LinkInv, LinkedToBet
<1>3. ASSUME BInv, pc[Bet] = "returned" PROVE \A r \in Outer : pc[r] = "returned"
  <2>1. pc[Critic] = "returned"
    BY <1>3 DEF BInv, BetInv, OrderInv
  <2>2. ASSUME NEW i \in DOMAIN Stages PROVE pc[Stages[i]] = "returned"
    <3>1. Len(Stages) \in DOMAIN Stages /\ (i = Len(Stages) \/ i < Len(Stages))
      BY ScenarioRuns
    <3> QED BY <1>3, <2>1, <3>1 DEF BInv, BetInv, OrderInv, Critic
  <2> QED BY <2>2 DEF Outer
<1>4. ASSUME BInv, pc[Critic] = "returned" PROVE {j \in JudgeRuns : status[j] = "succeeded"} = Reports
  <2>1. ASSUME NEW j \in JudgeRuns, status[j] = "succeeded" PROVE j \in Reports
    <3>1. ~IsActive(j) /\ ~CriticIsLost
      BY <1>4, OneJudge DEF BInv, BetInv, IsActive, Active, CriticIsLost
    <3> QED BY <1>4, <2>1, <3>1 DEF BInv, BetInv, SuccessInv, Succeeds, Reports
  <2> QED BY <1>2, <1>4, <2>1 DEF Reports
<1>5. ASSUME BInv, pc[Critic] = "returned" PROVE Cardinality(Reports) = IF Sound(bet) THEN 1 ELSE 0
  <2>1. rule_eval(bet).accepted <=> Sound(bet)
    BY <1>5, RulesAcceptTheSound, BetShape DEF BInv, BetTypes
  <2>2. CASE rule_eval(bet).accepted
    <3>1. PICK j : j \in Reports
      BY <1>5, <2>2 DEF BInv, BetInv, CriticInv
    <3>2. Reports = {j}
      BY <1>5, <3>1 DEF BInv, BetInv, JudgeInv, Reports
    <3> QED BY <2>1, <2>2, <3>2, FS_Singleton
  <2>3. CASE ~rule_eval(bet).accepted
    <3>1. Reports = {}
      BY <1>5, <2>3 DEF BInv, BetInv, JudgeInv, Judges, Reports
    <3> QED BY <2>1, <2>3, <3>1, FS_EmptySet
  <2> QED BY <2>2, <2>3
<1>6. ASSUME BInv, IInv, pc[Bet] = "returned" PROVE BetIsRecorded
  <2>1. status[Bet] = "succeeded"
    BY <1>6 DEF BInv, RowInv, RunOK, RowAtPlace
  <2>2. \A r \in Outer :
            /\ status[r] = "succeeded" /\ link[r] = Bet /\ artifact[r] = Bet
            /\ charge[r] = IF r = Critic THEN NoCall ELSE <<r, 1>>
    BY <1>1, <1>2, <1>3, <1>6
  <2>3. {j \in JudgeRuns : status[j] = "succeeded"} = Reports
        /\ Cardinality(Reports) = IF Sound(bet) THEN 1 ELSE 0
    BY <1>3, <1>4, <1>5, <1>6
  <2>4. \A j \in Reports : link[j] = Bet /\ charge[j] = <<j, 1>> /\ artifact[j] = NoRun
    BY <1>1, <1>2, <1>6 DEF Reports
  <2> QED BY <2>1, <2>2, <2>3, <2>4 DEF BetIsRecorded
<1>7. BInv /\ IInv => BetIsRecorded
  BY <1>6 DEF BetIsRecorded
<1>8. BetSpec => []IInv
  BY BetImplementsRuntime, Inductive, PTL DEF ImplementsRuntime
<1> QED BY <1>7, <1>8, BInvHolds, PTL
=============================================================================
