---------------------------- MODULE BetInvariant ----------------------------
(***************************************************************************)
(* The inductive invariant of the scenario's own script, on top of the     *)
(* parts of RuntimeInvariant that hold of every program.                   *)
(***************************************************************************)
EXTENDS LeverageBet, RuntimeInvariant

(***************************************************************************)
(* The shape of the await chain: the workflow, an agent of it, and below   *)
(* the Critic a judge, one at a time.                                      *)
(***************************************************************************)
CalledByScript(r) == caller[r] = IF r \in Outer THEN Bet ELSE Critic

ChainInv ==
    /\ IsActive(Bet) => caller[Bet] = NoRun
    /\ \A r \in AgentRuns : IsActive(r) => CalledByScript(r)
    /\ pc[Bet] = "body" => workflowId[CtxOf[task[Bet]]] = Bet

\* A stage that was called has those before it behind it, and a bet that
\* returns has the Critic behind it.
OrderInv ==
    /\ \A i, j \in DOMAIN Stages :
          i < j /\ pc[Stages[j]] # "unused" => pc[Stages[i]] = "returned"
    /\ pc[Bet] \in {"closeOk", "returned"} => pc[Critic] = "returned"

(***************************************************************************)
(* Every row is linked to the bet, and so is every artifact, of which the  *)
(* judges make none.                                                       *)
(***************************************************************************)
LinkedToBet(r) ==
    /\ pc[r] # "unused" /\ stmt[r].op \in {"insert", "artifact"} => stmt[r].wf = Bet
    /\ status[r] # "absent" => link[r] = Bet
    /\ r \in Outer /\ pc[r] = "returned" => stmt[r].op = "artifact"
    /\ r \in JudgeRuns => stmt[r].op # "artifact" /\ artifact[r] = NoRun

LinkInv == \A r \in AgentRuns : LinkedToBet(r)

(***************************************************************************)
(* Exceptions: what ends a call on the way out is not lost, and a body     *)
(* that waits has none.                                                    *)
(***************************************************************************)
ExcInv ==
    /\ \A r \in AgentRuns : pc[r] = "closeFail" => exc[r] # "none"
    /\ \A j \in JudgeRuns : IsActive(j) => exc[Critic] = "none"

(***************************************************************************)
(* The judges.  An attempt of the Critic may call one, unless it has       *)
(* called it already, caught an exception or got a report.                 *)
(***************************************************************************)
Judges == {j \in JudgeRuns : pc[j] # "unused"}

MayJudge ==
    /\ pc[Critic] = "body" /\ exc[Critic] = "none"
    /\ Reports = {}
    /\ \A j \in JudgeRuns : ~IsActive(j)

JudgeInv ==
    /\ Judges # {} => rule_eval(bet).accepted
    /\ pc[Critic] \in {"unused", "insert"} => Judges = {}
    /\ IsFiniteSet(Judges)
    /\ Cardinality(Judges) <= attempt[Critic] + 1
    /\ MayJudge => Cardinality(Judges) <= attempt[Critic]
    /\ \A j \in Reports : \A k \in JudgeRuns : k \in Reports \/ IsActive(k) => j = k

\* The Critic makes no LLM call, and its report is that of the rules if they
\* reject the bet and of a judge that returned if they do not.
CriticInv ==
    /\ own[Critic] = NoCall /\ pc[Critic] # "llm"
    /\ pc[Critic] \in {"closeOk", "artifact", "returned"} =>
          IF rule_eval(bet).accepted
          THEN report \in JudgeReports /\ Reports # {}
          ELSE report = rule_eval(bet)

(***************************************************************************)
(* A judge whose row has succeeded, or will, has returned or is about to,  *)
(* or was cancelled, in which case the Critic does not return.             *)
(***************************************************************************)
Succeeds(r) ==
    \/ status[r] = "succeeded"
    \/ stage[r] = "queued" /\ stmt[r].op = "update" /\ stmt[r].status = "succeeded"

CriticIsLost ==
    \/ pc[Critic] \in {"closeFail", "raised"}
    \/ pc[Critic] = "body" /\ exc[Critic] = "CancelledError"

SuccessInv ==
    /\ \A j \in JudgeRuns :
          Succeeds(j) => pc[j] = "returned" \/ IsActive(j) \/ CriticIsLost
    /\ \A r \in AgentRuns :
          /\ pc[r] \in {"insert", "closeFail"} => ~Succeeds(r)
          /\ pc[r] = "closeOk" /\ stage[r] = "error" => ~Succeeds(r)

BetInv ==
    /\ ChainInv /\ OrderInv /\ LinkInv
    /\ ExcInv /\ JudgeInv /\ CriticInv /\ SuccessInv
=============================================================================
