# A verification of leverage-platform

leverage-platform runs LLM agents and keeps an audit trail of them: one row per
agent call, one per workflow, one per artifact, and a cost ledger derived from
those rows. What can go wrong is rarely in one function. It is in the awaits
between opening a row, running product code, and closing the row: cancellations,
retries, nested calls, worker threads, crashes and concurrent processes fall
into them. This directory models those parts in TLA+, checks them with TLC and
proves the central properties with TLAPS.

`PROJECT.json` lists the components, the runs, the source lines every definition
stands for, the hazards, the disagreements found and the theorems.

Contents: 1 Inventory, 2 Modules, 3 How the model reads the code, 4 Runs and
bounds, 5 Fairness, 6 Proofs, 7 Disagreements between code and documents,
8 Not modelled, 9 Plan.

## 1. Inventory

Paths are below `src/leverage_platform/` unless they begin with `proof/`.

| Component | State | Operations | Correct when |
| --- | --- | --- | --- |
| `@agent` wrapper, `runtime/agent.py` | locals of a call: saved metadata, run id | open row, run body with retries, restore metadata, close row, write artifact | a call that returned is on record; a row charges its own call; the caller's metadata survive |
| `AgentContext`, `runtime/context.py` | `last_llm_call`, `workflow_run_id` | `invoke_llm` | a body sees its own call, or none |
| Retry policy, `runtime/retry.py` | attempt number | `with_retry`, `is_retryable` | transient failures are retried, a bounded number of times |
| `run_workflow`, `runtime/workflow.py` | prior workflow id | open row, run body, close row, restore id | the context names the workflow at work |
| Audit store, `storage/sqlite.py` | tables `agent_run`, `workflow_run`, `artifact`; statements handed to threads | inserts, updates, reads | references resolve; rows live one way |
| Migrations, `storage/migrations.py`, `storage/sqlite.py` | `_migrations`, the schema | apply at open | a store that opened has the whole schema |
| Providers, `llm/` | none | `generate_structured`, `generate_text` | failures are told apart as the retry table needs |
| Pricing, `llm/openai.py`, `llm/anthropic.py` | price tables | `_cost_usd` | a model has its own price |
| Cost ledger, `storage/sqlite.py`, `observability/cost.py`, `cli.py` | none of its own | `parse_since`, `query_cost`, rendering | a report counts each due row once |
| 30-Day Leverage Bet, `proof/thirty_day_leverage_bet/` | none of its own | a workflow of five agents and a judge | all five rows and artifacts, in order |
| Evaluation, `eval/` | none | `rule_eval`, `llm_judge` | the judge fires only after the rules; nothing is accepted without both |
| Hashing, schemas, `_hashing.py`, `schemas/` | none | pure data | conversion is deterministic |

How they interact. A product calls `run_workflow` or an agent with a context.
The wrapper awaits the store (every statement runs in a worker thread), calls
the body through `with_retry`, and the body calls `ctx.invoke_llm` or further
agents and workflows *with the same context*. The context is the only shared
mutable state in the process, the database the only one between processes. The
cost command is a second process that opens the same file, which also applies
the migrations.

What is hard: nested save and restore on one mutable context; a retry that
starts from what the failed attempt left; exceptions (and `CancelledError`) that
can come out of each of the four store awaits of the wrapper, of which none is
in a handler; a statement that outlives the caller that queued it; two
statements where one transaction is meant (row and artifact, script and
ledger); retries inside retries; text comparison of timestamps.

## 2. Modules

    AuditStore           rows, statements, worker threads
      AgentContext       contexts, await chains, invoke_llm
        AgentCall        the @agent wrapper with with_retry
        WorkflowCall     run_workflow
          Runtime        composition, faults, properties         MCRuntime
            RuntimeInvariant   the inductive invariants
              RuntimeProofs    theorems
                NestingProofs  theorems on the workflow a call belongs to
            LeverageBet  the scenario                            MCLeverageBet
              LeverageBetProofs
                BetInvariant   the invariant of its script (also over RuntimeInvariant)
                  BetProofs    theorems
    AuditTrail           abstract: what the tables promise
    LedgerRows           abstract: what the cost ledger needs of them
    Providers            exceptions of the providers, is_retryable
    Evaluation           rule_eval, the rules of the scenario
    Migrations           openers of one file                     MCMigrations
      MigrationsProofs
    SchemaUpgrade        abstract: what the migrations promise
    Timestamps           stamps, their ISO text, parse_since
      CostLedger         query_cost against writers              MCCostLedger
        CostLedgerProofs
      TimestampsProofs
    Sums                 lemmas on sums over finite sets
    Pricing              the price tables, used by CostLedger

Each indented module EXTENDS the one above it; `LeverageBet` also EXTENDS
`Providers` and `Evaluation`, and `CostLedgerProofs` `TimestampsProofs` and `Sums`. Four
refinements are stated:

| Detailed | Abstract | Mapping | Property |
| --- | --- | --- | --- |
| `Runtime` | `AuditTrail` | the four tables as they are | `ImplementsTrail` |
| `Runtime` | `LedgerRows` | rows that are present, are closed, charge a call | `FeedsLedger` |
| `LeverageBet` | `Runtime` | identity: the same runtime with given bodies | `ImplementsRuntime` |
| `Migrations` | `SchemaUpgrade` | versions recorded *and* complete; openers with a store | `ImplementsUpgrade` |

`LedgerRows` is where two components meet that share nothing but a table.
`CostLedger` writes its rows with three small actions in place of the whole
runtime: a run is stamped (`Call`), its row inserted (`InsertRun`) and closed
(`CloseRun`). The last two *are* the actions `Open` and `Close` of `LedgerRows`,
with a price added, so that the writer of `CostLedger` may do whatever
`LedgerRows` allows, with any delay between the steps. `FeedsLedger` shows the
other half: whatever the runtime does to a row, under any fault, is allowed by
`LedgerRows`. Together they say that `CostLedger` does not assume a better writer
than the platform has; the half that holds by construction is not listed as a
property.

| Module | State | Actions and the code they stand for |
| --- | --- | --- |
| `AuditStore` | `status`, `link`, `charge`, `artifact` (the tables), `stage`, `stmt` (threads) | `Submit` and `Consume`: both ends of `await asyncio.to_thread`. `InsertRow`, `UpdateRow`, `InsertArtifactRow`, `RejectStatement`: the thread |
| `AgentContext` | `lastCall`, `workflowId` per context; `cur`, `caller`, `depth`, `task`, `pc` | `InvokeLLM`, `LLMAnswers`, `LLMFails`; `Enter` and `Leave` move along an await chain |
| `AgentCall` | `savedCall`, `attempt` | from `CallAgent` (agent.py:77-102) to `AgentReturns` (184-199), one action per stretch between two awaits |
| `WorkflowCall` | `priorWorkflow` | `CallWorkflow` ... `WorkflowEnds` (workflow.py:37-70) |
| `Runtime` | | the workers, `Crash`, `JanitorAborts`, `Cancel` |
| `LeverageBet` | `exc`, `bet`, `report` | the bodies of agents.py and workflow.py in `proof/`; each action is one of `Runtime` with the condition the script puts on it |
| `Evaluation` | | operators only: `Checks` (the eight rules), `rule_eval`, the reports of the judge |
| `Migrations` | `file`, `ledger`, `recorded`, `created`; `applied`, `version`, `step` per opener | `LookForFile` (the cost command), `Connect`, then the statements of `_apply_migrations_sync`, one action each; `LockTimeout`, `Crash` |
| `CostLedger` | `started`, `stored`, `closed`, `cost`, `query`, `report` | the writers; `Ask` (the command line), `Select` (the statement), `EndPeriod` (`until or datetime.now(UTC)`). Grouping (`Entries`) and table (`Columns`, `Label`, `TableRow`, `TotalRow`) are operators on the answer; a row is closed with `CostUSD` of `Pricing` |

A definition whose name ends in a `_Suffix` and whose comment begins with
"Defect:" is not part of the model. It is a plausible bug in the definition that
follows it; `PROJECT.json` says which property detects it.

## 3. How the model reads the code

**Awaits.** asyncio switches tasks only at an await, so an action is the code
from one await to the next. A statement of the store has three moments: it is
queued, a thread executes or rejects it, the caller resumes. Cancelling the
caller withdraws a statement no thread has started and does not stop one that a
thread runs; `AgentStoreCancelled` and `WorkflowStoreCancelled` have both
outcomes.

**Bodies are arbitrary.** `Runtime` says nothing of product code: a body may
call agents and workflows, catch what they raise, invoke the LLM, return, raise
something retryable or not, or return a value the schema rejects, at any time.
A property of `Runtime` therefore holds of every product. One habit is excluded:
calling `ctx.invoke_llm` directly from a workflow body, outside every `@agent`,
which no document allows and no row could record. `LeverageBet` gives the bodies
of the scenario, where the exception in flight (`exc`) decides about retries.

**The guard.** A second `invoke_llm` in one scope raises `RuntimeError` into the
body and changes nothing. As the body may raise anyway, the refusal is not an
action; the guard is the condition `lastCall = NoCall` of `InvokeLLM`.

**Data.** An LLM call is the pair of its run and its number in that run, and
stands for cost, tokens, prompt, input and output hashes, model and latency,
which are set together. `charge[r] = <<r, 1>>` reads "the row of r carries the
cost and hashes of the first call of r". Tenants, names, times and error texts
are in no property of `Runtime` and not in it; `CostLedger` has them.

**Texts that rules read.** Every rule strips a text first, so a text in
`Evaluation` is what `strip()` leaves. The bet is chosen in the initial state:
the designer returns it when it returns one, whichever of its attempts that is.

**Ghosts.** `billed` (`CostLedger`) is a history variable, the response a row
was closed with. `own` is another, the call last completed in the scope of
a run; it is never read by the program's own decisions, except that `InvokeLLM`
bounds the number of calls through it (`MaxCalls`). `caller`, `depth` and `task`
describe the await chain that Python keeps in its coroutine frames.

**Run ids.** `uuid4` is a fresh element of `AgentRuns` or `WorkflowRuns`. A
behaviour stops when the ids are used up, so every cfg of `Runtime` and
`LeverageBet` sets `CHECK_DEADLOCK FALSE`; the same holds of openers
(`Migrations`) and of the bounded clock and runs (`CostLedger`). That nothing
gets stuck before it is done is what the liveness properties are for.

**Faults** are switched on per run by the constant `Faults`: `cancel`
(`task.cancel()` at an await of the platform), `store` (a statement raises),
`crash` (the process dies, its threads and contexts with it, the tables stay),
`janitor` (ADR-005's product-side janitor). `Migrations` has `crash` and `lock`,
a statement that waits for the write lock longer than sqlite3's five seconds.

**External parts.** The janitor, crashes, the event loop and the exceptions of
the openai SDK are modelled from how the code uses them and marked so in the
map. The anthropic classes are the five that retry.py imports; a status code the
SDK maps to some other class is outside the model, and the same code would not
retry it.

**Stores.** `Migrations` treats each CREATE as one transaction, which is what
`isolation_level=None` and `executescript` make of it. "Exists" needs only the
number of created objects, because all openers create them in one order. An
opener is a platform or a cost command: the command looks for the file before it
opens it, and from there on both run the same code.

**The cost command** reads in two steps, the rows and then the clock, and both
may be far apart from the parsing of its arguments. Money is an integer, in
units of 10^-8 dollar, the smallest decimal of the price tables; what the table
shows is rounded half to even to 10^-6, as Python formats a Decimal.

## 4. Runs and bounds

Passing runs:

| Run | Instance | What it shows |
| --- | --- | --- |
| `runtime` | a pure agent, an artifact agent, a workflow; one task; 1 retry; 2 calls; cancel, store, crash, janitor | `MetadataScoped`, `ChargesAreReal`, `ReturnedIsRecorded`, `NoDanglingStatement`, that the tables implement `AuditTrail` and `LedgerRows`, and the inductive invariant `IInv` of the proofs |
| `tasks` | two tasks with a context each; two agents, two workflows; no retry; 2 calls; every statement may fail but the one that closes a workflow (`AnsweredSpec`) | `MetadataScoped`, `ChargesAreReal`, `WorkflowIdRestored`, `WorkStaysInItsWorkflow` under interleaving, and their invariant `NestingInv`. Tasks are symmetric: each has its own context, and nothing else tells them apart |
| `liveness` | as `runtime`, with store failures only, fair | `EveryCallEnds` |
| `bet` | three stages (profiler, designer, Critic), three judges, anthropic, 1 retry; a sound bet and two that the rules reject; cancel, store; fair | the invariant `BetInv` of the proofs, `BetIsRecorded`, `AcceptedIsEvaluated`, `StagesInOrder`, `JudgesBounded`, `TransientIsRetried`, `RetriesStartClean`, `ImplementsRuntime`, `BetEnds` |
| `openers` | three platforms and a cost command, two migrations of 3 and 2 statements; crash, lock; fair | `SchemaComplete`, `RecordsOnce`, `MInv`, `RaisesBehindAnother`, `ImplementsUpgrade`, `SomeoneOpens` |
| `cost` | three runs of two tenants, each with a model of its own, two of them by different agents, named `""` and with a dash, and one of these in a workflow; a clock of two seconds in half-second steps; a window in UTC with and without an end | `ReportIsExact`, `TableIsFaithful`, `ReportOnlyGrows`, `SettledIsFinal`, `AdjoiningWindows`, `CountedWithinPeriod`, `MissesOnlyLateRows`, `ListedModelHasItsPrice` |

Why the bounds suffice. Two agents and a workflow give every shape of nesting of
depth three in each order of the two kinds, and agents in sequence; with the
second workflow of `tasks`, workflows nest in each other. One retry distinguishes
the first and the last attempt (`attempt = 0 < MaxRetries`,
`attempt = MaxRetries`); the default of 2 adds one in between, which is like the
first. `tasks` has none: a retry stays in the scope and the workflow of its call,
and `runtime` and `bet` retry. `MaxCalls = 2` lets a run complete a second call, so that the guard, and
not the bound, is what keeps `own` at one. Three judges are one more than one
retry of the Critic can call, so `JudgesBounded` is not met by running out of
ids. The scenario has five stages; the two that the instance leaves out are LLM
agents between the first and the last, which the model tells from their
neighbours by position only, and all of its safety properties are proved for any
number of stages. Three platforms let a second race begin while a first is lost; the
second migration makes `version` and `step` move on; the cost command, the
fourth opener, may come before the file, between any two statements, or after
all. `Openers` are not symmetric in that run, for its liveness property. Half seconds produce the
two forms of ISO text, with a fraction and without. The three models of `cost`
are an alias that begins with another alias, a dated model that is cheaper than
the alias it begins with, and a model of the other provider. The two runs of one
tenant cost 3.5 and 1.5 millionths of a dollar, so that a TOTAL of rounded rows
and the rounded TOTAL differ; one of them has no workflow, so that a column may
or may not be needed, and their agents have two names that the table shows alike. The lower bound is a duration that ends in whatever half
second the clock shows, the upper one a whole second or none. `AdjoiningWindows`
cuts the window at every moment of the clock. One of the rejected bets differs
from a sound one in the number of weeks only. What holds for every value of the
constants is in section 6.

Violation runs show the disagreements of section 7, each on the smallest
instance that has it.

## 5. Fairness

`Runtime.FairSpec`: weak fairness of the resumption of each task (asyncio runs
every ready callback) and of each worker (the thread pool drains its queue, and
SQLite executes or raises). The provider answers or fails: both SDK clients have
a request timeout, so `LLMAnswers` or `LLMFails` is part of the resumption. For
bodies, strong fairness of `BodyEnds`: product code is assumed to end each
attempt somehow, although it may call the platform first, which disables and
enables that action again. This is an assumption about products, not about the
platform; what is left for the platform to do is to bound retries, to queue what
it awaits and to resume. `BetFairSpec` needs weak fairness only: the body of the
scenario is known, and always goes on. `Migrations.FairSpec`: weak fairness of
each opener: a statement is executed, or raises after five seconds at the latest,
and nothing else in `__init__` waits. Cancellations, crashes, lock timeouts and
the janitor are never fair; `SomeoneOpens` therefore leaves out the behaviours in
which an opener dies or is locked out.

## 6. Proofs

All proofs are complete and use the backends SMT, Zenon and LS4. They hold for
any sets of runs, tasks, contexts, openers, rows and faults, any retry limit, any
number of stages and judges, any scripts and any prices, given the named
assumptions on the constants, which TLC evaluates on every instance:
`RunIdsDistinct`, `FaultKinds`, `ContextOfTask`, `BoundsAreNat`,
`DecoratorArguments` (runtime), `ScenarioRuns`, `BetShape` (scenario), `Scripts`,
`OpenFaults` (migrations), `LedgerColumns`, `NoneIsNoTime` (cost ledger). What
else a theorem needs is a hypothesis of its own:

- `PrivateContexts`: no two tasks use one context. It is necessary: with `CtxOf`
  mapping two tasks to one context, TLC finds a call charged to two rows.
- `ClosingAnswers`: the await of the update that closes a workflow neither raises
  nor is cancelled. It restricts behaviours, not constants: `AnsweredSpec` is
  `Spec` without the steps in which that one await fails, while every other await
  of the store, every backoff and every LLM call may still be cancelled or raise.
  It is necessary: `run_workflow` puts the workflow id back only after this
  update has come back. `StoreAnswers`, that `Faults` has neither `store` nor
  `cancel`, is the special case in which it always holds (`ClosingsComeBack`).
  What holds without it is `ReturnedIsOver`.
- `UTCArguments`: `--since` and `--until` are durations or datetimes without an
  offset. It is necessary: see the run `zones`.
- `PlainVariants`: an openai model that the table lacks is a variant of an alias of
  one part, as gpt-4o with a date is. It is necessary: see the run `dated_price`.

| Theorem | Statement | Needs |
| --- | --- | --- |
| `TypeCorrect` | `Spec => []TypeOK` | |
| `RowsInvariant` | `Spec => [](StackInv /\ RowInv /\ RetryInv)` | |
| `NoDangling` | `Spec => []NoDanglingStatement` | |
| `Inductive` | `Spec => []IInv` | `PrivateContexts` |
| `Scoping`, `Charging`, `Returning` | `[]MetadataScoped`, `[]ChargesAreReal`, `[]ReturnedIsRecorded` | `PrivateContexts` |
| `Refinement`, `LedgerIsFed` | `Spec => ImplementsTrail`, `Spec => FeedsLedger` | `PrivateContexts` |
| `Nesting`, `WorkflowIdIsRestored` | `AnsweredSpec => []NestingInv`, `AnsweredSpec => []WorkflowIdRestored` | `PrivateContexts` |
| `WorkIsNested` | `AnsweredSpec => []WorkStaysInItsWorkflow` | the same, and no janitor |
| `ClosingsComeBack` | `Spec => AnsweredSpec` | `StoreAnswers` |
| `ReturnedIsOver` | `Spec => []ReturnedWorkflowIsOver` | `PrivateContexts` |
| `BetImplementsRuntime` | `BetSpec => ImplementsRuntime` | |
| `BetCharging`, `BetReturning` | what `Runtime` guarantees, of the scenario | `PrivateContexts` |
| `BetWritesTrail` | `BetSpec => ImplementsTrail /\ FeedsLedger` | `PrivateContexts` |
| `BetInductive`, `BetTypeCorrect` | `BetSpec => []BetInv`, `BetSpec => []BetTypeOK` | |
| `StagesAreInOrder`, `JudgesAreBounded`, `AcceptanceIsEvaluated` | `[]StagesInOrder`, `[]JudgesBounded`, `[]AcceptedIsEvaluated` | |
| `BetIsNested` | `BetSpec => []WorkStaysInItsWorkflow` | no janitor |
| `BetIsOnRecord`, `BetRetriesClean` | `BetSpec => []BetIsRecorded`, `BetSpec => RetriesStartClean` | `PrivateContexts` |
| `AnthropicIsRetried` | `BetSpec => TransientIsRetried` | the provider is anthropic |
| `RulesAcceptTheSound` | `rule_eval(b).accepted <=> Sound(b)` | `b` has the shape of a bet |
| `MigrationsInductive` | `Spec => []MInv` | |
| `OpensComplete`, `RecordedOnce`, `RaisesBehind` | `[]SchemaComplete`, `[]RecordsOnce`, `[]RaisesBehindAnother` | |
| `FailsInARace` | `Spec => []FailsOnlyInARace` | no faults |
| `MigrationsImplementUpgrade` | `Spec => ImplementsUpgrade` | |
| `LedgerTypeCorrect` | `Spec => []TypeOK` | |
| `LedgerInductive`, `RowsWithinPeriod` | `Spec => []LInv`, `Spec => []CountedWithinPeriod` | `UTCArguments` |
| `MissedRunsAreLate` | `Spec => MissesOnlyLateRows` | `UTCArguments` |
| `WindowsAdjoin`, `SettledStaysSettled` | `Spec => AdjoiningWindows`, `Spec => SettledIsFinal` | `UTCArguments` |
| `ListedModelsPrice` | `Spec => []ListedModelHasItsPrice` | |
| `PlainVariantsPrice` | `Spec => []DatedVariantHasItsAliasPrice` | `PlainVariants` |
| `ReportsAreExact`, `TablesAreFaithful` | `Spec => ReportIsExact`, `Spec => TableIsFaithful` | `UTCArguments` |
| `ReportsOnlyGrow` | `Spec => ReportOnlyGrows` | |
| `UTCTextIsChronological` | for UTC stamps, text order is time order | |

**The invariant of the runtime** (`RuntimeInvariant.IInv`). `ChargesAreReal` is
not inductive: whether an update will charge the right call depends on the
statement in the queue, that on the metadata on the context when the body ended,
and that on what every nested call saved and restored. The parts, each proved
from those before it:

1. `StackInv`: `cur[t]` is the deepest active call of t, its callers form a
   chain in which each is suspended in its body, and no two active calls of a
   task have one depth. It makes "the caller" well defined when a call leaves.
2. `RowInv`: at each place of a wrapper the row and the queued statement fit
   each other (an insert meets no row, an update meets an open row), and every
   workflow named on a context, in a wrapper or in a row is in the table. From
   this alone follows `NoDanglingStatement`.
3. `RetryInv`: a sleeping attempt is not the last.
4. `ScopeInv`: the context shows the call in force in the innermost scope, and
   every wrapper has saved the one in force where it was called; the number of a
   completed call is 1 because of the guard.
5. `ChargeInv`: what a row charges, or a queued update will charge, is `own`.

For the refinements, each worker action and the janitor's is a step of
`AuditTrail`, or of `LedgerRows`, under `IInv`, and every other action a stutter.

**The workflow a call belongs to** (`NestingInv`) is the dual of `ScopeInv`:
the context shows the innermost workflow of the await chain, every workflow has
saved the one it was called in, and so has every agent, in its row or in the
statement that is to insert it. An agent keeps that workflow in its *row*, not in
a local, so the chain is followed through the table (`WorkflowOf`). `Enclosed`
says that this workflow is deeper down and suspended in its body, which makes it
still running and still the one on the context when an agent's artifact is
written. An agent whose await fails leaves the context as it was, and so does a
workflow whose *insert* fails, because it has not written it yet; the closing
update is the one await between a write of the context and its undoing. A crash
ends all calls and clears the contexts, so it survives; a janitor changes a
status and nothing the invariant looks at, so only `WorkStaysInItsWorkflow` has
to exclude it.

**When a closing update does not come back**, the id of its workflow stays on the
context, later workflows save and restore it, and later agents are linked to it.
`OpenInv` says how far such an id can spread: whatever a context, a wrapper, an
insert or the row of an agent at work names is a workflow that *raised*, or one
still at work around it. So it is never one that returned, which is
`ReturnedWorkflowIsOver`: the failure of one workflow does not reach the work of
another that ended well.

**The script of the scenario** (`BetInv`, over the parts of `IInv` that need no
private contexts). All steps are first reduced to a few kinds (a call begins, the
innermost agent or the workflow moves, a worker executes), then: `ChainInv`, the
await chain is the bet, an agent of it and perhaps a judge; `OrderInv`, a stage
that was called has those before it returned; `LinkInv`, rows and artifacts name
the bet; `ExcInv`, an exception is not lost on its way and a Critic that waits
has none; `JudgeInv`, the judges called so far are at most one per attempt, and
fewer while the attempt may still call one; `CriticInv`, what it reported is what
the evaluation says; `SuccessInv`, a judge whose row succeeded has reported or is
about to, unless it was cancelled *after* its row was closed, and then the Critic
fails, because a `CancelledError` is not retried. The last one is what makes
"exactly one successful judge" true of a bet that returned. On private contexts
`CleanInv` is added, which says that an agent of the script with an exception at
hand, or asleep before a retry, has completed no call: so its retries never meet
the guard, as those of other products may (run `clean_retry`). `BetIsNested`
needs neither `ClosingAnswers` nor private contexts: the scenario has one workflow
and does nothing more on its context once that has ended.

**The invariant of the migrations** (`MInv`). `BuilderInv`: an opener that has
executed a statement of a script created every object of it that exists, so it is
the only one there. `LedgerInv`: whatever is in `_migrations`, or has been read
from it or passed by, is complete. `FrontInv`: whatever exists of a migration has
an opener in front of it; from that follows that whoever fails on an existing
object is behind another one.

**The invariant of the cost ledger** (`LInv`): no row starts in the future, the
bounds of a query are UTC stamps, and the rows of a report are rows of the
window that were started by its end. By `UTCTextIsChronological` what the SELECT
compares as text is then what the window says in time.

What the costs need, `BillInductive`, asks nothing of the arguments. `RowsInv` is
the part of `LInv` about the rows themselves: a closed row is stored, a stored one
was started. `PriceInv`: the cost of a row is that of the response it was closed
with, and zero while it is open. `BillInv`: rows only move forward, so whatever a
report has read is still selected by its query, at no smaller a cost; it is what
`ReportsOnlyGrow` follows from, with bounds of any kind.

**Prices.** `_cost_usd` searches a table, so that a model has its own price is a
fact about all pairs of entries. The proof names each entry by its parts
(`NameParts`) and shows that no two have one name (`NamesAreDistinct`) and that a
model of two parts begins with at most one of them, which is why an alias of one
part is found for its dated variants (`PlainVariantsPrice`).

**Sums.** A report adds up costs with a fold over a set. The induction principles
of the library cannot be instantiated, so `Sums` proves what is needed of
`MapThenSumSet` by a smallest counterexample: the finite sets are well founded
under strict inclusion (`FS_StrictSubsetOrderingWellFounded`), hence if some finite
set violated a law, one would all of whose proper subsets obey it, and taking
one element away contradicts that. In this way a sum exists and does not depend
on the order in which the elements are taken; it is then a natural number, grows
with its terms and its set, adds over disjoint sets, and may be taken bucket by
bucket (`SumOfBuckets`). The last is the whole of `ReportsAreExact`: the entries of
a report are the buckets of the due rows under the columns it is grouped by.

**Late rows.** What a report misses of its period (`MissedRunsAreLate`) is empty
when the rows are read, because no run starts in the future and the bounds say in
text what they say in time. From then on the end of
the period may move on with the clock, but every row that was stored had been
started by the earlier end, so only rows inserted since can be missed.

**Checked by TLC only**: liveness (`EveryCallEnds`, `BetEnds`, `SomeoneOpens`),
which is out of the prover's reach under fairness. Every invariant, action
property and refinement that a passing run checks is also a theorem.

## 7. Disagreements between code and documents

Each of these has a run that TLC refutes; `PROJECT.json` quotes the lines. The
last column says where what the document claims does hold, by a theorem of
section 6.

| Run | What the code does | The claim holds |
| --- | --- | --- |
| `clean_retry` | the metadata are cleared once per call, not per attempt: a retry after a completed LLM call is refused by the guard, and the refusal replaces the original exception | for bodies that are not retried after a completed call, as those of the scenario (`BetRetriesClean`) |
| `costs_lost` | a call that was paid for and then failed is recorded with cost zero; when it was the schema that rejected the return value, the row also stays pending | for calls that returned (`Returning`) |
| `openai_retry` | no exception of the openai SDK is retried | for the anthropic provider (`AnthropicIsRetried`) |
| `reopen` | a crash inside the migration script leaves a file that cannot be opened | without crashes and lock timeouts, but for races (`FailsInARace`) |
| `zones` | window bounds with an offset are compared as text | for durations and datetimes without offset (`ReportsAreExact`) |
| `dated_price` | an unlisted dated variant of gpt-4o-mini, gpt-4.1-mini, gpt-4.1-nano or o1-mini has the price of the larger model | for variants of one-part aliases (`PlainVariantsPrice`), and of listed models (`ListedModelsPrice`) |

The model shows further ones, which are not runs of their own:

- The row says succeeded before the artifact is written (agent.py:138, 197; in
  DESIGN.md:146 the order is the opposite): a crash in between leaves a
  succeeded row without its artifact. `ReturnedIsRecorded` therefore speaks of
  calls that returned.
- The workflow id is not restored when the closing update of a workflow is
  cancelled or raises (workflow.py:55-69), so `WorkflowIdRestored` is checked and
  proved for behaviours in which that update comes back. No other failed or
  cancelled await, no crash and no janitor harms it. What later agents may then
  be linked to, under all faults, is in `ReturnedWorkflowIsOver`.
- The closing update overwrites the status the janitor has set (sqlite.py:222),
  where ADR-009 allows no transition out of a final status. `AuditTrail` has
  that one transition, from aborted, and no other.
- Agents gathered over one context charge one call to two rows; hence
  `PrivateContexts`. This hazard and the one before it are in `PROJECT.json`
  with a note and without a property: the code does not exclude them, and a
  property that assumes them away does not cover them.
- The Critic's retry calls the judge anew, so a bet may have more rows than the
  5 or 6 of agents.py:8; `JudgesBounded` states how many more.
- `parse_since` raises `ArgumentTypeError` so that it "composes cleanly with
  argparse's error path" (cost.py:24), but cli.py calls it after argparse has
  finished, so a bad value ends in a traceback.
- The cost command opens the store like a platform and applies the migrations.
  One that comes between a platform's creating the file and its first statement
  may be the opener that wins, and the platform the one that fails.
- The fallback in `AgentRun.prompt_name` is never replaced by the name the body
  gave to `invoke_llm` (agent.py:61, 86, 136-182).
- The judge's verdict is not tied to its own criteria: a report with a failed
  criterion may be accepted (judge.py, schemas/eval.py). `AcceptedIsEvaluated`
  therefore says who accepted, and that the rules agree.
- PLAN.md:211 allows a parse failure of the provider's JSON "up to 1 retry";
  `is_retryable` accepts it like any other and `with_retry` counts no kind of
  failure by itself, so it is retried up to `max_retries` times. `PlannedRetries`
  holds the failures of the transport and not this one.
- The table shows one label for no name, an empty name and a dash
  (cost.py:76, 78), which are entries of their own (sqlite.py:342), and no schema
  excludes the last two. Two rows may therefore look alike; `TableIsFaithful`
  says that only such names can do that.
- ADR-002:19 documents timestamps as `YYYY-MM-DDTHH:MM:SS.ffffffZ`. The code
  stores `isoformat()`, which ends in `+00:00` and omits a fraction of zero.
  `Timestamps` follows the code: with the documented form all texts of UTC stamps
  would have one length.
- The rows of the cost table are rounded one by one, so they may not add up to
  the TOTAL, which is the rounded exact sum.

## 8. Not modelled

- `get_agent_run`, `get_workflow_run`, `get_artifact`: reads of one row by key
  that the runtime never makes.
- `generate_text`: called by nothing in the platform, and it records nothing.
- The length of the backoff, latencies, prompts, hashing, canonical JSON, the
  wording of criteria, the JSON output and the column widths of the cost command:
  data that decides nothing.
- Two `invoke_llm` calls gathered in one body, which ADR-011 forbids: a body of
  the model awaits one call at a time.
- The type errors of a caller (a store handed the wrong class, a field that is
  not updatable): programming errors that raise before anything is written.

## 9. Plan

Done, in this order: the store and the wrapper with their faults; workflows and
their composition in `Runtime`; `AuditTrail` and the refinement; the inductive
invariant and its proofs; the scenario with providers and retries; migrations;
the cost ledger and prices; lock timeouts, the cost command as an opener and
`SchemaUpgrade`; the rules and the table; `LedgerRows` between runtime and ledger;
the proofs of nesting, of windows, of `RaisesBehindAnother` and of the
scenario's script; prices, sums and reports; nesting under every fault but
one, and what is left of it under all; late rows of a report;
for each disagreement, the theorem that says where the claim does hold.

To do, in order of worth:

1. Variants of the code that repair a disagreement of section 7, with the
   property that then holds, as a guide for a change.
2. Contexts that tasks share one after the other: `PrivateContexts` is stronger than
   what the proofs of scoping use, which is that one task at a time is in a call.
3. Two calls of `invoke_llm` gathered in one body, with the documents' answer to
   what then is to be recorded.
