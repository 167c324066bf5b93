----------------------------- MODULE CostLedger -----------------------------
(***************************************************************************)
(* The cost ledger: the agent_run rows as far as query_cost of             *)
(* storage/sqlite.py reads them, and the queries of the cost command,      *)
(* which come from a process of its own while the platform writes.         *)
(*                                                                         *)
(* A run is stamped when it is called, its row is inserted some time later *)
(* with a cost of zero, and the row is closed, with the price of its LLM   *)
(* call or as a failure, later still.  The writers are those of            *)
(* LedgerRows, which Runtime implements.                                   *)
(***************************************************************************)
EXTENDS Timestamps, Pricing, FiniteSets

CONSTANTS
    Runs,           \* agent runs
    Tenants,        \* tenants whose costs are asked for
    TenantOf,       \* agent_run.tenant_id
    AgentOf,        \* agent_run.agent_name
    WorkflowOf,     \* workflow_run.workflow_name of the run's workflow, or None
    None,           \* None
    ResponseOf,     \* what the provider says of the run's LLM call, if it makes one
    Since, Until,   \* values given for --since and --until
    MaxSec,         \* bound on the clock
    Micros          \* fractions of a second the clock can show

ASSUME LedgerColumns ==
    /\ DOMAIN TenantOf = Runs /\ DOMAIN ResponseOf = Runs
    /\ \A r \in Runs : ResponseOf[r].in \in Nat /\ ResponseOf[r].out \in Nat
    /\ MaxSec \in Nat /\ Micros \in Nat \ {0}

VARIABLES
    now,        \* datetime.now(UTC)
    started,    \* started_at of a run, or None before it is called
    stored,     \* the runs that have a row
    closed,     \* the runs whose row has been closed
    cost,       \* agent_run.cost_usd
    billed,     \* history: the response a row has been closed with, or None
    query,      \* the arguments of the query being asked, or None
    report      \* what it was last answered: the rows its SELECT returned, each
                \* with its cost, and the end of the period, None until it is set

ledger == <<started, stored, closed, cost, billed>>
vars   == <<now, started, stored, closed, cost, billed, query, report>>

Clock == {UTC(s, m) : s \in 0..MaxSec, m \in 0..(Micros - 1)}

ASSUME NoneIsNoTime == None \notin Clock

TypeOK ==
    /\ now \in Clock
    /\ started \in [Runs -> Clock \cup {None}]
    /\ closed \subseteq stored /\ stored \subseteq {r \in Runs : started[r] # None}
    /\ cost \in [Runs -> Nat]
    /\ DOMAIN billed = Runs
    /\ \A r \in Runs : billed[r] \in {None, ResponseOf[r]}
    /\ report # None => DOMAIN report.rows \subseteq stored

Init ==
    /\ now     = UTC(0, 0)
    /\ started = [r \in Runs |-> None]
    /\ stored  = {}
    /\ closed  = {}
    /\ cost    = [r \in Runs |-> 0]
    /\ billed  = [r \in Runs |-> None]
    /\ query   = None
    /\ report  = None

Tick ==
    /\ now' \in Clock
    /\ \/ now.micro < Micros - 1 /\ now' = UTC(now.sec, now.micro + 1)
       \/ now.micro = Micros - 1 /\ now' = UTC(now.sec + 1, 0)
    /\ UNCHANGED <<ledger, query, report>>

-----------------------------------------------------------------------------
(***************************************************************************)
(* The platform                                                            *)
(***************************************************************************)
Rows == INSTANCE LedgerRows WITH billed <- {r \in Runs : billed[r] # None}

Call(r) ==
    /\ started[r] = None
    /\ started' = [started EXCEPT ![r] = now]
    /\ UNCHANGED <<now, stored, closed, cost, billed, query, report>>

InsertRun(r) ==
    /\ started[r] # None
    /\ UNCHANGED <<now, started, cost, billed, query, report>>
    /\ Rows!Open(r)

\* Defect: the closing update does not wait for the insert.
CloseRun_Unstored(r, c) ==
    /\ started[r] # None /\ r \notin closed
    /\ closed' = closed \cup {r}
    /\ cost'   = [cost EXCEPT ![r] = IF c = None THEN 0 ELSE CostUSD(c)]
    /\ billed' = [billed EXCEPT ![r] = c]
    /\ UNCHANGED <<now, started, stored, query, report>>

\* Defect: a row that was closed is closed again.
CloseRun_Again(r, c) ==
    /\ r \in stored
    /\ closed' = closed \cup {r}
    /\ cost'   = [cost EXCEPT ![r] = IF c = None THEN 0 ELSE CostUSD(c)]
    /\ billed' = [billed EXCEPT ![r] = c]
    /\ UNCHANGED <<now, started, stored, query, report>>

\* A failure, or a pure agent, is closed without a response.
CloseRun(r, c) ==
    /\ cost'   = [cost EXCEPT ![r] = IF c = None THEN 0 ELSE CostUSD(c)]
    /\ billed' = [billed EXCEPT ![r] = c]
    /\ UNCHANGED <<now, started, query, report>>
    /\ Rows!Close(r)

-----------------------------------------------------------------------------
(***************************************************************************)
(* The cost command                                                        *)
(***************************************************************************)

\* The arguments are parsed; --until may be left out.
Ask ==
    /\ query = None
    /\ \E tenant \in Tenants, since \in Since, until \in Until \cup {None} :
          query' = [tenant |-> tenant,
                    since  |-> ParseSince(since, now),
                    until  |-> IF until = None THEN None ELSE ParseSince(until, now)]
    /\ UNCHANGED <<now, ledger, report>>

\* Defect: the upper bound is not included.
Selected_Exclusive(q) ==
    {r \in stored :
        /\ TenantOf[r] = q.tenant
        /\ ~TextLess(started[r], q.since)
        /\ q.until # None => TextLess(started[r], q.until)}

\* Defect: the upper bound is left out of the statement.
Selected_NoUntil(q) ==
    {r \in stored : TenantOf[r] = q.tenant /\ ~TextLess(started[r], q.since)}

\* Defect: JOIN in place of LEFT JOIN.
Selected_InnerJoin(q) ==
    {r \in stored :
        /\ WorkflowOf[r] # None
        /\ TenantOf[r] = q.tenant
        /\ ~TextLess(started[r], q.since)
        /\ q.until # None => ~TextLess(q.until, started[r])}

\* The WHERE of query_cost: the texts of started_at and of the bounds, both of
\* them included, are compared.
Selected(q) ==
    {r \in stored :
        /\ TenantOf[r] = q.tenant
        /\ ~TextLess(started[r], q.since)
        /\ q.until # None => ~TextLess(q.until, started[r])}

\* The SELECT reads one state of the table, whatever the platform writes next.
Select ==
    /\ query # None
    /\ report # None => report.end # None
    /\ report' = [rows |-> [r \in Selected(query) |-> cost[r]], end |-> None]
    /\ UNCHANGED <<now, ledger, query>>

\* Defect: the end of the period is cut to whole seconds.
EndPeriod_WholeSeconds ==
    /\ report # None /\ report.end = None
    /\ report' = [report EXCEPT !.end = IF query.until # None THEN query.until ELSE UTC(now.sec, 0)]
    /\ UNCHANGED <<now, ledger, query>>

\* end = until or datetime.now(UTC), read when the rows have been fetched.
EndPeriod ==
    /\ report # None /\ report.end = None
    /\ report' = [report EXCEPT !.end = IF query.until # None THEN query.until ELSE now]
    /\ UNCHANGED <<now, ledger, query>>

\* What --group-by names.
Groupings == SUBSET {"workflow", "agent"}

\* The key of the bucket a run goes into.
Key(by, r) ==
    <<IF "workflow" \in by THEN WorkflowOf[r] ELSE None,
      IF "agent" \in by THEN AgentOf[r] ELSE None>>

\* The buckets, and the list of CostEntry made of them.
Entry(rows, by, key) ==
    LET runs == {r \in DOMAIN rows : Key(by, r) = key}
    IN  [key |-> key, cost |-> MapThenSumSet(LAMBDA r : rows[r], runs), count |-> Cardinality(runs)]

Entries(rows, by) == {Entry(rows, by, Key(by, r)) : r \in DOMAIN rows}

SumOfCosts(entries)  == MapThenSumSet(LAMBDA e : e.cost, entries)
SumOfCounts(entries) == MapThenSumSet(LAMBDA e : e.count, entries)

\* A cost as the table shows it, in millionths of a dollar: a hundred units of
\* cost each, halves to the even neighbour.
Shown(c) ==
    LET low  == c \div 100
        rest == c % 100
    IN  IF rest > 50 \/ (rest = 50 /\ low % 2 = 1) THEN low + 1 ELSE low

\* The label columns: those some entry has a name for.  For no entries at all
\* the command prints a sentence in place of the table.
Columns(entries) == {c \in 1..2 : \E e \in entries : e.key[c] # None}

\* Shown in place of a name there is none of, or an empty one (an em dash in
\* the code).
Dash == "-"

Label(name) == IF name \in {None, ""} THEN Dash ELSE name

TableRow(entries, e) ==
    [labels |-> [c \in Columns(entries) |-> Label(e.key[c])],
     cost   |-> Shown(e.cost), calls |-> e.count]

\* Defect: the TOTAL row adds up what the rows show.
TotalRow_OfRounded(entries) ==
    [cost |-> MapThenSumSet(LAMBDA e : Shown(e.cost), entries), calls |-> SumOfCounts(entries)]

\* The TOTAL row adds up what the entries hold.
TotalRow(entries) == [cost |-> Shown(SumOfCosts(entries)), calls |-> SumOfCounts(entries)]

Next ==
    \/ Tick
    \/ \E r \in Runs : Call(r) \/ InsertRun(r)
    \/ \E r \in Runs : \E c \in {None, ResponseOf[r]} : CloseRun(r, c)
    \/ Ask
    \/ Select
    \/ EndPeriod

Spec == Init /\ [][Next]_vars

-----------------------------------------------------------------------------
(***************************************************************************)
(* Properties                                                              *)
(***************************************************************************)

\* The rows a query is about: those of its tenant that were started, in time
\* and not in text, within the window.
Due(q) ==
    {r \in stored :
        /\ TenantOf[r] = q.tenant
        /\ ~Earlier(started[r], q.since)
        /\ q.until # None => ~Earlier(q.until, started[r])}

TotalCost(runs) == MapThenSumSet(LAMBDA r : cost[r], runs)

\* However a report is grouped, its entries count every row that is due once
\* and add up to what those rows cost (sqlite.py:308-367).
ReportIsExact ==
    [][Select => \A by \in Groupings :
          LET entries == Entries(report'.rows, by)
          IN  /\ SumOfCosts(entries) = TotalCost(Due(query))
              /\ SumOfCounts(entries) = Cardinality(Due(query))]_vars

\* What the table shows a dash for: no name, an empty one, and a dash.
Nameless == {None, "", Dash}

\* The table says what the report does: TOTAL is the rounded bill and not the
\* bill of what was rounded, a row is within half a millionth of its entry, and
\* the columns that are left out tell no two entries apart: rows with the same
\* labels are of the same names, but for names that show as a dash
\* (cost.py:60-113).
TableIsFaithful ==
    [][Select => \A by \in Groupings :
          LET entries == Entries(report'.rows, by)
          IN  /\ TotalRow(entries) = [cost  |-> Shown(TotalCost(Due(query))),
                                      calls |-> Cardinality(Due(query))]
              /\ \A e \in entries : 100 * TableRow(entries, e).cost - e.cost \in -50..50
              /\ \A e, f \in entries :
                    TableRow(entries, e).labels = TableRow(entries, f).labels =>
                        \A c \in 1..2 : e.key[c] = f.key[c] \/ {e.key[c], f.key[c]} \subseteq Nameless]_vars

\* The ledger never takes back what it has reported: when the same window is
\* asked for again, no entry is gone or smaller (sqlite.py:308-367).
ReportOnlyGrows ==
    [][Select /\ report # None => \A by \in Groupings :
          \A e \in Entries(report.rows, by) : \E f \in Entries(report'.rows, by) :
              f.key = e.key /\ f.cost >= e.cost /\ f.count >= e.count]_vars

\* A window is settled when it lies in the past and every run started in it has
\* been closed.
Settled(q) ==
    /\ q.until # None
    /\ Earlier(q.until, now)
    /\ \A r \in Runs :
          started[r] # None /\ TenantOf[r] = q.tenant /\ ~Earlier(q.until, started[r])
              => r \in closed

\* The bill of a settled window is final, whatever the platform does next
\* (sqlite.py:308-367).
SettledIsFinal ==
    [][query # None /\ Settled(query) =>
          /\ Selected(query)' = Selected(query)
          /\ \A r \in Selected(query) : cost'[r] = cost[r]]_vars

\* Wherever the window of a query is cut, the two windows that meet there miss
\* no row and share those started at the very moment of the cut
\* (sqlite.py:320-331).
AdjoiningWindows ==
    [][Select =>
        \A cut \in {t \in Clock : /\ ~Earlier(t, query.since)
                                  /\ query.until # None => ~Earlier(query.until, t)} :
            LET before == Selected([query EXCEPT !.until = cut])
                after  == Selected([query EXCEPT !.since = cut])
            IN  /\ before \cup after = Selected(query)
                /\ before \cap after = {r \in Selected(query) : started[r] = cut}]_vars

\* The rows of a report were started in the period it names, the end of which
\* is read only when they have been fetched (sqlite.py:333-367).
CountedWithinPeriod ==
    report # None /\ report.end # None =>
        \A r \in DOMAIN report.rows :
            ~Earlier(started[r], query.since) /\ ~Earlier(report.end, started[r])

\* The end of the period a report names, or will name if it is made now.
PeriodEnd ==
    IF report.end # None THEN report.end ELSE IF query.until # None THEN query.until ELSE now

\* The stored runs of the period of a report that the report does not count.
Missed ==
    IF report = None THEN {}
    ELSE {r \in stored \ DOMAIN report.rows :
            /\ TenantOf[r] = query.tenant
            /\ ~Earlier(started[r], query.since)
            /\ ~Earlier(PeriodEnd, started[r])}

\* A report misses a run of the period it names only if the row of the run was
\* inserted after the rows of the report had been read, however much later the
\* end of the period is set (sqlite.py:320-355).
MissesOnlyLateRows ==
    [][/\ Select => Missed' = {}
       /\ Missed' \subseteq Missed \cup (stored' \ stored)]_vars

\* A call to a model the tables list, dated or not, is charged that model's own
\* price and no other.
ListedModelHasItsPrice ==
    \A r \in Runs :
        billed[r] # None =>
            \A i \in DOMAIN Table(billed[r].provider) :
                LET entry == Table(billed[r].provider)[i]
                IN  entry.name = billed[r].model => cost[r] = Times(entry, billed[r])

\* test_openai_provider.py:39-43, "An unknown dated variant should match the
\* base alias via prefix": the alias is the name without its last part.
DatedVariantHasItsAliasPrice ==
    \A r \in Runs :
        billed[r] # None /\ billed[r].provider = "openai"
        /\ ~Listed(OpenAIPricing, billed[r].model) =>
            \A i \in DOMAIN OpenAIPricing :
                OpenAIPricing[i].name = Front(billed[r].model)
                    => cost[r] = Times(OpenAIPricing[i], billed[r])
=============================================================================
