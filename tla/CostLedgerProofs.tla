-------------------------- MODULE CostLedgerProofs -------------------------
(***************************************************************************)
(* Proofs about the cost ledger, for every set of runs and tenants, every  *)
(* price and every length of the clock.  What is said of windows assumes   *)
(* bounds in UTC: for a bound in another zone the comparison of texts is   *)
(* wrong, as a run of its own shows.                                       *)
(***************************************************************************)
EXTENDS CostLedger, TimestampsProofs, Sums, SequenceTheorems

\* --since and --until are durations, or datetimes without an offset.
UTCArguments ==
    \A i \in Since \cup Until :
        \/ i.form = "ago" /\ i.sec \in Nat
        \/ i.form = "naive" /\ i.sec \in Nat /\ i.micro \in Nat

UTCStamps == {UTC(s, m) : s \in Int, m \in Nat}

-----------------------------------------------------------------------------
(***************************************************************************)
(* The invariant.                                                          *)
(***************************************************************************)

\* Rows are written in order, and no run was started in the future.
RowsInv ==
    /\ now \in Clock
    /\ started \in [Runs -> Clock \cup {None}]
    /\ closed \subseteq stored
    /\ stored \subseteq {r \in Runs : started[r] # None}
    /\ billed \in [Runs -> {None} \cup {ResponseOf[r] : r \in Runs}]
    /\ cost = [r \in Runs |-> cost[r]]
    /\ \A r \in Runs : billed[r] # None => r \in closed
    /\ \A r \in Runs : started[r] # None => ~Earlier(now, started[r])

QueryInv ==
    query # None =>
        query \in [tenant : Tenants, since : UTCStamps, until : UTCStamps \cup {None}]

\* A report has rows of the window, and an end that none of them is after.
ReportInv ==
    report # None =>
        /\ query # None
        /\ report = [rows |-> report.rows, end |-> report.end]
        /\ DOMAIN report.rows \subseteq stored
        /\ \A r \in DOMAIN report.rows :
              /\ ~Earlier(started[r], query.since)
              /\ query.until # None => ~Earlier(query.until, started[r])
              /\ report.end # None => ~Earlier(report.end, started[r])

LInv == RowsInv /\ QueryInv /\ ReportInv

-----------------------------------------------------------------------------
(***************************************************************************)
(* Times.                                                                  *)
(***************************************************************************)

\* The clock shows UTC.
LEMMA ClockIsUTC == Clock \subseteq UTCStamps
BY LedgerColumns DEF Clock, UTCStamps

\* On UTC stamps texts are ordered as times are.
LEMMA TextIsTime ==
    ASSUME NEW a \in UTCStamps, NEW b \in UTCStamps
    PROVE  TextLess(a, b) <=> Earlier(a, b)
<1>1. PICK s \in Int, m \in Nat : a = UTC(s, m)
  BY DEF UTCStamps
<1>2. PICK u \in Int, n \in Nat : b = UTC(u, n)
  BY DEF UTCStamps
<1> QED BY <1>1, <1>2, UTCTextIsChronological

\* Earlier is a strict order on UTC stamps, and it is total.
LEMMA TimeOrder ==
    ASSUME NEW a \in UTCStamps, NEW b \in UTCStamps, NEW c \in UTCStamps
    PROVE  /\ ~Earlier(a, a)
           /\ Earlier(a, b) => ~Earlier(b, a)
           /\ ~Earlier(a, b) /\ ~Earlier(b, c) => ~Earlier(a, c)
           /\ ~Earlier(a, b) /\ ~Earlier(b, a) => a = b
<1>1. PICK s \in Int, m \in Nat : a = UTC(s, m)
  BY DEF UTCStamps
<1>2. PICK u \in Int, n \in Nat : b = UTC(u, n)
  BY DEF UTCStamps
<1>3. PICK v \in Int, k \in Nat : c = UTC(v, k)
  BY DEF UTCStamps
<1> QED BY <1>1, <1>2, <1>3 DEF Earlier, UTC, Stamp

\* The clock never goes back.
LEMMA TickIsLater ==
    ASSUME now \in Clock, Tick
    PROVE  now' \in Clock /\ ~Earlier(now', now)
<1>1. PICK s \in 0..MaxSec, m \in 0..(Micros - 1) : now = UTC(s, m)
  BY DEF Clock
<1> QED BY <1>1, LedgerColumns DEF Tick, Earlier, UTC, Stamp

\* What parse_since makes of the arguments is in UTC.
LEMMA ParsedIsUTC ==
    ASSUME UTCArguments, NEW i \in Since \cup Until, NEW t \in Clock
    PROVE  ParseSince(i, t) \in UTCStamps
<1>1. PICK s \in 0..MaxSec, m \in 0..(Micros - 1) : t = UTC(s, m)
  BY DEF Clock
<1>2. t.sec \in Int /\ t.micro \in Nat
  BY <1>1, LedgerColumns DEF UTC, Stamp
<1>3. CASE i.form = "ago" /\ i.sec \in Nat
  <2>1. ParseSince(i, t) = UTC(t.sec - i.sec, t.micro)
    BY <1>3 DEF ParseSince
  <2> QED BY <1>2, <1>3, <2>1 DEF UTCStamps
<1>4. CASE i.form = "naive" /\ i.sec \in Nat /\ i.micro \in Nat
  <2>1. ParseSince(i, t) = UTC(i.sec, i.micro)
    BY <1>4 DEF ParseSince
  <2> QED BY <1>4, <2>1 DEF UTCStamps
<1> QED BY <1>3, <1>4 DEF UTCArguments

\* A query in UTC selects the rows that are due.
LEMMA SelectedIsDue ==
    ASSUME RowsInv,
           NEW q, q.since \in UTCStamps, q.until \in UTCStamps \cup {None}
    PROVE  Selected(q) = Due(q)
<1>1. \A r \in stored : started[r] \in UTCStamps
  BY ClockIsUTC DEF RowsInv
<1> QED BY <1>1, TextIsTime DEF Selected, Due

-----------------------------------------------------------------------------
(***************************************************************************)
(* The invariant is inductive.                                             *)
(***************************************************************************)
LEMMA LedgerInit == Init => LInv
<1> SUFFICES ASSUME Init PROVE LInv
  OBVIOUS
<1>1. UTC(0, 0) \in Clock
  BY LedgerColumns DEF Clock
<1> QED BY <1>1 DEF Init, LInv, RowsInv, QueryInv, ReportInv

\* The rows stay in order.
LEMMA RowsStep == RowsInv /\ [Next]_vars => RowsInv'
<1> SUFFICES ASSUME RowsInv, [Next]_vars PROVE RowsInv'
  OBVIOUS
<1> USE DEF RowsInv
<1>1. CASE Tick
  <2>1. now' \in Clock /\ ~Earlier(now', now)
    BY <1>1, TickIsLater
  <2>2. \A r \in Runs : started[r] # None => ~Earlier(now', started[r])
    BY <2>1, ClockIsUTC, TimeOrder
  <2> QED BY <1>1, <2>1, <2>2 DEF Tick, ledger
<1>2. ASSUME NEW r \in Runs, Call(r) PROVE RowsInv'
  BY <1>2, ClockIsUTC, TimeOrder DEF Call
<1>3. ASSUME NEW r \in Runs, InsertRun(r) PROVE RowsInv'
  BY <1>3 DEF InsertRun, Rows!Open
<1>4. ASSUME NEW r \in Runs, NEW c \in {None, ResponseOf[r]}, CloseRun(r, c) PROVE RowsInv'
  BY <1>4 DEF CloseRun, Rows!Close
<1>5. CASE Ask \/ Select \/ EndPeriod \/ UNCHANGED vars
  BY <1>5 DEF Ask, Select, EndPeriod, vars, ledger
<1> QED BY <1>1, <1>2, <1>3, <1>4, <1>5 DEF Next

\* The query stays what was parsed.
LEMMA QueryStep ==
    ASSUME UTCArguments, RowsInv, QueryInv, [Next]_vars
    PROVE  QueryInv'
<1>1. CASE Ask
  <2>1. PICK tenant \in Tenants, since \in Since, until \in Until \cup {None} :
          query' = [tenant |-> tenant,
                    since  |-> ParseSince(since, now),
                    until  |-> IF until = None THEN None ELSE ParseSince(until, now)]
    BY <1>1 DEF Ask
  <2>2. ParseSince(since, now) \in UTCStamps
    BY ParsedIsUTC DEF RowsInv
  <2>3. until # None => ParseSince(until, now) \in UTCStamps
    BY ParsedIsUTC DEF RowsInv
  <2> QED BY <2>1, <2>2, <2>3 DEF QueryInv
<1>2. CASE UNCHANGED query
  BY <1>2 DEF QueryInv
<1> QED
  BY <1>1, <1>2 DEF Next, Tick, Call, InsertRun, Rows!Open, CloseRun, Rows!Close, Select, EndPeriod, vars, ledger

\* A step that leaves query and report keeps what a report says.
LEMMA ReportKept ==
    ASSUME ReportInv, UNCHANGED <<query, report>>, stored \subseteq stored',
           \A r \in stored : started'[r] = started[r]
    PROVE  ReportInv'
BY DEF ReportInv

LEMMA ReportStep ==
    ASSUME RowsInv, QueryInv, ReportInv, [Next]_vars
    PROVE  ReportInv'
<1>1. ASSUME NEW r \in Runs, Call(r) PROVE ReportInv'
  <2>1. \A s \in stored : started'[s] = started[s]
    BY <1>1 DEF Call, RowsInv
  <2> QED BY <1>1, <2>1, ReportKept DEF Call
<1>2. CASE \/ Tick \/ UNCHANGED vars
           \/ \E r \in Runs : InsertRun(r) \/ \E c \in {None, ResponseOf[r]} : CloseRun(r, c)
  BY <1>2, ReportKept DEF Tick, InsertRun, Rows!Open, CloseRun, Rows!Close, vars, ledger
<1>3. CASE Ask
  BY <1>3 DEF Ask, ReportInv
<1>4. CASE Select
  <2>1. Selected(query) = Due(query)
    BY <1>4, SelectedIsDue DEF Select, QueryInv
  <2>2. /\ report' = [rows |-> [r \in Due(query) |-> cost[r]], end |-> None]
        /\ query # None /\ UNCHANGED <<query, started, stored>>
    BY <1>4, <2>1 DEF Select, ledger
  <2>3. Due(query) \subseteq stored
    BY DEF Due
  <2> QED BY <2>2, <2>3 DEF ReportInv, Due
<1>5. CASE EndPeriod
  <2>1. /\ report' = [report EXCEPT !.end = IF query.until # None THEN query.until ELSE now]
        /\ report # None /\ UNCHANGED <<query, started, stored>>
    BY <1>5 DEF EndPeriod, ledger
  <2>2. report'.rows = report.rows /\ report' = [rows |-> report'.rows, end |-> report'.end]
    BY <2>1 DEF ReportInv
  <2>3. ASSUME NEW r \in DOMAIN report.rows PROVE ~Earlier(report'.end, started[r])
    <3>1. r \in stored /\ r \in Runs /\ started[r] # None
      BY <2>1, <2>3 DEF ReportInv, RowsInv
    <3> QED BY <2>1, <2>3, <3>1 DEF ReportInv, RowsInv
  <2> QED BY <2>1, <2>2, <2>3 DEF ReportInv
<1> QED BY <1>1, <1>2, <1>3, <1>4, <1>5 DEF Next

\* On bounds in UTC LInv is an inductive invariant.
THEOREM LedgerInductive == ASSUME UTCArguments PROVE Spec => []LInv
<1>1. Init => LInv
  BY LedgerInit
<1>2. LInv /\ [Next]_vars => LInv'
  BY RowsStep, QueryStep, ReportStep DEF LInv
<1> QED BY <1>1, <1>2, PTL DEF Spec

-----------------------------------------------------------------------------
(***************************************************************************)
(* The theorems.                                                           *)
(***************************************************************************)

\* No row of a report lies outside the period the report names.
THEOREM RowsWithinPeriod == ASSUME UTCArguments PROVE Spec => []CountedWithinPeriod
<1>1. LInv => CountedWithinPeriod
  BY DEF LInv, ReportInv, CountedWithinPeriod
<1> QED BY <1>1, LedgerInductive, PTL

\* On bounds in UTC a report misses a run of the period it names only if the
\* row of the run came after the rows of the report had been read, however
\* much later the end of the period is set.
THEOREM MissedRunsAreLate == ASSUME UTCArguments PROVE Spec => MissesOnlyLateRows
<1> DEFINE OnlyLate == /\ Select => Missed' = {}
                       /\ Missed' \subseteq Missed \cup (stored' \ stored)
<1>1. ASSUME LInv, Select PROVE Missed' = {}
  <2>1. Selected(query) = Due(query)
    BY <1>1, SelectedIsDue DEF Select, LInv, QueryInv
  <2>2. /\ report' = [rows |-> [r \in Due(query) |-> cost[r]], end |-> None]
        /\ UNCHANGED <<now, query, started, stored>>
    BY <1>1, <2>1 DEF Select, ledger
  <2>3. DOMAIN report'.rows = Due(query) /\ report'.end = None
    BY <2>2
  <2>4. PeriodEnd' = IF query.until # None THEN query.until ELSE now
    BY <2>2, <2>3 DEF PeriodEnd
  <2>5. ASSUME NEW r \in stored, TenantOf[r] = query.tenant,
               ~Earlier(started[r], query.since), ~Earlier(PeriodEnd', started[r])
        PROVE  r \in Due(query)
    BY <2>4, <2>5 DEF Due
  <2> QED BY <2>2, <2>3, <2>5 DEF Missed
<1>2. ASSUME LInv, [Next]_vars PROVE OnlyLate
  <2>1. RowsInv /\ QueryInv /\ ReportInv
    BY <1>2 DEF LInv
  <2>2. ASSUME UNCHANGED <<now, query, report>>, \A r \in stored : started'[r] = started[r]
        PROVE  Missed' \subseteq Missed \cup (stored' \ stored)
    BY <2>2 DEF Missed, PeriodEnd
  <2>3. CASE Tick
    <3>1. UNCHANGED <<query, report, started, stored>>
      BY <2>3 DEF Tick, ledger
    <3>2. ASSUME NEW r \in stored PROVE ~Earlier(now, started[r])
      BY <2>1 DEF RowsInv
    <3>3. ~Earlier(PeriodEnd', now) \/ PeriodEnd' = PeriodEnd
      BY <2>1, <2>3, <3>1, TickIsLater DEF PeriodEnd, RowsInv
    <3>4. ASSUME report # None, NEW r \in stored, ~Earlier(PeriodEnd', started[r])
          PROVE  ~Earlier(PeriodEnd, started[r])
      BY <3>1, <3>2, <3>4 DEF PeriodEnd
    <3>5. Missed' \subseteq Missed
      BY <3>1, <3>4 DEF Missed
    <3> QED BY <1>1, <1>2, <3>5
  <2>4. ASSUME NEW r \in Runs, Call(r) PROVE OnlyLate
    <3>1. r \notin stored /\ \A s \in stored : started'[s] = started[s]
      BY <2>1, <2>4 DEF Call, RowsInv
    <3> QED BY <1>1, <1>2, <2>2, <2>4, <3>1 DEF Call
  <2>5. ASSUME NEW r \in Runs, InsertRun(r) PROVE OnlyLate
    BY <1>1, <1>2, <2>2, <2>5 DEF InsertRun
  <2>6. ASSUME NEW r \in Runs, NEW c \in {None, ResponseOf[r]}, CloseRun(r, c) PROVE OnlyLate
    BY <1>1, <1>2, <2>2, <2>6 DEF CloseRun
  <2>7. CASE Ask
    <3>1. report = None /\ report' = None
      BY <2>1, <2>7 DEF Ask, ReportInv
    <3> QED BY <1>1, <1>2, <3>1 DEF Missed
  <2>8. CASE Select
    BY <1>1, <1>2, <2>8
  <2>9. CASE EndPeriod
    <3>1. /\ report' = [report EXCEPT !.end = IF query.until # None THEN query.until ELSE now]
          /\ report # None /\ report.end = None /\ UNCHANGED <<now, query, started, stored>>
      BY <2>9 DEF EndPeriod, ledger
    <3>2. /\ report'.rows = report.rows
          /\ report'.end = IF query.until # None THEN query.until ELSE now
      BY <2>1, <3>1 DEF ReportInv
    <3>3. now # None
      BY <2>1, NoneIsNoTime DEF RowsInv
    <3>4. PeriodEnd' = PeriodEnd
      BY <3>1, <3>2, <3>3 DEF PeriodEnd
    <3>5. Missed' \subseteq Missed
      BY <3>1, <3>2, <3>4 DEF Missed
    <3> QED BY <1>1, <1>2, <3>5
  <2>10. CASE UNCHANGED vars
    BY <1>1, <1>2, <2>2, <2>10 DEF vars, ledger
  <2> QED BY <1>2, <2>3, <2>4, <2>5, <2>6, <2>7, <2>8, <2>9, <2>10 DEF Next
<1>3. LInv /\ [Next]_vars => [OnlyLate]_vars
  BY <1>2
<1> QED BY <1>3, LedgerInductive, PTL DEF Spec, MissesOnlyLateRows

\* Two windows that meet miss nothing and share the rows of the cut only.
THEOREM WindowsAdjoin == ASSUME UTCArguments PROVE Spec => AdjoiningWindows
<1> DEFINE Cuts == {t \in Clock : /\ ~Earlier(t, query.since)
                                  /\ query.until # None => ~Earlier(query.until, t)}
           Before(cut) == Selected([query EXCEPT !.until = cut])
           After(cut)  == Selected([query EXCEPT !.since = cut])
           Whole == Selected(query)
<1>1. ASSUME LInv, Select, NEW cut \in Cuts
      PROVE  /\ Before(cut) \cup After(cut) = Whole
             /\ Before(cut) \cap After(cut) = {r \in Whole : started[r] = cut}
  <2>1. /\ query \in [tenant : Tenants, since : UTCStamps, until : UTCStamps \cup {None}]
        /\ RowsInv
    BY <1>1 DEF LInv, QueryInv, Select
  <2>2. cut \in UTCStamps /\ cut # None
    BY ClockIsUTC, NoneIsNoTime
  <2> DEFINE q1 == [query EXCEPT !.until = cut]
             q2 == [query EXCEPT !.since = cut]
  <2>3. /\ q1.tenant = query.tenant /\ q1.since = query.since /\ q1.until = cut
        /\ q2.tenant = query.tenant /\ q2.since = cut /\ q2.until = query.until
    BY <2>1
  <2>4. Before(cut) = Due(q1) /\ After(cut) = Due(q2) /\ Whole = Due(query)
    <3>1. Before(cut) = Due(q1)
      BY <2>1, <2>2, <2>3, SelectedIsDue
    <3>2. After(cut) = Due(q2)
      BY <2>1, <2>2, <2>3, SelectedIsDue
    <3>3. Whole = Due(query)
      BY <2>1, SelectedIsDue
    <3> QED BY <3>1, <3>2, <3>3
  <2>5. \A r \in stored : started[r] \in UTCStamps
    BY <2>1, ClockIsUTC DEF RowsInv
  <2> HIDE DEF q1, q2, Before, After, Whole
  <2>6. ASSUME NEW r \in stored
        PROVE  /\ r \in Due(q1) \/ r \in Due(q2) <=> r \in Due(query)
               /\ r \in Due(q1) /\ r \in Due(q2) <=> r \in Due(query) /\ started[r] = cut
    <3>1. query.since \in UTCStamps /\ (query.until # None => query.until \in UTCStamps)
      BY <2>1
    <3>2. started[r] \in UTCStamps
      BY <2>5
    <3>3. ~Earlier(cut, query.since) /\ (query.until # None => ~Earlier(query.until, cut))
      OBVIOUS
    <3>4. ~Earlier(started[r], cut) => ~Earlier(started[r], query.since)
      BY <2>2, <3>1, <3>2, <3>3, TimeOrder
    <3>5. query.until # None /\ ~Earlier(cut, started[r]) => ~Earlier(query.until, started[r])
      BY <2>2, <3>1, <3>2, <3>3, TimeOrder
    <3>6. /\ Earlier(started[r], cut) => ~Earlier(cut, started[r])
          /\ ~Earlier(started[r], cut) /\ ~Earlier(cut, started[r]) => started[r] = cut
          /\ ~Earlier(cut, cut)
      BY <2>2, <3>2, TimeOrder
    <3> QED BY <2>2, <2>3, <3>4, <3>5, <3>6 DEF Due
  <2>7. Due(q1) \subseteq stored /\ Due(q2) \subseteq stored /\ Due(query) \subseteq stored
    BY DEF Due
  <2> QED BY <2>4, <2>6, <2>7
<1>2. LInv /\ [Next]_vars =>
        [Select => \A cut \in Cuts :
            /\ Before(cut) \cup After(cut) = Whole
            /\ Before(cut) \cap After(cut) = {r \in Whole : started[r] = cut}]_vars
  BY <1>1
<1> QED BY <1>2, LedgerInductive, PTL DEF Spec, AdjoiningWindows

\* The bill of a window that is over, with every run of it closed, never
\* changes again.
THEOREM SettledStaysSettled == ASSUME UTCArguments PROVE Spec => SettledIsFinal
<1>1. ASSUME LInv, [Next]_vars, query # None, Settled(query)
      PROVE  /\ Selected(query)' = Selected(query)
             /\ \A r \in Selected(query) : cost'[r] = cost[r]
  <2>1. /\ query \in [tenant : Tenants, since : UTCStamps, until : UTCStamps \cup {None}]
        /\ RowsInv
    BY <1>1 DEF LInv, QueryInv
  <2>2. query' = query
    BY <1>1 DEF Next, Ask, Tick, Call, InsertRun, Rows!Open, CloseRun, Rows!Close, Select, EndPeriod, vars, ledger
  <2>3. Selected(query) = Due(query)
    BY <2>1, SelectedIsDue
  <2>4. Selected(query)' = Due(query)'
    <3>1. RowsInv'
      BY <1>1, <2>1, RowsStep
    <3>2. query'.since \in UTCStamps /\ query'.until \in UTCStamps \cup {None}
      BY <2>1, <2>2
    <3>3. \A r \in stored' : started'[r] \in UTCStamps
      BY <3>1, ClockIsUTC DEF RowsInv
    <3> QED BY <3>2, <3>3, TextIsTime DEF Selected, Due
  <2>5. Due(query)' = Due(query)
    <3>1. ASSUME NEW r \in Runs, Call(r) PROVE Due(query)' = Due(query)
      <4>1. r \notin stored /\ stored' = stored /\ \A s \in stored : started'[s] = started[s]
        BY <2>1, <3>1 DEF Call, RowsInv
      <4> QED BY <2>2, <4>1 DEF Due
    <3>2. ASSUME NEW r \in Runs, InsertRun(r) PROVE Due(query)' = Due(query)
      <4>1. r \notin closed /\ started[r] # None /\ stored' = stored \cup {r} /\ started' = started
        BY <2>1, <3>2 DEF InsertRun, Rows!Open, RowsInv
      <4>2. TenantOf[r] # query.tenant \/ Earlier(query.until, started[r])
        BY <1>1, <4>1 DEF Settled
      <4>3. query.until # None
        BY <1>1 DEF Settled
      <4> QED BY <2>2, <4>1, <4>2, <4>3 DEF Due
    <3>3. CASE UNCHANGED <<stored, started>>
      BY <2>2, <3>3 DEF Due
    <3> QED BY <1>1, <3>1, <3>2, <3>3
            DEF Next, Ask, Tick, CloseRun, Rows!Close, Select, EndPeriod, vars, ledger
  <2>6. ASSUME NEW r \in Due(query) PROVE cost'[r] = cost[r]
    <3>1. r \in closed /\ r \in Runs
      BY <1>1, <2>1, <2>6 DEF Due, Settled, RowsInv
    <3>2. ASSUME NEW s \in Runs, NEW c \in {None, ResponseOf[s]}, CloseRun(s, c)
          PROVE  cost'[r] = cost[r]
      BY <2>1, <3>1, <3>2 DEF CloseRun, Rows!Close, RowsInv
    <3> QED BY <1>1, <3>2 DEF Next, Ask, Tick, Call, InsertRun, Rows!Open, Select, EndPeriod, vars, ledger
  <2> QED BY <2>3, <2>4, <2>5, <2>6
<1>2. LInv /\ [Next]_vars =>
        [query # None /\ Settled(query) =>
            /\ Selected(query)' = Selected(query)
            /\ \A r \in Selected(query) : cost'[r] = cost[r]]_vars
  BY <1>1
<1> QED BY <1>2, LedgerInductive, PTL DEF Spec, SettledIsFinal

-----------------------------------------------------------------------------
(***************************************************************************)
(* Prices.                                                                 *)
(***************************************************************************)

\* A set of positions in a table has a first one.
LEMMA FirstPosition ==
    ASSUME NEW H \in SUBSET (1..11), H # {}
    PROVE  \E i \in H : \A j \in H : i <= j
<1> SUFFICES ASSUME \A i \in H : \E j \in H : j < i PROVE FALSE
  BY SMT
<1>1. \A i \in 1..11 : (\A j \in 1..11 : j < i => j \notin H) => i \notin H
  BY SMT
<1>2. /\ 1 \notin H /\ 2 \notin H /\ 3 \notin H /\ 4 \notin H /\ 5 \notin H /\ 6 \notin H
      /\ 7 \notin H /\ 8 \notin H /\ 9 \notin H /\ 10 \notin H /\ 11 \notin H
  BY <1>1, SMT
<1>3. 1..11 = {1, 2, 3, 4, 5, 6, 7, 8, 9, 10, 11}
  BY SMT
<1>4. \A i \in 1..11 : i \notin H
  BY <1>2, <1>3, Zenon
<1> QED BY <1>4, Zenon

\* Both tables hold prices.
LEMMA TablesHoldPrices ==
    /\ DOMAIN OpenAIPricing = 1..11 /\ DOMAIN AnthropicPricing = 1..3
    /\ \A i \in 1..11 : OpenAIPricing[i].in \in Nat /\ OpenAIPricing[i].out \in Nat
    /\ \A i \in 1..3 : AnthropicPricing[i].in \in Nat /\ AnthropicPricing[i].out \in Nat
<1>1. 1..11 = {1, 2, 3, 4, 5, 6, 7, 8, 9, 10, 11} /\ 1..3 = {1, 2, 3}
  BY SMT
<1> QED BY <1>1 DEF OpenAIPricing, AnthropicPricing, Price

\* The cost of a call is a natural number of units.
LEMMA CostIsNat ==
    ASSUME NEW c, c.in \in Nat, c.out \in Nat
    PROVE  CostUSD(c) \in Nat
<1> DEFINE IsPrice(p) == p.in \in Nat /\ p.out \in Nat
<1>1. IsPrice(Unknown)
  BY DEF Unknown, Price
<1>2. IsPrice(OpenAIPrice(c.model))
  <2> DEFINE Same == {i \in DOMAIN OpenAIPricing : OpenAIPricing[i].name = c.model}
             Base == {i \in DOMAIN OpenAIPricing : IsPrefix(OpenAIPricing[i].name, c.model)}
  <2>1. \A H \in {Same, Base} : H # {} =>
          (CHOOSE i \in H : \A j \in H : i <= j) \in 1..11
    BY FirstPosition, TablesHoldPrices
  <2>2. /\ First(OpenAIPricing, LAMBDA known : known = c.model)
            = IF Same = {} THEN Unknown ELSE OpenAIPricing[CHOOSE i \in Same : \A j \in Same : i <= j]
        /\ First(OpenAIPricing, LAMBDA known : IsPrefix(known, c.model))
            = IF Base = {} THEN Unknown ELSE OpenAIPricing[CHOOSE i \in Base : \A j \in Base : i <= j]
    BY DEF First
  <2> HIDE DEF Same, Base
  <2> QED BY <1>1, <2>1, <2>2, TablesHoldPrices DEF OpenAIPrice
<1>3. IsPrice(AnthropicPrice(c.model))
  <2> DEFINE Same == {i \in DOMAIN AnthropicPricing : AnthropicPricing[i].name = c.model}
  <2>1. Same \in SUBSET (1..11)
    BY TablesHoldPrices
  <2>2. Same # {} => (CHOOSE i \in Same : \A j \in Same : i <= j) \in Same
    BY <2>1, FirstPosition
  <2>3. First(AnthropicPricing, LAMBDA known : known = c.model)
            = IF Same = {} THEN Unknown ELSE AnthropicPricing[CHOOSE i \in Same : \A j \in Same : i <= j]
    BY DEF First
  <2>4. Same \subseteq 1..3
    BY TablesHoldPrices
  <2> HIDE DEF Same
  <2> QED BY <1>1, <2>2, <2>3, <2>4, TablesHoldPrices DEF AnthropicPrice
<1> HIDE DEF IsPrice
<1>4. \A p : IsPrice(p) => Times(p, c) \in Nat
  BY DEF IsPrice, Times
<1> QED BY <1>2, <1>3, <1>4 DEF CostUSD

\* What a row has been closed with is its run's response, and its cost is the
\* price of that response; a row that is open, or was closed without a
\* response, costs nothing.
PriceInv ==
    /\ cost \in [Runs -> Nat]
    /\ billed \in [Runs -> {None} \cup {ResponseOf[r] : r \in Runs}]
    /\ \A r \in Runs : /\ billed[r] \in {None, ResponseOf[r]}
                       /\ cost[r] = IF billed[r] = None THEN 0 ELSE CostUSD(billed[r])

\* No row costs anything yet.
LEMMA PriceInit == Init => RowsInv /\ PriceInv
BY LedgerInit DEF Init, LInv, PriceInv

\* A row gets its price with its response.
LEMMA PriceStep ==
    ASSUME RowsInv, PriceInv, [Next]_vars
    PROVE  PriceInv'
<1>1. ASSUME NEW r \in Runs, NEW c \in {None, ResponseOf[r]}, CloseRun(r, c) PROVE PriceInv'
  <2>1. c # None => CostUSD(c) \in Nat
    BY <1>1, CostIsNat, LedgerColumns
  <2> QED BY <1>1, <2>1 DEF CloseRun, Rows!Close, PriceInv
<1>2. CASE UNCHANGED <<cost, billed>>
  BY <1>2 DEF PriceInv
<1> QED BY <1>1, <1>2 DEF Next, Tick, Call, InsertRun, Rows!Open, Ask, Select, EndPeriod, vars, ledger

\* PriceInv is an inductive invariant, whatever the windows are.
LEMMA PriceInductive == Spec => [](RowsInv /\ PriceInv)
BY PriceInit, PriceStep, RowsStep, PTL DEF Spec

\* No two entries of a table have one name.
LEMMA NamesAreDistinct ==
    /\ \A i, j \in 1..11 : OpenAIPricing[i].name = OpenAIPricing[j].name => i = j
    /\ \A i, j \in 1..3 : AnthropicPricing[i].name = AnthropicPricing[j].name => i = j
<1>1. 1..11 = {1, 2, 3, 4, 5, 6, 7, 8, 9, 10, 11} /\ 1..3 = {1, 2, 3}
  BY SMT
<1> QED BY <1>1 DEF OpenAIPricing, AnthropicPricing, Price

\* The first entry that has a name is the entry that has it.
LEMMA ListedPrice ==
    ASSUME NEW c, NEW i \in DOMAIN Table(c.provider), Table(c.provider)[i].name = c.model
    PROVE  CostUSD(c) = Times(Table(c.provider)[i], c)
<1>1. CASE c.provider = "openai"
  <2> DEFINE Same == {j \in DOMAIN OpenAIPricing : OpenAIPricing[j].name = c.model}
  <2>1. i \in Same /\ Same \in SUBSET (1..11) /\ Listed(OpenAIPricing, c.model)
    BY <1>1, TablesHoldPrices DEF Table, Listed
  <2>2. (CHOOSE j \in Same : \A k \in Same : j <= k) \in Same
    BY <2>1, FirstPosition
  <2>3. \A j \in Same : j = i
    BY <1>1, TablesHoldPrices, NamesAreDistinct DEF Table
  <2>4. OpenAIPrice(c.model) = IF Same = {} THEN Unknown
                               ELSE OpenAIPricing[CHOOSE j \in Same : \A k \in Same : j <= k]
    BY <2>1 DEF OpenAIPrice, First
  <2> HIDE DEF Same
  <2>5. OpenAIPrice(c.model) = OpenAIPricing[i]
    BY <2>1, <2>2, <2>3, <2>4
  <2> QED BY <1>1, <2>5 DEF CostUSD, Table
<1>2. CASE c.provider # "openai"
  <2> DEFINE Same == {j \in DOMAIN AnthropicPricing : AnthropicPricing[j].name = c.model}
  <2>1. i \in Same /\ Same \in SUBSET (1..11)
    BY <1>2, TablesHoldPrices DEF Table
  <2>2. (CHOOSE j \in Same : \A k \in Same : j <= k) \in Same
    BY <2>1, FirstPosition
  <2>3. \A j \in Same : j = i
    BY <1>2, TablesHoldPrices, NamesAreDistinct DEF Table
  <2>4. AnthropicPrice(c.model) = IF Same = {} THEN Unknown
                               ELSE AnthropicPricing[CHOOSE j \in Same : \A k \in Same : j <= k]
    BY DEF AnthropicPrice, First
  <2> HIDE DEF Same
  <2>5. AnthropicPrice(c.model) = AnthropicPricing[i]
    BY <2>1, <2>2, <2>3, <2>4
  <2> QED BY <1>2, <2>5 DEF CostUSD, Table
<1> QED BY <1>1, <1>2

\* A call to a model a table lists is charged that model's price, whatever the
\* order of the table is and whichever names in it begin with another.
THEOREM ListedModelsPrice == Spec => []ListedModelHasItsPrice
<1>1. PriceInv => ListedModelHasItsPrice
  BY ListedPrice DEF PriceInv, ListedModelHasItsPrice
<1> QED BY <1>1, PriceInductive, PTL

\* A tuple of one, two or three parts is a sequence of that length.
LEMMA PartsMakeNames ==
    ASSUME NEW S, NEW a \in S, NEW b \in S, NEW c \in S
    PROVE  /\ <<a>> \in Seq(S) /\ Len(<<a>>) \in Nat \ {0}
           /\ <<a, b>> \in Seq(S) /\ Len(<<a, b>>) \in Nat \ {0}
           /\ <<a, b, c>> \in Seq(S) /\ Len(<<a, b, c>>) \in Nat \ {0}
<1> DEFINE one   == [i \in 1..1 |-> a]
           two   == [i \in 1..2 |-> IF i = 1 THEN a ELSE b]
           three == [i \in 1..3 |-> IF i = 1 THEN a ELSE IF i = 2 THEN b ELSE c]
<1>1. one \in [1..1 -> S] /\ two \in [1..2 -> S] /\ three \in [1..3 -> S]
  OBVIOUS
<1>2. <<a>> = one /\ <<a, b>> = two /\ <<a, b, c>> = three
  OBVIOUS
<1> HIDE DEF one, two, three
<1>3. \A n \in Nat : \A f \in [1..n -> S] : f \in Seq(S) /\ Len(f) = n
  BY SeqDef
<1>4. one \in Seq(S) /\ two \in Seq(S) /\ three \in Seq(S)
  BY <1>1, <1>3
<1>5. Len(one) \in Nat \ {0} /\ Len(two) \in Nat \ {0} /\ Len(three) \in Nat \ {0}
  <2>1. Len(one) = 1 /\ Len(two) = 2 /\ Len(three) = 3
    BY <1>1, <1>3
  <2> QED BY <2>1
<1> QED BY <1>2, <1>4, <1>5, Zenon

\* What the names in the table are made of.
NameParts ==
    {"gpt-4o", "gpt-4.1", "o1", "mini", "nano",
     "2024-11-20", "2024-08-06", "2024-05-13", "2024-07-18"}

\* The names in the table are sequences of at least one part.
LEMMA NamesHaveParts ==
    \A i \in 1..11 : /\ OpenAIPricing[i].name \in Seq(NameParts)
                     /\ Len(OpenAIPricing[i].name) \in Nat \ {0}
<1>1. 1..11 = {1, 2, 3, 4, 5, 6, 7, 8, 9, 10, 11}
  BY SMT
<1> DEFINE IsName(n) == n \in Seq(NameParts) /\ Len(n) \in Nat \ {0}
<1>2. /\ \A a \in NameParts : IsName(<<a>>)
      /\ \A a, b \in NameParts : IsName(<<a, b>>)
      /\ \A a, b, c \in NameParts : IsName(<<a, b, c>>)
  BY PartsMakeNames, Zenon
<1> HIDE DEF IsName
<1>3. /\ "gpt-4o" \in NameParts /\ "gpt-4.1" \in NameParts /\ "o1" \in NameParts
      /\ "mini" \in NameParts /\ "nano" \in NameParts
      /\ "2024-11-20" \in NameParts /\ "2024-08-06" \in NameParts
      /\ "2024-05-13" \in NameParts /\ "2024-07-18" \in NameParts
  BY DEF NameParts
<1>4. /\ IsName(<<"gpt-4o">>) /\ IsName(<<"gpt-4o", "2024-11-20">>)
      /\ IsName(<<"gpt-4o", "2024-08-06">>) /\ IsName(<<"gpt-4o", "2024-05-13">>)
      /\ IsName(<<"gpt-4o", "mini">>) /\ IsName(<<"gpt-4o", "mini", "2024-07-18">>)
      /\ IsName(<<"gpt-4.1">>) /\ IsName(<<"gpt-4.1", "mini">>) /\ IsName(<<"gpt-4.1", "nano">>)
      /\ IsName(<<"o1">>) /\ IsName(<<"o1", "mini">>)
  BY <1>2, <1>3, Zenon
<1>5. \A i \in 1..11 : IsName(OpenAIPricing[i].name)
  BY <1>1, <1>4 DEF OpenAIPricing, Price
<1> QED BY <1>5 DEF IsName

\* The models of OpenAI that the table does not list are variants of an alias
\* of one part: gpt-4o with a date, and not gpt-4o-mini with one.
PlainVariants ==
    \A r \in Runs :
        ResponseOf[r].provider = "openai" /\ ~Listed(OpenAIPricing, ResponseOf[r].model) =>
            ResponseOf[r].model \in Seq(STRING) /\ Len(ResponseOf[r].model) = 2

\* A variant of a one-part alias begins with no other name of the table.
LEMMA VariantPrice ==
    ASSUME NEW c, c.provider = "openai", c.model \in Seq(STRING), Len(c.model) = 2,
           ~Listed(OpenAIPricing, c.model),
           NEW i \in DOMAIN OpenAIPricing, OpenAIPricing[i].name = Front(c.model)
    PROVE  CostUSD(c) = Times(OpenAIPricing[i], c)
<1> DEFINE Base == {j \in DOMAIN OpenAIPricing : IsPrefix(OpenAIPricing[j].name, c.model)}
<1>1. ASSUME NEW j \in 1..11 PROVE j \in Base <=> j = i
  <2> DEFINE name == OpenAIPricing[j].name
  <2>1. /\ name \in Seq(NameParts) /\ Len(name) \in Nat \ {0} /\ name # c.model
        /\ OpenAIPricing[i].name \in Seq(NameParts) /\ i \in 1..11
    BY NamesHaveParts, TablesHoldPrices DEF Listed
  <2>2. SubSeq(c.model, 1, 2) = c.model /\ Front(c.model) = SubSeq(c.model, 1, 1)
        /\ Len(Front(c.model)) = 1
    BY DEF Front
  <2>3. j \in Base <=> IsPrefix(name, c.model)
    BY TablesHoldPrices
  <2> HIDE DEF name, Base
  <2>4. IsPrefix(name, c.model) <=> name = Front(c.model)
    BY <2>1, <2>2 DEF IsPrefix
  <2>5. name = Front(c.model) <=> j = i
    BY <2>1, NamesAreDistinct DEF name
  <2> QED BY <2>3, <2>4, <2>5
<1>2. Base = {i}
  BY <1>1, TablesHoldPrices
<1>3. OpenAIPrice(c.model) = IF Base = {} THEN Unknown
                               ELSE OpenAIPricing[CHOOSE j \in Base : \A k \in Base : j <= k]
    BY DEF OpenAIPrice, First
<1> HIDE DEF Base
<1>4. (CHOOSE j \in Base : \A k \in Base : j <= k) = i
  BY <1>2, TablesHoldPrices
<1> QED BY <1>2, <1>3, <1>4 DEF CostUSD

\* What the test says of dated variants holds for those of a one-part alias: no
\* shorter name of the table can come before it.
THEOREM PlainVariantsPrice == ASSUME PlainVariants PROVE Spec => []DatedVariantHasItsAliasPrice
<1>1. PriceInv => DatedVariantHasItsAliasPrice
  <2> SUFFICES ASSUME PriceInv, NEW r \in Runs, billed[r] # None, billed[r].provider = "openai",
                      ~Listed(OpenAIPricing, billed[r].model), NEW i \in DOMAIN OpenAIPricing,
                      OpenAIPricing[i].name = Front(billed[r].model)
               PROVE  cost[r] = Times(OpenAIPricing[i], billed[r])
    BY DEF DatedVariantHasItsAliasPrice
  <2>1. billed[r].model \in Seq(STRING) /\ Len(billed[r].model) = 2
    BY DEF PriceInv, PlainVariants
  <2>2. CostUSD(billed[r]) = Times(OpenAIPricing[i], billed[r])
    BY <2>1, VariantPrice
  <2> QED BY <2>2 DEF PriceInv
<1> QED BY <1>1, PriceInductive, PTL

-----------------------------------------------------------------------------
(***************************************************************************)
(* What a report holds, whatever the bounds of the windows are.            *)
(***************************************************************************)

\* A report has rows that its query selects, each at a cost the row has had:
\* the bill only grows.
BillInv ==
    /\ IsFiniteSet(stored)
    /\ report # None =>
          /\ query # None
          /\ report = [rows |-> report.rows, end |-> report.end]
          /\ DOMAIN report.rows \subseteq Selected(query)
          /\ \A r \in DOMAIN report.rows : report.rows[r] \in Nat /\ report.rows[r] <= cost[r]

\* No step takes a row out of a window, or lowers a cost.
LEMMA RowsOnlyGrow ==
    ASSUME RowsInv, PriceInv, [Next]_vars, query # None
    PROVE  /\ query' = query
           /\ Selected(query) \subseteq Selected(query)'
           /\ \A r \in Runs : cost[r] <= cost'[r]
<1>1. query' = query
  BY DEF Next, Ask, Tick, Call, InsertRun, Rows!Open, CloseRun, Rows!Close, Select, EndPeriod, vars, ledger
<1>2. \A r \in Runs : cost[r] <= cost'[r]
  <2>1. ASSUME NEW s \in Runs, NEW c \in {None, ResponseOf[s]}, CloseRun(s, c), NEW r \in Runs
        PROVE  cost[r] <= cost'[r]
    <3>1. cost[s] = 0
      BY <2>1 DEF CloseRun, Rows!Close, RowsInv, PriceInv
    <3>2. c # None => CostUSD(c) \in Nat
      BY <2>1, CostIsNat, LedgerColumns
    <3> QED BY <2>1, <3>1, <3>2 DEF CloseRun, Rows!Close, PriceInv
  <2>2. CASE UNCHANGED cost
    BY <2>2 DEF PriceInv
  <2> QED BY <2>1, <2>2 DEF Next, Tick, Call, InsertRun, Rows!Open, Ask, Select, EndPeriod, vars, ledger
<1>3. stored \subseteq stored' /\ \A r \in stored : started'[r] = started[r]
  BY DEF RowsInv, Next, Tick, Call, InsertRun, Rows!Open, CloseRun, Rows!Close, Ask, Select, EndPeriod, vars, ledger
<1>4. Selected(query) \subseteq Selected(query)'
  BY <1>1, <1>3 DEF Selected
<1> QED BY <1>1, <1>2, <1>4

\* BillInv is an inductive invariant, whatever the windows are.
LEMMA BillInductive == Spec => [](RowsInv /\ PriceInv /\ BillInv)
<1>1. Init => BillInv
  BY FS_EmptySet DEF Init, BillInv
<1>2. RowsInv /\ PriceInv /\ BillInv /\ [Next]_vars => BillInv'
  <2> SUFFICES ASSUME RowsInv, PriceInv, BillInv, [Next]_vars PROVE BillInv'
    OBVIOUS
  <2>1. IsFiniteSet(stored')
    <3>1. CASE UNCHANGED stored
      BY <3>1 DEF BillInv
    <3>2. ASSUME NEW r \in Runs, InsertRun(r) PROVE IsFiniteSet(stored')
      <4>1. stored' = stored \cup {r} /\ IsFiniteSet(stored)
        BY <3>2 DEF InsertRun, Rows!Open, BillInv
      <4> QED BY <4>1, FS_AddElement
    <3> QED BY <3>1, <3>2 DEF Next, Tick, Call, CloseRun, Rows!Close, Ask, Select, EndPeriod, vars, ledger
  <2>2. ASSUME query # None, report # None, report' # None,
               report' = [rows |-> report.rows, end |-> report'.end]
        PROVE  BillInv'
    <3>1. /\ query' = query /\ Selected(query) \subseteq Selected(query)'
          /\ \A r \in Runs : cost[r] <= cost'[r]
      BY <2>2, RowsOnlyGrow
    <3>2. report'.rows = report.rows
      BY <2>2
    <3>3. ASSUME NEW r \in DOMAIN report.rows
          PROVE  /\ r \in Selected(query)' /\ report'.rows[r] \in Nat
                 /\ report'.rows[r] <= cost'[r]
      <4>1. r \in Selected(query) /\ report.rows[r] \in Nat /\ report.rows[r] <= cost[r]
        BY <2>2 DEF BillInv
      <4>2. r \in Runs
        BY <4>1 DEF Selected, RowsInv
      <4>3. cost[r] \in Nat /\ cost'[r] \in Nat /\ cost[r] <= cost'[r]
        <5>1. PriceInv'
          BY PriceStep
        <5> QED BY <3>1, <4>2, <5>1 DEF PriceInv
      <4> QED BY <3>1, <3>2, <4>1, <4>3
    <3> QED BY <2>1, <2>2, <3>1, <3>2, <3>3 DEF BillInv
  <2>3. CASE UNCHANGED <<query, report>>
    <3>1. CASE report = None
      BY <2>1, <2>3, <3>1 DEF BillInv
    <3>2. CASE report # None
      BY <2>2, <2>3, <3>2 DEF BillInv
    <3> QED BY <3>1, <3>2
  <2>4. CASE Ask
    BY <2>1, <2>4 DEF Ask, BillInv
  <2>5. CASE Select
    <3>1. /\ report' = [rows |-> [r \in Selected(query) |-> cost[r]], end |-> None]
          /\ query # None /\ UNCHANGED <<query, started, stored, cost>>
      BY <2>5 DEF Select, ledger
    <3>2. Selected(query)' = Selected(query)
      BY <3>1 DEF Selected
    <3>3. \A r \in Selected(query) : cost[r] \in Nat
      BY DEF Selected, RowsInv, PriceInv
    <3> QED BY <2>1, <3>1, <3>2, <3>3 DEF BillInv
  <2>6. CASE EndPeriod
    <3>1. report # None /\ query # None /\ report = [rows |-> report.rows, end |-> report.end]
      BY <2>6 DEF EndPeriod, BillInv
    <3>2. report' = [rows |-> report.rows, end |-> IF query.until # None THEN query.until ELSE now]
      BY <2>6, <3>1 DEF EndPeriod
    <3>3. report' = None => BillInv'
      BY <2>1 DEF BillInv
    <3> QED BY <2>2, <3>1, <3>2, <3>3
  <2> QED BY <2>3, <2>4, <2>5, <2>6 DEF Next, Tick, Call, InsertRun, Rows!Open, CloseRun, Rows!Close, vars, ledger
<1>3. RowsInv /\ PriceInv /\ [Next]_vars => RowsInv' /\ PriceInv'
  BY RowsStep, PriceStep
<1>4. Init => RowsInv /\ PriceInv
  BY PriceInit
<1> QED BY <1>1, <1>2, <1>3, <1>4, PTL DEF Spec

\* Every variable of the ledger keeps its type, whatever the windows are: no
\* row is closed that was not inserted, and no cost is negative.
THEOREM LedgerTypeCorrect == Spec => []TypeOK
<1>1. ASSUME RowsInv, PriceInv, BillInv PROVE TypeOK
  <2>1. report # None => DOMAIN report.rows \subseteq stored
    BY <1>1 DEF BillInv, Selected
  <2> QED BY <1>1, <2>1 DEF RowsInv, PriceInv, TypeOK
<1> QED BY <1>1, BillInductive, PTL

-----------------------------------------------------------------------------
(***************************************************************************)
(* Reports: what their entries add up to.                                  *)
(***************************************************************************)

\* The runs of a bucket.
RunsOf(rows, by, key) == {r \in DOMAIN rows : Key(by, r) = key}

\* What an entry holds.
LEMMA EntryHolds ==
    ASSUME NEW rows, NEW by, NEW key
    PROVE  Entry(rows, by, key) = [key   |-> key,
                                   cost  |-> SumOver(rows, RunsOf(rows, by, key)),
                                   count |-> Cardinality(RunsOf(rows, by, key))]
BY DEF Entry, RunsOf, SumOver

\* The command adds up a column of its entries.
LEMMA ColumnsAreSums ==
    ASSUME NEW entries, IsFiniteSet(entries)
    PROVE  /\ SumOfCosts(entries)  = SumOver([e \in entries |-> e.cost], entries)
           /\ SumOfCounts(entries) = SumOver([e \in entries |-> e.count], entries)
<1>1. SumOfCosts(entries) = SumOver([e \in entries |-> e.cost], entries)
  <2> DEFINE f == [e \in entries |-> e.cost]
             g == CHOOSE g : g = [s \in SUBSET entries |->
                      IF s = {} THEN 0 ELSE Taken(s).cost + g[s \ {Taken(s)}]]
  <2>1. \A h : [s \in SUBSET entries |-> IF s = {} THEN 0 ELSE Taken(s).cost + h[s \ {Taken(s)}]]
                = [s \in SUBSET entries |-> IF s = {} THEN 0 ELSE f[Taken(s)] + h[s \ {Taken(s)}]]
    BY TakenIsMember
  <2>2. SumOfCosts(entries) = g[entries]
    BY DEF SumOfCosts, MapThenSumSet, MapThenFoldSet, Taken
  <2> HIDE DEF f
  <2>3. \E h : AddsUp(h, f, entries)
    BY SumsExist
  <2>4. AddsUp(g, f, entries)
    BY <2>1, <2>3 DEF AddsUp
  <2> HIDE DEF g
  <2>5. SumOver(f, entries) = g[entries]
    BY <2>4, SumIsWhatAddsUp
  <2> QED BY <2>2, <2>5 DEF f
<1>2. SumOfCounts(entries) = SumOver([e \in entries |-> e.count], entries)
  <2> DEFINE f == [e \in entries |-> e.count]
             g == CHOOSE g : g = [s \in SUBSET entries |->
                      IF s = {} THEN 0 ELSE Taken(s).count + g[s \ {Taken(s)}]]
  <2>1. \A h : [s \in SUBSET entries |-> IF s = {} THEN 0 ELSE Taken(s).count + h[s \ {Taken(s)}]]
                = [s \in SUBSET entries |-> IF s = {} THEN 0 ELSE f[Taken(s)] + h[s \ {Taken(s)}]]
    BY TakenIsMember
  <2>2. SumOfCounts(entries) = g[entries]
    BY DEF SumOfCounts, MapThenSumSet, MapThenFoldSet, Taken
  <2> HIDE DEF f
  <2>3. \E h : AddsUp(h, f, entries)
    BY SumsExist
  <2>4. AddsUp(g, f, entries)
    BY <2>1, <2>3 DEF AddsUp
  <2> HIDE DEF g
  <2>5. SumOver(f, entries) = g[entries]
    BY <2>4, SumIsWhatAddsUp
  <2> QED BY <2>2, <2>5 DEF f
<1> QED BY <1>1, <1>2

\* However rows are grouped, no two entries have one key, and the entries add
\* up to the rows.
LEMMA EntriesAddUp ==
    ASSUME NEW rows, IsFiniteSet(DOMAIN rows), \A r \in DOMAIN rows : rows[r] \in Nat, NEW by
    PROVE  /\ IsFiniteSet(Entries(rows, by))
           /\ \A e \in Entries(rows, by) : e.cost \in Nat /\ e.count \in Nat
           /\ \A e, f \in Entries(rows, by) : e.key = f.key => e = f
           /\ SumOfCosts(Entries(rows, by)) = SumOver(rows, DOMAIN rows)
           /\ SumOfCounts(Entries(rows, by)) = Cardinality(DOMAIN rows)
<1> DEFINE D == DOMAIN rows
           entries == Entries(rows, by)
           bucket  == [r \in D |-> Entry(rows, by, Key(by, r))]
           ones    == [r \in D |-> 1]
           costs   == [e \in entries |-> e.cost]
           counts  == [e \in entries |-> e.count]
<1>1. bucket \in Surjection(D, entries)
  BY DEF Entries, Surjection
<1>2. IsFiniteSet(entries)
  BY <1>1, FS_Surjection
<1>3. ASSUME NEW e \in entries
      PROVE  /\ e = Entry(rows, by, e.key)
             /\ RunsOf(rows, by, e.key) = PutInto(e, bucket, D)
             /\ e.cost = SumOver(rows, RunsOf(rows, by, e.key))
             /\ e.count = Cardinality(RunsOf(rows, by, e.key))
             /\ e.cost \in Nat /\ e.count \in Nat
             /\ IsFiniteSet(RunsOf(rows, by, e.key))
  <2>1. PICK r \in D : e = Entry(rows, by, Key(by, r))
    BY DEF Entries
  <2>2. e.key = Key(by, r)
    BY <2>1, EntryHolds
  <2>3. e = Entry(rows, by, e.key)
    BY <2>1, <2>2
  <2>4. /\ e.cost = SumOver(rows, RunsOf(rows, by, e.key))
        /\ e.count = Cardinality(RunsOf(rows, by, e.key))
    BY <2>3, EntryHolds
  <2>5. ASSUME NEW s \in D PROVE Key(by, s) = e.key <=> bucket[s] = e
    <3>1. Entry(rows, by, Key(by, s)).key = Key(by, s)
      BY EntryHolds
    <3> QED BY <2>3, <3>1
  <2>6. RunsOf(rows, by, e.key) = PutInto(e, bucket, D)
    BY <2>5 DEF RunsOf, PutInto
  <2>7. RunsOf(rows, by, e.key) \in SUBSET D
    BY DEF RunsOf
  <2>8. IsFiniteSet(RunsOf(rows, by, e.key))
    BY <2>7, FS_Subset
  <2>9. e.cost \in Nat /\ e.count \in Nat
    BY <2>4, <2>7, <2>8, SumIsNat, FS_CardinalityType
  <2> QED BY <2>3, <2>4, <2>6, <2>8, <2>9
<1>4. \A e, f \in entries : e.key = f.key => e = f
  BY <1>3
<1>5. \A r \in D : bucket[r] \in entries
  BY DEF Entries
<1>6. /\ SumOfCosts(entries) = SumOver(costs, entries)
      /\ SumOfCounts(entries) = SumOver(counts, entries)
  BY <1>2, ColumnsAreSums
<1>7. \A e \in entries : costs[e] = SumOver(rows, PutInto(e, bucket, D))
  BY <1>3
<1>8. \A e \in entries : counts[e] = SumOver(ones, PutInto(e, bucket, D))
  <2> TAKE e \in entries
  <2>1. \A r \in RunsOf(rows, by, e.key) : ones[r] = 1
    BY DEF RunsOf
  <2>2. SumOver(ones, RunsOf(rows, by, e.key)) = Cardinality(RunsOf(rows, by, e.key))
    BY <1>3, <2>1, SumOfOnes
  <2> QED BY <1>3, <2>2
<1>9. SumOver(ones, D) = Cardinality(D)
  BY SumOfOnes
<1>10. /\ IsFiniteSet(D) /\ \A r \in D : rows[r] \in Nat
       /\ \A r \in D : ones[r] \in Nat
  OBVIOUS
<1> HIDE DEF D, entries, bucket, ones, costs, counts
<1>11. ASSUME NEW f, NEW total, \A r \in D : f[r] \in Nat,
              \A e \in entries : total[e] = SumOver(f, PutInto(e, bucket, D))
       PROVE  SumOver(total, entries) = SumOver(f, D)
  BY <1>2, <1>5, <1>10, <1>11, SumOfBuckets
<1>12. SumOver(costs, entries) = SumOver(rows, D)
  BY <1>7, <1>10, <1>11
<1>13. SumOver(counts, entries) = SumOver(ones, D)
  BY <1>8, <1>10, <1>11
<1> QED BY <1>2, <1>3, <1>4, <1>6, <1>9, <1>12, <1>13 DEF entries, D

\* What the SELECT returns, where the rows a query selects are due.
LEMMA SelectReturns ==
    ASSUME LInv, PriceInv, BillInv, Select
    PROVE  /\ DOMAIN report'.rows = Due(query)
           /\ IsFiniteSet(Due(query))
           /\ \A r \in Due(query) : report'.rows[r] \in Nat
           /\ SumOver(report'.rows, Due(query)) = TotalCost(Due(query))
<1>1. Selected(query) = Due(query)
  BY SelectedIsDue DEF Select, LInv, QueryInv
<1>2. report'.rows = [r \in Due(query) |-> cost[r]]
  BY <1>1 DEF Select
<1>3. Due(query) \in SUBSET stored /\ stored \in SUBSET Runs
  BY DEF Due, LInv, RowsInv
<1>4. IsFiniteSet(Due(query))
  BY <1>3, FS_Subset DEF BillInv
<1>5. \A r \in Due(query) : report'.rows[r] = cost[r] /\ cost[r] \in Nat
  BY <1>2, <1>3 DEF PriceInv
<1>6. SumOver(report'.rows, Due(query)) = SumOver(cost, Due(query))
  BY <1>4, <1>5, SumOfSame
<1>7. SumOver(cost, Due(query)) = TotalCost(Due(query))
  BY DEF SumOver, TotalCost
<1> QED BY <1>2, <1>4, <1>5, <1>6, <1>7

\* On bounds in UTC every grouping of a report counts each row that is due
\* once, and adds up to what those rows cost.
THEOREM ReportsAreExact == ASSUME UTCArguments PROVE Spec => ReportIsExact
<1> DEFINE Exact == \A by \in Groupings :
                        LET entries == Entries(report'.rows, by)
                        IN  /\ SumOfCosts(entries) = TotalCost(Due(query))
                            /\ SumOfCounts(entries) = Cardinality(Due(query))
<1>1. ASSUME LInv, PriceInv, BillInv, Select PROVE Exact
  <2> TAKE by \in Groupings
  <2> QED BY <1>1, SelectReturns, EntriesAddUp
<1>2. LInv /\ PriceInv /\ BillInv /\ [Next]_vars => [Select => Exact]_vars
  BY <1>1
<1> QED BY <1>2, LedgerInductive, BillInductive, PTL DEF Spec, ReportIsExact

\* A cost is shown within half a millionth of a dollar.
LEMMA ShownIsNear ==
    ASSUME NEW c \in Nat
    PROVE  100 * Shown(c) - c \in -50..50
<1>1. PICK low, rest \in Int : /\ c = 100 * low + rest /\ rest >= 0 /\ rest < 100
                              /\ low = c \div 100 /\ rest = c % 100
  OBVIOUS
<1>2. \/ Shown(c) = low + 1 /\ rest >= 50
      \/ Shown(c) = low /\ rest <= 50
  BY <1>1 DEF Shown
<1> QED BY <1>1, <1>2

\* Rows with the same labels are of the same names, but for names that show as
\* a dash.
LEMMA LabelsTellNamesApart ==
    ASSUME NEW entries, NEW e \in entries, NEW f \in entries,
           TableRow(entries, e).labels = TableRow(entries, f).labels,
           NEW c \in 1..2
    PROVE  e.key[c] = f.key[c] \/ {e.key[c], f.key[c]} \subseteq Nameless
<1>1. CASE c \in Columns(entries)
  <2> DEFINE shown == Columns(entries)
  <2>1. [d \in shown |-> Label(e.key[d])] = [d \in shown |-> Label(f.key[d])]
    BY DEF TableRow
  <2> HIDE DEF shown
  <2>2. c \in shown
    BY <1>1 DEF shown
  <2>3. Label(e.key[c]) = Label(f.key[c])
    BY <2>1, <2>2
  <2> QED BY <2>3 DEF Label, Nameless
<1>2. CASE c \notin Columns(entries)
  BY <1>2 DEF Columns
<1> QED BY <1>1, <1>2

\* On bounds in UTC the table says what the report does: TOTAL is the rounded
\* bill, a row is within half a millionth of its entry, and rows with the same
\* labels differ, if at all, in names that show as a dash.
THEOREM TablesAreFaithful == ASSUME UTCArguments PROVE Spec => TableIsFaithful
<1> DEFINE Faithful == \A by \in Groupings :
              LET entries == Entries(report'.rows, by)
              IN  /\ TotalRow(entries) = [cost  |-> Shown(TotalCost(Due(query))),
                                          calls |-> Cardinality(Due(query))]
                  /\ \A e \in entries : 100 * TableRow(entries, e).cost - e.cost \in -50..50
                  /\ \A e, f \in entries :
                        TableRow(entries, e).labels = TableRow(entries, f).labels =>
                            \A c \in 1..2 : e.key[c] = f.key[c] \/ {e.key[c], f.key[c]} \subseteq Nameless
<1>1. ASSUME LInv, PriceInv, BillInv, Select PROVE Faithful
  <2> TAKE by \in Groupings
  <2> DEFINE entries == Entries(report'.rows, by)
  <2>1. /\ \A e \in entries : e.cost \in Nat
        /\ SumOfCosts(entries) = TotalCost(Due(query))
        /\ SumOfCounts(entries) = Cardinality(Due(query))
    BY <1>1, SelectReturns, EntriesAddUp
  <2>2. TotalRow(entries) = [cost  |-> Shown(TotalCost(Due(query))),
                             calls |-> Cardinality(Due(query))]
    BY <2>1 DEF TotalRow
  <2>3. ASSUME NEW e \in entries PROVE 100 * TableRow(entries, e).cost - e.cost \in -50..50
    <3>1. TableRow(entries, e).cost = Shown(e.cost)
      BY DEF TableRow
    <3> QED BY <2>1, <3>1, ShownIsNear
  <2> HIDE DEF entries
  <2>4. \A e, f \in entries :
            TableRow(entries, e).labels = TableRow(entries, f).labels =>
                \A c \in 1..2 : e.key[c] = f.key[c] \/ {e.key[c], f.key[c]} \subseteq Nameless
    BY LabelsTellNamesApart
  <2> QED BY <2>2, <2>3, <2>4 DEF entries
<1>2. LInv /\ PriceInv /\ BillInv /\ [Next]_vars => [Select => Faithful]_vars
  BY <1>1
<1> QED BY <1>2, LedgerInductive, BillInductive, PTL DEF Spec, TableIsFaithful

\* Whatever the bounds of the window are, asking again takes nothing back.
THEOREM ReportsOnlyGrow == Spec => ReportOnlyGrows
<1> DEFINE Grown == \A by \in Groupings :
              \A e \in Entries(report.rows, by) : \E f \in Entries(report'.rows, by) :
                  f.key = e.key /\ f.cost >= e.cost /\ f.count >= e.count
<1>1. ASSUME RowsInv, PriceInv, BillInv, Select, report # None PROVE Grown
  <2> DEFINE old == report.rows
             new == report'.rows
  <2>1. new = [r \in Selected(query) |-> cost[r]]
    BY <1>1 DEF Select
  <2>2. /\ Selected(query) \in SUBSET stored /\ stored \in SUBSET Runs
    BY <1>1 DEF Selected, RowsInv
  <2>3. /\ DOMAIN old \subseteq DOMAIN new /\ IsFiniteSet(DOMAIN new)
        /\ \A r \in DOMAIN new : new[r] \in Nat
        /\ \A r \in DOMAIN old : old[r] \in Nat /\ old[r] <= new[r]
    <3>1. IsFiniteSet(Selected(query))
      BY <1>1, <2>2, FS_Subset DEF BillInv
    <3> QED BY <1>1, <2>1, <2>2, <3>1 DEF BillInv, PriceInv
  <2> HIDE DEF old, new
  <2>4. ASSUME NEW by, NEW e \in Entries(old, by)
        PROVE  \E f \in Entries(new, by) :
                   f.key = e.key /\ f.cost >= e.cost /\ f.count >= e.count
    <3>1. PICK r \in DOMAIN old : e = Entry(old, by, Key(by, r))
      BY DEF Entries
    <3> DEFINE key == Key(by, r)
               f   == Entry(new, by, key)
               less == RunsOf(old, by, key)
               more == RunsOf(new, by, key)
    <3>2. f \in Entries(new, by)
      BY <2>3, <3>1 DEF Entries
    <3>3. /\ e.key = key /\ e.cost = SumOver(old, less) /\ e.count = Cardinality(less)
          /\ f.key = key /\ f.cost = SumOver(new, more) /\ f.count = Cardinality(more)
      BY <3>1, EntryHolds
    <3>4. /\ less \in SUBSET more /\ more \in SUBSET DOMAIN new
          /\ \A s \in less : s \in DOMAIN old
      BY <2>3 DEF RunsOf
    <3> HIDE DEF f, less, more, key
    <3>5. IsFiniteSet(more) /\ IsFiniteSet(less)
      BY <2>3, <3>4, FS_Subset
    <3>6. SumOver(old, less) <= SumOver(new, more)
      BY <2>3, <3>4, <3>5, SumGrows
    <3>7. Cardinality(less) <= Cardinality(more)
      BY <3>4, <3>5, FS_Subset
    <3>8. /\ SumOver(old, less) \in Nat /\ SumOver(new, more) \in Nat
          /\ Cardinality(less) \in Nat /\ Cardinality(more) \in Nat
      BY <2>3, <3>4, <3>5, SumIsNat, FS_CardinalityType
    <3>9. f.cost >= e.cost /\ f.count >= e.count
      BY <3>3, <3>6, <3>7, <3>8
    <3> QED BY <3>2, <3>3, <3>9
  <2> QED BY <2>4 DEF old, new
<1>2. RowsInv /\ PriceInv /\ BillInv /\ [Next]_vars => [Select /\ report # None => Grown]_vars
  BY <1>1
<1> QED BY <1>2, BillInductive, PTL DEF Spec, ReportOnlyGrows
=============================================================================
