----------------------------- MODULE Migrations -----------------------------
(***************************************************************************)
(* The schema migrations of storage/sqlite.py and storage/migrations.py,   *)
(* applied by every SQLiteStore that is opened on a database file.         *)
(*                                                                         *)
(* The connection is in autocommit mode, so every statement is a           *)
(* transaction of its own: executescript runs the statements of a          *)
(* migration one by one, and the INSERT into _migrations that follows is   *)
(* one more.  Several stores may be opened on one file at a time, and an   *)
(* opener may die between any two statements.  An opener is the platform,  *)
(* or the cost command of cli.py, which looks for the file first and then  *)
(* migrates it like any other.                                             *)
(*                                                                         *)
(* A statement that cannot have the write lock within sqlite3's timeout of *)
(* five seconds raises "database is locked".                               *)
(***************************************************************************)
EXTENDS Naturals

CONSTANTS
    Openers,    \* processes that open one file
    Commands,   \* those of them that are cost commands
    Last,       \* the migrations are numbered 1..Last
    Size,       \* number of statements of each migration
    Faults      \* the faults the environment may produce

ASSUME Scripts == Last \in Nat /\ Size \in [1..Last -> Nat \ {0}]
ASSUME OpenFaults == Commands \subseteq Openers /\ Faults \subseteq {"crash", "lock"}

Versions == 1..Last

VARIABLES
    file,       \* the database file exists
    ledger,     \* the table _migrations exists
    recorded,   \* the versions in it
    created,    \* number of the objects of each migration that exist
    pc,         \* where an opener is
    applied,    \* local applied: the versions the opener has read
    version,    \* the migration the opener has come to
    step        \* number of statements of it the opener has executed

schema == <<file, ledger, recorded, created>>
locals == <<applied, version, step>>
vars   == <<file, ledger, recorded, created, pc, applied, version, step>>

\* Before the first statement, at work, and the ways to end.
Place == {"new", "found", "connected", "read", "migrate",
          "open", "raised", "locked", "notFound", "dead"}

TypeOK ==
    /\ file     \in BOOLEAN
    /\ ledger   \in BOOLEAN
    /\ recorded \in SUBSET Versions
    /\ created  \in [Versions -> Nat]
    /\ pc       \in [Openers -> Place]
    /\ applied  \in [Openers -> SUBSET Versions]
    /\ version  \in [Openers -> 1..(Last + 1)]
    /\ step     \in [Openers -> Nat]

Init ==
    /\ file     = FALSE
    /\ ledger   = FALSE
    /\ recorded = {}
    /\ created  = [v \in Versions |-> 0]
    /\ pc       = [o \in Openers |-> "new"]
    /\ applied  = [o \in Openers |-> {}]
    /\ version  = [o \in Openers |-> 1]
    /\ step     = [o \in Openers |-> 0]

Goto(o, place) == pc' = [pc EXCEPT ![o] = place]

\* _run_cost: Path(args.db).exists(), or the command returns 2.
LookForFile(o) ==
    /\ o \in Commands
    /\ pc[o] = "new"
    /\ Goto(o, IF file THEN "found" ELSE "notFound")
    /\ UNCHANGED <<schema, locals>>

\* Defect: the file is opened with mode=rw, which creates none.
Connect_NoCreate(o) ==
    /\ pc[o] = IF o \in Commands THEN "found" ELSE "new"
    /\ Goto(o, IF file THEN "connected" ELSE "raised")
    /\ UNCHANGED <<schema, locals>>

\* sqlite3.connect creates the file if there is none.
Connect(o) ==
    /\ pc[o] = IF o \in Commands THEN "found" ELSE "new"
    /\ file' = TRUE
    /\ Goto(o, "connected")
    /\ UNCHANGED <<ledger, recorded, created, locals>>

\* The two PRAGMAs, and CREATE TABLE IF NOT EXISTS _migrations.
CreateLedger(o) ==
    /\ pc[o] = "connected"
    /\ ledger' = TRUE
    /\ Goto(o, "read")
    /\ UNCHANGED <<file, recorded, created, locals>>

\* Defect: the ledger is taken to be up to date.
ReadApplied_TrustsLedger(o) ==
    /\ pc[o] = "read"
    /\ applied' = [applied EXCEPT ![o] = Versions]
    /\ Goto(o, "migrate")
    /\ UNCHANGED <<schema, version, step>>

\* SELECT version FROM _migrations
ReadApplied(o) ==
    /\ pc[o] = "read"
    /\ applied' = [applied EXCEPT ![o] = recorded]
    /\ Goto(o, "migrate")
    /\ UNCHANGED <<schema, version, step>>

\* The opener has come to a migration it found in the ledger, or not there.
Skips(o)   == pc[o] = "migrate" /\ version[o] \in Versions /\ version[o] \in applied[o]
Applies(o) == pc[o] = "migrate" /\ version[o] \in Versions /\ version[o] \notin applied[o]

NextVersion(o) == version' = [version EXCEPT ![o] = @ + 1] /\ step' = [step EXCEPT ![o] = 0]

SkipVersion(o) ==
    /\ Skips(o)
    /\ NextVersion(o)
    /\ UNCHANGED <<schema, pc, applied>>

\* The objects of a migration are created in one order, so the statement the
\* opener is at finds its object if that many objects are there already.
Exists(o) == created[version[o]] > step[o]

\* Defect: an object that exists is passed over, as by CREATE IF NOT EXISTS.
RunStatement_IfNotExists(o) ==
    /\ Applies(o)
    /\ step[o] < Size[version[o]]
    /\ created' = [created EXCEPT ![version[o]] = IF Exists(o) THEN @ ELSE @ + 1]
    /\ step'    = [step EXCEPT ![o] = @ + 1]
    /\ UNCHANGED <<file, ledger, recorded, pc, applied, version>>

\* Defect: the script has a statement twice.
RunStatement_Repeated(o) ==
    /\ Applies(o)
    /\ step[o] < Size[version[o]]
    /\ ~Exists(o)
    /\ created' = [created EXCEPT ![version[o]] = @ + 1]
    /\ UNCHANGED <<file, ledger, recorded, pc, applied, version, step>>

\* The next CREATE TABLE or CREATE INDEX of the script.
RunStatement(o) ==
    /\ Applies(o)
    /\ step[o] < Size[version[o]]
    /\ ~Exists(o)
    /\ created' = [created EXCEPT ![version[o]] = @ + 1]
    /\ step'    = [step EXCEPT ![o] = @ + 1]
    /\ UNCHANGED <<file, ledger, recorded, pc, applied, version>>

\* Defect: the exception is passed over and the opener goes on.
StatementRaises_Ignored(o) ==
    /\ Applies(o)
    /\ step[o] < Size[version[o]]
    /\ Exists(o)
    /\ NextVersion(o)
    /\ UNCHANGED <<schema, pc, applied>>

\* The table or index is there already: the script says CREATE without IF NOT
\* EXISTS, sqlite3.OperationalError leaves SQLiteStore.__init__.
StatementRaises(o) ==
    /\ Applies(o)
    /\ step[o] < Size[version[o]]
    /\ Exists(o)
    /\ Goto(o, "raised")
    /\ UNCHANGED <<schema, locals>>

\* Defect: the version is recorded before its script is run.
RecordVersion_First(o) ==
    /\ Applies(o)
    /\ step[o] = 0
    /\ recorded' = recorded \cup {version[o]}
    /\ NextVersion(o)
    /\ UNCHANGED <<file, ledger, created, pc, applied>>

\* INSERT INTO _migrations.  The version is the primary key of the table; that
\* it is never there already is RecordsOnce.
RecordVersion(o) ==
    /\ Applies(o)
    /\ step[o] = Size[version[o]]
    /\ recorded' = recorded \cup {version[o]}
    /\ NextVersion(o)
    /\ UNCHANGED <<file, ledger, created, pc, applied>>

\* No migration is left.
Opened(o) ==
    /\ pc[o] = "migrate"
    /\ version[o] = Last + 1
    /\ Goto(o, "open")
    /\ UNCHANGED <<schema, locals>>

\* Some process keeps the write lock: the statement the opener is at raises,
\* and what its script has created so far stays.
LockTimeout(o) ==
    /\ "lock" \in Faults
    /\ pc[o] = "connected" \/ Applies(o)
    /\ Goto(o, "locked")
    /\ UNCHANGED <<schema, locals>>

\* The process of an opener dies between two statements.
Crash(o) ==
    /\ "crash" \in Faults
    /\ pc[o] \in {"new", "found", "connected", "read", "migrate"}
    /\ Goto(o, "dead")
    /\ UNCHANGED <<schema, locals>>

Step(o) ==
    \/ LookForFile(o)
    \/ Connect(o)
    \/ CreateLedger(o)
    \/ ReadApplied(o)
    \/ SkipVersion(o)
    \/ RunStatement(o)
    \/ StatementRaises(o)
    \/ RecordVersion(o)
    \/ Opened(o)

Next == \E o \in Openers : Step(o) \/ LockTimeout(o) \/ Crash(o)

Spec == Init /\ [][Next]_vars

\* Nothing in __init__ waits for another opener.
FairSpec == Spec /\ \A o \in Openers : WF_vars(Step(o))

-----------------------------------------------------------------------------
(***************************************************************************)
(* Properties                                                              *)
(***************************************************************************)
Complete(v) == created[v] = Size[v]

\* A store that opened, and a version in the ledger, have the whole schema
\* behind them, whoever built it and whoever died or failed meanwhile.
SchemaComplete ==
    /\ \A v \in recorded : Complete(v)
    /\ \A o \in Openers : pc[o] = "open" => \A v \in Versions : v \in recorded

\* A migration is in force when its version is on record and its script is
\* complete.  Under this mapping the statements of any number of racing, dying
\* and failing openers (sqlite.py:72-87) amount to a SchemaUpgrade: every
\* migration once, whole and in order, a store only over all of them.
Upgrade == INSTANCE SchemaUpgrade WITH
    installed <- {v \in recorded : Complete(v)},
    open      <- {o \in Openers : pc[o] = "open"}
ImplementsUpgrade == Upgrade!Spec

\* The INSERT of a version never meets one (sqlite.py:84-87): the CREATE
\* statements before it have let one opener through.
RecordsOnce ==
    \A o \in Openers :
        Applies(o) /\ step[o] = Size[version[o]] => version[o] \notin recorded

\* The openers whose statements, so far, have all succeeded.
InFront == {o \in Openers : pc[o] \in {"migrate", "open", "locked", "dead"}}

FurtherThan(p, o) ==
    \/ version[p] > version[o]
    \/ version[p] = version[o] /\ step[p] > step[o]

\* An opener finds an object that exists only behind another opener, which is
\* further in the schema and is still at work there, has opened the file, was
\* locked out or has died: a script never runs into its own objects, and the
\* opener in front never fails against those behind it.
RaisesBehindAnother ==
    \A o \in Openers : pc[o] = "raised" => \E p \in InFront : FurtherThan(p, o)

\* migrations.py:4, "re-applying is safe": an opener fails only when it ran
\* into one that builds the schema, or has built it.
FailsOnlyInARace ==
    (\E o \in Openers : pc[o] = "raised") => \E p \in Openers : pc[p] \in {"migrate", "open"}

\* However many race for a new file, one of them opens it, unless its process
\* dies or is locked out first: they cannot all fail against each other.
SomeoneOpens ==
    Openers # Commands => <>(\E o \in Openers : pc[o] \in {"open", "locked", "dead"})

-----------------------------------------------------------------------------
(***************************************************************************)
(* The inductive invariant.  An opener inside a script has created every   *)
(* object of it that exists, so it is the only one there.                  *)
(***************************************************************************)
Building(o) == Applies(o) /\ step[o] > 0

BuilderInv ==
    \A o \in Openers :
        Building(o) =>
            /\ created[version[o]] = step[o]
            /\ version[o] \notin recorded
            /\ \A p \in Openers : Building(p) /\ version[p] = version[o] => p = o

\* What an opener has read or passed is in the ledger, what is in the ledger
\* is complete.
LedgerInv ==
    /\ \A v \in recorded : Complete(v)
    /\ \A v \in Versions : created[v] <= Size[v]
    /\ \A o \in Openers : applied[o] \subseteq recorded
    /\ \A o \in Openers : \A v \in Versions : v < version[o] => v \in recorded
    /\ \A o \in Openers : pc[o] = "open" => version[o] = Last + 1
    /\ \A o \in Openers :
          pc[o] \in {"new", "found", "connected", "read", "notFound"} => version[o] = 1 /\ step[o] = 0

\* Whatever exists of a migration has an opener in front of it that has passed
\* it or created it.
FrontInv ==
    \A v \in Versions :
        created[v] > 0 =>
            \E p \in InFront : version[p] > v \/ (version[p] = v /\ step[p] >= created[v])

MInv == TypeOK /\ BuilderInv /\ LedgerInv /\ FrontInv /\ RaisesBehindAnother
=============================================================================
