-------------------------- MODULE MigrationsProofs --------------------------
(***************************************************************************)
(* The safety of Migrations, for any number of openers and migrations and  *)
(* any length of their scripts, crashes and lock timeouts included, and    *)
(* that together the openers implement SchemaUpgrade.                      *)
(***************************************************************************)
EXTENDS Migrations, TLAPS

\* An empty file and no opener at work.
LEMMA InitMInv == Init => MInv
<1> SUFFICES ASSUME Init PROVE MInv
  OBVIOUS
<1> USE Scripts DEF Init, Versions
<1>1. TypeOK
  <2>1. 1 \in 1..(Last + 1)
    BY SMT
  <2> QED BY <2>1 DEF TypeOK, Place
<1>2. BuilderInv
  BY DEF BuilderInv, Building, Applies
<1>3. LedgerInv
  <2>1. \A v \in Versions : created[v] = 0 /\ Size[v] \in Nat
    OBVIOUS
  <2>2. \A o \in Openers : version[o] = 1 /\ step[o] = 0 /\ pc[o] = "new" /\ applied[o] = {}
    OBVIOUS
  <2> QED BY <2>1, <2>2 DEF LedgerInv, Complete
<1>4. FrontInv
  BY DEF FrontInv
<1>5. RaisesBehindAnother
  BY DEF RaisesBehindAnother
<1> QED BY <1>1, <1>2, <1>3, <1>4, <1>5 DEF MInv

\* Every step keeps the types of ledger, schema and locals.
LEMMA TypeOKStep == TypeOK /\ [Next]_vars => TypeOK'
<1> SUFFICES ASSUME TypeOK, [Next]_vars PROVE TypeOK'
  OBVIOUS
<1> USE Scripts DEF TypeOK, Versions, Place
<1>1. ASSUME NEW o \in Openers, Step(o) PROVE TypeOK'
  <2> USE DEF Goto, schema, locals, Applies, NextVersion
  <2>1. CASE LookForFile(o) \/ Connect(o) \/ CreateLedger(o) \/ ReadApplied(o)
             \/ StatementRaises(o) \/ Opened(o)
    BY <2>1 DEF LookForFile, Connect, CreateLedger, ReadApplied, StatementRaises, Opened
  <2>2. CASE SkipVersion(o)
    <3>1. version[o] + 1 \in 1..(Last + 1)
      BY <2>2 DEF SkipVersion, Skips
    <3> QED BY <2>2, <3>1 DEF SkipVersion
  <2>3. CASE RunStatement(o)
    <3>1. created[version[o]] + 1 \in Nat /\ step[o] + 1 \in Nat /\ version[o] \in 1..Last
      BY <2>3 DEF RunStatement
    <3>2. created' \in [1..Last -> Nat]
      BY <2>3, <3>1 DEF RunStatement
    <3>3. step' \in [Openers -> Nat]
      BY <2>3, <3>1 DEF RunStatement
    <3>4. UNCHANGED <<file, ledger, recorded, pc, applied, version>>
      BY <2>3 DEF RunStatement
    <3>5. TypeOK
      OBVIOUS
    <3> HIDE DEF Goto, schema, locals, Applies, NextVersion
    <3> QED BY <3>2, <3>3, <3>4, <3>5
  <2>4. CASE RecordVersion(o)
    <3>1. version[o] + 1 \in 1..(Last + 1)
      BY <2>4 DEF RecordVersion
    <3>2. version' \in [Openers -> 1..(Last + 1)] /\ step' \in [Openers -> Nat]
      BY <2>4, <3>1 DEF RecordVersion
    <3>3. recorded' \in SUBSET (1..Last)
      BY <2>4 DEF RecordVersion
    <3>4. UNCHANGED <<file, ledger, created, pc, applied>>
      BY <2>4 DEF RecordVersion
    <3>5. TypeOK
      OBVIOUS
    <3> HIDE DEF Goto, schema, locals, Applies, NextVersion
    <3> QED BY <3>2, <3>3, <3>4, <3>5
  <2> QED BY <1>1, <2>1, <2>2, <2>3, <2>4 DEF Step
<1>2. ASSUME NEW o \in Openers, LockTimeout(o) \/ Crash(o) PROVE TypeOK'
  BY <1>2 DEF LockTimeout, Crash, Goto, schema, locals
<1>3. CASE UNCHANGED vars
  BY <1>3 DEF vars
<1> QED BY <1>1, <1>2, <1>3 DEF Next

\* Every step keeps each script with one builder, and the ledger honest.
LEMMA BuilderStep == MInv /\ [Next]_vars => (BuilderInv /\ LedgerInv)'
<1> SUFFICES ASSUME MInv, [Next]_vars PROVE (BuilderInv /\ LedgerInv)'
  OBVIOUS
<1> USE Scripts DEF MInv, TypeOK, Versions
<1>1. ASSUME NEW o \in Openers, Step(o) PROVE (BuilderInv /\ LedgerInv)'
  <2> USE DEF Goto, schema, locals, Applies, NextVersion, Building, BuilderInv, LedgerInv, Complete
  <2>1. CASE LookForFile(o) \/ Connect(o) \/ CreateLedger(o)
    <3>1. UNCHANGED <<recorded, created, applied, version, step>>
      BY <2>1 DEF LookForFile, Connect, CreateLedger
    <3>2. pc[o] \in {"new", "found", "connected"} /\ pc'[o] \in {"notFound", "found", "connected", "read"}
          /\ \A p \in Openers : p # o => pc'[p] = pc[p]
      BY <2>1 DEF LookForFile, Connect, CreateLedger
    <3> QED BY <3>1, <3>2
  <2>2. CASE ReadApplied(o)
    BY <2>2 DEF ReadApplied
  <2>3. CASE StatementRaises(o)
    BY <2>3 DEF StatementRaises
  <2>4. CASE Opened(o)
    BY <2>4 DEF Opened
  <2>5. CASE SkipVersion(o)
    <3>1. /\ version[o] \in Versions /\ version[o] \in recorded /\ pc[o] = "migrate"
          /\ UNCHANGED <<recorded, created, pc, applied>>
          /\ version' = [version EXCEPT ![o] = @ + 1] /\ step' = [step EXCEPT ![o] = 0]
      BY <2>5 DEF SkipVersion, Skips
    <3>2. BuilderInv'
      BY <3>1
    <3>3. LedgerInv'
      BY <3>1
    <3> QED BY <3>2, <3>3
  <2>6. CASE RunStatement(o)
    <3>1. version[o] \notin recorded
      BY <2>6 DEF RunStatement, Exists
    <3>2. created[version[o]] = step[o]
      BY <2>6 DEF RunStatement, Exists
    <3>3. ASSUME NEW p \in Openers, p # o, Building(p) PROVE version[p] # version[o]
      BY <2>6, <3>3 DEF RunStatement, Exists
    <3>4. BuilderInv'
      BY <2>6, <3>1, <3>2, <3>3 DEF RunStatement
    <3>5. LedgerInv'
      BY <2>6, <3>1, <3>2 DEF RunStatement
    <3> QED BY <3>4, <3>5
  <2>7. CASE RecordVersion(o)
    <3>1. Building(o)
      BY <2>7 DEF RecordVersion
    <3>2. BuilderInv'
      BY <2>7, <3>1 DEF RecordVersion
    <3>3. LedgerInv'
      BY <2>7, <3>1 DEF RecordVersion
    <3> QED BY <3>2, <3>3
  <2> QED BY <1>1, <2>1, <2>2, <2>3, <2>4, <2>5, <2>6, <2>7 DEF Step
<1>2. ASSUME NEW o \in Openers, LockTimeout(o) \/ Crash(o) PROVE (BuilderInv /\ LedgerInv)'
  <2>1. /\ UNCHANGED <<recorded, created, applied, version, step>>
        /\ pc'[o] \in {"locked", "dead"} /\ \A p \in Openers : p # o => pc'[p] = pc[p]
    BY <1>2 DEF LockTimeout, Crash, Goto, schema, locals
  <2> QED BY <2>1 DEF Building, Applies, BuilderInv, LedgerInv, Complete
<1>3. CASE UNCHANGED vars
  BY <1>3 DEF vars, Building, Applies, BuilderInv, LedgerInv, Complete
<1> QED BY <1>1, <1>2, <1>3 DEF Next

\* An opener in front stays in front, as far as it was, until it finds an object
\* that exists.
LEMMA FrontAdvances ==
    ASSUME MInv, NEW o \in Openers, Step(o) \/ LockTimeout(o) \/ Crash(o),
           NEW p \in InFront, ~(p = o /\ StatementRaises(o))
    PROVE  /\ p \in InFront'
           /\ version[p] \in Nat /\ version'[p] \in Nat /\ step[p] \in Nat /\ step'[p] \in Nat
           /\ \/ version'[p] > version[p]
              \/ version'[p] = version[p] /\ step'[p] >= step[p]
<1> USE Scripts DEF MInv, TypeOK, Versions, InFront, Goto, schema, locals, NextVersion, Skips, Applies
<1>1. CASE LookForFile(o) \/ Connect(o) \/ CreateLedger(o) \/ ReadApplied(o)
           \/ StatementRaises(o) \/ Opened(o) \/ LockTimeout(o) \/ Crash(o)
  BY <1>1 DEF LookForFile, Connect, CreateLedger, ReadApplied, StatementRaises, Opened, LockTimeout, Crash
<1>2. CASE SkipVersion(o) \/ RunStatement(o) \/ RecordVersion(o)
  BY <1>2 DEF SkipVersion, RunStatement, RecordVersion
<1> QED BY <1>1, <1>2 DEF Step

\* Whatever exists keeps an opener in front of it: an opener that raises was
\* itself behind another.
LEMMA FrontStep == MInv /\ [Next]_vars => (FrontInv /\ RaisesBehindAnother)'
<1> SUFFICES ASSUME MInv, [Next]_vars PROVE (FrontInv /\ RaisesBehindAnother)'
  OBVIOUS
<1> USE Scripts DEF MInv, TypeOK, Versions
<1>1. ASSUME NEW o \in Openers, Step(o) \/ LockTimeout(o) \/ Crash(o)
      PROVE  (FrontInv /\ RaisesBehindAnother)'
  <2>1. CASE StatementRaises(o)
    <3>1. /\ UNCHANGED <<created, version, step>>
          /\ version[o] \in Versions /\ created[version[o]] > step[o]
          /\ o \in InFront /\ InFront' = InFront \ {o}
          /\ \A q \in Openers : pc'[q] = "raised" => q = o \/ pc[q] = "raised"
      BY <2>1 DEF StatementRaises, Applies, Exists, Goto, schema, locals, InFront
    \* The one who has created what o found.
    <3>2. PICK p \in InFront : version[p] > version[o]
                               \/ (version[p] = version[o] /\ step[p] >= created[version[o]])
      <4>1. created[version[o]] > 0
        BY <3>1
      <4> QED BY <3>1, <4>1 DEF FrontInv
    <3>3. p # o /\ p \in InFront' /\ FurtherThan(p, o)
      BY <3>1, <3>2 DEF FurtherThan, InFront
    <3>4. ASSUME NEW v \in Versions, created[v] > 0, version[o] > v \/ (version[o] = v /\ step[o] >= created[v])
          PROVE  version[p] > v \/ (version[p] = v /\ step[p] >= created[v])
      BY <3>1, <3>2, <3>4 DEF InFront
    <3>5. FrontInv'
      BY <3>1, <3>3, <3>4 DEF FrontInv
    <3>6. ASSUME NEW q \in Openers, FurtherThan(o, q) PROVE FurtherThan(p, q)
      BY <3>2, <3>3, <3>6 DEF FurtherThan, InFront
    <3>7. RaisesBehindAnother'
      BY <3>1, <3>3, <3>6 DEF RaisesBehindAnother, FurtherThan
    <3> QED BY <3>5, <3>7
  <2>2. CASE ~StatementRaises(o)
    <3>1. \A p \in InFront :
             /\ p \in InFront'
             /\ version[p] \in Nat /\ version'[p] \in Nat /\ step[p] \in Nat /\ step'[p] \in Nat
             /\ \/ version'[p] > version[p]
                \/ version'[p] = version[p] /\ step'[p] >= step[p]
      BY <1>1, <2>2, FrontAdvances
    <3>2. /\ \A v \in Versions : created'[v] # created[v] =>
                /\ created'[v] = created[v] + 1 /\ o \in InFront
                /\ version'[o] = v /\ step'[o] = created'[v]
          /\ \A q \in Openers : pc'[q] = "raised" =>
                pc[q] = "raised" /\ version'[q] = version[q] /\ step'[q] = step[q]
      <4> USE DEF Goto, schema, locals, NextVersion, Skips, Applies
      <4>1. CASE RunStatement(o)
        <5>1. created[version[o]] = step[o]
          BY <4>1 DEF RunStatement, Exists, BuilderInv, Building
        <5> QED BY <4>1, <5>1 DEF RunStatement, InFront
      <4>2. CASE ~RunStatement(o)
        BY <1>1, <2>2, <4>2 DEF Step, LookForFile, Connect, CreateLedger, ReadApplied, SkipVersion,
               RecordVersion, Opened, LockTimeout, Crash
      <4> QED BY <4>1, <4>2
    <3>3. FrontInv'
      <4> SUFFICES ASSUME NEW v \in Versions, created'[v] > 0
                   PROVE  \E p \in InFront' :
                              version'[p] > v \/ (version'[p] = v /\ step'[p] >= created'[v])
        BY DEF FrontInv
      <4>1. CASE created'[v] = created[v]
        <5>1. PICK p \in InFront : version[p] > v \/ (version[p] = v /\ step[p] >= created[v])
          BY <4>1 DEF FrontInv
        <5>2. /\ p \in InFront'
              /\ version[p] \in Nat /\ version'[p] \in Nat /\ step[p] \in Nat /\ step'[p] \in Nat
              /\ \/ version'[p] > version[p]
                 \/ version'[p] = version[p] /\ step'[p] >= step[p]
          BY <3>1, Zenon
        <5>3. v \in Nat
          OBVIOUS
        <5>4. version'[p] > v \/ (version'[p] = v /\ step'[p] >= created'[v])
          <6>1. created[v] \in Nat
            OBVIOUS
          <6> HIDE DEF MInv, Versions
          <6> QED BY <4>1, <5>1, <5>2, <5>3, <6>1
        <5> QED BY <5>2, <5>4, Zenon
      <4>2. CASE created'[v] # created[v]
        BY <3>1, <3>2, <4>2
      <4> QED BY <4>1, <4>2
    <3>4. RaisesBehindAnother'
      <4> SUFFICES ASSUME NEW q \in Openers, pc'[q] = "raised"
                   PROVE  \E p \in InFront' : FurtherThan(p, q)'
        BY DEF RaisesBehindAnother
      <4>1. PICK p \in InFront : FurtherThan(p, q)
        BY <3>2 DEF RaisesBehindAnother
      <4>2. FurtherThan(p, q)'
        <5>1. version[q] \in Nat /\ step[q] \in Nat
          OBVIOUS
        <5>2. version'[q] = version[q] /\ step'[q] = step[q]
          BY <3>2
        <5> HIDE DEF MInv
        <5> QED BY <3>1, <4>1, <5>1, <5>2 DEF FurtherThan
      <4> QED BY <3>1, <4>2
    <3> QED BY <3>3, <3>4
  <2> QED BY <2>1, <2>2
<1>2. CASE UNCHANGED vars
  BY <1>2 DEF vars, FrontInv, RaisesBehindAnother, InFront, FurtherThan
<1> QED BY <1>1, <1>2 DEF Next

\* MInv is kept by every step.
LEMMA MInvStep == MInv /\ [Next]_vars => MInv'
BY TypeOKStep, BuilderStep, FrontStep DEF MInv

\* MInv is an inductive invariant.
THEOREM MigrationsInductive == Spec => []MInv
BY InitMInv, MInvStep, PTL DEF Spec

\* A store that opens has the whole schema, and so has a version in the ledger.
THEOREM OpensComplete == Spec => []SchemaComplete
<1>1. MInv => SchemaComplete
  BY Scripts DEF MInv, TypeOK, LedgerInv, SchemaComplete, Versions
<1> QED BY <1>1, MigrationsInductive, PTL

\* No version is inserted into the ledger twice: sqlite3 never reports the
\* primary key of _migrations violated.
THEOREM RecordedOnce == Spec => []RecordsOnce
<1>1. MInv => RecordsOnce
  BY Scripts DEF MInv, TypeOK, BuilderInv, Building, Applies, RecordsOnce, Versions
<1> QED BY <1>1, MigrationsInductive, PTL

\* An opener that fails on an existing object is always behind another one.
THEOREM RaisesBehind == Spec => []RaisesBehindAnother
BY MigrationsInductive, PTL DEF MInv

\* No opener is locked out or dies without the faults that make it so.
LEMMA NoneIsLost ==
    ASSUME Faults = {}
    PROVE  Spec => [](\A o \in Openers : pc[o] \notin {"locked", "dead"})
<1> DEFINE Alive == \A o \in Openers : pc[o] \notin {"locked", "dead"}
<1>1. Init => Alive
  BY DEF Init
<1>2. ASSUME TypeOK, Alive, [Next]_vars PROVE Alive'
  BY <1>2 DEF TypeOK, Next, Step, LookForFile, Connect, CreateLedger, ReadApplied, SkipVersion,
         RunStatement, StatementRaises, RecordVersion, Opened, LockTimeout, Crash, NextVersion,
         Goto, schema, locals, vars
<1>3. MInv => TypeOK
  BY DEF MInv
<1> QED BY <1>1, <1>2, <1>3, MigrationsInductive, PTL DEF Spec

\* Without crashes and lock timeouts re-applying is as safe as migrations.py:4
\* says, but for a race: an opener fails only behind one that builds the schema
\* or has built it.
THEOREM FailsInARace ==
    ASSUME Faults = {}
    PROVE  Spec => []FailsOnlyInARace
<1>1. ASSUME RaisesBehindAnother, \A o \in Openers : pc[o] \notin {"locked", "dead"}
      PROVE  FailsOnlyInARace
  BY <1>1 DEF RaisesBehindAnother, FailsOnlyInARace, InFront
<1> QED BY <1>1, RaisesBehind, NoneIsLost, PTL

-----------------------------------------------------------------------------
\* Recording a version installs it, opening a store hands it out, and nothing
\* else is visible in SchemaUpgrade.
LEMMA UpgradeStep == MInv /\ [Next]_vars => [Upgrade!Next]_(Upgrade!upgrade)
<1> SUFFICES ASSUME MInv, [Next]_vars PROVE Upgrade!Next \/ UNCHANGED Upgrade!upgrade
  OBVIOUS
<1> USE Scripts DEF MInv, TypeOK, Versions, Upgrade!upgrade, Goto, schema, locals
<1>0. \A v \in recorded : Complete(v)
  BY DEF LedgerInv
<1>1. ASSUME NEW o \in Openers, Step(o) PROVE Upgrade!Next \/ UNCHANGED Upgrade!upgrade
  <2>1. CASE LookForFile(o) \/ Connect(o) \/ CreateLedger(o) \/ ReadApplied(o)
             \/ SkipVersion(o) \/ StatementRaises(o)
    BY <2>1 DEF LookForFile, Connect, CreateLedger, ReadApplied, SkipVersion, Skips, NextVersion,
           StatementRaises, Applies, Complete
  <2>2. CASE RunStatement(o)
    <3>1. version[o] \notin recorded
      BY <2>2, <1>0 DEF RunStatement, Exists, Complete, Applies
    <3> QED BY <2>2, <3>1 DEF RunStatement, Complete
  <2>3. CASE RecordVersion(o)
    <3> DEFINE v == version[o]
    <3>1. v \in Versions /\ v \notin recorded /\ created[v] = Size[v]
      BY <2>3 DEF RecordVersion, Applies, BuilderInv, Building
    <3>2. 1..(v - 1) \subseteq recorded
      BY <3>1 DEF LedgerInv
    <3>3. UNCHANGED <<created, pc>> /\ recorded' = recorded \cup {v}
      BY <2>3 DEF RecordVersion
    <3> HIDE DEF v
    <3>4. {u \in recorded : Complete(u)} = recorded /\ {u \in recorded' : Complete(u)'} = recorded \cup {v}
      BY <1>0, <3>1, <3>3 DEF Complete
    <3>5. Upgrade!Install(v)
      BY <3>1, <3>2, <3>3, <3>4 DEF Upgrade!Install
    <3> QED BY <3>1, <3>5 DEF Upgrade!Next
  <2>4. CASE Opened(o)
    <3>1. Versions \subseteq recorded
      BY <2>4 DEF Opened, LedgerInv
    <3>2. {u \in recorded : Complete(u)} = 1..Last
      BY <1>0, <3>1
    <3>3. {p \in Openers : pc'[p] = "open"} = {p \in Openers : pc[p] = "open"} \cup {o} /\ pc[o] # "open"
      BY <2>4 DEF Opened
    <3>4. Upgrade!HandOut(o)
      BY <2>4, <3>2, <3>3 DEF Opened, Upgrade!HandOut, Complete
    <3> QED BY <3>4 DEF Upgrade!Next
  <2> QED BY <1>1, <2>1, <2>2, <2>3, <2>4 DEF Step
<1>2. ASSUME NEW o \in Openers, LockTimeout(o) \/ Crash(o) PROVE UNCHANGED Upgrade!upgrade
  BY <1>2 DEF LockTimeout, Crash, Applies, Complete
<1>3. CASE UNCHANGED vars
  BY <1>3 DEF vars, Complete
<1> QED BY <1>1, <1>2, <1>3 DEF Next

\* Racing, dying and locked-out openers implement SchemaUpgrade.
THEOREM MigrationsImplementUpgrade == Spec => ImplementsUpgrade
<1>1. Init => Upgrade!Init
  BY DEF Init, Upgrade!Init
<1>2. MInv /\ [Next]_vars => [Upgrade!Next]_(Upgrade!upgrade)
  BY UpgradeStep
<1> QED BY <1>1, <1>2, MigrationsInductive, PTL DEF Spec, ImplementsUpgrade, Upgrade!Spec
=============================================================================
