---------------------------- MODULE SchemaUpgrade ---------------------------
(***************************************************************************)
(* What the migrations of a store promise to whoever opens one, without    *)
(* the statements, the ledger and the races of storage/sqlite.py: each     *)
(* migration takes effect once, as a whole and in the order of the         *)
(* versions, and a store is handed out only over the complete schema.      *)
(***************************************************************************)
EXTENDS Naturals

CONSTANTS Openers, Last

VARIABLES
    installed,  \* the versions that are in force
    open        \* the openers that have been handed a store

upgrade == <<installed, open>>

Init == installed = {} /\ open = {}

Install(v) ==
    /\ v \notin installed
    /\ 1..(v - 1) \subseteq installed
    /\ installed' = installed \cup {v}
    /\ UNCHANGED open

HandOut(o) ==
    /\ o \notin open
    /\ installed = 1..Last
    /\ open' = open \cup {o}
    /\ UNCHANGED installed

Next == (\E v \in 1..Last : Install(v)) \/ (\E o \in Openers : HandOut(o))

Spec == Init /\ [][Next]_upgrade
=============================================================================
