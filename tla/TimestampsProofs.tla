-------------------------- MODULE TimestampsProofs --------------------------
(***************************************************************************)
(* On UTC stamps the order of the texts is the order of time, which is     *)
(* what query_cost relies on when it compares started_at with the bounds   *)
(* of a window.                                                            *)
(***************************************************************************)
EXTENDS Timestamps, TLAPS

\* The first place where two texts of five parts differ decides.
LEMMA Lexicographic ==
    ASSUME NEW x, NEW y
    PROVE  (\E i \in 1..5 : x[i] < y[i] /\ \A j \in 1..(i - 1) : x[j] = y[j])
           <=> \/ x[1] < y[1]
               \/ x[1] = y[1] /\ x[2] < y[2]
               \/ x[1] = y[1] /\ x[2] = y[2] /\ x[3] < y[3]
               \/ x[1] = y[1] /\ x[2] = y[2] /\ x[3] = y[3] /\ x[4] < y[4]
               \/ x[1] = y[1] /\ x[2] = y[2] /\ x[3] = y[3] /\ x[4] = y[4] /\ x[5] < y[5]
<1>1. 1..5 = {1, 2, 3, 4, 5}
  BY SMT
<1>2. 1..0 = {} /\ 1..1 = {1} /\ 1..2 = {1, 2} /\ 1..3 = {1, 2, 3} /\ 1..4 = {1, 2, 3, 4}
  BY SMT
<1>3. 1 - 1 = 0 /\ 2 - 1 = 1 /\ 3 - 1 = 2 /\ 4 - 1 = 3 /\ 5 - 1 = 4
  BY SMT
<1> QED BY <1>1, <1>2, <1>3

\* isoformat leaves a zero fraction out, and still the texts of two UTC stamps
\* are in chronological order (sqlite.py:320-334).
THEOREM UTCTextIsChronological ==
    ASSUME NEW s \in Int, NEW m \in Nat, NEW u \in Int, NEW n \in Nat
    PROVE  TextLess(UTC(s, m), UTC(u, n)) <=> Earlier(UTC(s, m), UTC(u, n))
<1> DEFINE x == Text(UTC(s, m))
           y == Text(UTC(u, n))
<1>1. /\ x[1] = s /\ x[2] = (IF m = 0 THEN 0 ELSE 2) /\ x[3] = m /\ x[4] = 0 /\ x[5] = 0
      /\ y[1] = u /\ y[2] = (IF n = 0 THEN 0 ELSE 2) /\ y[3] = n /\ y[4] = 0 /\ y[5] = 0
  BY DEF Text, UTC, Stamp, Sign, Size, Plus, Minus, Point
<1>2. Earlier(UTC(s, m), UTC(u, n)) <=> s < u \/ (s = u /\ m < n)
  BY DEF Earlier, UTC, Stamp
<1>3. TextLess(UTC(s, m), UTC(u, n)) <=> s < u \/ (s = u /\ m < n)
  <2>1. TextLess(UTC(s, m), UTC(u, n))
        <=> \/ x[1] < y[1]
            \/ x[1] = y[1] /\ x[2] < y[2]
            \/ x[1] = y[1] /\ x[2] = y[2] /\ x[3] < y[3]
            \/ x[1] = y[1] /\ x[2] = y[2] /\ x[3] = y[3] /\ x[4] < y[4]
            \/ x[1] = y[1] /\ x[2] = y[2] /\ x[3] = y[3] /\ x[4] = y[4] /\ x[5] < y[5]
    BY Lexicographic DEF TextLess
  <2> HIDE DEF x, y
  <2> QED BY <1>1, <2>1
<1> QED BY <1>2, <1>3
=============================================================================
