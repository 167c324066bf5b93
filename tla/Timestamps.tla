----------------------------- MODULE Timestamps -----------------------------
(***************************************************************************)
(* Aware datetimes, the text datetime.isoformat makes of them, and the     *)
(* window bounds parse_since of observability/cost.py reads.               *)
(*                                                                         *)
(* A stamp has a local time in whole seconds, a fraction of a second and   *)
(* the offset of its zone from UTC.  sqlite3 compares the texts of two     *)
(* stamps byte by byte, and that is TextLess.                              *)
(***************************************************************************)
EXTENDS Integers

Stamp(sec, micro, off) == [sec |-> sec, micro |-> micro, off |-> off]
UTC(sec, micro) == Stamp(sec, micro, 0)

\* The chronological order.
Earlier(a, b) ==
    \/ a.sec - a.off < b.sec - b.off
    \/ a.sec - a.off = b.sec - b.off /\ a.micro < b.micro

\* The character after the whole seconds: + or - of the offset, or the point
\* of a fraction, in the order of ASCII.
Plus  == 0
Minus == 1
Point == 2

Sign(off) == IF off < 0 THEN Minus ELSE Plus
Size(off) == IF off < 0 THEN -off ELSE off

\* Defect: UTC is written as Z, which follows the point in ASCII.
Text_Z(s) ==
    IF s.micro = 0 THEN <<s.sec, 3, 0, 0, 0>> ELSE <<s.sec, Point, s.micro, 3, 0>>

\* isoformat: the fraction is left out when it is zero.
Text(s) ==
    IF s.micro = 0
    THEN <<s.sec, Sign(s.off), Size(s.off), 0, 0>>
    ELSE <<s.sec, Point, s.micro, Sign(s.off), Size(s.off)>>

TextLess(a, b) ==
    LET x == Text(a)
        y == Text(b)
    IN  \E i \in 1..5 : x[i] < y[i] /\ \A j \in 1..(i - 1) : x[j] = y[j]

\* What the cost command accepts for --since and --until: a duration to look
\* back, an ISO datetime with an offset, or one without, which is taken as UTC.
Ago(sec)              == [form |-> "ago", sec |-> sec]
ISO(sec, micro, off)  == [form |-> "iso", sec |-> sec, micro |-> micro, off |-> off]
Naive(sec, micro)     == [form |-> "naive", sec |-> sec, micro |-> micro]

\* parse_since, called at the time now.
ParseSince(input, now) ==
    CASE input.form = "ago"   -> UTC(now.sec - input.sec, now.micro)
      [] input.form = "iso"   -> Stamp(input.sec, input.micro, input.off)
      [] input.form = "naive" -> UTC(input.sec, input.micro)
=============================================================================
