------------------------------ MODULE TimeFuncs ------------------------------
(***************************************************************************)
(* DataStructures/time_funcs.c: arithmetic on struct timespec. The units   *)
(* are parameters, so that small ones reach every carry and borrow; the    *)
(* code's are 1000 ms per second, 1000000 ns per ms and uint32_t results.  *)
(***************************************************************************)
EXTENDS Integers

CONSTANTS
    MsPerSec,   \* 1000
    NsPerMs,    \* 1000000
    Word        \* 2^32, the modulus of uint32_t

ASSUME UnitAssumption ==
    MsPerSec \in Nat \ {0} /\ NsPerMs \in Nat \ {0} /\ Word \in Nat \ {0}

NsPerSec == MsPerSec * NsPerMs

\* The point in time, or the duration, that a timespec stands for.
ns(t) == t.tv_sec * NsPerSec + t.tv_nsec

\* The timespec that clock_gettime stores at a point in time.
clock_gettime(c) == [tv_sec |-> c \div NsPerSec, tv_nsec |-> c % NsPerSec]

\* Division of C, which rounds towards zero.
div(a, b) == IF a >= 0 THEN a \div b ELSE -((-a) \div b)

-----------------------------------------------------------------------------

\* Wrong on purpose: a second is not borrowed.
subtract_unborrowed(t, end) ==
    LET sec == end.tv_sec - t.tv_sec
        nsec == end.tv_nsec - t.tv_nsec
    IN  IF sec < 0 THEN [tv_sec |-> 0, tv_nsec |-> 0]
        ELSE [tv_sec |-> sec, tv_nsec |-> IF nsec < 0 THEN nsec + NsPerSec ELSE nsec]

\* Wrong on purpose: no check for a time in an earlier second.
subtract_unclamped(t, end) ==
    LET nsec == end.tv_nsec - t.tv_nsec
        borrow == IF nsec < 0 THEN 1 ELSE 0
    IN  [tv_sec |-> end.tv_sec - t.tv_sec - borrow,
         tv_nsec |-> nsec + borrow * NsPerSec]

\* end - t, or 0 when t is in a later second. In the same second the borrow
\* may leave tv_sec at -1.
subtract_time(t, end) ==
    LET sec == end.tv_sec - t.tv_sec
        nsec == end.tv_nsec - t.tv_nsec
    IN  IF sec < 0 THEN [tv_sec |-> 0, tv_nsec |-> 0]
        ELSE IF nsec < 0 THEN [tv_sec |-> sec - 1, tv_nsec |-> nsec + NsPerSec]
        ELSE [tv_sec |-> sec, tv_nsec |-> nsec]

\* Wrong on purpose: rounded before the second is borrowed.
ms_difference_rounded(t, end) ==
    IF end.tv_sec < t.tv_sec THEN 0
    ELSE (MsPerSec * (end.tv_sec - t.tv_sec)
             + div(end.tv_nsec - t.tv_nsec, NsPerMs)) % Word

get_ms_difference(t, end) ==
    LET sec == end.tv_sec - t.tv_sec
        nsec == end.tv_nsec - t.tv_nsec
    IN  IF sec < 0 THEN 0
        ELSE IF nsec < 0 /\ sec > 0
             THEN (MsPerSec * (sec - 1) + div(nsec + NsPerSec, NsPerMs)) % Word
             ELSE (MsPerSec * sec + div(nsec, NsPerMs)) % Word

\* One carry is enough: both summands are below a second, or one is equal to it.
\* A sum of exactly one second is left as it is.
add_time_ms(t, ms) ==
    LET sec == t.tv_sec + ms \div MsPerSec
        nsec == (ms % MsPerSec) * NsPerMs + t.tv_nsec
    IN  IF nsec > NsPerSec THEN [tv_sec |-> sec + 1, tv_nsec |-> nsec - NsPerSec]
        ELSE [tv_sec |-> sec, tv_nsec |-> nsec]

convert_ms_to_timespec(ms) ==
    [tv_sec |-> ms \div MsPerSec, tv_nsec |-> (ms % MsPerSec) * NsPerMs]

convert_timespec_to_ms(t) ==
    (t.tv_sec * MsPerSec + t.tv_nsec \div NsPerMs) % Word

\* Wrong on purpose: the smaller one.
min_timespec(t, end) == IF t.tv_sec >= end.tv_sec THEN end ELSE t

max_timespec(t, end) ==
    IF /\ t.tv_sec >= end.tv_sec
       /\ \/ t.tv_nsec >= end.tv_nsec
          \/ t.tv_sec - div(t.tv_nsec - end.tv_nsec, NsPerSec) >= end.tv_sec
    THEN t ELSE end
=============================================================================
