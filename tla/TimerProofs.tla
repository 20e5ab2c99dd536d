----------------------------- MODULE TimerProofs -----------------------------
(***************************************************************************)
(* What time_funcs.c computes, for every size of the units, and what       *)
(* follows from that for the expiration thread of an entry.                *)
(***************************************************************************)
EXTENDS EntryTimer, TLAPS

-----------------------------------------------------------------------------
(* Arithmetic.                                                             *)

LEMMA Units ==
    /\ MsPerSec \in Nat \ {0} /\ NsPerMs \in Nat \ {0} /\ Word \in Nat \ {0}
    /\ NsPerSec \in Nat \ {0}
    /\ NsPerSec = MsPerSec * NsPerMs
BY UnitAssumption DEF NsPerSec

LEMMA ProductGrows ==
    ASSUME NEW a \in Int, NEW b \in Int, NEW c \in Nat, a <= b
    PROVE  a * c <= b * c
<1>1. PICK d \in Nat : b = a + d
  <2>1. b - a \in Nat /\ b = a + (b - a)
    OBVIOUS
  <2> QED
    BY <2>1
<1>2. d * c \in Nat
  OBVIOUS
<1>3. b * c = a * c + d * c
  BY <1>1
<1> QED
  BY <1>2, <1>3

LEMMA ProductOfSum ==
    ASSUME NEW a \in Int, NEW b \in Int, NEW c \in Int
    PROVE  (a + b) * c = a * c + b * c
OBVIOUS

LEMMA Division ==
    ASSUME NEW a \in Int, NEW b \in Nat \ {0}
    PROVE  /\ a \div b \in Int /\ a % b \in 0 .. (b - 1)
           /\ a = (a \div b) * b + (a % b)
           /\ a >= 0 => a \div b \in Nat
OBVIOUS

\* The quotient is the only number with a remainder below the divisor.
LEMMA Quotient ==
    ASSUME NEW a \in Int, NEW b \in Nat \ {0}, NEW q \in Int,
           q * b <= a, a < q * b + b
    PROVE  a \div b = q
<1> DEFINE p == a \div b
<1> HIDE DEF p
<1>1. p \in Int /\ p * b <= a /\ a < p * b + b
  BY Division DEF p
<1>2. ~(p + 1 <= q)
  <2> SUFFICES ASSUME p + 1 <= q PROVE FALSE
    OBVIOUS
  <2>1. (p + 1) * b <= q * b
    BY <1>1, ProductGrows
  <2>2. (p + 1) * b = p * b + b
    BY <1>1
  <2> QED
    BY <1>1, <2>1, <2>2
<1>3. ~(q + 1 <= p)
  <2> SUFFICES ASSUME q + 1 <= p PROVE FALSE
    OBVIOUS
  <2>1. (q + 1) * b <= p * b
    BY <1>1, ProductGrows
  <2>2. (q + 1) * b = q * b + b
    OBVIOUS
  <2> QED
    BY <1>1, <2>1, <2>2
<1> QED
  BY <1>1, <1>2, <1>3 DEF p

\* A whole number of units passes through a division.
LEMMA QuotientOfSum ==
    ASSUME NEW s \in Int, NEW r \in Int, NEW b \in Nat \ {0}
    PROVE  (s * b + r) \div b = s + r \div b
<1> DEFINE q == r \div b
<1> HIDE DEF q
<1>1. q \in Int /\ q * b <= r /\ r < q * b + b
  BY Division DEF q
<1>2. (s + q) * b = s * b + q * b /\ s * b \in Int /\ q * b \in Int
  BY <1>1
<1>3. (s + q) * b <= s * b + r /\ s * b + r < (s + q) * b + b
  BY <1>1, <1>2
<1>4. (s * b + r) \div b = s + q
  BY <1>1, <1>2, <1>3, Quotient
<1> QED
  BY <1>4 DEF q

LEMMA BelowModulus ==
    ASSUME NEW b \in Nat \ {0}, NEW a \in 0 .. (b - 1)
    PROVE  a % b = a
OBVIOUS

\* A quotient that is bounded by what its dividend is bounded by.
LEMMA QuotientBelow ==
    ASSUME NEW a \in Nat, NEW b \in Nat \ {0}, NEW k \in Nat, a <= k * b
    PROVE  a \div b \in 0 .. k
<1> DEFINE q == a \div b
<1> HIDE DEF q
<1>1. q \in Nat /\ q * b <= a
  BY Division DEF q
<1>2. ~(k + 1 <= q)
  <2> SUFFICES ASSUME k + 1 <= q PROVE FALSE
    OBVIOUS
  <2>1. (k + 1) * b <= q * b /\ (k + 1) * b = k * b + b
    BY <1>1, ProductGrows
  <2> QED
    BY <1>1, <2>1
<1> QED
  BY <1>1, <1>2 DEF q

-----------------------------------------------------------------------------
(* time_funcs.c.                                                           *)

\* A timespec as clock_gettime stores it, and one that add_time_ms leaves: it
\* may have a whole second in tv_nsec.
Normal == [tv_sec : Nat, tv_nsec : 0 .. (NsPerSec - 1)]

Loose == [tv_sec : Nat, tv_nsec : 0 .. NsPerSec]

LEMMA NormalIsLoose == Normal \subseteq Loose
BY Units DEF Normal, Loose

LEMMA TimeIsNumber ==
    ASSUME NEW t, t.tv_sec \in Int, t.tv_nsec \in Int
    PROVE  ns(t) \in Int
BY Units DEF ns

LEMMA ClockReads ==
    ASSUME NEW c \in Nat
    PROVE  clock_gettime(c) \in Normal /\ ns(clock_gettime(c)) = c
<1> DEFINE K == NsPerSec
<1> HIDE DEF K
<1>a. K \in Nat \ {0}
  BY Units DEF K
<1>b. /\ c \div K \in Nat /\ c % K \in 0 .. (K - 1)
      /\ c = (c \div K) * K + (c % K)
  BY <1>a
<1>1. /\ c \div NsPerSec \in Nat /\ c % NsPerSec \in 0 .. (NsPerSec - 1)
      /\ c = (c \div NsPerSec) * NsPerSec + (c % NsPerSec)
  BY <1>b DEF K
<1> QED
  BY <1>1 DEF clock_gettime, Normal, ns

\* A number of ms in seconds and nanoseconds.
LEMMA MsInNs ==
    ASSUME NEW ms \in Nat
    PROVE  /\ ms \div MsPerSec \in Nat
           /\ (ms % MsPerSec) * NsPerMs \in 0 .. (NsPerSec - 1)
           /\ (ms \div MsPerSec) * NsPerSec + (ms % MsPerSec) * NsPerMs = ms * NsPerMs
<1> DEFINE q == ms \div MsPerSec
           r == ms % MsPerSec
<1> HIDE DEF q, r
<1>0. MsPerSec \in Nat \ {0}
  BY Units
<1>1. q \in Nat /\ r \in 0 .. (MsPerSec - 1) /\ ms = q * MsPerSec + r
  BY <1>0 DEF q, r
<1>2. r * NsPerMs \in Nat /\ r * NsPerMs <= (MsPerSec - 1) * NsPerMs
  BY <1>1, Units, ProductGrows
<1>3. (MsPerSec - 1) * NsPerMs = NsPerSec - NsPerMs
  BY Units
<1>4. q * NsPerSec = (q * MsPerSec) * NsPerMs
  BY <1>1, Units
<1>5. q * MsPerSec \in Nat
  BY <1>1, Units
<1>6. (q * MsPerSec + r) * NsPerMs = (q * MsPerSec) * NsPerMs + r * NsPerMs
  BY <1>1, <1>5, Units, ProductOfSum
<1> QED
  BY <1>1, <1>2, <1>3, <1>4, <1>6, Units DEF q, r

LEMMA ConvertedFromMs ==
    ASSUME NEW ms \in Nat
    PROVE  /\ convert_ms_to_timespec(ms) \in Normal
           /\ ns(convert_ms_to_timespec(ms)) = ms * NsPerMs
BY MsInNs DEF convert_ms_to_timespec, Normal, ns

\* add_time_ms adds: one carry is enough, and what is left in tv_nsec is at most
\* a second.
LEMMA TimeAdded ==
    ASSUME NEW t \in Normal, NEW ms \in Nat
    PROVE  /\ add_time_ms(t, ms) \in Loose
           /\ ns(add_time_ms(t, ms)) = ns(t) + ms * NsPerMs
<1> DEFINE p == ms \div MsPerSec
           u == (ms % MsPerSec) * NsPerMs
           sec == t.tv_sec + p
           nsec == u + t.tv_nsec
<1>0. p \in Nat /\ u \in 0 .. (NsPerSec - 1) /\ p * NsPerSec + u = ms * NsPerMs
  BY MsInNs
<1> HIDE DEF p, u, sec, nsec
<1>1. t.tv_sec \in Nat /\ t.tv_nsec \in 0 .. (NsPerSec - 1)
  BY DEF Normal
<1>2. sec \in Nat /\ nsec \in 0 .. (2 * NsPerSec - 2)
  BY <1>0, <1>1, Units DEF sec, nsec
<1>3. sec * NsPerSec + nsec = ns(t) + ms * NsPerMs
  <2>1. sec * NsPerSec = t.tv_sec * NsPerSec + p * NsPerSec
    BY <1>0, <1>1, Units, ProductOfSum DEF sec
  <2>2. ns(t) = t.tv_sec * NsPerSec + t.tv_nsec /\ nsec = u + t.tv_nsec
    BY DEF ns, nsec
  <2>3. t.tv_sec * NsPerSec \in Int /\ p * NsPerSec \in Int
    BY <1>0, <1>1, Units
  <2> QED
    BY <1>0, <1>1, <2>1, <2>2, <2>3
<1>4. add_time_ms(t, ms) = IF nsec > NsPerSec
                           THEN [tv_sec |-> sec + 1, tv_nsec |-> nsec - NsPerSec]
                           ELSE [tv_sec |-> sec, tv_nsec |-> nsec]
  BY DEF add_time_ms, sec, nsec, p, u
<1>5. (sec + 1) * NsPerSec = sec * NsPerSec + NsPerSec
  BY <1>2, Units
<1> QED
  BY <1>2, <1>3, <1>4, <1>5, Units DEF Loose, ns

\* subtract_time: 0 when the end is in an earlier second; otherwise the exact
\* difference, with tv_nsec between 0 and a second, and tv_sec at -1 exactly
\* when the end is earlier in the same second.
LEMMA TimeSubtracted ==
    ASSUME NEW t \in Normal, NEW e \in Loose
    PROVE  LET left == subtract_time(t, e)
           IN  /\ left.tv_sec \in Nat \cup {-1} /\ left.tv_nsec \in 0 .. NsPerSec
               /\ e.tv_sec < t.tv_sec => ns(left) = 0 /\ ns(e) <= ns(t) /\ left \in Normal
               /\ e.tv_sec >= t.tv_sec => ns(left) = ns(e) - ns(t)
               /\ left.tv_sec = -1 => ns(left) < 0 /\ ns(left) > -NsPerSec
               /\ left.tv_nsec = NsPerSec => e.tv_nsec = NsPerSec
<1> DEFINE sec == e.tv_sec - t.tv_sec
           nsec == e.tv_nsec - t.tv_nsec
           left == subtract_time(t, e)
<1> HIDE DEF sec, nsec, left
<1>1. /\ t.tv_sec \in Nat /\ t.tv_nsec \in 0 .. (NsPerSec - 1)
      /\ e.tv_sec \in Nat /\ e.tv_nsec \in 0 .. NsPerSec
      /\ NsPerSec \in Nat \ {0}
  BY Units DEF Normal, Loose
<1>2. sec \in Int /\ nsec \in (1 - NsPerSec) .. NsPerSec
  BY <1>1 DEF sec, nsec
<1>3. left = IF sec < 0 THEN [tv_sec |-> 0, tv_nsec |-> 0]
             ELSE IF nsec < 0 THEN [tv_sec |-> sec - 1, tv_nsec |-> nsec + NsPerSec]
             ELSE [tv_sec |-> sec, tv_nsec |-> nsec]
  BY DEF left, subtract_time, sec, nsec
<1>4. ns(e) \in Int /\ ns(t) \in Int /\ ns(e) - ns(t) = sec * NsPerSec + nsec
  <2>1. e.tv_sec * NsPerSec = sec * NsPerSec + t.tv_sec * NsPerSec
    BY <1>1, <1>2, ProductOfSum DEF sec
  <2> QED
    BY <1>1, <1>2, <2>1 DEF ns, nsec
<1>5. CASE sec < 0
  <2>1. left = [tv_sec |-> 0, tv_nsec |-> 0] /\ ns(left) = 0
    BY <1>1, <1>3, <1>5 DEF ns
  <2>2. sec * NsPerSec <= (-1) * NsPerSec /\ (-1) * NsPerSec = -NsPerSec
    BY <1>1, <1>2, <1>5, ProductGrows
  <2>3. ns(e) <= ns(t)
    BY <1>1, <1>2, <1>4, <2>2
  <2>4. e.tv_sec < t.tv_sec /\ left \in Normal
    BY <1>1, <1>5, <2>1 DEF sec, Normal
  <2> QED
    BY <1>1, <2>1, <2>3, <2>4 DEF left
<1>6. CASE sec >= 0 /\ nsec < 0
  <2>1. left = [tv_sec |-> sec - 1, tv_nsec |-> nsec + NsPerSec]
    BY <1>2, <1>3, <1>6
  <2>2. (sec - 1) * NsPerSec = sec * NsPerSec - NsPerSec
    BY <1>1, <1>2
  <2>3. ns(left) = ns(e) - ns(t)
    BY <1>1, <1>2, <1>4, <2>1, <2>2 DEF ns
  <2>4. sec = 0 => ns(left) = nsec
    BY <1>1, <1>2, <1>4, <2>3
  <2>5. e.tv_sec >= t.tv_sec
    BY <1>1, <1>6 DEF sec
  <2> QED
    BY <1>1, <1>2, <1>6, <2>1, <2>3, <2>4, <2>5 DEF left
<1>7. CASE sec >= 0 /\ nsec >= 0
  <2>1. left = [tv_sec |-> sec, tv_nsec |-> nsec]
    BY <1>2, <1>3, <1>7
  <2>2. ns(left) = ns(e) - ns(t)
    BY <1>4, <2>1 DEF ns
  <2>3. nsec = NsPerSec => e.tv_nsec = NsPerSec
    BY <1>1 DEF nsec
  <2>4. e.tv_sec >= t.tv_sec
    BY <1>1, <1>7 DEF sec
  <2> QED
    BY <1>1, <1>2, <1>7, <2>1, <2>2, <2>3, <2>4 DEF left
<1> QED
  BY <1>2, <1>5, <1>6, <1>7

\* The ms of a duration, rounded down, before they are cut to a word.
LEMMA ConvertedToMs ==
    ASSUME NEW t, t.tv_sec \in Int, t.tv_nsec \in Int
    PROVE  /\ t.tv_sec * MsPerSec + (t.tv_nsec \div NsPerMs) = ns(t) \div NsPerMs
           /\ convert_timespec_to_ms(t) = (ns(t) \div NsPerMs) % Word
           /\ convert_timespec_to_ms(t) \in 0 .. (Word - 1)
<1> DEFINE s == t.tv_sec * MsPerSec
<1>1. s \in Int /\ NsPerMs \in Nat \ {0} /\ Word \in Nat \ {0}
  BY Units
<1>2. ns(t) = s * NsPerMs + t.tv_nsec
  BY Units DEF ns
<1> HIDE DEF s
<1>3. s + (t.tv_nsec \div NsPerMs) = ns(t) \div NsPerMs
  <2>1. (s * NsPerMs + t.tv_nsec) \div NsPerMs = s + (t.tv_nsec \div NsPerMs)
    BY <1>1, QuotientOfSum
  <2> QED
    BY <1>2, <2>1
<1> DEFINE m == s + (t.tv_nsec \div NsPerMs)
<1>4. m \in Int
  BY <1>1
<1>5. convert_timespec_to_ms(t) = m % Word
  BY DEF convert_timespec_to_ms, s
<1> HIDE DEF m
<1>6. m % Word \in 0 .. (Word - 1)
  BY <1>1, <1>4
<1> QED
  BY <1>3, <1>5, <1>6 DEF m, s

-----------------------------------------------------------------------------
(* The entry and its thread.                                               *)

\* What a RREP, a RREQ or a constant can set: at most Word - 1 ms from now.
Reachable(e) == e \in Loose /\ ns(e) <= clock + (Word - 1) * NsPerMs

\* The inductive invariant. The bound on time_out is what keeps the uint32_t
\* results from wrapping.
TimerInv ==
    /\ clock \in Nat
    /\ Reachable(time_out)
    /\ timer \in [stage : {"none", "starting", "sleeping", "spinning"}, due : Nat]
    /\ WakesOnTime
    /\ SpinsOnlyIfLate

LEMMA NowReads ==
    ASSUME TimerInv
    PROVE  now \in Normal /\ ns(now) = clock
BY ClockReads DEF TimerInv, now

\* A time_out that is set to a number of ms from now.
LEMMA SetFromNow ==
    ASSUME TimerInv, NEW ms \in 0 .. (Word - 1)
    PROVE  Reachable(add_time_ms(now, ms)) /\ ns(add_time_ms(now, ms)) = clock + ms * NsPerMs
<1>1. now \in Normal /\ ns(now) = clock /\ clock \in Nat
  BY NowReads DEF TimerInv
<1>2. ms \in Nat /\ Word \in Nat \ {0} /\ NsPerMs \in Nat
  BY Units
<1>3. /\ add_time_ms(now, ms) \in Loose
      /\ ns(add_time_ms(now, ms)) = clock + ms * NsPerMs
  BY <1>1, <1>2, TimeAdded
<1>4. ms * NsPerMs <= (Word - 1) * NsPerMs
  BY <1>2, ProductGrows
<1>5. ms * NsPerMs \in Int /\ (Word - 1) * NsPerMs \in Int
  BY <1>2
<1> QED
  BY <1>1, <1>3, <1>4, <1>5 DEF Reachable

LEMMA CreatedReachable ==
    ASSUME TimerInv, NEW ms \in 0 .. (Word - 1)
    PROVE  Reachable(created(ms))
BY SetFromNow DEF created, TimerInv

\* Every handler ends with set_expiration_timer.
LEMMA HandlerKeepsInv ==
    ASSUME TimerInv, NEW old, NEW ms \in 0 .. (Word - 1), Reachable(old),
           set_expiration_timer(old, ms), clock' = clock
    PROVE  TimerInv'
<1>1. Reachable(time_out')
  BY SetFromNow DEF set_expiration_timer
<1>2. timer' = [stage |-> "starting", due |-> 0]
  BY DEF set_expiration_timer
<1>3. timer' \in [stage : {"none", "starting", "sleeping", "spinning"}, due : Nat]
  BY <1>2
<1>4. timer'.stage = "starting"
  BY <1>2
<1> QED
  BY <1>1, <1>3, <1>4 DEF TimerInv, Reachable, WakesOnTime, SpinsOnlyIfLate

\* What route_by_rreq compares, and what it tells the timer.
LEMMA LongestInMs ==
    ASSUME TimerInv, NEW min \in Minimal, NEW left, left = subtract_time(now, created(0))
    PROVE  /\ max_timespec(convert_ms_to_timespec(min), left) \in
                 {convert_ms_to_timespec(min), left}
           /\ convert_timespec_to_ms(max_timespec(convert_ms_to_timespec(min), left))
                 \in 0 .. (Word - 1)
<1>1. max_timespec(convert_ms_to_timespec(min), left) \in {convert_ms_to_timespec(min), left}
  BY DEF max_timespec
<1>2. 0 \in 0 .. (Word - 1) /\ min \in Nat
  BY Units, TimerAssumption
<1>3. now \in Normal /\ created(0) \in Loose
  BY <1>2, NowReads, CreatedReachable DEF Reachable
<1>4. left.tv_sec \in Int /\ left.tv_nsec \in Int
  BY <1>3, TimeSubtracted
<1>5. /\ convert_ms_to_timespec(min).tv_sec \in Int
      /\ convert_ms_to_timespec(min).tv_nsec \in Int
  BY <1>2, ConvertedFromMs DEF Normal
<1> QED
  BY <1>1, <1>4, <1>5, ConvertedToMs

\* The thread that starts sleeps until time_out, or cannot sleep.
LEMMA StartKeepsInv ==
    ASSUME TimerInv, timer_starts
    PROVE  TimerInv'
<1> DEFINE left == subtract_time(now, time_out)
<1>1. now \in Normal /\ ns(now) = clock /\ clock \in Nat /\ time_out \in Loose
  BY NowReads DEF TimerInv, Reachable
<1>2. /\ left.tv_sec \in Nat \cup {-1} /\ left.tv_nsec \in 0 .. NsPerSec
      /\ time_out.tv_sec < now.tv_sec => ns(left) = 0 /\ ns(time_out) <= clock /\ left \in Normal
      /\ time_out.tv_sec >= now.tv_sec => ns(left) = ns(time_out) - clock
      /\ left.tv_sec = -1 => ns(left) < 0 /\ ns(left) > -NsPerSec
      /\ left.tv_nsec = NsPerSec => time_out.tv_nsec = NsPerSec
  BY <1>1, TimeSubtracted
<1>3. /\ timer' = IF nanosleep_accepts(left)
                  THEN [stage |-> "sleeping", due |-> clock + ns(left)]
                  ELSE [stage |-> "spinning", due |-> clock]
      /\ UNCHANGED <<clock, time_out>>
  BY DEF timer_starts
<1> HIDE DEF left
<1>4. ns(left) \in Int /\ ns(time_out) \in Int /\ NsPerSec \in Nat \ {0}
  BY <1>1, <1>2, Units, TimeIsNumber DEF Loose
<1>5. now.tv_sec \in Int /\ time_out.tv_sec \in Int
  BY <1>1 DEF Normal, Loose
<1>6. CASE nanosleep_accepts(left)
  <2>1. ns(left) >= 0
    <3>1. left.tv_sec \in Nat /\ left.tv_nsec \in Nat
      BY <1>2, <1>6, Units DEF nanosleep_accepts
    <3> QED
      BY <3>1, Units DEF ns
  <2>2. timer' = [stage |-> "sleeping", due |-> clock + ns(left)]
    BY <1>3, <1>6
  <2>3. \/ clock + ns(left) = ns(time_out)
        \/ clock + ns(left) > ns(time_out) /\ clock + ns(left) <= clock
    BY <1>1, <1>2, <1>4, <1>5
  <2>4. clock + ns(left) \in Nat
    BY <1>1, <1>4, <2>1
  <2>5. /\ timer'.stage = "sleeping" /\ timer'.due = clock + ns(left)
        /\ timer' \in [stage : {"none", "starting", "sleeping", "spinning"}, due : Nat]
    BY <2>2, <2>4
  <2> QED
    BY <1>3, <2>3, <2>5 DEF TimerInv, Reachable, WakesOnTime, SpinsOnlyIfLate, ns
<1>7. CASE ~nanosleep_accepts(left)
  <2>1. timer' = [stage |-> "spinning", due |-> clock]
    BY <1>3, <1>7
  <2>2. left.tv_sec = -1 \/ left.tv_nsec = NsPerSec
    BY <1>2, <1>4, <1>7 DEF nanosleep_accepts
  <2>3. left.tv_sec = -1 => time_out.tv_sec >= now.tv_sec
    BY <1>2, <1>5 DEF Normal
  <2>4. clock - ns(time_out) \in 1 .. (NsPerSec - 1) \/ time_out.tv_nsec = NsPerSec
    BY <1>1, <1>2, <1>4, <2>2, <2>3
  <2>5. /\ timer'.stage = "spinning" /\ timer'.due = clock
        /\ timer' \in [stage : {"none", "starting", "sleeping", "spinning"}, due : Nat]
    BY <1>1, <2>1
  <2> QED
    BY <1>3, <2>4, <2>5 DEF TimerInv, Reachable, WakesOnTime, SpinsOnlyIfLate, late, ns
<1> QED
  BY <1>6, <1>7

-----------------------------------------------------------------------------
(* Every step.                                                             *)

LEMMA TimerInvInit == Init => TimerInv
<1> SUFFICES ASSUME Init PROVE TimerInv
  OBVIOUS
<1>1. /\ clock = 0 /\ time_out = [tv_sec |-> 0, tv_nsec |-> 0]
      /\ timer = [stage |-> "none", due |-> 0]
  BY DEF Init, NoTimer
<1>2. time_out \in Loose /\ ns(time_out) = 0
  BY <1>1, Units DEF Loose, ns
<1>3. (Word - 1) * NsPerMs \in Nat
  BY Units
<1> QED
  BY <1>1, <1>2, <1>3 DEF TimerInv, Reachable, WakesOnTime, SpinsOnlyIfLate

LEMMA TimerInvNext == TimerInv /\ [Next]_vars => TimerInv'
<1> SUFFICES ASSUME TimerInv, [Next]_vars PROVE TimerInv'
  OBVIOUS
<1>0. 0 \in 0 .. (Word - 1) /\ ACTIVE_ROUTE_TIMEOUT \in 0 .. (Word - 1)
      /\ DELETE_PERIOD \in 0 .. (Word - 1)
  BY Units, TimerAssumption
<1>1. CASE time_passes
  <2>1. clock' = clock + 1 /\ UNCHANGED <<time_out, timer>> /\ clock \in Nat
    BY <1>1 DEF time_passes, TimerInv
  <2>2. ns(time_out) \in Int /\ (Word - 1) * NsPerMs \in Int
    BY Units, TimeIsNumber DEF TimerInv, Reachable, Loose
  <2>3. Reachable(time_out)'
    BY <2>1, <2>2 DEF TimerInv, Reachable, ns
  <2>4. WakesOnTime' /\ SpinsOnlyIfLate'
    BY <2>1, <2>2 DEF TimerInv, WakesOnTime, SpinsOnlyIfLate, late, ns
  <2> QED
    BY <2>1, <2>3, <2>4 DEF TimerInv
<1>2. ASSUME NEW ms \in Lifetimes, route_by_rrep(ms) PROVE TimerInv'
  <2>1. ms \in 0 .. (Word - 1)
    BY TimerAssumption
  <2> QED
    BY <1>2, <2>1, CreatedReachable, HandlerKeepsInv DEF route_by_rrep
<1>3. CASE previous_hop
  BY <1>0, <1>3, SetFromNow, HandlerKeepsInv DEF previous_hop
<1>4. ASSUME NEW min \in Minimal, route_by_rreq(min) PROVE TimerInv'
  <2> DEFINE left == subtract_time(now, created(0))
             ms == convert_timespec_to_ms(max_timespec(convert_ms_to_timespec(min), left))
  <2>1. ms \in 0 .. (Word - 1)
    BY LongestInMs
  <2>2. set_expiration_timer(created(0), ms) /\ clock' = clock
    BY <1>4 DEF route_by_rreq
  <2>3. Reachable(created(0))
    BY <1>0, CreatedReachable
  <2> HIDE DEF ms
  <2> QED
    BY <2>1, <2>2, <2>3, HandlerKeepsInv
<1>5. CASE route_breaks
  <2>1. Reachable(time_out)
    BY DEF TimerInv
  <2> QED
    BY <1>0, <1>5, <2>1, HandlerKeepsInv DEF route_breaks
<1>6. CASE send_rrep_intermediate
  BY <1>6 DEF send_rrep_intermediate, TimerInv, Reachable, WakesOnTime, SpinsOnlyIfLate, late, ns
<1>7. CASE timer_starts
  BY <1>7, StartKeepsInv
<1>8. CASE timer_fires
  <2>1. CASE status = "ROUTE_VALID"
    <3>1. set_expiration_timer(time_out, DELETE_PERIOD) /\ clock' = clock
      BY <1>8, <2>1, TimerAssumption DEF timer_fires, set_expiration_timer
    <3>2. Reachable(time_out)
      BY DEF TimerInv
    <3> QED
      BY <1>0, <3>1, <3>2, HandlerKeepsInv
  <2>2. CASE status # "ROUTE_VALID"
    <3>1. timer' = [stage |-> "none", due |-> 0] /\ UNCHANGED <<clock, time_out>>
      BY <1>8, <2>2 DEF timer_fires, NoTimer
    <3>2. /\ timer'.stage = "none"
          /\ timer' \in [stage : {"none", "starting", "sleeping", "spinning"}, due : Nat]
      BY <3>1
    <3> QED
      BY <3>1, <3>2 DEF TimerInv, Reachable, WakesOnTime, SpinsOnlyIfLate, ns
  <2> QED
    BY <2>1, <2>2
<1>9. CASE UNCHANGED vars
  BY <1>9 DEF vars, TimerInv, Reachable, WakesOnTime, SpinsOnlyIfLate, late, ns
<1> QED
  BY <1>1, <1>2, <1>3, <1>4, <1>5, <1>6, <1>7, <1>8, <1>9 DEF Next

-----------------------------------------------------------------------------
(* What the handlers compute from time_out.                                *)

\* The ms that are left fit into a word.
LEMMA LeftInMs ==
    ASSUME TimerInv
    PROVE  LET left == ns(time_out) - clock
           IN  /\ left \in Int /\ clock \in Nat /\ ns(time_out) \in Int
               /\ left >= 0 => /\ left \div NsPerMs \in 0 .. (Word - 1)
                              /\ (left \div NsPerMs) % Word = left \div NsPerMs
<1> DEFINE left == ns(time_out) - clock
<1>1. clock \in Nat /\ ns(time_out) \in Int /\ Word - 1 \in Nat /\ NsPerMs \in Nat \ {0}
  BY Units, TimeIsNumber DEF TimerInv, Reachable, Loose
<1>2. left \in Int /\ left <= (Word - 1) * NsPerMs
  BY <1>1 DEF TimerInv, Reachable
<1> HIDE DEF left
<1>3. ASSUME left >= 0
      PROVE  left \div NsPerMs \in 0 .. (Word - 1) /\ (left \div NsPerMs) % Word = left \div NsPerMs
  <2>1. left \in Nat
    BY <1>2, <1>3
  <2>2. left \div NsPerMs \in 0 .. (Word - 1)
    BY <1>1, <1>2, <2>1, QuotientBelow
  <2> QED
    BY <2>2, Units, BelowModulus
<1> QED
  BY <1>1, <1>2, <1>3 DEF left

\* The same for what subtract_time makes of it.
LEMMA SubtractedNow ==
    ASSUME TimerInv, NEW left, left = subtract_time(now, time_out)
    PROVE  /\ left.tv_sec \in Int /\ left.tv_nsec \in 0 .. NsPerSec /\ ns(left) \in Int
           /\ \/ ns(left) = 0 /\ left.tv_sec = 0 /\ ns(time_out) <= clock
              \/ /\ ns(left) = ns(time_out) - clock
                 /\ left.tv_sec >= 0 => ns(left) >= 0
                 /\ left.tv_sec < 0 => ns(left) < 0 /\ ns(left) > -NsPerSec
<1>1. now \in Normal /\ ns(now) = clock /\ time_out \in Loose
  BY NowReads DEF TimerInv, Reachable
<1>2. /\ left.tv_sec \in Nat \cup {-1} /\ left.tv_nsec \in 0 .. NsPerSec
      /\ time_out.tv_sec < now.tv_sec => ns(left) = 0 /\ ns(time_out) <= clock /\ left \in Normal
      /\ time_out.tv_sec >= now.tv_sec => ns(left) = ns(time_out) - clock
      /\ left.tv_sec = -1 => ns(left) < 0 /\ ns(left) > -NsPerSec
  BY <1>1, TimeSubtracted
<1>3. now.tv_sec \in Int /\ time_out.tv_sec \in Int /\ NsPerSec \in Nat \ {0}
  BY <1>1, Units DEF Normal, Loose
<1>4. ns(left) \in Int
  BY <1>2, <1>3, TimeIsNumber
<1>5. left.tv_sec >= 0 => ns(left) >= 0
  <2> HAVE left.tv_sec >= 0
  <2>1. left.tv_sec * NsPerSec \in Nat
    BY <1>2, <1>3
  <2> QED
    BY <1>2, <2>1 DEF ns
<1>6. CASE time_out.tv_sec < now.tv_sec
  <2>1. left = [tv_sec |-> 0, tv_nsec |-> 0]
    BY <1>1, <1>3, <1>6 DEF subtract_time, Normal, Loose
  <2> QED
    BY <1>2, <1>4, <1>6, <2>1
<1>7. CASE time_out.tv_sec >= now.tv_sec
  BY <1>2, <1>4, <1>5, <1>7
<1> QED
  BY <1>3, <1>6, <1>7

LEMMA OfferedInMs ==
    ASSUME TimerInv, send_rrep_intermediate
    PROVE  LET left == ns(time_out) - clock
           IN  IF left >= 0 THEN offered' = left \div NsPerMs
               ELSE offered' = 0 \/ left > -NsPerSec
<1> DEFINE left == ns(time_out) - clock
           t == subtract_time(now, time_out)
<1>1. /\ left \in Int /\ clock \in Nat /\ ns(time_out) \in Int
      /\ left >= 0 => (left \div NsPerMs) % Word = left \div NsPerMs
  BY LeftInMs
<1>2. /\ t.tv_sec \in Int /\ t.tv_nsec \in Int /\ ns(t) \in Int
      /\ \/ ns(t) = 0 /\ t.tv_sec = 0 /\ left <= 0
         \/ ns(t) = left /\ (left >= 0 \/ left > -NsPerSec)
  BY <1>1, SubtractedNow
<1>3. offered' = convert_timespec_to_ms(t)
  BY DEF send_rrep_intermediate
<1> HIDE DEF t, left
<1>4. offered' = (ns(t) \div NsPerMs) % Word
  BY <1>2, <1>3, ConvertedToMs
<1>5. 0 \div NsPerMs = 0 /\ 0 % Word = 0
  BY Units
<1>6. CASE ns(t) = 0 /\ left <= 0
  BY <1>1, <1>4, <1>5, <1>6 DEF left
<1>7. CASE ns(t) = left /\ (left >= 0 \/ left > -NsPerSec)
  BY <1>1, <1>4, <1>7 DEF left
<1> QED
  BY <1>2, <1>6, <1>7

\* A small negative number as an unsigned one.
LEMMA WrapsBelowZero ==
    ASSUME NEW w \in Nat \ {0}, NEW m \in Nat, NEW q \in 1 .. (m - 1)
    PROVE  (-q) % w > w - m
<1> DEFINE d == (-q) \div w
           r == (-q) % w
<1>1. d \in Int /\ r \in 0 .. (w - 1) /\ -q = d * w + r
  OBVIOUS
<1> HIDE DEF d, r
<1>2. CASE d >= 0
  <2>1. d * w \in Nat
    BY <1>1, <1>2
  <2> QED
    BY <1>1, <2>1
<1>3. CASE d = -1
  <2>1. d * w = -w
    BY <1>3
  <2> QED
    BY <1>1, <2>1 DEF r
<1>4. CASE d <= -2
  <2>1. d * w <= (-2) * w /\ d * w \in Int
    BY <1>1, <1>4, ProductGrows
  <2> QED
    BY <1>1, <2>1 DEF r
<1> QED
  BY <1>1, <1>2, <1>3, <1>4

LEMMA DifferenceRounded ==
    ASSUME TimerInv
    PROVE  DifferenceInMs
<1> DEFINE sec == time_out.tv_sec - now.tv_sec
           nsec == time_out.tv_nsec - now.tv_nsec
           left == ns(time_out) - clock
           got == get_ms_difference(now, time_out)
<1>1. now \in Normal /\ ns(now) = clock /\ time_out \in Loose
  BY NowReads DEF TimerInv, Reachable
<1>2. /\ sec \in Int /\ nsec \in (1 - NsPerSec) .. NsPerSec
      /\ NsPerSec \in Nat \ {0} /\ NsPerMs \in Nat \ {0} /\ MsPerSec \in Nat \ {0}
  BY <1>1, Units DEF Normal, Loose
<1>3. /\ left \in Int /\ clock \in Nat /\ ns(time_out) \in Int
      /\ left >= 0 => (left \div NsPerMs) % Word = left \div NsPerMs
  BY LeftInMs
<1>4. left = sec * NsPerSec + nsec
  <2>1. /\ time_out.tv_sec \in Int /\ now.tv_sec \in Int
        /\ time_out.tv_nsec \in Int /\ now.tv_nsec \in Int
    BY <1>1 DEF Normal, Loose
  <2>2. time_out.tv_sec * NsPerSec = sec * NsPerSec + now.tv_sec * NsPerSec
    BY <1>2, <2>1, ProductOfSum
  <2>3. /\ ns(time_out) = time_out.tv_sec * NsPerSec + time_out.tv_nsec
        /\ clock = now.tv_sec * NsPerSec + now.tv_nsec
    BY <1>1 DEF ns
  <2>4. time_out.tv_sec * NsPerSec \in Int /\ now.tv_sec * NsPerSec \in Int
    BY <1>2, <2>1
  <2> QED
    BY <1>2, <2>1, <2>2, <2>3, <2>4
<1>5. got = IF sec < 0 THEN 0
            ELSE IF nsec < 0 /\ sec > 0
                 THEN (MsPerSec * (sec - 1) + div(nsec + NsPerSec, NsPerMs)) % Word
                 ELSE (MsPerSec * sec + div(nsec, NsPerMs)) % Word
  BY DEF get_ms_difference
<1>6. SUFFICES IF left >= 0 THEN got = left \div NsPerMs
               ELSE got = 0 \/ (left > -NsPerSec /\ got > Word - MsPerSec)
  BY DEF DifferenceInMs
<1> HIDE DEF sec, nsec, left, got
\* The two sums that are not negative.
<1>7. ASSUME NEW s \in Int, NEW r \in Nat, left = s * NsPerSec + r, left >= 0,
             got = (MsPerSec * s + div(r, NsPerMs)) % Word
      PROVE  got = left \div NsPerMs
  <2>1. div(r, NsPerMs) = r \div NsPerMs
    BY <1>2, <1>7 DEF div
  <2>2. MsPerSec * s \in Int /\ s * NsPerSec = (MsPerSec * s) * NsPerMs
    BY <1>2, <1>7, Units
  <2>3. ((MsPerSec * s) * NsPerMs + r) \div NsPerMs = MsPerSec * s + (r \div NsPerMs)
    <3>1. PICK x \in Int : x = MsPerSec * s
      BY <2>2
    <3>2. r \in Int /\ NsPerMs \in Nat \ {0}
      BY <1>2
    <3>3. (x * NsPerMs + r) \div NsPerMs = x + (r \div NsPerMs)
      BY <3>2, QuotientOfSum
    <3> QED
      BY <3>1, <3>3
  <2> QED
    BY <1>3, <1>7, <2>1, <2>2, <2>3
<1>8. CASE sec < 0
  <2>1. got = 0
    BY <1>2, <1>5, <1>8
  <2>2. sec * NsPerSec <= (-1) * NsPerSec /\ sec * NsPerSec \in Int
    BY <1>2, <1>8, ProductGrows
  <2>3. left <= 0
    BY <1>2, <1>4, <2>2
  <2>4. 0 \div NsPerMs = 0
    BY <1>2
  <2> QED
    BY <1>3, <2>1, <2>3, <2>4
<1>9. CASE sec > 0 /\ nsec < 0
  <2>1. got = (MsPerSec * (sec - 1) + div(nsec + NsPerSec, NsPerMs)) % Word
    BY <1>2, <1>5, <1>9
  <2>2. left = (sec - 1) * NsPerSec + (nsec + NsPerSec)
    BY <1>2, <1>4
  <2>3. sec - 1 \in Nat /\ nsec + NsPerSec \in Nat
    BY <1>2, <1>9
  <2>4. (sec - 1) * NsPerSec \in Nat
    BY <1>2, <2>3
  <2>5. left >= 0
    BY <2>2, <2>3, <2>4
  <2> QED
    BY <1>7, <2>1, <2>2, <2>3, <2>5
<1>10. CASE sec >= 0 /\ nsec >= 0
  <2>1. got = (MsPerSec * sec + div(nsec, NsPerMs)) % Word
    BY <1>2, <1>5, <1>10
  <2>2. sec \in Nat /\ nsec \in Nat
    BY <1>2, <1>10
  <2>3. sec * NsPerSec \in Nat
    BY <1>2, <2>2
  <2>4. left >= 0
    BY <1>4, <2>2, <2>3
  <2> QED
    BY <1>4, <1>7, <2>1, <2>2, <2>4
<1>11. CASE sec = 0 /\ nsec < 0
  <2>1. left = nsec
    BY <1>2, <1>4, <1>11
  <2> DEFINE q == (-nsec) \div NsPerMs
  <2>2. -nsec \in Nat /\ -nsec < NsPerSec
    BY <1>2, <1>11
  <2>3. MsPerSec * sec = 0 /\ div(nsec, NsPerMs) = -q
    BY <1>2, <1>11 DEF div
  <2>4. q \in Nat
    BY <1>2, <2>2, Division
  <2> HIDE DEF q
  <2>5. got = (-q) % Word
    BY <1>2, <1>5, <1>11, <2>3, <2>4
  <2>6. q < MsPerSec
    <3>1. q * NsPerMs <= -nsec
      BY <1>2, <2>2, Division DEF q
    <3>2. MsPerSec <= q => MsPerSec * NsPerMs <= q * NsPerMs
      BY <1>2, <2>4, ProductGrows
    <3>3. q * NsPerMs \in Int
      BY <1>2, <2>4
    <3> QED
      BY <1>2, <2>2, <2>4, <3>1, <3>2, <3>3, Units
  <2>7. CASE q = 0
    <3>1. (-q) % Word = 0
      BY <2>7, Units
    <3> QED
      BY <1>2, <1>11, <2>1, <2>5, <3>1
  <2>8. CASE q # 0
    <3>1. q \in 1 .. (MsPerSec - 1)
      BY <1>2, <2>4, <2>6, <2>8
    <3>2. (-q) % Word > Word - MsPerSec
      BY <1>2, <3>1, Units, WrapsBelowZero
    <3> QED
      BY <1>2, <1>11, <2>1, <2>2, <2>5, <3>2
  <2> QED
    BY <2>7, <2>8
<1> QED
  BY <1>2, <1>8, <1>9, <1>10, <1>11

\* max_timespec looks at the seconds only.
LEMMA MaxBySeconds ==
    ASSUME NEW t \in Normal, NEW e, e.tv_sec \in Int, e.tv_nsec \in 0 .. NsPerSec
    PROVE  max_timespec(t, e) = IF t.tv_sec >= e.tv_sec THEN t ELSE e
<1>1. t.tv_sec \in Int /\ t.tv_nsec \in 0 .. (NsPerSec - 1) /\ NsPerSec \in Nat \ {0}
  BY Units DEF Normal
<1> DEFINE x == t.tv_nsec - e.tv_nsec
<1>2. x \in (-NsPerSec) .. (NsPerSec - 1)
  BY <1>1
<1>3. t.tv_nsec >= e.tv_nsec <=> x >= 0
  BY <1>1
<1> HIDE DEF x
<1>4. x < 0 => div(x, NsPerSec) \in {0, -1}
  <2> HAVE x < 0
  <2>1. -x \in Nat /\ -x <= 1 * NsPerSec
    BY <1>1, <1>2
  <2>2. (-x) \div NsPerSec \in 0 .. 1
    BY <1>1, <2>1, QuotientBelow
  <2> QED
    BY <1>2, <2>2 DEF div
<1>5. max_timespec(t, e) = IF /\ t.tv_sec >= e.tv_sec
                              /\ \/ t.tv_nsec >= e.tv_nsec
                                 \/ t.tv_sec - div(x, NsPerSec) >= e.tv_sec
                           THEN t ELSE e
  BY DEF max_timespec, x
<1> QED
  BY <1>1, <1>2, <1>3, <1>4, <1>5

LEMMA ReverseKept ==
    ASSUME TimerInv, NEW min \in Minimal, route_by_rreq(min)
    PROVE  /\ ns(time_out') >= clock + min * NsPerMs
           /\ status # "none" => ns(time_out') >= ns(time_out) - NsPerSec
<1> DEFINE old == created(0)
           left == subtract_time(now, old)
           t == convert_ms_to_timespec(min)
           longest == max_timespec(t, left)
           ms == convert_timespec_to_ms(longest)
<1>1. /\ min \in Nat \ {0} /\ min \in 0 .. (Word - 1) /\ 0 \in 0 .. (Word - 1)
      /\ NsPerMs \in Nat \ {0} /\ NsPerSec \in Nat \ {0} /\ Word \in Nat \ {0}
  BY Units, TimerAssumption
<1>2. Reachable(old) /\ now \in Normal /\ ns(now) = clock /\ clock \in Nat
  BY <1>1, CreatedReachable, NowReads DEF TimerInv
<1>3. old \in Loose /\ ns(old) <= clock + (Word - 1) * NsPerMs
  BY <1>2 DEF Reachable
<1>4. t \in Normal /\ ns(t) = min * NsPerMs
  BY <1>1, ConvertedFromMs
<1>5. time_out' = IF ms = 0 THEN old ELSE add_time_ms(now, ms)
  BY DEF route_by_rreq, set_expiration_timer
<1>6. ms \in 0 .. (Word - 1)
  BY LongestInMs
<1>7. ms # 0 => ns(time_out') = clock + ms * NsPerMs
  BY <1>5, <1>6, SetFromNow
<1>8. status # "none" => old = time_out
  BY DEF created
<1>9. /\ left.tv_sec \in Int /\ left.tv_nsec \in 0 .. NsPerSec
      /\ left.tv_sec = -1 => ns(left) < 0
      /\ old.tv_sec < now.tv_sec => ns(left) = 0 /\ ns(old) <= clock /\ left \in Normal
      /\ old.tv_sec >= now.tv_sec => ns(left) = ns(old) - clock
  BY <1>2, <1>3, TimeSubtracted
<1>10. old.tv_sec \in Int /\ now.tv_sec \in Int /\ ns(old) \in Int
  BY <1>2, <1>3, TimeIsNumber DEF Normal, Loose
<1>11. longest = IF t.tv_sec >= left.tv_sec THEN t ELSE left
  BY <1>4, <1>9, MaxBySeconds
<1> HIDE DEF old, left, t, longest, ms
<1>12. ns(left) \in Int /\ t.tv_sec \in Nat /\ t.tv_nsec \in 0 .. (NsPerSec - 1)
  BY <1>4, <1>9, TimeIsNumber DEF Normal
<1>13. ns(old) - clock <= ns(left)
  BY <1>2, <1>9, <1>10, <1>12
<1>14. /\ ns(left) = left.tv_sec * NsPerSec + left.tv_nsec
       /\ min * NsPerMs = t.tv_sec * NsPerSec + t.tv_nsec
       /\ left.tv_sec * NsPerSec \in Int /\ t.tv_sec * NsPerSec \in Int
       /\ min * NsPerMs \in Int
  BY <1>1, <1>4, <1>9, <1>12 DEF ns
\* The minimal lifetime is taken.
<1>15. CASE t.tv_sec >= left.tv_sec
  <2>1. ms = min
    <3>1. ms = (ns(t) \div NsPerMs) % Word
      BY <1>11, <1>12, <1>15, ConvertedToMs DEF ms
    <3>2. ns(t) \div NsPerMs = min
      BY <1>1, <1>4, <1>14, Quotient
    <3> QED
      BY <1>1, <3>1, <3>2, BelowModulus
  <2>2. ns(time_out') = clock + min * NsPerMs
    BY <1>1, <1>7, <2>1
  <2>3. left.tv_sec * NsPerSec <= t.tv_sec * NsPerSec
    BY <1>1, <1>9, <1>12, <1>15, ProductGrows
  <2>4. ns(left) <= min * NsPerMs + NsPerSec
    BY <1>1, <1>9, <1>12, <1>14, <2>3
  <2>5. ns(time_out') >= ns(old) - NsPerSec
    BY <1>1, <1>2, <1>10, <1>12, <1>13, <1>14, <2>2, <2>4
  <2> QED
    BY <1>2, <1>8, <1>14, <2>2, <2>5
\* What is left is longer, and rounded to ms.
<1>16. CASE t.tv_sec < left.tv_sec
  <2>1. (t.tv_sec + 1) * NsPerSec <= left.tv_sec * NsPerSec
    BY <1>1, <1>9, <1>12, <1>16, ProductGrows
  <2>2. (t.tv_sec + 1) * NsPerSec = t.tv_sec * NsPerSec + NsPerSec
    BY <1>1, <1>12
  <2>3. ns(left) > min * NsPerMs
    BY <1>1, <1>9, <1>12, <1>14, <2>1, <2>2
  <2>4. ns(left) = ns(old) - clock
    <3>1. left.tv_sec > 0
      BY <1>9, <1>12, <1>16
    <3>2. ns(left) # 0
      BY <1>1, <1>14, <2>3
    <3> QED
      BY <1>9, <1>10, <3>2
  <2> DEFINE q == ns(left) \div NsPerMs
  <2>5. ns(left) \in Nat /\ ns(left) <= (Word - 1) * NsPerMs
    <3>1. min * NsPerMs \in Nat /\ (Word - 1) * NsPerMs \in Int
      BY <1>1
    <3> QED
      BY <1>2, <1>3, <1>10, <1>12, <2>3, <2>4, <3>1
  <2>6. q \in 0 .. (Word - 1)
    BY <1>1, <2>5, QuotientBelow
  <2>7. q * NsPerMs <= ns(left) /\ ns(left) < q * NsPerMs + NsPerMs
    <3>1. PICK l \in Int : l = ns(left)
      BY <1>12
    <3>2. (l \div NsPerMs) * NsPerMs <= l /\ l < (l \div NsPerMs) * NsPerMs + NsPerMs
      BY <1>1
    <3> QED
      BY <3>1, <3>2
  <2>8. ms = q
    <3>1. ms = q % Word
      BY <1>9, <1>11, <1>12, <1>16, ConvertedToMs DEF ms
    <3> HIDE DEF q
    <3> QED
      BY <1>1, <2>6, <3>1, BelowModulus
  <2> HIDE DEF q
  <2>9. min <= q
    <3>1. q + 1 <= min => (q + 1) * NsPerMs <= min * NsPerMs
      BY <1>1, <2>6, ProductGrows
    <3>2. (q + 1) * NsPerMs = q * NsPerMs + NsPerMs /\ q * NsPerMs \in Int
      BY <1>1, <2>6
    <3> QED
      BY <1>1, <1>12, <1>14, <2>3, <2>6, <2>7, <3>1, <3>2
  <2>10. ns(time_out') = clock + q * NsPerMs
    BY <1>1, <1>7, <2>6, <2>8, <2>9
  <2>11. min * NsPerMs <= q * NsPerMs /\ q * NsPerMs \in Int
    BY <1>1, <2>6, <2>9, ProductGrows
  <2>12. NsPerMs <= NsPerSec
    <3>1. 1 * NsPerMs <= MsPerSec * NsPerMs
      BY Units, ProductGrows
    <3> QED
      BY <3>1, Units
  <2>13. ns(time_out') >= ns(old) - NsPerSec
    BY <1>1, <1>2, <1>10, <1>12, <2>4, <2>7, <2>10, <2>11, <2>12
  <2> QED
    BY <1>2, <1>8, <1>14, <2>10, <2>11, <2>13
<1> QED
  BY <1>9, <1>12, <1>15, <1>16

-----------------------------------------------------------------------------
(* Theorems.                                                               *)

LEMMA TimerCorrect == Spec => []TimerInv
BY TimerInvInit, TimerInvNext, PTL DEF Spec

\* For every size of the units and all lifetimes: an expiration thread that
\* sleeps (nanosleep in expiration_func) wakes at the time_out of its entry, and
\* late only when it was started after that.
THEOREM WakesCorrect == Spec => []WakesOnTime
<1>1. TimerInv => WakesOnTime
  BY DEF TimerInv
<1> QED
  BY <1>1, TimerCorrect, PTL

\* `while(nanosleep(...));` repeats a refused call only in a thread that started
\* less than a second after its time_out, or when add_time_ms has left a whole
\* second in tv_nsec.
THEOREM SpinsCorrect == Spec => []SpinsOnlyIfLate
<1>1. TimerInv => SpinsOnlyIfLate
  BY DEF TimerInv
<1> QED
  BY <1>1, TimerCorrect, PTL

\* send_rrep_intermediate offers the ms that are left of the route, for every
\* clock and lifetime.
THEOREM OffersCorrect == Spec => OffersWhatIsLeft
<1>1. TimerInv /\ [Next]_vars =>
          [send_rrep_intermediate =>
              LET left == ns(time_out) - clock
              IN  IF left >= 0 THEN offered' = left \div NsPerMs
                  ELSE offered' = 0 \/ left > -NsPerSec]_vars
  BY OfferedInMs
<1> QED
  BY <1>1, TimerCorrect, PTL DEF Spec, OffersWhatIsLeft

\* get_ms_difference gives the ms from now to time_out; it wraps below 0 only
\* within the second of time_out.
THEOREM DifferenceCorrect == Spec => []DifferenceInMs
BY TimerCorrect, DifferenceRounded, PTL

\* recv_rreq gives the reverse route at least the minimal lifetime, and takes at
\* most a second from the lifetime it had.
THEOREM ReverseCorrect == Spec => ReverseRouteKept
<1>1. TimerInv /\ [Next]_vars =>
          [\A min \in Minimal : route_by_rreq(min) =>
              /\ ns(time_out') >= clock + min * NsPerMs
              /\ status # "none" => ns(time_out') >= ns(time_out) - NsPerSec]_vars
  BY ReverseKept
<1> QED
  BY <1>1, TimerCorrect, PTL DEF Spec, ReverseRouteKept
=============================================================================
