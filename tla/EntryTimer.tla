----------------------------- MODULE EntryTimer -----------------------------
(***************************************************************************)
(* The lifetime of one routing entry in real time: time_out, the thread of *)
(* expiration_func that sleeps until then, and the handlers that read the  *)
(* remaining time or move it. In Aodv a timer fires at any moment; here it *)
(* fires when the functions of time_funcs.c say so.                        *)
(***************************************************************************)
EXTENDS TimeFuncs

CONSTANTS
    Lifetimes,      \* lifetimes in ms that RREPs carry, 0 among them
    Minimal,        \* the minimal lifetimes of recv_rreq, one per hop count
    ACTIVE_ROUTE_TIMEOUT, DELETE_PERIOD,
    Horizon         \* bound: the clock stops here

ASSUME TimerAssumption ==
    /\ Lifetimes \subseteq 0..(Word - 1)
    /\ Minimal \subseteq 1..(Word - 1)
    /\ ACTIVE_ROUTE_TIMEOUT \in 1..(Word - 1)
    /\ DELETE_PERIOD \in 1..(Word - 1)
    /\ Horizon \in Nat

VARIABLES
    clock,      \* CLOCK_REALTIME, in ns
    status,     \* of the entry; "none" when there is none
    time_out,
    timer,      \* the expiration thread: its stage, and the ns at which it is due
    offered     \* the lifetime in the last RREP that answered from this entry

vars == <<clock, status, time_out, timer, offered>>

now == clock_gettime(clock)

NoTimer == [stage |-> "none", due |-> 0]

Init ==
    /\ clock = 0
    /\ status = "none"
    /\ time_out = [tv_sec |-> 0, tv_nsec |-> 0]
    /\ timer = NoTimer
    /\ offered = 0

time_passes ==
    /\ clock < Horizon
    /\ clock' = clock + 1
    /\ UNCHANGED <<status, time_out, timer, offered>>

-----------------------------------------------------------------------------
(* The handlers. Each ends with set_expiration_timer, which cancels the    *)
(* thread of the entry and starts a new one.                               *)

\* ms = 0 keeps the time_out that was, given as old.
set_expiration_timer(old, ms) ==
    /\ time_out' = IF ms = 0 THEN old ELSE add_time_ms(now, ms)
    /\ timer' = [stage |-> "starting", due |-> 0]

\* What create_or_get_routing_entry leaves in time_out.
created(ms) == IF status = "none" THEN add_time_ms(now, ms) ELSE time_out

\* recv_rrep: the lifetime of the message.
route_by_rrep(ms) ==
    /\ set_expiration_timer(created(ms), ms)
    /\ status' = "ROUTE_VALID"
    /\ UNCHANGED <<clock, offered>>

\* recv_rreq and recv_rrep for the node the message came from: time_out is set
\* by hand, and the timer is told to keep it.
previous_hop ==
    /\ set_expiration_timer(add_time_ms(now, ACTIVE_ROUTE_TIMEOUT), 0)
    /\ status' = "ROUTE_VALID"
    /\ UNCHANGED <<clock, offered>>

\* recv_rreq for the originator: the larger of a minimal lifetime and what is
\* left of the present one.
route_by_rreq(min) ==
    LET left == subtract_time(now, created(0))
        longest == max_timespec(convert_ms_to_timespec(min), left)
    IN  /\ set_expiration_timer(created(0), convert_timespec_to_ms(longest))
        /\ status' = "ROUTE_VALID"
        /\ UNCHANGED <<clock, offered>>

\* recv_rerr and outgoing_message: the route is invalid and waits for deletion.
route_breaks ==
    /\ status = "ROUTE_VALID"
    /\ set_expiration_timer(time_out, DELETE_PERIOD)
    /\ status' = "ROUTE_INVALID"
    /\ UNCHANGED <<clock, offered>>

\* send_rrep_intermediate: the RREP offers what is left.
send_rrep_intermediate ==
    /\ status = "ROUTE_VALID"
    /\ offered' = convert_timespec_to_ms(subtract_time(now, time_out))
    /\ UNCHANGED <<clock, status, time_out, timer>>

-----------------------------------------------------------------------------
(* expiration_func.                                                        *)

\* nanosleep refuses a duration that is negative or not normalised.
nanosleep_accepts(t) == t.tv_sec >= 0 /\ t.tv_nsec \in 0..(NsPerSec - 1)

\* `while(nanosleep(...));` sleeps, or repeats a call that is refused each time.
timer_starts ==
    LET left == subtract_time(now, time_out)
    IN  /\ timer.stage = "starting"
        /\ timer' = IF nanosleep_accepts(left)
                    THEN [stage |-> "sleeping", due |-> clock + ns(left)]
                    ELSE [stage |-> "spinning", due |-> clock]
        /\ UNCHANGED <<clock, status, time_out, offered>>

\* The sleep is over and the mutex is taken, maybe later than it was due.
timer_fires ==
    /\ timer.stage = "sleeping"
    /\ timer.due <= clock
    /\ IF status = "ROUTE_VALID"
       THEN /\ status' = "ROUTE_INVALID"
            /\ time_out' = add_time_ms(now, DELETE_PERIOD)
            /\ timer' = [stage |-> "starting", due |-> 0]
       ELSE /\ status' = "none"
            /\ timer' = NoTimer
            /\ UNCHANGED time_out
    /\ UNCHANGED <<clock, offered>>

Next ==
    \/ time_passes
    \/ \E ms \in Lifetimes : route_by_rrep(ms)
    \/ previous_hop
    \/ \E min \in Minimal : route_by_rreq(min)
    \/ route_breaks
    \/ send_rrep_intermediate
    \/ timer_starts
    \/ timer_fires

Spec == Init /\ [][Next]_vars

-----------------------------------------------------------------------------
(* Properties.                                                             *)

\* A thread that sleeps wakes at the time_out of its entry, however seconds and
\* nanoseconds were carried; it is late only when it was started after that.
\* So no route expires, and no entry is deleted, before its time.
WakesOnTime ==
    timer.stage = "sleeping" =>
        \/ timer.due = ns(time_out)
        \/ timer.due > ns(time_out) /\ timer.due <= clock

late == timer.due - ns(time_out)

\* The thread never sleeps only when it began less than a second after its
\* time_out (subtract_time then gives -1 s), or when add_time_ms left a whole
\* second in tv_nsec.
SpinsOnlyIfLate ==
    timer.stage = "spinning" =>
        \/ late \in 1..(NsPerSec - 1)
        \/ time_out.tv_nsec = NsPerSec

\* An intermediate RREP offers the ms that are left of the route, rounded down;
\* the unsigned result wraps only when the route timed out less than a second
\* ago and its timer has not run yet.
OffersWhatIsLeft ==
    [][send_rrep_intermediate =>
          LET left == ns(time_out) - clock
          IN  IF left >= 0 THEN offered' = left \div NsPerMs
              ELSE offered' = 0 \/ left > -NsPerSec]_vars

\* A RREQ gives the route back to its originator at least the minimal lifetime
\* and takes at most a second from the one it had: max_timespec compares two
\* durations of the same second wrongly, and the result is cut to whole ms. It
\* is a whole second only when add_time_ms left one in tv_nsec.
ReverseRouteKept ==
    [][\A min \in Minimal : route_by_rreq(min) =>
          /\ ns(time_out') >= clock + min * NsPerMs
          /\ status # "none" => ns(time_out') >= ns(time_out) - NsPerSec]_vars

\* get_ms_difference is the ms from now to time_out, rounded down, and 0 when
\* time_out is in an earlier second; in the same second it wraps below 0.
DifferenceInMs ==
    LET left == ns(time_out) - clock
        got == get_ms_difference(now, time_out)
    IN  IF left >= 0 THEN got = left \div NsPerMs
        ELSE got = 0 \/ (left > -NsPerSec /\ got > Word - MsPerSec)
=============================================================================
