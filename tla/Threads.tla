------------------------------ MODULE Threads ------------------------------
(***************************************************************************)
(* The threads of one daemon between two calls of pthread_mutex_lock. In   *)
(* Aodv a handler is one step; here it is one step per critical section,   *)
(* the lines it runs without a mutex are steps of their own, and           *)
(* pthread_cancel (the type is ASYNCHRONOUS, routing_table.c:130 and       *)
(* send_messages.c:190) ends its target wherever that is, with the mutexes *)
(* the target holds.                                                       *)
(*                                                                         *)
(* Every address of Dest has an entry, and a behaviour is followed until   *)
(* the first entry is deleted. A pthread_t is not used again while another *)
(* entry still holds it.                                                   *)
(***************************************************************************)
EXTENDS Naturals, FiniteSets, Functions

CONSTANTS
    Dest,           \* addresses with an entry
    Self,           \* ip_address
    Timer,          \* the pthread_t of timers
    NoThread,       \* the handle 0
    Rreps,          \* <<sender, destination, originator>> of RREPs that arrive
    Rreqs,          \* <<sender, originator>> of RREQs for this node
    Calls,          \* destinations of outgoing packets
    Packets,        \* <<source, destination>> of packets to forward
    Expiring,       \* entries whose timer may wake
    SearchBelow,    \* bound: searches begin only below this own number
    ReplyBelow,     \* bound: and replies below this one
    MaxLoose        \* bound: no call with this many timers no entry knows of

ASSUME ThreadsAssumption ==
    /\ Self \notin Dest /\ IsFiniteSet(Dest)
    /\ IsFiniteSet(Timer) /\ Cardinality(Timer) >= Cardinality(Dest) + MaxLoose + 2
    /\ Rreps \subseteq {r \in Dest \X Dest \X (Dest \cup {Self}) : r[2] # r[3]}
    /\ Rreqs \subseteq Dest \X Dest
    /\ Calls \subseteq Dest /\ Expiring \subseteq Dest
    /\ Packets \subseteq {p \in Dest \X Dest : p[1] # p[2]}
    /\ SearchBelow \in Nat /\ ReplyBelow \in Nat /\ MaxLoose \in Nat

\* A pthread_t of a timer, an address and the other names are not confused.
ASSUME NameAssumption ==
    /\ NoThread \notin Timer \cup {"sender"}
    /\ Timer \cap {"in", "out", "fwd", "sender", "free", "dead"} = {}
    /\ Dest \cap {"sequence_num", "rreq_id"} = {}

VARIABLES
    at,             \* at[t]: the critical section thread t is in or waits for
    inside,         \* inside[t]: t has locked the mutex of that section
    job,            \* job[t]: the addresses t works on
    owner,          \* owner[m]: who holds mutex m
    status, next_hop, rreq_search, expiration_thread,   \* fields of an entry
    rreq_message_sender,
    kernel,         \* <<destination, gateway>> pairs installed
    sequence_num,   \* own sequence number
    seq,            \* local of send_rrep_destination
    replied,        \* the number of its last reply
    deleted         \* an entry was deleted

numbers == <<sequence_num, seq, replied>>
entries == <<status, next_hop, rreq_search, rreq_message_sender>>
vars == <<at, inside, job, owner, entries, expiration_thread, kernel, numbers,
          deleted>>

Mutex == Dest \cup {"sequence_num", "rreq_id"}

Thread == {"in", "out", "fwd", "sender"} \cup Timer

NoJob == [from |-> Self, dest |-> Self, src |-> Self]

\* Every neighbour has said HELLO: an entry that is not valid yet, with its
\* timer, and itself as the next hop.
Init ==
    /\ expiration_thread = CHOOSE f \in [Dest -> Timer] : IsInjective(f)
    /\ at = [t \in Thread |-> IF t \in {"in", "out", "fwd"} THEN "idle"
                              ELSE IF t \in Range(expiration_thread)
                                   THEN "sleep" ELSE "none"]
    /\ inside = [t \in Thread |-> FALSE]
    /\ job = [t \in Thread |->
                 IF at[t] = "sleep"
                 THEN [NoJob EXCEPT !.dest = CHOOSE d \in Dest : expiration_thread[d] = t]
                 ELSE NoJob]
    /\ owner = [m \in Mutex |-> "free"]
    /\ status = [d \in Dest |-> "ROUTE_INVALID"]
    /\ next_hop = [d \in Dest |-> d]
    /\ rreq_search = [d \in Dest |-> "SEARCH_NONE"]
    /\ rreq_message_sender = [d \in Dest |-> NoThread]
    /\ kernel = {}
    /\ sequence_num = 0 /\ seq = 0 /\ replied = 0
    /\ deleted = FALSE

-----------------------------------------------------------------------------
(* Mutexes and threads, as the C library provides them.                    *)

Unlocked == {"idle", "none", "sleep", "search", "cancel", "clear", "poll", "release"}

\* The mutex of the section t is in or waits for.
mutex(t) ==
    CASE at[t] \in {"number", "read", "write"}      -> "sequence_num"
      [] at[t] = "flood"                            -> "rreq_id"
      [] at[t] = "hop"                              -> job[t].from
      [] at[t] \in {"originator", "reverse", "src"} -> job[t].src
      [] at[t] \in {"dest_hop", "dest_hop_again"}   -> next_hop[job[t].dest]
      [] OTHER                                      -> job[t].dest

pthread_mutex_lock(t) ==
    /\ at[t] \notin Unlocked /\ ~inside[t] /\ ~deleted
    /\ owner[mutex(t)] = "free"
    /\ owner' = [owner EXCEPT ![mutex(t)] = t]
    /\ inside' = [inside EXCEPT ![t] = TRUE]
    /\ UNCHANGED <<at, job, entries, expiration_thread, kernel, numbers, deleted>>

\* Thread t runs the section named here, and has its mutex if it needs one.
runs(t, section) ==
    /\ at[t] = section /\ ~deleted
    /\ section \in Unlocked \/ inside[t]

\* t goes on to a section, having unlocked a set of mutexes, cancelled a set of
\* threads and started the threads that are the domain of started.
continue(t, section, unlocked, cancelled, started) ==
    /\ at' = [x \in Thread |-> IF x = t THEN section
                               ELSE IF x \in DOMAIN started
                                    THEN IF x = "sender" THEN "number" ELSE "sleep"
                               ELSE IF x \in cancelled THEN "none" ELSE at[x]]
    /\ inside' = [x \in Thread |-> x \notin {t} \cup cancelled /\ inside[x]]
    /\ job' = [x \in Thread |->
          IF x \in DOMAIN started THEN [NoJob EXCEPT !.dest = started[x]]
          ELSE IF x \in cancelled \/ (x = t /\ section \in {"idle", "none"}) THEN NoJob
          ELSE job[x]]
    /\ owner' = [m \in Mutex |-> IF m \in unlocked THEN "free"
                                 ELSE IF owner[m] \in cancelled THEN "dead" ELSE owner[m]]

goes_on(t, section, unlocked) == continue(t, section, unlocked, {}, <<>>)

\* A section without a mutex is left.
steps(t, section) == goes_on(t, section, {})

\* One thread that works on d is started.
one(x, d) == [t \in {x} |-> d]

handles(d) == {expiration_thread[d]} \ {NoThread}

free_timer == CHOOSE t \in Timer : at[t] = "none" /\ t \notin Range(expiration_thread)

\* pthread_create: the pthread_t of a new timer of d may be the one it replaces.
new_timer(d) == IF handles(d) # {} THEN expiration_thread[d] ELSE free_timer

\* Wrong on purpose: the old timer is not cancelled.
timer_added(t, section, unlocked, d) ==
    /\ continue(t, section, unlocked, {}, one(free_timer, d))
    /\ expiration_thread' = [expiration_thread EXCEPT ![d] = free_timer]

\* set_expiration_timer(d), called by t in the section it is about to leave.
set_expiration_timer(t, section, unlocked, d) ==
    /\ continue(t, section, unlocked, handles(d), one(new_timer(d), d))
    /\ expiration_thread' = [expiration_thread EXCEPT ![d] = new_timer(d)]

idle_with(t, section, from, dest, src) ==
    /\ runs(t, "idle")
    /\ at' = [at EXCEPT ![t] = section]
    /\ job' = [job EXCEPT ![t] = [from |-> from, dest |-> dest, src |-> src]]
    /\ UNCHANGED <<inside, owner, entries, expiration_thread, kernel, numbers, deleted>>

-----------------------------------------------------------------------------
(* The callback thread for control messages: recv_rrep, and recv_rreq with *)
(* send_rrep_destination for RREQs with a new id. The other messages, and  *)
(* the timer of rreq_id, lock one entry at a time for what previous_hop    *)
(* does or less.                                                           *)

in_message(section, from, dest, src) == idle_with("in", section, from, dest, src)

recv_rrep(r) == in_message(IF r[3] = Self THEN "found" ELSE "hop", r[1], r[2], r[3])

recv_rreq(r) == sequence_num < ReplyBelow /\ in_message("hop", r[1], Self, r[2])

to(t) == job[t].dest

\* Wrong on purpose: the RREQ thread is cancelled before the entry is locked.
rrep_cancels_first ==
    /\ at["in"] = "found" /\ ~deleted
    /\ rreq_search' = [rreq_search EXCEPT ![to("in")] = "SEARCH_FOUND"]
    /\ continue("in", "hop", {}, {rreq_message_sender[to("in")]} \ {NoThread}, <<>>)
    /\ rreq_message_sender' = [rreq_message_sender EXCEPT ![to("in")] = NoThread]
    /\ UNCHANGED <<status, next_hop, expiration_thread, kernel, numbers, deleted>>

\* The search is over: its thread is cancelled, the polling callback told.
rrep_found ==
    /\ runs("in", "found")
    /\ rreq_search' = [rreq_search EXCEPT ![to("in")] = "SEARCH_FOUND"]
    /\ continue("in", "hop", {to("in")}, {rreq_message_sender[to("in")]} \ {NoThread}, <<>>)
    /\ rreq_message_sender' = [rreq_message_sender EXCEPT ![to("in")] = NoThread]
    /\ UNCHANGED <<status, next_hop, expiration_thread, kernel, numbers, deleted>>

\* Wrong on purpose: the previous hop's mutex is not unlocked.
unlock_nothing == {}

unlock_previous_hop == {job["in"].from}

\* Either message makes its sender a valid neighbour.
previous_hop ==
    LET hop == job["in"].from
    IN  /\ runs("in", "hop")
        /\ status' = [status EXCEPT ![hop] = "ROUTE_VALID"]
        /\ kernel' = kernel \cup {<<hop, hop>>}
        /\ set_expiration_timer("in", IF to("in") = Self THEN "reverse" ELSE "install",
                                unlock_previous_hop, hop)
        /\ UNCHANGED <<next_hop, rreq_search, rreq_message_sender, numbers, deleted>>

\* The route to d, over the sender when the message is fresher than the entry.
in_route(d, fresher) ==
    LET hop == job["in"].from
    IN  /\ status' = [status EXCEPT ![d] = "ROUTE_VALID"]
        /\ next_hop' = [next_hop EXCEPT ![d] = IF fresher THEN hop ELSE @]
        /\ kernel' = kernel \cup {<<d, hop>>}
        /\ UNCHANGED <<rreq_search, rreq_message_sender, numbers, deleted>>

\* The forward route. A RREP for another node keeps the mutex.
rrep_installs(fresher) ==
    /\ runs("in", "install")
    /\ in_route(to("in"), fresher)
    /\ IF job["in"].src = Self
       THEN set_expiration_timer("in", "idle", {to("in")}, to("in"))
       ELSE set_expiration_timer("in", "originator", {}, to("in"))

rrep_forwards ==
    /\ runs("in", "originator")
    /\ goes_on("in", "idle", {job["in"].src, to("in")})
    /\ UNCHANGED <<entries, expiration_thread, kernel, numbers, deleted>>

\* The reverse route of a RREQ.
rreq_installs(fresher) ==
    /\ runs("in", "reverse")
    /\ in_route(job["in"].src, fresher)
    /\ set_expiration_timer("in", "read", {job["in"].src}, job["in"].src)

\* Wrong on purpose: the number is not incremented.
reply_same(asked) == IF asked > sequence_num THEN asked ELSE sequence_num

reply_number(asked) == IF asked > sequence_num + 1 THEN asked ELSE sequence_num + 1

\* send_rrep_destination, read_safe: a RREQ asks for no number or for a large
\* one, which need not be one this node has issued: a RERR puts an address in
\* its place (AODV.c:316).
rrep_reads(asked) ==
    /\ runs("in", "read")
    /\ seq' = reply_number(asked)
    /\ goes_on("in", "write", {"sequence_num"})
    /\ UNCHANGED <<entries, expiration_thread, kernel, sequence_num, replied, deleted>>

\* write_safe, and the RREP.
rrep_writes ==
    /\ runs("in", "write")
    /\ sequence_num' = seq /\ replied' = seq /\ seq' = 0
    /\ goes_on("in", "idle", {"sequence_num"})
    /\ UNCHANGED <<entries, expiration_thread, kernel, deleted>>

-----------------------------------------------------------------------------
(* The callback thread for outgoing packets: outgoing_message, send_rreq.  *)

Valid(d) == status[d] = "ROUTE_VALID"

loose == {t \in Timer : at[t] # "none" /\ t \notin Range(expiration_thread)}

\* The entry is read without its mutex. A packet with a route over a valid
\* next hop leaves as it came.
outgoing_message(d) ==
    /\ sequence_num < SearchBelow /\ Cardinality(loose) < MaxLoose
    /\ ~(Valid(d) /\ Valid(next_hop[d]) /\ next_hop[d] # d)
    /\ idle_with("out", IF ~Valid(d) THEN "search"
                        ELSE IF next_hop[d] = d THEN "refresh" ELSE "break",
                 Self, d, Self)

out_refreshes ==
    /\ runs("out", "refresh")
    /\ set_expiration_timer("out", "idle", {to("out")}, to("out"))
    /\ UNCHANGED <<entries, kernel, numbers, deleted>>

\* The next hop of a valid route was lost.
out_breaks ==
    LET d == to("out")
    IN  /\ runs("out", "break")
        /\ status' = [status EXCEPT ![d] = "ROUTE_INVALID"]
        /\ kernel' = kernel \ {<<d, next_hop[d]>>}
        /\ set_expiration_timer("out", "search", {d}, d)
        /\ UNCHANGED <<next_hop, rreq_search, rreq_message_sender, numbers, deleted>>

\* send_rreq reads the entry without its mutex ...
search_reads ==
    LET d == to("out")
    IN  /\ runs("out", "search")
        /\ steps("out", IF rreq_search[d] = "SEARCH_FAILED" /\ ~Valid(d) THEN "idle"
                        ELSE IF rreq_search[d] = "SEARCH_SEARCHING" THEN "poll"
                        ELSE "cancel")
        /\ UNCHANGED <<entries, expiration_thread, kernel, numbers, deleted>>

\* Wrong on purpose: the handle is kept.
after_cancel == "create"

section_after_cancel == "clear"

\* ... cancels its timer without the mutex ...
search_cancels ==
    /\ runs("out", "cancel")
    /\ continue("out", section_after_cancel, {}, handles(to("out")), <<>>)
    /\ UNCHANGED <<entries, expiration_thread, kernel, numbers, deleted>>

\* ... and then forgets whichever timer the entry has.
search_clears ==
    /\ runs("out", "clear")
    /\ expiration_thread' = [expiration_thread EXCEPT ![to("out")] = NoThread]
    /\ steps("out", "create")
    /\ UNCHANGED <<entries, kernel, numbers, deleted>>

search_starts ==
    LET d == to("out")
    IN  /\ runs("out", "create")
        /\ continue("out", "poll", {d}, {}, one("sender", d))
        /\ rreq_message_sender' = [rreq_message_sender EXCEPT ![d] = "sender"]
        /\ rreq_search' = [rreq_search EXCEPT ![d] = "SEARCH_SEARCHING"]
        /\ UNCHANGED <<status, next_hop, expiration_thread, kernel, numbers, deleted>>

\* Wrong on purpose: one look is enough.
search_over(d) == TRUE

no_longer_searching(d) == rreq_search[d] # "SEARCH_SEARCHING"

search_polls ==
    /\ runs("out", "poll")
    /\ no_longer_searching(to("out"))
    /\ steps("out", "outcome")
    /\ UNCHANGED <<entries, expiration_thread, kernel, numbers, deleted>>

search_outcome ==
    LET failed == rreq_search[to("out")] = "SEARCH_FAILED"
    IN  /\ runs("out", "outcome")
        /\ goes_on("out", IF failed THEN "failed" ELSE "release", {to("out")})
        /\ UNCHANGED <<entries, expiration_thread, kernel, numbers, deleted>>

search_failed ==
    /\ runs("out", "failed")
    /\ set_expiration_timer("out", "idle", {to("out")}, to("out"))
    /\ UNCHANGED <<entries, kernel, numbers, deleted>>

\* The packet is accepted.
search_releases ==
    /\ runs("out", "release")
    /\ rreq_search' = [rreq_search EXCEPT ![to("out")] = "SEARCH_NONE"]
    /\ steps("out", "idle")
    /\ UNCHANGED <<status, next_hop, rreq_message_sender, expiration_thread, kernel,
                   numbers, deleted>>

-----------------------------------------------------------------------------
(* send_rreq_thread. Its sleeps are between sections.                      *)

sender_numbers ==
    /\ runs("sender", "number")
    /\ sequence_num' = sequence_num + 1
    /\ goes_on("sender", "known", {"sequence_num"})
    /\ UNCHANGED <<entries, expiration_thread, kernel, seq, replied, deleted>>

sender_reads ==
    /\ runs("sender", "known")
    /\ goes_on("sender", "flood", {to("sender")})
    /\ UNCHANGED <<entries, expiration_thread, kernel, numbers, deleted>>

\* How many RREQs are sent before the search fails is left open.
sender_floods(section) ==
    /\ runs("sender", "flood")
    /\ goes_on("sender", section, {"rreq_id"})
    /\ UNCHANGED <<entries, expiration_thread, kernel, numbers, deleted>>

sender_fails ==
    LET d == to("sender")
    IN  /\ runs("sender", "fail")
        /\ rreq_message_sender' = [rreq_message_sender EXCEPT ![d] = NoThread]
        /\ rreq_search' = [rreq_search EXCEPT ![d] = "SEARCH_FAILED"]
        /\ set_expiration_timer("sender", "none", {d}, d)
        /\ UNCHANGED <<status, next_hop, kernel, numbers, deleted>>

-----------------------------------------------------------------------------
(* expiration_func.                                                        *)

timer_wakes(t) ==
    /\ runs(t, "sleep")
    /\ to(t) \in Expiring
    /\ steps(t, "expire")
    /\ UNCHANGED <<entries, expiration_thread, kernel, numbers, deleted>>

route_expires(t) ==
    LET d == to(t)
    IN  /\ runs(t, "expire")
        /\ Valid(d)
        /\ status' = [status EXCEPT ![d] = "ROUTE_INVALID"]
        /\ kernel' = kernel \ {<<d, next_hop[d]>>}
        /\ goes_on(t, "sleep", {d})
        /\ UNCHANGED <<next_hop, rreq_search, rreq_message_sender, expiration_thread,
                       numbers, deleted>>

entry_deleted(t) ==
    /\ runs(t, "expire")
    /\ ~Valid(to(t))
    /\ deleted' = TRUE
    /\ goes_on(t, "none", {to(t)})
    /\ UNCHANGED <<entries, expiration_thread, kernel, numbers>>

-----------------------------------------------------------------------------
(* The callback thread for forwarded packets: forwarded_messages.          *)

forwarded_messages(p) == idle_with("fwd", "dest", Self, p[2], p[1])

hop_of_packet == next_hop[to("fwd")]

\* The destination's mutex is kept while its hop's is taken.
fwd_locked ==
    /\ runs("fwd", "dest")
    /\ hop_of_packet # to("fwd")
    /\ steps("fwd", "dest_hop")
    /\ UNCHANGED <<entries, expiration_thread, kernel, numbers, deleted>>

\* All mutexes this packet needs are locked.
fwd_decides ==
    \/ runs("fwd", "dest_hop")
    \/ runs("fwd", "dest") /\ hop_of_packet = to("fwd")

fwd_accepts ==
    /\ fwd_decides
    /\ Valid(to("fwd")) /\ Valid(hop_of_packet)
    /\ set_expiration_timer("fwd", "src", {hop_of_packet} \ {to("fwd")}, to("fwd"))
    /\ UNCHANGED <<entries, kernel, numbers, deleted>>

fwd_refreshes_source ==
    /\ runs("fwd", "src")
    /\ set_expiration_timer("fwd", "idle", {job["fwd"].src, to("fwd")}, job["fwd"].src)
    /\ UNCHANGED <<entries, kernel, numbers, deleted>>

\* The next hop is lost: its mutex is locked a second time.
fwd_breaks ==
    /\ fwd_decides
    /\ Valid(to("fwd")) /\ ~Valid(hop_of_packet)
    /\ steps("fwd", "dest_hop_again")
    /\ UNCHANGED <<entries, expiration_thread, kernel, numbers, deleted>>

\* No active route: only the destination's mutex is unlocked.
fwd_unreachable ==
    /\ fwd_decides
    /\ ~Valid(to("fwd"))
    /\ goes_on("fwd", "idle", {to("fwd")})
    /\ UNCHANGED <<entries, expiration_thread, kernel, numbers, deleted>>

-----------------------------------------------------------------------------
Next ==
    \/ \E t \in Thread : pthread_mutex_lock(t)
    \/ \E r \in Rreps : recv_rrep(r)
    \/ \E r \in Rreqs : recv_rreq(r)
    \/ rrep_found
    \/ previous_hop
    \/ \E fresher \in BOOLEAN : rrep_installs(fresher) \/ rreq_installs(fresher)
    \/ rrep_forwards
    \/ \E asked \in {0, ReplyBelow} : rrep_reads(asked)
    \/ rrep_writes
    \/ \E d \in Calls : outgoing_message(d)
    \/ out_refreshes
    \/ out_breaks
    \/ search_reads
    \/ search_cancels
    \/ search_clears
    \/ search_starts
    \/ search_polls
    \/ search_outcome
    \/ search_failed
    \/ search_releases
    \/ sender_numbers
    \/ sender_reads
    \/ \E section \in {"flood", "fail"} : sender_floods(section)
    \/ sender_fails
    \/ \E t \in Timer : timer_wakes(t) \/ route_expires(t) \/ entry_deleted(t)
    \/ \E p \in Packets : forwarded_messages(p)
    \/ fwd_locked
    \/ fwd_accepts
    \/ fwd_refreshes_source
    \/ fwd_breaks
    \/ fwd_unreachable

Spec == Init /\ [][Next]_vars

-----------------------------------------------------------------------------
(* What the threads keep, in any order of their sections.                  *)

\* A mutex is left locked by a cancelled thread in two ways only: the mutex of
\* an entry by send_rreq, which cancels the timer without locking the entry
\* (send_messages.c:126-130), and one of the two number mutexes by recv_rrep,
\* which cancels a RREQ thread inside increment_safe (recv_messages.c:183).
MutexLost ==
    [][\A m \in Mutex :
          owner[m] # "dead" /\ owner'[m] = "dead" =>
             IF m \in Dest THEN at["out"] = "cancel" ELSE at["in"] = "found"]_vars

\* Whatever pthread_cancel is given is a running thread of that entry, unless
\* send_rreq is between its pthread_cancel and its assignment; and a search has
\* one RREQ thread, which the entry knows.
HandleLive ==
    deleted \/ \A d \in Dest :
        /\ \/ expiration_thread[d] = NoThread
           \/ at[expiration_thread[d]] # "none" /\ to(expiration_thread[d]) = d
           \/ at["out"] = "clear" /\ to("out") = d
        /\ (rreq_message_sender[d] # NoThread) <=> (at["sender"] # "none" /\ to("sender") = d)

waits(t) == at[t] \notin Unlocked /\ ~inside[t]

\* Threads that wait for each other in a circle always include the forwarding
\* callback: recv_rrep holds two entries and all other threads one at a time,
\* so without forwarded_messages the daemon cannot deadlock.
CircleHasForwarding ==
    \A S \in SUBSET {t \in Thread \ {"fwd"} : waits(t)} :
        S # {} => \E t \in S : owner[mutex(t)] \notin S

\* An entry has one timer: a running timer is forgotten only where send_rreq
\* overwrites the handle of a timer that another thread has just started.
TimerForgotten ==
    [][\A t \in loose' : t \in loose \/ at["out"] = "clear"]_vars

\* Every RREP of the destination carries a larger number than the RREPs before
\* it, although the number is read and written in two critical sections: RREQ
\* threads only increment it in between.
RepliesRise ==
    [][at["in"] = "write" /\ at'["in"] = "idle" => replied' > replied]_vars

\* A packet is released into a kernel without a route for it only while
\* recv_rrep, which has announced the route, is still on its way to install it,
\* or when a timer removes the route in between.
ReleasedEarly ==
    [][\A d \in Dest \ Expiring :
          /\ at["out"] = "release" /\ at'["out"] = "idle" /\ to("out") = d
          /\ \A r \in kernel : r[1] # d
          => at["in"] \in {"hop", "install"} /\ to("in") = d]_vars

\* "increment own sequence number, set to maximum of supplied and incremented"
\* (send_messages.c:40-41): a reply leaves the own number larger than it was.
ReplyRaisesNumber ==
    [][at["in"] = "write" /\ at'["in"] = "idle" => sequence_num' > sequence_num]_vars
=============================================================================
