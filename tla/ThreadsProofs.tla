---------------------------- MODULE ThreadsProofs ----------------------------
(***************************************************************************)
(* The threads of one daemon, for any number of neighbours, messages and   *)
(* packets and in any order of their sections: which thread a handle       *)
(* names, who holds a mutex, and what follows for cancellations,           *)
(* deadlocks, timers and sequence numbers.                                 *)
(***************************************************************************)
EXTENDS Threads, FiniteSetTheorems, FunctionTheorems, TLAPS

-----------------------------------------------------------------------------
(* The invariant. What entries know of their threads ends with the first   *)
(* entry that is deleted.                                                  *)

InSection == {"idle", "found", "hop", "install", "originator", "reverse", "read", "write"}

OutSection == {"idle", "search", "refresh", "break", "cancel", "clear", "create", "poll",
               "outcome", "failed", "release"}

FwdSection == {"idle", "dest", "dest_hop", "dest_hop_again", "src"}

SenderSection == {"none", "number", "known", "flood", "fail"}

TimerSection == {"none", "sleep", "expire"}

Section == InSection \cup OutSection \cup FwdSection \cup SenderSection \cup TimerSection

Job == [from : Dest \cup {Self}, dest : Dest \cup {Self}, src : Dest \cup {Self}]

\* Where a thread may be, and what it may work on there.
MayBe(t, section, j) ==
    /\ section \in Section /\ j \in Job
    /\ t = "in" =>
          /\ section \in InSection
          /\ section # "idle" => j.from \in Dest /\ j.dest # j.src
          /\ section \in {"found", "install", "originator"} => j.dest \in Dest
          /\ section \in {"originator", "reverse"} => j.src \in Dest
    /\ t = "out" => section \in OutSection /\ (section # "idle" => j.dest \in Dest)
    /\ t = "fwd" => section \in FwdSection
                    /\ (section # "idle" => j.dest \in Dest /\ j.src \in Dest)
    /\ t = "sender" => section \in SenderSection /\ (section # "none" => j.dest \in Dest)
    /\ t \in Timer => section \in TimerSection /\ (section # "none" => j.dest \in Dest)

Placed ==
    /\ at \in [Thread -> Section] /\ job \in [Thread -> Job]
    /\ \A t \in Thread : MayBe(t, at[t], job[t])

Fields ==
    /\ status \in [Dest -> {"ROUTE_VALID", "ROUTE_INVALID"}]
    /\ next_hop \in [Dest -> Dest]
    /\ rreq_search \in [Dest -> {"SEARCH_NONE", "SEARCH_SEARCHING", "SEARCH_FOUND",
                                 "SEARCH_FAILED"}]
    /\ rreq_message_sender \in [Dest -> {"sender", NoThread}]
    /\ expiration_thread \in [Dest -> Timer \cup {NoThread}]
    /\ inside \in [Thread -> BOOLEAN]
    /\ owner \in [Mutex -> Thread \cup {"free", "dead"}]

Forgets(d) == at["out"] = "clear" /\ to("out") = d

\* The timer that d's entry knows works on d, or has ended between the two
\* statements of send_rreq; no two entries know the same one.
TimersKnown ==
    /\ \A d \in Dest : LET t == expiration_thread[d]
                       IN  t # NoThread => IF at[t] = "none" THEN Forgets(d) ELSE to(t) = d
    /\ \A d, e \in Dest : expiration_thread[d] = expiration_thread[e] =>
                           d = e \/ expiration_thread[d] = NoThread

\* The sections of a call of outgoing_message up to the one that may forget a timer.
BeforeClear == {"refresh", "break", "search", "cancel", "clear"}

LooseBound ==
    /\ Cardinality(loose) <= MaxLoose
    /\ at["out"] \in BeforeClear => Cardinality(loose) < MaxLoose

\* An entry that is searched for is what the one RREQ thread works on, and what
\* outgoing_message polls.
SearchKnown ==
    /\ at["sender"] # "none" => at["out"] = "poll" /\ to("out") = to("sender")
    /\ \A d \in Dest :
          /\ rreq_message_sender[d] # NoThread <=> at["sender"] # "none" /\ to("sender") = d
          /\ rreq_search[d] = "SEARCH_SEARCHING" <=> at["sender"] # "none" /\ to("sender") = d

\* What a thread holds: the mutex of its section, and in some sections the
\* mutex of the destination from a section before.
Holding(t, m) ==
    \/ inside[t] /\ m = mutex(t)
    \/ t = "in" /\ at["in"] = "originator" /\ m = to("in")

FwdKeeps == {"dest_hop", "dest_hop_again", "src"}

\* forwarded_messages is left out of the second line: it goes without its
\* hop's mutex when there is no route (fwd_unreachable).
Owned ==
    /\ \A t \in Thread : inside[t] => at[t] \notin Unlocked /\ owner[mutex(t)] = t
    /\ \A m \in Mutex : owner[m] \in Thread \ {"fwd"} => Holding(owner[m], m)
    /\ at["in"] = "originator" => owner[to("in")] = "in"
    /\ at["fwd"] \in FwdKeeps => owner[to("fwd")] = "fwd"

NumbersRise ==
    /\ sequence_num \in Nat /\ seq \in Nat /\ replied \in Nat
    /\ replied <= sequence_num
    /\ at["in"] = "write" => seq > replied

ThreadsInv ==
    /\ Placed /\ Fields /\ Owned /\ NumbersRise
    /\ deleted \/ (TimersKnown /\ LooseBound /\ SearchKnown)

-----------------------------------------------------------------------------
(* What the library's calls change.                                        *)

LEMMA Names ==
    /\ {"in", "out", "fwd", "sender"} \subseteq Thread /\ Timer \subseteq Thread
    /\ \A t \in Timer : t \notin {"in", "out", "fwd", "sender", "free", "dead", NoThread}
    /\ NoThread # "sender"
    /\ "sequence_num" \notin Dest /\ "rreq_id" \notin Dest
    /\ Dest \subseteq Mutex /\ "sequence_num" \in Mutex /\ "rreq_id" \in Mutex
    /\ Self \notin Dest
BY NameAssumption, ThreadsAssumption DEF Thread, Mutex

LEMMA Started ==
    /\ DOMAIN <<>> = {}
    /\ \A x, d : DOMAIN one(x, d) = {x} /\ one(x, d)[x] = d
BY DEF one

LEMMA NoJobIsJob == NoJob \in Job /\ \A d \in Dest : [NoJob EXCEPT !.dest = d] \in Job
BY DEF NoJob, Job

\* The job of a thread that goes on.
job_after(j, section) == IF section \in {"idle", "none"} THEN NoJob ELSE j

\* t goes on to a section with job j, unlocks mutexes, and the threads of K, cancelled
\* or started, are at a with job b; a mutex one of them held is dead.
Moves(t, section, j, unlocked, K, a, b) ==
    /\ at' = [x \in Thread |-> IF x = t THEN section ELSE IF x \in K THEN a ELSE at[x]]
    /\ job' = [x \in Thread |-> IF x = t THEN j ELSE IF x \in K THEN b ELSE job[x]]
    /\ inside' = [x \in Thread |-> x # t /\ x \notin K /\ inside[x]]
    /\ owner' = [m \in Mutex |-> IF m \in unlocked THEN "free"
                                 ELSE IF owner[m] \in K THEN "dead" ELSE owner[m]]

\* t goes on alone.
GoesAlone(t, section, j, unlocked) == Moves(t, section, j, unlocked, {}, "none", NoJob)

LEMMA GoesOn ==
    ASSUME NEW t \in Thread, NEW section, NEW unlocked, goes_on(t, section, unlocked)
    PROVE  GoesAlone(t, section, job_after(job[t], section), unlocked)
<1>1. /\ at' = [x \in Thread |-> IF x = t THEN section ELSE at[x]]
      /\ inside' = [x \in Thread |-> x # t /\ inside[x]]
      /\ job' = [x \in Thread |-> IF x = t /\ section \in {"idle", "none"} THEN NoJob ELSE job[x]]
      /\ owner' = [m \in Mutex |-> IF m \in unlocked THEN "free" ELSE owner[m]]
  BY Started DEF goes_on, continue
<1>2. job' = [x \in Thread |-> IF x = t THEN job_after(job[t], section) ELSE job[x]]
  BY <1>1 DEF job_after
<1> QED
  BY <1>1, <1>2 DEF GoesAlone, Moves

\* A callback starts on a message or a packet.
LEMMA Begins ==
    ASSUME Placed, Fields, Owned, NEW t \in Thread, NEW section, NEW from, NEW dest, NEW src,
           idle_with(t, section, from, dest, src)
    PROVE  GoesAlone(t, section, [from |-> from, dest |-> dest, src |-> src], {})
<1> DEFINE j == [from |-> from, dest |-> dest, src |-> src]
<1>1. at[t] = "idle" /\ ~inside[t]
  BY DEF idle_with, runs, Owned, Unlocked
<1>2. /\ at' = [at EXCEPT ![t] = section] /\ job' = [job EXCEPT ![t] = j]
      /\ inside' = inside /\ owner' = owner
  BY DEF idle_with
<1> HIDE DEF j
<1>3. /\ at' = [x \in Thread |-> IF x = t THEN section ELSE at[x]]
      /\ job' = [x \in Thread |-> IF x = t THEN j ELSE job[x]]
  BY <1>2 DEF Placed
<1>4. /\ inside' = [x \in Thread |-> x # t /\ inside[x]]
      /\ owner' = [m \in Mutex |-> owner[m]]
  BY <1>1, <1>2 DEF Fields
<1>5. GoesAlone(t, section, j, {})
  BY <1>3, <1>4 DEF GoesAlone, Moves
<1> QED
  BY <1>5 DEF j

\* There is a pthread_t for a new timer: no entry and no running timer has it.
LEMMA FreeTimer ==
    ASSUME Fields, LooseBound, NEW d \in Dest, expiration_thread[d] = NoThread
    PROVE  /\ free_timer \in Timer /\ at[free_timer] = "none"
           /\ \A e \in Dest : expiration_thread[e] # free_timer
<1> DEFINE known == {e \in Dest : expiration_thread[e] # NoThread}
           H == {expiration_thread[e] : e \in known}
           f == [e \in known |-> expiration_thread[e]]
<1>1. IsFiniteSet(Dest) /\ IsFiniteSet(Timer) /\ MaxLoose \in Nat
      /\ Cardinality(Timer) >= Cardinality(Dest) + MaxLoose + 2
  BY ThreadsAssumption
<1>2. IsFiniteSet(known) /\ Cardinality(known) <= Cardinality(Dest)
  BY <1>1, FS_Subset
<1>3. f \in Surjection(known, H)
  BY DEF Surjection
<1>4. IsFiniteSet(H) /\ Cardinality(H) <= Cardinality(known)
  BY <1>2, <1>3, FS_Surjection
<1>5. loose \subseteq Timer /\ IsFiniteSet(loose)
  BY <1>1, FS_Subset DEF loose
<1>6. IsFiniteSet(H \cup loose)
      /\ Cardinality(H \cup loose) = Cardinality(H) + Cardinality(loose) - Cardinality(H \cap loose)
  BY <1>4, <1>5, FS_Union
<1>7. /\ Cardinality(H) \in Nat /\ Cardinality(loose) \in Nat /\ Cardinality(Timer) \in Nat
      /\ Cardinality(Dest) \in Nat /\ Cardinality(known) \in Nat
      /\ Cardinality(H \cup loose) \in Nat
  BY <1>1, <1>2, <1>4, <1>5, <1>6, FS_CardinalityType
<1>8. Cardinality(H \cap loose) \in Nat
  BY <1>4, FS_Intersection, FS_CardinalityType
<1>9. Cardinality(H \cup loose) < Cardinality(Timer)
  BY <1>1, <1>2, <1>4, <1>6, <1>7, <1>8 DEF LooseBound
<1>10. H \cup loose \subseteq Timer
  BY <1>5 DEF Fields
<1>11. PICK t \in Timer : t \notin H \cup loose
  <2>1. H \cup loose # Timer
    BY <1>7, <1>9
  <2> QED
    BY <1>10, <2>1
<1>12. \A e \in Dest : expiration_thread[e] # t
  <2> TAKE e \in Dest
  <2>1. CASE expiration_thread[e] = NoThread
    BY <2>1, Names
  <2>2. CASE expiration_thread[e] # NoThread
    BY <1>11, <2>2
  <2> QED
    BY <2>1, <2>2
<1>13. at[t] = "none" /\ t \notin Range(expiration_thread)
  <2>1. t \notin Range(expiration_thread)
    BY <1>12 DEF Range, Fields
  <2> QED
    BY <1>11, <2>1 DEF loose
<1>14. /\ free_timer \in Timer /\ at[free_timer] = "none"
       /\ free_timer \notin Range(expiration_thread)
  BY <1>13 DEF free_timer
<1> QED
  BY <1>14 DEF Range, Fields

\* set_expiration_timer: one timer k of d starts, in place of the one d had or as a
\* new one; a mutex that the cancelled timer holds is dead.
TimerSet(t, section, unlocked, d, k) ==
    /\ k \in Timer
    /\ \/ k = expiration_thread[d]
       \/ at[k] = "none" /\ expiration_thread[d] = NoThread
    /\ \A e \in Dest \ {d} : expiration_thread[e] # k
    /\ expiration_thread' = [expiration_thread EXCEPT ![d] = k]
    /\ Moves(t, section, job_after(job[t], section), unlocked,
             {k}, "sleep", [NoJob EXCEPT !.dest = d])

LEMMA SetsTimer ==
    ASSUME Placed, Fields, TimersKnown, LooseBound, Owned,
           NEW t \in {"in", "out", "fwd", "sender"}, NEW section, NEW unlocked, NEW d \in Dest,
           set_expiration_timer(t, section, unlocked, d)
    PROVE  \E k \in Timer : TimerSet(t, section, unlocked, d, k)
<1> DEFINE k == new_timer(d)
<1>0. t \in Thread /\ t \notin Timer
  BY Names
<1>1. /\ k \in Timer
      /\ \/ k = expiration_thread[d] /\ handles(d) = {k}
         \/ at[k] = "none" /\ expiration_thread[d] = NoThread /\ handles(d) = {}
      /\ \A e \in Dest \ {d} : expiration_thread[e] # k
  <2>1. CASE expiration_thread[d] = NoThread
    <3>1. handles(d) = {} /\ k = free_timer
      BY <2>1 DEF handles, new_timer
    <3> QED
      BY <2>1, <3>1, FreeTimer
  <2>2. CASE expiration_thread[d] # NoThread
    <3>1. handles(d) = {expiration_thread[d]} /\ k = expiration_thread[d]
      BY <2>2 DEF handles, new_timer
    <3>2. k \in Timer
      BY <2>2, <3>1 DEF Fields
    <3> QED
      BY <2>2, <3>1, <3>2 DEF TimersKnown
  <2> QED
    BY <2>1, <2>2
<1>2. \A m \in Mutex : owner[m] = k => inside[k]
  BY <1>1, Names DEF Owned, Holding
<1>3. inside[k] => at[k] # "none"
  BY <1>1, Names DEF Owned, Unlocked
<1>4. /\ continue(t, section, unlocked, handles(d), one(k, d))
      /\ expiration_thread' = [expiration_thread EXCEPT ![d] = k]
  BY DEF set_expiration_timer
<1> HIDE DEF k
<1>5. DOMAIN one(k, d) = {k} /\ one(k, d)[k] = d
  BY Started
<1>6. /\ at' = [x \in Thread |-> IF x = t THEN section ELSE IF x = k THEN "sleep" ELSE at[x]]
      /\ inside' = [x \in Thread |-> x # t /\ x # k /\ inside[x]]
      /\ job' = [x \in Thread |-> IF x = k THEN [NoJob EXCEPT !.dest = d]
                                  ELSE IF x = t /\ section \in {"idle", "none"} THEN NoJob
                                  ELSE job[x]]
      /\ owner' = [m \in Mutex |-> IF m \in unlocked THEN "free"
                                   ELSE IF owner[m] = k THEN "dead" ELSE owner[m]]
  <2>1. at' = [x \in Thread |-> IF x = t THEN section ELSE IF x = k THEN "sleep" ELSE at[x]]
    <3>1. k # "sender" /\ k # t
      BY <1>0, <1>1, Names
    <3> QED
      BY <1>1, <1>4, <1>5, <3>1 DEF continue
  <2>2. inside' = [x \in Thread |-> x # t /\ x # k /\ inside[x]]
    <3>1. inside' = [x \in Thread |-> x \notin {t} \cup handles(d) /\ inside[x]]
      BY <1>4 DEF continue
    <3>2. \A x \in Thread : (x \notin {t} \cup handles(d) /\ inside[x])
                              <=> (x # t /\ x # k /\ inside[x])
      BY <1>1, <1>3
    <3> QED
      BY <3>1, <3>2
  <2>3. job' = [x \in Thread |-> IF x = k THEN [NoJob EXCEPT !.dest = d]
                                 ELSE IF x = t /\ section \in {"idle", "none"} THEN NoJob
                                 ELSE job[x]]
    BY <1>1, <1>4, <1>5 DEF continue
  <2>4. owner' = [m \in Mutex |-> IF m \in unlocked THEN "free"
                                  ELSE IF owner[m] = k THEN "dead" ELSE owner[m]]
    <3>1. owner' = [m \in Mutex |-> IF m \in unlocked THEN "free"
                                    ELSE IF owner[m] \in handles(d) THEN "dead" ELSE owner[m]]
      BY <1>4 DEF continue
    <3>2. \A m \in Mutex : owner[m] \in handles(d) <=> owner[m] = k
      BY <1>1, <1>2, <1>3
    <3> QED
      BY <3>1, <3>2
  <2> QED
    BY <2>1, <2>2, <2>3, <2>4
<1>7. k # t
  BY <1>0, <1>1
<1>8. job' = [x \in Thread |-> IF x = t THEN job_after(job[t], section)
                               ELSE IF x = k THEN [NoJob EXCEPT !.dest = d] ELSE job[x]]
  BY <1>6, <1>7 DEF job_after
<1>9. Moves(t, section, job_after(job[t], section), unlocked, {k}, "sleep",
            [NoJob EXCEPT !.dest = d])
  BY <1>6, <1>8 DEF Moves
<1> QED
  BY <1>1, <1>4, <1>9 DEF TimerSet

-----------------------------------------------------------------------------
(* What a move keeps.                                                      *)

LEMMA PlacedKept ==
    ASSUME Placed, NEW t \in Thread, NEW section, NEW j, NEW unlocked,
           NEW K \in SUBSET Thread, NEW a, NEW b,
           Moves(t, section, j, unlocked, K, a, b),
           MayBe(t, section, j), \A x \in K : MayBe(x, a, b)
    PROVE  Placed'
<1>1. \A x \in Thread : MayBe(x, at'[x], job'[x])
  <2> TAKE x \in Thread
  <2>1. CASE x = t
    BY <2>1 DEF Moves
  <2>2. CASE x # t /\ x \in K
    BY <2>2 DEF Moves
  <2>3. CASE x # t /\ x \notin K
    BY <2>3 DEF Moves, Placed
  <2> QED
    BY <2>1, <2>2, <2>3
<1>2. \A x \in Thread : at'[x] \in Section /\ job'[x] \in Job
  BY <1>1 DEF MayBe
<1>3. at' \in [Thread -> Section]
  <2>1. at' = [x \in Thread |-> at'[x]]
    BY DEF Moves
  <2> QED
    BY <1>2, <2>1
<1>4. job' \in [Thread -> Job]
  <2>1. job' = [x \in Thread |-> job'[x]]
    BY DEF Moves
  <2> QED
    BY <1>2, <2>1
<1> QED
  BY <1>1, <1>3, <1>4 DEF Placed

LEMMA LocksKept ==
    ASSUME Fields, NEW t \in Thread, NEW section, NEW j, NEW unlocked,
           NEW K \in SUBSET Thread, NEW a, NEW b,
           Moves(t, section, j, unlocked, K, a, b)
    PROVE  inside' \in [Thread -> BOOLEAN] /\ owner' \in [Mutex -> Thread \cup {"free", "dead"}]
BY DEF Moves, Fields

\* The mutex of a section is one that exists.
LEMMA MutexExists ==
    ASSUME Placed, Fields, NEW t \in Thread, at[t] \notin Unlocked
    PROVE  mutex(t) \in Mutex
<1> DEFINE x == at[t]
           j == job[t]
<1>1. MayBe(t, x, j)
  BY DEF Placed
<1> HIDE DEF x, j
<1>2. /\ x \in {"number", "read", "write", "flood"} \/ j.dest \in Dest \/ x \in {"hop", "reverse"}
      /\ x = "hop" => j.from \in Dest
      /\ x \in {"originator", "reverse", "src"} => j.src \in Dest
      /\ x \in {"dest_hop", "dest_hop_again"} => j.dest \in Dest
  <2>1. x \notin Unlocked
    BY DEF x
  <2>2. CASE t = "in"
    BY <1>1, <2>1, <2>2 DEF MayBe, InSection, Unlocked
  <2>3. CASE t = "out"
    BY <1>1, <2>1, <2>3 DEF MayBe, OutSection, Unlocked
  <2>4. CASE t = "fwd"
    BY <1>1, <2>1, <2>4 DEF MayBe, FwdSection, Unlocked
  <2>5. CASE t = "sender"
    BY <1>1, <2>1, <2>5 DEF MayBe, SenderSection, Unlocked
  <2>6. CASE t \in Timer
    BY <1>1, <2>1, <2>6 DEF MayBe, TimerSection, Unlocked
  <2> QED
    BY <2>2, <2>3, <2>4, <2>5, <2>6 DEF Thread
<1>3. next_hop \in [Dest -> Dest]
  BY DEF Fields
<1> QED
  BY <1>2, <1>3 DEF mutex, Mutex, x, j

\* Only forwarded_messages waits for the next hop of an entry.
LEMMA MutexStays ==
    ASSUME Placed, NEW x \in Thread, at'[x] = at[x], job'[x] = job[x],
           x = "fwd" /\ at[x] \in FwdKeeps => next_hop'[to(x)] = next_hop[to(x)]
    PROVE  mutex(x)' = mutex(x)
<1>1. at[x] \in {"dest_hop", "dest_hop_again"} => x = "fwd"
  <2>1. MayBe(x, at[x], job[x])
    BY DEF Placed
  <2> QED
    BY <2>1 DEF MayBe, Thread, InSection, OutSection, SenderSection, TimerSection
<1> QED
  BY <1>1 DEF mutex, to, FwdKeeps

\* What t may unlock and must not, when it goes on to a section: only its own
\* mutexes; recv_rrep and forwarded_messages keep the destination's.
Unlocks(t, section, j, unlocked) ==
    /\ \A m \in unlocked \cap Mutex : owner[m] = t
    /\ t # "fwd" => \A m \in Mutex \ unlocked :
                       Holding(t, m) => t = "in" /\ section = "originator" /\ m = j.dest
    /\ t = "in" /\ section = "originator" => owner[j.dest] = "in" /\ j.dest \in Mutex \ unlocked
    /\ t = "fwd" /\ section \in FwdKeeps => owner[j.dest] = "fwd" /\ j.dest \in Mutex \ unlocked

LEMMA OwnedKept ==
    ASSUME Placed, Fields, Owned,
           NEW t \in Thread, NEW section, NEW j, NEW unlocked,
           NEW K \in SUBSET (Thread \ {"in", "fwd"}), NEW a, NEW b,
           Moves(t, section, j, unlocked, K, a, b),
           Unlocks(t, section, j, unlocked),
           a # "originator", a \notin FwdKeeps,
           at["fwd"] \in FwdKeeps => next_hop'[to("fwd")] = next_hop[to("fwd")]
    PROVE  Owned'
<1> USE Names
<1>1. \A x \in Thread : x # t /\ x \notin K =>
         /\ at'[x] = at[x] /\ job'[x] = job[x] /\ inside'[x] = inside[x]
         /\ mutex(x)' = mutex(x)
  <2> TAKE x \in Thread
  <2> HAVE x # t /\ x \notin K
  <2>1. at'[x] = at[x] /\ job'[x] = job[x] /\ inside'[x] = inside[x]
    BY DEF Moves, Fields
  <2>2. x = "fwd" /\ at[x] \in FwdKeeps => next_hop'[to(x)] = next_hop[to(x)]
    OBVIOUS
  <2> QED
    BY <2>1, <2>2, MutexStays
<1>2. \A x \in Thread : x = t \/ x \in K => inside'[x] = FALSE
  BY DEF Moves
<1>3. \A x \in Thread, m \in Mutex : x # t /\ x \notin K /\ owner[m] = x => owner'[m] = x
  BY DEF Moves, Unlocks
<1>4. \A m \in Mutex, y \in Thread : owner'[m] = y => m \notin unlocked /\ owner[m] = y /\ y \notin K
  <2> TAKE m \in Mutex, y \in Thread
  <2>1. y # "free" /\ y # "dead"
    BY DEF Thread
  <2> QED
    BY <2>1 DEF Moves
<1>5. \A x \in Thread : inside'[x] => at'[x] \notin Unlocked /\ owner'[mutex(x)'] = x
  <2> SUFFICES ASSUME NEW x \in Thread, inside'[x]
               PROVE  at'[x] \notin Unlocked /\ owner'[mutex(x)'] = x
    OBVIOUS
  <2>1. x # t /\ x \notin K
    BY <1>2
  <2>2. inside[x] /\ at'[x] = at[x] /\ mutex(x)' = mutex(x)
    BY <1>1, <2>1
  <2>3. at[x] \notin Unlocked /\ owner[mutex(x)] = x
    BY <2>2 DEF Owned
  <2>4. mutex(x) \in Mutex
    BY <2>3, MutexExists
  <2> QED
    BY <1>3, <2>1, <2>2, <2>3, <2>4
<1>6. \A m \in Mutex, y \in Thread \ {"fwd"} : owner'[m] = y => Holding(y, m)'
  <2> SUFFICES ASSUME NEW m \in Mutex, NEW y \in Thread \ {"fwd"}, owner'[m] = y
               PROVE  \/ inside'[y] /\ m = mutex(y)'
                      \/ y = "in" /\ at'["in"] = "originator" /\ m = job'["in"].dest
    BY DEF Holding, to
  <2>1. m \notin unlocked /\ owner[m] = y /\ y \notin K
    BY <1>4
  <2>2. Holding(y, m)
    BY <2>1 DEF Owned
  <2>3. CASE y # t
    BY <1>1, <2>1, <2>2, <2>3 DEF Holding, to
  <2>4. CASE y = t
    <3>1. t = "in" /\ section = "originator" /\ m = j.dest
      BY <2>1, <2>2, <2>4 DEF Unlocks
    <3>2. at'[t] = section /\ job'[t] = j
      BY DEF Moves
    <3> QED
      BY <2>4, <3>1, <3>2
  <2> QED
    BY <2>3, <2>4
<1>7. at'["in"] = "originator" => owner'[job'["in"].dest] = "in"
  <2> HAVE at'["in"] = "originator"
  <2>1. CASE t = "in"
    <3>1. section = "originator" /\ job'["in"] = j
      BY <2>1 DEF Moves
    <3> QED
      BY <2>1, <3>1 DEF Unlocks, Moves
  <2>2. CASE t # "in"
    <3>1. at["in"] = "originator" /\ job'["in"] = job["in"]
      BY <1>1, <2>2
    <3>2. owner[to("in")] = "in" /\ to("in") \in Mutex
      <4>1. MayBe("in", at["in"], job["in"])
        BY DEF Placed
      <4> QED
        BY <3>1, <4>1 DEF Owned, MayBe, to
    <3> QED
      BY <1>3, <2>2, <3>1, <3>2 DEF to
  <2> QED
    BY <2>1, <2>2
<1>8. at'["fwd"] \in FwdKeeps => owner'[job'["fwd"].dest] = "fwd"
  <2> HAVE at'["fwd"] \in FwdKeeps
  <2>1. CASE t = "fwd"
    <3>1. section \in FwdKeeps /\ job'["fwd"] = j
      BY <2>1 DEF Moves
    <3> QED
      BY <2>1, <3>1 DEF Unlocks, Moves
  <2>2. CASE t # "fwd"
    <3>1. at["fwd"] \in FwdKeeps /\ job'["fwd"] = job["fwd"]
      BY <1>1, <2>2
    <3>2. owner[to("fwd")] = "fwd" /\ to("fwd") \in Mutex
      <4>1. MayBe("fwd", at["fwd"], job["fwd"])
        BY DEF Placed
      <4> QED
        BY <3>1, <4>1 DEF Owned, MayBe, to, FwdKeeps
    <3> QED
      BY <1>3, <2>2, <3>1, <3>2 DEF to
  <2> QED
    BY <2>1, <2>2
<1> QED
  BY <1>5, <1>6, <1>7, <1>8 DEF Owned, to

LEMMA LooseFinite == IsFiniteSet(loose) /\ Cardinality(loose) \in Nat /\ loose \subseteq Timer
<1>1. loose \in SUBSET Timer /\ IsFiniteSet(Timer)
  BY ThreadsAssumption DEF loose
<1> QED
  BY <1>1, FS_Subset, FS_CardinalityType

\* Fewer loose timers are within the bound.
LEMMA FewerLoose ==
    ASSUME LooseBound, NEW S \in SUBSET loose
    PROVE  Cardinality(S) \in Nat /\ Cardinality(S) <= Cardinality(loose)
BY LooseFinite, FS_Subset, FS_CardinalityType

\* A move in which no timer starts or ends and no entry changes its handle.
LEMMA TimersKept ==
    ASSUME Placed, Fields, TimersKnown, LooseBound,
           NEW t \in Thread, NEW section, NEW j, NEW unlocked,
           NEW K \in SUBSET (Thread \ (Timer \cup {"out"})), NEW a, NEW b,
           Moves(t, section, j, unlocked, K, a, b),
           UNCHANGED expiration_thread,
           t \in Timer => at[t] # "none" /\ section # "none" /\ j = job[t],
           t = "out" => at["out"] # "clear",
           t = "out" /\ section \in BeforeClear =>
              at["out"] \in BeforeClear \/ Cardinality(loose) < MaxLoose
    PROVE  TimersKnown' /\ LooseBound' /\ loose' = loose
<1> USE Names
<1>1. \A x \in Timer : job'[x] = job[x] /\ (at'[x] = "none" <=> at[x] = "none")
  BY DEF Moves
<1>2. \A d \in Dest : Forgets(d) => Forgets(d)'
  BY DEF Forgets, to, Moves
<1>3. loose' = loose
  BY <1>1 DEF loose
<1>4. LooseBound'
  <2>1. at'["out"] \in BeforeClear =>
           at["out"] \in BeforeClear \/ Cardinality(loose) < MaxLoose
    BY DEF Moves
  <2> QED
    BY <1>3, <2>1 DEF LooseBound
<1>5. TimersKnown'
  <2>1. \A d \in Dest : expiration_thread[d] # NoThread =>
           IF at'[expiration_thread[d]] = "none" THEN Forgets(d)'
           ELSE job'[expiration_thread[d]].dest = d
    <3> TAKE d \in Dest
    <3> HAVE expiration_thread[d] # NoThread
    <3>1. expiration_thread[d] \in Timer
      BY DEF Fields
    <3> QED
      BY <1>1, <1>2, <3>1 DEF TimersKnown, to
  <2> QED
    BY <2>1 DEF TimersKnown, to
<1> QED
  BY <1>3, <1>4, <1>5

\* set_expiration_timer leaves no timer that no entry knows.
LEMMA TimersSet ==
    ASSUME Placed, Fields, TimersKnown, LooseBound,
           NEW t \in {"in", "out", "fwd", "sender"}, NEW section, NEW unlocked,
           NEW d \in Dest, NEW k, TimerSet(t, section, unlocked, d, k),
           t = "out" => at["out"] # "clear",
           t = "out" /\ section \in BeforeClear => at["out"] \in BeforeClear
    PROVE  /\ TimersKnown' /\ LooseBound' /\ loose' \subseteq loose
           /\ expiration_thread' \in [Dest -> Timer \cup {NoThread}]
<1> USE Names
<1> DEFINE b == [NoJob EXCEPT !.dest = d]
           j == job_after(job[t], section)
<1>1. /\ k \in Timer
      /\ k = expiration_thread[d] \/ (at[k] = "none" /\ expiration_thread[d] = NoThread)
      /\ \A e \in Dest \ {d} : expiration_thread[e] # k
      /\ expiration_thread' = [expiration_thread EXCEPT ![d] = k]
      /\ Moves(t, section, j, unlocked, {k}, "sleep", b)
  BY DEF TimerSet
<1>2. b.dest = d
  BY DEF NoJob
<1> HIDE DEF b, j
<1>3. /\ expiration_thread' \in [Dest -> Timer \cup {NoThread}]
      /\ expiration_thread'[d] = k
      /\ \A e \in Dest : e # d => expiration_thread'[e] = expiration_thread[e]
  BY <1>1 DEF Fields
<1>4. /\ \A x \in Timer : x # k => at'[x] = at[x] /\ job'[x] = job[x]
      /\ at'[k] = "sleep" /\ job'[k] = b
  BY <1>1 DEF Moves
<1>5. \A e \in Dest : Forgets(e) => Forgets(e)'
  BY <1>1 DEF Forgets, to, Moves
<1>6. \A e \in Dest : expiration_thread'[e] # NoThread =>
         IF at'[expiration_thread'[e]] = "none" THEN Forgets(e)'
         ELSE job'[expiration_thread'[e]].dest = e
  <2> TAKE e \in Dest
  <2> HAVE expiration_thread'[e] # NoThread
  <2>1. CASE e = d
    BY <1>2, <1>3, <1>4, <2>1
  <2>2. CASE e # d
    <3>1. expiration_thread'[e] = expiration_thread[e] /\ expiration_thread[e] # k
      BY <1>1, <1>3, <2>2
    <3>2. expiration_thread[e] \in Timer
      BY <3>1 DEF Fields
    <3> QED
      BY <1>4, <1>5, <3>1, <3>2 DEF TimersKnown, to
  <2> QED
    BY <2>1, <2>2
<1>7. \A e, f \in Dest : expiration_thread'[e] = expiration_thread'[f] =>
         e = f \/ expiration_thread'[e] = NoThread
  BY <1>1, <1>3 DEF TimersKnown
<1>8. TimersKnown'
  BY <1>6, <1>7 DEF TimersKnown, to
<1>9. loose' \subseteq loose
  <2> SUFFICES ASSUME NEW x \in Timer, at'[x] # "none", x \notin Range(expiration_thread')
               PROVE  at[x] # "none" /\ x \notin Range(expiration_thread)
    BY DEF loose
  <2>1. \A e \in Dest : expiration_thread'[e] # x
    BY <1>3 DEF Range
  <2>2. x # k
    BY <1>3, <2>1
  <2>3. \A e \in Dest : expiration_thread[e] # x
    BY <1>1, <1>3, <2>1, <2>2
  <2> QED
    BY <1>4, <2>2, <2>3 DEF Range, Fields
<1>10. LooseBound'
  <2>1. at'["out"] \in BeforeClear => at["out"] \in BeforeClear
    BY <1>1 DEF Moves
  <2>2. Cardinality(loose') \in Nat /\ Cardinality(loose') <= Cardinality(loose)
    BY <1>9, FewerLoose
  <2>3. Cardinality(loose) \in Nat /\ MaxLoose \in Nat
    BY LooseFinite, ThreadsAssumption
  <2> QED
    BY <2>1, <2>2, <2>3 DEF LooseBound
<1> QED
  BY <1>3, <1>8, <1>9, <1>10

\* A move of a thread that neither starts nor ends a search.
LEMMA SearchKept ==
    ASSUME SearchKnown, NEW t \in Thread, NEW section, NEW j, NEW unlocked,
           NEW K \in SUBSET Timer, NEW a, NEW b,
           Moves(t, section, j, unlocked, K, a, b),
           UNCHANGED <<rreq_search, rreq_message_sender>>,
           t = "sender" => at["sender"] # "none" /\ section # "none" /\ j = job["sender"],
           t = "out" => at["sender"] = "none"
    PROVE  SearchKnown'
<1> USE Names
<1>1. /\ at'["sender"] = "none" <=> at["sender"] = "none"
      /\ job'["sender"] = job["sender"]
  BY DEF Moves
<1>2. at["sender"] # "none" => at'["out"] = at["out"] /\ job'["out"] = job["out"]
  BY DEF Moves
<1> QED
  BY <1>1, <1>2 DEF SearchKnown, to

-----------------------------------------------------------------------------
(* Steps that keep the whole invariant, and what they never do.            *)

\* The action properties MutexLost, TimerForgotten and RepliesRise, of one step.
Orderly ==
    /\ \A m \in Mutex : owner[m] # "dead" /\ owner'[m] = "dead" =>
                           IF m \in Dest THEN at["out"] = "cancel" ELSE at["in"] = "found"
    /\ \A t \in loose' : t \in loose \/ at["out"] = "clear"
    /\ at["in"] = "write" /\ at'["in"] = "idle" => replied' > replied

FieldTypes ==
    /\ status \in [Dest -> {"ROUTE_VALID", "ROUTE_INVALID"}]
    /\ next_hop \in [Dest -> Dest]
    /\ rreq_search \in [Dest -> {"SEARCH_NONE", "SEARCH_SEARCHING", "SEARCH_FOUND",
                                 "SEARCH_FAILED"}]
    /\ rreq_message_sender \in [Dest -> {"sender", NoThread}]

LEMMA NumbersKept ==
    ASSUME NumbersRise, NEW t \in Thread, NEW section, NEW j, NEW unlocked,
           NEW K \in SUBSET (Thread \ {"in"}), NEW a, NEW b,
           Moves(t, section, j, unlocked, K, a, b),
           UNCHANGED numbers, t = "in" => section # "write"
    PROVE  NumbersRise'
<1>1. at'["in"] = "write" => at["in"] = "write"
  BY Names DEF Moves
<1> QED
  BY <1>1 DEF NumbersRise, numbers

\* A thread goes on alone; handles and next hops stay as they are.
LEMMA AloneKeeps ==
    ASSUME ThreadsInv, ~deleted, NEW t \in Thread, NEW section, NEW j, NEW unlocked,
           GoesAlone(t, section, j, unlocked),
           MayBe(t, section, j), Unlocks(t, section, j, unlocked),
           FieldTypes', UNCHANGED <<next_hop, expiration_thread>>,
           UNCHANGED <<rreq_search, rreq_message_sender>> \/ SearchKnown',
           t \in Timer \cup {"sender"} => at[t] # "none" /\ section # "none" /\ j = job[t],
           t = "out" => at["sender"] = "none" /\ at["out"] # "clear",
           t = "out" /\ section \in BeforeClear =>
              at["out"] \in BeforeClear \/ Cardinality(loose) < MaxLoose,
           NumbersRise' \/ (UNCHANGED numbers /\ (t = "in" => section # "write")),
           t = "in" /\ at["in"] = "write" => replied' > replied
    PROVE  ThreadsInv' /\ Orderly
<1> USE Names
<1>1. Moves(t, section, j, unlocked, {}, "none", NoJob)
  BY DEF GoesAlone
<1>2. Placed /\ Fields /\ Owned /\ NumbersRise /\ TimersKnown /\ LooseBound /\ SearchKnown
  BY DEF ThreadsInv
<1>3. Placed'
  BY <1>1, <1>2, PlacedKept
<1>4. Fields'
  <2>1. inside' \in [Thread -> BOOLEAN] /\ owner' \in [Mutex -> Thread \cup {"free", "dead"}]
    BY <1>1, <1>2, LocksKept
  <2> QED
    BY <1>2, <2>1 DEF Fields, FieldTypes
<1>5. Owned'
  BY <1>1, <1>2, OwnedKept DEF FwdKeeps
<1>6. TimersKnown' /\ LooseBound' /\ loose' = loose
  BY <1>1, <1>2, TimersKept
<1>7. SearchKnown'
  BY <1>1, <1>2, SearchKept
<1>8. NumbersRise'
  BY <1>1, <1>2, NumbersKept
<1>9. Orderly
  <2>1. \A m \in Mutex : owner'[m] = "dead" => owner[m] = "dead"
    BY <1>1 DEF Moves
  <2>2. at["in"] = "write" /\ at'["in"] = "idle" => replied' > replied
    BY <1>1 DEF Moves
  <2> QED
    BY <1>6, <2>1, <2>2 DEF Orderly
<1> QED
  BY <1>3, <1>4, <1>5, <1>6, <1>7, <1>8, <1>9 DEF ThreadsInv

\* The timer of an entry does not hold a mutex while another thread has that entry's.
LEMMA TimerHoldsNothing ==
    ASSUME Placed, TimersKnown, Owned,
           NEW d \in Dest, NEW k \in Timer,
           k = expiration_thread[d] \/ at[k] = "none", owner[d] # k
    PROVE  \A m \in Mutex : owner[m] # k
<1> USE Names
<1> SUFFICES ASSUME NEW m \in Mutex, owner[m] = k
             PROVE  FALSE
  OBVIOUS
<1>1. inside[k] /\ m = mutex(k)
  BY DEF Owned, Holding
<1>2. at[k] \notin Unlocked
  BY <1>1 DEF Owned
<1>3. at[k] = "expire"
  <2>1. MayBe(k, at[k], job[k])
    BY DEF Placed
  <2> QED
    BY <1>2, <2>1 DEF MayBe, TimerSection, Unlocked
<1>4. to(k) = d
  BY <1>3 DEF TimersKnown
<1>5. m = d
  BY <1>1, <1>3, <1>4 DEF mutex, to
<1> QED
  BY <1>5

\* A thread that has the mutex of d sets the timer of d, and goes on.
LEMMA SetKeeps ==
    ASSUME ThreadsInv, ~deleted, NEW t \in {"in", "out", "fwd", "sender"},
           NEW section, NEW unlocked, NEW d \in Dest,
           set_expiration_timer(t, section, unlocked, d), owner[d] = t,
           MayBe(t, section, job_after(job[t], section)),
           Unlocks(t, section, job_after(job[t], section), unlocked),
           FieldTypes', UNCHANGED numbers,
           at["fwd"] \in FwdKeeps => next_hop'[to("fwd")] = next_hop[to("fwd")],
           t = "in" => at["in"] # "write" /\ section # "write",
           t = "out" => at["sender"] = "none" /\ at["out"] # "clear",
           t = "out" /\ section \in BeforeClear => at["out"] \in BeforeClear,
           \/ t # "sender" /\ UNCHANGED <<rreq_search, rreq_message_sender>>
           \/ SearchKnown'
    PROVE  ThreadsInv' /\ Orderly
<1> USE Names
<1>1. Placed /\ Fields /\ Owned /\ NumbersRise /\ TimersKnown /\ LooseBound /\ SearchKnown
  BY DEF ThreadsInv
<1>2. PICK k \in Timer : TimerSet(t, section, unlocked, d, k)
  BY <1>1, SetsTimer
<1> DEFINE b == [NoJob EXCEPT !.dest = d]
           j == job_after(job[t], section)
<1>3. /\ Moves(t, section, j, unlocked, {k}, "sleep", b)
      /\ k = expiration_thread[d] \/ at[k] = "none"
  BY <1>2 DEF TimerSet
<1>4. MayBe(k, "sleep", b)
  <2>1. b \in Job /\ b.dest = d
    BY NoJobIsJob DEF NoJob
  <2> QED
    BY <2>1 DEF MayBe, Section, TimerSection
<1>5. MayBe(t, section, j) /\ Unlocks(t, section, j, unlocked)
  OBVIOUS
<1> HIDE DEF b, j
<1>6. Placed'
  BY <1>1, <1>3, <1>4, <1>5, PlacedKept
<1>7. TimersKnown' /\ LooseBound' /\ loose' \subseteq loose
      /\ expiration_thread' \in [Dest -> Timer \cup {NoThread}]
  BY <1>1, <1>2, TimersSet
<1>8. Fields'
  <2>1. inside' \in [Thread -> BOOLEAN] /\ owner' \in [Mutex -> Thread \cup {"free", "dead"}]
    BY <1>1, <1>3, LocksKept
  <2> QED
    BY <1>7, <2>1 DEF Fields, FieldTypes
<1>9. Owned'
  BY <1>1, <1>3, <1>5, OwnedKept DEF FwdKeeps
<1>10. SearchKnown'
  <2> SUFFICES ASSUME t # "sender", UNCHANGED <<rreq_search, rreq_message_sender>>
               PROVE  SearchKnown'
    OBVIOUS
  <2> QED
    BY <1>1, <1>3, SearchKept
<1>11. NumbersRise'
  BY <1>1, <1>3, NumbersKept
<1>12. Orderly
  <2>1. \A m \in Mutex : owner[m] # k
    BY <1>1, <1>3, TimerHoldsNothing
  <2>2. \A m \in Mutex : owner'[m] = "dead" => owner[m] = "dead"
    BY <1>3, <2>1 DEF Moves
  <2>3. at["in"] = "write" => at'["in"] = "write"
    BY <1>3 DEF Moves
  <2> QED
    BY <1>7, <2>2, <2>3 DEF Orderly
<1> QED
  BY <1>6, <1>7, <1>8, <1>9, <1>10, <1>11, <1>12 DEF ThreadsInv

\* What is known where a section runs.
LEMMA Runs ==
    ASSUME ThreadsInv, NEW t \in Thread, NEW section, runs(t, section)
    PROVE  /\ ~deleted /\ at[t] = section /\ MayBe(t, section, job[t])
           /\ section \notin Unlocked => inside[t] /\ owner[mutex(t)] = t
           /\ section \in Unlocked => ~inside[t]
           /\ Placed /\ Fields /\ Owned /\ NumbersRise /\ FieldTypes
           /\ TimersKnown /\ LooseBound /\ SearchKnown
BY DEF ThreadsInv, runs, Placed, Owned, Fields, FieldTypes

\* A thread that holds one mutex unlocks it, ...
LEMMA UnlocksIt ==
    ASSUME Owned, NEW t \in Thread \ {"fwd"}, NEW section, NEW j, NEW unlocked,
           inside[t], unlocked = {mutex(t)},
           t = "in" => at["in"] # "originator" /\ section # "originator"
    PROVE  Unlocks(t, section, j, unlocked)
BY DEF Unlocks, Owned, Holding

\* ... and one that holds none has nothing to unlock.
LEMMA UnlocksNone ==
    ASSUME Owned, NEW t \in Thread, NEW section, NEW j, ~inside[t],
           at[t] \in Unlocked, section # "originator", section \notin FwdKeeps
    PROVE  Unlocks(t, section, j, {})
BY DEF Unlocks, Holding, Unlocked

-----------------------------------------------------------------------------
(* The callback thread for control messages.                               *)

LEMMA recv_rrep_keeps ==
    ASSUME ThreadsInv, NEW r \in Rreps, recv_rrep(r)
    PROVE  ThreadsInv' /\ Orderly
<1> USE Names
<1> DEFINE section == IF r[3] = Self THEN "found" ELSE "hop"
           j == [from |-> r[1], dest |-> r[2], src |-> r[3]]
<1>1. idle_with("in", section, r[1], r[2], r[3])
  BY DEF recv_rrep, in_message
<1>2. runs("in", "idle")
  BY <1>1 DEF idle_with
<1>3. r[1] \in Dest /\ r[2] \in Dest /\ r[3] \in Dest \cup {Self} /\ r[2] # r[3]
  BY ThreadsAssumption
<1>4. MayBe("in", section, j)
  BY <1>3 DEF MayBe, Section, InSection, Job
<1>5. GoesAlone("in", section, j, {})
  BY <1>1, <1>2, Runs, Begins
<1>6. Unlocks("in", section, j, {})
  BY <1>2, Runs, UnlocksNone DEF Unlocked, FwdKeeps
<1>7. UNCHANGED <<entries, expiration_thread, numbers>> /\ at["in"] = "idle"
  BY <1>1, <1>2 DEF idle_with, runs
<1>8. section # "write"
  OBVIOUS
<1> HIDE DEF section, j
<1> QED
  BY <1>2, <1>4, <1>5, <1>6, <1>7, <1>8, Runs, AloneKeeps DEF entries, FieldTypes

LEMMA recv_rreq_keeps ==
    ASSUME ThreadsInv, NEW r \in Rreqs, recv_rreq(r)
    PROVE  ThreadsInv' /\ Orderly
<1> USE Names
<1> DEFINE j == [from |-> r[1], dest |-> Self, src |-> r[2]]
<1>1. idle_with("in", "hop", r[1], Self, r[2])
  BY DEF recv_rreq, in_message
<1>2. runs("in", "idle")
  BY <1>1 DEF idle_with
<1>3. r[1] \in Dest /\ r[2] \in Dest
  BY ThreadsAssumption
<1>4. MayBe("in", "hop", j)
  BY <1>3 DEF MayBe, Section, InSection, Job
<1>5. GoesAlone("in", "hop", j, {})
  BY <1>1, <1>2, Runs, Begins
<1>6. Unlocks("in", "hop", j, {})
  BY <1>2, Runs, UnlocksNone DEF Unlocked, FwdKeeps
<1>7. UNCHANGED <<entries, expiration_thread, numbers>> /\ at["in"] = "idle"
  BY <1>1, <1>2 DEF idle_with, runs
<1> HIDE DEF j
<1> QED
  BY <1>2, <1>4, <1>5, <1>6, <1>7, Runs, AloneKeeps DEF entries, FieldTypes

LEMMA previous_hop_keeps ==
    ASSUME ThreadsInv, previous_hop
    PROVE  ThreadsInv' /\ Orderly
<1> USE Names
<1> DEFINE hop == job["in"].from
           section == IF to("in") = Self THEN "reverse" ELSE "install"
<1>1. /\ runs("in", "hop")
      /\ status' = [status EXCEPT ![hop] = "ROUTE_VALID"]
      /\ set_expiration_timer("in", section, {hop}, hop)
      /\ UNCHANGED <<next_hop, rreq_search, rreq_message_sender, numbers>>
  BY DEF previous_hop, unlock_previous_hop
<1>2. hop \in Dest /\ MayBe("in", "hop", job["in"])
  BY <1>1, Runs DEF MayBe
<1>3. mutex("in") = hop /\ inside["in"] /\ owner[hop] = "in" /\ at["in"] = "hop"
  BY <1>1, Runs DEF mutex, Unlocked
<1>4. MayBe("in", section, job["in"])
  BY <1>2 DEF MayBe, Section, InSection, Job, to
<1>5. job_after(job["in"], section) = job["in"] /\ section # "write" /\ section # "originator"
  BY DEF job_after
<1> HIDE DEF hop, section
<1>6. Unlocks("in", section, job["in"], {hop})
  BY <1>1, <1>3, <1>5, Runs, UnlocksIt
<1>7. FieldTypes'
  BY <1>1, Runs DEF FieldTypes
<1> QED
  BY <1>1, <1>2, <1>3, <1>4, <1>5, <1>6, <1>7, Runs, SetKeeps DEF FwdKeeps

\* Only the callback that has an entry's mutex changes its next hop.
LEMMA RouteFields ==
    ASSUME Fields, Owned, NEW d \in Dest, owner[d] = "in", job["in"].from \in Dest,
           NEW fresher, in_route(d, fresher)
    PROVE  /\ FieldTypes'
           /\ at["fwd"] \in FwdKeeps => next_hop'[to("fwd")] = next_hop[to("fwd")]
           /\ UNCHANGED <<rreq_search, rreq_message_sender, numbers>>
<1> DEFINE hop == IF fresher THEN job["in"].from ELSE next_hop[d]
<1>1. /\ status' = [status EXCEPT ![d] = "ROUTE_VALID"]
      /\ next_hop' = [next_hop EXCEPT ![d] = hop]
      /\ UNCHANGED <<rreq_search, rreq_message_sender, numbers>>
  BY DEF in_route
<1>2. hop \in Dest
  BY DEF Fields
<1> HIDE DEF hop
<1>3. FieldTypes'
  BY <1>1, <1>2 DEF FieldTypes, Fields
<1>4. at["fwd"] \in FwdKeeps => to("fwd") # d
  BY DEF Owned
<1> QED
  BY <1>1, <1>3, <1>4 DEF Fields

LEMMA rrep_installs_keeps ==
    ASSUME ThreadsInv, NEW fresher \in BOOLEAN, rrep_installs(fresher)
    PROVE  ThreadsInv' /\ Orderly
<1> USE Names
<1> DEFINE d == to("in")
<1>1. runs("in", "install") /\ in_route(d, fresher)
  BY DEF rrep_installs
<1>2. MayBe("in", "install", job["in"])
  BY <1>1, Runs
<1>3. d \in Dest /\ job["in"].from \in Dest /\ d = job["in"].dest
  BY <1>2 DEF MayBe, to
<1>4. mutex("in") = d /\ inside["in"] /\ owner[d] = "in" /\ at["in"] = "install"
  BY <1>1, Runs DEF mutex, Unlocked, to
<1> HIDE DEF d
<1>5. /\ FieldTypes' /\ UNCHANGED <<rreq_search, rreq_message_sender, numbers>>
      /\ at["fwd"] \in FwdKeeps => next_hop'[to("fwd")] = next_hop[to("fwd")]
  BY <1>1, <1>3, <1>4, Runs, RouteFields
<1>6. CASE job["in"].src = Self
  <2>1. set_expiration_timer("in", "idle", {d}, d)
    BY <1>6 DEF rrep_installs, d
  <2>2. job_after(job["in"], "idle") = NoJob
    BY DEF job_after
  <2>3. MayBe("in", "idle", NoJob)
    BY NoJobIsJob DEF MayBe, Section, InSection
  <2>4. Unlocks("in", "idle", NoJob, {d})
    BY <1>1, <1>4, Runs, UnlocksIt
  <2> QED
    BY <1>1, <1>3, <1>4, <1>5, <2>1, <2>2, <2>3, <2>4, Runs, SetKeeps
<1>7. CASE job["in"].src # Self
  <2>1. set_expiration_timer("in", "originator", {}, d)
    BY <1>7 DEF rrep_installs, d
  <2>2. job_after(job["in"], "originator") = job["in"]
    BY DEF job_after
  <2>3. MayBe("in", "originator", job["in"])
    BY <1>2, <1>7 DEF MayBe, Section, InSection, Job
  <2>4. Unlocks("in", "originator", job["in"], {})
    BY <1>3, <1>4 DEF Unlocks, Holding
  <2> QED
    BY <1>1, <1>3, <1>4, <1>5, <2>1, <2>2, <2>3, <2>4, Runs, SetKeeps
<1> QED
  BY <1>6, <1>7

LEMMA rreq_installs_keeps ==
    ASSUME ThreadsInv, NEW fresher \in BOOLEAN, rreq_installs(fresher)
    PROVE  ThreadsInv' /\ Orderly
<1> USE Names
<1> DEFINE d == job["in"].src
<1>1. /\ runs("in", "reverse") /\ in_route(d, fresher)
      /\ set_expiration_timer("in", "read", {d}, d)
  BY DEF rreq_installs
<1>2. MayBe("in", "reverse", job["in"])
  BY <1>1, Runs
<1>3. d \in Dest /\ job["in"].from \in Dest
  BY <1>2 DEF MayBe
<1>4. mutex("in") = d /\ inside["in"] /\ owner[d] = "in" /\ at["in"] = "reverse"
  BY <1>1, Runs DEF mutex, Unlocked
<1> HIDE DEF d
<1>5. /\ FieldTypes' /\ UNCHANGED <<rreq_search, rreq_message_sender, numbers>>
      /\ at["fwd"] \in FwdKeeps => next_hop'[to("fwd")] = next_hop[to("fwd")]
  BY <1>1, <1>3, <1>4, Runs, RouteFields
<1>6. job_after(job["in"], "read") = job["in"]
  BY DEF job_after
<1>7. MayBe("in", "read", job["in"])
  BY <1>2 DEF MayBe, Section, InSection
<1>8. Unlocks("in", "read", job["in"], {d})
  BY <1>1, <1>4, Runs, UnlocksIt
<1> QED
  BY <1>1, <1>3, <1>4, <1>5, <1>6, <1>7, <1>8, Runs, SetKeeps

LEMMA rrep_forwards_keeps ==
    ASSUME ThreadsInv, rrep_forwards
    PROVE  ThreadsInv' /\ Orderly
<1> USE Names
<1>1. /\ runs("in", "originator") /\ goes_on("in", "idle", {job["in"].src, to("in")})
      /\ UNCHANGED <<entries, expiration_thread, numbers>>
  BY DEF rrep_forwards
<1>2. mutex("in") = job["in"].src /\ inside["in"] /\ owner[mutex("in")] = "in"
      /\ at["in"] = "originator" /\ owner[to("in")] = "in"
  BY <1>1, Runs DEF mutex, Unlocked, Owned
<1>3. Unlocks("in", "idle", NoJob, {job["in"].src, to("in")})
  BY <1>2 DEF Unlocks, Holding
<1>4. MayBe("in", "idle", NoJob)
  BY NoJobIsJob DEF MayBe, Section, InSection
<1>5. GoesAlone("in", "idle", NoJob, {job["in"].src, to("in")})
  <2>1. job_after(job["in"], "idle") = NoJob
    BY DEF job_after
  <2> QED
    BY <1>1, <2>1, GoesOn
<1> QED
  BY <1>1, <1>2, <1>3, <1>4, <1>5, Runs, AloneKeeps DEF entries, FieldTypes

LEMMA rrep_reads_keeps ==
    ASSUME ThreadsInv, NEW asked \in {0, ReplyBelow}, rrep_reads(asked)
    PROVE  ThreadsInv' /\ Orderly
<1> USE Names
<1>1. /\ runs("in", "read") /\ goes_on("in", "write", {"sequence_num"})
      /\ UNCHANGED <<entries, expiration_thread, sequence_num, replied>>
      /\ seq' = reply_number(asked)
  BY DEF rrep_reads
<1>2. mutex("in") = "sequence_num" /\ inside["in"] /\ at["in"] = "read"
      /\ MayBe("in", "read", job["in"])
  BY <1>1, Runs DEF mutex, Unlocked
<1>3. Unlocks("in", "write", job["in"], {"sequence_num"})
  BY <1>1, <1>2, Runs, UnlocksIt
<1>4. MayBe("in", "write", job["in"])
  BY <1>2 DEF MayBe, Section, InSection
<1>5. GoesAlone("in", "write", job["in"], {"sequence_num"})
  <2>1. job_after(job["in"], "write") = job["in"]
    BY DEF job_after
  <2> QED
    BY <1>1, <2>1, GoesOn
<1>6. NumbersRise'
  <2>1. asked \in Nat
    BY ThreadsAssumption
  <2>2. sequence_num \in Nat /\ replied \in Nat /\ replied <= sequence_num
    BY <1>1, Runs DEF NumbersRise
  <2>3. seq' \in Nat /\ seq' > replied
    BY <1>1, <2>1, <2>2 DEF reply_number
  <2> QED
    BY <1>1, <2>2, <2>3 DEF NumbersRise
<1> QED
  BY <1>1, <1>2, <1>3, <1>4, <1>5, <1>6, Runs, AloneKeeps DEF entries, FieldTypes

LEMMA rrep_writes_keeps ==
    ASSUME ThreadsInv, rrep_writes
    PROVE  ThreadsInv' /\ Orderly
<1> USE Names
<1>1. /\ runs("in", "write") /\ goes_on("in", "idle", {"sequence_num"})
      /\ UNCHANGED <<entries, expiration_thread>>
      /\ sequence_num' = seq /\ replied' = seq /\ seq' = 0
  BY DEF rrep_writes
<1>2. mutex("in") = "sequence_num" /\ inside["in"] /\ at["in"] = "write"
  BY <1>1, Runs DEF mutex, Unlocked
<1>3. Unlocks("in", "idle", NoJob, {"sequence_num"})
  BY <1>1, <1>2, Runs, UnlocksIt
<1>4. MayBe("in", "idle", NoJob)
  BY NoJobIsJob DEF MayBe, Section, InSection
<1>5. GoesAlone("in", "idle", NoJob, {"sequence_num"})
  <2>1. job_after(job["in"], "idle") = NoJob
    BY DEF job_after
  <2> QED
    BY <1>1, <2>1, GoesOn
<1>6. at'["in"] = "idle"
  BY <1>5 DEF GoesAlone, Moves
<1>7. seq > replied /\ seq \in Nat
  BY <1>1, <1>2, Runs DEF NumbersRise
<1>8. NumbersRise' /\ replied' > replied
  BY <1>1, <1>6, <1>7 DEF NumbersRise
<1> QED
  BY <1>1, <1>2, <1>3, <1>4, <1>5, <1>8, Runs, AloneKeeps DEF entries, FieldTypes

\* A RREQ thread that is cancelled may leave a number mutex locked, not an entry's.
LEMMA rrep_found_keeps ==
    ASSUME ThreadsInv, rrep_found
    PROVE  ThreadsInv' /\ Orderly
<1> USE Names
<1> DEFINE d == to("in")
           K == {rreq_message_sender[d]} \ {NoThread}
<1>1. /\ runs("in", "found") /\ continue("in", "hop", {d}, K, <<>>)
      /\ rreq_search' = [rreq_search EXCEPT ![d] = "SEARCH_FOUND"]
      /\ rreq_message_sender' = [rreq_message_sender EXCEPT ![d] = NoThread]
      /\ UNCHANGED <<status, next_hop, expiration_thread, numbers>>
  BY DEF rrep_found
<1>2. MayBe("in", "found", job["in"])
  BY <1>1, Runs
<1>3. d \in Dest /\ d = job["in"].dest
  BY <1>2 DEF MayBe, to
<1>4. mutex("in") = d /\ inside["in"] /\ owner[d] = "in" /\ at["in"] = "found"
  BY <1>1, Runs DEF mutex, Unlocked, to
<1>5. rreq_message_sender[d] \in {"sender", NoThread}
  BY <1>1, <1>3, Runs DEF Fields
<1>6. K \subseteq {"sender"} /\ ("sender" \in K <=> rreq_message_sender[d] # NoThread)
  BY <1>5
<1> HIDE DEF d, K
<1>7. Moves("in", "hop", job["in"], {d}, K, "none", NoJob)
  BY <1>1, <1>6, Started DEF continue, Moves
<1>8. Placed'
  <2>1. MayBe("in", "hop", job["in"])
    BY <1>2 DEF MayBe, Section, InSection
  <2>2. \A x \in K : MayBe(x, "none", NoJob)
    BY <1>6, NoJobIsJob DEF MayBe, Section, SenderSection
  <2>3. K \in SUBSET Thread
    BY <1>6
  <2> QED
    BY <1>1, <1>7, <2>1, <2>2, <2>3, Runs, PlacedKept
<1>9. FieldTypes'
  <2>1. FieldTypes
    BY <1>1, Runs
  <2> QED
    BY <1>1, <2>1 DEF FieldTypes
<1>10. Fields'
  <2>1. inside' \in [Thread -> BOOLEAN] /\ owner' \in [Mutex -> Thread \cup {"free", "dead"}]
    <3>1. K \in SUBSET Thread
      BY <1>6
    <3> QED
      BY <1>1, <1>7, <3>1, Runs, LocksKept
  <2> QED
    BY <1>1, <1>9, <2>1, Runs DEF Fields, FieldTypes
<1>11. Owned'
  <2>1. Unlocks("in", "hop", job["in"], {d})
    BY <1>1, <1>4, Runs, UnlocksIt
  <2>2. K \in SUBSET (Thread \ {"in", "fwd"})
    BY <1>6
  <2> QED
    BY <1>1, <1>7, <2>1, <2>2, Runs, OwnedKept DEF FwdKeeps
<1>12. TimersKnown' /\ LooseBound' /\ loose' = loose
  <2>1. K \in SUBSET (Thread \ (Timer \cup {"out"}))
    BY <1>6
  <2> QED
    BY <1>1, <1>7, <2>1, Runs, TimersKept
<1>13. SearchKnown'
  <2>1. SearchKnown /\ Fields
    BY <1>1, Runs
  <2>2. at'["out"] = at["out"] /\ job'["out"] = job["out"]
    BY <1>6, <1>7 DEF Moves
  <2>3. CASE "sender" \in K
    <3>1. at["sender"] # "none" /\ to("sender") = d
      BY <1>3, <1>6, <2>1, <2>3 DEF SearchKnown
    <3>2. at'["sender"] = "none"
      BY <1>7, <2>3 DEF Moves
    <3>3. \A e \in Dest : rreq_message_sender'[e] = NoThread
                          /\ rreq_search'[e] # "SEARCH_SEARCHING"
      BY <1>1, <1>3, <2>1, <3>1 DEF SearchKnown, Fields
    <3> QED
      BY <3>2, <3>3 DEF SearchKnown
  <2>4. CASE "sender" \notin K
    <3>1. at'["sender"] = at["sender"] /\ job'["sender"] = job["sender"]
      BY <1>7, <2>4 DEF Moves
    <3>2. ~(at["sender"] # "none" /\ to("sender") = d)
      BY <1>3, <1>6, <2>1, <2>4 DEF SearchKnown
    <3>3. /\ rreq_message_sender'[d] = NoThread /\ rreq_search'[d] = "SEARCH_FOUND"
          /\ \A e \in Dest : e # d => rreq_message_sender'[e] = rreq_message_sender[e]
                                      /\ rreq_search'[e] = rreq_search[e]
      BY <1>1, <1>3, <2>1 DEF Fields
    <3> QED
      BY <1>3, <2>1, <2>2, <3>1, <3>2, <3>3 DEF SearchKnown, to
  <2> QED
    BY <2>3, <2>4
<1>14. NumbersRise'
  <2>1. K \in SUBSET (Thread \ {"in"})
    BY <1>6
  <2> QED
    BY <1>1, <1>7, <2>1, Runs, NumbersKept
<1>15. Orderly
  <2>1. \A m \in Dest : owner[m] # "dead" => owner'[m] # "dead"
    <3> SUFFICES ASSUME NEW m \in Dest, owner[m] = "sender", "sender" \in K
                 PROVE  FALSE
      BY <1>6, <1>7 DEF Moves
    <3>1. to("sender") = d
      BY <1>1, <1>3, <1>6, Runs DEF SearchKnown
    <3>2. inside["sender"] /\ m = mutex("sender") /\ at["sender"] \notin Unlocked
      BY <1>1, Runs DEF Owned, Holding
    <3>3. MayBe("sender", at["sender"], job["sender"])
      BY <1>1, Runs DEF Placed
    <3>4. m = to("sender")
      BY <3>2, <3>3 DEF MayBe, SenderSection, Unlocked, mutex, to
    <3> QED
      BY <1>4, <3>1, <3>4
  <2>2. at["in"] = "found"
    BY <1>4
  <2> QED
    BY <1>12, <2>1, <2>2 DEF Orderly
<1> QED
  BY <1>8, <1>10, <1>11, <1>12, <1>13, <1>14, <1>15 DEF ThreadsInv

-----------------------------------------------------------------------------
(* The callback thread for outgoing packets.                               *)

LEMMA outgoing_message_keeps ==
    ASSUME ThreadsInv, NEW d \in Calls, outgoing_message(d)
    PROVE  ThreadsInv' /\ Orderly
<1> USE Names
<1> DEFINE section == IF ~Valid(d) THEN "search"
                      ELSE IF next_hop[d] = d THEN "refresh" ELSE "break"
           j == [from |-> Self, dest |-> d, src |-> Self]
<1>1. idle_with("out", section, Self, d, Self) /\ Cardinality(loose) < MaxLoose
  BY DEF outgoing_message
<1>2. runs("out", "idle")
  BY <1>1 DEF idle_with
<1>3. d \in Dest
  BY ThreadsAssumption
<1>4. MayBe("out", section, j)
  BY <1>3 DEF MayBe, Section, OutSection, Job
<1>5. GoesAlone("out", section, j, {})
  BY <1>1, <1>2, Runs, Begins
<1>6. Unlocks("out", section, j, {})
  BY <1>2, Runs, UnlocksNone DEF Unlocked, FwdKeeps
<1>7. UNCHANGED <<entries, expiration_thread, numbers>> /\ at["out"] = "idle"
  BY <1>1, <1>2 DEF idle_with, runs
<1>8. at["sender"] = "none"
  BY <1>2, <1>7, Runs DEF SearchKnown
<1> HIDE DEF section, j
<1> QED
  BY <1>1, <1>2, <1>4, <1>5, <1>6, <1>7, <1>8, Runs, AloneKeeps DEF entries, FieldTypes

\* A section of this callback that is about the entry of its packet.
LEMMA OutRuns ==
    ASSUME ThreadsInv, NEW section, runs("out", section), section # "idle"
    PROVE  /\ to("out") \in Dest /\ MayBe("out", section, job["out"]) /\ at["out"] = section
           /\ section # "poll" => at["sender"] = "none"
           /\ section \in {"refresh", "break", "create", "outcome", "failed"} =>
                 inside["out"] /\ mutex("out") = to("out") /\ owner[to("out")] = "out"
BY Names, Runs DEF MayBe, to, mutex, Unlocked, SearchKnown

\* It goes on with its packet, or ends the call.
LEMMA OutMayGo ==
    ASSUME NEW section, MayBe("out", section, job["out"]), section # "idle",
           NEW next \in OutSection \ {"idle"}
    PROVE  /\ MayBe("out", next, job["out"]) /\ job_after(job["out"], next) = job["out"]
           /\ MayBe("out", "idle", NoJob) /\ job_after(job["out"], "idle") = NoJob
BY Names, NoJobIsJob DEF MayBe, Section, OutSection, job_after

LEMMA out_refreshes_keeps ==
    ASSUME ThreadsInv, out_refreshes
    PROVE  ThreadsInv' /\ Orderly
<1> USE Names
<1> DEFINE d == to("out")
<1>1. /\ runs("out", "refresh") /\ set_expiration_timer("out", "idle", {d}, d)
      /\ UNCHANGED <<entries, numbers>>
  BY DEF out_refreshes
<1>2. /\ d \in Dest /\ MayBe("out", "refresh", job["out"]) /\ at["sender"] = "none"
      /\ inside["out"] /\ mutex("out") = d /\ owner[d] = "out" /\ at["out"] = "refresh"
  BY <1>1, OutRuns
<1> HIDE DEF d
<1>3. MayBe("out", "idle", NoJob) /\ job_after(job["out"], "idle") = NoJob
  BY <1>2, OutMayGo DEF OutSection
<1>4. Unlocks("out", "idle", NoJob, {d})
  BY <1>1, <1>2, Runs, UnlocksIt
<1> QED
  BY <1>1, <1>2, <1>3, <1>4, Runs, SetKeeps DEF entries, FieldTypes, BeforeClear

LEMMA out_breaks_keeps ==
    ASSUME ThreadsInv, out_breaks
    PROVE  ThreadsInv' /\ Orderly
<1> USE Names
<1> DEFINE d == to("out")
<1>1. /\ runs("out", "break") /\ set_expiration_timer("out", "search", {d}, d)
      /\ status' = [status EXCEPT ![d] = "ROUTE_INVALID"]
      /\ UNCHANGED <<next_hop, rreq_search, rreq_message_sender, numbers>>
  BY DEF out_breaks
<1>2. /\ d \in Dest /\ MayBe("out", "break", job["out"]) /\ at["sender"] = "none"
      /\ inside["out"] /\ mutex("out") = d /\ owner[d] = "out" /\ at["out"] = "break"
  BY <1>1, OutRuns
<1> HIDE DEF d
<1>3. MayBe("out", "search", job["out"]) /\ job_after(job["out"], "search") = job["out"]
  BY <1>2, OutMayGo DEF OutSection
<1>4. Unlocks("out", "search", job["out"], {d})
  BY <1>1, <1>2, Runs, UnlocksIt
<1>5. FieldTypes'
  BY <1>1, <1>2, Runs DEF FieldTypes
<1> QED
  BY <1>1, <1>2, <1>3, <1>4, <1>5, Runs, SetKeeps DEF BeforeClear

\* send_rreq goes on without a mutex.
LEMMA OutSteps ==
    ASSUME ThreadsInv, NEW section, NEW next \in OutSection \ {"clear"},
           runs("out", section), section \in Unlocked, section # "idle", section # "clear",
           steps("out", next), at["sender"] = "none",
           next \in BeforeClear => section \in BeforeClear,
           UNCHANGED <<entries, expiration_thread, numbers>>
    PROVE  ThreadsInv' /\ Orderly
<1> USE Names
<1> DEFINE j == job_after(job["out"], next)
<1>1. MayBe("out", next, j)
  <2>1. MayBe("out", section, job["out"])
    BY Runs
  <2>2. CASE next = "idle"
    BY <2>1, <2>2, OutMayGo DEF OutSection
  <2>3. CASE next # "idle"
    BY <2>1, <2>3, OutMayGo
  <2> QED
    BY <2>2, <2>3
<1>2. GoesAlone("out", next, j, {})
  BY GoesOn DEF steps
<1>3. Unlocks("out", next, j, {})
  <2>1. next # "originator" /\ next \notin FwdKeeps
    BY DEF OutSection, FwdKeeps
  <2> QED
    BY <2>1, Runs, UnlocksNone
<1>4. at["out"] = section
  BY Runs
<1> HIDE DEF j
<1> QED
  BY <1>1, <1>2, <1>3, <1>4, Runs, AloneKeeps DEF entries, FieldTypes

LEMMA search_reads_keeps ==
    ASSUME ThreadsInv, search_reads
    PROVE  ThreadsInv' /\ Orderly
<1>1. runs("out", "search") /\ UNCHANGED <<entries, expiration_thread, numbers>>
  BY DEF search_reads
<1>2. at["sender"] = "none"
  BY <1>1, OutRuns
<1>3. PICK next \in {"idle", "poll", "cancel"} : steps("out", next)
  BY DEF search_reads
<1>4. next \in OutSection \ {"clear"}
  BY DEF OutSection
<1> QED
  BY <1>1, <1>2, <1>3, <1>4, OutSteps DEF Unlocked, BeforeClear

LEMMA search_polls_keeps ==
    ASSUME ThreadsInv, search_polls
    PROVE  ThreadsInv' /\ Orderly
<1>1. /\ runs("out", "poll") /\ UNCHANGED <<entries, expiration_thread, numbers>>
      /\ steps("out", "outcome") /\ rreq_search[to("out")] # "SEARCH_SEARCHING"
  BY DEF search_polls, no_longer_searching
<1>2. at["sender"] = "none"
  <2>1. to("out") \in Dest
    BY <1>1, OutRuns
  <2> QED
    BY <1>1, <2>1, Runs, Names DEF SearchKnown
<1> QED
  BY <1>1, <1>2, OutSteps DEF Unlocked, BeforeClear, OutSection

LEMMA search_releases_keeps ==
    ASSUME ThreadsInv, search_releases
    PROVE  ThreadsInv' /\ Orderly
<1> USE Names
<1> DEFINE d == to("out")
<1>1. /\ runs("out", "release") /\ steps("out", "idle")
      /\ rreq_search' = [rreq_search EXCEPT ![d] = "SEARCH_NONE"]
      /\ UNCHANGED <<status, next_hop, rreq_message_sender, expiration_thread, numbers>>
  BY DEF search_releases
<1>2. /\ d \in Dest /\ MayBe("out", "release", job["out"]) /\ at["sender"] = "none"
      /\ at["out"] = "release"
  BY <1>1, OutRuns
<1> HIDE DEF d
<1>3. MayBe("out", "idle", NoJob) /\ job_after(job["out"], "idle") = NoJob
  BY <1>2, OutMayGo DEF OutSection
<1>4. GoesAlone("out", "idle", NoJob, {})
  BY <1>1, <1>3, GoesOn DEF steps
<1>5. Unlocks("out", "idle", NoJob, {})
  BY <1>1, Runs, UnlocksNone DEF Unlocked, FwdKeeps
<1>6. FieldTypes'
  BY <1>1, <1>2, Runs DEF FieldTypes
<1>7. SearchKnown'
  <2>1. at'["sender"] = "none"
    BY <1>2, <1>4 DEF GoesAlone, Moves
  <2>2. SearchKnown /\ Fields
    BY <1>1, Runs
  <2>3. \A e \in Dest : rreq_message_sender'[e] = NoThread /\ rreq_search'[e] # "SEARCH_SEARCHING"
    BY <1>1, <1>2, <2>2 DEF SearchKnown, Fields
  <2> QED
    BY <2>1, <2>3 DEF SearchKnown
<1> QED
  BY <1>1, <1>2, <1>3, <1>4, <1>5, <1>6, <1>7, Runs, AloneKeeps DEF BeforeClear

LEMMA search_outcome_keeps ==
    ASSUME ThreadsInv, search_outcome
    PROVE  ThreadsInv' /\ Orderly
<1> USE Names
<1> DEFINE d == to("out")
<1>1. runs("out", "outcome") /\ UNCHANGED <<entries, expiration_thread, numbers>>
  BY DEF search_outcome
<1>2. PICK next \in {"failed", "release"} : goes_on("out", next, {d})
  BY DEF search_outcome
<1>3. /\ d \in Dest /\ MayBe("out", "outcome", job["out"]) /\ at["sender"] = "none"
      /\ inside["out"] /\ mutex("out") = d /\ owner[d] = "out" /\ at["out"] = "outcome"
  BY <1>1, OutRuns
<1> HIDE DEF d
<1>4. MayBe("out", next, job["out"]) /\ job_after(job["out"], next) = job["out"]
  BY <1>3, OutMayGo DEF OutSection
<1>5. GoesAlone("out", next, job["out"], {d})
  BY <1>2, <1>4, GoesOn
<1>6. Unlocks("out", next, job["out"], {d})
  BY <1>1, <1>3, Runs, UnlocksIt
<1> QED
  BY <1>1, <1>3, <1>4, <1>5, <1>6, Runs, AloneKeeps DEF entries, FieldTypes, BeforeClear

LEMMA search_failed_keeps ==
    ASSUME ThreadsInv, search_failed
    PROVE  ThreadsInv' /\ Orderly
<1> USE Names
<1> DEFINE d == to("out")
<1>1. /\ runs("out", "failed") /\ set_expiration_timer("out", "idle", {d}, d)
      /\ UNCHANGED <<entries, numbers>>
  BY DEF search_failed
<1>2. /\ d \in Dest /\ MayBe("out", "failed", job["out"]) /\ at["sender"] = "none"
      /\ inside["out"] /\ mutex("out") = d /\ owner[d] = "out" /\ at["out"] = "failed"
  BY <1>1, OutRuns
<1> HIDE DEF d
<1>3. MayBe("out", "idle", NoJob) /\ job_after(job["out"], "idle") = NoJob
  BY <1>2, OutMayGo DEF OutSection
<1>4. Unlocks("out", "idle", NoJob, {d})
  BY <1>1, <1>2, Runs, UnlocksIt
<1> QED
  BY <1>1, <1>2, <1>3, <1>4, Runs, SetKeeps DEF entries, FieldTypes, BeforeClear

\* The timer is cancelled whatever it does: it may be inside, with its entry's mutex.
LEMMA search_cancels_keeps ==
    ASSUME ThreadsInv, search_cancels
    PROVE  ThreadsInv' /\ Orderly
<1> USE Names
<1> DEFINE d == to("out")
           K == handles(d)
<1>1. /\ runs("out", "cancel") /\ continue("out", "clear", {}, K, <<>>)
      /\ UNCHANGED <<entries, expiration_thread, numbers>>
  BY DEF search_cancels, section_after_cancel
<1>2. /\ d \in Dest /\ MayBe("out", "cancel", job["out"]) /\ at["sender"] = "none"
      /\ at["out"] = "cancel"
  BY <1>1, OutRuns
<1>3. K \in SUBSET Timer /\ K = {expiration_thread[d]} \ {NoThread}
  BY <1>1, <1>2, Runs DEF handles, Fields
<1>4. d = job["out"].dest
  BY DEF to
<1> HIDE DEF d, K
<1>5. Moves("out", "clear", job["out"], {}, K, "none", NoJob)
  BY <1>1, <1>3, Started DEF continue, Moves
<1>6. Placed'
  <2>1. MayBe("out", "clear", job["out"])
    BY <1>2, OutMayGo DEF OutSection
  <2>2. \A x \in K : MayBe(x, "none", NoJob)
    BY <1>3, NoJobIsJob DEF MayBe, Section, TimerSection
  <2>3. K \in SUBSET Thread
    BY <1>3
  <2> QED
    BY <1>1, <1>5, <2>1, <2>2, <2>3, Runs, PlacedKept
<1>7. Fields'
  <2>1. inside' \in [Thread -> BOOLEAN] /\ owner' \in [Mutex -> Thread \cup {"free", "dead"}]
    <3>1. K \in SUBSET Thread
      BY <1>3
    <3> QED
      BY <1>1, <1>5, <3>1, Runs, LocksKept
  <2> QED
    BY <1>1, <2>1, Runs DEF Fields, entries
<1>8. Owned'
  <2>1. Unlocks("out", "clear", job["out"], {})
    BY <1>1, Runs, UnlocksNone DEF Unlocked, FwdKeeps
  <2>2. K \in SUBSET (Thread \ {"in", "fwd"})
    BY <1>3
  <2> QED
    BY <1>1, <1>5, <2>1, <2>2, Runs, OwnedKept DEF FwdKeeps, entries
<1>9. TimersKnown'
  <2>1. TimersKnown /\ Fields
    BY <1>1, Runs
  <2>2. at'["out"] = "clear" /\ job'["out"].dest = d
    BY <1>4, <1>5 DEF Moves
  <2>3. \A e \in Dest : expiration_thread[e] # NoThread =>
           IF at'[expiration_thread[e]] = "none" THEN Forgets(e)'
           ELSE job'[expiration_thread[e]].dest = e
    <3> SUFFICES ASSUME NEW e \in Dest, expiration_thread[e] # NoThread
                 PROVE  IF at'[expiration_thread[e]] = "none" THEN Forgets(e)'
                        ELSE job'[expiration_thread[e]].dest = e
      OBVIOUS
    <3>1. expiration_thread[e] \in Timer
      BY <2>1 DEF Fields
    <3>2. CASE e = d
      <4>1. at'[expiration_thread[e]] = "none"
        BY <1>3, <1>5, <3>1, <3>2 DEF Moves
      <4> QED
        BY <2>2, <3>2, <4>1 DEF Forgets, to
    <3>3. CASE e # d
      <4>1. expiration_thread[e] \notin K
        BY <1>2, <1>3, <2>1, <3>3 DEF TimersKnown
      <4>2. at[expiration_thread[e]] # "none" /\ to(expiration_thread[e]) = e
        BY <1>2, <2>1 DEF TimersKnown, Forgets
      <4> QED
        BY <1>5, <3>1, <4>1, <4>2 DEF Moves, to
    <3> QED
      BY <3>2, <3>3
  <2> QED
    BY <1>1, <2>1, <2>3 DEF TimersKnown, to
<1>10. loose' \subseteq loose
  BY <1>1, <1>5 DEF loose, Moves
<1>11. LooseBound'
  <2>1. Cardinality(loose) < MaxLoose
    BY <1>1, <1>2, Runs DEF LooseBound, BeforeClear
  <2>2. Cardinality(loose') \in Nat /\ Cardinality(loose') <= Cardinality(loose)
    BY <1>1, <1>10, Runs, FewerLoose
  <2>3. Cardinality(loose) \in Nat /\ MaxLoose \in Nat
    BY LooseFinite, ThreadsAssumption
  <2> QED
    BY <2>1, <2>2, <2>3 DEF LooseBound
<1>12. SearchKnown'
  BY <1>1, <1>2, <1>3, <1>5, Runs, SearchKept DEF entries
<1>13. NumbersRise'
  <2>1. K \in SUBSET (Thread \ {"in"})
    BY <1>3
  <2> QED
    BY <1>1, <1>5, <2>1, Runs, NumbersKept
<1>14. Orderly
  <2>1. \A m \in Mutex \ Dest : owner[m] # "dead" => owner'[m] # "dead"
    <3> SUFFICES ASSUME NEW m \in Mutex \ Dest, NEW k \in Timer, owner[m] = k
                 PROVE  FALSE
      BY <1>3, <1>5 DEF Moves
    <3>1. inside[k] /\ m = mutex(k) /\ at[k] \notin Unlocked
      BY <1>1, Runs DEF Owned, Holding
    <3>2. MayBe(k, at[k], job[k])
      BY <1>1, Runs DEF Placed
    <3>3. m = to(k) /\ to(k) \in Dest
      BY <3>1, <3>2 DEF MayBe, TimerSection, Unlocked, mutex, to
    <3> QED
      BY <3>3
  <2>2. at["in"] = "write" => at'["in"] = "write"
    BY <1>3, <1>5 DEF Moves
  <2> QED
    BY <1>2, <1>10, <2>1, <2>2 DEF Orderly
<1> QED
  BY <1>6, <1>7, <1>8, <1>9, <1>11, <1>12, <1>13, <1>14 DEF ThreadsInv

\* The one step that may leave a timer no entry knows.
LEMMA search_clears_keeps ==
    ASSUME ThreadsInv, search_clears
    PROVE  ThreadsInv' /\ Orderly
<1> USE Names
<1> DEFINE d == to("out")
<1>1. /\ runs("out", "clear") /\ steps("out", "create") /\ UNCHANGED <<entries, numbers>>
      /\ expiration_thread' = [expiration_thread EXCEPT ![d] = NoThread]
  BY DEF search_clears
<1>2. /\ d \in Dest /\ MayBe("out", "clear", job["out"]) /\ at["sender"] = "none"
      /\ at["out"] = "clear"
  BY <1>1, OutRuns
<1> HIDE DEF d
<1>3. MayBe("out", "create", job["out"]) /\ job_after(job["out"], "create") = job["out"]
  BY <1>2, OutMayGo DEF OutSection
<1>4. Moves("out", "create", job["out"], {}, {}, "none", NoJob)
  BY <1>1, <1>3, GoesOn DEF steps, GoesAlone
<1>5. Placed'
  BY <1>1, <1>3, <1>4, Runs, PlacedKept
<1>6. Fields'
  <2>1. inside' \in [Thread -> BOOLEAN] /\ owner' \in [Mutex -> Thread \cup {"free", "dead"}]
    BY <1>1, <1>4, Runs, LocksKept
  <2>2. expiration_thread' \in [Dest -> Timer \cup {NoThread}]
    BY <1>1, Runs DEF Fields
  <2> QED
    BY <1>1, <2>1, <2>2, Runs DEF Fields, entries
<1>7. Owned'
  <2>1. Unlocks("out", "create", job["out"], {})
    BY <1>1, Runs, UnlocksNone DEF Unlocked, FwdKeeps
  <2> QED
    BY <1>1, <1>4, <2>1, Runs, OwnedKept DEF FwdKeeps, entries
<1>8. \A x \in Timer : at'[x] = at[x] /\ job'[x] = job[x]
  BY <1>4 DEF Moves
<1>9. /\ expiration_thread'[d] = NoThread
      /\ \A e \in Dest : e # d => expiration_thread'[e] = expiration_thread[e]
  BY <1>1, <1>2, Runs DEF Fields
<1>10. TimersKnown'
  <2>1. TimersKnown /\ Fields
    BY <1>1, Runs
  <2>2. \A e \in Dest : expiration_thread'[e] # NoThread =>
           at'[expiration_thread'[e]] # "none" /\ job'[expiration_thread'[e]].dest = e
    <3> SUFFICES ASSUME NEW e \in Dest, expiration_thread'[e] # NoThread
                 PROVE  at'[expiration_thread'[e]] # "none" /\ job'[expiration_thread'[e]].dest = e
      OBVIOUS
    <3>1. e # d /\ expiration_thread'[e] = expiration_thread[e]
      BY <1>9
    <3>2. expiration_thread[e] \in Timer /\ expiration_thread[e] # NoThread
      BY <2>1, <3>1 DEF Fields
    <3>3. at[expiration_thread[e]] # "none" /\ to(expiration_thread[e]) = e
      <4>1. ~Forgets(e)
        BY <3>1 DEF Forgets, d
      <4> QED
        BY <2>1, <3>2, <4>1 DEF TimersKnown
    <3> QED
      BY <1>8, <3>1, <3>2, <3>3 DEF to
  <2>3. \A e, f \in Dest : expiration_thread'[e] = expiration_thread'[f] =>
           e = f \/ expiration_thread'[e] = NoThread
    BY <1>9, <2>1 DEF TimersKnown
  <2> QED
    BY <2>2, <2>3 DEF TimersKnown, to
<1>11. LooseBound'
  <2> DEFINE old == expiration_thread[d]
  <2>1. loose' \subseteq loose \cup {old}
    BY <1>1, <1>2, <1>8, <1>9, Runs DEF loose, Range, Fields
  <2>2. IsFiniteSet(loose) /\ Cardinality(loose) \in Nat /\ MaxLoose \in Nat
    BY LooseFinite, ThreadsAssumption
  <2>3. /\ IsFiniteSet(loose \cup {old})
        /\ Cardinality(loose \cup {old}) \in Nat
        /\ Cardinality(loose \cup {old}) <= Cardinality(loose) + 1
    <3>1. IsFiniteSet(loose \cup {old})
          /\ (Cardinality(loose \cup {old}) = Cardinality(loose)
              \/ Cardinality(loose \cup {old}) = Cardinality(loose) + 1)
      BY <2>2, FS_AddElement
    <3> QED
      BY <2>2, <3>1
  <2>4. Cardinality(loose') \in Nat /\ Cardinality(loose') <= Cardinality(loose \cup {old})
    BY <2>1, <2>3, FS_Subset, FS_CardinalityType
  <2>5. Cardinality(loose) < MaxLoose
    BY <1>1, <1>2, Runs DEF LooseBound, BeforeClear
  <2>6. at'["out"] = "create"
    BY <1>4 DEF Moves
  <2> QED
    BY <2>2, <2>3, <2>4, <2>5, <2>6 DEF LooseBound, BeforeClear
<1>12. SearchKnown'
  BY <1>1, <1>2, <1>4, Runs, SearchKept DEF entries
<1>13. NumbersRise'
  BY <1>1, <1>4, Runs, NumbersKept
<1>14. Orderly
  BY <1>2, <1>4 DEF Orderly, Moves
<1> QED
  BY <1>5, <1>6, <1>7, <1>10, <1>11, <1>12, <1>13, <1>14 DEF ThreadsInv

\* There is no RREQ thread yet, so the new one is the only one.
LEMMA search_starts_keeps ==
    ASSUME ThreadsInv, search_starts
    PROVE  ThreadsInv' /\ Orderly
<1> USE Names
<1> DEFINE d == to("out")
           b == [NoJob EXCEPT !.dest = d]
<1>1. /\ runs("out", "create") /\ continue("out", "poll", {d}, {}, one("sender", d))
      /\ rreq_message_sender' = [rreq_message_sender EXCEPT ![d] = "sender"]
      /\ rreq_search' = [rreq_search EXCEPT ![d] = "SEARCH_SEARCHING"]
      /\ UNCHANGED <<status, next_hop, expiration_thread, numbers>>
  BY DEF search_starts
<1>2. /\ d \in Dest /\ MayBe("out", "create", job["out"]) /\ at["sender"] = "none"
      /\ inside["out"] /\ mutex("out") = d /\ owner[d] = "out" /\ at["out"] = "create"
  BY <1>1, OutRuns
<1>3. b \in Job /\ b.dest = d /\ d = job["out"].dest
  BY <1>2, NoJobIsJob DEF NoJob, to
<1>4. MayBe("out", "poll", job["out"])
  BY <1>2, OutMayGo DEF OutSection
<1>5. DOMAIN one("sender", d) = {"sender"} /\ one("sender", d)["sender"] = d
  BY Started
<1>6. \A m \in Mutex : owner[m] # "sender"
  <2>1. ~inside["sender"]
    BY <1>1, <1>2, Runs DEF Owned, Unlocked
  <2> QED
    BY <1>1, <2>1, Runs DEF Owned, Holding
<1>7. Moves("out", "poll", job["out"], {d}, {"sender"}, "number", b)
  <2>1. at' = [x \in Thread |-> IF x = "out" THEN "poll"
                                ELSE IF x \in {"sender"} THEN "number" ELSE at[x]]
    BY <1>1, <1>5 DEF continue
  <2>2. inside' = [x \in Thread |-> x # "out" /\ x \notin {"sender"} /\ inside[x]]
    <3>1. ~inside["sender"]
      BY <1>1, <1>2, Runs DEF Owned, Unlocked
    <3>2. inside' = [x \in Thread |-> x \notin {"out"} \cup {} /\ inside[x]]
      BY <1>1 DEF continue
    <3> QED
      BY <3>1, <3>2
  <2>3. job' = [x \in Thread |-> IF x = "out" THEN job["out"]
                                 ELSE IF x \in {"sender"} THEN b ELSE job[x]]
    BY <1>1, <1>5 DEF continue
  <2>4. owner' = [m \in Mutex |-> IF m \in {d} THEN "free"
                                  ELSE IF owner[m] \in {"sender"} THEN "dead" ELSE owner[m]]
    BY <1>1, <1>6 DEF continue
  <2> QED
    BY <2>1, <2>2, <2>3, <2>4 DEF Moves
<1> HIDE DEF d, b
<1>8. Placed'
  <2>1. MayBe("sender", "number", b)
    BY <1>2, <1>3 DEF MayBe, Section, SenderSection
  <2> QED
    BY <1>1, <1>4, <1>7, <2>1, Runs, PlacedKept
<1>9. Fields'
  <2>1. inside' \in [Thread -> BOOLEAN] /\ owner' \in [Mutex -> Thread \cup {"free", "dead"}]
    <3>1. Fields
      BY <1>1, Runs
    <3>2. {"sender"} \in SUBSET Thread
      OBVIOUS
    <3> QED
      BY <1>7, <3>1, <3>2, LocksKept
  <2>2. FieldTypes
    BY <1>1, Runs
  <2>3. /\ rreq_message_sender' \in [Dest -> {"sender", NoThread}]
        /\ rreq_search' \in [Dest -> {"SEARCH_NONE", "SEARCH_SEARCHING", "SEARCH_FOUND",
                                      "SEARCH_FAILED"}]
    BY <1>1, <2>2 DEF FieldTypes
  <2>4. expiration_thread \in [Dest -> Timer \cup {NoThread}]
    BY <1>1, Runs DEF Fields
  <2> QED
    BY <1>1, <2>1, <2>2, <2>3, <2>4 DEF Fields, FieldTypes
<1>10. Owned'
  <2>1. Unlocks("out", "poll", job["out"], {d})
    BY <1>1, <1>2, Runs, UnlocksIt
  <2> QED
    BY <1>1, <1>7, <2>1, Runs, OwnedKept DEF FwdKeeps
<1>11. TimersKnown' /\ LooseBound' /\ loose' = loose
  BY <1>1, <1>2, <1>7, Runs, TimersKept DEF BeforeClear
<1>12. SearchKnown'
  <2>1. /\ at'["sender"] = "number" /\ job'["sender"].dest = d
        /\ at'["out"] = "poll" /\ job'["out"].dest = d
    BY <1>3, <1>7 DEF Moves
  <2>2. SearchKnown /\ Fields
    BY <1>1, Runs
  <2>3. \A e \in Dest : /\ rreq_message_sender'[e] # NoThread <=> e = d
                        /\ rreq_search'[e] = "SEARCH_SEARCHING" <=> e = d
    BY <1>1, <1>2, <2>2 DEF SearchKnown, Fields
  <2> QED
    BY <2>1, <2>3 DEF SearchKnown, to
<1>13. NumbersRise'
  BY <1>1, <1>7, Runs, NumbersKept
<1>14. Orderly
  <2>1. \A m \in Mutex : owner'[m] = "dead" => owner[m] = "dead"
    BY <1>6, <1>7 DEF Moves
  <2>2. at["in"] = "write" => at'["in"] = "write"
    BY <1>7 DEF Moves
  <2> QED
    BY <1>11, <2>1, <2>2 DEF Orderly
<1> QED
  BY <1>8, <1>9, <1>10, <1>11, <1>12, <1>13, <1>14 DEF ThreadsInv

-----------------------------------------------------------------------------
(* The RREQ thread.                                                        *)

LEMMA SenderRuns ==
    ASSUME ThreadsInv, NEW section, runs("sender", section), section # "none",
           section \notin Unlocked
    PROVE  /\ to("sender") \in Dest /\ MayBe("sender", section, job["sender"])
           /\ at["sender"] = section /\ inside["sender"]
           /\ section = "number" => mutex("sender") = "sequence_num"
           /\ section = "flood" => mutex("sender") = "rreq_id"
           /\ section \in {"known", "fail"} =>
                 mutex("sender") = to("sender") /\ owner[to("sender")] = "sender"
BY Names, Runs DEF MayBe, to, mutex

LEMMA SenderGoesOn ==
    ASSUME ThreadsInv, NEW section \in {"number", "known", "flood"},
           NEW next \in {"known", "flood", "fail"}, NEW unlocked,
           runs("sender", section), goes_on("sender", next, unlocked),
           unlocked = {mutex("sender")},
           UNCHANGED <<entries, expiration_thread>>,
           NumbersRise' \/ UNCHANGED numbers
    PROVE  ThreadsInv' /\ Orderly
<1> USE Names
<1>1. /\ MayBe("sender", section, job["sender"]) /\ at["sender"] = section
      /\ inside["sender"] /\ section # "none"
  BY SenderRuns DEF Unlocked
<1>2. MayBe("sender", next, job["sender"]) /\ job_after(job["sender"], next) = job["sender"]
  BY <1>1 DEF MayBe, Section, SenderSection, job_after
<1>3. GoesAlone("sender", next, job["sender"], unlocked)
  BY <1>2, GoesOn
<1>4. Unlocks("sender", next, job["sender"], unlocked)
  BY <1>1, Runs, UnlocksIt
<1> QED
  BY <1>1, <1>2, <1>3, <1>4, Runs, AloneKeeps DEF entries, FieldTypes

LEMMA sender_numbers_keeps ==
    ASSUME ThreadsInv, sender_numbers
    PROVE  ThreadsInv' /\ Orderly
<1> USE Names
<1>1. /\ runs("sender", "number") /\ goes_on("sender", "known", {"sequence_num"})
      /\ UNCHANGED <<entries, expiration_thread, seq, replied>>
      /\ sequence_num' = sequence_num + 1
  BY DEF sender_numbers
<1>2. mutex("sender") = "sequence_num"
  BY <1>1, SenderRuns DEF Unlocked
<1>3. NumbersRise'
  <2>1. NumbersRise
    BY <1>1, Runs
  <2>2. at'["in"] = at["in"]
    BY <1>1, GoesOn DEF GoesAlone, Moves
  <2> QED
    BY <1>1, <2>1, <2>2 DEF NumbersRise
<1> QED
  BY <1>1, <1>2, <1>3, SenderGoesOn

LEMMA sender_reads_keeps ==
    ASSUME ThreadsInv, sender_reads
    PROVE  ThreadsInv' /\ Orderly
<1>1. /\ runs("sender", "known") /\ goes_on("sender", "flood", {to("sender")})
      /\ UNCHANGED <<entries, expiration_thread, numbers>>
  BY DEF sender_reads
<1>2. mutex("sender") = to("sender")
  BY <1>1, SenderRuns DEF Unlocked
<1> QED
  BY <1>1, <1>2, SenderGoesOn

LEMMA sender_floods_keeps ==
    ASSUME ThreadsInv, NEW section \in {"flood", "fail"}, sender_floods(section)
    PROVE  ThreadsInv' /\ Orderly
<1>1. /\ runs("sender", "flood") /\ goes_on("sender", section, {"rreq_id"})
      /\ UNCHANGED <<entries, expiration_thread, numbers>>
  BY DEF sender_floods
<1>2. mutex("sender") = "rreq_id"
  BY <1>1, SenderRuns DEF Unlocked
<1> QED
  BY <1>1, <1>2, SenderGoesOn

LEMMA sender_fails_keeps ==
    ASSUME ThreadsInv, sender_fails
    PROVE  ThreadsInv' /\ Orderly
<1> USE Names
<1> DEFINE d == to("sender")
<1>1. /\ runs("sender", "fail") /\ set_expiration_timer("sender", "none", {d}, d)
      /\ rreq_message_sender' = [rreq_message_sender EXCEPT ![d] = NoThread]
      /\ rreq_search' = [rreq_search EXCEPT ![d] = "SEARCH_FAILED"]
      /\ UNCHANGED <<status, next_hop, numbers>>
  BY DEF sender_fails
<1>2. /\ d \in Dest /\ MayBe("sender", "fail", job["sender"]) /\ at["sender"] = "fail"
      /\ inside["sender"] /\ mutex("sender") = d /\ owner[d] = "sender"
  BY <1>1, SenderRuns DEF Unlocked
<1>3. job_after(job["sender"], "none") = NoJob /\ d = job["sender"].dest
  BY DEF job_after, to
<1> HIDE DEF d
<1>4. MayBe("sender", "none", NoJob)
  BY NoJobIsJob DEF MayBe, Section, SenderSection
<1>5. Unlocks("sender", "none", NoJob, {d})
  BY <1>1, <1>2, Runs, UnlocksIt
<1>6. FieldTypes'
  BY <1>1, <1>2, Runs DEF FieldTypes
<1>7. SearchKnown'
  <2>1. SearchKnown /\ Fields
    BY <1>1, Runs
  <2>2. at'["sender"] = "none"
    <3>1. PICK k \in Timer : TimerSet("sender", "none", {d}, d, k)
      BY <1>1, <1>2, Runs, SetsTimer
    <3> QED
      BY <3>1 DEF TimerSet, Moves
  <2>3. to("sender") = d
    BY <1>3 DEF to
  <2>4. \A e \in Dest : rreq_message_sender'[e] = NoThread /\ rreq_search'[e] # "SEARCH_SEARCHING"
    BY <1>1, <1>2, <2>1, <2>3 DEF SearchKnown, Fields
  <2> QED
    BY <2>2, <2>4 DEF SearchKnown
<1> QED
  BY <1>1, <1>2, <1>3, <1>4, <1>5, <1>6, <1>7, Runs, SetKeeps DEF FwdKeeps

-----------------------------------------------------------------------------
(* Timers.                                                                 *)

LEMMA timer_wakes_keeps ==
    ASSUME ThreadsInv, NEW t \in Timer, timer_wakes(t)
    PROVE  ThreadsInv' /\ Orderly
<1> USE Names
<1>1. /\ runs(t, "sleep") /\ goes_on(t, "expire", {})
      /\ UNCHANGED <<entries, expiration_thread, numbers>>
  BY DEF timer_wakes, steps
<1>2. MayBe(t, "sleep", job[t]) /\ at[t] = "sleep"
  BY <1>1, Runs
<1>3. MayBe(t, "expire", job[t]) /\ job_after(job[t], "expire") = job[t]
  BY <1>2 DEF MayBe, Section, TimerSection, job_after
<1>4. GoesAlone(t, "expire", job[t], {})
  BY <1>1, <1>3, GoesOn
<1>5. Unlocks(t, "expire", job[t], {})
  BY <1>1, Runs, UnlocksNone DEF Unlocked, FwdKeeps
<1> QED
  BY <1>1, <1>2, <1>3, <1>4, <1>5, Runs, AloneKeeps DEF entries, FieldTypes

\* A timer that runs has the mutex of its entry.
LEMMA TimerRuns ==
    ASSUME ThreadsInv, NEW t \in Timer, runs(t, "expire")
    PROVE  /\ to(t) \in Dest /\ MayBe(t, "expire", job[t]) /\ at[t] = "expire"
           /\ inside[t] /\ mutex(t) = to(t)
BY Names, Runs DEF MayBe, to, mutex, Unlocked

LEMMA route_expires_keeps ==
    ASSUME ThreadsInv, NEW t \in Timer, route_expires(t)
    PROVE  ThreadsInv' /\ Orderly
<1> USE Names
<1> DEFINE d == to(t)
<1>1. /\ runs(t, "expire") /\ goes_on(t, "sleep", {d})
      /\ status' = [status EXCEPT ![d] = "ROUTE_INVALID"]
      /\ UNCHANGED <<next_hop, rreq_search, rreq_message_sender, expiration_thread, numbers>>
  BY DEF route_expires
<1>2. /\ d \in Dest /\ MayBe(t, "expire", job[t]) /\ at[t] = "expire"
      /\ inside[t] /\ mutex(t) = d
  BY <1>1, TimerRuns
<1> HIDE DEF d
<1>3. MayBe(t, "sleep", job[t]) /\ job_after(job[t], "sleep") = job[t]
  BY <1>2 DEF MayBe, Section, TimerSection, job_after
<1>4. GoesAlone(t, "sleep", job[t], {d})
  BY <1>1, <1>3, GoesOn
<1>5. Unlocks(t, "sleep", job[t], {d})
  BY <1>1, <1>2, Runs, UnlocksIt
<1>6. FieldTypes'
  BY <1>1, <1>2, Runs DEF FieldTypes
<1> QED
  BY <1>1, <1>2, <1>3, <1>4, <1>5, <1>6, Runs, AloneKeeps

\* The behaviour is not followed any further; mutexes and numbers are as they should be.
LEMMA entry_deleted_keeps ==
    ASSUME ThreadsInv, NEW t \in Timer, entry_deleted(t)
    PROVE  ThreadsInv' /\ Orderly
<1> USE Names
<1> DEFINE d == to(t)
<1>1. /\ runs(t, "expire") /\ goes_on(t, "none", {d}) /\ deleted' = TRUE
      /\ UNCHANGED <<entries, expiration_thread, numbers>>
  BY DEF entry_deleted
<1>2. inside[t] /\ mutex(t) = d /\ at[t] = "expire"
  BY <1>1, TimerRuns
<1> HIDE DEF d
<1>3. MayBe(t, "none", NoJob) /\ job_after(job[t], "none") = NoJob
  BY NoJobIsJob DEF MayBe, Section, TimerSection, job_after
<1>4. Moves(t, "none", NoJob, {d}, {}, "none", NoJob)
  BY <1>1, <1>3, GoesOn DEF GoesAlone
<1>5. Placed'
  BY <1>1, <1>3, <1>4, Runs, PlacedKept
<1>6. Fields'
  <2>1. inside' \in [Thread -> BOOLEAN] /\ owner' \in [Mutex -> Thread \cup {"free", "dead"}]
    BY <1>1, <1>4, Runs, LocksKept
  <2> QED
    BY <1>1, <2>1, Runs DEF Fields, entries
<1>7. Owned'
  <2>1. Unlocks(t, "none", NoJob, {d})
    BY <1>1, <1>2, Runs, UnlocksIt
  <2> QED
    BY <1>1, <1>4, <2>1, Runs, OwnedKept DEF FwdKeeps, entries
<1>8. NumbersRise'
  BY <1>1, <1>4, Runs, NumbersKept
<1>9. Orderly
  <2>1. \A m \in Mutex : owner'[m] = "dead" => owner[m] = "dead"
    BY <1>4 DEF Moves
  <2>2. loose' \subseteq loose
    BY <1>1, <1>4 DEF loose, Moves
  <2>3. at["in"] = "write" => at'["in"] = "write"
    BY <1>4 DEF Moves
  <2> QED
    BY <2>1, <2>2, <2>3 DEF Orderly
<1> QED
  BY <1>1, <1>5, <1>6, <1>7, <1>8, <1>9 DEF ThreadsInv

-----------------------------------------------------------------------------
(* The callback thread for forwarded packets.                              *)

LEMMA forwarded_messages_keeps ==
    ASSUME ThreadsInv, NEW p \in Packets, forwarded_messages(p)
    PROVE  ThreadsInv' /\ Orderly
<1> USE Names
<1> DEFINE j == [from |-> Self, dest |-> p[2], src |-> p[1]]
<1>1. idle_with("fwd", "dest", Self, p[2], p[1])
  BY DEF forwarded_messages
<1>2. runs("fwd", "idle")
  BY <1>1 DEF idle_with
<1>3. p[1] \in Dest /\ p[2] \in Dest
  BY ThreadsAssumption
<1>4. MayBe("fwd", "dest", j)
  BY <1>3 DEF MayBe, Section, FwdSection, Job
<1>5. GoesAlone("fwd", "dest", j, {})
  BY <1>1, <1>2, Runs, Begins
<1>6. Unlocks("fwd", "dest", j, {})
  BY <1>2, Runs, UnlocksNone DEF Unlocked, FwdKeeps
<1>7. UNCHANGED <<entries, expiration_thread, numbers>>
  BY <1>1 DEF idle_with
<1> HIDE DEF j
<1> QED
  BY <1>2, <1>4, <1>5, <1>6, <1>7, Runs, AloneKeeps DEF entries, FieldTypes

\* What it holds in its sections.
LEMMA FwdRuns ==
    ASSUME ThreadsInv, NEW section \in FwdSection \ {"idle"}, runs("fwd", section)
    PROVE  /\ to("fwd") \in Dest /\ job["fwd"].src \in Dest /\ next_hop[to("fwd")] \in Dest
           /\ MayBe("fwd", section, job["fwd"]) /\ at["fwd"] = section
           /\ owner[to("fwd")] = "fwd"
           /\ section = "dest_hop" => owner[next_hop[to("fwd")]] = "fwd"
           /\ section = "src" => owner[job["fwd"].src] = "fwd"
<1> USE Names
<1>1. /\ MayBe("fwd", section, job["fwd"]) /\ at["fwd"] = section /\ Owned /\ Fields
      /\ section \notin Unlocked => owner[mutex("fwd")] = "fwd"
  BY Runs
<1>2. to("fwd") \in Dest /\ job["fwd"].src \in Dest
  BY <1>1 DEF MayBe, to
<1>3. section \notin Unlocked
  BY DEF FwdSection, Unlocked
<1>4. /\ section = "dest" => mutex("fwd") = to("fwd")
      /\ section = "dest_hop" => mutex("fwd") = next_hop[to("fwd")]
      /\ section = "src" => mutex("fwd") = job["fwd"].src
  BY <1>1 DEF mutex, to
<1>5. section = "dest" \/ section \in FwdKeeps
  BY DEF FwdSection, FwdKeeps
<1> QED
  BY <1>1, <1>2, <1>3, <1>4, <1>5 DEF Owned, Fields

\* It goes on, or ends with the packet.
LEMMA FwdMayGo ==
    ASSUME NEW section, MayBe("fwd", section, job["fwd"]), section # "idle",
           NEW next \in FwdSection \ {"idle"}
    PROVE  /\ MayBe("fwd", next, job["fwd"]) /\ job_after(job["fwd"], next) = job["fwd"]
           /\ MayBe("fwd", "idle", NoJob) /\ job_after(job["fwd"], "idle") = NoJob
BY Names, NoJobIsJob DEF MayBe, Section, FwdSection, job_after

\* It takes another mutex and keeps the ones it has.
LEMMA FwdSteps ==
    ASSUME ThreadsInv, NEW section \in FwdSection \ {"idle"}, NEW next \in FwdKeeps,
           runs("fwd", section), steps("fwd", next),
           UNCHANGED <<entries, expiration_thread, numbers>>
    PROVE  ThreadsInv' /\ Orderly
<1> USE Names
<1>1. /\ to("fwd") \in Dest /\ MayBe("fwd", section, job["fwd"]) /\ at["fwd"] = section
      /\ owner[to("fwd")] = "fwd"
  BY FwdRuns
<1>2. MayBe("fwd", next, job["fwd"]) /\ job_after(job["fwd"], next) = job["fwd"]
  BY <1>1, FwdMayGo DEF FwdKeeps, FwdSection
<1>3. GoesAlone("fwd", next, job["fwd"], {})
  BY <1>2, GoesOn DEF steps
<1>4. Unlocks("fwd", next, job["fwd"], {})
  BY <1>1 DEF Unlocks, to
<1> QED
  BY <1>1, <1>2, <1>3, <1>4, Runs, AloneKeeps DEF entries, FieldTypes

LEMMA fwd_locked_keeps ==
    ASSUME ThreadsInv, fwd_locked
    PROVE  ThreadsInv' /\ Orderly
BY FwdSteps DEF fwd_locked, FwdSection, FwdKeeps

\* Where forwarded_messages decides.
LEMMA FwdDecides ==
    ASSUME ThreadsInv, fwd_decides
    PROVE  /\ \E section \in {"dest", "dest_hop"} : runs("fwd", section)
           /\ owner[next_hop[to("fwd")]] = "fwd"
BY FwdRuns DEF fwd_decides, FwdSection, hop_of_packet

LEMMA fwd_breaks_keeps ==
    ASSUME ThreadsInv, fwd_breaks
    PROVE  ThreadsInv' /\ Orderly
BY FwdDecides, FwdSteps DEF fwd_breaks, FwdSection, FwdKeeps

LEMMA fwd_accepts_keeps ==
    ASSUME ThreadsInv, fwd_accepts
    PROVE  ThreadsInv' /\ Orderly
<1> USE Names
<1> DEFINE d == to("fwd")
           hop == next_hop[to("fwd")]
<1>1. /\ set_expiration_timer("fwd", "src", {hop} \ {d}, d)
      /\ UNCHANGED <<entries, numbers>>
  BY DEF fwd_accepts, hop_of_packet
<1>2. PICK section \in {"dest", "dest_hop"} : runs("fwd", section)
  BY FwdDecides DEF fwd_accepts
<1>3. owner[hop] = "fwd"
  BY FwdDecides DEF fwd_accepts
<1>4. /\ d \in Dest /\ MayBe("fwd", section, job["fwd"]) /\ owner[d] = "fwd"
      /\ d = job["fwd"].dest
  BY <1>2, FwdRuns DEF FwdSection, to
<1>5. MayBe("fwd", "src", job["fwd"]) /\ job_after(job["fwd"], "src") = job["fwd"]
  BY <1>4, FwdMayGo DEF FwdSection
<1>6. Unlocks("fwd", "src", job["fwd"], {hop} \ {d})
  BY <1>3, <1>4 DEF Unlocks
<1> HIDE DEF hop
<1>7. FieldTypes' /\ UNCHANGED <<next_hop, rreq_search, rreq_message_sender>>
  BY <1>1, <1>2, Runs DEF entries, FieldTypes
<1>8. ~deleted
  BY <1>2, Runs
<1>9. at["fwd"] \in FwdKeeps => next_hop'[to("fwd")] = next_hop[to("fwd")]
  BY <1>7
<1> QED
  BY <1>1, <1>4, <1>5, <1>6, <1>7, <1>8, <1>9, SetKeeps

LEMMA fwd_refreshes_source_keeps ==
    ASSUME ThreadsInv, fwd_refreshes_source
    PROVE  ThreadsInv' /\ Orderly
<1> USE Names
<1> DEFINE s == job["fwd"].src
<1>1. /\ runs("fwd", "src") /\ set_expiration_timer("fwd", "idle", {s, to("fwd")}, s)
      /\ UNCHANGED <<entries, numbers>>
  BY DEF fwd_refreshes_source
<1>2. /\ s \in Dest /\ MayBe("fwd", "src", job["fwd"])
      /\ owner[s] = "fwd" /\ owner[to("fwd")] = "fwd"
  BY <1>1, FwdRuns DEF FwdSection
<1>3. MayBe("fwd", "idle", NoJob) /\ job_after(job["fwd"], "idle") = NoJob
  BY <1>2, FwdMayGo DEF FwdSection
<1>4. Unlocks("fwd", "idle", NoJob, {s, to("fwd")})
  BY <1>2 DEF Unlocks, FwdKeeps
<1>5. FieldTypes' /\ UNCHANGED <<next_hop, rreq_search, rreq_message_sender>>
  BY <1>1, Runs DEF entries, FieldTypes
<1>6. at["fwd"] \in FwdKeeps => next_hop'[to("fwd")] = next_hop[to("fwd")]
  BY <1>5
<1>7. ~deleted
  BY <1>1, Runs
<1> HIDE DEF s
<1> QED
  BY <1>1, <1>2, <1>3, <1>4, <1>5, <1>6, <1>7, SetKeeps

\* Its hop's mutex, if it has one, stays with it.
LEMMA fwd_unreachable_keeps ==
    ASSUME ThreadsInv, fwd_unreachable
    PROVE  ThreadsInv' /\ Orderly
<1> USE Names
<1> DEFINE d == to("fwd")
<1>1. /\ fwd_decides /\ goes_on("fwd", "idle", {d})
      /\ UNCHANGED <<entries, expiration_thread, numbers>>
  BY DEF fwd_unreachable
<1>2. PICK section \in {"dest", "dest_hop"} : runs("fwd", section)
  BY <1>1, FwdDecides
<1>3. d \in Dest /\ MayBe("fwd", section, job["fwd"]) /\ owner[d] = "fwd"
  BY <1>2, FwdRuns DEF FwdSection
<1>4. MayBe("fwd", "idle", NoJob) /\ job_after(job["fwd"], "idle") = NoJob
  BY <1>3, FwdMayGo DEF FwdSection
<1>5. GoesAlone("fwd", "idle", NoJob, {d})
  BY <1>1, <1>4, GoesOn
<1>6. Unlocks("fwd", "idle", NoJob, {d})
  BY <1>3 DEF Unlocks, FwdKeeps
<1> HIDE DEF d
<1> QED
  BY <1>1, <1>2, <1>4, <1>5, <1>6, Runs, AloneKeeps DEF entries, FieldTypes

-----------------------------------------------------------------------------
(* pthread_mutex_lock, the initial state and all steps.                    *)

LEMMA lock_keeps ==
    ASSUME ThreadsInv, NEW t \in Thread, pthread_mutex_lock(t)
    PROVE  ThreadsInv' /\ Orderly
<1> USE Names
<1>1. /\ at[t] \notin Unlocked /\ ~inside[t] /\ ~deleted /\ owner[mutex(t)] = "free"
      /\ owner' = [owner EXCEPT ![mutex(t)] = t] /\ inside' = [inside EXCEPT ![t] = TRUE]
      /\ at' = at /\ job' = job /\ UNCHANGED <<entries, expiration_thread, numbers>>
  BY DEF pthread_mutex_lock
<1>2. Placed /\ Fields /\ Owned /\ NumbersRise /\ TimersKnown /\ LooseBound /\ SearchKnown
  BY <1>1 DEF ThreadsInv
<1>3. mutex(t) \in Mutex
  BY <1>1, <1>2, MutexExists
<1>4. Placed' /\ NumbersRise' /\ TimersKnown' /\ LooseBound' /\ SearchKnown' /\ loose' = loose
  <2>1. Placed'
    BY <1>1, <1>2 DEF Placed
  <2>2. NumbersRise'
    BY <1>1, <1>2 DEF NumbersRise, numbers
  <2>3. loose' = loose /\ expiration_thread' = expiration_thread
    BY <1>1 DEF loose
  <2>4. TimersKnown'
    BY <1>1, <1>2 DEF TimersKnown, Forgets, to
  <2>5. LooseBound'
    BY <1>1, <1>2, <2>3 DEF LooseBound
  <2>6. SearchKnown'
    BY <1>1, <1>2 DEF SearchKnown, to, entries
  <2> QED
    BY <2>1, <2>2, <2>3, <2>4, <2>5, <2>6
<1>5. Fields'
  BY <1>1, <1>2 DEF Fields, entries
<1>6. \A x \in Thread : mutex(x)' = mutex(x)
  BY <1>1 DEF mutex, entries
<1>7. \A x \in Thread : inside'[x] => at[x] \notin Unlocked /\ owner'[mutex(x)] = x
  <2> SUFFICES ASSUME NEW x \in Thread, inside'[x]
               PROVE  at[x] \notin Unlocked /\ owner'[mutex(x)] = x
    OBVIOUS
  <2>1. CASE x = t
    BY <1>1, <1>2, <1>3, <2>1 DEF Fields
  <2>2. CASE x # t
    <3>1. inside[x] /\ at[x] \notin Unlocked /\ owner[mutex(x)] = x
      BY <1>1, <1>2, <2>2 DEF Owned, Fields
    <3>2. x # "free"
      BY DEF Thread
    <3> QED
      BY <1>1, <1>2, <3>1, <3>2 DEF Fields
  <2> QED
    BY <2>1, <2>2
<1>8. \A m \in Mutex, y \in Thread \ {"fwd"} : owner'[m] = y =>
         \/ inside'[y] /\ m = mutex(y)
         \/ y = "in" /\ at["in"] = "originator" /\ m = to("in")
  <2> SUFFICES ASSUME NEW m \in Mutex, NEW y \in Thread \ {"fwd"}, owner'[m] = y
               PROVE  \/ inside'[y] /\ m = mutex(y)
                      \/ y = "in" /\ at["in"] = "originator" /\ m = to("in")
    OBVIOUS
  <2>1. CASE m = mutex(t)
    BY <1>1, <1>2, <1>3, <2>1 DEF Fields
  <2>2. CASE m # mutex(t)
    <3>1. owner[m] = y
      BY <1>1, <1>2, <1>3, <2>2 DEF Fields
    <3>2. Holding(y, m)
      BY <1>2, <3>1 DEF Owned
    <3> QED
      BY <1>1, <1>2, <3>2 DEF Holding, Fields
  <2> QED
    BY <2>1, <2>2
<1>9. /\ at["in"] = "originator" => owner'[to("in")] = "in"
      /\ at["fwd"] \in FwdKeeps => owner'[to("fwd")] = "fwd"
  BY <1>1, <1>2, <1>3 DEF Owned, Fields
<1>10. Owned'
  BY <1>1, <1>6, <1>7, <1>8, <1>9 DEF Owned, Holding, to
<1>11. Orderly
  <2>1. \A m \in Mutex : owner'[m] = "dead" => owner[m] = "dead"
    <3>1. t # "dead"
      BY DEF Thread
    <3> QED
      BY <1>1, <1>2, <3>1 DEF Fields
  <2> QED
    BY <1>1, <1>4, <2>1 DEF Orderly
<1> QED
  BY <1>1, <1>4, <1>5, <1>10, <1>11 DEF ThreadsInv

\* There are enough pthread_t for every entry to have a timer of its own.
LEMMA TimersExist == \E f \in [Dest -> Timer] : IsInjective(f)
<1> DEFINE n == Cardinality(Dest)
           m == Cardinality(Timer)
<1>1. n \in Nat /\ ExistsBijection(1..n, Dest) /\ m \in Nat /\ ExistsBijection(1..m, Timer)
  BY ThreadsAssumption, FS_CardinalityType
<1>2. n <= m
  BY <1>1, ThreadsAssumption
<1> HIDE DEF n, m
<1>3. ExistsInjection(1..n, 1..m)
  BY <1>1, <1>2, Fun_NatInjLeq
<1>4. ExistsInjection(Dest, 1..n) /\ ExistsInjection(1..m, Timer)
  <2>1. ExistsBijection(Dest, 1..n)
    BY <1>1, Fun_ExistsBijSymmetric
  <2> QED
    BY <1>1, <2>1 DEF ExistsBijection, ExistsInjection, Bijection
<1>5. ExistsInjection(Dest, Timer)
  <2>1. ExistsInjection(Dest, 1..m)
    BY <1>3, <1>4, Fun_ExistsInjTransitive
  <2> QED
    BY <1>4, <2>1, Fun_ExistsInjTransitive
<1> QED
  BY <1>5 DEF ExistsInjection, Injection

LEMMA ThreadsInit == Init => ThreadsInv
<1> USE Names
<1> SUFFICES ASSUME Init PROVE ThreadsInv
  OBVIOUS
<1>1. /\ expiration_thread \in [Dest -> Timer]
      /\ \A d, e \in Dest : expiration_thread[d] = expiration_thread[e] => d = e
  <2>1. expiration_thread \in [Dest -> Timer] /\ IsInjective(expiration_thread)
    BY TimersExist DEF Init
  <2> QED
    BY <2>1 DEF IsInjective
<1>2. \A t \in Timer : t \in Range(expiration_thread) <=> \E d \in Dest : expiration_thread[d] = t
  BY <1>1 DEF Range
<1>3. /\ at["in"] = "idle" /\ at["out"] = "idle" /\ at["fwd"] = "idle"
      /\ \A t \in Timer : at[t] = IF t \in Range(expiration_thread) THEN "sleep" ELSE "none"
      /\ DOMAIN at = Thread /\ at \in [Thread -> {"idle", "sleep", "none"}]
  BY DEF Init
<1>4. at["sender"] = "none"
  <2>1. "sender" \notin Range(expiration_thread)
    <3>1. \A d \in Dest : expiration_thread[d] # "sender"
      BY <1>1
    <3> QED
      BY <1>1, <3>1 DEF Range
  <2> QED
    BY <2>1 DEF Init
<1>5. \A t \in Thread : at[t] # "sleep" => job[t] = NoJob
  BY DEF Init
<1>6. \A d \in Dest : /\ at[expiration_thread[d]] = "sleep"
                      /\ job[expiration_thread[d]] = [NoJob EXCEPT !.dest = d]
  <2> TAKE d \in Dest
  <2>1. at[expiration_thread[d]] = "sleep" /\ expiration_thread[d] \in Thread
    BY <1>1, <1>2, <1>3
  <2>2. job[expiration_thread[d]] =
           [NoJob EXCEPT !.dest = CHOOSE e \in Dest : expiration_thread[e] = expiration_thread[d]]
    BY <2>1 DEF Init
  <2>3. (CHOOSE e \in Dest : expiration_thread[e] = expiration_thread[d]) = d
    BY <1>1
  <2> QED
    BY <2>1, <2>2, <2>3
<1>7. \A d \in Dest : [NoJob EXCEPT !.dest = d].dest = d
  BY DEF NoJob
<1>8. \A t \in Thread : MayBe(t, at[t], job[t])
  <2> TAKE t \in Thread
  <2>1. CASE t \in {"in", "out", "fwd"}
    BY <1>3, <1>5, <2>1, NoJobIsJob
       DEF MayBe, Section, InSection, OutSection, FwdSection
  <2>2. CASE t = "sender"
    BY <1>4, <1>5, <2>2, NoJobIsJob DEF MayBe, Section, SenderSection
  <2>3. CASE t \in Timer /\ t \notin Range(expiration_thread)
    BY <1>3, <1>5, <2>3, NoJobIsJob DEF MayBe, Section, TimerSection
  <2>4. CASE t \in Timer /\ t \in Range(expiration_thread)
    <3>1. PICK d \in Dest : expiration_thread[d] = t
      BY <1>2, <2>4
    <3>2. at[t] = "sleep" /\ job[t] \in Job /\ job[t].dest = d
      BY <1>6, <1>7, <3>1, NoJobIsJob
    <3> QED
      BY <2>4, <3>2 DEF MayBe, Section, TimerSection
  <2> QED
    BY <2>1, <2>2, <2>3, <2>4 DEF Thread
<1>9. Placed
  <2>1. at \in [Thread -> Section]
    BY <1>3 DEF Section, InSection, TimerSection
  <2>2. \A t \in Thread : job[t] \in Job
    BY <1>8 DEF MayBe
  <2>3. DOMAIN job = Thread /\ job = [t \in Thread |-> job[t]]
    BY DEF Init
  <2>4. job \in [Thread -> Job]
    BY <2>2, <2>3
  <2> QED
    BY <1>8, <2>1, <2>4 DEF Placed
<1>10. Fields
  BY <1>1 DEF Init, Fields
<1>11. TimersKnown
  BY <1>1, <1>6, <1>7 DEF TimersKnown, to
<1>12. LooseBound
  <2>1. loose = {}
    BY <1>3 DEF loose
  <2>2. Cardinality(loose) = 0
    BY <2>1, FS_EmptySet
  <2> QED
    BY <1>3, <2>2, ThreadsAssumption DEF LooseBound, BeforeClear
<1>13. SearchKnown
  BY <1>4 DEF Init, SearchKnown
<1>14. Owned
  <2>1. /\ \A t \in Thread : ~inside[t]
        /\ \A m \in Mutex : owner[m] \notin Thread
    <3>1. "free" \notin Thread
      BY DEF Thread
    <3> QED
      BY <3>1 DEF Init
  <2> QED
    BY <1>3, <2>1 DEF Owned, FwdKeeps
<1>15. NumbersRise
  BY <1>3 DEF Init, NumbersRise
<1> QED
  BY <1>9, <1>10, <1>11, <1>12, <1>13, <1>14, <1>15 DEF ThreadsInv

LEMMA ThreadsNext == ThreadsInv /\ [Next]_vars => ThreadsInv' /\ [Orderly]_vars
<1> SUFFICES ASSUME ThreadsInv, [Next]_vars
             PROVE  ThreadsInv' /\ (Orderly \/ UNCHANGED vars)
  OBVIOUS
<1>1. CASE UNCHANGED vars
  <2>1. /\ UNCHANGED <<at, inside, job, owner, status, next_hop, rreq_search, expiration_thread>>
        /\ UNCHANGED <<rreq_message_sender, sequence_num, seq, replied, deleted>>
    BY <1>1 DEF vars, entries, numbers
  <2>2. Placed' <=> Placed
    BY <2>1 DEF Placed
  <2>3. Fields' <=> Fields
    BY <2>1 DEF Fields
  <2>4. \A t : mutex(t)' = mutex(t)
    BY <2>1 DEF mutex
  <2>5. Owned' <=> Owned
    BY <2>1, <2>4 DEF Owned, Holding, to
  <2>6. NumbersRise' <=> NumbersRise
    BY <2>1 DEF NumbersRise
  <2>7. TimersKnown' <=> TimersKnown
    BY <2>1 DEF TimersKnown, Forgets, to
  <2>8. LooseBound' <=> LooseBound
    BY <2>1 DEF LooseBound, loose
  <2>9. SearchKnown' <=> SearchKnown
    BY <2>1 DEF SearchKnown, to
  <2> QED
    BY <1>1, <2>1, <2>2, <2>3, <2>5, <2>6, <2>7, <2>8, <2>9 DEF ThreadsInv
<1>2. CASE Next
  <2>1. CASE \E t \in Thread : pthread_mutex_lock(t)
    BY <2>1, lock_keeps
  <2>2. CASE \/ \E r \in Rreps : recv_rrep(r)
             \/ \E r \in Rreqs : recv_rreq(r)
             \/ rrep_found
             \/ previous_hop
             \/ \E fresher \in BOOLEAN : rrep_installs(fresher) \/ rreq_installs(fresher)
             \/ rrep_forwards
             \/ \E asked \in {0, ReplyBelow} : rrep_reads(asked)
             \/ rrep_writes
    BY <2>2, recv_rrep_keeps, recv_rreq_keeps, rrep_found_keeps, previous_hop_keeps,
       rrep_installs_keeps, rreq_installs_keeps, rrep_forwards_keeps, rrep_reads_keeps,
       rrep_writes_keeps
  <2>3. CASE \/ \E d \in Calls : outgoing_message(d)
             \/ out_refreshes \/ out_breaks \/ search_reads \/ search_cancels
             \/ search_clears \/ search_starts \/ search_polls \/ search_outcome
             \/ search_failed \/ search_releases
    BY <2>3, outgoing_message_keeps, out_refreshes_keeps, out_breaks_keeps,
       search_reads_keeps, search_cancels_keeps, search_clears_keeps, search_starts_keeps,
       search_polls_keeps, search_outcome_keeps, search_failed_keeps, search_releases_keeps
  <2>4. CASE \/ sender_numbers \/ sender_reads
             \/ \E section \in {"flood", "fail"} : sender_floods(section)
             \/ sender_fails
    BY <2>4, sender_numbers_keeps, sender_reads_keeps, sender_floods_keeps, sender_fails_keeps
  <2>5. CASE \E t \in Timer : timer_wakes(t) \/ route_expires(t) \/ entry_deleted(t)
    BY <2>5, timer_wakes_keeps, route_expires_keeps, entry_deleted_keeps
  <2>6. CASE \/ \E p \in Packets : forwarded_messages(p)
             \/ fwd_locked \/ fwd_accepts \/ fwd_refreshes_source \/ fwd_breaks
             \/ fwd_unreachable
    BY <2>6, forwarded_messages_keeps, fwd_locked_keeps, fwd_accepts_keeps,
       fwd_refreshes_source_keeps, fwd_breaks_keeps, fwd_unreachable_keeps
  <2> QED
    BY <1>2, <2>1, <2>2, <2>3, <2>4, <2>5, <2>6 DEF Next
<1> QED
  BY <1>1, <1>2

-----------------------------------------------------------------------------
(* What the threads keep.                                                  *)

\* The invariant holds, and every step is one that TimerForgotten, MutexLost and
\* RepliesRise allow.
THEOREM ThreadsCorrect == Spec => []ThreadsInv /\ [][Orderly]_vars
<1>1. ThreadsInv /\ [Next]_vars => ThreadsInv' /\ [Orderly]_vars
  BY ThreadsNext
<1>2. Spec => []ThreadsInv
  BY ThreadsInit, <1>1, PTL DEF Spec
<1> QED
  BY <1>1, <1>2, PTL DEF Spec

\* pthread_cancel is given a running thread of the entry, or a timer that send_rreq
\* has just cancelled; an entry that is searched for knows its RREQ thread.
THEOREM HandlesLive == Spec => []HandleLive
<1>1. ThreadsInv => HandleLive
  BY DEF ThreadsInv, TimersKnown, SearchKnown, Forgets, HandleLive
<1> QED
  BY <1>1, ThreadsCorrect, PTL

\* Threads that wait for each other in a circle include forwarded_messages: only
\* recv_rrep waits with another mutex locked, and it waits for one other entry.
THEOREM CirclesHaveForwarding == Spec => []CircleHasForwarding
<1>1. ThreadsInv => CircleHasForwarding
  <2> USE Names
  <2> SUFFICES ASSUME ThreadsInv, NEW S \in SUBSET {t \in Thread \ {"fwd"} : waits(t)},
                      NEW t \in S, \A x \in S : owner[mutex(x)] \in S
               PROVE  FALSE
    BY DEF CircleHasForwarding
  <2>1. Placed /\ Fields /\ Owned
    BY DEF ThreadsInv
  <2>2. \A x \in S : /\ x \in Thread \ {"fwd"} /\ at[x] \notin Unlocked /\ ~inside[x]
                     /\ mutex(x) \in Mutex
    BY <2>1, MutexExists DEF waits
  <2>3. \A x \in S : "in" \in S /\ at["in"] = "originator" /\ mutex(x) = to("in")
    <3> TAKE x \in S
    <3>1. owner[mutex(x)] \in S /\ owner[mutex(x)] \in Thread \ {"fwd"} /\ mutex(x) \in Mutex
      BY <2>2
    <3>2. Holding(owner[mutex(x)], mutex(x))
      BY <2>1, <3>1 DEF Owned
    <3>3. ~inside[owner[mutex(x)]]
      BY <2>2, <3>1
    <3> QED
      BY <3>1, <3>2, <3>3 DEF Holding
  <2>4. at["in"] = "originator" /\ mutex("in") = to("in")
    BY <2>3
  <2>5. mutex("in") = job["in"].src
    BY <2>4 DEF mutex
  <2>6. job["in"].dest # job["in"].src
    <3>1. MayBe("in", at["in"], job["in"])
      BY <2>1 DEF Placed
    <3> QED
      BY <2>4, <3>1 DEF MayBe
  <2> QED
    BY <2>4, <2>5, <2>6 DEF to
<1> QED
  BY <1>1, ThreadsCorrect, PTL

\* A cancelled thread leaves a mutex locked in the two ways MutexLost names.
THEOREM MutexesLost == Spec => MutexLost
<1>1. [Orderly]_vars =>
        [\A m \in Mutex : owner[m] # "dead" /\ owner'[m] = "dead" =>
            IF m \in Dest THEN at["out"] = "cancel" ELSE at["in"] = "found"]_vars
  BY DEF Orderly
<1> QED
  BY <1>1, ThreadsCorrect, PTL DEF MutexLost

\* No thread but send_rreq leaves a running timer behind.
THEOREM TimersForgotten == Spec => TimerForgotten
<1>1. [Orderly]_vars => [\A t \in loose' : t \in loose \/ at["out"] = "clear"]_vars
  BY DEF Orderly
<1> QED
  BY <1>1, ThreadsCorrect, PTL DEF TimerForgotten

\* The numbers of this node's replies rise.
THEOREM ReplyNumbersRise == Spec => RepliesRise
<1>1. [Orderly]_vars =>
        [at["in"] = "write" /\ at'["in"] = "idle" => replied' > replied]_vars
  BY DEF Orderly
<1> QED
  BY <1>1, ThreadsCorrect, PTL DEF RepliesRise

-----------------------------------------------------------------------------
(* Packets released before their route is installed.                       *)

\* The call of outgoing_message for d has been told that its route was found.
Told(d) ==
    /\ to("out") = d
    /\ \/ at["out"] = "release"
       \/ /\ at["out"] \in {"poll", "outcome"}
          /\ rreq_search[d] \notin {"SEARCH_SEARCHING", "SEARCH_FAILED"}

Routed(d) == \E r \in kernel : r[1] = d

\* recv_rrep is between its announcement and the route.
OnItsWay(d) == at["in"] \in {"hop", "install"} /\ to("in") = d

WakeExpiring == \A t \in Timer : at[t] = "expire" => to(t) \in Expiring

RouteComes ==
    deleted \/ \A d \in Dest \ Expiring : Told(d) => Routed(d) \/ OnItsWay(d)

ReleaseInv == WakeExpiring /\ RouteComes

\* Thread t alone, of the callbacks and the RREQ thread, moves; no timer wakes.
Alone(t, section, j) ==
    /\ \A x \in {"in", "out"} : IF x = t THEN at'[x] = section /\ job'[x] = j
                                ELSE at'[x] = at[x] /\ job'[x] = job[x]
    /\ \A x \in Timer : at'[x] = "expire" => at[x] = "expire" /\ job'[x] = job[x]

LEMMA SetsAlone ==
    ASSUME ThreadsInv, ~deleted, NEW t \in {"in", "out", "fwd", "sender"},
           NEW section, NEW unlocked, NEW d \in Dest,
           set_expiration_timer(t, section, unlocked, d)
    PROVE  Alone(t, section, job_after(job[t], section))
<1> USE Names
<1>1. PICK k \in Timer : TimerSet(t, section, unlocked, d, k)
  BY SetsTimer DEF ThreadsInv
<1> QED
  BY <1>1 DEF TimerSet, Moves, Alone

LEMMA StepsAlone ==
    ASSUME NEW t \in Thread, NEW section, NEW unlocked, section # "expire",
           goes_on(t, section, unlocked)
    PROVE  Alone(t, section, job_after(job[t], section))
<1> USE Names
<1>1. Moves(t, section, job_after(job[t], section), unlocked, {}, "none", NoJob)
  BY GoesOn DEF GoesAlone
<1> QED
  BY <1>1 DEF Moves, Alone

\* Handles and mutexes aside, a thread that is neither callback leaves the promise,
\* if it removes no route that is not to expire and starts or fails no other search.
LEMMA OthersKeepRoutes ==
    ASSUME ReleaseInv, ~deleted, NEW t \in {"fwd", "sender"} \cup Timer, NEW section, NEW j,
           Alone(t, section, j),
           \A d \in Dest : rreq_search'[d] \in {rreq_search[d], "SEARCH_FAILED"},
           \A d \in Dest \ Expiring : Routed(d) => Routed(d)'
    PROVE  ReleaseInv'
<1> USE Names
<1>1. at'["in"] = at["in"] /\ job'["in"] = job["in"]
      /\ at'["out"] = at["out"] /\ job'["out"] = job["out"]
  BY DEF Alone
<1>2. \A d \in Dest : Told(d)' => Told(d)
  BY <1>1 DEF Told, to
<1>3. \A d \in Dest : OnItsWay(d) => OnItsWay(d)'
  BY <1>1 DEF OnItsWay, to
<1>4. WakeExpiring'
  BY DEF ReleaseInv, WakeExpiring, Alone, to
<1> QED
  BY <1>2, <1>3, <1>4 DEF ReleaseInv, RouteComes

\* The callback for outgoing packets before it may be told anything.
LEMMA UntoldKeepsRoutes ==
    ASSUME ReleaseInv, NEW section, NEW j, Alone("out", section, j),
           section \notin {"poll", "outcome", "release"}
    PROVE  ReleaseInv'
<1> USE Names
<1>1. at'["out"] = section
  BY DEF Alone
<1>2. WakeExpiring'
  BY DEF ReleaseInv, WakeExpiring, Alone, to
<1>3. \A d \in Dest : ~Told(d)'
  BY <1>1 DEF Told
<1> QED
  BY <1>2, <1>3 DEF ReleaseInv, RouteComes

\* The callback for control messages where it has no route to install.
LEMMA InKeepsRoutes ==
    ASSUME ReleaseInv, ~deleted, NEW section, NEW j, Alone("in", section, j),
           at["in"] \notin {"hop", "install"},
           UNCHANGED rreq_search, \A d \in Dest : Routed(d) => Routed(d)'
    PROVE  ReleaseInv'
<1> USE Names
<1>1. at'["out"] = at["out"] /\ job'["out"] = job["out"]
  BY DEF Alone
<1>2. \A d \in Dest : Told(d)' => Told(d)
  BY <1>1 DEF Told, to
<1>3. WakeExpiring'
  BY DEF ReleaseInv, WakeExpiring, Alone, to
<1>4. \A d \in Dest : ~OnItsWay(d)
  BY DEF OnItsWay
<1> QED
  BY <1>2, <1>3, <1>4 DEF ReleaseInv, RouteComes

LEMMA RunsAlive ==
    ASSUME NEW t, NEW section, runs(t, section)
    PROVE  ~deleted /\ at[t] = section
BY DEF runs

LEMMA BeginsAlone ==
    ASSUME ThreadsInv, NEW t \in {"in", "out", "fwd"}, NEW section,
           NEW from, NEW dest, NEW src, idle_with(t, section, from, dest, src)
    PROVE  /\ Alone(t, section, [from |-> from, dest |-> dest, src |-> src])
           /\ ~deleted /\ at[t] = "idle" /\ UNCHANGED <<rreq_search, kernel>>
<1> USE Names
<1> DEFINE j == [from |-> from, dest |-> dest, src |-> src]
<1>1. /\ at' = [at EXCEPT ![t] = section] /\ job' = [job EXCEPT ![t] = j]
      /\ ~deleted /\ at[t] = "idle" /\ UNCHANGED <<rreq_search, kernel>>
  BY DEF idle_with, runs, entries
<1>2. at \in [Thread -> Section] /\ job \in [Thread -> Job]
  BY DEF ThreadsInv, Placed
<1> HIDE DEF j
<1>3. Alone(t, section, j)
  BY <1>1, <1>2 DEF Alone
<1> QED
  BY <1>1, <1>3 DEF j

LEMMA FwdRelease ==
    ASSUME ThreadsInv, ReleaseInv,
           \/ \E p \in Packets : forwarded_messages(p)
           \/ fwd_locked \/ fwd_accepts \/ fwd_refreshes_source \/ fwd_breaks
           \/ fwd_unreachable
    PROVE  ReleaseInv'
<1> USE Names
<1>1. ~deleted /\ UNCHANGED <<rreq_search, kernel>>
  BY DEF forwarded_messages, idle_with, fwd_locked, fwd_accepts, fwd_refreshes_source,
         fwd_breaks, fwd_unreachable, fwd_decides, runs, entries
<1>2. \E section, j : Alone("fwd", section, j)
  <2>1. CASE \E p \in Packets : forwarded_messages(p)
    <3>1. PICK p \in Packets : idle_with("fwd", "dest", Self, p[2], p[1])
      BY <2>1 DEF forwarded_messages
    <3>2. Alone("fwd", "dest", [from |-> Self, dest |-> p[2], src |-> p[1]])
      BY <3>1, BeginsAlone
    <3> QED
      BY <3>2
  <2>2. CASE fwd_locked \/ fwd_breaks
    <3>1. PICK next \in {"dest_hop", "dest_hop_again"} : goes_on("fwd", next, {})
      BY <2>2 DEF fwd_locked, fwd_breaks, steps
    <3> QED
      BY <3>1, StepsAlone
  <2>3. CASE fwd_unreachable
    BY <2>3, StepsAlone DEF fwd_unreachable
  <2>4. CASE fwd_accepts
    <3>1. \E section \in {"dest", "dest_hop"} : runs("fwd", section)
      BY <2>4, FwdDecides DEF fwd_accepts
    <3>2. to("fwd") \in Dest
      BY <3>1, FwdRuns DEF FwdSection
    <3>3. set_expiration_timer("fwd", "src", {hop_of_packet} \ {to("fwd")}, to("fwd"))
      BY <2>4 DEF fwd_accepts
    <3> QED
      BY <1>1, <3>2, <3>3, SetsAlone
  <2>5. CASE fwd_refreshes_source
    <3>1. job["fwd"].src \in Dest
      BY <2>5, FwdRuns DEF fwd_refreshes_source, FwdSection
    <3>2. set_expiration_timer("fwd", "idle", {job["fwd"].src, to("fwd")}, job["fwd"].src)
      BY <2>5 DEF fwd_refreshes_source
    <3> QED
      BY <1>1, <3>1, <3>2, SetsAlone
  <2> QED
    BY <2>1, <2>2, <2>3, <2>4, <2>5
<1>3. PICK section, j : Alone("fwd", section, j)
  BY <1>2
<1>4. \A d \in Dest : Routed(d) => Routed(d)'
  BY <1>1 DEF Routed
<1> QED
  BY <1>1, <1>3, <1>4, OthersKeepRoutes

LEMMA SenderRelease ==
    ASSUME ThreadsInv, ReleaseInv,
           \/ sender_numbers \/ sender_reads
           \/ \E section \in {"flood", "fail"} : sender_floods(section)
           \/ sender_fails
    PROVE  ReleaseInv'
<1> USE Names
<1>1. ~deleted /\ UNCHANGED kernel
  BY DEF sender_numbers, sender_reads, sender_floods, sender_fails, runs
<1>2. /\ \E section, j : Alone("sender", section, j)
      /\ \A d \in Dest : rreq_search'[d] \in {rreq_search[d], "SEARCH_FAILED"}
  <2>1. CASE sender_numbers
    BY <2>1, StepsAlone DEF sender_numbers, entries
  <2>2. CASE sender_reads
    BY <2>2, StepsAlone DEF sender_reads, entries
  <2>3. CASE \E section \in {"flood", "fail"} : sender_floods(section)
    BY <2>3, StepsAlone DEF sender_floods, entries
  <2>4. CASE sender_fails
    <3>1. to("sender") \in Dest /\ Fields
      BY <2>4, SenderRuns, Runs DEF sender_fails, Unlocked
    <3>2. set_expiration_timer("sender", "none", {to("sender")}, to("sender"))
      BY <2>4 DEF sender_fails
    <3>3. rreq_search' = [rreq_search EXCEPT ![to("sender")] = "SEARCH_FAILED"]
      BY <2>4 DEF sender_fails
    <3>4. \E section, j : Alone("sender", section, j)
      BY <1>1, <3>1, <3>2, SetsAlone
    <3> QED
      BY <3>1, <3>3, <3>4 DEF Fields
  <2> QED
    BY <2>1, <2>2, <2>3, <2>4
<1>3. PICK section, j : Alone("sender", section, j)
  BY <1>2
<1>4. \A d \in Dest : Routed(d) => Routed(d)'
  BY <1>1 DEF Routed
<1> QED
  BY <1>1, <1>2, <1>3, <1>4, OthersKeepRoutes

\* A timer removes only routes that may expire.
LEMMA TimerRelease ==
    ASSUME ThreadsInv, ReleaseInv, NEW t \in Timer,
           timer_wakes(t) \/ route_expires(t) \/ entry_deleted(t)
    PROVE  ReleaseInv'
<1> USE Names
<1>1. CASE timer_wakes(t)
  <2>1. /\ to(t) \in Expiring /\ goes_on(t, "expire", {}) /\ ~deleted /\ at[t] = "sleep"
        /\ UNCHANGED <<rreq_search, kernel>>
    BY <1>1 DEF timer_wakes, steps, runs, entries
  <2>2. job_after(job[t], "expire") = job[t]
    BY DEF job_after
  <2>3. Moves(t, "expire", job[t], {}, {}, "none", NoJob)
    BY <2>1, <2>2, GoesOn DEF GoesAlone
  <2>4. WakeExpiring'
    <3>1. \A x \in Timer : job'[x] = job[x] /\ (x # t => at'[x] = at[x])
      BY <2>3 DEF Moves
    <3> QED
      BY <2>1, <3>1 DEF ReleaseInv, WakeExpiring, to
  <2>5. /\ at'["in"] = at["in"] /\ job'["in"] = job["in"]
        /\ at'["out"] = at["out"] /\ job'["out"] = job["out"]
    BY <2>3 DEF Moves
  <2>6. \A d \in Dest : /\ Told(d)' => Told(d) /\ (Routed(d) => Routed(d)')
                        /\ OnItsWay(d) => OnItsWay(d)'
    BY <2>1, <2>5 DEF Told, Routed, OnItsWay, to
  <2> QED
    BY <2>1, <2>4, <2>6 DEF ReleaseInv, RouteComes
<1>2. CASE route_expires(t)
  <2>1. /\ at[t] = "expire" /\ goes_on(t, "sleep", {to(t)}) /\ ~deleted
        /\ kernel' = kernel \ {<<to(t), next_hop[to(t)]>>} /\ UNCHANGED rreq_search
    BY <1>2 DEF route_expires, runs
  <2>2. to(t) \in Expiring
    BY <2>1 DEF ReleaseInv, WakeExpiring
  <2>3. \A d \in Dest \ Expiring : Routed(d) => Routed(d)'
    <3> SUFFICES ASSUME NEW d \in Dest \ Expiring, NEW r \in kernel, r[1] = d
                 PROVE  r \in kernel'
      BY DEF Routed
    <3>1. r # <<to(t), next_hop[to(t)]>>
      BY <2>2
    <3> QED
      BY <2>1, <3>1
  <2>4. \E j : Alone(t, "sleep", j)
    BY <2>1, StepsAlone
  <2> QED
    BY <2>1, <2>3, <2>4, OthersKeepRoutes
<1>3. CASE entry_deleted(t)
  <2>1. goes_on(t, "none", {to(t)}) /\ deleted'
    BY <1>3 DEF entry_deleted
  <2>2. \E j : Alone(t, "none", j)
    BY <2>1, StepsAlone
  <2>3. WakeExpiring'
    BY <2>2 DEF ReleaseInv, WakeExpiring, Alone, to
  <2> QED
    BY <2>1, <2>3 DEF ReleaseInv, RouteComes
<1> QED
  BY <1>1, <1>2, <1>3

\* Before a search, and where a call ends, the callback is not told of a route.
LEMMA OutRelease ==
    ASSUME ThreadsInv, ReleaseInv,
           \/ \E d \in Calls : outgoing_message(d)
           \/ out_refreshes \/ out_breaks \/ search_cancels \/ search_clears
           \/ search_failed \/ search_releases
    PROVE  ReleaseInv'
<1> USE Names
<1> SUFFICES \E section, j : /\ section \notin {"poll", "outcome", "release"}
                             /\ Alone("out", section, j)
  BY UntoldKeepsRoutes
<1>1. CASE \E d \in Calls : outgoing_message(d)
  <2>1. PICK d \in Calls : outgoing_message(d)
    BY <1>1
  <2>2. PICK section \in {"search", "refresh", "break"} : idle_with("out", section, Self, d, Self)
    BY <2>1 DEF outgoing_message
  <2>3. Alone("out", section, [from |-> Self, dest |-> d, src |-> Self])
    BY <2>2, BeginsAlone
  <2> QED
    BY <2>3
<1>2. CASE out_refreshes
  <2>1. set_expiration_timer("out", "idle", {to("out")}, to("out")) /\ runs("out", "refresh")
    BY <1>2 DEF out_refreshes
  <2>2. to("out") \in Dest
    BY <2>1, OutRuns
  <2> QED
    BY <2>1, <2>2, RunsAlive, SetsAlone
<1>3. CASE out_breaks
  <2>1. set_expiration_timer("out", "search", {to("out")}, to("out")) /\ runs("out", "break")
    BY <1>3 DEF out_breaks
  <2>2. to("out") \in Dest
    BY <2>1, OutRuns
  <2> QED
    BY <2>1, <2>2, RunsAlive, SetsAlone
<1>4. CASE search_cancels
  <2>1. runs("out", "cancel") /\ continue("out", "clear", {}, handles(to("out")), <<>>)
    BY <1>4 DEF search_cancels, section_after_cancel
  <2>2. handles(to("out")) \subseteq Timer
    <3>1. to("out") \in Dest /\ Fields
      BY <2>1, OutRuns, Runs
    <3> QED
      BY <3>1 DEF handles, Fields
  <2>3. Alone("out", "clear", job["out"])
    BY <2>1, <2>2, Started DEF continue, Alone
  <2> QED
    BY <2>3
<1>5. CASE search_clears
  BY <1>5, StepsAlone DEF search_clears, steps
<1>6. CASE search_failed
  <2>1. set_expiration_timer("out", "idle", {to("out")}, to("out")) /\ runs("out", "failed")
    BY <1>6 DEF search_failed
  <2>2. to("out") \in Dest
    BY <2>1, OutRuns
  <2> QED
    BY <2>1, <2>2, RunsAlive, SetsAlone
<1>7. CASE search_releases
  BY <1>7, StepsAlone DEF search_releases, steps
<1> QED
  BY <1>1, <1>2, <1>3, <1>4, <1>5, <1>6, <1>7

\* A call polls a search that goes on; what it is told comes from its entry.
LEMMA PollRelease ==
    ASSUME ThreadsInv, ReleaseInv,
           search_reads \/ search_starts \/ search_polls \/ search_outcome
    PROVE  ReleaseInv'
<1> USE Names
<1> DEFINE d == to("out")
<1>1. PICK section \in {"search", "create", "poll", "outcome"} : runs("out", section)
  BY DEF search_reads, search_starts, search_polls, search_outcome
<1>2. d \in Dest /\ ~deleted /\ at["out"] = section /\ Fields /\ SearchKnown
  BY <1>1, OutRuns, Runs
<1>3. d = job["out"].dest /\ UNCHANGED kernel
  BY DEF to, search_reads, search_starts, search_polls, search_outcome
<1>4. \A next \in OutSection \ {"idle"} : job_after(job["out"], next) = job["out"]
  BY DEF job_after, OutSection
<1>5. CASE search_reads
  <2>1. /\ UNCHANGED rreq_search
        /\ \/ steps("out", "poll") /\ rreq_search[d] = "SEARCH_SEARCHING"
           \/ \E next \in {"idle", "cancel"} : steps("out", next)
    BY <1>5 DEF search_reads, entries
  <2>2. CASE \E next \in {"idle", "cancel"} : steps("out", next)
    BY <2>2, StepsAlone, UntoldKeepsRoutes DEF steps
  <2>3. CASE steps("out", "poll") /\ rreq_search[d] = "SEARCH_SEARCHING"
    <3>1. Alone("out", "poll", job["out"])
      BY <1>4, <2>3, StepsAlone DEF steps, OutSection
    <3>2. WakeExpiring'
      BY <3>1 DEF ReleaseInv, WakeExpiring, Alone, to
    <3>3. \A e \in Dest : ~Told(e)'
      BY <1>3, <2>1, <2>3, <3>1 DEF Told, Alone, to
    <3> QED
      BY <3>2, <3>3 DEF ReleaseInv, RouteComes
  <2> QED
    BY <2>1, <2>2, <2>3
<1>6. CASE search_starts
  <2>1. /\ continue("out", "poll", {d}, {}, one("sender", d))
        /\ rreq_search' = [rreq_search EXCEPT ![d] = "SEARCH_SEARCHING"]
    BY <1>6 DEF search_starts
  <2>2. DOMAIN one("sender", d) = {"sender"}
    BY Started
  <2>3. Alone("out", "poll", job["out"])
    BY <2>1, <2>2 DEF continue, Alone
  <2>4. WakeExpiring'
    BY <2>3 DEF ReleaseInv, WakeExpiring, Alone, to
  <2>5. rreq_search'[d] = "SEARCH_SEARCHING"
    BY <1>2, <2>1 DEF Fields
  <2>6. at'["out"] = "poll" /\ job'["out"].dest = d
    BY <1>3, <2>3 DEF Alone
  <2>7. \A e \in Dest : ~Told(e)'
    BY <2>5, <2>6 DEF Told, to
  <2> QED
    BY <2>4, <2>7 DEF ReleaseInv, RouteComes
<1>7. CASE search_polls
  <2>1. /\ steps("out", "outcome") /\ UNCHANGED rreq_search
        /\ at["out"] = "poll" /\ rreq_search[d] # "SEARCH_SEARCHING"
    BY <1>7 DEF search_polls, no_longer_searching, entries, runs
  <2>2. Alone("out", "outcome", job["out"])
    BY <1>4, <2>1, StepsAlone DEF steps, OutSection
  <2>3. WakeExpiring'
    BY <2>2 DEF ReleaseInv, WakeExpiring, Alone, to
  <2>4. \A e \in Dest : /\ Told(e)' => Told(e) /\ (Routed(e) => Routed(e)')
                        /\ OnItsWay(e) => OnItsWay(e)'
    BY <1>3, <2>1, <2>2 DEF Told, Routed, OnItsWay, Alone, to
  <2> QED
    BY <1>2, <2>3, <2>4 DEF ReleaseInv, RouteComes
<1>8. CASE search_outcome
  <2>1. /\ UNCHANGED rreq_search /\ at["out"] = "outcome"
        /\ \/ goes_on("out", "failed", {d})
           \/ goes_on("out", "release", {d}) /\ rreq_search[d] # "SEARCH_FAILED"
    BY <1>8 DEF search_outcome, entries, runs
  <2>2. CASE goes_on("out", "failed", {d})
    BY <2>2, StepsAlone, UntoldKeepsRoutes
  <2>3. CASE goes_on("out", "release", {d}) /\ rreq_search[d] # "SEARCH_FAILED"
    <3>1. Alone("out", "release", job["out"])
      BY <1>4, <2>3, StepsAlone DEF OutSection
    <3>2. WakeExpiring'
      BY <3>1 DEF ReleaseInv, WakeExpiring, Alone, to
    <3>3. rreq_search[d] # "SEARCH_SEARCHING"
      BY <1>2, <2>1 DEF SearchKnown
    <3>4. \A e \in Dest : /\ Told(e)' => Told(e) /\ (Routed(e) => Routed(e)')
                          /\ OnItsWay(e) => OnItsWay(e)'
      BY <1>3, <2>1, <2>3, <3>1, <3>3 DEF Told, Routed, OnItsWay, Alone, to
    <3> QED
      BY <1>2, <3>2, <3>4 DEF ReleaseInv, RouteComes
  <2> QED
    BY <2>1, <2>2, <2>3
<1> QED
  BY <1>5, <1>6, <1>7, <1>8

\* recv_rrep announces the route of an entry, and then installs it.
LEMMA InRelease ==
    ASSUME ThreadsInv, ReleaseInv,
           \/ \E r \in Rreps : recv_rrep(r)
           \/ \E r \in Rreqs : recv_rreq(r)
           \/ rrep_found
           \/ previous_hop
           \/ \E fresher \in BOOLEAN : rrep_installs(fresher) \/ rreq_installs(fresher)
           \/ rrep_forwards
           \/ \E asked \in {0, ReplyBelow} : rrep_reads(asked)
           \/ rrep_writes
    PROVE  ReleaseInv'
<1> USE Names
<1> DEFINE d == to("in")
<1>1. CASE (\E r \in Rreps : recv_rrep(r)) \/ (\E r \in Rreqs : recv_rreq(r))
  <2>1. PICK section, from, dest, src : idle_with("in", section, from, dest, src)
    BY <1>1 DEF recv_rrep, recv_rreq, in_message
  <2>2. /\ Alone("in", section, [from |-> from, dest |-> dest, src |-> src])
        /\ ~deleted /\ at["in"] = "idle" /\ UNCHANGED <<rreq_search, kernel>>
    BY <2>1, BeginsAlone
  <2>3. \A e \in Dest : Routed(e) => Routed(e)'
    BY <2>2 DEF Routed
  <2> QED
    BY <2>2, <2>3, InKeepsRoutes
<1>2. CASE rrep_found
  <2>1. /\ at["in"] = "found" /\ ~deleted /\ UNCHANGED kernel
        /\ continue("in", "hop", {d}, {rreq_message_sender[d]} \ {NoThread}, <<>>)
        /\ rreq_search' = [rreq_search EXCEPT ![d] = "SEARCH_FOUND"]
    BY <1>2 DEF rrep_found, runs
  <2>2. Placed /\ Fields
    BY DEF ThreadsInv
  <2>3. d \in Dest /\ d = job["in"].dest
    <3>1. MayBe("in", at["in"], job["in"])
      BY <2>2 DEF Placed
    <3> QED
      BY <2>1, <3>1 DEF MayBe, to
  <2>4. {rreq_message_sender[d]} \ {NoThread} \subseteq {"sender"}
    BY <2>2, <2>3 DEF Fields
  <2> HIDE DEF d
  <2>5. Alone("in", "hop", job["in"])
    BY <2>1, <2>4, Started DEF continue, Alone
  <2>6. WakeExpiring'
    BY <2>5 DEF ReleaseInv, WakeExpiring, Alone, to
  <2>7. \A e \in Dest : e # d => (Told(e)' => Told(e)) /\ (Routed(e) => Routed(e)')
    BY <2>1, <2>2, <2>3, <2>5 DEF Told, Routed, Alone, to, Fields
  <2>8. \A e \in Dest : ~OnItsWay(e)
    BY <2>1 DEF OnItsWay
  <2>9. \A e \in Dest \ Expiring : Told(e)' => Routed(e)' \/ OnItsWay(e)'
    <3> TAKE e \in Dest \ Expiring
    <3>1. CASE e = d
      BY <2>3, <2>5, <3>1 DEF Alone, OnItsWay, to
    <3>2. CASE e # d
      BY <2>1, <2>7, <2>8, <3>2 DEF ReleaseInv, RouteComes
    <3> QED
      BY <3>1, <3>2
  <2> QED
    BY <2>6, <2>9 DEF ReleaseInv, RouteComes
<1>3. CASE previous_hop
  <2> DEFINE section == IF to("in") = Self THEN "reverse" ELSE "install"
  <2>1. /\ at["in"] = "hop" /\ ~deleted /\ kernel \subseteq kernel' /\ UNCHANGED rreq_search
        /\ set_expiration_timer("in", section, {job["in"].from}, job["in"].from)
        /\ runs("in", "hop")
    BY <1>3 DEF previous_hop, runs, unlock_previous_hop
  <2>2. job["in"].from \in Dest /\ d = job["in"].dest
    BY <2>1, Runs DEF MayBe, to
  <2>3. job_after(job["in"], section) = job["in"]
    BY DEF job_after
  <2>4. Alone("in", section, job["in"])
    BY <2>1, <2>2, <2>3, SetsAlone
  <2>5. \A e \in Dest : OnItsWay(e) => section = "install"
    BY DEF OnItsWay
  <2> HIDE DEF section
  <2>6. WakeExpiring'
    BY <2>4 DEF ReleaseInv, WakeExpiring, Alone, to
  <2>7. \A e \in Dest : /\ Told(e)' => Told(e) /\ (Routed(e) => Routed(e)')
                        /\ OnItsWay(e) => OnItsWay(e)'
    BY <2>1, <2>2, <2>4, <2>5 DEF Told, Routed, OnItsWay, Alone, to
  <2> QED
    BY <2>1, <2>6, <2>7 DEF ReleaseInv, RouteComes
<1>4. CASE \E fresher \in BOOLEAN : rrep_installs(fresher)
  <2>1. PICK fresher \in BOOLEAN : rrep_installs(fresher)
    BY <1>4
  <2>2. /\ runs("in", "install") /\ ~deleted /\ UNCHANGED rreq_search
        /\ kernel' = kernel \cup {<<d, job["in"].from>>}
    BY <2>1 DEF rrep_installs, in_route, runs
  <2>3. d \in Dest
    BY <2>2, Runs DEF MayBe, to
  <2>4. PICK section \in {"idle", "originator"}, unlocked \in {{d}, {}} :
           set_expiration_timer("in", section, unlocked, d)
    BY <2>1 DEF rrep_installs
  <2>5. Alone("in", section, job_after(job["in"], section))
    BY <2>2, <2>3, <2>4, SetsAlone
  <2>6. WakeExpiring'
    BY <2>5 DEF ReleaseInv, WakeExpiring, Alone, to
  <2>7. \A e \in Dest : /\ Told(e)' => Told(e) /\ (Routed(e) => Routed(e)')
                        /\ OnItsWay(e) => Routed(e)'
    <3>1. \A e \in Dest : Told(e)' => Told(e)
      BY <2>2, <2>5 DEF Told, Alone, to
    <3>2. \A e \in Dest : Routed(e) => Routed(e)'
      BY <2>2 DEF Routed
    <3>3. \A e \in Dest : OnItsWay(e) => Routed(e)'
      <4> SUFFICES ASSUME NEW e \in Dest, e = d
                   PROVE  \E r \in kernel' : r[1] = e
        BY DEF OnItsWay, Routed
      <4>1. <<d, job["in"].from>> \in kernel' /\ <<d, job["in"].from>>[1] = e
        BY <2>2
      <4> QED
        BY <4>1
    <3> QED
      BY <3>1, <3>2, <3>3
  <2> QED
    BY <2>2, <2>6, <2>7 DEF ReleaseInv, RouteComes
<1>5. CASE \E fresher \in BOOLEAN : rreq_installs(fresher)
  <2>1. /\ runs("in", "reverse") /\ ~deleted /\ at["in"] = "reverse" /\ UNCHANGED rreq_search
        /\ kernel \subseteq kernel'
        /\ set_expiration_timer("in", "read", {job["in"].src}, job["in"].src)
    BY <1>5 DEF rreq_installs, in_route, runs
  <2>2. job["in"].src \in Dest
    BY <2>1, Runs DEF MayBe
  <2>3. Alone("in", "read", job_after(job["in"], "read"))
    BY <2>1, <2>2, SetsAlone
  <2>4. \A e \in Dest : Routed(e) => Routed(e)'
    BY <2>1 DEF Routed
  <2> QED
    BY <2>1, <2>3, <2>4, InKeepsRoutes
<1>6. CASE rrep_forwards \/ (\E asked \in {0, ReplyBelow} : rrep_reads(asked)) \/ rrep_writes
  <2>1. /\ ~deleted /\ at["in"] \notin {"hop", "install"} /\ UNCHANGED <<rreq_search, kernel>>
        /\ \E section \in {"idle", "write"} : \E unlocked : goes_on("in", section, unlocked)
    BY <1>6 DEF rrep_forwards, rrep_reads, rrep_writes, runs, entries
  <2>2. PICK section, unlocked : section \in {"idle", "write"} /\ goes_on("in", section, unlocked)
    BY <2>1
  <2>3. Alone("in", section, job_after(job["in"], section))
    BY <2>2, StepsAlone
  <2>4. \A e \in Dest : Routed(e) => Routed(e)'
    BY <2>1 DEF Routed
  <2> QED
    BY <2>1, <2>3, <2>4, InKeepsRoutes
<1> QED
  BY <1>1, <1>2, <1>3, <1>4, <1>5, <1>6

LEMMA ReleaseNext == ThreadsInv /\ ReleaseInv /\ [Next]_vars => ReleaseInv'
<1> SUFFICES ASSUME ThreadsInv, ReleaseInv, [Next]_vars
             PROVE  ReleaseInv'
  OBVIOUS
<1>1. CASE UNCHANGED vars \/ \E t \in Thread : pthread_mutex_lock(t)
  <2>1. UNCHANGED <<at, job, rreq_search, kernel, deleted>>
    BY <1>1 DEF vars, entries, pthread_mutex_lock
  <2> QED
    BY <2>1 DEF ReleaseInv, WakeExpiring, RouteComes, Told, Routed, OnItsWay, to
<1>2. CASE Next /\ ~\E t \in Thread : pthread_mutex_lock(t)
  <2>1. CASE \/ \E r \in Rreps : recv_rrep(r)
             \/ \E r \in Rreqs : recv_rreq(r)
             \/ rrep_found
             \/ previous_hop
             \/ \E fresher \in BOOLEAN : rrep_installs(fresher) \/ rreq_installs(fresher)
             \/ rrep_forwards
             \/ \E asked \in {0, ReplyBelow} : rrep_reads(asked)
             \/ rrep_writes
    BY <2>1, InRelease
  <2>2. CASE \/ \E d \in Calls : outgoing_message(d)
             \/ out_refreshes \/ out_breaks \/ search_cancels \/ search_clears
             \/ search_failed \/ search_releases
    BY <2>2, OutRelease
  <2>3. CASE search_reads \/ search_starts \/ search_polls \/ search_outcome
    BY <2>3, PollRelease
  <2>4. CASE \/ sender_numbers \/ sender_reads
             \/ \E section \in {"flood", "fail"} : sender_floods(section)
             \/ sender_fails
    BY <2>4, SenderRelease
  <2>5. CASE \E t \in Timer : timer_wakes(t) \/ route_expires(t) \/ entry_deleted(t)
    BY <2>5, TimerRelease
  <2>6. CASE \/ \E p \in Packets : forwarded_messages(p)
             \/ fwd_locked \/ fwd_accepts \/ fwd_refreshes_source \/ fwd_breaks
             \/ fwd_unreachable
    BY <2>6, FwdRelease
  <2> QED
    BY <1>2, <2>1, <2>2, <2>3, <2>4, <2>5, <2>6 DEF Next
<1> QED
  BY <1>1, <1>2

\* After the first entry is deleted there is no step.
LEMMA StepsAlive == Next => ~deleted
<1>1. (\E t \in Thread : pthread_mutex_lock(t)) => ~deleted
  BY DEF pthread_mutex_lock
<1>2. \/ \E r \in Rreps : recv_rrep(r)
      \/ \E r \in Rreqs : recv_rreq(r)
      \/ \E d \in Calls : outgoing_message(d)
      \/ \E p \in Packets : forwarded_messages(p)
      => ~deleted
  BY DEF recv_rrep, recv_rreq, in_message, outgoing_message, forwarded_messages, idle_with,
         runs
<1>3. \/ rrep_found \/ previous_hop
      \/ \E fresher \in BOOLEAN : rrep_installs(fresher) \/ rreq_installs(fresher)
      \/ rrep_forwards
      \/ \E asked \in {0, ReplyBelow} : rrep_reads(asked)
      \/ rrep_writes
      => ~deleted
  BY DEF rrep_found, previous_hop, rrep_installs, rreq_installs, rrep_forwards, rrep_reads,
         rrep_writes, runs
<1>4. \/ out_refreshes \/ out_breaks \/ search_reads \/ search_cancels \/ search_clears
      \/ search_starts \/ search_polls \/ search_outcome \/ search_failed \/ search_releases
      => ~deleted
  BY DEF out_refreshes, out_breaks, search_reads, search_cancels, search_clears,
         search_starts, search_polls, search_outcome, search_failed, search_releases, runs
<1>5. \/ sender_numbers \/ sender_reads
      \/ \E section \in {"flood", "fail"} : sender_floods(section)
      \/ sender_fails
      \/ \E t \in Timer : timer_wakes(t) \/ route_expires(t) \/ entry_deleted(t)
      => ~deleted
  BY DEF sender_numbers, sender_reads, sender_floods, sender_fails, timer_wakes,
         route_expires, entry_deleted, runs
<1>6. fwd_locked \/ fwd_accepts \/ fwd_refreshes_source \/ fwd_breaks \/ fwd_unreachable
      => ~deleted
  BY DEF fwd_locked, fwd_accepts, fwd_refreshes_source, fwd_breaks, fwd_unreachable,
         fwd_decides, runs
<1> QED
  BY <1>1, <1>2, <1>3, <1>4, <1>5, <1>6 DEF Next

LEMMA ReleaseInit == Init => ReleaseInv
<1> SUFFICES ASSUME Init PROVE ReleaseInv
  OBVIOUS
<1>1. at["out"] = "idle" /\ \A t \in Timer : at[t] # "expire"
  BY Names DEF Init
<1> QED
  BY <1>1 DEF ReleaseInv, WakeExpiring, RouteComes, Told

\* A packet that goes without a route, and not because a timer removed it, goes while
\* recv_rrep is about to install that route.
THEOREM PacketsReleasedEarly == Spec => ReleasedEarly
<1>1. ThreadsInv /\ ReleaseInv /\ [Next]_vars =>
        [\A d \in Dest \ Expiring :
             /\ at["out"] = "release" /\ at'["out"] = "idle" /\ to("out") = d
             /\ \A r \in kernel : r[1] # d
             => at["in"] \in {"hop", "install"} /\ to("in") = d]_vars
  <2> SUFFICES ASSUME ReleaseInv, Next, NEW d \in Dest \ Expiring,
                      at["out"] = "release", to("out") = d, \A r \in kernel : r[1] # d
               PROVE  OnItsWay(d) \/ deleted
    BY StepsAlive DEF OnItsWay
  <2>1. Told(d) /\ ~Routed(d)
    BY DEF Told, Routed
  <2> QED
    BY <2>1 DEF ReleaseInv, RouteComes
<1>2. Spec => []ReleaseInv
  BY ThreadsCorrect, ReleaseInit, ReleaseNext, PTL DEF Spec
<1> QED
  BY <1>1, <1>2, ThreadsCorrect, PTL DEF Spec, ReleasedEarly
=============================================================================
