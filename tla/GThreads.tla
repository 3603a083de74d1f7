------------------------------ MODULE GThreads ------------------------------
(***************************************************************************)
(* The cooperative threads of gthread.cc: a doubly linked list that        *)
(* gthread_yield() walks in circles and gthread_terminate() shrinks, and   *)
(* the eight loops of ooo_core.cc that run on it, down to when they yield, *)
(* whether they look at terminate_sim, and who sets it.  Of the pipeline   *)
(* only what retire() waits for is kept: the delay slot of the branch in   *)
(* front of the rob, which the other threads bring from fetch to           *)
(* completion one stage at a time.  Cycles since the last retirement are   *)
(* counted in `idle', up to where the watchdog loses patience.            *)
(***************************************************************************)
EXTENDS Integers, Sequences

CONSTANTS
    Threads,         \* in the order of the make_gthread() calls
    nullptr,
    MemLatency,      \* mem_latency
    WatchdogMin,     \* the mem_latency from which on there is a watchdog (100)
    StageDelays,     \* cycles a delay slot may spend before its next stage
    BranchLag,       \* bound on idle when a branch reaches the front of the rob
    MaxSleep         \* bound on the cycles of a recovery without flash_restart

ThreadSet == {Threads[j] : j \in DOMAIN Threads}

ASSUME MemLatencyAssumption == MemLatency \in Nat /\ WatchdogMin \in Nat

(* Every make_gthread() allocates another thread.                          *)
ASSUME ThreadsAssumption ==
    /\ Threads \in Seq(ThreadSet)
    /\ \A i, j \in DOMAIN Threads : Threads[i] = Threads[j] => i = j
    /\ {"retire", "cycle_count"} \subseteq ThreadSet
    /\ nullptr \notin ThreadSet

VARIABLES
    list,            \* gthread::head, and the next and prev of every thread
    status,          \* gthread::status
    curr_thread,
    ended,           \* the threads past their loop
    returned,        \* start_gthreads() has returned
    has_l1d,         \* machine_state.l1d # nullptr
    terminate_sim,
    retiring,        \* where retire() is: [at, stop, sleep]
    slot, delay,     \* stages the awaited slot has passed; cycles to its next
    idle             \* curr_cycle - last_retire_cycle

gthreadVars == <<list, status, curr_thread, ended, returned>>
vars == <<gthreadVars, has_l1d, terminate_sim, retiring, slot, delay, idle>>
-----------------------------------------------------------------------------
(* gthread.hh: the list                                                    *)

Unlinked == [t \in ThreadSet |-> nullptr]
LastOf(l) ==
    LET last[t \in ThreadSet] == IF l.next[t] = nullptr THEN t ELSE last[l.next[t]]
    IN  last[l.head]
insert_into_list(l, t) ==
    IF l.head = nullptr THEN [l EXCEPT !.head = t]
    ELSE [l EXCEPT !.next[LastOf(l)] = t, !.prev[t] = LastOf(l)]

\* mutant of remove_from_list: the head stays
remove_from_listHead(l, t) ==
    [l EXCEPT !.next = IF l.prev[t] = nullptr THEN @ ELSE [@ EXCEPT ![l.prev[t]] = l.next[t]],
              !.prev = IF l.next[t] = nullptr THEN @ ELSE [@ EXCEPT ![l.next[t]] = l.prev[t]],
              !.head = IF @ = t /\ l.next[t] = nullptr THEN nullptr ELSE @]
remove_from_list(l, t) ==
    [l EXCEPT !.next = IF l.prev[t] = nullptr THEN @ ELSE [@ EXCEPT ![l.prev[t]] = l.next[t]],
              !.prev = IF l.next[t] = nullptr THEN @ ELSE [@ EXCEPT ![l.next[t]] = l.prev[t]],
              !.head = IF @ = t THEN l.next[t] ELSE @]

get_next(l, t) == IF l.next[t] = nullptr THEN l.head ELSE l.next[t]

(* run_ooo_core(): the threads are made one after the other.               *)
Made[n \in 0 .. Len(Threads)] ==
    IF n = 0 THEN [head |-> nullptr, next |-> Unlinked, prev |-> Unlinked]
    ELSE insert_into_list(Made[n - 1], Threads[n])

Init ==
    /\ list = Made[Len(Threads)]
    /\ status = [t \in ThreadSet |-> "uninitialized"]
    /\ curr_thread = nullptr
    /\ ended = {}
    /\ returned = FALSE
    /\ has_l1d \in BOOLEAN
    /\ terminate_sim = FALSE
    /\ retiring = [at |-> "loop", stop |-> FALSE, sleep |-> 0]
    /\ slot = 0
    /\ delay = 0
    /\ idle = 0

start_gthreads ==
    /\ curr_thread = nullptr
    /\ list.head # nullptr
    /\ curr_thread' = list.head
    /\ status' = [status EXCEPT ![list.head] = "run"]
    /\ UNCHANGED <<list, ended, returned, has_l1d, terminate_sim, retiring, slot, delay, idle>>

gthread_yield ==
    LET n == get_next(list, curr_thread)
    IN  /\ n # nullptr
        /\ curr_thread' = n
        /\ status' = [status EXCEPT ![curr_thread] = "ready", ![n] = "run"]
        /\ UNCHANGED <<list, ended, returned>>

(* The successor is looked up before the thread leaves the list; the last  *)
(* one returns to the stack of start_gthreads().                           *)
gthread_terminate ==
    LET n == get_next(list, curr_thread)
    IN  /\ list' = remove_from_list(list, curr_thread)
        /\ ended' = ended \cup {curr_thread}
        /\ IF list'.head = nullptr
           THEN returned' = TRUE /\ UNCHANGED <<curr_thread, status>>
           ELSE /\ curr_thread' = n
                /\ status' = [status EXCEPT ![n] = "run"]
                /\ UNCHANGED returned

Running(t) == curr_thread = t /\ ~ returned
-----------------------------------------------------------------------------
(* The loops of ooo_core.cc: one action is a turn, up to the next yield.   *)

(* A loop that finds terminate_sim set, and the cache thread without l1d.  *)
Leave(t) ==
    /\ Running(t)
    /\ terminate_sim \/ (t = "cache" /\ ~ has_l1d)
    /\ gthread_terminate
    /\ UNCHANGED <<has_l1d, terminate_sim, retiring, slot, delay, idle>>

(* The stages that bring the delay slot to completion.                     *)
Stages == <<"fetch", "decode", "allocate", "execute", "complete">>
Present == Len(Stages)               \* slot: it is complete

Work(t) ==
    /\ Running(t)
    /\ ~ terminate_sim
    /\ t = "cache" => has_l1d
    /\ IF retiring.at = "slot" /\ slot < Present /\ delay = 0 /\ Stages[slot + 1] = t
       THEN slot' = slot + 1 /\ delay' \in StageDelays
       ELSE UNCHANGED <<slot, delay>>
    /\ gthread_yield
    /\ UNCHANGED <<has_l1d, terminate_sim, retiring, idle>>

\* mutant of Impatient: mem_latency is not doubled
ImpatientHalf(n) == MemLatency >= WatchdogMin /\ n > MemLatency
\* mutant of Impatient: there is no watchdog
ImpatientNever(n) == FALSE
Impatient(n) == MemLatency >= WatchdogMin /\ n > MemLatency * 2

cycle_count ==
    /\ Running("cycle_count")
    /\ ~ terminate_sim
    /\ idle' = IF idle > MemLatency * 2 THEN idle ELSE idle + 1
    /\ terminate_sim' = Impatient(idle')
    /\ delay' = IF delay > 0 THEN delay - 1 ELSE 0
    /\ gthread_yield
    /\ UNCHANGED <<has_l1d, retiring, slot>>

(* How a turn of retire() may end once it has looked at the rob: with some *)
(* operations retired or none; waiting for a delay slot; sleeping in a     *)
(* recovery; having met maxicnt or an operation that stops the simulation  *)
(* (break), or one that sets terminate_sim itself (a host call).           *)
RetireGroup ==
    /\ idle' \in {0, idle}
    /\ \/ /\ retiring' \in {[at |-> "loop", stop |-> b, sleep |-> 0] : b \in {FALSE, idle' = 0}}
          /\ terminate_sim' \in {terminate_sim, terminate_sim \/ idle' = 0}
          /\ UNCHANGED <<slot, delay>>
       \/ /\ idle' <= BranchLag
          /\ retiring' = [at |-> "slot", stop |-> FALSE, sleep |-> 0]
          /\ slot' \in 0 .. Present - 1
          /\ delay' = 0
          /\ UNCHANGED terminate_sim
       \/ /\ retiring' \in {[at |-> "sleep", stop |-> FALSE, sleep |-> n] : n \in 1 .. MaxSleep}
          /\ UNCHANGED <<slot, delay, terminate_sim>>
    /\ gthread_yield
    /\ UNCHANGED has_l1d

RetireTurn ==
    /\ Running("retire")
    /\ retiring.at = "loop" /\ ~ retiring.stop /\ ~ terminate_sim
    /\ RetireGroup

(* maxicnt and stop_sim are looked at after the yield of the loop.         *)
RetireEnds ==
    /\ Running("retire")
    /\ retiring.at = "loop" /\ (retiring.stop \/ terminate_sim)
    /\ terminate_sim' = TRUE
    /\ gthread_terminate
    /\ UNCHANGED <<has_l1d, retiring, slot, delay, idle>>

(* The loops that wait for the delay slot look at nothing else.            *)
RetireWaits ==
    /\ Running("retire")
    /\ retiring.at = "slot" /\ slot < Present
    /\ gthread_yield
    /\ UNCHANGED <<has_l1d, terminate_sim, retiring, slot, delay, idle>>

RetireSlot ==
    /\ Running("retire")
    /\ retiring.at = "slot" /\ slot = Present
    /\ RetireGroup

RetireSleeps ==
    /\ Running("retire")
    /\ retiring.at = "sleep"
    /\ retiring' = IF retiring.sleep = 1 THEN [at |-> "loop", stop |-> FALSE, sleep |-> 0]
                   ELSE [retiring EXCEPT !.sleep = @ - 1]
    /\ gthread_yield
    /\ UNCHANGED <<has_l1d, terminate_sim, slot, delay, idle>>

Others == ThreadSet \ {"retire", "cycle_count"}
Next ==
    \/ start_gthreads
    \/ \E t \in Others : Work(t)
    \/ \E t \in ThreadSet \ {"retire"} : Leave(t)
    \/ cycle_count
    \/ RetireTurn \/ RetireEnds \/ RetireWaits \/ RetireSlot \/ RetireSleeps

(* The threads are functions of one host thread: as long as the host runs  *)
(* it, the one that is running goes on to its next yield.                  *)
Fairness == WF_vars(Next)

Spec == Init /\ [][Next]_vars /\ Fairness
-----------------------------------------------------------------------------
(* Properties                                                              *)

(* The threads that get_next() finds from t on, until it is t again.       *)
Walk(l, t) ==
    LET onward == [p \in ThreadSet \cup {nullptr} |->
                       IF p = nullptr \/ get_next(l, p) = t THEN nullptr ELSE get_next(l, p)]
        at[n \in DOMAIN Threads] == IF n = 1 THEN t ELSE onward[at[n - 1]]
    IN  [n \in {m \in DOMAIN Threads : at[m] # nullptr} |-> at[n]]
First == IF curr_thread = nullptr THEN list.head ELSE curr_thread
Order == IF returned THEN <<>> ELSE Walk(list, First)

Ready == INSTANCE ReadyQueue WITH q <- Order

(* The linked list is the round robin that the stages are written for:     *)
(* whatever thread leaves (cache at once when there is no l1d, the others  *)
(* from wherever the turn is when terminate_sim is set), the remaining     *)
(* ones keep running in the order of run_ooo_core(), none twice.           *)
ImplementsReadyQueue == Ready!Spec

(* Once terminate_sim is set (end of the program, maxicnt, the watchdog)   *)
(* all threads terminate and start_gthreads() returns; retire() must not   *)
(* be in one of the loops that wait for a delay slot, whose producers are  *)
(* leaving (ooo_core.cc:329, 335, 457, 462).                               *)
Shutdown == terminate_sim ~> returned

(* A core that stops retiring for good (a load that replays for ever) does *)
(* not keep the simulator running: the watchdog of cycle_count() ends it.  *)
WatchdogEnds == []<>(idle = 0) \/ <>returned
=============================================================================
