----------------------------- MODULE Predictors -----------------------------
(***************************************************************************)
(* Branch prediction: the predictors of branch_predictor.cc (gshare,       *)
(* gnoalias, bimode), the loop predictor, and the places that use them:    *)
(* fetch() of ooo_core.cc predicts with the history of the operations      *)
(* retired so far and stores the index in the operation; retire() of the   *)
(* branches and jumps trains the entry of that index, some operations      *)
(* later.  A branch that was mispredicted, and a load exception, drops     *)
(* what was fetched after it; what the loop predictor counted for the      *)
(* dropped operations stays counted.  A jump is a j, jal or jr, which the  *)
(* tables do not predict but do learn from; a jalr is predicted as a       *)
(* branch that is always taken.                                            *)
(***************************************************************************)
EXTENDS Integers, Sequences

CONSTANTS
    Programs,        \* of [addresses -> [jump, back, likely: BOOLEAN]]
    Kinds,           \* the predictors in use
    LgPht,           \* lg_pht_entries
    HistBits,        \* bits of bhr (bhr_length, in whole bytes)
    Hash(_),         \* sim_bitvec_template::hash()
    Bxor(_, _),      \* `^'
    LoopSizes,       \* num_loop_entries; 0: no loop predictor
    WindowSize,      \* bound on the branches in flight
    MaxLimit         \* bound on the counters of the loop predictor

ASSUME SizesAssumption ==
    /\ LoopSizes \subseteq Nat /\ MaxLimit \in Nat
    /\ \A p \in Programs : DOMAIN p \subseteq Nat

VARIABLES
    program,         \* the branches and jumps of the program
    kind, n_entries, \* branch_predictor, num_loop_entries
    tbl,             \* the counters: [pht, c_pht, t_pht, nt_pht]
    bhr,             \* the outcomes of the last retired branches, newest first
    known,           \* the addresses in branch_prediction_map
    arr,             \* loop_predictor::arr
    window,          \* the branches and jumps in flight, oldest first
    just,            \* history: what retired in this step
    streak           \* history: times a branch was taken since it was not

configVars == <<program, kind, n_entries>>
vars == <<configVars, tbl, bhr, known, arr, window, just, streak>>

Pcs == DOMAIN program
Word(pc) == pc \div 4
Least(a, b) == IF a < b THEN a ELSE b
Nothing == [taken |-> TRUE, right |-> TRUE, none |-> TRUE]
-----------------------------------------------------------------------------
(* counter2b.hh: two-bit counters                                          *)

\* mutant of Counter: it wraps around
CounterWrap(v, taken) == (IF taken THEN v + 1 ELSE v + 3) % 4
Counter(v, taken) ==
    IF taken THEN IF v > 2 THEN v ELSE v + 1
    ELSE IF v = 0 THEN v ELSE v - 1

WeaklyNot(lg) == [j \in 0 .. 2 ^ lg - 1 |-> 1]

(* branch_predictor.cc: the index is the history hashed into the address;  *)
(* gnoalias keeps a counter for every address and history.                 *)
Index(pc) ==
    CASE kind = "gshare"   -> Bxor(Word(pc), Hash(bhr)) % 2 ^ LgPht
      [] kind = "bimode"   -> Bxor(Word(pc), Hash(bhr)) % 2 ^ (LgPht - 1)
      [] kind = "gnoalias" -> <<Word(pc), bhr>>
Choice(pc) == Word(pc) % 2 ^ (LgPht - 1)

predict(pc, idx) ==
    CASE kind = "gshare"   -> tbl.pht[idx]
      [] kind = "gnoalias" -> IF idx \in DOMAIN tbl.pht THEN tbl.pht[idx] ELSE 0
      [] kind = "bimode"   -> IF tbl.c_pht[Choice(pc)] < 2 THEN tbl.nt_pht[idx]
                              ELSE tbl.t_pht[idx]

(* bimode trains the table it chooses now; the choice itself is left alone *)
(* when it disagrees with the outcome but the chosen counter agrees.       *)
TrainBimode(pc, idx, taken) ==
    LET c == Choice(pc)
        pick == tbl.c_pht[c]
    IN  IF pick < 2
        THEN [tbl EXCEPT !.nt_pht[idx] = Counter(@, taken),
                         !.c_pht[c] = IF taken /\ tbl.nt_pht[idx] > 1 THEN @
                                      ELSE Counter(@, taken)]
        ELSE [tbl EXCEPT !.t_pht[idx] = Counter(@, taken),
                         !.c_pht[c] = IF ~ taken /\ tbl.t_pht[idx] < 2 THEN @
                                      ELSE Counter(@, taken)]

update(pc, idx, taken) ==
    CASE kind = "gshare"   -> [tbl EXCEPT !.pht[idx] = Counter(@, taken)]
      [] kind = "gnoalias" ->
            [tbl EXCEPT !.pht = [k \in DOMAIN @ \cup {idx} |->
                IF k = idx THEN Counter(predict(pc, idx), taken) ELSE @[k]]]
      [] kind = "bimode"   -> TrainBimode(pc, idx, taken)
-----------------------------------------------------------------------------
(* loop_predictor.cc                                                       *)

Cleared == [state |-> "invalid", count |-> 0, limit |-> 0, pc |-> 0]
Slot(pc) == Word(pc) % n_entries
valid_loop_branch(pc) ==
    n_entries # 0 /\ arr[Slot(pc)].pc = pc /\ arr[Slot(pc)].state = "locked"

(* Counts the iterations as they are fetched: not taken at the limit.      *)
loop_predict(pc) == arr[Slot(pc)].count # arr[Slot(pc)].limit
loop_count(pc) ==
    [arr EXCEPT ![Slot(pc)].count = IF loop_predict(pc) THEN Least(@ + 1, MaxLimit + 1) ELSE 0]

\* mutant of loop_update: an entry that belongs to another branch is kept
loop_updateShare(pc, taken, prediction) ==
    LET e == arr[Slot(pc)]
    IN  [arr EXCEPT ![Slot(pc)] =
            CASE e.state = "invalid"  -> [e EXCEPT !.pc = pc, !.state = "training", !.limit = 1]
              [] e.state = "training" -> IF taken THEN [e EXCEPT !.limit = Least(@ + 1, MaxLimit)]
                                         ELSE [e EXCEPT !.state = "locked"]
              [] e.state = "locked"   -> IF taken # prediction
                                         THEN [e EXCEPT !.state = "invalid"] ELSE e]
loop_update(pc, taken, prediction) ==
    LET e == IF arr[Slot(pc)].pc = pc THEN arr[Slot(pc)] ELSE Cleared
    IN  [arr EXCEPT ![Slot(pc)] =
            CASE e.state = "invalid"  -> [e EXCEPT !.pc = pc, !.state = "training", !.limit = 1]
              [] e.state = "training" -> IF taken THEN [e EXCEPT !.limit = Least(@ + 1, MaxLimit)]
                                         ELSE [e EXCEPT !.state = "locked"]
              [] e.state = "locked"   -> IF taken # prediction
                                         THEN [e EXCEPT !.state = "invalid"] ELSE e]
-----------------------------------------------------------------------------
Init ==
    /\ program \in Programs
    /\ kind \in Kinds
    /\ n_entries \in LoopSizes
    /\ tbl = CASE kind = "gshare"   -> [pht |-> WeaklyNot(LgPht)]
               [] kind = "gnoalias" -> [pht |-> <<>>]
               [] kind = "bimode"   -> [c_pht |-> WeaklyNot(LgPht - 1),
                                        t_pht |-> WeaklyNot(LgPht - 1),
                                        nt_pht |-> WeaklyNot(LgPht - 1)]
    /\ bhr = [j \in 1 .. HistBits |-> FALSE]
    /\ known = {}
    /\ arr = [j \in 0 .. n_entries - 1 |-> Cleared]
    /\ window = <<>>
    /\ just = Nothing
    /\ streak = [pc \in Pcs |-> 0]

(* A branch that never retired is predicted by its direction.              *)
Predicted(pc) ==
    CASE program[pc].jump                                           -> TRUE
      [] pc \in known /\ program[pc].back /\ valid_loop_branch(pc)  -> loop_predict(pc)
      [] pc \in known /\ ~ (program[pc].back /\ valid_loop_branch(pc)) ->
            predict(pc, Index(pc)) > 1
      [] OTHER                                                     ->
            program[pc].likely \/ program[pc].back

(* fetch(), of any branch: right path or wrong path.                       *)
fetch ==
    \E pc \in Pcs :
        /\ Len(window) < WindowSize
        /\ window' = Append(window, [pc |-> pc, pht_idx |-> Index(pc),
                                     predict_taken |-> Predicted(pc)])
        /\ arr' = IF ~ program[pc].jump /\ pc \in known /\ program[pc].back /\ valid_loop_branch(pc)
                  THEN loop_count(pc) ELSE arr
        /\ just' = Nothing
        /\ UNCHANGED <<configVars, tbl, bhr, known, streak>>

(* branch_op::retire() and jump_op::retire(), with the recovery that       *)
(* follows a misprediction.  A likely branch that is not taken drops its   *)
(* delay slot with all that follows, however it was predicted.             *)
retire ==
    /\ window # <<>>
    /\ LET u == Head(window)
           b == program[u.pc]
       IN  \E taken \in IF b.jump THEN {TRUE} ELSE BOOLEAN,
              nuke \in IF b.jump THEN BOOLEAN ELSE {FALSE} :
              /\ tbl' = update(u.pc, u.pht_idx, taken)
              /\ bhr' = <<taken>> \o SubSeq(bhr, 1, HistBits - 1)
              /\ known' = known \cup {u.pc}
              /\ arr' = IF ~ b.jump /\ b.back /\ n_entries # 0
                        THEN loop_update(u.pc, taken, u.predict_taken) ELSE arr
              /\ window' = IF nuke \/ u.predict_taken # taken \/ (b.likely /\ ~ taken)
                           THEN <<>> ELSE Tail(window)
              /\ just' = [taken |-> taken, right |-> u.predict_taken = taken, none |-> FALSE]
              /\ streak' = [streak EXCEPT ![u.pc] = IF taken THEN Least(@ + 1, MaxLimit) ELSE 0]
    /\ UNCHANGED configVars

(* A load exception in front of the oldest branch in flight.               *)
load_nuke ==
    /\ window # <<>>
    /\ window' = <<>>
    /\ just' = Nothing
    /\ UNCHANGED <<configVars, tbl, bhr, known, arr, streak>>

Next == fetch \/ retire \/ load_nuke

(* fetch() runs in every round of the threads; its queue is emptied.       *)
Fairness == WF_vars(fetch)

Spec == Init /\ [][Next]_vars /\ Fairness
-----------------------------------------------------------------------------
(* Properties                                                              *)

(* When from some point on all branches go the same way, mispredictions    *)
(* stop, whatever the tables, the history and the branches in flight with  *)
(* their stale indices were, and whatever the loop predictor had counted   *)
(* on paths that were dropped.  (For never taken branches only without a   *)
(* loop predictor, which starts its limit at 1 and so mispredicts them     *)
(* again and again.)                                                       *)
Learns ==
    \A d \in BOOLEAN :
        (d \/ n_entries = 0) =>
            (<>[](just.none \/ just.taken = d) => <>[]just.right)

(* A training entry has counted no more iterations than its own branch has *)
(* gone round in the current run of its loop, plus the one that started    *)
(* it: never those of another branch that shares the entry, nor of an      *)
(* earlier training.                                                       *)
LimitWithinRun ==
    \A j \in DOMAIN arr :
        arr[j].state = "training" => arr[j].limit <= streak[arr[j].pc] + 1
=============================================================================
