------------------------------ MODULE SimQueue ------------------------------
(***************************************************************************)
(* sim_queue.hh: the ring under fetch_queue, decode_queue and rob.  Both   *)
(* indices run over twice the length, so that a full ring and an empty one *)
(* differ, and are reduced with masks, which is right for powers of two.   *)
(* resize() takes any length: for an odd multiple of 2^k the masks make a  *)
(* ring of 2^k slots.  Granule(n) is that power of two; it is not in the   *)
(* code, and GranuleAssumption says all that is used of it and of `&'.     *)
(***************************************************************************)
EXTENDS Naturals, Sequences

CONSTANTS
    Sizes,         \* lengths that initialize() may give to resize()
    Values,        \* operations (their pointers)
    nullptr,
    Band(_, _),    \* `&'
    Granule(_)     \* the largest power of two that divides a length

ASSUME SizesAssumption == Sizes \subseteq Nat \ {0}
ASSUME NullAssumption == nullptr \notin Values
ASSUME GranuleAssumption ==
    \A n \in Sizes :
        /\ Granule(n) \in 1 .. n
        /\ \A i \in 0 .. 2 * Granule(n) - 1 : Band(i, n - 1) = i % Granule(n)
        /\ \A i \in 1 .. 2 * Granule(n) : Band(i, 2 * n - 1) = i % (2 * Granule(n))

VARIABLES
    len,
    data,
    read_idx, write_idx,
    rob_idx        \* [Values -> Int]: mips_meta_op::rob_idx, -1 when not in the ring

vars == <<len, data, read_idx, write_idx, rob_idx>>

Slot(i) == Band(i, len - 1)
\* mutant of Succ: the mask of one length
SuccHalf(i) == Band(i + 1, len - 1)
\* mutant of Succ: the index is not wrapped
SuccUnmasked(i) == i + 1
Succ(i) == Band(i + 1, 2 * len - 1)
Unused == 0 - 1

empty == read_idx = write_idx
\* mutant of full: a slot too early
FullLess == Slot(read_idx) = Slot(Succ(write_idx))
\* mutant of full: never
FullNever == FALSE
full == Slot(read_idx) = Slot(write_idx) /\ read_idx # write_idx
peek == data[Slot(read_idx)]
peek_next_pop == data[Slot(Succ(read_idx))]

(* resize(), once, before the threads start.                               *)
Init ==
    /\ len \in Sizes
    /\ data = [i \in 0 .. len - 1 |-> nullptr]
    /\ read_idx = 0 /\ write_idx = 0
    /\ rob_idx = [v \in Values |-> Unused]

(* push() of an operation that is in no slot; it returns the slot, which   *)
(* allocate() keeps in rob_idx.                                            *)
push(v) ==
    /\ ~full
    /\ rob_idx[v] = Unused
    /\ data' = [data EXCEPT ![Slot(write_idx)] = v]
    /\ write_idx' = Succ(write_idx)
    /\ rob_idx' = [rob_idx EXCEPT ![v] = Slot(write_idx)]
    /\ UNCHANGED <<len, read_idx>>

\* mutant of pop: the slot is not emptied
popKeep ==
    /\ ~empty
    /\ read_idx' = Succ(read_idx)
    /\ rob_idx' = [rob_idx EXCEPT ![peek] = Unused]
    /\ UNCHANGED <<len, data, write_idx>>

(* pop(); the operation is deleted, or handed to the next stage.           *)
pop ==
    /\ ~empty
    /\ data' = [data EXCEPT ![Slot(read_idx)] = nullptr]
    /\ read_idx' = Succ(read_idx)
    /\ rob_idx' = [rob_idx EXCEPT ![peek] = Unused]
    /\ UNCHANGED <<len, write_idx>>

(* The recovery: retire() deletes what at(i) finds in every slot, and      *)
(* clears.                                                                 *)
clear ==
    /\ data' = [i \in 0 .. len - 1 |-> nullptr]
    /\ read_idx' = 0 /\ write_idx' = 0
    /\ rob_idx' = [v \in Values |-> IF \E i \in 0 .. len - 1 : data[i] = v
                                    THEN Unused ELSE rob_idx[v]]
    /\ UNCHANGED len

Next ==
    \/ \E v \in Values : push(v)
    \/ pop
    \/ clear

Spec == Init /\ [][Next]_vars
-----------------------------------------------------------------------------
(* The ring as a sequence, oldest first.                                   *)
Ring == 2 * Granule(len)
Count == (write_idx + Ring - read_idx) % Ring
Elements == [j \in 1 .. Count |-> data[(read_idx + j - 1) % Granule(len)]]

(* The indices and slots stay in range (sim_queue.hh:16).                  *)
TypeOK ==
    /\ len \in Sizes
    /\ data \in [0 .. len - 1 -> Values \cup {nullptr}]
    /\ read_idx \in 0 .. Ring - 1
    /\ write_idx \in 0 .. Ring - 1
    /\ rob_idx \in [Values -> (0 .. len - 1) \cup {Unused}]

(* full() says so when Granule(len) operations are held and no earlier or  *)
(* later, empty() when there are none: of a length that is no power of     *)
(* two, as uarch_scale makes it (main.cc:173), only that many slots serve. *)
FullAtGranule ==
    /\ full <=> Count = Granule(len)
    /\ empty <=> Count = 0

(* The slots that are not null are those between the indices: the recovery *)
(* that deletes at(i) for every slot (ooo_core.cc:556, 615) deletes the    *)
(* operations of the ring and nothing that has left it.                    *)
SlotsExact ==
    {i \in 0 .. len - 1 : data[i] # nullptr}
        = {(read_idx + j - 1) % Granule(len) : j \in 1 .. Count}

(* An operation stays where push() put it while younger and older ones     *)
(* come and go, and is in no other: rob.at(rob_idx) is that operation as   *)
(* long as it is in the ring (mips_op.cc:46).                              *)
RobIdxHeld ==
    /\ \A v \in Values : rob_idx[v] # Unused => data[rob_idx[v]] = v
    /\ \A i \in 0 .. len - 1 : data[i] # nullptr => rob_idx[data[i]] = i

(* peek_next_pop() is the second oldest operation, and null while it has   *)
(* not come, which retire() waits for (ooo_core.cc:329); with one usable   *)
(* slot it is the oldest, which then is taken for its own delay slot.      *)
PeekNext ==
    peek_next_pop = IF Granule(len) = 1 THEN peek
                    ELSE IF Count > 1 THEN Elements[2] ELSE nullptr

(* The ring is a bounded first-in first-out sequence (sim_queue.hh:20).    *)
Bounded == INSTANCE Fifo WITH q <- Elements, cap <- Granule(len)
ImplementsFifo == Bounded!Spec
=============================================================================
