----------------------------- MODULE LruLevels ------------------------------
(***************************************************************************)
(* What a hierarchy of set-associative caches promises: in each level, a   *)
(* set holds the last `assoc' lines that reached it, most recent first; an *)
(* access descends until it hits and costs the latency of every level it   *)
(* reached, and that of memory when none had the line.                     *)
(***************************************************************************)
EXTENDS Naturals, Sequences, SequencesExt, FiniteSetsExt

CONSTANTS Addrs, MemLatency

VARIABLES
    cfg,           \* [assoc, sets, line, latency] of each level, first l1d
    lru,           \* [level -> [set -> tags, most recent first]]
    lat            \* what the last access cost

vars == <<cfg, lru, lat>>

Levels == DOMAIN cfg
SetOf(k, a) == (a \div cfg[k].line) % cfg[k].sets
TagOf(k, a) == a \div (cfg[k].line * cfg[k].sets)
Holds(k, a) == Contains(lru[k][SetOf(k, a)], TagOf(k, a))
Reached(k, a) == \A j \in 1 .. k - 1 : ~Holds(j, a)
Touch(k, s, t) ==
    LET others == RemoveFirst(s, t)
    IN  SubSeq(<<t>> \o others, 1, Min({Len(others) + 1, cfg[k].assoc}))

Init ==
    /\ lru = [k \in Levels |-> [s \in 0 .. cfg[k].sets - 1 |-> <<>>]]
    /\ lat = 0

Access(a) ==
    /\ lru' = [k \in Levels |->
                  IF Reached(k, a)
                  THEN [lru[k] EXCEPT ![SetOf(k, a)] = Touch(k, @, TagOf(k, a))]
                  ELSE lru[k]]
    /\ lat' = SumFunction([k \in {j \in Levels : Reached(j, a)} |-> cfg[k].latency])
              + IF \E k \in Levels : Holds(k, a) THEN 0 ELSE MemLatency
    /\ UNCHANGED cfg

Flush ==
    /\ lru' = [k \in Levels |-> [s \in 0 .. cfg[k].sets - 1 |-> <<>>]]
    /\ UNCHANGED <<cfg, lat>>

FlushLine(a) ==
    /\ lru' = [k \in Levels |-> [lru[k] EXCEPT ![SetOf(k, a)] = RemoveFirst(@, TagOf(k, a))]]
    /\ UNCHANGED <<cfg, lat>>

Next ==
    \/ \E a \in Addrs : Access(a) \/ FlushLine(a)
    \/ Flush
=============================================================================
