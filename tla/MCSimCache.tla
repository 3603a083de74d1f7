----------------------------- MODULE MCSimCache -----------------------------
(* Levels of two kinds: the ones main() builds, small, with the line of l2 *)
(* longer than that of l1; and each other class above such a level.        *)
EXTENDS SimCache

Level(kind, assoc, sets, line, latency) ==
    [kind |-> kind, assoc |-> assoc, sets |-> sets, line |-> line, latency |-> latency]
MCConfigs ==
    {<<Level("setAssoc", 2, 2, 1, 1), Level("setAssoc", 2, 1, 2, 2)>>,
     <<Level("setAssoc", 4, 1, 1, 1)>>,
     <<Level("fullAssoc", 2, 1, 1, 1)>>,
     <<Level("directMapped", 1, 2, 1, 1)>>,
     <<Level("highAssoc", 4, 1, 1, 1)>>,
     <<Level("highAssoc", 2, 1, 1, 1), Level("setAssoc", 2, 1, 1, 2)>>,
     <<Level("lowAssoc", 4, 1, 1, 1)>>,
     <<Level("realLRU", 2, 2, 1, 1), Level("setAssoc", 2, 1, 1, 2)>>,
     <<Level("fullRandAssoc", 2, 1, 1, 1)>>}
DirectConfigs ==
    {<<Level("setAssoc", 1, 2, 1, 1), Level("setAssoc", 2, 1, 1, 2)>>}
=============================================================================
