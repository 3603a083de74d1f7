---------------------------- MODULE MCGThreads -----------------------------
(***************************************************************************)
(* The threads of run_ooo_core() with short latencies.  A delay slot takes *)
(* at most Len(Stages) * 2 cycles, so that BranchLag + 10 <= 2 * MemLatency *)
(* as with the default parameters.                                         *)
(***************************************************************************)
EXTENDS GThreads

MCThreads == <<"retire", "complete", "execute", "allocate", "decode", "fetch", "cache",
               "cycle_count">>
MCStageDelays == {0, 2}
=============================================================================
