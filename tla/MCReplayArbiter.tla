-------------------------- MODULE MCReplayArbiter --------------------------
(***************************************************************************)
(* Two ids, a cache of one entry and a window of two instants: enough for  *)
(* duplicates, overflow, eviction and a request that is overtaken by one   *)
(* carrying a later instant.                                               *)
(***************************************************************************)
EXTENDS ReplayArbiter

CONSTANTS k1, k2

MCKeys == {k1, k2}
MCFillKeys == <<k2>>
MCAsks == [op : {"consume"}, key : {k1}, now : {0, 2}]
            \cup [op : {"fill"}, now : {2}]
=============================================================================
