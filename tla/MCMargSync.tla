---------------------------- MODULE MCMargSync ------------------------------
(* Small instances of MargSync for TLC. *)
EXTENDS MargSync, TLC

CONSTANTS s1, s2, b1

\* One batch and one bill are there before the first run.
MCFeed == (s1 :> 1) @@ (s2 :> 0) @@ (b1 :> 2)

\* A full run, an accounting run, a backfill of a window, and a reprojection.
MCRequests == {[scope |-> "FULL", window |-> "open", mode |-> "FETCH"],
               [scope |-> "ACCOUNTING", window |-> "open", mode |-> "FETCH"],
               [scope |-> "FULL", window |-> "bounded", mode |-> "FETCH"],
               [scope |-> "FULL", window |-> "open", mode |-> "REPROJECT"]}

\* Full runs and bounded backfills.
MCBackfills == {[scope |-> "FULL", window |-> "open", mode |-> "FETCH"],
                [scope |-> "FULL", window |-> "bounded", mode |-> "FETCH"]}
=============================================================================
