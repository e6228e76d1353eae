---------------------------- MODULE MCCheckpoint ----------------------------
EXTENDS Checkpoint

MCSchedules ==
    {[interval |-> 1, last |-> 4, first |-> FALSE],
     [interval |-> 2, last |-> 4, first |-> TRUE]}
=============================================================================
