------------------------------- MODULE MCWal --------------------------------
(* Values for Wal.                                                         *)
EXTENDS Wal

CONSTANTS p1, p2

\* Two threads whose writes and fsyncs may fail, one of which also calls flush,
\* at a strict level; a checkpoint beside a thread that fills its groups, at the
\* default level.
MCSetups ==
  {[threads |-> {p1, p2}, checkpointers |-> {}, flushers |-> {p2}, groupLimit |-> 3,
    durability |-> "D1Strict", mayFail |-> TRUE],
   [threads |-> {p1, p2}, checkpointers |-> {p2}, flushers |-> {p2}, groupLimit |-> 2,
    durability |-> "D1", mayFail |-> FALSE]}

\* A thread that commits, and one that calls flush, at a strict level.
MCFlushed ==
  {[threads |-> {p1, p2}, checkpointers |-> {}, flushers |-> {p2}, groupLimit |-> 9,
    durability |-> "D1Strict", mayFail |-> FALSE]}
=============================================================================
