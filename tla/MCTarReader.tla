---------------------------- MODULE MCTarReader -----------------------------
(***************************************************************************)
(* Archives of up to two entries around the boundaries of the format: a    *)
(* path that just fits the name field and one that does not, sizes that    *)
(* leave no padding and sizes that do.                                     *)
(***************************************************************************)
EXTENDS TarReader

Short == 100
Long == 511  \* with its terminator exactly a block

MCItem ==
  {[name |-> Short, dir |-> FALSE, size |-> s, legal |-> TRUE] : s \in {0, 512, 700}}
    \cup {[name |-> Long, dir |-> FALSE, size |-> 700, legal |-> TRUE],
          [name |-> Short, dir |-> TRUE, size |-> 0, legal |-> TRUE],
          [name |-> Long, dir |-> FALSE, size |-> 1, legal |-> FALSE],
          [name |-> Short, dir |-> FALSE, size |-> 1, legal |-> FALSE]}

MCRangePoints == {0, 511, 1212}
MCBufSizes == {600, 4096}
=============================================================================
