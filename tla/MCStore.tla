------------------------------- MODULE MCStore -------------------------------
(***************************************************************************)
(* Store for TLC: memtables of one update, so that every second write      *)
(* makes a new log, a flush and, after two of them, a compaction.          *)
(***************************************************************************)
EXTENDS Store

Options(reuse, torn, machine, writes, stops, failures, iterators) ==
  [reuseLogs |-> reuse, tornOnStop |-> torn, tornOnError |-> FALSE, machine |-> machine,
   writes |-> writes, stops |-> stops, failures |-> failures, iterators |-> iterators]

\* a log and a MANIFEST that go on over two opens, without and with a failure;
\* a failure at any point, before and without an open; an iterator over
\* compactions; a flush within a compaction; the machine or the process
\* stopping, at any point, once or twice
SafeOptions == {Options(TRUE, FALSE, FALSE, 3, 2, 0, 0), Options(TRUE, FALSE, FALSE, 2, 2, 1, 0),
                Options(FALSE, TRUE, FALSE, 2, 1, 1, 0), Options(FALSE, TRUE, FALSE, 3, 0, 1, 0),
                Options(FALSE, TRUE, FALSE, 3, 0, 0, 1), Options(FALSE, FALSE, FALSE, 4, 0, 0, 0),
                Options(FALSE, TRUE, TRUE, 3, 1, 0, 0), Options(FALSE, TRUE, TRUE, 2, 2, 0, 0)}
=============================================================================
