------------------------------ MODULE NodeTests ------------------------------
(***************************************************************************)
(* Latency tests of the listed nodes (node_test.rs): a single test, or a   *)
(* group's tests one after the other over one channel.  What a test finds  *)
(* is shown and logged and decides nothing, so it is left out, and with it *)
(* the periodic test of all nodes, which has a channel of its own.         *)
(***************************************************************************)
EXTENDS NodeBook

CONSTANT MaxWaiting     \* bound: tests waiting

ASSUME TestsAssumption == MaxWaiting \in Nat

VARIABLES
    test,       \* node_test_receiver and node_testing_addr: the address being tested, or None
    waiting     \* pending_node_tests

testVars == <<test, waiting>>

TestsInit == test = None /\ waiting = <<>>

\* start_node_test: refused while a test runs, and when trust root or key cannot be resolved.
Started(a) == IF test = None THEN {a, None} ELSE {test}

StartTest ==
    /\ test = None
    /\ \E a \in book.addrs : test' \in Started(a)
    /\ UNCHANGED waiting

\* start_group_test: the first member is tested, the others wait behind those a lost test has left.
GroupTest ==
    /\ test = None /\ book.addrs # {}
    /\ LET group == SetToSeq(book.addrs) IN
         /\ waiting' = waiting \o Tail(group)
         /\ Len(waiting') <= MaxWaiting
         /\ test' \in Started(Head(group))

\* poll_node_test_results: the next member is taken, and may be refused like any other.
TestFinished ==
    /\ test # None
    /\ IF waiting = <<>> THEN test' = None /\ UNCHANGED waiting
                         ELSE test' \in {Head(waiting), None} /\ waiting' = Tail(waiting)

\* The thread is gone: reset, and no member is taken.
TestLost == test # None /\ test' = None /\ UNCHANGED waiting

TestsNext == StartTest \/ GroupTest \/ TestFinished \/ TestLost
=============================================================================
