------------------------------ MODULE Desktop ------------------------------
(***************************************************************************)
(* The desktop client's UI thread: the session it controls, the list of    *)
(* nodes with its subscriptions, and the tests of the nodes.  One frame    *)
(* serves all three, but they share no field that one reads after another  *)
(* wrote it, except the list the tests take their addresses from.  What a  *)
(* behaviour looks at is therefore chosen at the start: the session, the   *)
(* list with its subscriptions, or the tests while nodes come and go.      *)
(***************************************************************************)
EXTENDS ProxyControl, NodeTests

VARIABLE focus

vars == <<controlVars, bookVars, testVars, focus>>

Init ==
    /\ ControlInit /\ BookInit /\ TestsInit
    /\ focus \in {"session", "book", "tests"}
    /\ focus # "session" => os = "linux" /\ ~disk

\* A step of the session: its thread, the frame, the user, the end of the process.
Session ==
    /\ focus = "session"
    /\ ControlNext
    /\ UNCHANGED <<bookVars, testVars, focus>>

\* A frame's change of the book.
Books ==
    /\ focus = "book"
    /\ BookNext
    /\ UNCHANGED <<controlVars, testVars, focus>>

\* Nodes come and go while tests run.
NodesChange ==
    /\ focus = "tests"
    /\ ImportByHand \/ DeleteNode
    /\ UNCHANGED <<controlVars, testVars, focus>>

\* The tests' own steps.
Tests ==
    /\ focus = "tests"
    /\ TestsNext
    /\ UNCHANGED <<controlVars, bookVars, focus>>

Next == Session \/ Books \/ NodesChange \/ Tests

InSession(step) == focus = "session" /\ step /\ UNCHANGED <<bookVars, testVars, focus>>

\* One step after the other: what the UI thread does in a frame, and the proxy thread's awaits.
UiThread == Poll \/ Reap \/ TrayDone \/ Exits \/ Check \/ FrameEnds \/ ExitWaited
ProxyThread == Boots \/ SeesStop \/ StopWaited \/ DropsRuntime \/ SignalsExit

\* eframe repaints at least every 500 ms; the thread's awaits and its 60 s and 5 s limits end.
SessionFairness ==
    /\ WF_vars(InSession(UiThread)) /\ WF_vars(InSession(ProxyThread)) /\ WF_vars(InSession(WatcherReports))

\* A fetch is limited to 10 s, a test to 10 s, and update polls every 500 ms.
BackgroundStep ==
    \/ focus = "book" /\ PollUpdates /\ UNCHANGED <<controlVars, testVars, focus>>
    \/ focus = "tests" /\ (TestFinished \/ TestLost) /\ UNCHANGED <<controlVars, bookVars, focus>>
BackgroundFairness == WF_vars(BackgroundStep)

Spec == Init /\ [][Next]_vars /\ SessionFairness /\ BackgroundFairness

-----------------------------------------------------------------------------
\* The book stays consistent whatever dialogs and late results do to it: names tell subscriptions
\* apart; an address listed by hand stays listed and unclaimed until the user removes it; two
\* subscriptions never claim the same address and claim only listed ones, and only listed nodes have
\* a name or certificate.  Excused: claims left behind by deleting a claimed node, and entries saved
\* from a dialog whose node was gone.
BookSound ==
    /\ \A i, j \in DOMAIN book.subs : i # j => /\ book.subs[i].name # book.subs[j].name
                                              /\ book.subs[i].nodes \cap book.subs[j].nodes \subseteq ghosts
    /\ hand \subseteq book.addrs \ Owned(book.subs)
    /\ Owned(book.subs) \ book.addrs \subseteq ghosts
    /\ book.entries \ book.addrs \subseteq late

\* Every update and test ends: queued updates are worked off, and the next one can be
\* started whatever the background thread did (poll_subscription_updates,
\* poll_node_test_results).
BackgroundEnds ==
    /\ (fetch # None) ~> (fetch = None /\ queue = <<>>)
    /\ (test # None) ~> (test = None)
=============================================================================
