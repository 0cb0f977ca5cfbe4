----------------------------- MODULE MCRegistry -----------------------------
EXTENDS Registry, TLC

\* Commands, workers and names are interchangeable.
Symmetry == Permutations(Commands) \cup Permutations(Workers) \cup Permutations(Names)
                \cup Permutations(Windows)

\* What later steps ask of a worker.  A process that has ended is told nothing and asks
\* for nothing; only the loop of Run and the steps before it look at stopped, only the
\* end of Run at published and dirty, only a waiting launcher at ready.
Closing == Teardown \ {"stopControl"}
WorkerView(w) ==
    <<wpc[w], window[w], lease[w], leased[w],
      Running(w) /\ published[w],
      wpc[w] \in Closing /\ published[w] /\ dirty[w],
      Running(w) /\ wpc[w] \notin Teardown /\ stopped[w],
      ready[w] /\ \E p \in Commands : cmd[p].pc = "launched" /\ cmd[p].w = w,
      IF Running(w) THEN wname[w] ELSE None>>

\* A worker that has ended and left nothing behind leaves nothing behind later, and is
\* none the worse for what was reported of it.
Unsettled == {w \in Workers : \/ Running(w) \/ rec[w] # None
                              \/ helper[w] = "marked" \/ socket[w]}

\* Runs whose properties are invariants need not tell states apart by what decides no
\* later step and no property.
SafetyView == <<files, [w \in Workers |-> WorkerView(w)], pruner, cmd,
                killed \cap Unsettled, (failed \ unclean) \cap Unsettled,
                unclean \cap Unsettled, {w \in swallowed : socket[w]}>>

\* The helper session and the history decide nothing about names, and the diagnostics
\* only what PruneBegin deletes, which cannot happen while Retain is at least the number
\* of workers.
NamesView == <<rec, link, socket, [w \in Workers |-> WorkerView(w)], pruner, cmd>>

\* All but the history, which no step and no liveness property looks at.
LiveView == <<files, workers, pruner, cmd>>
=============================================================================
