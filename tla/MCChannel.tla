----------------------------- MODULE MCChannel -----------------------------
(* Channel with the constants of MCChannel.cfg and MCChannelClose.cfg. *)
EXTENDS Channel

UnderWay(tag, c) ==
    \/ \E i \in DOMAIN inbox[c] : inbox[c][i].tag = tag
    \/ \E i \in DOMAIN down[c] : down[c][i].tag = tag
    \/ \E i \in DOMAIN client[c].frames : client[c].frames[i] = tag

\* A connection that closed by itself with frames undecrypted, which may still stop the page.
Stale(c) == c # page.conn /\ inbox[c] # <<>> /\ ~peer[c].superseded

\* The causes that a later stop may need: those of frames that are still there.
Needed ==
    {cause \in causes :
        CASE cause = "left"        -> \E c \in Conns : Stale(c)
          [] cause = "unavailable" -> live /\ \E c \in Conns : UnderWay("error_stop", c)
          [] OTHER                 -> TRUE}

\* The history counts only as far as StopIsExplained depends on it: a page stops once, and
\* its reason stays explained if it was.
View == <<pageVars, sockVars, wireVars, workerVars, current, live, bounds,
          IF page.stopped THEN {} ELSE Needed, StopIsExplained>>
=============================================================================
