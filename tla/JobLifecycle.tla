----------------------------- MODULE JobLifecycle -----------------------------
(***************************************************************************)
(* What the job table promises about one update, an RFD at a commit: it is *)
(* queued at most once, then it is begun, then it is done, and none of     *)
(* these is ever taken back.                                               *)
(***************************************************************************)
CONSTANT Update        \* the updates: pairs of a commit and an RFD

VARIABLES queued, begun, done

Init == queued = {} /\ begun = {} /\ done = {}

Queue(u) ==
    /\ u \notin queued
    /\ queued' = queued \cup {u}
    /\ UNCHANGED <<begun, done>>

Begin(u) ==
    /\ u \in queued \ begun
    /\ begun' = begun \cup {u}
    /\ UNCHANGED <<queued, done>>

Finish(u) ==
    /\ u \in begun \ done
    /\ done' = done \cup {u}
    /\ UNCHANGED <<queued, begun>>

Next ==
    \/ \E u \in Update : Queue(u)
    \/ \E u \in queued : Begin(u)
    \/ \E u \in begun : Finish(u)

progress == <<queued, begun, done>>

Spec == Init /\ [][Next]_progress

\* With a processor that stays up, what is queued is begun and what is begun
\* is done.  Nothing obliges anybody to queue an update.
FairSpec ==
    /\ Spec
    /\ \A u \in Update : WF_progress(Begin(u)) /\ WF_progress(Finish(u))

=============================================================================
