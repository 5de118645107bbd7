------------------------------- MODULE TaskQueue -------------------------------
(***************************************************************************)
(* What the worker pool of transport/tcp_highperf.go promises to           *)
(* handleConn, without workers: accepted tasks wait in a bounded line, are *)
(* begun from its head, each by one worker, and run once. Nothing leaves   *)
(* the line unrun, and Submit refuses only after the pool was stopped.     *)
(* The name of a task that has run may be given to a new one.              *)
(***************************************************************************)
EXTENDS Naturals, Sequences

CONSTANTS Tasks, Capacity

VARIABLES
    accepted,  \* tasks whose Submit returned true
    refused,   \* tasks whose Submit returned false
    line,      \* accepted, not begun
    running,
    stopped    \* the pool's context is cancelled

taskVars == <<accepted, refused, line, running, stopped>>

Init ==
    /\ accepted = {} /\ refused = {}
    /\ line = <<>> /\ running = {}
    /\ stopped = FALSE

Accept(t) ==
    /\ t \notin accepted \cup refused
    /\ Len(line) < Capacity
    /\ accepted' = accepted \cup {t}
    /\ line' = Append(line, t)
    /\ UNCHANGED <<refused, running, stopped>>

Refuse(t) ==
    /\ t \notin accepted \cup refused
    /\ stopped
    /\ refused' = refused \cup {t}
    /\ UNCHANGED <<accepted, line, running, stopped>>

Begin ==
    /\ line # <<>>
    /\ running' = running \cup {Head(line)}
    /\ line' = Tail(line)
    /\ UNCHANGED <<accepted, refused, stopped>>

End(t) ==
    /\ t \in running
    /\ running' = running \ {t}
    /\ accepted' = accepted \ {t}
    /\ UNCHANGED <<refused, line, stopped>>

Cancel ==
    /\ ~stopped /\ stopped' = TRUE
    /\ UNCHANGED <<accepted, refused, line, running>>

Next ==
    \/ \E t \in Tasks : Accept(t) \/ Refuse(t) \/ End(t)
    \/ Begin \/ Cancel

Spec == Init /\ [][Next]_taskVars
================================================================================
