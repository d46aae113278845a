---------------------------- MODULE MCWorkerRun ----------------------------
(* Model values for WorkerRun.                                             *)
EXTENDS WorkerRun

Base == [target |-> "set", transport |-> "worker", timeout |-> "set",
         limit |-> "unset", poll |-> "unset", report |-> "unset"]

MCQuiet    == {[Base EXCEPT !.timeout = "unset"]}
MCEnvs     == MCQuiet \cup {Base, [Base EXCEPT !.timeout = "unset", !.limit = "set"]}

MCStatuses == {[code |-> 1, signal |-> 0], [code |-> NoCode, signal |-> 11]}

\* Bounds: a supervisor with a timeout or a memory limit receives no signal,
\* one with a memory limit no foreign connection, and one whose command ends
\* with a code above 255 meets nothing else.
MCOneCause ==
    /\ HasTimeout \/ HasLimit => cause' \in {"none", "rss", cause}
    /\ HasLimit => dialled' \cap Decoys = {}
    /\ wcode' > 255 \/ (\E i \in DOMAIN terminal' : terminal'[i].code > 255) =>
          ~HasTimeout /\ ~HasLimit /\ cause' = "none" /\ dialled' \cap Decoys = {}

=============================================================================
