---------------------------- MODULE MCDirectRun ----------------------------
(* Model values for DirectRun: two signals, a child that may end with 0,   *)
(* with a code of the supervisor's own, or by a signal, and samples on     *)
(* either side of the memory limit.                                        *)
EXTENDS DirectRun

Base == [target |-> "set", transport |-> "unset", timeout |-> "set",
         limit |-> "set", poll |-> "unset", report |-> "set"]

MCEnvs ==
    {Base,
     [Base EXCEPT !.timeout = "zero", !.report = "unset"],
     [Base EXCEPT !.limit = "zero", !.report = "unset"],
     [Base EXCEPT !.poll = "zero"],
     [Base EXCEPT !.limit = "bad"]}

MCReporting == {Base}

MCListeners == {"int", "term"}

MCStatuses == {[code |-> 0, signal |-> 0], [code |-> EXIT_TIMEOUT, signal |-> 0],
               [code |-> NoCode, signal |-> 2]}

MCSamples == {1, 2}

=============================================================================
