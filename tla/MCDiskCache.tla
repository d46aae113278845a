---------------------------- MODULE MCDiskCache ----------------------------
(* One action with two outputs, and what may happen to them.               *)
EXTENDS DiskCache, TLC

CONSTANTS i1, v1, v2

MCProduces == i1 :> {v1, v2}

\* Everything goes wrong at once; processes only die; time passes.
MCWorlds == {{"io", "crash", "trim", "damage"}, {"crash"}, {"time", "trim"}, {"time", "trim", "slow"}}

\* Processes are interchangeable.
MCSymmetry == Permutations(Procs)
=============================================================================
