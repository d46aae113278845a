-------------------------- MODULE MCActionScheduler --------------------------
(* A join with a dependency into another package, a package with a cycle    *)
(* behind a free action, and a package without actions.                     *)
EXTENDS ActionScheduler

CONSTANTS p1, p2, p3, a, b, c, d, x, y, z

MCPkgs == {p1, p2, p3}
MCActions == {a, b, c, d, x, y, z}
MCPkgOf == [i \in MCActions |-> IF i \in {a, b, c, d} THEN p1 ELSE p2]
MCDeps == [i \in MCActions |->
    CASE i = b -> {a}
      [] i = c -> {x}
      [] i = d -> {b, c}
      [] i = y -> {x, z}
      [] i = z -> {y}
      [] OTHER -> {}]
=============================================================================
