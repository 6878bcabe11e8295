---------------------------- MODULE MCStructuring ----------------------------
EXTENDS Structuring

CONSTANTS m1, m2, default

MCMarkers == {m1, m2}
Said(p1, p2) == [m \in MCMarkers |-> IF m = m1 THEN p1 ELSE p2]
Prompt(p, answered, policy) ==
  [period |-> p, answered |-> answered, served |-> TRUE, policy |-> policy,
   recoverable |-> FALSE]

\* One prompt in which nothing is missing.
PlainPrompts == {Prompt(Said("none", "none"), FALSE, FALSE)}
=============================================================================
