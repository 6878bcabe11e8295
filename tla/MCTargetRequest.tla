--------------------------- MODULE MCTargetRequest ---------------------------
EXTENDS TargetRequest

CONSTANTS m1, m2, default, benefit, urgency, t1, t2, noText

MCMarkers == {m1, m2}
MCVariants == <<benefit, urgency>>

Said(p1, p2) == [m \in MCMarkers |-> IF m = m1 THEN p1 ELSE p2]
Prompt(p, answered, policy) ==
  [period |-> p, answered |-> answered, served |-> TRUE, policy |-> policy,
   recoverable |-> FALSE]

MCPrompts ==
  {Prompt(Said("unstated", "rolling"), FALSE, TRUE),
   Prompt(Said("interval", "inexpressible"), FALSE, TRUE),
   [Prompt(Said("rolling", "none"), TRUE, FALSE) EXCEPT !.recoverable = TRUE],
   [Prompt(Said("inexpressible", "none"), TRUE, TRUE) EXCEPT !.served = FALSE],
   [Prompt(Said("rolling", "none"), FALSE, TRUE) EXCEPT !.served = FALSE, !.recoverable = TRUE]}

Everything == [ready |-> TRUE, execute |-> TRUE, persist |-> TRUE, local |-> TRUE,
               generate |-> TRUE, channel |-> TRUE, recommend |-> TRUE, campaign |-> TRUE]

MCRequests ==
  {Everything, [Everything EXCEPT !.campaign = FALSE],
   [Everything EXCEPT !.local = FALSE, !.recommend = FALSE],
   [Everything EXCEPT !.execute = FALSE, !.generate = FALSE],
   [Everything EXCEPT !.ready = FALSE]}

MCFailings == {{}, {"unresolved_source"}, {"coverage", "verifier"}}
=============================================================================
