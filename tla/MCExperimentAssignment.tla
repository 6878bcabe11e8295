----------------------- MODULE MCExperimentAssignment -----------------------
(***************************************************************************)
(* Small instance: one experiment name, three requests, two users with a   *)
(* row in users and one without.  The bodies cover both endpoints and      *)
(* create, overlapping user sets, an empty target, and an experiment name  *)
(* reused with another channel or with other variant codes.                *)
(***************************************************************************)
EXTENDS ExperimentAssignment

CONSTANTS r1, r2, r3, u1, u2, ghost, a, b, c, d

Body(kind, channel, codes, users) ==
  [kind |-> kind, channel |-> channel, codes |-> codes, users |-> users]

ABC == {a, b, c}

MCInputs ==
  {Body("run", "lms", ABC, users) : users \in {{u1, u2}, {}}}
  \cup {Body("run", "rcs", ABC, {u1}), Body("run", "lms", {a, b, d}, {u1}),
        Body("create", "lms", ABC, {})}
  \cup {Body("assign", "lms", {a}, users) : users \in {{u1, u2}, {u2, ghost}}}
=============================================================================
