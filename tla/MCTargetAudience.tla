-------------------------- MODULE MCTargetAudience --------------------------
(***************************************************************************)
(* A small instance of TargetAudience: two calls that save up to three     *)
(* members each, one of them a user with and without a campaign, and a     *)
(* client that pages by one or by two.                                     *)
(***************************************************************************)
EXTENDS TargetAudience, TLC

CONSTANTS s1, s2, u1, u2, k1

Row(user, campaign) == [user |-> user, campaign |-> campaign]

MCResults ==
  {{}, {Row(u1, k1), Row(u1, None)},
   {Row(u1, k1), Row(u1, None), Row(u2, k1)}}

Symmetry == Permutations(Savers)
=============================================================================
