----------------------------- MODULE MCCampaigns -----------------------------
(* Small instances of Campaigns: two campaigns and two editors.            *)
EXTENDS Campaigns, TLC

CONSTANTS c1, c2, ada, bob, e1, e2

MCCampaign == {c1, c2}
MCCandidate == {ada, bob}
MCEditor == {e1, e2}
OneOrTwo == {Unlimited, 1, 2}
Symmetry == Permutations(MCCandidate) \cup Permutations(MCEditor) \cup Permutations(MCCampaign)
==============================================================================
