------------------------------- MODULE MCProfiles -------------------------------
(* A small instance of the profiles: every reason for a review occurs, alone or *)
(* with another; drafts and requests are interchangeable.                       *)
EXTENDS Profiles, TLC

Business(industry, role, country) ==
    [industry |-> industry, role |-> role, country |-> country]
MCContents == {Business("AGRICULTURE", "PRODUCER", "KE"), Business("HEALTH", "PRODUCER", "KE"),
               Business("AGRICULTURE", "FINANCIER", "UG")}
Symmetry == Permutations(Drafts) \cup Permutations(Calls)
=============================================================================
