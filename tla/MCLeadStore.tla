------------------------------ MODULE MCLeadStore ------------------------------
(* Instances of LeadStore for TLC: one business is found with contact data, *)
(* the other without.                                                       *)
EXTENDS LeadStore

MCSaved == {<<"w1", "c1">>, <<"w2", Blank>>}
=============================================================================
