------------------------------ MODULE MCRunStream ------------------------------
EXTENDS RunStream

MCPlans == {<<"auto">>}

=============================================================================
