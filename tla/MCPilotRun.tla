------------------------------ MODULE MCPilotRun ------------------------------
EXTENDS PilotRun

MCPlans == {<<"auto">>, <<"manual", "batch">>}

=============================================================================
