------------------------------ MODULE MCPlanWatch ------------------------------
EXTENDS MCIncidentStore, PlanWatch
=============================================================================
