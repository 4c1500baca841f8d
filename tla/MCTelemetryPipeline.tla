-------------------------- MODULE MCTelemetryPipeline --------------------------
EXTENDS TelemetryPipeline

Symmetric == Permutations(Workers)
=============================================================================
