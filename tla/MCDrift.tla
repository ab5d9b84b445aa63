------------------------------ MODULE MCDrift ------------------------------
EXTENDS Drift, TLC

CONSTANT kA \* the key a caller gives to its window
============================================================================
