----------------------------- MODULE MCHAClient -----------------------------
\* Small instances of HAClient: callers and gathered requests are
\* model values.
EXTENDS HAClient

CONSTANTS cycle, setback, states, registry
=============================================================================
