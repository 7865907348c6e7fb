------------------------------- MODULE MCSetup -------------------------------
\* Small instances of Setup.
EXTENDS Setup
CONSTANTS heater, boiler, car1
Dashboard == <<heater>>
OldFile == <<boiler>>
=============================================================================
