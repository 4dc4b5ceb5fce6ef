----------------------------- MODULE DriversMC ------------------------------
EXTENDS Drivers
=============================================================================
