---------------------------- MODULE MCFlightPage ------------------------------
EXTENDS FlightPage, TLC
CONSTANTS b1, x, y, n, o1, o2
=============================================================================
