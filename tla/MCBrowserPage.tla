---------------------------- MODULE MCBrowserPage ----------------------------
EXTENDS BrowserPage

CONSTANTS a, b, p, q

InOrder == [d \in Devices |-> IF d = a THEN 1 ELSE 2]

\* The same password on every device.
TheSame == {[d \in Devices |-> p]}
=============================================================================
