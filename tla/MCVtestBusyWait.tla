--------------------------- MODULE MCVtestBusyWait ---------------------------
EXTENDS VtestBusyWait

CONSTANTS c1, c2

MCClients == {c1, c2}
====
