---------------------------- MODULE MCIntegrations ----------------------------
EXTENDS Integrations
CONSTANTS t1, t2, p1, p2, f1, m1, m2, x,       \* Acars
          e1, e2, n1, n2, s1, l1, g1, g2, g3,  \* TenantConfig
          a, b, u, w1, w2, c1, c2           \* NavigraphOauth

\* Both messages are for one station and have the same text.
Station(m) == t1
Text(m) == m1
Reported(text) == f1

\* Three rows make a page boundary within a millisecond and outside it, two
\* records in each store of the export one within a store and between two.
RowIds == 1..3
RecordIds == 1..2
=============================================================================
