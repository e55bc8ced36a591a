-------------------------- MODULE MCBrokerRegistry --------------------------
EXTENDS BrokerRegistry

CONSTANTS b1, b2, b3

MCUris == {b1, b2, b3}

\* Three reports under "sensor" weights: 0.6*0.9 + 0.2*1 + 0.2*0.9 = 0.92,
\* 0.6*0.5 + 0.2*0.5 + 0.2*0.5 = 0.5, and one past every baseline whose
\* components clamp to 0 (so two brokers can tie at 0 while available).
MCMetrics == {<<10, 2000000, 10>>, <<50, 500000, 50>>, <<150, 0, 120>>}
=============================================================================
