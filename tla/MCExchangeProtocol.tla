------------------------- MODULE MCExchangeProtocol -------------------------
EXTENDS ExchangeProtocol

CONSTANTS p1, p2

\* p2 is over the limit by itself, so that a response holds one page even when
\* that page is too large, and two small pages fit.
MCPageSize == [p \in Page |-> IF p = p1 THEN 1 ELSE 3]
=============================================================================
