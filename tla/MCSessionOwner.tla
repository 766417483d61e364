--------------------------- MODULE MCSessionOwner ---------------------------
EXTENDS SessionOwner
MCSaved == [boot |-> {1}, other |-> {2}]
=============================================================================
