-------------------------- MODULE MCServerRegistry --------------------------
EXTENDS ServerRegistry

CONSTANTS s1, s2

\* The session between the two servers, in which a change of either matters.
ThePair == {<<s1, s2>>}
=============================================================================
