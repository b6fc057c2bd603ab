------------------------------- MODULE MCClist -------------------------------
EXTENDS Clist

CONSTANTS a, b, c, d

MCNodes == {a, b, c, d}
=============================================================================
