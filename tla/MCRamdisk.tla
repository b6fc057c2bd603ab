------------------------------ MODULE MCRamdisk ------------------------------
EXTENDS Ramdisk

CONSTANT disk0

MCDisks == {disk0}
MCBytes == {0, 255}
=============================================================================
