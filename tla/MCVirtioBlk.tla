----------------------------- MODULE MCVirtioBlk ----------------------------
EXTENDS VirtioBlk

MCSectors == 1..2
MCData == 1..2
=============================================================================
