------------------------------ MODULE MCNetIo ------------------------------
EXTENDS NetIo
=============================================================================
