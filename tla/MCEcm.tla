------------------------------- MODULE MCEcm -------------------------------
EXTENDS EcmAccel
=============================================================================
