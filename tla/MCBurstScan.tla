------------------------------ MODULE MCBurstScan ------------------------------
EXTENDS BurstScan

MCInEndpoints == <<"status", "stream">>

MCStreamOnly == <<"stream">>
==============================================================================
