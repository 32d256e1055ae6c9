------------------------ MODULE MCIPAllocationLiveness ------------------------
\* A small instance of IPAllocationLiveness.
EXTENDS MCIPAllocationController, IPAllocationLiveness
=============================================================================
