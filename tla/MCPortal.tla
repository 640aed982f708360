------------------------------ MODULE MCPortal ------------------------------
EXTENDS PortalProperties
=============================================================================
