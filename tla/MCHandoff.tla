------------------------------ MODULE MCHandoff ------------------------------
EXTENDS Handoff
===============================================================================
