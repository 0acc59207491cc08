------------------------------ MODULE MCMedia ------------------------------
EXTENDS Media
=============================================================================
