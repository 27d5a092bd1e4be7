------------------------------ MODULE MCVault ------------------------------
EXTENDS Vault
===========================================================================
