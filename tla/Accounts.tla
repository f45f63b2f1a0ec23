------------------------------ MODULE Accounts ------------------------------
\* The upstream accounts, by identifier (config.Account.Identifier): the modules
\* that describe a part of the account pool each EXTEND this one.
EXTENDS Naturals

CONSTANT Account
=============================================================================
