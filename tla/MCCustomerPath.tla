--------------------------- MODULE MCCustomerPath ---------------------------
EXTENDS CustomerPath
=============================================================================
