----------------------------- MODULE MCDatabase -----------------------------
EXTENDS Database
=============================================================================
