------------------------------ MODULE MCIngestion ------------------------------
\* Model-checking instances of Ingestion.
EXTENDS Ingestion, TLC
=============================================================================
