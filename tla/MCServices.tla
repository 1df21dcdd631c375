----------------------------- MODULE MCServices -----------------------------
EXTENDS Services, TLC

\* The two threads of a service are interchangeable (every service is given
\* the same two).
ThreadSymmetry == Permutations(GeoThreads)
=============================================================================
