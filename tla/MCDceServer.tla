---------------------------- MODULE MCDceServer ----------------------------
\* The server on small sets of processes and handles, which are model values.
EXTENDS DceServer, TLC

\* The processes, the engines and the codecs are interchangeable.
Symmetry == Permutations(Pids) \cup Permutations(Engines) \cup Permutations(Codecs)
=============================================================================
