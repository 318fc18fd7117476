------------------------------- MODULE MCTlsf -------------------------------
EXTENDS Tlsf, TLC
Symmetry == Permutations(Buffers)
=============================================================================
