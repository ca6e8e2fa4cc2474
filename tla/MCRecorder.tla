------------------------------ MODULE MCRecorder ------------------------------
EXTENDS Recorder, TLC

\* Places are interchangeable: only whether two are the same is ever asked.
Symmetry == Permutations(Urls)
===============================================================================
