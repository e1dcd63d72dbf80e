-------------------------- MODULE MCWorkerChannel --------------------------
EXTENDS WorkerChannel

MCFrames == [task |-> 1, beat |-> 1]
=============================================================================
