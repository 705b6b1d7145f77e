---------------------------- MODULE MCSampleLog ----------------------------
EXTENDS SampleLog

\* The first node wraps or restarts once, the second makes two samples.
MCMaxSample == [m \in Mac |-> IF m = 1 THEN SeqMod + 1 ELSE 1]
=============================================================================
