------------------------------- MODULE MCHeap -------------------------------
EXTENDS XMemoryManager
=============================================================================
