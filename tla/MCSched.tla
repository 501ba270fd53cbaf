------------------------------ MODULE MCSched ------------------------------
EXTENDS Sched
AskFifo == {<<SCHED_FIFO, 1>>}
AskNone == {}
=============================================================================
