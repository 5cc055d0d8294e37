---------------------------- MODULE MCEventLoop ----------------------------
EXTENDS EventLoop

\* With LongMax = 7 and NsPerMs = 2, a step of 4 ms wraps to half the range, and
\* 8, which like Infinity is no long, is clamped to 7 ms, a step of -1 ms.
MCDelays == {-1, 0, 1, 2, 4, 8}
=============================================================================
