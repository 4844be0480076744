----------------------------- MODULE MCScheduler -----------------------------
\* Four words of list memory, so that three processes wrap its indices.
EXTENDS SchedulerClient
MCPids == 1 .. 3
=============================================================================
