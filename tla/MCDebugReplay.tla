---------------------------- MODULE MCDebugReplay ----------------------------
EXTENDS DebugReplay

=============================================================================
