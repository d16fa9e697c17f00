-------------------------- MODULE MCModelCallbacks --------------------------
EXTENDS ModelCallbacks

\* The graph as far as its models go.
MCPath == <<"security_guardrail", "nr10_agent", "nr35_agent">>

=============================================================================
