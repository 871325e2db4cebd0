-------------------------- MODULE MCTerminalView --------------------------
\* TerminalView for TLC; the instance is in the configuration.
EXTENDS TerminalView
============================================================================
