------------------------- MODULE MCIpcTerminalSink -------------------------
(* IpcTerminalSink on a small instance.                                    *)
EXTENDS IpcTerminalSink
============================================================================
