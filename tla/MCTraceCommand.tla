--------------------------- MODULE MCTraceCommand ---------------------------
(***************************************************************************)
(* A launcher and three more thread ids for TraceCommand: enough for a     *)
(* child, a thread of it that execs, and a stranger that takes an id the   *)
(* command gave up.                                                        *)
(***************************************************************************)
EXTENDS TraceCommand

CONSTANTS l, t, u, v, none
=============================================================================
