--------------------------- MODULE GatewayHandover ---------------------------
(***************************************************************************)
(* The handover from one gateway server to the next in the same process:   *)
(* the part of the state of the run loop (src/cli/gateway-cli/run-loop.ts) *)
(* it is about, and what it promises.  GatewayLifecycle is the system that *)
(* keeps the promise.                                                      *)
(***************************************************************************)
VARIABLES
  loop,          \* the run loop: "reading", "booting", "up", "failed", "exited"
  lock,          \* the process holds the gateway lock
  listening,     \* a server listens
  startFailed,   \* history: an in-process start failed
  closeFailed,   \* history: the close of a server failed, and it listens on
  bootRestart    \* history: a restart was requested while a server was starting

(* A restart in the same process has the lock again before it starts the   *)
(* next server, and has closed the old one by then, unless the close       *)
(* failed, an earlier start failed (which gives the lock away for good) or *)
(* the restart hit a start.                                                *)
CleanHandover ==
  ~bootRestart =>
    /\ loop \in {"reading", "booting"} => lock \/ startFailed
    /\ ~closeFailed => /\ loop \in {"reading", "booting"} => ~listening
                       /\ listening => lock \/ startFailed
=============================================================================
