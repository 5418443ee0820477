--------------------------- MODULE MCDaemonStream ---------------------------
(* An instance of the daemon's event stream for TLC: in MCStreamFanOut.cfg   *)
(* two clients listen while one event is broadcast.                          *)
EXTENDS DaemonStream
=============================================================================
