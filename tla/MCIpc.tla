--------------------------------- MODULE MCIpc ---------------------------------
(* Small instances of IpcSocket for TLC. *)
EXTENDS IpcProperties
=============================================================================
