----------------------------- MODULE HostedSystem -----------------------------
(***************************************************************************)
(* Hosting as a whole: daemons of one device, a web client and other users   *)
(* of one service.  The parts share the service's requests: its answer to    *)
(* a join goes to the daemon that asked, to the web client or to others.     *)
(***************************************************************************)
EXTENDS HostedDaemon, WebClient

everything == <<allVars, webVars>>

SystemInit == HostedInit /\ WebInit

SystemNext ==
  \/ HostedNext /\ UNCHANGED webVars
  \/ WebStep /\ UNCHANGED daemonVars
  \/ WebJoin /\ sender = Other /\ UNCHANGED daemonVars

SystemSpec == SystemInit /\ [][SystemNext]_everything
=============================================================================
