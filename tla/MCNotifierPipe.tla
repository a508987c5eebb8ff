---------------------------- MODULE MCNotifierPipe ----------------------------
(* A warning and a ping, in one session with the notifier that was started *)
(* in it and the orphan of an earlier service.                             *)
EXTENDS NotifierPipe
===============================================================================
