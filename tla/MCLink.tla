------------------------------- MODULE MCLink -------------------------------
(***************************************************************************)
(* The link with a tick of about five seconds: the watchdog (8 s) bites    *)
(* after two, and the longest lookup (12 s), the longest Ethernet.begin    *)
(* (8 s) and a send to a silent gateway (8 s) take as long or longer.      *)
(***************************************************************************)
EXTENDS Link
=============================================================================
