-------------------------- MODULE MCOffenderWindow --------------------------
(* Instance of OffenderWindow for TLC: Linux hosts with one ssh log and     *)
(* with two, and a Mac.                                                     *)
EXTENDS OffenderWindow

MCHosts == {{"auth.log", "nginx"}, {"journal", "fail2ban"}, {"journal", "auth.log"}, {"unified log"}}
=============================================================================
