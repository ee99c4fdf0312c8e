---- MODULE MCBbwebLaunch ----
(* Three taps meet the pre-start, a crash and closed windows. *)
EXTENDS BbwebLaunch
====
