---- MODULE MCCpuExclusive ----
(* Three vCPUs, at most one safe work item queued on each. *)
EXTENDS CpuExclusive
====
