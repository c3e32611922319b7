-------------------------- MODULE MCResumeBundle --------------------------
(* ResumeBundle on small instances. *)
EXTENDS ResumeBundle

Names3 == 1 .. 3
Names4 == 1 .. 4
=============================================================================
