-------------------------------- MODULE RowLog --------------------------------
(***************************************************************************)
(* What a replay ring promises: it holds the newest rows it was given, in   *)
(* the order they came, at most `cap` of them.  A save copies them, a       *)
(* launch starts from the saved copy (or from nothing), a death loses       *)
(* whatever was not saved.                                                  *)
(***************************************************************************)
EXTENDS Integers, Sequences

VARIABLES
    log,  \* the rows held, oldest first
    cap,  \* how many may be held
    disk  \* the rows last saved

vars == <<log, cap, disk>>

LogInit == log = <<>> /\ cap > 0

\* The newest k rows of s.
Newest(s, k) == IF Len(s) <= k THEN s ELSE SubSeq(s, Len(s) - k + 1, Len(s))

\* Some row is given to it, and is now the newest.
Push ==
    /\ log' # <<>> /\ log' = Newest(Append(log, log'[Len(log')]), cap)
    /\ UNCHANGED <<cap, disk>>

Save == disk' = log /\ UNCHANGED <<log, cap>>

Launch ==
    /\ cap' > 0 /\ Len(log') <= cap'
    /\ log' = disk
    /\ UNCHANGED disk

Die == log' = <<>> /\ UNCHANGED <<cap, disk>>

LogNext == Push \/ Save \/ Launch \/ Die

LogSpec == LogInit /\ [][LogNext]_vars

=============================================================================
