-------------------------- MODULE MCProgressLease --------------------------
(* Small instances of ProgressLease for TLC. *)
EXTENDS ProgressLease, TLC

CONSTANTS t1, t2, u1, u2, p, q

\* Two threads in each of two processes.
MCThreads == {t1, t2, u1, u2}
MCProcesses == {p, q}
MCProcessOf == (t1 :> p) @@ (t2 :> p) @@ (u1 :> q) @@ (u2 :> q)
=============================================================================
