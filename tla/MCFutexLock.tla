---------------------------- MODULE MCFutexLock ----------------------------
(* FutexLock for TLC: three threads, two attempts of futex_lock (five in   *)
(* the code; one more than the variants that do not spin is enough to keep *)
(* them apart).                                                            *)
EXTENDS FutexLock
=============================================================================
