---------------------------- MODULE MCSemaphore ----------------------------
(* A small instance of Semaphore for TLC: a Mutex.  The one with more      *)
(* permits is in MCWaiting.                                                *)
EXTENDS Semaphore
=============================================================================
