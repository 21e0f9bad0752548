------------------------------ MODULE Parker ------------------------------
(***************************************************************************)
(* The two Parkers, each under a caller that waits for a condition the way *)
(* every user of a Parker does: look, park() or parkFor(), look again.     *)
(* Others make the condition true and unpark(), or unpark() for something  *)
(* that is long over.                                                      *)
(*                                                                         *)
(* FutexParker keeps one word.  The store that consumes the token is a     *)
(* release store, which on a machine with store buffers (x86) may become   *)
(* visible after the caller's next loads, and at the latest with its next  *)
(* read-modify-write.  A worker looks after it has changed the idle mask   *)
(* with one; Waiter::block() and JoinHandle::join() look with plain loads. *)
(***************************************************************************)
EXTENDS Naturals

CONSTANTS Parked, Unparkers,
          PlainLook,    \* the caller looks with plain loads
          Backends      \* subset of {"futex", "condvar"}

VARIABLES obj, th

At(p, pc) == obj.is = "Parker" /\ th[p].pc = pc
Go(p, pc) == th' = [th EXCEPT ![p].pc = pc]

Init ==
    /\ \E backend \in Backends :
          obj = [is |-> "Parker", backend |-> backend, state |-> "Empty",
                 buffered |-> FALSE, condition |-> FALSE]
    /\ th = [p \in Unparkers \cup {Parked} |-> [pc |-> "idle", timed |-> FALSE]]

-----------------------------------------------------------------------------
(* The caller.  park() and parkFor() differ in `timed`.                    *)

Look ==
    /\ At(Parked, "idle")
    /\ PlainLook \/ ~obj.buffered
    /\ IF obj.condition
       THEN obj' = [obj EXCEPT !.condition = FALSE] /\ UNCHANGED th
       ELSE /\ \E timed \in BOOLEAN :
                  th' = [th EXCEPT ![Parked] = [pc |-> obj.backend, timed |-> timed]]
            /\ UNCHANGED obj

\* Mutant: announces the sleep whatever the state was.
AnnounceBlindly ==
    /\ At(Parked, "futex") /\ ~obj.buffered
    /\ obj' = [obj EXCEPT !.state = "Parked"] /\ Go(Parked, "loop")
\* FutexParker: announce the sleep, unless the token is there.
Announce ==
    /\ At(Parked, "futex") /\ ~obj.buffered
    /\ IF obj.state = "Empty"
       THEN obj' = [obj EXCEPT !.state = "Parked"] /\ Go(Parked, "loop")
       ELSE UNCHANGED obj /\ Go(Parked, "consume")
Loop ==
    /\ At(Parked, "loop")
    /\ Go(Parked, IF obj.state = "Parked" THEN "futexWait" ELSE "consume")
    /\ UNCHANGED obj
\* The kernel compares and sleeps in one step.
FutexWait ==
    /\ At(Parked, "futexWait")
    /\ Go(Parked, IF obj.state = "Parked" THEN "asleep" ELSE "loop")
    /\ UNCHANGED obj
\* A signal, or FUTEX_WAKE for an earlier sleep.
Spurious == At(Parked, "asleep") /\ Go(Parked, "loop") /\ UNCHANGED obj
GiveUp ==
    /\ At(Parked, "loop") \/ At(Parked, "asleep")
    /\ th[Parked].timed
    /\ obj' = [obj EXCEPT !.state = IF @ = "Parked" THEN "Empty" ELSE @]
    /\ Go(Parked, "consume")
Consume ==
    /\ At(Parked, "consume")
    /\ obj' = [obj EXCEPT !.buffered = TRUE]
    /\ Go(Parked, "idle")
\* The buffered store reaches the cache.
Drain ==
    /\ obj.is = "Parker" /\ obj.buffered
    /\ obj' = [obj EXCEPT !.buffered = FALSE, !.state = "Empty"]
    /\ UNCHANGED th

\* CondvarParker: what happens under its mutex is one step.
CheckNotified ==
    /\ At(Parked, "condvar")
    /\ IF obj.state = "Notified"
       THEN obj' = [obj EXCEPT !.state = "Empty"] /\ Go(Parked, "idle")
       ELSE Go(Parked, "waiting") /\ UNCHANGED obj
CondvarReturns ==
    /\ At(Parked, "waiting")
    /\ Go(Parked, IF th[Parked].timed /\ obj.state # "Notified" THEN "idle" ELSE "condvar")
    /\ UNCHANGED obj

-----------------------------------------------------------------------------
(* unpark().                                                               *)

Change(u) ==
    /\ u \in Unparkers /\ At(u, "idle")
    /\ \/ obj' = [obj EXCEPT !.condition = TRUE]
       \/ UNCHANGED obj
    /\ Go(u, "exchange")
Unpark(u) ==
    /\ At(u, "exchange")
    /\ obj' = [obj EXCEPT !.state = "Notified"]
    /\ Go(u, IF obj.backend = "condvar" \/ obj.state = "Parked" THEN "signal" ELSE "idle")
\* FUTEX_WAKE, or notify_one() after the mutex is released.
Signal(u) ==
    /\ At(u, "signal")
    /\ th' = [th EXCEPT ![u].pc = "idle",
                        ![Parked].pc = IF @ = "asleep" THEN "loop"
                                       ELSE IF @ = "waiting" THEN "condvar" ELSE @]
    /\ UNCHANGED obj

ParkedStep == Drain \/ Look \/ Announce \/ Loop \/ FutexWait \/ Consume \/ CheckNotified
Step(p) == (p = Parked /\ ParkedStep) \/ Unpark(p) \/ Signal(p)
Next ==
    \/ Spurious \/ GiveUp \/ CondvarReturns
    \/ \E p \in Unparkers \cup {Parked} : Change(p) \/ Step(p)

-----------------------------------------------------------------------------
\* Parker.h: "an unpark() before park() makes that park() return immediately".
\* Whoever sleeps while the condition holds is about to be unparked: of the
\* unparks that came, none was swallowed by the return of an earlier park.
NoUnparkLost ==
    obj.condition /\ th[Parked].pc \in {"asleep", "waiting"} =>
        \/ \E u \in Unparkers : th[u].pc \in {"exchange", "signal"}
        \/ obj.backend = "condvar" /\ obj.state = "Notified"
=============================================================================
