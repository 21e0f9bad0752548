--------------------------- MODULE MCIdleWorkers ---------------------------
(***************************************************************************)
(* Small instances of IdleWorkers for TLC.  A run's options are one or     *)
(* more of those below.                                                    *)
(***************************************************************************)
EXTENDS IdleWorkers, TLC

Symmetry == Permutations(Workers) \cup Permutations(Producers)

Plain == [driver |-> FALSE, rampUpDelay |-> FALSE, idleSpin |-> FALSE]
PlainOnly == {Plain}
DriverOnly == {[Plain EXCEPT !.driver = TRUE]}
RampUpOnly == {[Plain EXCEPT !.rampUpDelay = TRUE]}
SpinningOrDriver == DriverOnly \cup {[Plain EXCEPT !.rampUpDelay = TRUE, !.idleSpin = TRUE]}

\* With a Driver everyone may end up asleep (run driver_lost_wake).
SleepForGoodInDriver == HasDriver /\ UNCHANGED vars
MaySleepSpec == Init /\ [][Next \/ SleepForGoodInDriver]_vars

\* A part of the behaviours: foreign threads inject all tasks, which do not
\* park, and no worker comes to its periodic upkeep.
InjectedOnly ==
    waiting = 0 /\ \A w \in Workers : local[w] = 0 /\ ~At(w, "maintain")
=============================================================================
