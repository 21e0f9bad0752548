--------------------------- MODULE SemaphoreSpec ---------------------------
(***************************************************************************)
(* What sync::Semaphore promises (Semaphore.h): at most as many holders as *)
(* there are permits.  A permit is lost only when stop() unwinds a waiter  *)
(* that had just been given it.                                            *)
(***************************************************************************)
EXTENDS Naturals, FiniteSets

CONSTANTS Parties,  \* tasks, threads and callback operations
          Permits   \* Semaphore(initialPermits)

VARIABLES holders,  \* who has a permit
          size      \* permits in circulation

specVars == <<holders, size>>

Init == holders = {} /\ size = Permits

Enter(p) ==
    /\ p \notin holders /\ Cardinality(holders) < size
    /\ holders' = holders \cup {p}
    /\ UNCHANGED size

Leave(p) ==
    /\ p \in holders
    /\ holders' = holders \ {p}
    /\ UNCHANGED size

Forfeit(p) ==
    /\ p \in holders
    /\ holders' = holders \ {p}
    /\ size' = size - 1

Next == \E p \in Parties : Enter(p) \/ Leave(p) \/ Forfeit(p)

Spec == Init /\ [][Next]_specVars
=============================================================================
