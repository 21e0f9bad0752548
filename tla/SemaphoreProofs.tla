-------------------------- MODULE SemaphoreProofs --------------------------
(***************************************************************************)
(* Semaphore for every number of permits and of parties: it implements     *)
(* SemaphoreSpec, no permit is forgotten beside a queue, no notifier       *)
(* touches a waiter that has left, and the waiter count covers the list.   *)
(***************************************************************************)
EXTENDS Semaphore, FiniteSetTheorems, SequenceTheorems, TLAPS

-----------------------------------------------------------------------------
(* The inductive invariant.                                                *)

\* TypeOK without the bounds on the counters, which follow from the rest.
TypeInv ==
    /\ permits \in Nat /\ forfeited \in Nat /\ waiterCount \in Int
    /\ lock \in Parties \cup {NoOne}
    /\ waiters \in Seq(Parties)
    /\ satisfied \in [Parties -> BOOLEAN]
    /\ cancelled \in [Parties -> BOOLEAN]
    /\ chain \in [Parties -> Seq(Parties)]
    /\ pc \in [Parties -> Pc]

\* Whoever is on the list is there once, inside its wait and not notified.
ListDistinct ==
    \A i, j \in 1 .. Len(waiters) : waiters[i] = waiters[j] => i = j
ListInv ==
    /\ ListDistinct
    /\ \A q \in Parties : Linked(q) => pc[q] \in {"wait", "unwindLock"} /\ ~satisfied[q]

\* A releaser has detached q and has yet to notify it.
InChain(q) == \E p \in Parties : \E i \in 1 .. Len(chain[p]) : chain[p][i] = q

\* Whoever is on a releaser's chain is there once, still inside its wait, off
\* the list and not notified.
ChainDistinct ==
    \A p, r \in Parties : \A i \in 1 .. Len(chain[p]), j \in 1 .. Len(chain[r]) :
        chain[p][i] = chain[r][j] => p = r /\ i = j
ChainInv ==
    /\ ChainDistinct
    /\ \A q \in Parties : InChain(q) => Taken(q) /\ ~satisfied[q]

\* Nobody is taken for notified before it has waited.
FreshInv ==
    \A p \in Parties :
        pc[p] \in {"drive", "slowLock", "announce", "recheck"} => ~satisfied[p]

\* The SpinLock is held at these places and nowhere else.
LockInv ==
    \A p \in Parties :
        pc[p] \in {"announce", "recheck", "retract", "handOut", "handCount"}
            <=> lock = p

\* Under the lock waiterCount may be one ahead of the list.
CountInv ==
    waiterCount = Len(waiters)
                  + IF \E p \in Parties : pc[p] \in {"recheck", "retract", "handCount"}
                    THEN 1 ELSE 0

\* Permits are free, held, or went down with a waiter.
PermitInv ==
    /\ IsFiniteSet(Holders)
    /\ permits + Cardinality(Holders) + forfeited = Permits

SemInv ==
    /\ TypeInv /\ ListInv /\ ChainInv /\ FreshInv /\ LockInv /\ CountInv
    /\ PermitInv /\ NoPermitForgotten

-----------------------------------------------------------------------------
(* Sequences.                                                              *)

\* What is left of a sequence without its element i.
LEMMA Removed ==
    ASSUME NEW S, NEW s \in Seq(S), NEW i \in 1 .. Len(s)
    PROVE  /\ RemoveAt(s, i) \in Seq(S)
           /\ Len(RemoveAt(s, i)) = Len(s) - 1
           /\ \A j \in 1 .. Len(s) - 1 :
                 RemoveAt(s, i)[j] = IF j < i THEN s[j] ELSE s[j + 1]
<1> DEFINE a == SubSeq(s, 1, i - 1)
           b == SubSeq(s, i + 1, Len(s))
<1>1. /\ a \in Seq(S) /\ Len(a) = i - 1
      /\ \A j \in 1 .. i - 1 : a[j] = s[j]
  BY SubSeqProperties
<1>2. /\ b \in Seq(S) /\ Len(b) = Len(s) - i
      /\ \A j \in 1 .. Len(s) - i : b[j] = s[i + j]
  BY SubSeqProperties
<1>3. RemoveAt(s, i) = a \o b
  BY DEF RemoveAt
<1> HIDE DEF a, b
<1>4. /\ a \o b \in Seq(S) /\ Len(a \o b) = Len(a) + Len(b)
      /\ \A j \in 1 .. Len(a) + Len(b) :
            (a \o b)[j] = IF j <= Len(a) THEN a[j] ELSE b[j - Len(a)]
  BY <1>1, <1>2, ConcatProperties
<1>5. ASSUME NEW j \in 1 .. Len(s) - 1
      PROVE  (a \o b)[j] = IF j < i THEN s[j] ELSE s[j + 1]
  <2>0. Len(a) = i - 1 /\ Len(b) = Len(s) - i /\ Len(s) \in Nat /\ j \in 1 .. Len(a) + Len(b)
    BY <1>1, <1>2
  <2>1. (a \o b)[j] = IF j <= i - 1 THEN a[j] ELSE b[j - (i - 1)]
    <3>1. (a \o b)[j] = IF j <= Len(a) THEN a[j] ELSE b[j - Len(a)]
      BY <1>4, <2>0
    <3> QED
      BY <2>0, <3>1
  <2>2. CASE j < i
    BY <1>1, <2>1, <2>2
  <2>3. CASE ~(j < i)
    <3>1. j - (i - 1) \in 1 .. Len(s) - i
      BY <2>3
    <3>2. b[j - (i - 1)] = s[i + (j - (i - 1))]
      BY <1>2, <3>1
    <3>3. i + (j - (i - 1)) = j + 1
      OBVIOUS
    <3> QED
      BY <2>1, <2>3, <3>2, <3>3
  <2> QED
    BY <2>2, <2>3
<1> QED
  BY <1>1, <1>2, <1>3, <1>4, <1>5

\* The list without p, which it holds once.
LEMMA Unlinked ==
    ASSUME waiters \in Seq(Parties), ListDistinct, NEW p \in Parties, Unlink(p)
    PROVE  /\ waiters' \in Seq(Parties) /\ Len(waiters') = Len(waiters) - 1
           /\ ListDistinct' /\ Linked(p)
           /\ \A q \in Parties : Linked(q)' <=> Linked(q) /\ q # p
<1>1. PICK i \in 1 .. Len(waiters) :
         waiters[i] = p /\ waiters' = RemoveAt(waiters, i)
  BY DEF Unlink
<1>2. /\ waiters' \in Seq(Parties) /\ Len(waiters') = Len(waiters) - 1
      /\ \A j \in 1 .. Len(waiters) - 1 :
            waiters'[j] = IF j < i THEN waiters[j] ELSE waiters[j + 1]
  BY <1>1, Removed
<1>3. Linked(p)
  BY <1>1 DEF Linked, Contains
<1>4. ListDistinct'
  BY <1>2 DEF ListDistinct
<1>5. ASSUME NEW q \in Parties, Linked(q)' PROVE Linked(q) /\ q # p
  <2>1. PICK j \in 1 .. Len(waiters) - 1 : waiters'[j] = q
    BY <1>2, <1>5 DEF Linked, Contains
  <2>2. CASE j < i
    BY <1>1, <1>2, <2>1, <2>2 DEF Linked, Contains, ListDistinct
  <2>3. CASE ~(j < i)
    <3>1. j + 1 \in 1 .. Len(waiters) /\ waiters[j + 1] = q /\ j + 1 # i
      BY <1>2, <2>1, <2>3
    <3> QED
      BY <1>1, <3>1 DEF Linked, Contains, ListDistinct
  <2> QED
    BY <2>2, <2>3
<1>6. ASSUME NEW q \in Parties, Linked(q), q # p PROVE Linked(q)'
  <2>1. PICK j \in 1 .. Len(waiters) : waiters[j] = q
    BY <1>6 DEF Linked, Contains
  <2>2. j # i
    BY <1>1, <1>6, <2>1
  <2>3. CASE j < i
    <3>1. j \in 1 .. Len(waiters') /\ waiters'[j] = q
      BY <1>2, <2>1, <2>3
    <3> QED
      BY <3>1 DEF Linked, Contains
  <2>4. CASE j > i
    <3>1. j - 1 \in 1 .. Len(waiters) - 1 /\ ~(j - 1 < i) /\ (j - 1) + 1 = j
      BY <2>4
    <3>2. waiters'[j - 1] = waiters[(j - 1) + 1]
      BY <1>2, <3>1
    <3>3. j - 1 \in 1 .. Len(waiters') /\ waiters'[j - 1] = q
      BY <1>2, <2>1, <3>1, <3>2
    <3> QED
      BY <3>3 DEF Linked, Contains
  <2> QED
    BY <2>2, <2>3, <2>4
<1> QED
  BY <1>2, <1>3, <1>4, <1>5, <1>6

\* The list with p at its end.
LEMMA Enlisted ==
    ASSUME waiters \in Seq(Parties), ListDistinct, NEW p \in Parties, ~Linked(p),
           waiters' = Append(waiters, p)
    PROVE  /\ waiters' \in Seq(Parties) /\ Len(waiters') = Len(waiters) + 1
           /\ ListDistinct'
           /\ \A q \in Parties : Linked(q)' <=> Linked(q) \/ q = p
<1>1. /\ waiters' \in Seq(Parties) /\ Len(waiters') = Len(waiters) + 1
      /\ \A i \in 1 .. Len(waiters) : waiters'[i] = waiters[i]
      /\ waiters'[Len(waiters) + 1] = p
  BY AppendProperties
<1>2. \A i \in 1 .. Len(waiters') : i \in 1 .. Len(waiters) \/ i = Len(waiters) + 1
  BY <1>1
<1>3. ListDistinct'
  BY <1>1, <1>2 DEF ListDistinct, Linked, Contains
<1>4. ASSUME NEW q \in Parties, Linked(q)' PROVE Linked(q) \/ q = p
  BY <1>1, <1>2, <1>4 DEF Linked, Contains
<1>5. ASSUME NEW q \in Parties, Linked(q) \/ q = p PROVE Linked(q)'
  BY <1>1, <1>5 DEF Linked, Contains
<1> QED
  BY <1>1, <1>3, <1>4, <1>5

\* The list without its head.
LEMMA HeadLeaves ==
    ASSUME waiters \in Seq(Parties), ListDistinct, waiters # <<>>,
           waiters' = Tail(waiters)
    PROVE  /\ waiters' \in Seq(Parties) /\ Len(waiters') = Len(waiters) - 1
           /\ Head(waiters) \in Parties /\ Linked(Head(waiters))
           /\ ListDistinct'
           /\ \A q \in Parties : Linked(q)' <=> Linked(q) /\ q # Head(waiters)
<1>1. /\ waiters' \in Seq(Parties) /\ Len(waiters') = Len(waiters) - 1
      /\ Head(waiters) \in Parties
      /\ \A i \in 1 .. Len(waiters) - 1 : waiters'[i] = waiters[i + 1]
  BY HeadTailProperties
<1>2. Len(waiters) \in Nat /\ Len(waiters) > 0 /\ Head(waiters) = waiters[1]
  BY LenProperties, EmptySeq
<1>3. Linked(Head(waiters))
  BY <1>2 DEF Linked, Contains
<1>4. ListDistinct'
  BY <1>1, <1>2 DEF ListDistinct
<1>5. ASSUME NEW q \in Parties, Linked(q)' PROVE Linked(q) /\ q # Head(waiters)
  <2>1. PICK j \in 1 .. Len(waiters) - 1 : waiters'[j] = q
    BY <1>1, <1>5 DEF Linked, Contains
  <2>2. j + 1 \in 1 .. Len(waiters) /\ waiters[j + 1] = q /\ j + 1 # 1
    BY <1>1, <1>2, <2>1
  <2> QED
    BY <1>2, <2>2 DEF Linked, Contains, ListDistinct
<1>6. ASSUME NEW q \in Parties, Linked(q), q # Head(waiters) PROVE Linked(q)'
  <2>1. PICK j \in 1 .. Len(waiters) : waiters[j] = q
    BY <1>6 DEF Linked, Contains
  <2>2. j # 1
    BY <1>2, <1>6, <2>1
  <2>3. j - 1 \in 1 .. Len(waiters) - 1 /\ (j - 1) + 1 = j
    BY <1>2, <2>2
  <2>4. waiters'[j - 1] = waiters[(j - 1) + 1]
    BY <1>1, <2>3
  <2> QED
    BY <1>1, <2>1, <2>3, <2>4 DEF Linked, Contains
<1> QED
  BY <1>1, <1>3, <1>4, <1>5, <1>6

\* A releaser's chain with h at its end.
LEMMA Chained ==
    ASSUME chain \in [Parties -> Seq(Parties)], ChainDistinct,
           NEW p \in Parties, NEW h \in Parties, ~InChain(h),
           chain' = [chain EXCEPT ![p] = Append(@, h)]
    PROVE  /\ chain' \in [Parties -> Seq(Parties)] /\ ChainDistinct'
           /\ \A q \in Parties : InChain(q)' <=> InChain(q) \/ q = h
<1>1. /\ Append(chain[p], h) \in Seq(Parties)
      /\ Len(Append(chain[p], h)) = Len(chain[p]) + 1
      /\ \A i \in 1 .. Len(chain[p]) : Append(chain[p], h)[i] = chain[p][i]
      /\ Append(chain[p], h)[Len(chain[p]) + 1] = h
  BY AppendProperties
<1>2. /\ chain' \in [Parties -> Seq(Parties)]
      /\ chain'[p] = Append(chain[p], h)
      /\ \A r \in Parties \ {p} : chain'[r] = chain[r]
  BY <1>1
<1>3. \A r \in Parties : Len(chain[r]) \in Nat
  BY LenProperties
<1>4. ASSUME NEW r \in Parties, NEW i \in 1 .. Len(chain'[r])
      PROVE  \/ i \in 1 .. Len(chain[r]) /\ chain'[r][i] = chain[r][i]
             \/ r = p /\ i = Len(chain[p]) + 1 /\ chain'[r][i] = h
  <2>1. CASE r = p
    BY <1>1, <1>2, <1>3, <2>1
  <2>2. CASE r # p
    BY <1>2, <2>2
  <2> QED
    BY <2>1, <2>2
<1>5. \A r \in Parties : \A i \in 1 .. Len(chain[r]) : chain[r][i] # h
  BY DEF InChain
<1>6. ChainDistinct'
  <2> SUFFICES ASSUME NEW r \in Parties, NEW u \in Parties,
                      NEW i \in 1 .. Len(chain'[r]), NEW j \in 1 .. Len(chain'[u]),
                      chain'[r][i] = chain'[u][j]
               PROVE  r = u /\ i = j
    BY DEF ChainDistinct
  <2>1. \/ i \in 1 .. Len(chain[r]) /\ chain'[r][i] = chain[r][i]
        \/ r = p /\ i = Len(chain[p]) + 1 /\ chain'[r][i] = h
    BY <1>4
  <2>2. \/ j \in 1 .. Len(chain[u]) /\ chain'[u][j] = chain[u][j]
        \/ u = p /\ j = Len(chain[p]) + 1 /\ chain'[u][j] = h
    BY <1>4
  <2>3. CASE i \in 1 .. Len(chain[r]) /\ j \in 1 .. Len(chain[u])
    <3>1. chain[r][i] # h /\ chain[u][j] # h
      BY <1>5, <2>3
    <3>2. chain[r][i] = chain[u][j]
      BY <2>1, <2>2, <3>1
    <3> QED
      BY <2>3, <3>2 DEF ChainDistinct
  <2>4. CASE i \notin 1 .. Len(chain[r]) \/ j \notin 1 .. Len(chain[u])
    <3>1. chain'[r][i] = h
      BY <2>1, <2>2, <2>4
    <3>2. ~(i \in 1 .. Len(chain[r]) /\ chain'[r][i] = chain[r][i])
      BY <1>5, <3>1
    <3>3. ~(j \in 1 .. Len(chain[u]) /\ chain'[u][j] = chain[u][j])
      BY <1>5, <3>1
    <3> QED
      BY <2>1, <2>2, <3>2, <3>3
  <2> QED
    BY <2>3, <2>4
<1>7. ASSUME NEW q \in Parties, InChain(q)' PROVE InChain(q) \/ q = h
  BY <1>4, <1>7 DEF InChain
<1>8. ASSUME NEW q \in Parties, InChain(q) PROVE InChain(q)'
  <2>0. PICK r \in Parties : \E i \in 1 .. Len(chain[r]) : chain[r][i] = q
    BY <1>8 DEF InChain
  <2>1. PICK i \in 1 .. Len(chain[r]) : chain[r][i] = q
    BY <2>0
  <2>2. i \in 1 .. Len(chain'[r]) /\ chain'[r][i] = q
    BY <1>1, <1>2, <1>3, <2>1
  <2> QED
    BY <2>2 DEF InChain
<1>9. InChain(h)'
  <2>1. Len(chain[p]) + 1 \in 1 .. Len(chain'[p]) /\ chain'[p][Len(chain[p]) + 1] = h
    BY <1>1, <1>2, <1>3
  <2> QED
    BY <2>1 DEF InChain
<1> QED
  BY <1>2, <1>6, <1>7, <1>8, <1>9

\* A releaser's chain without its head.
LEMMA Unchained ==
    ASSUME chain \in [Parties -> Seq(Parties)], ChainDistinct,
           NEW p \in Parties, chain[p] # <<>>,
           chain' = [chain EXCEPT ![p] = Tail(@)]
    PROVE  /\ chain' \in [Parties -> Seq(Parties)] /\ ChainDistinct'
           /\ Head(chain[p]) \in Parties /\ InChain(Head(chain[p]))
           /\ \A q \in Parties : InChain(q)' => InChain(q) /\ q # Head(chain[p])
<1>1. /\ Tail(chain[p]) \in Seq(Parties) /\ Head(chain[p]) \in Parties
      /\ Len(Tail(chain[p])) = Len(chain[p]) - 1
      /\ \A i \in 1 .. Len(chain[p]) - 1 : Tail(chain[p])[i] = chain[p][i + 1]
  BY HeadTailProperties
<1>2. Len(chain[p]) \in Nat /\ Len(chain[p]) > 0 /\ Head(chain[p]) = chain[p][1]
  BY LenProperties, EmptySeq
<1>3. /\ chain' \in [Parties -> Seq(Parties)]
      /\ chain'[p] = Tail(chain[p])
      /\ \A r \in Parties \ {p} : chain'[r] = chain[r]
  BY <1>1
<1>4. InChain(Head(chain[p]))
  BY <1>2 DEF InChain
<1>5. ASSUME NEW r \in Parties, NEW i \in 1 .. Len(chain'[r])
      PROVE  \/ r = p /\ i + 1 \in 1 .. Len(chain[p]) /\ i + 1 # 1
                /\ chain'[r][i] = chain[p][i + 1]
             \/ r # p /\ i \in 1 .. Len(chain[r]) /\ chain'[r][i] = chain[r][i]
  <2>1. CASE r = p
    <3>1. i \in 1 .. Len(chain[p]) - 1
      BY <1>1, <1>3, <2>1
    <3> QED
      BY <1>1, <1>2, <1>3, <2>1, <3>1
  <2>2. CASE r # p
    BY <1>3, <2>2
  <2> QED
    BY <2>1, <2>2
<1>6. ChainDistinct'
  <2> SUFFICES ASSUME NEW r \in Parties, NEW u \in Parties,
                      NEW i \in 1 .. Len(chain'[r]), NEW j \in 1 .. Len(chain'[u]),
                      chain'[r][i] = chain'[u][j]
               PROVE  r = u /\ i = j
    BY DEF ChainDistinct
  <2>1. \/ r = p /\ i + 1 \in 1 .. Len(chain[p]) /\ chain'[r][i] = chain[p][i + 1]
        \/ r # p /\ i \in 1 .. Len(chain[r]) /\ chain'[r][i] = chain[r][i]
    BY <1>5
  <2>2. \/ u = p /\ j + 1 \in 1 .. Len(chain[p]) /\ chain'[u][j] = chain[p][j + 1]
        \/ u # p /\ j \in 1 .. Len(chain[u]) /\ chain'[u][j] = chain[u][j]
    BY <1>5
  <2>3. i \in Int /\ j \in Int
    BY <2>1, <2>2
  <2> QED
    BY <2>1, <2>2, <2>3 DEF ChainDistinct
<1>7. ASSUME NEW q \in Parties, InChain(q)' PROVE InChain(q) /\ q # Head(chain[p])
  <2>0. PICK r \in Parties : \E i \in 1 .. Len(chain'[r]) : chain'[r][i] = q
    BY <1>7 DEF InChain
  <2>1. PICK i \in 1 .. Len(chain'[r]) : chain'[r][i] = q
    BY <2>0
  <2>2. CASE r = p
    <3>1. i + 1 \in 1 .. Len(chain[p]) /\ i + 1 # 1 /\ chain[p][i + 1] = q
      BY <1>5, <2>1, <2>2
    <3>2. 1 \in 1 .. Len(chain[p])
      BY <1>2
    <3>3. chain[p][i + 1] # chain[p][1]
      BY <3>1, <3>2 DEF ChainDistinct
    <3> QED
      BY <1>2, <3>1, <3>3 DEF InChain
  <2>3. CASE r # p
    BY <1>2, <1>5, <2>1, <2>3 DEF InChain, ChainDistinct
  <2> QED
    BY <2>2, <2>3
<1> QED
  BY <1>1, <1>3, <1>4, <1>6, <1>7

-----------------------------------------------------------------------------
(* Every step preserves the parts about the list, the chains and the lock. *)

MoveInv == /\ ListInv /\ ChainInv /\ FreshInv /\ LockInv /\ CountInv
           /\ NoPermitForgotten

\* What a step does to the permits: q gets one, gives one back, or takes one
\* down with it, or nothing changes.
Enters(q) ==
    /\ q \notin Holders /\ Holders' = Holders \cup {q}
    /\ permits > 0 /\ permits' = permits - 1 /\ forfeited' = forfeited
Leaves(q) ==
    /\ q \in Holders /\ Holders' = Holders \ {q}
    /\ permits' = permits + 1 /\ forfeited' = forfeited
Forfeits(q) ==
    /\ q \in Holders /\ Holders' = Holders \ {q}
    /\ permits' = permits /\ forfeited' = forfeited + 1
Accounts ==
    \/ Holders' = Holders /\ UNCHANGED <<permits, forfeited>>
    \/ \E q \in Parties : Enters(q) \/ Leaves(q) \/ Forfeits(q)

\* One case per action, and in it one per branch.
LEMMA MoveStep == TypeInv /\ MoveInv /\ Next => MoveInv' /\ Accounts
<1> SUFFICES ASSUME TypeInv, MoveInv, Next PROVE MoveInv' /\ Accounts
  OBVIOUS
<1> USE PartiesAreDistinct
<1>a. /\ ListInv /\ ChainInv /\ FreshInv /\ LockInv /\ CountInv
      /\ NoPermitForgotten /\ ListDistinct /\ ChainDistinct
  BY DEF MoveInv, ListInv, ChainInv
<1>b. NoOne \notin Parties /\ Len(waiters) \in Nat /\ (waiters # <<>> => Len(waiters) > 0)
      /\ (Len(waiters) > 0 => waiters # <<>>)
  BY LenProperties, EmptySeq DEF Parties, TypeInv
<1> USE <1>a, <1>b
<1>1. ASSUME NEW p \in Parties, TryAcquire(p) PROVE MoveInv' /\ Accounts
  <2>1. ASSUME pc[p] = "out" /\ pc' = [pc EXCEPT ![p] = "in"],
               permits > 0,
               permits' = permits - 1,
               satisfied' = [satisfied EXCEPT ![p] = FALSE],
               UNCHANGED <<waiterCount, lock, waiters, cancelled, chain>>,
               forfeited' = forfeited
        PROVE  MoveInv' /\ Accounts
    <3>a. /\ ListDistinct' /\ Len(waiters') = Len(waiters)
          /\ \A q \in Parties : Linked(q)' <=> Linked(q)
      BY <2>1 DEF Linked, Contains, ListDistinct
    <3>b. /\ ChainDistinct' /\ \A q \in Parties : InChain(q)' <=> InChain(q)
      BY <2>1 DEF InChain, ChainDistinct
    <3>1. ListInv'
      BY <2>1, <3>a DEF TypeInv, ListInv
    <3>2. ChainInv'
      BY <2>1, <3>a, <3>b DEF TypeInv, ChainInv, Taken, ListInv
    <3>3. FreshInv'
      BY <2>1 DEF TypeInv, FreshInv
    <3>4. LockInv'
      BY <2>1 DEF TypeInv, LockInv
    <3>5. CountInv'
      BY <2>1, <3>a DEF TypeInv, CountInv, LockInv
    <3>6. NoPermitForgotten'
      BY <2>1, <3>a DEF TypeInv, NoPermitForgotten
    <3>7. Accounts
      <4>1. Holders' = Holders \cup {p} /\ p \notin Holders
        BY <2>1, <3>a DEF TypeInv, Holders, Taken, ListInv
      <4>2. Enters(p)
        BY <2>1, <4>1 DEF Enters
      <4> QED
        BY <4>2 DEF Accounts
    <3> QED
      BY <3>1, <3>2, <3>3, <3>4, <3>5, <3>6, <3>7 DEF MoveInv
  <2>2. ASSUME pc[p] = "out",
               permits = 0,
               pc' = [pc EXCEPT ![p] = IF p \in Callbacks THEN "drive" ELSE "slowLock"],
               satisfied' = [satisfied EXCEPT ![p] = FALSE],
               UNCHANGED <<permits, waiterCount, lock, waiters, cancelled, chain>>,
               forfeited' = forfeited
        PROVE  MoveInv' /\ Accounts
    <3>a. /\ ListDistinct' /\ Len(waiters') = Len(waiters)
          /\ \A q \in Parties : Linked(q)' <=> Linked(q)
      BY <2>2 DEF Linked, Contains, ListDistinct
    <3>b. /\ ChainDistinct' /\ \A q \in Parties : InChain(q)' <=> InChain(q)
      BY <2>2 DEF InChain, ChainDistinct
    <3>1. ListInv'
      BY <2>2, <3>a DEF TypeInv, ListInv
    <3>2. ChainInv'
      BY <2>2, <3>a, <3>b DEF TypeInv, ChainInv, Taken, ListInv
    <3>3. FreshInv'
      BY <2>2 DEF TypeInv, FreshInv
    <3>4. LockInv'
      BY <2>2 DEF TypeInv, LockInv
    <3>5. CountInv'
      BY <2>2, <3>a DEF TypeInv, CountInv, LockInv
    <3>6. NoPermitForgotten'
      BY <2>2, <3>a DEF TypeInv, NoPermitForgotten
    <3>7. Accounts
      <4>1. Holders' = Holders
        BY <2>2, <3>a DEF TypeInv, Holders, Taken, ListInv
      <4> QED
        BY <2>2, <4>1 DEF Accounts
    <3> QED
      BY <3>1, <3>2, <3>3, <3>4, <3>5, <3>6, <3>7 DEF MoveInv
  <2> QED
    BY <1>1, <2>1, <2>2 DEF TryAcquire, Go, Lock, Unlock
<1>2. ASSUME NEW p \in Parties, DriveAcquire(p) PROVE MoveInv' /\ Accounts
  <2>1. ASSUME pc[p] = "drive" /\ pc' = [pc EXCEPT ![p] = "in"],
               permits > 0,
               permits' = permits - 1,
               UNCHANGED <<waiterCount, lock, waiters, satisfied, chain>>,
               forfeited' = forfeited
        PROVE  MoveInv' /\ Accounts
    <3>a. /\ ListDistinct' /\ Len(waiters') = Len(waiters)
          /\ \A q \in Parties : Linked(q)' <=> Linked(q)
      BY <2>1 DEF Linked, Contains, ListDistinct
    <3>b. /\ ChainDistinct' /\ \A q \in Parties : InChain(q)' <=> InChain(q)
      BY <2>1 DEF InChain, ChainDistinct
    <3>1. ListInv'
      BY <2>1, <3>a DEF TypeInv, ListInv
    <3>2. ChainInv'
      BY <2>1, <3>a, <3>b DEF TypeInv, ChainInv, Taken, ListInv
    <3>3. FreshInv'
      BY <2>1 DEF TypeInv, FreshInv
    <3>4. LockInv'
      BY <2>1 DEF TypeInv, LockInv
    <3>5. CountInv'
      BY <2>1, <3>a DEF TypeInv, CountInv, LockInv
    <3>6. NoPermitForgotten'
      BY <2>1, <3>a DEF TypeInv, NoPermitForgotten
    <3>7. Accounts
      <4>1. Holders' = Holders \cup {p} /\ p \notin Holders
        BY <2>1, <3>a DEF TypeInv, Holders, Taken, ListInv
      <4>2. Enters(p)
        BY <2>1, <4>1 DEF Enters
      <4> QED
        BY <4>2 DEF Accounts
    <3> QED
      BY <3>1, <3>2, <3>3, <3>4, <3>5, <3>6, <3>7 DEF MoveInv
  <2>2. ASSUME pc[p] = "drive" /\ pc' = [pc EXCEPT ![p] = "slowLock"],
               UNCHANGED <<permits, waiterCount, lock, waiters, satisfied, chain>>,
               forfeited' = forfeited
        PROVE  MoveInv' /\ Accounts
    <3>a. /\ ListDistinct' /\ Len(waiters') = Len(waiters)
          /\ \A q \in Parties : Linked(q)' <=> Linked(q)
      BY <2>2 DEF Linked, Contains, ListDistinct
    <3>b. /\ ChainDistinct' /\ \A q \in Parties : InChain(q)' <=> InChain(q)
      BY <2>2 DEF InChain, ChainDistinct
    <3>1. ListInv'
      BY <2>2, <3>a DEF TypeInv, ListInv
    <3>2. ChainInv'
      BY <2>2, <3>a, <3>b DEF TypeInv, ChainInv, Taken, ListInv
    <3>3. FreshInv'
      BY <2>2 DEF TypeInv, FreshInv
    <3>4. LockInv'
      BY <2>2 DEF TypeInv, LockInv
    <3>5. CountInv'
      BY <2>2, <3>a DEF TypeInv, CountInv, LockInv
    <3>6. NoPermitForgotten'
      BY <2>2, <3>a DEF TypeInv, NoPermitForgotten
    <3>7. Accounts
      <4>1. Holders' = Holders
        BY <2>2, <3>a DEF TypeInv, Holders, Taken, ListInv
      <4> QED
        BY <2>2, <4>1 DEF Accounts
    <3> QED
      BY <3>1, <3>2, <3>3, <3>4, <3>5, <3>6, <3>7 DEF MoveInv
  <2> QED
    BY <1>2, <2>1, <2>2 DEF DriveAcquire, Go, Lock, Unlock
<1>3. ASSUME NEW p \in Parties, SlowLock(p) PROVE MoveInv' /\ Accounts
  <2>0. /\ pc[p] = "slowLock" /\ pc' = [pc EXCEPT ![p] = "announce"]
        /\ lock = NoOne
        /\ lock' = p
        /\ UNCHANGED <<permits, waiterCount, waiters, satisfied, chain>>
        /\ forfeited' = forfeited
    BY <1>3 DEF SlowLock, Go, Lock, Unlock
  <2>a. /\ ListDistinct' /\ Len(waiters') = Len(waiters)
        /\ \A q \in Parties : Linked(q)' <=> Linked(q)
    BY <2>0 DEF Linked, Contains, ListDistinct
  <2>b. /\ ChainDistinct' /\ \A q \in Parties : InChain(q)' <=> InChain(q)
    BY <2>0 DEF InChain, ChainDistinct
  <2>1. ListInv'
    BY <2>0, <2>a DEF TypeInv, ListInv
  <2>2. ChainInv'
    BY <2>0, <2>a, <2>b DEF TypeInv, ChainInv, Taken, ListInv
  <2>3. FreshInv'
    BY <2>0 DEF TypeInv, FreshInv
  <2>4. LockInv'
    BY <2>0 DEF TypeInv, LockInv
  <2>5. CountInv'
    BY <2>0, <2>a DEF TypeInv, CountInv, LockInv
  <2>6. NoPermitForgotten'
    BY <2>0, <2>a DEF TypeInv, NoPermitForgotten
  <2>7. Accounts
    <3>1. Holders' = Holders
      BY <2>0, <2>a DEF TypeInv, Holders, Taken, ListInv
    <3> QED
      BY <2>0, <3>1 DEF Accounts
  <2> QED
    BY <2>1, <2>2, <2>3, <2>4, <2>5, <2>6, <2>7 DEF MoveInv
<1>4. ASSUME NEW p \in Parties, SlowCancelled(p) PROVE MoveInv' /\ Accounts
  <2>0. /\ pc[p] = "slowLock" /\ pc' = [pc EXCEPT ![p] = "out"]
        /\ UNCHANGED <<permits, waiterCount, lock, waiters, satisfied, chain>>
        /\ forfeited' = forfeited
    BY <1>4 DEF SlowCancelled, Go, Lock, Unlock
  <2>a. /\ ListDistinct' /\ Len(waiters') = Len(waiters)
        /\ \A q \in Parties : Linked(q)' <=> Linked(q)
    BY <2>0 DEF Linked, Contains, ListDistinct
  <2>b. /\ ChainDistinct' /\ \A q \in Parties : InChain(q)' <=> InChain(q)
    BY <2>0 DEF InChain, ChainDistinct
  <2>1. ListInv'
    BY <2>0, <2>a DEF TypeInv, ListInv
  <2>2. ChainInv'
    BY <2>0, <2>a, <2>b DEF TypeInv, ChainInv, Taken, ListInv
  <2>3. FreshInv'
    BY <2>0 DEF TypeInv, FreshInv
  <2>4. LockInv'
    BY <2>0 DEF TypeInv, LockInv
  <2>5. CountInv'
    BY <2>0, <2>a DEF TypeInv, CountInv, LockInv
  <2>6. NoPermitForgotten'
    BY <2>0, <2>a DEF TypeInv, NoPermitForgotten
  <2>7. Accounts
    <3>1. Holders' = Holders
      BY <2>0, <2>a DEF TypeInv, Holders, Taken, ListInv
    <3> QED
      BY <2>0, <3>1 DEF Accounts
  <2> QED
    BY <2>1, <2>2, <2>3, <2>4, <2>5, <2>6, <2>7 DEF MoveInv
<1>5. ASSUME NEW p \in Parties, Announce(p) PROVE MoveInv' /\ Accounts
  <2>0. /\ pc[p] = "announce" /\ pc' = [pc EXCEPT ![p] = "recheck"]
        /\ waiterCount' = waiterCount + 1
        /\ UNCHANGED <<permits, lock, waiters, satisfied, chain>>
        /\ forfeited' = forfeited
    BY <1>5 DEF Announce, Go, Lock, Unlock
  <2>a. /\ ListDistinct' /\ Len(waiters') = Len(waiters)
        /\ \A q \in Parties : Linked(q)' <=> Linked(q)
    BY <2>0 DEF Linked, Contains, ListDistinct
  <2>b. /\ ChainDistinct' /\ \A q \in Parties : InChain(q)' <=> InChain(q)
    BY <2>0 DEF InChain, ChainDistinct
  <2>1. ListInv'
    BY <2>0, <2>a DEF TypeInv, ListInv
  <2>2. ChainInv'
    BY <2>0, <2>a, <2>b DEF TypeInv, ChainInv, Taken, ListInv
  <2>3. FreshInv'
    BY <2>0 DEF TypeInv, FreshInv
  <2>4. LockInv'
    BY <2>0 DEF TypeInv, LockInv
  <2>5. CountInv'
    BY <2>0, <2>a DEF TypeInv, CountInv, LockInv
  <2>6. NoPermitForgotten'
    BY <2>0, <2>a DEF TypeInv, NoPermitForgotten
  <2>7. Accounts
    <3>1. Holders' = Holders
      BY <2>0, <2>a DEF TypeInv, Holders, Taken, ListInv
    <3> QED
      BY <2>0, <3>1 DEF Accounts
  <2> QED
    BY <2>1, <2>2, <2>3, <2>4, <2>5, <2>6, <2>7 DEF MoveInv
<1>6. ASSUME NEW p \in Parties, Recheck(p) PROVE MoveInv' /\ Accounts
  <2>1. ASSUME pc[p] = "recheck" /\ pc' = [pc EXCEPT ![p] = "retract"],
               permits > 0,
               permits' = permits - 1,
               UNCHANGED <<waiterCount, lock, waiters, satisfied, chain>>,
               forfeited' = forfeited
        PROVE  MoveInv' /\ Accounts
    <3>a. /\ ListDistinct' /\ Len(waiters') = Len(waiters)
          /\ \A q \in Parties : Linked(q)' <=> Linked(q)
      BY <2>1 DEF Linked, Contains, ListDistinct
    <3>b. /\ ChainDistinct' /\ \A q \in Parties : InChain(q)' <=> InChain(q)
      BY <2>1 DEF InChain, ChainDistinct
    <3>1. ListInv'
      BY <2>1, <3>a DEF TypeInv, ListInv
    <3>2. ChainInv'
      BY <2>1, <3>a, <3>b DEF TypeInv, ChainInv, Taken, ListInv
    <3>3. FreshInv'
      BY <2>1 DEF TypeInv, FreshInv
    <3>4. LockInv'
      BY <2>1 DEF TypeInv, LockInv
    <3>5. CountInv'
      BY <2>1, <3>a DEF TypeInv, CountInv, LockInv
    <3>6. NoPermitForgotten'
      BY <2>1, <3>a DEF TypeInv, NoPermitForgotten
    <3>7. Accounts
      <4>1. Holders' = Holders \cup {p} /\ p \notin Holders
        BY <2>1, <3>a DEF TypeInv, Holders, Taken, ListInv
      <4>2. Enters(p)
        BY <2>1, <4>1 DEF Enters
      <4> QED
        BY <4>2 DEF Accounts
    <3> QED
      BY <3>1, <3>2, <3>3, <3>4, <3>5, <3>6, <3>7 DEF MoveInv
  <2>2. ASSUME pc[p] = "recheck" /\ pc' = [pc EXCEPT ![p] = "wait"],
               permits = 0,
               waiters' = Append(waiters, p),
               lock' = NoOne,
               UNCHANGED <<permits, waiterCount, satisfied, chain>>,
               forfeited' = forfeited
        PROVE  MoveInv' /\ Accounts
    <3>a. /\ ListDistinct' /\ Len(waiters') = Len(waiters) + 1 /\ ~Linked(p)
          /\ \A q \in Parties : Linked(q)' <=> Linked(q) \/ q = p
      <4>1. ~Linked(p)
        BY <2>2 DEF ListInv
      <4> QED
        BY <2>2, <4>1, Enlisted DEF TypeInv
    <3>b. /\ ChainDistinct' /\ \A q \in Parties : InChain(q)' <=> InChain(q)
      BY <2>2 DEF InChain, ChainDistinct
    <3>1. ListInv'
      BY <2>2, <3>a DEF TypeInv, ListInv, FreshInv
    <3>2. ChainInv'
      BY <2>2, <3>a, <3>b DEF TypeInv, ChainInv, Taken, ListInv
    <3>3. FreshInv'
      BY <2>2 DEF TypeInv, FreshInv
    <3>4. LockInv'
      BY <2>2 DEF TypeInv, LockInv
    <3>5. CountInv'
      BY <2>2, <3>a DEF TypeInv, CountInv, LockInv
    <3>6. NoPermitForgotten'
      BY <2>2, <3>a DEF TypeInv, NoPermitForgotten
    <3>7. Accounts
      <4>1. Holders' = Holders
        BY <2>2, <3>a DEF TypeInv, Holders, Taken, ListInv
      <4> QED
        BY <2>2, <4>1 DEF Accounts
    <3> QED
      BY <3>1, <3>2, <3>3, <3>4, <3>5, <3>6, <3>7 DEF MoveInv
  <2> QED
    BY <1>6, <2>1, <2>2 DEF Recheck, Go, Lock, Unlock
<1>7. ASSUME NEW p \in Parties, Retract(p) PROVE MoveInv' /\ Accounts
  <2>0. /\ pc[p] = "retract" /\ pc' = [pc EXCEPT ![p] = "in"]
        /\ waiterCount' = waiterCount - 1
        /\ lock' = NoOne
        /\ UNCHANGED <<permits, waiters, satisfied, chain>>
        /\ forfeited' = forfeited
    BY <1>7 DEF Retract, Go, Lock, Unlock
  <2>a. /\ ListDistinct' /\ Len(waiters') = Len(waiters)
        /\ \A q \in Parties : Linked(q)' <=> Linked(q)
    BY <2>0 DEF Linked, Contains, ListDistinct
  <2>b. /\ ChainDistinct' /\ \A q \in Parties : InChain(q)' <=> InChain(q)
    BY <2>0 DEF InChain, ChainDistinct
  <2>1. ListInv'
    BY <2>0, <2>a DEF TypeInv, ListInv
  <2>2. ChainInv'
    BY <2>0, <2>a, <2>b DEF TypeInv, ChainInv, Taken, ListInv
  <2>3. FreshInv'
    BY <2>0 DEF TypeInv, FreshInv
  <2>4. LockInv'
    BY <2>0 DEF TypeInv, LockInv
  <2>5. CountInv'
    BY <2>0, <2>a DEF TypeInv, CountInv, LockInv
  <2>6. NoPermitForgotten'
    BY <2>0, <2>a DEF TypeInv, NoPermitForgotten
  <2>7. Accounts
    <3>1. Holders' = Holders
      BY <2>0, <2>a DEF TypeInv, Holders, Taken, ListInv
    <3> QED
      BY <2>0, <3>1 DEF Accounts
  <2> QED
    BY <2>1, <2>2, <2>3, <2>4, <2>5, <2>6, <2>7 DEF MoveInv
<1>8. ASSUME NEW p \in Parties, WaitReturns(p) PROVE MoveInv' /\ Accounts
  <2>0. /\ pc[p] = "wait" /\ pc' = [pc EXCEPT ![p] = "in"]
        /\ satisfied[p]
        /\ UNCHANGED <<permits, waiterCount, lock, waiters, satisfied, chain>>
        /\ forfeited' = forfeited
    BY <1>8 DEF WaitReturns, Go, Lock, Unlock
  <2>a. /\ ListDistinct' /\ Len(waiters') = Len(waiters)
        /\ \A q \in Parties : Linked(q)' <=> Linked(q)
    BY <2>0 DEF Linked, Contains, ListDistinct
  <2>b. /\ ChainDistinct' /\ \A q \in Parties : InChain(q)' <=> InChain(q)
    BY <2>0 DEF InChain, ChainDistinct
  <2>1. ListInv'
    BY <2>0, <2>a DEF TypeInv, ListInv
  <2>2. ChainInv'
    BY <2>0, <2>a, <2>b DEF TypeInv, ChainInv, Taken, ListInv
  <2>3. FreshInv'
    BY <2>0 DEF TypeInv, FreshInv
  <2>4. LockInv'
    BY <2>0 DEF TypeInv, LockInv
  <2>5. CountInv'
    BY <2>0, <2>a DEF TypeInv, CountInv, LockInv
  <2>6. NoPermitForgotten'
    BY <2>0, <2>a DEF TypeInv, NoPermitForgotten
  <2>7. Accounts
    <3>1. Holders' = Holders
      BY <2>0, <2>a DEF TypeInv, Holders, Taken, ListInv
    <3> QED
      BY <2>0, <3>1 DEF Accounts
  <2> QED
    BY <2>1, <2>2, <2>3, <2>4, <2>5, <2>6, <2>7 DEF MoveInv
<1>9. ASSUME NEW p \in Parties, Cancel(p) PROVE MoveInv' /\ Accounts
  <2>1. ASSUME pc[p] = "wait" /\ pc' = [pc EXCEPT ![p] = "out"],
               lock = NoOne,
               Unlink(p),
               waiterCount' = waiterCount - 1,
               UNCHANGED <<permits, lock, satisfied, chain>>,
               forfeited' = forfeited
        PROVE  MoveInv' /\ Accounts
    <3>a. /\ ListDistinct' /\ Len(waiters') = Len(waiters) - 1 /\ Linked(p)
          /\ \A q \in Parties : Linked(q)' <=> Linked(q) /\ q # p
      BY <2>1, Unlinked DEF TypeInv
    <3>b. /\ ChainDistinct' /\ \A q \in Parties : InChain(q)' <=> InChain(q)
      BY <2>1 DEF InChain, ChainDistinct
    <3>1. ListInv'
      BY <2>1, <3>a DEF TypeInv, ListInv
    <3>2. ChainInv'
      BY <2>1, <3>a, <3>b DEF TypeInv, ChainInv, Taken, ListInv
    <3>3. FreshInv'
      BY <2>1 DEF TypeInv, FreshInv
    <3>4. LockInv'
      BY <2>1 DEF TypeInv, LockInv
    <3>5. CountInv'
      BY <2>1, <3>a DEF TypeInv, CountInv, LockInv
    <3>6. NoPermitForgotten'
      BY <2>1, <3>a DEF TypeInv, NoPermitForgotten
    <3>7. Accounts
      <4>1. Holders' = Holders
        BY <2>1, <3>a DEF TypeInv, Holders, Taken, ListInv
      <4> QED
        BY <2>1, <4>1 DEF Accounts
    <3> QED
      BY <3>1, <3>2, <3>3, <3>4, <3>5, <3>6, <3>7 DEF MoveInv
  <2>2. ASSUME UNCHANGED <<permits, waiterCount, lock, waiters, satisfied, chain, pc>>,
               forfeited' = forfeited
        PROVE  MoveInv' /\ Accounts
    <3>a. /\ ListDistinct' /\ Len(waiters') = Len(waiters)
          /\ \A q \in Parties : Linked(q)' <=> Linked(q)
      BY <2>2 DEF Linked, Contains, ListDistinct
    <3>b. /\ ChainDistinct' /\ \A q \in Parties : InChain(q)' <=> InChain(q)
      BY <2>2 DEF InChain, ChainDistinct
    <3>1. ListInv'
      BY <2>2, <3>a DEF TypeInv, ListInv
    <3>2. ChainInv'
      BY <2>2, <3>a, <3>b DEF TypeInv, ChainInv, Taken, ListInv
    <3>3. FreshInv'
      BY <2>2 DEF TypeInv, FreshInv
    <3>4. LockInv'
      BY <2>2 DEF TypeInv, LockInv
    <3>5. CountInv'
      BY <2>2, <3>a DEF TypeInv, CountInv, LockInv
    <3>6. NoPermitForgotten'
      BY <2>2, <3>a DEF TypeInv, NoPermitForgotten
    <3>7. Accounts
      <4>1. Holders' = Holders
        BY <2>2, <3>a DEF TypeInv, Holders, Taken, ListInv
      <4> QED
        BY <2>2, <4>1 DEF Accounts
    <3> QED
      BY <3>1, <3>2, <3>3, <3>4, <3>5, <3>6, <3>7 DEF MoveInv
  <2> QED
    BY <1>9, <2>1, <2>2 DEF Cancel, Go, Lock, Unlock
<1>10. ASSUME NEW p \in Parties, Unwind(p) PROVE MoveInv' /\ Accounts
  <2>0. /\ pc[p] = "wait" /\ pc' = [pc EXCEPT ![p] = "unwindLock"]
        /\ UNCHANGED <<permits, waiterCount, lock, waiters, satisfied, chain>>
        /\ forfeited' = forfeited
    BY <1>10 DEF Unwind, Go, Lock, Unlock
  <2>a. /\ ListDistinct' /\ Len(waiters') = Len(waiters)
        /\ \A q \in Parties : Linked(q)' <=> Linked(q)
    BY <2>0 DEF Linked, Contains, ListDistinct
  <2>b. /\ ChainDistinct' /\ \A q \in Parties : InChain(q)' <=> InChain(q)
    BY <2>0 DEF InChain, ChainDistinct
  <2>1. ListInv'
    BY <2>0, <2>a DEF TypeInv, ListInv
  <2>2. ChainInv'
    BY <2>0, <2>a, <2>b DEF TypeInv, ChainInv, Taken, ListInv
  <2>3. FreshInv'
    BY <2>0 DEF TypeInv, FreshInv
  <2>4. LockInv'
    BY <2>0 DEF TypeInv, LockInv
  <2>5. CountInv'
    BY <2>0, <2>a DEF TypeInv, CountInv, LockInv
  <2>6. NoPermitForgotten'
    BY <2>0, <2>a DEF TypeInv, NoPermitForgotten
  <2>7. Accounts
    <3>1. Holders' = Holders
      BY <2>0, <2>a DEF TypeInv, Holders, Taken, ListInv
    <3> QED
      BY <2>0, <3>1 DEF Accounts
  <2> QED
    BY <2>1, <2>2, <2>3, <2>4, <2>5, <2>6, <2>7 DEF MoveInv
<1>11. ASSUME NEW p \in Parties, UnwindLinked(p) PROVE MoveInv' /\ Accounts
  <2>0. /\ pc[p] = "unwindLock" /\ pc' = [pc EXCEPT ![p] = "gone"]
        /\ lock = NoOne
        /\ Unlink(p)
        /\ waiterCount' = waiterCount - 1
        /\ UNCHANGED <<permits, lock, satisfied, chain>>
        /\ forfeited' = forfeited
    BY <1>11 DEF UnwindLinked, Go, Lock, Unlock
  <2>a. /\ ListDistinct' /\ Len(waiters') = Len(waiters) - 1 /\ Linked(p)
        /\ \A q \in Parties : Linked(q)' <=> Linked(q) /\ q # p
    BY <2>0, Unlinked DEF TypeInv
  <2>b. /\ ChainDistinct' /\ \A q \in Parties : InChain(q)' <=> InChain(q)
    BY <2>0 DEF InChain, ChainDistinct
  <2>1. ListInv'
    BY <2>0, <2>a DEF TypeInv, ListInv
  <2>2. ChainInv'
    BY <2>0, <2>a, <2>b DEF TypeInv, ChainInv, Taken, ListInv
  <2>3. FreshInv'
    BY <2>0 DEF TypeInv, FreshInv
  <2>4. LockInv'
    BY <2>0 DEF TypeInv, LockInv
  <2>5. CountInv'
    BY <2>0, <2>a DEF TypeInv, CountInv, LockInv
  <2>6. NoPermitForgotten'
    BY <2>0, <2>a DEF TypeInv, NoPermitForgotten
  <2>7. Accounts
    <3>1. Holders' = Holders
      BY <2>0, <2>a DEF TypeInv, Holders, Taken, ListInv
    <3> QED
      BY <2>0, <3>1 DEF Accounts
  <2> QED
    BY <2>1, <2>2, <2>3, <2>4, <2>5, <2>6, <2>7 DEF MoveInv
<1>12. ASSUME NEW p \in Parties, UnwindTaken(p) PROVE MoveInv' /\ Accounts
  <2>0. /\ pc[p] = "unwindLock" /\ pc' = [pc EXCEPT ![p] = "awaitNotifier"]
        /\ ~Linked(p)
        /\ UNCHANGED <<permits, waiterCount, lock, waiters, satisfied, chain>>
        /\ forfeited' = forfeited
    BY <1>12 DEF UnwindTaken, Go, Lock, Unlock
  <2>a. /\ ListDistinct' /\ Len(waiters') = Len(waiters)
        /\ \A q \in Parties : Linked(q)' <=> Linked(q)
    BY <2>0 DEF Linked, Contains, ListDistinct
  <2>b. /\ ChainDistinct' /\ \A q \in Parties : InChain(q)' <=> InChain(q)
    BY <2>0 DEF InChain, ChainDistinct
  <2>1. ListInv'
    BY <2>0, <2>a DEF TypeInv, ListInv
  <2>2. ChainInv'
    BY <2>0, <2>a, <2>b DEF TypeInv, ChainInv, Taken, ListInv
  <2>3. FreshInv'
    BY <2>0 DEF TypeInv, FreshInv
  <2>4. LockInv'
    BY <2>0 DEF TypeInv, LockInv
  <2>5. CountInv'
    BY <2>0, <2>a DEF TypeInv, CountInv, LockInv
  <2>6. NoPermitForgotten'
    BY <2>0, <2>a DEF TypeInv, NoPermitForgotten
  <2>7. Accounts
    <3>1. Holders' = Holders
      BY <2>0, <2>a DEF TypeInv, Holders, Taken, ListInv
    <3> QED
      BY <2>0, <3>1 DEF Accounts
  <2> QED
    BY <2>1, <2>2, <2>3, <2>4, <2>5, <2>6, <2>7 DEF MoveInv
<1>13. ASSUME NEW p \in Parties, AwaitNotifier(p) PROVE MoveInv' /\ Accounts
  <2>0. /\ pc[p] = "awaitNotifier" /\ pc' = [pc EXCEPT ![p] = "gone"]
        /\ satisfied[p]
        /\ UNCHANGED <<permits, waiterCount, lock, waiters, satisfied, chain>>
        /\ forfeited' = forfeited + 1
    BY <1>13 DEF AwaitNotifier, Go, Lock, Unlock
  <2>a. /\ ListDistinct' /\ Len(waiters') = Len(waiters)
        /\ \A q \in Parties : Linked(q)' <=> Linked(q)
    BY <2>0 DEF Linked, Contains, ListDistinct
  <2>b. /\ ChainDistinct' /\ \A q \in Parties : InChain(q)' <=> InChain(q)
    BY <2>0 DEF InChain, ChainDistinct
  <2>1. ListInv'
    BY <2>0, <2>a DEF TypeInv, ListInv
  <2>2. ChainInv'
    BY <2>0, <2>a, <2>b DEF TypeInv, ChainInv, Taken, ListInv
  <2>3. FreshInv'
    BY <2>0 DEF TypeInv, FreshInv
  <2>4. LockInv'
    BY <2>0 DEF TypeInv, LockInv
  <2>5. CountInv'
    BY <2>0, <2>a DEF TypeInv, CountInv, LockInv
  <2>6. NoPermitForgotten'
    BY <2>0, <2>a DEF TypeInv, NoPermitForgotten
  <2>7. Accounts
    <3>1. Holders' = Holders \ {p} /\ p \in Holders
      BY <2>0, <2>a DEF TypeInv, Holders, Taken, ListInv
    <3>2. Forfeits(p)
      BY <2>0, <3>1 DEF Forfeits
    <3> QED
      BY <3>2 DEF Accounts
  <2> QED
    BY <2>1, <2>2, <2>3, <2>4, <2>5, <2>6, <2>7 DEF MoveInv
<1>14. ASSUME NEW p \in Parties, Release(p) PROVE MoveInv' /\ Accounts
  <2>0. /\ pc[p] = "in" /\ pc' = [pc EXCEPT ![p] = "relCount"]
        /\ permits' = permits + 1
        /\ UNCHANGED <<waiterCount, lock, waiters, satisfied, chain>>
        /\ forfeited' = forfeited
    BY <1>14 DEF Release, Go, Lock, Unlock
  <2>a. /\ ListDistinct' /\ Len(waiters') = Len(waiters)
        /\ \A q \in Parties : Linked(q)' <=> Linked(q)
    BY <2>0 DEF Linked, Contains, ListDistinct
  <2>b. /\ ChainDistinct' /\ \A q \in Parties : InChain(q)' <=> InChain(q)
    BY <2>0 DEF InChain, ChainDistinct
  <2>1. ListInv'
    BY <2>0, <2>a DEF TypeInv, ListInv
  <2>2. ChainInv'
    BY <2>0, <2>a, <2>b DEF TypeInv, ChainInv, Taken, ListInv
  <2>3. FreshInv'
    BY <2>0 DEF TypeInv, FreshInv
  <2>4. LockInv'
    BY <2>0 DEF TypeInv, LockInv
  <2>5. CountInv'
    BY <2>0, <2>a DEF TypeInv, CountInv, LockInv
  <2>6. NoPermitForgotten'
    BY <2>0, <2>a DEF TypeInv, NoPermitForgotten
  <2>7. Accounts
    <3>1. Holders' = Holders \ {p} /\ p \in Holders
      BY <2>0, <2>a DEF TypeInv, Holders, Taken, ListInv
    <3>2. Leaves(p)
      BY <2>0, <3>1 DEF Leaves
    <3> QED
      BY <3>2 DEF Accounts
  <2> QED
    BY <2>1, <2>2, <2>3, <2>4, <2>5, <2>6, <2>7 DEF MoveInv
<1>15. ASSUME NEW p \in Parties, ReleaseCount(p) PROVE MoveInv' /\ Accounts
  <2>1. ASSUME waiterCount = 0,
               pc[p] = "relCount" /\ pc' = [pc EXCEPT ![p] = "out"],
               UNCHANGED <<permits, waiterCount, lock, waiters, satisfied, chain>>,
               forfeited' = forfeited
        PROVE  MoveInv' /\ Accounts
    <3>a. /\ ListDistinct' /\ Len(waiters') = Len(waiters)
          /\ \A q \in Parties : Linked(q)' <=> Linked(q)
      BY <2>1 DEF Linked, Contains, ListDistinct
    <3>b. /\ ChainDistinct' /\ \A q \in Parties : InChain(q)' <=> InChain(q)
      BY <2>1 DEF InChain, ChainDistinct
    <3>1. ListInv'
      BY <2>1, <3>a DEF TypeInv, ListInv
    <3>2. ChainInv'
      BY <2>1, <3>a, <3>b DEF TypeInv, ChainInv, Taken, ListInv
    <3>3. FreshInv'
      BY <2>1 DEF TypeInv, FreshInv
    <3>4. LockInv'
      BY <2>1 DEF TypeInv, LockInv
    <3>5. CountInv'
      BY <2>1, <3>a DEF TypeInv, CountInv, LockInv
    <3>6. NoPermitForgotten'
      BY <2>1, <3>a DEF TypeInv, NoPermitForgotten, CountInv
    <3>7. Accounts
      <4>1. Holders' = Holders
        BY <2>1, <3>a DEF TypeInv, Holders, Taken, ListInv
      <4> QED
        BY <2>1, <4>1 DEF Accounts
    <3> QED
      BY <3>1, <3>2, <3>3, <3>4, <3>5, <3>6, <3>7 DEF MoveInv
  <2>2. ASSUME pc[p] = "relCount" /\ pc' = [pc EXCEPT ![p] = "relLock"],
               UNCHANGED <<permits, waiterCount, lock, waiters, satisfied, chain>>,
               forfeited' = forfeited
        PROVE  MoveInv' /\ Accounts
    <3>a. /\ ListDistinct' /\ Len(waiters') = Len(waiters)
          /\ \A q \in Parties : Linked(q)' <=> Linked(q)
      BY <2>2 DEF Linked, Contains, ListDistinct
    <3>b. /\ ChainDistinct' /\ \A q \in Parties : InChain(q)' <=> InChain(q)
      BY <2>2 DEF InChain, ChainDistinct
    <3>1. ListInv'
      BY <2>2, <3>a DEF TypeInv, ListInv
    <3>2. ChainInv'
      BY <2>2, <3>a, <3>b DEF TypeInv, ChainInv, Taken, ListInv
    <3>3. FreshInv'
      BY <2>2 DEF TypeInv, FreshInv
    <3>4. LockInv'
      BY <2>2 DEF TypeInv, LockInv
    <3>5. CountInv'
      BY <2>2, <3>a DEF TypeInv, CountInv, LockInv
    <3>6. NoPermitForgotten'
      BY <2>2, <3>a DEF TypeInv, NoPermitForgotten
    <3>7. Accounts
      <4>1. Holders' = Holders
        BY <2>2, <3>a DEF TypeInv, Holders, Taken, ListInv
      <4> QED
        BY <2>2, <4>1 DEF Accounts
    <3> QED
      BY <3>1, <3>2, <3>3, <3>4, <3>5, <3>6, <3>7 DEF MoveInv
  <2> QED
    BY <1>15, <2>1, <2>2 DEF ReleaseCount, Go, Lock, Unlock
<1>16. ASSUME NEW p \in Parties, ReleaseLock(p) PROVE MoveInv' /\ Accounts
  <2>0. /\ pc[p] = "relLock" /\ pc' = [pc EXCEPT ![p] = "handOut"]
        /\ lock = NoOne
        /\ lock' = p
        /\ UNCHANGED <<permits, waiterCount, waiters, satisfied, chain>>
        /\ forfeited' = forfeited
    BY <1>16 DEF ReleaseLock, Go, Lock, Unlock
  <2>a. /\ ListDistinct' /\ Len(waiters') = Len(waiters)
        /\ \A q \in Parties : Linked(q)' <=> Linked(q)
    BY <2>0 DEF Linked, Contains, ListDistinct
  <2>b. /\ ChainDistinct' /\ \A q \in Parties : InChain(q)' <=> InChain(q)
    BY <2>0 DEF InChain, ChainDistinct
  <2>1. ListInv'
    BY <2>0, <2>a DEF TypeInv, ListInv
  <2>2. ChainInv'
    BY <2>0, <2>a, <2>b DEF TypeInv, ChainInv, Taken, ListInv
  <2>3. FreshInv'
    BY <2>0 DEF TypeInv, FreshInv
  <2>4. LockInv'
    BY <2>0 DEF TypeInv, LockInv
  <2>5. CountInv'
    BY <2>0, <2>a DEF TypeInv, CountInv, LockInv
  <2>6. NoPermitForgotten'
    BY <2>0, <2>a DEF TypeInv, NoPermitForgotten
  <2>7. Accounts
    <3>1. Holders' = Holders
      BY <2>0, <2>a DEF TypeInv, Holders, Taken, ListInv
    <3> QED
      BY <2>0, <3>1 DEF Accounts
  <2> QED
    BY <2>1, <2>2, <2>3, <2>4, <2>5, <2>6, <2>7 DEF MoveInv
<1>17. ASSUME NEW p \in Parties, HandOut(p) PROVE MoveInv' /\ Accounts
  <2>1. ASSUME pc[p] = "handOut" /\ pc' = [pc EXCEPT ![p] = "handCount"],
               waiters # <<>>,
               permits > 0,
               permits' = permits - 1,
               waiters' = Tail(waiters),
               chain' = [chain EXCEPT ![p] = Append(@, Head(waiters))],
               UNCHANGED <<waiterCount, lock, satisfied>>,
               forfeited' = forfeited
        PROVE  MoveInv' /\ Accounts
    <3> DEFINE h == Head(waiters)
    <3>a. /\ ListDistinct' /\ Len(waiters') = Len(waiters) - 1 /\ h \in Parties /\ Linked(h)
          /\ \A q \in Parties : Linked(q)' <=> Linked(q) /\ q # h
      BY <2>1, HeadLeaves DEF TypeInv
    <3> HIDE DEF h
    <3>h. chain' = [chain EXCEPT ![p] = Append(@, h)]
      BY <2>1 DEF h
    <3>b. /\ ~InChain(h) /\ ChainDistinct'
          /\ \A q \in Parties : InChain(q)' <=> InChain(q) \/ q = h
      <4>1. ~InChain(h)
        BY <3>a DEF ChainInv, Taken
      <4> QED
        BY <3>a, <3>h, <4>1, Chained DEF TypeInv
    <3>1. ListInv'
      BY <2>1, <3>h, <3>a DEF TypeInv, ListInv
    <3>2. ChainInv'
      BY <2>1, <3>h, <3>a, <3>b DEF TypeInv, ChainInv, Taken, ListInv
    <3>3. FreshInv'
      BY <2>1, <3>h DEF TypeInv, FreshInv
    <3>4. LockInv'
      BY <2>1, <3>h DEF TypeInv, LockInv
    <3>5. CountInv'
      <4>1. \A q \in Parties : pc[q] \notin {"recheck", "retract", "handCount"}
        BY <2>1 DEF LockInv
      <4>2. pc'[p] = "handCount"
        BY <2>1 DEF TypeInv
      <4>3. waiterCount = Len(waiters)
        BY <4>1 DEF CountInv
      <4>4. \E q \in Parties : pc'[q] \in {"recheck", "retract", "handCount"}
        BY <4>2
      <4>5. waiterCount' = waiterCount /\ Len(waiters') + 1 = Len(waiters)
        BY <2>1, <3>a
      <4> QED
        BY <4>3, <4>4, <4>5 DEF CountInv
    <3>6. NoPermitForgotten'
      BY <2>1, <3>h, <3>a DEF TypeInv, NoPermitForgotten
    <3>7. Accounts
      <4>0. /\ pc[h] \in {"wait", "unwindLock"} /\ h # p /\ pc'[h] = pc[h]
            /\ \A q \in Parties \ {p} : pc'[q] = pc[q]
            /\ pc'[p] = "handCount"
        BY <2>1, <3>h, <3>a DEF TypeInv, ListInv
      <4>1. Holders' = Holders \cup {h} /\ h \notin Holders
        <5>0. PICK g \in Parties : g = h
          BY <3>a
        <5>1. \A q \in Parties \ {g} : Taken(q)' <=> Taken(q)
          BY <2>1, <3>a, <4>0, <5>0 DEF Taken
        <5>2. Taken(g)' /\ ~Taken(g)
          BY <3>a, <4>0, <5>0 DEF Taken
        <5>3. \A q \in Parties : pc'[q] \in {"retract", "in"} <=> pc[q] \in {"retract", "in"}
          BY <2>1, <4>0
        <5>4. pc[g] \notin {"retract", "in"}
          BY <4>0, <5>0
        <5>5. Holders' = Holders \cup {g} /\ g \notin Holders
          BY <5>1, <5>2, <5>3, <5>4 DEF Holders
        <5> QED
          BY <5>0, <5>5
      <4>2. Enters(h)
        BY <2>1, <4>1 DEF Enters
      <4> QED
        BY <4>2, <3>a DEF Accounts
    <3> QED
      BY <3>1, <3>2, <3>3, <3>4, <3>5, <3>6, <3>7 DEF MoveInv
  <2>2. ASSUME pc[p] = "handOut" /\ pc' = [pc EXCEPT ![p] = "notify"],
               waiters = <<>> \/ permits = 0,
               lock' = NoOne,
               UNCHANGED <<permits, waiterCount, waiters, satisfied, chain>>,
               forfeited' = forfeited
        PROVE  MoveInv' /\ Accounts
    <3>a. /\ ListDistinct' /\ Len(waiters') = Len(waiters)
          /\ \A q \in Parties : Linked(q)' <=> Linked(q)
      BY <2>2 DEF Linked, Contains, ListDistinct
    <3>b. /\ ChainDistinct' /\ \A q \in Parties : InChain(q)' <=> InChain(q)
      BY <2>2 DEF InChain, ChainDistinct
    <3>1. ListInv'
      BY <2>2, <3>a DEF TypeInv, ListInv
    <3>2. ChainInv'
      BY <2>2, <3>a, <3>b DEF TypeInv, ChainInv, Taken, ListInv
    <3>3. FreshInv'
      BY <2>2 DEF TypeInv, FreshInv
    <3>4. LockInv'
      BY <2>2 DEF TypeInv, LockInv
    <3>5. CountInv'
      BY <2>2, <3>a DEF TypeInv, CountInv, LockInv
    <3>6. NoPermitForgotten'
      BY <2>2, <3>a DEF TypeInv, NoPermitForgotten
    <3>7. Accounts
      <4>1. Holders' = Holders
        BY <2>2, <3>a DEF TypeInv, Holders, Taken, ListInv
      <4> QED
        BY <2>2, <4>1 DEF Accounts
    <3> QED
      BY <3>1, <3>2, <3>3, <3>4, <3>5, <3>6, <3>7 DEF MoveInv
  <2> QED
    BY <1>17, <2>1, <2>2 DEF HandOut, Go, Lock, Unlock
<1>18. ASSUME NEW p \in Parties, HandCount(p) PROVE MoveInv' /\ Accounts
  <2>0. /\ pc[p] = "handCount" /\ pc' = [pc EXCEPT ![p] = "handOut"]
        /\ waiterCount' = waiterCount - 1
        /\ UNCHANGED <<permits, lock, waiters, satisfied, chain>>
        /\ forfeited' = forfeited
    BY <1>18 DEF HandCount, Go, Lock, Unlock
  <2>a. /\ ListDistinct' /\ Len(waiters') = Len(waiters)
        /\ \A q \in Parties : Linked(q)' <=> Linked(q)
    BY <2>0 DEF Linked, Contains, ListDistinct
  <2>b. /\ ChainDistinct' /\ \A q \in Parties : InChain(q)' <=> InChain(q)
    BY <2>0 DEF InChain, ChainDistinct
  <2>1. ListInv'
    BY <2>0, <2>a DEF TypeInv, ListInv
  <2>2. ChainInv'
    BY <2>0, <2>a, <2>b DEF TypeInv, ChainInv, Taken, ListInv
  <2>3. FreshInv'
    BY <2>0 DEF TypeInv, FreshInv
  <2>4. LockInv'
    BY <2>0 DEF TypeInv, LockInv
  <2>5. CountInv'
    BY <2>0, <2>a DEF TypeInv, CountInv, LockInv
  <2>6. NoPermitForgotten'
    BY <2>0, <2>a DEF TypeInv, NoPermitForgotten
  <2>7. Accounts
    <3>1. Holders' = Holders
      BY <2>0, <2>a DEF TypeInv, Holders, Taken, ListInv
    <3> QED
      BY <2>0, <3>1 DEF Accounts
  <2> QED
    BY <2>1, <2>2, <2>3, <2>4, <2>5, <2>6, <2>7 DEF MoveInv
<1>19. ASSUME NEW p \in Parties, Notify(p) PROVE MoveInv' /\ Accounts
  <2>1. ASSUME pc[p] = "notify" /\ pc' = [pc EXCEPT ![p] = "out"],
               UNCHANGED <<permits, waiterCount, lock, waiters, satisfied, chain>>,
               forfeited' = forfeited
        PROVE  MoveInv' /\ Accounts
    <3>a. /\ ListDistinct' /\ Len(waiters') = Len(waiters)
          /\ \A q \in Parties : Linked(q)' <=> Linked(q)
      BY <2>1 DEF Linked, Contains, ListDistinct
    <3>b. /\ ChainDistinct' /\ \A q \in Parties : InChain(q)' <=> InChain(q)
      BY <2>1 DEF InChain, ChainDistinct
    <3>1. ListInv'
      BY <2>1, <3>a DEF TypeInv, ListInv
    <3>2. ChainInv'
      BY <2>1, <3>a, <3>b DEF TypeInv, ChainInv, Taken, ListInv
    <3>3. FreshInv'
      BY <2>1 DEF TypeInv, FreshInv
    <3>4. LockInv'
      BY <2>1 DEF TypeInv, LockInv
    <3>5. CountInv'
      BY <2>1, <3>a DEF TypeInv, CountInv, LockInv
    <3>6. NoPermitForgotten'
      BY <2>1, <3>a DEF TypeInv, NoPermitForgotten
    <3>7. Accounts
      <4>1. Holders' = Holders
        BY <2>1, <3>a DEF TypeInv, Holders, Taken, ListInv
      <4> QED
        BY <2>1, <4>1 DEF Accounts
    <3> QED
      BY <3>1, <3>2, <3>3, <3>4, <3>5, <3>6, <3>7 DEF MoveInv
  <2>2. ASSUME pc[p] = "notify",
               chain[p] # <<>>,
               chain' = [chain EXCEPT ![p] = Tail(@)],
               pc' = [pc EXCEPT ![Head(chain[p])] = "in"],
               UNCHANGED <<permits, waiterCount, lock, waiters, satisfied>>,
               forfeited' = forfeited
        PROVE  MoveInv' /\ Accounts
    <3> DEFINE h == Head(chain[p])
    <3>a. /\ ListDistinct' /\ Len(waiters') = Len(waiters)
          /\ \A q \in Parties : Linked(q)' <=> Linked(q)
      BY <2>2 DEF Linked, Contains, ListDistinct
    <3>b. /\ ChainDistinct' /\ h \in Parties /\ InChain(h)
          /\ \A q \in Parties : InChain(q)' => InChain(q) /\ q # h
      BY <2>2, Unchained DEF TypeInv
    <3>h. /\ pc' = [pc EXCEPT ![h] = "in"]
          /\ Taken(h) /\ ~satisfied[h] /\ h # p
      BY <2>2, <3>b DEF ChainInv, Taken
    <3> HIDE DEF h
    <3>1. ListInv'
      BY <2>2, <3>h, <3>a DEF TypeInv, ListInv, Taken
    <3>2. ChainInv'
      BY <2>2, <3>h, <3>a, <3>b DEF TypeInv, ChainInv, Taken, ListInv
    <3>3. FreshInv'
      BY <2>2, <3>h, <3>a, <3>b DEF TypeInv, FreshInv, Taken
    <3>4. LockInv'
      BY <2>2, <3>h, <3>a, <3>b DEF TypeInv, LockInv, Taken
    <3>5. CountInv'
      BY <2>2, <3>h, <3>a, <3>b DEF TypeInv, CountInv, LockInv, Taken
    <3>6. NoPermitForgotten'
      BY <2>2, <3>h, <3>a, <3>b DEF TypeInv, NoPermitForgotten, Taken
    <3>7. Accounts
      <4>1. Holders' = Holders
        BY <2>2, <3>h, <3>a, <3>b DEF TypeInv, Holders, Taken, ListInv
      <4> QED
        BY <2>2, <4>1 DEF Accounts
    <3> QED
      BY <3>1, <3>2, <3>3, <3>4, <3>5, <3>6, <3>7 DEF MoveInv
  <2>3. ASSUME pc[p] = "notify",
               chain[p] # <<>>,
               chain' = [chain EXCEPT ![p] = Tail(@)],
               pc' = pc,
               satisfied' = [satisfied EXCEPT ![Head(chain[p])] = TRUE],
               UNCHANGED <<permits, waiterCount, lock, waiters>>,
               forfeited' = forfeited
        PROVE  MoveInv' /\ Accounts
    <3> DEFINE h == Head(chain[p])
    <3>a. /\ ListDistinct' /\ Len(waiters') = Len(waiters)
          /\ \A q \in Parties : Linked(q)' <=> Linked(q)
      BY <2>3 DEF Linked, Contains, ListDistinct
    <3>b. /\ ChainDistinct' /\ h \in Parties /\ InChain(h)
          /\ \A q \in Parties : InChain(q)' => InChain(q) /\ q # h
      BY <2>3, Unchained DEF TypeInv
    <3>h. /\ pc' = pc /\ satisfied' = [satisfied EXCEPT ![h] = TRUE]
          /\ Taken(h) /\ ~satisfied[h] /\ h # p
      BY <2>3, <3>b DEF ChainInv, Taken
    <3> HIDE DEF h
    <3>1. ListInv'
      BY <2>3, <3>h, <3>a DEF TypeInv, ListInv, Taken
    <3>2. ChainInv'
      BY <2>3, <3>h, <3>a, <3>b DEF TypeInv, ChainInv, Taken, ListInv
    <3>3. FreshInv'
      BY <2>3, <3>h, <3>a, <3>b DEF TypeInv, FreshInv, Taken
    <3>4. LockInv'
      BY <2>3, <3>h, <3>a, <3>b DEF TypeInv, LockInv, Taken
    <3>5. CountInv'
      BY <2>3, <3>h, <3>a, <3>b DEF TypeInv, CountInv, LockInv, Taken
    <3>6. NoPermitForgotten'
      BY <2>3, <3>h, <3>a, <3>b DEF TypeInv, NoPermitForgotten, Taken
    <3>7. Accounts
      <4>1. Holders' = Holders
        BY <2>3, <3>h, <3>a, <3>b DEF TypeInv, Holders, Taken, ListInv
      <4> QED
        BY <2>3, <4>1 DEF Accounts
    <3> QED
      BY <3>1, <3>2, <3>3, <3>4, <3>5, <3>6, <3>7 DEF MoveInv
  <2> QED
    BY <1>19, <2>1, <2>2, <2>3 DEF Notify, Go, Lock, Unlock
<1> QED
  BY <1>1, <1>2, <1>3, <1>4, <1>5, <1>6, <1>7, <1>8, <1>9, <1>10, <1>11,
     <1>12, <1>13, <1>14, <1>15, <1>16, <1>17, <1>18, <1>19
  DEF Next, AcquireStep, UnwindStep, ReleaseStep
-----------------------------------------------------------------------------
(* The rest of the invariant.                                              *)

\* Every step preserves the types.
LEMMA TypeStep == TypeInv /\ MoveInv /\ [Next]_vars => TypeInv'
<1> SUFFICES ASSUME TypeInv, MoveInv, [Next]_vars PROVE TypeInv'
  OBVIOUS
<1>0. ListDistinct /\ ChainDistinct
  BY DEF MoveInv, ListInv, ChainInv
<1>a. /\ permits > 0 => permits - 1 \in Nat
      /\ permits + 1 \in Nat /\ waiterCount + 1 \in Int /\ waiterCount - 1 \in Int
  BY DEF TypeInv
<1>1. ASSUME NEW p \in Parties, TryAcquire(p) PROVE TypeInv'
  <2>1. pc' \in [Parties -> Pc]
    <3>1. "in" \in Pc /\ "drive" \in Pc /\ "slowLock" \in Pc
      BY DEF Pc
    <3> QED
      BY <1>1, <3>1 DEF TryAcquire, TypeInv, Go
  <2>2. permits' \in Nat
    BY <1>a, <1>1 DEF TryAcquire, TypeInv
  <2> QED
    BY <1>1, <2>1, <2>2 DEF TryAcquire, TypeInv
<1>2. ASSUME NEW p \in Parties, DriveAcquire(p) PROVE TypeInv'
  <2>1. pc' \in [Parties -> Pc]
    <3>1. "in" \in Pc /\ "slowLock" \in Pc
      BY DEF Pc
    <3> QED
      BY <1>2, <3>1 DEF DriveAcquire, TypeInv, Go
  <2>2. permits' \in Nat /\ cancelled' \in [Parties -> BOOLEAN]
    BY <1>a, <1>2 DEF DriveAcquire, TypeInv
  <2> QED
    BY <1>2, <2>1, <2>2 DEF DriveAcquire, TypeInv
<1>3. ASSUME NEW p \in Parties, SlowLock(p) \/ SlowCancelled(p) PROVE TypeInv'
  BY <1>3 DEF SlowLock, SlowCancelled, TypeInv, Go, Lock, Pc
<1>4. ASSUME NEW p \in Parties, Announce(p) \/ Retract(p) \/ HandCount(p) PROVE TypeInv'
  <2>1. pc' \in [Parties -> Pc]
    BY <1>4 DEF Announce, Retract, HandCount, TypeInv, Go, Pc
  <2>2. waiterCount' \in Int
    BY <1>a, <1>4 DEF Announce, Retract, HandCount
  <2> QED
    BY <1>4, <2>1, <2>2 DEF Announce, Retract, HandCount, TypeInv, Unlock
<1>5. ASSUME NEW p \in Parties, Recheck(p) PROVE TypeInv'
  <2>1. waiters' \in Seq(Parties)
    <3>1. Append(waiters, p) \in Seq(Parties)
      BY AppendProperties DEF TypeInv
    <3> QED
      BY <1>5, <3>1 DEF Recheck, TypeInv
  <2>2. pc' \in [Parties -> Pc]
    <3>1. "retract" \in Pc /\ "wait" \in Pc
      BY DEF Pc
    <3> QED
      BY <1>5, <3>1 DEF Recheck, TypeInv, Go
  <2>3. permits' \in Nat /\ lock' \in Parties \cup {NoOne}
    BY <1>a, <1>5 DEF Recheck, TypeInv, Unlock
  <2> QED
    BY <1>5, <2>1, <2>2, <2>3 DEF Recheck, TypeInv
<1>6. ASSUME NEW p \in Parties, WaitReturns(p) \/ Unwind(p) \/ UnwindTaken(p) PROVE TypeInv'
  BY <1>6 DEF WaitReturns, Unwind, UnwindTaken, TypeInv, Go, Pc
<1>7. ASSUME NEW p \in Parties, Cancel(p) PROVE TypeInv'
  <2>1. waiters' \in Seq(Parties)
    BY <1>0, <1>7, Unlinked DEF Cancel, TypeInv
  <2>2. pc' \in [Parties -> Pc]
    BY <1>7 DEF Cancel, TypeInv, Go, Pc
  <2>3. waiterCount' \in Int /\ cancelled' \in [Parties -> BOOLEAN]
    BY <1>a, <1>7 DEF Cancel, TypeInv
  <2> QED
    BY <1>7, <2>1, <2>2, <2>3 DEF Cancel, TypeInv
<1>8. ASSUME NEW p \in Parties, UnwindLinked(p) PROVE TypeInv'
  <2>1. waiters' \in Seq(Parties)
    BY <1>0, <1>8, Unlinked DEF UnwindLinked, TypeInv
  <2> QED
    BY <1>8, <2>1 DEF UnwindLinked, TypeInv, Go, Pc
<1>9. ASSUME NEW p \in Parties, AwaitNotifier(p) PROVE TypeInv'
  BY <1>9 DEF AwaitNotifier, TypeInv, Go, Pc
<1>10. ASSUME NEW p \in Parties, Release(p) \/ ReleaseCount(p) \/ ReleaseLock(p)
       PROVE  TypeInv'
  <2>1. pc' \in [Parties -> Pc]
    <3>1. "relCount" \in Pc /\ "out" \in Pc /\ "relLock" \in Pc /\ "handOut" \in Pc
      BY DEF Pc
    <3> QED
      BY <1>10, <3>1 DEF Release, ReleaseCount, ReleaseLock, TypeInv, Go
  <2>2. permits' \in Nat
    BY <1>a, <1>10 DEF Release, ReleaseCount, ReleaseLock, TypeInv
  <2> QED
    BY <1>10, <2>1, <2>2 DEF Release, ReleaseCount, ReleaseLock, TypeInv, Lock
<1>11. ASSUME NEW p \in Parties, HandOut(p) PROVE TypeInv'
  <2>1. waiters' \in Seq(Parties)
    <3>1. waiters # <<>> => Tail(waiters) \in Seq(Parties)
      BY HeadTailProperties DEF TypeInv
    <3> QED
      BY <1>11, <3>1 DEF HandOut, TypeInv
  <2>2. chain' \in [Parties -> Seq(Parties)]
    <3>1. CASE chain' = chain
      BY <3>1 DEF TypeInv
    <3>2. CASE waiters # <<>> /\ chain' = [chain EXCEPT ![p] = Append(@, Head(waiters))]
      <4>1. Head(waiters) \in Parties
        BY <3>2, HeadTailProperties DEF TypeInv
      <4>2. Append(chain[p], Head(waiters)) \in Seq(Parties)
        BY <4>1, AppendProperties DEF TypeInv
      <4> QED
        BY <3>2, <4>2 DEF TypeInv
    <3> QED
      BY <1>11, <3>1, <3>2 DEF HandOut
  <2>3. pc' \in [Parties -> Pc]
    <3>1. "handCount" \in Pc /\ "notify" \in Pc
      BY DEF Pc
    <3> QED
      BY <1>11, <3>1 DEF HandOut, TypeInv, Go
  <2>4. permits' \in Nat /\ lock' \in Parties \cup {NoOne}
    BY <1>a, <1>11 DEF HandOut, TypeInv, Unlock
  <2> QED
    BY <1>11, <2>1, <2>2, <2>3, <2>4 DEF HandOut, TypeInv
<1>12. ASSUME NEW p \in Parties, Notify(p) PROVE TypeInv'
  <2>1. CASE chain[p] = <<>>
    BY <1>12, <2>1 DEF Notify, TypeInv, Pc
  <2>2. CASE chain[p] # <<>>
    <3>1. chain' \in [Parties -> Seq(Parties)] /\ Head(chain[p]) \in Parties
      BY <1>0, <1>12, <2>2, Unchained DEF Notify, TypeInv
    <3> QED
      BY <1>12, <2>2, <3>1 DEF Notify, TypeInv, Pc
  <2> QED
    BY <2>1, <2>2
<1>13. CASE UNCHANGED vars
  BY <1>13 DEF vars, TypeInv
<1> QED
  BY <1>1, <1>2, <1>3, <1>4, <1>5, <1>6, <1>7, <1>8, <1>9, <1>10, <1>11, <1>12, <1>13
  DEF Next, AcquireStep, UnwindStep, ReleaseStep

\* Permits are neither made nor lost.
LEMMA PermitStep == TypeInv /\ PermitInv /\ Accounts => PermitInv'
<1> SUFFICES ASSUME TypeInv, PermitInv, Accounts PROVE PermitInv'
  OBVIOUS
<1>0. IsFiniteSet(Holders) /\ Cardinality(Holders) \in Nat
  BY FS_CardinalityType DEF PermitInv
<1>1. CASE Holders' = Holders /\ UNCHANGED <<permits, forfeited>>
  BY <1>1 DEF PermitInv
<1>2. ASSUME NEW q \in Parties, Enters(q) PROVE PermitInv'
  <2>1. IsFiniteSet(Holders') /\ Cardinality(Holders') = Cardinality(Holders) + 1
    BY <1>0, <1>2, FS_AddElement DEF Enters
  <2> QED
    BY <1>0, <1>2, <2>1, PermitsPositive DEF Enters, PermitInv, TypeInv
<1>3. ASSUME NEW q \in Parties, Leaves(q) \/ Forfeits(q) PROVE PermitInv'
  <2>1. IsFiniteSet(Holders') /\ Cardinality(Holders') = Cardinality(Holders) - 1
    BY <1>0, <1>3, FS_RemoveElement DEF Leaves, Forfeits
  <2> QED
    BY <1>0, <1>3, <2>1, PermitsPositive DEF Leaves, Forfeits, PermitInv, TypeInv
<1> QED
  BY <1>1, <1>2, <1>3 DEF Accounts

\* All permits are free, and nobody waits, to begin with.
LEMMA SemInit == Init => SemInv
<1> SUFFICES ASSUME Init PROVE SemInv
  OBVIOUS
<1>1. TypeInv
  BY PermitsPositive, EmptySeq DEF Init, TypeInv, Pc
<1>2. \A p \in Parties : pc[p] = "out" /\ ~satisfied[p] /\ ~Linked(p) /\ ~InChain(p)
  BY DEF Init, Linked, Contains, InChain
<1>3. ListDistinct /\ ChainDistinct
  BY DEF Init, ListDistinct, ChainDistinct
<1>4. Holders = {}
  BY <1>2 DEF Holders, Taken
<1>5. PermitInv
  BY <1>4, FS_EmptySet, PermitsPositive DEF Init, PermitInv
<1>6. LockInv
  BY <1>2, PartiesAreDistinct DEF Init, LockInv, Parties
<1>7. CountInv /\ NoPermitForgotten
  BY <1>2 DEF Init, CountInv, NoPermitForgotten
<1> QED
  BY <1>1, <1>2, <1>3, <1>5, <1>6, <1>7 DEF SemInv, ListInv, ChainInv, FreshInv

\* A step of Next accounts for its permits and keeps the invariant.
LEMMA SemStep == SemInv /\ [Next]_vars => SemInv'
<1> SUFFICES ASSUME SemInv, [Next]_vars PROVE SemInv'
  OBVIOUS
<1>0. TypeInv /\ MoveInv /\ PermitInv
  BY DEF SemInv, MoveInv
<1>1. TypeInv'
  BY <1>0, TypeStep
<1>2. CASE Next
  <2>1. MoveInv' /\ Accounts
    BY <1>0, <1>2, MoveStep
  <2>2. PermitInv'
    BY <1>0, <2>1, PermitStep
  <2> QED
    BY <1>1, <2>1, <2>2 DEF SemInv, MoveInv
<1>3. CASE UNCHANGED vars
  <2>1. MoveInv'
    BY <1>0, <1>3
    DEF vars, MoveInv, ListInv, ListDistinct, Linked, Contains, ChainInv,
        ChainDistinct, InChain, Taken, FreshInv, LockInv, CountInv, NoPermitForgotten
  <2>2. Holders' = Holders
    BY <1>3 DEF vars, Holders, Taken, Linked, Contains
  <2>3. PermitInv'
    BY <1>0, <1>3, <2>2 DEF vars, PermitInv
  <2> QED
    BY <1>1, <2>1, <2>3 DEF SemInv, MoveInv
<1> QED
  BY <1>2, <1>3

\* The invariant holds throughout.
LEMMA SemInvariant == Spec => []SemInv
  BY SemInit, SemStep, PTL DEF Spec

-----------------------------------------------------------------------------
(* What it shows.                                                          *)

\* TypeOK: in particular `permits` never exceeds what the semaphore was made
\* with, and `waiterCount`, an unsigned counter, never goes below zero.
THEOREM TypeCorrect == Spec => []TypeOK
<1>1. SemInv => TypeOK
  <2> SUFFICES ASSUME SemInv PROVE TypeOK
    OBVIOUS
  <2>1. TypeInv /\ PermitInv /\ CountInv
    BY DEF SemInv
  <2>2. permits \in 0 .. Permits
    BY <2>1, FS_CardinalityType, PermitsPositive DEF TypeInv, PermitInv
  <2>3. waiterCount \in Nat
    BY <2>1, LenProperties DEF TypeInv, CountInv
  <2> QED
    BY <2>1, <2>2, <2>3 DEF TypeInv, TypeOK
<1> QED
  BY <1>1, SemInvariant, PTL

\* Implements: acquire(), acquireOrEnqueue(), release(), cancel() and a wait
\* that stop() unwinds never give a permit to two parties, nor more permits
\* than there are, nor the same permit back twice.
THEOREM KeepsItsPromise == Spec => Implements
<1>1. Init => Promise!Init
  <2> SUFFICES ASSUME Init PROVE Promise!Init
    OBVIOUS
  <2>1. Holders = {}
    BY DEF Init, Holders, Taken
  <2> QED
    BY <2>1, PermitsPositive DEF Init, Promise!Init
<1>2. SemInv /\ [Next]_vars => [Promise!Next]_(Promise!specVars)
  <2> SUFFICES ASSUME SemInv, [Next]_vars PROVE [Promise!Next]_(Promise!specVars)
    OBVIOUS
  <2>0. TypeInv /\ MoveInv /\ PermitInv /\ Cardinality(Holders) \in Nat
    BY FS_CardinalityType DEF SemInv, MoveInv, PermitInv
  <2>1. CASE UNCHANGED vars
    BY <2>1 DEF vars, Holders, Taken, Linked, Contains, Promise!specVars
  <2>2. CASE Next
    <3>1. Accounts
      BY <2>0, <2>2, MoveStep
    <3>2. CASE Holders' = Holders /\ UNCHANGED <<permits, forfeited>>
      BY <3>2 DEF Promise!specVars
    <3>3. ASSUME NEW q \in Parties, Enters(q) PROVE Promise!Next
      <4>1. Cardinality(Holders) < Permits - forfeited
        BY <2>0, <3>3, PermitsPositive DEF Enters, PermitInv, TypeInv
      <4>2. (Permits - forfeited)' = Permits - forfeited
        BY <3>3 DEF Enters
      <4>3. q \notin Holders /\ Holders' = Holders \cup {q}
        BY <3>3 DEF Enters
      <4>4. Promise!Cardinality(Holders) = Cardinality(Holders)
        BY Zenon DEF Promise!Cardinality, Cardinality
      <4>5. Promise!Enter(q)
        BY <4>1, <4>2, <4>3, <4>4 DEF Promise!Enter
      <4> QED
        BY <4>5 DEF Promise!Next
    <3>4. ASSUME NEW q \in Parties, Leaves(q) PROVE Promise!Next
      <4>1. Promise!Leave(q)
        BY <3>4 DEF Leaves, Promise!Leave
      <4> QED
        BY <4>1 DEF Promise!Next
    <3>5. ASSUME NEW q \in Parties, Forfeits(q) PROVE Promise!Next
      <4>1. Permits - forfeited' = (Permits - forfeited) - 1
        BY <2>0, <3>5, PermitsPositive DEF Forfeits, TypeInv
      <4>2. Promise!Forfeit(q)
        BY <3>5, <4>1 DEF Forfeits, Promise!Forfeit
      <4> QED
        BY <4>2 DEF Promise!Next
    <3> QED
      BY <3>1, <3>2, <3>3, <3>4, <3>5 DEF Accounts
  <2> QED
    BY <2>1, <2>2
<1> QED
  BY <1>1, <1>2, SemInvariant, PTL DEF Spec, Implements, Promise!Spec

\* CountCoversList: release() may go without the lock when it reads
\* waiterCount as zero.
THEOREM CountIsCovered == Spec => []CountCoversList
<1>1. SemInv => CountCoversList
  <2> SUFFICES ASSUME SemInv PROVE CountCoversList
    OBVIOUS
  <2>1. Len(waiters) \in Nat
    BY LenProperties DEF SemInv, TypeInv
  <2>2. lock = NoOne =>
           \A p \in Parties : pc[p] \notin {"recheck", "retract", "handCount"}
    BY PartiesAreDistinct DEF SemInv, LockInv, Parties
  <2> QED
    BY <2>1, <2>2 DEF SemInv, CountInv, CountCoversList
<1> QED
  BY <1>1, SemInvariant, PTL

\* NoPermitForgotten: the announce / re-check pair of acquireSlow() with
\* release() leaves no free permit beside a waiter, unless a releaser has yet
\* to hand it out.
THEOREM PermitIsSeen == Spec => []NoPermitForgotten
  BY SemInvariant, PTL DEF SemInv

\* NoDanglingWaiter: a notifier never touches a Waiter whose owner has left.
THEOREM WaiterOutlivesNotifier == Spec => []NoDanglingWaiter
<1>1. SemInv => NoDanglingWaiter
  <2> SUFFICES ASSUME SemInv, NEW p \in Parties, NEW i \in 1 .. Len(chain[p])
               PROVE  pc[chain[p][i]] \in {"wait", "unwindLock", "awaitNotifier"}
    BY DEF NoDanglingWaiter
  <2>1. chain[p][i] \in Parties
    BY ElementOfSeq DEF SemInv, TypeInv
  <2>2. InChain(chain[p][i])
    BY DEF InChain
  <2> QED
    BY <2>1, <2>2 DEF SemInv, ChainInv, Taken
<1> QED
  BY <1>1, SemInvariant, PTL
=============================================================================
