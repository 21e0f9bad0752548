----------------------------- MODULE StackPool -----------------------------
(***************************************************************************)
(* The pooled stack allocator: a LIFO cache per thread in size classes, a  *)
(* shared pool of any size, the reserves set aside by reserve(), and the   *)
(* allocator upstream.  What a thread does to its own cache is one step;   *)
(* so is one push or pop of the shared pool, which may also find it busy,  *)
(* and one section under reserveMutex.  Sizes count pages.                 *)
(***************************************************************************)
EXTENDS Naturals, Sequences, FiniteSets, SequencesExt, FiniteSetsExt, TLC

CONSTANTS Threads, Reservers,   \* Reservers also call reserve()
          SizeOf,           \* the stacks upstream can give, and their sizes
          kMaxSizeClasses, kReserveBatch, Attempts, SharedCapacity,
          maxCachedStacks, maxCachedBytes, MaxReserve

VARIABLES obj, th

Stacks == DOMAIN SizeOf
Sizes == Range(SizeOf)
NoStack == 0
At(t, pc) == obj.is = "Stacks" /\ th[t].pc = pc

EmptyCache == [lists |-> [s \in {} |-> <<>>], cachedStacks |-> 0, cachedBytes |-> 0]
Resting == [pc |-> "idle", size |-> 0, hand |-> {}, tries |-> 0]
Rest(t) == th' = [th EXCEPT ![t] = Resting]
Go(t, pc) == th' = [th EXCEPT ![t].pc = pc]

Init ==
    /\ obj = [is |-> "Stacks", upstream |-> Stacks, used |-> {}, shared |-> <<>>,
              reserves |-> [s \in {} |-> {}], cache |-> [t \in Threads |-> EmptyCache]]
    /\ th = [t \in Threads |-> Resting]

-----------------------------------------------------------------------------
(* ThreadCache.                                                            *)

canCache(c, size) == c.cachedStacks < maxCachedStacks /\ c.cachedBytes + size <= maxCachedBytes
\* findOrAddClass(), findOrAddReserve(): at most kMaxSizeClasses of them.
HasClass(classes, size) == size \in DOMAIN classes \/ Cardinality(DOMAIN classes) < kMaxSizeClasses
WithClass(classes, size, new) == classes @@ (size :> new)

pushFront(c, x) ==
    LET lists == WithClass(c.lists, SizeOf[x], <<>>)
    IN  [lists |-> [lists EXCEPT ![SizeOf[x]] = <<x>> \o @],
         cachedStacks |-> c.cachedStacks + 1, cachedBytes |-> c.cachedBytes + SizeOf[x]]
popFront(c, size) ==
    [lists |-> [c.lists EXCEPT ![size] = Tail(@)],
     cachedStacks |-> c.cachedStacks - 1, cachedBytes |-> c.cachedBytes - size]
Cached(c) == UNION {Range(c.lists[s]) : s \in DOMAIN c.lists}

-----------------------------------------------------------------------------
(* allocate().                                                             *)

Allocate(t, size) ==
    LET c == obj.cache[t]
    IN  /\ At(t, "idle")
        /\ IF size \in DOMAIN c.lists /\ c.lists[size] # <<>>
           THEN /\ obj' = [obj EXCEPT !.used = @ \cup {Head(c.lists[size])},
                                      !.cache[t] = popFront(@, size)]
                /\ UNCHANGED th
           ELSE /\ th' = [th EXCEPT ![t] = [@ EXCEPT !.pc = "shared", !.size = size, !.tries = Attempts]]
                /\ UNCHANGED obj

GiveUpShared(t) ==
    /\ At(t, "shared") /\ (th[t].tries = 0 \/ obj.shared = <<>>)
    /\ Go(t, "reserve") /\ UNCHANGED obj
\* Another popper or pusher is in between.
SharedBusy(t) ==
    /\ At(t, "shared") /\ th[t].tries > 0 /\ obj.shared # <<>>
    /\ th' = [th EXCEPT ![t].tries = @ - 1] /\ UNCHANGED obj
\* Mutant: a stack of another size is dropped.
TakeDropsOtherSizes(t) ==
    LET x == Head(obj.shared)
    IN  /\ At(t, "shared") /\ th[t].tries > 0 /\ obj.shared # <<>>
        /\ IF SizeOf[x] = th[t].size
           THEN Rest(t) /\ obj' = [obj EXCEPT !.shared = Tail(@), !.used = @ \cup {x}]
           ELSE /\ th' = [th EXCEPT ![t].tries = @ - 1]
                /\ obj' = IF canCache(obj.cache[t], SizeOf[x]) /\ HasClass(obj.cache[t].lists, SizeOf[x])
                          THEN [obj EXCEPT !.shared = Tail(@), !.cache[t] = pushFront(@, x)]
                          ELSE [obj EXCEPT !.shared = Tail(@)]
\* One of another size goes to the own cache, or upstream.
takeFromShared(t) ==
    LET x == Head(obj.shared)
        c == obj.cache[t]
    IN  /\ At(t, "shared") /\ th[t].tries > 0 /\ obj.shared # <<>>
        /\ IF SizeOf[x] = th[t].size
           THEN Rest(t) /\ obj' = [obj EXCEPT !.shared = Tail(@), !.used = @ \cup {x}]
           ELSE /\ th' = [th EXCEPT ![t].tries = @ - 1]
                /\ obj' = IF canCache(c, SizeOf[x]) /\ HasClass(c.lists, SizeOf[x])
                          THEN [obj EXCEPT !.shared = Tail(@), !.cache[t] = pushFront(c, x)]
                          ELSE [obj EXCEPT !.shared = Tail(@), !.upstream = @ \cup {x}]

\* The first of the reserve for the caller, a batch more into its cache: as
\* many as kReserveBatch, the reserve and the limits of the cache allow.
Refilled(c, batch) == FoldSeq(LAMBDA x, d : pushFront(d, x), c, batch)
takeFromReserve(t) ==
    LET size == th[t].size
        reserves == IF HasClass(obj.reserves, size)
                    THEN WithClass(obj.reserves, size, [list |-> <<>>, target |-> 0]) ELSE obj.reserves
        list == IF size \in DOMAIN reserves THEN reserves[size].list ELSE <<>>
        c == IF list # <<>> /\ HasClass(obj.cache[t].lists, size)
             THEN [obj.cache[t] EXCEPT !.lists = WithClass(@, size, <<>>)] ELSE obj.cache[t]
        Fits(n) == /\ n < kReserveBatch /\ n < Len(list)
                   /\ n > 0 => /\ size \in DOMAIN c.lists /\ c.cachedStacks + n <= maxCachedStacks
                               /\ c.cachedBytes + n * size <= maxCachedBytes
        n == CHOOSE k \in 0 .. kReserveBatch : Fits(k) /\ ~Fits(k + 1)
    IN  /\ At(t, "reserve")
        /\ IF list = <<>> THEN obj' = [obj EXCEPT !.reserves = reserves] /\ Go(t, "upstream")
           ELSE /\ obj' = [obj EXCEPT
                       !.used = @ \cup {list[1]}, !.cache[t] = Refilled(c, SubSeq(list, 2, n + 1)),
                       !.reserves = [reserves EXCEPT ![size].list = SubSeq(@, n + 2, Len(@))]]
                /\ Rest(t)

Fresh(size) == {x \in obj.upstream : SizeOf[x] = size}
UpstreamAllocates(t) ==
    /\ At(t, "upstream") /\ Fresh(th[t].size) # {}
    /\ LET x == Min(Fresh(th[t].size))
       IN  obj' = [obj EXCEPT !.upstream = @ \ {x}, !.used = @ \cup {x}]
    /\ Rest(t)
UpstreamFails(t) == At(t, "upstream") /\ Rest(t) /\ UNCHANGED obj

-----------------------------------------------------------------------------
(* deallocate(): the own cache, the shared pool, the reserve, upstream.    *)

Deallocate(t, x) ==
    LET c == obj.cache[t]
    IN  /\ At(t, "idle") /\ x \in obj.used
        /\ IF canCache(c, SizeOf[x]) /\ HasClass(c.lists, SizeOf[x])
           THEN obj' = [obj EXCEPT !.used = @ \ {x}, !.cache[t] = pushFront(c, x)] /\ UNCHANGED th
           ELSE /\ obj' = [obj EXCEPT !.used = @ \ {x}]
                /\ th' = [th EXCEPT ![t].pc = "giveShared", ![t].hand = {x}]
giveToShared(t) ==
    /\ At(t, "giveShared") /\ Len(obj.shared) < SharedCapacity
    /\ obj' = [obj EXCEPT !.shared = @ \o SetToSeq(th[t].hand)] /\ Rest(t)
SharedFullOrBusy(t) == At(t, "giveShared") /\ Go(t, "giveReserve") /\ UNCHANGED obj
giveToReserve(t) ==
    LET x == CHOOSE y \in th[t].hand : TRUE
        size == SizeOf[x]
        below == size \in DOMAIN obj.reserves /\ Len(obj.reserves[size].list) < obj.reserves[size].target
    IN  /\ At(t, "giveReserve") /\ Rest(t)
        /\ obj' = IF below THEN [obj EXCEPT !.reserves[size].list = <<x>> \o @]
                  ELSE [obj EXCEPT !.upstream = @ \cup {x}]

-----------------------------------------------------------------------------
(* reserve(), the exit of a thread, the destructor.                        *)

Reserve(t, size, count) ==
    /\ t \in Reservers /\ At(t, "idle") /\ HasClass(obj.reserves, size)
    /\ LET reserves == WithClass(obj.reserves, size, [list |-> <<>>, target |-> 0])
           target == IF count > reserves[size].target THEN count ELSE reserves[size].target
           missing == IF target > Len(reserves[size].list) THEN target - Len(reserves[size].list) ELSE 0
       IN  /\ obj' = [obj EXCEPT !.reserves = [reserves EXCEPT ![size].target = target]]
           /\ IF missing = 0 THEN UNCHANGED th
              ELSE th' = [th EXCEPT ![t] = [@ EXCEPT !.pc = "many", !.size = size, !.tries = missing]]
\* allocateMany() upstream may give fewer.
AllocateMany(t) ==
    /\ At(t, "many")
    /\ \E got \in SUBSET Fresh(th[t].size) :
          /\ Cardinality(got) <= th[t].tries
          /\ obj' = [obj EXCEPT !.upstream = @ \ got]
          /\ th' = [th EXCEPT ![t].pc = "keep", ![t].hand = got]
KeepReserved(t) ==
    /\ At(t, "keep")
    /\ obj' = [obj EXCEPT !.reserves[th[t].size].list = SetToSeq(th[t].hand) \o @]
    /\ Rest(t)

onThreadExit(t) ==
    /\ At(t, "idle")
    /\ obj' = [obj EXCEPT !.upstream = @ \cup Cached(obj.cache[t]), !.cache[t] = EmptyCache]
    /\ Go(t, "exited")
\* Everything that is still pooled; no stack may be in use, no call under way.
Reserved == UNION {Range(obj.reserves[s].list) : s \in DOMAIN obj.reserves}
CachesOfTheDead == UNION {Cached(obj.cache[t]) : t \in Threads}
Drained == CachesOfTheDead \cup Range(obj.shared) \cup Reserved
Destroy ==
    /\ obj.is = "Stacks" /\ obj.used = {} /\ \A t \in Threads : th[t].pc \in {"idle", "exited"}
    /\ obj' = [obj EXCEPT !.upstream = @ \cup Drained, !.shared = <<>>, !.reserves = [s \in {} |-> {}],
                          !.cache = [t \in Threads |-> EmptyCache]]
    /\ th' = [t \in Threads |-> [Resting EXCEPT !.pc = "destroyed"]]

Step(t) ==
    \/ GiveUpShared(t) \/ SharedBusy(t) \/ takeFromShared(t) \/ takeFromReserve(t)
    \/ UpstreamAllocates(t) \/ UpstreamFails(t) \/ giveToShared(t) \/ SharedFullOrBusy(t)
    \/ giveToReserve(t) \/ AllocateMany(t) \/ KeepReserved(t)
Next ==
    \/ Destroy
    \/ \E t \in Threads :
         \/ Step(t) \/ onThreadExit(t)
         \/ \E x \in Stacks : Deallocate(t, x)
         \/ \E s \in Sizes : Allocate(t, s) \/ \E n \in 1 .. MaxReserve : Reserve(t, s, n)

-----------------------------------------------------------------------------
\* Every stack is in one place only, and none has dropped out of all of them:
\* not one of the wrong size that a search came across, nor the batch a
\* thread took when it exits.
StackInOnePlace ==
    \A x \in Stacks :
        Cardinality({t \in Threads : x \in th[t].hand}) + Cardinality({x} \cap obj.upstream)
          + Cardinality({x} \cap obj.used) + Cardinality({x} \cap Range(obj.shared))
          + Cardinality({x} \cap Reserved)
          + Cardinality({t \in Threads : x \in Cached(obj.cache[t])}) = 1

\* A list is as long as its class says and holds stacks of its size only (the
\* node alone tells where such a stack begins); the counters of a cache agree
\* with its lists and stay within the limits of PooledStackOptions.
CacheAccounted ==
    \A t \in Threads : LET c == obj.cache[t] IN
        /\ \A s \in DOMAIN c.lists : \A x \in Range(c.lists[s]) : SizeOf[x] = s
        /\ c.cachedStacks = Cardinality(Cached(c))
        /\ c.cachedBytes = MapThenSumSet(LAMBDA x : SizeOf[x], Cached(c))
        /\ c.cachedStacks <= maxCachedStacks /\ c.cachedBytes <= maxCachedBytes

\* "destroying it drains all caches back to upstream", and the other tiers.
AllGivenBack == (\E t \in Threads : At(t, "destroyed")) => obj.upstream = Stacks
=============================================================================
