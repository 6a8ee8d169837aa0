------------------------------ MODULE VectorCache ------------------------------
(***************************************************************************)
(* The bounded in-memory cache that holds the diagnosis cases and the      *)
(* route examples (application/internal/vector/cache.go), as operators on  *)
(* a ring                                                                  *)
(*                                                                         *)
(*     [buf |-> [0 .. capacity - 1 -> entries], head |-> .., size |-> ..,  *)
(*      capacity |-> .., keyOf |-> [items -> keys]]                        *)
(*                                                                         *)
(* buf[head] is the newest entry, older ones are at lower indices, around  *)
(* the end of the buffer.  Every method of BoundedCache holds the mutex    *)
(* from its first line to its last, so each one is a single step of the    *)
(* modules that use it; BoundedList says what they promise together.       *)
(* An entry is [item, vec]: the item, and whether its vector is there.     *)
(***************************************************************************)
EXTENDS Integers, Sequences, FiniteSets, FiniteSetsExt

Vacant == [item |-> "vacant", vec |-> FALSE]

\* The elements of a sequence that are in a set, in their order.
Only(seq, some) ==
    LET kept[n \in 0 .. Len(seq)] ==
            IF n = 0 THEN <<>>
            ELSE IF seq[n] \in some THEN Append(kept[n - 1], seq[n]) ELSE kept[n - 1]
    IN  kept[Len(seq)]

NewBoundedCache(capacity, keyOf) ==
    [buf |-> [ix \in 0 .. capacity - 1 |-> Vacant], head |-> 0, size |-> 0,
     capacity |-> capacity, keyOf |-> keyOf]

\* The index of the entry at pos, 0 the newest.
IndexAt(ring, pos) == (ring.head - pos) % ring.capacity

\* The entries, newest first.
Snapshot(ring) == [n \in 1 .. ring.size |-> ring.buf[IndexAt(ring, n - 1)]]

PrependLocked(ring, entry) ==
    LET place == IF ring.size = 0 THEN 0 ELSE (ring.head + 1) % ring.capacity
    IN  [ring EXCEPT
            !.buf = [ring.buf EXCEPT ![place] = entry],
            !.head = place,
            !.size = IF ring.size < ring.capacity THEN ring.size + 1 ELSE ring.size]

\* A mutant of the next definition: the entry that should go stays and its newer
\* neighbour goes.
RemoveNextPos(ring, pos) ==
    LET posOf(ix) == (ring.head - ix) % ring.capacity
        last == ring.size - 1
    IN  [ring EXCEPT
            !.size = last,
            !.buf = [ix \in DOMAIN ring.buf |->
                        IF posOf(ix) = last THEN Vacant
                        ELSE IF posOf(ix) \in pos + 1 .. last - 1
                        THEN ring.buf[IndexAt(ring, posOf(ix) + 1)]
                        ELSE ring.buf[ix]]]

\* Every older entry moves one place towards the newest, and the place of
\* the oldest is vacated.
RemoveAtPosLocked(ring, pos) ==
    LET posOf(ix) == (ring.head - ix) % ring.capacity
        last == ring.size - 1
    IN  [ring EXCEPT
            !.size = last,
            !.buf = [ix \in DOMAIN ring.buf |->
                        IF posOf(ix) = last THEN Vacant
                        ELSE IF posOf(ix) \in pos .. last - 1
                        THEN ring.buf[IndexAt(ring, posOf(ix) + 1)]
                        ELSE ring.buf[ix]]]

RemoveByKeyLocked(ring, key) ==
    LET hits == {pos \in 0 .. ring.size - 1 :
                     ring.keyOf[ring.buf[IndexAt(ring, pos)].item] = key}
    IN  IF hits = {} THEN ring ELSE RemoveAtPosLocked(ring, Min(hits))

\* A new entry replaces the one with its key, if there is one, and is the
\* newest; a full buffer loses its oldest.
Add(ring, entry) ==
    PrependLocked(RemoveByKeyLocked(ring, ring.keyOf[entry.item]), entry)

\* From the oldest to the newest, so that the places not yet looked at are
\* not moved by a removal.
RemoveMatching(ring, items) ==
    LET seen[n \in 0 .. ring.size] ==
            IF n = 0 THEN ring
            ELSE IF seen[n - 1].buf[IndexAt(seen[n - 1], ring.size - n)].item \in items
            THEN RemoveAtPosLocked(seen[n - 1], ring.size - n)
            ELSE seen[n - 1]
    IN  seen[ring.size]

\* The answer of an embedding that came after the entry was added; nothing
\* happens when the entry has been replaced or evicted since.
UpdateVector(ring, item) ==
    [ring EXCEPT !.buf = [ix \in DOMAIN ring.buf |->
        IF ring.buf[ix].item = item THEN [item |-> item, vec |-> TRUE]
                                    ELSE ring.buf[ix]]]

AppendOldestLocked(ring, entry) ==
    IF ring.size = 0
    THEN [ring EXCEPT !.head = 0, !.buf[0] = entry, !.size = 1]
    ELSE [ring EXCEPT !.buf[IndexAt(ring, ring.size)] = entry, !.size = @ + 1]

\* An entry with a key that is there is left out, and so is what does not fit.
AppendNew(ring, entry) ==
    IF \/ ring.size = ring.capacity
       \/ \E n \in 1 .. ring.size : ring.keyOf[Snapshot(ring)[n].item] = ring.keyOf[entry.item]
    THEN ring ELSE AppendOldestLocked(ring, entry)

\* The whole content at once, entries newest first: of entries with the same
\* key the first one is kept.
Replace(ring, entries) ==
    LET filled[n \in 0 .. Len(entries)] ==
            IF n = 0 THEN NewBoundedCache(ring.capacity, ring.keyOf)
            ELSE AppendNew(filled[n - 1], entries[n])
    IN  filled[Len(entries)]

\* The best of the entries, best first and newer before older when they are
\* as good: those whose item scores at least the least, at most limit of them.
TopKByVector(entries, score, limit, least) ==
    LET of(n) == score[entries[n].item]
        close == {n \in DOMAIN entries : of(n) >= least}
        before(m, n) == of(m) > of(n) \/ (of(m) = of(n) /\ m < n)
        rank(n) == Cardinality({m \in close : before(m, n)}) + 1
        nth(k) == CHOOSE n \in close : rank(n) = k
    IN  [k \in 1 .. Min({limit, Cardinality(close)}) |-> entries[nth(k)]]
==============================================================================
