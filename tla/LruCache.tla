------------------------------- MODULE LruCache -------------------------------
(***************************************************************************)
(* The LRU cache of tikv_util (lru.rs) as a value and its operations.      *)
(*                                                                         *)
(* The records of the doubly linked list between head and tail are the     *)
(* sequence `trace', the most recently promoted key first.  The size       *)
(* policy is CountTracker: the number of keys.                             *)
(***************************************************************************)
EXTENDS Integers, Sequences, FiniteSets

Cache(trace, map, capacity, tick) ==
    [trace |-> trace, map |-> map, capacity |-> capacity, tick |-> tick]

AtLeastOne(capacity) == IF capacity = 0 THEN 1 ELSE capacity

\* Trace::new and with_capacity_sample_and_trace.  `tick' counts modulo the
\* sample: only whether a sample is due is ever looked at.
with_capacity_and_sample(capacity) ==
    Cache(<< >>, [k \in {} |-> FALSE], AtLeastOne(capacity), 0)

Has(c, k) == k \in DOMAIN c.map

Size(c) == Cardinality(DOMAIN c.map)

MapWithout(map, K) == [k \in DOMAIN map \ K |-> map[k]]

MapWith(map, k, v) == [x \in DOMAIN map \cup {k} |-> IF x = k THEN v ELSE map[x]]

\* A record is taken out of the list.
CutOut(trace, k) == SelectSeq(trace, LAMBDA x : x # k)

\* Trace::promote, and the list part of create.
AtHead(trace, k) == <<k>> \o CutOut(trace, k)

\* A smaller capacity removes keys from the tail (remove_tail) until the rest fits.
resize(c, new_cap) ==
    LET cap == AtLeastOne(new_cap)
        kept == SubSeq(c.trace, 1, cap)
        evicted == {c.trace[i] : i \in cap+1..Len(c.trace)}
    IN  IF cap < c.capacity /\ Size(c) > cap
        THEN Cache(kept, MapWithout(c.map, evicted), cap, c.tick)
        ELSE Cache(c.trace, c.map, cap, c.tick)

\* A known key is promoted; a new one takes the record of the tail when the cache
\* is full (reuse_tail), and a new record otherwise (create).
insert(c, k, v) ==
    LET tail == c.trace[Len(c.trace)]
    IN  IF ~Has(c, k) /\ c.capacity <= Size(c)
        THEN Cache(AtHead(CutOut(c.trace, tail), k),
                   MapWith(MapWithout(c.map, {tail}), k, v), c.capacity, c.tick)
        ELSE Cache(AtHead(c.trace, k), MapWith(c.map, k, v), c.capacity, c.tick)

\* maybe_promote: only every (sample_mask + 1)-th use moves a key to the head.
maybe_promote(c, k, sample_mask) ==
    LET tick == (c.tick + 1) % (sample_mask + 1)
    IN  Cache(IF tick = 0 THEN AtHead(c.trace, k) ELSE c.trace, c.map, c.capacity, tick)

\* get_mut followed by an assignment to the value that it found.
get_mut(c, k, v, sample_mask) ==
    LET p == maybe_promote(c, k, sample_mask)
    IN  Cache(p.trace, MapWith(p.map, k, v), p.capacity, p.tick)
=============================================================================
