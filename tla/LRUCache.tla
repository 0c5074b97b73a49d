------------------------------ MODULE LRUCache ------------------------------
(***************************************************************************)
(* LRUCache (pkg/cache/cache.go): a map from keys to the elements of a     *)
(* list, most recently used first, bounded by a number of entries and by   *)
(* the sum of estimated sizes.                                             *)
(*                                                                         *)
(* Every operation holds the mutex mu and is one action, except a Set of a *)
(* new key: it evicts one entry per iteration of a loop that may not end,  *)
(* and meanwhile holds mu (pending # NoEntry).  Time is the action Expire. *)
(* A value is the number of the call of Set that brought it.               *)
(***************************************************************************)
EXTENDS Integers, SequencesExt

CONSTANTS
  Key,
  Tag,
  Size,        \* what estimateSize may return
  Capacity,    \* WithCapacity
  MaxSize,     \* WithMaxSize; 0 is no limit
  DefaultTTL,  \* WithDefaultTTL; only its sign matters
  MaxSets      \* bound on the calls of Set and SetWithTags

ASSUME SizeAssumption == Size \subseteq Nat /\ MaxSize \in Nat
ASSUME CapacityAssumption == Capacity \in Nat \ {0}
ASSUME TTLAssumption == DefaultTTL \in Int
ASSUME SetsAssumption == MaxSets \in Nat

VARIABLES
  items,        \* keys of the map; a key leads to the element of evictList with this key
  evictList,
  currentSize,
  entryCount,   \* stats.EntryCount
  pending,      \* the entry a Set is making room for, or NoEntry
  closed,       \* done is closed
  sets,         \* calls of Set so far
  notified,     \* history: how often onEvict was called for each value
  overwritten,  \* history: values replaced by a Set of the same key
  recent        \* history: keys in the order of their last hit or Set, the latest last

cache == <<items, evictList, currentSize, entryCount>>
history == <<notified, overwritten, recent>>
vars == <<cache, pending, closed, sets, history>>

Values == 1..MaxSets
Entries == [key : Key, value : Values, size : Size, tags : SUBSET Tag, expires : {"never", "later", "past"}]
NoEntry == [key |-> "none"]

Init ==
  /\ items = {}
  /\ evictList = << >>
  /\ currentSize = 0
  /\ entryCount = 0
  /\ pending = NoEntry
  /\ closed = FALSE
  /\ sets = 0
  /\ notified = [v \in Values |-> 0]
  /\ overwritten = {}
  /\ recent = << >>

\* mu is free.
Unlocked == pending = NoEntry

\* The entries the map leads to, by the keys in ks.
Found(ks) == {e \in ToSet(evictList) : e.key \in items \cap ks}

IsExpired(e) == e.expires = "past"

\* The sum of the sizes of the entries of es: every byte of every entry counts.
SumOfSizes(es) == Cardinality(UNION {{e} \X (1..e.size) : e \in es})

\* The sequence s without the elements of es, the others in their order.
Without(s, es) ==
  LET kept[i \in 0..Len(s)] ==
        IF i = 0 THEN << >> ELSE IF s[i] \in es THEN kept[i - 1] ELSE Append(kept[i - 1], s[i])
  IN  kept[Len(s)]

\* ttl 0 stands for the default; a ttl that is not positive never ends.
ExpiresAt(ttl) == IF (IF ttl = 0 THEN DefaultTTL ELSE ttl) > 0 THEN "later" ELSE "never"

Notify(es) == notified' = [v \in Values |-> notified[v] + Cardinality({e \in es : e.value = v})]

\* Mutant: the entry leaves the list and the map, its size stays.
RemoveElementsKeepSize(es) ==
  /\ evictList' = Without(evictList, es)
  /\ items' = items \ {e.key : e \in es}
  /\ UNCHANGED currentSize
  /\ entryCount' = entryCount - Cardinality(es)
  /\ Notify(es)

\* removeElement for each entry of es.
RemoveElements(es) ==
  /\ evictList' = Without(evictList, es)
  /\ items' = items \ {e.key : e \in es}
  /\ currentSize' = currentSize - SumOfSizes(es)
  /\ entryCount' = entryCount - Cardinality(es)
  /\ Notify(es)

\* Mutant: an element stays where it is in the list.
MovedToFrontNot(e) == [i \in DOMAIN evictList |-> IF evictList[i].key = e.key THEN e ELSE evictList[i]]

MovedToFront(e) == <<e>> \o Without(evictList, Found({e.key}))

Touch(k) == recent' = Append(Without(recent, {k}), k)

----------------------------------------------------------------------------
(* Operations *)

\* A Get of a missing key changes nothing but statistics.
GetHit(k) ==
  /\ Unlocked
  /\ \E e \in Found({k}) : ~IsExpired(e) /\ evictList' = MovedToFront(e)
  /\ Touch(k)
  /\ UNCHANGED <<items, currentSize, entryCount, pending, closed, sets, notified, overwritten>>

GetExpired(k) ==
  /\ Unlocked
  /\ \E e \in Found({k}) : IsExpired(e) /\ RemoveElements({e})
  /\ UNCHANGED <<pending, closed, sets, overwritten, recent>>

\* Mutant: an overwritten entry keeps its old size in the sum.
OverwriteAdds(new) ==
  \E old \in Found({new.key}) :
     /\ evictList' = MovedToFront(new)
     /\ currentSize' = currentSize + new.size
     /\ overwritten' = overwritten \cup {old.value}
     /\ Touch(new.key)
     /\ UNCHANGED <<items, entryCount, pending, notified>>

\* Mutant: the element moves to the front with the entry it had.
OverwriteKeepsOld(new) ==
  \E old \in Found({new.key}) :
     /\ evictList' = MovedToFront([old EXCEPT !.size = new.size])
     /\ currentSize' = currentSize - old.size + new.size
     /\ overwritten' = overwritten \cup {new.value}
     /\ Touch(new.key)
     /\ UNCHANGED <<items, entryCount, pending, notified>>

\* The key is there: its element gets the new entry and moves to the front, whatever the new size.
Overwrite(new) ==
  \E old \in Found({new.key}) :
     /\ evictList' = MovedToFront(new)
     /\ currentSize' = currentSize - old.size + new.size
     /\ overwritten' = overwritten \cup {old.value}
     /\ Touch(new.key)
     /\ UNCHANGED <<items, entryCount, pending, notified>>

\* The key is new: the loop that makes room starts.
MakeRoom(new) ==
  /\ new.key \notin items
  /\ pending' = new
  /\ UNCHANGED <<cache, history>>

Put(k, size, ttl, tags) ==
  LET new == [key |-> k, value |-> sets + 1, size |-> size, tags |-> tags, expires |-> ExpiresAt(ttl)] IN
  /\ Unlocked
  /\ sets < MaxSets
  /\ sets' = sets + 1
  /\ Overwrite(new) \/ MakeRoom(new)
  /\ UNCHANGED closed

Set(k, size, ttl) == Put(k, size, ttl, {})

SetWithTags(k, size, ttl, tags) == Put(k, size, ttl, tags)

\* The condition of the loop.
Full(new) == Len(evictList) >= Capacity \/ (MaxSize > 0 /\ currentSize + new.size > MaxSize)

\* evictOldest: with an empty list the loop goes round without an effect.
EvictOldest ==
  /\ pending # NoEntry
  /\ Full(pending)
  /\ IF evictList = << >> THEN UNCHANGED <<cache, notified>> ELSE RemoveElements({Last(evictList)})
  /\ UNCHANGED <<pending, closed, sets, overwritten, recent>>

Insert ==
  /\ pending # NoEntry
  /\ ~Full(pending)
  /\ evictList' = <<pending>> \o evictList
  /\ items' = items \cup {pending.key}
  /\ currentSize' = currentSize + pending.size
  /\ entryCount' = entryCount + 1
  /\ pending' = NoEntry
  /\ Touch(pending.key)
  /\ UNCHANGED <<closed, sets, notified, overwritten>>

Delete(k) ==
  /\ Unlocked
  /\ k \in items
  /\ RemoveElements(Found({k}))
  /\ UNCHANGED <<pending, closed, sets, overwritten, recent>>

DeleteByTag(t) ==
  /\ Unlocked
  /\ RemoveElements({e \in Found(Key) : t \in e.tags})
  /\ UNCHANGED <<pending, closed, sets, overwritten, recent>>

\* Mutant: clear forgets the callback.
ClearSilently ==
  /\ Unlocked
  /\ items' = {}
  /\ evictList' = << >>
  /\ currentSize' = 0
  /\ entryCount' = 0
  /\ UNCHANGED <<pending, closed, sets, notified, overwritten, recent>>

Clear ==
  /\ Unlocked
  /\ Notify(Found(Key))
  /\ items' = {}
  /\ evictList' = << >>
  /\ currentSize' = 0
  /\ entryCount' = 0
  /\ UNCHANGED <<pending, closed, sets, overwritten, recent>>

\* Mutant: the cleanup looks only at the least recently used entry.
CleanupLast ==
  /\ ~closed
  /\ Unlocked
  /\ RemoveElements({e \in Found(Key) : IsExpired(e) /\ e = Last(evictList)})
  /\ UNCHANGED <<pending, closed, sets, overwritten, recent>>

\* One tick of the goroutine that removes expired entries.
Cleanup ==
  /\ ~closed
  /\ Unlocked
  /\ RemoveElements({e \in Found(Key) : IsExpired(e)})
  /\ UNCHANGED <<pending, closed, sets, overwritten, recent>>

\* Close does not take mu; the other operations go on working.
Close ==
  /\ closed' = TRUE
  /\ UNCHANGED <<cache, pending, sets, history>>

\* The time of an entry is over, also while a Set holds mu.
Expire(k) ==
  /\ \E i \in DOMAIN evictList :
       /\ evictList[i].key = k
       /\ evictList[i].expires = "later"
       /\ evictList' = [evictList EXCEPT ![i].expires = "past"]
  /\ UNCHANGED <<items, currentSize, entryCount, pending, closed, sets, history>>

Next ==
  \/ \E k \in Key :
       \/ GetHit(k)
       \/ GetExpired(k)
       \/ Delete(k)
       \/ Expire(k)
       \/ \E size \in Size, ttl \in -1..1 :
            \/ Set(k, size, ttl)
            \/ \E tags \in SUBSET Tag : SetWithTags(k, size, ttl, tags)
  \/ EvictOldest
  \/ Insert
  \/ \E t \in Tag : DeleteByTag(t)
  \/ Clear
  \/ Cleanup
  \/ Close

\* The caller of Set goes on with its loop.  The ticker fires again and again, and a Go mutex is handed
\* to who waits long enough.
Fairness ==
  /\ WF_vars(EvictOldest)
  /\ WF_vars(Insert)
  /\ SF_vars(Cleanup)

Spec == Init /\ [][Next]_vars /\ Fairness

----------------------------------------------------------------------------
(* Properties *)

TypeOK ==
  /\ items \subseteq Key
  /\ evictList \in Seq(Entries)
  /\ currentSize \in Nat
  /\ entryCount \in Nat
  /\ pending \in Entries \cup {NoEntry}
  /\ closed \in BOOLEAN
  /\ sets \in 0..MaxSets
  /\ notified \in [Values -> Nat]
  /\ overwritten \subseteq Values
  /\ recent \in Seq(Key)

\* The map, the list and the two counters describe the same entries, whatever was evicted, overwritten,
\* expired, deleted by tag or cleared: removeElement and the two branches of Set keep four things in step.
Accounting ==
  /\ items = {evictList[i].key : i \in DOMAIN evictList}
  /\ Len(evictList) = Cardinality(items)
  /\ currentSize = SumOfSizes(ToSet(evictList))
  /\ entryCount = Cardinality(items)

\* A Set that has to make room removes only keys that were used less recently than all that stay.
EvictsLeastRecent ==
  [][pending # NoEntry =>
       \A gone \in items \ items', kept \in items \cap items' :
          \A i, j \in DOMAIN recent : recent[i] = gone /\ recent[j] = kept => i < j]_vars

Stored(v) == \E i \in DOMAIN evictList : evictList[i].value = v

Waiting(v) == pending # NoEntry /\ pending.value = v

\* Every value handed to the cache is in it, was overwritten, or was handed to onEvict exactly once.
NotifiedOnce ==
  \A v \in Values :
     /\ notified[v] = IF v > sets \/ Stored(v) \/ Waiting(v) \/ v \in overwritten THEN 0 ELSE 1
     /\ v \in overwritten => ~Stored(v)

\* The cache seen as a map: a Set that is making room has not stored its value yet.
AsMap == INSTANCE BoundedMap WITH
  store <- [k \in Key |-> IF Found({k}) = {} THEN 0 ELSE (CHOOSE e \in Found({k}) : TRUE).value],
  puts <- IF pending = NoEntry THEN sets ELSE sets - 1

\* A Get returns what the last Set of its key stored or nothing, however Sets, evictions, expiry and
\* deletions are ordered, and never more than Capacity keys are held.
ImplementsMap == AsMap!Spec

\* A value larger than the limit: the loop of Set evicts everything and then spins, holding mu.
Spins == MaxSize > 0 /\ pending # NoEntry /\ pending.size > MaxSize

\* A Set whose value can fit ends: every round of its loop frees a place or some bytes.
SetReturns == pending # NoEntry /\ ~Spins ~> pending = NoEntry

\* An expired value that nobody asks for leaves the cache, unless the cleanup was stopped by Close or
\* waits for ever for a Set that spins.
ExpiredRemoved ==
  \A v \in Values :
     (\E i \in DOMAIN evictList : evictList[i].value = v /\ IsExpired(evictList[i])) ~> (~Stored(v) \/ closed \/ Spins)
=============================================================================
