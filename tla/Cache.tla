------------------------------- MODULE Cache -------------------------------
(***************************************************************************)
(* The content stores of a node (src/CacheLRU.cc, src/CacheRND.cc).  Both  *)
(* keep the cached chunks in a list and, per content name, a record with   *)
(* the number of stored chunks and an array of iterators into the list.    *)
(* They differ in whether a hit moves the chunk to the back of the list    *)
(* and in which chunk is evicted.  A chunk is <<content, chunk id>>.       *)
(***************************************************************************)
EXTENDS Integers, SequencesExt, Removal

CONSTANTS
    Contents,     \* content names
    LastChunk,    \* LastChunk[c]: data.content_size(), chunks 1..LastChunk[c]
    Bits,         \* Bits[c]: data.size(), the size of a chunk of c in bits
    KBit,         \* the divisor that turns bits into cache units
    Limit         \* m_cache_limit

ChunkSet == UNION {{<<c, k>> : k \in 1..LastChunk[c]} : c \in Contents}

(* data.size()/1000: integer division, a chunk may take less than its size. *)
Units(x) == Bits[x[1]] \div KBit

ASSUME KBitAssumption == KBit \in Nat \ {0}
ASSUME LimitAssumption == Limit \in Nat \ {0}
ASSUME ContentsAssumption ==
    /\ LastChunk \in [Contents -> Nat]
    /\ Bits \in [Contents -> Nat]
(* A chunk that does not fit would make the eviction loop run on an empty  *)
(* list, which is undefined.                                               *)
ASSUME FitsAssumption == \A x \in ChunkSet : Units(x) <= Limit

VARIABLES
    list,      \* m_store_by_time_LRU / m_store_by_chunk_RND, front to back
    names,     \* m_store_by_name_*: content -> [stored, bitmap]
    size,      \* m_cache_size
    policy,    \* cache_repl: "l" for CacheLRU, "r" for CacheRND
    recency    \* history: all chunks ever used, by their latest use

vars == <<list, names, size, policy, recency>>

LeastRecent == policy = "l"

Cached == ToSet(list)

MoveToBack(s, x) == Append(Without(s, {x}), x)

-----------------------------------------------------------------------------
(* search_by_name finds the record of the content, then its bitmap entry.  *)

Hit(x) == x[1] \in DOMAIN names /\ x[2] \in names[x[1]].bitmap

(* A hit of CacheLRU erases the list element and pushes a new one.         *)
TouchNothing(x) == list
Touch(x) == IF LeastRecent THEN MoveToBack(list, x) ELSE list

(* A hit: the caller is an interest, or add_in_cache of a stored chunk.    *)
Use(x) ==
    /\ Hit(x)
    /\ list' = Touch(x)
    /\ recency' = MoveToBack(recency, x)
    /\ UNCHANGED <<names, size, policy>>

-----------------------------------------------------------------------------
(* add_in_cache of a chunk that is not stored.                             *)

UnitsOf(S) == MapThenSumSet(Units, S)

FitsTight(victims, x) == size - UnitsOf(victims) + Units(x) < Limit
Fits(victims, x) == size - UnitsOf(victims) + Units(x) <= Limit

(* The eviction loop stops as soon as the new chunk fits.                  *)
StopsAt(victims, x) ==
    /\ Fits(victims, x)
    /\ victims # {} => \E last \in victims : ~Fits(victims \ {last}, x)

(* CacheLRU takes its victims from the front, CacheRND anywhere.           *)
VictimSets(x) ==
    {v \in SUBSET Cached :
        /\ StopsAt(v, x)
        /\ LeastRecent => v = ToSet(SubSeq(list, 1, Cardinality(v)))}

VictimsOf(c, victims) == {v \in victims : v[1] = c}

(* The record of a content goes with its last chunk, unless it is the      *)
(* content of the chunk being added, whose record was looked up before.    *)
NamesKept(x, victims) ==
    {c \in DOMAIN names :
        c = x[1] \/ names[c].stored > Cardinality(VictimsOf(c, victims))}

StaleBitmap(x, victims) ==
    [c \in NamesKept(x, victims) |->
        [names[c] EXCEPT !.stored = @ - Cardinality(VictimsOf(c, victims))]]
Evict(x, victims) ==
    [c \in NamesKept(x, victims) |->
        [stored |-> names[c].stored - Cardinality(VictimsOf(c, victims)),
         bitmap |-> names[c].bitmap \ {v[2] : v \in VictimsOf(c, victims)}]]

NewRecord == [stored |-> 0, bitmap |-> {}]

RecordOf(x, kept) == IF x[1] \in DOMAIN kept THEN kept[x[1]] ELSE NewRecord

Store(x, kept) ==
    [c \in DOMAIN kept \cup {x[1]} |->
        IF c = x[1]
        THEN [stored |-> RecordOf(x, kept).stored + 1,
              bitmap |-> RecordOf(x, kept).bitmap \cup {x[2]}]
        ELSE kept[c]]

SizeNotFreed(x, victims) == size + Units(x)
SizeAfter(x, victims) == size - UnitsOf(victims) + Units(x)

Add(x) ==
    /\ ~Hit(x)
    /\ \E victims \in VictimSets(x) :
          /\ list' = Append(Without(list, victims), x)
          /\ names' = Store(x, Evict(x, victims))
          /\ size' = SizeAfter(x, victims)
    /\ recency' = MoveToBack(recency, x)
    /\ UNCHANGED policy

Init ==
    /\ list = <<>>
    /\ names = [c \in {} |-> NewRecord]
    /\ size = 0
    /\ policy \in {"l", "r"}
    /\ recency = <<>>

Next == \E x \in ChunkSet : Use(x) \/ Add(x)

Spec == Init /\ [][Next]_vars

-----------------------------------------------------------------------------

TypeOK ==
    /\ list \in Seq(ChunkSet) /\ recency \in Seq(ChunkSet)
    /\ DOMAIN names \subseteq Contents
    /\ \A c \in DOMAIN names :
          /\ names[c].stored \in 1..LastChunk[c]
          /\ names[c].bitmap \subseteq 1..LastChunk[c]
    /\ size \in 0..Limit /\ policy \in {"l", "r"}

(* Each of the two structures "points to the other one" (CacheLRU.h:77):   *)
(* the records count and index exactly the chunks in the list, and no      *)
(* record without a chunk is left behind by an eviction.                   *)
RecordsAgree ==
    /\ IsInjective(list)
    /\ DOMAIN names = {x[1] : x \in Cached}
    /\ \A c \in DOMAIN names :
          /\ names[c].bitmap = {x[2] : x \in {y \in Cached : y[1] = c}}
          /\ names[c].stored = Cardinality(names[c].bitmap)

(* m_cache_size is the room of what is stored, however many evictions of   *)
(* chunks of different sizes went before, and never above the limit.       *)
SizeAccounted == size = UnitsOf(Cached) /\ size <= Limit

(* Least Recently Used: every cached chunk was used after every chunk that *)
(* is not cached any more, and the list is ordered by latest use.          *)
LeastRecentEvicted == LeastRecent => IsSuffix(list, recency)

(* Both policies implement the abstract store: nothing but an addition     *)
(* changes the cached chunks, and it evicts no more than it needs.         *)
Abstract == INSTANCE ContentStore
          WITH Chunks <- ChunkSet, cached <- Cached
ImplementsStore == Abstract!Spec
=============================================================================
