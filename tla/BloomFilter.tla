----------------------------- MODULE BloomFilter -----------------------------
(***************************************************************************)
(* The Bloom filter of code/bloomfilter/bloomfilter.h and the file it can  *)
(* be saved to. A program uses a filter after InitBloomFilter or           *)
(* LoadBloomFilterFromFile has returned 0, and may free, initialise or     *)
(* load it at any time, in particular after one of these failed. What      *)
(* memory holds before it is written is never read under this protocol.    *)
(***************************************************************************)
EXTENDS Integers, FiniteSets

CONSTANTS BloomItems,            \* keys, as numbers
          BloomSeeds,
          BloomSizes,            \* pairs: dwMaxItems, and 1000 * -log(dProbFalse) / 0.480453
          HashSpan,              \* values of uint64_t
          MaxAdds,               \* bound on the items between two resets
          MurmurHash2_x64(_, _)  \* any function of key and seed

ASSUME BloomAssumption ==
  /\ BloomSizes \subseteq (Nat \ {0}) \X Nat /\ HashSpan \in Nat \ {0} /\ BloomSeeds \subseteq 0..(HashSpan - 1)
  /\ \A x \in BloomItems, s \in 0..(HashSpan - 1) : MurmurHash2_x64(x, s) \in 0..(HashSpan - 1)

VARIABLES bloom,         \* BaseBloomFilter; pointers are "null", "live" or "freed"
          bloomFile,     \* what the file holds
          added, adds,   \* the items and the calls of Add since the last reset
          leftover,      \* the bits of items from before a reset are still there
          usable,        \* the last Init or Load returned 0, and no Free since
          loadFailed,    \* a Load has failed
          bloomFault     \* memory was freed twice

bloomVars == <<bloom, bloomFile, added, adds, leftover, usable, loadFailed, bloomFault>>

Zeroed == [filter |-> "null", hashPos |-> "null", init |-> 0, bits |-> {}, count |-> 0, seed |-> 0,
           max |-> 0, m |-> 0, k |-> 0]
Missing == [head |-> FALSE, data |-> FALSE]

\* m bits, rounded up to the next multiple of 64 that is greater, and k hash functions.
CalcBloomFilterParam(n, rate) ==
  LET m0 == (n * rate + 999) \div 1000
      m == m0 - (m0 % 64) + 64
  IN [m |-> m, k |-> (2 * 69314 * m + 100000 * n) \div (200000 * n)]

\* MIX_UINT64 and bloom_hash: the k positions of a key.
Positions(b, x) ==
  LET hash1 == MurmurHash2_x64(x, b.seed)
      hash2 == MurmurHash2_x64(x, hash1)
  IN {((hash1 + i * hash2) % HashSpan) % b.m : i \in 0..(b.k - 1)}

FreeFault == "freed" \in {bloom.filter, bloom.hashPos}

BloomInit ==
  /\ bloom = Zeroed /\ bloomFile = Missing
  /\ added = {} /\ adds = 0
  /\ leftover = FALSE /\ usable = FALSE /\ loadFailed = FALSE /\ bloomFault = FALSE

\* malloc may fail for the filter (-100) or for the positions (-200).
InitBloomFilter(seed, n, rate) ==
  /\ \E failed \in {"none", "filter", "hashPos"} :
       LET param == CalcBloomFilterParam(n, rate)
           new == [Zeroed EXCEPT !.seed = seed, !.max = n, !.m = param.m, !.k = param.k]
       IN /\ bloom' = CASE failed = "filter" -> new
                        [] failed = "hashPos" -> [new EXCEPT !.filter = "live"]
                        [] OTHER -> [new EXCEPT !.filter = "live", !.hashPos = "live", !.init = 1]
          /\ usable' = (failed = "none")
  /\ bloomFault' = FreeFault
  /\ added' = {} /\ adds' = 0 /\ leftover' = FALSE
  /\ UNCHANGED <<bloomFile, loadFailed>>

FreeBloomFilter ==
  /\ bloom' = [bloom EXCEPT !.init = 0, !.count = 0, !.filter = "null", !.hashPos = "null"]
  /\ bloomFault' = FreeFault
  /\ usable' = FALSE /\ added' = {} /\ adds' = 0 /\ leftover' = FALSE
  /\ UNCHANGED <<bloomFile, loadFailed>>

\* The bits are left to the next Add.
ResetBloomFilter ==
  /\ usable
  /\ bloom' = [bloom EXCEPT !.init = 0, !.count = 0]
  /\ leftover' = (bloom.bits # {})
  /\ added' = {} /\ adds' = 0
  /\ UNCHANGED <<bloomFile, usable, loadFailed, bloomFault>>

RealResetBloomFilter ==
  /\ usable
  /\ bloom' = [bloom EXCEPT !.bits = {}, !.init = 1, !.count = 0]
  /\ leftover' = FALSE
  /\ added' = {} /\ adds' = 0
  /\ UNCHANGED <<bloomFile, usable, loadFailed, bloomFault>>

\* MUTANT Wiped: the flag is set and the bits stay.
WipedFlagOnly(b) == [b EXCEPT !.init = 1]
Wiped(b) == IF b.init # 1 THEN [b EXCEPT !.bits = {}, !.init = 1] ELSE b

BloomFilter_Add(x) ==
  /\ usable /\ adds < MaxAdds
  /\ bloom' = LET b == Wiped(bloom)
              IN [b EXCEPT !.bits = @ \cup Positions(b, x), !.count = @ + 1]
  /\ leftover' = (leftover /\ bloom.init = 1)
  /\ added' = added \cup {x} /\ adds' = adds + 1
  /\ UNCHANGED <<bloomFile, usable, loadFailed, bloomFault>>

\* 0 from Add; and 0 from Check, as truth values.
WithinCapacity(b) == b.count <= b.max
BloomFilter_Check(b, x) == Positions(b, x) \subseteq b.bits

\* The file cannot be opened (-11), the head (-21) or the bits (-31) cannot be
\* written, or all goes well.
SaveBloomFilterToFile ==
  /\ usable
  /\ \E written \in {"nothing", "empty", "head", "all"} :
       bloomFile' = CASE written = "nothing" -> bloomFile
                      [] written = "empty" -> Missing
                      [] OTHER -> [head |-> TRUE, data |-> written = "all", bits |-> bloom.bits,
                                   seed |-> bloom.seed, count |-> bloom.count, max |-> bloom.max,
                                   m |-> bloom.m, k |-> bloom.k,
                                   items |-> added, calls |-> adds, leftover |-> leftover]
  /\ UNCHANGED <<bloom, added, adds, leftover, usable, loadFailed, bloomFault>>

\* The structure after the head was read, and before the memory was allocated.
HeadLoaded(b, f) ==
  [b EXCEPT !.seed = f.seed, !.count = f.count, !.max = f.max, !.m = f.m, !.k = f.k]

\* The memory is freed first. Without a file or a whole head (-11, -21, -50)
\* the pointers stay as they were; malloc may fail (-100, -200); and the bits
\* may be missing (-31).
LoadBloomFilterFromFile ==
  LET freed == [bloom EXCEPT !.filter = IF @ = "null" THEN @ ELSE "freed",
                             !.hashPos = IF @ = "null" THEN @ ELSE "freed"]
      loaded == HeadLoaded(freed, bloomFile)
      whole == [loaded EXCEPT !.filter = "live", !.hashPos = "live"]
  IN /\ bloomFault' = FreeFault
     /\ \/ /\ bloom' = freed /\ usable' = FALSE
        \/ /\ bloomFile.head /\ usable' = FALSE
           /\ \/ bloom' = [loaded EXCEPT !.filter = "null"]
              \/ bloom' = [loaded EXCEPT !.filter = "live", !.hashPos = "null"]
              \/ ~ bloomFile.data /\ bloom' = whole
        \/ /\ bloomFile.data /\ usable' = TRUE
           /\ bloom' = [whole EXCEPT !.bits = bloomFile.bits, !.init = 1]
     /\ loadFailed' = (loadFailed \/ ~ usable')
     /\ added' = IF usable' THEN bloomFile.items ELSE {}
     /\ adds' = IF usable' THEN bloomFile.calls ELSE 0
     /\ leftover' = (usable' /\ bloomFile.leftover)
     /\ UNCHANGED bloomFile

BloomNext ==
  /\ ~ bloomFault
  /\ \/ \E seed \in BloomSeeds, size \in BloomSizes : InitBloomFilter(seed, size[1], size[2])
     \/ \E x \in BloomItems : BloomFilter_Add(x)
     \/ FreeBloomFilter \/ ResetBloomFilter \/ RealResetBloomFilter
     \/ SaveBloomFilterToFile \/ LoadBloomFilterFromFile

----------------------------------------------------------------------------
\* An item added since the last reset is found, also by a filter that was
\* loaded over another one (bloomfilter.h:338, 405).
AddedIsFound ==
  usable => /\ \A x \in added : BloomFilter_Check(bloom, x)
            /\ WithinCapacity(bloom) = (adds <= bloom.max)

\* Nothing else is found but by collision, and nothing at all in an empty
\* filter that has a hash function, which one for a rate of false answers
\* above 70% has not (bloomfilter.h:121). Excepted is a filter between a
\* ResetBloomFilter and the next Add, and one that was saved then (206, 461).
OnlyAddedIsFound ==
  usable /\ ~ leftover =>
    /\ bloom.bits = UNION {Positions(bloom, x) : x \in added}
    /\ bloom.k > 0 /\ added = {} => \A x \in BloomItems : ~ BloomFilter_Check(bloom, x)

\* No call frees memory twice, whatever malloc refused before. Only a Load
\* that failed leaves pointers to freed memory behind (bloomfilter.h:415).
BloomFreedOnce == (bloomFault \/ FreeFault) => loadFailed

\* The filter answers rightly over any sequence of its calls.
BloomAnswers == AddedIsFound /\ OnlyAddedIsFound /\ BloomFreedOnce
=============================================================================
