----------------------------- MODULE MemoryPool -----------------------------
(***************************************************************************)
(* The memory pool of code/mmpool/ngx_palloc.c. Small requests are cut off *)
(* the blocks of the pool, large ones come from malloc and are kept in the *)
(* list large, whose nodes are cut off the blocks as well. Addresses are   *)
(* offsets into a block; the pool is the first block. given remembers what *)
(* callers and the pool itself hold. malloc does not fail here, and what a *)
(* program does with memory outside a block is not followed.               *)
(***************************************************************************)
EXTENDS Integers, Sequences, FiniteSets, SequencesExt

CONSTANTS PoolSizes,          \* sizes given to ngx_create_pool, the bytes of a block
          PoolHeader,         \* sizeof(ngx_pool_t)
          DataHeader,         \* sizeof(ngx_pool_data_t)
          LargeNode,          \* sizeof(ngx_pool_large_t)
          CleanupNode,        \* sizeof(ngx_pool_cleanup_t)
          NGX_ALIGNMENT, NGX_MAX_ALLOC_FROM_POOL,
          MaxFailed,          \* failures a block is forgiven (4)
          MaxLook,            \* nodes of large that are looked at (3)
          SizeSpan,           \* values of size_t
          RequestSizes,       \* what callers ask for
          Fds,                \* descriptors with a cleanup of their own
          MaxBlocks, MaxLarge, MaxCleanups    \* bounds

Align(n) == ((n + NGX_ALIGNMENT - 1) \div NGX_ALIGNMENT) * NGX_ALIGNMENT

\* A block has room for the nodes of the pool behind a header (NGX_MIN_POOL_SIZE),
\* and the header of a pool is that of a block and more. A cleanup is no large
\* allocation: NGX_MAX_ALLOC_FROM_POOL is nearly a page.
ASSUME MemoryPoolAssumption ==
  /\ NGX_ALIGNMENT \in Nat \ {0}
  /\ PoolHeader \in Nat /\ DataHeader \in 1..PoolHeader /\ Align(DataHeader) <= PoolHeader
  /\ SizeSpan \in Nat /\ LargeNode \in Nat /\ CleanupNode \in 0..NGX_MAX_ALLOC_FROM_POOL
  /\ PoolSizes \subseteq Nat
  /\ \A size \in PoolSizes : /\ LargeNode <= size - PoolHeader /\ CleanupNode <= size - PoolHeader
                             /\ PoolHeader <= size /\ SizeSpan > 2 * size
  /\ NGX_MAX_ALLOC_FROM_POOL \in Nat /\ MaxFailed \in Nat /\ MaxLook \in Nat
  /\ RequestSizes \subseteq Nat /\ MaxLarge \in Nat

VARIABLES pool,        \* the pool, or NoPool
          given,       \* what is in use: [what, block, from, to]
          malloced,    \* live large allocations
          faults,      \* kinds of pieces that were given a second time
          registered,  \* descriptors with a cleanup in this pool, ever
          cleaned      \* descriptors whose cleanup has run, in order

poolVars == <<pool, given, malloced, faults, registered, cleaned>>
NoPool == [blocks |-> <<>>]

NewBlock(last) == [last |-> last, failed |-> 0]
PieceAt(what, block, from, size) == [what |-> what, block |-> block, from |-> from, to |-> from + size]

PoolInit ==
  pool = NoPool /\ given = {} /\ malloced = {} /\ faults = {} /\ registered = {} /\ cleaned = <<>>

ngx_create_pool(size) ==
  /\ pool = NoPool
  /\ pool' = [blocks |-> <<NewBlock(PoolHeader)>>, end |-> size,
              current |-> 1, large |-> <<>>, cleanup |-> <<>>,
              max |-> IF size - PoolHeader < NGX_MAX_ALLOC_FROM_POOL
                      THEN size - PoolHeader ELSE NGX_MAX_ALLOC_FROM_POOL]
  /\ faults' = {} /\ registered' = {} /\ cleaned' = <<>>
  /\ UNCHANGED <<given, malloced>>

\* A place of size bytes in the pool p: the block, the offset and the pool that
\* is left. The room of a block is a difference of pointers taken as a size_t.
StartIn(p, b, align) == IF align THEN Align(p.blocks[b].last) ELSE p.blocks[b].last
FitsIn(p, b, size, align) == (p.end - StartIn(p, b, align)) % SizeSpan >= size

\* A new block; the blocks from current on that failed too often are left behind.
ngx_palloc_block(p, size) ==
  LET n == Len(p.blocks)
      m == Align(DataHeader)
      blocks == [b \in 1..n |-> IF b >= p.current /\ b < n
                                THEN [p.blocks[b] EXCEPT !.failed = @ + 1] ELSE p.blocks[b]]
      tired == {b \in p.current..(n - 1) : p.blocks[b].failed > MaxFailed}
      current == IF tired = {} THEN p.current ELSE 1 + CHOOSE b \in tired : \A c \in tired : c <= b
  IN [pool |-> [p EXCEPT !.blocks = Append(blocks, NewBlock(m + size)), !.current = current],
      block |-> n + 1, from |-> m]

ngx_palloc_small(p, size, align) ==
  LET fits == {b \in p.current..Len(p.blocks) : FitsIn(p, b, size, align)}
      b == CHOOSE c \in fits : \A d \in fits : c <= d
  IN IF fits = {} THEN ngx_palloc_block(p, size)
     ELSE [pool |-> [p EXCEPT !.blocks[b].last = StartIn(p, b, align) + size],
           block |-> b, from |-> StartIn(p, b, align)]

\* What is in use, or was forgotten by ngx_reset_pool, where a new piece comes to lie.
PiecesOverlap(g, h) == g.block = h.block /\ g.from < h.to /\ h.from < g.to
Faults(S, new) ==
  {IF g.what = "forgotten" THEN "overwritten" ELSE "shared" : g \in {h \in S : PiecesOverlap(h, new)}}

PutPiece(place, what, size) ==
  LET new == PieceAt(what, place.block, place.from, size)
  IN /\ pool' = place.pool
     /\ given' = given \cup {new} /\ faults' = faults \cup Faults(given, new)
     /\ UNCHANGED <<registered, cleaned>>

Small(size, align) == PutPiece(ngx_palloc_small(pool, size, align), "data", size)

\* A large allocation: a node of large that was freed takes it, if it is one of
\* the first, or a new node from the pool.
NextLarge == CHOOSE x \in 1..(MaxLarge + 1) : x \notin malloced
Spare == {i \in DOMAIN pool.large : pool.large[i] = 0 /\ i <= MaxLook + 2}
AddNode(x) ==
  LET place == ngx_palloc_small(pool, LargeNode, TRUE)
  IN PutPiece([place EXCEPT !.pool.large = <<x>> \o pool.large], "node", LargeNode)
ngx_palloc_large ==
  /\ Cardinality(malloced) < MaxLarge
  /\ malloced' = malloced \cup {NextLarge}
  /\ IF Spare = {} THEN AddNode(NextLarge)
     ELSE /\ pool' = [pool EXCEPT !.large[CHOOSE i \in Spare : \A j \in Spare : i <= j] = NextLarge]
          /\ UNCHANGED <<given, faults, registered, cleaned>>

\* ngx_palloc and ngx_pcalloc (aligned), ngx_pnalloc (not aligned).
PoolAllocate(size, align) ==
  /\ pool # NoPool
  /\ IF size <= pool.max THEN Small(size, align) /\ UNCHANGED malloced ELSE ngx_palloc_large

ngx_pmemalign ==
  /\ pool # NoPool /\ Cardinality(malloced) < MaxLarge
  /\ malloced' = malloced \cup {NextLarge} /\ AddNode(NextLarge)

\* Only a large allocation is freed, and its node stays.
ngx_pfree(x) ==
  /\ pool # NoPool /\ x \in ToSet(pool.large) \ {0}
  /\ pool' = [pool EXCEPT !.large[CHOOSE i \in DOMAIN pool.large : pool.large[i] = x] = 0]
  /\ malloced' = malloced \ {x}
  /\ UNCHANGED <<given, faults, registered, cleaned>>

\* A cleanup of a descriptor: its node, and the data the handler gets, both no
\* larger than pool.max.
ngx_pool_cleanup_add(fd) ==
  /\ pool # NoPool /\ Len(pool.cleanup) < MaxCleanups /\ fd \notin registered
  /\ LET node == ngx_palloc_small(pool, CleanupNode, TRUE)
         data == ngx_palloc_small(node.pool, CleanupNode, TRUE)
         first == PieceAt("cleanup", node.block, node.from, CleanupNode)
         second == PieceAt("cleanup", data.block, data.from, CleanupNode)
     IN /\ pool' = [data.pool EXCEPT !.cleanup = <<[fd |-> fd, handler |-> TRUE]>> \o pool.cleanup]
        /\ given' = given \cup {first, second}
        /\ faults' = faults \cup Faults(given, first) \cup Faults(given \cup {first}, second)
  /\ registered' = registered \cup {fd}
  /\ UNCHANGED <<malloced, cleaned>>

\* Runs the cleanup of one descriptor ahead of time.
ngx_pool_run_cleanup_file(fd) ==
  /\ pool # NoPool
  /\ \E i \in DOMAIN pool.cleanup :
       /\ pool.cleanup[i] = [fd |-> fd, handler |-> TRUE]
       /\ pool' = [pool EXCEPT !.cleanup[i].handler = FALSE]
       /\ cleaned' = Append(cleaned, fd)
  /\ UNCHANGED <<given, malloced, faults, registered>>

\* The small pieces are given back at once. The list of cleanups stays, but its
\* nodes lie in memory that is given again.
ngx_reset_pool ==
  /\ pool # NoPool
  /\ pool' = [pool EXCEPT !.blocks = [b \in DOMAIN @ |-> NewBlock(PoolHeader)],
                          !.current = 1, !.large = <<>>]
  /\ malloced' = malloced \ ToSet(pool.large)
  /\ given' = {[g EXCEPT !.what = "forgotten"] : g \in {h \in given : h.what \in {"cleanup", "forgotten"}}}
  /\ UNCHANGED <<faults, registered, cleaned>>

\* The descriptors of cleanups whose handler is still to be run.
Waiting(cleanups) == {cleanups[i].fd : i \in {j \in DOMAIN cleanups : cleanups[j].handler}}

\* MUTANT ngx_destroy_pool: the memory is freed, but no cleanup runs.
ngx_destroy_poolSilent ==
  /\ pool # NoPool /\ pool' = NoPool
  /\ malloced' = malloced \ ToSet(pool.large)
  /\ given' = {} /\ UNCHANGED <<faults, registered, cleaned>>

\* Runs the cleanups that are left, newest first, and frees everything. A walk
\* over nodes that were overwritten may end early.
ngx_destroy_pool ==
  LET run[i \in 0..Len(pool.cleanup)] ==
        IF i = 0 THEN cleaned
        ELSE IF pool.cleanup[i].handler THEN Append(run[i - 1], pool.cleanup[i].fd) ELSE run[i - 1]
  IN /\ pool # NoPool /\ pool' = NoPool
     /\ \E n \in 0..Len(pool.cleanup) :
          /\ "overwritten" \notin faults => n = Len(pool.cleanup)
          /\ cleaned' = run[n]
     /\ malloced' = malloced \ ToSet(pool.large)
     /\ given' = {} /\ UNCHANGED <<faults, registered>>

\* Memory outside a block: whatever the program stores there, nothing more is known.
Inside == \A g \in given : g.to <= pool.end

PoolNext ==
  /\ Len(pool.blocks) <= MaxBlocks /\ Inside
  /\ \/ \E size \in PoolSizes : ngx_create_pool(size)
     \/ \E size \in RequestSizes, align \in BOOLEAN : PoolAllocate(size, align)
     \/ ngx_pmemalign
     \/ \E x \in 1..MaxLarge : ngx_pfree(x)
     \/ \E fd \in Fds : ngx_pool_cleanup_add(fd) \/ ngx_pool_run_cleanup_file(fd)
     \/ ngx_reset_pool \/ ngx_destroy_pool

----------------------------------------------------------------------------
HeaderOf(b) == IF b = 1 THEN PoolHeader ELSE DataHeader

\* What the pool gives lies inside one block behind its header, unless the end
\* of the block is not aligned: then the room of a block whose last is aligned
\* past it wraps (ngx_palloc.c:168). And it shares no byte with anything that
\* is in use; only a cleanup that ngx_reset_pool forgot, without dropping it
\* from its list (ngx_palloc.c:121), may be overwritten.
PiecesDisjoint ==
  /\ "shared" \notin faults
  /\ \A g \in given : /\ g.from >= HeaderOf(g.block)
                      /\ g.to > pool.end => pool.end % NGX_ALIGNMENT # 0

\* Every large allocation is in exactly one node, so that the pool frees each
\* once and, when it is destroyed, all (ngx_palloc.c:85, 246).
LargeOwnedOnce ==
  LET large == IF pool = NoPool THEN <<>> ELSE pool.large
  IN /\ malloced = ToSet(large) \ {0}
     /\ \A i, j \in DOMAIN large : large[i] = large[j] /\ i # j => large[i] = 0

\* No cleanup runs twice, ahead of time and when the pool is destroyed, and of
\* those registered every one has run once the pool is gone (ngx_palloc.c:54,
\* 364), unless one was overwritten after a reset.
CleanedOnce ==
  LET left == IF pool = NoPool THEN {} ELSE Waiting(pool.cleanup)
  IN /\ \A i, j \in DOMAIN cleaned : cleaned[i] = cleaned[j] => i = j
     /\ left \cap ToSet(cleaned) = {}
     /\ "overwritten" \notin faults => registered = left \cup ToSet(cleaned)

\* Whoever uses the pool owns what it was given, alone and until it is freed.
PoolOwned == PiecesDisjoint /\ LargeOwnedOnce /\ CleanedOnce
=============================================================================
