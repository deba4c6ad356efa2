------------------------------ MODULE FreeLists ------------------------------
(***************************************************************************)
(* The memory of a node: Manager::InitMemoryRegion and InitFreeLists, the  *)
(* constructor of MemoryPool and the allocation functions of both          *)
(* (src/include/rdma/manager.h, memory_pool.h).  The region is cut into    *)
(* chunks; a list of shared chunks and one per memory pool are linked      *)
(* through the first word of each free chunk, which belongs to the caller  *)
(* once the chunk is handed out.  Sizes are in words.                      *)
(*                                                                         *)
(* Nothing compares the lengths of the lists with the region, and shared_- *)
(* ratio is taken as configured: the lists may run past its end, over      *)
(* memory that belongs to somebody else.                                   *)
(***************************************************************************)
EXTENDS Naturals, Sequences, FiniteSetsExt, Functions

CONSTANTS
  Regions,        \* region sizes tried
  Requests,       \* values of chunk_size_byte tried
  MinChunkSize,   \* kMinChunkSize
  MaxChunkSize,   \* kMaxChunkSize
  MaxPools,       \* bound: local_pools
  BufferCount     \* buffer_count_

ASSUME FreeListsAssumption ==
  /\ Regions \subseteq Nat \ {0} /\ Requests \subseteq Nat \ {0}
  /\ MaxPools \in Nat \ {0} /\ BufferCount \in Nat \ {0}
  /\ \E i, j \in 0..12 : i <= j /\ MinChunkSize = 2^i /\ MaxChunkSize = 2^j

VARIABLES
  config,      \* the region size, the requested chunk size and local_pools
  phase,       \* how far Manager::Init is, or how the process ended
  chunk_size, chunk_num,
  shared,      \* shared_chunk_num
  head,        \* head[l]: free_list_.next of list l; list 0 is the shared one
  next,        \* next[c]: the first word of chunk c, in or behind the region
  held,        \* the chunks that callers have
  buffers      \* buffers[p]: local_buffer_pointers_ of pool p

vars == <<config, phase, chunk_size, chunk_num, shared, head, next, held, buffers>>

PoolIds == 1..config.pools
Lists == {0} \cup PoolIds
Chunks == 0..(chunk_num - 1)
Behind == DOMAIN next \ Chunks   \* what the lists take in behind the region

\* The null pointer, and what a caller or another owner may have written
Null == Max(Regions) + MaxPools + 1
Data == Null + 1

\* The first chunk of a list is taken; its next word becomes the caller's.
Pop(l) ==
  /\ head[l] \in DOMAIN next
  /\ head' = [head EXCEPT ![l] = next[head[l]]]
  /\ next' = [next EXCEPT ![head[l]] = Data]

\* The words of chunk c that become local buffers of pool p
BuffersIn(p, c) ==
  LET n == Min({chunk_size, BufferCount - Len(buffers[p])})
  IN  [j \in 1..n |-> <<c, j - 1>>]

-----------------------------------------------------------------------------
(***************************************************************************)
(* Mistakes that the code could contain; none is part of Next.             *)
(***************************************************************************)
\* A chunk that is freed is not linked to the others.
FreedUnlinked(l, c) ==
  /\ phase = "use" /\ c \in held
  /\ next' = [next EXCEPT ![c] = Null]
  /\ head' = [head EXCEPT ![l] = c]
  /\ held' = held \ {c}
  /\ UNCHANGED <<config, phase, chunk_size, chunk_num, shared, buffers>>

\* The constructor of MemoryPool looks at the first free chunk and leaves it.
PeekBuffers(p) ==
  /\ phase = "pools" /\ Len(buffers[p]) < BufferCount
  /\ head[p] \in DOMAIN next
  /\ buffers' = [buffers EXCEPT ![p] = @ \o BuffersIn(p, head[p])]
  /\ UNCHANGED <<config, phase, chunk_size, chunk_num, shared, head, next, held>>

-----------------------------------------------------------------------------
Init ==
  /\ config \in [region : Regions, request : Requests, pools : 1..MaxPools]
  /\ phase = "region"
  /\ chunk_size = 0 /\ chunk_num = 0 /\ shared = 0
  /\ head = <<>> /\ next = <<>>
  /\ held = {} /\ buffers = [p \in PoolIds |-> <<>>]

\* 1 << (64 - __builtin_clzll(c - 1)), where 64 - clzll counts the digits of
\* c - 1; clzll(0) is undefined.  Then the limits are applied.
Digits(x) == CHOOSE k \in 1..64 : 2^(k - 1) <= x /\ x < 2^k
Clamped(s) == IF s < MinChunkSize THEN MinChunkSize ELSE IF s > MaxChunkSize THEN MaxChunkSize ELSE s

ChunkSizes(c) ==
  IF c = 1 THEN {Clamped(2^k) : k \in 0..13} ELSE {Clamped(2^Digits(c - 1))}

\* The region must be a multiple of the chunk size (SPDLOG_FATAL otherwise).
InitMemoryRegion ==
  /\ phase = "region"
  /\ chunk_size' \in ChunkSizes(config.request)
  /\ phase' = IF config.region % chunk_size' = 0 THEN "lists" ELSE "fatal"
  /\ UNCHANGED <<config, chunk_num, shared, head, next, held, buffers>>

\* The lengths of the lists: each of the loops that link them starts with one
\* chunk.
ListLength(s) == Max({1, s})
PerThread(unshared) == Max({1, unshared \div config.pools})

\* The linked lists lie behind each other from the start of the region.  If
\* they do not fit, the loops link and end them in the memory behind it: the
\* process crashes, or the stores take effect there.
InitFreeLists ==
  /\ phase = "lists"
  /\ LET num == config.region \div chunk_size IN
     \E unshared \in 0..num :   \* chunk_num * (1 - shared_ratio), truncated
       LET first(p) == ListLength(num - unshared) + (p - 1) * PerThread(unshared)
           last     == first(config.pools + 1) - 1
       IN
       /\ chunk_num' = num
       /\ shared' = num - unshared
       /\ head' = [l \in Lists |-> IF l = 0 THEN 0 ELSE first(l)]
       /\ next' = [c \in 0..Max({num - 1, last}) |->
            IF c > last THEN Data
            ELSE IF \E p \in 1..(config.pools + 1) : c + 1 = first(p) THEN Null ELSE c + 1]
       /\ phase' \in IF last < num THEN {"pools"} ELSE {"pools", "crash"}
       /\ UNCHANGED <<config, chunk_size, held, buffers>>

\* The owner of the memory behind the region writes it, perhaps a zero.
OverwriteBehind(c) ==
  /\ phase \in {"pools", "use"} /\ next[c] # Data
  /\ \E x \in {Null, Data} : next' = [next EXCEPT ![c] = x]
  /\ UNCHANGED <<config, phase, chunk_size, chunk_num, shared, head, held, buffers>>

\* A list whose head is no chunk is asked for one, and the word that head is
\* taken to point to is read.
FollowGarbage(l) ==
  /\ phase \in {"pools", "use"} /\ head[l] = Data
  /\ phase = "pools" => l # 0 /\ Len(buffers[l]) < BufferCount
  /\ phase' = "crash"
  /\ UNCHANGED <<config, chunk_size, chunk_num, shared, head, next, held, buffers>>

\* A round of the loop in the constructor of MemoryPool: the words of one more
\* chunk become local buffers.  Without a free chunk it ends in SPDLOG_FATAL.
TakeBuffers(p) ==
  /\ phase = "pools" /\ Len(buffers[p]) < BufferCount
  /\ Pop(p)
  /\ buffers' = [buffers EXCEPT ![p] = @ \o BuffersIn(p, head[p])]
  /\ UNCHANGED <<config, phase, chunk_size, chunk_num, shared, held>>

NotEnoughMemory(p) ==
  /\ phase = "pools" /\ Len(buffers[p]) < BufferCount /\ head[p] = Null
  /\ phase' = "fatal"
  /\ UNCHANGED <<config, chunk_size, chunk_num, shared, head, next, held, buffers>>

PoolsMade ==
  /\ phase = "pools" /\ \A p \in PoolIds : Len(buffers[p]) = BufferCount
  /\ phase' = "use"
  /\ UNCHANGED <<config, chunk_size, chunk_num, shared, head, next, held, buffers>>

-----------------------------------------------------------------------------
\* Allocate and AllocateShared take the first chunk; nullptr if there is none.
Allocated(l) ==
  /\ phase = "use"
  /\ Pop(l)
  /\ held' = held \cup {head[l]}
  /\ UNCHANGED <<config, phase, chunk_size, chunk_num, shared, buffers>>

Allocate(p) == Allocated(p)
AllocateShared == Allocated(0)

\* Free and FreeShared put a chunk of this node in front, whichever list it
\* came from.
Freed(l, c) ==
  /\ phase = "use" /\ c \in held
  /\ next' = [next EXCEPT ![c] = head[l]]
  /\ head' = [head EXCEPT ![l] = c]
  /\ held' = held \ {c}
  /\ UNCHANGED <<config, phase, chunk_size, chunk_num, shared, buffers>>

Free(p, c) == Freed(p, c)
FreeShared(c) == Freed(0, c)

Next ==
  \/ InitMemoryRegion \/ InitFreeLists \/ PoolsMade \/ AllocateShared
  \/ \E c \in held : FreeShared(c)
  \/ \E c \in Behind : OverwriteBehind(c)
  \/ \E l \in Lists : FollowGarbage(l)
  \/ \E p \in PoolIds : TakeBuffers(p) \/ NotEnoughMemory(p) \/ Allocate(p) \/ \E c \in held : Free(p, c)

Spec == Init /\ [][Next]_vars

-----------------------------------------------------------------------------
(***************************************************************************)
(* Properties.                                                             *)
(***************************************************************************)
\* What following list l for k links leads to, and the chunks on the way
Follow(l) ==
  LET f[k \in 0..chunk_num] ==
        IF k = 0 THEN head[l]
        ELSE LET c == f[k - 1] IN IF c \in Chunks THEN next[c] ELSE c
  IN  f
Members(l) == Range(Follow(l)) \cap Chunks
Scratch(p) == {buffers[p][i][1] : i \in 1..Len(buffers[p])}

\* The configurations whose lists fit: every pool gets a chunk, and there is
\* one to spare for the shared list even if it is to have none
Fits ==
  LET unshared == chunk_num - shared
  IN  unshared >= config.pools /\ (shared > 0 \/ unshared % config.pools # 0)

\* The lists take in memory behind the region exactly in the configurations
\* that give a pool no chunk, or leave no chunk for the shared list.  In all
\* others, after any sequence of allocations and frees each list can be
\* followed to its end through free chunks of the region, no chunk is on two
\* lists or on a list and in use, and none is lost.
ChunksAccounted ==
  phase \in {"pools", "use"} =>
    /\ Behind = {} <=> Fits
    /\ Fits =>
         /\ \A l \in Lists : Follow(l)[chunk_num] = Null
         /\ \A l \in Lists : Members(l) \cap held = {} /\ \A m \in Lists \ {l} : Members(l) \cap Members(m) = {}
         /\ LET linked == Max({1, shared}) + config.pools * ((chunk_num - shared) \div config.pools)
            IN  UNION {Members(l) : l \in Lists} \cup held \cup UNION {Scratch(p) : p \in PoolIds} = 0..(linked - 1)

\* Wherever the lists lie, no word is a local buffer twice, and no buffer lies
\* in a chunk that is handed out or in a free chunk of the region.  If the
\* lists fit, the buffers are words of the region.  The chunk size is the
\* least power of two that is large enough, within its limits.
ScratchPrivate ==
  phase \in {"pools", "use"} =>
    /\ \A p, q \in PoolIds : \A i \in 1..Len(buffers[p]), j \in 1..Len(buffers[q]) :
         buffers[p][i] = buffers[q][j] => p = q /\ i = j
    /\ \A p \in PoolIds : \A i \in 1..Len(buffers[p]) :
         LET c == buffers[p][i][1] IN
         /\ Fits => c * chunk_size + buffers[p][i][2] < config.region
         /\ buffers[p][i][2] < chunk_size
         /\ c \notin held /\ \A l \in Lists : c \notin Members(l)
    /\ config.request \in 2..MaxChunkSize =>
         chunk_size = Min({2^k : k \in {k \in 0..13 : 2^k >= config.request /\ 2^k >= MinChunkSize}})
=============================================================================
