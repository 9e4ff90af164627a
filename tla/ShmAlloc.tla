------------------------------ MODULE ShmAlloc ------------------------------
(***************************************************************************)
(* libckits/shmAlloc.c: the allocator of a shared memory chunk.  The chunk *)
(* is modelled word by word, addresses and sizes in bytes as in a 32-bit   *)
(* build, because a free part keeps its list links in the memory it frees: *)
(* whether they fit there is part of the question.                         *)
(*                                                                         *)
(*   0 freeParts.next   4 freeParts.prev   8 candiate   12 magicFlag       *)
(*   16 chunkSize       20 first block: size, then the payload, or next    *)
(*                      and prev while the block is on the free list       *)
(*                                                                         *)
(* One caller at a time: the code has no lock.  The callers write Data     *)
(* over the bytes they asked for, and free what they hold, nothing else.   *)
(* CONST_MAGIC_FLAG and Data stand for two values no offset has.           *)
(***************************************************************************)
EXTENDS Integers, Sequences, FiniteSets

CONSTANTS ChunkBytes,  \* chunkSize of init_shm_allocator, memStart aligned
          Requests,    \* sizes asked of shm_malloc
          MaxUse       \* bound: init_shm_allocator calls that reset the chunk

CONST_MAGIC_FLAG == 43605
Data == 99

sizeof_shm_alloc_t == 20
sizeof_free_shm_pool_t == 12
FreeParts == 0
Candiate == 8
MagicFlag == 12
ChunkSize == 16

ALIGN_4BYTES(x) == ((x + 3) \div 4) * 4
EFFTSIZE_TO_POOLSIZE(x) == x + 4
Words == {4 * i : i \in 0 .. (ChunkBytes - 1) \div 4}

ASSUME ShmAssumption ==
    /\ ChunkBytes \in Nat /\ ChunkBytes > sizeof_shm_alloc_t + 4 /\ ChunkBytes % 4 = 0
    /\ Requests # {} /\ Requests \subseteq Nat \ {0} /\ MaxUse \in Nat

VARIABLES
    mem,      \* the words of the chunk
    refs,     \* block -> the shm_free calls its holders still owe (0: not held)
    refused,  \* the size the last call asked for in vain, 0 if it did not
    uses      \* history: how often the chunk was laid out

vars == <<mem, refs, refused, uses>>

list(node) == node + 4
prev(link) == link + 4
Good(m) == m[ChunkSize] > 0 /\ m[MagicFlag] = CONST_MAGIC_FLAG

-----------------------------------------------------------------------------
\* The circular list of offsets, rooted at FreeParts.

list_add(m, new, before, next) ==
    [m EXCEPT ![prev(next)] = new, ![new] = next, ![prev(new)] = before, ![before] = new]

shm_list_add_tail(m, new, head) == list_add(m, new, m[prev(head)], head)

shm_list_del(m, entry) ==
    [m EXCEPT ![prev(m[entry])] = m[prev(entry)], ![m[prev(entry)]] = m[entry],
              ![entry] = 0, ![prev(entry)] = 0]

\* The nodes shm_list_for_each_entry visits from a link on.
RECURSIVE Walk(_, _)
Walk(m, link) == IF link = FreeParts THEN <<>> ELSE <<link - 4>> \o Walk(m, m[link])
Parts(m) == Walk(m, m[FreeParts])

-----------------------------------------------------------------------------
\* The loop of shm_recycle: where the walk stops, and cur after the left merge.
RECURSIVE Visit(_, _, _, _)
Visit(m, link, cur, in) ==
    LET node == link - 4
    IN  IF link = FreeParts \/ node > cur
          THEN [m |-> m, link |-> link, cur |-> cur, in |-> in]
        ELSE IF node + EFFTSIZE_TO_POOLSIZE(m[node]) = cur
          THEN Visit([m EXCEPT ![node] = @ + EFFTSIZE_TO_POOLSIZE(m[cur])], m[link], node, TRUE)
        ELSE Visit(m, m[link], cur, in)

MergeRight(m, cur, link) ==
    LET node == link - 4
    IN  IF link # FreeParts /\ cur + EFFTSIZE_TO_POOLSIZE(m[cur]) = node
          THEN shm_list_del([m EXCEPT ![cur] = @ + EFFTSIZE_TO_POOLSIZE(m[node])], link)
          ELSE m

shm_recycle_unmerged(m, cur) ==
    LET v == Visit(m, m[FreeParts], cur, FALSE)
    IN  IF v.in THEN v.m ELSE shm_list_add_tail(v.m, list(v.cur), v.link)

shm_recycle(m, cur) ==
    LET v == Visit(m, m[FreeParts], cur, FALSE)
        w == IF v.in THEN v.m ELSE shm_list_add_tail(v.m, list(v.cur), v.link)
    IN  MergeRight(w, v.cur, v.link)

\* The first of the largest free parts becomes the candidate.
shm_harvest_first(m) ==
    LET s == Parts(m)
    IN  IF s = <<>> THEN [m EXCEPT ![Candiate] = 0]
        ELSE [shm_list_del(m, list(s[1])) EXCEPT ![Candiate] = s[1]]

shm_harvest(m) ==
    LET s == Parts(m)
        Largest(i) == /\ \A j \in DOMAIN s : m[s[j]] <= m[s[i]]
                      /\ \A j \in 1 .. i - 1 : m[s[j]] < m[s[i]]
        cur == s[CHOOSE i \in DOMAIN s : Largest(i)]
    IN  IF \A i \in DOMAIN s : m[s[i]] = 0 THEN [m EXCEPT ![Candiate] = 0]
        ELSE [shm_list_del(m, list(cur)) EXCEPT ![Candiate] = cur]

\* The candidate is handed out whole, or its front part when the rest can
\* stand on its own.
Carve(m, size) ==
    LET node == m[Candiate]
        cur == node + 4 + ALIGN_4BYTES(size)
    IN  IF m[node] > ALIGN_4BYTES(size) + sizeof_free_shm_pool_t
          THEN [m EXCEPT ![cur] = m[node] - ALIGN_4BYTES(size) - 4,
                         ![node] = ALIGN_4BYTES(size), ![Candiate] = cur]
          ELSE [m EXCEPT ![Candiate] = 0]

\* A candidate that fits.
Fits(m, size) == m[Candiate] # 0 /\ m[m[Candiate]] >= size

\* A candidate that is too small is forgotten.
Prepared_lost(m, size) ==
    IF m[Candiate] = 0 THEN shm_harvest(m)
    ELSE IF Fits(m, size) THEN m
    ELSE shm_harvest([m EXCEPT ![Candiate] = 0])

\* The chunk when shm_malloc looks for the last time: a missing candidate is
\* harvested; one that is too small is given back and the largest harvested.
Prepared(m, size) ==
    IF m[Candiate] = 0 THEN shm_harvest(m)
    ELSE IF Fits(m, size) THEN m
    ELSE shm_harvest(shm_recycle([m EXCEPT ![Candiate] = 0], m[Candiate]))

-----------------------------------------------------------------------------
\* The chunk as init_shm_allocator lays it out over the words m.
Fresh(m) ==
    [m EXCEPT ![FreeParts] = FreeParts, ![prev(FreeParts)] = FreeParts,
              ![Candiate] = sizeof_shm_alloc_t, ![MagicFlag] = CONST_MAGIC_FLAG,
              ![ChunkSize] = ChunkBytes - sizeof_shm_alloc_t,
              ![sizeof_shm_alloc_t] = ChunkBytes - sizeof_shm_alloc_t - 4]

Init ==
    /\ mem = Fresh([w \in Words |-> 0])
    /\ refs = [w \in Words |-> 0]
    /\ refused = 0 /\ uses = 1

\* A chunk with the flag is joined as it is, any other is laid out.
init_shm_allocator ==
    /\ mem[MagicFlag] # CONST_MAGIC_FLAG /\ uses < MaxUse
    /\ mem' = Fresh(mem) /\ uses' = uses + 1
    /\ refs' = [w \in Words |-> 0] /\ refused' = 0

uninit_shm_allocator ==
    /\ Good(mem)
    /\ mem' = [mem EXCEPT ![MagicFlag] = 0]
    /\ refused' = 0 /\ UNCHANGED <<refs, uses>>

\* The caller of shm_malloc fills the bytes it asked for.
Written(m, node, size) ==
    [w \in Words |-> IF w > node /\ w <= node + ALIGN_4BYTES(size) THEN Data ELSE m[w]]

shm_malloc(size) ==
    LET m == Prepared(mem, size)
    IN  /\ Good(mem)
        /\ \/ /\ Fits(m, size)
              /\ mem' = Written(Carve(m, size), m[Candiate], size)
              /\ refs' = [refs EXCEPT ![m[Candiate]] = 1]
              /\ refused' = 0
           \/ /\ ~Fits(m, size)
              /\ mem' = m /\ refused' = size /\ UNCHANGED refs
        /\ UNCHANGED uses

\* The block a holder passes to shm_add_reference and shm_free.
Held(b) == refs[b] > 0

shm_add_reference(b) ==
    /\ Good(mem) /\ Held(b)
    /\ (mem[b] \div 4) * 4 <= mem[ChunkSize]
    /\ mem[b] % 4 < 3
    /\ mem' = [mem EXCEPT ![b] = @ + 1]
    /\ refs' = [refs EXCEPT ![b] = @ + 1]
    /\ refused' = 0 /\ UNCHANGED uses

\* Gives the block back at the first shm_free.
shm_free_at_once(b) ==
    /\ Good(mem) /\ Held(b)
    /\ mem' = shm_recycle([mem EXCEPT ![b] = (@ \div 4) * 4], b)
    /\ refs' = [refs EXCEPT ![b] = @ - 1]
    /\ refused' = 0 /\ UNCHANGED uses

shm_free(b) ==
    /\ Good(mem) /\ Held(b)
    /\ (mem[b] \div 4) * 4 <= mem[ChunkSize]
    /\ mem' = IF mem[b] % 4 # 0 THEN [mem EXCEPT ![b] = @ - 1] ELSE shm_recycle(mem, b)
    /\ refs' = [refs EXCEPT ![b] = @ - 1]
    /\ refused' = 0 /\ UNCHANGED uses

Next ==
    \/ init_shm_allocator
    \/ uninit_shm_allocator
    \/ \E size \in Requests : shm_malloc(size)
    \/ \E b \in Words : shm_add_reference(b) \/ shm_free(b)

Spec == Init /\ [][Next]_vars

-----------------------------------------------------------------------------
Free(m) == LET s == Parts(m) IN {s[i] : i \in DOMAIN s}
Unheld(m) == Free(m) \cup ({m[Candiate]} \ {0})
HeldBlocks == {b \in Words : Held(b)}
End(m, b) == b + EFFTSIZE_TO_POOLSIZE((m[b] \div 4) * 4)

\* The blocks in the holders' hands, the free parts and the candidate tile the
\* chunk: every block starts where another ends, none is in two roles, and no
\* byte is lost or given out twice, whatever was split, merged and harvested.
Tiling ==
    LET blocks == HeldBlocks \cup Unheld(mem)
    IN  /\ HeldBlocks \cap Unheld(mem) = {} /\ mem[Candiate] \notin Free(mem)
        /\ {End(mem, b) : b \in blocks} \cup {sizeof_shm_alloc_t} = blocks \cup {ChunkBytes}
        /\ \A b, c \in blocks : b < c => End(mem, b) <= c

\* The free list is in address order and what touches is merged, which is why
\* shm_recycle may stop at the first part behind the block it returns.
Coalesced ==
    LET s == Parts(mem)
    IN  \A i, j \in DOMAIN s : i < j => End(mem, s[i]) < s[j]

\* The largest payload that can be had by joining free blocks that touch.
Largest ==
    LET ends == {End(mem, b) : b \in Unheld(mem)}
        Run(b, e) == \A w \in Words : w \in b .. e - 1 => ~\E h \in HeldBlocks : h <= w /\ w < End(mem, h)
    IN  {e - b - 4 : <<b, e>> \in {p \in Unheld(mem) \X ends : p[1] < p[2] /\ Run(p[1], p[2])}}

\* shm_malloc returns NULL only if no run of free memory, the candidate and
\* the parts next to it taken together, has the room.
RefusedOnlyIfFull == refused # 0 => \A n \in Largest : n < refused

\* The allocator writes nothing into memory somebody holds: headers and links
\* stay out of the payload, also when other holders of the same block let go.
PayloadIntact ==
    LET least == CHOOSE n \in Requests : \A r \in Requests : n <= r
    IN  Good(mem) => \A b \in HeldBlocks : \A w \in Words :
            b < w /\ w <= b + ALIGN_4BYTES(least) => mem[w] = Data
=============================================================================
