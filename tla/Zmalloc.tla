------------------------------ MODULE Zmalloc ------------------------------
(***************************************************************************)
(* zmalloc.c over the C library, which does not tell the size of a block:  *)
(* every block begins with its size, and used_memory is kept by adding and *)
(* subtracting sizes rounded up to a long.                                 *)
(***************************************************************************)
EXTENDS Integers, FiniteSets, FiniteSetsExt

CONSTANTS
    Block,          \* pointers
    Size,           \* sizes that are asked for
    LONG,           \* sizeof(long)
    PREFIX_SIZE

ASSUME ZmallocAssumption ==
    /\ LONG \in Nat \ {0} /\ PREFIX_SIZE \in Nat /\ PREFIX_SIZE % LONG = 0
    /\ Size \subseteq Nat

VARIABLES
    prefix,         \* what is written in front of each block, -1 for one that is not allocated
    used_memory

zmallocVars == <<prefix, used_memory>>

Allocated == {b \in Block : prefix[b] # -1}

Rounded(n) == IF n % LONG # 0 THEN n + (LONG - (n % LONG)) ELSE n

update_zmalloc_stat_alloc(used, n) == used + Rounded(n)

\* Mutant: what is given back is not rounded.
FreeUnrounded(used, n) == used - n
update_zmalloc_stat_free(used, n) == used - Rounded(n)

ZmallocInit == prefix = [b \in Block |-> -1] /\ used_memory = 0

\* zcalloc and zstrdup count in the same way.
zmalloc ==
    \E b \in Block \ Allocated, size \in Size :
        /\ prefix' = [prefix EXCEPT ![b] = size]
        /\ used_memory' = update_zmalloc_stat_alloc(used_memory, size + PREFIX_SIZE)

\* The prefix is counted in neither direction; the block may move.
zrealloc ==
    \E b \in Allocated, to \in Block, size \in Size :
        /\ to = b \/ to \notin Allocated
        /\ prefix' = [[prefix EXCEPT ![b] = -1] EXCEPT ![to] = size]
        /\ used_memory' = update_zmalloc_stat_alloc(
                              update_zmalloc_stat_free(used_memory, prefix[b]), size)

zfree ==
    \E b \in Allocated :
        /\ prefix' = [prefix EXCEPT ![b] = -1]
        /\ used_memory' = update_zmalloc_stat_free(used_memory, prefix[b] + PREFIX_SIZE)

ZmallocNext == zmalloc \/ zrealloc \/ zfree

ZmallocSpec == ZmallocInit /\ [][ZmallocNext]_zmallocVars

\* used_memory is what the live blocks take, prefixes and padding included, however
\* often they were resized: it returns to 0 and never wraps.
UsedMemoryExact ==
    used_memory = MapThenSumSet(LAMBDA b : Rounded(prefix[b] + PREFIX_SIZE), Allocated)
=============================================================================
