------------------------------- MODULE Arena -------------------------------
(***************************************************************************)
(* The bump allocator of the runtime (native/niyah_runtime.c).  Addresses  *)
(* and sizes are machine words of WordSize values; the pool lies at any    *)
(* address, so the first block may need padding too.                       *)
(***************************************************************************)
EXTENDS Naturals, FiniteSets

CONSTANTS
  WordSize,    \* 2^64: arithmetic on size_t is modulo this
  Align,       \* NIYAH_ARENA_ALIGN
  FloatSize,   \* sizeof(float)
  PoolSize,    \* memory_size; 0 asks for the default
  DefaultSize, \* NIYAH_ARENA_DEFAULT
  Bases        \* addresses the pool may have

ArenaAssumption ==
  /\ Align \in Nat \ {0} /\ FloatSize \in Nat \ {0}
  /\ PoolSize \in Nat /\ DefaultSize \in Nat \ {0} /\ Bases \subseteq Nat
  /\ WordSize \in Nat
  /\ \A b \in Bases : b + PoolSize + DefaultSize + Align < WordSize

VARIABLES
  base,    \* arena->base; fixed by create
  used,    \* arena->used
  blocks   \* history: [first, size] of the blocks given out since the last reset

vars == <<base, used, blocks>>

PoolCapacity == IF PoolSize = 0 THEN DefaultSize ELSE PoolSize

Init == base \in Bases /\ used = 0 /\ blocks = {}

Padding == LET misalign == (base + used) % Align
           IN  IF misalign = 0 THEN 0 ELSE Align - misalign

\* Mutant: the end of the block is compared with the capacity
FitsBySum(bytes) ==
  Padding <= PoolCapacity - used /\ (used + Padding + bytes) % WordSize <= PoolCapacity

\* Neither comparison can overflow: both subtract from the capacity
Fits(bytes) ==
  Padding <= PoolCapacity - used /\ bytes <= PoolCapacity - (used + Padding)

Alloc(bytes) ==
  /\ bytes > 0 /\ Fits(bytes)
  /\ blocks' = blocks \cup {[first |-> base + used + Padding, size |-> bytes]}
  /\ used' = (used + Padding + bytes) % WordSize
  /\ UNCHANGED base

\* Nothing was asked for, or the pool is exhausted
AllocFails(bytes) == (bytes = 0 \/ ~Fits(bytes)) /\ UNCHANGED vars

\* A count whose size in bytes is no machine word is refused
AllocFloats(count) ==
  /\ count > 0 /\ count <= (WordSize - 1) \div FloatSize
  /\ Alloc((count * FloatSize) % WordSize)

\* Every block given out so far is void from here on
Reset == used' = 0 /\ blocks' = {} /\ UNCHANGED base

Next ==
  \/ \E bytes \in 0 .. WordSize - 1 : Alloc(bytes) \/ AllocFails(bytes)
  \/ \E count \in 1 .. WordSize - 1 : AllocFloats(count)
  \/ Reset

Spec == Init /\ [][Next]_vars

-----------------------------------------------------------------------------
(* Properties                                                              *)

Ends(b) == b.first + b.size

\* The blocks of one round lie in the pool, aligned and apart from each other,
\* for every address of the pool and every size up to the largest word.
BlocksApart ==
  /\ \A b \in blocks : /\ b.first % Align = 0
                       /\ base <= b.first /\ Ends(b) <= base + used
  /\ used <= PoolCapacity
  /\ \A b, c \in blocks : b # c => (Ends(b) <= c.first \/ Ends(c) <= b.first)

=============================================================================
