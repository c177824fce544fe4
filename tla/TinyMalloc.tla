----------------------------- MODULE TinyMalloc -----------------------------
(***************************************************************************)
(* dv/cpu_sim/riscv_test/debug/programs/tiny-malloc.c, the allocator the   *)
(* debug tests are linked with, for a heap that grows upwards              *)
(* (MALLOC_DIRECTION > 0).                                                 *)
(*                                                                         *)
(* Addresses and sizes count words of sizeof(size_t) = 8.  A block is its   *)
(* size word and what follows; the pointer handed out is to the word       *)
(* after the size.  What programs keep in their chunks is left out.        *)
(***************************************************************************)
EXTENDS Integers, SequencesExt

CONSTANTS
  Start,     (* &__malloc_start                                            *)
  Limit,     (* MALLOC_LIMIT: where the stack begins                       *)
  Requests,  (* sizes asked for                                            *)
  Aligns,    (* alignments asked for                                       *)
  Page       (* the 128 bytes of valloc and pvalloc                        *)

ASSUME HeapAssumption ==
  /\ Start \in Nat /\ Page \in Nat \ {0}
  /\ Requests \subseteq Nat /\ Aligns \subseteq Nat

Entry == 2    (* sizeof (struct freelist_entry) *)
Gap   == 4    (* MALLOC_MINIMUM_GAP             *)

ASSUME LimitAssumption == Limit \in Nat /\ Start + Gap <= Limit

VARIABLES
  end,    (* __malloc_end                                            *)
  free,   (* __malloc_freelist, from its head on: [at, size]         *)
  live    (* blocks handed out: [at, size, want], want the size the  *)
          (* program last asked for                                  *)

vars == <<end, free, live>>

Init == end = Start /\ free = <<>> /\ live = {}

-----------------------------------------------------------------------------
Block(a, s) == [at |-> a, size |-> s]
After(b)    == b.at + b.size
Pad(x, align) == (-x) % align    (* M_ALIGN *)

RealSizeNoHeader(n) == IF n < Entry THEN Entry ELSE n  \* fault: no room for the size
RealSize(n) == IF n < Entry - 1 THEN Entry ELSE n + 1

(* Heaps during a call: its end and its free list.                         *)
Now == [end |-> end, free |-> free]

CanAllocToStack(h, required) == Limit - h.end >= required  \* fault: the gap is forgotten
CanAlloc(h, required) == Limit - h.end - Gap >= required

(* What a call leaves behind and the block it found.                       *)
Found(e, list, b) == [heap |-> [end |-> e, free |-> list], block |-> {b}]
Null(h) == [heap |-> h, block |-> {}]

Fitting(h, real) == {i \in DOMAIN h.free : h.free[i].size >= real}

(* The last free block is at the end of the heap and can be enlarged.      *)
EndsFree(h) == h.free # <<>> /\ After(Last(h.free)) = h.end

(* Block i of the list is taken, all of it if the rest would be no block.  *)
Split(h, i, real) ==
  LET b == h.free[i]
  IN  Found(h.end, [h.free EXCEPT ![i] = Block(b.at + real, b.size - real)], Block(b.at, real))

TakeReal(h, i, real) ==  \* fault: the rest of the block is lost
  Found(h.end, RemoveAt(h.free, i), Block(h.free[i].at, real))
Take(h, i, real) == Found(h.end, RemoveAt(h.free, i), h.free[i])

FirstFit(h, real) ==
  LET i == Min(Fitting(h, real))
  IN  IF h.free[i].size < real + Entry THEN Take(h, i, real) ELSE Split(h, i, real)

EnlargeKept(h, real) ==  \* fault: the enlarged block stays in the list
  LET b == Last(h.free)
  IN  IF CanAlloc(h, real - b.size) THEN Found(b.at + real, h.free, Block(b.at, real)) ELSE Null(h)
Enlarge(h, real) ==
  LET b == Last(h.free)
  IN  IF CanAlloc(h, real - b.size)
      THEN Found(b.at + real, Front(h.free), Block(b.at, real))
      ELSE Null(h)

Extend(h, real) ==
  IF CanAlloc(h, real) THEN Found(h.end + real, h.free, Block(h.end, real)) ELSE Null(h)

(* malloc                                                                  *)
AllocatedNoEnlarge(h, n) ==  \* fault: free words at the end are not used
  LET real == RealSize(n)
  IN  IF Fitting(h, real) # {} THEN FirstFit(h, real) ELSE Extend(h, real)
Allocated(h, n) ==
  LET real == RealSize(n)
  IN  CASE Fitting(h, real) # {} -> FirstFit(h, real)
        [] Fitting(h, real) = {} /\ EndsFree(h)  -> Enlarge(h, real)
        [] Fitting(h, real) = {} /\ ~EndsFree(h) -> Extend(h, real)

-----------------------------------------------------------------------------
(* free: the list is searched up to a block that touches this one or lies  *)
(* after it.                                                               *)
Stops(list, b) ==
  {i \in DOMAIN list : After(list[i]) = b.at \/ list[i].at > b.at}
StopAt(list, b) == IF Stops(list, b) = {} THEN Len(list) + 1 ELSE Min(Stops(list, b))

Grown(b, c) == Block(b.at, b.size + c.size)

(* The block ends where list[i + 1] begins as well.                        *)
NeverFills(list, i, b) == FALSE  \* fault: the block behind is not merged
FillsGap(list, i, b) == i < Len(list) /\ After(b) = list[i + 1].at

JoinLeft(list, i, b) ==
  IF FillsGap(list, i, b)
  THEN RemoveAt([list EXCEPT ![i] = Grown(Grown(@, b), list[i + 1])], i + 1)
  ELSE [list EXCEPT ![i] = Grown(@, b)]

Freed(h, b) ==
  LET i == StopAt(h.free, b)
      met == i \in DOMAIN h.free
  IN  [h EXCEPT !.free =
         CASE met /\ After(h.free[i]) = b.at -> JoinLeft(h.free, i, b)
           [] met /\ h.free[i].at = After(b) -> [h.free EXCEPT ![i] = Grown(b, @)]
           [] OTHER -> InsertAt(h.free, i, b)]

-----------------------------------------------------------------------------
(* memalign: words before the block that stay free, none or a whole entry. *)
BeforeOwnPad(b, align) ==  \* fault: the pad of the pointer before the split
  IF Pad(b.at + 1, align) = 0 THEN 0 ELSE Entry + Pad(b.at + 1, align)
Before(b, align) ==
  IF Pad(b.at + 1, align) = 0 THEN 0 ELSE Entry + Pad(b.at + Entry + 1, align)

Usable(h, real, align) ==
  {i \in DOMAIN h.free : h.free[i].size >= real + Before(h.free[i], align)}

(* The block is cut out of free block i, the words before it stay in the   *)
(* list, and those behind it if they are more than an entry.               *)
Carve(h, i, real, align) ==
  LET b      == h.free[i]
      before == Before(b, align)
      spare  == b.size - before > real + Entry
      rest   == Block(b.at + before + real, b.size - before - real)
      front  == [h.free EXCEPT ![i] = Block(b.at, before)]
  IN  CASE before # 0 /\ ~spare -> Found(h.end, front, Block(b.at + before, b.size - before))
        [] before # 0 /\ spare  -> Found(h.end, InsertAt(front, i + 1, rest), Block(b.at + before, real))
        [] before = 0 /\ ~spare -> Take(h, i, real)
        [] before = 0 /\ spare  -> Split(h, i, real)

CarveLast(h, real, align) ==
  LET i    == Len(h.free)
      b    == h.free[i]
      need == Before(b, align) + real
  IN  CASE b.size >= need -> Carve(h, i, real, align)
        [] b.size < need /\ CanAlloc(h, need - b.size) ->
             Carve([end |-> b.at + need, free |-> [h.free EXCEPT ![i].size = need]], i, real, align)
        [] OTHER -> Null(h)

(* Without a last block to enlarge one is added to the list first; it      *)
(* stays there if it turns out too small.                                  *)
Aligned(h, n, align) ==
  LET real == RealSize(n)
      more == real + Pad(h.end + 1, align)
  IN  CASE Usable(h, real, align) # {} -> Carve(h, Min(Usable(h, real, align)), real, align)
        [] Usable(h, real, align) = {} /\ EndsFree(h) -> CarveLast(h, real, align)
        [] Usable(h, real, align) = {} /\ ~EndsFree(h) ->
             IF CanAlloc(h, more)
             THEN CarveLast([end  |-> h.end + more,
                             free |-> Append(h.free, Block(h.end, more))], real, align)
             ELSE Null(h)

IsPowerOfTwo(n) == \E i \in 0 .. n - 1 : n = 2 ^ i
Memaligned(h, n, align) == IF IsPowerOfTwo(align) THEN Aligned(h, n, align) ELSE Null(h)

-----------------------------------------------------------------------------
Chunk(b, n) == [at |-> b.at, size |-> b.size, want |-> n]
AsBlock(c)  == Block(c.at, c.size)

Leaves(h) == end' = h.end /\ free' = h.free

Hands(r, n, others) ==
  /\ Leaves(r.heap)
  /\ live' = others \cup {Chunk(b, n) : b \in r.block}

Malloc(n) == Hands(Allocated(Now, n), n, live)

(* calloc's product is not checked for overflow; here it cannot.           *)
Calloc(n, elem_size) == n * elem_size \in Requests /\ Malloc(n * elem_size)

Free(c)  == Leaves(Freed(Now, AsBlock(c))) /\ live' = live \ {c}
Cfree(c) == Free(c)

ReallocNull(n) == Malloc(n)

(* To a larger block, the old one freed when the data are copied: ...      *)
Move(c, n) ==
  /\ c.size < RealSize(n)
  /\ LET r == Allocated(Now, n)
     IN  IF r.block = {} THEN UNCHANGED vars
         ELSE Hands([r EXCEPT !.heap = Freed(@, AsBlock(c))], n, live \ {c})

(* ... or in place, with the rest of the block freed if it can be one.     *)
RestIsBlock(c, n) == c.size - RealSize(n) >= Entry

Shrink(c, n) ==
  /\ c.size >= RealSize(n) /\ RestIsBlock(c, n)
  /\ Leaves(Freed(Now, Block(c.at + RealSize(n), c.size - RealSize(n))))
  /\ live' = (live \ {c}) \cup {Chunk(Block(c.at, RealSize(n)), n)}

Keep(c, n) ==
  /\ c.size >= RealSize(n) /\ ~RestIsBlock(c, n)
  /\ live' = (live \ {c}) \cup {Chunk(c, n)}
  /\ UNCHANGED <<end, free>>

Realloc(c, n) == Move(c, n) \/ Shrink(c, n) \/ Keep(c, n)

Memalign(align, n) == Hands(Memaligned(Now, n, align), n, live)
Valloc(n)  == Memalign(Page, n)
Pvalloc(n) == n + Pad(n, Page) \in Requests /\ Memalign(Page, n + Pad(n, Page))

Next ==
  \/ \E n \in Requests : Malloc(n) \/ ReallocNull(n) \/ Valloc(n) \/ Pvalloc(n)
  \/ \E n, m \in Requests : Calloc(n, m)
  \/ \E n \in Requests, align \in Aligns : Memalign(align, n)
  \/ \E c \in live : Free(c) \/ Cfree(c) \/ \E n \in Requests : Realloc(c, n)

Spec == Init /\ [][Next]_vars

-----------------------------------------------------------------------------
(* mallinfo and malloc_usable_size                                         *)
SumOfSizes(blocks) == MapThenSumSet(LAMBDA b : b.size, blocks)

Mallinfo ==
  [arena    |-> end - Start,
   fordblks |-> SumOfSizes(ToSet(free)),
   uordblks |-> end - Start - SumOfSizes(ToSet(free)),
   ordblks  |-> Len(free),
   keepcost |-> IF EndsFree(Now) THEN Last(free).size ELSE 0]

UsableSize(c) == c.size - 1

-----------------------------------------------------------------------------
TypeOK ==
  /\ end \in Start .. Limit - Gap
  /\ free \in Seq([at : Nat, size : Nat])
  /\ live \in SUBSET [at : Nat, size : Nat, want : Requests]

Blocks == {AsBlock(c) : c \in live} \cup ToSet(free)

(* Blocks that share no word, and the words of a block.                    *)
Apart(b, d) == After(b) <= d.at \/ After(d) <= b.at
Owns(b, w)  == b.at <= w /\ w < After(b)

(* Every word of the heap belongs to exactly one block, in use or free: no *)
(* call hands out a word twice, and none loses one.                        *)
HeapTiled ==
  /\ \A c, d \in live : c # d => Apart(c, d)
  /\ \A i, j \in DOMAIN free : i # j => Apart(free[i], free[j])
  /\ \A c \in live, i \in DOMAIN free : Apart(c, free[i])
  /\ \A b \in Blocks : b.size > 0 /\ Start <= b.at /\ After(b) <= end
  /\ \A w \in Start .. end - 1 : \E b \in Blocks : Owns(b, w)

(* Whatever the order of calls, the free list is sorted by address, its    *)
(* blocks can hold an entry, and no two of them touch.                     *)
FreeListOrdered ==
  /\ \A i \in DOMAIN free : free[i].size >= Entry
  /\ \A i \in 1 .. Len(free) - 1 : After(free[i]) < free[i + 1].at

(* A block of this size fits somewhere below the gap.                      *)
Room(real) ==
  \E a \in {Start} \cup {After(c) : c \in live} :
    /\ a + real <= Limit - Gap
    /\ \A c \in live : After(c) <= a \/ a + real <= c.at

(* malloc returns null only if no space is available (lines 17-19): when   *)
(* it does there is no room for the block anywhere below the gap.          *)
NullMeansFull == \A n \in Requests : Allocated(Now, n).block = {} => ~Room(RealSize(n))

(* memalign returns null or a chunk of the alignment and size asked for    *)
(* (lines 29-32).                                                          *)
AlignedOrNull ==
  \A n \in Requests, align \in Aligns :
    \A b \in Memaligned(Now, n, align).block : (b.at + 1) % align = 0 /\ b.size >= n + 1

(* mallinfo knows the free list alone, and its figures agree with the      *)
(* blocks in use; malloc_usable_size covers what was asked for.            *)
InfoAgrees ==
  /\ Mallinfo.uordblks = SumOfSizes({AsBlock(c) : c \in live})
  /\ \A c \in live : UsableSize(c) >= c.want

(* The allocator is a heap of chunks that share no word.                   *)
Abstract == INSTANCE Heap WITH
  Words  <- Start .. Limit - 1,
  chunks <- {[at |-> c.at + 1, len |-> c.want] : c \in live}

ImplementsHeap == Abstract!Spec
=============================================================================
