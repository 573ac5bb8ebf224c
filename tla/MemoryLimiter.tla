---------------------------- MODULE MemoryLimiter ----------------------------
(***************************************************************************)
(* The memory limiter, iotc_memory_limiter.c: every block the library      *)
(* allocates carries an entry with its size, which is counted against two  *)
(* limits.  The application may use less than the system, whose reserve    *)
(* lets it schedule what unwinds a connection when memory is exhausted.    *)
(* In builds with IOTC_DEBUG_EXTRA_INFO the entries are also linked into a *)
(* list, newest first, that leaks are reported from.                       *)
(*                                                                         *)
(* Allocating, reallocating and freeing hold one critical section from     *)
(* their first access to their last and are one action each; setting the   *)
(* limit takes no lock, and its check and its two assignments are three.   *)
(* A call that is refused changes nothing and is no action.                *)
(***************************************************************************)
EXTENDS Integers, FiniteSetsExt

CONSTANTS
  Blocks,        \* the addresses the platform's allocator hands out
  NULL,
  Sizes,         \* the sizes callers ask for
  Header,        \* sizeof(iotc_memory_limiter_entry_t)
  SystemLimit,   \* IOTC_MEMORY_LIMITER_SYSTEM_MEMORY_LIMIT
  Limits         \* the limits the application sets, and the first one

ASSUME MemoryLimiterAssumption ==
  /\ IsFiniteSet(Blocks)
  /\ NULL \notin Blocks \cup {"TOTAL", "APPLICATION"}
  /\ NULL \notin [size : Nat, type : {"APPLICATION", "SYSTEM"},
                  next : Blocks \cup {NULL}, prev : Blocks \cup {NULL}]
  /\ Sizes \subseteq Nat \ {0}
  /\ Header \in Nat /\ SystemLimit \in Nat
  /\ \A limit \in Limits : limit \in Nat /\ limit >= SystemLimit

VARIABLES
  heap,               \* of every block: its entry, or NULL while it is free
  head,               \* iotc_memory_limiter_entry_list_head
  allocated,          \* iotc_memory_allocated
  total_limit,        \* iotc_memory_total_limit
  application_limit,  \* iotc_memory_application_limit
  debug,              \* IOTC_DEBUG_EXTRA_INFO
  limiting,           \* iotc_memory_limiter_set_limit under way: its next step, or NULL
  new_limit,          \* its argument
  raced,              \* history: memory was taken while the limit was being set
  gc,                 \* iotc_memory_limiter_gc under way: the block it is at, or NULL
  aborted             \* an assertion has failed or freed memory was used: the end

vars == <<heap, head, allocated, total_limit, application_limit, debug, limiting,
          new_limit, raced, gc, aborted>>

limits == <<total_limit, application_limit, limiting, new_limit>>

Types == {"APPLICATION", "SYSTEM"}

Live == {b \in Blocks : heap[b] # NULL}

Init ==
  /\ heap = [b \in Blocks |-> NULL]
  /\ head = NULL
  /\ allocated = 0
  /\ total_limit \in Limits
  /\ application_limit = total_limit - SystemLimit
  /\ debug \in BOOLEAN
  /\ limiting = NULL /\ new_limit = 0 /\ raced = FALSE
  /\ gc = NULL /\ aborted = FALSE

-----------------------------------------------------------------------------
(* The list of entries.                                                    *)

\* S holds the first entry of the list, and with every entry the next.
IsClosed(S, h, first) ==
  /\ first \in S \cup {NULL}
  /\ \A b \in S : h[b] # NULL => h[b].next \in S \cup {NULL}

\* The entries that are reached from the head of the list.
Reached(h, first) == {b \in Blocks : \A S \in SUBSET Blocks : IsClosed(S, h, first) => b \in S}

\* Mutant: the next entry still points back to the one taken out.
UnlinkForwards(h, b) ==
  IF ~debug \/ h[b].prev = NULL THEN h ELSE [h EXCEPT ![h[b].prev].next = h[b].next]

\* The list without the entry of b, which keeps its own pointers.
Unlink(h, b) ==
  LET prev == h[b].prev
      next == h[b].next
      forth == IF prev = NULL THEN h ELSE [h EXCEPT ![prev].next = next]
  IN  IF ~debug THEN h
      ELSE IF next = NULL THEN forth
      ELSE [forth EXCEPT ![next].prev = prev]

HeadWithout(b) == IF debug /\ heap[b].prev = NULL THEN heap[b].next ELSE head

\* The list h with the entry of b, which is not in it, put first.
PutFirst(h, first, b, entry) ==
  IF ~debug \/ first = NULL
    THEN [h EXCEPT ![b] = entry]
    ELSE [h EXCEPT ![b] = [entry EXCEPT !.next = first], ![first].prev = b]

-----------------------------------------------------------------------------
(* The operations, for the application and for the system.                 *)

\* Mutant: the application may use the reserve.
FitsForAll(type, n) == allocated + n <= total_limit

\* iotc_memory_limiter_will_allocation_fit
Fits(type, n) ==
  allocated + n <= IF type = "APPLICATION" THEN application_limit ELSE total_limit

\* Nobody allocates while the tests collect what leaked.
Calling == gc = NULL

Takes(n) == raced' = (raced \/ (limiting # NULL /\ n > 0))

\* What a debug build writes through these links is an entry, of a block in use.
Writable(links, blocks) == debug => links \subseteq blocks \cup {NULL}

Neighbours(b) == {heap[b].prev, heap[b].next}

Aborts ==
  /\ aborted' = TRUE
  /\ UNCHANGED <<heap, head, allocated, limits, debug, raced>>

\* iotc_memory_limiter_alloc, and iotc_memory_limiter_calloc through it
Alloc(type, b, asked) ==
  LET size == asked + Header
      entry == [size |-> size, type |-> type, next |-> NULL, prev |-> NULL]
  IN  /\ Calling /\ b \notin Live
      /\ Fits(type, size)
      /\ IF ~Writable({head}, Live \cup {b}) THEN Aborts
           ELSE /\ heap' = PutFirst(heap, head, b, entry)
                /\ head' = IF debug THEN b ELSE head
                /\ allocated' = allocated + size
                /\ Takes(size)
                /\ UNCHANGED <<limits, debug, aborted>>
      /\ UNCHANGED gc

\* Mutant: the block is counted once more.
CountedAgain(b, size) == allocated + size

\* What is counted when the block b has got its new size.
CountedWith(b, size) == allocated + size - heap[b].size

\* What a new size asks of the limit.
Growth(b, size) == Max({size - heap[b].size, 0})

\* The block b, whose entry has left the list, gets its new size at to, which may be b
\* itself, and is put first; its pointer to the previous entry stays as it was.
Moves(type, b, to, size) ==
  IF ~Writable({HeadWithout(b)}, (Live \ {b}) \cup {to}) THEN Aborts
    ELSE /\ heap' = PutFirst([Unlink(heap, b) EXCEPT ![b] = NULL], HeadWithout(b), to,
                             [heap[b] EXCEPT !.size = size, !.type = type])
         /\ head' = IF debug THEN to ELSE head
         /\ allocated' = CountedWith(b, size)
         /\ Takes(size - heap[b].size)
         /\ UNCHANGED <<limits, debug, aborted>>

\* The platform finds no room: the block stays with its caller, out of the list.
Refuses(b) ==
  /\ heap' = Unlink(heap, b)
  /\ head' = HeadWithout(b)
  /\ UNCHANGED <<allocated, limits, debug, raced, aborted>>

\* iotc_memory_limiter_realloc to the block to, or to NULL when the platform refuses
Realloc(type, b, to, asked) ==
  LET size == asked + Header
  IN  /\ Calling
      /\ Fits(type, Growth(b, size))
      /\ IF ~Writable(Neighbours(b), Live) THEN Aborts
           ELSE IF to = NULL THEN Refuses(b) ELSE Moves(type, b, to, size)
      /\ UNCHANGED gc

\* The list is searched for b first; an assertion fails when it is not there.
Frees(b) ==
  IF debug /\ (b \notin Reached(heap, head) \/ ~Writable(Neighbours(b), Live)) THEN Aborts
    ELSE /\ heap' = [Unlink(heap, b) EXCEPT ![b] = NULL]
         /\ head' = HeadWithout(b)
         /\ allocated' = Max({allocated - heap[b].size, 0})
         /\ UNCHANGED <<limits, debug, raced, aborted>>

\* iotc_memory_limiter_free
Free(b) == Calling /\ Frees(b) /\ UNCHANGED gc

-----------------------------------------------------------------------------
(* iotc_memory_limiter_set_limit, without the lock.                        *)

limitKeeps == UNCHANGED <<heap, head, allocated, debug, gc, aborted>>

SetLimitChecks(limit) ==
  /\ Calling /\ limiting = NULL
  /\ limit >= allocated + SystemLimit
  /\ limiting' = "TOTAL" /\ new_limit' = limit /\ raced' = FALSE
  /\ limitKeeps /\ UNCHANGED <<total_limit, application_limit>>

SetsTotal ==
  /\ limiting = "TOTAL"
  /\ total_limit' = new_limit /\ limiting' = "APPLICATION"
  /\ limitKeeps /\ UNCHANGED <<application_limit, new_limit, raced>>

SetsApplication ==
  /\ limiting = "APPLICATION"
  /\ application_limit' = total_limit - SystemLimit
  /\ limiting' = NULL /\ new_limit' = 0
  /\ limitKeeps /\ UNCHANGED <<total_limit, raced>>

-----------------------------------------------------------------------------
(* iotc_memory_limiter_gc, which the tests call for what leaked, with      *)
(* nothing else under way: it frees the list from its end.                 *)

gcStarts ==
  LET lasts == {b \in Reached(heap, head) \cap Live : heap[b].next = NULL}
  IN  /\ Calling /\ limiting = NULL /\ debug /\ head # NULL
      /\ IF lasts = {} THEN Aborts /\ UNCHANGED gc
           ELSE gc' \in lasts /\ UNCHANGED <<heap, head, allocated, limits, debug, raced, aborted>>

gcFrees ==
  /\ gc # NULL
  /\ IF gc \in Live THEN Frees(gc) /\ gc' = heap[gc].prev
       ELSE Aborts /\ UNCHANGED gc

-----------------------------------------------------------------------------

Call ==
  \/ \E type \in Types, b \in Blocks, asked \in Sizes : Alloc(type, b, asked)
  \/ \E type \in Types, b \in Live, asked \in Sizes :
       \E to \in {b, NULL} \cup (Blocks \ Live) : Realloc(type, b, to, asked)
  \/ \E b \in Live : Free(b)
  \/ (\E limit \in Limits : SetLimitChecks(limit)) \/ SetsTotal \/ SetsApplication
  \/ gcStarts \/ gcFrees

Next == ~aborted /\ Call

Spec == Init /\ [][Next]_vars

-----------------------------------------------------------------------------
(* Properties.                                                             *)

\* The bytes of the blocks of these types in the heap h.
Bytes(h, types) ==
  UNION {{b} \X (1..h[b].size) : b \in {c \in Blocks : h[c] # NULL /\ h[c].type \in types}}

BytesOf(types) == Cardinality(Bytes(heap, types))

\* What is counted is what is allocated, entries included, through every order of
\* allocating, moving and freeing: the assertion of iotc_memory_limiter_free holds,
\* and nothing is lost for good.
AllocatedIsTheSum == allocated = BytesOf(Types)

\* The application leaves the system its reserve and the library keeps to the limit
\* that was set, in every order of allocations of both kinds and changes of the
\* limit, unless memory was taken while the limit was being set.
ReserveIsLeft ==
  limiting = NULL /\ ~raced =>
    /\ allocated <= total_limit
    /\ BytesOf({"APPLICATION"}) <= total_limit - SystemLimit

\* In debug builds the list holds the allocated blocks, each once, and is linked both
\* ways; the collector is at one of them.
ListIsWhole ==
  debug =>
    /\ Reached(heap, head) = Live
    /\ gc \in Live \cup {NULL}
    /\ \A b \in Live :
         /\ heap[b].next # NULL => heap[b].next \in Live /\ heap[heap[b].next].prev = b
         /\ IF b = head THEN heap[b].prev = NULL
              ELSE heap[b].prev \in Live /\ heap[heap[b].prev].next = b

\* A block is resized that is not the newest, or is not moved since there is no room.
ResizesWrongly ==
  \E type \in Types, b \in Live, asked \in Sizes :
    \E to \in {b, NULL} \cup (Blocks \ Live) :
      Realloc(type, b, to, asked) /\ (heap[b].prev # NULL \/ to = NULL)

\* Nothing else that is done to a whole list in a debug build breaks it, fails an
\* assertion of iotc_memory_limiter_free or uses freed memory: every leak is found unless
\* a block was resized in one of those two ways (iotc_memory_limiter.c:258-275).
OnlyResizingBreaksTheList ==
  [][ListIsWhole => ~aborted' /\ (ListIsWhole' \/ ResizesWrongly)]_vars
=============================================================================
