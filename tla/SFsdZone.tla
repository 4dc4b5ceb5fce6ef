------------------------------ MODULE SFsdZone ------------------------------
(***************************************************************************)
(* Memory for the structures of the sample FSD (filesys/src/misc.c): one   *)
(* zone per kind of structure, all behind one spin lock, and the system's  *)
(* nonpaged pool when a zone is used up.  Where a structure came from is   *)
(* remembered by a flag inside it, NOT_FROM_ZONE, which the release        *)
(* routine reads.                                                          *)
(*                                                                         *)
(* The five pairs of routines are alike but for what they zero.  Taking a  *)
(* block off a zone's list and putting one back are two steps each, a read *)
(* of the list head and a write, which the spin lock has to keep together. *)
(***************************************************************************)
EXTENDS Integers

CONSTANTS
  Thread, NoThread,
  Kinds,      \* the kinds of structures in use
  Blocks,     \* the blocks of a zone
  Pool,       \* addresses of blocks the pool can give us
  Null

Kind   == {"objectName", "ccb", "fcb", "byteLocks", "irpContext"}
Zoned  == Kinds \X Blocks
Memory == Zoned \cup Pool

ASSUME KindsAssumption == Kinds \subseteq Kind
ASSUME PoolAssumption  == Pool \cap Zoned = {}
ASSUME ThreadAssumption == NoThread \notin Thread
ASSUME NullAssumption   == Null \notin Memory \cup Kinds
-----------------------------------------------------------------------------
VARIABLES
  zone,     \* ZONE_HEADER: the free blocks of each zone
  pool,     \* what is left in the pool
  marked,   \* blocks in whose flag word NOT_FROM_ZONE is set
  lock,     \* who has ZoneAllocationSpinLock
  users,    \* how often each structure is in use, as a structure of which kind
  pc, kind, \* what each thread does, and for which kind
  block,    \* the structure it is allocating or releasing
  head,     \* the list it read
  panic     \* SFsdPanic was called

memVars == <<zone, pool, marked, users>>
vars == <<memVars, lock, pc, kind, block, head, panic>>

PcLabel == {"idle", "look", "take", "unlocked", "fromZone", "fromPool",
            "toZone", "give", "put", "toPool"}
Locked  == {"look", "take", "give", "put"}

TypeOK ==
  /\ zone \in [Kinds -> SUBSET Memory]
  /\ pool \subseteq Memory
  /\ marked \subseteq Memory
  /\ lock \in Thread \cup {NoThread}
  /\ users \in [Kinds -> [Memory -> Nat]]
  /\ pc \in [Thread -> PcLabel]
  /\ kind \in [Thread -> Kinds \cup {Null}]
  /\ block \in [Thread -> Memory \cup {Null}]
  /\ head \in [Thread -> SUBSET Memory]
  /\ panic \in BOOLEAN

\* A zone's memory is not cleared when the zone is initialised.
Init ==
  /\ zone = [k \in Kinds |-> {k} \X Blocks]
  /\ pool = Pool
  /\ marked \in SUBSET Zoned
  /\ lock = NoThread
  /\ users = [k \in Kinds |-> [m \in Memory |-> 0]]
  /\ pc = [t \in Thread |-> "idle"]
  /\ kind = [t \in Thread |-> Null]
  /\ block = [t \in Thread |-> Null]
  /\ head = [t \in Thread |-> {}]
  /\ panic = FALSE

Goto(t, label) == pc' = [pc EXCEPT ![t] = label]

\* The routine returns; its local variables are gone.
Return(t) ==
  /\ pc' = [pc EXCEPT ![t] = "idle"]
  /\ kind' = [kind EXCEPT ![t] = Null]
  /\ block' = [block EXCEPT ![t] = Null]
  /\ head' = [head EXCEPT ![t] = {}]
-----------------------------------------------------------------------------
(* Allocation *)

\* KeAcquireSpinLock at the top of SFsdAllocate...
Allocate(t, k) ==
  /\ pc[t] = "idle"
  /\ lock = NoThread
  /\ lock' = t
  /\ kind' = [kind EXCEPT ![t] = k]
  /\ Goto(t, "look")
  /\ UNCHANGED <<memVars, block, head, panic>>

\* Mutant: the lock protects the test only.
LookAtZone_Unlocked(t) ==
  /\ pc[t] = "look"
  /\ head' = [head EXCEPT ![t] = zone[kind[t]]]
  /\ lock' = NoThread
  /\ Goto(t, IF zone[kind[t]] = {} THEN "unlocked" ELSE "take")
  /\ UNCHANGED <<memVars, kind, block, panic>>

\* ExIsFullZone, which is true when every block is taken.
LookAtZone(t) ==
  /\ pc[t] = "look"
  /\ head' = [head EXCEPT ![t] = zone[kind[t]]]
  /\ IF zone[kind[t]] = {}
       THEN lock' = NoThread /\ Goto(t, "unlocked")
       ELSE lock' = lock /\ Goto(t, "take")
  /\ UNCHANGED <<memVars, kind, block, panic>>

TakeFromZone(t) ==
  /\ pc[t] = "take"
  /\ \E b \in head[t] :
       /\ zone' = [zone EXCEPT ![kind[t]] = head[t] \ {b}]
       /\ block' = [block EXCEPT ![t] = b]
  /\ head' = [head EXCEPT ![t] = {}]
  /\ lock' = NoThread
  /\ Goto(t, "fromZone")
  /\ UNCHANGED <<pool, marked, users, kind, panic>>

\* Mutant: the routine goes on with a null pointer.
TakeFromPool_Unchecked(t) ==
  /\ pc[t] = "unlocked"
  /\ \E b \in pool \cup {Null} :
       /\ pool' = pool \ {b}
       /\ block' = [block EXCEPT ![t] = b]
  /\ Goto(t, "fromPool")
  /\ UNCHANGED <<zone, marked, users, lock, kind, head, panic>>

\* ExAllocatePool.  Without memory the driver brings the machine down.
TakeFromPool(t) ==
  /\ pc[t] = "unlocked"
  /\ \/ \E b \in pool :
          /\ pool' = pool \ {b}
          /\ block' = [block EXCEPT ![t] = b]
          /\ Goto(t, "fromPool")
          /\ UNCHANGED panic
     \/ panic' = TRUE /\ UNCHANGED <<pool, block, pc>>
  /\ UNCHANGED <<zone, marked, users, lock, kind, head>>

\* Mutant: for every kind the size of a pointer is cleared.
Zeroed_Pointer(k, b) == marked

\* RtlZeroMemory of the whole structure.  For byte locks what is cleared is the size of a
\* pointer, which does not reach the flag word.
Zeroed(k, b) == IF k = "byteLocks" THEN marked ELSE marked \ {b}

Initialise(t) ==
  /\ pc[t] \in {"fromZone", "fromPool"}
  /\ marked' = Zeroed(kind[t], block[t]) \cup
                 (IF pc[t] = "fromPool" THEN {block[t]} ELSE {})
  /\ users' = [users EXCEPT ![kind[t]][block[t]] = @ + 1]
  /\ Return(t)
  /\ UNCHANGED <<zone, pool, lock, panic>>
-----------------------------------------------------------------------------
(* Release, by any thread: a request's context is often released by a worker *)

Release(t, k, b) ==
  /\ pc[t] = "idle"
  /\ users[k][b] > 0
  /\ users' = [users EXCEPT ![k][b] = @ - 1]
  /\ kind' = [kind EXCEPT ![t] = k]
  /\ block' = [block EXCEPT ![t] = b]
  /\ Goto(t, IF b \in marked THEN "toPool" ELSE "toZone")
  /\ UNCHANGED <<zone, pool, marked, lock, head, panic>>

\* Mutant: the zone is read without the lock.
LockZone_NotWaiting(t) ==
  /\ pc[t] = "toZone"
  /\ lock' = t
  /\ Goto(t, "give")
  /\ UNCHANGED <<memVars, kind, block, head, panic>>

LockZone(t) ==
  /\ pc[t] = "toZone"
  /\ lock = NoThread
  /\ lock' = t
  /\ Goto(t, "give")
  /\ UNCHANGED <<memVars, kind, block, head, panic>>

\* ExFreeToZone links the block to the head of the list,
LinkBlock(t) ==
  /\ pc[t] = "give"
  /\ head' = [head EXCEPT ![t] = zone[kind[t]]]
  /\ Goto(t, "put")
  /\ UNCHANGED <<memVars, lock, kind, block, panic>>

\* and makes it the new head.
PutToZone(t) ==
  /\ pc[t] = "put"
  /\ zone' = [zone EXCEPT ![kind[t]] = head[t] \cup {block[t]}]
  /\ lock' = NoThread
  /\ Return(t)
  /\ UNCHANGED <<pool, marked, users, panic>>

\* ExFreePool
PutToPool(t) ==
  /\ pc[t] = "toPool"
  /\ pool' = pool \cup {block[t]}
  /\ Return(t)
  /\ UNCHANGED <<zone, marked, users, lock, panic>>
-----------------------------------------------------------------------------
Step(t) ==
  \/ \E k \in Kinds : Allocate(t, k) \/ \E b \in Memory : Release(t, k, b)
  \/ LookAtZone(t) \/ TakeFromZone(t) \/ TakeFromPool(t) \/ Initialise(t)
  \/ LockZone(t) \/ LinkBlock(t) \/ PutToZone(t) \/ PutToPool(t)

Stopped == panic /\ UNCHANGED vars

Next == (~panic /\ \E t \in Thread : Step(t)) \/ Stopped

Spec == Init /\ [][Next]_vars
-----------------------------------------------------------------------------
(* Properties *)

\* The places a block of memory can be.
Place == ({"zone", "user"} \X Kinds) \cup ({"thread"} \X Thread) \cup {<<"pool", "pool">>}

At(b, p) ==
  \/ p[1] = "zone"   /\ b \in zone[p[2]]
  \/ p[1] = "user"   /\ users[p[2]][b] > 0
  \/ p[1] = "thread" /\ block[p[2]] = b
  \/ p[1] = "pool"   /\ b \in pool

\* Threads that allocate and release at the same time neither lose a block
\* of memory nor have it in two places: the lists of the zones, the pool, the
\* structures in use and those on their way in or out share nothing and miss nothing.
BlocksConserved == \A b \in Memory : \E p \in Place : \A q \in Place : At(b, q) <=> q = p

\* What a structure's former user, or nobody, left in the flag word does not decide where its
\* memory goes ("give back memory either to the zone or to the VMM", misc.c:862 and the same in
\* each release routine): a zone has its own blocks only, and the pool is given what it gave.
\* The exception is a byte lock's block with the flag left in it, which nobody clears
\* (misc.c:831): it ends in the pool, and from there may serve any kind.
ReturnedWhereTaken ==
  /\ \A k \in Kinds : zone[k] \subseteq {k} \X Blocks
  /\ \A b \in pool \ Pool : b \in {"byteLocks"} \X Blocks /\ b \in marked

\* The routines implement the allocator: nobody is handed a structure that is in use.
Structures == INSTANCE Allocator
ZonesAllocate == Structures!Spec
=============================================================================
