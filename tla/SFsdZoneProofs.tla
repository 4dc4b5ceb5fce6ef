--------------------------- MODULE SFsdZoneProofs ---------------------------
(***************************************************************************)
(* For every number of threads, kinds, blocks and pool addresses: the      *)
(* routines of SFsdZone lose no memory and hand none out twice, implement  *)
(* Allocator, and return every block to where it came from, but for byte   *)
(* locks with the flag left in them.                                       *)
(***************************************************************************)
EXTENDS SFsdZone, TLAPS

\* The labels between which the lock is held, and those at which a thread has a block.
Owner == \A t \in Thread : pc[t] \in Locked <=> lock = t

Carrying == {"fromZone", "fromPool", "toZone", "give", "put", "toPool"}

Carries ==
  \A t \in Thread :
    /\ pc[t] # "idle" => kind[t] \in Kinds
    /\ block[t] \in Memory <=> pc[t] \in Carrying

\* What a thread read of a list is still true when it writes the list.
Current == \A t \in Thread : pc[t] \in {"take", "put"} => head[t] = zone[kind[t]]

SingleUser == \A k \in Kinds, b \in Memory : users[k][b] <= 1

IInv == TypeOK /\ Owner /\ Carries /\ Current /\ SingleUser /\ BlocksConserved

\* A byte lock's block in which the flag was left.
Strayed(b) == b \in {"byteLocks"} \X Blocks /\ b \in marked

\* The flag tells where a structure came from, and so do the labels.
Origin ==
  /\ \A k \in Kinds, b \in Memory :
       users[k][b] > 0 => IF b \in marked THEN b \in Pool \/ Strayed(b) ELSE b \in {k} \X Blocks
  /\ \A t \in Thread :
       /\ pc[t] \in {"fromZone", "toZone", "give", "put"} => block[t] \in {kind[t]} \X Blocks
       /\ pc[t] \in {"fromPool", "toPool"} => block[t] \in Pool \/ Strayed(block[t])
-----------------------------------------------------------------------------
\* Initially everything is as the invariant says: blocks are on the lists or in the pool.
LEMMA InitInv == Init => IInv
<1> SUFFICES ASSUME Init PROVE IInv
  OBVIOUS
<1> USE DEF Init
<1>1. TypeOK
  BY ThreadAssumption, NullAssumption DEF TypeOK, Memory, Zoned, PcLabel
<1>2. Owner /\ Carries /\ Current /\ SingleUser
  BY ThreadAssumption, NullAssumption DEF Owner, Carries, Current, SingleUser, Locked, Carrying
<1>3. BlocksConserved
  <2> SUFFICES ASSUME NEW b \in Memory
               PROVE  \E p \in Place : \A q \in Place : At(b, q) <=> q = p
    BY DEF BlocksConserved
  <2>1. CASE b \in Pool
    <3>1. \A q \in Place : At(b, q) <=> q = <<"pool", "pool">>
      BY <2>1, PoolAssumption, NullAssumption DEF At, Place, Zoned, Memory
    <3> QED BY <3>1 DEF Place
  <2>2. CASE b \in Zoned
    <3>1. PICK k \in Kinds, n \in Blocks : b = <<k, n>>
      BY <2>2 DEF Zoned
    <3>2. \A q \in Place : At(b, q) <=> q = <<"zone", k>>
      BY <2>2, <3>1, PoolAssumption, NullAssumption DEF At, Place, Zoned, Memory
    <3>3. <<"zone", k>> \in Place
      BY DEF Place
    <3> QED BY <3>2, <3>3
  <2> QED BY <2>1, <2>2 DEF Memory
<1> QED BY <1>1, <1>2, <1>3 DEF IInv
-----------------------------------------------------------------------------
\* A step that takes one block from its place to another and leaves the
\* others where they are conserves the blocks.
LEMMA MoveConserves ==
  ASSUME BlocksConserved, NEW x \in Memory, NEW to \in Place,
         \A b \in Memory, q \in Place : At(b, q)' <=> IF b = x THEN q = to ELSE At(b, q)
  PROVE  BlocksConserved'
<1> SUFFICES ASSUME NEW b \in Memory
             PROVE  \E p \in Place : \A q \in Place : At(b, q)' <=> q = p
  BY DEF BlocksConserved, Memory, Zoned, Place
<1>1. CASE b = x
  BY <1>1
<1>2. CASE b # x
  <2>1. PICK p \in Place : \A q \in Place : At(b, q) <=> q = p
    BY DEF BlocksConserved
  <2> QED BY <1>2, <2>1
<1> QED BY <1>1, <1>2

\* So does one that moves nothing.
LEMMA StillConserves ==
  ASSUME BlocksConserved, UNCHANGED <<zone, pool, users, block>>
  PROVE  BlocksConserved'
BY DEF BlocksConserved, At, Memory, Zoned, Place

\* The place a block is at is the only one.
LEMMA OnePlace ==
  ASSUME BlocksConserved, NEW x \in Memory, NEW p \in Place, At(x, p)
  PROVE  \A q \in Place : At(x, q) <=> q = p
BY DEF BlocksConserved
\* What a thread allocates or releases has no users.
LEMMA NoUser ==
  ASSUME IInv, NEW t \in Thread, block[t] \in Memory, NEW k \in Kinds
  PROVE  users[k][block[t]] = 0
<1>1. <<"thread", t>> \in Place /\ <<"user", k>> \in Place /\ <<"user", k>> # <<"thread", t>>
  BY DEF Place
<1>2. At(block[t], <<"thread", t>>)
  BY DEF At
<1>3. ~ At(block[t], <<"user", k>>)
  BY <1>1, <1>2, OnePlace DEF IInv
<1>4. users[k][block[t]] \in Nat
  BY DEF IInv, TypeOK
<1> QED BY <1>3, <1>4 DEF At
-----------------------------------------------------------------------------
\* Every step conserves the blocks.
LEMMA ConservedStep == IInv /\ [Next]_vars => BlocksConserved'
<1> SUFFICES ASSUME IInv, [Next]_vars PROVE BlocksConserved'
  OBVIOUS
<1> USE DEF IInv
<1>0. \A t \in Thread : <<"thread", t>> \in Place
  BY DEF Place
<1>1. \A k \in Kinds : <<"zone", k>> \in Place /\ <<"user", k>> \in Place
  BY DEF Place
<1>2. ASSUME NEW t \in Thread, NEW k \in Kinds, Allocate(t, k) PROVE BlocksConserved'
  BY <1>2, StillConserves DEF Allocate, memVars
<1>3. ASSUME NEW t \in Thread, LookAtZone(t) PROVE BlocksConserved'
  BY <1>3, StillConserves DEF LookAtZone, memVars
<1>4. ASSUME NEW t \in Thread, LockZone(t) PROVE BlocksConserved'
  BY <1>4, StillConserves DEF LockZone, memVars
<1>5. ASSUME NEW t \in Thread, LinkBlock(t) PROVE BlocksConserved'
  BY <1>5, StillConserves DEF LinkBlock, memVars
<1>6. ASSUME NEW t \in Thread, TakeFromZone(t) PROVE BlocksConserved'
  <2>1. kind[t] \in Kinds /\ head[t] = zone[kind[t]] /\ block[t] \notin Memory
    BY <1>6 DEF TakeFromZone, Carries, Current, Carrying
  <2>2. PICK x \in head[t] : /\ zone' = [zone EXCEPT ![kind[t]] = head[t] \ {x}]
                             /\ block' = [block EXCEPT ![t] = x]
    BY <1>6 DEF TakeFromZone
  <2>3. x \in Memory /\ At(x, <<"zone", kind[t]>>)
    BY <2>1, <2>2 DEF TypeOK, At
  <2>4. \A q \in Place : At(x, q) <=> q = <<"zone", kind[t]>>
    BY <1>1, <2>1, <2>3, OnePlace
  <2>5. pool' = pool /\ users' = users
    BY <1>6 DEF TakeFromZone
  <2>6. ASSUME NEW b \in Memory, NEW q \in Place
        PROVE  At(b, q)' <=> IF b = x THEN q = <<"thread", t>> ELSE At(b, q)
    BY <2>1, <2>2, <2>3, <2>4, <2>5 DEF At, Place, TypeOK
  <2> QED BY <1>0, <2>3, <2>6, MoveConserves
<1>7. ASSUME NEW t \in Thread, TakeFromPool(t) PROVE BlocksConserved'
  <2>1. block[t] \notin Memory /\ zone' = zone /\ users' = users
    BY <1>7 DEF TakeFromPool, Carries, Carrying
  <2>2. CASE UNCHANGED <<pool, block>>
    BY <2>1, <2>2, StillConserves
  <2>3. ASSUME NEW x \in pool, pool' = pool \ {x}, block' = [block EXCEPT ![t] = x]
        PROVE  BlocksConserved'
    <3>1. x \in Memory /\ At(x, <<"pool", "pool">>) /\ <<"pool", "pool">> \in Place
      BY DEF TypeOK, At, Place
    <3>2. \A q \in Place : At(x, q) <=> q = <<"pool", "pool">>
      BY <3>1, OnePlace
    <3>3. ASSUME NEW b \in Memory, NEW q \in Place
          PROVE  At(b, q)' <=> IF b = x THEN q = <<"thread", t>> ELSE At(b, q)
      BY <2>1, <2>3, <3>1, <3>2 DEF At, Place, TypeOK
    <3> QED BY <1>0, <3>1, <3>3, MoveConserves
  <2> QED BY <1>7, <2>2, <2>3 DEF TakeFromPool
<1>8. ASSUME NEW t \in Thread, Initialise(t) PROVE BlocksConserved'
  <2>1. kind[t] \in Kinds /\ block[t] \in Memory /\ zone' = zone /\ pool' = pool
    BY <1>8 DEF Initialise, Carries, Carrying
  <2>2. /\ users' = [users EXCEPT ![kind[t]][block[t]] = @ + 1]
        /\ block' = [block EXCEPT ![t] = Null]
    BY <1>8 DEF Initialise, Return
  <2>3. \A q \in Place : At(block[t], q) <=> q = <<"thread", t>>
    BY <1>0, <2>1, OnePlace DEF At
  <2>4. users[kind[t]][block[t]] = 0
    BY <2>1, NoUser
  <2>5. ASSUME NEW b \in Memory, NEW q \in Place
        PROVE  At(b, q)' <=> IF b = block[t] THEN q = <<"user", kind[t]>> ELSE At(b, q)
    BY <2>1, <2>2, <2>3, <2>4, NullAssumption DEF At, Place, TypeOK
  <2> QED BY <1>1, <2>1, <2>5, MoveConserves
<1>9. ASSUME NEW t \in Thread, NEW k \in Kinds, NEW x \in Memory, Release(t, k, x)
      PROVE  BlocksConserved'
  <2>1. block[t] \notin Memory /\ zone' = zone /\ pool' = pool
    BY <1>9 DEF Release, Carries, Carrying
  <2>a. users[k][x] \in Nat /\ users[k][x] > 0 /\ users[k][x] <= 1
    BY <1>9 DEF Release, SingleUser, TypeOK
  <2>b. users[k][x] = 1
    BY <2>a
  <2>2. /\ users' = [users EXCEPT ![k][x] = 0]
        /\ block' = [block EXCEPT ![t] = x]
    BY <1>9, <2>b DEF Release, TypeOK
  <2>c. At(x, <<"user", k>>)
    BY <2>b DEF At
  <2>3. \A q \in Place : At(x, q) <=> q = <<"user", k>>
    BY <1>1, <2>c, OnePlace
  <2>4. ASSUME NEW b \in Memory, NEW q \in Place
        PROVE  At(b, q)' <=> IF b = x THEN q = <<"thread", t>> ELSE At(b, q)
    BY <2>1, <2>2, <2>3 DEF At, Place, TypeOK
  <2> QED BY <1>0, <2>4, MoveConserves
<1>10. ASSUME NEW t \in Thread, PutToZone(t) PROVE BlocksConserved'
  <2>1. /\ kind[t] \in Kinds /\ block[t] \in Memory /\ head[t] = zone[kind[t]]
        /\ pool' = pool /\ users' = users
    BY <1>10 DEF PutToZone, Carries, Carrying, Current
  <2>2. /\ zone' = [zone EXCEPT ![kind[t]] = @ \cup {block[t]}]
        /\ block' = [block EXCEPT ![t] = Null]
    BY <1>10, <2>1 DEF PutToZone, Return
  <2>3. \A q \in Place : At(block[t], q) <=> q = <<"thread", t>>
    BY <1>0, <2>1, OnePlace DEF At
  <2>4. ASSUME NEW b \in Memory, NEW q \in Place
        PROVE  At(b, q)' <=> IF b = block[t] THEN q = <<"zone", kind[t]>> ELSE At(b, q)
    BY <2>1, <2>2, <2>3, NullAssumption DEF At, Place, TypeOK
  <2> QED BY <1>1, <2>1, <2>4, MoveConserves
<1>11. ASSUME NEW t \in Thread, PutToPool(t) PROVE BlocksConserved'
  <2>1. block[t] \in Memory /\ zone' = zone /\ users' = users
    BY <1>11 DEF PutToPool, Carries, Carrying
  <2>2. pool' = pool \cup {block[t]} /\ block' = [block EXCEPT ![t] = Null]
    BY <1>11 DEF PutToPool, Return
  <2>3. \A q \in Place : At(block[t], q) <=> q = <<"thread", t>>
    BY <1>0, <2>1, OnePlace DEF At
  <2>4. ASSUME NEW b \in Memory, NEW q \in Place
        PROVE  At(b, q)' <=> IF b = block[t] THEN q = <<"pool", "pool">> ELSE At(b, q)
    BY <2>1, <2>2, <2>3, NullAssumption DEF At, Place, TypeOK
  <2>5. <<"pool", "pool">> \in Place
    BY DEF Place
  <2> QED BY <2>1, <2>4, <2>5, MoveConserves
<1>12. CASE UNCHANGED vars
  BY <1>12, StillConserves DEF vars, memVars
<1> QED BY <1>2, <1>3, <1>4, <1>5, <1>6, <1>7, <1>8, <1>9, <1>10, <1>11, <1>12 DEF Next, Step, Stopped
-----------------------------------------------------------------------------
\* Every step preserves the rest of the invariant.
LEMMA RestStep == IInv /\ [Next]_vars => TypeOK' /\ Owner' /\ Carries' /\ Current' /\ SingleUser'
<1> SUFFICES ASSUME IInv, [Next]_vars PROVE TypeOK' /\ Owner' /\ Carries' /\ Current' /\ SingleUser'
  OBVIOUS
<1> USE ThreadAssumption, NullAssumption DEF IInv, TypeOK, Owner, Carries, Current, SingleUser,
        Carrying, Locked, PcLabel
<1> DEFINE Goal == TypeOK' /\ Owner' /\ Carries' /\ Current' /\ SingleUser'
<1>2. ASSUME NEW t \in Thread, NEW k \in Kinds, Allocate(t, k) PROVE Goal
  BY <1>2 DEF Allocate, memVars, Goto
<1>3. ASSUME NEW t \in Thread, LookAtZone(t) PROVE Goal
  BY <1>3 DEF LookAtZone, memVars, Goto
<1>4. ASSUME NEW t \in Thread, LockZone(t) PROVE Goal
  BY <1>4 DEF LockZone, memVars, Goto
<1>5. ASSUME NEW t \in Thread, LinkBlock(t) PROVE Goal
  BY <1>5 DEF LinkBlock, memVars, Goto
<1>6. ASSUME NEW t \in Thread, TakeFromZone(t) PROVE Goal
  BY <1>6 DEF TakeFromZone, Goto
<1>7. ASSUME NEW t \in Thread, TakeFromPool(t) PROVE Goal
  <2>1. CASE panic' = TRUE /\ UNCHANGED <<pool, block, pc>>
    BY <1>7, <2>1 DEF TakeFromPool
  <2>2. ASSUME NEW b \in pool, pool' = pool \ {b}, block' = [block EXCEPT ![t] = b],
               Goto(t, "fromPool"), UNCHANGED panic
        PROVE  Goal
    BY <1>7, <2>2 DEF TakeFromPool, Goto
  <2> QED BY <1>7, <2>1, <2>2 DEF TakeFromPool
<1>8. ASSUME NEW t \in Thread, Initialise(t) PROVE Goal
  <2>1. users[kind[t]][block[t]] = 0
    BY <1>8, NoUser DEF Initialise
  <2> QED BY <1>8, <2>1 DEF Initialise, Return, Zeroed
<1>9. ASSUME NEW t \in Thread, NEW k \in Kinds, NEW x \in Memory, Release(t, k, x) PROVE Goal
  BY <1>9 DEF Release, Goto
<1>10. ASSUME NEW t \in Thread, PutToZone(t) PROVE Goal
  BY <1>10 DEF PutToZone, Return
<1>11. ASSUME NEW t \in Thread, PutToPool(t) PROVE Goal
  BY <1>11 DEF PutToPool, Return
<1>12. CASE UNCHANGED vars
  BY <1>12 DEF vars, memVars
<1> QED BY <1>2, <1>3, <1>4, <1>5, <1>6, <1>7, <1>8, <1>9, <1>10, <1>11, <1>12 DEF Next, Step, Stopped
-----------------------------------------------------------------------------
\* The invariant holds in every reachable state.
THEOREM Invariant == Spec => []IInv
<1>1. IInv /\ [Next]_vars => IInv'
  BY ConservedStep, RestStep DEF IInv
<1> QED BY InitInv, <1>1, PTL DEF Spec

\* TypeOK in every reachable state.
THEOREM ZoneTypes == Spec => []TypeOK
BY Invariant, PTL DEF IInv

\* No block of memory is lost or in two places, whatever the threads do at the
\* same time: SFsdAllocate... and SFsdRelease... under ZoneAllocationSpinLock.
THEOREM NothingLost == Spec => []BlocksConserved
BY Invariant, PTL DEF IInv
-----------------------------------------------------------------------------
\* What a thread allocates or releases no other thread has, and the pool has not.
LEMMA Alone ==
  ASSUME IInv, NEW t \in Thread, block[t] \in Memory
  PROVE  block[t] \notin pool /\ \A s \in Thread \ {t} : block[s] # block[t]
<1>1. /\ <<"thread", t>> \in Place /\ <<"pool", "pool">> \in Place
      /\ \A s \in Thread : <<"thread", s>> \in Place
  BY DEF Place
<1>2. At(block[t], <<"thread", t>>)
  BY DEF At
<1>3. \A q \in Place : At(block[t], q) <=> q = <<"thread", t>>
  BY <1>1, <1>2, OnePlace DEF IInv
<1>4. ~ At(block[t], <<"pool", "pool">>)
  BY <1>1, <1>3
<1>5. \A s \in Thread \ {t} : ~ At(block[t], <<"thread", s>>)
  BY <1>1, <1>3
<1> QED BY <1>4, <1>5 DEF At

\* A structure's flag says where it came from: it is zeroed before it is marked, and where it
\* is not, the block strays.
LEMMA OriginStep ==
  ASSUME IInv, Origin, ReturnedWhereTaken, [Next]_vars
  PROVE  Origin' /\ ReturnedWhereTaken'
<1> DEFINE Goal == Origin' /\ ReturnedWhereTaken'
<1> USE DEF IInv, TypeOK, Carries, Carrying, Current, Origin, ReturnedWhereTaken, Strayed
<1>2. ASSUME NEW t \in Thread, NEW k \in Kinds, Allocate(t, k) PROVE Goal
  BY <1>2 DEF Allocate, memVars, Goto
<1>3. ASSUME NEW t \in Thread, LookAtZone(t) PROVE Goal
  BY <1>3 DEF LookAtZone, memVars, Goto
<1>4. ASSUME NEW t \in Thread, LockZone(t) PROVE Goal
  BY <1>4 DEF LockZone, memVars, Goto
<1>5. ASSUME NEW t \in Thread, LinkBlock(t) PROVE Goal
  BY <1>5 DEF LinkBlock, memVars, Goto
<1>6. ASSUME NEW t \in Thread, TakeFromZone(t) PROVE Goal
  BY <1>6 DEF TakeFromZone, Goto
<1>7. ASSUME NEW t \in Thread, TakeFromPool(t) PROVE Goal
  BY <1>7 DEF TakeFromPool, Goto
<1>8. ASSUME NEW t \in Thread, Initialise(t) PROVE Goal
  <2>1. \A k \in Kinds : users[k][block[t]] = 0
    BY <1>8, NoUser DEF Initialise
  <2>2. /\ kind[t] \in Kinds /\ block[t] \in Memory
        /\ block[t] \notin pool /\ \A s \in Thread \ {t} : block[s] # block[t]
    BY <1>8, Alone DEF Initialise
  <2>3. /\ \A b \in Memory \ {block[t]} : b \in marked' <=> b \in marked
        /\ pc[t] = "fromPool" => block[t] \in marked'
        /\ kind[t] # "byteLocks" /\ pc[t] # "fromPool" => block[t] \notin marked'
    BY <1>8, <2>2 DEF Initialise, Zeroed
  <2>4. /\ UNCHANGED <<zone, pool>> /\ block' = [block EXCEPT ![t] = Null]
        /\ users' = [users EXCEPT ![kind[t]][block[t]] = @ + 1]
        /\ pc[t] \in {"fromZone", "fromPool"} /\ pc' = [pc EXCEPT ![t] = "idle"]
        /\ kind' = [kind EXCEPT ![t] = Null]
    BY <1>8 DEF Initialise, Return
  <2>5. ASSUME NEW k \in Kinds, NEW b \in Memory, users'[k][b] > 0
        PROVE  IF b \in marked' THEN b \in Pool \/ Strayed(b)' ELSE b \in {k} \X Blocks
    <3>1. CASE b = block[t]
      <4>1. k = kind[t]
        BY <2>1, <2>2, <2>4, <2>5, <3>1
      <4> QED BY <2>2, <2>3, <2>4, <3>1, <4>1
    <3>2. CASE b # block[t]
      BY <2>2, <2>3, <2>4, <2>5, <3>2
    <3> QED BY <3>1, <3>2
  <2>6. ASSUME NEW s \in Thread
        PROVE  /\ pc'[s] \in {"fromZone", "toZone", "give", "put"} => block'[s] \in {kind'[s]} \X Blocks
               /\ pc'[s] \in {"fromPool", "toPool"} => block'[s] \in Pool \/ Strayed(block[s])'
    BY <2>2, <2>3, <2>4
  <2>7. ReturnedWhereTaken'
    BY <2>2, <2>3, <2>4
  <2> QED BY <2>5, <2>6, <2>7
<1>9. ASSUME NEW t \in Thread, NEW k \in Kinds, NEW x \in Memory, Release(t, k, x) PROVE Goal
  BY <1>9 DEF Release, Goto
<1>10. ASSUME NEW t \in Thread, PutToZone(t) PROVE Goal
  BY <1>10 DEF PutToZone, Return
<1>11. ASSUME NEW t \in Thread, PutToPool(t) PROVE Goal
  BY <1>11 DEF PutToPool, Return
<1>12. CASE UNCHANGED vars
  BY <1>12 DEF vars, memVars
<1> QED BY <1>2, <1>3, <1>4, <1>5, <1>6, <1>7, <1>8, <1>9, <1>10, <1>11, <1>12 DEF Next, Step, Stopped

\* A release routine gives a block back to where the allocation took it from: what a former
\* user left in the flag word decides for no kind but byte locks (misc.c:831).
THEOREM MemoryReturned == Spec => []ReturnedWhereTaken
<1>1. Init => Origin /\ ReturnedWhereTaken
  BY DEF Init, Origin, ReturnedWhereTaken
<1>2. IInv /\ Origin /\ ReturnedWhereTaken /\ [Next]_vars => Origin' /\ ReturnedWhereTaken'
  BY OriginStep
<1> QED BY Invariant, <1>1, <1>2, PTL DEF Spec
-----------------------------------------------------------------------------
\* Every step of the routines is a step of the allocator or none.
LEMMA AllocatorStep == IInv /\ [Next]_vars => [Structures!Next]_users
<1> SUFFICES ASSUME IInv, [Next]_vars PROVE [Structures!Next]_users
  OBVIOUS
<1> USE DEF IInv
<1>1. ASSUME NEW t \in Thread, Initialise(t) PROVE Structures!Next
  <2>1. kind[t] \in Kinds /\ block[t] \in Memory
    BY <1>1 DEF Initialise, Carries, Carrying
  <2>2. \A k \in Kinds : users[k][block[t]] = 0
    BY <2>1, NoUser
  <2>3. users' = [users EXCEPT ![kind[t]][block[t]] = 1]
    <3>1. users' = [users EXCEPT ![kind[t]][block[t]] = users[kind[t]][block[t]] + 1]
      BY <1>1 DEF Initialise
    <3>2. users[kind[t]][block[t]] + 1 = 1
      BY <2>1, <2>2
    <3> QED BY <3>1, <3>2
  <2> QED BY <2>1, <2>2, <2>3 DEF Structures!Next, Structures!Allocate
<1>2. ASSUME NEW t \in Thread, NEW k \in Kinds, NEW x \in Memory, Release(t, k, x)
      PROVE  Structures!Next
  <2>1. users[k][x] \in Nat /\ users[k][x] > 0 /\ users[k][x] <= 1
    BY <1>2 DEF Release, SingleUser, TypeOK
  <2>2. users[k][x] = 1
    BY <2>1
  <2>3. users' = [users EXCEPT ![k][x] = 0]
    BY <1>2, <2>2 DEF Release, TypeOK
  <2> QED BY <2>2, <2>3 DEF Structures!Next, Structures!Release
<1>3. ASSUME NEW t \in Thread, NEW k \in Kinds, Allocate(t, k) PROVE users' = users
  BY <1>3 DEF Allocate, memVars
<1>4. CASE UNCHANGED vars
  BY <1>4 DEF vars, memVars
<1>5. ASSUME NEW t \in Thread,
             \/ LookAtZone(t) \/ TakeFromZone(t) \/ TakeFromPool(t)
             \/ LockZone(t) \/ LinkBlock(t) \/ PutToZone(t) \/ PutToPool(t)
      PROVE  users' = users
  BY <1>5 DEF LookAtZone, TakeFromZone, TakeFromPool, LockZone, LinkBlock,
              PutToZone, PutToPool, memVars
<1> QED BY <1>1, <1>2, <1>3, <1>4, <1>5 DEF Next, Step, Stopped

\* The zones and the pool together implement the allocator: no structure is
\* handed out while it is in use.
THEOREM ZonesImplementAllocator == Spec => ZonesAllocate
<1>1. Init => Structures!Init
  BY DEF Init, Structures!Init
<1> QED BY Invariant, <1>1, AllocatorStep, PTL DEF Spec, ZonesAllocate, Structures!Spec
=============================================================================
