---------------------------- MODULE LinkedLists ----------------------------
(***************************************************************************)
(* The list and tree exercises of src/LeetCode/code.  Memory is two        *)
(* functions, next and val, from the nodes (addresses from 1) to what      *)
(* their fields hold; Null is the null pointer.  A function that changes   *)
(* the list returns the pointer the code returns and the next it leaves.   *)
(***************************************************************************)
EXTENDS Integers

Null == 0

Answer(head, next) == [head |-> head, next |-> next]

\* next->next, or NULL where the code tests for the end before the second step.
Second(next, p) == IF next[p] = Null THEN Null ELSE next[next[p]]

----------------------------------------------------------------------------
\* 206. reverseList1 and reverseList, which are the same but for their names,
\* and the loop of 234 that turns the second half around.

RECURSIVE Turned(_, _, _, _)
Turned(next, pre, cur, ahead) ==
  IF ahead = Null THEN Answer(pre, next)
  ELSE Turned([next EXCEPT ![cur] = pre], cur, next[cur], next[cur])

ReverseList(next, head) ==
  IF head = Null \/ next[head] = Null THEN Answer(head, next)
  ELSE Turned(next, Null, head, next[head])

----------------------------------------------------------------------------
\* 234. isPalindrome: slow ends at the second half, which is turned around in
\* place and compared with the first.

RECURSIVE Middle(_, _, _)
Middle(next, slow, fast) ==
  IF fast = Null THEN slow ELSE Middle(next, next[slow], Second(next, fast))

RECURSIVE SameValues(_, _, _, _)
SameValues(next, val, pre, head) ==
  \/ pre = Null
  \/ val[pre] = val[head] /\ SameValues(next, val, next[pre], next[head])

ListIsPalindrome(next, val, head) ==
  IF head = Null \/ next[head] = Null THEN TRUE
  ELSE LET slow   == Middle(next, head, head)
           turned == Turned(next, Null, slow, slow)
       IN  SameValues(turned.next, val, turned.head, head)

----------------------------------------------------------------------------
\* 141. hasCycle: fast takes two steps for each of slow and meets it in a loop.

RECURSIVE Chase(_, _, _)
Chase(next, slow, fast) ==
  /\ fast # Null
  /\ LET s == next[slow]
         f == Second(next, fast)
     IN  s = f \/ Chase(next, s, f)

HasCycle(next, head) == head # Null /\ next[head] # Null /\ Chase(next, head, head)

----------------------------------------------------------------------------
\* 19. The node that is n-th from the end, taken out in three ways.

\* removeNthFromEnd: a node before the head, first n + 1 steps ahead of second.
RECURSIVE Ahead(_, _, _)
Ahead(next, first, steps) ==
  IF steps = 0 THEN first ELSE Ahead(next, next[first], steps - 1)

RECURSIVE Trail(_, _, _)
Trail(next, first, second) ==
  IF first = Null THEN second ELSE Trail(next, next[first], next[second])

Unlinked(next, p) == [next EXCEPT ![p] = next[next[p]]]

RemoveNthFromEnd(next, head, n) ==
  LET A      == -1
      placed == [p \in DOMAIN next \union {A} |-> IF p = A THEN head ELSE next[p]]
      after  == Unlinked(placed, Trail(placed, Ahead(placed, A, n + 1), A))
  IN  Answer(after[A], [p \in DOMAIN next |-> after[p]])

\* The other two count first and then unlink behind the node with number at.
RECURSIVE Count(_, _)
Count(next, temp) == IF temp = Null THEN 0 ELSE 1 + Count(next, next[temp])

RECURSIVE UnlinkAt(_, _, _, _)
UnlinkAt(next, temp, i, at) ==
  IF next[temp] = Null THEN next
  ELSE IF i = at THEN Unlinked(next, temp)
  ELSE UnlinkAt(next, next[temp], i + 1, at)

\* Mutant: the first node is no special case.
RemoveNthFromEnd2_NoHead(next, head, n) ==
  Answer(head, UnlinkAt(next, head, 1, Count(next, head) - n))

RemoveNthFromEnd2(next, head, n) ==
  LET count == Count(next, head)
  IN  IF count = n THEN Answer(next[head], next)
      ELSE Answer(head, UnlinkAt(next, head, 1, count - n))

\* removeNthFromEnd1 takes a head that holds no value and does not count it.
RemoveNthFromEnd1(next, head, n) ==
  Answer(head, UnlinkAt(next, head, 0, Count(next, next[head]) - n))

----------------------------------------------------------------------------
\* 21. mergeTwoLists.

RECURSIVE MergeTwoLists(_, _, _, _)
MergeTwoLists(next, val, l1, l2) ==
  IF l1 = Null THEN Answer(l2, next)
  ELSE IF l2 = Null THEN Answer(l1, next)
  ELSE IF val[l1] < val[l2]
  THEN LET rest == MergeTwoLists(next, val, next[l1], l2)
       IN  Answer(l1, [rest.next EXCEPT ![l1] = rest.head])
  ELSE LET rest == MergeTwoLists(next, val, l1, next[l2])
       IN  Answer(l2, [rest.next EXCEPT ![l2] = rest.head])

\* 237. deleteNode: the node takes over the value and the successor of the
\* next one, which is what leaves the list.
DeleteNode(next, val, node) ==
  [next |-> Unlinked(next, node), val |-> [val EXCEPT ![node] = val[next[node]]]]

\* 104. maxDepth.  A tree is the set of its nodes, the children of k being
\* 2 k and 2 k + 1.
RECURSIVE MaxDepth(_, _)
MaxDepth(tree, root) ==
  IF root \notin tree THEN 0
  ELSE LET i == MaxDepth(tree, 2 * root)
           j == MaxDepth(tree, 2 * root + 1)
       IN  1 + (IF i > j THEN i ELSE j)
=============================================================================
