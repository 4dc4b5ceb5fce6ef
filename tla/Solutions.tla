----------------------------- MODULE Solutions -----------------------------
(***************************************************************************)
(* The exercises of src/LeetCode/code against what they are meant to       *)
(* compute.  The state is an input for some of them: a text, a pair of     *)
(* texts (or lists), a list whose last node points back, a Sudoku board, a *)
(* tree.  Inputs grow step by step, so that every input within the bounds  *)
(* is reached, and the properties compare the functions with definitions   *)
(* that do not look at how they work.                                      *)
(*                                                                         *)
(* Bounds: MaxText characters from Alphabet, MaxPair letters from Letters  *)
(* in each text of a pair, MaxRing nodes in a ring, MaxPlaced digits from  *)
(* Placeable on a board, trees of nodes from Nodes.                        *)
(***************************************************************************)
EXTENDS Strings, LinkedLists, FiniteSets, SequencesExt, FiniteSetsExt

CONSTANTS Alphabet, MaxText, Letters, MaxPair, MaxRing, Placeable, MaxPlaced, Nodes

ASSUME BoundsAssumption ==
  /\ Letters \subseteq Lower
  /\ {MaxText, MaxPair, MaxRing, MaxPlaced} \subseteq Nat

VARIABLE input

Cells == (0 .. 8) \X (0 .. 8)

Filled(board) == {c \in Cells : board[c] # 0}

ExerciseInit ==
  input \in { [kind |-> "text", word |-> <<>>],
              [kind |-> "pair", word |-> <<>>, other |-> <<>>],
              [kind |-> "ring", size |-> 0, back |-> 0],
              [kind |-> "board", board |-> [c \in Cells |-> 0]],
              [kind |-> "tree", nodes |-> {}] }

Write ==
  /\ input.kind = "text" /\ Len(input.word) < MaxText
  /\ \E c \in Alphabet : input' = [input EXCEPT !.word = Append(@, c)]

WriteFirst ==
  /\ input.kind = "pair" /\ Len(input.word) < MaxPair
  /\ \E c \in Letters : input' = [input EXCEPT !.word = Append(@, c)]

WriteSecond ==
  /\ input.kind = "pair" /\ Len(input.other) < MaxPair
  /\ \E c \in Letters : input' = [input EXCEPT !.other = Append(@, c)]

Lengthen ==
  /\ input.kind = "ring" /\ input.back = 0 /\ input.size < MaxRing
  /\ input' = [input EXCEPT !.size = @ + 1]

Close ==
  /\ input.kind = "ring" /\ input.back = 0
  /\ \E p \in 1 .. input.size : input' = [input EXCEPT !.back = p]

Place ==
  /\ input.kind = "board" /\ Cardinality(Filled(input.board)) < MaxPlaced
  /\ \E c \in Cells \ Filled(input.board), d \in Placeable :
       input' = [input EXCEPT !.board[c] = d]

Plant ==
  /\ input.kind = "tree"
  /\ \E k \in Nodes \ input.nodes :
       /\ k = 1 \/ k \div 2 \in input.nodes
       /\ input' = [input EXCEPT !.nodes = @ \union {k}]

ExerciseNext == Write \/ WriteFirst \/ WriteSecond \/ Lengthen \/ Close \/ Place \/ Plant

----------------------------------------------------------------------------
(* Lists in memory: a text as a list of its characters, from node at on.   *)

Chain(w, at) == [p \in at .. at + Len(w) - 1 |-> IF p = at + Len(w) - 1 THEN Null ELSE p + 1]
Field(w, at) == [p \in at .. at + Len(w) - 1 |-> w[p - at + 1]]
First(w, at) == IF w = <<>> THEN Null ELSE at

\* The nodes met from p on, in order.
RECURSIVE Walk(_, _)
Walk(next, p) == IF p = Null THEN <<>> ELSE <<p>> \o Walk(next, next[p])

Values(val, walk) == [i \in DOMAIN walk |-> val[walk[i]]]

Isa(kind) == input.kind = kind
word == input.word
other == input.other

\* How often c stands in s, and the place, from 0, at which sub stands first.
Occurrences(s, c) == Cardinality({i \in DOMAIN s : s[i] = c})
Places(s, sub) == {k \in 0 .. Len(s) - Len(sub) : SubSeq(s, k + 1, k + Len(sub)) = sub}
Least(S) == IF S = {} THEN -1 ELSE Min(S)

----------------------------------------------------------------------------
\* What atoi promises: blanks, a sign, digits, whatever follows; the number,
\* or the end of the range it lies beyond.
Number(s) ==
  LET blanks == Max({k \in 0 .. Len(s) : \A i \in 1 .. k : s[i] = 32})
      body   == SubSeq(s, blanks + 1, Len(s))
      signed == body # <<>> /\ Head(body) \in {43, 45}
      rest   == IF signed THEN Tail(body) ELSE body
      digits == Max({k \in 0 .. Len(rest) : \A i \in 1 .. k : rest[i] \in Digit})
      size   == FoldLeft(LAMBDA n, c : 10 * n + c - 48, 0, SubSeq(rest, 1, digits))
  IN  IF signed /\ Head(body) = 45 THEN Max({0 - size, 0 - IntMax - 1}) ELSE Min({size, IntMax})

\* myAtoi returns the number the text begins with, cut to the range of int; no
\* intermediate value leaves that range.
AtoiSaturates == Isa("text") => MyAtoi(word) = Number(word)

\* Both palindrome tests agree with turning the text around: the one on strings
\* for the letters and digits in one case, the one on lists for all values.
PalindromesFound ==
  Isa("text") =>
    LET Said == [i \in DOMAIN word |-> IF word[i] \in Lower THEN word[i] - 32 ELSE word[i]]
        Kept == SelectSeq(Said, LAMBDA c : c \in Digit \union Upper)
    IN  /\ IsPalindrome(word) <=> Kept = Reverse(Kept)
        /\ ListIsPalindrome(Chain(word, 1), Field(word, 1), First(word, 1))
             <=> word = Reverse(word)

\* Reversing a string and a list: every character and every node is kept, in
\* the opposite order, and the old first node ends the list.
NothingLostInReversal ==
  Isa("text") =>
    LET turned == ReverseList(Chain(word, 1), First(word, 1))
    IN  /\ ReverseString(word) = Reverse(word)
        /\ Walk(turned.next, turned.head) = [i \in 1 .. Len(word) |-> Len(word) + 1 - i]

\* The three ways to remove the n-th node from the end unlink that node and no
\* other, the first node included; the third for a head that holds no value.
RemovesNth ==
  Isa("text") =>
    \A n \in 1 .. Len(word) :
      LET next == Chain(word, 1)
          left(from) == SelectSeq([i \in 1 .. Len(word) + 1 - from |-> i + from - 1],
                                  LAMBDA p : p # Len(word) + 1 - n)
          one  == RemoveNthFromEnd(next, 1, n)
          two  == RemoveNthFromEnd2(next, 1, n)
          last == RemoveNthFromEnd1(next, 1, n)
      IN  /\ Walk(one.next, one.head) = left(1)
          /\ Walk(two.next, two.head) = left(1)
          /\ n < Len(word) => Walk(last.next, last.head) = left(1)

\* Deleting a node that is not the last takes its value out of the list, though
\* it is the next node that leaves.
ValueDeleted ==
  Isa("text") =>
    \A p \in 1 .. Len(word) - 1 :
      LET after == DeleteNode(Chain(word, 1), Field(word, 1), p)
      IN  Values(after.val, Walk(after.next, 1)) = RemoveAt(word, p)

\* As many passes as there are numbers bring every zero to the end and leave
\* the others in their order (a blank stands for a zero).
ZerosMoved ==
  Isa("text") =>
    LET nums  == [i \in DOMAIN word |-> word[i] - 32]
        Other == SelectSeq(nums, LAMBDA n : n # 0)
    IN  MoveZeroes(nums) = Other \o [i \in 1 .. Len(nums) - Len(Other) |-> 0]

\* What is said of a text can be read back to it, and no run is said in two
\* parts; each countAndSay(n), read back, is the one before it.
SaysWhatWasThere ==
  Isa("text") =>
    LET Run(s, k) == [i \in 1 .. s[2 * k - 1] - 48 |-> s[2 * k]]
        Heard(s)  == FlattenSeq([k \in 1 .. Len(s) \div 2 |-> Run(s, k)])
        said      == Say(word, 1, 1, <<>>)
        n         == Len(word) + 1
    IN  /\ Heard(said) = word
        /\ \A k \in 2 .. Len(said) \div 2 : said[2 * k] # said[2 * k - 2]
        /\ CountAndSay(1) = <<49>> /\ Heard(CountAndSay(n + 1)) = CountAndSay(n)

\* strStr finds the first place, and -1 only when there is none.
FirstMatchFound ==
  Isa("pair") => StrStr(word, other) = Least(Places(word, other))

\* The prefix returned is common to all strings, and none longer is.
PrefixIsLongest ==
  Isa("pair") =>
    LET strs == <<word, other, Reverse(other)>>
        p    == CommonPrefix(strs)
    IN  /\ \A i \in DOMAIN strs : IsPrefix(p, strs[i])
        /\ ~ \E c \in Letters : \A i \in DOMAIN strs : IsPrefix(Append(p, c), strs[i])

\* Anagrams are the texts with the same letters as often; the first unique
\* letter is the first that stands once.
LettersCounted ==
  Isa("pair") =>
    /\ IsAnagram(word, other)
         <=> \A c \in Letters : Occurrences(word, c) = Occurrences(other, c)
    /\ FirstUniqChar(word) = Least({i - 1 : i \in {j \in DOMAIN word : Occurrences(word, word[j]) = 1}})

\* Merging two sorted lists keeps every node of both once and the values
\* sorted.
MergeKeepsNodes ==
  Isa("pair") =>
    LET Sorted(s) == \A i, j \in DOMAIN s : i < j => s[i] <= s[j]
        both == word \o other
        next == [p \in DOMAIN both |->
                   IF p <= Len(word) THEN Chain(word, 1)[p] ELSE Chain(other, Len(word) + 1)[p]]
        m    == MergeTwoLists(next, both, First(word, 1), First(other, Len(word) + 1))
        walk == Walk(m.next, m.head)
    IN  Sorted(word) /\ Sorted(other) =>
          /\ Len(walk) = Len(both) /\ {walk[i] : i \in DOMAIN walk} = DOMAIN both
          /\ Sorted(Values(both, walk))

\* A list has a cycle exactly when its last node points back, however long the
\* way to the cycle and the cycle are.
CycleFound ==
  Isa("ring") =>
    LET next == [p \in 1 .. input.size |-> IF p = input.size THEN input.back ELSE p + 1]
    IN  HasCycle(next, IF input.size = 0 THEN Null ELSE 1) <=> input.back # 0

\* A board is refused exactly when a digit stands twice in a row, a column or a
\* box.
ClashesSeen ==
  Isa("board") =>
    LET Box(c) == <<c[1] \div 3, c[2] \div 3>>
        Share(c, d) == c[1] = d[1] \/ c[2] = d[2] \/ Box(c) = Box(d)
        Clash == \E c, d \in Filled(input.board) :
                   c # d /\ input.board[c] = input.board[d] /\ Share(c, d)
    IN  IsValidSudoku(input.board, 9, 9) <=> ~Clash

\* The depth of a tree is the number of its levels that have a node.
DepthIsLongestPath ==
  Isa("tree") =>
    MaxDepth(input.nodes, 1)
      = Cardinality({l \in 0 .. 9 : \E k \in input.nodes : 2^l <= k /\ k < 2^(l + 1)})

\* All functions on strings, arrays and boards answer as they should.
StringsAnswered ==
  /\ PalindromesFound /\ FirstMatchFound /\ PrefixIsLongest /\ LettersCounted
  /\ SaysWhatWasThere /\ ZerosMoved /\ ClashesSeen

\* All functions on lists and trees do.
ListsAnswered ==
  /\ NothingLostInReversal /\ RemovesNth /\ ValueDeleted /\ MergeKeepsNodes
  /\ CycleFound /\ DepthIsLongestPath
=============================================================================
