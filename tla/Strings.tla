------------------------------ MODULE Strings ------------------------------
(***************************************************************************)
(* The string and array exercises of src/LeetCode/code: each C function    *)
(* as an operator with the function's result.  A string is a sequence of   *)
(* character codes (ASCII, because the code computes with them); index i   *)
(* of the C string is i + 1 here, and Char reads the terminating zero      *)
(* behind the end.  IntMax is INT_MAX, 127 in the model: what the code     *)
(* depends on is its last digit, the 7 it has as a literal.                *)
(***************************************************************************)
EXTENDS Integers, Sequences

CONSTANT IntMax

ASSUME IntMaxAssumption == IntMax \in Nat /\ IntMax % 10 = 7

Digit == 48 .. 57
Upper == 65 .. 90
Lower == 97 .. 122

Char(s, i) == IF i <= Len(s) THEN s[i] ELSE 0

\* What an int holds after x is stored in it.
Stored(x) == ((x + IntMax + 1) % (2 * (IntMax + 1))) - (IntMax + 1)

----------------------------------------------------------------------------
\* 8. myAtoi.  The digits from i on; limit is returned instead of a number
\* beyond it.  A number at a tenth of the limit may go on with 0 .. 7.

RECURSIVE ReadDigits(_, _, _, _)

\* Mutant: the last digit is not looked at.
ReadDigits_Late(str, i, temp, limit) ==
  IF Char(str, i) \notin Digit THEN temp
  ELSE IF temp > limit \div 10 THEN limit
  ELSE ReadDigits(str, i + 1, Stored(temp * 10 + Char(str, i) - 48), limit)

ReadDigits(str, i, temp, limit) ==
  LET digit == Char(str, i) - 48
      full  == temp > limit \div 10 \/ (temp = limit \div 10 /\ digit > 7)
  IN  IF Char(str, i) \notin Digit THEN temp
      ELSE IF full THEN limit
      ELSE ReadDigits(str, i + 1, Stored(temp * 10 + digit), limit)

RECURSIVE SkipSpaces(_, _)
SkipSpaces(str, index) == IF Char(str, index) = 32 THEN SkipSpaces(str, index + 1) ELSE index

MyAtoi(str) ==
  LET index == SkipSpaces(str, 1)
      first == Char(str, index)
  IN  CASE first = 45      -> Stored(0 - ReadDigits(str, index + 1, 0, IntMax + 1))
        [] first = 43      -> ReadDigits(str, index + 1, 0, IntMax)
        [] first \in Digit -> ReadDigits(str, index, 0, IntMax)
        [] OTHER           -> 0

----------------------------------------------------------------------------
\* 125. isPalindrome: two indices move towards each other, past anything that
\* is no letter and no digit; lower case letters are raised by 32.

Raised(c) == IF c \in Lower THEN c - 32 ELSE c

RECURSIVE Meet(_, _, _)
Meet(s, i, j) ==
  LET counts(k) == s[k] \in Digit \union Upper \union Lower
  IN  IF i >= j THEN TRUE
      ELSE IF ~counts(i) THEN Meet(s, i + 1, j)
      ELSE IF ~counts(j) THEN Meet(s, i, j - 1)
      ELSE Raised(s[i]) = Raised(s[j]) /\ Meet(s, i + 1, j - 1)

IsPalindrome(s) == Meet(s, 1, Len(s))

----------------------------------------------------------------------------
\* 28. strStr: the first place that matches is the answer; a first character
\* with too little of the haystack behind it ends the search.

RECURSIVE Search(_, _, _)

\* Mutant: after a partial match the search goes on behind it.
Search_JumpsOn(haystack, needle, i) ==
  IF i > Len(haystack) THEN -1
  ELSE IF needle[1] # haystack[i] THEN Search(haystack, needle, i + 1)
  ELSE IF Len(haystack) - (i - 1) < Len(needle) THEN -1
  ELSE IF SubSeq(haystack, i, i + Len(needle) - 1) = needle THEN i - 1
  ELSE Search(haystack, needle, i + Len(needle))

Search(haystack, needle, i) ==
  IF i > Len(haystack) THEN -1
  ELSE IF needle[1] # haystack[i] THEN Search(haystack, needle, i + 1)
  ELSE IF Len(haystack) - (i - 1) < Len(needle) THEN -1
  ELSE IF \E j \in 1 .. Len(needle) : haystack[i + j - 1] # needle[j]
       THEN Search(haystack, needle, i + 1)
  ELSE i - 1

StrStr(haystack, needle) ==
  IF needle = <<>> THEN 0
  ELSE IF Len(needle) > Len(haystack) THEN -1
  ELSE Search(haystack, needle, 1)

----------------------------------------------------------------------------
\* 14. longestCommonPrefix (CommonPrefix, as a community module has the other
\* name): temp starts as the first string and is cut, string
\* by string, where the two differ first.

RECURSIVE Agreement(_, _, _)
Agreement(temp, current, j) ==
  IF j > Len(temp) \/ temp[j] # Char(current, j) THEN j - 1
  ELSE Agreement(temp, current, j + 1)

RECURSIVE Cut(_, _, _)
Cut(strs, i, temp) ==
  IF i > Len(strs) \/ temp = <<>> THEN temp
  ELSE Cut(strs, i + 1, SubSeq(temp, 1, Agreement(temp, strs[i], 1)))

CommonPrefix(strs) == IF strs = <<>> THEN <<>> ELSE Cut(strs, 1, strs[1])

----------------------------------------------------------------------------
\* 242. isAnagram and 387. firstUniqChar count the letters a to z.

RECURSIVE Weighed(_, _, _, _)
Weighed(s, t, i, c) ==
  IF i > Len(s) THEN c
  ELSE LET up == [c EXCEPT ![s[i]] = @ + 1]
       IN  Weighed(s, t, i + 1, [up EXCEPT ![t[i]] = @ - 1])

IsAnagram(s, t) ==
  /\ Len(s) = Len(t)
  /\ \A l \in Lower : Weighed(s, t, 1, [k \in Lower |-> 0])[l] = 0

RECURSIVE Tallied(_, _, _)
Tallied(s, i, c) == IF i > Len(s) THEN c ELSE Tallied(s, i + 1, [c EXCEPT ![s[i]] = @ + 1])

RECURSIVE FirstOnce(_, _, _)
FirstOnce(s, c, i) ==
  IF i > Len(s) THEN -1 ELSE IF c[s[i]] = 1 THEN i - 1 ELSE FirstOnce(s, c, i + 1)

FirstUniqChar(s) == FirstOnce(s, Tallied(s, 1, [k \in Lower |-> 0]), 1)

----------------------------------------------------------------------------
\* 38. countAndSay: one round of saying, and the rounds from "1" on.

RECURSIVE Say(_, _, _, _)
Say(pre, i, count, result) ==
  IF i > Len(pre) THEN result
  ELSE IF pre[i] = Char(pre, i + 1) THEN Say(pre, i + 1, count + 1, result)
  ELSE Say(pre, i + 1, 1, result \o <<count + 48, pre[i]>>)

RECURSIVE CountAndSay(_)
CountAndSay(n) == IF n = 1 THEN <<49>> ELSE Say(CountAndSay(n - 1), 1, 1, <<>>)

----------------------------------------------------------------------------
\* 283. moveZeroes: as many passes as there are numbers, each of which swaps
\* every zero it meets with its right neighbour.  344. reverseString.

Swapped(s, i, j) == [s EXCEPT ![i] = s[j], ![j] = s[i]]

RECURSIVE Pass(_, _)
Pass(nums, j) ==
  IF j >= Len(nums) THEN nums
  ELSE Pass(IF nums[j] # 0 THEN nums ELSE Swapped(nums, j, j + 1), j + 1)

RECURSIVE Passes(_, _)
Passes(nums, i) == IF i > Len(nums) THEN nums ELSE Passes(Pass(nums, 1), i + 1)

MoveZeroes(nums) == Passes(nums, 1)

RECURSIVE SwapEnds(_, _)
SwapEnds(s, i) ==
  IF i > Len(s) \div 2 THEN s ELSE SwapEnds(Swapped(s, i, Len(s) + 1 - i), i + 1)

ReverseString(s) == SwapEnds(s, 1)

----------------------------------------------------------------------------
\* 36. isValidSudoku: rows, columns, then the boxes of 3 by 3.  A board maps
\* row and column, from 0, to a digit or to 0 for a dot.

Twice(a, b) == a # 0 /\ a = b

IsValidSudoku(board, boardSize, boardColSize) ==
  LET Rows == 0 .. boardSize - 1
      Cols == 0 .. boardColSize - 1
      Corners(n) == {i \in 0 .. n - 1 : i % 3 = 0}
  IN  /\ \A i \in Rows, j \in Cols : \A k \in j + 1 .. boardColSize - 1 :
           ~Twice(board[i, j], board[i, k])
      /\ \A i \in Rows, j \in Cols : \A k \in j + 1 .. boardColSize - 1 :
           ~Twice(board[j, i], board[k, i])
      /\ \A i \in Corners(boardSize), j \in Corners(boardColSize) :
           \A k \in 0 .. 3 * 3 - 2 : \A l \in k + 1 .. 3 * 3 - 1 :
             ~Twice(board[(k \div 3) + i, (k % 3) + j], board[(l \div 3) + i, (l % 3) + j])
=============================================================================
