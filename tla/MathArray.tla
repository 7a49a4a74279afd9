----------------------------- MODULE MathArray ------------------------------
(***************************************************************************)
(* The array helpers of math.cpp: the bubble sorts sort, sortUInteger and  *)
(* sortInteger, and the statistics arrayMedian, arrayMedian50,             *)
(* arrayMedian50UInt and arrayMedian50Int, which sort a copy of the array  *)
(* and take its middle element(s) or the mean of its middle two quarters. *)
(*                                                                         *)
(* Each action is one call with an array from a small set; the variables   *)
(* hold the call's argument and what it returns (the sorted array for the  *)
(* sorts, a value for the statistics).  Float values are exact rationals   *)
(* [n |-> numerator, d |-> denominator]: the inputs are small integers, so *)
(* the float results differ only by rounding.  uint16_t and int16_t sums   *)
(* keep their width.                                                       *)
(***************************************************************************)
EXTENDS Integers, Sequences, SequencesExt, TLC

CONSTANTS
    Elems,      \* the element values the arrays take
    MaxLen      \* bound on the length argument (a uint8_t)

ASSUME MaxLen \in 1 .. 255 /\ Elems \subseteq Int

VARIABLES
    call,       \* the function last called
    array,      \* its array argument
    sorted,     \* the array after a sort call
    median      \* the value a statistics call returned

vars == <<call, array, sorted, median>>

(* Non-empty arrays: with length 0 the 50% means divide by a zero count.   *)
Arrays(S) == UNION {[1 .. n -> S] : n \in 1 .. MaxLen}

UElems == {x \in Elems : x >= 0}

U16(x)   == x % 65536
Int16(x) == ((x + 32768) % 65536) - 32768

(* C division of integers truncates towards zero.                          *)
CDiv(a, b) == IF a >= 0 THEN a \div b ELSE -((-a) \div b)

Rat(n, d) == [n |-> n, d |-> d]
RatEq(a, b) == a.n * b.d = b.n * a.d

Swap(a, i, j) == [a EXCEPT ![i] = a[j], ![j] = a[i]]

-----------------------------------------------------------------------------
RECURSIVE BubblePass_SkipFirst(_, _, _)
BubblePass_SkipFirst(a, i, swaps) ==
    IF i > Len(a) THEN <<a, swaps>>
    ELSE IF i > 2 /\ a[i - 1] > a[i] THEN BubblePass_SkipFirst(Swap(a, i - 1, i), i + 1, swaps + 1)
    ELSE BubblePass_SkipFirst(a, i + 1, swaps)

(* The for loop of one pass: from position i on, swap each element with   *)
(* the one before it when that is greater, counting the swaps.             *)
RECURSIVE BubblePass(_, _, _)
BubblePass(a, i, swaps) ==
    IF i > Len(a) THEN <<a, swaps>>
    ELSE IF a[i - 1] > a[i] THEN BubblePass(Swap(a, i - 1, i), i + 1, swaps + 1)
    ELSE BubblePass(a, i + 1, swaps)

(* sort: passes until one makes no swap (num_swaps starts at 1, so there  *)
(* is at least one pass; a pass makes at most 254 swaps, so the uint16_t   *)
(* count cannot wrap to 0).                                                *)
RECURSIVE BubbleSort(_)
BubbleSort(a) ==
    LET r == BubblePass(a, 2, 0)
    IN  IF r[2] = 0 THEN r[1] ELSE BubbleSort(r[1])

(* sortUInteger and sortInteger are the same loop over uint16_t and        *)
(* int16_t elements, whose comparisons are those of the integers.          *)
SortUInteger(a) == BubbleSort(a)
SortInteger(a)  == BubbleSort(a)

(* tmpArray[length / 4 .. length - length / 4 - 1], the middle two         *)
(* quarters the 50% means add up.                                          *)
MiddleHalf(t) == SubSeq(t, Len(t) \div 4 + 1, Len(t) - Len(t) \div 4)

Add(x, y) == x + y

ArrayMedian50_Unsorted(a) ==
    LET m == MiddleHalf(a)
    IN  Rat(FoldSeq(Add, 0, m), Len(m))

(* arrayMedian50: the float mean of the middle half of the sorted copy.    *)
ArrayMedian50(a) ==
    LET m == MiddleHalf(BubbleSort(a))
    IN  Rat(FoldSeq(Add, 0, m), Len(m))

(* arrayMedian50UInt: the sum m is a uint16_t, and m /= count truncates.   *)
ArrayMedian50UInt(a) ==
    LET m == MiddleHalf(SortUInteger(a))
    IN  FoldSeq(LAMBDA x, y : U16(x + y), 0, m) \div Len(m)

(* arrayMedian50Int: the sum m is an int16_t (each += wraps on this build) *)
(* and m /= count truncates towards zero.                                  *)
ArrayMedian50Int(a) ==
    LET m == MiddleHalf(SortInteger(a))
    IN  CDiv(FoldSeq(LAMBDA x, y : Int16(x + y), 0, m), Len(m))

(* arrayMedian reads tmpArray[length / 2 + 1] for an odd length and the     *)
(* mean of tmpArray[length / 2] and tmpArray[length / 2 + 1] for an even   *)
(* one (1-based positions one higher).                                     *)
MedianIndex(n) == n \div 2 + 2

ArrayMedian(a) ==
    LET t == BubbleSort(a)  n == Len(a)
    IN  IF n % 2 = 1 THEN Rat(t[MedianIndex(n)], 1)
        ELSE Rat(t[MedianIndex(n) - 1] + t[MedianIndex(n)], 2)

-----------------------------------------------------------------------------
Init ==
    /\ call = "none"
    /\ array = <<>>
    /\ sorted = <<>>
    /\ median = Rat(0, 1)

(* One call at a time, from idle: the sorts sort the argument in place,   *)
(* the statistics sort a copy and return a value.                          *)
Sort ==
    call = "none" /\ \E a \in Arrays(Elems) :
        call' = "sort" /\ array' = a /\ sorted' = BubbleSort(a) /\ UNCHANGED median
SortUInt ==
    call = "none" /\ \E a \in Arrays(UElems) :
        call' = "sortUInteger" /\ array' = a /\ sorted' = SortUInteger(a) /\ UNCHANGED median
SortInt ==
    call = "none" /\ \E a \in Arrays(Elems) :
        call' = "sortInteger" /\ array' = a /\ sorted' = SortInteger(a) /\ UNCHANGED median
Median50 ==
    call = "none" /\ \E a \in Arrays(Elems) :
        call' = "arrayMedian50" /\ array' = a /\ median' = ArrayMedian50(a) /\ UNCHANGED sorted
Median50UInt ==
    call = "none" /\ \E a \in Arrays(UElems) :
        call' = "arrayMedian50UInt" /\ array' = a
        /\ median' = Rat(ArrayMedian50UInt(a), 1) /\ UNCHANGED sorted
Median50Int ==
    call = "none" /\ \E a \in Arrays(Elems) :
        call' = "arrayMedian50Int" /\ array' = a
        /\ median' = Rat(ArrayMedian50Int(a), 1) /\ UNCHANGED sorted

(* arrayMedian: with length 1 or 2 the read at MedianIndex is past the end *)
(* of tmpArray and returns whatever float lies there on the stack.         *)
Median ==
    call = "none" /\ \E a \in Arrays(Elems) :
        /\ call' = "arrayMedian"
        /\ array' = a
        /\ IF MedianIndex(Len(a)) <= Len(a)
           THEN median' = ArrayMedian(a)
           ELSE median' \in {Rat(g, 1) : g \in Elems}
        /\ UNCHANGED sorted

(* The caller has used the result.                                        *)
Return ==
    /\ call # "none"
    /\ call' = "none" /\ array' = <<>> /\ sorted' = <<>> /\ median' = Rat(0, 1)

Next == Return \/ Sort \/ SortUInt \/ SortInt \/ Median50 \/ Median50UInt \/ Median50Int \/ Median

Spec == Init /\ [][Next]_vars

-----------------------------------------------------------------------------
(* The reference: the array in ascending order, and the mean of what is    *)
(* left of it when its lowest and highest quarter are dropped.             *)
Ascending(a) == SortSeq(a, LAMBDA x, y : x < y)

TrimmedMean(a) ==
    LET k == Len(a) \div 4
        t == SubSeq(Ascending(a), k + 1, Len(a) - k)
    IN  Rat(FoldSeq(Add, 0, t), Len(t))

(* The three bubble sorts leave every array of up to MaxLen elements in     *)
(* ascending order: the loop ends only after a pass without a swap, and    *)
(* each pass compares every neighbouring pair.                             *)
SortCorrect ==
    call \in {"sort", "sortUInteger", "sortInteger"} => sorted = Ascending(array)

(* arrayMedian50 returns the mean of the middle two quarters of the sorted *)
(* array: the loop bounds length / 4 and length - length / 4 drop as many  *)
(* elements at each end, and the sum runs over the sorted copy.            *)
Median50Correct ==
    call = "arrayMedian50" => RatEq(median, TrimmedMean(array))

(* arrayMedian returns the median: the middle element of an odd number of  *)
(* elements, the mean of the two middle ones of an even number.            *)
MedianIsMiddle ==
    call = "arrayMedian" =>
        LET t == Ascending(array)  n == Len(array)
        IN  RatEq(median, IF n % 2 = 1 THEN Rat(t[(n + 1) \div 2], 1)
                          ELSE Rat(t[n \div 2] + t[n \div 2 + 1], 2))

(* The integer 50% means lie between the least and the greatest element,  *)
(* as a mean does: the uint16_t and int16_t sums must not wrap.            *)
Median50IntWithinRange ==
    call \in {"arrayMedian50UInt", "arrayMedian50Int"} =>
        /\ Min(Range(array)) <= median.n
        /\ median.n <= Max(Range(array))

====
