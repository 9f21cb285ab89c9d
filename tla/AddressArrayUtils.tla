-------------------------- MODULE AddressArrayUtils --------------------------
(***************************************************************************)
(* contracts/lib/AddressArrayUtils.sol: address arrays as sequences (index *)
(* 0 of the code is index 1 here).                                         *)
(***************************************************************************)
EXTENDS Integers, Sequences, Revert

\* Index of the first occurrence, 0 when the address is absent (the code
\* returns isIn = false).
indexOf(A, a) ==
    IF \E i \in 1 .. Len(A) : A[i] = a
    THEN CHOOSE i \in 1 .. Len(A) : A[i] = a /\ \A j \in 1 .. (i - 1) : A[j] # a
    ELSE 0

contains(A, a) == indexOf(A, a) # 0

\* The element after the one at index goes.
popOffByOne(A, index) ==
    [i \in 1 .. (Len(A) - 1) |-> IF i <= index THEN A[i] ELSE A[i + 1]]

\* The array without the element at index; later elements move down by one.
pop(A, index) ==
    [i \in 1 .. (Len(A) - 1) |-> IF i < index THEN A[i] ELSE A[i + 1]]

remove(A, a) == Require(contains(A, a), pop(A, indexOf(A, a)))

\* The array is popped twice.
removeStoragePopsTwice(A, a) ==
    LET index == indexOf(A, a)
        last == Len(A)
    IN  Require(index # 0,
            [i \in 1 .. (last - 2) |-> IF i = index THEN A[last] ELSE A[i]])

\* The last element takes the removed one's slot, then the array is popped.
removeStorage(A, a) ==
    LET index == indexOf(A, a)
        last == Len(A)
    IN  Require(index # 0,
            [i \in 1 .. (last - 1) |-> IF i = index THEN A[last] ELSE A[i]])
=============================================================================
