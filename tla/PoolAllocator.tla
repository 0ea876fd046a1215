---------------------------- MODULE PoolAllocator ----------------------------
(***************************************************************************)
(* What the pool allocator promises the code that calls it: ranges of the  *)
(* pool that are aligned and do not overlap, and a request that fits an    *)
(* empty pool is never refused, whatever was allocated and freed before.   *)
(***************************************************************************)
EXTENDS Integers

CONSTANT Requests

VARIABLES owned,     \* the ranges that are held: [ptr, len]
          result,    \* the answer to the last request: [ptr, len]
          size       \* usable bytes of the pool; never changes

vars == <<owned, result, size>>

Overhead == 8        \* bytes a block needs beside its payload
Refused  == -1

Disjoint(b, c) == b.ptr + b.len <= c.ptr \/ c.ptr + c.len <= b.ptr

Init == owned = {} /\ result = [ptr |-> Refused, len |-> 0]

Grant(n) ==
  \E p \in 0 .. size :
    LET b == [ptr |-> p, len |-> n]
    IN  /\ n > 0
        /\ p % 4 = 0
        /\ p + n <= size
        /\ \A c \in owned : Disjoint(b, c)
        /\ owned'  = owned \cup {b}
        /\ result' = b

Refuse(n) ==
  /\ owned # {} \/ n = 0 \/ n + 3 + Overhead > size
  /\ result' = [ptr |-> Refused, len |-> n]
  /\ UNCHANGED owned

Release(b) == /\ owned' = owned \ {b}
              /\ UNCHANGED result

Next == /\ UNCHANGED size
        /\ \/ \E n \in Requests : Grant(n) \/ Refuse(n)
           \/ \E b \in owned : Release(b)

Spec == Init /\ [][Next]_vars
=============================================================================
