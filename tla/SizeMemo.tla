------------------------------- MODULE SizeMemo -------------------------------
(***************************************************************************)
(* node::getSize (src/src/node.cpp) on the root node of a stream, called   *)
(* by every FUSE thread that serves a getattr or a read of that stream.    *)
(* The sum of the children's sizes is accumulated in the node itself, in   *)
(* the mutable member _size, without a lock:                               *)
(*                                                                         *)
(*     if(_size > 0) return _size;                                         *)
(*     for(auto child : children) _size += child->getSize();               *)
(*     return _size;                                                       *)
(*                                                                         *)
(* Concurrent calls race on _size.  The calls in the loop body keep the    *)
(* compiler from holding _size in a register from one round to the next;   *)
(* within a round it is loaded, added to and stored, and the value that is *)
(* returned may be the one last seen or one loaded anew.                   *)
(***************************************************************************)
EXTENDS Integers, FiniteSets

CONSTANTS
  Threads,     \* FUSE worker threads
  ChildSizes   \* getSize of the node's children, in order: the EBML head
               \* and the segment, as stream::stream puts them together

ASSUME ThreadsAssumption == IsFiniteSet(Threads)
ASSUME ChildSizesAssumption == ChildSizes \in [1 .. 2 -> Nat \ {0}]

VARIABLES
  pc,          \* where each thread is
  _size,       \* the member, 0 while nothing has been added up
  i,           \* children each thread has added
  register,    \* what each thread last loaded or stored
  answer       \* what each thread's call returned

vars == <<pc, _size, i, register, answer>>

Total == ChildSizes[1] + ChildSizes[2]

Goto(t, label) == pc' = [pc EXCEPT ![t] = label]

\* Mutant: _size starts as cached_cluster_number does.
InitUnset ==
  /\ pc = [t \in Threads |-> "idle"]
  /\ _size = -1
  /\ i = [t \in Threads |-> 0]
  /\ register = [t \in Threads |-> 0]
  /\ answer = [t \in Threads |-> 0]

Init ==
  /\ pc = [t \in Threads |-> "idle"]
  /\ _size = 0
  /\ i = [t \in Threads |-> 0]
  /\ register = [t \in Threads |-> 0]
  /\ answer = [t \in Threads |-> 0]

\* Mutant: the test of the cached result is missing.
CallAlwaysCounts(t) ==
  /\ pc[t] = "idle"
  /\ register' = [register EXCEPT ![t] = _size]
  /\ i' = [i EXCEPT ![t] = 0]
  /\ Goto(t, "load")
  /\ UNCHANGED <<_size, answer>>

\* getSize is entered: if(_size > 0).
Call(t) ==
  /\ pc[t] = "idle"
  /\ register' = [register EXCEPT ![t] = _size]
  /\ i' = [i EXCEPT ![t] = 0]
  /\ Goto(t, IF _size > 0 THEN "return" ELSE "load")
  /\ UNCHANGED <<_size, answer>>

\* _size += child->getSize() is a load ...
Load(t) ==
  /\ pc[t] = "load"
  /\ i[t] < 2
  /\ register' = [register EXCEPT ![t] = _size]
  /\ Goto(t, "store")
  /\ UNCHANGED <<_size, i, answer>>

\* Mutant: the loop ends one child early.
StoreButLast(t) ==
  /\ pc[t] = "store"
  /\ i' = [i EXCEPT ![t] = @ + 1]
  /\ register' = [register EXCEPT ![t] = @ + ChildSizes[i[t] + 1]]
  /\ _size' = register'[t]
  /\ Goto(t, IF i'[t] + 1 >= 2 THEN "return" ELSE "load")
  /\ UNCHANGED answer

\* ... and a store.
Store(t) ==
  /\ pc[t] = "store"
  /\ i' = [i EXCEPT ![t] = @ + 1]
  /\ register' = [register EXCEPT ![t] = @ + ChildSizes[i[t] + 1]]
  /\ _size' = register'[t]
  /\ Goto(t, IF i'[t] = 2 THEN "return" ELSE "load")
  /\ UNCHANGED answer

\* return _size.
Return(t) ==
  /\ pc[t] = "return"
  /\ \E seen \in {_size, register[t]} : answer' = [answer EXCEPT ![t] = seen]
  /\ Goto(t, "done")
  /\ UNCHANGED <<_size, i, register>>

\* The answer is used; the thread will call again.
Again(t) ==
  /\ pc[t] = "done"
  /\ answer' = [answer EXCEPT ![t] = 0]
  /\ register' = [register EXCEPT ![t] = 0]
  /\ i' = [i EXCEPT ![t] = 0]
  /\ Goto(t, "idle")
  /\ UNCHANGED _size

Next == \E t \in Threads :
          Call(t) \/ Load(t) \/ Store(t) \/ Return(t) \/ Again(t)

Spec == Init /\ [][Next]_vars

-----------------------------------------------------------------------------
Counting(t) == pc[t] \in {"load", "store"}

TypeOK ==
  /\ pc \in [Threads -> {"idle", "load", "store", "return", "done"}]
  /\ _size \in Nat
  /\ i \in [Threads -> 0 .. 2]
  /\ register \in [Threads -> Nat]
  /\ answer \in [Threads -> Nat]

\* A store computed from an old value may lower _size, but once nobody counts
\* any more it is not below the sum of the children: the race never cuts off
\* the end of a file for good.  This needs the root to have no more than two
\* children; a third one would break it.
NeverSettlesShort ==
  (\A t \in Threads : ~Counting(t)) => _size = 0 \/ _size >= Total

\* A thread counts at most once, so what is double counted stays below one
\* sum per thread, whatever order the stores take effect in.
CountedOncePerThread == _size <= Cardinality(Threads) * Total

\* The result cached by getSize is the sum of the children's sizes.
CachedResult == \A t \in Threads : pc[t] = "done" => answer[t] = Total
=============================================================================
