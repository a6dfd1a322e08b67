------------------------------- MODULE ObjectPool -------------------------------
(***************************************************************************)
(* detail::ObjectPool over detail::MemoryPool                              *)
(* (include/alyrn/detail/object_pool.h, memory_pool.h): objects in a fixed *)
(* number of slots, and in registered heap nodes when no slot is free.     *)
(* The pool's mutexes protect its lists, not the constructors and          *)
(* destructors that run between two critical sections.                     *)
(***************************************************************************)
EXTENDS Naturals, SequencesExt

CONSTANTS
  Threads,
  Capacity,      \* kCapacity
  MaxOverflow    \* bound: overflow nodes at a time

Slots == 1..Capacity
Nodes == (Capacity + 1)..(Capacity + MaxOverflow)
NoObject == 0

VARIABLES
  free,        \* the free list of the MemoryPool
  allocated,   \* allocated_slots_
  releasing,   \* releasing_slots_
  overflow,    \* the list at overflow_head_
  objects,     \* objects that callers have
  at           \* per thread: "idle", "construct" or "destroy", and what

vars == <<free, allocated, releasing, overflow, objects, at>>

Idle == [pc |-> "idle", what |-> NoObject]

Init ==
  /\ free = [i \in Slots |-> i] /\ allocated = {} /\ releasing = {}
  /\ overflow = <<>> /\ objects = {} /\ at = [t \in Threads |-> Idle]

(* Owns() *)
Owns(o) == o \in Slots

Busy(pc) == {at[t].what : t \in {u \in Threads : at[u].pc = pc}}

(* Acquire(): MemoryPool::Allocate(), or a new node; then the constructor runs. *)
Acquire(t) ==
  /\ at[t] = Idle
  /\ \/ /\ free # <<>>
        /\ free' = Tail(free) /\ allocated' = allocated \cup {Head(free)}
        /\ at' = [at EXCEPT ![t] = [pc |-> "construct", what |-> Head(free)]]
     \/ /\ free = <<>>
        /\ \E n \in Nodes \ (ToSet(overflow) \cup Busy("construct") \cup Busy("destroy")) :
             at' = [at EXCEPT ![t] = [pc |-> "construct", what |-> n]]
        /\ UNCHANGED <<free, allocated>>
  /\ UNCHANGED <<releasing, overflow, objects>>

(* The constructor returns; a node is registered. *)
Constructed(t) ==
  LET o == at[t].what
  IN  /\ at[t].pc = "construct" /\ at' = [at EXCEPT ![t] = Idle]
      /\ overflow' = IF Owns(o) THEN overflow ELSE <<o>> \o overflow
      /\ objects' = objects \cup {o}
      /\ UNCHANGED <<free, allocated, releasing>>

(* Does not give the slot back. *)
BugConstructorThrows(t) ==
  /\ at[t].pc = "construct" /\ at' = [at EXCEPT ![t] = Idle]
  /\ UNCHANGED <<free, allocated, releasing, overflow, objects>>

(* The constructor throws: Deallocate(), or the node is deleted. *)
ConstructorThrows(t) ==
  LET o == at[t].what
  IN  /\ at[t].pc = "construct" /\ at' = [at EXCEPT ![t] = Idle]
      /\ free' = IF Owns(o) THEN <<o>> \o free ELSE free
      /\ allocated' = allocated \ {o}
      /\ UNCHANGED <<releasing, overflow, objects>>

(* Puts the slot into the free list before its destructor has run. *)
BugRelease(t, o) ==
  /\ at[t] = Idle /\ o \in objects /\ objects' = objects \ {o}
  /\ at' = [at EXCEPT ![t] = [pc |-> "destroy", what |-> o]]
  /\ free' = IF Owns(o) THEN <<o>> \o free ELSE free
  /\ allocated' = allocated \ {o} /\ releasing' = releasing
  /\ overflow' = SelectSeq(overflow, LAMBDA n : n # o)

(* Release(): ClaimDeallocation() or TakeOverflow(); then the destructor runs. *)
Release(t, o) ==
  /\ at[t] = Idle /\ o \in objects /\ objects' = objects \ {o}
  /\ at' = [at EXCEPT ![t] = [pc |-> "destroy", what |-> o]]
  /\ \/ /\ Owns(o)
        /\ allocated' = allocated \ {o} /\ releasing' = releasing \cup {o}
        /\ UNCHANGED overflow
     \/ /\ ~Owns(o)
        /\ overflow' = SelectSeq(overflow, LAMBDA n : n # o)
        /\ UNCHANGED <<allocated, releasing>>
  /\ UNCHANGED free

(* FinishDeallocation(), or the node is deleted. *)
Destroyed(t) ==
  LET o == at[t].what
  IN  /\ at[t].pc = "destroy" /\ at' = [at EXCEPT ![t] = Idle]
      /\ free' = IF Owns(o) THEN <<o>> \o free ELSE free
      /\ releasing' = releasing \ {o}
      /\ UNCHANGED <<allocated, overflow, objects>>

Next ==
  \E t \in Threads :
    \/ Acquire(t) \/ Constructed(t) \/ ConstructorThrows(t) \/ Destroyed(t)
    \/ \E o \in objects : Release(t, o)

Spec == Init /\ [][Next]_vars

-----------------------------------------------------------------------------
(* A slot is free, being constructed, an object or being destroyed, and    *)
(* only one of these, so no destructor ever runs on storage that was given *)
(* out again; none is lost when a constructor throws; and the registered   *)
(* nodes are the objects that are not in slots.                            *)
PoolHandsOutOnce ==
  /\ IsInjective(free)
  /\ allocated = (Busy("construct") \cup objects) \cap Slots
  /\ releasing = Busy("destroy") \cap Slots
  /\ ToSet(free) = Slots \ (allocated \cup releasing)
  /\ allocated \cap releasing = {} /\ objects \cap Busy("construct") = {}
  /\ ToSet(overflow) = objects \ Slots /\ IsInjective(overflow)
================================================================================
