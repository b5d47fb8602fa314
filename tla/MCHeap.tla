------------------------------- MODULE MCHeap -------------------------------
(* Model-checking instance of Heap: a heap of a few hundred bytes at a     *)
(* 16-aligned base above it, size_t of 12 bits (a pointer or a wrapped     *)
(* size is still far larger than the heap).                                *)
EXTENDS Heap
====
