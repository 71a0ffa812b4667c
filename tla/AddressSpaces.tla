---------------------------- MODULE AddressSpaces ----------------------------
(* What the kernel promises processes about memory: each has the code of the
   program it was started with, a stack of its own, and a heap that it shares
   with those it has forked and with nobody else.  Pages, page tables, demand
   paging and the sharing of code do not show. *)
EXTENDS Integers

CONSTANTS Proc,
          Init1,        \* the first process
          Texts,        \* the code of the programs that can be started
          HeapPart, StackPart,   \* the parts of a heap and of a stack
          Data          \* what programs write

VARIABLE space   \* [code, stack, heap] of each process that has memory

Gone    == [live |-> FALSE]
NoHeap  == [id |-> -1]
Live(p) == space[p] # Gone
HasHeap(p) == space[p].heap # NoHeap

Init == /\ Live(Init1)
        /\ \A p \in Proc \ {Init1} : space[p] = Gone

Start(p) == /\ ~Live(p)
            /\ \E s \in {space'[p]} :
                 /\ s # Gone /\ s.code \in Texts /\ s.heap = NoHeap
                 /\ space' = [space EXCEPT ![p] = s]

End(p) == Live(p) /\ space' = [space EXCEPT ![p] = Gone]

\* What a new heap holds is nobody's promise, but it is nobody else's.
NewHeap(p) == /\ Live(p) /\ ~HasHeap(p)
              /\ \E h \in {space'[p].heap} :
                   /\ h # NoHeap
                   /\ \A q \in Proc : Live(q) => space[q].heap.id # h.id
                   /\ space' = [space EXCEPT ![p].heap = h]

Fork(p, c) == /\ Live(p) /\ HasHeap(p) /\ ~Live(c)
              /\ space' = [space EXCEPT ![c] = space[p]]

WriteStack(p, l, w) == Live(p) /\ space' = [space EXCEPT ![p].stack[l] = w]

WriteHeap(p, l, w) ==
  /\ Live(p) /\ HasHeap(p)
  /\ space' = [q \in Proc |-> IF Live(q) /\ space[q].heap.id = space[p].heap.id
                              THEN [space[q] EXCEPT !.heap.words[l] = w] ELSE space[q]]

Next == \E p \in Proc :
          \/ Start(p) \/ End(p) \/ NewHeap(p)
          \/ \E c \in Proc : Fork(p, c)
          \/ \E w \in Data : \/ \E l \in StackPart : WriteStack(p, l, w)
                             \/ \E l \in HeapPart : WriteHeap(p, l, w)

Spec == Init /\ [][Next]_space
=============================================================================
