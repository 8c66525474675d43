------------------------------ MODULE FamList ------------------------------
(***************************************************************************)
(* A doubly linked list in fabric-attached memory, shared by processes     *)
(* without a lock: io/fam/FamList.cc and io/fam/FamListIterator.cc.        *)
(*                                                                         *)
(* Every get, put, compareSwap and add on a FamObject is one step.  What a *)
(* push writes into its own node before anybody can reach it goes with the *)
(* read before.  Nodes are never freed while the list is shared (only      *)
(* clear(), which is for one process, deallocates), so an offset names one *)
(* node for ever.                                                          *)
(***************************************************************************)
EXTENDS Integers, FiniteSets

CONSTANTS
    Threads,    \* the processes or threads
    MaxNodes,   \* the pushes there are
    MaxCalls,   \* the calls of one thread
    Regimes     \* how the list is used: see Allowed

VARIABLES
    regime,     \* one of Regimes
    next,       \* node -> next.offset
    prev,       \* node -> prev.offset
    marked,     \* the nodes with the marked flag
    size_,      \* the counter
    pc,         \* thread -> where it is
    node,       \* thread -> new_object of a push, object of erase()
    near,       \* thread -> first_offset, last_offset, or current
    far,        \* thread -> next_offset or prev_offset
    calls,      \* thread -> calls made
    pushed,     \* the number of nodes allocated
    added,      \* history: the nodes whose push returned
    removed,    \* history: the nodes that a call which returned has removed
    seen        \* thread -> history of an iteration: [must, seen]

vars == <<regime, next, prev, marked, size_, pc, node, near, far, calls, pushed, added, removed, seen>>
list == <<next, prev, marked, size_>>
history == <<added, removed, seen>>

Head == 0            \* head_
Tail == MaxNodes + 1 \* tail_
Null == -1           \* offset 0: no node
Nodes == 0 .. Tail

Init ==
    /\ regime \in Regimes
    /\ next = [n \in Nodes |-> IF n = Head THEN Tail ELSE Null]
    /\ prev = [n \in Nodes |-> IF n = Tail THEN Head ELSE Null]
    /\ marked = {}
    /\ size_ = 0
    /\ pc = [t \in Threads |-> "idle"]
    /\ node = [t \in Threads |-> Null]
    /\ near = [t \in Threads |-> Null]
    /\ far = [t \in Threads |-> Null]
    /\ calls = [t \in Threads |-> 0]
    /\ pushed = 0
    /\ added = {}
    /\ removed = {}
    /\ seen = [t \in Threads |-> [must |-> {}, seen |-> {}]]

\* what is in the list, once no call is in progress
There == added \ removed

Goto(t, l) == pc' = [pc EXCEPT ![t] = l]
Quiet == \A t \in Threads : pc[t] = "idle"

\* "sequential": one call at a time; "pushes": concurrent calls, of which none
\* removes; "any": everything at once.
Allowed(removes) ==
    \/ regime = "any"
    \/ regime = "pushes" /\ ~removes
    \/ regime = "sequential" /\ Quiet

Call(t, removes) ==
    /\ pc[t] = "idle"
    /\ calls[t] < MaxCalls
    /\ calls' = [calls EXCEPT ![t] = @ + 1]
    /\ Allowed(removes)

\* x.compareSwap(old, new) on one field of one node, and where it leads
Swap(f, x, old, new) == IF f[x] = old THEN [f EXCEPT ![x] = new] ELSE f

----------------------------------------------------------------------------
\* pushFront and pushBack: the node is allocated
PushCall(t) ==
    /\ Call(t, FALSE)
    /\ pushed < MaxNodes
    /\ pushed' = pushed + 1
    /\ node' = [node EXCEPT ![t] = pushed + 1]
    /\ \E l \in {"frontRead", "backRead"} : Goto(t, l)
    /\ UNCHANGED <<regime, list, near, far, history>>

\* pushFront: first_offset, and the new node's links
FrontRead(t) ==
    /\ pc[t] = "frontRead"
    /\ near' = [near EXCEPT ![t] = next[Head]]
    /\ prev' = [prev EXCEPT ![node[t]] = Head]
    /\ next' = [next EXCEPT ![node[t]] = next[Head]]
    /\ Goto(t, "frontSwap")
    /\ UNCHANGED <<regime, marked, size_, node, far, calls, pushed, history>>

\* pushFront: head_.next, from first_offset to the new node
FrontSwap(t) ==
    /\ pc[t] = "frontSwap"
    /\ next' = Swap(next, Head, near[t], node[t])
    /\ Goto(t, IF next[Head] = near[t] THEN "frontPrev" ELSE "frontRead")
    /\ UNCHANGED <<regime, prev, marked, size_, node, near, far, calls, pushed, history>>

\* pushFront: the old first node's prev, unless somebody changed it
FrontPrev(t) ==
    /\ pc[t] = "frontPrev"
    /\ prev' = Swap(prev, near[t], Head, node[t])
    /\ Goto(t, "add")
    /\ UNCHANGED <<regime, next, marked, size_, node, near, far, calls, pushed, history>>

\* pushBack: last_offset, and the new node's links
BackRead(t) ==
    /\ pc[t] = "backRead"
    /\ near' = [near EXCEPT ![t] = prev[Tail]]
    /\ next' = [next EXCEPT ![node[t]] = Tail]
    /\ prev' = [prev EXCEPT ![node[t]] = prev[Tail]]
    /\ Goto(t, "backSwap")
    /\ UNCHANGED <<regime, marked, size_, node, far, calls, pushed, history>>

\* pushBack: tail_.prev, from last_offset to the new node
BackSwap(t) ==
    /\ pc[t] = "backSwap"
    /\ prev' = Swap(prev, Tail, near[t], node[t])
    /\ Goto(t, IF prev[Tail] = near[t] THEN "backWalk" ELSE "backRead")
    /\ UNCHANGED <<regime, next, marked, size_, node, near, far, calls, pushed, history>>

\* pushBack: cur_next, which is tail_ or the next to look at
BackWalk(t) ==
    /\ pc[t] = "backWalk"
    /\ IF next[near[t]] = Tail
          THEN Goto(t, "backLink") /\ UNCHANGED near
          ELSE near' = [near EXCEPT ![t] = next[near[t]]] /\ UNCHANGED pc
    /\ UNCHANGED <<regime, list, node, far, calls, pushed, history>>

\* Mutant: the last node's next is put, not swapped.
LinkLast_Put(t) == [next EXCEPT ![near[t]] = node[t]]

\* pushBack: the compareSwap on the last node's next
LinkLast(t) == Swap(next, near[t], Tail, node[t])

\* pushBack: the new node is linked, or the new link is followed
BackLink(t) ==
    /\ pc[t] = "backLink"
    /\ next' = LinkLast(t)
    /\ IF next'[near[t]] = node[t]
          THEN Goto(t, "add") /\ UNCHANGED near
          ELSE Goto(t, "backWalk") /\ near' = [near EXCEPT ![t] = next[near[t]]]
    /\ UNCHANGED <<regime, prev, marked, size_, node, far, calls, pushed, history>>

\* size_.add: the push returns
Add(t) ==
    /\ pc[t] = "add"
    /\ size_' = size_ + 1
    /\ added' = added \cup {node[t]}
    /\ Goto(t, "idle")
    /\ UNCHANGED <<regime, next, prev, marked, node, near, far, calls, pushed, removed, seen>>

----------------------------------------------------------------------------
\* popFront and popBack: ASSERT(!empty())
PopCall(t) ==
    /\ Call(t, TRUE)
    /\ next[Head] # Tail
    /\ \E l \in {"popFront", "popBack"} : Goto(t, l)
    /\ UNCHANGED <<regime, list, node, near, far, pushed, history>>

\* the first node, or the last; nothing to do when it is the other sentinel
PopRead(t, l, from, end, mark) ==
    /\ pc[t] = l
    /\ near' = [near EXCEPT ![t] = from]
    /\ Goto(t, IF from = end THEN "idle" ELSE mark)
    /\ UNCHANGED <<regime, list, node, far, calls, pushed, history>>

\* FamListNode::mark
Mark(t, l, n, to) ==
    /\ pc[t] = l
    /\ marked' = marked \cup {n}
    /\ Goto(t, to)
    /\ UNCHANGED <<regime, next, prev, size_, node, near, far, calls, pushed, history>>

\* the neighbour of the node to remove
PopFar(t, l, f, to) ==
    /\ pc[t] = l
    /\ far' = [far EXCEPT ![t] = f[near[t]]]
    /\ Goto(t, to)
    /\ UNCHANGED <<regime, list, node, near, calls, pushed, history>>

\* popFront: the new first node's prev
FirstPrev(t) == [prev EXCEPT ![far[t]] = Head]

PopFront(t) ==
    \/ PopRead(t, "popFront", next[Head], Tail, "frontMark")
    \/ Mark(t, "frontMark", near[t], "frontFar")
    \/ PopFar(t, "frontFar", next, "frontOut")
    \/ /\ pc[t] = "frontOut"
       /\ next' = Swap(next, Head, near[t], far[t])
       /\ Goto(t, IF next[Head] = near[t] THEN "frontPut" ELSE "popFront")
       /\ UNCHANGED <<regime, prev, marked, size_, node, near, far, calls, pushed, history>>
    \/ /\ pc[t] = "frontPut"
       /\ prev' = FirstPrev(t)
       /\ Goto(t, "subtract")
       /\ UNCHANGED <<regime, next, marked, size_, node, near, far, calls, pushed, history>>

PopBack(t) ==
    \/ PopRead(t, "popBack", prev[Tail], Head, "backMark")
    \/ Mark(t, "backMark", near[t], "backFar")
    \/ PopFar(t, "backFar", prev, "backOut")
    \/ /\ pc[t] = "backOut"
       /\ prev' = Swap(prev, Tail, near[t], far[t])
       /\ Goto(t, IF prev[Tail] = near[t] THEN "backPut" ELSE "popBack")
       /\ UNCHANGED <<regime, next, marked, size_, node, near, far, calls, pushed, history>>
    \/ /\ pc[t] = "backPut"
       /\ next' = [next EXCEPT ![far[t]] = Tail]
       /\ Goto(t, "subtract")
       /\ UNCHANGED <<regime, prev, marked, size_, node, near, far, calls, pushed, history>>

\* erase(pos), pos being an element of the list
EraseCall(t) ==
    /\ Call(t, TRUE)
    /\ \E n \in There : near' = [near EXCEPT ![t] = n]
    /\ Goto(t, "eraseMark")
    /\ UNCHANGED <<regime, list, node, far, pushed, history>>

\* erase: mark; next_offset; prev_offset (kept in node); prev.next, next.prev
Erase(t) ==
    \/ Mark(t, "eraseMark", near[t], "eraseNext")
    \/ PopFar(t, "eraseNext", next, "erasePrev")
    \/ /\ pc[t] = "erasePrev"
       /\ node' = [node EXCEPT ![t] = prev[near[t]]]
       /\ Goto(t, "eraseOut")
       /\ UNCHANGED <<regime, list, near, far, calls, pushed, history>>
    \/ /\ pc[t] = "eraseOut"
       /\ next' = Swap(next, node[t], near[t], far[t])
       /\ Goto(t, IF next[node[t]] = near[t] THEN "erasePut" ELSE "eraseMark")
       /\ UNCHANGED <<regime, prev, marked, size_, node, near, far, calls, pushed, history>>
    \/ /\ pc[t] = "erasePut"
       /\ prev' = [prev EXCEPT ![far[t]] = node[t]]
       /\ Goto(t, "subtract")
       /\ UNCHANGED <<regime, next, marked, size_, node, near, far, calls, pushed, history>>

\* size_.subtract: the call returns, having removed near
Subtract(t) ==
    /\ pc[t] = "subtract"
    /\ size_' = size_ - 1
    /\ removed' = removed \cup {near[t]}
    /\ Goto(t, "idle")
    /\ UNCHANGED <<regime, next, prev, marked, node, near, far, calls, pushed, added, seen>>

----------------------------------------------------------------------------
\* History: the elements that a reader must find.  A pushBack() that is not done
\* hides its element and all that are pushed behind it, returned or not.
Visible == IF \E t \in Threads : pc[t] \in {"backWalk", "backLink"} THEN {} ELSE There

\* Mutant: begin() is one element late.
First_Next == IF next[Head] = Tail THEN Tail ELSE next[next[Head]]

\* begin()
First == next[Head]

\* Iteration, from begin() to end()
Begin(t) ==
    /\ Call(t, FALSE)
    /\ near' = [near EXCEPT ![t] = First]
    /\ seen' = [seen EXCEPT ![t] = [must |-> Visible, seen |-> {First}]]
    /\ Goto(t, "iterate")
    /\ UNCHANGED <<regime, list, node, far, pushed, added, removed>>

\* FamListIterator::operator++: the next node
Increment(t) ==
    /\ pc[t] = "iterate"
    /\ near[t] # Tail
    /\ near' = [near EXCEPT ![t] = next[near[t]]]
    /\ Goto(t, "skip")
    /\ UNCHANGED <<regime, list, node, far, calls, pushed, history>>

\* operator++: as long as the node is marked, the one after it
SkipMarked(t) ==
    /\ pc[t] = "skip"
    /\ IF near[t] \in marked
          THEN near' = [near EXCEPT ![t] = next[near[t]]] /\ UNCHANGED <<pc, seen>>
          ELSE /\ seen' = [seen EXCEPT ![t].seen = @ \cup {near[t]}]
               /\ Goto(t, "iterate")
               /\ UNCHANGED near
    /\ UNCHANGED <<regime, list, node, far, calls, pushed, added, removed>>

End(t) ==
    /\ pc[t] = "iterate"
    /\ near[t] = Tail
    /\ Goto(t, "idle")
    /\ UNCHANGED <<regime, list, node, near, far, calls, pushed, history>>

Step(t) ==
    \/ FrontRead(t) \/ FrontSwap(t) \/ FrontPrev(t) \/ BackRead(t) \/ BackSwap(t)
    \/ BackWalk(t) \/ BackLink(t) \/ Add(t) \/ PopFront(t) \/ PopBack(t) \/ Erase(t)
    \/ Subtract(t) \/ Increment(t) \/ SkipMarked(t) \/ End(t)

Next == \E t \in Threads : PushCall(t) \/ PopCall(t) \/ EraseCall(t) \/ Begin(t) \/ Step(t)

Spec == Init /\ [][Next]_vars

----------------------------------------------------------------------------
\* The nodes from x along f, as far as the other sentinel.
RECURSIVE Along(_, _, _)
Along(f, x, steps) ==
    IF x = Null \/ steps = 0 THEN {} ELSE {x} \cup Along(f, f[x], steps - 1)

Elements(f, x) == (Along(f, x, Cardinality(Nodes)) \ {Head, Tail}) \ marked

\* Whenever no call is in progress, going through the list finds exactly the
\* elements that were pushed and not removed, and size() is their number; and
\* after calls made one at a time, going backward finds them too.  (Two concurrent
\* pushes at the two ends of an empty list leave one of them out of that.)
ListExact ==
    Quiet =>
        /\ Elements(next, Head) = There /\ size_ = Cardinality(There)
        /\ regime = "sequential" => Elements(prev, Tail) = There

\* An iteration that runs beside insertions finds all that was in the list when
\* it began, unless some pushBack() was then half done.
IterationComplete ==
    \A t \in Threads : pc[t] = "iterate" /\ near[t] = Tail => seen[t].must \subseteq seen[t].seen

=============================================================================
