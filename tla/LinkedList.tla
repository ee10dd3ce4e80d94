----------------------------- MODULE LinkedList -----------------------------
(***************************************************************************)
(* The doubly-linked List of src/kernel/list.c at the level of its         *)
(* pointers: the header's head and tail, and each ListNode's next,         *)
(* previous and data.  Nodes come from kmalloc and go back with kfree; a   *)
(* freed node keeps whatever its fields held, and kmalloc may hand it out  *)
(* again, so only the memset in list_append/list_prepend makes a fresh     *)
(* node clean.  Every list function runs to completion without yielding    *)
(* (its callers hold interrupts off), so each is one action; ret holds the *)
(* value the call returned.                                                *)
(***************************************************************************)
EXTENDS Naturals, Integers, Sequences, FiniteSets, SequencesExt

CONSTANTS
    Nodes,      \* the ListNode structs kmalloc can return
    Data,       \* data pointers
    Null,       \* NULL
    None        \* the "return value" of a void call

ASSUME Null \notin Nodes \cup Data /\ None \notin Data \cup {Null}

Kinds == {"list", "stack", "queue"}

VARIABLES
    kind,       \* which container's header is allocated, or "none"
    alloc,      \* nodes kmalloc'd and not yet kfree'd
    head,       \* list->head
    tail,       \* list->tail
    next,       \* node->next
    prev,       \* node->previous
    data,       \* node->data
    ret,        \* what the last call returned
    call        \* auxiliary: the last call made, with its argument

vars == <<kind, alloc, head, tail, next, prev, data, ret, call>>

Ptr == Nodes \cup {Null}

\* Before create the header is memory kmalloc has not yet handed out: its
\* head and tail hold whatever was there.
Init ==
    /\ kind = "none"
    /\ alloc = {}
    /\ head \in Ptr /\ tail \in Ptr
    /\ next = [n \in Nodes |-> Null] /\ prev = [n \in Nodes |-> Null]
    /\ data = [n \in Nodes |-> CHOOSE d \in Data : TRUE]
    /\ ret = None
    /\ call = <<"none">>

-----------------------------------------------------------------------------
\* list_foreach(n, list): the nodes from head along next, as a sequence.
\* The walk stops after |Nodes| steps so that a corrupted (cyclic) chain
\* still evaluates.
RECURSIVE WalkFrom(_, _)
WalkFrom(n, k) ==
    IF n = Null \/ k = 0 THEN <<>> ELSE <<n>> \o WalkFrom(next[n], k - 1)

Chain == WalkFrom(head, Cardinality(Nodes) + 1)

\* list_get_count: ++result for every node of the walk.
RECURSIVE CountFrom(_, _)
CountFrom(n, k) == IF n = Null \/ k = 0 THEN 0 ELSE 1 + CountFrom(next[n], k - 1)

\* Mutant: the search walks back from the tail, finding the last occurrence.
FindLastOccurrence(d) ==
    LET RECURSIVE Back(_, _)
        Back(n, k) == IF n = Null \/ k = 0 THEN Null
                      ELSE IF data[n] = d THEN n ELSE Back(prev[n], k - 1)
    IN Back(tail, Cardinality(Nodes))

\* list_find_first_occurrence: the first node of the walk holding d, or NULL.
FindFirstOccurrence(d) ==
    LET RECURSIVE Fwd(_, _)
        Fwd(n, k) == IF n = Null \/ k = 0 THEN Null
                     ELSE IF data[n] = d THEN n ELSE Fwd(next[n], k - 1)
    IN Fwd(head, Cardinality(Nodes))

\* list_find_first_occurrence_index: result counts the nodes passed.
FindFirstOccurrenceIndex(d) ==
    LET RECURSIVE Idx(_, _, _)
        Idx(n, i, k) == IF n = Null \/ k = 0 THEN -1
                        ELSE IF data[n] = d THEN i ELSE Idx(next[n], i + 1, k - 1)
    IN Idx(head, 0, Cardinality(Nodes))


-----------------------------------------------------------------------------
\* Mutant: the memset of the new node is left out.
MemsetSkipped(f, n) == f

\* memset((uint8_t*)node, 0, sizeof(ListNode)) for a link field f
Memset(f, n) == [f EXCEPT ![n] = Null]

\* Mutant: list_destroy kfrees the header without list_clear.
DestroyWithoutClear(k) ==
    /\ kind = k /\ kind' = "none"
    /\ UNCHANGED <<alloc, head, tail, next, prev, data>>
    /\ ret' = None /\ call' = <<"destroy", k>>

(* list_create, and stack_create / queue_create around it: kmalloc the     *)
(* header and memset it, so head = tail = NULL whatever the memory held    *)
Create(k) ==
    /\ kind = "none" /\ kind' = k
    /\ head' = Null /\ tail' = Null
    /\ UNCHANGED <<alloc, next, prev, data>>
    /\ ret' = None /\ call' = <<"create", k>>

(* stack_create: kmalloc and memset the Stack, then list_create           *)
StackCreate == Create("stack")

(* queue_create: kmalloc and memset the Queue, then list_create           *)
QueueCreate == Create("queue")

(* list_append, with the call it is made for                               *)
ListAppend(d, c) ==
    /\ \E n \in Nodes \ alloc :
          LET nx == Memset(next, n)
              pv == Memset(prev, n)
          IN /\ alloc' = alloc \cup {n}
             /\ data' = [data EXCEPT ![n] = d]
             /\ IF tail = Null
                THEN head' = n /\ tail' = n /\ next' = nx /\ prev' = pv
                ELSE /\ prev' = [pv EXCEPT ![n] = tail]
                     /\ next' = [nx EXCEPT ![tail] = n]
                     /\ tail' = n
                     /\ UNCHANGED head
    /\ ret' = None /\ call' = c

(* list_prepend, with the call it is made for                              *)
ListPrepend(d, c) ==
    /\ \E n \in Nodes \ alloc :
          LET nx == Memset(next, n)
              pv == Memset(prev, n)
          IN /\ alloc' = alloc \cup {n}
             /\ data' = [data EXCEPT ![n] = d]
             /\ IF tail = Null
                THEN head' = n /\ tail' = n /\ next' = nx /\ prev' = pv
                ELSE /\ next' = [nx EXCEPT ![n] = head]
                     /\ prev' = [pv EXCEPT ![head] = n]
                     /\ head' = n
                     /\ UNCHANGED tail
    /\ ret' = None /\ call' = c

(* stack_push                                                              *)
StackPush(d) == ListPrepend(d, <<"push", d>>)

(* queue_enqueue                                                           *)
QueueEnqueue(d) == ListAppend(d, <<"enqueue", d>>)

\* list_remove_node on a non-NULL node: relink the neighbours, move head
\* and tail off it, kfree it (its fields keep their values).
Unlink(n) ==
    /\ next' = IF prev[n] # Null THEN [next EXCEPT ![prev[n]] = next[n]] ELSE next
    /\ prev' = IF next[n] # Null THEN [prev EXCEPT ![next[n]] = prev[n]] ELSE prev
    /\ head' = IF n = head THEN next[n] ELSE head
    /\ tail' = IF n = tail THEN prev[n] ELSE tail
    /\ alloc' = alloc \ {n}
    /\ UNCHANGED data

NoRemoval == UNCHANGED <<alloc, head, tail, next, prev, data>>

(* list_remove_node, called with a node of the list                        *)
RemoveNode(n) ==
    /\ n \in alloc
    /\ Unlink(n)
    /\ ret' = None /\ call' = <<"remove_node">>

(* list_remove_first_node                                                  *)
RemoveFirstNode ==
    /\ IF head # Null THEN Unlink(head) ELSE NoRemoval
    /\ ret' = None /\ call' = <<"remove_first">>

(* list_remove_last_node                                                   *)
RemoveLastNode ==
    /\ IF tail # Null THEN Unlink(tail) ELSE NoRemoval
    /\ ret' = None /\ call' = <<"remove_last">>

(* list_remove_first_occurrence                                            *)
RemoveFirstOccurrence(d) ==
    /\ LET n == FindFirstOccurrence(d) IN
       IF n # Null THEN Unlink(n) ELSE NoRemoval
    /\ ret' = None /\ call' = <<"remove_first_occurrence", d>>

\* list_get_first_node
FirstNode == head

\* Mutant: the pop returns the ListNode pointer instead of node->data.
PopReturnsNode(c) ==
    /\ LET node == FirstNode IN
       IF node # Null
       THEN Unlink(node) /\ ret' = node
       ELSE NoRemoval /\ ret' = Null
    /\ call' = c

(* stack_pop: the first node's data, or NULL when empty                    *)
PopFirst(c) ==
    /\ LET node == FirstNode IN
       IF node # Null
       THEN Unlink(node) /\ ret' = data[node]
       ELSE NoRemoval /\ ret' = Null
    /\ call' = c

StackPop == PopFirst(<<"pop">>)

(* queue_dequeue (the same code as stack_pop)                              *)
QueueDequeue == PopFirst(<<"dequeue">>)

(* list_clear: kfree every node of the walk, then head = tail = NULL       *)
Clear(c) ==
    /\ alloc' = alloc \ Range(Chain)
    /\ head' = Null /\ tail' = Null
    /\ UNCHANGED <<next, prev, data>>
    /\ ret' = None /\ call' = c

StackClear == Clear(<<"stack_clear">>)

QueueClear == Clear(<<"queue_clear">>)

(* list_destroy (list_clear, then kfree the header), and stack_destroy /   *)
(* queue_destroy, which call it and kfree their own struct                 *)
Destroy(k) ==
    /\ kind = k /\ kind' = "none"
    /\ Clear(<<"destroy", k>>)

(* stack_destroy: list_destroy, then kfree the Stack                      *)
StackDestroy == Destroy("stack")

(* queue_destroy: list_destroy, then kfree the Queue                      *)
QueueDestroy == Destroy("queue")

(* list_get_count                                                          *)
Count ==
    NoRemoval /\ ret' = CountFrom(head, Cardinality(Nodes) + 1) /\ call' = <<"count">>

(* list_find_first_occurrence_index                                        *)
IndexOf(d) ==
    NoRemoval /\ ret' = FindFirstOccurrenceIndex(d) /\ call' = <<"index", d>>

(* list_is_empty: BOOL is an int, TRUE = 1                                 *)
IsEmpty(c) ==
    NoRemoval /\ ret' = (IF head = Null THEN 1 ELSE 0) /\ call' = c

StackIsEmpty == IsEmpty(<<"stack_is_empty">>)

QueueIsEmpty == IsEmpty(<<"queue_is_empty">>)

\* A call of a container of type k leaves the container in place.
Is(k) == kind = k /\ UNCHANGED kind

ListOps ==
    \/ \E d \in Data : \/ ListAppend(d, <<"append", d>>)
                       \/ ListPrepend(d, <<"prepend", d>>)
                       \/ RemoveFirstOccurrence(d)
                       \/ IndexOf(d)
    \/ \E n \in Nodes : RemoveNode(n)
    \/ RemoveFirstNode \/ RemoveLastNode
    \/ Clear(<<"clear">>) \/ Count \/ IsEmpty(<<"is_empty">>)

StackOps ==
    \/ \E d \in Data : StackPush(d)
    \/ StackPop \/ StackClear \/ StackIsEmpty

QueueOps ==
    \/ \E d \in Data : QueueEnqueue(d)
    \/ QueueDequeue \/ QueueClear \/ QueueIsEmpty

Next ==
    \/ Create("list") \/ StackCreate \/ QueueCreate
    \/ Destroy("list") \/ StackDestroy \/ QueueDestroy
    \/ Is("list") /\ ListOps
    \/ Is("stack") /\ StackOps
    \/ Is("queue") /\ QueueOps

Spec == Init /\ [][Next]_vars

-----------------------------------------------------------------------------
TypeOK ==
    /\ kind \in Kinds \cup {"none"}
    /\ alloc \subseteq Nodes
    /\ head \in Ptr /\ tail \in Ptr
    /\ next \in [Nodes -> Ptr] /\ prev \in [Nodes -> Ptr]
    /\ data \in [Nodes -> Data]
    /\ ret \in Data \cup {Null, None} \cup (-1..Cardinality(Nodes))

\* After any sequence of calls, including kfree'd nodes handed out again
\* by kmalloc and containers destroyed and created again, the header and
\* the nodes form one proper doubly-linked chain: head and tail are NULL
\* together, the walk from head visits every allocated node exactly once
\* and ends at tail, and each previous pointer is the inverse of next.
\* Once the container is destroyed no node is left allocated: destroy
\* frees every node the list, stack or queue still held.
WellFormed ==
    LET c == Chain IN
    /\ kind = "none" => alloc = {}
    /\ kind # "none" =>
          /\ (head = Null) = (tail = Null)
          /\ Len(c) = Cardinality(alloc) /\ Range(c) = alloc
          /\ c # <<>> => /\ c[Len(c)] = tail
                         /\ prev[head] = Null /\ next[tail] = Null
          /\ \A i \in 1..Len(c) - 1 : prev[c[i + 1]] = c[i]

\* The refinement mapping: the data pointers in list_foreach order, and no
\* items while no header is allocated.
Items == IF kind = "none" THEN <<>>
         ELSE [i \in DOMAIN Chain |-> data[Chain[i]]]

Abstract == INSTANCE ListSpec WITH items <- Items, MaxLen <- Cardinality(Nodes)

\* Every call behaves on the sequence the container stands for as ListSpec
\* says (call is the auxiliary variable naming the call, so each step is
\* held to the abstract operation of the same name): create starts empty
\* whatever the header memory held; append/prepend/push/enqueue add at
\* the right end; remove_node, remove_first/last and
\* remove_first_occurrence drop one element (the first equal one); pop is
\* last-in first-out and dequeue first-in first-out, both returning NULL
\* when empty; count, index and the is_empty calls return the true
\* answers; clear and destroy empty the container.
RefinesListSpec == Abstract!Spec

=============================================================================
