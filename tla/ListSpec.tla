------------------------------ MODULE ListSpec ------------------------------
(***************************************************************************)
(* What the kernel's List, Stack and Queue (src/kernel/list.c) promise     *)
(* their callers: an ordered sequence of data pointers, with each call's   *)
(* return value kept in ret.  A container is created as a plain List, a    *)
(* Stack or a Queue (kind) and is then used only through that type's       *)
(* calls until it is destroyed.  A Stack is last-in first-out (push at the *)
(* head, pop from the head), a Queue first-in first-out (enqueue at the    *)
(* tail, dequeue from the head).  LinkedList refines this module.          *)
(***************************************************************************)
EXTENDS Naturals, Integers, Sequences

CONSTANTS
    Data,       \* data pointers stored in the list
    MaxLen,     \* bound: list length (the node pool of the refinement)
    Null,       \* NULL, returned by an empty pop
    None        \* the "return value" of a void call

Kinds == {"list", "stack", "queue"}

VARIABLES
    kind,       \* the container that exists, or "none"
    items,      \* the data pointers, first to last
    ret,        \* what the last call returned
    call        \* the last call made, with its argument

vars == <<kind, items, ret, call>>

\* The 0-based index of the first element equal to d, or -1.
IndexOfFirst(s, d) ==
    IF \E i \in DOMAIN s : s[i] = d
    THEN (CHOOSE i \in DOMAIN s : s[i] = d /\ \A j \in 1..i-1 : s[j] # d) - 1
    ELSE -1

DropAt(s, i) == SubSeq(s, 1, i - 1) \o SubSeq(s, i + 1, Len(s))

Init == kind = "none" /\ items = <<>> /\ ret = None /\ call = <<"none">>

\* Each call acts on a container of the type it belongs to.
Is(k) == kind = k /\ UNCHANGED kind

\* A void call that leaves the items as they are.
Void(c) == UNCHANGED items /\ ret' = None /\ call' = c

\* A void call that drops the element at position i.
DropVoid(i, c) == items' = DropAt(items, i) /\ ret' = None /\ call' = c

\* A query: the items stay, the answer is returned.
Query(v, c) == UNCHANGED items /\ ret' = v /\ call' = c

Create(k) ==
    /\ kind = "none" /\ kind' = k
    /\ items' = <<>> /\ ret' = None /\ call' = <<"create", k>>

Destroy(k) ==
    /\ kind = k /\ kind' = "none"
    /\ items' = <<>> /\ ret' = None /\ call' = <<"destroy", k>>

AddLast(d, c) ==
    Len(items) < MaxLen /\ items' = Append(items, d) /\ ret' = None /\ call' = c

AddFirst(d, c) ==
    Len(items) < MaxLen /\ items' = <<d>> \o items /\ ret' = None /\ call' = c

\* remove_node is given a node of the list: any one element goes.
RemoveNode == \E i \in DOMAIN items : DropVoid(i, <<"remove_node">>)

RemoveFirstNode ==
    IF items = <<>> THEN Void(<<"remove_first">>)
    ELSE DropVoid(1, <<"remove_first">>)

RemoveLastNode ==
    IF items = <<>> THEN Void(<<"remove_last">>)
    ELSE DropVoid(Len(items), <<"remove_last">>)

\* Exactly the first element equal to d goes, if there is one.
RemoveFirstOccurrence(d) ==
    LET i == IndexOfFirst(items, d) + 1 IN
    IF i = 0 THEN Void(<<"remove_first_occurrence", d>>)
    ELSE DropVoid(i, <<"remove_first_occurrence", d>>)

\* stack_pop and queue_dequeue: the first element, or NULL when empty.
TakeFirst(c) ==
    IF items = <<>> THEN Query(Null, c)
    ELSE items' = Tail(items) /\ ret' = Head(items) /\ call' = c

Clear(c) == items' = <<>> /\ ret' = None /\ call' = c

IsEmpty(c) == Query(IF items = <<>> THEN 1 ELSE 0, c)  \* BOOL

ListOps ==
    \/ \E d \in Data : \/ AddLast(d, <<"append", d>>)
                       \/ AddFirst(d, <<"prepend", d>>)
                       \/ RemoveFirstOccurrence(d)
                       \/ Query(IndexOfFirst(items, d), <<"index", d>>)
    \/ RemoveNode \/ RemoveFirstNode \/ RemoveLastNode
    \/ Clear(<<"clear">>) \/ IsEmpty(<<"is_empty">>)
    \/ Query(Len(items), <<"count">>)

StackOps ==
    \/ \E d \in Data : AddFirst(d, <<"push", d>>)
    \/ TakeFirst(<<"pop">>) \/ Clear(<<"stack_clear">>)
    \/ IsEmpty(<<"stack_is_empty">>)

QueueOps ==
    \/ \E d \in Data : AddLast(d, <<"enqueue", d>>)
    \/ TakeFirst(<<"dequeue">>) \/ Clear(<<"queue_clear">>)
    \/ IsEmpty(<<"queue_is_empty">>)

Next ==
    \/ \E k \in Kinds : Create(k) \/ Destroy(k)
    \/ Is("list") /\ ListOps
    \/ Is("stack") /\ StackOps
    \/ Is("queue") /\ QueueOps

Spec == Init /\ [][Next]_vars

=============================================================================
