----------------------------- MODULE LinkedQueue -----------------------------
(***************************************************************************)
(* The doubly linked list of kernel/queue.c, with its nodes on the kernel  *)
(* heap.  A freed node keeps its contents until it is allocated again and  *)
(* filled by push().                                                       *)
(***************************************************************************)
EXTENDS Integers, Sequences, FiniteSets

CONSTANTS
  Nodes,        (* addresses of nodes: bounds the length of the queue      *)
  Payloads,
  Nothing       (* the null pointer                                        *)

ASSUME QueueAssumption ==
  /\ Nothing \notin Nodes \cup Payloads
  /\ IsFiniteSet(Nodes)

VARIABLES
  head,         (* queue->head                                             *)
  tail,         (* queue->tail                                             *)
  node,         (* the fields of the node at each address                  *)
  held,         (* nodes allocated on the heap                             *)
  answer        (* what the last call returned                             *)

vars == <<head, tail, node, held, answer>>

Link == Nodes \cup {Nothing}

\* queue_init(); what the memory of a node holds before is arbitrary.
Init ==
  /\ head = Nothing /\ tail = Nothing
  /\ node \in [Nodes -> [payload : {Nothing}, next : Link, prev : {Nothing}]]
  /\ held = {}
  /\ answer = Nothing

Before == IF head = Nothing THEN Nothing ELSE tail

\* fault: the node is put in as its own payload
NewNodeItself(n, p) == [payload |-> n, next |-> Nothing, prev |-> Before]
NewNode(n, p) == [payload |-> p, next |-> Nothing, prev |-> Before]

\* fault: the old last node is not linked to the new one
LinkedUnlinked(n) == node
Linked(n) == IF head = Nothing THEN node ELSE [node EXCEPT ![tail].next = n]

Push(p) ==
  \E n \in Nodes \ held :
    /\ held' = held \cup {n}
    /\ node' = [Linked(n) EXCEPT ![n] = NewNode(n, p)]
    /\ head' = IF head = Nothing THEN n ELSE head
    /\ tail' = n
    /\ answer' = Nothing

PopEmpty ==
  /\ head = Nothing
  /\ answer' = Nothing
  /\ UNCHANGED <<head, tail, node, held>>

TailAfterKept(next) == tail     \* fault: the last pop leaves the tail behind
TailAfter(next) == IF next = Nothing THEN Nothing ELSE tail

Pop ==
  /\ head # Nothing
  /\ LET next == node[head].next
     IN  /\ head' = next
         /\ tail' = TailAfter(next)
         /\ node' = IF next = Nothing THEN node ELSE [node EXCEPT ![next].prev = Nothing]
  /\ held' = held \ {head}
  /\ answer' = node[head].payload

Peek ==
  /\ answer' = IF head = Nothing THEN Nothing ELSE node[head].payload
  /\ UNCHANGED <<head, tail, node, held>>

Next == (\E p \in Payloads : Push(p)) \/ PopEmpty \/ Pop \/ Peek

Spec == Init /\ [][Next]_vars

-----------------------------------------------------------------------------
TypeOK ==
  /\ head \in Link /\ tail \in Link
  /\ node \in [Nodes -> [payload : Payloads \cup {Nothing}, next : Link, prev : Link]]
  /\ held \subseteq Nodes
  /\ answer \in Payloads \cup {Nothing}

\* The nodes from the head on, as long as next leads to one.
Order ==
  LET walk[k \in 0 .. Cardinality(Nodes)] ==
        IF k = 0 THEN <<>>
        ELSE LET s == walk[k - 1]
                 n == IF s = <<>> THEN head ELSE node[s[Len(s)]].next
             IN  IF n = Nothing \/ Len(s) < k - 1 THEN s ELSE Append(s, n)
  IN  walk[Cardinality(Nodes)]

(***************************************************************************)
(* The links from the head pass every node held exactly once and end at    *)
(* the tail, and prev leads back: no node is leaked, none is used after    *)
(* its free, and push() (queue.c:5-17) always appends to the last one.     *)
(***************************************************************************)
LinksConsistent ==
  /\ {Order[k] : k \in DOMAIN Order} = held
  /\ Len(Order) = Cardinality(held)
  /\ tail = IF Order = <<>> THEN Nothing ELSE Order[Len(Order)]
  /\ head # Nothing => node[tail].next = Nothing /\ node[head].prev = Nothing
  /\ \A k \in 2 .. Len(Order) : node[Order[k]].prev = Order[k - 1]

(***************************************************************************)
(* The list implements the abstract queue: payloads come out in the order  *)
(* they went in, whatever nodes the heap reuses.                           *)
(***************************************************************************)
Abstract == INSTANCE Fifo WITH items <- [k \in DOMAIN Order |-> node[Order[k]].payload]

ImplementsFifo == Abstract!Spec
=============================================================================
