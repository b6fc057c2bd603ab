-------------------------------- MODULE Clist --------------------------------
(***************************************************************************)
(* The circular singly linked list of src/src/vfs/clist.h, at the level of  *)
(* its pointers.  list->next points to the last node, the last node's next *)
(* to the first.  A node that leaves the list keeps a stale next pointer.  *)
(***************************************************************************)
EXTENDS Naturals, FiniteSets, Sequences

CONSTANTS Nodes, Null

ASSUME ClistConstants == IsFiniteSet(Nodes) /\ Null \notin Nodes

VARIABLES
  last,         \* list->next: the last node, or Null when the list is empty
  next,         \* node -> its next pointer
  call          \* the last call: function, argument and the node it returned

vars == <<last, next, call>>

Done(op, n, answer) == call' = <<op, n, answer>>

Init == last = Null /\ next = [n \in Nodes |-> Null] /\ call = <<"init", Null, Null>>

\* The walk of every loop in clist.h: from list->next->next on, until the node
\* list->next has been visited.
Nth == [i \in 1 .. Cardinality(Nodes) + 1 |->
          LET step[k \in 1 .. i] == IF k = 1 THEN next[last]
                                    ELSE next[step[k - 1]]
          IN  step[i]]

\* The length of that walk, 0 when it would not come back to the last node.
WalkLength ==
  LET stops == {i \in 1 .. Cardinality(Nodes) : Nth[i] = last}
  IN  IF stops = {} THEN 0
      ELSE CHOOSE i \in stops : \A j \in stops : i <= j

Walk == IF last = Null THEN <<>> ELSE SubSeq(Nth, 1, WalkLength)

\* clist_find_before: the first node on the walk whose successor is node.
FindBefore(node) ==
  LET before == {i \in DOMAIN Walk : next[Walk[i]] = node}
  IN  IF before = {} THEN Null
      ELSE Walk[CHOOSE i \in before : \A j \in before : i <= j]

\* clist_find: both vfs_mount and vfs_umount ask it whether a mount is listed.
FindNode(node) == IF FindBefore(node) = Null THEN Null
                  ELSE next[FindBefore(node)]

\* Pushing a node that is in the list would tie the ring into a loop; that is
\* what check_mount looks for, so Rpush and Lpush are offered only other nodes.
Offered == {n \in Nodes : FindNode(n) = Null}

\* BugRpush: the new node becomes the first instead of the last.
BugRpush(n) ==
  /\ IF last = Null
     THEN next' = [next EXCEPT ![n] = n] /\ last' = n
     ELSE next' = [next EXCEPT ![n] = next[last], ![last] = n] /\ UNCHANGED last
  /\ Done("rpush", n, Null)

Rpush(n) ==
  /\ next' = IF last = Null THEN [next EXCEPT ![n] = n]
             ELSE [next EXCEPT ![n] = next[last], ![last] = n]
  /\ last' = n
  /\ Done("rpush", n, Null)

Lpush(n) ==
  /\ IF last = Null
     THEN next' = [next EXCEPT ![n] = n] /\ last' = n
     ELSE next' = [next EXCEPT ![n] = next[last], ![last] = n] /\ UNCHANGED last
  /\ Done("lpush", n, Null)

\* clist_lpop on behalf of function op.
PopFirst(op, n) ==
  \/ /\ last = Null
     /\ Done(op, n, Null)
     /\ UNCHANGED <<last, next>>
  \/ /\ last # Null
     /\ Done(op, n, next[last])
     /\ IF last = next[last]
        THEN last' = Null /\ UNCHANGED next
        ELSE next' = [next EXCEPT ![last] = next[next[last]]] /\ UNCHANGED last

Lpop == PopFirst("lpop", Null)

\* clist_lpoprpush: the first node becomes the last.
Rotate ==
  /\ last' = IF last = Null THEN Null ELSE next[last]
  /\ Done("lpoprpush", Null, Null)
  /\ UNCHANGED next

\* clist_rpop rotates until the last node is the first, then pops it.
Rpop ==
  \/ /\ last = Null
     /\ Done("rpop", Null, Null)
     /\ UNCHANGED <<last, next>>
  \/ /\ last # Null
     /\ LET before == FindBefore(last) IN
          /\ Done("rpop", Null, last)
          /\ IF before = last
             THEN last' = Null /\ UNCHANGED next
             ELSE /\ next' = [next EXCEPT ![before] = next[last]]
                  /\ last' = before

\* BugRemove: list->next keeps pointing to the node that left.
BugRemove(n) ==
  IF last # Null /\ next[last] = n THEN PopFirst("remove", n)
  ELSE IF FindBefore(n) = Null THEN Done("remove", n, Null) /\ UNCHANGED <<last, next>>
  ELSE /\ next' = [next EXCEPT ![FindBefore(n)] = next[n]]
       /\ Done("remove", n, n)
       /\ UNCHANGED last

Remove(n) ==
  \/ /\ last # Null
     /\ next[last] = n
     /\ PopFirst("remove", n)
  \/ /\ last # Null => next[last] # n
     /\ FindBefore(n) = Null
     /\ Done("remove", n, Null)
     /\ UNCHANGED <<last, next>>
  \/ /\ last # Null
     /\ next[last] # n
     /\ FindBefore(n) # Null
     /\ next' = [next EXCEPT ![FindBefore(n)] = next[n]]
     /\ last' = IF n = last THEN FindBefore(n) ELSE last
     /\ Done("remove", n, n)

Find(n) == Done("find", n, FindNode(n)) /\ UNCHANGED <<last, next>>

Next ==
  \/ \E n \in Offered : Rpush(n) \/ Lpush(n)
  \/ \E n \in Nodes : Remove(n) \/ Find(n)
  \/ Lpop \/ Rpop \/ Rotate

Spec == Init /\ [][Next]_vars

-----------------------------------------------------------------------------
\* The nodes reachable from list->next form one ring through list->next, and
\* no node occurs on it twice: the loop of _find_mount, which stops when it is
\* back at the last node, visits every mount once and ends.
Ring ==
  last # Null => /\ WalkLength > 0
                 /\ \A i, j \in DOMAIN Walk : Walk[i] = Walk[j] => i = j
                 /\ \A i \in DOMAIN Walk : Walk[i] \in Nodes

Abstract == INSTANCE ListApi WITH list <- Walk

\* The pointers implement the sequence of module ListApi: rpush appends, the
\* others keep the order of what they leave in, and every answer is the node
\* that the sequence would give.  Module Vfs uses that sequence.
ListSpec == Abstract!Spec
=============================================================================
