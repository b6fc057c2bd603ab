------------------------------- MODULE ListApi -------------------------------
(***************************************************************************)
(* What clist.h promises: a sequence of distinct nodes with operations at   *)
(* both ends, and the node each operation answers with.                    *)
(***************************************************************************)
EXTENDS Sequences, SequencesExt

CONSTANTS Nodes, Null

VARIABLES
  list,         \* the nodes, first to last
  call          \* the last call: function, argument and the node it returned

Done(op, n, answer) == call' = <<op, n, answer>>

Init == list = <<>> /\ call = <<"init", Null, Null>>

Absent == Nodes \ ToSet(list)

Rpush == \E n \in Absent : list' = Append(list, n) /\ Done("rpush", n, Null)

Lpush == \E n \in Absent : list' = <<n>> \o list /\ Done("lpush", n, Null)

Lpop == IF list = <<>>
        THEN Done("lpop", Null, Null) /\ UNCHANGED list
        ELSE Done("lpop", Null, Head(list)) /\ list' = Tail(list)

Rpop == IF list = <<>>
        THEN Done("rpop", Null, Null) /\ UNCHANGED list
        ELSE Done("rpop", Null, Last(list)) /\ list' = Front(list)

Rotate == /\ list' = IF list = <<>> THEN list ELSE Append(Tail(list), Head(list))
          /\ Done("lpoprpush", Null, Null)

TakeOut == \E n \in Nodes :
             /\ list' = RemoveFirst(list, n)
             /\ Done("remove", n, IF Contains(list, n) THEN n ELSE Null)

Find == \E n \in Nodes :
          /\ Done("find", n, IF Contains(list, n) THEN n ELSE Null)
          /\ UNCHANGED list

Next == Rpush \/ Lpush \/ Lpop \/ Rpop \/ Rotate \/ TakeOut \/ Find

Spec == Init /\ [][Next]_<<list, call>>
=============================================================================
