----------------------------- MODULE LinkedList -----------------------------
(***************************************************************************)
(* The intrusive circular lists of kernel/include/stewieos/linkedlist.h.   *)
(* A list is a record of two pointer maps over its nodes, the list head    *)
(* among them.  A node that is in no list points to itself both ways, as   *)
(* INIT_LIST leaves it.                                                    *)
(***************************************************************************)

(* INIT_LIST on every node of N, heads included. *)
INIT_LIST(N) == [next |-> [n \in N |-> n], prev |-> [n \in N |-> n]]

(* _list_add: four pointer stores that splice what between two neighbours. *)
list_splice(q, what, before, after) ==
  [next |-> [q.next EXCEPT ![before] = what, ![what] = after],
   prev |-> [q.prev EXCEPT ![after] = what, ![what] = before]]

(* An insertion on the other side of where. *)
ListAddBefore(q, what, where) == list_splice(q, what, q.prev[where], where)

(* list_add puts what just behind where: at the front, if where is a head. *)
list_add(q, what, where) == list_splice(q, what, where, q.next[where])

(* A removal that forgets to re-initialise the removed node. *)
ListRemStale(q, what) ==
  [next |-> [q.next EXCEPT ![q.prev[what]] = q.next[what]],
   prev |-> [q.prev EXCEPT ![q.next[what]] = q.prev[what]]]

(* list_rem unlinks what and re-initialises it; on an unlinked node it does *)
(* nothing.                                                                 *)
list_rem(q, what) ==
  [next |-> [q.next EXCEPT ![q.prev[what]] = q.next[what], ![what] = what],
   prev |-> [q.prev EXCEPT ![q.next[what]] = q.prev[what], ![what] = what]]

list_inserted(q, item) == ~ (q.next[item] = item /\ q.prev[item] = item)

list_is_lonely(q, item, head) == q.next[item] = head /\ q.prev[item] = head

(* list_next answers null at the end of the list headed by head. *)
list_next(q, item, head, null) ==
  IF q.next[item] = head THEN null ELSE q.next[item]

-----------------------------------------------------------------------------

(* The type of a list over the nodes N. *)
ListOver(N) == [next : [N -> N], prev : [N -> N]]

(* Both chains describe the same rings: prev undoes next everywhere. *)
Linked(q, N) == \A n \in N : q.prev[q.next[n]] = n /\ q.next[q.prev[n]] = n

=============================================================================
