------------------------------ MODULE Storage ------------------------------
(***************************************************************************)
(* The webhook store of the Python backchannels                            *)
(* (aries-backchannels/python/storage.py), as operators on a store value.  *)
(*                                                                         *)
(* The module-level dictionary storage maps a data id (a thread,           *)
(* invitation or connection id) to a dictionary from data types to lists.  *)
(* A Python dictionary remembers the order in which its keys were first    *)
(* inserted, and pop_resource_latest depends on it, so the store is:       *)
(*                                                                         *)
(*   order  the data ids, in the order of their first insertion            *)
(*   has    the pairs <<id, type>> for which a list exists                 *)
(*   list   the list of each pair (<<>> for a pair that has none)          *)
(*                                                                         *)
(* Every function of storage.py runs under storage_lock from its first to  *)
(* its last line, so each is one atomic operation.                         *)
(***************************************************************************)
EXTENDS Naturals, Sequences

CONSTANTS
  DataIds,      \* the ids webhooks are filed under
  DataTypes,    \* "credential-msg", "didexchange-msg", ...
  Messages      \* the webhook payloads

Boxes == DataIds \X DataTypes

Stores ==
  [order : Seq(DataIds), has : SUBSET Boxes, list : [Boxes -> Seq(Messages)]]

EmptyStore == [order |-> <<>>, has |-> {}, list |-> [b \in Boxes |-> <<>>]]

Inserted(st, id) == \E i \in DOMAIN st.order : st.order[i] = id

\* push_resource: create the two dictionary levels on demand, append to the list.
push_resource(st, id, type, msg) ==
  [order |-> IF Inserted(st, id) THEN st.order ELSE Append(st.order, id),
   has   |-> st.has \cup {<<id, type>>},
   list  |-> [st.list EXCEPT ![<<id, type>>] = Append(@, msg)]]

\* pop_resource answers None unless the list exists and is not empty ...
CanPop(st, b) == b \in st.has /\ st.list[b] # <<>>

\* Mutants: the newest message is handed out, or the message is not deleted.
PoppedNewest(st, b) == st.list[b][Len(st.list[b])]
pop_resource_keeps(st, b) == st

\* ... and else the head of the list, which it deletes; the empty list stays.
PoppedHead(st, b) == Head(st.list[b])
pop_resource(st, b) == [st EXCEPT !.list[b] = Tail(@)]

\* get_resource answers None when there is no list for the pair (an empty list
\* is an answer, and callers index it).
NoResource(st, b) == b \notin st.has

\* pop_resource_latest looks at one id only, the one inserted last, and pops the
\* tail of its list.  data_ids[-1] raises IndexError while storage is empty.
LatestRaises(st) == st.order = <<>>
LatestBox(st, type) == <<st.order[Len(st.order)], type>>
PoppedTail(st, b) == st.list[b][Len(st.list[b])]
pop_resource_latest(st, b) ==
  [st EXCEPT !.list[b] = SubSeq(@, 1, Len(@) - 1)]
=============================================================================
