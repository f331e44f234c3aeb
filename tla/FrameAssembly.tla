----------------------------- MODULE FrameAssembly -----------------------------
(* How the viewer puts access units together from datagrams: the reassembler  *)
(* and the groups of the forward error correction. An access unit has K data   *)
(* fragments and one FEC group of one parity shard, numbered K + 1; any K of    *)
(* the K + 1 shards restore the others. An assembly is a record:                *)
(*   partial  incomplete access units in the order they were first seen         *)
(*   recent   the numbers completed last                                         *)
(*   groups   incomplete FEC groups in the order they were first seen            *)
(*   done     the numbers of the groups completed last                           *)
EXTENDS Naturals, Sequences, FiniteSets, SequencesExt, Sublists

CONSTANTS K,             \* data fragments of an access unit
          MaxInFlight,   \* MAX_IN_FLIGHT_AUS
          MaxRecent,     \* RECENT_COMPLETED_AUS
          MaxGroups,     \* MAX_ACTIVE_FEC_GROUPS
          MaxDone        \* CompletedFecGroups::CAPACITY

Data == 1..K
ParityShard == K + 1

Empty == [partial |-> <<>>, recent |-> <<>>, groups |-> <<>>, done |-> <<>>]

Has(list, id) == \E e \in ToSet(list) : e.id = id
Got(list, id) == UNION {e.got : e \in {f \in ToSet(list) : f.id = id}}
Without(list, id) == Selected(list, LAMBDA e : e.id # id)
\* slip: the window of the numbers completed last only grows
AllOf(list, max) == list
Newest(list, max) == IF Len(list) > max THEN Tail(list) ELSE list

\* an entry is opened for a number not seen before, in the place of the oldest when the list is full
Opened(list, max, id, key) ==
  IF Has(list, id) THEN list
  ELSE Append(IF Len(list) >= max THEN Tail(list) ELSE list, [id |-> id, key |-> key, got |-> {}])
Marked(list, id, shards) ==
  [i \in DOMAIN list |-> IF list[i].id = id THEN [list[i] EXCEPT !.got = @ \cup shards] ELSE list[i]]

\* FrameReassembler::push: the assembly and the access unit completed, if any
Push(asm, d, shard) ==
  IF Contains(asm.recent, d.id) THEN [asm |-> asm, frames |-> <<>>]
  ELSE LET partial == Marked(Opened(asm.partial, MaxInFlight, d.id, d.key), d.id, {shard})
       IN IF Got(partial, d.id) = Data
          THEN [asm |-> [asm EXCEPT !.partial = Without(partial, d.id),
                                    !.recent = Newest(Append(asm.recent, d.id), MaxRecent)],
                frames |-> <<[id |-> d.id, key |-> d.key]>>]
          ELSE [asm |-> [asm EXCEPT !.partial = partial], frames |-> <<>>]

\* FrameReassembler::missing_fragment_indexes: nothing is known of a number never seen
Missing(asm, id) == IF Has(asm.partial, id) THEN {Data \ Got(asm.partial, id)} ELSE {}

\* the data shards a group can restore once K of its shards are there
Restorable(groups, id) ==
  LET got == Got(groups, id)
  IN IF ParityShard \in got /\ Cardinality(got) >= K THEN Data \ got ELSE {}

\* a shard reaches its group; a group whose data is all there, restored or not, is closed
InGroup(asm, d) ==
  IF Contains(asm.done, d.id) THEN [asm |-> asm, restored |-> {}]
  ELSE LET groups == Marked(Opened(asm.groups, MaxGroups, d.id, d.key), d.id, {d.shard})
           restored == Restorable(groups, d.id)
           closed == Data \subseteq Got(groups, d.id) \cup restored
       IN [restored |-> restored,
           asm |-> [asm EXCEPT !.groups = IF closed THEN Without(groups, d.id) ELSE groups,
                               !.done = IF closed THEN Newest(Append(@, d.id), MaxDone) ELSE @]]
================================================================================
