---------------------------- MODULE UndoDatabase ----------------------------
(***************************************************************************)
(* graphene::db::undo_database over one primary index of the object        *)
(* database: a stack of undo_state difference records, the sessions that   *)
(* own the newest of them, and the create / modify / remove hooks the      *)
(* index calls.  Every block, every pending transaction and every proposal *)
(* or escrow the chain executes runs inside such a session.                *)
(*                                                                         *)
(* The object maps of an undo_state are total functions that are None      *)
(* where the map has no key.  An object's contents double as the key of    *)
(* the index's unique secondary order when UniqueKey holds (a listing and  *)
(* its by_hash order), so that two live objects may not be equal then.     *)
(***************************************************************************)
EXTENDS Integers, Sequences, FiniteSets

CONSTANTS MaxId,      \* bound: object instances are 0 .. MaxId-1
          Values,     \* object contents
          None,       \* "no object", "no entry"
          UniqueKey,  \* whether the index has a unique order besides by_id
          MaxSizes,   \* values set_max_size is called with
          MaxDepth    \* sessions open at once (_pending_tx_session, temp_session,
                      \* and one forced by a proposal, escrow or expiry)

ASSUME MaxIdAssumption == MaxId \in Nat \ {0}
ASSUME NoneAssumption == None \notin Values /\ None \notin Nat
ASSUME UniqueKeyAssumption == UniqueKey \in BOOLEAN
ASSUME MaxDepthAssumption == MaxDepth \in Nat
\* database::update_global_dynamic_data passes head - last_irreversible + 1,
\* and head is at least one past the irreversible block when it does.
ASSUME MaxSizesAssumption ==
  /\ MaxSizes # {}
  /\ \A n \in MaxSizes : n \in Nat /\ MaxDepth <= n + 1

Ids == 0 .. MaxId - 1

VARIABLES objects,    \* the index: id -> contents or None
          next_id,    \* primary_index::_next_id
          secondary,  \* ids a secondary_index attached to the index lists
          stack,      \* _stack, oldest undo_state first
          sessions,   \* _disable_on_exit of each open session, outermost first;
                      \* its length is _active_sessions
          disabled,   \* _disabled
          max_size,   \* _max_size
          failed,     \* a restore has thrown half-way
          snapshots   \* history variable: the store when each undo_state began

vars == <<objects, next_id, secondary, stack, sessions, disabled, max_size,
          failed, snapshots>>

Current == [objects |-> objects, next_id |-> next_id]

Top(s) == s[Len(s)]

Pop(s) == SubSeq(s, 1, Len(s) - 1)

Live(objs) == {i \in Ids : objs[i] # None}

NoEntries == [i \in Ids |-> None]

\* A default-constructed undo_state.
EmptyState ==
  [old_values |-> NoEntries, removed |-> NoEntries, new_ids |-> {},
   old_next_id |-> None]

----------------------------------------------------------------------------
(* The hooks, as functions from an undo_state to the recorded one.         *)

on_create(u, id) ==
  [u EXCEPT !.old_next_id = IF @ = None THEN id ELSE @,
            !.new_ids = @ \cup {id}]

on_modify(u, id, was) ==
  IF id \in u.new_ids \/ u.old_values[id] # None
    THEN u
    ELSE [u EXCEPT !.old_values[id] = was]

\* Mutant: the value at the time of the removal is kept, not the first one.
on_removeKeepsLast(u, id, was) ==
  IF id \in u.new_ids THEN [u EXCEPT !.new_ids = @ \ {id}]
  ELSE [u EXCEPT !.removed[id] = was, !.old_values[id] = None]

on_remove(u, id, was) ==
  IF id \in u.new_ids THEN [u EXCEPT !.new_ids = @ \ {id}]
  ELSE IF u.old_values[id] # None
    THEN [u EXCEPT !.removed[id] = u.old_values[id], !.old_values[id] = None]
  ELSE IF u.removed[id] # None THEN u
  ELSE [u EXCEPT !.removed[id] = was]

\* Mutant: "upd + del" takes the object of state instead of prev_state's.
MergeStatesUpdDel(a, b) ==
  LET created == a.new_ids \cup b.new_ids
      deleted == {i \in Ids : b.removed[i] # None /\ i \notin created}
  IN [new_ids     |-> {i \in created : b.removed[i] = None},
      old_values  |-> [i \in Ids |->
                         IF i \in deleted THEN None
                         ELSE IF i \in a.new_ids \/ a.old_values[i] # None
                           THEN a.old_values[i] ELSE b.old_values[i]],
      removed     |-> [i \in Ids |->
                         IF i \in deleted THEN b.removed[i] ELSE a.removed[i]],
      old_next_id |-> IF a.old_next_id = None THEN b.old_next_id
                                              ELSE a.old_next_id]

\* merge(): a is prev_state, b is state.  The removed objects of b are handled
\* after its updates and its new ids have been moved into prev_state.
MergeStates(a, b) ==
  LET updated == [i \in Ids |->
                    IF b.old_values[i] # None /\ i \notin a.new_ids
                         /\ a.old_values[i] = None
                      THEN b.old_values[i] ELSE a.old_values[i]]
      created == a.new_ids \cup b.new_ids
      deleted == {i \in Ids : b.removed[i] # None /\ i \notin created}
  IN [new_ids     |-> {i \in created : b.removed[i] = None},
      old_values  |-> [i \in Ids |-> IF i \in deleted THEN None ELSE updated[i]],
      removed     |-> [i \in Ids |->
                         IF i \notin deleted THEN a.removed[i]
                         ELSE IF updated[i] # None THEN updated[i]
                         ELSE b.removed[i]],
      old_next_id |-> IF a.old_next_id = None THEN b.old_next_id
                                              ELSE a.old_next_id]

\* What undo() and pop_commit() leave in the index: old values are written
\* back, then new objects are removed, then removed ones inserted again.
Reverted(objs, u) ==
  [i \in Ids |-> IF u.removed[i] # None THEN u.removed[i]
                 ELSE IF i \in u.new_ids THEN None
                 ELSE IF u.old_values[i] # None THEN u.old_values[i]
                 ELSE objs[i]]

RevertedNextId(n, u) == IF u.old_next_id = None THEN n ELSE u.old_next_id

----------------------------------------------------------------------------
(* The multi_index refuses a value that another live object already has.   *)

Taken(objs, id, v) == UniqueKey /\ \E j \in Ids \ {id} : objs[j] = v

\* Old values are written back in the iteration order of an unordered_map.
Orders == {r \in [Ids -> Ids] : \A i, j \in Ids : i # j => r[i] # r[j]}

\* Writing back i's old value throws when it is i's turn in order r.
StuckAt(u, r, i) ==
  /\ u.old_values[i] # None
  /\ \/ objects[i] = None
     \/ /\ UniqueKey
        /\ \E j \in Ids \ {i} :
              /\ objects[j] = u.old_values[i]
              /\ ~(u.old_values[j] # None /\ r[j] < r[i])

----------------------------------------------------------------------------

Init ==
  /\ objects = NoEntries
  /\ next_id = 0
  /\ secondary = {}
  /\ stack = <<>>
  /\ sessions = <<>>
  /\ disabled = FALSE
  /\ max_size \in MaxSizes
  /\ failed = FALSE
  /\ snapshots = <<>>

\* Mutant: trims while size >= max_size.
TrimOneMore(s) ==
  SubSeq(s, (IF Len(s) >= max_size THEN Len(s) - max_size + 1 ELSE 0) + 1, Len(s))

\* Which of its entries a stack keeps when a session starts.
Trim(s) == SubSeq(s, (IF Len(s) > max_size THEN Len(s) - max_size ELSE 0) + 1, Len(s))

\* A session that is not forced while the database is disabled has no effect
\* (the early return), so only the others are steps.
start_undo_session(force_enable) ==
  /\ ~failed
  /\ disabled => force_enable
  /\ Len(sessions) < MaxDepth
  /\ stack' = Append(Trim(stack), EmptyState)
  /\ snapshots' = Append(Trim(snapshots), Current)
  /\ sessions' = Append(sessions, disabled)
  /\ disabled' = FALSE
  /\ UNCHANGED <<objects, next_id, secondary, max_size, failed>>

\* The undo_state a hook writes to; an implicit one when the stack is empty.
OpenRecord == IF stack = <<>> THEN EmptyState ELSE Top(stack)

\* u becomes that undo_state.  Nothing is recorded while disabled.
Record(u) ==
  IF disabled
    THEN UNCHANGED <<stack, snapshots>>
    ELSE LET s == IF stack = <<>> THEN <<EmptyState>> ELSE stack
         IN /\ stack' = [s EXCEPT ![Len(s)] = u]
            /\ snapshots' = IF stack = <<>> THEN <<Current>> ELSE snapshots

create(v) ==
  /\ ~failed
  /\ next_id < MaxId
  /\ ~Taken(objects, next_id, v)
  /\ objects' = [objects EXCEPT ![next_id] = v]
  /\ next_id' = next_id + 1
  /\ secondary' = secondary \cup {next_id}
  /\ Record(on_create(OpenRecord, next_id))
  /\ UNCHANGED <<sessions, disabled, max_size, failed>>

modify(id, v) ==
  /\ ~failed
  /\ objects[id] # None
  /\ ~Taken(objects, id, v)
  /\ Record(on_modify(OpenRecord, id, objects[id]))
  /\ objects' = [objects EXCEPT ![id] = v]
  /\ UNCHANGED <<next_id, secondary, sessions, disabled, max_size, failed>>

remove(id) ==
  /\ ~failed
  /\ objects[id] # None
  /\ Record(on_remove(OpenRecord, id, objects[id]))
  /\ secondary' = secondary \ {id}
  /\ objects' = [objects EXCEPT ![id] = None]
  /\ UNCHANGED <<next_id, sessions, disabled, max_size, failed>>

\* Mutant: removing a new object does not reach the secondary indices either.
RestoreTopSilent ==
  LET u == Top(stack) IN
  /\ \E r \in Orders : \A i \in Ids : ~StuckAt(u, r, i)
  /\ objects' = Reverted(objects, u)
  /\ next_id' = RevertedNextId(next_id, u)
  /\ stack' = Pop(stack)
  /\ snapshots' = Pop(snapshots)
  /\ UNCHANGED <<secondary, max_size, failed>>

\* Re-inserting a removed object goes to the derived index and does not tell
\* the secondary indices; removing a new one does.
RestoreTop ==
  LET u == Top(stack) IN
  /\ \E r \in Orders : \A i \in Ids : ~StuckAt(u, r, i)
  /\ objects' = Reverted(objects, u)
  /\ next_id' = RevertedNextId(next_id, u)
  /\ secondary' = secondary \ u.new_ids
  /\ stack' = Pop(stack)
  /\ snapshots' = Pop(snapshots)
  /\ UNCHANGED <<max_size, failed>>

\* The first value that does not fit: the multi_index has dropped the object
\* when modify throws, and nothing after it is restored.
RestoreThrows ==
  LET u == Top(stack) IN
  \E r \in Orders, i \in Ids :
    /\ StuckAt(u, r, i)
    /\ \A k \in Ids : r[k] < r[i] => ~StuckAt(u, r, k)
    /\ objects' = [k \in Ids |->
                     IF k = i THEN None
                     ELSE IF u.old_values[k] # None /\ r[k] < r[i]
                       THEN u.old_values[k] ELSE objects[k]]
    /\ failed' = TRUE
    /\ UNCHANGED <<next_id, secondary, stack, sessions, max_size, snapshots>>

\* The end of a session: ~session restores the disabled flag it overrode.
EndSession ==
  /\ sessions' = Pop(sessions)
  /\ disabled' = (disabled \/ Top(sessions))

undo ==
  /\ ~failed
  /\ sessions # <<>> /\ ~disabled /\ stack # <<>>
  /\ \/ RestoreTop /\ EndSession
     \/ RestoreThrows /\ disabled' = TRUE

merge ==
  /\ ~failed
  /\ sessions # <<>>
  /\ \/ /\ Len(sessions) = 1 /\ Len(stack) = 1
        /\ stack' = <<>>
        /\ snapshots' = <<>>
     \/ /\ Len(stack) >= 2
        /\ stack' = [Pop(stack) EXCEPT ![Len(stack) - 1] = MergeStates(@, Top(stack))]
        /\ snapshots' = Pop(snapshots)
  /\ EndSession
  /\ UNCHANGED <<objects, next_id, secondary, max_size, failed>>

\* Only the plain, outermost sessions of push_block are committed: forced ones
\* are merged, and push_block starts after the pending session is undone.
commit ==
  /\ ~failed
  /\ sessions = <<FALSE>>
  /\ EndSession
  /\ UNCHANGED <<objects, next_id, secondary, stack, max_size, failed, snapshots>>

pop_commit ==
  /\ ~failed
  /\ sessions = <<>> /\ stack # <<>>
  /\ disabled' = FALSE
  /\ \/ RestoreTop /\ UNCHANGED sessions
     \/ RestoreThrows

\* reindex() and init_genesis() switch recording off before there is any
\* history and on again between two blocks.
disable ==
  /\ ~failed
  /\ ~disabled /\ stack = <<>> /\ sessions = <<>>
  /\ disabled' = TRUE
  /\ UNCHANGED <<objects, next_id, secondary, stack, sessions, max_size, failed,
                 snapshots>>

enable ==
  /\ ~failed
  /\ disabled /\ sessions = <<>>
  /\ disabled' = FALSE
  /\ UNCHANGED <<objects, next_id, secondary, stack, sessions, max_size, failed,
                 snapshots>>

set_max_size(n) ==
  /\ ~failed
  /\ max_size' = n
  /\ UNCHANGED <<objects, next_id, secondary, stack, sessions, disabled, failed,
                 snapshots>>

Next ==
  \/ \E force_enable \in BOOLEAN : start_undo_session(force_enable)
  \/ \E v \in Values : create(v)
  \/ \E id \in Ids, v \in Values : modify(id, v)
  \/ \E id \in Ids : remove(id)
  \/ undo
  \/ merge
  \/ commit
  \/ pop_commit
  \/ disable
  \/ enable
  \/ \E n \in MaxSizes : set_max_size(n)

Spec == Init /\ [][Next]_vars

----------------------------------------------------------------------------
(* Properties.                                                             *)

Contents == Values \cup {None}

Store == [objects : [Ids -> Contents], next_id : 0 .. MaxId]

UndoState ==
  [old_values : [Ids -> Contents], removed : [Ids -> Contents],
   new_ids : SUBSET Ids, old_next_id : Ids \cup {None}]

\* The types of the index, of _stack and of the flags of undo_database.
TypeOK ==
  /\ Current \in Store
  /\ secondary \subseteq Ids
  /\ stack \in Seq(UndoState)
  /\ sessions \in Seq(BOOLEAN)
  /\ disabled \in BOOLEAN
  /\ max_size \in MaxSizes
  /\ failed \in BOOLEAN
  /\ snapshots \in Seq(Store)

\* Undo record u describes the difference between two stores exactly: what is
\* new, what is removed, the first value of what has changed, nothing else.
Describes(u, before, after) ==
  /\ before.next_id <= after.next_id
  /\ u.old_next_id = None => before.next_id = after.next_id
  /\ u.old_next_id # None => u.old_next_id = before.next_id
  /\ \A i \in Ids :
       LET b == before.objects[i]
           a == after.objects[i]
       IN /\ i \in u.new_ids <=> (b = None /\ a # None)
          /\ i \in u.new_ids => before.next_id <= i
          /\ u.removed[i] = IF b # None /\ a = None THEN b ELSE None
          /\ u.old_values[i] # None => (a # None /\ b = u.old_values[i])
          /\ (u.old_values[i] = None /\ a # None /\ b # None) => a = b

\* The store at the end of the period that undo_state k records.
After(k) == IF k < Len(snapshots) THEN snapshots[k + 1] ELSE Current

\* Whatever sequence of hooks, merges, undos and commits has run, each
\* undo_state on the stack is the exact difference between the stores at its
\* two ends, so that get_object and insert find what undo() expects and
\* restoring it gives the store back as it was.
UndoRecordsExact ==
  ~failed => /\ Len(snapshots) = Len(stack)
             /\ \A k \in 1 .. Len(stack) : Describes(stack[k], snapshots[k], After(k))

\* Instance numbers are handed out once: every live object of every recorded
\* store is below that store's next_id, also after undo() has reset it.
IdsBelowNext ==
  ~failed =>
    /\ \A i \in Live(objects) : i < next_id
    /\ \A k \in 1 .. Len(snapshots) :
         \A i \in Live(snapshots[k].objects) : i < snapshots[k].next_id

\* start_undo_session never trims the state of a session that is still open,
\* so merge() always finds prev_state and undo() its state.
OpenSessionsKept == Len(sessions) <= Len(stack)

\* A secondary index never lists an object that is gone, whatever undo() did.
SecondaryNeverDangles == ~failed => secondary \subseteq Live(objects)

\* undo_database implements the stack of complete copies.
Snapshots == INSTANCE SnapshotStore WITH sessions <- Len(sessions)

ImplementsSnapshots == Snapshots!Spec
=============================================================================
