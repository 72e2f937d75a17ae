--------------------------- MODULE SnapshotStore ---------------------------
(***************************************************************************)
(* What an undoable object store promises its users: a stack of complete   *)
(* copies of the store, one per undo state.  Undoing restores the newest   *)
(* copy, merging forgets it, committing keeps it for a later pop, and the  *)
(* oldest copies may be dropped when a session starts.  There is no        *)
(* difference log here: UndoDatabase keeps one and implements this module. *)
(* A restore that the store refuses half-way is the end of it.             *)
(***************************************************************************)
EXTENDS Integers, Sequences

CONSTANTS Ids,      \* object instance numbers
          Values,   \* object contents
          None      \* "no object under this id"

VARIABLES objects,    \* the store: id -> contents or None
          next_id,    \* the instance number the next object gets
          snapshots,  \* the copies, oldest first
          sessions,   \* number of open sessions
          failed      \* a restore was refused half-way

vars == <<objects, next_id, snapshots, sessions, failed>>

Current == [objects |-> objects, next_id |-> next_id]

Newest == snapshots[Len(snapshots)]

DropNewest == SubSeq(snapshots, 1, Len(snapshots) - 1)

Init ==
  /\ objects = [i \in Ids |-> None]
  /\ next_id = 0
  /\ snapshots = <<>>
  /\ sessions = 0
  /\ failed = FALSE

\* A session starts with a copy of the store; old copies may be dropped.
Start ==
  /\ \E k \in 1 .. Len(snapshots) + 1 :
        snapshots' = Append(SubSeq(snapshots, k, Len(snapshots)), Current)
  /\ sessions' = sessions + 1
  /\ UNCHANGED <<objects, next_id>>

\* The store changes in any way; the first change ever made outside a session
\* may be preceded by an implicit copy.
Change ==
  /\ objects' \in [Ids -> Values \cup {None}]
  /\ next_id' \in Nat
  /\ \/ snapshots' = snapshots
     \/ snapshots = <<>> /\ snapshots' = <<Current>>
  /\ UNCHANGED sessions

Restore ==
  /\ snapshots # <<>>
  /\ objects' = Newest.objects
  /\ next_id' = Newest.next_id
  /\ snapshots' = DropNewest

Undo == sessions > 0 /\ Restore /\ sessions' = sessions - 1

PopCommit == sessions = 0 /\ Restore /\ UNCHANGED sessions

Merge ==
  /\ sessions > 0
  /\ snapshots # <<>>
  /\ snapshots' = DropNewest
  /\ sessions' = sessions - 1
  /\ UNCHANGED <<objects, next_id>>

Commit ==
  /\ sessions > 0
  /\ sessions' = sessions - 1
  /\ UNCHANGED <<objects, next_id, snapshots>>

\* A restore throws: some of the store is restored, the copies stay.
Fail ==
  /\ snapshots # <<>>
  /\ objects' \in [Ids -> Values \cup {None}]
  /\ failed' = TRUE
  /\ UNCHANGED <<next_id, snapshots, sessions>>

Proceed == Start \/ Change \/ Undo \/ PopCommit \/ Merge \/ Commit

Next == ~failed /\ ((Proceed /\ UNCHANGED failed) \/ Fail)

Spec == Init /\ [][Next]_vars
=============================================================================
