------------------------- MODULE UndoDatabaseProofs -------------------------
(***************************************************************************)
(* The undo records of UndoDatabase are exact for every number of objects, *)
(* every set of contents, every history length and every nesting depth the *)
(* call sites reach, and undo_database implements SnapshotStore.           *)
(***************************************************************************)
EXTENDS UndoDatabase, SequenceTheorems, TLAPS

IdsBelow(s) == \A i \in Ids : s.objects[i] # None => i < s.next_id

\* What undo() computes from an exact record is the store at the record's start.
LEMMA DescribedIsReverted ==
  ASSUME NEW u \in UndoState, NEW before \in Store, NEW after \in Store,
         Describes(u, before, after)
  PROVE  /\ Reverted(after.objects, u) = before.objects
         /\ RevertedNextId(after.next_id, u) = before.next_id
<1>1. Reverted(after.objects, u) = before.objects
  BY DEF Describes, Reverted, Store, UndoState, Contents
<1>2. RevertedNextId(after.next_id, u) = before.next_id
  BY DEF Describes, RevertedNextId
<1> QED BY <1>1, <1>2

\* A fresh undo_state describes no change.
LEMMA EmptyDescribes ==
  ASSUME NEW s \in Store
  PROVE  EmptyState \in UndoState /\ Describes(EmptyState, s, s)
BY NoneAssumption DEF Describes, EmptyState, NoEntries, UndoState, Store, Contents, Ids

\* on_create extends an exact record by the object just created.
LEMMA CreateDescribes ==
  ASSUME NEW u \in UndoState, NEW before \in Store, NEW after \in Store,
         Describes(u, before, after), IdsBelow(before), IdsBelow(after),
         after.next_id < MaxId, NEW v \in Values,
         NEW new \in Store,
         new.objects = [after.objects EXCEPT ![after.next_id] = v],
         new.next_id = after.next_id + 1
  PROVE  /\ on_create(u, after.next_id) \in UndoState
         /\ Describes(on_create(u, after.next_id), before, new)
<1> DEFINE id == after.next_id
<1>0. id \in Ids /\ id # None
  BY NoneAssumption, MaxIdAssumption DEF Store, Ids
<1>1. after.objects[id] = None /\ before.objects[id] = None
  BY <1>0 DEF IdsBelow, Describes, Store, Ids
<1>2. on_create(u, id) \in UndoState
  BY <1>0 DEF on_create, UndoState
<1>3. Describes(on_create(u, id), before, new)
  BY <1>0, <1>1, NoneAssumption, MaxIdAssumption
     DEF Describes, on_create, UndoState, Store, Contents, Ids
<1> QED BY <1>2, <1>3

\* on_modify keeps the first value of an object that was there before.
LEMMA ModifyDescribes ==
  ASSUME NEW u \in UndoState, NEW before \in Store, NEW after \in Store,
         Describes(u, before, after),
         NEW id \in Ids, after.objects[id] # None, NEW v \in Values,
         NEW new \in Store,
         new.objects = [after.objects EXCEPT ![id] = v],
         new.next_id = after.next_id
  PROVE  /\ on_modify(u, id, after.objects[id]) \in UndoState
         /\ Describes(on_modify(u, id, after.objects[id]), before, new)
<1>1. on_modify(u, id, after.objects[id]) \in UndoState
  BY DEF on_modify, UndoState, Store
<1>2. Describes(on_modify(u, id, after.objects[id]), before, new)
  BY NoneAssumption DEF Describes, on_modify, UndoState, Store, Contents
<1> QED BY <1>1, <1>2

\* on_remove forgets a new object and keeps the first value of an old one.
LEMMA RemoveDescribes ==
  ASSUME NEW u \in UndoState, NEW before \in Store, NEW after \in Store,
         Describes(u, before, after),
         NEW id \in Ids, after.objects[id] # None,
         NEW new \in Store,
         new.objects = [after.objects EXCEPT ![id] = None],
         new.next_id = after.next_id
  PROVE  /\ on_remove(u, id, after.objects[id]) \in UndoState
         /\ Describes(on_remove(u, id, after.objects[id]), before, new)
<1>1. on_remove(u, id, after.objects[id]) \in UndoState
  BY DEF on_remove, UndoState, Store, Contents
<1>2. Describes(on_remove(u, id, after.objects[id]), before, new)
  BY NoneAssumption DEF Describes, on_remove, UndoState, Store, Contents
<1> QED BY <1>1, <1>2

\* merge() composes: the table of sixteen cases in its comment, including that
\* the cases marked N/A do not occur when instance numbers are not reused.
LEMMA MergeDescribes ==
  ASSUME NEW a \in UndoState, NEW b \in UndoState,
         NEW s1 \in Store, NEW s2 \in Store, NEW s3 \in Store,
         Describes(a, s1, s2), Describes(b, s2, s3),
         IdsBelow(s1), IdsBelow(s2)
  PROVE  /\ MergeStates(a, b) \in UndoState
         /\ Describes(MergeStates(a, b), s1, s3)
<1> DEFINE m == MergeStates(a, b)
<1>1. m \in UndoState
  BY DEF MergeStates, UndoState, Contents
<1>2. /\ s1.next_id <= s3.next_id
      /\ m.old_next_id = None => s1.next_id = s3.next_id
      /\ m.old_next_id # None => m.old_next_id = s1.next_id
  BY MaxIdAssumption DEF MergeStates, Describes, Store
<1>3. ASSUME NEW i \in Ids
      PROVE  /\ i \in m.new_ids <=> (s1.objects[i] = None /\ s3.objects[i] # None)
             /\ i \in m.new_ids => s1.next_id <= i
             /\ m.removed[i] = IF s1.objects[i] # None /\ s3.objects[i] = None
                                 THEN s1.objects[i] ELSE None
             /\ m.old_values[i] # None =>
                  (s3.objects[i] # None /\ s1.objects[i] = m.old_values[i])
             /\ (m.old_values[i] = None /\ s3.objects[i] # None /\ s1.objects[i] # None)
                  => s3.objects[i] = s1.objects[i]
  <2>1. ~(s1.objects[i] # None /\ s2.objects[i] = None /\ s3.objects[i] # None)
    BY MaxIdAssumption DEF IdsBelow, Describes, Store, Ids
  <2>2. i \in m.new_ids <=> (i \in a.new_ids \/ i \in b.new_ids) /\ b.removed[i] = None
    BY DEF MergeStates, UndoState
  <2> QED BY <1>3, <2>1, <2>2, MaxIdAssumption
          DEF MergeStates, Describes, Store, UndoState, Ids
<1> QED BY <1>1, <1>2, <1>3 DEF Describes

----------------------------------------------------------------------------
(* The inductive invariant.                                                *)

\* The disabled flag and the sessions that overrode it: recording is off only
\* while there is no history, and only an outermost session turns it on.
FlagsConsistent ==
  /\ disabled /\ ~failed => stack = <<>> /\ sessions = <<>>
  /\ \A k \in 1 .. Len(sessions) :
       sessions[k] => k = 1 /\ Len(stack) = Len(sessions)

\* One record per copy, each exact, instance numbers below next_id everywhere.
RecordsInv ==
  /\ Len(snapshots) = Len(stack)
  /\ IdsBelow(Current)
  /\ \A k \in 1 .. Len(stack) :
       /\ IdsBelow(snapshots[k])
       /\ Describes(stack[k], snapshots[k], After(k))

IInv == TypeOK /\ OpenSessionsKept /\ FlagsConsistent /\ (~failed => RecordsInv)

LEMMA InitInv == Init => IInv
<1> SUFFICES ASSUME Init PROVE IInv
  OBVIOUS
<1>1. TypeOK
  <2>1. Current \in Store
    BY MaxIdAssumption DEF Init, Current, Store, NoEntries, Contents
  <2>2. stack \in Seq(UndoState) /\ sessions \in Seq(BOOLEAN) /\ snapshots \in Seq(Store)
    BY DEF Init
  <2>3. disabled \in BOOLEAN /\ failed \in BOOLEAN /\ secondary \subseteq Ids
        /\ max_size \in MaxSizes
    BY DEF Init
  <2> QED BY <2>1, <2>2, <2>3 DEF TypeOK
<1>2. OpenSessionsKept /\ FlagsConsistent
  BY DEF Init, OpenSessionsKept, FlagsConsistent
<1>3. RecordsInv
  BY DEF Init, RecordsInv, IdsBelow, Current, NoEntries
<1> QED BY <1>1, <1>2, <1>3 DEF IInv

\* What Record does to the stack, whichever hook it is given the effect of.
\* The newest record is replaced by one that describes the new store.
LEMMA RecordPreserves ==
  ASSUME IInv, ~failed, ~disabled,
         NEW u \in UndoState, NEW s0 \in Seq(UndoState), NEW c0 \in Seq(Store),
         s0 = IF stack = <<>> THEN <<EmptyState>> ELSE stack,
         c0 = IF stack = <<>> THEN <<Current>> ELSE snapshots,
         stack' = [s0 EXCEPT ![Len(s0)] = u],
         snapshots' = c0,
         Current' \in Store, IdsBelow(Current'),
         Describes(u, c0[Len(c0)], Current')
  PROVE  /\ stack' \in Seq(UndoState) /\ snapshots' \in Seq(Store)
         /\ Len(stack') = Len(s0) /\ Len(s0) > 0
         /\ RecordsInv'
<1>1. Len(s0) > 0 /\ Len(c0) = Len(s0)
  BY DEF IInv, RecordsInv, TypeOK
<1>2. stack' \in Seq(UndoState) /\ Len(stack') = Len(s0) /\ snapshots' \in Seq(Store)
  BY <1>1
<1>3. ASSUME NEW k \in 1 .. Len(stack')
      PROVE  /\ IdsBelow(snapshots'[k])
             /\ Describes(stack'[k], snapshots'[k], After(k)')
  <2>1. CASE k = Len(s0)
    BY <2>1, <1>1, <1>2 DEF IInv, RecordsInv, After, TypeOK
  <2>2. CASE k # Len(s0)
    BY <2>2, <1>1, <1>2, <1>3 DEF IInv, RecordsInv, After, TypeOK
  <2> QED BY <2>1, <2>2
<1> QED BY <1>1, <1>2, <1>3 DEF RecordsInv

\* The record the hook starts from describes the store as it is.
LEMMA TopDescribes ==
  ASSUME IInv, ~failed, ~disabled,
         NEW s0, s0 = IF stack = <<>> THEN <<EmptyState>> ELSE stack,
         NEW c0, c0 = IF stack = <<>> THEN <<Current>> ELSE snapshots
  PROVE  /\ s0 \in Seq(UndoState) /\ c0 \in Seq(Store)
         /\ Len(s0) > 0 /\ Len(c0) = Len(s0)
         /\ s0[Len(s0)] \in UndoState /\ c0[Len(c0)] \in Store
         /\ IdsBelow(c0[Len(c0)])
         /\ Describes(s0[Len(s0)], c0[Len(c0)], Current)
<1>1. Current \in Store /\ stack \in Seq(UndoState) /\ snapshots \in Seq(Store)
  BY DEF IInv, TypeOK
<1>2. CASE stack = <<>>
  BY <1>1, <1>2, EmptyDescribes DEF IInv, RecordsInv
<1>3. CASE stack # <<>>
  BY <1>1, <1>3 DEF IInv, RecordsInv, After
<1> QED BY <1>2, <1>3

----------------------------------------------------------------------------
(* Every action preserves the invariant.                                   *)

\* Dropping the d oldest entries of a sequence shifts the others by d.
LEMMA DropOldest ==
  ASSUME NEW S, NEW s \in Seq(S), NEW d \in Nat, d <= Len(s)
  PROVE  /\ SubSeq(s, d + 1, Len(s)) \in Seq(S)
         /\ Len(SubSeq(s, d + 1, Len(s))) = Len(s) - d
         /\ \A k \in 1 .. Len(s) - d : SubSeq(s, d + 1, Len(s))[k] = s[k + d]
OBVIOUS

\* Appending to a sequence.
LEMMA Appended ==
  ASSUME NEW S, NEW s \in Seq(S), NEW e \in S
  PROVE  /\ Append(s, e) \in Seq(S) /\ Len(Append(s, e)) = Len(s) + 1
         /\ \A k \in 1 .. Len(s) : Append(s, e)[k] = s[k]
         /\ Append(s, e)[Len(s) + 1] = e
OBVIOUS

\* How many of the oldest records start_undo_session drops.
Dropped == IF Len(stack) > max_size THEN Len(stack) - max_size ELSE 0

LEMMA StartPreserves ==
  ASSUME IInv, NEW f \in BOOLEAN, start_undo_session(f)
  PROVE  IInv'
<1> USE DEF IInv
<1>a. /\ ~failed /\ failed' = failed /\ TypeOK /\ Len(snapshots) = Len(stack)
      /\ RecordsInv
  BY DEF start_undo_session, RecordsInv
<1>b. /\ max_size \in Nat /\ MaxDepth \in Nat /\ MaxDepth <= max_size + 1
      /\ Len(stack) \in Nat /\ Len(sessions) \in Nat
  BY MaxSizesAssumption, MaxDepthAssumption DEF TypeOK
<1> DEFINE d == Dropped
           n == Len(stack)
<1>0. /\ d \in Nat /\ d <= n
      /\ n > max_size => d = n - max_size
      /\ n <= max_size => d = 0
  BY <1>b DEF Dropped
<1>c. /\ Trim(stack) = SubSeq(stack, d + 1, Len(stack))
      /\ Trim(snapshots) = SubSeq(snapshots, d + 1, Len(snapshots))
  BY <1>a DEF Trim, Dropped
<1>1. Current' = Current /\ Current \in Store
  BY DEF start_undo_session, Current, TypeOK
<1>2. /\ Trim(stack) \in Seq(UndoState) /\ Len(Trim(stack)) = n - d
      /\ \A k \in 1 .. n - d : Trim(stack)[k] = stack[k + d]
  BY <1>0, <1>c, DropOldest DEF TypeOK
<1>3. /\ Trim(snapshots) \in Seq(Store) /\ Len(Trim(snapshots)) = n - d
      /\ \A k \in 1 .. n - d : Trim(snapshots)[k] = snapshots[k + d]
  BY <1>0, <1>a, <1>c, DropOldest DEF TypeOK
<1>4. EmptyState \in UndoState /\ Describes(EmptyState, Current, Current)
  BY <1>1, EmptyDescribes
<1>5. /\ stack' \in Seq(UndoState) /\ Len(stack') = n - d + 1
      /\ \A k \in 1 .. n - d : stack'[k] = stack[k + d]
      /\ stack'[n - d + 1] = EmptyState
  BY <1>2, <1>4, Appended DEF start_undo_session
<1>5a. /\ snapshots' \in Seq(Store) /\ Len(snapshots') = n - d + 1
       /\ \A k \in 1 .. n - d : snapshots'[k] = snapshots[k + d]
       /\ snapshots'[n - d + 1] = Current
  BY <1>1, <1>3, Appended DEF start_undo_session
<1>6. sessions' \in Seq(BOOLEAN) /\ Len(sessions') = Len(sessions) + 1
  BY DEF start_undo_session, TypeOK
<1>7. TypeOK'
  <2>1. disabled' \in BOOLEAN /\ failed' \in BOOLEAN /\ secondary' \subseteq Ids
        /\ max_size' \in MaxSizes
    BY DEF start_undo_session, TypeOK
  <2> QED BY <1>1, <1>5, <1>5a, <1>6, <2>1 DEF TypeOK
<1>8. Len(sessions) < MaxDepth
  BY DEF start_undo_session
<1>9. OpenSessionsKept'
  <2>1. Len(sessions) <= n
    BY DEF OpenSessionsKept
  <2>2. Len(sessions) + 1 <= n - d + 1
    BY <2>1, <1>0, <1>b, <1>8
  <2> QED BY <2>2, <1>5, <1>6 DEF OpenSessionsKept
<1>10. FlagsConsistent'
  <2>1. ASSUME NEW k \in 1 .. Len(sessions'), sessions'[k]
        PROVE  k = 1 /\ Len(stack') = Len(sessions')
    <3>1. CASE k <= Len(sessions)
      <4>1. sessions[k] /\ k \in 1 .. Len(sessions)
        BY <2>1, <3>1 DEF start_undo_session, TypeOK
      <4>2. k = 1 /\ n = Len(sessions)
        BY <4>1 DEF FlagsConsistent
      <4>3. d = 0
        BY <4>2, <1>0, <1>b, <1>8
      <4>4. n - d + 1 = Len(sessions) + 1
        BY <4>2, <4>3, <1>b
      <4> QED BY <4>2, <4>4, <1>5, <1>6
    <3>2. CASE k = Len(sessions) + 1
      <4>1. disabled
        BY <2>1, <3>2 DEF start_undo_session, TypeOK
      <4>2. Len(sessions) = 0 /\ n = 0
        BY <4>1, <1>a DEF FlagsConsistent
      <4>3. k = 1 /\ n - d + 1 = 1
        BY <4>2, <3>2, <1>0, <1>b
      <4> QED BY <4>2, <4>3, <1>5, <1>6
    <3> QED BY <3>1, <3>2, <1>6, <1>b
  <2>2. ~disabled'
    BY DEF start_undo_session
  <2> QED BY <2>1, <2>2 DEF FlagsConsistent
<1>11. RecordsInv'
  <2>1. ASSUME NEW k \in 1 .. Len(stack')
        PROVE  /\ IdsBelow(snapshots'[k])
               /\ Describes(stack'[k], snapshots'[k], After(k)')
    <3>0. k \in Nat /\ 1 <= k /\ k <= n - d + 1
      BY <1>5, <1>0, <1>b
    <3>1. CASE k = n - d + 1
      <4>1. After(k)' = Current
        BY <3>1, <1>0, <1>b, <1>1, <1>5a DEF After
      <4> QED BY <4>1, <3>1, <1>4, <1>5, <1>5a, <1>a DEF RecordsInv
    <3>2. CASE k < n - d + 1
      <4>1. k \in 1 .. n - d /\ k + d \in 1 .. n
        BY <3>0, <3>2, <1>0, <1>b
      <4>2. stack'[k] = stack[k + d] /\ snapshots'[k] = snapshots[k + d]
        BY <4>1, <1>5, <1>5a
      <4>3. After(k)' = After(k + d)
        <5>1. CASE k + d < n
          <6>1. k + 1 \in 1 .. n - d /\ k + 1 + d = k + d + 1 /\ k < n - d + 1
            BY <5>1, <4>1, <1>0, <1>b
          <6>2. snapshots'[k + 1] = snapshots[k + d + 1]
            BY <6>1, <1>5a
          <6> QED BY <6>1, <6>2, <5>1, <1>5a, <1>a DEF After
        <5>2. CASE k + d = n
          <6>1. k = n - d /\ k < n - d + 1 /\ ~(k + d < n)
            BY <5>2, <4>1, <1>0, <1>b
          <6>2. snapshots'[k + 1] = Current
            BY <6>1, <1>5a
          <6> QED BY <6>1, <6>2, <1>5a, <1>a DEF After
        <5> QED BY <5>1, <5>2, <4>1, <1>0, <1>b
      <4> QED BY <4>1, <4>2, <4>3, <1>a DEF RecordsInv
    <3> QED BY <3>0, <3>1, <3>2, <1>0, <1>b
  <2>2. IdsBelow(Current')
    BY <1>a, <1>1 DEF RecordsInv
  <2> QED BY <2>1, <2>2, <1>5, <1>5a DEF RecordsInv
<1> QED BY <1>7, <1>9, <1>10, <1>11

\* A hook that records nothing because recording is off, or whose record of
\* the newest period stays exact.
LEMMA HookPreserves ==
  ASSUME IInv, ~failed, UNCHANGED <<sessions, disabled, max_size, failed>>,
         secondary' \subseteq Ids, Current' \in Store, IdsBelow(Current'),
         NEW s0, s0 = IF stack = <<>> THEN <<EmptyState>> ELSE stack,
         NEW c0, c0 = IF stack = <<>> THEN <<Current>> ELSE snapshots,
         NEW u, u \in UndoState,
         disabled => UNCHANGED <<stack, snapshots>>,
         ~disabled => /\ stack' = [s0 EXCEPT ![Len(s0)] = u]
                      /\ snapshots' = c0
                      /\ Describes(u, c0[Len(c0)], Current')
  PROVE  IInv'
<1> USE DEF IInv
<1>1. CASE disabled
  <2>1. TypeOK'
    <3>1. disabled' \in BOOLEAN /\ failed' \in BOOLEAN
      BY DEF TypeOK
    <3> QED BY <3>1, <1>1 DEF TypeOK
  <2>2. OpenSessionsKept' /\ FlagsConsistent'
    BY <1>1 DEF OpenSessionsKept, FlagsConsistent
  <2>3. stack' = <<>> /\ Len(snapshots') = 0
    BY <1>1 DEF FlagsConsistent, RecordsInv
  <2>4. RecordsInv'
    BY <2>3 DEF RecordsInv
  <2> QED BY <2>1, <2>2, <2>4
<1>2. CASE ~disabled
  <2>1. /\ s0 \in Seq(UndoState) /\ c0 \in Seq(Store)
        /\ Len(s0) > 0 /\ Len(c0) = Len(s0)
    BY <1>2, TopDescribes
  <2>2. /\ stack' \in Seq(UndoState) /\ snapshots' \in Seq(Store)
        /\ Len(stack') = Len(s0) /\ Len(s0) > 0
        /\ RecordsInv'
    BY <1>2, <2>1, RecordPreserves
  <2>3. TypeOK'
    <3>1. disabled' \in BOOLEAN /\ failed' \in BOOLEAN
      BY DEF TypeOK
    <3> QED BY <3>1, <2>2 DEF TypeOK
  <2>4. CASE stack = <<>>
    <3>1. Len(sessions) = 0
      BY <2>4 DEF OpenSessionsKept, TypeOK
    <3>2. OpenSessionsKept' /\ FlagsConsistent'
      BY <3>1, <2>2, <1>2 DEF OpenSessionsKept, FlagsConsistent
    <3> QED BY <3>2, <2>2, <2>3
  <2>5. CASE stack # <<>>
    <3>1. Len(stack') = Len(stack)
      BY <2>5, <2>2
    <3>2. OpenSessionsKept' /\ FlagsConsistent'
      BY <3>1, <1>2 DEF OpenSessionsKept, FlagsConsistent
    <3> QED BY <3>2, <2>2, <2>3
  <2> QED BY <2>4, <2>5
<1> QED BY <1>1, <1>2

\* The hooks return an undo_state.
LEMMA HooksTyped ==
  ASSUME NEW u \in UndoState, NEW id \in Ids, NEW was \in Contents
  PROVE  /\ on_create(u, id) \in UndoState
         /\ on_modify(u, id, was) \in UndoState
         /\ on_remove(u, id, was) \in UndoState
<1>1. on_create(u, id) \in UndoState
  BY DEF on_create, UndoState
<1>2. on_modify(u, id, was) \in UndoState
  BY DEF on_modify, UndoState
<1>3. on_remove(u, id, was) \in UndoState
  BY DEF on_remove, UndoState, Contents
<1> QED BY <1>1, <1>2, <1>3

LEMMA CreatePreserves ==
  ASSUME IInv, NEW v \in Values, create(v)
  PROVE  IInv'
<1> DEFINE s0 == IF stack = <<>> THEN <<EmptyState>> ELSE stack
           c0 == IF stack = <<>> THEN <<Current>> ELSE snapshots
           u0 == IF disabled THEN EmptyState ELSE s0[Len(s0)]
           u == on_create(u0, next_id)
<1>1. /\ Current \in Store /\ Current.next_id = next_id /\ Current.objects = objects
      /\ objects \in [Ids -> Contents] /\ next_id \in 0 .. MaxId
  BY DEF IInv, TypeOK, Current, Store
<1>2. ~failed /\ next_id < MaxId /\ next_id \in Ids /\ IdsBelow(Current)
  BY <1>1, MaxIdAssumption DEF create, Ids, IInv, RecordsInv
<1>3. /\ Current'.objects = [objects EXCEPT ![next_id] = v]
      /\ Current'.next_id = next_id + 1
  BY DEF create, Current
<1>4. Current' \in Store
  BY <1>1, <1>2, <1>3, MaxIdAssumption DEF create, Current, Store, Contents
<1>5. IdsBelow(Current')
  BY <1>1, <1>2, <1>3, MaxIdAssumption DEF IdsBelow, Ids
<1>6. secondary' \subseteq Ids
  BY <1>2 DEF create, IInv, TypeOK
<1>7. u \in UndoState
  <2>1. u0 \in UndoState
    BY <1>1, <1>2, TopDescribes, EmptyDescribes
  <2> HIDE DEF u0
  <2>2. None \in Contents
    BY DEF Contents
  <2> QED BY <2>1, <2>2, <1>2, HooksTyped
<1>8. ~disabled => Describes(u, c0[Len(c0)], Current')
  <2> SUFFICES ASSUME ~disabled PROVE Describes(u, c0[Len(c0)], Current')
    OBVIOUS
  <2>1. /\ u0 \in UndoState /\ c0[Len(c0)] \in Store
        /\ IdsBelow(c0[Len(c0)])
        /\ Describes(u0, c0[Len(c0)], Current)
    BY <1>2, TopDescribes
  <2> HIDE DEF u0, c0
  <2> QED BY <2>1, <1>1, <1>2, <1>3, <1>4, CreateDescribes
<1>9. /\ disabled => UNCHANGED <<stack, snapshots>>
      /\ ~disabled => stack' = [s0 EXCEPT ![Len(s0)] = u] /\ snapshots' = c0
  BY DEF create, Record, OpenRecord, Top
<1>10. UNCHANGED <<sessions, disabled, max_size, failed>>
  BY DEF create
<1> HIDE DEF u0
<1> QED BY <1>2, <1>4, <1>5, <1>6, <1>7, <1>8, <1>9, <1>10, HookPreserves

LEMMA ModifyPreserves ==
  ASSUME IInv, NEW id \in Ids, NEW v \in Values, modify(id, v)
  PROVE  IInv'
<1> DEFINE s0 == IF stack = <<>> THEN <<EmptyState>> ELSE stack
           c0 == IF stack = <<>> THEN <<Current>> ELSE snapshots
           u0 == IF disabled THEN EmptyState ELSE s0[Len(s0)]
           u == on_modify(u0, id, objects[id])
<1>1. /\ Current \in Store /\ Current.next_id = next_id /\ Current.objects = objects
      /\ objects \in [Ids -> Contents] /\ next_id \in 0 .. MaxId
  BY DEF IInv, TypeOK, Current, Store
<1>2. ~failed /\ objects[id] # None /\ IdsBelow(Current)
  BY DEF modify, IInv, RecordsInv
<1>3. /\ Current'.objects = [objects EXCEPT ![id] = v]
      /\ Current'.next_id = next_id
  BY DEF modify, Current
<1>4. Current' \in Store
  BY <1>1, <1>3 DEF modify, Current, Store, Contents
<1>5. IdsBelow(Current')
  BY <1>1, <1>2, <1>3 DEF IdsBelow
<1>6. secondary' \subseteq Ids
  BY DEF modify, IInv, TypeOK
<1>7. u \in UndoState
  <2>1. u0 \in UndoState
    BY <1>1, <1>2, TopDescribes, EmptyDescribes
  <2> HIDE DEF u0
  <2>2. objects[id] \in Contents
    BY <1>1
  <2> QED BY <2>1, <2>2, HooksTyped
<1>8. ~disabled => Describes(u, c0[Len(c0)], Current')
  <2> SUFFICES ASSUME ~disabled PROVE Describes(u, c0[Len(c0)], Current')
    OBVIOUS
  <2>1. /\ u0 \in UndoState /\ c0[Len(c0)] \in Store
        /\ Describes(u0, c0[Len(c0)], Current)
    BY <1>2, TopDescribes
  <2> HIDE DEF u0, c0
  <2> QED BY <2>1, <1>1, <1>2, <1>3, <1>4, ModifyDescribes
<1>9. /\ disabled => UNCHANGED <<stack, snapshots>>
      /\ ~disabled => stack' = [s0 EXCEPT ![Len(s0)] = u] /\ snapshots' = c0
  BY DEF modify, Record, OpenRecord, Top
<1>10. UNCHANGED <<sessions, disabled, max_size, failed>>
  BY DEF modify
<1> HIDE DEF u0
<1> QED BY <1>2, <1>4, <1>5, <1>6, <1>7, <1>8, <1>9, <1>10, HookPreserves

LEMMA RemovePreserves ==
  ASSUME IInv, NEW id \in Ids, remove(id)
  PROVE  IInv'
<1> DEFINE s0 == IF stack = <<>> THEN <<EmptyState>> ELSE stack
           c0 == IF stack = <<>> THEN <<Current>> ELSE snapshots
           u0 == IF disabled THEN EmptyState ELSE s0[Len(s0)]
           u == on_remove(u0, id, objects[id])
<1>1. /\ Current \in Store /\ Current.next_id = next_id /\ Current.objects = objects
      /\ objects \in [Ids -> Contents] /\ next_id \in 0 .. MaxId
  BY DEF IInv, TypeOK, Current, Store
<1>2. ~failed /\ objects[id] # None /\ IdsBelow(Current)
  BY DEF remove, IInv, RecordsInv
<1>3. /\ Current'.objects = [objects EXCEPT ![id] = None]
      /\ Current'.next_id = next_id
  BY DEF remove, Current
<1>4. Current' \in Store
  BY <1>1, <1>3 DEF remove, Current, Store, Contents
<1>5. IdsBelow(Current')
  BY <1>1, <1>2, <1>3 DEF IdsBelow
<1>6. secondary' \subseteq Ids
  BY DEF remove, IInv, TypeOK
<1>7. u \in UndoState
  <2>1. u0 \in UndoState
    BY <1>1, <1>2, TopDescribes, EmptyDescribes
  <2> HIDE DEF u0
  <2>2. objects[id] \in Contents
    BY <1>1
  <2> QED BY <2>1, <2>2, HooksTyped
<1>8. ~disabled => Describes(u, c0[Len(c0)], Current')
  <2> SUFFICES ASSUME ~disabled PROVE Describes(u, c0[Len(c0)], Current')
    OBVIOUS
  <2>1. /\ u0 \in UndoState /\ c0[Len(c0)] \in Store
        /\ Describes(u0, c0[Len(c0)], Current)
    BY <1>2, TopDescribes
  <2> HIDE DEF u0, c0
  <2> QED BY <2>1, <1>1, <1>2, <1>3, <1>4, RemoveDescribes
<1>9. /\ disabled => UNCHANGED <<stack, snapshots>>
      /\ ~disabled => stack' = [s0 EXCEPT ![Len(s0)] = u] /\ snapshots' = c0
  BY DEF remove, Record, OpenRecord, Top
<1>10. UNCHANGED <<sessions, disabled, max_size, failed>>
  BY DEF remove
<1> HIDE DEF u0
<1> QED BY <1>2, <1>4, <1>5, <1>6, <1>7, <1>8, <1>9, <1>10, HookPreserves

\* Removing the newest entry of a sequence.
LEMMA Popped ==
  ASSUME NEW S, NEW s \in Seq(S), s # <<>>
  PROVE  /\ Pop(s) \in Seq(S) /\ Len(Pop(s)) = Len(s) - 1
         /\ Len(s) \in Nat /\ Len(s) >= 1
         /\ \A k \in 1 .. Len(s) - 1 : Pop(s)[k] = s[k]
         /\ Top(s) = s[Len(s)] /\ s[Len(s)] \in S
<1>1. Len(s) \in Nat /\ Len(s) >= 1
  OBVIOUS
<1>2. s[Len(s)] \in S /\ \A i \in 1 .. Len(s) - 1 : s[i] \in S
  BY <1>1
<1>3. /\ Pop(s) \in Seq(S) /\ Len(Pop(s)) = Len(s) - 1
      /\ \A k \in 1 .. Len(s) - 1 : Pop(s)[k] = s[k]
  <2> DEFINE m == Len(s) - 1
  <2>0. m \in Nat
    BY <1>1
  <2>2. \A i \in 1 .. m : s[i] \in S
    BY <1>2
  <2> HIDE DEF m
  <2>1. m \in Int /\ 1 \in Int /\ m - 1 + 1 = m /\ (IF 1 <= m THEN m - 1 + 1 ELSE 0) = m
    BY <2>0
  <2>3. /\ SubSeq(s, 1, m) \in Seq(S) /\ Len(SubSeq(s, 1, m)) = m
        /\ \A k \in 1 .. m : SubSeq(s, 1, m)[k] = s[1 + k - 1]
    BY <2>1, <2>2, SubSeqProperties
  <2>4. \A k \in 1 .. m : 1 + k - 1 = k
    BY <2>1
  <2> QED BY <2>3, <2>4 DEF Pop, m
<1> QED BY <1>1, <1>2, <1>3 DEF Top

\* A restore that goes through brings back the store of the newest copy.
LEMMA RestoreTopRecords ==
  ASSUME IInv, ~failed, stack # <<>>, RestoreTop
  PROVE  /\ stack' \in Seq(UndoState) /\ Len(stack') = Len(stack) - 1
         /\ snapshots' \in Seq(Store)
         /\ Current' = snapshots[Len(snapshots)] /\ Current' \in Store
         /\ secondary' \subseteq Ids
         /\ RecordsInv'
<1> DEFINE n == Len(stack)
<1>1. /\ stack \in Seq(UndoState) /\ snapshots \in Seq(Store) /\ Current \in Store
      /\ secondary \subseteq Ids /\ Len(snapshots) = n /\ RecordsInv
      /\ n \in Nat /\ n >= 1
  BY DEF IInv, TypeOK, RecordsInv
<1>2. /\ stack' \in Seq(UndoState) /\ Len(stack') = n - 1
      /\ \A k \in 1 .. n - 1 : stack'[k] = stack[k]
      /\ Top(stack) = stack[n] /\ stack[n] \in UndoState
  BY <1>1, Popped DEF RestoreTop
<1>3. /\ snapshots' \in Seq(Store) /\ Len(snapshots') = n - 1
      /\ \A k \in 1 .. n - 1 : snapshots'[k] = snapshots[k]
      /\ snapshots[n] \in Store
  BY <1>1, Popped DEF RestoreTop
<1>4. /\ Describes(stack[n], snapshots[n], Current)
      /\ IdsBelow(snapshots[n])
  BY <1>1 DEF RecordsInv, After
<1>5. /\ Reverted(Current.objects, stack[n]) = snapshots[n].objects
      /\ RevertedNextId(Current.next_id, stack[n]) = snapshots[n].next_id
  BY <1>1, <1>2, <1>3, <1>4, DescribedIsReverted
<1>6. /\ objects' = snapshots[n].objects /\ next_id' = snapshots[n].next_id
  BY <1>2, <1>5 DEF RestoreTop, Current
<1>7. Current' = snapshots[n]
  BY <1>3, <1>6 DEF Current, Store
<1>8. secondary' \subseteq Ids
  BY <1>1 DEF RestoreTop
<1>9. ASSUME NEW k \in 1 .. Len(stack')
      PROVE  /\ IdsBelow(snapshots'[k])
             /\ Describes(stack'[k], snapshots'[k], After(k)')
  <2>1. k \in 1 .. n - 1 /\ k \in 1 .. n /\ k < n
    BY <1>1, <1>2
  <2>2. After(k)' = snapshots[k + 1]
    <3>1. CASE k < n - 1
      <4>1. k + 1 \in 1 .. n - 1
        BY <3>1, <2>1, <1>1
      <4> QED BY <3>1, <4>1, <1>3 DEF After
    <3>2. CASE k = n - 1
      <4>1. k + 1 = n /\ ~(k < n - 1)
        BY <3>2, <2>1, <1>1
      <4> QED BY <3>2, <4>1, <1>3, <1>7 DEF After
    <3> QED BY <3>1, <3>2, <2>1, <1>1
  <2>3. After(k) = snapshots[k + 1]
    BY <2>1, <1>1 DEF After
  <2> QED BY <2>1, <2>2, <2>3, <1>1, <1>2, <1>3 DEF RecordsInv
<1>10. RecordsInv'
  BY <1>2, <1>3, <1>4, <1>7, <1>9 DEF RecordsInv
<1> QED BY <1>1, <1>2, <1>3, <1>7, <1>8, <1>10

\* A restore that throws leaves the types right and gives up the records.
LEMMA RestoreThrowsPreserves ==
  ASSUME IInv, stack # <<>>, RestoreThrows, disabled' \in BOOLEAN
  PROVE  IInv'
<1>1. /\ failed' = TRUE
      /\ UNCHANGED <<next_id, secondary, stack, sessions, max_size, snapshots>>
  BY DEF RestoreThrows
<1>2. objects \in [Ids -> Contents] /\ next_id \in 0 .. MaxId
  BY DEF IInv, TypeOK, Current, Store
<1>3. Top(stack) \in UndoState
  BY Popped DEF IInv, TypeOK
<1>4. objects' \in [Ids -> Contents]
  <2>1. PICK r \in Orders, i \in Ids :
          objects' = [k \in Ids |->
             IF k = i THEN None
             ELSE IF Top(stack).old_values[k] # None /\ r[k] < r[i]
               THEN Top(stack).old_values[k] ELSE objects[k]]
    BY DEF RestoreThrows
  <2> QED BY <2>1, <1>2, <1>3 DEF UndoState, Contents
<1>5. Current' \in Store
  BY <1>1, <1>2, <1>4 DEF Current, Store
<1>6. TypeOK'
  <2>1. disabled' \in BOOLEAN /\ failed' \in BOOLEAN
    BY <1>1 DEF IInv, TypeOK
  <2> QED BY <1>1, <1>5, <2>1 DEF IInv, TypeOK
<1>7. OpenSessionsKept' /\ FlagsConsistent'
  BY <1>1 DEF IInv, OpenSessionsKept, FlagsConsistent
<1> QED BY <1>1, <1>6, <1>7 DEF IInv

\* The end of a session keeps the flags consistent when one record goes with it.
LEMMA EndSessionFlags ==
  ASSUME IInv, ~failed, sessions # <<>>, EndSession, Len(stack') = Len(stack) - 1
  PROVE  /\ sessions' \in Seq(BOOLEAN) /\ disabled' \in BOOLEAN
         /\ OpenSessionsKept' 
         /\ stack' \in Seq(UndoState) => FlagsConsistent'
<1>1. /\ sessions \in Seq(BOOLEAN) /\ Len(sessions) \in Nat /\ Len(stack) \in Nat
      /\ stack \in Seq(UndoState)
  BY DEF IInv, TypeOK
<1>2. /\ sessions' \in Seq(BOOLEAN) /\ Len(sessions') = Len(sessions) - 1
      /\ Len(sessions) >= 1
      /\ \A k \in 1 .. Len(sessions) - 1 : sessions'[k] = sessions[k]
      /\ Top(sessions) = sessions[Len(sessions)]
      /\ sessions[Len(sessions)] \in BOOLEAN
  BY <1>1, Popped DEF EndSession
<1>3. disabled' \in BOOLEAN
  BY DEF EndSession
<1>4. OpenSessionsKept'
  BY <1>1, <1>2 DEF IInv, OpenSessionsKept
<1>5. ASSUME disabled' PROVE Len(sessions) = 1 /\ Len(stack) = 1
  <2>1. ~disabled
    BY DEF IInv, FlagsConsistent
  <2>2. sessions[Len(sessions)]
    BY <1>2, <1>5, <2>1 DEF EndSession
  <2> QED BY <2>2, <1>1, <1>2 DEF IInv, FlagsConsistent
<1>6. ASSUME NEW k \in 1 .. Len(sessions'), sessions'[k]
      PROVE  k = 1 /\ Len(stack') = Len(sessions')
  <2>1. k \in 1 .. Len(sessions) /\ sessions[k]
    BY <1>1, <1>2, <1>6
  <2> QED BY <2>1, <1>1, <1>2 DEF IInv, FlagsConsistent
<1>7. ASSUME stack' \in Seq(UndoState) PROVE FlagsConsistent'
  <2>1. ASSUME disabled' PROVE stack' = <<>> /\ sessions' = <<>>
    <3>0. Len(sessions) = 1 /\ Len(stack) = 1
      BY <1>5, <2>1
    <3>1. Len(stack') = 0 /\ Len(sessions') = 0
      BY <1>2, <3>0
    <3> QED BY <3>1, <1>2, <1>7
  <2> QED BY <2>1, <1>6 DEF FlagsConsistent
<1> QED BY <1>2, <1>3, <1>4, <1>7

LEMMA UndoPreserves == ASSUME IInv, undo PROVE IInv'
<1>1. ~failed /\ sessions # <<>> /\ stack # <<>>
  BY DEF undo
<1>2. CASE RestoreTop /\ EndSession
  <2>1. /\ stack' \in Seq(UndoState) /\ Len(stack') = Len(stack) - 1
        /\ snapshots' \in Seq(Store) /\ Current' \in Store
        /\ secondary' \subseteq Ids /\ RecordsInv'
    BY <1>1, <1>2, RestoreTopRecords
  <2>2. /\ sessions' \in Seq(BOOLEAN) /\ disabled' \in BOOLEAN
        /\ OpenSessionsKept' /\ FlagsConsistent'
    BY <1>1, <1>2, <2>1, EndSessionFlags
  <2>3. max_size' \in MaxSizes /\ failed' \in BOOLEAN
    BY <1>2 DEF RestoreTop, IInv, TypeOK
  <2> QED BY <2>1, <2>2, <2>3 DEF IInv, TypeOK
<1>3. CASE RestoreThrows /\ disabled' = TRUE
  BY <1>1, <1>3, RestoreThrowsPreserves
<1> QED BY <1>2, <1>3 DEF undo

LEMMA PopCommitPreserves == ASSUME IInv, pop_commit PROVE IInv'
<1>1. ~failed /\ sessions = <<>> /\ stack # <<>>
  BY DEF pop_commit
<1>2. CASE RestoreTop /\ disabled' = FALSE /\ UNCHANGED sessions
  <2>1. /\ stack' \in Seq(UndoState) /\ Len(stack') = Len(stack) - 1
        /\ snapshots' \in Seq(Store) /\ Current' \in Store
        /\ secondary' \subseteq Ids /\ RecordsInv'
    BY <1>1, <1>2, RestoreTopRecords
  <2>2. sessions' = <<>> /\ disabled' = FALSE
    BY <1>1, <1>2
  <2>3. sessions' \in Seq(BOOLEAN) /\ OpenSessionsKept' /\ FlagsConsistent'
    BY <2>1, <2>2 DEF OpenSessionsKept, FlagsConsistent
  <2>4. max_size' \in MaxSizes /\ failed' \in BOOLEAN /\ disabled' \in BOOLEAN
    BY <1>2 DEF RestoreTop, IInv, TypeOK
  <2> QED BY <2>1, <2>3, <2>4 DEF IInv, TypeOK
<1>3. CASE RestoreThrows /\ disabled' = FALSE
  BY <1>1, <1>3, RestoreThrowsPreserves
<1> QED BY <1>2, <1>3 DEF pop_commit

\* The records after merge() when there is a prev_state.
LEMMA MergeRecords ==
  ASSUME IInv, ~failed, Len(stack) >= 2, Current' = Current,
         stack' = [Pop(stack) EXCEPT ![Len(stack) - 1] = MergeStates(@, Top(stack))],
         snapshots' = Pop(snapshots)
  PROVE  /\ stack' \in Seq(UndoState) /\ Len(stack') = Len(stack) - 1
         /\ snapshots' \in Seq(Store)
         /\ RecordsInv'
<1> DEFINE n == Len(stack)
           m == MergeStates(stack[n - 1], stack[n])
<1>1. /\ stack \in Seq(UndoState) /\ snapshots \in Seq(Store) /\ Current \in Store
      /\ Len(snapshots) = n /\ RecordsInv /\ n \in Nat /\ n >= 2
      /\ stack # <<>> /\ snapshots # <<>>
  BY DEF IInv, TypeOK, RecordsInv
<1>2. /\ Pop(stack) \in Seq(UndoState) /\ Len(Pop(stack)) = n - 1
      /\ \A k \in 1 .. n - 1 : Pop(stack)[k] = stack[k]
      /\ Top(stack) = stack[n] /\ stack[n] \in UndoState
  BY <1>1, Popped
<1>3. /\ snapshots' \in Seq(Store) /\ Len(snapshots') = n - 1
      /\ \A k \in 1 .. n - 1 : snapshots'[k] = snapshots[k]
      /\ snapshots[n] \in Store
  BY <1>1, Popped
<1>4. n - 1 \in 1 .. n - 1 /\ n - 1 \in 1 .. n /\ n \in 1 .. n /\ n - 1 < n /\ n - 1 + 1 = n
  BY <1>1
<1>5. stack[n - 1] \in UndoState /\ snapshots[n - 1] \in Store
  BY <1>1, <1>4
<1>6. /\ Describes(stack[n], snapshots[n], Current)
      /\ Describes(stack[n - 1], snapshots[n - 1], snapshots[n])
      /\ IdsBelow(snapshots[n]) /\ IdsBelow(snapshots[n - 1])
  BY <1>1, <1>4 DEF RecordsInv, After
<1>7. m \in UndoState /\ Describes(m, snapshots[n - 1], Current)
  BY <1>1, <1>2, <1>3, <1>5, <1>6, MergeDescribes
<1>8. stack' = [Pop(stack) EXCEPT ![n - 1] = m]
  BY <1>2, <1>4
<1> HIDE DEF m
<1>9. /\ stack' \in Seq(UndoState) /\ Len(stack') = n - 1
      /\ stack'[n - 1] = m
      /\ \A k \in 1 .. n - 1 : k # n - 1 => stack'[k] = stack[k]
  BY <1>2, <1>4, <1>7, <1>8
<1>10. ASSUME NEW k \in 1 .. Len(stack')
       PROVE  /\ IdsBelow(snapshots'[k])
              /\ Describes(stack'[k], snapshots'[k], After(k)')
  <2>1. k \in 1 .. n - 1 /\ k \in 1 .. n /\ k < n
    BY <1>1, <1>9
  <2>2. CASE k = n - 1
    <3>1. After(k)' = Current
      BY <2>2, <1>1, <1>3, <1>4 DEF After
    <3> QED BY <3>1, <2>2, <1>3, <1>4, <1>6, <1>7, <1>9
  <2>3. CASE k # n - 1
    <3>1. k < n - 1 /\ k + 1 \in 1 .. n - 1
      BY <2>1, <2>3, <1>1
    <3>2. After(k)' = snapshots[k + 1] /\ After(k) = snapshots[k + 1]
      BY <3>1, <2>1, <1>1, <1>3 DEF After
    <3> QED BY <3>2, <2>1, <2>3, <1>1, <1>3, <1>9 DEF RecordsInv
  <2> QED BY <2>2, <2>3
<1>11. RecordsInv'
  BY <1>1, <1>3, <1>9, <1>10 DEF RecordsInv
<1> QED BY <1>3, <1>9, <1>11

LEMMA MergePreserves == ASSUME IInv, merge PROVE IInv'
<1>1. /\ ~failed /\ sessions # <<>> /\ EndSession
      /\ UNCHANGED <<objects, next_id, secondary, max_size, failed>>
  BY DEF merge
<1>2. Current' = Current /\ Current \in Store /\ IdsBelow(Current)
  BY <1>1 DEF Current, IInv, TypeOK, RecordsInv
<1>3. secondary' \subseteq Ids /\ max_size' \in MaxSizes /\ failed' \in BOOLEAN
  BY <1>1 DEF IInv, TypeOK
<1>4. CASE /\ Len(sessions) = 1 /\ Len(stack) = 1
           /\ stack' = <<>>
           /\ snapshots' = <<>>
  <2>1. Len(stack') = Len(stack) - 1 /\ stack' \in Seq(UndoState) /\ snapshots' \in Seq(Store)
    BY <1>4
  <2>2. RecordsInv'
    BY <1>2, <1>4 DEF RecordsInv
  <2>3. /\ sessions' \in Seq(BOOLEAN) /\ disabled' \in BOOLEAN
        /\ OpenSessionsKept' /\ FlagsConsistent'
    BY <1>1, <2>1, EndSessionFlags
  <2> QED BY <1>2, <1>3, <2>1, <2>2, <2>3 DEF IInv, TypeOK
<1>5. CASE /\ Len(stack) >= 2
           /\ stack' = [Pop(stack) EXCEPT ![Len(stack) - 1] = MergeStates(@, Top(stack))]
           /\ snapshots' = Pop(snapshots)
  <2>1. /\ stack' \in Seq(UndoState) /\ Len(stack') = Len(stack) - 1
        /\ snapshots' \in Seq(Store) /\ RecordsInv'
    BY <1>1, <1>2, <1>5, MergeRecords
  <2>2. /\ sessions' \in Seq(BOOLEAN) /\ disabled' \in BOOLEAN
        /\ OpenSessionsKept' /\ FlagsConsistent'
    BY <1>1, <2>1, EndSessionFlags
  <2> QED BY <1>2, <1>3, <2>1, <2>2 DEF IInv, TypeOK
<1> QED BY <1>4, <1>5 DEF merge

LEMMA CommitPreserves == ASSUME IInv, commit PROVE IInv'
<1>1. /\ ~failed /\ sessions = <<FALSE>> /\ EndSession
      /\ UNCHANGED <<objects, next_id, secondary, stack, max_size, failed, snapshots>>
  BY DEF commit
<1>2. ~disabled /\ Top(sessions) = FALSE
  BY <1>1 DEF IInv, FlagsConsistent, Top
<1>3. sessions' = <<>> /\ disabled' = FALSE
  <2>1. sessions \in Seq(BOOLEAN) /\ sessions # <<>> /\ Len(sessions) = 1
    BY <1>1 DEF IInv, TypeOK
  <2>a. sessions' = Pop(sessions)
    BY <1>1 DEF EndSession
  <2>2. sessions' \in Seq(BOOLEAN) /\ Len(sessions') = Len(sessions) - 1
    BY <2>a, <2>1, Popped
  <2>3. sessions' = <<>>
    BY <2>1, <2>2
  <2>4. disabled' = FALSE
    BY <1>1, <1>2 DEF EndSession
  <2> QED BY <2>3, <2>4
<1>4. sessions' \in Seq(BOOLEAN) /\ OpenSessionsKept' /\ FlagsConsistent'
  BY <1>1, <1>3 DEF IInv, TypeOK, OpenSessionsKept, FlagsConsistent
<1>5. disabled' \in BOOLEAN /\ failed' \in BOOLEAN
  BY <1>1, <1>3 DEF IInv, TypeOK
<1>6. TypeOK'
  BY <1>1, <1>4, <1>5 DEF IInv, TypeOK, Current
<1>7. RecordsInv <=> RecordsInv'
  BY <1>1 DEF RecordsInv, After, Current
<1> QED BY <1>1, <1>4, <1>6, <1>7 DEF IInv

\* Steps that change only flags.
LEMMA FlagStepsPreserve ==
  ASSUME IInv,
         UNCHANGED <<objects, next_id, secondary, stack, sessions, failed, snapshots>>,
         disabled' \in BOOLEAN, max_size' \in MaxSizes,
         disabled' /\ ~failed => stack = <<>> /\ sessions = <<>>
  PROVE  IInv'
<1>1. failed' \in BOOLEAN
  BY DEF IInv, TypeOK
<1>2. TypeOK'
  BY <1>1 DEF IInv, TypeOK, Current
<1>3. OpenSessionsKept' /\ FlagsConsistent'
  BY DEF IInv, OpenSessionsKept, FlagsConsistent
<1>4. RecordsInv <=> RecordsInv'
  BY DEF RecordsInv, After, Current
<1> QED BY <1>2, <1>3, <1>4 DEF IInv

LEMMA NextPreserves == IInv /\ [Next]_vars => IInv'
<1> SUFFICES ASSUME IInv, [Next]_vars PROVE IInv'
  OBVIOUS
<1>1. ASSUME NEW f \in BOOLEAN, start_undo_session(f) PROVE IInv'
  BY <1>1, StartPreserves
<1>2. ASSUME NEW v \in Values, create(v) PROVE IInv'
  BY <1>2, CreatePreserves
<1>3. ASSUME NEW id \in Ids, NEW v \in Values, modify(id, v) PROVE IInv'
  BY <1>3, ModifyPreserves
<1>4. ASSUME NEW id \in Ids, remove(id) PROVE IInv'
  BY <1>4, RemovePreserves
<1>5. CASE undo
  BY <1>5, UndoPreserves
<1>6. CASE merge
  BY <1>6, MergePreserves
<1>7. CASE commit
  BY <1>7, CommitPreserves
<1>8. CASE pop_commit
  BY <1>8, PopCommitPreserves
<1>9. CASE disable
  <2>1. max_size' \in MaxSizes
    BY <1>9 DEF disable, IInv, TypeOK
  <2> QED BY <1>9, <2>1, FlagStepsPreserve DEF disable
<1>10. CASE enable
  <2>1. max_size' \in MaxSizes
    BY <1>10 DEF enable, IInv, TypeOK
  <2> QED BY <1>10, <2>1, FlagStepsPreserve DEF enable
<1>11. ASSUME NEW n \in MaxSizes, set_max_size(n) PROVE IInv'
  <2>1. disabled' \in BOOLEAN /\ (disabled' /\ ~failed => stack = <<>> /\ sessions = <<>>)
    BY <1>11 DEF set_max_size, IInv, TypeOK, FlagsConsistent
  <2> QED BY <1>11, <2>1, FlagStepsPreserve DEF set_max_size
<1>12. CASE UNCHANGED vars
  <2>1. /\ disabled' \in BOOLEAN /\ max_size' \in MaxSizes
        /\ disabled' /\ ~failed => stack = <<>> /\ sessions = <<>>
    BY <1>12 DEF vars, IInv, TypeOK, FlagsConsistent
  <2> QED BY <1>12, <2>1, FlagStepsPreserve DEF vars
<1> QED BY <1>1, <1>2, <1>3, <1>4, <1>5, <1>6, <1>7, <1>8, <1>9, <1>10, <1>11, <1>12
        DEF Next

----------------------------------------------------------------------------

LEMMA Invariance == Spec => []IInv
BY InitInv, NextPreserves, PTL DEF Spec

\* The types of the index and of undo_database hold throughout.
THEOREM TypeCorrect == Spec => []TypeOK
<1>1. IInv => TypeOK
  BY DEF IInv
<1> QED BY <1>1, Invariance, PTL

\* Every undo_state is the exact difference of the stores at its ends, for any
\* number of objects, history length and order of the operations.
THEOREM UndoExact == Spec => []UndoRecordsExact
<1>1. IInv => UndoRecordsExact
  BY DEF IInv, RecordsInv, UndoRecordsExact
<1> QED BY <1>1, Invariance, PTL

\* create() never hands out the instance number of a live object, also after
\* undo() has reset next_id.
THEOREM IdsFresh == Spec => []IdsBelowNext
<1>1. IInv => IdsBelowNext
  <2> SUFFICES ASSUME IInv, ~failed PROVE IdsBelowNext
    BY DEF IdsBelowNext
  <2>1. RecordsInv
    BY DEF IInv
  <2>2. \A j \in Live(objects) : j < next_id
    BY <2>1 DEF RecordsInv, IdsBelow, Live, Current
  <2>3. \A k \in 1 .. Len(snapshots) :
           \A j \in Live(snapshots[k].objects) : j < snapshots[k].next_id
    BY <2>1 DEF RecordsInv, IdsBelow, Live
  <2> QED BY <2>2, <2>3 DEF IdsBelowNext
<1> QED BY <1>1, Invariance, PTL

\* No start_undo_session trims the record of a session that is still open.
THEOREM SessionsKept == Spec => []OpenSessionsKept
<1>1. IInv => OpenSessionsKept
  BY DEF IInv
<1> QED BY <1>1, Invariance, PTL

----------------------------------------------------------------------------
(* Secondary and unique indices.                                           *)

\* Restoring an exact record removes from the secondary index every object
\* that is not in the restored store.
LEMMA RestoreKeepsSecondary ==
  ASSUME IInv, ~failed, stack # <<>>, RestoreTop, SecondaryNeverDangles
  PROVE  SecondaryNeverDangles'
<1> DEFINE n == Len(stack)
<1>1. /\ Current' = snapshots[Len(snapshots)] /\ Len(snapshots) = n /\ n \in Nat /\ n >= 1
      /\ Describes(stack[n], snapshots[n], Current)
  BY RestoreTopRecords DEF IInv, TypeOK, RecordsInv, After
<1>2. objects' = snapshots[n].objects /\ secondary' = secondary \ stack[n].new_ids
  BY <1>1 DEF RestoreTop, Current, Top
<1>3. ASSUME NEW i \in secondary' PROVE i \in Ids /\ objects'[i] # None
  <2>1. i \in Ids /\ objects[i] # None /\ i \notin stack[n].new_ids
    BY <1>2, <1>3 DEF SecondaryNeverDangles, Live
  <2> QED BY <2>1, <1>1, <1>2 DEF Describes, Current
<1> QED BY <1>3 DEF SecondaryNeverDangles, Live

\* No operation is modelled after a restore has thrown.
LEMMA NextNotFailed == Next => ~failed
<1> SUFFICES ASSUME Next, failed PROVE FALSE
  OBVIOUS
<1>1. \A f \in BOOLEAN : ~start_undo_session(f)
  BY DEF start_undo_session
<1>2. \A v \in Values : ~create(v)
  BY DEF create
<1>3. \A id \in Ids : ~remove(id) /\ \A v \in Values : ~modify(id, v)
  BY DEF modify, remove
<1>4. ~undo /\ ~merge /\ ~commit /\ ~pop_commit /\ ~disable /\ ~enable
  BY DEF undo, merge, commit, pop_commit, disable, enable
<1>5. \A n \in MaxSizes : ~set_max_size(n)
  BY DEF set_max_size
<1> QED BY <1>1, <1>2, <1>3, <1>4, <1>5 DEF Next

\* A secondary index never lists an object that is gone: what undo() does not
\* tell it about are only insertions.
THEOREM SecondaryDoesNotDangle == Spec => []SecondaryNeverDangles
<1>1. Init => SecondaryNeverDangles
  BY DEF Init, SecondaryNeverDangles
<1>2. IInv /\ SecondaryNeverDangles /\ [Next]_vars => SecondaryNeverDangles'
  <2> SUFFICES ASSUME IInv, SecondaryNeverDangles, [Next]_vars, ~failed, ~failed'
               PROVE  SecondaryNeverDangles'
    <3>1. Next => ~failed
      BY NextNotFailed
    <3>2. UNCHANGED vars => (SecondaryNeverDangles <=> SecondaryNeverDangles')
      BY DEF vars, SecondaryNeverDangles, Live
    <3> QED BY <3>1, <3>2 DEF SecondaryNeverDangles
  <2>0. objects \in [Ids -> Contents] /\ next_id \in 0 .. MaxId
    BY DEF IInv, TypeOK, Current, Store
  <2>a. ASSUME UNCHANGED <<objects, secondary>> PROVE SecondaryNeverDangles'
    BY <2>a DEF SecondaryNeverDangles, Live
  <2>1. ASSUME NEW f \in BOOLEAN, start_undo_session(f) PROVE SecondaryNeverDangles'
    BY <2>1, <2>a DEF start_undo_session
  <2>2. ASSUME NEW v \in Values, create(v) PROVE SecondaryNeverDangles'
    BY <2>0, <2>2, NoneAssumption, MaxIdAssumption DEF create, SecondaryNeverDangles, Live, Ids
  <2>3. ASSUME NEW id \in Ids, NEW v \in Values, modify(id, v) PROVE SecondaryNeverDangles'
    BY <2>0, <2>3, NoneAssumption DEF modify, SecondaryNeverDangles, Live
  <2>4. ASSUME NEW id \in Ids, remove(id) PROVE SecondaryNeverDangles'
    BY <2>0, <2>4 DEF remove, SecondaryNeverDangles, Live
  <2>5. CASE undo
    BY <2>5, RestoreKeepsSecondary DEF undo, RestoreThrows
  <2>6. CASE merge
    BY <2>6, <2>a DEF merge
  <2>7. CASE commit
    BY <2>7, <2>a DEF commit
  <2>8. CASE pop_commit
    BY <2>8, RestoreKeepsSecondary DEF pop_commit, RestoreThrows
  <2>9. CASE disable \/ enable \/ UNCHANGED vars
    BY <2>9, <2>a DEF disable, enable, vars
  <2>10. ASSUME NEW n \in MaxSizes, set_max_size(n) PROVE SecondaryNeverDangles'
    BY <2>10, <2>a DEF set_max_size
  <2> QED BY <2>1, <2>2, <2>3, <2>4, <2>5, <2>6, <2>7, <2>8, <2>9, <2>10 DEF Next
<1> QED BY <1>1, <1>2, Invariance, PTL DEF Spec

----------------------------------------------------------------------------
(* Refinement of SnapshotStore.                                            *)

\* Exact records never make a restore throw when no other index can refuse.
LEMMA NeverStuck ==
  ASSUME IInv, ~failed, ~UniqueKey, stack # <<>>
  PROVE  ~RestoreThrows
<1>1. Describes(stack[Len(stack)], snapshots[Len(snapshots)], Current)
  BY DEF IInv, TypeOK, RecordsInv, After
<1>2. \A r \in Orders, i \in Ids : ~StuckAt(Top(stack), r, i)
  BY <1>1 DEF StuckAt, Describes, Top, Current
<1> QED BY <1>2 DEF RestoreThrows

LEMMA InitRefines == Init => Snapshots!Init
BY DEF Init, Snapshots!Init, NoEntries

\* start_undo_session maps to Start: the trimmed stack is a suffix.
LEMMA StartRefines ==
  ASSUME IInv, NEW f \in BOOLEAN, start_undo_session(f)
  PROVE  Snapshots!Start
<1> DEFINE d == IF Len(snapshots) > max_size THEN Len(snapshots) - max_size ELSE 0
<1>1. /\ snapshots \in Seq(Store) /\ sessions \in Seq(BOOLEAN) /\ disabled \in BOOLEAN
      /\ max_size \in Nat
  BY MaxSizesAssumption DEF IInv, TypeOK
<1>2. Len(snapshots) \in Nat
  BY <1>1
<1>3. d + 1 \in 1 .. Len(snapshots) + 1
  BY <1>1, <1>2
<1>4. snapshots' = Append(SubSeq(snapshots, d + 1, Len(snapshots)), Snapshots!Current)
  BY DEF start_undo_session, Trim, Current, Snapshots!Current
<1> HIDE DEF d
<1>5. \E k \in 1 .. Len(snapshots) + 1 :
         snapshots' = Append(SubSeq(snapshots, k, Len(snapshots)), Snapshots!Current)
  BY <1>3, <1>4
<1>6. Len(sessions') = Len(sessions) + 1 /\ UNCHANGED <<objects, next_id>>
  BY <1>1 DEF start_undo_session
<1> QED BY <1>5, <1>6 DEF Snapshots!Start

\* The hooks map to Change: the store changes and at most an implicit copy is made.
LEMMA ChangeRefines ==
  ASSUME IInv, ~failed, Current' \in Store, UNCHANGED sessions,
         \/ UNCHANGED snapshots
         \/ snapshots' = IF stack = <<>> THEN <<Current>> ELSE snapshots
  PROVE  Snapshots!Change
<1>1. objects' \in [Ids -> Values \cup {None}] /\ next_id' \in Nat
  <2>1. Current' = [objects |-> objects', next_id |-> next_id']
    BY DEF Current
  <2>2. objects' \in [Ids -> Contents] /\ next_id' \in 0 .. MaxId
    BY <2>1 DEF Store
  <2> QED BY <2>2, MaxIdAssumption DEF Contents
<1>2. stack = <<>> => snapshots = <<>>
  BY DEF IInv, RecordsInv, TypeOK
<1> QED BY <1>1, <1>2 DEF Snapshots!Change, Snapshots!Current, Current

\* undo() and pop_commit() map to Restore.
LEMMA RestoreRefines ==
  ASSUME IInv, ~failed, stack # <<>>, RestoreTop
  PROVE  Snapshots!Restore
<1>1. Current' = snapshots[Len(snapshots)] /\ snapshots # <<>>
  BY RestoreTopRecords DEF IInv, RecordsInv, TypeOK
<1>2. snapshots' = Pop(snapshots)
  BY DEF RestoreTop
<1> QED BY <1>1, <1>2 DEF Snapshots!Restore, Snapshots!Newest, Snapshots!DropNewest,
                          Pop, Current

\* A restore that throws maps to Fail.
LEMMA ThrowRefines ==
  ASSUME IInv, ~failed, stack # <<>>, RestoreThrows, Current' \in Store
  PROVE  Snapshots!Fail
<1>1. objects' \in [Ids -> Values \cup {None}]
  BY DEF Current, Store, Contents
<1>2. snapshots # <<>>
  BY DEF IInv, RecordsInv, TypeOK
<1> QED BY <1>1, <1>2 DEF RestoreThrows, Snapshots!Fail

\* The number of open sessions goes down by one.
LEMMA EndSessionRefines ==
  ASSUME IInv, sessions # <<>>, EndSession
  PROVE  Len(sessions) > 0 /\ Len(sessions') = Len(sessions) - 1
BY Popped DEF IInv, TypeOK, EndSession

LEMMA StepRefines ==
  ASSUME IInv, ~failed, [Next]_vars
  PROVE  \/ ~failed' /\ Snapshots!Proceed
         \/ Snapshots!Fail
         \/ UNCHANGED Snapshots!vars
<1> USE DEF Snapshots!Proceed
<1>0. IInv' /\ Current' \in Store
  BY NextPreserves DEF IInv, TypeOK
<1>1. ASSUME NEW f \in BOOLEAN, start_undo_session(f) PROVE ~failed' /\ Snapshots!Proceed
  BY <1>1, StartRefines DEF start_undo_session
<1>2. ASSUME NEW v \in Values, create(v) PROVE ~failed' /\ Snapshots!Proceed
  BY <1>0, <1>2, ChangeRefines DEF create, Record
<1>3. ASSUME NEW id \in Ids, NEW v \in Values, modify(id, v) PROVE ~failed' /\ Snapshots!Proceed
  BY <1>0, <1>3, ChangeRefines DEF modify, Record
<1>4. ASSUME NEW id \in Ids, remove(id) PROVE ~failed' /\ Snapshots!Proceed
  BY <1>0, <1>4, ChangeRefines DEF remove, Record
<1>5. CASE undo
  <2>1. stack # <<>> /\ sessions # <<>>
    BY <1>5 DEF undo
  <2>2. CASE RestoreTop /\ EndSession
    <3>1. Snapshots!Undo
      BY <2>1, <2>2, RestoreRefines, EndSessionRefines DEF Snapshots!Undo
    <3> QED BY <2>2, <3>1 DEF RestoreTop
  <2>3. CASE RestoreThrows
    BY <1>0, <2>1, <2>3, ThrowRefines
  <2> QED BY <1>5, <2>2, <2>3 DEF undo
<1>6. CASE merge
  <2>1. sessions # <<>> /\ EndSession /\ UNCHANGED <<objects, next_id, failed>>
    BY <1>6 DEF merge
  <2>2. snapshots \in Seq(Store) /\ Len(snapshots) = Len(stack)
    BY DEF IInv, TypeOK, RecordsInv
  <2>3. snapshots # <<>> /\ snapshots' = Snapshots!DropNewest
    <3>1. CASE Len(stack) = 1 /\ snapshots' = <<>>
      <4>a. Len(snapshots) = 1
        BY <3>1, <2>2
      <4>1. snapshots # <<>>
        BY <4>a
      <4>2. Pop(snapshots) \in Seq(Store) /\ Len(Pop(snapshots)) = 0
        BY <3>1, <2>2, <4>1, Popped
      <4>3. Pop(snapshots) = <<>>
        BY <4>2
      <4> QED BY <3>1, <4>1, <4>3 DEF Snapshots!DropNewest, Pop
    <3>2. CASE Len(stack) >= 2 /\ snapshots' = Pop(snapshots)
      BY <3>2, <2>2 DEF Snapshots!DropNewest, Pop
    <3> QED BY <1>6, <3>1, <3>2 DEF merge
  <2>4. Snapshots!Merge
    BY <2>1, <2>3, EndSessionRefines DEF Snapshots!Merge
  <2> QED BY <2>1, <2>4
<1>7. CASE commit
  <2>1. sessions # <<>> /\ EndSession /\ UNCHANGED <<objects, next_id, snapshots, failed>>
    BY <1>7 DEF commit
  <2>2. Snapshots!Commit
    BY <2>1, EndSessionRefines DEF Snapshots!Commit
  <2> QED BY <2>1, <2>2
<1>8. CASE pop_commit
  <2>1. stack # <<>> /\ sessions = <<>>
    BY <1>8 DEF pop_commit
  <2>2. CASE RestoreTop /\ UNCHANGED sessions
    <3>1. Snapshots!PopCommit
      BY <2>1, <2>2, RestoreRefines DEF Snapshots!PopCommit
    <3> QED BY <2>2, <3>1 DEF RestoreTop
  <2>3. CASE RestoreThrows
    BY <1>0, <2>1, <2>3, ThrowRefines
  <2> QED BY <1>8, <2>2, <2>3 DEF pop_commit
<1>9. CASE disable \/ enable \/ UNCHANGED vars
  BY <1>9 DEF disable, enable, vars, Snapshots!vars
<1>10. ASSUME NEW n \in MaxSizes, set_max_size(n) PROVE UNCHANGED Snapshots!vars
  BY <1>10 DEF set_max_size, Snapshots!vars
<1> HIDE DEF Snapshots!Proceed
<1> QED BY <1>1, <1>2, <1>3, <1>4, <1>5, <1>6, <1>7, <1>8, <1>9, <1>10 DEF Next

\* undo_database is a stack of complete copies: every undo, pop and merge has
\* the effect it has on whole snapshots, until a restore throws.
THEOREM Refinement == Spec => ImplementsSnapshots
<1>1. Init => Snapshots!Init
  BY InitRefines DEF Init
<1>2. IInv /\ [Next]_vars => [Snapshots!Next]_(Snapshots!vars)
  <2> SUFFICES ASSUME IInv, [Next]_vars PROVE [Snapshots!Next]_(Snapshots!vars)
    OBVIOUS
  <2>1. CASE failed
    BY <2>1, NextNotFailed DEF vars, Snapshots!vars
  <2>2. CASE ~failed
    <3>1. failed \in BOOLEAN /\ failed' \in BOOLEAN
      BY NextPreserves DEF IInv, TypeOK
    <3> QED BY <2>2, <3>1, StepRefines DEF Snapshots!Next
  <2> QED BY <2>1, <2>2
<1> QED BY <1>1, <1>2, Invariance, PTL DEF Spec, ImplementsSnapshots, Snapshots!Spec

\* In an index without a unique order besides by_id no sequence of hooks,
\* sessions and merges leads to a restore that throws in undo or pop_commit.
THEOREM RestoreSucceeds == ASSUME ~UniqueKey PROVE Spec => [](~failed)
<1>1. Init => ~failed
  BY DEF Init
<1>2. IInv /\ ~failed /\ [Next]_vars => ~failed'
  <2> SUFFICES ASSUME IInv, ~failed, [Next]_vars PROVE ~failed'
    OBVIOUS
  <2>1. CASE undo \/ pop_commit
    BY <2>1, NeverStuck DEF undo, pop_commit, RestoreTop
  <2>2. CASE \/ \E f \in BOOLEAN : start_undo_session(f)
             \/ \E v \in Values : create(v)
             \/ \E id \in Ids, v \in Values : modify(id, v)
             \/ \E id \in Ids : remove(id)
    BY <2>2 DEF start_undo_session, create, modify, remove
  <2>3. CASE merge \/ commit \/ disable \/ enable \/ \E n \in MaxSizes : set_max_size(n)
    BY <2>3 DEF merge, commit, disable, enable, set_max_size
  <2> QED BY <2>1, <2>2, <2>3 DEF Next, vars
<1> QED BY <1>1, <1>2, Invariance, PTL DEF Spec
=============================================================================
