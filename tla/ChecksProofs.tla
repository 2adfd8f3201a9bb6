---------------------------- MODULE ChecksProofs ----------------------------
(***************************************************************************)
(* Every property of Checks, for all tables, pipes, sessions and limits.   *)
(* A behaviour evaluates one check, so there is one inductive invariant    *)
(* per check, and every theorem follows from the one of its check.  All of *)
(* them rest on the lemmas of Sessions: what a query sees agrees with the  *)
(* tables wherever nothing was touched.                                    *)
(***************************************************************************)
EXTENDS Checks, WellFoundedInduction, TLAPS

-----------------------------------------------------------------------------
(* freshness.  A stamp is never newer than the clock, nor at the target     *)
(* than the last delivery (StampsOK); so the newest one the check finds     *)
(* bounds the pipe's from below, and the lag from above.                    *)

LEMMA LeastNat ==
    ASSUME NEW T \in SUBSET Nat, T # {}
    PROVE  \E m \in T : \A n \in T : m <= n
<1> DEFINE R == OpToRel(<, Nat)
<1>1. IsWellFoundedOn(R, Nat)
  BY NatLessThanWellFounded
<1>2. \A x, y \in Nat : x < y => <<x, y>> \in R
  BY DEF OpToRel
<1> HIDE DEF R
<1>3. PICK m \in T : \A n \in T : ~ (<<n, m>> \in R)
  BY <1>1, WFMin
<1>4. ASSUME NEW n \in T  PROVE m <= n
  <2>1. m \in Nat /\ n \in Nat /\ ~(n < m)
    BY <1>2, <1>3
  <2> QED  BY <2>1
<1> QED  BY <1>4

\* The greatest of some numbers is what CHOOSE finds.
LEMMA Newest ==
    ASSUME NEW N \in Nat, NEW S \in SUBSET (0 .. N), S # {}
    PROVE  LET m == CHOOSE t \in S : \A u \in S : u <= t
           IN  m \in S /\ \A u \in S : u <= m
<1>1. \E t \in S : \A u \in S : u <= t
  <2> DEFINE T == {N - t : t \in S}
  <2>0. \A t \in S : t \in 0 .. N /\ N - t \in Nat
    OBVIOUS
  <2>1. T \in SUBSET Nat /\ T # {}
    BY <2>0
  <2>2. PICK m \in T : \A n \in T : m <= n
    <3> HIDE DEF T
    <3> QED  BY <2>1, LeastNat
  <2>3. PICK t \in S : m = N - t
    OBVIOUS
  <2>4. \A u \in S : N - t <= N - u
    BY <2>2, <2>3
  <2> QED  BY <2>4
<1> QED  BY <1>1

LEMMA FreshWorld ==
    /\ Pinned \subseteq Fresh!Sides /\ NONE \notin Fresh!Table
    /\ Fresh!IsFiniteSet(Rows["freshness"])
    /\ Absent \notin 0 .. MaxTime /\ MaxWrites["freshness"] \in Nat
  BY FreshAssumption DEF Fresh!ReplicationAssumption, Fresh!SessionsAssumption

LEMMA FreshLimits ==
    /\ MaxTime \in Nat /\ MaxLag \in Nat /\ WarnLag \in Nat
    /\ NONE \notin 0 .. MaxTime
  BY FreshAssumption DEF Fresh!FreshnessAssumption

\* No row is from the future, and at the target none is newer than the last
\* delivery, in any snapshot either.
StampsOK ==
    /\ \A k \in Fresh!RowsOf(src) : src[k] \in 0 .. now
    /\ \A i \in 1 .. Len(pipe) : pipe[i].val \in 0 .. now \cup {Absent}
    /\ \A k \in Fresh!RowsOf(tgt) : tgt[k] \in 0 .. applied
    /\ view["target"] # NONE =>
          \A k \in Fresh!RowsOf(view["target"]) : view["target"][k] \in 0 .. applied

\* What was read at the source is as new as any row nobody touched.
NewestKnown ==
    pc = "target" =>
        \A k \in Fresh!RowsOf(src) \ touched :
            source_max # NONE /\ src[k] <= source_max

\* While nothing was lost, the target lacks only what is on its way.
InStep ==
    whole => \A k \in Rows["freshness"] :
        /\ (\A i \in 1 .. Len(pipe) : pipe[i].key # k) => tgt[k] = src[k]
        /\ \A i \in 1 .. Len(pipe) :
              pipe[i].key = k /\ (\A j \in i + 1 .. Len(pipe) : pipe[j].key # k)
                  => pipe[i].val = src[k]

FreshInv ==
    /\ Fresh!TypeOK /\ Fresh!SnapshotOK /\ StampsOK /\ NewestKnown /\ InStep
    /\ Fresh!DeadConnectorIsNoticed
    /\ "target" \notin Pinned => Fresh!AlarmHasACause

\* Whatever is unchanged while one step of the check is made.
FreshQuiet == UNCHANGED <<Fresh!replVars, touched, native, now, Fresh!history>>

\* The newest time stamp a query finds, NONE in an empty table.
LEMMA MaxStamp ==
    ASSUME Fresh!TypeOK, NEW s \in Fresh!Sides
    PROVE  LET tab == Fresh!Seen(s)
               m == Fresh!max_timestamp(s)
           IN  \/ m = NONE /\ Fresh!RowsOf(tab) = {}
               \/ /\ m \in 0 .. MaxTime
                  /\ \E k \in Fresh!RowsOf(tab) : tab[k] = m
                  /\ \A k \in Fresh!RowsOf(tab) : tab[k] <= m
<1> DEFINE tab == Fresh!Seen(s)
           S == {tab[k] : k \in Fresh!RowsOf(tab)}
           m == Fresh!max_timestamp(s)
<1>1. tab \in Fresh!Table
  BY FreshWorld, Fresh!SeenType DEF Fresh!TypeOK
<1>2. m = IF S = {} THEN NONE ELSE CHOOSE t \in S : \A u \in S : u <= t
  BY DEF Fresh!max_timestamp, Fresh!Stamps
<1> HIDE DEF tab, m
<1>3. S \in SUBSET (0 .. MaxTime)
  BY <1>1 DEF Fresh!Table, Fresh!RowsOf
<1>4. CASE S = {}
  BY <1>2, <1>4 DEF tab, m
<1>5. CASE S # {}
  <2>1. m \in S /\ \A u \in S : u <= m
    <3>1. m = CHOOSE t \in S : \A u \in S : u <= t
      BY <1>2, <1>5
    <3> HIDE DEF S
    <3> QED  BY <1>3, <1>5, <3>1, FreshLimits, Newest
  <2> QED  BY <1>3, <2>1 DEF tab, m
<1> QED  BY <1>4, <1>5

\* What a query reads leaves everything true that is known of the tables.
LEMMA FreshReads ==
    ASSUME FreshInv, NEW s \in Fresh!Sides, Fresh!Reads(s), FreshQuiet
    PROVE  /\ Fresh!SessionsTypeOK' /\ Fresh!SnapshotOK' /\ StampsOK' /\ InStep'
           /\ UNCHANGED <<src, tgt, pipe, writes, touched, native, now, whole, applied>>
<1>1. UNCHANGED <<src, tgt, pipe, writes, touched, native, now, whole, applied>>
  BY DEF FreshQuiet, Fresh!replVars, Fresh!history
<1>2. Fresh!SessionsTypeOK /\ Fresh!SnapshotOK
  BY DEF FreshInv, Fresh!TypeOK
<1>3. UNCHANGED <<Fresh!replVars, touched>>
  BY DEF FreshQuiet
<1>4. Fresh!SessionsTypeOK' /\ Fresh!SnapshotOK'
  BY <1>2, <1>3, FreshWorld, Fresh!ReadsType, Fresh!ReadsSnapshot
<1>5. StampsOK'
  <2>1. \/ view'["target"] = view["target"]
        \/ view'["target"] = Fresh!Seen("target")
    BY <1>2 DEF Fresh!Reads, Fresh!SessionsTypeOK, Fresh!Sides
  <2>2. \/ Fresh!Seen("target") = view["target"] /\ view["target"] # NONE
        \/ Fresh!Seen("target") = tgt
    BY DEF Fresh!Seen, Fresh!Current
  <2> QED  BY <1>1, <2>1, <2>2 DEF FreshInv, StampsOK, Fresh!RowsOf
<1>6. InStep'
  BY <1>1 DEF FreshInv, InStep
<1> QED  BY <1>1, <1>4, <1>5, <1>6

\* The column and the kinds of its values are those of the schemas.
LEMMA ColumnStays ==
    ASSUME native' = native
    PROVE  /\ Fresh!column' = Fresh!column
           /\ Fresh!Comparable' = Fresh!Comparable
<1>1. Fresh!column' = Fresh!column
  BY DEF Fresh!column, Fresh!resolve_column, Fresh!IsStamp
<1>2. \A s \in Fresh!Sides : Fresh!Kind(s)' = Fresh!Kind(s)
  BY <1>1 DEF Fresh!Kind
<1> QED  BY <1>1, <1>2 DEF Fresh!Comparable, Fresh!Sides

LEMMA FreshSkips ==
    ASSUME FreshInv, Fresh!Skip, FreshQuiet
    PROVE  FreshInv'
<1>1. /\ UNCHANGED <<src, tgt, pipe, writes, touched, native, now, whole, applied, view,
                     source_max>>
      /\ pc' = "done" /\ status' = "ok" /\ Fresh!column = NONE
  BY DEF Fresh!Skip, FreshQuiet, Fresh!replVars, Fresh!history
<1>2. Fresh!column' = NONE
  BY <1>1, ColumnStays
<1>3. Fresh!TypeOK'
  BY <1>1 DEF FreshInv, Fresh!TypeOK, Fresh!SessionsTypeOK, Fresh!ReplTypeOK
<1>4. Fresh!SnapshotOK' /\ StampsOK' /\ InStep'
  BY <1>1
     DEF FreshInv, Fresh!SnapshotOK, Fresh!Current, StampsOK, InStep, Fresh!RowsOf
<1> QED  BY <1>1, <1>2, <1>3, <1>4
         DEF FreshInv, NewestKnown, Fresh!DeadConnectorIsNoticed,
             Fresh!AlarmHasACause

LEMMA FreshEarlier ==
    ASSUME FreshInv, NEW s \in Fresh!Sides, Fresh!EarlierCheck(s), FreshQuiet
    PROVE  FreshInv'
<1>1. pc = "source" /\ UNCHANGED <<pc, source_max, status>>
  BY DEF Fresh!EarlierCheck
<1>2. /\ Fresh!SessionsTypeOK' /\ Fresh!SnapshotOK' /\ StampsOK' /\ InStep'
      /\ UNCHANGED <<src, tgt, pipe, writes, touched, native, now, whole, applied>>
  BY FreshReads DEF Fresh!EarlierCheck
<1>3. Fresh!TypeOK' /\ status = "none"
  BY <1>1, <1>2 DEF FreshInv, Fresh!TypeOK
<1> QED  BY <1>1, <1>2, <1>3
         DEF FreshInv, NewestKnown, Fresh!DeadConnectorIsNoticed,
             Fresh!AlarmHasACause

LEMMA FreshReadsSource ==
    ASSUME FreshInv, Fresh!ReadSource, FreshQuiet
    PROVE  FreshInv'
<1>1. /\ pc' = "target" /\ status' = status
      /\ source_max' = Fresh!max_timestamp("source")
      /\ "source" \in Fresh!Sides
  BY DEF Fresh!ReadSource, Fresh!Sides
<1>2. /\ Fresh!SessionsTypeOK' /\ Fresh!SnapshotOK' /\ StampsOK' /\ InStep'
      /\ UNCHANGED <<src, tgt, pipe, writes, touched, native, now, whole, applied>>
  BY <1>1, FreshReads DEF Fresh!ReadSource
<1>3. status = "none"
  <2>1. pc = "source"
    BY DEF Fresh!ReadSource
  <2> QED  BY <2>1 DEF FreshInv, Fresh!TypeOK
<1>4. Fresh!TypeOK'
  <2>1. source_max' \in 0 .. MaxTime \cup {NONE}
    BY <1>1, MaxStamp DEF FreshInv
  <2> QED  BY <1>1, <1>2, <1>3, <2>1 DEF FreshInv, Fresh!TypeOK
<1>5. NewestKnown'
  <2> SUFFICES ASSUME NEW k \in Fresh!RowsOf(src) \ touched
               PROVE  source_max' # NONE /\ src[k] <= source_max'
    BY <1>2 DEF NewestKnown, Fresh!RowsOf
  <2>1. k \in Rows["freshness"] \ touched /\ src[k] # Absent
    BY DEF Fresh!RowsOf
  <2>2. Fresh!Seen("source")[k] = src[k]
    BY <1>1, <2>1, FreshWorld, Fresh!SeenQuiet DEF FreshInv, Fresh!Current
  <2>3. k \in Fresh!RowsOf(Fresh!Seen("source"))
    BY <2>1, <2>2 DEF Fresh!RowsOf
  <2> QED  BY <1>1, <2>2, <2>3, MaxStamp, FreshLimits DEF FreshInv
<1> QED  BY <1>1, <1>2, <1>3, <1>4, <1>5
         DEF FreshInv, Fresh!DeadConnectorIsNoticed, Fresh!AlarmHasACause

LEMMA FreshJudges ==
    ASSUME FreshInv, Fresh!ReadTarget, FreshQuiet
    PROVE  FreshInv'
<1> DEFINE tm == Fresh!max_timestamp("target")
           seen == Fresh!Seen("target")
<1>1. /\ pc = "target" /\ pc' = "done" /\ source_max' = source_max
      /\ status' = Fresh!Verdict(source_max, tm)
      /\ "target" \in Fresh!Sides
  BY DEF Fresh!ReadTarget, Fresh!Sides
<1>2. /\ Fresh!SessionsTypeOK' /\ Fresh!SnapshotOK' /\ StampsOK' /\ InStep'
      /\ UNCHANGED <<src, tgt, pipe, writes, touched, native, now, whole, applied>>
  BY <1>1, FreshReads DEF Fresh!ReadTarget
<1>3. \/ tm = NONE /\ Fresh!RowsOf(seen) = {}
      \/ /\ tm \in 0 .. MaxTime
         /\ \E k \in Fresh!RowsOf(seen) : seen[k] = tm
         /\ \A k \in Fresh!RowsOf(seen) : seen[k] <= tm
  BY <1>1, MaxStamp DEF FreshInv
<1>4. source_max \in 0 .. MaxTime \cup {NONE} /\ applied \in 0 .. now /\ now \in 0 .. MaxTime
  BY DEF FreshInv, Fresh!TypeOK
<1>5. /\ status' \in {"ok", "warn", "fail", "error"}
      /\ source_max # NONE /\ tm = NONE => status' = "fail"
      /\ source_max # NONE /\ tm # NONE /\ Fresh!Comparable /\ source_max - tm > MaxLag
            => status' = "fail"
      /\ status' \in {"warn", "fail"} =>
            \/ source_max # NONE /\ tm = NONE
            \/ /\ source_max # NONE /\ tm # NONE
               /\ source_max - tm > MaxLag \/ source_max - tm > WarnLag
  BY <1>1 DEF Fresh!Verdict, Fresh!Lag
<1> HIDE DEF tm, seen
<1>6. Fresh!TypeOK'
  BY <1>1, <1>2, <1>5 DEF FreshInv, Fresh!TypeOK
<1>7. Fresh!DeadConnectorIsNoticed'
  <2> SUFFICES ASSUME Fresh!Comparable, NEW k \in Fresh!RowsOf(src) \ touched,
                      src[k] > applied + MaxLag
               PROVE  status' = "fail"
    BY <1>1, <1>2, ColumnStays DEF Fresh!DeadConnectorIsNoticed, Fresh!RowsOf
  <2>1. source_max # NONE /\ src[k] <= source_max /\ src[k] \in 0 .. now
    BY <1>1 DEF FreshInv, NewestKnown, StampsOK
  <2>2. \A j \in Fresh!RowsOf(seen) : seen[j] \in 0 .. applied
    BY DEF FreshInv, StampsOK, Fresh!Seen, Fresh!Current, seen
  <2>3. CASE tm = NONE
    BY <1>5, <2>1, <2>3
  <2>4. CASE tm # NONE
    <3>1. tm \in 0 .. applied
      BY <1>3, <2>2, <2>4
    <3>2. source_max \in 0 .. MaxTime /\ source_max - tm > MaxLag
      BY <1>4, <2>1, <3>1, FreshLimits
    <3> QED  BY <1>5, <2>1, <2>4, <3>2
  <2> QED  BY <2>3, <2>4
<1>8. ASSUME "target" \notin Pinned  PROVE Fresh!AlarmHasACause'
  <2> SUFFICES ASSUME status' \in {"warn", "fail"}, whole, pipe = <<>>,
                      NEW k \in Fresh!RowsOf(src)
               PROVE  src[k] < source_max
    BY <1>1, <1>2 DEF Fresh!AlarmHasACause, Fresh!RowsOf
  <2>1. seen = tgt
    BY <1>1, <1>8 DEF FreshInv, Fresh!SnapshotOK, Fresh!Seen, Fresh!Current, seen
  <2>2. k \in Rows["freshness"] /\ src[k] # Absent
    BY DEF Fresh!RowsOf
  <2>3. tgt[k] = src[k]
    BY <2>2 DEF FreshInv, InStep
  <2>4. k \in Fresh!RowsOf(seen)
    BY <2>1, <2>2, <2>3 DEF Fresh!RowsOf
  <2>5. tm \in 0 .. MaxTime /\ src[k] <= tm /\ src[k] \in 0 .. now
    BY <1>3, <2>1, <2>3, <2>4 DEF FreshInv, StampsOK
  <2>6. source_max \in 0 .. MaxTime /\ (source_max - tm > MaxLag \/ source_max - tm > WarnLag)
    BY <1>4, <1>5, <2>5, FreshLimits
  <2> QED  BY <1>4, <2>5, <2>6, FreshLimits
<1> QED  BY <1>1, <1>2, <1>6, <1>7, <1>8 DEF FreshInv, NewestKnown

-----------------------------------------------------------------------------
\* The clock, the applications and the pipe.

LEMMA FreshTicks ==
    ASSUME FreshInv, Fresh!Tick, pc # "done", UNCHANGED <<native, Fresh!checkVars>>
    PROVE  FreshInv'
<1>1. /\ now' = now + 1 /\ now < MaxTime
      /\ UNCHANGED <<src, tgt, pipe, writes, touched, native, whole, applied, view, pc,
                     source_max, status>>
  BY DEF Fresh!Tick, Fresh!replVars, Fresh!checkVars
<1>2. now \in 0 .. MaxTime /\ applied \in 0 .. now /\ MaxTime \in Nat
  BY FreshLimits DEF FreshInv, Fresh!TypeOK
<1>3. /\ now' \in 0 .. MaxTime /\ applied' \in 0 .. now'
      /\ 0 .. now \subseteq 0 .. now'
  BY <1>1, <1>2
<1>4. Fresh!TypeOK'
  BY <1>1, <1>3 DEF FreshInv, Fresh!TypeOK, Fresh!SessionsTypeOK, Fresh!ReplTypeOK
<1>5. StampsOK'
  BY <1>1, <1>3 DEF FreshInv, StampsOK, Fresh!RowsOf
<1>6. Fresh!SnapshotOK' /\ InStep' /\ NewestKnown'
  BY <1>1
     DEF FreshInv, Fresh!SnapshotOK, Fresh!Current, InStep, NewestKnown,
         Fresh!RowsOf
<1> QED  BY <1>1, <1>4, <1>5, <1>6
         DEF FreshInv, Fresh!DeadConnectorIsNoticed, Fresh!AlarmHasACause,
             Fresh!TypeOK

\* Nothing that happens to the tables before the verdict upsets what is known of
\* the rows nobody touches.
LEMMA FreshTouches ==
    ASSUME FreshInv, Fresh!Replicate, Fresh!Noted, pc # "done",
           UNCHANGED <<native, now, Fresh!checkVars>>
    PROVE  /\ Fresh!SessionsTypeOK' /\ Fresh!SnapshotOK' /\ NewestKnown'
           /\ Fresh!DeadConnectorIsNoticed' /\ Fresh!AlarmHasACause'
<1>1. UNCHANGED <<view, pc, source_max, status>> /\ status = "none"
  BY DEF Fresh!checkVars, FreshInv, Fresh!TypeOK
<1>2. Fresh!SessionsTypeOK'
  BY <1>1, FreshWorld, Fresh!ReplicateType, Fresh!WorldType
     DEF FreshInv, Fresh!TypeOK, Fresh!SessionsTypeOK
<1>3. Fresh!SnapshotOK'
  BY <1>1, FreshWorld, Fresh!WorldSnapshot DEF FreshInv
<1>4. NewestKnown'
  <2>1. \A k \in Rows["freshness"] \ touched' : k \notin touched /\ src'[k] = src[k]
    BY FreshWorld, Fresh!NotedQuiet
  <2> QED  BY <1>1, <2>1 DEF NewestKnown, FreshInv, Fresh!RowsOf
<1> QED  BY <1>1, <1>2, <1>3, <1>4
         DEF Fresh!DeadConnectorIsNoticed, Fresh!AlarmHasACause

LEMMA FreshStamps ==
    ASSUME FreshInv, NEW k \in Rows["freshness"], NEW v \in 0 .. MaxTime \cup {Absent},
           Fresh!Stamp(k, v), pc # "done", UNCHANGED <<native, Fresh!checkVars>>
    PROVE  FreshInv'
<1> DEFINE change == [key |-> k, val |-> v]
<1>1. /\ v \in 0 .. now \cup {Absent}
      /\ src' = [src EXCEPT ![k] = v] /\ pipe' = Append(pipe, change)
      /\ UNCHANGED <<tgt, native, now, whole, applied, view, pc, source_max, status>>
      /\ Fresh!Replicate /\ Fresh!Noted
  BY DEF Fresh!Stamp, Fresh!Write, Fresh!checkVars, Fresh!Replicate
<1>2. /\ Fresh!SessionsTypeOK' /\ Fresh!SnapshotOK' /\ NewestKnown'
      /\ Fresh!DeadConnectorIsNoticed' /\ Fresh!AlarmHasACause'
  BY <1>1, FreshTouches
<1>3. Fresh!TypeOK'
  BY <1>1, <1>2 DEF FreshInv, Fresh!TypeOK
<1>4. src \in Fresh!Table /\ pipe \in Seq(Fresh!Change)
  BY DEF FreshInv, Fresh!TypeOK, Fresh!SessionsTypeOK, Fresh!ReplTypeOK
<1>5. /\ Len(pipe') = Len(pipe) + 1 /\ Len(pipe) \in Nat
      /\ pipe'[Len(pipe) + 1] = change
      /\ \A i \in 1 .. Len(pipe) : pipe'[i] = pipe[i]
  BY <1>1, <1>4
<1>6. src'[k] = v /\ \A j \in Rows["freshness"] : j # k => src'[j] = src[j]
  BY <1>1, <1>4 DEF Fresh!Table
<1>7. change.key = k /\ change.val = v
  OBVIOUS
<1> HIDE DEF change
<1>8. StampsOK'
  BY <1>1, <1>5, <1>6, <1>7 DEF FreshInv, StampsOK, Fresh!RowsOf
<1>9. InStep'
  <2> SUFFICES ASSUME whole, NEW j \in Rows["freshness"]
               PROVE  /\ (\A i \in 1 .. Len(pipe') : pipe'[i].key # j) => tgt[j] = src'[j]
                      /\ \A i \in 1 .. Len(pipe') :
                            pipe'[i].key = j
                            /\ (\A h \in i + 1 .. Len(pipe') : pipe'[h].key # j)
                               => pipe'[i].val = src'[j]
    BY <1>1 DEF InStep
  <2>1. CASE j = k
    BY <1>5, <1>6, <1>7, <2>1
  <2>2. CASE j # k
    <3>1. src'[j] = src[j]
      BY <1>6, <2>2
    <3>2. ASSUME \A i \in 1 .. Len(pipe') : pipe'[i].key # j  PROVE tgt[j] = src[j]
      BY <1>5, <3>2 DEF FreshInv, InStep
    <3>3. ASSUME NEW i \in 1 .. Len(pipe'), pipe'[i].key = j,
                 \A h \in i + 1 .. Len(pipe') : pipe'[h].key # j
          PROVE  pipe'[i].val = src[j]
      <4>1. i \in 1 .. Len(pipe)
        BY <1>5, <1>7, <2>2, <3>3
      <4>2. pipe[i].key = j /\ \A h \in i + 1 .. Len(pipe) : pipe[h].key # j
        BY <1>5, <3>3, <4>1
      <4> QED  BY <1>5, <4>1, <4>2 DEF FreshInv, InStep
    <3> QED  BY <3>1, <3>2, <3>3
  <2> QED  BY <2>1, <2>2
<1> QED  BY <1>2, <1>3, <1>8, <1>9 DEF FreshInv

LEMMA FreshArrives ==
    ASSUME FreshInv, Fresh!Arrive, pc # "done", UNCHANGED <<native, Fresh!checkVars>>
    PROVE  FreshInv'
<1>1. /\ pipe # <<>> /\ pipe' = Tail(pipe) /\ applied' = now
      /\ tgt' = [tgt EXCEPT ![Head(pipe).key] = Head(pipe).val]
      /\ UNCHANGED <<src, native, now, whole, view, pc, source_max, status>>
      /\ Fresh!Replicate /\ Fresh!Noted
  BY DEF Fresh!Arrive, Fresh!Deliver, Fresh!Apply, Fresh!checkVars, Fresh!Replicate
<1>2. /\ Fresh!SessionsTypeOK' /\ Fresh!SnapshotOK' /\ NewestKnown'
      /\ Fresh!DeadConnectorIsNoticed' /\ Fresh!AlarmHasACause'
  BY <1>1, FreshTouches
<1>3. Fresh!TypeOK'
  BY <1>1, <1>2, FreshLimits DEF FreshInv, Fresh!TypeOK
<1>4. tgt \in Fresh!Table /\ pipe \in Seq(Fresh!Change)
  BY DEF FreshInv, Fresh!TypeOK, Fresh!SessionsTypeOK, Fresh!ReplTypeOK
<1>5. /\ Len(pipe) \in Nat \ {0} /\ Len(pipe') = Len(pipe) - 1
      /\ Head(pipe) = pipe[1]
      /\ \A i \in 1 .. Len(pipe') : pipe'[i] = pipe[i + 1]
  BY <1>1, <1>4
<1>6. /\ tgt'[pipe[1].key] = pipe[1].val
      /\ \A j \in Rows["freshness"] : j # pipe[1].key => tgt'[j] = tgt[j]
  <2>1. pipe[1].key \in Rows["freshness"]
    <3>1. pipe[1] \in Fresh!Change
      BY <1>4, <1>5
    <3> QED  BY <3>1 DEF Fresh!Change
  <2> QED  BY <1>1, <1>4, <1>5, <2>1 DEF Fresh!Table
<1>7. StampsOK'
  <2>1. now \in Nat /\ applied \in Nat /\ applied <= now
    BY FreshLimits DEF FreshInv, Fresh!TypeOK
  <2>2. pipe[1].val \in 0 .. now \cup {Absent}
    BY <1>5 DEF FreshInv, StampsOK
  <2>3. \A j \in Fresh!RowsOf(tgt)' : tgt'[j] \in 0 .. now
    BY <1>6, <2>1, <2>2 DEF FreshInv, StampsOK, Fresh!RowsOf
  <2>4. \A i \in 1 .. Len(pipe') : pipe'[i].val \in 0 .. now \cup {Absent}
    BY <1>5 DEF FreshInv, StampsOK
  <2>5. view["target"] # NONE =>
          \A j \in Fresh!RowsOf(view["target"]) : view["target"][j] \in 0 .. now
    BY <2>1 DEF FreshInv, StampsOK
  <2> QED  BY <1>1, <2>3, <2>4, <2>5 DEF FreshInv, StampsOK, Fresh!RowsOf
<1>8. InStep'
  <2> SUFFICES ASSUME whole, NEW j \in Rows["freshness"]
               PROVE  /\ (\A i \in 1 .. Len(pipe') : pipe'[i].key # j) => tgt'[j] = src[j]
                      /\ \A i \in 1 .. Len(pipe') :
                            pipe'[i].key = j
                            /\ (\A h \in i + 1 .. Len(pipe') : pipe'[h].key # j)
                               => pipe'[i].val = src[j]
    BY <1>1 DEF InStep
  <2>1. ASSUME \A i \in 1 .. Len(pipe') : pipe'[i].key # j  PROVE tgt'[j] = src[j]
    <3>1. \A h \in 2 .. Len(pipe) : pipe[h].key # j
      <4> SUFFICES ASSUME NEW h \in 2 .. Len(pipe)  PROVE pipe[h].key # j
        OBVIOUS
      <4>1. h - 1 \in 1 .. Len(pipe') /\ (h - 1) + 1 = h
        BY <1>5
      <4> QED  BY <1>5, <2>1, <4>1
    <3>2. CASE pipe[1].key = j
      <4>1. 1 \in 1 .. Len(pipe)
        BY <1>5
      <4>2. pipe[1].val = src[j]
        BY <3>1, <3>2, <4>1 DEF FreshInv, InStep
      <4> QED  BY <1>6, <3>2, <4>2
    <3>3. CASE pipe[1].key # j
      <4>1. \A h \in 1 .. Len(pipe) : pipe[h].key # j
        BY <1>5, <3>1, <3>3
      <4> QED  BY <1>6, <3>3, <4>1 DEF FreshInv, InStep
    <3> QED  BY <3>2, <3>3
  <2>2. ASSUME NEW i \in 1 .. Len(pipe'), pipe'[i].key = j,
               \A h \in i + 1 .. Len(pipe') : pipe'[h].key # j
        PROVE  pipe'[i].val = src[j]
    <3>1. i + 1 \in 1 .. Len(pipe) /\ pipe'[i] = pipe[i + 1]
      BY <1>5
    <3>2. ASSUME NEW h \in (i + 1) + 1 .. Len(pipe)  PROVE pipe[h].key # j
      <4>1. h - 1 \in i + 1 .. Len(pipe') /\ h - 1 \in 1 .. Len(pipe') /\ (h - 1) + 1 = h
        BY <1>5
      <4> QED  BY <1>5, <2>2, <4>1
    <3> QED  BY <2>2, <3>1, <3>2 DEF FreshInv, InStep
  <2> QED  BY <2>1, <2>2
<1> QED  BY <1>2, <1>3, <1>7, <1>8 DEF FreshInv

LEMMA FreshDrops ==
    ASSUME FreshInv, Fresh!Drop, pc # "done", UNCHANGED <<native, Fresh!checkVars>>
    PROVE  FreshInv'
<1>1. /\ pipe # <<>> /\ pipe' = Tail(pipe) /\ whole' = FALSE
      /\ UNCHANGED <<src, tgt, writes, touched, native, now, applied, view, pc, source_max,
                     status>>
  BY DEF Fresh!Drop, Fresh!Lose, Fresh!checkVars
<1>2. pipe \in Seq(Fresh!Change) /\ status = "none"
  BY DEF FreshInv, Fresh!TypeOK, Fresh!SessionsTypeOK, Fresh!ReplTypeOK
<1>3. /\ pipe' \in Seq(Fresh!Change)
      /\ \A i \in 1 .. Len(pipe') : pipe'[i] = pipe[i + 1] /\ i + 1 \in 1 .. Len(pipe)
  BY <1>1, <1>2
<1>4. Fresh!TypeOK'
  BY <1>1, <1>3 DEF FreshInv, Fresh!TypeOK, Fresh!SessionsTypeOK, Fresh!ReplTypeOK
<1>5. StampsOK'
  BY <1>1, <1>3 DEF FreshInv, StampsOK, Fresh!RowsOf
<1>6. Fresh!SnapshotOK' /\ InStep' /\ NewestKnown'
  BY <1>1
     DEF FreshInv, Fresh!SnapshotOK, Fresh!Current, InStep, NewestKnown,
         Fresh!RowsOf
<1> QED  BY <1>1, <1>2, <1>4, <1>5, <1>6
         DEF FreshInv, Fresh!DeadConnectorIsNoticed, Fresh!AlarmHasACause

LEMMA FreshInit == Fresh!Init => FreshInv
<1> SUFFICES ASSUME Fresh!Init  PROVE FreshInv
  OBVIOUS
<1>1. 0 \in 0 .. MaxWrites["freshness"] /\ <<>> \in Seq(Fresh!Change)
  BY FreshWorld
<1>2. Fresh!SessionsTypeOK /\ Fresh!SnapshotOK
  BY <1>1 DEF Fresh!Init, Fresh!SessionsInit, Fresh!ReplInit, Fresh!SessionsTypeOK,
              Fresh!ReplTypeOK, Fresh!SnapshotOK
<1>3. /\ pipe = <<>> /\ view["target"] = NONE /\ whole = (src = tgt)
      /\ now \in 0 .. MaxTime /\ applied \in 0 .. now /\ native \in Stamped
      /\ pc = "source" /\ source_max = NONE /\ status = "none"
      /\ Fresh!Stamps(src) \subseteq 0 .. now /\ Fresh!Stamps(tgt) \subseteq 0 .. applied
  BY DEF Fresh!Init, Fresh!SessionsInit, Fresh!ReplInit, Fresh!Sides
<1>4. Fresh!TypeOK
  BY <1>2, <1>3 DEF Fresh!TypeOK
<1>5. StampsOK /\ InStep
  <2>1. /\ \A k \in Fresh!RowsOf(src) : src[k] \in 0 .. now
        /\ \A k \in Fresh!RowsOf(tgt) : tgt[k] \in 0 .. applied
    BY <1>3 DEF Fresh!Stamps
  <2>2. 1 .. Len(pipe) = {}
    BY <1>3
  <2>3. StampsOK
    BY <1>3, <2>1, <2>2 DEF StampsOK
  <2>4. InStep
    BY <1>3, <2>2 DEF InStep
  <2> QED  BY <2>3, <2>4
<1> QED  BY <1>2, <1>3, <1>4, <1>5
         DEF FreshInv, NewestKnown, Fresh!DeadConnectorIsNoticed,
             Fresh!AlarmHasACause

LEMMA FreshStep ==
    ASSUME FreshInv, [Fresh!Next]_Fresh!vars
    PROVE  FreshInv'
<1>1. CASE Fresh!Check /\ FreshQuiet
  BY <1>1, FreshSkips, FreshReadsSource, FreshJudges, FreshEarlier DEF Fresh!Check
<1>2. CASE Fresh!World /\ pc # "done" /\ UNCHANGED <<native, Fresh!checkVars>>
  BY <1>2, FreshTicks, FreshArrives, FreshDrops, FreshStamps DEF Fresh!World
<1>3. CASE UNCHANGED Fresh!vars
  <2>1. UNCHANGED <<src, tgt, pipe, writes, touched, native, now, whole, applied, view, pc,
                    source_max, status>>
    BY <1>3 DEF Fresh!vars, Fresh!replVars, Fresh!checkVars, Fresh!history
  <2>2. Fresh!column' = Fresh!column /\ Fresh!Comparable' = Fresh!Comparable
    BY <2>1, ColumnStays
  <2>3. Fresh!TypeOK' /\ Fresh!SnapshotOK'
    BY <2>1 DEF FreshInv, Fresh!TypeOK, Fresh!SessionsTypeOK, Fresh!ReplTypeOK,
                Fresh!SnapshotOK, Fresh!Current
  <2>4. StampsOK' /\ InStep' /\ NewestKnown'
    BY <2>1 DEF FreshInv, StampsOK, InStep, NewestKnown, Fresh!RowsOf
  <2> QED  BY <2>1, <2>2, <2>3, <2>4
           DEF FreshInv, Fresh!RowsOf, Fresh!DeadConnectorIsNoticed,
               Fresh!AlarmHasACause
<1> QED  BY <1>1, <1>2, <1>3 DEF Fresh!Next, FreshQuiet

FreshHolds == which = "freshness" => FreshInv

LEMMA FreshInvariant == Spec => []FreshHolds
<1>1. Init => FreshHolds
  BY FreshInit DEF Init, FreshHolds
<1>2. FreshHolds /\ [Next]_vars => FreshHolds'
  <2> SUFFICES ASSUME FreshHolds, [Next]_vars, which' = "freshness"
               PROVE  FreshInv'
    BY DEF FreshHolds
  <2>1. which = "freshness" /\ [Fresh!Next]_Fresh!vars
    BY DEF Next, vars, tableVars, Fresh!vars, Fresh!replVars, Fresh!checkVars,
       Fresh!history,
           freshnessVars
  <2> QED  BY <2>1, FreshStep DEF FreshHolds
<1> QED  BY <1>1, <1>2, PTL DEF Spec

\* FreshnessCheck.run fails for every row that nobody touched and that is newer
\* than the pipe's last delivery by more than the limit, whatever the clock, the
\* applications and the pipe do between its two queries.
THEOREM DeadConnectorTheorem == Spec => []DeadConnectorIsNoticed
<1>1. FreshHolds => DeadConnectorIsNoticed
  BY DEF FreshHolds, FreshInv, DeadConnectorIsNoticed
<1> QED  BY FreshInvariant, <1>1, PTL

\* A replica that lost nothing is blamed only while changes are on their way or
\* the newest row has gone, provided that the target's session sees the current
\* table: one pinned to an earlier snapshot lags behind itself.
THEOREM AlarmTheorem ==
    ASSUME "target" \notin Pinned
    PROVE  Spec => []AlarmHasACause
<1>1. FreshHolds => AlarmHasACause
  BY DEF FreshHolds, FreshInv, AlarmHasACause
<1> QED  BY FreshInvariant, <1>1, PTL

-----------------------------------------------------------------------------
(* row_delta.  The rows that entered or left the window since the sessions  *)
(* were opened are `churn`; without them every snapshot and every count     *)
(* agrees with the tables (StayersOK, SourceCounted).                       *)

\* What the lemmas about tables, pipe and sessions rest on.
LEMMA DeltaWorld ==
    /\ Pinned \subseteq Delta!Sides /\ NONE \notin Delta!Table
    /\ Delta!IsFiniteSet(Rows["row_delta"])
    /\ Absent \notin RowContents /\ MaxWrites["row_delta"] \in Nat
  BY DeltaAssumption DEF Delta!ReplicationAssumption, Delta!SessionsAssumption

\* A snapshot counts, outside `churn`, what the table it belongs to counts.
StayersOK ==
    \A s \in Delta!Sides : view[s] # NONE =>
        Delta!Counted(view[s]) \ churn = Delta!Counted(Delta!Current(s)) \ churn

\* So did the state of the source whose rows were counted.
SourceCounted ==
    pc = "target" =>
        \E A \in SUBSET Rows["row_delta"] : /\ src_n = Delta!Cardinality(A)
                               /\ A \ churn = Delta!Counted(src) \ churn

RowDeltaInv == Delta!TypeOK /\ StayersOK /\ SourceCounted /\ Delta!RowDeltaIsHonest

-----------------------------------------------------------------------------
LEMMA CountedFinite ==
    ASSUME NEW A \in SUBSET Rows["row_delta"]
    PROVE  /\ Delta!IsFiniteSet(A) /\ Delta!Cardinality(A) \in Nat
           /\ Delta!Cardinality(A) <= Delta!Cardinality(Rows["row_delta"])
           /\ Delta!Cardinality(Rows["row_delta"]) \in Nat
  BY DeltaWorld, Delta!FS_Subset, Delta!FS_CardinalityType

\* A set is as large as its part outside `churn`, or larger by the size of
\* `churn` at most.
LEMMA OffByChurn ==
    ASSUME NEW A \in SUBSET Rows["row_delta"], churn \subseteq Rows["row_delta"]
    PROVE  /\ Delta!Cardinality(A \ churn) \in Nat /\ Delta!Cardinality(churn) \in Nat
           /\ Delta!Cardinality(A \ churn) <= Delta!Cardinality(A)
           /\ Delta!Cardinality(A) <= Delta!Cardinality(A \ churn) + Delta!Cardinality(churn)
<1>1. Delta!IsFiniteSet(A) /\ Delta!IsFiniteSet(churn) /\ Delta!IsFiniteSet(A \ churn)
  BY CountedFinite
<1>2. Delta!Cardinality(A \ churn) = Delta!Cardinality(A) - Delta!Cardinality(A \cap churn)
  BY <1>1, DeltaWorld, Delta!FS_Difference
<1>3. Delta!Cardinality(A \cap churn) <= Delta!Cardinality(churn)
  BY <1>1, DeltaWorld, Delta!FS_Subset
<1>4. /\ Delta!Cardinality(A) \in Nat /\ Delta!Cardinality(A \ churn) \in Nat
      /\ Delta!Cardinality(churn) \in Nat /\ Delta!Cardinality(A \cap churn) \in Nat
  BY CountedFinite
<1> QED  BY <1>2, <1>3, <1>4

LEMMA CountedKeys ==
    ASSUME NEW tab
    PROVE  Delta!Counted(tab) \in SUBSET Rows["row_delta"]
  BY DEF Delta!Counted

\* What a query sees agrees with the current table about the rows that stay.
LEMMA SeenStayers ==
    ASSUME StayersOK, NEW s \in Delta!Sides
    PROVE  Delta!Counted(Delta!Seen(s)) \ churn = Delta!Counted(Delta!Current(s)) \ churn
  BY DEF StayersOK, Delta!Seen

\* Two counts that are near the counts m and n of the rows that stayed differ
\* by no more, and no less, than these do, up to the slack.
LEMMA DeltaNearDrift ==
    ASSUME NEW a \in Nat, NEW b \in Nat, NEW m \in Nat, NEW n \in Nat,
           NEW slack \in Nat,
           m <= a, a <= m + slack, n <= b, b <= n + slack
    PROVE  LET drift == IF n - m < 0 THEN -(n - m) ELSE n - m IN
           /\ drift - slack <= Delta!Delta(a, b) /\ Delta!Delta(a, b) <= drift + slack
           /\ drift \in Nat /\ Delta!Delta(a, b) \in Nat
  BY DEF Delta!Delta

\* Multiplying by 100 keeps the order.
LEMMA Hundredfold ==
    ASSUME NEW x \in Int, NEW y \in Int, x <= y
    PROVE  100 * x <= 100 * y
  OBVIOUS

-----------------------------------------------------------------------------
LEMMA ReadStayers ==
    ASSUME Delta!TypeOK, StayersOK, NEW s \in Delta!Sides, Delta!Reads(s),
           UNCHANGED <<Delta!replVars, touched, churn>>
    PROVE  Delta!SessionsTypeOK' /\ StayersOK'
<1>1. Delta!SessionsTypeOK'
  BY DeltaWorld, Delta!ReadsType DEF Delta!TypeOK
<1>2. ASSUME NEW t \in Delta!Sides, view'[t] # NONE
      PROVE  Delta!Counted(view'[t]) \ churn = Delta!Counted(Delta!Current(t)) \ churn
  <2>1. view'[t] = view[t] \/ (t = s /\ view'[t] = Delta!Seen(s))
    BY DEF Delta!Reads, Delta!TypeOK, Delta!SessionsTypeOK
  <2> QED  BY <1>2, <2>1, SeenStayers DEF StayersOK
<1>3. \A t \in Delta!Sides : Delta!Current(t)' = Delta!Current(t)
  BY DEF Delta!Current, Delta!replVars
<1> QED  BY <1>1, <1>2, <1>3 DEF StayersOK, Delta!Counted

LEMMA CountKeepsInv ==
    ASSUME RowDeltaInv, Delta!CountSource, UNCHANGED <<Delta!replVars, touched, churn>>
    PROVE  RowDeltaInv'
<1>1. /\ pc = "source" /\ pc' = "target" /\ status' = status
      /\ src_n' = Delta!Cardinality(Delta!Counted(Delta!Seen("source")))
      /\ src' = src /\ churn' = churn
  BY DEF Delta!CountSource, Delta!row_count, Delta!replVars
<1>2. Delta!SessionsTypeOK' /\ StayersOK'
  BY ReadStayers DEF Delta!CountSource, RowDeltaInv, Delta!Sides
<1>3. Delta!Counted(Delta!Seen("source")) \ churn = Delta!Counted(src) \ churn
  BY SeenStayers DEF RowDeltaInv, Delta!Sides, Delta!Current
<1>4. SourceCounted'
  BY <1>1, <1>3, CountedKeys DEF SourceCounted, Delta!Counted
<1>5. src_n' \in 0 .. Delta!Cardinality(Rows["row_delta"])
  BY <1>1, CountedKeys, CountedFinite
<1>6. status = "none"
  BY <1>1 DEF RowDeltaInv, Delta!TypeOK
<1> QED  BY <1>1, <1>2, <1>4, <1>5, <1>6
         DEF RowDeltaInv, Delta!TypeOK, Delta!RowDeltaIsHonest

\* The verdict.
LEMMA JudgeKeepsInv ==
    ASSUME RowDeltaInv, Delta!CountTarget,
           UNCHANGED <<Delta!replVars, touched, churn>>
    PROVE  RowDeltaInv'
<1> DEFINE m == Delta!Cardinality(Delta!Counted(src) \ churn)
           n == Delta!Cardinality(Delta!Counted(tgt) \ churn)
           b == Delta!Cardinality(Delta!Counted(Delta!Seen("target")))
           slack == Delta!Cardinality(churn)
           limit == Tolerance * Delta!Base(src_n)
           drift == IF n - m < 0 THEN -(n - m) ELSE n - m
<1>1. /\ pc = "target" /\ pc' = "done" /\ src_n' = src_n
      /\ status' \in Delta!WithinLimit(Delta!Delta(src_n, b), Delta!Base(src_n),
                                       Tolerance)
      /\ src' = src /\ tgt' = tgt /\ churn' = churn
  BY DEF Delta!CountTarget, Delta!row_count, Delta!replVars
<1>2. Delta!SessionsTypeOK' /\ StayersOK'
  BY ReadStayers DEF Delta!CountTarget, RowDeltaInv, Delta!Sides
<1>3. churn \subseteq Rows["row_delta"] /\ src_n \in Nat
  BY CountedFinite DEF RowDeltaInv, Delta!TypeOK
<1>4. m \in Nat /\ slack \in Nat /\ m <= src_n /\ src_n <= m + slack
  BY <1>1, <1>3, OffByChurn DEF RowDeltaInv, SourceCounted
<1>5. n \in Nat /\ b \in Nat /\ n <= b /\ b <= n + slack
  <2>1. Delta!Counted(Delta!Seen("target")) \ churn = Delta!Counted(tgt) \ churn
    BY SeenStayers DEF RowDeltaInv, Delta!Sides, Delta!Current
  <2>2. b \in Nat
    BY CountedKeys, CountedFinite
  <2> QED  BY <1>3, <2>1, <2>2, OffByChurn, CountedKeys
<1>6. /\ drift - slack <= Delta!Delta(src_n, b) /\ Delta!Delta(src_n, b) <= drift + slack
      /\ drift \in Nat /\ Delta!Delta(src_n, b) \in Nat
  <2> HIDE DEF m, n, b, slack
  <2> QED  BY <1>3, <1>4, <1>5, DeltaNearDrift
<1>7. limit \in Nat
  BY <1>3, DeltaAssumption DEF Delta!RowDeltaAssumption, Delta!Base
<1>8. /\ status' \in {"ok", "fail"}
      /\ status' = "ok" => 100 * Delta!Delta(src_n, b) <= limit
      /\ status' = "fail" =>
            Delta!Delta(src_n, b) > 0 /\ 100 * Delta!Delta(src_n, b) >= limit
  BY <1>1 DEF Delta!WithinLimit
<1>9. /\ status' = "ok" => 100 * (drift - slack) <= limit
      /\ status' = "fail" => drift + slack > 0 /\ 100 * (drift + slack) >= limit
  <2>1. /\ 100 * (drift - slack) <= 100 * Delta!Delta(src_n, b)
        /\ 100 * Delta!Delta(src_n, b) <= 100 * (drift + slack)
    <3> HIDE DEF drift, b, slack
    <3> QED  BY <1>4, <1>6, Hundredfold
  <2> HIDE DEF drift, slack, limit, b
  <2> QED  BY <1>4, <1>6, <1>7, <1>8, <2>1
<1>10. /\ Delta!Drift' = drift /\ Delta!Cardinality(churn)' = slack
       /\ (Tolerance * Delta!Base(src_n))' = limit
  BY <1>1 DEF Delta!Drift, Delta!Counted
<1>11. Delta!RowDeltaIsHonest'
  <2> HIDE DEF drift, slack, limit
  <2> QED  BY <1>9, <1>10 DEF Delta!RowDeltaIsHonest
<1> QED  BY <1>1, <1>2, <1>8, <1>11 DEF RowDeltaInv, Delta!TypeOK, SourceCounted

LEMMA WorldKeepsInv ==
    ASSUME RowDeltaInv, Delta!World, pc # "done", UNCHANGED Delta!checkVars
    PROVE  RowDeltaInv'
<1>1. UNCHANGED <<view, pc, src_n, status>> /\ status = "none"
  BY DEF Delta!checkVars, RowDeltaInv, Delta!TypeOK
<1>2. Delta!SessionsTypeOK'
  BY <1>1, DeltaWorld, Delta!ReplicateType, Delta!WorldType
     DEF Delta!World, RowDeltaInv, Delta!TypeOK, Delta!SessionsTypeOK
<1>3. churn' = churn \cup Delta!Moved /\ churn' \subseteq Rows["row_delta"]
  BY DEF Delta!World, Delta!Moved, RowDeltaInv, Delta!TypeOK
<1>4. /\ Delta!Counted(src)' \ churn' = Delta!Counted(src) \ churn'
      /\ Delta!Counted(tgt)' \ churn' = Delta!Counted(tgt) \ churn'
  BY <1>3 DEF Delta!Moved, Delta!Counted
<1>5. StayersOK'
  <2> SUFFICES ASSUME NEW s \in Delta!Sides, view[s] # NONE
               PROVE  Delta!Counted(view[s]) \ churn'
                          = Delta!Counted(Delta!Current(s)') \ churn'
    BY <1>1 DEF StayersOK, Delta!Counted
  <2>1. Delta!Counted(view[s]) \ churn = Delta!Counted(Delta!Current(s)) \ churn
    BY DEF RowDeltaInv, StayersOK
  <2>2. Delta!Counted(Delta!Current(s)') \ churn' = Delta!Counted(Delta!Current(s)) \ churn'
    BY <1>4 DEF Delta!Current, Delta!Counted
  <2> QED  BY <1>3, <2>1, <2>2
<1>6. SourceCounted'
  <2> SUFFICES ASSUME pc = "target", NEW A \in SUBSET Rows["row_delta"],
                      src_n = Delta!Cardinality(A), A \ churn = Delta!Counted(src) \ churn
               PROVE  A \ churn' = Delta!Counted(src)' \ churn'
    BY <1>1 DEF SourceCounted, RowDeltaInv
  <2> QED  BY <1>3, <1>4
<1> QED  BY <1>1, <1>2, <1>3, <1>5, <1>6
         DEF RowDeltaInv, Delta!TypeOK, Delta!RowDeltaIsHonest

-----------------------------------------------------------------------------
LEMMA RowDeltaInit == Delta!Init => RowDeltaInv
<1> SUFFICES ASSUME Delta!Init  PROVE RowDeltaInv
  OBVIOUS
<1>1. Delta!Cardinality(Rows["row_delta"]) \in Nat /\ MaxWrites["row_delta"] \in Nat
  BY DeltaWorld, Delta!FS_CardinalityType
<1>2. /\ 0 \in 0 .. Delta!Cardinality(Rows["row_delta"])
      /\ 0 \in 0 .. MaxWrites["row_delta"] /\ <<>> \in Seq(Delta!Change)
  BY <1>1
<1> QED
  BY <1>2
     DEF Delta!Init, Delta!SessionsInit, Delta!ReplInit, RowDeltaInv, Delta!TypeOK,
                 Delta!SessionsTypeOK, Delta!ReplTypeOK, StayersOK, SourceCounted,
                 Delta!RowDeltaIsHonest

LEMMA RowDeltaStep ==
    ASSUME RowDeltaInv, [Delta!Next]_Delta!vars
    PROVE  RowDeltaInv'
<1>1. ASSUME NEW s \in Delta!Sides, Delta!EarlierCheck(s),
             UNCHANGED <<Delta!replVars, touched, churn>>
      PROVE  RowDeltaInv'
  <2>1. Delta!SessionsTypeOK' /\ StayersOK'
    BY <1>1, ReadStayers DEF Delta!EarlierCheck, RowDeltaInv
  <2>2. UNCHANGED <<pc, src_n, status, churn>> /\ pc = "source" /\ status = "none"
    BY <1>1 DEF Delta!EarlierCheck, RowDeltaInv, Delta!TypeOK
  <2> QED
    BY <2>1, <2>2
       DEF RowDeltaInv, Delta!TypeOK, SourceCounted, Delta!RowDeltaIsHonest
<1>2. CASE Delta!Check /\ UNCHANGED <<Delta!replVars, touched, churn>>
  BY <1>1, <1>2, CountKeepsInv, JudgeKeepsInv DEF Delta!Check
<1>3. CASE Delta!World /\ pc # "done" /\ UNCHANGED Delta!checkVars
  BY <1>3, WorldKeepsInv
<1>4. CASE UNCHANGED Delta!vars
  <2>1. UNCHANGED <<src, tgt, pipe, writes, view, touched, pc, src_n, status, churn>>
    BY <1>4 DEF Delta!vars, Delta!replVars, Delta!checkVars
  <2> QED
    BY <2>1
       DEF RowDeltaInv, Delta!TypeOK, Delta!SessionsTypeOK, Delta!ReplTypeOK,
           StayersOK,
                Delta!Current, Delta!Counted, SourceCounted, Delta!Drift,
                Delta!RowDeltaIsHonest
<1> QED  BY <1>2, <1>3, <1>4 DEF Delta!Next

RowDeltaHolds == which = "row_delta" => RowDeltaInv

LEMMA RowDeltaInvariant == Spec => []RowDeltaHolds
<1>1. Init => RowDeltaHolds
  BY RowDeltaInit DEF Init, RowDeltaHolds
<1>2. RowDeltaHolds /\ [Next]_vars => RowDeltaHolds'
  <2> SUFFICES ASSUME RowDeltaHolds, [Next]_vars, which' = "row_delta"
               PROVE  RowDeltaInv'
    BY DEF RowDeltaHolds
  <2>1. which = "row_delta" /\ [Delta!Next]_Delta!vars
    BY DEF Next, vars, tableVars, Delta!vars, Delta!replVars, Delta!checkVars,
       rowDeltaVars
  <2> QED  BY <2>1, RowDeltaStep DEF RowDeltaHolds
<1> QED  BY <1>1, <1>2, PTL DEF Spec

\* RowDeltaCheck.run passes no drift and blames no agreement beyond the rows
\* that entered or left the window between its two counts, or since the
\* snapshot one of them was answered from.
THEOREM RowDeltaTheorem == Spec => []RowDeltaIsHonest
<1>1. RowDeltaHolds => RowDeltaIsHonest
  BY DEF RowDeltaHolds, RowDeltaIsHonest, RowDeltaInv
<1> QED  BY RowDeltaInvariant, <1>1, PTL

-----------------------------------------------------------------------------
(* null_rate.  What is known of a column once it was judged (PassedKnown)   *)
(* stays true: rows that change later leave the rotten ones and join        *)
(* `touched`.                                                               *)

LEMMA NullsWorld ==
    /\ Pinned \subseteq Nulls!Sides /\ NONE \notin Nulls!Table
    /\ Nulls!IsFiniteSet(Rows["null_rate"])
    /\ Absent \notin NullSets /\ MaxWrites["null_rate"] \in Nat
  BY NullsAssumption DEF Nulls!ReplicationAssumption, Nulls!SessionsAssumption

LEMMA NullsLimits ==
    MaxDiff \in Nat /\ NONE \notin Columns /\ NONE \notin SUBSET Columns
  BY NullsAssumption DEF Nulls!NullRateAssumption

\* A column is compared only after it was read, and judged only once.
PlaceKnown ==
    /\ columns = NONE => todo = {} /\ reading = NONE
    /\ reading # NONE => reading \in todo
    /\ status = "ok" => offenders = {}

\* No snapshot of the source shows a NULL that is not accounted for.
HadNullKnown ==
    /\ Nulls!NullsIn(src) \subseteq hadNull
    /\ view["source"] # NONE => Nulls!NullsIn(view["source"]) \subseteq hadNull

NullRows(tab, c) == {k \in Nulls!RowsOf(tab) : c \in tab[k]}

\* What was read at the source.
ShareKnown ==
    reading # NONE =>
        /\ reading \notin hadNull => share.nulls = 0
        /\ touched = {} => /\ share.nulls = Nulls!Cardinality(NullRows(src, reading))
                           /\ share.total = Nulls!Cardinality(Nulls!RowsOf(src))

Rotten(c) == {k \in Nulls!RowsOf(tgt) \ touched : c \in tgt[k]}

\* A column that was passed has no more rotten rows than the limit allows.
PassedKnown ==
    columns # NONE =>
        \A c \in columns \ (todo \cup hadNull \cup offenders) :
            100 * Nulls!Cardinality(Rotten(c))
                <= MaxDiff * Nulls!Cardinality(Nulls!RowsOf(tgt) \cup touched)

NullsInv ==
    /\ Nulls!TypeOK /\ Nulls!SnapshotOK /\ PlaceKnown /\ HadNullKnown /\ ShareKnown
    /\ PassedKnown /\ Nulls!NullAlarmHasACause

\* Whatever is unchanged while one step of the check is made.
NullsQuiet == UNCHANGED <<Nulls!replVars, touched, hadNull>>

-----------------------------------------------------------------------------
LEMMA RowsCount ==
    ASSUME NEW A \in SUBSET Rows["null_rate"], NEW B \in SUBSET A
    PROVE  /\ Nulls!Cardinality(A) \in Nat /\ Nulls!Cardinality(B) \in Nat
           /\ Nulls!Cardinality(B) <= Nulls!Cardinality(A)
           /\ Nulls!Cardinality(A) \in 0 .. Nulls!Cardinality(Rows["null_rate"])
<1>1. Nulls!IsFiniteSet(A) /\ Nulls!IsFiniteSet(B)
  BY NullsWorld, Nulls!FS_Subset
<1>2. /\ Nulls!Cardinality(A) \in Nat /\ Nulls!Cardinality(B) \in Nat
      /\ Nulls!Cardinality(Rows["null_rate"]) \in Nat
  BY <1>1, NullsWorld, Nulls!FS_CardinalityType
<1>3. /\ Nulls!Cardinality(B) <= Nulls!Cardinality(A)
      /\ Nulls!Cardinality(A) <= Nulls!Cardinality(Rows["null_rate"])
  BY <1>1, NullsWorld, Nulls!FS_Subset
<1> QED  BY <1>2, <1>3

\* Multiplying by a natural number keeps the order ...
LEMMA Monotone ==
    ASSUME NEW m \in Nat, NEW x \in Nat, NEW y \in Nat, x <= y
    PROVE  m * x <= m * y /\ m * x \in Nat /\ m * y \in Nat
  OBVIOUS

\* ... and a positive factor of both sides can be dropped.
LEMMA Cancel ==
    ASSUME NEW a \in Nat, NEW x \in Nat, NEW y \in Nat, a >= 1, a * x <= a * y
    PROVE  x <= y
<1> SUFFICES ASSUME y + 1 <= x  PROVE FALSE
  OBVIOUS
<1>1. a * (y + 1) <= a * x
  BY Monotone
<1>2. a * (y + 1) = a * y + a
  OBVIOUS
<1>3. a * x \in Nat /\ a * y \in Nat
  OBVIOUS
<1> QED  BY <1>1, <1>2, <1>3

\* A column without NULLs at the source passes only if its share at the target
\* is within the limit.
LEMMA PassedShare ==
    ASSUME NEW n \in Nat, NEW a \in Nat, NEW b \in Nat, a >= 1,
           100 * (n * a) <= MaxDiff * (a * b)
    PROVE  100 * n <= MaxDiff * b
<1>1. MaxDiff \in Nat
  BY NullsLimits
<1>2. 100 * (n * a) = a * (100 * n)
  OBVIOUS
<1>3. MaxDiff * (a * b) = a * (MaxDiff * b)
  BY <1>1
<1>4. 100 * n \in Nat /\ MaxDiff * b \in Nat
  BY <1>1
<1>5. a * (100 * n) <= a * (MaxDiff * b)
  BY <1>2, <1>3
<1> QED  BY <1>4, <1>5, Cancel

\* What a query sees of a side where nothing was touched.
LEMMA NullsSeen ==
    ASSUME NullsInv, NEW s \in Nulls!Sides
    PROVE  /\ Nulls!Seen(s) \in Nulls!Table
           /\ \A k \in Rows["null_rate"] \ touched :
                 Nulls!Seen(s)[k] = Nulls!Current(s)[k]
  BY NullsWorld, Nulls!SeenType, Nulls!SeenQuiet DEF NullsInv, Nulls!TypeOK

\* The share of NULLs that a query finds.
LEMMA NullFraction ==
    ASSUME NEW s \in Nulls!Sides, NEW c
    PROVE  LET f == Nulls!null_fraction(s, c)
               tab == Nulls!Seen(s)
           IN  /\ f.nulls = Nulls!Cardinality(NullRows(tab, c))
               /\ f.total = Nulls!Cardinality(Nulls!RowsOf(tab))
               /\ f.nulls \in 0 .. f.total
               /\ f.total \in 0 .. Nulls!Cardinality(Rows["null_rate"])
<1> DEFINE tab == Nulls!Seen(s)
           f == Nulls!null_fraction(s, c)
<1>1. /\ f.nulls = Nulls!Cardinality(NullRows(tab, c))
      /\ f.total = Nulls!Cardinality(Nulls!RowsOf(tab))
  BY DEF Nulls!null_fraction, NullRows
<1>2. /\ Nulls!RowsOf(tab) \in SUBSET Rows["null_rate"]
      /\ NullRows(tab, c) \in SUBSET Nulls!RowsOf(tab)
  BY DEF Nulls!RowsOf, NullRows
<1> HIDE DEF tab, f
<1>3. /\ f.nulls \in 0 .. f.total
      /\ f.total \in 0 .. Nulls!Cardinality(Rows["null_rate"])
  BY <1>1, <1>2, RowsCount
<1> QED  BY <1>1, <1>3 DEF tab, f

\* What a query reads leaves everything true that is known of the tables.
LEMMA NullsReads ==
    ASSUME NullsInv, NEW s \in Nulls!Sides, Nulls!Reads(s), NullsQuiet
    PROVE  /\ Nulls!SessionsTypeOK' /\ Nulls!SnapshotOK' /\ HadNullKnown'
           /\ UNCHANGED <<src, tgt, pipe, writes, touched, hadNull>>
<1>1. UNCHANGED <<src, tgt, pipe, writes, touched, hadNull>>
  BY DEF NullsQuiet, Nulls!replVars
<1>2. Nulls!SessionsTypeOK /\ Nulls!SnapshotOK
  BY DEF NullsInv, Nulls!TypeOK
<1>3. UNCHANGED <<Nulls!replVars, touched>>
  BY DEF NullsQuiet
<1>4. Nulls!SessionsTypeOK' /\ Nulls!SnapshotOK'
  BY <1>2, <1>3, NullsWorld, Nulls!ReadsType, Nulls!ReadsSnapshot
<1>5. HadNullKnown'
  <2>1. \/ view'["source"] = view["source"]
        \/ view'["source"] = Nulls!Seen("source")
    BY <1>2 DEF Nulls!Reads, Nulls!SessionsTypeOK, Nulls!Sides
  <2>2. \/ Nulls!Seen("source") = view["source"] /\ view["source"] # NONE
        \/ Nulls!Seen("source") = src
    BY DEF Nulls!Seen, Nulls!Current
  <2> QED
    BY <1>1, <2>1, <2>2
       DEF NullsInv, HadNullKnown, Nulls!NullsIn, Nulls!RowsOf
<1> QED  BY <1>1, <1>4, <1>5

LEMMA NullsEarlier ==
    ASSUME NullsInv, NEW s \in Nulls!Sides, Nulls!EarlierCheck(s), NullsQuiet
    PROVE  NullsInv'
<1>1. UNCHANGED <<columns, todo, reading, share, offenders, status>>
  BY DEF Nulls!EarlierCheck
<1>2. /\ Nulls!SessionsTypeOK' /\ Nulls!SnapshotOK' /\ HadNullKnown'
      /\ UNCHANGED <<src, tgt, pipe, writes, touched, hadNull>>
  BY NullsReads DEF Nulls!EarlierCheck
<1>3. Nulls!TypeOK'
  BY <1>1, <1>2 DEF NullsInv, Nulls!TypeOK
<1>4. PlaceKnown' /\ ShareKnown' /\ PassedKnown' /\ Nulls!NullAlarmHasACause'
  BY <1>1, <1>2
     DEF NullsInv, PlaceKnown, ShareKnown, PassedKnown, NullRows, Rotten,
         Nulls!RowsOf,
         Nulls!NullAlarmHasACause
<1> QED  BY <1>2, <1>3, <1>4 DEF NullsInv

LEMMA NullsStarts ==
    ASSUME NullsInv, NEW C \in SUBSET Columns, Nulls!Start(C), NullsQuiet
    PROVE  NullsInv'
<1>1. /\ columns = NONE /\ columns' = C /\ todo' = C
      /\ UNCHANGED <<src, tgt, pipe, writes, touched, hadNull, view, reading, share,
                     offenders, status>>
  BY DEF Nulls!Start, NullsQuiet, Nulls!replVars
<1>2. reading = NONE /\ status = "none"
  BY <1>1 DEF NullsInv, PlaceKnown, Nulls!TypeOK
<1>3. Nulls!TypeOK'
  BY <1>1, <1>2 DEF NullsInv, Nulls!TypeOK, Nulls!SessionsTypeOK, Nulls!ReplTypeOK
<1>4. PlaceKnown'
  BY <1>1, <1>2, NullsLimits DEF PlaceKnown
<1>5. Nulls!SnapshotOK' /\ HadNullKnown'
  BY <1>1
     DEF NullsInv, Nulls!SnapshotOK, Nulls!Current, HadNullKnown, Nulls!NullsIn,
              Nulls!RowsOf
<1>6. ShareKnown' /\ PassedKnown' /\ Nulls!NullAlarmHasACause'
  BY <1>1, <1>2
     DEF NullsInv, ShareKnown, PassedKnown, Nulls!RowsOf, Nulls!NullAlarmHasACause
<1> QED  BY <1>3, <1>4, <1>5, <1>6 DEF NullsInv

LEMMA NullsReadsSource ==
    ASSUME NullsInv, NEW c \in Columns, Nulls!ReadSource(c), NullsQuiet
    PROVE  NullsInv'
<1>1. /\ reading = NONE /\ c \in todo /\ reading' = c
      /\ share' = Nulls!null_fraction("source", c)
      /\ UNCHANGED <<columns, todo, offenders, status>>
      /\ "source" \in Nulls!Sides
  BY DEF Nulls!ReadSource, Nulls!Sides
<1>2. /\ Nulls!SessionsTypeOK' /\ Nulls!SnapshotOK' /\ HadNullKnown'
      /\ UNCHANGED <<src, tgt, pipe, writes, touched, hadNull>>
  BY <1>1, NullsReads DEF Nulls!ReadSource
<1>3. /\ share'.nulls = Nulls!Cardinality(NullRows(Nulls!Seen("source"), c))
      /\ share'.total = Nulls!Cardinality(Nulls!RowsOf(Nulls!Seen("source")))
      /\ share'.nulls \in 0 .. share'.total
      /\ share'.total \in 0 .. Nulls!Cardinality(Rows["null_rate"])
  BY <1>1, NullFraction
<1>4. Nulls!TypeOK'
  BY <1>1, <1>2, <1>3 DEF NullsInv, Nulls!TypeOK
<1>5. PlaceKnown'
  BY <1>1 DEF NullsInv, PlaceKnown
<1>6. ShareKnown'
  <2>1. ASSUME c \notin hadNull  PROVE share'.nulls = 0
    <3>1. c \notin Nulls!NullsIn(Nulls!Seen("source"))
      BY <2>1 DEF NullsInv, HadNullKnown, Nulls!Seen, Nulls!Current
    <3>2. NullRows(Nulls!Seen("source"), c) = {}
      BY <3>1 DEF NullRows, Nulls!NullsIn
    <3> QED  BY <1>3, <3>2, NullsWorld, Nulls!FS_EmptySet
  <2>2. ASSUME touched = {}
        PROVE  /\ NullRows(Nulls!Seen("source"), c) = NullRows(src, c)
               /\ Nulls!RowsOf(Nulls!Seen("source")) = Nulls!RowsOf(src)
    <3>1. \A k \in Rows["null_rate"] : Nulls!Seen("source")[k] = src[k]
      BY <1>1, <2>2, NullsSeen DEF Nulls!Current
    <3> QED  BY <3>1 DEF NullRows, Nulls!RowsOf
  <2> QED  BY <1>1, <1>2, <1>3, <2>1, <2>2 DEF ShareKnown, NullRows, Nulls!RowsOf
<1>7. PassedKnown' /\ Nulls!NullAlarmHasACause'
  BY <1>1, <1>2
     DEF NullsInv, PassedKnown, Rotten, Nulls!RowsOf, Nulls!NullAlarmHasACause
<1> QED  BY <1>2, <1>4, <1>5, <1>6, <1>7 DEF NullsInv

LEMMA BaseType ==
    ASSUME NEW f, f.total \in Nat
    PROVE  Nulls!Base(f) \in Nat /\ Nulls!Base(f) >= 1
  BY DEF Nulls!Base

\* Without NULLs at the source the gap is the share at the target.
LEMMA GapFromZero ==
    ASSUME NEW f, NEW g, f.nulls = 0, f.total \in Nat, g.nulls \in Nat, g.total \in Nat
    PROVE  Nulls!Gap(f, g) = g.nulls * Nulls!Base(f)
<1>1. Nulls!Base(f) \in Nat /\ Nulls!Base(g) \in Nat
  BY BaseType
<1>2. Nulls!Excess(f, g) = g.nulls * Nulls!Base(f) - 0 * Nulls!Base(g)
  BY DEF Nulls!Excess
<1>3. 0 * Nulls!Base(g) = 0 /\ g.nulls * Nulls!Base(f) \in Nat
  BY <1>1
<1> QED  BY <1>2, <1>3 DEF Nulls!Gap

LEMMA GapOfEquals ==
    ASSUME NEW f, NEW g, f.nulls = g.nulls, f.total = g.total,
           f.nulls \in Nat, f.total \in Nat
    PROVE  Nulls!Gap(f, g) = 0
<1>1. Nulls!Base(f) \in Nat /\ Nulls!Base(g) = Nulls!Base(f)
  BY BaseType DEF Nulls!Base
<1>2. Nulls!Excess(f, g) = f.nulls * Nulls!Base(f) - f.nulls * Nulls!Base(f)
  BY <1>1 DEF Nulls!Excess
<1>3. f.nulls * Nulls!Base(f) \in Nat
  BY <1>1
<1> QED  BY <1>2, <1>3 DEF Nulls!Gap

\* A column that passes without a NULL at the source.
LEMMA NullsPass ==
    ASSUME NullsInv, NEW c \in Columns, share.nulls = 0,
           "ok" \in Nulls!Judged(share, Nulls!null_fraction("target", c))
    PROVE  100 * Nulls!Cardinality(Rotten(c))
               <= MaxDiff * Nulls!Cardinality(Nulls!RowsOf(tgt) \cup touched)
<1> DEFINE tab == Nulls!Seen("target")
           g == Nulls!null_fraction("target", c)
           r == Nulls!Cardinality(Rotten(c))
           w == Nulls!Cardinality(Nulls!RowsOf(tgt) \cup touched)
<1>0. "target" \in Nulls!Sides
  BY DEF Nulls!Sides
<1>1. /\ g.nulls = Nulls!Cardinality(NullRows(tab, c))
      /\ g.total = Nulls!Cardinality(Nulls!RowsOf(tab))
      /\ g.nulls \in 0 .. g.total
      /\ g.total \in 0 .. Nulls!Cardinality(Rows["null_rate"])
  BY <1>0, NullFraction
<1>2. Nulls!Cardinality(Rows["null_rate"]) \in Nat
  BY RowsCount
<1>3. share.total \in Nat /\ g.nulls \in Nat /\ g.total \in Nat
  BY <1>1, <1>2 DEF NullsInv, Nulls!TypeOK
<1>4. \A k \in Rows["null_rate"] \ touched : tab[k] = tgt[k]
  BY <1>0, NullsSeen DEF Nulls!Current
<1>5. touched \subseteq Rows["null_rate"]
  BY DEF NullsInv, Nulls!TypeOK, Nulls!SessionsTypeOK
<1>6. /\ NullRows(tab, c) \in SUBSET Rows["null_rate"]
      /\ Rotten(c) \in SUBSET NullRows(tab, c)
      /\ Nulls!RowsOf(tgt) \cup touched \in SUBSET Rows["null_rate"]
      /\ Nulls!RowsOf(tab) \in SUBSET (Nulls!RowsOf(tgt) \cup touched)
  BY <1>4, <1>5 DEF NullRows, Rotten, Nulls!RowsOf
<1>7. "ok" \in Nulls!Judged(share, g)
  OBVIOUS
<1>8. /\ r \in Nat /\ w \in Nat /\ r <= g.nulls /\ g.total <= w
  BY <1>1, <1>6, RowsCount
<1> HIDE DEF tab, g, r, w
<1>9. 100 * Nulls!Gap(share, g) <= MaxDiff * (Nulls!Base(share) * Nulls!Base(g))
  BY <1>7 DEF Nulls!Judged, Nulls!WithinLimit
<1>10. Nulls!Gap(share, g) = g.nulls * Nulls!Base(share)
  BY <1>3, GapFromZero
<1>11. /\ Nulls!Base(share) \in Nat /\ Nulls!Base(share) >= 1
       /\ Nulls!Base(g) \in Nat
  BY <1>3, BaseType
<1>12. 100 * g.nulls <= MaxDiff * Nulls!Base(g)
  BY <1>3, <1>9, <1>10, <1>11, PassedShare
<1>13. CASE r = 0
  BY <1>8, <1>13, NullsLimits, Monotone DEF r, w
<1>14. CASE r # 0
  <2>1. g.total >= 1 /\ Nulls!Base(g) = g.total
    BY <1>1, <1>3, <1>8, <1>14 DEF Nulls!Base
  <2>2. MaxDiff \in Nat
    BY NullsLimits
  <2>3. /\ 100 * r <= 100 * g.nulls /\ MaxDiff * g.total <= MaxDiff * w
        /\ MaxDiff * g.total \in Nat /\ MaxDiff * w \in Nat
    BY <1>3, <1>8, <2>2, Monotone
  <2>4. 100 * r <= MaxDiff * w
    BY <1>3, <1>8, <1>12, <2>1, <2>3
  <2> QED  BY <2>4 DEF r, w
<1> QED  BY <1>13, <1>14

\* A column that is blamed differs, or something was touched.
LEMMA NullsBlame ==
    ASSUME NullsInv, reading # NONE,
           "fail" \in Nulls!Judged(share, Nulls!null_fraction("target", reading))
    PROVE  \E k \in Rows["null_rate"] :
               \/ k \in touched
               \/ (k \in Nulls!RowsOf(src)) # (k \in Nulls!RowsOf(tgt))
               \/ k \in Nulls!RowsOf(src) /\ (reading \in src[k]) # (reading \in tgt[k])
<1> SUFFICES
        ASSUME ~\E k \in Rows["null_rate"] :
               \/ k \in touched
               \/ (k \in Nulls!RowsOf(src)) # (k \in Nulls!RowsOf(tgt))
               \/ k \in Nulls!RowsOf(src) /\ (reading \in src[k]) # (reading \in tgt[k])
        PROVE  FALSE
  OBVIOUS
<1> DEFINE tab == Nulls!Seen("target")
           g == Nulls!null_fraction("target", reading)
<1>0. "target" \in Nulls!Sides
  BY DEF Nulls!Sides
<1>1. touched = {}
  BY DEF NullsInv, Nulls!TypeOK, Nulls!SessionsTypeOK
<1>2. /\ g.nulls = Nulls!Cardinality(NullRows(tab, reading))
      /\ g.total = Nulls!Cardinality(Nulls!RowsOf(tab))
      /\ g.nulls \in 0 .. g.total
      /\ g.total \in 0 .. Nulls!Cardinality(Rows["null_rate"])
  BY <1>0, NullFraction
<1>3. \A k \in Rows["null_rate"] : tab[k] = tgt[k]
  BY <1>0, <1>1, NullsSeen DEF Nulls!Current
<1>4. Nulls!RowsOf(tab) = Nulls!RowsOf(src)
  BY <1>3 DEF Nulls!RowsOf
<1>5. NullRows(tab, reading) = NullRows(src, reading)
  BY <1>3, <1>4 DEF NullRows, Nulls!RowsOf
<1>6. share.nulls = g.nulls /\ share.total = g.total
  BY <1>1, <1>2, <1>4, <1>5 DEF NullsInv, ShareKnown
<1>7. share.nulls \in Nat /\ share.total \in Nat
  BY RowsCount DEF NullsInv, Nulls!TypeOK
<1>8. "fail" \in Nulls!Judged(share, g)
  OBVIOUS
<1> HIDE DEF tab, g
<1>9. Nulls!Gap(share, g) = 0
  BY <1>6, <1>7, GapOfEquals
<1> QED  BY <1>8, <1>9 DEF Nulls!Judged, Nulls!WithinLimit

LEMMA NullsJudges ==
    ASSUME NullsInv, Nulls!ReadTarget, NullsQuiet
    PROVE  NullsInv'
<1> DEFINE g == Nulls!null_fraction("target", reading)
<1>1. PICK said \in Nulls!Judged(share, g) :
          offenders' = offenders \cup (IF said = "fail" THEN {reading} ELSE {})
  BY DEF Nulls!ReadTarget
<1>2. /\ reading # NONE /\ todo' = todo \ {reading} /\ reading' = NONE
      /\ UNCHANGED <<columns, share, status>>
  BY DEF Nulls!ReadTarget
<1>3. /\ Nulls!SessionsTypeOK' /\ Nulls!SnapshotOK' /\ HadNullKnown'
      /\ UNCHANGED <<src, tgt, pipe, writes, touched, hadNull>>
  BY NullsReads DEF Nulls!ReadTarget, Nulls!Sides
<1>4. /\ reading \in todo /\ reading \in Columns /\ columns # NONE /\ status = "none"
      /\ todo \subseteq Columns
  BY <1>2 DEF NullsInv, PlaceKnown, Nulls!TypeOK
<1>5. said \in {"ok", "fail"}
  BY <1>1 DEF Nulls!Judged, Nulls!WithinLimit
<1> HIDE DEF g
<1>6. offenders' \subseteq offenders \cup {reading} /\ offenders \subseteq offenders'
  BY <1>1
<1>7. Nulls!TypeOK'
  BY <1>2, <1>3, <1>4, <1>6 DEF NullsInv, Nulls!TypeOK
<1>8. PlaceKnown' /\ ShareKnown'
  BY <1>2, <1>4 DEF PlaceKnown, ShareKnown
<1>9. PassedKnown'
  <2>1. ASSUME reading \notin hadNull \cup offenders'
        PROVE  100 * Nulls!Cardinality(Rotten(reading))
                   <= MaxDiff * Nulls!Cardinality(Nulls!RowsOf(tgt) \cup touched)
    <3>1. "ok" \in Nulls!Judged(share, g)
      BY <1>1, <1>5, <2>1
    <3>2. share.nulls = 0
      BY <1>2, <2>1 DEF NullsInv, ShareKnown
    <3> QED  BY <1>4, <3>1, <3>2, NullsPass DEF g
  <2>2. \A c : Rotten(c)' = Rotten(c)
    BY <1>3 DEF Rotten, Nulls!RowsOf
  <2>3. Nulls!RowsOf(tgt)' = Nulls!RowsOf(tgt)
    BY <1>3 DEF Nulls!RowsOf
  <2>4. \A c \in columns \ (todo' \cup hadNull \cup offenders') :
            100 * Nulls!Cardinality(Rotten(c))
                <= MaxDiff * Nulls!Cardinality(Nulls!RowsOf(tgt) \cup touched)
    BY <1>2, <1>4, <1>6, <2>1 DEF NullsInv, PassedKnown
  <2> QED  BY <1>2, <1>3, <2>2, <2>3, <2>4 DEF PassedKnown
<1>10. Nulls!NullAlarmHasACause'
  <2>1. ASSUME reading \in offenders', reading \notin offenders
        PROVE  \E k \in Rows["null_rate"] :
                 \/ k \in touched
                 \/ (k \in Nulls!RowsOf(src)) # (k \in Nulls!RowsOf(tgt))
                 \/ k \in Nulls!RowsOf(src) /\ (reading \in src[k]) # (reading \in tgt[k])
    <3>1. "fail" \in Nulls!Judged(share, g)
      BY <1>1, <2>1
    <3> QED  BY <1>2, <3>1, NullsBlame DEF g
  <2> QED  BY <1>3, <1>6, <2>1 DEF NullsInv, Nulls!NullAlarmHasACause, Nulls!RowsOf
<1> QED  BY <1>3, <1>7, <1>8, <1>9, <1>10 DEF NullsInv

LEMMA NullsFinish ==
    ASSUME NullsInv, Nulls!Finish, NullsQuiet
    PROVE  NullsInv'
<1>1. /\ columns # NONE /\ todo = {}
      /\ status' = IF offenders = {} THEN "ok" ELSE "fail"
      /\ UNCHANGED <<src, tgt, pipe, writes, touched, hadNull, view, columns, todo,
                     reading, share, offenders>>
  BY DEF Nulls!Finish, NullsQuiet, Nulls!replVars
<1>2. Nulls!TypeOK'
  BY <1>1 DEF NullsInv, Nulls!TypeOK, Nulls!SessionsTypeOK, Nulls!ReplTypeOK
<1>3. PlaceKnown'
  BY <1>1 DEF NullsInv, PlaceKnown
<1>4. Nulls!SnapshotOK' /\ HadNullKnown'
  BY <1>1
     DEF NullsInv, Nulls!SnapshotOK, Nulls!Current, HadNullKnown, Nulls!NullsIn,
              Nulls!RowsOf
<1>5. ShareKnown' /\ PassedKnown' /\ Nulls!NullAlarmHasACause'
  BY <1>1 DEF NullsInv, ShareKnown, PassedKnown, NullRows, Rotten, Nulls!RowsOf,
              Nulls!NullAlarmHasACause
<1> QED  BY <1>2, <1>3, <1>4, <1>5 DEF NullsInv

LEMMA NullsWorldStep ==
    ASSUME NullsInv, Nulls!World, status = "none", UNCHANGED Nulls!checkVars
    PROVE  NullsInv'
<1>1. /\ UNCHANGED <<view, columns, todo, reading, share, offenders, status>>
      /\ hadNull' = hadNull \cup Nulls!NullsIn(src')
  BY DEF Nulls!checkVars, Nulls!World
<1>2. Nulls!ReplTypeOK' /\ Nulls!SessionsTypeOK' /\ Nulls!SnapshotOK'
  BY <1>1, NullsWorld, Nulls!ReplicateType, Nulls!WorldType, Nulls!WorldSnapshot
     DEF Nulls!World, NullsInv, Nulls!TypeOK, Nulls!SessionsTypeOK
<1>3. Nulls!TypeOK'
  BY <1>1, <1>2 DEF NullsInv, Nulls!TypeOK, Nulls!NullsIn
<1>4. PlaceKnown'
  BY <1>1 DEF NullsInv, PlaceKnown
<1>5. HadNullKnown'
  BY <1>1 DEF NullsInv, HadNullKnown, Nulls!NullsIn, Nulls!RowsOf
<1>6. /\ touched \subseteq touched' /\ touched' \subseteq Rows["null_rate"]
      /\ \A k \in Rows["null_rate"] \ touched' :
            k \notin touched /\ src'[k] = src[k] /\ tgt'[k] = tgt[k]
  BY <1>2, NullsWorld, Nulls!NotedQuiet DEF Nulls!World, Nulls!SessionsTypeOK
<1>7. ShareKnown'
  <2>1. touched' = {} =>
            /\ touched = {}
            /\ \A c : NullRows(src, c)' = NullRows(src, c)
            /\ Nulls!RowsOf(src)' = Nulls!RowsOf(src)
    BY <1>6 DEF NullRows, Nulls!RowsOf
  <2> QED  BY <1>1, <2>1 DEF NullsInv, ShareKnown
<1>8. PassedKnown'
  <2> SUFFICES ASSUME columns # NONE, NEW c \in columns \ (todo \cup hadNull \cup offenders)
               PROVE  100 * Nulls!Cardinality(Rotten(c)')
                          <= MaxDiff * Nulls!Cardinality(Nulls!RowsOf(tgt)' \cup touched')
    BY <1>1 DEF PassedKnown
  <2>1. /\ Rotten(c) \in SUBSET Rows["null_rate"]
        /\ Rotten(c)' \in SUBSET Rotten(c)
    BY <1>6 DEF Rotten, Nulls!RowsOf
  <2>2. /\ Nulls!RowsOf(tgt)' \cup touched' \in SUBSET Rows["null_rate"]
        /\ Nulls!RowsOf(tgt) \cup touched \in SUBSET (Nulls!RowsOf(tgt)' \cup touched')
    BY <1>6 DEF Nulls!RowsOf, NullsInv, Nulls!TypeOK, Nulls!SessionsTypeOK
  <2> DEFINE r == Nulls!Cardinality(Rotten(c))
             rr == Nulls!Cardinality(Rotten(c)')
             w == Nulls!Cardinality(Nulls!RowsOf(tgt) \cup touched)
             ww == Nulls!Cardinality(Nulls!RowsOf(tgt)' \cup touched')
  <2>3. r \in Nat /\ rr \in Nat /\ w \in Nat /\ ww \in Nat /\ rr <= r /\ w <= ww
    BY <2>1, <2>2, RowsCount
  <2>4. 100 * r <= MaxDiff * w
    BY DEF NullsInv, PassedKnown
  <2> HIDE DEF r, rr, w, ww
  <2>5. MaxDiff * w <= MaxDiff * ww /\ MaxDiff * w \in Nat /\ MaxDiff * ww \in Nat
    BY <2>3, NullsLimits, Monotone
  <2>6. 100 * rr <= MaxDiff * ww
    BY <2>3, <2>4, <2>5
  <2> QED  BY <2>6 DEF rr, ww
<1>9. Nulls!NullAlarmHasACause'
  <2> SUFFICES ASSUME NEW c \in offenders
               PROVE  \E k \in Rows["null_rate"] :
                        \/ k \in touched'
                        \/ (k \in Nulls!RowsOf(src)') # (k \in Nulls!RowsOf(tgt)')
                        \/ k \in Nulls!RowsOf(src)' /\ (c \in src'[k]) # (c \in tgt'[k])
    BY <1>1 DEF Nulls!NullAlarmHasACause
  <2>1. PICK k \in Rows["null_rate"] :
                        \/ k \in touched
                        \/ (k \in Nulls!RowsOf(src)) # (k \in Nulls!RowsOf(tgt))
                        \/ k \in Nulls!RowsOf(src) /\ (c \in src[k]) # (c \in tgt[k])
    BY DEF NullsInv, Nulls!NullAlarmHasACause
  <2>2. CASE k \in touched'
    BY <2>2
  <2>3. CASE k \notin touched'
    BY <1>6, <2>1, <2>3 DEF Nulls!RowsOf
  <2> QED  BY <2>2, <2>3
<1> QED  BY <1>2, <1>3, <1>4, <1>5, <1>7, <1>8, <1>9 DEF NullsInv

LEMMA NullsInit == Nulls!Init => NullsInv
<1> SUFFICES ASSUME Nulls!Init  PROVE NullsInv
  OBVIOUS
<1>1. /\ Nulls!Cardinality(Rows["null_rate"]) \in Nat
      /\ MaxWrites["null_rate"] \in Nat
  BY NullsWorld, RowsCount
<1>2. /\ 0 \in 0 .. Nulls!Cardinality(Rows["null_rate"]) /\ 0 \in 0 .. 0
      /\ 0 \in 0 .. MaxWrites["null_rate"] /\ <<>> \in Seq(Nulls!Change)
  BY <1>1
<1>3. Nulls!TypeOK
  BY <1>2 DEF Nulls!Init, Nulls!SessionsInit, Nulls!ReplInit, Nulls!TypeOK,
              Nulls!SessionsTypeOK, Nulls!ReplTypeOK, Nulls!NullsIn
<1>4. Nulls!SnapshotOK /\ HadNullKnown
  BY DEF Nulls!Init, Nulls!SessionsInit, Nulls!SnapshotOK, HadNullKnown, Nulls!Sides
<1>5. PlaceKnown /\ ShareKnown /\ PassedKnown /\ Nulls!NullAlarmHasACause
  BY DEF Nulls!Init, PlaceKnown, ShareKnown, PassedKnown, Nulls!NullAlarmHasACause
<1> QED  BY <1>3, <1>4, <1>5 DEF NullsInv

LEMMA NullsStep ==
    ASSUME NullsInv, [Nulls!Next]_Nulls!vars
    PROVE  NullsInv'
<1>1. CASE Nulls!Check /\ NullsQuiet
  BY <1>1, NullsEarlier, NullsStarts, NullsReadsSource, NullsJudges, NullsFinish
     DEF Nulls!Check
<1>2. CASE Nulls!World /\ status = "none" /\ UNCHANGED Nulls!checkVars
  BY <1>2, NullsWorldStep
<1>3. CASE UNCHANGED Nulls!vars
  <2>1. UNCHANGED <<src, tgt, pipe, writes, touched, view, columns, todo, reading, share,
                    offenders, status, hadNull>>
    BY <1>3 DEF Nulls!vars, Nulls!replVars, Nulls!checkVars
  <2>2. Nulls!TypeOK' /\ PlaceKnown'
    BY <2>1
       DEF NullsInv, Nulls!TypeOK, Nulls!SessionsTypeOK, Nulls!ReplTypeOK,
           PlaceKnown
  <2>3. Nulls!SnapshotOK' /\ HadNullKnown'
    BY <2>1
       DEF NullsInv, Nulls!SnapshotOK, Nulls!Current, HadNullKnown, Nulls!NullsIn,
                Nulls!RowsOf
  <2>4. ShareKnown' /\ PassedKnown' /\ Nulls!NullAlarmHasACause'
    BY <2>1 DEF NullsInv, ShareKnown, PassedKnown, NullRows, Rotten, Nulls!RowsOf,
                Nulls!NullAlarmHasACause
  <2> QED  BY <2>2, <2>3, <2>4 DEF NullsInv
<1> QED  BY <1>1, <1>2, <1>3 DEF Nulls!Next, NullsQuiet

NullsHolds == which = "null_rate" => NullsInv

LEMMA NullsInvariant == Spec => []NullsHolds
<1>1. Init => NullsHolds
  BY NullsInit DEF Init, NullsHolds
<1>2. NullsHolds /\ [Next]_vars => NullsHolds'
  <2> SUFFICES ASSUME NullsHolds, [Next]_vars, which' = "null_rate"
               PROVE  NullsInv'
    BY DEF NullsHolds
  <2>1. which = "null_rate" /\ [Nulls!Next]_Nulls!vars
    BY DEF Next, vars, tableVars, Nulls!vars, Nulls!replVars, Nulls!checkVars,
       nullRateVars
  <2> QED  BY <2>1, NullsStep DEF NullsHolds
<1> QED  BY <1>1, <1>2, PTL DEF Spec

\* NullRateCheck.run misses no NULLs the source never had: if their rows are
\* more than max_diff_pp percent, the check FAILs, however rows change between
\* its queries and whatever snapshot these are answered from.
THEOREM NullCorruptionTheorem == Spec => []NullCorruptionIsNoticed
<1>1. NullsInv => Nulls!NullCorruptionIsNoticed
  <2> SUFFICES ASSUME NullsInv, status # "none", NEW c \in columns \ hadNull,
                      100 * Nulls!Cardinality(Rotten(c))
                          > MaxDiff * Nulls!Cardinality(Nulls!RowsOf(tgt) \cup touched)
               PROVE  status = "fail"
    BY DEF Nulls!NullCorruptionIsNoticed, Rotten
  <2>1. columns # NONE /\ todo = {} /\ status \in {"ok", "fail"}
    BY DEF NullsInv, Nulls!TypeOK
  <2>2. /\ Rotten(c) \in SUBSET Rows["null_rate"]
        /\ Nulls!RowsOf(tgt) \cup touched \in SUBSET Rows["null_rate"]
    BY DEF Rotten, Nulls!RowsOf, NullsInv, Nulls!TypeOK, Nulls!SessionsTypeOK
  <2> DEFINE r == Nulls!Cardinality(Rotten(c))
             w == Nulls!Cardinality(Nulls!RowsOf(tgt) \cup touched)
  <2>3. r \in Nat /\ w \in Nat
    BY <2>2, RowsCount
  <2>4. ~(100 * r <= MaxDiff * w)
    <3>1. 100 * r > MaxDiff * w
      OBVIOUS
    <3> HIDE DEF r, w
    <3>2. 100 * r \in Nat /\ MaxDiff * w \in Nat
      BY <2>3, NullsLimits
    <3> QED  BY <3>1, <3>2
  <2>5. c \in offenders
    BY <2>1, <2>4 DEF NullsInv, PassedKnown
  <2> QED  BY <2>1, <2>5 DEF NullsInv, PlaceKnown
<1>2. NullsHolds => NullCorruptionIsNoticed
  BY <1>1 DEF NullsHolds, NullCorruptionIsNoticed
<1> QED  BY NullsInvariant, <1>2, PTL

\* A column NullRateCheck.run lists as an offender differs between the two
\* sides, or a row was changed since the sessions were opened.
THEOREM NullAlarmTheorem == Spec => []NullAlarmHasACause
<1>1. NullsHolds => NullAlarmHasACause
  BY DEF NullsHolds, NullsInv, NullAlarmHasACause
<1> QED  BY NullsInvariant, <1>1, PTL

-----------------------------------------------------------------------------
(* schema_drift.  What was read at the source is still true of the columns  *)
(* nobody altered in between (SourceKnown), and of those the two sides      *)
(* never differed in (DifferedKnown).                                       *)

LEMMA DriftWorld ==
    /\ {} \subseteq Drift!Sides /\ NONE \notin Drift!Table
    /\ Drift!IsFiniteSet(Rows["schema_drift"])
    /\ Absent \notin Types /\ MaxWrites["schema_drift"] \in Nat
  BY DriftAssumption DEF Drift!ReplicationAssumption, Drift!SessionsAssumption

\* What was read at the source is still true of the columns nobody altered.
SourceKnown ==
    pc = "target" =>
        \A c \in Rows["schema_drift"] \ (touched \cup Ignored) :
            /\ c \in DOMAIN src_schema <=> c \in Drift!RowsOf(src)
            /\ c \in Drift!RowsOf(src) => src_schema[c] = Drift!Reported("source", src[c])

\* A column on which the two sides never differed has shown the same all the
\* time, since a step of the world changes one side only; the read at the source
\* saw what it still shows.
DifferedKnown ==
    /\ Drift!Unlike \subseteq differed
    /\ pc = "target" =>
           \A c \in (Rows["schema_drift"] \ differed) \ Ignored :
               /\ c \in DOMAIN src_schema <=> c \in Drift!RowsOf(src)
               /\ c \in Drift!RowsOf(src) =>
                      src_schema[c] = Drift!Reported("source", src[c])

DriftInv ==
    /\ Drift!TypeOK /\ SourceKnown /\ DifferedKnown
    /\ Drift!LateColumnIsFail /\ Drift!MigrationIsFail /\ Drift!DriftAlarmHasACause

LEMMA CoarseType ==
    ASSUME NEW e \in Drift!Engines, NEW name
    PROVE  Drift!Coarse(e, name) \in Drift!COARSE_TYPES
<1> DEFINE hits == {c \in DOMAIN Drift!_COARSE[e] : name \in Drift!_COARSE[e][c]}
<1>1. DOMAIN Drift!_COARSE[e] \subseteq Drift!COARSE_TYPES
  <2>1. /\ DOMAIN Drift!_MYSQL \subseteq Drift!COARSE_TYPES
        /\ DOMAIN Drift!_POSTGRES \subseteq Drift!COARSE_TYPES
        /\ DOMAIN Drift!_BIGQUERY \subseteq Drift!COARSE_TYPES
    BY DEF Drift!_MYSQL, Drift!_POSTGRES, Drift!_BIGQUERY, Drift!COARSE_TYPES
  <2>2. Drift!_COARSE[e] \in {Drift!_MYSQL, Drift!_POSTGRES, Drift!_BIGQUERY}
    BY DEF Drift!_COARSE, Drift!Engines
  <2> QED  BY <2>1, <2>2
<1>2. "other" \in Drift!COARSE_TYPES
  BY DEF Drift!COARSE_TYPES
<1>3. Drift!Coarse(e, name) = IF hits = {} THEN "other" ELSE CHOOSE c \in hits : TRUE
  BY DEF Drift!Coarse
<1>4. hits # {} => (CHOOSE c \in hits : TRUE) \in hits
  <2> HIDE DEF hits
  <2> QED  OBVIOUS
<1>5. hits \subseteq Drift!COARSE_TYPES
  BY <1>1
<1> QED  BY <1>2, <1>3, <1>4, <1>5

\* What a side's schema query returns, without the columns to skip.
LEMMA SchemaRead ==
    ASSUME NEW s \in Drift!Sides
    PROVE  LET cols == Drift!Considered(Drift!schema(s))
           IN  /\ DOMAIN cols = Drift!RowsOf(Drift!Current(s)) \ Ignored
               /\ \A c \in DOMAIN cols : cols[c] = Drift!Reported(s, Drift!Current(s)[c])
  BY DEF Drift!Considered, Drift!schema

\* Also by its reads of the world the check has not changed what differs.
LEMMA UnlikeStays ==
    ASSUME UNCHANGED <<src, tgt, engine>>
    PROVE  Drift!Unlike' = Drift!Unlike
  BY DEF Drift!Unlike, Drift!Alike, Drift!RowsOf, Drift!Reported

LEMMA DriftReadsSource ==
    ASSUME DriftInv, Drift!ReadSource, UNCHANGED <<Drift!replVars, touched, differed>>
    PROVE  DriftInv'
<1>1. /\ pc' = "target"
      /\ src_schema' = Drift!Considered(Drift!schema("source"))
      /\ UNCHANGED <<src, tgt, pipe, writes, touched, differed, view, engine, status,
                     missing_in_target, extra_in_target, type_changed>>
  BY DEF Drift!ReadSource, Drift!replVars, Drift!verdict
<1>2. /\ DOMAIN src_schema' = Drift!RowsOf(src) \ Ignored
      /\ \A c \in DOMAIN src_schema' : src_schema'[c] = Drift!Reported("source", src[c])
  BY <1>1, SchemaRead DEF Drift!Sides, Drift!Current
<1>3. SourceKnown'
  BY <1>1, <1>2 DEF SourceKnown, Drift!RowsOf, Drift!Reported
<1>5. DifferedKnown'
  <2>1. Drift!Unlike' \subseteq differed'
    BY <1>1, UnlikeStays DEF DriftInv, DifferedKnown
  <2> QED  BY <1>1, <1>2, <2>1 DEF DifferedKnown, Drift!RowsOf, Drift!Reported
<1>4. Drift!TypeOK'
  <2>1. \A c \in DOMAIN src_schema' : src_schema'[c] \in Drift!COARSE_TYPES
    BY <1>2, CoarseType DEF Drift!Reported, DriftInv, Drift!TypeOK, Drift!Sides
  <2>2. DOMAIN src_schema' \subseteq Rows["schema_drift"] \ Ignored
    BY <1>2 DEF Drift!RowsOf
  <2> QED  BY <1>1, <2>1, <2>2
              DEF DriftInv, Drift!TypeOK, Drift!SessionsTypeOK, Drift!ReplTypeOK
<1> QED  BY <1>1, <1>3, <1>4, <1>5
         DEF DriftInv, Drift!LateColumnIsFail, Drift!MigrationIsFail,
             Drift!DriftAlarmHasACause

LEMMA DriftReadsTarget ==
    ASSUME DriftInv, Drift!ReadTarget, UNCHANGED <<Drift!replVars, touched, differed>>
    PROVE  DriftInv'
<1> DEFINE tgt_schema == Drift!Considered(Drift!schema("target"))
<1>1. /\ pc = "target" /\ pc' = "done"
      /\ missing_in_target' = DOMAIN src_schema \ DOMAIN tgt_schema
      /\ extra_in_target' = DOMAIN tgt_schema \ DOMAIN src_schema
      /\ type_changed' = {c \in DOMAIN src_schema \cap DOMAIN tgt_schema :
                              src_schema[c] # tgt_schema[c]}
      /\ status' = IF missing_in_target' \cup type_changed' # {} THEN "fail"
                   ELSE IF extra_in_target' # {} THEN "warn" ELSE "ok"
      /\ UNCHANGED <<src, tgt, pipe, writes, touched, differed, view, engine, src_schema>>
  BY DEF Drift!ReadTarget, Drift!replVars, Drift!Retyped, Drift!Verdict
<1>2. /\ DOMAIN tgt_schema = Drift!RowsOf(tgt) \ Ignored
      /\ \A c \in DOMAIN tgt_schema : tgt_schema[c] = Drift!Reported("target", tgt[c])
  BY SchemaRead DEF Drift!Sides, Drift!Current
<1> HIDE DEF tgt_schema
<1>3. Drift!TypeOK'
  <2>1. missing_in_target' \cup extra_in_target' \cup type_changed'
            \subseteq Rows["schema_drift"]
    BY <1>1, <1>2 DEF DriftInv, Drift!TypeOK, Drift!RowsOf
  <2>2. status' \in {"ok", "warn", "fail"}
    BY <1>1
  <2> QED  BY <1>1, <2>1, <2>2
              DEF DriftInv, Drift!TypeOK, Drift!SessionsTypeOK, Drift!ReplTypeOK
<1>4. SourceKnown'
  BY <1>1 DEF SourceKnown
<1>5. \A c \in Rows["schema_drift"] \ (touched \cup Ignored) :
          /\ c \in DOMAIN src_schema <=> c \in Drift!RowsOf(src)
          /\ c \in Drift!RowsOf(src) => src_schema[c] = Drift!Reported("source", src[c])
  BY <1>1 DEF DriftInv, SourceKnown
<1>6. /\ Drift!RowsOf(src)' = Drift!RowsOf(src) /\ Drift!RowsOf(tgt)' = Drift!RowsOf(tgt)
      /\ Drift!RowsOf(src) \subseteq Rows["schema_drift"]
      /\ engine["source"] \in Drift!Engines /\ engine["target"] \in Drift!Engines
      /\ src \in Drift!Table /\ tgt \in Drift!Table
      /\ DOMAIN src_schema \cap Ignored = {}
  BY <1>1
     DEF Drift!RowsOf, DriftInv, Drift!TypeOK, Drift!Sides, Drift!SessionsTypeOK,
              Drift!ReplTypeOK
<1>7. Drift!LateColumnIsFail'
  BY <1>1, <1>2, <1>5, <1>6 DEF Drift!LateColumnIsFail
<1>8. Drift!MigrationIsFail'
  <2> SUFFICES ASSUME NEW c \in (Drift!RowsOf(src) \cap Drift!RowsOf(tgt))
                                    \ (touched \cup Ignored),
                      Drift!Migrated(src[c], tgt[c])
               PROVE  status' = "fail" /\ c \in type_changed'
    BY <1>1, <1>6 DEF Drift!MigrationIsFail, Drift!Migrated
  <2>1. Drift!Reported("source", src[c]) # Drift!Reported("target", tgt[c])
    BY <1>6 DEF Drift!Migrated, Drift!Reported
  <2>2. c \in DOMAIN src_schema \cap DOMAIN tgt_schema
    BY <1>2, <1>5, <1>6
  <2>3. c \in type_changed'
    BY <1>1, <1>2, <1>5, <1>6, <2>1, <2>2
  <2> QED  BY <1>1, <2>3
<1>9. Drift!DriftAlarmHasACause' /\ DifferedKnown'
  <2>1. ASSUME NEW c \in Rows["schema_drift"] \ differed
        PROVE  c \notin missing_in_target' \cup extra_in_target' \cup type_changed'
    <3>1. /\ c \in Drift!RowsOf(src) <=> c \in Drift!RowsOf(tgt)
          /\ c \in Drift!RowsOf(src) =>
                 Drift!Reported("source", src[c]) = Drift!Reported("target", tgt[c])
      BY <2>1 DEF DriftInv, DifferedKnown, Drift!Unlike, Drift!Alike
    <3>2. CASE c \in Ignored
      BY <1>1, <1>2, <1>6, <3>2
    <3>3. CASE c \notin Ignored
      <4>1. /\ c \in DOMAIN src_schema <=> c \in Drift!RowsOf(src)
            /\ c \in Drift!RowsOf(src) =>
                   src_schema[c] = Drift!Reported("source", src[c])
        BY <1>1, <2>1, <3>3 DEF DriftInv, DifferedKnown
      <4> QED  BY <1>1, <1>2, <3>1, <3>3, <4>1
    <3> QED  BY <3>2, <3>3
  <2>2. missing_in_target' \cup extra_in_target' \cup type_changed'
            \subseteq Rows["schema_drift"]
    BY <1>3 DEF Drift!TypeOK
  <2>3. Drift!Unlike' \subseteq differed'
    BY <1>1, UnlikeStays DEF DriftInv, DifferedKnown
  <2> QED  BY <1>1, <2>1, <2>2, <2>3 DEF Drift!DriftAlarmHasACause, DifferedKnown
<1> QED  BY <1>3, <1>4, <1>7, <1>8, <1>9 DEF DriftInv

LEMMA DriftWorldStep ==
    ASSUME DriftInv, Drift!Replicate, Drift!Noted, pc # "done", UNCHANGED Drift!checkVars,
           differed' = differed \cup Drift!Unlike'
    PROVE  DriftInv'
<1>1. UNCHANGED <<view, engine, pc, src_schema, missing_in_target, extra_in_target,
                  type_changed, status>>
  BY DEF Drift!checkVars, Drift!verdict
<1>2. Drift!SessionsTypeOK'
  BY <1>1, DriftWorld, Drift!ReplicateType, Drift!WorldType
     DEF DriftInv, Drift!TypeOK, Drift!SessionsTypeOK
<1>3. Drift!TypeOK'
  <2>1. Drift!Unlike' \subseteq Rows["schema_drift"]
    BY DEF Drift!Unlike
  <2> QED  BY <1>1, <1>2, <2>1 DEF DriftInv, Drift!TypeOK
<1>4. SourceKnown'
  <2>1. \A c \in Rows["schema_drift"] \ touched' : c \notin touched /\ src'[c] = src[c]
    BY DriftWorld, Drift!NotedQuiet
  <2> QED  BY <1>1, <2>1 DEF SourceKnown, DriftInv, Drift!RowsOf, Drift!Reported
\* A step changes one side.  A column alike before and after it reports the same
\* as the side that did not change.
<1>5. DifferedKnown'
  <2>1. src' = src \/ tgt' = tgt
    BY DEF Drift!Replicate, Drift!Write, Drift!Deliver, Drift!Garble, Drift!Lose,
           Drift!Apply
  <2>2. ASSUME NEW c \in Rows["schema_drift"] \ differed'
        PROVE  /\ c \in Drift!RowsOf(src)' <=> c \in Drift!RowsOf(src)
               /\ c \in Drift!RowsOf(src) =>
                      Drift!Reported("source", src[c])' = Drift!Reported("source", src[c])
    <3>1. Drift!Alike(c) /\ Drift!Alike(c)'
      BY <2>2 DEF DriftInv, DifferedKnown, Drift!Unlike
    <3>2. CASE src' = src
      BY <1>1, <3>2 DEF Drift!RowsOf, Drift!Reported
    <3>3. CASE tgt' = tgt
      <4>1. Drift!RowsOf(tgt)' = Drift!RowsOf(tgt)
        BY <3>3 DEF Drift!RowsOf
      <4>2. Drift!Reported("target", tgt[c])' = Drift!Reported("target", tgt[c])
        BY <1>1, <3>3 DEF Drift!Reported
      <4> QED  BY <3>1, <4>1, <4>2 DEF Drift!Alike
    <3> QED  BY <2>1, <3>2, <3>3
  <2>3. differed \subseteq differed' /\ Drift!Unlike' \subseteq differed'
    OBVIOUS
  <2> QED  BY <1>1, <2>2, <2>3 DEF DriftInv, DifferedKnown
<1> QED  BY <1>1, <1>3, <1>4, <1>5
         DEF DriftInv, Drift!LateColumnIsFail, Drift!MigrationIsFail,
             Drift!DriftAlarmHasACause

LEMMA DriftInit == Drift!Init => DriftInv
<1>1. 0 \in 0 .. MaxWrites["schema_drift"] /\ <<>> \in Seq(Drift!Change)
  BY DriftWorld
<1> QED  BY <1>1
         DEF Drift!Init, Drift!SessionsInit, Drift!ReplInit, DriftInv, Drift!TypeOK,
             Drift!SessionsTypeOK, Drift!ReplTypeOK, SourceKnown, DifferedKnown,
             Drift!Unlike, Drift!LateColumnIsFail, Drift!MigrationIsFail,
             Drift!DriftAlarmHasACause

LEMMA DriftStep ==
    ASSUME DriftInv, [Drift!Next]_Drift!vars
    PROVE  DriftInv'
<1>1. CASE Drift!Check /\ UNCHANGED <<Drift!replVars, touched, differed>>
  BY <1>1, DriftReadsSource, DriftReadsTarget DEF Drift!Check
<1>2. CASE /\ Drift!Replicate /\ Drift!Noted /\ pc # "done" /\ UNCHANGED Drift!checkVars
           /\ differed' = differed \cup Drift!Unlike'
  BY <1>2, DriftWorldStep
<1>3. CASE UNCHANGED Drift!vars
  <2>1. UNCHANGED <<src, tgt, pipe, writes, touched, differed, view, engine, pc,
                    src_schema, missing_in_target, extra_in_target, type_changed,
                    status>>
    BY <1>3 DEF Drift!vars, Drift!replVars, Drift!checkVars, Drift!verdict
  <2>2. Drift!Unlike' = Drift!Unlike
    BY <2>1, UnlikeStays
  <2>3. Drift!TypeOK'
    BY <2>1 DEF DriftInv, Drift!TypeOK, Drift!SessionsTypeOK, Drift!ReplTypeOK
  <2>4. SourceKnown' /\ DifferedKnown'
    BY <2>1, <2>2 DEF DriftInv, SourceKnown, DifferedKnown, Drift!Reported, Drift!RowsOf
  <2>5. /\ Drift!LateColumnIsFail' /\ Drift!MigrationIsFail'
        /\ Drift!DriftAlarmHasACause'
    BY <2>1 DEF DriftInv, Drift!RowsOf, Drift!LateColumnIsFail, Drift!MigrationIsFail,
                Drift!DriftAlarmHasACause
  <2> QED  BY <2>3, <2>4, <2>5 DEF DriftInv
<1> QED  BY <1>1, <1>2, <1>3 DEF Drift!Next

DriftHolds == which = "schema_drift" => DriftInv

LEMMA DriftInvariant == Spec => []DriftHolds
<1>1. Init => DriftHolds
  BY DriftInit DEF Init, DriftHolds
<1>2. DriftHolds /\ [Next]_vars => DriftHolds'
  <2> SUFFICES ASSUME DriftHolds, [Next]_vars, which' = "schema_drift"
               PROVE  DriftInv'
    BY DEF DriftHolds
  <2>1. which = "schema_drift" /\ [Drift!Next]_Drift!vars
    BY DEF Next, vars, tableVars, Drift!vars, Drift!replVars, Drift!checkVars,
       Drift!verdict, driftVars
  <2> QED  BY <2>1, DriftStep DEF DriftHolds
<1> QED  BY <1>1, <1>2, PTL DEF Spec

\* SchemaDriftCheck.run reports every column that is missing at the target as
\* FAIL, whatever else drifts and is altered between its two queries.
THEOREM LateColumnTheorem == Spec => []LateColumnIsFail
<1>1. DriftHolds => LateColumnIsFail
  BY DEF DriftHolds, DriftInv, LateColumnIsFail
<1> QED  BY DriftInvariant, <1>1, PTL

\* A column whose two types no engine spells alike is a FAIL, between any two
\* engines and whatever else drifts.
THEOREM MigrationTheorem == Spec => []MigrationIsFail
<1>1. DriftHolds => MigrationIsFail
  BY DEF DriftHolds, DriftInv, MigrationIsFail
<1> QED  BY DriftInvariant, <1>1, PTL

\* A column SchemaDriftCheck.run names did differ at some moment of the check,
\* whatever is altered between its two queries and however the engines spell
\* their types.
THEOREM DriftAlarmTheorem == Spec => []DriftAlarmHasACause
<1>1. DriftHolds => DriftAlarmHasACause
  BY DEF DriftHolds, DriftInv, DriftAlarmHasACause
<1> QED  BY DriftInvariant, <1>1, PTL

-----------------------------------------------------------------------------
(* sampled_checksum, up to its draw.  The key and the columns it settles    *)
(* for are those of the options and the two schemas (KeyKnown,              *)
(* ColumnsKnown).                                                           *)

LEMMA SelectWorld ==
    /\ {} \subseteq Select!Sides /\ NONE \notin Select!Table
    /\ Select!IsFiniteSet(Rows["sampled_checksum"])
    /\ Absent \notin Types /\ MaxWrites["sampled_checksum"] \in Nat
  BY SelectAssumption DEF Select!ReplicationAssumption, Select!SessionsAssumption

\* The key is the one the options name, or the primary key as far as the user
\* of the source can see it.
KeyKnown ==
    /\ grant \in Grants
    /\ pc # "key" =>
          key = IF options.key = "auto" THEN Select!primary_key ELSE options.key
    /\ pc \in {"source", "target", "columns", "type", "draw"} => key # NONE

\* With "auto", what is known of the columns nobody altered.
ColumnsKnown ==
    /\ pc \in {"source", "target"} => options.columns = NONE
    /\ options.columns = NONE =>
          /\ pc = "target" =>
                \A c \in Rows["sampled_checksum"] \ touched :
                    c \in columns <=> c \in Select!RowsOf(src)
          /\ pc = "columns" =>
                \A c \in Rows["sampled_checksum"] \ touched :
                    c \in columns <=> c \in Select!RowsOf(src) \cap Select!RowsOf(tgt)
          /\ pc = "type" =>
                \A c \in Rows["sampled_checksum"]
                            \ (touched \cup options.ignore_columns \cup {key}) :
                    c \in columns <=> c \in Select!RowsOf(src) \cap Select!RowsOf(tgt)
    /\ pc = "type" => columns # {} /\ key \notin columns

SelectInv ==
    /\ Select!TypeOK /\ KeyKnown /\ ColumnsKnown
    /\ Select!SharedColumnsCompared /\ Select!SpreadOnlyOnIntegers

\* Whatever is unchanged while one step of the check is made.
SelectQuiet ==
    UNCHANGED <<Select!replVars, touched, view, engine, grant, pk, options>>

LEMMA SelectOptions ==
    ASSUME Select!TypeOK
    PROVE  /\ options.key \in Rows["sampled_checksum"] \cup {"auto"}
           /\ options.columns \in (SUBSET Rows["sampled_checksum"]) \cup {NONE}
  BY SelectAssumption DEF Select!SelectionAssumption, Select!TypeOK

\* A key that is found is the only column of the primary key.
LEMMA KeyFound ==
    ASSUME Select!TypeOK, Select!primary_key # NONE
    PROVE  pk = {Select!primary_key}
<1>1. Select!Cardinality(Select!VisibleKey) = 1
  BY DEF Select!primary_key
<1>2. Select!VisibleKey = pk \/ Select!VisibleKey = {}
  <2>1. engine["source"] \in {"mysql", "postgres", "bigquery"}
    BY DEF Select!TypeOK, Select!Sides, Select!Engines
  <2> QED  BY <2>1 DEF Select!VisibleKey
<1>3. Select!VisibleKey # {}
  BY <1>1, SelectWorld, Select!FS_EmptySet
<1>4. Select!IsFiniteSet(pk)
  BY SelectWorld, Select!FS_Subset DEF Select!TypeOK
<1>5. PICK c : pk = {c}
  BY <1>1, <1>2, <1>3, <1>4, SelectWorld, Select!FS_Singleton
<1>6. Select!primary_key \in Select!VisibleKey
  BY <1>1, <1>3 DEF Select!primary_key
<1> QED  BY <1>2, <1>3, <1>5, <1>6

\* A user who may do more than SELECT sees the primary key of a table.
LEMMA KeySeen ==
    ASSUME Select!TypeOK, Grants \subseteq {"all"}, grant \in Grants,
           engine["source"] # "bigquery", Select!Cardinality(pk) = 1
    PROVE  Select!primary_key \in pk
<1>1. Select!VisibleKey = pk
  <2>1. engine["source"] \in {"mysql", "postgres", "bigquery"}
    BY DEF Select!TypeOK, Select!Sides, Select!Engines
  <2> QED  BY <2>1 DEF Select!VisibleKey
<1>2. pk # {}
  BY SelectWorld, Select!FS_EmptySet
<1> QED  BY <1>1, <1>2 DEF Select!primary_key

LEMMA SelectChoosesKey ==
    ASSUME SelectInv, Select!ChooseKey, SelectQuiet
    PROVE  SelectInv'
<1>1. /\ pc = "key"
      /\ key' = IF options.key = "auto" THEN Select!primary_key ELSE options.key
      /\ columns' = IF options.columns = NONE THEN columns ELSE options.columns
      /\ fallback' = fallback
      /\ UNCHANGED <<src, tgt, pipe, writes, touched, view, engine, grant, pk, options>>
  BY DEF Select!ChooseKey, SelectQuiet, Select!replVars
<1>2. \/ key' = NONE /\ pc' = "done" /\ status' = "ok"
      \/ /\ key' # NONE /\ status' = status
         /\ pc' = IF options.columns = NONE THEN "source" ELSE "columns"
  BY DEF Select!ChooseKey, Select!Skip
<1>3. key' \in Rows["sampled_checksum"] \cup {NONE}
  BY <1>1, SelectOptions, KeyFound DEF SelectInv, Select!TypeOK
<1>4. columns' \subseteq Rows["sampled_checksum"]
  BY <1>1, SelectOptions DEF SelectInv, Select!TypeOK
<1>5. Select!TypeOK'
  <2>1. status = "none"
    BY <1>1 DEF SelectInv, Select!TypeOK
  <2> QED
    BY <1>1, <1>2, <1>3, <1>4, <2>1
       DEF SelectInv, Select!TypeOK, Select!SessionsTypeOK, Select!ReplTypeOK
<1>6. Select!primary_key' = Select!primary_key
  BY <1>1 DEF Select!primary_key, Select!VisibleKey
<1>7. KeyKnown'
  BY <1>1, <1>2, <1>6 DEF SelectInv, KeyKnown
<1>8. ColumnsKnown'
  BY <1>1, <1>2 DEF ColumnsKnown
<1> QED  BY <1>2, <1>5, <1>7, <1>8
         DEF SelectInv, Select!SharedColumnsCompared, Select!SpreadOnlyOnIntegers

\* The columns a side's schema query returns.
LEMMA SelectSchema ==
    ASSUME NEW s \in Select!Sides
    PROVE  /\ DOMAIN Select!schema(s) = Select!RowsOf(Select!Current(s))
           /\ \A c \in DOMAIN Select!schema(s) :
                 Select!schema(s)[c] =
                    Select!Coarse(engine[s], Spelling[Select!Current(s)[c]][engine[s]])
  BY DEF Select!schema

LEMMA SelectReadsColumns ==
    ASSUME SelectInv, Select!SourceColumns \/ Select!TargetColumns, SelectQuiet
    PROVE  SelectInv'
<1>0. /\ Select!Current("source") = src /\ Select!Current("target") = tgt
      /\ {"source", "target"} \subseteq Select!Sides
  BY DEF Select!Current, Select!Sides
<1>1. /\ UNCHANGED <<src, tgt, pipe, writes, touched, view, engine, grant, pk, options,
                     key, fallback, status>>
      /\ \/ pc = "source" /\ pc' = "target" /\ columns' = Select!RowsOf(src)
         \/ /\ pc = "target" /\ pc' = "columns"
            /\ columns' = columns \cap Select!RowsOf(tgt)
  BY <1>0, SelectSchema
     DEF Select!SourceColumns, Select!TargetColumns, SelectQuiet, Select!replVars
<1>2. Select!TypeOK'
  BY <1>1
     DEF SelectInv, Select!TypeOK, Select!SessionsTypeOK, Select!ReplTypeOK,
         Select!RowsOf
<1>3. Select!primary_key' = Select!primary_key
  BY <1>1 DEF Select!primary_key, Select!VisibleKey
<1>4. KeyKnown'
  BY <1>1, <1>3 DEF SelectInv, KeyKnown
<1>5. ColumnsKnown'
  BY <1>1 DEF SelectInv, ColumnsKnown, Select!RowsOf
<1> QED  BY <1>1, <1>2, <1>4, <1>5
         DEF SelectInv, Select!SharedColumnsCompared, Select!SpreadOnlyOnIntegers

LEMMA SelectConsiders ==
    ASSUME SelectInv, Select!Considers, SelectQuiet
    PROVE  SelectInv'
<1>1. /\ UNCHANGED <<src, tgt, pipe, writes, touched, view, engine, grant, pk, options,
                     key, fallback>>
      /\ pc = "columns"
      /\ columns' = columns \ (options.ignore_columns \cup {key})
  BY DEF Select!Considers, SelectQuiet, Select!replVars
<1>2. \/ pc' = "done" /\ status' \in {"ok", "error"}
      \/ pc' = "type" /\ status' = status /\ columns' # {}
  BY DEF Select!Considers, Select!Skip
<1>3. Select!TypeOK'
  <2>1. status = "none" /\ columns' \subseteq Rows["sampled_checksum"]
    BY <1>1 DEF SelectInv, Select!TypeOK
  <2> QED
    BY <1>1, <1>2, <2>1
       DEF SelectInv, Select!TypeOK, Select!SessionsTypeOK, Select!ReplTypeOK
<1>4. Select!primary_key' = Select!primary_key
  BY <1>1 DEF Select!primary_key, Select!VisibleKey
<1>5. KeyKnown'
  BY <1>1, <1>2, <1>4 DEF SelectInv, KeyKnown
<1>6. ColumnsKnown'
  BY <1>1, <1>2 DEF SelectInv, ColumnsKnown, Select!RowsOf
<1> QED  BY <1>2, <1>3, <1>5, <1>6
         DEF SelectInv, Select!SharedColumnsCompared, Select!SpreadOnlyOnIntegers

LEMMA SelectLooksAtType ==
    ASSUME SelectInv, Select!KeyType, SelectQuiet
    PROVE  SelectInv'
<1>1. /\ UNCHANGED <<src, tgt, pipe, writes, touched, view, engine, grant, pk, options,
                     key, columns, status>>
      /\ pc = "type" /\ pc' = "draw"
      /\ fallback' = /\ options.strategy # "recent"
                     /\ ~(key \in DOMAIN Select!schema("source")
                          /\ Select!schema("source")[key] = "integer")
  BY DEF Select!KeyType, Select!SpreadOK, SelectQuiet, Select!replVars
<1>2. Select!TypeOK'
  <2>1. key \in Rows["sampled_checksum"] /\ columns # {} /\ key \notin columns
    BY <1>1 DEF SelectInv, KeyKnown, ColumnsKnown, Select!TypeOK
  <2>2. fallback' \in BOOLEAN
    BY <1>1
  <2> QED
    BY <1>1, <2>1, <2>2
       DEF SelectInv, Select!TypeOK, Select!SessionsTypeOK, Select!ReplTypeOK
<1>3. Select!primary_key' = Select!primary_key
  BY <1>1 DEF Select!primary_key, Select!VisibleKey
<1>4. KeyKnown'
  BY <1>1, <1>3 DEF SelectInv, KeyKnown
<1>5. ColumnsKnown'
  BY <1>1 DEF SelectInv, ColumnsKnown
<1>6. Select!SharedColumnsCompared'
  BY <1>1 DEF SelectInv, ColumnsKnown, Select!SharedColumnsCompared, Select!RowsOf
<1>7. Select!SpreadOnlyOnIntegers'
  <2> SUFFICES ASSUME options.strategy # "recent", ~fallback'
               PROVE  /\ key \in Select!RowsOf(src)
                      /\ Select!Coarse(engine["source"], Spelling[src[key]][engine["source"]])
                             = "integer"
                      /\ options.key = "auto" => pk = {key}
    BY <1>1 DEF Select!SpreadOnlyOnIntegers, Select!RowsOf
  <2>1. Select!Current("source") = src /\ "source" \in Select!Sides
    BY DEF Select!Current, Select!Sides
  <2>2. /\ key \in Select!RowsOf(src)
        /\ Select!Coarse(engine["source"], Spelling[src[key]][engine["source"]]) = "integer"
    BY <1>1, <2>1, SelectSchema
  <2>3. options.key = "auto" => pk = {key}
    BY <1>1, KeyFound DEF SelectInv, KeyKnown
  <2> QED  BY <2>2, <2>3
<1> QED  BY <1>2, <1>4, <1>5, <1>6, <1>7 DEF SelectInv

LEMMA SelectWorldStep ==
    ASSUME SelectInv, Select!Replicate, Select!Noted, pc \notin {"draw", "done"},
           UNCHANGED Select!checkVars
    PROVE  SelectInv'
<1>1. UNCHANGED <<view, engine, grant, pk, options, pc, key, columns, fallback, status>>
  BY DEF Select!checkVars
<1>2. Select!SessionsTypeOK'
  BY <1>1, SelectWorld, Select!ReplicateType, Select!WorldType
     DEF SelectInv, Select!TypeOK, Select!SessionsTypeOK
<1>3. Select!TypeOK'
  BY <1>1, <1>2 DEF SelectInv, Select!TypeOK
<1>4. Select!primary_key' = Select!primary_key
  BY <1>1 DEF Select!primary_key, Select!VisibleKey
<1>5. KeyKnown'
  BY <1>1, <1>4 DEF SelectInv, KeyKnown
<1>6. ColumnsKnown'
  <2>1. \A c \in Rows["sampled_checksum"] \ touched' :
           c \notin touched /\ src'[c] = src[c] /\ tgt'[c] = tgt[c]
    BY SelectWorld, Select!NotedQuiet
  <2> QED  BY <1>1, <2>1 DEF ColumnsKnown, SelectInv, Select!RowsOf
<1> QED  BY <1>1, <1>3, <1>5, <1>6
         DEF SelectInv, Select!SharedColumnsCompared, Select!SpreadOnlyOnIntegers

LEMMA SelectInit == Select!Init => SelectInv
<1>1. 0 \in 0 .. MaxWrites["sampled_checksum"] /\ <<>> \in Seq(Select!Change)
  BY SelectWorld
<1> QED  BY <1>1
         DEF Select!Init, Select!SessionsInit, Select!ReplInit, SelectInv,
             Select!TypeOK,
             Select!SessionsTypeOK, Select!ReplTypeOK, Select!RowsOf, KeyKnown,
             ColumnsKnown, Select!SharedColumnsCompared, Select!SpreadOnlyOnIntegers

LEMMA SelectStep ==
    ASSUME SelectInv, [Select!Next]_Select!vars
    PROVE  SelectInv'
<1>1. CASE Select!Check /\ SelectQuiet
  BY <1>1, SelectChoosesKey, SelectReadsColumns, SelectConsiders, SelectLooksAtType
     DEF Select!Check
<1>2. CASE /\ Select!Replicate /\ Select!Noted /\ pc \notin {"draw", "done"}
           /\ UNCHANGED Select!checkVars
  BY <1>2, SelectWorldStep
<1>3. CASE UNCHANGED Select!vars
  <2>1. UNCHANGED <<src, tgt, pipe, writes, touched, view, engine, grant, pk, options, pc,
                    key, columns, fallback, status>>
    BY <1>3 DEF Select!vars, Select!replVars, Select!checkVars
  <2>2. Select!primary_key' = Select!primary_key
    BY <2>1 DEF Select!primary_key, Select!VisibleKey
  <2> QED
    BY <2>1, <2>2
       DEF SelectInv, Select!TypeOK, Select!SessionsTypeOK, Select!ReplTypeOK,
           KeyKnown,
           ColumnsKnown, Select!RowsOf, Select!SharedColumnsCompared,
           Select!SpreadOnlyOnIntegers
<1> QED  BY <1>1, <1>2, <1>3 DEF Select!Next, SelectQuiet

SelectHolds == which = "sampled_checksum" => SelectInv

LEMMA SelectInvariant == Spec => []SelectHolds
<1>1. Init => SelectHolds
  BY SelectInit DEF Init, SelectHolds
<1>2. SelectHolds /\ [Next]_vars => SelectHolds'
  <2> SUFFICES ASSUME SelectHolds, [Next]_vars, which' = "sampled_checksum"
               PROVE  SelectInv'
    BY DEF SelectHolds
  <2>1. which = "sampled_checksum" /\ [Select!Next]_Select!vars
    BY DEF Next, vars, tableVars, Select!vars, Select!replVars, Select!checkVars,
       selectionVars
  <2> QED  BY <2>1, SelectStep DEF SelectHolds
<1> QED  BY <1>1, <1>2, PTL DEF Spec

\* A MySQL or PostgreSQL table that has a single-column primary key is sampled
\* by it, provided that the users of PostgreSQL may do more than SELECT.
THEOREM PrimaryKeyTheorem ==
    ASSUME Grants \subseteq {"all"}
    PROVE  Spec => []PrimaryKeyIsUsed
<1>1. SelectHolds => PrimaryKeyIsUsed
  BY KeySeen
     DEF SelectHolds, SelectInv, KeyKnown, PrimaryKeyIsUsed, Select!PrimaryKeyIsUsed
<1> QED  BY SelectInvariant, <1>1, PTL

\* With "auto" exactly the columns that both sides had all along are compared,
\* although the schemas are read one after the other while columns come and go.
THEOREM SharedColumnsTheorem == Spec => []SharedColumnsCompared
<1>1. SelectHolds => SharedColumnsCompared
  BY DEF SelectHolds, SelectInv, SharedColumnsCompared
<1> QED  BY SelectInvariant, <1>1, PTL

\* MOD is asked of no key that is not an integer, and of a composite primary
\* key never.
THEOREM SpreadTheorem == Spec => []SpreadOnlyOnIntegers
<1>1. SelectHolds => SpreadOnlyOnIntegers
  BY DEF SelectHolds, SelectInv, SpreadOnlyOnIntegers
<1> QED  BY SelectInvariant, <1>1, PTL

-----------------------------------------------------------------------------
(* The comparison of one cell.  What a driver returns for a datum, once     *)
(* _normalize is done with it, is the datum itself and a class that tells   *)
(* the families of types apart (CellNormal).                                *)

\* A column whose type its adapter knows.
KnownType(col) == col.engine \in Cells!Engines /\ Cells!coarse(col) # "other"

LEMMA CellLimits ==
    /\ Nums \subseteq Nat /\ Times \subseteq Nat /\ AbsTol \in Nat /\ RelDen \in Nat
    /\ Zone \in [Cells!Engines -> Int]
    /\ NaN \notin Int /\ Word \notin Int /\ Naive \notin Int
    /\ Null \notin Cells!Datums /\ Null \notin Cells!Objects
  BY CellsAssumption DEF Cells!ValuesAssumption

LEMMA CoarseKnown ==
    ASSUME NEW e \in Cells!Engines, NEW n, Cells!Coarse(e, n) # "other"
    PROVE  /\ Cells!Coarse(e, n) \in DOMAIN Cells!_COARSE[e]
           /\ n \in Cells!_COARSE[e][Cells!Coarse(e, n)]
<1> DEFINE hits == {c \in DOMAIN Cells!_COARSE[e] : n \in Cells!_COARSE[e][c]}
<1>1. hits # {} /\ Cells!Coarse(e, n) = CHOOSE c \in hits : TRUE
  BY DEF Cells!Coarse
<1>2. Cells!Coarse(e, n) \in hits
  BY <1>1
<1> QED  BY <1>2

\* Only time stamps have a zone in the name of their type.
Zoneless(names) == names \cap {"timestamp with time zone", "TIMESTAMP", "timestamp"} = {}

KnownTypes ==
    {"integer", "float", "decimal", "string", "bool", "timestamp", "date", "json",
     "binary"}

LEMMA MySqlNames ==
    /\ DOMAIN Cells!_MYSQL = KnownTypes
    /\ \A c \in KnownTypes \ {"timestamp"} : Zoneless(Cells!_MYSQL[c])
    /\ Cells!_MYSQL["timestamp"] = {"datetime", "timestamp"}
<1>1. /\ Zoneless(Cells!_MYSQL.integer) /\ Zoneless(Cells!_MYSQL.float)
      /\ Zoneless(Cells!_MYSQL.decimal) /\ Zoneless(Cells!_MYSQL.string)
      /\ Zoneless(Cells!_MYSQL.bool) /\ Zoneless(Cells!_MYSQL.date)
      /\ Zoneless(Cells!_MYSQL.json) /\ Zoneless(Cells!_MYSQL.binary)
  BY DEF Cells!_MYSQL, Zoneless
<1>2. /\ DOMAIN Cells!_MYSQL = KnownTypes
      /\ Cells!_MYSQL["timestamp"] = {"datetime", "timestamp"}
  BY DEF Cells!_MYSQL, KnownTypes
<1> QED  BY <1>1, <1>2 DEF KnownTypes

LEMMA PostgresNames ==
    /\ DOMAIN Cells!_POSTGRES = KnownTypes
    /\ \A c \in KnownTypes \ {"timestamp"} : Zoneless(Cells!_POSTGRES[c])
    /\ "timestamp" \notin Cells!_POSTGRES["timestamp"]
<1>1. /\ Zoneless(Cells!_POSTGRES.integer) /\ Zoneless(Cells!_POSTGRES.float)
      /\ Zoneless(Cells!_POSTGRES.decimal) /\ Zoneless(Cells!_POSTGRES.string)
      /\ Zoneless(Cells!_POSTGRES.bool) /\ Zoneless(Cells!_POSTGRES.date)
      /\ Zoneless(Cells!_POSTGRES.json) /\ Zoneless(Cells!_POSTGRES.binary)
  BY DEF Cells!_POSTGRES, Zoneless
<1>2. DOMAIN Cells!_POSTGRES = KnownTypes /\ "timestamp" \notin Cells!_POSTGRES["timestamp"]
  BY DEF Cells!_POSTGRES, KnownTypes
<1> QED  BY <1>1, <1>2 DEF KnownTypes

LEMMA BigQueryNames ==
    /\ DOMAIN Cells!_BIGQUERY = KnownTypes
    /\ \A c \in KnownTypes \ {"timestamp"} : Zoneless(Cells!_BIGQUERY[c])
    /\ "timestamp" \notin Cells!_BIGQUERY["timestamp"]
<1>1. /\ Zoneless(Cells!_BIGQUERY.integer) /\ Zoneless(Cells!_BIGQUERY.float)
      /\ Zoneless(Cells!_BIGQUERY.decimal) /\ Zoneless(Cells!_BIGQUERY.string)
      /\ Zoneless(Cells!_BIGQUERY.bool) /\ Zoneless(Cells!_BIGQUERY.date)
      /\ Zoneless(Cells!_BIGQUERY.json) /\ Zoneless(Cells!_BIGQUERY.binary)
  BY DEF Cells!_BIGQUERY, Zoneless
<1>2. DOMAIN Cells!_BIGQUERY = KnownTypes /\ "timestamp" \notin Cells!_BIGQUERY["timestamp"]
  BY DEF Cells!_BIGQUERY, KnownTypes
<1> QED  BY <1>1, <1>2 DEF KnownTypes

LEMMA ZonesKnown ==
    ASSUME NEW col, KnownType(col)
    PROVE  /\ Cells!coarse(col) \in KnownTypes
           /\ Cells!Zoned(col) => Cells!coarse(col) = "timestamp"
           /\ Zone["mysql"] = 0 => Cells!Zoned(col) \/ Cells!Shown(col) = 0
<1> DEFINE c == Cells!coarse(col)
           tab == Cells!_COARSE[col.engine]
<1>1. c \in DOMAIN tab /\ col.native \in tab[c] /\ col.engine \in Cells!Engines
  BY CoarseKnown DEF KnownType, Cells!coarse
<1>2. \/ col.engine = "mysql" /\ tab = Cells!_MYSQL
      \/ col.engine = "postgres" /\ tab = Cells!_POSTGRES
      \/ col.engine = "bigquery" /\ tab = Cells!_BIGQUERY
  BY <1>1 DEF Cells!Engines, Cells!_COARSE
<1> HIDE DEF c, tab
<1>3. c \in KnownTypes /\ (c # "timestamp" => Zoneless(tab[c]))
  BY <1>1, <1>2, MySqlNames, PostgresNames, BigQueryNames
<1>4. Cells!Zoned(col) => c = "timestamp"
  BY <1>1, <1>3 DEF Cells!Zoned, Zoneless
<1>5. col.native = "timestamp" => col.engine = "mysql"
  BY <1>1, <1>2, <1>3, PostgresNames, BigQueryNames DEF Zoneless
<1> QED  BY <1>3, <1>4, <1>5 DEF c, Cells!Zoned, Cells!Shown

\* A driver that returns for a column what its coarse type suggests.
PlainType(col) ==
    /\ col.native \notin {"money", "uuid"}
    /\ Cells!coarse(col) = "json" => col.engine # "mysql"

\* The kind of what a column holds, and the class _normalize turns it into.
KindOf(c) ==
    CASE c \in {"integer", "decimal", "float", "bool"} -> "number"
      [] c = "string"    -> "text"
      [] c = "json"      -> "document"
      [] c = "binary"    -> "bytes"
      [] c = "timestamp" -> "moment"
      [] c = "date"      -> "day"

ClassOf(c) ==
    CASE c \in {"integer", "decimal", "bool"} -> "Decimal"
      [] c = "float"     -> "float"
      [] c = "string"    -> "str"
      [] c = "json"      -> "dict"
      [] c = "binary"    -> "bytes"
      [] c = "timestamp" -> "datetime"
      [] c = "date"      -> "date"

\* What a column can hold.
LEMMA ContentsKnown ==
    ASSUME NEW col, KnownType(col), NEW d \in Cells!Contents(col), d # Null
    PROVE  /\ d = [kind |-> KindOf(Cells!coarse(col)), val |-> d.val]
           /\ d \in Cells!Datums
           /\ KindOf(Cells!coarse(col)) = "number" => d.val \in Nums \cup {NaN}
           /\ Cells!coarse(col) = "timestamp" => d.val \in Int
           /\ d.kind = KindOf(Cells!coarse(col))
<1> DEFINE c == Cells!coarse(col)
<1>0. c \in KnownTypes /\ {0, One} \subseteq Nums /\ Times \subseteq Int
  BY ZonesKnown, CellsAssumption DEF Cells!ValuesAssumption
<1> HIDE DEF c
<1>1. CASE c \in {"integer", "decimal"}
  BY <1>0, <1>1
     DEF c, Cells!Contents, Cells!Datum, KindOf, Cells!Datums, Cells!Texts
<1>2. CASE c = "float"
  BY <1>0, <1>2
     DEF c, Cells!Contents, Cells!Datum, KindOf, Cells!Datums, Cells!Texts
<1>3. CASE c = "bool"
  BY <1>0, <1>3
     DEF c, Cells!Contents, Cells!Datum, KindOf, Cells!Datums, Cells!Texts
<1>4. CASE c = "string"
  BY <1>0, <1>4
     DEF c, Cells!Contents, Cells!Datum, KindOf, Cells!Datums, Cells!Texts
<1>5. CASE c = "json"
  BY <1>0, <1>5
     DEF c, Cells!Contents, Cells!Datum, KindOf, Cells!Datums, Cells!Texts
<1>6. CASE c = "binary"
  BY <1>0, <1>6
     DEF c, Cells!Contents, Cells!Datum, KindOf, Cells!Datums, Cells!Texts
<1>7. CASE c = "timestamp"
  BY <1>0, <1>7
     DEF c, Cells!Contents, Cells!Datum, KindOf, Cells!Datums, Cells!Texts
<1>8. CASE c = "date"
  BY <1>0, <1>8
     DEF c, Cells!Contents, Cells!Datum, KindOf, Cells!Datums, Cells!Texts
<1> QED
  BY <1>0, <1>1, <1>2, <1>3, <1>4, <1>5, <1>6, <1>7, <1>8 DEF KnownTypes

\* What the driver returns for a datum of a plain type, and what _normalize
\* makes of it.
LEMMA CellNormal ==
    ASSUME NEW col, KnownType(col), PlainType(col), Zone["mysql"] = 0,
           NEW d \in Cells!Contents(col), d # Null
    PROVE  LET v == Cells!Value(col, d) IN
           /\ v \in Cells!Objects
           /\ v.py = "float" <=> Cells!coarse(col) = "float"
           /\ v.val = d.val \/ Cells!coarse(col) = "timestamp"
           /\ v.py \in {"bool", "int", "Decimal", "float", "str", "bytes"} <=>
                  Cells!coarse(col) \notin {"json", "timestamp", "date"}
           /\ Cells!_normalize(v) = [py |-> ClassOf(Cells!coarse(col)), val |-> d.val,
                               tzinfo |-> Naive]
<1> DEFINE c == Cells!coarse(col)
           v == Cells!Value(col, d)
<1>1. /\ c \in KnownTypes /\ (Cells!Zoned(col) => c = "timestamp")
      /\ Cells!Zoned(col) \/ Cells!Shown(col) = 0
      /\ Cells!Shown(col) \in Int
  <2>1. Zone[col.engine] \in Int /\ 0 \in Int
    BY CellLimits DEF KnownType
  <2>2. Cells!Shown(col) \in Int
    BY <2>1, Zenon DEF Cells!Shown
  <2> QED  BY <2>2, ZonesKnown
<1>2. /\ d.kind = KindOf(c)
      /\ c = "timestamp" => d.val \in Int
  BY ContentsKnown
<1>3. v = [py |-> Cells!python(col),
           val |-> IF d.kind = "moment" THEN d.val + Cells!Shown(col) ELSE d.val,
           tzinfo |-> IF Cells!Zoned(col) THEN Cells!Shown(col) ELSE Naive]
  BY DEF Cells!Value
<1>4. d.kind = "moment" <=> c = "timestamp"
  BY <1>1, <1>2 DEF KindOf, KnownTypes
<1>5. /\ c = "integer" => Cells!python(col) = "int" /\ ClassOf(c) = "Decimal"
      /\ c = "float" => Cells!python(col) = "float" /\ ClassOf(c) = "float"
      /\ c = "bool" => Cells!python(col) = "bool" /\ ClassOf(c) = "Decimal"
      /\ c = "decimal" => Cells!python(col) = "Decimal" /\ ClassOf(c) = "Decimal"
      /\ c = "string" => Cells!python(col) = "str" /\ ClassOf(c) = "str"
      /\ c = "json" => Cells!python(col) = "dict" /\ ClassOf(c) = "dict"
      /\ c = "binary" => Cells!python(col) = "bytes" /\ ClassOf(c) = "bytes"
      /\ c = "timestamp" => Cells!python(col) = "datetime" /\ ClassOf(c) = "datetime"
      /\ c = "date" => Cells!python(col) = "date" /\ ClassOf(c) = "date"
  BY DEF Cells!python, ClassOf, PlainType
<1> HIDE DEF c, v
<1>6. v \in Cells!Objects
  <2>1. Cells!python(col) \in {"int", "float", "bool", "Decimal", "str", "UUID", "dict",
                         "bytes", "datetime", "date"}
    BY <1>1, <1>5 DEF KnownTypes
  <2>2. d.val \in Int \cup {NaN, Word}
    BY ContentsKnown, CellLimits DEF Cells!Datums, Cells!Texts
  <2>3. (IF d.kind = "moment" THEN d.val + Cells!Shown(col) ELSE d.val)
            \in Int \cup {NaN, Word}
    BY <1>1, <1>2, <1>4, <2>2
  <2>4. (IF Cells!Zoned(col) THEN Cells!Shown(col) ELSE Naive) \in Int \cup {Naive}
    BY <1>1
  <2> QED  BY <1>3, <2>1, <2>3, <2>4 DEF Cells!Objects
<1>7. CASE c = "timestamp"
  <2>1. v = [py |-> "datetime", val |-> d.val + Cells!Shown(col),
             tzinfo |-> IF Cells!Zoned(col) THEN Cells!Shown(col) ELSE Naive]
    BY <1>3, <1>4, <1>5, <1>7
  <2>2. Naive \notin Int
    BY CellsAssumption DEF Cells!ValuesAssumption
  <2>3. Cells!_normalize(v) = [py |-> "datetime", val |-> d.val, tzinfo |-> Naive]
    <3>1. CASE Cells!Zoned(col)
      <4>1. v = [py |-> "datetime", val |-> d.val + Cells!Shown(col),
                 tzinfo |-> Cells!Shown(col)]
        BY <2>1, <3>1
      <4>2. (d.val + Cells!Shown(col)) - Cells!Shown(col) = d.val
        BY <1>1, <1>2, <1>7
      <4> QED  BY <1>1, <2>2, <4>1, <4>2 DEF Cells!_normalize
    <3>2. CASE ~Cells!Zoned(col)
      <4>1. d.val + Cells!Shown(col) = d.val
        BY <1>1, <1>2, <1>7, <3>2
      <4> QED  BY <2>1, <3>2, <4>1 DEF Cells!_normalize
    <3> QED  BY <3>1, <3>2
  <2> QED  BY <1>5, <1>7, <1>6, <2>1, <2>3 DEF c, v
<1>8. CASE c # "timestamp"
  <2>1. v = [py |-> Cells!python(col), val |-> d.val, tzinfo |-> Naive]
    BY <1>1, <1>3, <1>4, <1>8
  <2>2. Cells!python(col) # "datetime"
    BY <1>1, <1>5, <1>8 DEF KnownTypes
  <2>3. Cells!_normalize(v) =
            [py |-> IF Cells!python(col) \in {"bool", "int"} THEN "Decimal"
                    ELSE Cells!python(col),
             val |-> d.val, tzinfo |-> Naive]
    BY <2>1, <2>2 DEF Cells!_normalize
  <2>4. ClassOf(c) = IF Cells!python(col) \in {"bool", "int"} THEN "Decimal"
                     ELSE Cells!python(col)
    BY <1>1, <1>5, <1>8 DEF KnownTypes
  <2>5. /\ Cells!python(col) = "float" <=> c = "float"
        /\ Cells!python(col) \in {"bool", "int", "Decimal", "float", "str", "bytes"} <=>
               c \notin {"json", "timestamp", "date"}
    BY <1>1, <1>5, <1>8 DEF KnownTypes
  <2> QED  BY <1>6, <2>1, <2>3, <2>4, <2>5 DEF c, v
<1> QED  BY <1>7, <1>8

-----------------------------------------------------------------------------
\* The drivers return what the coarse types suggest, and MySQL's sessions show
\* moments in UTC.
PlainDrivers ==
    /\ Zone["mysql"] = 0
    /\ \A p \in Pairings : \A s \in Cells!Sides : PlainType(p[s])

\* No float is compared with anything float() takes for a number.
FloatsAmongNumbers ==
    \A p \in Pairings : \A s, t \in Cells!Sides :
        Cells!coarse(p[s]) = "float" => Cells!coarse(p[t]) \notin {"string", "binary"}

LEMMA CloseEitherWay ==
    ASSUME NEW x \in Nums \cup {NaN}, NEW y \in Nums \cup {NaN}
    PROVE  /\ Cells!isclose(x, y) <=> Cells!isclose(y, x)
           /\ x = y /\ x # NaN => Cells!isclose(x, y)
<1>1. Nums \subseteq Nat /\ AbsTol \in Nat /\ NaN \notin Int
  BY CellsAssumption DEF Cells!ValuesAssumption
<1>2. CASE x = NaN \/ y = NaN
  BY <1>2 DEF Cells!isclose
<1>3. CASE x # NaN /\ y # NaN
  <2>1. x \in Nat /\ y \in Nat
    BY <1>1, <1>3
  <2>2. (IF x > y THEN x - y ELSE y - x) = (IF y > x THEN y - x ELSE x - y)
    BY <2>1
  <2>3. {x, y} = {y, x}
    OBVIOUS
  <2>4. Cells!isclose(x, y) <=> Cells!isclose(y, x)
    BY <2>2, <2>3, Zenon DEF Cells!isclose
  <2>5. x = y => Cells!isclose(x, y)
    BY <1>1, <1>3, <2>1 DEF Cells!isclose
  <2> QED  BY <2>4, <2>5
<1> QED  BY <1>2, <1>3

\* values_equal does not tell the sides apart.
LEMMA EqualEitherWay ==
    ASSUME NEW a, NEW b
    PROVE  Cells!values_equal(a, b) <=> Cells!values_equal(b, a)
<1>1. CASE Null \in {a, b}
  BY <1>1 DEF Cells!values_equal
<1>2. CASE Null \notin {a, b} /\ "float" \in {a.py, b.py}
  <2>1. Cells!Floats(a) /\ Cells!Floats(b) =>
            (Cells!isclose(a.val, b.val) <=> Cells!isclose(b.val, a.val))
    BY CloseEitherWay DEF Cells!Floats
  <2> QED  BY <1>2, <2>1 DEF Cells!values_equal
<1>3. CASE Null \notin {a, b} /\ "float" \notin {a.py, b.py}
  BY <1>3 DEF Cells!values_equal
<1> QED  BY <1>1, <1>2, <1>3

\* The verdict is the one of the cells as they are: nothing is stored after it.
CellInv ==
    /\ Cells!TypeOK
    /\ verdict # "none" =>
          (verdict = "same" <=>
              Cells!values_equal(Cells!Cell("source"), Cells!Cell("target")))

LEMMA PairKnown ==
    ASSUME NEW p \in Pairings, NEW s \in Cells!Sides
    PROVE  KnownType(p[s])
  BY CellsAssumption DEF Cells!ValuesAssumption, KnownType

LEMMA CellStep ==
    ASSUME CellInv, [Cells!Next]_Cells!vars
    PROVE  CellInv'
<1>1. ASSUME NEW s \in Cells!Sides, NEW d \in Cells!Contents(column[s]), Cells!Store(s, d)
      PROVE  CellInv'
  <2>1. /\ verdict = "none" /\ verdict' = verdict /\ column' = column
        /\ cell' = [cell EXCEPT ![s] = d] /\ column \in Pairings
        /\ cell \in [Cells!Sides -> Cells!Datums \cup {Null}]
    BY <1>1 DEF Cells!Store, CellInv, Cells!TypeOK
  <2>2. d \in Cells!Datums \cup {Null}
    BY <2>1, PairKnown, ContentsKnown
  <2>3. /\ cell' \in [Cells!Sides -> Cells!Datums \cup {Null}]
        /\ \A t \in Cells!Sides : cell'[t] = IF t = s THEN d ELSE cell[t]
    BY <2>1, <2>2
  <2>4. \A t \in Cells!Sides : cell'[t] \in Cells!Contents(column'[t])
    BY <2>1, <2>3 DEF CellInv, Cells!TypeOK
  <2> QED  BY <2>1, <2>3, <2>4 DEF CellInv, Cells!TypeOK
<1>2. CASE Cells!Compare
  <2>1. /\ column' = column /\ cell' = cell /\ verdict' \in {"same", "differs"}
        /\ verdict' = "same" <=>
              Cells!values_equal(Cells!Cell("source"), Cells!Cell("target"))
    BY <1>2 DEF Cells!Compare
  <2>2. /\ Cells!Cell("source")' = Cells!Cell("source")
        /\ Cells!Cell("target")' = Cells!Cell("target")
    BY <2>1 DEF Cells!Cell
  <2> QED  BY <2>1, <2>2 DEF CellInv, Cells!TypeOK
<1>3. CASE UNCHANGED Cells!vars
  <2>1. column' = column /\ cell' = cell /\ verdict' = verdict
    BY <1>3 DEF Cells!vars
  <2>2. /\ Cells!Cell("source")' = Cells!Cell("source")
        /\ Cells!Cell("target")' = Cells!Cell("target")
    BY <2>1 DEF Cells!Cell
  <2> QED  BY <2>1, <2>2 DEF CellInv, Cells!TypeOK
<1> QED  BY <1>1, <1>2, <1>3 DEF Cells!Next

LEMMA CellInit == Cells!Init => CellInv
  BY DEF Cells!Init, CellInv, Cells!TypeOK, Cells!Contents

LEMMA KindsAndClasses ==
    ASSUME NEW c \in KnownTypes
    PROVE  \/ c \in {"integer", "decimal", "bool"} /\ KindOf(c) = "number"
              /\ ClassOf(c) = "Decimal"
           \/ c = "float" /\ KindOf(c) = "number" /\ ClassOf(c) = "float"
           \/ c = "string" /\ KindOf(c) = "text" /\ ClassOf(c) = "str"
           \/ c = "json" /\ KindOf(c) = "document" /\ ClassOf(c) = "dict"
           \/ c = "binary" /\ KindOf(c) = "bytes" /\ ClassOf(c) = "bytes"
           \/ c = "timestamp" /\ KindOf(c) = "moment" /\ ClassOf(c) = "datetime"
           \/ c = "date" /\ KindOf(c) = "day" /\ ClassOf(c) = "date"
  BY DEF KindOf, ClassOf, KnownTypes

LEMMA SameClassSameKind ==
    ASSUME NEW b \in KnownTypes, NEW c \in KnownTypes, ClassOf(b) = ClassOf(c)
    PROVE  KindOf(b) = KindOf(c)
  BY KindsAndClasses

\* One datum in two columns of one family is taken for the same.
LEMMA CopyIsEqual ==
    ASSUME NEW p \in Pairings, PlainDrivers,
           NEW d \in Cells!Contents(p["source"]), d \in Cells!Contents(p["target"]),
           \/ Cells!coarse(p["source"]) = Cells!coarse(p["target"])
           \/ \A s \in Cells!Sides :
                 Cells!coarse(p[s]) \in {"integer", "decimal", "float", "bool"}
    PROVE  \/ Cells!values_equal(Cells!Value(p["source"], d), Cells!Value(p["target"], d))
           \/ d.val = NaN
<1> DEFINE b == Cells!coarse(p["source"])
           c == Cells!coarse(p["target"])
           v == Cells!Value(p["source"], d)
           w == Cells!Value(p["target"], d)
<1>1. CASE d = Null
  <2>1. v = Null /\ w = Null
    BY <1>1 DEF Cells!Value
  <2> HIDE DEF v, w
  <2>2. Cells!values_equal(v, w)
    BY <2>1 DEF Cells!values_equal
  <2> QED  BY <2>2 DEF v, w
<1>2. CASE d # Null
  <2>1. /\ KnownType(p["source"]) /\ PlainType(p["source"])
        /\ KnownType(p["target"]) /\ PlainType(p["target"]) /\ Zone["mysql"] = 0
        /\ b \in KnownTypes /\ c \in KnownTypes
    BY PairKnown, ZonesKnown DEF PlainDrivers, Cells!Sides
  <2>2. b = c \/ {b, c} \subseteq {"integer", "decimal", "float", "bool"}
    BY DEF Cells!Sides
  <2>3. /\ v \in Cells!Objects /\ w \in Cells!Objects
    BY <1>2, <2>1, CellNormal
  <2>4. Null \notin {v, w}
    BY <2>3, CellLimits
  <2>5. /\ v.py = "float" <=> b = "float"
        /\ w.py = "float" <=> c = "float"
        /\ v.val = d.val \/ b = "timestamp"
        /\ w.val = d.val \/ c = "timestamp"
        /\ v.py \in {"bool", "int", "Decimal", "float", "str", "bytes"} <=>
                  b \notin {"json", "timestamp", "date"}
        /\ w.py \in {"bool", "int", "Decimal", "float", "str", "bytes"} <=>
                  c \notin {"json", "timestamp", "date"}
        /\ Cells!_normalize(v) = [py |-> ClassOf(b), val |-> d.val, tzinfo |-> Naive]
        /\ Cells!_normalize(w) = [py |-> ClassOf(c), val |-> d.val, tzinfo |-> Naive]
    BY <1>2, <2>1, CellNormal
  <2>6. KindOf(b) = "number" => d.val \in Nums \cup {NaN}
    BY <1>2, <2>1, ContentsKnown
  <2> HIDE DEF b, c, v, w
  <2>7. CASE "float" \notin {b, c}
    <3>1. ClassOf(b) = ClassOf(c)
      BY <2>1, <2>2, <2>7, KindsAndClasses
    <3> QED  BY <2>4, <2>5, <2>7, <3>1 DEF Cells!values_equal, v, w
  <2>8. CASE "float" \in {b, c}
    <3>1. {b, c} \subseteq {"integer", "decimal", "float", "bool"}
      BY <2>2, <2>8
    <3>2. d.val \in Nums \cup {NaN}
      BY <2>1, <2>6, <3>1, KindsAndClasses
    <3>3. Cells!Floats(v) /\ Cells!Floats(w) /\ v.val = d.val /\ w.val = d.val
      BY <2>5, <3>1, <3>2 DEF Cells!Floats
    <3>4. Cells!isclose(v.val, w.val) \/ d.val = NaN
      BY <3>2, <3>3, CloseEitherWay
    <3> QED  BY <2>4, <2>5, <2>8, <3>3, <3>4 DEF Cells!values_equal, v, w
  <2> QED  BY <2>7, <2>8
<1> QED  BY <1>1, <1>2

\* Two numbers math.isclose takes for the same are closer than the tolerance.
LEMMA CloseIsNegligible ==
    ASSUME NEW x \in Nums, NEW y \in Nums, Cells!isclose(x, y),
           \E s \in Cells!Sides : Cells!coarse(column[s]) = "float"
    PROVE  Cells!Negligible(x, y)
<1> DEFINE diff == IF x > y THEN x - y ELSE y - x
<1>1. x \in Nat /\ y \in Nat /\ x # NaN /\ y # NaN /\ AbsTol \in Nat /\ RelDen \in Nat
  BY CellLimits
<1>2. diff <= AbsTol \/ RelDen * diff <= x \/ RelDen * diff <= y
  BY DEF Cells!isclose
<1>3. diff \in 0 .. x + y /\ x <= y + diff /\ y <= x + diff
  BY <1>1
<1> HIDE DEF diff
<1>4. PICK z \in {AbsTol} \cup {n \in 0 .. x + y : RelDen * n <= x \/ RelDen * n <= y} :
          x <= y + z /\ y <= x + z
  <2>1. CASE diff <= AbsTol
    <3>1. x <= y + AbsTol /\ y <= x + AbsTol
      BY <1>1, <1>3, <2>1
    <3> QED  BY <3>1
  <2>2. CASE RelDen * diff <= x \/ RelDen * diff <= y
    BY <1>3, <2>2
  <2> QED  BY <1>2, <2>1, <2>2
<1> QED  BY <1>1, <1>4 DEF Cells!Negligible

\* Two data that are taken for the same are numbers within the tolerance.
LEMMA DriftOnlyWithinTolerance ==
    ASSUME column \in Pairings, PlainDrivers, FloatsAmongNumbers,
           NEW d \in Cells!Contents(column["source"]),
           NEW e \in Cells!Contents(column["target"]),
           Cells!values_equal(Cells!Value(column["source"], d),
                              Cells!Value(column["target"], e)),
           d # e
    PROVE  /\ d # Null /\ e # Null /\ d.kind = "number" /\ e.kind = "number"
           /\ Cells!Negligible(d.val, e.val)
<1> DEFINE b == Cells!coarse(column["source"])
           c == Cells!coarse(column["target"])
           v == Cells!Value(column["source"], d)
           w == Cells!Value(column["target"], e)
<1>1. /\ KnownType(column["source"]) /\ PlainType(column["source"])
      /\ KnownType(column["target"]) /\ PlainType(column["target"]) /\ Zone["mysql"] = 0
      /\ b \in KnownTypes /\ c \in KnownTypes
  BY PairKnown, ZonesKnown DEF PlainDrivers, Cells!Sides
<1>2. /\ d # Null => v # Null
      /\ e # Null => w # Null
  BY <1>1, CellNormal, CellLimits
<1>3. /\ d = Null => v = Null
      /\ e = Null => w = Null
  BY DEF Cells!Value
<1>4. Cells!values_equal(v, w)
  OBVIOUS
<1>5. d # Null /\ e # Null /\ Null \notin {v, w}
  <2> HIDE DEF v, w
  <2> QED  BY <1>2, <1>3, <1>4 DEF Cells!values_equal
<1>6. /\ v.py = "float" <=> b = "float"
      /\ v.val = d.val \/ b = "timestamp"
      /\ v.py \in {"bool", "int", "Decimal", "float", "str", "bytes"} <=>
                b \notin {"json", "timestamp", "date"}
      /\ Cells!_normalize(v) = [py |-> ClassOf(b), val |-> d.val, tzinfo |-> Naive]
  BY <1>1, <1>5, CellNormal
<1>7. /\ w.py = "float" <=> c = "float"
      /\ w.val = e.val \/ c = "timestamp"
      /\ w.py \in {"bool", "int", "Decimal", "float", "str", "bytes"} <=>
                c \notin {"json", "timestamp", "date"}
      /\ Cells!_normalize(w) = [py |-> ClassOf(c), val |-> e.val, tzinfo |-> Naive]
  BY <1>1, <1>5, CellNormal
<1>8. /\ d = [kind |-> KindOf(b), val |-> d.val] /\ d.kind = KindOf(b)
      /\ e = [kind |-> KindOf(c), val |-> e.val] /\ e.kind = KindOf(c)
  BY <1>1, <1>5, ContentsKnown
<1>9. /\ b = "float" => c \notin {"string", "binary"}
      /\ c = "float" => b \notin {"string", "binary"}
      /\ "float" \in {b, c} => \E s \in Cells!Sides : Cells!coarse(column[s]) = "float"
  BY DEF FloatsAmongNumbers, Cells!Sides
<1> HIDE DEF b, c, v, w
<1>10. CASE "float" \notin {b, c}
  <2>1. Cells!_normalize(v) = Cells!_normalize(w)
    BY <1>4, <1>5, <1>6, <1>7, <1>10 DEF Cells!values_equal
  <2>2. ClassOf(b) = ClassOf(c) /\ d.val = e.val
    BY <1>6, <1>7, <2>1
  <2>3. KindOf(b) = KindOf(c)
    BY <1>1, <2>2, SameClassSameKind
  <2> QED  BY <1>8, <2>2, <2>3
<1>11. CASE "float" \in {b, c}
  <2>1. Cells!Floats(v) /\ Cells!Floats(w) /\ Cells!isclose(v.val, w.val)
    BY <1>4, <1>5, <1>6, <1>7, <1>11 DEF Cells!values_equal
  <2>2. /\ b \notin {"json", "timestamp", "date", "string", "binary"}
        /\ c \notin {"json", "timestamp", "date", "string", "binary"}
    BY <1>6, <1>7, <1>9, <1>11, <2>1 DEF Cells!Floats
  <2>3. KindOf(b) = "number" /\ KindOf(c) = "number"
    BY <1>1, <2>2, KindsAndClasses
  <2>4. v.val = d.val /\ w.val = e.val
    BY <1>6, <1>7, <2>2
  <2>5. d.val \in Nums /\ e.val \in Nums
    BY <2>1, <2>4 DEF Cells!Floats, Cells!isclose
  <2> QED  BY <1>5, <1>8, <1>9, <1>11, <2>1, <2>3, <2>4, <2>5, CloseIsNegligible
<1> QED  BY <1>10, <1>11

LEMMA CellFaithful ==
    ASSUME CellInv, PlainDrivers  PROVE Cells!FaithfulCopyIsSame
<1> SUFFICES ASSUME verdict # "none", Cells!SameFamily, cell["source"] = cell["target"]
             PROVE  verdict = "same" \/ cell["source"].val = NaN
  BY DEF Cells!FaithfulCopyIsSame
<1> DEFINE d == cell["source"]
<1>1. /\ column \in Pairings /\ d \in Cells!Contents(column["source"])
      /\ d \in Cells!Contents(column["target"])
  BY DEF CellInv, Cells!TypeOK, Cells!Sides
<1>2. \/ Cells!values_equal(Cells!Value(column["source"], d),
                            Cells!Value(column["target"], d))
      \/ d.val = NaN
  <2> HIDE DEF d
  <2> QED  BY <1>1, CopyIsEqual DEF Cells!SameFamily
<1>3. /\ Cells!Value(column["source"], d) = Cells!Cell("source")
      /\ Cells!Value(column["target"], d) = Cells!Cell("target")
  BY DEF Cells!Cell
<1> QED  BY <1>2, <1>3 DEF CellInv

LEMMA CellDrift ==
    ASSUME CellInv, PlainDrivers, FloatsAmongNumbers  PROVE Cells!DriftIsSeen
<1> SUFFICES ASSUME verdict = "same", cell["source"] # cell["target"]
             PROVE  /\ \A s \in Cells!Sides : cell[s] # Null
                    /\ cell["source"].kind = "number" /\ cell["target"].kind = "number"
                    /\ Cells!Negligible(cell["source"].val, cell["target"].val)
  BY DEF Cells!DriftIsSeen
<1>1. /\ column \in Pairings /\ cell["source"] \in Cells!Contents(column["source"])
      /\ cell["target"] \in Cells!Contents(column["target"])
  BY DEF CellInv, Cells!TypeOK, Cells!Sides
<1>2. Cells!values_equal(Cells!Value(column["source"], cell["source"]),
                   Cells!Value(column["target"], cell["target"]))
  BY DEF CellInv, Cells!Cell
<1> QED  BY <1>1, <1>2, DriftOnlyWithinTolerance DEF Cells!Sides

LEMMA CellSymmetric ==
    ASSUME CellInv  PROVE Cells!Symmetric
  BY EqualEitherWay DEF CellInv, Cells!Symmetric

CellHolds == which = "cell" => CellInv

LEMMA CellInvariant == Spec => []CellHolds
<1>1. Init => CellHolds
  BY CellInit DEF Init, CellHolds
<1>2. CellHolds /\ [Next]_vars => CellHolds'
  <2> SUFFICES ASSUME CellHolds, [Next]_vars, which' = "cell"
               PROVE  CellInv'
    BY DEF CellHolds
  <2>1. which = "cell" /\ (Cells!Next \/ UNCHANGED valuesVars)
    BY DEF Next, vars
  <2>2. [Cells!Next]_Cells!vars
    BY <2>1 DEF Cells!vars, valuesVars
  <2> QED  BY <2>1, <2>2, CellStep DEF CellHolds
<1> QED  BY <1>1, <1>2, PTL DEF Spec

\* values_equal takes a faithful copy of a cell for the same, whichever engines
\* and whichever types of one family the two columns are of, NaN excepted: if
\* the drivers return what the coarse types suggest.
THEOREM FaithfulCopyTheorem ==
    ASSUME PlainDrivers
    PROVE  Spec => []FaithfulCopyIsSame
<1>1. CellHolds => FaithfulCopyIsSame
  BY CellFaithful DEF CellHolds, FaithfulCopyIsSame
<1> QED  BY CellInvariant, <1>1, PTL

\* values_equal passes no cell that was changed on its way, but for numbers
\* within the tolerance of a float column: under the same assumption, and if no
\* float is compared with a text or bytes, which float() may take for a number.
THEOREM DriftTheorem ==
    ASSUME PlainDrivers, FloatsAmongNumbers
    PROVE  Spec => []DriftIsSeen
<1>1. CellHolds => DriftIsSeen
  BY CellDrift DEF CellHolds, DriftIsSeen
<1> QED  BY CellInvariant, <1>1, PTL

\* values_equal says the same with the two sides exchanged, for any two columns.
THEOREM SymmetryTheorem == Spec => []Symmetric
<1>1. CellHolds => Symmetric
  BY CellSymmetric DEF CellHolds, Symmetric
<1> QED  BY CellInvariant, <1>1, PTL

-----------------------------------------------------------------------------
(* The checks together *)

\* Whichever check runs, what it stores stays within its types.
THEOREM ChecksTypes == Spec => []TypeOK
<1>1. Spec => [](FreshHolds /\ RowDeltaHolds /\ NullsHolds /\ DriftHolds /\ SelectHolds
             /\ CellHolds)
  BY FreshInvariant, RowDeltaInvariant, NullsInvariant, DriftInvariant,
     SelectInvariant, CellInvariant, PTL
<1>2. FreshHolds /\ RowDeltaHolds /\ NullsHolds /\ DriftHolds /\ SelectHolds
           /\ CellHolds => TypeOK
  BY DEF FreshHolds, FreshInv, RowDeltaHolds, RowDeltaInv, NullsHolds, NullsInv,
         DriftHolds, DriftInv, SelectHolds, SelectInv,
         CellHolds, CellInv, TypeOK
<1> QED  BY <1>1, <1>2, PTL
=============================================================================
