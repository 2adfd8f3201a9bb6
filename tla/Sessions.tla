------------------------------ MODULE Sessions ------------------------------
(***************************************************************************)
(* The two connections the checks of a pair share: what a query sees of    *)
(* tables that keep changing.  No snapshot spans the two engines.  On a    *)
(* side in Pinned (MySQL: pymysql leaves autocommit off and InnoDB reads   *)
(* at REPEATABLE READ) everything the connection reads is the state of its *)
(* first read, which may belong to an earlier check of the same pair;      *)
(* elsewhere every query sees the current table.                           *)
(***************************************************************************)
EXTENDS Replication, FiniteSetTheorems, TLAPS

CONSTANTS
    Pinned,  \* the sides whose session keeps its first snapshot
    NONE     \* a session that has not read yet

ASSUME SessionsAssumption == Pinned \subseteq Sides /\ NONE \notin Table

VARIABLES
    view,    \* view[side]: the snapshot the session is pinned to
    touched  \* history: keys changed on either side since the sessions opened

SessionsInit == ReplInit /\ view = [s \in Sides |-> NONE] /\ touched = {}

Current(s) == IF s = "source" THEN src ELSE tgt
NoSnapshot(s) == Current(s)
Seen(s) == IF view[s] # NONE THEN view[s] ELSE Current(s)

Reads(s) ==
    view' = IF s \in Pinned THEN [view EXCEPT ![s] = Seen(s)] ELSE view

\* A step of the world: what it changes counts as touched.
Noted ==
    touched' = touched \cup {k \in Keys : src'[k] # src[k] \/ tgt'[k] # tgt[k]}

SessionsTypeOK ==
    /\ ReplTypeOK
    /\ view \in [Sides -> Table \cup {NONE}] /\ touched \subseteq Keys

-----------------------------------------------------------------------------
(* What a query may see, for every table, pipe and pinned side: outside    *)
(* `touched` nothing has changed since the sessions were opened, so every  *)
(* snapshot a session may be pinned to agrees there with the tables.       *)

SnapshotOK ==
    \A s \in Sides : view[s] # NONE =>
        /\ s \in Pinned
        /\ \A k \in Keys \ touched : view[s][k] = Current(s)[k]

LEMMA SeenType ==
    ASSUME SessionsTypeOK, NEW s \in Sides
    PROVE  Seen(s) \in Table
  BY DEF SessionsTypeOK, ReplTypeOK, Seen, Current

LEMMA SeenQuiet ==
    ASSUME SnapshotOK, NEW s \in Sides, NEW k \in Keys \ touched
    PROVE  Seen(s)[k] = Current(s)[k]
  BY DEF SnapshotOK, Seen

\* A query leaves the sessions well typed ...
LEMMA ReadsType ==
    ASSUME SessionsTypeOK, NEW s \in Sides, Reads(s),
           UNCHANGED <<replVars, touched>>
    PROVE  SessionsTypeOK'
<1>1. view' \in [Sides -> Table \cup {NONE}]
  BY SeenType DEF SessionsTypeOK, Reads
<1> QED
  BY <1>1 DEF SessionsTypeOK, ReplTypeOK, replVars

\* ... and their snapshots true where nothing was touched.
LEMMA ReadsSnapshot ==
    ASSUME SessionsTypeOK, SnapshotOK, NEW s \in Sides, Reads(s),
           UNCHANGED <<replVars, touched>>
    PROVE  SnapshotOK'
<1> SUFFICES ASSUME NEW t \in Sides, view'[t] # NONE,
                    NEW k \in Keys \ touched
             PROVE  view'[t][k] = Current(t)[k]
  <2>1. \A t \in Sides : view'[t] # NONE => t \in Pinned
    BY DEF SnapshotOK, Reads, SessionsTypeOK
  <2> QED
    BY <2>1 DEF SnapshotOK, Current, replVars
<1>1. view'[t] = view[t] \/ (t = s /\ view'[t] = Seen(s))
  BY DEF Reads, SessionsTypeOK
<1> QED
  BY <1>1, SeenQuiet DEF SnapshotOK

\* After a read of a pinned side, its snapshot is what that read saw.
LEMMA ReadsPins ==
    ASSUME SessionsTypeOK, NEW s \in Sides, Reads(s)
    PROVE  /\ s \in Pinned => view'[s] = Seen(s) /\ view'[s] # NONE
           /\ \A t \in Sides : view[t] # NONE => view'[t] = view[t]
<1>1. Seen(s) # NONE
  BY SeenType, SessionsAssumption
<1> QED
  BY <1>1 DEF Reads, SessionsTypeOK, Seen

-----------------------------------------------------------------------------
(* The steps of the world *)

LEMMA ReplicateType ==
    ASSUME ReplTypeOK, Replicate
    PROVE  ReplTypeOK'
<1>1. /\ src \in Table /\ tgt \in Table /\ pipe \in Seq(Change)
      /\ writes \in 0 .. MaxWrites /\ MaxWrites \in Nat
  BY ReplicationAssumption DEF ReplTypeOK
<1>2. pipe # <<>> => Head(pipe) \in Change /\ Tail(pipe) \in Seq(Change)
  BY <1>1
<1>3. ASSUME NEW v \in Vals \cup {Absent}, Apply(v)  PROVE  ReplTypeOK'
  <2>1. tgt' \in Table
    BY <1>1, <1>2, <1>3 DEF Apply, Table, Change
  <2> QED
    BY <1>1, <1>2, <1>3, <2>1 DEF Apply, ReplTypeOK
<1>4. ASSUME NEW k \in Keys, NEW v \in Vals \cup {Absent}, Write(k, v)
      PROVE  ReplTypeOK'
  <2>1. src' \in Table
    BY <1>1, <1>4 DEF Write, Table
  <2>2. [key |-> k, val |-> v] \in Change
    BY DEF Change
  <2>3. pipe' \in Seq(Change)
    BY <1>1, <1>4, <2>2 DEF Write
  <2>4. writes' \in 0 .. MaxWrites
    BY <1>1, <1>4 DEF Write
  <2> QED
    BY <1>1, <1>4, <2>1, <2>3, <2>4 DEF Write, ReplTypeOK
<1>5. CASE Deliver
  BY <1>2, <1>3, <1>5 DEF Deliver, Change
<1>6. CASE Garble
  BY <1>3, <1>6 DEF Garble
<1>7. CASE Lose
  BY <1>1, <1>2, <1>7 DEF Lose, ReplTypeOK
<1> QED
  BY <1>4, <1>5, <1>6, <1>7 DEF Replicate

LEMMA WorldType ==
    ASSUME SessionsTypeOK, ReplTypeOK', Noted, UNCHANGED view
    PROVE  SessionsTypeOK'
  BY DEF SessionsTypeOK, Noted

\* The tables change only where they are touched.
LEMMA NotedQuiet ==
    ASSUME Noted
    PROVE  /\ touched \subseteq touched'
           /\ \A k \in Keys \ touched' :
                 k \notin touched /\ src'[k] = src[k] /\ tgt'[k] = tgt[k]
  BY DEF Noted

LEMMA WorldSnapshot ==
    ASSUME SnapshotOK, Noted, UNCHANGED view
    PROVE  SnapshotOK'
<1> SUFFICES ASSUME NEW s \in Sides, view[s] # NONE, NEW k \in Keys \ touched'
             PROVE  view[s][k] = Current(s)'[k]
  BY DEF SnapshotOK
<1> QED
  BY NotedQuiet DEF SnapshotOK, Current
=============================================================================
