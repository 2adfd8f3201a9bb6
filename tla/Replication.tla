---------------------------- MODULE Replication -----------------------------
(***************************************************************************)
(* The world cdcanary watches: a source table, a target table and the CDC  *)
(* pipe between them.  None of it is this repository's code; it is what    *)
(* the README and the checks' docstrings assume of it -- changes arrive    *)
(* late and in order, and a faulty pipe loses a change or garbles a value. *)
(***************************************************************************)
EXTENDS Integers, Sequences, FiniteSets

CONSTANTS
    Keys,       \* primary keys (or whatever else identifies what is copied)
    Vals,       \* row contents
    Absent,     \* no such row
    MaxWrites   \* bound: changes the applications make in a behaviour

ASSUME ReplicationAssumption ==
    /\ IsFiniteSet(Keys)
    /\ Absent \notin Vals /\ MaxWrites \in Nat

Sides == {"source", "target"}

Table == [Keys -> Vals \cup {Absent}]

RowsOf(tab) == {k \in Keys : tab[k] # Absent}

VARIABLES
    src, tgt,  \* the two tables
    pipe,      \* changes on their way, oldest first
    writes     \* how many were ever made, up to MaxWrites

replVars == <<src, tgt, pipe, writes>>

Change == [key : Keys, val : Vals \cup {Absent}]

\* The tables may have drifted apart long before; nothing is on its way.
ReplInit ==
    /\ src \in Table /\ tgt \in Table
    /\ pipe = <<>> /\ writes = 0

\* INSERT, UPDATE or DELETE at the source.
Write(k, v) ==
    /\ writes < MaxWrites /\ src[k] # v
    /\ src' = [src EXCEPT ![k] = v]
    /\ pipe' = Append(pipe, [key |-> k, val |-> v])
    /\ writes' = writes + 1
    /\ UNCHANGED tgt

\* The connector applies the oldest change, as v.
Apply(v) ==
    /\ pipe # <<>>
    /\ tgt' = [tgt EXCEPT ![Head(pipe).key] = v]
    /\ pipe' = Tail(pipe)
    /\ UNCHANGED <<src, writes>>

Deliver == pipe # <<>> /\ Apply(Head(pipe).val)

\* A lossy cast, a shifted time zone, a truncated string.
Garble == pipe # <<>> /\ Head(pipe).val # Absent /\ \E v \in Vals : Apply(v)

Lose ==
    /\ pipe # <<>>
    /\ pipe' = Tail(pipe)
    /\ UNCHANGED <<src, tgt, writes>>

Replicate ==
    \/ \E k \in Keys, v \in Vals \cup {Absent} : Write(k, v)
    \/ Deliver \/ Garble \/ Lose

ReplTypeOK ==
    /\ src \in Table /\ tgt \in Table
    /\ pipe \in Seq(Change) /\ writes \in 0 .. MaxWrites
=============================================================================
