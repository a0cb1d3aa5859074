---------------------------- MODULE WriteBehind ----------------------------
(***************************************************************************)
(* What the store promises, without tasks, marks, revisions or retries: of *)
(* every object there is a version in memory and one on disk.  Changes go  *)
(* to memory; what is written is newer than what the disk has and no newer *)
(* than memory; a restart finds what the disk has.                         *)
(***************************************************************************)
EXTENDS Naturals

CONSTANTS
    Objects,  \* object ids
    Deleted   \* the soft-deleted ones, which a start leaves on disk

VARIABLES
    mem,      \* version in memory, 0 when it is not there
    disk      \* version in the table, 0 when there is no row

Init ==
    /\ disk \in [Objects -> Nat]
    /\ mem = [o \in Objects |-> IF o \in Deleted THEN 0 ELSE disk[o]]

\* A command changes the objects of S, all at once.
Change(S) ==
    /\ \A o \in S : mem'[o] > mem[o] /\ mem'[o] > disk[o]
    /\ mem' = [o \in Objects |-> IF o \in S THEN mem'[o] ELSE mem[o]]
    /\ UNCHANGED disk

\* A save, of any objects and of any of their versions the disk lacks.
Write(S) ==
    /\ \A o \in S : disk[o] < disk'[o] /\ disk'[o] <= mem[o]
    /\ disk' = [o \in Objects |-> IF o \in S THEN disk'[o] ELSE disk[o]]
    /\ UNCHANGED mem

\* Something that was only on disk is wanted.
Load(o) ==
    /\ mem[o] = 0
    /\ mem' = [mem EXCEPT ![o] = disk[o]]
    /\ UNCHANGED disk

Restart ==
    /\ mem' = [o \in Objects |-> IF o \in Deleted THEN 0 ELSE disk[o]]
    /\ UNCHANGED disk

Next ==
    \/ \E S \in SUBSET Objects : Change(S) \/ Write(S)
    \/ \E o \in Objects : Load(o)
    \/ Restart

Spec == Init /\ [][Next]_<<mem, disk>>
=============================================================================
