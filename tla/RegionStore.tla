---------------------------- MODULE RegionStore ----------------------------
(***************************************************************************)
(* What the callers of a region may rely on, whatever slots, tables and    *)
(* partial writes lie in between (RegionFile of internal/storage): a chunk *)
(* has a content in memory and one on disk; a SaveChunk replaces both by   *)
(* its delta, each at once, and touches no other chunk; one that returned  *)
(* nil has done so, one that failed or was stopped may have.  GetChunk     *)
(* returns what the chunk had when it was called, or the delta of a later  *)
(* save of it.                                                             *)
(*                                                                         *)
(* The region may lose a chunk, and then promises nothing of it until it   *)
(* has been saved again; a lost chunk has NoDelta here.                    *)
(***************************************************************************)
CONSTANTS Chunks, Deltas, Readers, NoChunk, NoDelta

VARIABLES
  mem,        \* what a GetChunk would return
  disk,       \* what another process would find
  saved,      \* what the last SaveChunk that returned nil had to save
  target,     \* the chunk being saved
  new,        \* and its delta
  reading,    \* per reader: the chunk it was called with
  found,      \* and what it will return
  loose,      \* chunks of which nothing is promised
  blind       \* readers that may return anything

chunkVars == <<mem, disk, loose>>
readVars == <<reading, found, blind>>
vars == <<chunkVars, saved, target, new, readVars>>

Init ==
  /\ mem = [c \in Chunks |-> NoDelta]
  /\ disk = mem /\ saved = mem
  /\ target = NoChunk /\ new = NoDelta
  /\ reading = [r \in Readers |-> NoChunk]
  /\ found = [r \in Readers |-> NoDelta]
  /\ loose = {} /\ blind = {}

Idle == target = NoChunk

(* The chunks of S are lost, and so are some of those who read them. *)
Lose(S) ==
  /\ loose' = loose \cup S
  /\ mem' = [c \in Chunks |-> IF c \in S THEN NoDelta ELSE mem[c]]
  /\ disk' = [c \in Chunks |-> IF c \in S THEN NoDelta ELSE disk[c]]
  /\ \E R \in SUBSET {r \in Readers : reading[r] \in S} :
       /\ blind' = blind \cup R
       /\ found' = [r \in Readers |-> IF r \in R THEN NoDelta ELSE found[r]]
  /\ UNCHANGED reading

Save(c, d) ==
  /\ Idle
  /\ target' = c /\ new' = d
  /\ \E S \in {{}, {c}} : Lose(S)
  /\ UNCHANGED saved

(* The delta is what GetChunk returns from now on, and may be on disk. *)
Apply ==
  /\ ~Idle
  /\ UNCHANGED <<saved, target, new, reading, loose, blind>>
  /\ \/ /\ target \notin loose
        /\ mem' = [mem EXCEPT ![target] = new]
        /\ disk' \in {disk, [disk EXCEPT ![target] = new]}
     \/ target \in loose /\ UNCHANGED <<mem, disk>>
  /\ \E R \in SUBSET {r \in Readers \ blind : reading[r] = target} :
       found' = [r \in Readers |-> IF r \in R THEN new ELSE found[r]]

(* The delta is on disk, whatever was there before. *)
Settle ==
  /\ mem' = [mem EXCEPT ![target] = new]
  /\ disk' = [disk EXCEPT ![target] = new]
  /\ loose' = loose \ {target}

Commit ==
  /\ ~Idle
  /\ UNCHANGED <<saved, target, new>>
  /\ Settle
  /\ UNCHANGED readVars

(* A delta too large for its slot's size field puts all chunks at risk. *)
Overflow ==
  /\ ~Idle
  /\ UNCHANGED <<saved, target, new>>
  /\ Lose(Chunks)

Return == target' = NoChunk /\ new' = NoDelta

Succeed ==
  /\ ~Idle
  /\ Return
  /\ saved' = [saved EXCEPT ![target] = new]
  /\ \/ Settle
     \/ target \in loose /\ UNCHANGED chunkVars
  /\ UNCHANGED readVars

Fail ==
  /\ ~Idle
  /\ Return
  /\ UNCHANGED saved
  /\ \E S \in {{}, {target}, Chunks} : Lose(S)

(* Nobody looks a chunk up while one is being saved. *)
Lookup(r, c) ==
  /\ Idle
  /\ reading[r] = NoChunk
  /\ mem[c] # NoDelta \/ c \in loose
  /\ reading' = [reading EXCEPT ![r] = c]
  /\ found' = [found EXCEPT ![r] = mem[c]]
  /\ blind' = IF c \in loose THEN blind \cup {r} ELSE blind
  /\ UNCHANGED <<chunkVars, saved, target, new>>

Answer(r) ==
  /\ reading' = [reading EXCEPT ![r] = NoChunk]
  /\ found' = [found EXCEPT ![r] = NoDelta]
  /\ blind' = blind \ {r}
  /\ UNCHANGED <<chunkVars, saved, target, new>>

(* The process stops, or the region is closed, and is opened again. *)
Reopen ==
  /\ Return
  /\ reading' = [r \in Readers |-> NoChunk]
  /\ found' = [r \in Readers |-> NoDelta]
  /\ blind' = {}
  /\ mem' = disk
  /\ UNCHANGED <<disk, saved, loose>>

Next ==
  \/ \E c \in Chunks, d \in Deltas : Save(c, d)
  \/ Apply \/ Commit \/ Overflow \/ Succeed \/ Fail
  \/ Reopen
  \/ \E r \in Readers : Answer(r) \/ \E c \in Chunks : Lookup(r, c)

Spec == Init /\ [][Next]_vars
=============================================================================
