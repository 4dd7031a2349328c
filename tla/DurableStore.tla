---------------------------- MODULE DurableStore ----------------------------
(***************************************************************************)
(* What a caller of the storage may rely on, whatever cache and background *)
(* saving lie in between (storage.WorldStorage): a chunk has a content in  *)
(* memory and one on disk, blocks are written, acknowledged, made durable, *)
(* and Close owes to the disk what was acknowledged before it.  The store  *)
(* may lose a chunk, and then promises nothing of it any more; it may give *)
(* up a save for now, or fail in it and lose what the disk had, and then   *)
(* owes nothing at Close.                                                  *)
(***************************************************************************)
CONSTANTS Chunks, Blocks

VARIABLES
  mem,       \* what a load would return
  disk,      \* what survives a restart
  acked,     \* what callers were told is saved
  busy,      \* chunks a caller is writing
  promised,  \* what Close owes to the disk
  late,      \* chunks whose save was given up or overtaken by a write
  lost,      \* chunks of which nothing is promised
  state      \* open, closing, closed, aborted

vars == <<mem, disk, acked, busy, promised, late, lost, state>>

Init ==
  /\ disk \in [Chunks -> SUBSET Blocks]
  /\ mem = disk /\ acked = disk
  /\ busy = {} /\ late = {} /\ lost = {}
  /\ promised = [c \in Chunks |-> {}]
  /\ state = "open"

Reliable == Chunks \ lost

Begin(c) ==
  /\ busy' = busy \cup {c}
  /\ UNCHANGED <<mem, disk, acked, promised, late, lost, state>>

Write(c, b) ==
  /\ c \in busy
  /\ mem' = [mem EXCEPT ![c] = @ \cup {b}]
  /\ UNCHANGED <<disk, acked, busy, promised, late, lost, state>>

(* Only what a load would return is acknowledged. *)
Acknowledge(c) ==
  /\ c \in busy
  /\ busy' \in {busy, busy \ {c}}
  /\ \E B \in SUBSET mem[c] : acked' = [acked EXCEPT ![c] = @ \cup B]
  /\ late' \in {late, late \cup {c}}
  /\ UNCHANGED <<mem, disk, promised, lost, state>>

(* The disk grows towards the memory and never holds anything else. *)
Persist(c) ==
  /\ \E B \in SUBSET mem[c] : disk' = [disk EXCEPT ![c] = @ \cup B]
  /\ late' \in {late, late \cup {c}}
  /\ UNCHANGED <<mem, acked, busy, promised, lost, state>>

(* A save that fails may take with it what was stored; a load still returns *)
(* the memory, and the next save stores the chunk again.                    *)
Ruin(c) ==
  /\ disk' = [disk EXCEPT ![c] = {}]
  /\ late' = late \cup {c}
  /\ UNCHANGED <<mem, acked, busy, promised, lost, state>>

Overtake(c) ==
  /\ c \in busy
  /\ late' = late \cup {c}
  /\ UNCHANGED <<mem, disk, acked, busy, promised, lost, state>>

Resume(c) ==
  /\ late' = late \ {c}
  /\ UNCHANGED <<mem, disk, acked, busy, promised, lost, state>>

(* Nothing is known of the chunks of S from now on. *)
Forget(f, S) == [c \in Chunks |-> IF c \in S THEN {} ELSE f[c]]

Lose(S) ==
  /\ lost' = lost \cup S
  /\ mem' = Forget(mem, S) /\ disk' = Forget(disk, S)
  /\ acked' = Forget(acked, S) /\ promised' = Forget(promised, S)
  /\ busy' = busy \ S /\ late' = late \ S
  /\ UNCHANGED state

Close ==
  /\ state = "open"
  /\ state' = "closing"
  /\ promised' = [c \in Chunks |-> IF c \in busy THEN {} ELSE acked[c]]
  /\ UNCHANGED <<mem, disk, acked, busy, late, lost>>

CloseEnds ==
  /\ state = "closing"
  /\ \A c \in Chunks \ late : promised[c] \subseteq disk[c]
  /\ state' = "closed"
  /\ UNCHANGED <<mem, disk, acked, busy, promised, late, lost>>

Abort ==
  /\ state' = "aborted"
  /\ UNCHANGED <<mem, disk, acked, busy, promised, late, lost>>

Next ==
  /\ state # "aborted"
  /\ \/ \E c \in Reliable :
          \/ Begin(c) \/ Acknowledge(c) \/ Persist(c) \/ Ruin(c)
          \/ Overtake(c) \/ Resume(c)
          \/ \E b \in Blocks : Write(c, b)
     \/ \E S \in SUBSET Reliable : Lose(S)
     \/ Close \/ CloseEnds \/ Abort

Spec == Init /\ [][Next]_vars
=============================================================================
