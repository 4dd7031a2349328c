----------------------------- MODULE RegionFile -----------------------------
(***************************************************************************)
(* One region file of internal/storage/region_file.go: a header, a table   *)
(* with an entry for each chunk, and the serialised deltas behind it.      *)
(* SaveChunk runs under the file's mutex, writes the data in place when it *)
(* fits and at the end of the file otherwise, and then its table entry.    *)
(* GetChunk looks the entry up under the read lock, releases it, and reads *)
(* under the mutex.                                                        *)
(*                                                                         *)
(* The process may stop between any two system calls, and what was written *)
(* by then is in the file when the region is opened again: data the kernel *)
(* has been given survives.  A write may fail after a part of it.          *)
(*                                                                         *)
(* `file' is what follows the table, counted from 1, so that an offset of  *)
(* 0 means none.  How a delta becomes cells is in ChunkCodec.              *)
(***************************************************************************)
EXTENDS Integers, Sequences

CONSTANTS
  Chunks,         \* the chunks of the region
  Deltas,         \* contents of a ChunkDelta
  NoChunk,        \* no save, or no read, in progress
  NoDelta,        \* no content
  Readers,        \* goroutines calling GetChunk
  Cells,          \* what a cell of the file may hold
  SizeMax,        \* sizes are kept modulo this (65536 in the code)
  MaxSaves,       \* bound of the model: number of calls of SaveChunk
  Serialize(_)    \* serializeChunk

ASSUME ConstantsAssumption ==
  /\ NoDelta \notin Deltas /\ NoChunk \notin Chunks
  /\ SizeMax \in Nat \ {0} /\ MaxSaves \in Nat
  /\ \A d \in Deltas : Serialize(d) \in Seq(Cells) /\ Len(Serialize(d)) > 0

VARIABLES
  stage,        \* of the file: "absent", "created", "header", "ready", "broken"
  file,         \* the cells behind the table
  table,        \* the entries in the file
  chunkIndex,   \* the entries in memory
  pc, chunk, delta, offset,   \* SaveChunk
  rPc, rChunk, rEntry, got    \* GetChunk, per reader

(***************************************************************************)
(* History variables.                                                      *)
(***************************************************************************)
VARIABLES
  saved,       \* the delta of the last SaveChunk that returned nil
  attempts,    \* deltas of the saves begun since then
  torn,        \* chunks whose data was overwritten in place by a part of a delta
  oversized,   \* a delta of SizeMax cells or more has been written
  mayRead,     \* per reader: the contents its chunk has had since the lookup
  spoiled,     \* readers that look for a chunk that was torn at the time or since then
  saves        \* number of calls of SaveChunk

saveVars == <<pc, chunk, delta, offset>>
readVars == <<rPc, rChunk, rEntry, got, mayRead, spoiled>>
vars == <<stage, file, table, chunkIndex, saveVars, readVars, saved, attempts, torn,
          oversized, saves>>

NoEntry == [offset |-> 0, size |-> 0]

(***************************************************************************)
(* Definitions whose name starts with Faulty are variants with a plausible *)
(* bug; no other definition uses them.  Each shows that some property      *)
(* would catch the bug.                                                    *)
(***************************************************************************)

(* Keeps the length as it is. *)
FaultySize(d) == Len(Serialize(d))

(* What SaveChunk makes of a length: uint16(len(data)). *)
Size(d) == Len(Serialize(d)) % SizeMax

(* SaveChunk holds the mutex from its first step to its last. *)
MutexFree == pc = "idle"

(* The file after the first n cells of data have been written at position o. *)
Written(o, data, n) ==
  [i \in 1..(IF o + n - 1 > Len(file) THEN o + n - 1 ELSE Len(file)) |->
     IF o <= i /\ i < o + n THEN data[i - o + 1] ELSE file[i]]

(* The cells an entry refers to. *)
Stored(cells, e) == SubSeq(cells, e.offset, e.offset + e.size - 1)

(* Contents a reader of c may find. *)
Contents(c) == {saved[c]} \cup attempts[c]

(***************************************************************************)
(* NewRegionFile on a file that is not there: create it, write the header, *)
(* write the table of 256 empty entries.                                   *)
(***************************************************************************)
FileUnchanged ==
  UNCHANGED <<file, table, chunkIndex, saveVars, readVars, saved, attempts, torn,
              oversized, saves>>

CreateFile ==
  /\ stage = "absent"
  /\ stage' = "created"
  /\ FileUnchanged

WriteHeader ==
  /\ stage = "created"
  /\ stage' = "header"
  /\ FileUnchanged

WriteIndexTable ==
  /\ stage = "header"
  /\ stage' = "ready"
  /\ FileUnchanged

(***************************************************************************)
(* SaveChunk.                                                              *)
(***************************************************************************)
ReturnSave ==
  /\ pc' = "idle"
  /\ chunk' = NoChunk
  /\ delta' = NoDelta
  /\ offset' = 0

(* Takes the slot of the entry whenever there is one. *)
FaultyChooseOffset(c, d) ==
  IF chunkIndex[c].offset > 0 THEN chunkIndex[c].offset ELSE Len(file) + 1

(* The place of the data: the old one if it fits, else the end of the file. *)
ChooseOffset(c, d) ==
  IF chunkIndex[c].offset > 0 /\ Size(d) <= chunkIndex[c].size
  THEN chunkIndex[c].offset
  ELSE Len(file) + 1

SaveChunk(c, d) ==
  /\ stage = "ready"
  /\ MutexFree
  /\ saves < MaxSaves
  /\ saves' = saves + 1
  /\ pc' = "data"
  /\ chunk' = c
  /\ delta' = d
  /\ offset' = ChooseOffset(c, d)
  /\ attempts' = [attempts EXCEPT ![c] = @ \cup {d}]
  /\ mayRead' = [r \in Readers |-> IF rChunk[r] = c /\ rPc[r] = "read"
                                   THEN mayRead[r] \cup {d} ELSE mayRead[r]]
  /\ UNCHANGED <<stage, file, table, chunkIndex, rPc, rChunk, rEntry, got, spoiled, saved,
                 torn, oversized>>

(* The data, and at once the entry in memory. *)
WriteData ==
  /\ pc = "data"
  /\ file' = Written(offset, Serialize(delta), Len(Serialize(delta)))
  /\ chunkIndex' = [chunkIndex EXCEPT ![chunk] = [offset |-> offset, size |-> Size(delta)]]
  /\ oversized' = (oversized \/ Len(Serialize(delta)) >= SizeMax)
  /\ pc' = "table"
  /\ UNCHANGED <<stage, table, chunk, delta, offset, readVars, saved, attempts, torn, saves>>

(* Only the first k cells get into the file. *)
WriteDataFails(k) ==
  /\ pc = "data"
  /\ k < Len(Serialize(delta))
  /\ file' = Written(offset, Serialize(delta), k)
  /\ IF k > 0 /\ offset <= Len(file)
     THEN /\ torn' = torn \cup {chunk}
          /\ spoiled' = spoiled \cup {r \in Readers : rChunk[r] = chunk}
     ELSE UNCHANGED <<torn, spoiled>>
  /\ oversized' = (oversized \/ Len(Serialize(delta)) >= SizeMax)
  /\ ReturnSave
  /\ UNCHANGED <<stage, table, chunkIndex, rPc, rChunk, rEntry, got, mayRead, saved,
                 attempts, saves>>

WriteTable ==
  /\ pc = "table"
  /\ table' = [table EXCEPT ![chunk] = chunkIndex[chunk]]
  /\ torn' = torn \ {chunk}
  /\ pc' = "sync"
  /\ UNCHANGED <<stage, file, chunkIndex, chunk, delta, offset, readVars, saved, attempts,
                 oversized, saves>>

(* The entry could not be written, or the file not be synced. *)
SaveFails ==
  /\ pc \in {"table", "sync"}
  /\ ReturnSave
  /\ UNCHANGED <<stage, file, table, chunkIndex, readVars, saved, attempts, torn,
                 oversized, saves>>

(* Leaves the entry in the file to a later save. *)
FaultySaveSucceeds ==
  /\ pc \in {"table", "sync"}
  /\ saved' = [saved EXCEPT ![chunk] = delta]
  /\ attempts' = [attempts EXCEPT ![chunk] = {}]
  /\ ReturnSave
  /\ UNCHANGED <<stage, file, table, chunkIndex, readVars, torn, oversized, saves>>

SaveSucceeds ==
  /\ pc = "sync"
  /\ saved' = [saved EXCEPT ![chunk] = delta]
  /\ attempts' = [attempts EXCEPT ![chunk] = {}]
  /\ ReturnSave
  /\ UNCHANGED <<stage, file, table, chunkIndex, readVars, torn, oversized, saves>>

(***************************************************************************)
(* GetChunk.                                                               *)
(***************************************************************************)
ReadUnchanged ==
  UNCHANGED <<stage, file, table, chunkIndex, saveVars, saved, attempts, torn, oversized,
              saves>>

(* The entry, under the read lock; without one the chunk is not found. *)
GetChunk(r, c) ==
  /\ stage = "ready"
  /\ MutexFree
  /\ rPc[r] = "idle"
  /\ chunkIndex[c].size > 0
  /\ rPc' = [rPc EXCEPT ![r] = "read"]
  /\ rChunk' = [rChunk EXCEPT ![r] = c]
  /\ rEntry' = [rEntry EXCEPT ![r] = chunkIndex[c]]
  /\ mayRead' = [mayRead EXCEPT ![r] = Contents(c)]
  /\ spoiled' = IF c \in torn THEN spoiled \cup {r} ELSE spoiled
  /\ UNCHANGED got
  /\ ReadUnchanged

(* The data, under the mutex, with the entry found before. *)
ReadData(r) ==
  /\ MutexFree
  /\ rPc[r] = "read"
  /\ got' = [got EXCEPT ![r] = Stored(file, rEntry[r])]
  /\ rPc' = [rPc EXCEPT ![r] = "done"]
  /\ UNCHANGED <<rChunk, rEntry, mayRead, spoiled>>
  /\ ReadUnchanged

GetChunkReturns(r) ==
  /\ rPc[r] = "done"
  /\ rPc' = [rPc EXCEPT ![r] = "idle"]
  /\ rChunk' = [rChunk EXCEPT ![r] = NoChunk]
  /\ rEntry' = [rEntry EXCEPT ![r] = NoEntry]
  /\ got' = [got EXCEPT ![r] = <<>>]
  /\ mayRead' = [mayRead EXCEPT ![r] = {}]
  /\ spoiled' = spoiled \ {r}
  /\ ReadUnchanged

(***************************************************************************)
(* The process stops, and another one opens the file: loadIndexTable takes *)
(* the entries that have a size.  A file without a table cannot be read    *)
(* and is an error at every attempt to open it.  Eviction, which closes an *)
(* idle file and opens it again, is the case where pc is idle.             *)
(***************************************************************************)
Crash ==
  /\ stage' = IF stage \in {"created", "header"} THEN "broken" ELSE stage
  /\ chunkIndex' = [c \in Chunks |-> IF table[c].size > 0 THEN table[c] ELSE NoEntry]
  /\ ReturnSave
  /\ rPc' = [r \in Readers |-> "idle"]
  /\ rChunk' = [r \in Readers |-> NoChunk]
  /\ rEntry' = [r \in Readers |-> NoEntry]
  /\ got' = [r \in Readers |-> <<>>]
  /\ mayRead' = [r \in Readers |-> {}]
  /\ spoiled' = {}
  /\ UNCHANGED <<file, table, saved, attempts, torn, oversized, saves>>

Init ==
  /\ stage = "absent"
  /\ file = <<>>
  /\ table = [c \in Chunks |-> NoEntry]
  /\ chunkIndex = [c \in Chunks |-> NoEntry]
  /\ pc = "idle" /\ chunk = NoChunk /\ delta = NoDelta /\ offset = 0
  /\ rPc = [r \in Readers |-> "idle"]
  /\ rChunk = [r \in Readers |-> NoChunk]
  /\ rEntry = [r \in Readers |-> NoEntry]
  /\ got = [r \in Readers |-> <<>>]
  /\ mayRead = [r \in Readers |-> {}]
  /\ spoiled = {}
  /\ saved = [c \in Chunks |-> NoDelta]
  /\ attempts = [c \in Chunks |-> {}]
  /\ torn = {}
  /\ oversized = FALSE
  /\ saves = 0

Next ==
  \/ CreateFile \/ WriteHeader \/ WriteIndexTable
  \/ \E c \in Chunks, d \in Deltas : SaveChunk(c, d)
  \/ WriteData \/ WriteTable \/ SaveSucceeds \/ SaveFails
  \/ \E d \in Deltas : \E k \in 0..(Len(Serialize(d)) - 1) : d = delta /\ WriteDataFails(k)
  \/ \E r \in Readers : \/ \E c \in Chunks : GetChunk(r, c)
                         \/ ReadData(r) \/ GetChunkReturns(r)
  \/ Crash

Spec == Init /\ [][Next]_vars

-----------------------------------------------------------------------------

Entries == [offset : Nat, size : 0..(SizeMax - 1)]

TypeOK ==
  /\ stage \in {"absent", "created", "header", "ready", "broken"}
  /\ file \in Seq(Cells)
  /\ table \in [Chunks -> Entries]
  /\ chunkIndex \in [Chunks -> Entries]
  /\ pc \in {"idle", "data", "table", "sync"}
  /\ chunk \in Chunks \cup {NoChunk}
  /\ delta \in Deltas \cup {NoDelta}
  /\ offset \in Nat
  /\ rPc \in [Readers -> {"idle", "read", "done"}]
  /\ rChunk \in [Readers -> Chunks \cup {NoChunk}]
  /\ rEntry \in [Readers -> Entries]
  /\ got \in [Readers -> Seq(Cells)]
  /\ mayRead \in [Readers -> SUBSET (Deltas \cup {NoDelta})]
  /\ spoiled \subseteq Readers
  /\ saved \in [Chunks -> Deltas \cup {NoDelta}]
  /\ attempts \in [Chunks -> SUBSET Deltas]
  /\ torn \subseteq Chunks
  /\ oversized \in BOOLEAN
  /\ saves \in 0..MaxSaves
  /\ pc # "idle" => chunk \in Chunks /\ delta \in Deltas /\ offset > 0
  /\ \A r \in Readers : rPc[r] # "idle" => rChunk[r] \in Chunks

(* The slot of e begins with the cells of d. *)
Holds(cells, e, d) ==
  /\ e.offset > 0
  /\ Len(Serialize(d)) <= e.size
  /\ \A i \in 1..Len(Serialize(d)) : cells[e.offset + i - 1] = Serialize(d)[i]

(* An entry stands for one of the deltas D, or there is none and D has none. *)
StandsFor(cells, e, D) ==
  \/ \E d \in D \ {NoDelta} : Holds(cells, e, d)
  \/ e.size = 0 /\ NoDelta \in D

(***************************************************************************)
(* Whenever the process stops, each chunk is on disk as its last           *)
(* successful SaveChunk left it, or as one begun since then meant to leave *)
(* it, whatever has been saved in place or moved around it (SaveChunk:     *)
(* data first, then the table entry).  Not so for a chunk overwritten in   *)
(* place by a part of a delta, nor once a delta was too large for its size *)
(* field.                                                                  *)
(***************************************************************************)
SurvivesCrash ==
  ~oversized => \A c \in Chunks \ torn : StandsFor(file, table[c], Contents(c))

(***************************************************************************)
(* GetChunk, whose entry may be old by the time it reads the data, gets    *)
(* data that the chunk has had since the call began.                       *)
(***************************************************************************)
ReadsCurrent ==
  ~oversized =>
    \A r \in Readers \ spoiled :
      rPc[r] = "done" =>
        \E d \in mayRead[r] \ {NoDelta} :
          /\ Len(Serialize(d)) <= Len(got[r])
          /\ \A i \in 1..Len(Serialize(d)) : got[r][i] = Serialize(d)[i]

(***************************************************************************)
(* All slots lie in the file, and those of two chunks never overlap, in    *)
(* memory and in the table (SaveChunk: in place only what fits).           *)
(***************************************************************************)
Apart(e, f) ==
  e.size = 0 \/ f.size = 0 \/ e.offset + e.size <= f.offset \/ f.offset + f.size <= e.offset

InFile(cells, e) == e.offset + e.size <= Len(cells) + 1 /\ (e.size > 0 => e.offset > 0)

SlotsApart ==
  /\ \A c \in Chunks : InFile(file, chunkIndex[c]) /\ InFile(file, table[c])
  /\ ~oversized =>
       \A c, d \in Chunks : c # d =>
         /\ Apart(chunkIndex[c], chunkIndex[d])
         /\ Apart(chunkIndex[c], table[d])
         /\ Apart(table[c], table[d])

-----------------------------------------------------------------------------
(***************************************************************************)
(* The inductive invariant behind the properties, in named parts.          *)
(***************************************************************************)

(* What a SaveChunk in progress has done. *)
Saving ==
  /\ pc # "idle" => delta \in attempts[chunk]
  /\ pc = "data" =>
       /\ \/ offset = Len(file) + 1
          \/ offset = chunkIndex[chunk].offset /\ Size(delta) <= chunkIndex[chunk].size
       /\ \A r \in Readers : rPc[r] = "read" /\ rChunk[r] = chunk => delta \in mayRead[r]
  /\ pc \in {"table", "sync"} => chunkIndex[chunk] = [offset |-> offset, size |-> Size(delta)]
  /\ pc = "sync" => table[chunk] = chunkIndex[chunk]

(* The slot of e begins where that of the older entry f does, or is another. *)
Succeeds(e, f) == Apart(e, f) \/ (e.offset = f.offset /\ e.size <= f.size)

IndexSucceedsTable ==
  ~oversized => \A c \in Chunks : Succeeds(chunkIndex[c], table[c])

(* What the entries in memory refer to. *)
IndexStands ==
  ~oversized =>
    /\ \A c \in Chunks \ torn : StandsFor(file, chunkIndex[c], Contents(c))
    /\ pc \in {"table", "sync"} => Holds(file, chunkIndex[chunk], delta)

(* An entry looked up refers to data of its chunk, which nobody overwrites *)
(* with the data of another.                                               *)
ReadersSafe ==
  /\ \A r \in Readers : rPc[r] = "read" => InFile(file, rEntry[r])
  /\ ~oversized =>
       \A r \in Readers \ spoiled :
         rPc[r] = "read" =>
           /\ Succeeds(chunkIndex[rChunk[r]], rEntry[r])
           /\ \A c \in Chunks \ {rChunk[r]} : Apart(chunkIndex[c], rEntry[r])
           /\ \E d \in mayRead[r] \ {NoDelta} : Holds(file, rEntry[r], d)

IndInv ==
  /\ TypeOK
  /\ Saving
  /\ SlotsApart
  /\ IndexSucceedsTable
  /\ IndexStands
  /\ SurvivesCrash
  /\ ReadersSafe
  /\ ReadsCurrent
=============================================================================
