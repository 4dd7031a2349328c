---------------------------- MODULE RegionChunks ----------------------------
(***************************************************************************)
(* A region file whose deltas are kept as ChunkCodec serialises them: what *)
(* SaveChunk is called with and what GetChunk returns, end to end.         *)
(***************************************************************************)
EXTENDS RegionFile, ChunkCodec

ASSUME DeltasAssumption ==
  \A d \in Deltas : d \in Seq(ChunkBlocks) /\ Serialize(d) = SerializeChunk(d)

(***************************************************************************)
(* A delta that can be stored is what GetChunk returns, whatever older and *)
(* longer data its slot has held (deserializeChunk).                       *)
(***************************************************************************)
LoadsWhatWasSaved ==
  ~oversized =>
    \A r \in Readers \ spoiled :
      /\ rPc[r] = "done"
      /\ \A d \in mayRead[r] \ {NoDelta} : Storable(d)
      => LET loaded == DeserializeChunk(got[r])
         IN loaded.at # Failed /\ loaded.read \in mayRead[r]
-----------------------------------------------------------------------------
(***************************************************************************)
(* The region as RegionStore describes it.  Nothing is promised of a chunk *)
(* that was overwritten by a part of a delta, nor while one that cannot be *)
(* stored may be found, nor once a delta was too large; and nothing to a   *)
(* reader that may find one of these.                                      *)
(***************************************************************************)
Unstorable == {d \in Deltas : ~Storable(d)}

Lost(c) == oversized \/ c \in torn \/ Contents(c) \cap Unstorable # {}
Misled(r) == rPc[r] # "idle" /\ (oversized \/ r \in spoiled \/ mayRead[r] \cap Unstorable # {})

Loose == {c \in Chunks : Lost(c)}
Blind == {r \in Readers : Misled(r)}

(* What the slot of an entry is read as. *)
Content(cells, e) ==
  IF e.size = 0 THEN NoDelta ELSE DeserializeChunk(Stored(cells, e)).read

Mem == [c \in Chunks |-> IF Lost(c) THEN NoDelta ELSE Content(file, chunkIndex[c])]
Disk == [c \in Chunks |-> IF Lost(c) THEN NoDelta ELSE Content(file, table[c])]

Target == IF pc = "idle" THEN NoChunk ELSE chunk
New == IF pc = "idle" THEN NoDelta ELSE delta

Reading == [r \in Readers |-> IF rPc[r] = "idle" THEN NoChunk ELSE rChunk[r]]

Found ==
  [r \in Readers |->
     IF rPc[r] = "idle" \/ Misled(r) THEN NoDelta
     ELSE IF rPc[r] = "read" THEN Content(file, rEntry[r])
     ELSE DeserializeChunk(got[r]).read]

Store == INSTANCE RegionStore
  WITH mem <- Mem, disk <- Disk, target <- Target, new <- New, reading <- Reading,
       found <- Found, loose <- Loose, blind <- Blind

(***************************************************************************)
(* A region file is such a store, through saves in place and at the end of *)
(* the file, failed and partial writes, stops at any point, and readers    *)
(* whose entry has grown old: SaveChunk, GetChunk, loadIndexTable.         *)
(***************************************************************************)
ImplementsRegionStore == Store!Spec
=============================================================================
