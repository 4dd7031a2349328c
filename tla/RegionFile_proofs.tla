-------------------------- MODULE RegionFile_proofs --------------------------
(***************************************************************************)
(* Proofs about RegionFile, for any chunks, deltas, readers and sizes, and *)
(* any serialisation into cells: no two chunks share a cell, what has been *)
(* saved survives a stop of the process at any point, and a reader gets    *)
(* what its chunk has had since the call began.  With the codec of         *)
(* ChunkCodec it gets it whole: reading inverts writing.                   *)
(***************************************************************************)
EXTENDS RegionChunks, SequenceTheorems, WellFoundedInduction, TLAPS

-----------------------------------------------------------------------------
(* Sizes, and entries. *)

(* What Size makes of a length. *)
LEMMA SizeFacts ==
  ASSUME NEW d \in Deltas
  PROVE  /\ Len(Serialize(d)) \in Nat /\ Len(Serialize(d)) > 0
         /\ Size(d) \in 0..(SizeMax - 1)
         /\ Len(Serialize(d)) < SizeMax => Size(d) = Len(Serialize(d))
<1>1. Len(Serialize(d)) \in Nat /\ Len(Serialize(d)) > 0
  BY ConstantsAssumption
<1>2. \A n \in Nat, m \in Nat \ {0} : n % m \in 0..(m - 1) /\ (n < m => n % m = n)
  OBVIOUS
<1> QED BY ConstantsAssumption, <1>1, <1>2 DEF Size

(* Entries apart are so in either order. *)
LEMMA ApartSymmetric ==
  ASSUME NEW e \in Entries, NEW f \in Entries, Apart(e, f)
  PROVE  Apart(f, e)
BY DEF Apart, Entries

(* The slot of the save in progress. *)
Slot == [offset |-> offset, size |-> Size(delta)]

(* The slot is behind the file, or in the place of the chunk's entry: it   *)
(* is apart from what that entry is apart from, and succeeds what it does. *)
LEMMA SlotPlace ==
  ASSUME TypeOK, Saving, pc = "data",
         NEW e \in Entries, InFile(file, e)
  PROVE  /\ Slot \in Entries
         /\ Apart(chunkIndex[chunk], e) => Apart(Slot, e)
         /\ Succeeds(chunkIndex[chunk], e) => Succeeds(Slot, e)
         /\ offset = Len(file) + 1 => Apart(Slot, e)
<1>1. delta \in Deltas /\ offset \in Nat /\ offset > 0 /\ chunk \in Chunks /\ file \in Seq(Cells)
  BY DEF TypeOK
<1>2. Size(delta) \in 0..(SizeMax - 1)
  BY <1>1, SizeFacts
<1>3. Slot \in Entries /\ chunkIndex[chunk] \in Entries
  BY <1>1, <1>2 DEF Slot, Entries, TypeOK
<1>4. offset = Len(file) + 1 => Apart(Slot, e)
  BY <1>1, <1>2 DEF Slot, Entries, Apart, InFile
<1>5. \/ offset = Len(file) + 1
      \/ offset = chunkIndex[chunk].offset /\ Size(delta) <= chunkIndex[chunk].size
  BY DEF Saving
<1>6. Apart(chunkIndex[chunk], e) => Apart(Slot, e)
  BY <1>1, <1>2, <1>3, <1>4, <1>5 DEF Slot, Entries, Apart
<1>7. Succeeds(chunkIndex[chunk], e) => Succeeds(Slot, e)
  BY <1>1, <1>2, <1>3, <1>4, <1>5, <1>6 DEF Slot, Entries, Succeeds
<1> QED BY <1>3, <1>4, <1>6, <1>7

-----------------------------------------------------------------------------
(* Writing to the file. *)

(* What Written changes and what it leaves. *)
LEMMA WrittenFacts ==
  ASSUME file \in Seq(Cells),
         NEW o \in Nat, o > 0, o <= Len(file) + 1,
         NEW data \in Seq(Cells), NEW n \in 0..Len(data)
  PROVE  /\ Written(o, data, n) \in Seq(Cells)
         /\ Len(Written(o, data, n)) >= Len(file) /\ Len(Written(o, data, n)) >= o + n - 1
         /\ \A i \in 1..Len(file) : i < o \/ i >= o + n => Written(o, data, n)[i] = file[i]
         /\ \A j \in 1..n : Written(o, data, n)[o + j - 1] = data[j]
<1> DEFINE top == IF o + n - 1 > Len(file) THEN o + n - 1 ELSE Len(file)
           W == Written(o, data, n)
<1>1. top \in Nat /\ top >= Len(file) /\ top >= o + n - 1 /\ (top = Len(file) \/ top = o + n - 1)
  OBVIOUS
<1>2. W = [i \in 1..top |-> IF o <= i /\ i < o + n THEN data[i - o + 1] ELSE file[i]]
  BY DEF Written
<1> HIDE DEF top, W
<1>3. ASSUME NEW i \in 1..top
      PROVE  (IF o <= i /\ i < o + n THEN data[i - o + 1] ELSE file[i]) \in Cells
  <2>1. CASE o <= i /\ i < o + n
    <3>1. i - o + 1 \in 1..Len(data)
      BY <2>1
    <3> QED BY <2>1, <3>1
  <2>2. CASE ~(o <= i /\ i < o + n)
    <3>1. i \in 1..Len(file)
      BY <1>1, <2>2
    <3> QED BY <2>2, <3>1
  <2> QED BY <2>1, <2>2
<1>4. W \in [1..top -> Cells]
  BY <1>2, <1>3
<1>5. W \in Seq(Cells) /\ Len(W) = top
  BY <1>1, <1>4
<1>6. \A i \in 1..Len(file) : i < o \/ i >= o + n => W[i] = file[i]
  BY <1>1, <1>2
<1>7. ASSUME NEW j \in 1..n
      PROVE  W[o + j - 1] = data[j]
  <2>1. o + j - 1 \in 1..top /\ o <= o + j - 1 /\ o + j - 1 < o + n /\ (o + j - 1) - o + 1 = j
    BY <1>1
  <2> QED BY <1>2, <2>1
<1> QED BY <1>1, <1>5, <1>6, <1>7 DEF W

(* A cell of a slot is outside of n cells written to a slot apart from it. *)
LEMMA CellElsewhere ==
  \A top, at, size, length, i, o, n, m \in Nat :
    /\ at > 0 /\ at + size <= top + 1
    /\ i \in 1..length /\ length <= size /\ n <= m
    /\ n = 0 \/ o + m <= at \/ at + size <= o
    => /\ at + i - 1 \in 1..top
       /\ at + i - 1 < o \/ at + i - 1 >= o + n
OBVIOUS

(* A write to the slot of the save in progress: the file only grows, and    *)
(* entries apart from the slot keep what they hold.                         *)
LEMMA SlotWritten ==
  ASSUME TypeOK, Saving, SlotsApart, pc = "data",
         NEW n \in 0..Len(Serialize(delta)),
         file' = Written(offset, Serialize(delta), n)
  PROVE  /\ file' \in Seq(Cells)
         /\ Len(file') >= Len(file) /\ Len(file') >= offset + n - 1
         /\ \A e \in Entries : InFile(file, e) => InFile(file, e)'
         /\ \A j \in 1..n : file'[offset + j - 1] = Serialize(delta)[j]
         /\ \A i \in 1..Len(file) : i < offset \/ i >= offset + n => file'[i] = file[i]
         /\ Len(Serialize(delta)) < SizeMax =>
              \A e \in Entries, d \in Deltas :
                InFile(file, e) /\ (n = 0 \/ Apart(Slot, e)) /\ Holds(file, e, d) => Holds(file, e, d)'
<1>1. /\ delta \in Deltas /\ offset \in Nat /\ offset > 0 /\ chunk \in Chunks
      /\ file \in Seq(Cells) /\ Serialize(delta) \in Seq(Cells)
  BY ConstantsAssumption DEF TypeOK
<1>2. Len(Serialize(delta)) \in Nat /\ Len(Serialize(delta)) > 0
  BY <1>1, SizeFacts
<1>3. offset <= Len(file) + 1
  <2>1. InFile(file, chunkIndex[chunk]) /\ chunkIndex[chunk] \in Entries
    BY <1>1 DEF SlotsApart, TypeOK
  <2>2. CASE offset = Len(file) + 1
    BY <1>1, <2>2
  <2>3. CASE offset = chunkIndex[chunk].offset
    BY <1>1, <2>1, <2>3 DEF InFile, Entries
  <2> QED BY <2>2, <2>3 DEF Saving
<1>4. /\ file' \in Seq(Cells)
      /\ Len(file') >= Len(file) /\ Len(file') >= offset + n - 1
      /\ \A i \in 1..Len(file) : i < offset \/ i >= offset + n => file'[i] = file[i]
      /\ \A j \in 1..n : file'[offset + j - 1] = Serialize(delta)[j]
  <2> DEFINE data == Serialize(delta)
  <2>1. data \in Seq(Cells) /\ n \in 0..Len(data) /\ file' = Written(offset, data, n)
    BY <1>1
  <2>2. data[1] = Serialize(delta)[1] /\ \A j \in 1..n : data[j] = Serialize(delta)[j]
    OBVIOUS
  <2> HIDE DEF data
  <2>3. /\ Written(offset, data, n) \in Seq(Cells)
        /\ Len(Written(offset, data, n)) >= Len(file)
        /\ Len(Written(offset, data, n)) >= offset + n - 1
        /\ \A i \in 1..Len(file) :
             i < offset \/ i >= offset + n => Written(offset, data, n)[i] = file[i]
        /\ \A j \in 1..n : Written(offset, data, n)[offset + j - 1] = data[j]
    BY <1>1, <1>3, <2>1, WrittenFacts
  <2> QED BY <2>1, <2>2, <2>3
<1>5. ASSUME NEW e \in Entries, InFile(file, e) PROVE InFile(file, e)'
  BY <1>4, <1>5, <1>1 DEF InFile, Entries
<1>6. ASSUME NEW e \in Entries, NEW d \in Deltas, Len(Serialize(delta)) < SizeMax,
             InFile(file, e), n = 0 \/ Apart(Slot, e), Holds(file, e, d)
      PROVE  Holds(file, e, d)'
  <2>1. Len(Serialize(d)) \in Nat /\ Len(Serialize(d)) > 0
    BY SizeFacts
  <2>2. /\ e.offset \in Nat /\ e.size \in Nat /\ e.offset > 0
        /\ Len(Serialize(d)) <= e.size /\ e.offset + e.size <= Len(file) + 1
    BY <1>6, <2>1 DEF Holds, InFile, Entries
  <2>3. Size(delta) = Len(Serialize(delta))
    BY <1>1, <1>6, SizeFacts
  <2>4. n = 0 \/ offset + Len(Serialize(delta)) <= e.offset \/ e.offset + e.size <= offset
    BY <1>1, <1>2, <1>6, <2>1, <2>2, <2>3 DEF Apart, Slot
  <2>5. ASSUME NEW i \in 1..Len(Serialize(d))
        PROVE  file'[e.offset + i - 1] = Serialize(d)[i]
    <3>1. /\ e.offset + i - 1 \in 1..Len(file)
          /\ e.offset + i - 1 < offset \/ e.offset + i - 1 >= offset + n
      BY <1>1, <1>2, <2>1, <2>2, <2>4, CellElsewhere
    <3>2. file'[e.offset + i - 1] = file[e.offset + i - 1]
      BY <1>4, <3>1
    <3> QED BY <1>6, <3>2 DEF Holds
  <2> QED BY <2>2, <2>5 DEF Holds
<1> QED BY <1>4, <1>5, <1>6

(* An entry in place of the slot holds the delta once it is written. *)
LEMMA SlotHolds ==
  ASSUME TypeOK, Saving, SlotsApart, pc = "data",
         file' = Written(offset, Serialize(delta), Len(Serialize(delta))),
         NEW d, d = delta,
         NEW e \in Entries, e.offset = offset, Len(Serialize(d)) <= e.size
  PROVE  Holds(file, e, d)'
<1>1. d \in Deltas /\ offset > 0
  BY DEF TypeOK
<1>2. Len(Serialize(d)) \in 0..Len(Serialize(delta))
  BY <1>1, SizeFacts
<1>3. \A j \in 1..Len(Serialize(d)) : file'[offset + j - 1] = Serialize(d)[j]
  BY <1>2, SlotWritten
<1> QED BY <1>1, <1>3 DEF Holds

-----------------------------------------------------------------------------
(* Steps that leave the file, its table and the entries in memory alone. *)

(* Creating the file touches nothing else. *)
LEMMA StartStep ==
  ASSUME IndInv, CreateFile \/ WriteHeader \/ WriteIndexTable
  PROVE  IndInv'
<1>1. stage' \in {"created", "header", "ready"}
  BY DEF CreateFile, WriteHeader, WriteIndexTable
<1>2. UNCHANGED <<file, table, chunkIndex, saveVars, readVars, saved, attempts, torn,
                  oversized, saves>>
  BY DEF CreateFile, WriteHeader, WriteIndexTable, FileUnchanged
<1> USE <1>2 DEF IndInv, saveVars, readVars
<1>3. TypeOK'
  BY <1>1 DEF TypeOK
<1>4. Saving'
  BY DEF Saving, Size
<1>5. SlotsApart' /\ IndexSucceedsTable'
  BY DEF SlotsApart, IndexSucceedsTable
<1>6. IndexStands' /\ SurvivesCrash'
  BY DEF IndexStands, SurvivesCrash, Contents
<1>7. ReadersSafe' /\ ReadsCurrent'
  BY DEF ReadersSafe, ReadsCurrent
<1> QED BY <1>3, <1>4, <1>5, <1>6, <1>7

(* A call of SaveChunk adds to what may be found, and picks its slot. *)
LEMMA SaveChunkStep ==
  ASSUME IndInv, NEW c \in Chunks, NEW d \in Deltas, SaveChunk(c, d)
  PROVE  IndInv'
<1> USE DEF IndInv
<1>1. UNCHANGED <<file, table, chunkIndex, rPc, rChunk, rEntry, got, spoiled, saved, torn,
                  oversized, stage>>
  BY DEF SaveChunk
<1>2. /\ pc' = "data" /\ chunk' = c /\ delta' = d /\ offset' = ChooseOffset(c, d)
      /\ saves' = saves + 1 /\ saves < MaxSaves
      /\ attempts' = [attempts EXCEPT ![c] = @ \cup {d}]
      /\ mayRead' = [r \in Readers |-> IF rChunk[r] = c /\ rPc[r] = "read"
                                       THEN mayRead[r] \cup {d} ELSE mayRead[r]]
  BY DEF SaveChunk
<1>3. ChooseOffset(c, d) \in Nat /\ ChooseOffset(c, d) > 0
  BY DEF ChooseOffset, TypeOK, Entries
<1>4. TypeOK'
  BY ConstantsAssumption, <1>1, <1>2, <1>3 DEF TypeOK
<1>5. Saving'
  <2>1. d \in attempts'[c]
    BY <1>2 DEF TypeOK
  <2>2. \/ offset' = Len(file') + 1
        \/ offset' = chunkIndex'[c].offset /\ Size(d) <= chunkIndex'[c].size
    BY <1>1, <1>2 DEF ChooseOffset
  <2>3. \A r \in Readers : rPc'[r] = "read" /\ rChunk'[r] = c => d \in mayRead'[r]
    BY <1>1, <1>2
  <2> QED BY <1>2, <2>1, <2>2, <2>3 DEF Saving, Size
<1>6. SlotsApart' /\ IndexSucceedsTable'
  BY <1>1 DEF SlotsApart, IndexSucceedsTable
<1>7. \A b \in Chunks : Contents(b) \subseteq Contents(b)'
  BY <1>1, <1>2 DEF Contents, TypeOK
<1>8. IndexStands' /\ SurvivesCrash'
  BY <1>1, <1>2, <1>7 DEF IndexStands, SurvivesCrash, StandsFor
<1>9. \A r \in Readers : mayRead[r] \subseteq mayRead'[r]
                        /\ (rPc[r] # "read" => mayRead'[r] = mayRead[r])
  BY <1>2
<1>10. ReadersSafe'
  BY <1>1, <1>9 DEF ReadersSafe
<1>11. ReadsCurrent'
  BY <1>1, <1>9 DEF ReadsCurrent
<1> QED BY <1>4, <1>5, <1>6, <1>8, <1>10, <1>11

(* A save that fails after its data leaves the entry in memory ahead of the  *)
(* one in the table, and a delta that may be found.                          *)
LEMMA SaveFailsStep ==
  ASSUME IndInv, SaveFails
  PROVE  IndInv'
<1> USE DEF IndInv
<1>1. /\ UNCHANGED <<stage, file, table, chunkIndex, readVars, saved, attempts, torn,
                     oversized, saves>>
      /\ pc' = "idle" /\ chunk' = NoChunk /\ delta' = NoDelta /\ offset' = 0
  BY DEF SaveFails, ReturnSave
<1> USE <1>1 DEF readVars
<1>2. TypeOK'
  BY DEF TypeOK
<1>3. Saving'
  BY DEF Saving
<1>4. SlotsApart' /\ IndexSucceedsTable'
  BY DEF SlotsApart, IndexSucceedsTable
<1>5. IndexStands' /\ SurvivesCrash'
  BY DEF IndexStands, SurvivesCrash, Contents
<1>6. ReadersSafe' /\ ReadsCurrent'
  BY DEF ReadersSafe, ReadsCurrent
<1> QED BY <1>2, <1>3, <1>4, <1>5, <1>6

(* Once the entry is in the table, both entries hold the delta that is now  *)
(* the only content.                                                        *)
LEMMA SaveSucceedsStep ==
  ASSUME IndInv, SaveSucceeds
  PROVE  IndInv'
<1> USE DEF IndInv
<1>1. /\ UNCHANGED <<stage, file, table, chunkIndex, readVars, torn, oversized, saves>>
      /\ saved' = [saved EXCEPT ![chunk] = delta]
      /\ attempts' = [attempts EXCEPT ![chunk] = {}]
      /\ pc' = "idle" /\ chunk' = NoChunk /\ delta' = NoDelta /\ offset' = 0
  BY DEF SaveSucceeds, ReturnSave
<1>2. pc = "sync" /\ chunk \in Chunks /\ delta \in Deltas /\ delta # NoDelta
  BY ConstantsAssumption DEF SaveSucceeds, TypeOK
<1>3. TypeOK'
  BY <1>1, <1>2 DEF TypeOK, readVars
<1>4. Saving'
  BY <1>1 DEF Saving
<1>5. SlotsApart' /\ IndexSucceedsTable'
  BY <1>1 DEF SlotsApart, IndexSucceedsTable
<1>6. IndexStands' /\ SurvivesCrash'
  <2> SUFFICES ASSUME ~oversized, NEW c \in Chunks \ torn
               PROVE  StandsFor(file, chunkIndex[c], Contents(c))' /\ StandsFor(file, table[c], Contents(c))'
    BY <1>1 DEF IndexStands, SurvivesCrash
  <2>1. CASE c # chunk
    <3>1. Contents(c)' = Contents(c)
      BY <1>1, <2>1 DEF Contents, TypeOK
    <3> QED BY <1>1, <3>1 DEF IndexStands, SurvivesCrash, StandsFor, Holds
  <2>2. CASE c = chunk
    <3>1. delta \in Contents(c)'
      BY <1>1, <1>2, <2>2 DEF Contents, TypeOK
    <3>2. Holds(file, chunkIndex[c], delta) /\ table[c] = chunkIndex[c]
      BY <1>2, <2>2 DEF IndexStands, Saving
    <3>3. \A b \in Deltas : Holds(file, chunkIndex[c], b) => Holds(file, chunkIndex[c], b)'
                           /\ (Holds(file, table[c], b) => Holds(file, table[c], b)')
      BY <1>1 DEF Holds
    <3> QED BY <1>2, <3>1, <3>2, <3>3 DEF StandsFor
  <2> QED BY <2>1, <2>2
<1>7. ReadersSafe' /\ ReadsCurrent'
  BY <1>1 DEF ReadersSafe, ReadsCurrent, readVars
<1> QED BY <1>3, <1>4, <1>5, <1>6, <1>7

-----------------------------------------------------------------------------
(* Steps that change the entries. *)

(* The table takes over the entry in memory, which holds the new delta. *)
LEMMA WriteTableStep ==
  ASSUME IndInv, WriteTable
  PROVE  IndInv'
<1> USE DEF IndInv
<1>1. /\ UNCHANGED <<stage, file, chunkIndex, chunk, delta, offset, readVars, saved,
                     attempts, oversized, saves>>
      /\ table' = [table EXCEPT ![chunk] = chunkIndex[chunk]]
      /\ torn' = torn \ {chunk} /\ pc' = "sync"
  BY DEF WriteTable
<1>2. pc = "table" /\ chunk \in Chunks /\ delta \in Deltas /\ delta # NoDelta
  BY ConstantsAssumption DEF WriteTable, TypeOK
<1>3. TypeOK'
  BY <1>1, <1>2 DEF TypeOK, readVars
<1>4. \A c \in Chunks : table'[c] = IF c = chunk THEN chunkIndex[c] ELSE table[c]
  BY <1>1, <1>2 DEF TypeOK
<1>5. Saving'
  BY <1>1, <1>2, <1>4 DEF Saving, Size
<1>6. \A c \in Chunks : chunkIndex[c] \in Entries /\ table[c] \in Entries
  BY DEF TypeOK
<1>7. SlotsApart'
  <2>1. \A c \in Chunks : InFile(file, chunkIndex[c])' /\ InFile(file, table[c])'
    BY <1>1, <1>4 DEF SlotsApart, InFile
  <2>2. ASSUME ~oversized, NEW c \in Chunks, NEW d \in Chunks, c # d
        PROVE  Apart(chunkIndex[c], chunkIndex[d]) /\ Apart(chunkIndex[c], table'[d])
               /\ Apart(table'[c], table'[d])
    <3>1. /\ Apart(chunkIndex[c], chunkIndex[d]) /\ Apart(chunkIndex[c], table[d])
          /\ Apart(chunkIndex[d], table[c]) /\ Apart(table[c], table[d])
      BY <2>2 DEF SlotsApart
    <3>2. Apart(table[c], chunkIndex[d])
      BY <1>6, <3>1, ApartSymmetric
    <3> QED BY <1>4, <3>1, <3>2
  <2> QED BY <1>1, <2>1, <2>2 DEF SlotsApart, Apart
<1>8. IndexSucceedsTable'
  BY <1>1, <1>4, <1>6 DEF IndexSucceedsTable, Succeeds, Apart, Entries
<1>9. IndexStands' /\ SurvivesCrash'
  <2>1. ASSUME ~oversized, NEW c \in Chunks \ torn'
        PROVE  StandsFor(file, chunkIndex[c], Contents(c))' /\ StandsFor(file, table[c], Contents(c))'
    <3>1. Contents(c)' = Contents(c)
      BY <1>1 DEF Contents
    <3>2. CASE c # chunk
      BY <1>1, <1>4, <2>1, <3>1, <3>2
         DEF IndexStands, SurvivesCrash
    <3>3. CASE c = chunk
      <4>1. Holds(file, chunkIndex[c], delta) /\ delta \in Contents(c)
        BY <1>2, <2>1, <3>3 DEF IndexStands, Saving, Contents
      <4>2. Holds(file, chunkIndex[c], delta)' /\ chunkIndex'[c] = chunkIndex[c]
        BY <1>1, <4>1 DEF Holds
      <4> QED BY <1>1, <1>2, <1>4, <3>1, <3>3, <4>1, <4>2 DEF StandsFor, Holds
    <3> QED BY <3>2, <3>3
  <2>2. ~oversized => Holds(file, chunkIndex[chunk], delta)'
    BY <1>1, <1>2 DEF IndexStands, Holds
  <2> QED BY <1>1, <2>1, <2>2 DEF IndexStands, SurvivesCrash
<1>10. ReadersSafe' /\ ReadsCurrent'
  BY <1>1 DEF ReadersSafe, ReadsCurrent, readVars
<1> QED BY <1>3, <1>5, <1>7, <1>8, <1>9, <1>10

(* Opened again, the file has the entries of the table. *)
LEMMA CrashStep ==
  ASSUME IndInv, Crash
  PROVE  IndInv'
<1> USE DEF IndInv
<1>1. /\ UNCHANGED <<file, table, saved, attempts, torn, oversized, saves>>
      /\ chunkIndex' = [c \in Chunks |-> IF table[c].size > 0 THEN table[c] ELSE NoEntry]
      /\ pc' = "idle" /\ chunk' = NoChunk /\ delta' = NoDelta /\ offset' = 0
      /\ rPc' = [r \in Readers |-> "idle"] /\ spoiled' = {}
  BY DEF Crash, ReturnSave
<1>2. NoEntry \in Entries /\ NoEntry.size = 0 /\ NoEntry.offset = 0
  BY ConstantsAssumption DEF NoEntry, Entries
<1>3. TypeOK'
  BY <1>1, <1>2 DEF TypeOK, Crash
<1>4. Saving'
  BY <1>1 DEF Saving
<1>5. \A c \in Chunks : /\ table[c] \in Entries /\ chunkIndex'[c] \in Entries
                        /\ chunkIndex'[c] = table[c] \/ (table[c].size = 0 /\ chunkIndex'[c] = NoEntry)
  BY <1>1, <1>2 DEF TypeOK, Entries
<1>6. SlotsApart'
  <2>1. \A c \in Chunks : InFile(file, chunkIndex[c])' /\ InFile(file, table[c])'
    <3>1. InFile(file, NoEntry)'
      BY <1>1, <1>2 DEF InFile, TypeOK
    <3> QED BY <1>1, <1>5, <3>1 DEF SlotsApart, InFile
  <2>2. ASSUME ~oversized, NEW c \in Chunks, NEW d \in Chunks, c # d
        PROVE  Apart(chunkIndex'[c], chunkIndex'[d]) /\ Apart(chunkIndex'[c], table[d])
               /\ Apart(table[c], table[d])
    BY <1>2, <1>5, <2>2 DEF SlotsApart, Apart
  <2> QED BY <1>1, <2>1, <2>2 DEF SlotsApart, Apart
<1>7. IndexSucceedsTable'
  BY <1>1, <1>2, <1>5 DEF IndexSucceedsTable, Succeeds, Apart, Entries
<1>8. SurvivesCrash'
  BY <1>1 DEF SurvivesCrash, Contents
<1>9. IndexStands'
  <2> SUFFICES ASSUME ~oversized, NEW c \in Chunks \ torn
               PROVE  StandsFor(file, chunkIndex[c], Contents(c))'
    BY <1>1 DEF IndexStands
  <2>1. StandsFor(file, table[c], Contents(c))'
    BY <1>1, <1>8 DEF SurvivesCrash
  <2>2. CASE chunkIndex'[c] = table[c]
    BY <1>1, <2>1, <2>2 DEF StandsFor, Holds
  <2>3. CASE table[c].size = 0 /\ chunkIndex'[c] = NoEntry
    <3>1. \A d \in Contents(c)' \ {NoDelta} : d \in Deltas
      BY <1>1 DEF Contents, TypeOK
    <3>2. \A d \in Contents(c)' \ {NoDelta} : ~Holds(file, table[c], d)'
      BY <1>1, <2>3, <3>1, SizeFacts DEF Holds
    <3>3. NoDelta \in Contents(c)'
      BY <2>1, <3>2 DEF StandsFor
    <3> QED BY <1>2, <2>3, <3>3 DEF StandsFor
  <2> QED BY <1>5, <2>2, <2>3
<1>10. ReadersSafe' /\ ReadsCurrent'
  BY <1>1 DEF ReadersSafe, ReadsCurrent
<1> QED BY <1>3, <1>4, <1>6, <1>7, <1>8, <1>9, <1>10

-----------------------------------------------------------------------------
(* GetChunk. *)

(* The steps of GetChunk change nothing that the other parts speak of. *)
LEMMA ReadKeeps ==
  ASSUME IndInv, ReadUnchanged
  PROVE  SlotsApart' /\ IndexSucceedsTable' /\ IndexStands' /\ SurvivesCrash'
BY DEF IndInv, ReadUnchanged, saveVars, SlotsApart, IndexSucceedsTable,
   IndexStands, SurvivesCrash, Contents

(* The entry looked up is that of the chunk, and stands for its contents. *)
LEMMA GetChunkStep ==
  ASSUME IndInv, NEW r \in Readers, NEW c \in Chunks, GetChunk(r, c)
  PROVE  IndInv'
<1> USE DEF IndInv
<1>1. /\ UNCHANGED <<stage, file, table, chunkIndex, pc, chunk, delta, offset, saved,
                     attempts, torn, oversized, saves, got>>
      /\ rPc' = [rPc EXCEPT ![r] = "read"] /\ rChunk' = [rChunk EXCEPT ![r] = c]
      /\ rEntry' = [rEntry EXCEPT ![r] = chunkIndex[c]]
      /\ mayRead' = [mayRead EXCEPT ![r] = Contents(c)]
      /\ spoiled' = IF c \in torn THEN spoiled \cup {r} ELSE spoiled
  BY DEF GetChunk, ReadUnchanged, saveVars
<1>2. pc = "idle" /\ chunkIndex[c].size > 0
  BY DEF GetChunk, MutexFree
<1>3. TypeOK'
  BY <1>1 DEF TypeOK, Contents
<1>4. Saving'
  BY <1>1, <1>2 DEF Saving
<1>5. SlotsApart' /\ IndexSucceedsTable' /\ IndexStands' /\ SurvivesCrash'
  BY ReadKeeps DEF GetChunk
<1>6. ASSUME NEW q \in Readers, q # r
      PROVE  /\ rPc'[q] = rPc[q] /\ rChunk'[q] = rChunk[q] /\ rEntry'[q] = rEntry[q]
             /\ mayRead'[q] = mayRead[q] /\ (q \notin spoiled' => q \notin spoiled)
  BY <1>1, <1>6 DEF TypeOK
<1>7. /\ rPc'[r] = "read" /\ rChunk'[r] = c /\ rEntry'[r] = chunkIndex[c]
      /\ mayRead'[r] = Contents(c) /\ (r \notin spoiled' => c \notin torn)
  BY <1>1 DEF TypeOK
<1>8. ReadersSafe'
  <2>1. ASSUME NEW q \in Readers, rPc'[q] = "read"
        PROVE  InFile(file, rEntry[q])'
    <3>1. CASE q = r
      BY <1>1, <1>7, <3>1 DEF SlotsApart, InFile
    <3>2. CASE q # r
      BY <1>1, <1>6, <2>1, <3>2 DEF ReadersSafe, InFile
    <3> QED BY <3>1, <3>2
  <2>2. ASSUME ~oversized, NEW q \in Readers \ spoiled', rPc'[q] = "read"
        PROVE  /\ Succeeds(chunkIndex[rChunk[q]], rEntry[q])'
               /\ \A b \in Chunks \ {rChunk'[q]} : Apart(chunkIndex[b], rEntry[q])'
               /\ \E d \in mayRead'[q] \ {NoDelta} : Holds(file, rEntry[q], d)'
    <3>1. CASE q = r
      <4>1. chunkIndex[c] \in Entries
        BY DEF TypeOK
      <4>2. Succeeds(chunkIndex[c], chunkIndex[c])
        BY <4>1 DEF Succeeds, Entries
      <4>3. \A b \in Chunks \ {c} : Apart(chunkIndex[b], chunkIndex[c])
        BY <2>2 DEF SlotsApart
      <4>4. \E d \in Contents(c) \ {NoDelta} : Holds(file, chunkIndex[c], d)
        BY <1>2, <1>7, <2>2, <3>1, <4>1 DEF IndexStands, StandsFor, Entries
      <4> QED BY <1>1, <1>7, <3>1, <4>2, <4>3, <4>4
    <3>2. CASE q # r
      BY <1>1, <1>6, <2>2, <3>2 DEF ReadersSafe
    <3> QED BY <3>1, <3>2
  <2> QED BY <1>1, <2>1, <2>2 DEF ReadersSafe
<1>9. ReadsCurrent'
  BY <1>1, <1>6, <1>7 DEF ReadsCurrent
<1> QED BY <1>3, <1>4, <1>5, <1>8, <1>9

(* The cells of a slot in a file. *)
LEMMA StoredFacts ==
  ASSUME NEW cells \in Seq(Cells), NEW e \in Entries, InFile(cells, e)
  PROVE  /\ Stored(cells, e) \in Seq(Cells) /\ Len(Stored(cells, e)) = e.size
         /\ \A i \in 1..e.size : Stored(cells, e)[i] = cells[e.offset + i - 1]
<1>1. e.offset \in Nat /\ e.size \in Nat /\ Len(cells) \in Nat
  BY DEF Entries
<1>2. CASE e.size = 0
  <2>1. e.offset + e.size - 1 < e.offset
    BY <1>1, <1>2
  <2>2. Stored(cells, e) = <<>>
    BY <1>1, <2>1 DEF Stored
  <2> QED BY <1>2, <2>2
<1>3. CASE e.size > 0
  <2> DEFINE m == e.offset
             n == e.offset + e.size - 1
  <2>1. m \in 1..(Len(cells) + 1) /\ n \in m - 1..Len(cells) /\ m <= n /\ n - m + 1 = e.size
    BY <1>1, <1>3 DEF InFile
  <2> HIDE DEF m, n
  <2>2. /\ SubSeq(cells, m, n) \in Seq(Cells)
        /\ Len(SubSeq(cells, m, n)) = IF m <= n THEN n - m + 1 ELSE 0
        /\ \A i \in 1..(n - m + 1) : SubSeq(cells, m, n)[i] = cells[m + i - 1]
    BY <2>1, SubSeqProperties
  <2>3. Stored(cells, e) = SubSeq(cells, m, n)
    BY DEF Stored, m, n
  <2> QED BY <2>1, <2>2, <2>3 DEF m
<1> QED BY <1>1, <1>2, <1>3

(* What is read is the slot of the entry, which still holds such a delta. *)
LEMMA ReadDataStep ==
  ASSUME IndInv, NEW r \in Readers, ReadData(r)
  PROVE  IndInv'
<1> USE DEF IndInv
<1>1. /\ UNCHANGED <<stage, file, table, chunkIndex, pc, chunk, delta, offset, saved,
                     attempts, torn, oversized, saves, rChunk, rEntry, mayRead, spoiled>>
      /\ rPc' = [rPc EXCEPT ![r] = "done"]
      /\ got' = [got EXCEPT ![r] = Stored(file, rEntry[r])]
  BY DEF ReadData, ReadUnchanged, saveVars
<1>2. pc = "idle" /\ rPc[r] = "read"
  BY DEF ReadData, MutexFree
<1> DEFINE e == rEntry[r]
<1>3. e \in Entries /\ file \in Seq(Cells) /\ InFile(file, e)
  BY <1>2 DEF TypeOK, ReadersSafe
<1>4. Stored(file, e) \in Seq(Cells) /\ Len(Stored(file, e)) = e.size
      /\ \A i \in 1..e.size : Stored(file, e)[i] = file[e.offset + i - 1]
  BY <1>3, StoredFacts
<1>5. TypeOK'
  BY <1>1, <1>2, <1>4 DEF TypeOK
<1>6. Saving'
  BY <1>1, <1>2 DEF Saving
<1>7. SlotsApart' /\ IndexSucceedsTable' /\ IndexStands' /\ SurvivesCrash'
  BY ReadKeeps DEF ReadData
<1>8. \A q \in Readers : /\ rPc'[q] = IF q = r THEN "done" ELSE rPc[q]
                         /\ got'[q] = IF q = r THEN Stored(file, e) ELSE got[q]
  BY <1>1 DEF TypeOK
<1>9. ReadersSafe'
  BY <1>1, <1>8 DEF ReadersSafe
<1>10. ReadsCurrent'
  <2> SUFFICES ASSUME ~oversized, NEW q \in Readers \ spoiled, rPc'[q] = "done"
               PROVE  \E d \in mayRead[q] \ {NoDelta} :
                        /\ Len(Serialize(d)) <= Len(got'[q])
                        /\ \A i \in 1..Len(Serialize(d)) : got'[q][i] = Serialize(d)[i]
    BY <1>1 DEF ReadsCurrent
  <2>1. CASE q # r
    BY <1>8, <2>1 DEF ReadsCurrent
  <2>2. CASE q = r
    <3>1. PICK d \in mayRead[r] \ {NoDelta} : Holds(file, e, d)
      BY <1>2, <2>2 DEF ReadersSafe
    <3>2. d \in Deltas
      BY DEF TypeOK
    <3>3. Len(Serialize(d)) \in Nat /\ Len(Serialize(d)) <= e.size /\ e.size \in Nat
      BY <1>3, <3>1, <3>2, SizeFacts DEF Holds, Entries
    <3>4. \A i \in 1..Len(Serialize(d)) : Stored(file, e)[i] = Serialize(d)[i]
      BY <1>4, <3>1, <3>3 DEF Holds
    <3> QED BY <1>4, <1>8, <2>2, <3>3, <3>4
  <2> QED BY <2>1, <2>2
<1> QED BY <1>5, <1>6, <1>7, <1>9, <1>10

(* A reader that is done forgets. *)
LEMMA GetChunkReturnsStep ==
  ASSUME IndInv, NEW r \in Readers, GetChunkReturns(r)
  PROVE  IndInv'
<1> USE DEF IndInv
<1>1. /\ UNCHANGED <<stage, file, table, chunkIndex, pc, chunk, delta, offset, saved,
                     attempts, torn, oversized, saves>>
      /\ rPc' = [rPc EXCEPT ![r] = "idle"] /\ rChunk' = [rChunk EXCEPT ![r] = NoChunk]
      /\ rEntry' = [rEntry EXCEPT ![r] = NoEntry] /\ got' = [got EXCEPT ![r] = <<>>]
      /\ mayRead' = [mayRead EXCEPT ![r] = {}] /\ spoiled' = spoiled \ {r}
  BY DEF GetChunkReturns, ReadUnchanged, saveVars
<1>2. NoEntry \in Entries
  BY ConstantsAssumption DEF NoEntry, Entries
<1>3. TypeOK'
  BY <1>1, <1>2 DEF TypeOK
<1>4. \A q \in Readers : /\ q = r => rPc'[q] = "idle"
                         /\ q # r => /\ rPc'[q] = rPc[q] /\ rChunk'[q] = rChunk[q]
                                     /\ rEntry'[q] = rEntry[q] /\ got'[q] = got[q]
                                     /\ mayRead'[q] = mayRead[q]
                                     /\ (q \in spoiled' <=> q \in spoiled)
  BY <1>1 DEF TypeOK
<1>5. Saving'
  BY <1>1, <1>4 DEF Saving, Size
<1>6. SlotsApart' /\ IndexSucceedsTable' /\ IndexStands' /\ SurvivesCrash'
  BY ReadKeeps DEF GetChunkReturns
<1>7. ReadersSafe'
  BY <1>1, <1>4 DEF ReadersSafe
<1>8. ReadsCurrent'
  BY <1>1, <1>4 DEF ReadsCurrent
<1> QED BY <1>3, <1>5, <1>6, <1>7, <1>8

-----------------------------------------------------------------------------
(* Writing the data. *)

(* The slot is apart from the entries of other chunks, and from those of the *)
(* save's own chunk that are not in its place.                               *)
LEMMA SlotApart ==
  ASSUME IndInv, ~oversized, pc = "data"
  PROVE  /\ Slot \in Entries
         /\ \A c \in Chunks \ {chunk} : Apart(Slot, chunkIndex[c]) /\ Apart(Slot, table[c])
         /\ Succeeds(Slot, table[chunk])
         /\ \A r \in Readers \ spoiled :
              rPc[r] = "read" =>
                IF rChunk[r] = chunk THEN Succeeds(Slot, rEntry[r]) ELSE Apart(Slot, rEntry[r])
         /\ offset = Len(file) + 1 =>
              \A e \in Entries : InFile(file, e) => Apart(Slot, e)
<1> USE DEF IndInv
<1>1. chunk \in Chunks /\ chunkIndex[chunk] \in Entries /\ InFile(file, chunkIndex[chunk])
  BY DEF TypeOK, SlotsApart
<1>2. \A e \in Entries : InFile(file, e) =>
        /\ Slot \in Entries
        /\ Apart(chunkIndex[chunk], e) => Apart(Slot, e)
        /\ Succeeds(chunkIndex[chunk], e) => Succeeds(Slot, e)
        /\ offset = Len(file) + 1 => Apart(Slot, e)
  BY SlotPlace
<1>3. Slot \in Entries
  BY <1>1, <1>2
<1>4. ASSUME NEW c \in Chunks \ {chunk}
      PROVE  Apart(Slot, chunkIndex[c]) /\ Apart(Slot, table[c])
  <2>1. /\ chunkIndex[c] \in Entries /\ table[c] \in Entries
        /\ InFile(file, chunkIndex[c]) /\ InFile(file, table[c])
        /\ Apart(chunkIndex[chunk], chunkIndex[c]) /\ Apart(chunkIndex[chunk], table[c])
    BY <1>1 DEF TypeOK, SlotsApart
  <2> QED BY <1>2, <2>1
<1>5. Succeeds(Slot, table[chunk])
  <2>1. table[chunk] \in Entries /\ InFile(file, table[chunk]) /\ Succeeds(chunkIndex[chunk], table[chunk])
    BY <1>1 DEF TypeOK, SlotsApart, IndexSucceedsTable
  <2> QED BY <1>2, <2>1
<1>6. ASSUME NEW r \in Readers \ spoiled, rPc[r] = "read"
      PROVE  IF rChunk[r] = chunk THEN Succeeds(Slot, rEntry[r]) ELSE Apart(Slot, rEntry[r])
  <2>1. /\ rEntry[r] \in Entries /\ InFile(file, rEntry[r])
        /\ IF rChunk[r] = chunk THEN Succeeds(chunkIndex[chunk], rEntry[r])
                               ELSE Apart(chunkIndex[chunk], rEntry[r])
    BY <1>1, <1>6 DEF TypeOK, ReadersSafe
  <2> QED BY <1>2, <2>1
<1> QED BY <1>2, <1>3, <1>4, <1>5, <1>6

(* All of the data: what was elsewhere is kept, and what was in its place   *)
(* holds the new delta from now on.                                         *)
LEMMA WriteDataStep ==
  ASSUME IndInv, WriteData
  PROVE  IndInv'
<1> USE DEF IndInv
<1> DEFINE n == Len(Serialize(delta))
<1>1. /\ UNCHANGED <<stage, table, chunk, delta, offset, rPc, rChunk, rEntry, got, mayRead,
                     spoiled, saved, attempts, torn, saves>>
      /\ pc = "data" /\ pc' = "table"
      /\ file' = Written(offset, Serialize(delta), n)
      /\ chunkIndex' = [chunkIndex EXCEPT ![chunk] = Slot]
      /\ oversized' = (oversized \/ n >= SizeMax)
  BY DEF WriteData, readVars, Slot
<1>2. /\ chunk \in Chunks /\ delta \in Deltas /\ delta # NoDelta /\ offset \in Nat
      /\ offset > 0 /\ delta \in attempts[chunk]
  BY ConstantsAssumption, <1>1 DEF TypeOK, Saving
<1>3. n \in Nat /\ n > 0 /\ Size(delta) \in 0..(SizeMax - 1) /\ Size(delta) <= n
      /\ (n < SizeMax => Size(delta) = n)
  <2>1. \A l \in Nat, m \in Nat \ {0} : l % m <= l
    OBVIOUS
  <2> QED BY ConstantsAssumption, <1>2, <2>1, SizeFacts DEF Size
<1>4. Slot \in Entries /\ Slot.offset = offset /\ Slot.size = Size(delta)
  BY <1>2, <1>3 DEF Slot, Entries
<1>5. /\ file' \in Seq(Cells) /\ Len(file') >= Len(file) /\ Len(file') >= offset + n - 1
      /\ \A e \in Entries : InFile(file, e) => InFile(file, e)'
      /\ n < SizeMax => \A e \in Entries, d \in Deltas :
           InFile(file, e) /\ Apart(Slot, e) /\ Holds(file, e, d) => Holds(file, e, d)'
  <2>1. n \in 0..n
    BY <1>3
  <2> QED BY <1>1, <2>1, SlotWritten
<1>6. \A e \in Entries : e.offset = offset /\ n <= e.size => Holds(file, e, delta)'
  BY <1>1, SlotHolds
<1> HIDE DEF n
<1>7. \A c \in Chunks : /\ chunkIndex[c] \in Entries /\ table[c] \in Entries
                        /\ chunkIndex'[c] = IF c = chunk THEN Slot ELSE chunkIndex[c]
  BY <1>1 DEF TypeOK
<1>8. TypeOK'
  <2>1. chunkIndex' \in [Chunks -> Entries]
    BY <1>1, <1>4 DEF TypeOK
  <2>2. oversized' \in BOOLEAN
    BY <1>1
  <2> QED BY <1>1, <1>5, <2>1, <2>2 DEF TypeOK
<1>9. Saving'
  BY <1>1, <1>2, <1>7 DEF Saving, Slot, Size
<1>10. \A c \in Chunks : InFile(file, chunkIndex[c])' /\ InFile(file, table[c])'
  <2>1. ASSUME NEW c \in Chunks, c = chunk PROVE InFile(file, chunkIndex[c])'
    <3>1. chunkIndex'[c] = Slot
      BY <1>7, <2>1
    <3> QED BY <1>2, <1>3, <1>4, <1>5, <3>1 DEF InFile
  <2>2. ASSUME NEW c \in Chunks, c # chunk PROVE InFile(file, chunkIndex[c])'
    <3>1. chunkIndex'[c] = chunkIndex[c] /\ InFile(file, chunkIndex[c])
      BY <1>7, <2>2 DEF SlotsApart
    <3> QED BY <1>5, <1>7, <3>1 DEF InFile
  <2>3. ASSUME NEW c \in Chunks PROVE InFile(file, table[c])'
    <3>1. table'[c] = table[c] /\ InFile(file, table[c])
      BY <1>1 DEF SlotsApart
    <3> QED BY <1>5, <1>7, <3>1 DEF InFile
  <2> QED BY <2>1, <2>2, <2>3
<1>11. \A r \in Readers : rPc'[r] = "read" => InFile(file, rEntry[r])'
  <2> SUFFICES ASSUME NEW r \in Readers, rPc'[r] = "read" PROVE InFile(file, rEntry[r])'
    OBVIOUS
  <2>1. rEntry'[r] = rEntry[r] /\ InFile(file, rEntry[r]) /\ rEntry[r] \in Entries
    BY <1>1 DEF ReadersSafe, TypeOK
  <2> QED BY <1>5, <2>1 DEF InFile
<1>12. CASE oversized'
  BY <1>1, <1>8, <1>9, <1>10, <1>11, <1>12
     DEF SlotsApart, IndexSucceedsTable, IndexStands, SurvivesCrash, ReadersSafe, ReadsCurrent
<1>13. CASE ~oversized'
  <2>1. ~oversized /\ n < SizeMax /\ Size(delta) = n
    <3>1. ~oversized /\ ~(n >= SizeMax)
      BY <1>1, <1>13, Zenon
    <3> QED BY ConstantsAssumption, <1>3, <3>1
  <2>2. /\ \A c \in Chunks \ {chunk} : Apart(Slot, chunkIndex[c]) /\ Apart(Slot, table[c])
        /\ Succeeds(Slot, table[chunk])
        /\ \A r \in Readers \ spoiled :
             rPc[r] = "read" =>
               IF rChunk[r] = chunk THEN Succeeds(Slot, rEntry[r]) ELSE Apart(Slot, rEntry[r])
    BY <1>1, <2>1, SlotApart
  <2>3. \A e \in Entries, d \in Deltas :
          InFile(file, e) /\ Apart(Slot, e) /\ Holds(file, e, d) => Holds(file, e, d)'
    BY <1>5, <2>1
  <2>4. \A e \in Entries :
          Succeeds(Slot, e) => Apart(Slot, e) \/ Holds(file, e, delta)'
    BY <1>4, <1>6, <2>1 DEF Succeeds
  <2>5. SlotsApart'
    <3>1. ASSUME NEW c \in Chunks, NEW d \in Chunks, c # d
          PROVE  Apart(chunkIndex'[c], chunkIndex'[d]) /\ Apart(chunkIndex'[c], table[d])
                 /\ Apart(table[c], table[d])
      <4>1. CASE c = chunk
        BY <1>7, <2>1, <2>2, <3>1, <4>1 DEF SlotsApart
      <4>2. CASE d = chunk
        <5>1. Apart(chunkIndex[c], Slot)
          BY <1>4, <1>7, <2>2, <3>1, <4>2, ApartSymmetric
        <5> QED BY <1>7, <2>1, <3>1, <4>2, <5>1 DEF SlotsApart
      <4>3. CASE c # chunk /\ d # chunk
        BY <1>7, <2>1, <3>1, <4>3 DEF SlotsApart
      <4> QED BY <4>1, <4>2, <4>3
    <3> QED BY <1>1, <1>10, <3>1 DEF SlotsApart, Apart
  <2>6. IndexSucceedsTable'
    BY <1>1, <1>7, <2>1, <2>2 DEF IndexSucceedsTable, Succeeds, Apart
  <2>7. \A c \in Chunks : Contents(c)' = Contents(c) /\ Contents(c) \ {NoDelta} \subseteq Deltas
    BY <1>1 DEF Contents, TypeOK
  <2>8. Holds(file, Slot, delta)' /\ Slot' = Slot
    BY ConstantsAssumption, <1>1, <1>4, <1>6, <2>1 DEF Slot, Size
  <2>9. IndexStands'
    <3>1. ASSUME NEW c \in Chunks \ torn PROVE StandsFor(file, chunkIndex[c], Contents(c))'
      <4>1. CASE c = chunk
        <5>1. delta' \in Contents(c)' /\ Holds(file, chunkIndex[c], delta)'
          BY <1>1, <1>2, <1>7, <2>7, <2>8, <4>1 DEF Contents
        <5> QED BY <1>1, <1>2, <5>1 DEF StandsFor
      <4>2. CASE c # chunk
        <5>1. StandsFor(file, chunkIndex[c], Contents(c)) /\ InFile(file, chunkIndex[c]) /\ Apart(Slot, chunkIndex[c])
          BY <2>1, <2>2, <4>2 DEF IndexStands, SlotsApart
        <5>2. \A d \in Contents(c) \ {NoDelta} : Holds(file, chunkIndex[c], d) => Holds(file, chunkIndex[c], d)'
          BY <1>7, <2>3, <2>7, <4>2, <5>1
        <5> QED BY <1>7, <2>7, <4>2, <5>1, <5>2 DEF StandsFor
      <4> QED BY <4>1, <4>2
    <3>2. Holds(file, chunkIndex[chunk], delta)'
      BY <1>1, <1>2, <1>7, <2>8
    <3> QED BY <1>1, <3>1, <3>2 DEF IndexStands
  <2>10. SurvivesCrash'
    <3> SUFFICES ASSUME NEW c \in Chunks \ torn PROVE StandsFor(file, table[c], Contents(c))'
      BY <1>1 DEF SurvivesCrash
    <3>1. StandsFor(file, table[c], Contents(c)) /\ InFile(file, table[c])
      BY <2>1 DEF SurvivesCrash, SlotsApart
    <3>2. CASE Apart(Slot, table[c])
      <4>1. \A d \in Contents(c) \ {NoDelta} : Holds(file, table[c], d) => Holds(file, table[c], d)'
        BY <1>1, <1>7, <2>3, <2>7, <3>1, <3>2
      <4> QED BY <1>1, <2>7, <3>1, <4>1 DEF StandsFor
    <3>3. CASE c = chunk /\ Holds(file, table[c], delta)'
      <4>1. delta' \in Contents(c)'
        BY <1>1, <1>2, <2>7, <3>3 DEF Contents
      <4> QED BY <1>1, <1>2, <3>3, <4>1 DEF StandsFor
    <3> QED BY <1>1, <1>7, <2>2, <2>4, <3>2, <3>3
  <2>11. ReadersSafe'
    <3>1. ASSUME NEW r \in Readers \ spoiled, rPc[r] = "read"
          PROVE  /\ Succeeds(chunkIndex'[rChunk[r]], rEntry[r])
                 /\ \A c \in Chunks \ {rChunk[r]} : Apart(chunkIndex'[c], rEntry[r])
                 /\ \E d \in mayRead[r] \ {NoDelta} : Holds(file, rEntry[r], d)'
      <4> DEFINE e == rEntry[r]
      <4>1. /\ e \in Entries /\ InFile(file, e) /\ rChunk[r] \in Chunks
            /\ Succeeds(chunkIndex[rChunk[r]], e)
            /\ \A c \in Chunks \ {rChunk[r]} : Apart(chunkIndex[c], e)
            /\ mayRead[r] \ {NoDelta} \subseteq Deltas
        BY <2>1, <3>1 DEF ReadersSafe, TypeOK
      <4>2. PICK d \in mayRead[r] \ {NoDelta} : Holds(file, e, d)
        BY <2>1, <3>1 DEF ReadersSafe
      <4>3. Apart(Slot, e) => Holds(file, e, d)'
        BY <1>1, <2>3, <4>1, <4>2
      <4> HIDE DEF e
      <4>4. CASE rChunk[r] = chunk
        <5>1. Succeeds(Slot, e) /\ delta \in mayRead[r]
          BY <1>1, <2>2, <3>1, <4>4 DEF e, Saving
        <5>2. \E b \in mayRead[r] \ {NoDelta} : Holds(file, e, b)'
          <6>1. CASE Apart(Slot, e)
            BY <1>1, <4>2, <4>3, <6>1 DEF e
          <6>2. CASE Holds(file, e, delta)'
            BY <1>1, <1>2, <5>1, <6>2 DEF e
          <6> QED BY <1>1, <2>4, <4>1, <5>1, <6>1, <6>2 DEF e
        <5> QED BY <1>1, <1>2, <1>7, <4>1, <4>4, <5>1, <5>2 DEF e
      <4>5. CASE rChunk[r] # chunk
        <5>1. Apart(Slot, e)
          BY <2>2, <3>1, <4>5 DEF e
        <5> QED BY <1>1, <1>7, <4>1, <4>2, <4>3, <4>5, <5>1 DEF e
      <4> QED BY <4>4, <4>5
    <3> QED BY <1>1, <1>11, <3>1 DEF ReadersSafe
  <2>12. ReadsCurrent'
    BY <1>1, <2>1 DEF ReadsCurrent
  <2> QED BY <1>8, <1>9, <2>5, <2>6, <2>9, <2>10, <2>11, <2>12
<1> QED BY <1>12, <1>13

(* A part of the data: all entries keep what they hold, except where the     *)
(* chunk is torn.                                                            *)
LEMMA WriteDataFailsStep ==
  ASSUME IndInv, NEW k \in 0..(Len(Serialize(delta)) - 1), WriteDataFails(k)
  PROVE  IndInv'
<1> USE DEF IndInv
<1>1. /\ UNCHANGED <<stage, table, chunkIndex, rPc, rChunk, rEntry, got, mayRead, saved,
                     attempts, saves>>
      /\ pc = "data" /\ pc' = "idle" /\ chunk' = NoChunk /\ delta' = NoDelta /\ offset' = 0
      /\ file' = Written(offset, Serialize(delta), k)
      /\ oversized' = (oversized \/ Len(Serialize(delta)) >= SizeMax)
  BY DEF WriteDataFails, ReturnSave
<1>2. /\ torn \subseteq torn' /\ spoiled \subseteq spoiled'
      /\ torn' \subseteq Chunks /\ spoiled' \subseteq Readers
      /\ k > 0 /\ offset <= Len(file) =>
           chunk \in torn' /\ \A r \in Readers : rChunk[r] = chunk => r \in spoiled'
  BY <1>1 DEF WriteDataFails, TypeOK
<1>3. /\ chunk \in Chunks /\ delta \in Deltas /\ offset \in Nat
      /\ Len(Serialize(delta)) \in Nat /\ Len(Serialize(delta)) > 0
      /\ k \in 0..Len(Serialize(delta)) /\ k \in Nat
  BY <1>1, SizeFacts DEF TypeOK
<1>4. /\ file' \in Seq(Cells)
      /\ \A e \in Entries : InFile(file, e) => InFile(file, e)'
      /\ Len(Serialize(delta)) < SizeMax => \A e \in Entries, d \in Deltas :
           InFile(file, e) /\ (k = 0 \/ Apart(Slot, e)) /\ Holds(file, e, d)
             => Holds(file, e, d)'
  BY <1>1, <1>3, SlotWritten
<1>5. \A c \in Chunks : /\ chunkIndex[c] \in Entries /\ table[c] \in Entries
                        /\ InFile(file, chunkIndex[c]) /\ InFile(file, table[c])
  BY DEF TypeOK, SlotsApart
<1>6. TypeOK'
  <2>1. oversized' \in BOOLEAN
    BY <1>1
  <2> QED BY <1>1, <1>2, <1>4, <2>1 DEF TypeOK
<1>7. Saving'
  BY <1>1 DEF Saving
<1>8. \A c \in Chunks : InFile(file, chunkIndex[c])' /\ InFile(file, table[c])'
  BY <1>1, <1>4, <1>5
<1>9. \A r \in Readers : rPc'[r] = "read" => InFile(file, rEntry[r])'
  BY <1>1, <1>4 DEF ReadersSafe, TypeOK
<1>10. CASE oversized'
  BY <1>1, <1>6, <1>7, <1>8, <1>9, <1>10
     DEF SlotsApart, IndexSucceedsTable, IndexStands, SurvivesCrash, ReadersSafe, ReadsCurrent
<1>11. CASE ~oversized'
  <2>1. ~oversized /\ Len(Serialize(delta)) < SizeMax
    <3>1. ~oversized /\ ~(Len(Serialize(delta)) >= SizeMax)
      BY <1>1, <1>11, Zenon
    <3> QED BY ConstantsAssumption, <1>3, <3>1
  <2>2. /\ \A c \in Chunks \ {chunk} : Apart(Slot, chunkIndex[c]) /\ Apart(Slot, table[c])
        /\ \A r \in Readers \ spoiled :
             rPc[r] = "read" /\ rChunk[r] # chunk => Apart(Slot, rEntry[r])
        /\ offset = Len(file) + 1 =>
             \A e \in Entries : InFile(file, e) => Apart(Slot, e)
    BY <1>1, <2>1, SlotApart
  <2>3. \A e \in Entries, d \in Deltas :
          InFile(file, e) /\ (k = 0 \/ Apart(Slot, e)) /\ Holds(file, e, d) => Holds(file, e, d)'
    BY <1>4, <2>1
  <2>4. k > 0 /\ offset # Len(file) + 1 =>
          chunk \in torn' /\ \A r \in Readers : rChunk[r] = chunk => r \in spoiled'
    <3>1. k > 0 /\ offset # Len(file) + 1 => offset <= Len(file)
      <4>1. InFile(file, chunkIndex[chunk]) /\ chunkIndex[chunk] \in Entries /\ file \in Seq(Cells)
        BY <1>3, <1>5 DEF TypeOK
      <4> QED BY <1>1, <1>3, <4>1 DEF Saving, InFile, Entries
    <3> QED BY <1>2, <3>1
  <2>5. \A c \in Chunks : Contents(c)' = Contents(c) /\ Contents(c) \ {NoDelta} \subseteq Deltas
    BY <1>1 DEF Contents, TypeOK
  <2>6. \A c \in Chunks \ torn' : /\ k = 0 \/ Apart(Slot, chunkIndex[c])
                                  /\ k = 0 \/ Apart(Slot, table[c])
    BY <1>3, <1>5, <2>2, <2>4
  <2>7. SlotsApart' /\ IndexSucceedsTable'
    BY <1>1, <1>8, <2>1 DEF SlotsApart, IndexSucceedsTable
  <2>8. ASSUME NEW c \in Chunks \ torn'
        PROVE  StandsFor(file, chunkIndex[c], Contents(c))' /\ StandsFor(file, table[c], Contents(c))'
    <3>1. StandsFor(file, chunkIndex[c], Contents(c)) /\ StandsFor(file, table[c], Contents(c))
      BY <1>2, <2>1 DEF IndexStands, SurvivesCrash
    <3>2. \A d \in Contents(c) \ {NoDelta} :
            /\ Holds(file, chunkIndex[c], d) => Holds(file', chunkIndex[c], d)
            /\ Holds(file, table[c], d) => Holds(file', table[c], d)
      BY <1>5, <2>3, <2>5, <2>6
    <3> QED BY <1>1, <2>5, <3>1, <3>2 DEF StandsFor
  <2>9. IndexStands' /\ SurvivesCrash'
    BY <1>1, <2>8 DEF IndexStands, SurvivesCrash
  <2>10. ASSUME NEW r \in Readers \ spoiled', rPc[r] = "read"
         PROVE  /\ Succeeds(chunkIndex[rChunk[r]], rEntry[r])
                /\ \A c \in Chunks \ {rChunk[r]} : Apart(chunkIndex[c], rEntry[r])
                /\ \E d \in mayRead[r] \ {NoDelta} : Holds(file', rEntry[r], d)
    <3>1. /\ rEntry[r] \in Entries /\ InFile(file, rEntry[r])
          /\ Succeeds(chunkIndex[rChunk[r]], rEntry[r])
          /\ \A c \in Chunks \ {rChunk[r]} : Apart(chunkIndex[c], rEntry[r])
          /\ mayRead[r] \ {NoDelta} \subseteq Deltas
      BY <1>2, <2>1, <2>10 DEF ReadersSafe, TypeOK
    <3>2. PICK d \in mayRead[r] \ {NoDelta} : Holds(file, rEntry[r], d)
      BY <1>2, <2>1, <2>10 DEF ReadersSafe
    <3>3. k = 0 \/ Apart(Slot, rEntry[r])
      BY <1>2, <1>3, <2>2, <2>4, <2>10, <3>1
    <3>4. Holds(file', rEntry[r], d)
      BY <2>3, <3>1, <3>2, <3>3
    <3> QED BY <3>1, <3>2, <3>4
  <2>11. ReadersSafe' /\ ReadsCurrent'
    BY <1>1, <1>2, <1>9, <2>1, <2>10 DEF ReadersSafe, ReadsCurrent
  <2> QED BY <1>6, <1>7, <2>7, <2>9, <2>11
<1> QED BY <1>10, <1>11

-----------------------------------------------------------------------------
(***************************************************************************)
(* The codec.  The library states induction for an operator, which none of *)
(* the provers can instantiate; for a set it follows from the fact that a  *)
(* well-founded relation has minimal elements.                             *)
(***************************************************************************)

Below == OpToRel(<, Nat)

(* The numbers are well-founded. *)
LEMMA NatOrdered == IsWellFoundedOn(Below, Nat)
BY NatLessThanWellFounded DEF Below

(* A set with 0 and with the successor of each of its numbers has them all. *)
LEMMA SetInduction ==
  ASSUME NEW T, 0 \in T, \A n \in Nat : n \in T => n + 1 \in T
  PROVE  Nat \subseteq T
<1> SUFFICES ASSUME Nat \ T # {} PROVE FALSE
  OBVIOUS
<1>1. \E x \in Nat \ T : \A y \in Nat \ T : ~(<<y, x>> \in Below)
  <2>1. Nat \ T \subseteq Nat
    OBVIOUS
  <2> HIDE DEF Below
  <2> QED BY <2>1, NatOrdered, WFMin
<1>2. PICK x \in Nat \ T : \A y \in Nat \ T : ~(<<y, x>> \in Below)
  BY <1>1
<1>3. x # 0 /\ x - 1 \in Nat /\ x - 1 \notin T
  OBVIOUS
<1>4. <<x - 1, x>> \in Below
  BY <1>3 DEF Below, OpToRel
<1> QED BY <1>2, <1>3, <1>4

(* The cells of s are those of data from position p. *)
Lies(s, data, p) ==
  /\ p + Len(s) - 1 <= Len(data)
  /\ \A i \in 1..Len(s) : data[p + i - 1] = s[i]

(* The cells of two sequences one after the other. *)
LEMMA ConcatFacts ==
  ASSUME NEW s \in Seq(Nat), NEW t \in Seq(Nat)
  PROVE  /\ s \o t \in Seq(Nat) /\ Len(s \o t) = Len(s) + Len(t)
         /\ \A i \in 1..Len(s) : (s \o t)[i] = s[i]
         /\ \A i \in 1..Len(t) : (s \o t)[Len(s) + i] = t[i]
         /\ <<>> \o t = t
OBVIOUS

(* And where each of them lies. *)
LEMMA LiesConcat ==
  ASSUME NEW s \in Seq(Nat), NEW t \in Seq(Nat), NEW data, Len(data) \in Nat, NEW p \in Nat,
         Lies(s \o t, data, p)
  PROVE  Lies(s, data, p) /\ Lies(t, data, p + Len(s))
<1>1. /\ s \o t \in Seq(Nat) /\ Len(s \o t) = Len(s) + Len(t)
      /\ \A i \in 1..Len(s) : (s \o t)[i] = s[i]
      /\ \A i \in 1..Len(t) : (s \o t)[Len(s) + i] = t[i]
  BY ConcatFacts
<1>2. Len(s) \in Nat /\ Len(t) \in Nat /\ Len(data) \in Nat
  OBVIOUS
<1>3. Lies(s, data, p)
  BY <1>1, <1>2 DEF Lies
<1>4. ASSUME NEW i \in 1..Len(t)
      PROVE  data[p + Len(s) + i - 1] = t[i]
  <2>1. Len(s) + i \in 1..Len(s \o t) /\ p + (Len(s) + i) - 1 = p + Len(s) + i - 1
    BY <1>1, <1>2
  <2>2. data[p + (Len(s) + i) - 1] = (s \o t)[Len(s) + i]
    BY <2>1 DEF Lies
  <2> QED BY <1>1, <2>1, <2>2
<1>5. Lies(t, data, p + Len(s))
  BY <1>1, <1>2, <1>4 DEF Lies
<1> QED BY <1>3, <1>5

(* F[i] is the first i sequences one after the other. *)
IsFlattening(F, seqs, n) ==
  /\ F[0] = <<>>
  /\ \A i \in 1..n : F[i] = F[i - 1] \o seqs[i]

(* There are such prefixes, whatever the sequences are. *)
LEMMA FlatteningExists ==
  ASSUME NEW seqs \in Seq(Seq(Nat))
  PROVE  \E F \in [0..Len(seqs) -> Seq(Nat)] : IsFlattening(F, seqs, Len(seqs))
<1> DEFINE T == {m \in Nat : m <= Len(seqs) =>
                               \E F \in [0..m -> Seq(Nat)] : IsFlattening(F, seqs, m)}
<1>1. 0 \in T
  <2>1. [i \in 0..0 |-> <<>>] \in [0..0 -> Seq(Nat)]
    OBVIOUS
  <2>2. IsFlattening([i \in 0..0 |-> <<>>], seqs, 0)
    BY DEF IsFlattening
  <2> QED BY <2>1, <2>2
<1>2. ASSUME NEW m \in Nat, m \in T PROVE m + 1 \in T
  <2> SUFFICES ASSUME m + 1 <= Len(seqs)
               PROVE  \E F \in [0..(m + 1) -> Seq(Nat)] : IsFlattening(F, seqs, m + 1)
    OBVIOUS
  <2>1. PICK F \in [0..m -> Seq(Nat)] : IsFlattening(F, seqs, m)
    BY <1>2
  <2> DEFINE G == [i \in 0..(m + 1) |-> IF i = m + 1 THEN F[m] \o seqs[m + 1] ELSE F[i]]
  <2>2. seqs[m + 1] \in Seq(Nat) /\ F[m] \in Seq(Nat)
    OBVIOUS
  <2>3. G \in [0..(m + 1) -> Seq(Nat)]
    BY <2>2
  <2>4. /\ G[0] = F[0] /\ G[m + 1] = F[m] \o seqs[m + 1]
        /\ \A i \in 0..m : G[i] = F[i]
    OBVIOUS
  <2> HIDE DEF G
  <2>5. ASSUME NEW i \in 1..(m + 1) PROVE G[i] = G[i - 1] \o seqs[i]
    <3>1. CASE i = m + 1
      <4>1. i - 1 = m /\ m \in 0..m
        BY <3>1
      <4> QED BY <2>4, <3>1, <4>1
    <3>2. CASE i # m + 1
      <4>1. i \in 1..m /\ i \in 0..m /\ i - 1 \in 0..m
        BY <3>2
      <4> QED BY <2>1, <2>4, <4>1 DEF IsFlattening
    <3> QED BY <3>1, <3>2
  <2>6. IsFlattening(G, seqs, m + 1)
    BY <2>1, <2>4, <2>5 DEF IsFlattening
  <2> QED BY <2>3, <2>6
<1> HIDE DEF T
<1>3. Nat \subseteq T
  BY <1>1, <1>2, SetInduction
<1>4. Len(seqs) \in T
  BY <1>3
<1> QED BY <1>4 DEF T

(* The recursive function of FlattenSeq has a value, which is the last prefix. *)
LEMMA FlattenFacts ==
  ASSUME NEW seqs \in Seq(Seq(Nat)), NEW F \in [0..Len(seqs) -> Seq(Nat)],
         IsFlattening(F, seqs, Len(seqs))
  PROVE  FlattenSeq(seqs) = F[Len(seqs)]
<1>1. CASE Len(seqs) = 0
  BY <1>1 DEF FlattenSeq, IsFlattening
<1>2. CASE Len(seqs) # 0
  <2> DEFINE n == Len(seqs)
             flatten == CHOOSE f : f = [i \in 1..n |-> IF i = 1 THEN seqs[i] ELSE f[i - 1] \o seqs[i]]
             g == [i \in 1..n |-> F[i]]
             T == {m \in Nat : m \in 1..n => flatten[m] = F[m]}
  <2>0. n \in Nat /\ n > 0 /\ \A i \in 1..n : seqs[i] \in Seq(Nat)
    BY <1>2
  <2>1. FlattenSeq(seqs) = flatten[n]
    BY <1>2 DEF FlattenSeq
  <2>2. g = [i \in 1..n |-> IF i = 1 THEN seqs[i] ELSE g[i - 1] \o seqs[i]]
    <3>1. ASSUME NEW i \in 1..n
          PROVE  F[i] = IF i = 1 THEN seqs[i] ELSE F[i - 1] \o seqs[i]
      <4>1. i - 1 \in 0..n /\ (i = 1 => i - 1 = 0) /\ seqs[i] \in Seq(Nat)
        BY <2>0
      <4>2. <<>> \o seqs[i] = seqs[i]
        BY <4>1
      <4> QED BY <4>1, <4>2 DEF IsFlattening
    <3>2. \A i \in 1..n : i # 1 => g[i - 1] = F[i - 1]
      BY <2>0
    <3> QED BY <3>1, <3>2
  <2>3. flatten = [i \in 1..n |-> IF i = 1 THEN seqs[i] ELSE flatten[i - 1] \o seqs[i]]
    <3> HIDE DEF g, n
    <3> QED BY <2>2, Zenon
  <2> HIDE DEF flatten
  <2>4. 0 \in T
    OBVIOUS
  <2>5. ASSUME NEW m \in Nat, m \in T PROVE m + 1 \in T
    <3> SUFFICES ASSUME m + 1 \in 1..n PROVE flatten[m + 1] = F[m + 1]
      OBVIOUS
    <3>1. (m + 1) - 1 = m /\ (m + 1 = 1 <=> m = 0) /\ seqs[m + 1] \in Seq(Nat)
      BY <2>0
    <3>2. flatten[m + 1] = IF m = 0 THEN seqs[m + 1] ELSE flatten[m] \o seqs[m + 1]
      BY <2>3, <3>1
    <3>3. <<>> \o seqs[m + 1] = seqs[m + 1]
      BY <3>1
    <3>5. F[m + 1] = F[(m + 1) - 1] \o seqs[m + 1] /\ F[0] = <<>>
      BY DEF IsFlattening
    <3>6. F[m + 1] = F[m] \o seqs[m + 1] /\ F[0] = <<>>
      BY <3>1, <3>5
    <3>4. m # 0 => flatten[m] = F[m]
      BY <2>5
    <3> QED BY <3>2, <3>3, <3>4, <3>6
  <2> HIDE DEF T
  <2>6. Nat \subseteq T
    BY <2>4, <2>5, SetInduction
  <2>7. n \in T
    BY <2>0, <2>6
  <2> QED BY <2>0, <2>1, <2>7 DEF T
<1> QED BY <1>1, <1>2

(* Each sequence lies behind the prefix before it. *)
LEMMA FlatteningLies ==
  ASSUME NEW n \in Nat, NEW seqs \in [1..n -> Seq(Nat)], NEW F \in [0..n -> Seq(Nat)],
         NEW data, NEW p \in Nat,
         IsFlattening(F, seqs, n), Len(data) \in Nat, Lies(F[n], data, p)
  PROVE  \A k \in 1..n : /\ Lies(seqs[k], data, p + Len(F[k - 1]))
                         /\ F[k] = F[k - 1] \o seqs[k]
                         /\ Len(F[k]) = Len(F[k - 1]) + Len(seqs[k])
<1> DEFINE T == {j \in Nat : j <= n => Lies(F[n - j], data, p)}
<1>1. ASSUME NEW k \in 1..n
      PROVE  F[k] = F[k - 1] \o seqs[k] /\ F[k - 1] \in Seq(Nat) /\ seqs[k] \in Seq(Nat)
  <2>1. k - 1 \in 0..n
    OBVIOUS
  <2>2. F[k] = F[k - 1] \o seqs[k]
    BY DEF IsFlattening
  <2> QED BY <2>1, <2>2
<1>2. ASSUME NEW k \in 1..n, Lies(F[k], data, p)
      PROVE  Lies(F[k - 1], data, p) /\ Lies(seqs[k], data, p + Len(F[k - 1]))
  <2>1. Lies(F[k - 1] \o seqs[k], data, p)
    BY <1>1, <1>2
  <2> QED BY <1>1, <2>1, LiesConcat
<1>3. 0 \in T
  OBVIOUS
<1>4. ASSUME NEW j \in Nat, j \in T PROVE j + 1 \in T
  <2> SUFFICES ASSUME j + 1 <= n PROVE Lies(F[n - (j + 1)], data, p)
    OBVIOUS
  <2>1. n - j \in 1..n /\ (n - j) - 1 = n - (j + 1)
    OBVIOUS
  <2>2. Lies(F[n - j], data, p)
    BY <1>4
  <2>3. Lies(F[(n - j) - 1], data, p)
    BY <1>2, <2>1, <2>2
  <2> QED BY <2>1, <2>3
<1> HIDE DEF T
<1>5. Nat \subseteq T
  BY <1>3, <1>4, SetInduction
<1>6. ASSUME NEW k \in 1..n PROVE Lies(F[k], data, p)
  <2>1. n - k \in T /\ n - (n - k) = k /\ n - k <= n
    BY <1>5
  <2> QED BY <2>1 DEF T
<1>7. ASSUME NEW k \in 1..n PROVE Len(F[k]) = Len(F[k - 1]) + Len(seqs[k])
  <2>1. Len(F[k - 1] \o seqs[k]) = Len(F[k - 1]) + Len(seqs[k])
    BY <1>1, ConcatFacts
  <2> QED BY <1>1, <2>1
<1> QED BY <1>1, <1>2, <1>6, <1>7


(* The pieces of a sequence lie one after the other, from p on: A[k] is where *)
(* the one after the k-th begins.                                             *)
Positions(A, seqs, data, p) ==
  /\ A \in [0..Len(seqs) -> Nat]
  /\ A[0] = p
  /\ A[Len(seqs)] = p + Len(FlattenSeq(seqs))
  /\ \A k \in 1..Len(seqs) : Lies(seqs[k], data, A[k - 1]) /\ A[k] = A[k - 1] + Len(seqs[k])

(* Wherever FlattenSeq lies, its pieces have such positions. *)
LEMMA PiecesLie ==
  ASSUME NEW seqs \in Seq(Seq(Nat)), NEW data, NEW p \in Nat,
         Len(data) \in Nat, Lies(FlattenSeq(seqs), data, p)
  PROVE  \E A : Positions(A, seqs, data, p)
<1> DEFINE n == Len(seqs)
<1>1. n \in Nat /\ seqs \in [1..n -> Seq(Nat)]
  OBVIOUS
<1> HIDE DEF n
<1>2. \E F \in [0..n -> Seq(Nat)] : IsFlattening(F, seqs, n)
  BY FlatteningExists DEF n
<1>3. PICK F \in [0..n -> Seq(Nat)] : IsFlattening(F, seqs, n)
  BY <1>2
<1>4. FlattenSeq(seqs) = F[n]
  BY <1>3, FlattenFacts DEF n
<1>5. Lies(F[n], data, p)
  BY <1>4
<1>6. \A k \in 1..n : /\ Lies(seqs[k], data, p + Len(F[k - 1]))
                      /\ F[k] = F[k - 1] \o seqs[k]
                      /\ Len(F[k]) = Len(F[k - 1]) + Len(seqs[k])
  <2>1. /\ n \in Nat /\ seqs \in [1..n -> Seq(Nat)] /\ F \in [0..n -> Seq(Nat)]
        /\ IsFlattening(F, seqs, n) /\ Len(data) \in Nat /\ Lies(F[n], data, p) /\ p \in Nat
    BY <1>1, <1>3, <1>5
  <2> QED BY <2>1, FlatteningLies, Zenon
<1> DEFINE A == [k \in 0..n |-> p + Len(F[k])]
<1>7. A \in [0..n -> Nat] /\ A[0] = p /\ A[n] = p + Len(F[n])
  <2>1. \A k \in 0..n : Len(F[k]) \in Nat /\ p + Len(F[k]) \in Nat
    OBVIOUS
  <2>2. 0 \in 0..n /\ n \in 0..n /\ p + Len(F[0]) = p
    BY <1>1, <1>3 DEF IsFlattening
  <2>3. A \in [0..n -> Nat]
    BY <2>1
  <2> QED BY <2>2, <2>3
<1>8. ASSUME NEW k \in 1..n
      PROVE  Lies(seqs[k], data, A[k - 1]) /\ A[k] = A[k - 1] + Len(seqs[k])
  <2>1. k \in 0..n /\ k - 1 \in 0..n /\ Len(F[k - 1]) \in Nat /\ Len(seqs[k]) \in Nat
    <3>1. k \in 0..n /\ k - 1 \in 0..n
      BY <1>1
    <3>2. F[k - 1] \in Seq(Nat) /\ seqs[k] \in Seq(Nat)
      BY <1>1, <3>1
    <3> QED BY <3>1, <3>2
  <2>2. A[k] = p + Len(F[k]) /\ A[k - 1] = p + Len(F[k - 1])
    BY <2>1
  <2>3. p + (Len(F[k - 1]) + Len(seqs[k])) = p + Len(F[k - 1]) + Len(seqs[k])
    <3>1. \A a, b, c \in Nat : a + (b + c) = a + b + c
      OBVIOUS
    <3> QED BY <2>1, <3>1
  <2> QED BY <1>6, <2>2, <2>3
<1> HIDE DEF A
<1>9. Positions(A, seqs, data, p)
  BY <1>4, <1>7, <1>8 DEF n, Positions
<1> QED BY <1>9

(* The next value is read as it was written, unless it is empty and the last thing. *)
LEMMA NextValueFacts ==
  ASSUME NEW data, Len(data) \in Nat, NEW q \in Nat, q > 0,
         NEW v \in Seq(Nat), Len(v) < ByteMax, Lies(SerializeValue(v), data, q),
         v # <<>> \/ q + 1 <= Len(data),
         NEW read
  PROVE  NextValue(data, [at |-> q, read |-> read])
           = [at |-> q + Len(SerializeValue(v)), read |-> Append(read, v)]
<1>1. /\ <<Len(v) % ByteMax>> \in Seq(Nat) /\ Len(v) % ByteMax = Len(v)
      /\ Len(<<Len(v) % ByteMax>>) = 1 /\ <<Len(v) % ByteMax>>[1] = Len(v)
  <2>1. \A n \in Nat, m \in Nat \ {0} : n < m => n % m = n
    OBVIOUS
  <2>2. Len(v) % ByteMax = Len(v)
    BY <2>1, CodecAssumption
  <2> QED BY <2>2
<1>2. /\ Lies(<<Len(v) % ByteMax>>, data, q) /\ Lies(v, data, q + 1)
      /\ Len(SerializeValue(v)) = 1 + Len(v)
  <2> DEFINE h == <<Len(v) % ByteMax>>
  <2>1. h \in Seq(Nat) /\ Len(h) = 1 /\ Lies(h \o v, data, q) /\ SerializeValue(v) = h \o v
    BY <1>1 DEF SerializeValue
  <2> HIDE DEF h
  <2>2. Lies(h, data, q) /\ Lies(v, data, q + Len(h))
    BY <2>1, LiesConcat
  <2>3. Len(h \o v) = Len(h) + Len(v)
    BY <2>1, ConcatFacts
  <2> QED BY <2>1, <2>2, <2>3 DEF h
<1>3. data[q] = Len(v)
  BY <1>1, <1>2 DEF Lies
<1>4. ASSUME NEW i \in 1..Len(v) PROVE q + i <= Len(data) /\ data[q + i] = v[i]
  <2>1. q + 1 + Len(v) - 1 <= Len(data) /\ data[q + 1 + i - 1] = v[i]
    BY <1>2 DEF Lies
  <2>2. q + 1 + i - 1 = q + i
    OBVIOUS
  <2> QED BY <2>1, <2>2
<1> DEFINE b == [at |-> q, read |-> read]
<1>5. b.at = q /\ b.read = read
  OBVIOUS
<1> HIDE DEF b
<1>6. [i \in 1..data[b.at] |-> IF b.at + i <= Len(data) THEN data[b.at + i] ELSE 0] = v
  <2>1. v = [i \in 1..Len(v) |-> v[i]]
    OBVIOUS
  <2> QED BY <1>3, <1>4, <1>5, <2>1
<1>7. NextValue(data, b) = [at |-> q + Len(SerializeValue(v)), read |-> Append(read, v)]
  <2>1. q # 0 /\ ~(q + 1 > Len(data)) /\ q + data[q] + 1 = q + Len(SerializeValue(v))
    <3>1. Len(v) \in Nat /\ Len(data) \in Nat /\ (v # <<>> => Len(v) > 0)
      OBVIOUS
    <3>2. q + 1 + Len(v) - 1 <= Len(data)
      BY <1>2 DEF Lies
    <3> QED BY <1>2, <1>3, <3>1, <3>2
  <2> QED BY <1>5, <1>6, <2>1 DEF NextValue, Failed
<1> QED BY <1>7 DEF b

(* Induction from 0 to n. *)
LEMMA BoundedInduction ==
  ASSUME NEW n \in Nat, NEW T, 0 \in T, \A k \in 1..n : k - 1 \in T => k \in T
  PROVE  0..n \subseteq T
<1> DEFINE U == {m \in Nat : m <= n => m \in T}
<1>1. 0 \in U
  OBVIOUS
<1>2. ASSUME NEW m \in Nat, m \in U PROVE m + 1 \in U
  <2>1. m + 1 <= n => m + 1 \in 1..n /\ (m + 1) - 1 = m /\ m <= n
    OBVIOUS
  <2> QED BY <1>2, <2>1
<1> HIDE DEF U
<1>3. Nat \subseteq U
  BY <1>1, <1>2, SetInduction
<1> QED BY <1>3 DEF U

(* The cells of the values of a block. *)
ValueCells(vals) == [i \in 1..Len(vals) |-> SerializeValue(vals[i])]

(* A value takes one cell more than it has. *)
LEMMA SerializeValueType ==
  ASSUME NEW v \in Seq(Nat)
  PROVE  SerializeValue(v) \in Seq(Nat) /\ Len(SerializeValue(v)) = 1 + Len(v)
<1>1. <<Len(v) % ByteMax>> \in Seq(Nat) /\ Len(<<Len(v) % ByteMax>>) = 1
  <2>1. \A n \in Nat, m \in Nat \ {0} : n % m \in Nat
    OBVIOUS
  <2>2. Len(v) % ByteMax \in Nat
    BY <2>1, CodecAssumption
  <2> QED BY <2>2
<1> DEFINE h == <<Len(v) % ByteMax>>
<1> HIDE DEF h
<1>2. h \in Seq(Nat) /\ Len(h) = 1
  BY <1>1 DEF h
<1>3. h \o v \in Seq(Nat) /\ Len(h \o v) = Len(h) + Len(v)
  BY <1>2, ConcatFacts
<1>4. SerializeValue(v) = h \o v
  BY DEF h, SerializeValue
<1> QED BY <1>2, <1>3, <1>4

(* The values as sequences of cells. *)
LEMMA ValuesType ==
  ASSUME NEW vals \in Seq(Seq(Nat))
  PROVE  /\ ValueCells(vals) \in Seq(Seq(Nat)) /\ Len(ValueCells(vals)) = Len(vals)
         /\ \A k \in 1..Len(vals) : /\ ValueCells(vals)[k] = SerializeValue(vals[k])
                                    /\ Len(ValueCells(vals)[k]) = 1 + Len(vals[k])
<1> DEFINE n == Len(vals)
           seqs == ValueCells(vals)
<1>1. n \in Nat /\ \A k \in 1..n : vals[k] \in Seq(Nat)
  OBVIOUS
<1>2. seqs = [k \in 1..n |-> SerializeValue(vals[k])]
  BY DEF ValueCells
<1> HIDE DEF n, seqs
<1>3. \A k \in 1..n : SerializeValue(vals[k]) \in Seq(Nat) /\ Len(SerializeValue(vals[k])) = 1 + Len(vals[k])
  BY <1>1, SerializeValueType
<1>4. seqs \in [1..n -> Seq(Nat)]
  BY <1>2, <1>3
<1>5. seqs \in Seq(Seq(Nat)) /\ Len(seqs) = n
  BY <1>1, <1>4
<1> QED BY <1>2, <1>3, <1>5 DEF n, seqs

(* Their positions. *)
LEMMA ValuesLie ==
  ASSUME NEW vals \in Seq(Seq(Nat)), NEW data, NEW p \in Nat,
         Len(data) \in Nat, Lies(FlattenSeq(ValueCells(vals)), data, p)
  PROVE  \E A : Positions(A, ValueCells(vals), data, p)
<1>1. ValueCells(vals) \in Seq(Seq(Nat))
  BY ValuesType
<1> QED BY <1>1, PiecesLie

(* The values of a block are read as they were written. *)
LEMMA ReadValuesFacts ==
  ASSUME NEW data, Len(data) \in Nat, NEW p \in Nat, p > 0,
         NEW vals \in Seq(Seq(Nat)),
         \A i \in 1..Len(vals) : Len(vals[i]) < ByteMax,
         Lies(FlattenSeq(ValueCells(vals)), data, p),
         \/ p + Len(FlattenSeq(ValueCells(vals))) <= Len(data)
         \/ vals = <<>>
         \/ vals[Len(vals)] # <<>>
  PROVE  ReadValues(data, Len(vals), p)
           = [at |-> p + Len(FlattenSeq(ValueCells(vals))), read |-> vals]
<1> DEFINE n == Len(vals)
           seqs == ValueCells(vals)
<1>1. n \in Nat /\ \A k \in 1..n : vals[k] \in Seq(Nat) /\ Len(vals[k]) \in Nat
  OBVIOUS
<1>2. /\ seqs \in Seq(Seq(Nat)) /\ Len(seqs) = n
      /\ \A k \in 1..n : seqs[k] = SerializeValue(vals[k]) /\ Len(seqs[k]) = 1 + Len(vals[k])
  BY ValuesType
<1> HIDE DEF seqs, n
<1>3. PICK A : Positions(A, seqs, data, p)
  BY ValuesLie DEF seqs
<1>4. /\ A \in [0..n -> Nat] /\ A[0] = p /\ A[n] = p + Len(FlattenSeq(seqs))
      /\ \A k \in 1..n : Lies(seqs[k], data, A[k - 1]) /\ A[k] = A[k - 1] + Len(seqs[k])
  BY <1>2, <1>3 DEF Positions
<1> DEFINE E == [k \in 0..n |-> [at |-> A[k], read |-> SubSeq(vals, 1, k)]]
<1>5. ASSUME NEW k \in 1..n
      PROVE  k - 1 \in 0..n /\ k \in 0..n /\ A[k - 1] \in Nat /\ A[k] \in Nat /\ A[k - 1] >= p
  <2> DEFINE T == {m \in 0..n : A[m] >= p}
  <2>1. 0 \in T
    BY <1>1, <1>4
  <2>2. ASSUME NEW m \in 1..n, m - 1 \in T PROVE m \in T
    <3>1. m - 1 \in 0..n /\ m \in 0..n
      BY <1>1
    <3>2. A[m - 1] \in Nat /\ A[m] = A[m - 1] + Len(seqs[m]) /\ A[m - 1] >= p
      BY <1>4, <2>2, <3>1
    <3>3. Len(seqs[m]) \in Nat
      BY <1>1, <1>2
    <3> QED BY <3>1, <3>2, <3>3
  <2> HIDE DEF T
  <2>3. 0..n \subseteq T
    BY <1>1, <2>1, <2>2, BoundedInduction
  <2>4. k - 1 \in 0..n /\ k \in 0..n
    BY <1>1
  <2> QED BY <1>4, <2>3, <2>4 DEF T
<1>6. ASSUME NEW k \in 1..n, vals[k] = <<>>
      PROVE  A[k - 1] + 1 <= Len(data)
  <2>1. Len(seqs[k]) = 1 /\ A[k] = A[k - 1] + 1
    <3>1. Len(seqs[k]) = 1 + Len(vals[k]) /\ Len(vals[k]) = 0
      BY <1>2, <1>6
    <3>2. A[k] = A[k - 1] + Len(seqs[k])
      BY <1>4
    <3> QED BY <3>1, <3>2
  <2>2. CASE k = n
    <3>1. p + Len(FlattenSeq(seqs)) <= Len(data)
      BY <1>6, <2>2 DEF n, seqs
    <3> QED BY <1>4, <2>1, <2>2, <3>1
  <2>3. CASE k # n
    <3>1. k + 1 \in 1..n /\ (k + 1) - 1 = k
      BY <1>1, <2>3
    <3>2. Lies(seqs[k + 1], data, A[k]) /\ Len(seqs[k + 1]) = 1 + Len(vals[k + 1])
      BY <1>2, <1>4, <3>1
    <3>3. A[k] + Len(seqs[k + 1]) - 1 <= Len(data)
      BY <3>2 DEF Lies
    <3>4. Len(vals[k + 1]) \in Nat /\ A[k] \in Nat /\ A[k - 1] \in Nat
      BY <1>1, <1>5, <3>1
    <3>5. Len(data) \in Nat
      OBVIOUS
    <3> QED BY <2>1, <3>2, <3>3, <3>4, <3>5
  <2> QED BY <2>2, <2>3
<1>7. ASSUME NEW k \in 1..n
      PROVE  NextValue(data, E[k - 1]) = E[k]
  <2>1. /\ A[k - 1] \in Nat /\ A[k - 1] > 0 /\ vals[k] \in Seq(Nat) /\ Len(vals[k]) < ByteMax
        /\ Lies(SerializeValue(vals[k]), data, A[k - 1])
        /\ vals[k] # <<>> \/ A[k - 1] + 1 <= Len(data)
    <3>1. A[k - 1] \in Nat /\ A[k - 1] >= p /\ A[k - 1] > 0
      BY <1>5
    <3>2. vals[k] \in Seq(Nat) /\ Len(vals[k]) < ByteMax
      BY <1>1 DEF n
    <3>3. Lies(SerializeValue(vals[k]), data, A[k - 1])
      BY <1>2, <1>4
    <3> QED BY <1>6, <3>1, <3>2, <3>3
  <2>2. NextValue(data, [at |-> A[k - 1], read |-> SubSeq(vals, 1, k - 1)])
          = [at |-> A[k - 1] + Len(SerializeValue(vals[k])),
             read |-> Append(SubSeq(vals, 1, k - 1), vals[k])]
    <3> DEFINE q == A[k - 1]
               v == vals[k]
    <3>1. /\ q \in Nat /\ q > 0 /\ v \in Seq(Nat) /\ Len(v) < ByteMax
          /\ Lies(SerializeValue(v), data, q)
          /\ v # <<>> \/ q + 1 <= Len(data)
      BY <2>1
    <3> HIDE DEF q, v
    <3>2. \A read : NextValue(data, [at |-> q, read |-> read])
                      = [at |-> q + Len(SerializeValue(v)), read |-> Append(read, v)]
      BY <3>1, NextValueFacts
    <3> QED BY <3>2 DEF q, v
  <2>3. Append(SubSeq(vals, 1, k - 1), vals[k]) = SubSeq(vals, 1, k)
    BY DEF n
  <2>4. A[k] = A[k - 1] + Len(SerializeValue(vals[k]))
    BY <1>2, <1>4
  <2>5. /\ E[k - 1] = [at |-> A[k - 1], read |-> SubSeq(vals, 1, k - 1)]
        /\ E[k] = [at |-> A[k], read |-> SubSeq(vals, 1, k)]
    BY <1>5
  <2> HIDE DEF E
  <2> QED BY <2>2, <2>3, <2>4, <2>5
<1>8. E[0] = [at |-> p, read |-> <<>>] /\ E[n] = [at |-> A[n], read |-> vals]
  <2>1. SubSeq(vals, 1, 0) = <<>> /\ SubSeq(vals, 1, n) = vals
    BY DEF n
  <2>2. 0 \in 0..n /\ n \in 0..n
    BY <1>1
  <2> QED BY <1>4, <2>1, <2>2
<1>9. E = [k \in 0..n |-> E[k]]
  OBVIOUS
<1> HIDE DEF E
<1> DEFINE values == CHOOSE f : f = [k \in 0..n |->
                       IF k = 0 THEN [at |-> p, read |-> <<>>] ELSE NextValue(data, f[k - 1])]
<1>10. ReadValues(data, n, p) = values[n]
  BY DEF ReadValues
<1>11. E = [k \in 0..n |->
              IF k = 0 THEN [at |-> p, read |-> <<>>] ELSE NextValue(data, E[k - 1])]
  <2>1. \A k \in 0..n : k # 0 => k \in 1..n
    BY <1>1
  <2> QED BY <1>7, <1>8, <1>9, <2>1
<1>12. values = [k \in 0..n |->
              IF k = 0 THEN [at |-> p, read |-> <<>>] ELSE NextValue(data, values[k - 1])]
  BY <1>11, Zenon
<1> HIDE DEF values
<1> DEFINE T == {k \in 0..n : values[k] = E[k]}
<1>13. 0 \in T
  BY <1>1, <1>8, <1>12
<1>14. ASSUME NEW k \in 1..n, k - 1 \in T PROVE k \in T
  <2>1. k \in 0..n /\ k # 0
    BY <1>1
  <2>2. values[k] = NextValue(data, values[k - 1])
    BY <1>12, <2>1
  <2> QED BY <1>7, <1>14, <2>1, <2>2
<1> HIDE DEF T
<1>15. 0..n \subseteq T
  BY <1>1, <1>13, <1>14, BoundedInduction
<1>16. n \in T
  BY <1>1, <1>15
<1> QED BY <1>4, <1>8, <1>10, <1>16 DEF T, n, seqs

(* FlattenSeq of sequences of numbers is one. *)
LEMMA FlattenType ==
  ASSUME NEW seqs \in Seq(Seq(Nat))
  PROVE  FlattenSeq(seqs) \in Seq(Nat)
<1>1. PICK F \in [0..Len(seqs) -> Seq(Nat)] : IsFlattening(F, seqs, Len(seqs))
  BY FlatteningExists
<1>2. FlattenSeq(seqs) = F[Len(seqs)]
  BY <1>1, FlattenFacts
<1> QED BY <1>2

(* The fields of a block that are not cut. *)
Fits(b) ==
  /\ b.at < ByteMax /\ b.type < ByteMax /\ Len(b.values) < ByteMax
  /\ \A j \in 1..Len(b.values) : Len(b.values[j]) < ByteMax

(* What is written of a block before its values. *)
Header(b) == <<b.at, b.type, Len(b.values)>>

(* A block that fits is written whole. *)
LEMMA SerializeBlockFacts ==
  ASSUME NEW b \in ChunkBlocks, Fits(b)
  PROVE  /\ Header(b) \in Seq(Nat) /\ Len(Header(b)) = 3
         /\ FlattenSeq(ValueCells(b.values)) \in Seq(Nat)
         /\ SerializeBlock(b) = Header(b) \o FlattenSeq(ValueCells(b.values))
         /\ SerializeBlock(b) \in Seq(Nat)
         /\ Len(SerializeBlock(b)) = 3 + Len(FlattenSeq(ValueCells(b.values)))
<1>1. b.at \in Nat /\ b.type \in Nat /\ b.values \in Seq(Seq(Nat)) /\ Len(b.values) \in Nat
  BY DEF ChunkBlocks
<1>2. \A n \in Nat, m \in Nat \ {0} : n < m => n % m = n
  OBVIOUS
<1>3. b.type % ByteMax = b.type /\ Len(b.values) % ByteMax = Len(b.values) /\ ~(b.at >= ByteMax)
  <2>1. b.type < ByteMax /\ Len(b.values) < ByteMax /\ b.at < ByteMax /\ ByteMax \in Nat \ {0}
    BY CodecAssumption DEF Fits
  <2>2. b.type % ByteMax = b.type
    BY <1>1, <1>2, <2>1
  <2>3. Len(b.values) % ByteMax = Len(b.values)
    BY <1>1, <1>2, <2>1
  <2>4. ~(b.at >= ByteMax)
    BY <1>1, <2>1
  <2> QED BY <2>2, <2>3, <2>4
<1>4. Header(b) \in Seq(Nat) /\ Len(Header(b)) = 3
  BY <1>1 DEF Header
<1>5. FlattenSeq(ValueCells(b.values)) \in Seq(Nat)
  BY <1>1, ValuesType, FlattenType
<1>6. SerializeBlock(b) = Header(b) \o FlattenSeq(ValueCells(b.values))
  BY <1>3 DEF SerializeBlock, Header, ValueCells
<1>7. /\ Header(b) \o FlattenSeq(ValueCells(b.values)) \in Seq(Nat)
      /\ Len(Header(b) \o FlattenSeq(ValueCells(b.values)))
           = Len(Header(b)) + Len(FlattenSeq(ValueCells(b.values)))
  BY <1>4, <1>5, ConcatFacts
<1> QED BY <1>4, <1>5, <1>6, <1>7

(* A block is read as it was written. *)
LEMMA ReadBlockFacts ==
  ASSUME NEW b \in ChunkBlocks, NEW data, NEW p \in Nat, Fits(b), p > 0, Len(data) \in Nat,
         Lies(SerializeBlock(b), data, p),
         \/ p + Len(SerializeBlock(b)) <= Len(data)
         \/ b.values = <<>>
         \/ b.values[Len(b.values)] # <<>>
  PROVE  ReadBlock(data, p) = [at |-> p + Len(SerializeBlock(b)), block |-> b]
<1> DEFINE body == FlattenSeq(ValueCells(b.values))
           h == Header(b)
<1>1. /\ h \in Seq(Nat) /\ Len(h) = 3 /\ body \in Seq(Nat)
      /\ SerializeBlock(b) = h \o body /\ Len(SerializeBlock(b)) = 3 + Len(body)
  BY SerializeBlockFacts
<1>2. b.at \in Nat /\ b.type \in Nat /\ b.values \in Seq(Seq(Nat)) /\ Len(b.values) \in Nat
  BY DEF ChunkBlocks
<1> HIDE DEF h, body
<1>3. Lies(h \o body, data, p)
  BY <1>1
<1>4. Lies(h, data, p) /\ Lies(body, data, p + Len(h))
  BY <1>1, <1>3, LiesConcat
<1>5. Lies(body, data, p + 3)
  BY <1>1, <1>4
<1>6. p + 2 <= Len(data) /\ data[p] = b.at /\ data[p + 1] = b.type /\ data[p + 2] = Len(b.values)
  <2>1. p + 3 - 1 <= Len(data) /\ \A i \in 1..3 : data[p + i - 1] = h[i]
    BY <1>1, <1>4 DEF Lies
  <2>2. h[1] = b.at /\ h[2] = b.type /\ h[3] = Len(b.values)
    BY DEF h, Header
  <2>3. p + 1 - 1 = p /\ p + 2 - 1 = p + 1 /\ p + 3 - 1 = p + 2
    OBVIOUS
  <2>4. data[p + 1 - 1] = h[1] /\ data[p + 2 - 1] = h[2] /\ data[p + 3 - 1] = h[3]
    BY <2>1
  <2> QED BY <2>1, <2>2, <2>3, <2>4
<1>7. ReadValues(data, Len(b.values), p + 3) = [at |-> p + 3 + Len(body), read |-> b.values]
  <2> DEFINE vals == b.values
             q == p + 3
  <2>1. /\ q \in Nat /\ q > 0 /\ vals \in Seq(Seq(Nat))
        /\ \A i \in 1..Len(vals) : Len(vals[i]) < ByteMax
        /\ Lies(FlattenSeq(ValueCells(vals)), data, q)
    BY <1>2, <1>5 DEF Fits, body
  <2>2. \/ q + Len(FlattenSeq(ValueCells(vals))) <= Len(data)
        \/ vals = <<>>
        \/ vals[Len(vals)] # <<>>
    <3>1. Len(body) \in Nat /\ p + (3 + Len(body)) = q + Len(body)
      BY <1>1
    <3> QED BY <1>1, <3>1 DEF body
  <2> HIDE DEF vals, q
  <2>3. ReadValues(data, Len(vals), q) = [at |-> q + Len(FlattenSeq(ValueCells(vals))), read |-> vals]
    BY <2>1, <2>2, ReadValuesFacts
  <2> QED BY <2>3 DEF vals, q, body
<1>8. [at |-> b.at, type |-> b.type, values |-> b.values] = b
  BY DEF ChunkBlocks
<1>9. p + (3 + Len(body)) = p + 3 + Len(body)
  <2>1. Len(body) \in Nat
    BY <1>1
  <2> QED BY <2>1
<1>10. ~(p + 2 > Len(data))
  BY <1>6
<1> DEFINE vs == ReadValues(data, data[p + 2], p + 3)
<1>11. vs.at = p + 3 + Len(body) /\ vs.read = b.values
  BY <1>6, <1>7
<1>12. ReadBlock(data, p) = [at |-> vs.at,
                             block |-> [at |-> data[p], type |-> data[p + 1], values |-> vs.read]]
  BY <1>10 DEF ReadBlock
<1> HIDE DEF vs
<1> QED BY <1>1, <1>6, <1>8, <1>9, <1>11, <1>12

(* The cells of the blocks of a delta. *)
BlockCells(d) == [i \in 1..Len(d) |-> SerializeBlock(d[i])]

(* The blocks as sequences of cells. *)
LEMMA WrittenType ==
  ASSUME NEW d \in Seq(ChunkBlocks), \A i \in 1..Len(d) : Fits(d[i])
  PROVE  /\ BlockCells(d) \in Seq(Seq(Nat)) /\ Len(BlockCells(d)) = Len(d)
         /\ \A k \in 1..Len(d) : BlockCells(d)[k] = SerializeBlock(d[k]) /\ Len(BlockCells(d)[k]) >= 3
<1> DEFINE n == Len(d)
           seqs == BlockCells(d)
<1>1. n \in Nat /\ \A k \in 1..n : d[k] \in ChunkBlocks /\ Fits(d[k])
  OBVIOUS
<1>2. seqs = [k \in 1..n |-> SerializeBlock(d[k])]
  BY DEF BlockCells
<1> HIDE DEF n, seqs
<1>3. ASSUME NEW k \in 1..n
      PROVE  SerializeBlock(d[k]) \in Seq(Nat) /\ Len(SerializeBlock(d[k])) >= 3
  <2>1. /\ FlattenSeq(ValueCells(d[k].values)) \in Seq(Nat)
        /\ SerializeBlock(d[k]) \in Seq(Nat)
        /\ Len(SerializeBlock(d[k])) = 3 + Len(FlattenSeq(ValueCells(d[k].values)))
    BY <1>1, SerializeBlockFacts
  <2>2. Len(FlattenSeq(ValueCells(d[k].values))) \in Nat
    BY <2>1
  <2> QED BY <2>1, <2>2
<1>4. seqs \in [1..n -> Seq(Nat)]
  BY <1>2, <1>3
<1>5. seqs \in Seq(Seq(Nat)) /\ Len(seqs) = n
  BY <1>1, <1>4
<1> QED BY <1>2, <1>3, <1>5 DEF n, seqs

(* Their positions. *)
LEMMA BlocksLie ==
  ASSUME NEW d \in Seq(ChunkBlocks), \A i \in 1..Len(d) : Fits(d[i]), NEW data, NEW p \in Nat,
         Len(data) \in Nat, Lies(FlattenSeq(BlockCells(d)), data, p)
  PROVE  \E A : Positions(A, BlockCells(d), data, p)
<1>1. BlockCells(d) \in Seq(Seq(Nat))
  BY WrittenType
<1> QED BY <1>1, PiecesLie

(* The next block is read as it was written, and reading goes on behind it. *)
LEMMA NextBlockFacts ==
  ASSUME NEW b \in ChunkBlocks, NEW data, NEW q \in Nat, Fits(b), q > 0, Len(data) \in Nat,
         Lies(SerializeBlock(b), data, q),
         \/ q + Len(SerializeBlock(b)) <= Len(data)
         \/ b.values = <<>>
         \/ b.values[Len(b.values)] # <<>>,
         NEW read
  PROVE  NextBlock(data, [at |-> q, read |-> read])
           = [at |-> q + Len(SerializeBlock(b)), read |-> Append(read, b)]
<1>1. ReadBlock(data, q) = [at |-> q + Len(SerializeBlock(b)), block |-> b]
  BY ReadBlockFacts
<1>2. q + Len(SerializeBlock(b)) # 0
  <2>1. Len(SerializeBlock(b)) \in Nat
    BY SerializeBlockFacts
  <2> QED BY <2>1
<1> DEFINE before == [at |-> q, read |-> read]
           r == ReadBlock(data, q)
<1>3. before.at = q /\ before.read = read
  OBVIOUS
<1> HIDE DEF before
<1>4. NextBlock(data, before) = IF q = 0 \/ r.at = 0 THEN [at |-> 0, read |-> <<>>]
                                ELSE [at |-> r.at, read |-> Append(read, r.block)]
  BY <1>3 DEF NextBlock, Failed
<1>5. r.at = q + Len(SerializeBlock(b)) /\ r.block = b
  BY <1>1
<1> HIDE DEF r
<1>6. NextBlock(data, before) = [at |-> q + Len(SerializeBlock(b)), read |-> Append(read, b)]
  BY <1>2, <1>4, <1>5
<1> QED BY <1>6 DEF before

(* deserializeChunk reads from data that begins with what serializeChunk wrote *)
(* the delta that was written.                                                 *)
THEOREM DeserializeInvertsSerialize ==
  ASSUME NEW d \in Seq(ChunkBlocks), Storable(d),
         NEW data, Len(data) \in Nat, Lies(SerializeChunk(d), data, 1)
  PROVE  DeserializeChunk(data) = [at |-> 1 + Len(SerializeChunk(d)), read |-> d]
<1> DEFINE n == Len(d)
           seqs == BlockCells(d)
<1>1. n \in Nat /\ \A k \in 1..n : d[k] \in ChunkBlocks /\ Fits(d[k])
  BY DEF Storable, Fits
<1>2. /\ seqs \in Seq(Seq(Nat)) /\ Len(seqs) = n
      /\ \A k \in 1..n : seqs[k] = SerializeBlock(d[k]) /\ Len(seqs[k]) >= 3
  BY <1>1, WrittenType
<1> HIDE DEF seqs, n
<1>3. /\ Lies(<<n>>, data, 1) /\ Lies(FlattenSeq(seqs), data, 2)
      /\ Len(SerializeChunk(d)) = 1 + Len(FlattenSeq(seqs)) /\ FlattenSeq(seqs) \in Seq(Nat)
  <2>1. FlattenSeq(seqs) \in Seq(Nat)
    BY <1>2, FlattenType
  <2>2. n % CountMax = n
    <3>1. \A a \in Nat, m \in Nat \ {0} : a < m => a % m = a
      OBVIOUS
    <3>2. n < CountMax
      BY DEF Storable, n
    <3> QED BY <1>1, <3>1, <3>2, CodecAssumption
  <2> DEFINE h == <<n>>
  <2>3. h \in Seq(Nat) /\ Len(h) = 1
    BY <1>1
  <2>4. SerializeChunk(d) = h \o FlattenSeq(seqs)
    BY <2>2 DEF SerializeChunk, n, seqs, BlockCells
  <2> HIDE DEF h
  <2>5. Lies(h \o FlattenSeq(seqs), data, 1)
    BY <2>4
  <2>6. Lies(h, data, 1) /\ Lies(FlattenSeq(seqs), data, 1 + Len(h))
    BY <2>1, <2>3, <2>5, LiesConcat
  <2>7. Len(h \o FlattenSeq(seqs)) = Len(h) + Len(FlattenSeq(seqs))
    BY <2>1, <2>3, ConcatFacts
  <2>8. Lies(FlattenSeq(seqs), data, 2)
    BY <2>3, <2>6
  <2> QED BY <2>1, <2>3, <2>4, <2>6, <2>7, <2>8 DEF h
<1>4. data[1] = n
  <2>1. <<n>>[1] = n /\ Len(<<n>>) = 1
    OBVIOUS
  <2>2. data[1 + 1 - 1] = <<n>>[1]
    BY <1>3, <2>1 DEF Lies
  <2> QED BY <2>1, <2>2
<1>5. PICK A : Positions(A, seqs, data, 2)
  BY <1>1, <1>3, BlocksLie DEF seqs, n
<1>6. /\ A \in [0..n -> Nat] /\ A[0] = 2 /\ A[n] = 2 + Len(FlattenSeq(seqs))
      /\ \A k \in 1..n : Lies(seqs[k], data, A[k - 1]) /\ A[k] = A[k - 1] + Len(seqs[k])
  BY <1>2, <1>5 DEF Positions
<1>7. ASSUME NEW k \in 1..n
      PROVE  /\ k - 1 \in 0..n /\ k \in 0..n /\ A[k - 1] \in Nat /\ A[k] \in Nat /\ A[k - 1] > 0
             /\ Len(seqs[k]) \in Nat
  <2> DEFINE T == {m \in 0..n : A[m] > 0}
  <2>1. 0 \in T
    BY <1>1, <1>6
  <2>0. ASSUME NEW m \in 1..n PROVE Len(seqs[m]) \in Nat
    BY <1>2
  <2>2. ASSUME NEW m \in 1..n, m - 1 \in T PROVE m \in T
    <3>1. m - 1 \in 0..n /\ m \in 0..n
      BY <1>1
    <3>2. A[m - 1] \in Nat /\ A[m] = A[m - 1] + Len(seqs[m]) /\ A[m - 1] > 0
      BY <1>6, <2>2, <3>1
    <3> QED BY <2>0, <3>1, <3>2
  <2> HIDE DEF T
  <2>3. 0..n \subseteq T
    BY <1>1, <2>1, <2>2, BoundedInduction
  <2>4. k - 1 \in 0..n /\ k \in 0..n
    BY <1>1
  <2> QED BY <1>6, <2>0, <2>3, <2>4 DEF T
<1>8. ASSUME NEW k \in 1..n
      PROVE  \/ A[k - 1] + Len(SerializeBlock(d[k])) <= Len(data)
             \/ d[k].values = <<>>
             \/ d[k].values[Len(d[k].values)] # <<>>
  <2>1. CASE k = n
    <3>1. d # <<>> /\ Last(d) = d[k]
      BY <1>1, <2>1 DEF n, Last
    <3>2. d[k].values # <<>> => Last(d[k].values) # <<>>
      BY <3>1 DEF Storable
    <3> QED BY <3>2 DEF Last
  <2>2. CASE k # n
    <3>1. k + 1 \in 1..n /\ (k + 1) - 1 = k
      BY <1>1, <2>2
    <3>2. Lies(seqs[k + 1], data, A[k]) /\ Len(seqs[k + 1]) >= 3
      BY <1>2, <1>6, <3>1
    <3>3. A[k] + Len(seqs[k + 1]) - 1 <= Len(data)
      BY <3>2 DEF Lies
    <3>4. A[k] \in Nat /\ Len(seqs[k + 1]) \in Nat
      BY <1>7, <3>1
    <3>5. A[k] <= Len(data)
      BY <3>2, <3>3, <3>4
    <3>6. A[k] = A[k - 1] + Len(SerializeBlock(d[k]))
      BY <1>2, <1>6
    <3> QED BY <3>5, <3>6
  <2> QED BY <2>1, <2>2
<1> DEFINE E == [k \in 0..n |-> [at |-> A[k], read |-> SubSeq(d, 1, k)]]
<1>9. ASSUME NEW k \in 1..n
      PROVE  NextBlock(data, E[k - 1]) = E[k]
  <2>1. NextBlock(data, [at |-> A[k - 1], read |-> SubSeq(d, 1, k - 1)])
          = [at |-> A[k - 1] + Len(SerializeBlock(d[k])),
             read |-> Append(SubSeq(d, 1, k - 1), d[k])]
    <3> DEFINE q == A[k - 1]
               b == d[k]
    <3>1. /\ q \in Nat /\ q > 0 /\ b \in ChunkBlocks /\ Fits(b)
          /\ Lies(SerializeBlock(b), data, q)
          /\ \/ q + Len(SerializeBlock(b)) <= Len(data)
             \/ b.values = <<>>
             \/ b.values[Len(b.values)] # <<>>
      <4>1. Lies(SerializeBlock(d[k]), data, A[k - 1])
        BY <1>2, <1>6
      <4> QED BY <1>1, <1>7, <1>8, <4>1
    <3> HIDE DEF q, b
    <3>2. \A read : NextBlock(data, [at |-> q, read |-> read])
                      = [at |-> q + Len(SerializeBlock(b)), read |-> Append(read, b)]
      BY <3>1, NextBlockFacts
    <3> QED BY <3>2 DEF q, b
  <2>2. Append(SubSeq(d, 1, k - 1), d[k]) = SubSeq(d, 1, k)
    BY DEF n
  <2>3. A[k] = A[k - 1] + Len(SerializeBlock(d[k]))
    BY <1>2, <1>6
  <2>4. /\ E[k - 1] = [at |-> A[k - 1], read |-> SubSeq(d, 1, k - 1)]
        /\ E[k] = [at |-> A[k], read |-> SubSeq(d, 1, k)]
    BY <1>7
  <2> HIDE DEF E
  <2> QED BY <2>1, <2>2, <2>3, <2>4
<1>10. E[0] = [at |-> 2, read |-> <<>>] /\ E[n] = [at |-> A[n], read |-> d]
  <2>1. SubSeq(d, 1, 0) = <<>> /\ SubSeq(d, 1, n) = d
    BY DEF n
  <2>2. 0 \in 0..n /\ n \in 0..n
    BY <1>1
  <2> QED BY <1>6, <2>1, <2>2
<1>11. E = [k \in 0..n |-> E[k]]
  OBVIOUS
<1> HIDE DEF E
<1> DEFINE blocks == CHOOSE f : f = [k \in 0..data[1] |->
                       IF k = 0 THEN [at |-> 2, read |-> <<>>] ELSE NextBlock(data, f[k - 1])]
<1>12. DeserializeChunk(data) = blocks[data[1]]
  BY DEF DeserializeChunk
<1>13. E = [k \in 0..data[1] |->
               IF k = 0 THEN [at |-> 2, read |-> <<>>] ELSE NextBlock(data, E[k - 1])]
  <2>1. \A k \in 0..n : k # 0 => k \in 1..n
    BY <1>1
  <2> QED BY <1>4, <1>9, <1>10, <1>11, <2>1
<1>14. blocks = [k \in 0..data[1] |->
              IF k = 0 THEN [at |-> 2, read |-> <<>>] ELSE NextBlock(data, blocks[k - 1])]
  BY <1>13, Zenon
<1> HIDE DEF blocks
<1> DEFINE T == {k \in 0..n : blocks[k] = E[k]}
<1>15. 0 \in T
  BY <1>1, <1>4, <1>10, <1>14
<1>16. ASSUME NEW k \in 1..n, k - 1 \in T PROVE k \in T
  <2>1. k \in 0..n /\ k # 0
    BY <1>1
  <2>2. blocks[k] = NextBlock(data, blocks[k - 1])
    BY <1>4, <1>14, <2>1
  <2> QED BY <1>9, <1>16, <2>1, <2>2
<1> HIDE DEF T
<1>17. 0..n \subseteq T
  BY <1>1, <1>15, <1>16, BoundedInduction
<1>18. n \in T
  BY <1>1, <1>17
<1>19. A[n] = 1 + Len(SerializeChunk(d))
  <2>1. Len(FlattenSeq(seqs)) \in Nat
    BY <1>3
  <2> QED BY <1>3, <1>6, <2>1
<1> QED BY <1>4, <1>10, <1>12, <1>18, <1>19 DEF T

-----------------------------------------------------------------------------
(* Theorems. *)

(* The invariant holds of a region that has no file yet. *)
LEMMA InitInv ==
  Init => IndInv
<1> SUFFICES ASSUME Init PROVE IndInv
  OBVIOUS
<1> USE DEF Init
<1>1. NoEntry \in Entries /\ NoEntry.size = 0 /\ NoEntry.offset = 0
  BY ConstantsAssumption DEF NoEntry, Entries
<1>2. TypeOK
  <2>1. <<>> \in Seq(Cells) /\ got \in [Readers -> Seq(Cells)] /\ file \in Seq(Cells)
    OBVIOUS
  <2>2. /\ table \in [Chunks -> Entries] /\ chunkIndex \in [Chunks -> Entries]
        /\ rEntry \in [Readers -> Entries]
    BY <1>1
  <2>3. saves \in 0..MaxSaves /\ offset \in Nat
    BY ConstantsAssumption
  <2>4. /\ rPc \in [Readers -> {"idle", "read", "done"}]
        /\ rChunk \in [Readers -> Chunks \cup {NoChunk}]
        /\ mayRead \in [Readers -> SUBSET (Deltas \cup {NoDelta})]
        /\ saved \in [Chunks -> Deltas \cup {NoDelta}] /\ attempts \in [Chunks -> SUBSET Deltas]
    OBVIOUS
  <2> QED BY <2>1, <2>2, <2>3, <2>4 DEF TypeOK
<1>3. \A c \in Chunks : table[c] = NoEntry /\ chunkIndex[c] = NoEntry /\ NoDelta \in Contents(c)
  BY DEF Contents
<1>4. Saving /\ ReadersSafe /\ ReadsCurrent
  BY DEF Saving, ReadersSafe, ReadsCurrent
<1>5. SlotsApart /\ IndexSucceedsTable
  BY <1>1, <1>3 DEF SlotsApart, InFile, Apart, IndexSucceedsTable, Succeeds
<1>6. IndexStands /\ SurvivesCrash
  BY <1>1, <1>3 DEF IndexStands, SurvivesCrash, StandsFor
<1> QED BY <1>2, <1>4, <1>5, <1>6 DEF IndInv

(* Every step preserves the invariant. *)
LEMMA StepInv ==
  IndInv /\ [Next]_vars => IndInv'
<1> SUFFICES ASSUME IndInv, [Next]_vars PROVE IndInv'
  OBVIOUS
<1>1. CASE CreateFile \/ WriteHeader \/ WriteIndexTable
  BY <1>1, StartStep
<1>2. ASSUME NEW c \in Chunks, NEW d \in Deltas, SaveChunk(c, d) PROVE IndInv'
  BY <1>2, SaveChunkStep
<1>3. CASE WriteData
  BY <1>3, WriteDataStep
<1>4. CASE WriteTable
  BY <1>4, WriteTableStep
<1>5. CASE SaveSucceeds
  BY <1>5, SaveSucceedsStep
<1>6. CASE SaveFails
  BY <1>6, SaveFailsStep
<1>7. ASSUME NEW d \in Deltas, NEW k \in 0..(Len(Serialize(d)) - 1), d = delta, WriteDataFails(k)
      PROVE  IndInv'
  BY <1>7, WriteDataFailsStep
<1>8. ASSUME NEW r \in Readers, NEW c \in Chunks, GetChunk(r, c) PROVE IndInv'
  BY <1>8, GetChunkStep
<1>9. ASSUME NEW r \in Readers, ReadData(r) PROVE IndInv'
  BY <1>9, ReadDataStep
<1>10. ASSUME NEW r \in Readers, GetChunkReturns(r) PROVE IndInv'
  BY <1>10, GetChunkReturnsStep
<1>11. CASE Crash
  BY <1>11, CrashStep
<1>12. CASE UNCHANGED vars
  BY <1>12 DEF vars, saveVars, readVars, IndInv, TypeOK, Saving, Size, SlotsApart,
     IndexSucceedsTable, IndexStands, SurvivesCrash, Contents, ReadersSafe, ReadsCurrent
<1> QED BY <1>1, <1>2, <1>3, <1>4, <1>5, <1>6, <1>7, <1>8, <1>9, <1>10, <1>11, <1>12 DEF Next

(* The inductive invariant holds in every reachable state of a region file. *)
THEOREM Invariance == Spec => []IndInv
<1>1. Init => IndInv
  BY InitInv
<1>2. IndInv /\ [Next]_vars => IndInv'
  BY StepInv
<1> QED BY <1>1, <1>2, PTL DEF Spec

(* Entries, offsets and what is read have their types at every step of      *)
(* SaveChunk and GetChunk: in particular no read or write leaves the file.  *)
THEOREM TypeCorrect == Spec => []TypeOK
<1>1. IndInv => TypeOK
  BY DEF IndInv
<1> QED BY <1>1, Invariance, PTL

(* No two chunks share a cell of the file, in memory or in the table. *)
THEOREM SlotsNeverOverlap == Spec => []SlotsApart
<1>1. IndInv => SlotsApart
  BY DEF IndInv
<1> QED BY <1>1, Invariance, PTL

(* Wherever SaveChunk is stopped, the table refers to the last delta that    *)
(* was saved for each chunk, or to one that was to be saved after it.        *)
THEOREM SavedSurvives == Spec => []SurvivesCrash
<1>1. IndInv => SurvivesCrash
  BY DEF IndInv
<1> QED BY <1>1, Invariance, PTL

(* GetChunk returns data the chunk has had since the call began, though it   *)
(* releases the lock between the entry and the data.                         *)
THEOREM ReadersGetCurrent == Spec => []ReadsCurrent
<1>1. IndInv => ReadsCurrent
  BY DEF IndInv
<1> QED BY <1>1, Invariance, PTL

(* What a reader that is done has got begins with a delta of its chunk, so   *)
(* GetChunk returns that delta.                                              *)
THEOREM ReadersLoadWhatWasSaved == Spec => []LoadsWhatWasSaved
<1>1. IndInv => LoadsWhatWasSaved
  <2> SUFFICES ASSUME IndInv, ~oversized, NEW r \in Readers \ spoiled, rPc[r] = "done",
                      \A d \in mayRead[r] \ {NoDelta} : Storable(d)
               PROVE  /\ DeserializeChunk(got[r]).at # Failed
                      /\ DeserializeChunk(got[r]).read \in mayRead[r]
    BY DEF LoadsWhatWasSaved
  <2>1. TypeOK /\ ReadsCurrent
    BY DEF IndInv
  <2>2. PICK d \in mayRead[r] \ {NoDelta} :
          /\ Len(Serialize(d)) <= Len(got[r])
          /\ \A i \in 1..Len(Serialize(d)) : got[r][i] = Serialize(d)[i]
    BY <2>1 DEF ReadsCurrent
  <2>3. d \in Deltas /\ Len(got[r]) \in Nat
    BY <2>1 DEF TypeOK
  <2>4. d \in Seq(ChunkBlocks) /\ Storable(d) /\ Serialize(d) = SerializeChunk(d)
    BY <2>3, DeltasAssumption
  <2>5. Len(SerializeChunk(d)) \in Nat
    BY <2>3, <2>4, SizeFacts
  <2>6. Lies(SerializeChunk(d), got[r], 1)
    <3>1. 1 + Len(SerializeChunk(d)) - 1 <= Len(got[r])
      BY <2>2, <2>3, <2>4, <2>5
    <3>2. ASSUME NEW i \in 1..Len(SerializeChunk(d))
          PROVE  got[r][1 + i - 1] = SerializeChunk(d)[i]
      <4>1. 1 + i - 1 = i
        BY <2>5
      <4> QED BY <2>2, <2>4, <4>1
    <3> QED BY <3>1, <3>2 DEF Lies
  <2>7. DeserializeChunk(got[r]) = [at |-> 1 + Len(SerializeChunk(d)), read |-> d]
    BY <2>3, <2>4, <2>6, DeserializeInvertsSerialize
  <2> QED BY <2>2, <2>5, <2>7 DEF Failed
<1> QED BY <1>1, Invariance, PTL
-----------------------------------------------------------------------------
(***************************************************************************)
(* A region file implements RegionStore.  First what a slot is read as.    *)
(***************************************************************************)

StoreStep == [Store!Next]_(Store!vars)

(* A slot that holds a delta that can be stored is read as that delta. *)
LEMMA HoldsContent ==
  ASSUME NEW cells \in Seq(Cells), NEW e \in Entries, InFile(cells, e),
         NEW d \in Deltas, Storable(d), Holds(cells, e, d)
  PROVE  Content(cells, e) = d
<1>1. /\ Stored(cells, e) \in Seq(Cells) /\ Len(Stored(cells, e)) = e.size
      /\ \A i \in 1..e.size : Stored(cells, e)[i] = cells[e.offset + i - 1]
  BY StoredFacts
<1>2. d \in Seq(ChunkBlocks) /\ Serialize(d) = SerializeChunk(d)
  BY DeltasAssumption
<1>3. Len(SerializeChunk(d)) \in Nat /\ Len(SerializeChunk(d)) > 0
  BY <1>2, SizeFacts
<1>4. e.size \in Nat /\ Len(SerializeChunk(d)) <= e.size
  BY <1>2 DEF Holds, Entries
<1> DEFINE data == Stored(cells, e)
<1>5. Len(data) \in Nat
  BY <1>1, <1>4
<1>6. Lies(SerializeChunk(d), data, 1)
  <2>1. 1 + Len(SerializeChunk(d)) - 1 <= Len(data)
    BY <1>1, <1>3, <1>4
  <2>2. ASSUME NEW i \in 1..Len(SerializeChunk(d))
        PROVE  data[1 + i - 1] = SerializeChunk(d)[i]
    <3>1. 1 + i - 1 = i /\ i \in 1..e.size
      BY <1>3, <1>4
    <3> QED BY <1>1, <1>2, <3>1 DEF Holds
  <2> HIDE DEF data
  <2> QED BY <2>1, <2>2 DEF Lies
<1> HIDE DEF data
<1>7. DeserializeChunk(data) = [at |-> 1 + Len(SerializeChunk(d)), read |-> d]
  BY <1>2, <1>5, <1>6, DeserializeInvertsSerialize
<1> QED BY <1>3, <1>4, <1>7 DEF Content, data

(* What is read depends on the cells of the slot only. *)
LEMMA ContentKept ==
  ASSUME NEW old \in Seq(Cells), NEW cells \in Seq(Cells), NEW e \in Entries,
         InFile(old, e), InFile(cells, e),
         \A i \in 1..e.size : cells[e.offset + i - 1] = old[e.offset + i - 1]
  PROVE  Content(cells, e) = Content(old, e)
<1>1. /\ Stored(old, e) \in Seq(Cells) /\ Len(Stored(old, e)) = e.size
      /\ \A i \in 1..e.size : Stored(old, e)[i] = old[e.offset + i - 1]
  BY StoredFacts
<1>2. /\ Stored(cells, e) \in Seq(Cells) /\ Len(Stored(cells, e)) = e.size
      /\ \A i \in 1..e.size : Stored(cells, e)[i] = cells[e.offset + i - 1]
  BY StoredFacts
<1>3. \A i \in 1..e.size : Stored(cells, e)[i] = Stored(old, e)[i]
  BY <1>1, <1>2
<1>4. Stored(cells, e) = Stored(old, e)
  <2> DEFINE s == Stored(cells, e)
             t == Stored(old, e)
  <2>1. s \in Seq(Cells) /\ t \in Seq(Cells) /\ Len(s) = Len(t) /\ \A i \in 1..Len(s) : s[i] = t[i]
    BY <1>1, <1>2, <1>3
  <2> HIDE DEF s, t
  <2>2. s = t
    BY <2>1
  <2> QED BY <2>2 DEF s, t
<1> QED BY <1>4 DEF Content

(* A write to the slot of the save in progress leaves the contents of the  *)
(* entries apart from it.                                                  *)
LEMMA ContentApart ==
  ASSUME TypeOK, Saving, SlotsApart, pc = "data", Len(Serialize(delta)) < SizeMax,
         NEW n \in 0..Len(Serialize(delta)),
         file' = Written(offset, Serialize(delta), n),
         NEW e \in Entries, InFile(file, e), n = 0 \/ Apart(Slot, e)
  PROVE  Content(file', e) = Content(file, e)
<1>1. /\ delta \in Deltas /\ offset \in Nat /\ file \in Seq(Cells)
  BY DEF TypeOK
<1>2. Len(Serialize(delta)) \in Nat /\ Len(Serialize(delta)) > 0 /\ Size(delta) = Len(Serialize(delta))
  BY <1>1, SizeFacts
<1>3. /\ file' \in Seq(Cells)
      /\ \A f \in Entries : InFile(file, f) => InFile(file, f)'
      /\ \A i \in 1..Len(file) : i < offset \/ i >= offset + n => file'[i] = file[i]
  BY SlotWritten
<1>4. InFile(file', e)
  BY <1>3
<1>5. ASSUME NEW i \in 1..e.size
      PROVE  file'[e.offset + i - 1] = file[e.offset + i - 1]
  <2>1. /\ e.offset \in Nat /\ e.size \in Nat /\ e.offset > 0 /\ e.size > 0
        /\ e.offset + e.size <= Len(file) + 1
    BY DEF InFile, Entries
  <2>2. n = 0 \/ offset + Len(Serialize(delta)) <= e.offset \/ e.offset + e.size <= offset
    BY <1>1, <1>2, <2>1 DEF Apart, Slot
  <2>3. /\ e.offset + i - 1 \in 1..Len(file)
        /\ e.offset + i - 1 < offset \/ e.offset + i - 1 >= offset + n
    BY <1>1, <1>2, <2>1, <2>2, CellElsewhere
  <2> QED BY <1>3, <2>3
<1> QED BY <1>1, <1>3, <1>4, <1>5, ContentKept

(* What readers that are not under way leave behind. *)
IdleReaders == \A r \in Readers : rPc[r] = "idle" => r \notin spoiled /\ rChunk[r] = NoChunk

(* It stays so. *)
LEMMA IdleReadersStep ==
  ASSUME TypeOK, IdleReaders, [Next]_vars
  PROVE  IdleReaders'
<1>1. CASE UNCHANGED <<rPc, rChunk, spoiled>>
  BY <1>1 DEF IdleReaders
<1>2. ASSUME NEW k \in Nat, WriteDataFails(k) PROVE IdleReaders'
  <2>1. chunk \in Chunks /\ chunk # NoChunk
    BY <1>2, ConstantsAssumption DEF WriteDataFails, TypeOK
  <2>2. /\ UNCHANGED <<rPc, rChunk>>
        /\ spoiled' = spoiled \/ spoiled' = spoiled \cup {r \in Readers : rChunk[r] = chunk}
    BY <1>2 DEF WriteDataFails
  <2> QED BY <2>1, <2>2 DEF IdleReaders
<1>3. ASSUME NEW r \in Readers, NEW c \in Chunks, GetChunk(r, c) PROVE IdleReaders'
  <2>1. /\ rPc' = [rPc EXCEPT ![r] = "read"] /\ rChunk' = [rChunk EXCEPT ![r] = c]
        /\ spoiled' = spoiled \/ spoiled' = spoiled \cup {r}
    BY <1>3 DEF GetChunk
  <2> QED BY <2>1 DEF IdleReaders, TypeOK
<1>4. ASSUME NEW r \in Readers, ReadData(r) PROVE IdleReaders'
  <2>1. rPc' = [rPc EXCEPT ![r] = "done"] /\ UNCHANGED <<rChunk, spoiled>>
    BY <1>4 DEF ReadData
  <2> QED BY <2>1 DEF IdleReaders, TypeOK
<1>5. ASSUME NEW r \in Readers, GetChunkReturns(r) PROVE IdleReaders'
  <2>1. /\ rPc' = [rPc EXCEPT ![r] = "idle"] /\ rChunk' = [rChunk EXCEPT ![r] = NoChunk]
        /\ spoiled' = spoiled \ {r}
    BY <1>5 DEF GetChunkReturns
  <2> QED BY <2>1 DEF IdleReaders, TypeOK
<1>6. CASE Crash
  BY <1>6 DEF Crash, IdleReaders
<1>7. CASE CreateFile \/ WriteHeader \/ WriteIndexTable
  BY <1>1, <1>7 DEF CreateFile, WriteHeader, WriteIndexTable, FileUnchanged, readVars
<1>8. ASSUME NEW c \in Chunks, NEW d \in Deltas, SaveChunk(c, d) PROVE IdleReaders'
  BY <1>1, <1>8 DEF SaveChunk
<1>9. CASE WriteData \/ WriteTable \/ SaveSucceeds \/ SaveFails
  BY <1>1, <1>9 DEF WriteData, WriteTable, SaveSucceeds, SaveFails, readVars
<1>10. CASE UNCHANGED vars
  BY <1>1, <1>10 DEF vars, readVars
<1>11. ASSUME NEW d \in Deltas, NEW k \in 0..(Len(Serialize(d)) - 1), WriteDataFails(k)
       PROVE  IdleReaders'
  <2>1. k \in Nat
    OBVIOUS
  <2> QED BY <1>2, <1>11, <2>1
<1> QED BY <1>3, <1>4, <1>5, <1>6, <1>7, <1>8, <1>9, <1>10, <1>11 DEF Next

-----------------------------------------------------------------------------
(* What each step of the region file is for the store. *)

(* What is saved and read is a chunk of the region. *)
LEMMA ViewTypes ==
  ASSUME TypeOK
  PROVE  /\ Loose \subseteq Chunks /\ Blind \subseteq Readers
         /\ pc # "idle" => /\ Target = chunk /\ Target # NoChunk /\ New = delta
                           /\ chunk \in Chunks /\ delta \in Deltas
         /\ pc = "idle" => Target = NoChunk /\ New = NoDelta
         /\ \A r \in Readers : rPc[r] # "idle" => Reading[r] = rChunk[r] /\ rChunk[r] \in Chunks
         /\ \A r \in Readers : rPc[r] = "idle" => Reading[r] = NoChunk
BY ConstantsAssumption DEF TypeOK, Loose, Blind, Target, New, Reading

(* A step that the store does not see. *)
LEMMA Unseen ==
  ASSUME UNCHANGED <<Mem, Disk, saved, Target, New, Reading, Found, Loose, Blind>>
  PROVE  StoreStep
BY DEF StoreStep, Store!vars, Store!chunkVars, Store!readVars

(* What readers show when only entries, the table and attempts change. *)
LEMMA ReadersKept ==
  ASSUME TypeOK, UNCHANGED <<file, rPc, rChunk, rEntry, got, mayRead, spoiled, oversized>>
  PROVE  UNCHANGED <<Reading, Found, Blind>>
<1>1. \A r \in Readers : Misled(r)' <=> Misled(r)
  BY DEF Misled
<1> QED BY <1>1 DEF Reading, Found, Blind

(* An entry with data of a chunk that is not lost is read as one of the    *)
(* deltas the chunk may be found with.                                     *)
LEMMA StandsContent ==
  ASSUME TypeOK, NEW e \in Entries, InFile(file, e), e.size > 0, NEW D,
         D \subseteq Deltas \cup {NoDelta}, StandsFor(file, e, D), D \cap Unstorable = {}
  PROVE  Content(file, e) \in D \ {NoDelta}
<1>1. PICK d \in D \ {NoDelta} : Holds(file, e, d)
  BY DEF StandsFor
<1>2. d \in Deltas /\ Storable(d)
  BY DEF Unstorable
<1>3. file \in Seq(Cells)
  BY DEF TypeOK
<1> QED BY <1>1, <1>2, <1>3, HoldsContent

(* Creating the file, and a stop of the process. *)
LEMMA StartRefines ==
  ASSUME CreateFile \/ WriteHeader \/ WriteIndexTable \/ UNCHANGED vars
  PROVE  StoreStep
<1>1. UNCHANGED <<file, table, chunkIndex, saveVars, readVars, saved, attempts, torn, oversized>>
  BY DEF CreateFile, WriteHeader, WriteIndexTable, FileUnchanged, vars
<1>2. /\ \A c \in Chunks : Lost(c)' <=> Lost(c)
      /\ \A r \in Readers : Misled(r)' <=> Misled(r)
  BY <1>1 DEF Lost, Misled, Contents, saveVars, readVars
<1>3. UNCHANGED <<Mem, Disk, saved, Target, New, Reading, Found, Loose, Blind>>
  BY <1>1, <1>2 DEF Mem, Disk, Target, New, Reading, Found, Loose, Blind, saveVars, readVars
<1> QED BY <1>3, Unseen

LEMMA CrashRefines ==
  ASSUME TypeOK, Crash
  PROVE  StoreStep
<1>1. /\ UNCHANGED <<file, table, saved, attempts, torn, oversized>>
      /\ chunkIndex' = [c \in Chunks |-> IF table[c].size > 0 THEN table[c] ELSE NoEntry]
      /\ pc' = "idle" /\ rPc' = [r \in Readers |-> "idle"]
  BY DEF Crash, ReturnSave
<1>2. \A c \in Chunks : Lost(c)' <=> Lost(c)
  BY <1>1 DEF Lost, Contents
<1>3. \A c \in Chunks : Content(file', chunkIndex'[c]) = Content(file, table[c])
  <2> TAKE c \in Chunks
  <2>1. table[c].size \in Nat
    BY ConstantsAssumption DEF TypeOK, Entries
  <2>2. CASE table[c].size > 0
    BY <1>1, <2>2
  <2>3. CASE table[c].size = 0
    BY <1>1, <2>3 DEF Content, NoEntry
  <2> QED BY <2>1, <2>2, <2>3
<1>4. Mem' = Disk /\ Disk' = Disk /\ Loose' = Loose
  BY <1>1, <1>2, <1>3 DEF Mem, Disk, Loose
<1>5. Target' = NoChunk /\ New' = NoDelta
  BY <1>1 DEF Target, New
<1>6. /\ Reading' = [r \in Readers |-> NoChunk] /\ Found' = [r \in Readers |-> NoDelta]
      /\ Blind' = {}
  BY <1>1 DEF Reading, Found, Blind, Misled
<1>7. Store!Reopen
  BY <1>1, <1>4, <1>5, <1>6 DEF Store!Reopen, Store!Return
<1> QED BY <1>7 DEF StoreStep, Store!Next

(* A call of SaveChunk: a delta that cannot be stored puts the chunk, and   *)
(* those who are about to read it, at risk.                                 *)
LEMMA SaveChunkRefines ==
  ASSUME TypeOK, NEW c \in Chunks, NEW d \in Deltas, SaveChunk(c, d)
  PROVE  StoreStep
<1>1. /\ UNCHANGED <<file, table, chunkIndex, rPc, rChunk, rEntry, got, spoiled, saved, torn,
                     oversized>>
      /\ pc = "idle" /\ pc' = "data" /\ chunk' = c /\ delta' = d
      /\ attempts' = [attempts EXCEPT ![c] = @ \cup {d}]
      /\ mayRead' = [r \in Readers |-> IF rChunk[r] = c /\ rPc[r] = "read"
                                       THEN mayRead[r] \cup {d} ELSE mayRead[r]]
  BY DEF SaveChunk, MutexFree
<1> DEFINE S == IF Storable(d) THEN {} ELSE {c}
           R == {r \in Readers : ~Storable(d) /\ rChunk[r] = c /\ rPc[r] = "read"}
<1>2. \A b \in Chunks : Lost(b)' <=> Lost(b) \/ b \in S
  <2>1. \A b \in Chunks : Contents(b)' = IF b = c THEN Contents(b) \cup {d} ELSE Contents(b)
    BY <1>1 DEF Contents, TypeOK
  <2> QED BY <1>1, <2>1 DEF Lost, Unstorable
<1>3. \A r \in Readers : Misled(r)' <=> Misled(r) \/ r \in R
  BY <1>1 DEF Misled, Unstorable
<1>4. S \in {{}, {c}} /\ R \in SUBSET {r \in Readers : Reading[r] \in S}
  BY DEF Reading
<1> HIDE DEF S, R
<1>5. /\ Loose' = Loose \cup S
      /\ Mem' = [b \in Chunks |-> IF b \in S THEN NoDelta ELSE Mem[b]]
      /\ Disk' = [b \in Chunks |-> IF b \in S THEN NoDelta ELSE Disk[b]]
  <2>1. Loose' = Loose \cup S
    BY <1>2, <1>4 DEF Loose
  <2>2. Mem' = [b \in Chunks |-> IF b \in S THEN NoDelta ELSE Mem[b]]
    BY <1>1, <1>2 DEF Mem
  <2>3. Disk' = [b \in Chunks |-> IF b \in S THEN NoDelta ELSE Disk[b]]
    BY <1>1, <1>2 DEF Disk
  <2> QED BY <2>1, <2>2, <2>3
<1>6. /\ Blind' = Blind \cup R /\ Reading' = Reading
      /\ Found' = [r \in Readers |-> IF r \in R THEN NoDelta ELSE Found[r]]
  <2>1. Blind' = Blind \cup R
    BY <1>3, <1>4 DEF Blind
  <2>2. Found' = [r \in Readers |-> IF r \in R THEN NoDelta ELSE Found[r]]
    BY <1>1, <1>3 DEF Found
  <2> QED BY <1>1, <2>1, <2>2 DEF Reading
<1>7. Store!Lose(S)
  BY <1>4, <1>5, <1>6 DEF Store!Lose
<1>8. Target = NoChunk /\ Target' = c /\ New' = d
  BY <1>1 DEF Target, New
<1>9. Store!Save(c, d)
  BY <1>1, <1>4, <1>7, <1>8 DEF Store!Save, Store!Idle
<1> QED BY <1>9 DEF StoreStep, Store!Next

(* The entry is in the file: unless something else speaks against it, the  *)
(* chunk's delta is on disk.                                               *)
LEMMA WriteTableRefines ==
  ASSUME IndInv, WriteTable
  PROVE  StoreStep
<1>1. /\ UNCHANGED <<file, chunkIndex, chunk, delta, rPc, rChunk, rEntry, got, mayRead, spoiled,
                     saved, attempts, oversized>>
      /\ pc = "table" /\ pc' = "sync" /\ torn' = torn \ {chunk}
      /\ table' = [table EXCEPT ![chunk] = chunkIndex[chunk]]
  BY DEF WriteTable, readVars
<1>2. TypeOK /\ Saving /\ IndexStands
  BY DEF IndInv
<1>3. UNCHANGED <<Reading, Found, Blind>>
  BY <1>1, <1>2, ReadersKept
<1>4. /\ Target = chunk /\ Target # NoChunk /\ New = delta /\ Target' = Target /\ New' = New
      /\ chunk \in Chunks /\ delta \in Deltas
  BY <1>1, <1>2, ViewTypes DEF Target, New
<1>c. PICK k \in Chunks : k = chunk
  BY <1>4
<1>5. \A c \in Chunks : /\ Lost(c)' => Lost(c)
                        /\ c # k => (Lost(c)' <=> Lost(c)) /\ table'[c] = table[c]
  BY <1>1, <1>2, <1>c DEF Lost, Contents, TypeOK
<1>6. CASE Lost(k)'
  <2>1. Loose' = Loose
    BY <1>5, <1>6 DEF Loose
  <2>2. Mem' = Mem /\ Disk' = Disk
    BY <1>1, <1>5, <1>6 DEF Mem, Disk
  <2> QED BY <1>1, <1>3, <1>4, <2>1, <2>2, Unseen
<1>7. CASE ~Lost(k)'
  <2>1. Content(file, chunkIndex[k]) = delta
    <3>1. ~oversized /\ Holds(file, chunkIndex[chunk], delta) /\ Storable(delta)
      BY <1>1, <1>2, <1>4, <1>7, <1>c DEF Lost, Contents, Saving, IndexStands, Unstorable
    <3>2. file \in Seq(Cells) /\ chunkIndex[chunk] \in Entries /\ InFile(file, chunkIndex[chunk])
      BY <1>4 DEF IndInv, TypeOK, SlotsApart
    <3> QED BY <1>4, <1>c, <3>1, <3>2, HoldsContent
  <2>2. Loose' = Loose \ {k}
    BY <1>5, <1>7 DEF Loose
  <2>3. Mem' = [Mem EXCEPT ![k] = delta]
    BY <1>1, <1>5, <1>7, <2>1 DEF Mem
  <2>4. Disk' = [Disk EXCEPT ![k] = delta]
    <3>1. table'[k] = chunkIndex[k]
      BY <1>1, <1>2, <1>c DEF TypeOK
    <3>2. \A c \in Chunks : (IF Lost(c)' THEN NoDelta ELSE Content(file', table'[c]))
                              = IF c = k THEN delta ELSE Disk[c]
      <4>1. ASSUME NEW c \in Chunks, c # k
            PROVE  (IF Lost(c)' THEN NoDelta ELSE Content(file', table'[c])) = Disk[c]
        BY <1>1, <1>5, <4>1 DEF Disk
      <4>2. (IF Lost(k)' THEN NoDelta ELSE Content(file', table'[k])) = delta
        BY <1>1, <1>7, <2>1, <3>1
      <4> QED BY <4>1, <4>2
    <3> QED BY <3>2 DEF Disk
  <2>5. Store!Commit
    BY <1>1, <1>3, <1>4, <1>c, <2>2, <2>3, <2>4
       DEF Store!Commit, Store!Settle, Store!Idle, Store!readVars
  <2> QED BY <2>5 DEF StoreStep, Store!Next
<1> QED BY <1>6, <1>7

(* The delta is the only one the chunk may be found with.                  *)
LEMMA SaveSucceedsRefines ==
  ASSUME IndInv, SaveSucceeds
  PROVE  StoreStep
<1>1. /\ UNCHANGED <<file, table, chunkIndex, rPc, rChunk, rEntry, got, mayRead, spoiled,
                     torn, oversized>>
      /\ pc = "sync" /\ pc' = "idle"
      /\ saved' = [saved EXCEPT ![chunk] = delta]
      /\ attempts' = [attempts EXCEPT ![chunk] = {}]
  BY DEF SaveSucceeds, readVars, ReturnSave
<1>2. TypeOK /\ Saving /\ IndexStands
  BY DEF IndInv
<1>3. UNCHANGED <<Reading, Found, Blind>>
  BY <1>1, <1>2, ReadersKept
<1>4. /\ Target = chunk /\ Target # NoChunk /\ New = delta /\ chunk \in Chunks /\ delta \in Deltas
      /\ Target' = NoChunk /\ New' = NoDelta
  BY <1>1, <1>2, ViewTypes DEF Target, New
<1>c. PICK k \in Chunks : k = chunk
  BY <1>4
<1>5. \A c \in Chunks : /\ Lost(c)' => Lost(c)
                        /\ c # k => (Lost(c)' <=> Lost(c))
  <2>1. ASSUME NEW c \in Chunks, c # k PROVE Lost(c)' <=> Lost(c)
    BY <1>1, <1>2, <1>c, <2>1 DEF Lost, Contents, TypeOK
  <2>2. Contents(k)' = {delta} /\ delta \in Contents(k)
    BY <1>1, <1>2, <1>4, <1>c DEF Contents, TypeOK, Saving
  <2>3. Lost(k)' => Lost(k)
    BY <1>1, <2>2 DEF Lost
  <2> QED BY <2>1, <2>3
<1>6. CASE Lost(k)'
  <2>1. Loose' = Loose /\ k \in Loose
    BY <1>5, <1>6 DEF Loose
  <2>2. Mem' = Mem /\ Disk' = Disk
    BY <1>1, <1>5, <1>6 DEF Mem, Disk
  <2>3. Store!Succeed
    BY <1>1, <1>3, <1>4, <1>c, <2>1, <2>2
       DEF Store!Succeed, Store!Return, Store!Idle, Store!chunkVars, Store!readVars
  <2> QED BY <2>3 DEF StoreStep, Store!Next
<1>7. CASE ~Lost(k)'
  <2>1. Content(file, chunkIndex[k]) = delta /\ table[k] = chunkIndex[k]
    <3>1. Storable(delta) /\ ~oversized
      BY <1>1, <1>2, <1>4, <1>7, <1>c DEF Lost, Contents, TypeOK, Unstorable
    <3>2. Holds(file, chunkIndex[chunk], delta) /\ table[k] = chunkIndex[k]
      BY <1>1, <1>2, <1>c, <3>1 DEF IndexStands, Saving
    <3>3. file \in Seq(Cells) /\ chunkIndex[chunk] \in Entries /\ InFile(file, chunkIndex[chunk])
      BY <1>c DEF IndInv, TypeOK, SlotsApart
    <3> QED BY <1>4, <1>c, <3>1, <3>2, <3>3, HoldsContent
  <2>2. Loose' = Loose \ {k}
    BY <1>5, <1>7 DEF Loose
  <2>3. Mem' = [Mem EXCEPT ![k] = delta] /\ Disk' = [Disk EXCEPT ![k] = delta]
    BY <1>1, <1>5, <1>7, <2>1 DEF Mem, Disk
  <2>4. Store!Succeed
    BY <1>1, <1>3, <1>4, <1>c, <2>2, <2>3
       DEF Store!Succeed, Store!Settle, Store!Return, Store!Idle, Store!readVars
  <2> QED BY <2>4 DEF StoreStep, Store!Next
<1> QED BY <1>6, <1>7

(* A step that loses nothing, as a loss of nothing. *)
LEMMA LoseNothing ==
  ASSUME UNCHANGED <<Mem, Disk, Loose, Reading, Found, Blind>>
  PROVE  Store!Lose({})
<1>1. Mem = [c \in Chunks |-> Mem[c]] /\ Disk = [c \in Chunks |-> Disk[c]]
  BY DEF Mem, Disk
<1>2. Found = [r \in Readers |-> Found[r]]
  BY DEF Found
<1>3. /\ Loose' = Loose \cup {}
      /\ Mem' = [c \in Chunks |-> IF c \in {} THEN NoDelta ELSE Mem[c]]
      /\ Disk' = [c \in Chunks |-> IF c \in {} THEN NoDelta ELSE Disk[c]]
  BY <1>1
<1>4. \E R \in SUBSET {r \in Readers : Reading[r] \in {}} :
        /\ Blind' = Blind \cup R
        /\ Found' = [r \in Readers |-> IF r \in R THEN NoDelta ELSE Found[r]]
  <2>1. /\ Blind' = Blind \cup {}
        /\ Found' = [r \in Readers |-> IF r \in {} THEN NoDelta ELSE Found[r]]
    BY <1>2
  <2>2. {} \in SUBSET {r \in Readers : Reading[r] \in {}}
    OBVIOUS
  <2> QED BY <2>1, <2>2
<1> QED BY <1>3, <1>4 DEF Store!Lose

(* A SaveChunk that fails after its data is written leaves all as it is. *)
LEMMA SaveFailsRefines ==
  ASSUME TypeOK, SaveFails
  PROVE  StoreStep
<1>1. /\ UNCHANGED <<file, table, chunkIndex, rPc, rChunk, rEntry, got, mayRead, spoiled,
                     saved, attempts, torn, oversized>>
      /\ pc # "idle" /\ pc' = "idle"
  BY DEF SaveFails, readVars, ReturnSave
<1>2. UNCHANGED <<Reading, Found, Blind>>
  BY <1>1, ReadersKept
<1>3. \A c \in Chunks : Lost(c)' <=> Lost(c)
  BY <1>1 DEF Lost, Contents
<1>4. UNCHANGED <<Mem, Disk, Loose>>
  BY <1>1, <1>3 DEF Mem, Disk, Loose
<1>5. Target # NoChunk /\ Target' = NoChunk /\ New' = NoDelta
  BY <1>1, ViewTypes DEF Target, New
<1>6. Store!Fail
  BY <1>1, <1>2, <1>4, <1>5, LoseNothing DEF Store!Fail, Store!Return, Store!Idle
<1> QED BY <1>6 DEF StoreStep, Store!Next

(* Steps of a reader change nothing but what readers show. *)
LEMMA ReadView ==
  ASSUME ReadUnchanged
  PROVE  UNCHANGED <<Mem, Disk, Loose, saved, Target, New>>
<1>1. UNCHANGED <<file, table, chunkIndex, pc, chunk, delta, saved, attempts, torn, oversized>>
  BY DEF ReadUnchanged, saveVars
<1>2. \A c \in Chunks : Lost(c)' <=> Lost(c)
  BY <1>1 DEF Lost, Contents
<1> QED BY <1>1, <1>2 DEF Mem, Disk, Loose, Target, New

(* A chunk that is found and not lost has a content, and a reader is misled *)
(* from the start just when its chunk is lost.                              *)
LEMMA GetChunkRefines ==
  ASSUME IndInv, IdleReaders, NEW r \in Readers, NEW c \in Chunks, GetChunk(r, c)
  PROVE  StoreStep
<1>1. /\ pc = "idle" /\ rPc[r] = "idle" /\ chunkIndex[c].size > 0
      /\ rPc' = [rPc EXCEPT ![r] = "read"] /\ rChunk' = [rChunk EXCEPT ![r] = c]
      /\ rEntry' = [rEntry EXCEPT ![r] = chunkIndex[c]]
      /\ mayRead' = [mayRead EXCEPT ![r] = Contents(c)]
      /\ spoiled' = IF c \in torn THEN spoiled \cup {r} ELSE spoiled
      /\ UNCHANGED <<got, file, chunkIndex, oversized, attempts, saved, torn>>
      /\ UNCHANGED <<Mem, Disk, Loose, saved, Target, New>>
  BY ReadView DEF GetChunk, MutexFree, ReadUnchanged
<1>2. TypeOK /\ IndexStands
  BY DEF IndInv
<1>3. Target = NoChunk /\ Reading[r] = NoChunk
  BY <1>1, <1>2, ViewTypes
<1>4. \A q \in Readers :
        /\ rPc'[q] = IF q = r THEN "read" ELSE rPc[q]
        /\ rChunk'[q] = IF q = r THEN c ELSE rChunk[q]
        /\ rEntry'[q] = IF q = r THEN chunkIndex[c] ELSE rEntry[q]
        /\ mayRead'[q] = IF q = r THEN Contents(c) ELSE mayRead[q]
        /\ q # r => (q \in spoiled' <=> q \in spoiled)
        /\ q = r => (q \in spoiled' <=> c \in torn)
  BY <1>1, <1>2 DEF TypeOK, IdleReaders
<1>5. \A q \in Readers : Misled(q)' <=> IF q = r THEN Lost(c) ELSE Misled(q)
  <2>1. ASSUME NEW q \in Readers, q # r PROVE Misled(q)' <=> Misled(q)
    BY <1>1, <1>4, <2>1 DEF Misled, Unstorable
  <2>2. Misled(r)' <=> Lost(c)
    BY <1>1, <1>4 DEF Misled, Lost, Unstorable
  <2> QED BY <2>1, <2>2
<1>6. ~Misled(r)
  BY <1>1 DEF Misled
<1>7. Mem[c] # NoDelta \/ c \in Loose
  <2> SUFFICES ASSUME ~Lost(c) PROVE Mem[c] # NoDelta
    BY DEF Loose
  <2>1. chunkIndex[c] \in Entries /\ InFile(file, chunkIndex[c])
    BY DEF IndInv, TypeOK, SlotsApart
  <2>2. StandsFor(file, chunkIndex[c], Contents(c)) /\ Contents(c) \cap Unstorable = {}
    BY <1>2 DEF Lost, IndexStands
  <2>3. Contents(c) \subseteq Deltas \cup {NoDelta}
    BY <1>2 DEF Contents, TypeOK
  <2>4. Content(file, chunkIndex[c]) # NoDelta
    BY <1>1, <1>2, <2>1, <2>2, <2>3, StandsContent
  <2> QED BY <2>4 DEF Mem
<1>8. Reading' = [Reading EXCEPT ![r] = c]
  BY <1>4 DEF Reading
<1>9. Blind' = IF c \in Loose THEN Blind \cup {r} ELSE Blind
  BY <1>5, <1>6 DEF Blind, Loose
<1>10. Found' = [Found EXCEPT ![r] = Mem[c]]
  <2>1. ASSUME NEW q \in Readers, q # r PROVE Found'[q] = Found[q]
    BY <1>1, <1>4, <1>5, <2>1 DEF Found
  <2>2. Found'[r] = Mem[c]
    BY <1>1, <1>4, <1>5 DEF Found, Mem
  <2> QED BY <2>1, <2>2 DEF Found
<1>11. Store!Lookup(r, c)
  BY <1>1, <1>3, <1>7, <1>8, <1>9, <1>10 DEF Store!Lookup, Store!Idle, Store!chunkVars
<1> QED BY <1>11 DEF StoreStep, Store!Next

(* Reading finds what the slot of the entry still has. *)
LEMMA ReadDataRefines ==
  ASSUME IndInv, NEW r \in Readers, ReadData(r)
  PROVE  StoreStep
<1>1. /\ rPc[r] = "read" /\ rPc' = [rPc EXCEPT ![r] = "done"]
      /\ got' = [got EXCEPT ![r] = Stored(file, rEntry[r])]
      /\ UNCHANGED <<rChunk, rEntry, mayRead, spoiled, file, oversized>>
      /\ UNCHANGED <<Mem, Disk, Loose, saved, Target, New>>
  BY ReadView DEF ReadData, ReadUnchanged
<1>2. TypeOK /\ ReadersSafe
  BY DEF IndInv
<1>3. \A q \in Readers : /\ rPc'[q] = IF q = r THEN "done" ELSE rPc[q]
                         /\ got'[q] = IF q = r THEN Stored(file, rEntry[r]) ELSE got[q]
  BY <1>1, <1>2 DEF TypeOK
<1>4. \A q \in Readers : Misled(q)' <=> Misled(q)
  BY <1>1, <1>3 DEF Misled
<1>5. ~Misled(r) => rEntry[r].size # 0
  <2> SUFFICES ASSUME ~Misled(r) PROVE rEntry[r].size # 0
    OBVIOUS
  <2>1. PICK d \in mayRead[r] \ {NoDelta} : Holds(file, rEntry[r], d)
    BY <1>1, <1>2 DEF Misled, ReadersSafe
  <2>2. d \in Deltas
    BY <1>2 DEF TypeOK
  <2> QED BY <2>1, <2>2, SizeFacts DEF Holds
<1>6. Found' = Found
  <2>1. ASSUME NEW q \in Readers, q # r PROVE Found'[q] = Found[q]
    BY <1>1, <1>3, <1>4, <2>1 DEF Found
  <2>2. Found'[r] = Found[r]
    BY <1>1, <1>3, <1>4, <1>5 DEF Found, Content
  <2> QED BY <2>1, <2>2 DEF Found
<1>7. Reading' = Reading /\ Blind' = Blind
  BY <1>1, <1>3, <1>4 DEF Reading, Blind
<1> QED BY <1>1, <1>6, <1>7, Unseen

(* A reader that is done. *)
LEMMA GetChunkReturnsRefines ==
  ASSUME TypeOK, NEW r \in Readers, GetChunkReturns(r)
  PROVE  StoreStep
<1>1. /\ UNCHANGED <<file, oversized>>
      /\ UNCHANGED <<Mem, Disk, Loose, saved, Target, New>>
      /\ \A q \in Readers : /\ q = r => rPc'[q] = "idle"
                            /\ q # r => /\ rPc'[q] = rPc[q] /\ rChunk'[q] = rChunk[q]
                                        /\ rEntry'[q] = rEntry[q] /\ got'[q] = got[q]
                                        /\ mayRead'[q] = mayRead[q]
                                        /\ (q \in spoiled' <=> q \in spoiled)
  BY ReadView DEF GetChunkReturns, ReadUnchanged, TypeOK
<1>2. \A q \in Readers : Misled(q)' <=> q # r /\ Misled(q)
  BY <1>1 DEF Misled, Unstorable
<1>3. Reading' = [Reading EXCEPT ![r] = NoChunk]
  BY <1>1 DEF Reading
<1>4. Blind' = Blind \ {r}
  BY <1>2 DEF Blind
<1>5. Found' = [Found EXCEPT ![r] = NoDelta]
  BY <1>1, <1>2 DEF Found
<1>6. Store!Answer(r)
  BY <1>1, <1>3, <1>4, <1>5 DEF Store!Answer, Store!chunkVars
<1> QED BY <1>6 DEF StoreStep, Store!Next

(* After an oversized delta nothing is promised any more. *)
LEMMA OversizedLoses ==
  ASSUME TypeOK, oversized', UNCHANGED <<rPc, rChunk>>
  PROVE  Store!Lose(Chunks)
<1> DEFINE R == {r \in Readers : rPc[r] # "idle"}
<1>1. /\ \A c \in Chunks : Lost(c)'
      /\ \A r \in Readers : Misled(r)' <=> r \in R
      /\ \A r \in Readers : Misled(r) => r \in R
  BY DEF Lost, Misled
<1>2. /\ Loose' = Loose \cup Chunks
      /\ Mem' = [c \in Chunks |-> IF c \in Chunks THEN NoDelta ELSE Mem[c]]
      /\ Disk' = [c \in Chunks |-> IF c \in Chunks THEN NoDelta ELSE Disk[c]]
  BY <1>1 DEF Loose, Mem, Disk
<1>3. R \in SUBSET {r \in Readers : Reading[r] \in Chunks}
  BY ViewTypes
<1>4. Blind' = Blind \cup R
  BY <1>1 DEF Blind
<1>5. Found' = [r \in Readers |-> IF r \in R THEN NoDelta ELSE Found[r]]
  BY <1>1 DEF Found
<1>6. Reading' = Reading
  BY DEF Reading
<1> HIDE DEF R
<1> QED BY <1>2, <1>3, <1>4, <1>5, <1>6 DEF Store!Lose

(* What a write of n cells to the slot of the save leaves as it was: all   *)
(* that belongs to other chunks, and to this one what is apart from it.    *)
LEMMA SlotView ==
  ASSUME IndInv, pc = "data", ~oversized, Len(Serialize(delta)) < SizeMax,
         NEW n \in 0..Len(Serialize(delta)), file' = Written(offset, Serialize(delta), n)
  PROVE  /\ file' \in Seq(Cells)
         /\ \A c \in Chunks : c # chunk \/ n = 0 \/ offset = Len(file) + 1 =>
              /\ Content(file', chunkIndex[c]) = Content(file, chunkIndex[c])
              /\ Content(file', table[c]) = Content(file, table[c])
         /\ Apart(Slot, table[chunk]) =>
              Content(file', table[chunk]) = Content(file, table[chunk])
         /\ \A r \in Readers : rPc[r] = "read" /\ ~Misled(r)
              /\ (rChunk[r] # chunk \/ n = 0 \/ offset = Len(file) + 1 \/ Apart(Slot, rEntry[r])) =>
                   Content(file', rEntry[r]) = Content(file, rEntry[r])
<1>1. TypeOK /\ Saving /\ SlotsApart /\ ReadersSafe
  BY DEF IndInv
<1>2. chunk \in Chunks /\ delta \in Deltas
  BY <1>1 DEF TypeOK
<1>3. file' \in Seq(Cells)
  BY <1>1, SlotWritten
<1>4. \A e \in Entries : InFile(file, e) /\ (n = 0 \/ Apart(Slot, e)) =>
        Content(file', e) = Content(file, e)
  BY <1>1, ContentApart
<1>5. /\ \A c \in Chunks \ {chunk} : Apart(Slot, chunkIndex[c]) /\ Apart(Slot, table[c])
      /\ \A r \in Readers \ spoiled :
           rPc[r] = "read" /\ rChunk[r] # chunk => Apart(Slot, rEntry[r])
      /\ offset = Len(file) + 1 => \A e \in Entries : InFile(file, e) => Apart(Slot, e)
  BY SlotApart
<1>6. \A c \in Chunks : /\ chunkIndex[c] \in Entries /\ InFile(file, chunkIndex[c])
                        /\ table[c] \in Entries /\ InFile(file, table[c])
  BY <1>1 DEF TypeOK, SlotsApart
<1>7. \A r \in Readers : rPc[r] = "read" => rEntry[r] \in Entries /\ InFile(file, rEntry[r])
  BY <1>1 DEF TypeOK, ReadersSafe
<1>8. \A r \in Readers : rPc[r] = "read" /\ ~Misled(r) => r \notin spoiled
  BY DEF Misled
<1>9. \A c \in Chunks : c # chunk \/ n = 0 \/ offset = Len(file) + 1 =>
        /\ Content(file', chunkIndex[c]) = Content(file, chunkIndex[c])
        /\ Content(file', table[c]) = Content(file, table[c])
  BY <1>4, <1>5, <1>6
<1>10. Apart(Slot, table[chunk]) => Content(file', table[chunk]) = Content(file, table[chunk])
  BY <1>2, <1>4, <1>6
<1>11. ASSUME NEW r \in Readers, rPc[r] = "read", ~Misled(r),
              rChunk[r] # chunk \/ n = 0 \/ offset = Len(file) + 1 \/ Apart(Slot, rEntry[r])
       PROVE  Content(file', rEntry[r]) = Content(file, rEntry[r])
  <2>1. n = 0 \/ Apart(Slot, rEntry[r])
    BY <1>5, <1>7, <1>8, <1>11
  <2> QED BY <1>4, <1>7, <1>11, <2>1
<1> QED BY <1>3, <1>9, <1>10, <1>11

(* All of the data: the delta is what GetChunk returns from now on, on disk *)
(* too where it was written in place.                                       *)
LEMMA WriteDataRefines ==
  ASSUME IndInv, IndInv', WriteData
  PROVE  StoreStep
<1> DEFINE n == Len(Serialize(delta))
<1>1. /\ UNCHANGED <<table, chunk, delta, offset, rPc, rChunk, rEntry, got, mayRead,
                     spoiled, saved, attempts, torn>>
      /\ pc = "data" /\ pc' = "table"
      /\ file' = Written(offset, Serialize(delta), n)
      /\ chunkIndex' = [chunkIndex EXCEPT ![chunk] = Slot]
      /\ oversized' = (oversized \/ n >= SizeMax)
  BY DEF WriteData, readVars, Slot
<1>2. TypeOK /\ TypeOK' /\ Saving /\ SlotsApart'
  BY DEF IndInv
<1>3. /\ Target = chunk /\ Target # NoChunk /\ New = delta /\ Target' = Target /\ New' = New
      /\ chunk \in Chunks /\ delta \in Deltas
  BY <1>1, <1>2, ViewTypes DEF Target, New
<1>4. n \in Nat
  BY <1>3, SizeFacts
<1>5. CASE oversized'
  <2>1. Store!Lose(Chunks)
    BY <1>1, <1>2, <1>5, OversizedLoses
  <2>2. Store!Overflow
    BY <1>1, <1>3, <2>1 DEF Store!Overflow, Store!Idle
  <2> QED BY <2>2 DEF StoreStep, Store!Next
<1>6. CASE ~oversized'
  <2>1. ~oversized /\ n < SizeMax
    <3>1. ~oversized /\ ~(n >= SizeMax)
      BY <1>1, <1>6, Zenon
    <3> QED BY ConstantsAssumption, <1>4, <3>1
  <2>2. n \in 0..n
    BY <1>4
  <2>3. /\ file' \in Seq(Cells)
        /\ \A c \in Chunks \ {chunk} :
             /\ Content(file', chunkIndex[c]) = Content(file, chunkIndex[c])
             /\ Content(file', table[c]) = Content(file, table[c])
        /\ Apart(Slot, table[chunk]) =>
             Content(file', table[chunk]) = Content(file, table[chunk])
        /\ \A r \in Readers : rPc[r] = "read" /\ ~Misled(r)
             /\ (rChunk[r] # chunk \/ Apart(Slot, rEntry[r])) =>
                  Content(file', rEntry[r]) = Content(file, rEntry[r])
    BY <1>1, <2>1, <2>2, SlotView
  <2>4. \A e \in Entries : Succeeds(Slot, e) => Apart(Slot, e) \/ Holds(file, e, delta)'
    <3> SUFFICES ASSUME NEW e \in Entries, e.offset = Slot.offset, Slot.size <= e.size
                 PROVE  Holds(file, e, delta)'
      BY DEF Succeeds
    <3>1. Slot.offset = offset /\ Slot.size = n
      BY <1>3, <2>1, SizeFacts DEF Slot
    <3>2. Holds(file, e, delta)'
      BY <1>1, <1>2, <3>1, SlotHolds DEF IndInv
    <3> QED BY <3>2
  <2> HIDE DEF n
  <2>5. \A e \in Entries : Storable(delta) /\ InFile(file', e) /\ Holds(file', e, delta) =>
          Content(file', e) = delta
    BY <1>3, <2>3, HoldsContent
  <2>6. /\ Loose' = Loose /\ Blind' = Blind /\ Reading' = Reading
        /\ \A c \in Chunks : Lost(c)' <=> Lost(c)
        /\ \A r \in Readers : Misled(r)' <=> Misled(r)
    <3>1. /\ \A c \in Chunks : Lost(c)' <=> Lost(c)
          /\ \A r \in Readers : Misled(r)' <=> Misled(r)
      BY <1>1, <1>6, <2>1 DEF Lost, Misled, Contents
    <3> QED BY <1>1, <3>1 DEF Loose, Blind, Reading
  <2>7. /\ \A c \in Chunks : chunkIndex'[c] = IF c = chunk THEN Slot ELSE chunkIndex[c]
        /\ Slot \in Entries /\ InFile(file', Slot) /\ Holds(file', Slot, delta)
        /\ Succeeds(Slot, table[chunk]) /\ table[chunk] \in Entries /\ InFile(file', table[chunk])
    <3>1. \A c \in Chunks : chunkIndex'[c] = IF c = chunk THEN Slot ELSE chunkIndex[c]
      BY <1>1, <1>2 DEF TypeOK
    <3>2. chunkIndex'[chunk'] = Slot
      BY <1>1, <1>3, <3>1
    <3>3. chunkIndex'[chunk'] \in Entries /\ InFile(file', chunkIndex'[chunk']) /\ table'[chunk'] \in Entries
          /\ InFile(file', table'[chunk'])
      BY <1>1, <1>2, <1>3 DEF TypeOK, SlotsApart
    <3>4. Holds(file', chunkIndex'[chunk'], delta') /\ Succeeds(chunkIndex'[chunk'], table'[chunk'])
      BY <1>1, <1>3, <1>6 DEF IndInv, IndexStands, IndexSucceedsTable
    <3> QED BY <1>1, <3>1, <3>2, <3>3, <3>4
  <2>8. /\ chunk \in Loose => Mem' = Mem /\ Disk' = Disk
        /\ chunk \notin Loose =>
             /\ Mem' = [Mem EXCEPT ![chunk] = delta]
             /\ Disk' \in {Disk, [Disk EXCEPT ![chunk] = delta]}
    <3>1. \A c \in Chunks \ {chunk} : Mem'[c] = Mem[c] /\ Disk'[c] = Disk[c]
      BY <1>1, <2>3, <2>6, <2>7 DEF Mem, Disk
    <3>2. CASE Lost(chunk)
      <4>1. Mem'[chunk] = Mem[chunk] /\ Disk'[chunk] = Disk[chunk]
        <5>1. \A c \in Chunks : c = chunk => Mem'[c] = Mem[c] /\ Disk'[c] = Disk[c]
          BY <2>6, <3>2 DEF Mem, Disk
        <5> QED BY <1>3, <5>1
      <4>2. Mem' = Mem /\ Disk' = Disk
        BY <3>1, <4>1 DEF Mem, Disk
      <4> QED BY <1>3, <3>2, <4>2 DEF Loose
    <3>3. CASE ~Lost(chunk)
      <4>1. Storable(delta)
        BY <1>1, <1>2, <1>3, <3>3 DEF Lost, Contents, Saving, Unstorable
      <4>2. Mem'[chunk] = delta
        <5>1. \A c \in Chunks : c = chunk => Mem'[c] = Content(file', Slot)
          BY <2>6, <2>7, <3>3 DEF Mem
        <5> QED BY <1>3, <2>5, <2>7, <4>1, <5>1
      <4>3. Disk'[chunk] = Disk[chunk] \/ Disk'[chunk] = delta
        <5>1. \A c \in Chunks : c = chunk => /\ Disk'[c] = Content(file', table[c])
                                             /\ Disk[c] = Content(file, table[c])
          BY <1>1, <2>6, <3>3 DEF Disk
        <5>2. CASE Apart(Slot, table[chunk])
          BY <1>3, <2>3, <5>1, <5>2
        <5>3. CASE Holds(file', table[chunk], delta)
          BY <1>3, <2>5, <2>7, <4>1, <5>1, <5>3
        <5>4. Apart(Slot, table[chunk]) \/ Holds(file', table[chunk], delta)
          BY <1>1, <2>4, <2>7
        <5> QED BY <5>2, <5>3, <5>4
      <4>4. Mem' = [Mem EXCEPT ![chunk] = delta]
        BY <3>1, <4>2 DEF Mem
      <4>5. Disk' \in {Disk, [Disk EXCEPT ![chunk] = delta]}
        BY <3>1, <4>3 DEF Disk
      <4> QED BY <3>3, <4>4, <4>5 DEF Loose
    <3> QED BY <3>2, <3>3
  <2> DEFINE R == {r \in Readers \ Blind : Reading[r] = chunk /\ Found'[r] = delta}
  <2>9. Found' = [r \in Readers |-> IF r \in R THEN delta ELSE Found[r]]
    <3>1. ASSUME NEW r \in Readers, r \notin R PROVE Found'[r] = Found[r]
      <4>1. CASE rPc[r] = "read" /\ ~Misled(r)
        <5>1. Found'[r] = Content(file', rEntry[r]) /\ Found[r] = Content(file, rEntry[r])
          BY <1>1, <2>6, <4>1 DEF Found
        <5>2. CASE rChunk[r] # chunk \/ Apart(Slot, rEntry[r])
          BY <2>3, <4>1, <5>1, <5>2
        <5>3. CASE rChunk[r] = chunk /\ ~Apart(Slot, rEntry[r])
          <6>1. r \notin spoiled /\ delta \in mayRead[r] /\ Storable(delta)
            BY <1>1, <1>2, <1>3, <4>1, <5>3 DEF Misled, Saving, Unstorable
          <6>2. Succeeds(chunkIndex'[rChunk'[r]], rEntry'[r]) /\ InFile(file', rEntry'[r])
            BY <1>1, <1>6, <4>1, <6>1 DEF IndInv, ReadersSafe
          <6>3. Succeeds(Slot, rEntry[r]) /\ InFile(file', rEntry[r]) /\ rEntry[r] \in Entries
            BY <1>1, <1>2, <1>3, <2>7, <5>3, <6>2 DEF TypeOK
          <6>4. Holds(file', rEntry[r], delta)
            BY <1>1, <2>4, <5>3, <6>3
          <6>5. Found'[r] = delta
            BY <2>5, <5>1, <6>1, <6>3, <6>4
          <6>6. r \notin Blind /\ Reading[r] = chunk
            BY <4>1, <5>3 DEF Blind, Reading
          <6> QED BY <3>1, <6>5, <6>6
        <5> QED BY <5>2, <5>3
      <4>2. CASE rPc[r] # "read" \/ Misled(r)
        BY <1>1, <2>6, <4>2 DEF Found
      <4> QED BY <4>1, <4>2
    <3>2. Found' = [r \in Readers |-> Found'[r]]
      BY DEF Found
    <3>3. \A r \in Readers : Found'[r] = IF r \in R THEN delta ELSE Found[r]
      BY <3>1
    <3> HIDE DEF R
    <3> QED BY <3>2, <3>3
  <2>10. R \in SUBSET {r \in Readers \ Blind : Reading[r] = chunk}
    OBVIOUS
  <2> HIDE DEF R
  <2>11. Store!Apply
    BY <1>1, <1>3, <2>6, <2>8, <2>9, <2>10 DEF Store!Apply, Store!Idle
  <2> QED BY <2>11 DEF StoreStep, Store!Next
<1> QED BY <1>5, <1>6

(* A part of the data: a loss of the chunk where something was overwritten, *)
(* and else nothing.                                                        *)
LEMMA WriteDataFailsRefines ==
  ASSUME IndInv, NEW k \in 0..(Len(Serialize(delta)) - 1), WriteDataFails(k)
  PROVE  StoreStep
<1> DEFINE T == k > 0 /\ offset <= Len(file)
           S == IF T THEN {chunk} ELSE {}
           R == {r \in Readers : T /\ rChunk[r] = chunk /\ rPc[r] # "idle"}
<1>1. /\ UNCHANGED <<table, chunkIndex, rPc, rChunk, rEntry, got, mayRead, saved, attempts>>
      /\ pc = "data" /\ pc' = "idle"
      /\ file' = Written(offset, Serialize(delta), k)
      /\ oversized' = (oversized \/ Len(Serialize(delta)) >= SizeMax)
      /\ IF T THEN /\ torn' = torn \cup {chunk}
                   /\ spoiled' = spoiled \cup {r \in Readers : rChunk[r] = chunk}
              ELSE torn' = torn /\ spoiled' = spoiled
  BY DEF WriteDataFails, ReturnSave
<1>2. TypeOK /\ Saving /\ SlotsApart
  BY DEF IndInv
<1>3. /\ Target = chunk /\ Target # NoChunk /\ Target' = NoChunk /\ New' = NoDelta
      /\ chunk \in Chunks /\ delta \in Deltas
  BY <1>1, <1>2, ViewTypes DEF Target, New
<1>4. Len(Serialize(delta)) \in Nat /\ k \in 0..Len(Serialize(delta)) /\ offset \in Nat
  BY <1>2, <1>3, SizeFacts DEF TypeOK
<1>5. CASE oversized'
  <2>1. Store!Lose(Chunks)
    BY <1>1, <1>2, <1>5, OversizedLoses
  <2>2. Store!Fail
    BY <1>1, <1>3, <2>1 DEF Store!Fail, Store!Idle, Store!Return
  <2> QED BY <2>2 DEF StoreStep, Store!Next
<1>6. CASE ~oversized'
  <2>1. ~oversized /\ Len(Serialize(delta)) < SizeMax
    <3>1. ~oversized /\ ~(Len(Serialize(delta)) >= SizeMax)
      BY <1>1, <1>6, Zenon
    <3> QED BY ConstantsAssumption, <1>4, <3>1
  <2>2. /\ \A c \in Chunks : c # chunk \/ k = 0 \/ offset = Len(file) + 1 =>
             /\ Content(file', chunkIndex[c]) = Content(file, chunkIndex[c])
             /\ Content(file', table[c]) = Content(file, table[c])
        /\ \A r \in Readers : rPc[r] = "read" /\ ~Misled(r)
             /\ (rChunk[r] # chunk \/ k = 0 \/ offset = Len(file) + 1) =>
                  Content(file', rEntry[r]) = Content(file, rEntry[r])
    BY <1>1, <1>4, <2>1, SlotView
  <2>3. ~T => k = 0 \/ offset = Len(file) + 1
    <3>1. InFile(file, chunkIndex[chunk]) /\ chunkIndex[chunk] \in Entries /\ file \in Seq(Cells)
      BY <1>2, <1>3 DEF TypeOK, SlotsApart
    <3> QED BY <1>1, <1>2, <1>4, <3>1 DEF Saving, InFile, Entries
  <2>4. \A c \in Chunks : Lost(c)' <=> Lost(c) \/ c \in S
    BY <1>1, <1>6, <2>1 DEF Lost, Contents
  <2>5. \A r \in Readers : Misled(r)' <=> Misled(r) \/ r \in R
    BY <1>1, <1>6, <2>1 DEF Misled
  <2>6. S \in {{}, {chunk}} /\ R \in SUBSET {r \in Readers : Reading[r] \in S}
    BY DEF Reading
  <2>7. \A c \in Chunks \ S : /\ Content(file', chunkIndex'[c]) = Content(file, chunkIndex[c])
                              /\ Content(file', table'[c]) = Content(file, table[c])
    BY <1>1, <2>2, <2>3
  <2>8. \A r \in Readers \ R : rPc[r] = "read" /\ ~Misled(r) =>
          Content(file', rEntry'[r]) = Content(file, rEntry[r])
    BY <1>1, <2>2, <2>3
  <2> HIDE DEF T, S, R
  <2>9. Loose' = Loose \cup S
    BY <1>3, <2>4, <2>6 DEF Loose
  <2>10. /\ Mem' = [c \in Chunks |-> IF c \in S THEN NoDelta ELSE Mem[c]]
         /\ Disk' = [c \in Chunks |-> IF c \in S THEN NoDelta ELSE Disk[c]]
    BY <2>4, <2>7 DEF Mem, Disk
  <2>11. Blind' = Blind \cup R
    BY <2>5, <2>6 DEF Blind
  <2>12. Found' = [r \in Readers |-> IF r \in R THEN NoDelta ELSE Found[r]]
    BY <1>1, <2>5, <2>8 DEF Found
  <2>13. Reading' = Reading
    BY <1>1 DEF Reading
  <2>14. Store!Lose(S)
    BY <2>6, <2>9, <2>10, <2>11, <2>12, <2>13 DEF Store!Lose
  <2>15. Store!Fail
    BY <1>1, <1>3, <2>6, <2>14 DEF Store!Fail, Store!Idle, Store!Return
  <2> QED BY <2>15 DEF StoreStep, Store!Next
<1> QED BY <1>5, <1>6

(* The invariant, with the readers that are not under way. *)
LEMMA ReadersInvariance == Spec => []IdleReaders
<1>1. Init => IdleReaders
  BY DEF Init, IdleReaders
<1>2. IndInv /\ IdleReaders /\ [Next]_vars => IdleReaders'
  BY IdleReadersStep DEF IndInv
<1> QED BY <1>1, <1>2, Invariance, PTL DEF Spec

(* A region file is a store of whole deltas, one per chunk: SaveChunk       *)
(* replaces what its chunk has, at once and nothing else, however it is     *)
(* placed, wherever it fails and whenever the process stops; GetChunk       *)
(* returns what there was when it was called or has been saved since.       *)
THEOREM RefinesRegionStore == Spec => ImplementsRegionStore
<1>1. Init => Store!Init
  <2> SUFFICES ASSUME Init PROVE Store!Init
    OBVIOUS
  <2>1. /\ \A c \in Chunks : ~Lost(c) /\ Content(file, chunkIndex[c]) = NoDelta
                             /\ Content(file, table[c]) = NoDelta
        /\ \A r \in Readers : ~Misled(r)
    <3>1. \A c \in Chunks : ~Lost(c)
      BY ConstantsAssumption DEF Init, Lost, Contents, Unstorable
    <3> QED BY <3>1 DEF Init, Misled, Content, NoEntry
  <2>2. Mem = [c \in Chunks |-> NoDelta] /\ Disk = Mem /\ saved = Mem
    BY <2>1 DEF Init, Mem, Disk
  <2>3. Target = NoChunk /\ New = NoDelta /\ Loose = {} /\ Blind = {}
    BY <2>1 DEF Init, Target, New, Loose, Blind
  <2>4. /\ Reading = [r \in Readers |-> NoChunk]
        /\ Found = [r \in Readers |-> NoDelta]
    BY DEF Init, Reading, Found
  <2> QED BY <2>2, <2>3, <2>4 DEF Store!Init
<1>2. IndInv /\ IndInv' /\ IdleReaders /\ [Next]_vars => StoreStep
  <2> SUFFICES ASSUME IndInv, IndInv', IdleReaders, [Next]_vars PROVE StoreStep
    OBVIOUS
  <2>1. TypeOK
    BY DEF IndInv
  <2>2. CASE CreateFile \/ WriteHeader \/ WriteIndexTable \/ UNCHANGED vars
    BY <2>2, StartRefines
  <2>3. ASSUME NEW c \in Chunks, NEW d \in Deltas, SaveChunk(c, d) PROVE StoreStep
    BY <2>1, <2>3, SaveChunkRefines
  <2>4. CASE WriteData \/ WriteTable
    BY <2>4, WriteDataRefines, WriteTableRefines
  <2>5. CASE SaveSucceeds \/ SaveFails
    BY <2>1, <2>5, SaveSucceedsRefines, SaveFailsRefines
  <2>6. ASSUME NEW d \in Deltas, NEW k \in 0..(Len(Serialize(d)) - 1), d = delta, WriteDataFails(k)
        PROVE  StoreStep
    BY <2>6, WriteDataFailsRefines
  <2>7. ASSUME NEW r \in Readers, NEW c \in Chunks, GetChunk(r, c) PROVE StoreStep
    BY <2>7, GetChunkRefines
  <2>8. ASSUME NEW r \in Readers, ReadData(r) \/ GetChunkReturns(r) PROVE StoreStep
    BY <2>1, <2>8, ReadDataRefines, GetChunkReturnsRefines
  <2>9. CASE Crash
    BY <2>1, <2>9, CrashRefines
  <2> QED BY <2>2, <2>3, <2>4, <2>5, <2>6, <2>7, <2>8, <2>9 DEF Next
<1> QED BY <1>1, <1>2, Invariance, ReadersInvariance, PTL
      DEF Spec, ImplementsRegionStore, Store!Spec, StoreStep
=============================================================================
