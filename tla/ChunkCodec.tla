----------------------------- MODULE ChunkCodec -----------------------------
(***************************************************************************)
(* serializeChunk and deserializeChunk of internal/storage/region_file.go. *)
(* A delta is the sequence of its blocks in the order in which the map is  *)
(* iterated.  A cell stands for a field: the number of blocks, the place   *)
(* of a block (both coordinates), its type, its number of properties, the  *)
(* length of a property's value, or a byte of the value.  Keys of          *)
(* properties are left out, they are treated as the values are.            *)
(***************************************************************************)
EXTENDS Integers, Sequences, SequencesExt

CONSTANTS
  ByteMax,    \* fields of a block are kept modulo this (256 in the code)
  CountMax    \* and the number of blocks modulo this (65536)

ASSUME CodecAssumption == ByteMax \in Nat \ {0} /\ CountMax \in Nat \ {0}

(* What a delta has of a block. *)
ChunkBlocks == [at : Nat, type : Nat, values : Seq(Seq(Nat))]

(***************************************************************************)
(* Definitions whose name starts with Faulty are variants with a plausible *)
(* bug; no other definition uses them.  Each shows that some property      *)
(* would catch the bug.                                                    *)
(***************************************************************************)

SerializeValue(v) == <<Len(v) % ByteMax>> \o v

(* Writes no number of properties when there are none. *)
FaultySerializeBlock(b) ==
  IF b.values = <<>>
  THEN <<b.at, b.type % ByteMax>>
  ELSE <<b.at, b.type % ByteMax, Len(b.values) % ByteMax>>
         \o FlattenSeq([i \in 1..Len(b.values) |-> SerializeValue(b.values[i])])

(* A block outside of 0..255 is left out. *)
SerializeBlock(b) ==
  IF b.at >= ByteMax
  THEN <<>>
  ELSE <<b.at, b.type % ByteMax, Len(b.values) % ByteMax>>
         \o FlattenSeq([i \in 1..Len(b.values) |-> SerializeValue(b.values[i])])

(* The count is that of all blocks. *)
SerializeChunk(d) ==
  <<Len(d) % CountMax>> \o FlattenSeq([i \in 1..Len(d) |-> SerializeBlock(d[i])])

(***************************************************************************)
(* Reading goes on from a position; Failed is the position after an error. *)
(***************************************************************************)
Failed == 0

(* The next value.  Reading nothing at the end of the data is an error, and *)
(* reading less than asked for leaves zeros.                                *)
NextValue(data, before) ==
  LET q == before.at
      value == [i \in 1..data[q] |-> IF q + i <= Len(data) THEN data[q + i] ELSE 0]
  IN IF q = Failed \/ q + 1 > Len(data)
     THEN [at |-> Failed, read |-> <<>>]
     ELSE [at |-> q + data[q] + 1, read |-> Append(before.read, value)]

(* n values from position p. *)
ReadValues(data, n, p) ==
  LET values[k \in 0..n] ==
        IF k = 0 THEN [at |-> p, read |-> <<>>] ELSE NextValue(data, values[k - 1])
  IN values[n]

ReadBlock(data, p) ==
  IF p + 2 > Len(data)
  THEN [at |-> Failed, block |-> <<>>]
  ELSE LET vs == ReadValues(data, data[p + 2], p + 3)
       IN [at |-> vs.at,
           block |-> [at |-> data[p], type |-> data[p + 1], values |-> vs.read]]

(* The next block, or the error of the first that cannot be read. *)
NextBlock(data, before) ==
  LET b == ReadBlock(data, before.at)
  IN IF before.at = Failed \/ b.at = Failed
     THEN [at |-> Failed, read |-> <<>>]
     ELSE [at |-> b.at, read |-> Append(before.read, b.block)]

DeserializeChunk(data) ==
  LET blocks[k \in 0..data[1]] ==
        IF k = 0 THEN [at |-> 2, read |-> <<>>] ELSE NextBlock(data, blocks[k - 1])
  IN blocks[data[1]]

(***************************************************************************)
(* The deltas that can be stored: every field fits, and the last thing in  *)
(* the data is not an empty value.                                         *)
(***************************************************************************)
Storable(d) ==
  /\ Len(d) < CountMax
  /\ \A i \in 1..Len(d) :
       /\ d[i].at < ByteMax /\ d[i].type < ByteMax /\ Len(d[i].values) < ByteMax
       /\ \A j \in 1..Len(d[i].values) : Len(d[i].values[j]) < ByteMax
  /\ d # <<>> /\ Last(d).values # <<>> => Last(Last(d).values) # <<>>
=============================================================================
