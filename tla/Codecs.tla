------------------------------- MODULE Codecs -------------------------------
(***************************************************************************)
(* How the values of one block of a column become bytes and come back:     *)
(* encoding/mod.rs, plain.rs, delta.rs, rle.rs, string_plain.rs and        *)
(* string_dictionary.rs, as flush_block and read_granule use them.         *)
(*                                                                         *)
(* The encoded stream is a sequence of fields: a value of the column, a    *)
(* run counter, a length, an index, or one byte of a string.  Each turn of *)
(* a loop of an encoder or a decoder is an action.  Between the two the    *)
(* stream may lose its end, the case the decoders' Truncated error is for. *)
(* It may be torn: some bytes of the first field that was lost remain.     *)
(* lz4 and the files are modules ColumnFile's and TableWriter's.           *)
(*                                                                         *)
(* A length, an index and the size of a dictionary are u32 fields, and the *)
(* string encoders cast to them with "as u32": what does not fit keeps its *)
(* low bits.  A length is one cell of the stream and so is a byte, so that *)
(* a decoder that was given a wrong length reads other cells as lengths,   *)
(* and Bytes are the cells from_utf8 takes.                                *)
(***************************************************************************)
EXTENDS Integers, Sequences

CONSTANTS Half,      \* 2^(w-1): values of the column have w bits
          MaxCount,  \* u16::MAX, the longest run of one RLE pair
          FieldSize, \* 2^32: a length or an index is below it
          Bytes,     \* the bytes that strings are made of
          Jobs       \* bound: the blocks to encode (see JobType)

Modulus == 2 * Half
Raw == 0..(Modulus - 1)
Typed(signed) == IF signed THEN -Half..(Half - 1) ELSE Raw
String == Seq(Bytes)

\* Codec and StringCodec are two types, and the column tells which one it is.
NumericJob(s) == [text : {FALSE}, codec : {"Plain", "Delta", "RLE"},
                  signed : {s}, values : Seq(Typed(s))]
TextJob == [text : {TRUE}, codec : {"Plain", "Dictionary"},
            signed : {FALSE}, values : Seq(String)]
JobType == NumericJob(FALSE) \cup NumericJob(TRUE) \cup TextJob

ASSUME CodecsAssumption ==
    /\ Half \in Nat \ {0}
    /\ MaxCount \in Nat \ {0}
    /\ FieldSize \in Nat \ {0}
    /\ Bytes \subseteq 0..(FieldSize - 1)
    /\ Jobs \subseteq JobType

VARIABLES job,      \* the block and the codec chosen for it: they do not change
          phase,    \* where the encoder or the decoder is
          pos,      \* turns its loop has made
          prev,     \* the encoder's previous value
          count,    \* length of the run the RLE encoder is in
          dict,     \* the dictionary the encoder has built
          out,      \* the fields written
          ends,     \* history: what was covered after each pair or string
          tag,      \* the tag in front of the block
          src,      \* the fields the decoder is given
          torn,     \* a part of one more field follows them
          at,       \* fields the decoder has taken
          last,     \* the Delta decoder's previous value
          entries,  \* the dictionary as it was decoded
          decoded   \* what was decoded

encoder == <<pos, prev, count, dict, out, ends, tag>>
decoder == <<src, torn, at, last, entries, decoded>>
vars == <<job, phase, encoder, decoder>>

\* encode_le and decode_le: two's complement.
EncodeLe(v) == IF v < 0 THEN v + Modulus ELSE v
DecodeLe(signed, r) == IF signed /\ r >= Half THEN r - Modulus ELSE r

WrappingSub(a, b) == IF a >= b THEN a - b ELSE a - b + Modulus
WrappingAdd(a, b) == IF a + b < Modulus THEN a + b ELSE a + b - Modulus

NumRows == Len(job.values)
Row(i) == IF job.text THEN job.values[i] ELSE EncodeLe(job.values[i])

Tag(codec) == CASE codec = "Plain" -> 0
                [] codec \in {"Delta", "Dictionary"} -> 1
                [] codec = "RLE" -> 2

FromTag(text, t) == CASE t = 0 -> "Plain"
                      [] t = 1 -> IF text THEN "Dictionary" ELSE "Delta"
                      [] t = 2 -> "RLE"

Init == /\ job \in Jobs
        /\ phase = "encode"
        /\ pos = 0 /\ prev = 0 /\ count = 0 /\ dict = <<>>
        /\ out = <<>> /\ ends = <<>> /\ tag = 0
        /\ src = <<>> /\ torn = FALSE
        /\ at = 0 /\ last = 0 /\ entries = <<>> /\ decoded = <<>>

(***************************************************************************)
(* Encoding                                                                *)
(***************************************************************************)
Encoding(text, codec) == phase = "encode" /\ job.text = text /\ job.codec = codec

\* flush_block: the tag goes in front of what the codec has written.
Store == /\ phase' = "stored"
         /\ tag' = Tag(job.codec)
         /\ UNCHANGED <<job, decoder>>

EncodePlain == /\ Encoding(FALSE, "Plain")
               /\ out' = [i \in 1..NumRows |-> Row(i)]
               /\ Store
               /\ UNCHANGED <<pos, prev, count, dict, ends>>

\* Mutant of EncodeDelta: prev stays at the first value.
EncodeDeltaToFirst ==
    /\ Encoding(FALSE, "Delta") /\ pos < NumRows
    /\ out' = Append(out, IF pos = 0 THEN Row(1) ELSE WrappingSub(Row(pos + 1), prev))
    /\ prev' = IF pos = 0 THEN Row(1) ELSE prev
    /\ pos' = pos + 1
    /\ UNCHANGED <<job, phase, count, dict, ends, tag, decoder>>

\* The first value, then differences modulo 2^w.
EncodeDelta ==
    /\ Encoding(FALSE, "Delta") /\ pos < NumRows
    /\ out' = Append(out, IF pos = 0 THEN Row(1) ELSE WrappingSub(Row(pos + 1), prev))
    /\ prev' = Row(pos + 1)
    /\ pos' = pos + 1
    /\ UNCHANGED <<job, phase, count, dict, ends, tag, decoder>>

EndDelta == /\ Encoding(FALSE, "Delta") /\ pos = NumRows
            /\ Store
            /\ UNCHANGED <<pos, prev, count, dict, out, ends>>

\* Mutant of Continues: the counter is not guarded.
ContinuesUnguarded(v) == v = prev

\* The value is one more of the run, if the 16 bits of the counter can hold it.
Continues(v) == v = prev /\ count < MaxCount

\* The pair of the run that ends at row pos.
WriteRun == /\ out' = out \o <<count, prev>>
            /\ ends' = Append(ends, pos)

StartRun == /\ pos' = pos + 1
            /\ prev' = Row(pos + 1)
            /\ count' = 1

\* One turn of the loop; the first value is taken before it.
EncodeRun == /\ Encoding(FALSE, "RLE") /\ pos < NumRows
             /\ \/ /\ pos = 0
                   /\ StartRun
                   /\ UNCHANGED <<out, ends>>
                \/ /\ pos > 0 /\ Continues(Row(pos + 1))
                   /\ pos' = pos + 1
                   /\ count' = count + 1
                   /\ UNCHANGED <<prev, out, ends>>
                \/ /\ pos > 0 /\ ~ Continues(Row(pos + 1))
                   /\ WriteRun
                   /\ StartRun
             /\ UNCHANGED <<job, phase, dict, tag, decoder>>

\* The loop never emits its last pair.
EndRuns == /\ Encoding(FALSE, "RLE") /\ pos = NumRows
           /\ IF NumRows = 0 THEN UNCHANGED <<out, ends>> ELSE WriteRun
           /\ Store
           /\ UNCHANGED <<pos, prev, count, dict>>

\* "as u32": the low bits, whether or not the others are zero.
AsU32(n) == n % FieldSize

\* A string is its length in bytes and its bytes.
WriteString(s) == /\ out' = Append(out, AsU32(Len(s))) \o s
                  /\ ends' = Append(ends, Len(out'))

EncodeString == /\ Encoding(TRUE, "Plain") /\ pos < NumRows
                /\ WriteString(Row(pos + 1))
                /\ pos' = pos + 1
                /\ UNCHANGED <<job, phase, prev, count, dict, tag, decoder>>

EndStrings == /\ Encoding(TRUE, "Plain") /\ pos = NumRows
              /\ Store
              /\ UNCHANGED <<pos, prev, count, dict, out, ends>>

\* index_map: the index a string has in the dictionary, from 0.
Known(s) == \E k \in 1..Len(dict) : dict[k] = s
Index(s) == AsU32((CHOOSE k \in 1..Len(dict) : dict[k] = s) - 1)

\* The first loop: strings that are new go to the end of the dictionary.
BuildDict == /\ Encoding(TRUE, "Dictionary") /\ pos < NumRows
             /\ dict' = IF Known(Row(pos + 1)) THEN dict ELSE Append(dict, Row(pos + 1))
             /\ pos' = pos + 1
             /\ UNCHANGED <<job, phase, prev, count, out, ends, tag, decoder>>

WriteDictLen == /\ Encoding(TRUE, "Dictionary") /\ pos = NumRows
                /\ out' = <<AsU32(Len(dict))>>
                /\ phase' = "entries"
                /\ pos' = 0
                /\ UNCHANGED <<job, prev, count, dict, ends, tag, decoder>>

\* The second loop: the entries, like strings in a plain block.
WriteEntry == /\ phase = "entries" /\ pos < Len(dict)
              /\ WriteString(dict[pos + 1])
              /\ pos' = pos + 1
              /\ UNCHANGED <<job, phase, prev, count, dict, tag, decoder>>

EndEntries == /\ phase = "entries" /\ pos = Len(dict)
              /\ phase' = "indices"
              /\ pos' = 0
              /\ UNCHANGED <<job, prev, count, dict, out, ends, tag, decoder>>

\* The third loop: one index per row.
WriteIndex == /\ phase = "indices" /\ pos < NumRows
              /\ out' = Append(out, Index(Row(pos + 1)))
              /\ pos' = pos + 1
              /\ UNCHANGED <<job, phase, prev, count, dict, ends, tag, decoder>>

EndIndices == /\ phase = "indices" /\ pos = NumRows
              /\ Store
              /\ UNCHANGED <<pos, prev, count, dict, out, ends>>

Encode == \/ EncodePlain
          \/ EncodeDelta \/ EndDelta
          \/ EncodeRun \/ EndRuns
          \/ EncodeString \/ EndStrings
          \/ BuildDict \/ WriteDictLen \/ WriteEntry \/ EndEntries
          \/ WriteIndex \/ EndIndices

(***************************************************************************)
(* Decoding                                                                *)
(***************************************************************************)
\* read_granule is given the first n fields, and perhaps a part of the next.
Open(n, part) == /\ phase = "stored"
                 /\ part => n < Len(out)
                 /\ src' = SubSeq(out, 1, n)
                 /\ torn' = part
                 /\ phase' = "decode"
                 /\ UNCHANGED <<job, encoder, at, last, entries, decoded>>

Decoding(text, codec) ==
    phase = "decode" /\ job.text = text /\ FromTag(text, tag) = codec

Left == Len(src) - at
AtEnd == Left = 0 /\ ~ torn

Return(result) == /\ phase' = result
                  /\ UNCHANGED <<job, encoder, src, torn, at, last, entries, decoded>>

\* A stream whose length is no multiple of the stride is refused as a whole.
DecodePlain == /\ Decoding(FALSE, "Plain")
               /\ phase' = IF torn THEN "err" ELSE "ok"
               /\ decoded' = IF torn THEN decoded ELSE src
               /\ UNCHANGED <<job, encoder, src, torn, at, last, entries>>

DecodeDelta ==
    /\ Decoding(FALSE, "Delta") /\ ~ torn /\ Left > 0
    /\ LET curr == IF at = 0 THEN src[1] ELSE WrappingAdd(last, src[at + 1])
       IN /\ decoded' = Append(decoded, curr)
          /\ last' = curr
    /\ at' = at + 1
    /\ UNCHANGED <<job, phase, encoder, src, torn, entries>>

EndDecodeDelta == /\ Decoding(FALSE, "Delta") /\ (torn \/ AtEnd)
                  /\ Return(IF torn THEN "err" ELSE "ok")

\* A pair becomes as many values as it counts.
DecodeRun == /\ Decoding(FALSE, "RLE") /\ Left >= 2
             /\ decoded' = decoded \o [i \in 1..src[at + 1] |-> src[at + 2]]
             /\ at' = at + 2
             /\ UNCHANGED <<job, phase, encoder, src, torn, last, entries>>

EndDecodeRuns == /\ Decoding(FALSE, "RLE") /\ Left < 2
                 /\ Return(IF AtEnd THEN "ok" ELSE "err")

NextString == SubSeq(src, at + 2, at + 1 + src[at + 1])

\* The next length can be read, and so can as many bytes, which are a string:
\* otherwise Truncated or InvalidUtf8.
StringComplete == /\ Left > 0 /\ Left - 1 >= src[at + 1]
                  /\ NextString \in String

DecodeString == /\ Decoding(TRUE, "Plain") /\ StringComplete
                /\ decoded' = Append(decoded, NextString)
                /\ at' = at + 1 + src[at + 1]
                /\ UNCHANGED <<job, phase, encoder, src, torn, last, entries>>

EndDecodeStrings == /\ Decoding(TRUE, "Plain") /\ ~ StringComplete
                    /\ Return(IF AtEnd THEN "ok" ELSE "err")

ReadDictLen == /\ Decoding(TRUE, "Dictionary") /\ Left > 0
               /\ phase' = "readEntries"
               /\ at' = 1
               /\ UNCHANGED <<job, encoder, src, torn, last, entries, decoded>>

NoDictLen == Decoding(TRUE, "Dictionary") /\ Left = 0 /\ Return("err")

ReadEntry == /\ phase = "readEntries" /\ Len(entries) < src[1] /\ StringComplete
             /\ entries' = Append(entries, NextString)
             /\ at' = at + 1 + src[at + 1]
             /\ UNCHANGED <<job, phase, encoder, src, torn, last, decoded>>

\* Mutant of EntryMissing: a dictionary that is cut off is used as far as it goes.
EntryMissingEndsDict ==
    /\ phase = "readEntries" /\ Len(entries) < src[1] /\ ~ StringComplete
    /\ Return("readIndices")

EntryMissing == /\ phase = "readEntries" /\ Len(entries) < src[1] /\ ~ StringComplete
                /\ Return("err")

EndReadEntries == /\ phase = "readEntries" /\ Len(entries) = src[1]
                  /\ Return("readIndices")

\* Corrupt, an error, when the dictionary has no such entry.
ReadIndex == /\ phase = "readIndices" /\ Left > 0
             /\ IF src[at + 1] < Len(entries)
                THEN /\ decoded' = Append(decoded, entries[src[at + 1] + 1])
                     /\ at' = at + 1
                     /\ phase' = phase
                ELSE /\ phase' = "err"
                     /\ UNCHANGED <<decoded, at>>
             /\ UNCHANGED <<job, encoder, src, torn, last, entries>>

EndReadIndices == /\ phase = "readIndices" /\ Left = 0
                  /\ Return(IF torn THEN "err" ELSE "ok")

Decode == \/ DecodePlain
          \/ DecodeDelta \/ EndDecodeDelta
          \/ DecodeRun \/ EndDecodeRuns
          \/ DecodeString \/ EndDecodeStrings
          \/ ReadDictLen \/ NoDictLen \/ ReadEntry \/ EntryMissing \/ EndReadEntries
          \/ ReadIndex \/ EndReadIndices

\* The block has been decoded.
Ended == phase \in {"ok", "err"} /\ UNCHANGED vars

Next == \/ Encode
        \/ \E n \in 0..Len(out), part \in BOOLEAN : Open(n, part)
        \/ Decode
        \/ Ended

Spec == Init /\ [][Next]_vars
-----------------------------------------------------------------------------
(***************************************************************************)
(* Properties                                                              *)
(***************************************************************************)
Phases == {"encode", "entries", "indices", "stored",
           "decode", "readEntries", "readIndices", "ok", "err"}

\* What read_granule makes of the decoded bytes.
Returned == [i \in 1..Len(decoded) |->
                IF job.text THEN decoded[i] ELSE DecodeLe(job.signed, decoded[i])]

\* A field holds no more than its bytes do: lengths, indices and bytes of text,
\* values, and in turn the counter and the value of a run.
Field(i) == IF job.text THEN 0..(FieldSize - 1)
            ELSE IF job.codec = "RLE" /\ i % 2 = 1 THEN 1..MaxCount
            ELSE Raw
FieldsFit(fields) == /\ fields \in Seq(Nat)
                     /\ \A i \in 1..Len(fields) : fields[i] \in Field(i)

\* Whatever the block, the fields that are written and read are ones that u16,
\* u32 and the column's type have; the state of the codecs is of its types.
CodecsTypeOK ==
    /\ job \in Jobs
    /\ phase \in Phases
    /\ pos \in Nat
    /\ prev \in Raw
    /\ count \in 0..MaxCount
    /\ dict \in Seq(String) /\ entries \in Seq(String)
    /\ FieldsFit(out) /\ FieldsFit(src) /\ ends \in Seq(Nat)
    /\ tag \in 0..2
    /\ torn \in BOOLEAN
    /\ at \in 0..Len(src)
    /\ last \in Raw
    /\ decoded \in Seq(IF job.text THEN String ELSE Raw)

\* The cast loses nothing: the strings that are written with a length in front
\* are shorter than 2^32 bytes, and a dictionary has less than 2^32 entries.
Written == IF job.codec = "Dictionary" THEN dict ELSE job.values
Fits == job.text => /\ Len(dict) < FieldSize
                    /\ \A i \in 1..Len(Written) : Len(Written[i]) < FieldSize

\* A block that comes back whole is decoded to exactly the values that were
\* encoded, whatever they are: differences that wrap, runs longer than a
\* counter, empty strings, a dictionary of any size that fits its fields; and
\* never with an error.
RoundTrip ==
    Fits /\ src = out /\ ~ torn => /\ phase = "ok" => Returned = job.values
                                   /\ phase # "err"

\* A block that lost its end is refused, or decoded to the values whose bytes
\* are all there: no value is made up of a part of another one.
CutOffIsPrefix ==
    Fits /\ phase = "ok" => /\ Len(Returned) <= NumRows
                            /\ \A i \in 1..Len(Returned) : Returned[i] = job.values[i]
=============================================================================
