------------------------------ MODULE MCCodecs ------------------------------
(* Codecs for TLC: all short columns of two-bit values and of short strings.  *)
EXTENDS Codecs

CONSTANTS NumericRows, StringRows   \* bounds: values of a block

SeqsOf(S, n) == UNION {[1..k -> S] : k \in 0..n}

\* The last one is longer than a length field can say.
MCStrings == SeqsOf(Bytes, 1) \cup {<<0, 1>>, <<1, 1>>, <<1, 0, 1, 1, 0>>}

\* A dictionary of more entries than its length field can say.
MCDistinct == {v \in [1..FieldSize -> MCStrings] :
                  /\ \A i, j \in 1..FieldSize : v[i] = v[j] => i = j
                  /\ \A i \in 1..FieldSize : Len(v[i]) < FieldSize}

MCJobs == UNION {[text : {FALSE}, codec : {"Plain", "Delta", "RLE"},
                  signed : {s}, values : SeqsOf(Typed(s), NumericRows)] : s \in BOOLEAN}
          \cup [text : {TRUE}, codec : {"Plain", "Dictionary"},
                signed : {FALSE}, values : SeqsOf(MCStrings, StringRows) \cup MCDistinct]
=============================================================================
