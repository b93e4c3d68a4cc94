------------------------------ MODULE NalUnits ------------------------------
(***************************************************************************)
(* From the encoder's byte stream to the units a page decodes: the start   *)
(* codes are taken off (preview/pack.go for the recorded stream, append_   *)
(* avcc in preview/native/enc_x264.c for the encoder's), each unit is put  *)
(* after its length, and the page walks over the lengths again             *)
(* (preview-stream.ts).                                                    *)
(*                                                                         *)
(* Bytes are numbers, and a length, of four bytes, is one number; data[1]  *)
(* is the first.                                                           *)
(***************************************************************************)
EXTENDS Integers, Sequences, SequencesExt

At(data, i, bytes) == i + Len(bytes) <= Len(data) /\ SubSeq(data, i, i + Len(bytes) - 1) = bytes

\* The length of the start code at i, of which something has to follow, or 0.
StartCode_Short(data, i) == IF At(data, i, <<0, 0, 1>>) THEN 3 ELSE 0
StartCode(data, i) ==
  CASE At(data, i, <<0, 0, 1>>) -> 3
    [] At(data, i, <<0, 0, 0, 1>>) -> 4
    [] OTHER -> 0

\* The codes AnnexBToAVCC comes upon: the end of a long one is none of its own.
CodePositions(data) ==
  { i \in DOMAIN data : StartCode(data, i) > 0 /\ (i > 1 => StartCode(data, i - 1) # 4) }
Codes(data) ==
  LET positions == CodePositions(data) IN
  CHOOSE s \in [1 .. Cardinality(positions) -> positions] :
    \A j, k \in DOMAIN s : j < k => s[j] < s[k]

\* Every unit after its length; an empty one is left out.
Prefixed(units) ==
  FlattenSeq([k \in DOMAIN units |->
                IF units[k] = << >> THEN << >> ELSE <<Len(units[k])>> \o units[k]])

\* A unit ends at the next code or with the data.
AnnexBToAVCC(data) ==
  LET codes == Codes(data) IN
  Prefixed([k \in DOMAIN codes |->
              SubSeq(data, codes[k] + StartCode(data, codes[k]),
                     IF k = Len(codes) THEN Len(data) ELSE codes[k + 1] - 1)])

\* The encoder hands over units one by one: strip_start_code and append_avcc.
BeginsWith(nal, code) == Len(code) <= Len(nal) /\ SubSeq(nal, 1, Len(code)) = code
Stripped(nal) ==
  CASE BeginsWith(nal, <<0, 0, 0, 1>>) -> SubSeq(nal, 5, Len(nal))
    [] BeginsWith(nal, <<0, 0, 1>>) -> SubSeq(nal, 4, Len(nal))
    [] OTHER -> nal
AppendAvcc(nals) == Prefixed([k \in DOMAIN nals |-> Stripped(nals[k])])

NalIsKeyframe(nals) ==
  \E k \in DOMAIN nals : Stripped(nals[k]) # << >> /\ Stripped(nals[k])[1] % 32 \in {5, 7}

\* The walk of AvccIsKeyframe and of parseAvccNals, up to a length that cannot be.
Parsed(avcc) ==
  LET From[i \in 1 .. Len(avcc) + 1] ==
        IF i > Len(avcc) THEN << >>
        ELSE LET n == avcc[i] IN
             IF n <= 0 \/ i + n > Len(avcc) THEN << >>
             ELSE <<SubSeq(avcc, i + 1, i + n)>> \o From[i + n + 1]
  IN From[1]

Kinds(avcc) == { unit[1] % 32 : unit \in ToSet(Parsed(avcc)) }

AvccIsKeyframe(avcc) == Kinds(avcc) \cap {5, 7, 8} # {}

\* buildAvcDecoderDescription finds both parameter sets.
HasDescription(avcc) == {7, 8} \subseteq Kinds(avcc)

-----------------------------------------------------------------------------

\* A unit as an encoder makes it: no byte of it can be taken for a start code.
ProperUnit(unit) ==
  /\ unit # << >> /\ unit[Len(unit)] # 0
  /\ \A i \in 1 .. Len(unit) - 2 : ~(unit[i] = 0 /\ unit[i + 1] = 0 /\ unit[i + 2] <= 1)

LongCode(long) == IF long THEN <<0, 0, 0, 1>> ELSE <<0, 0, 1>>

\* What an encoder made of units comes apart into the same units, whatever their start
\* codes, on both ways to the page, and is marked as a keyframe if a decoder may start
\* with it (pack.go:9-77; enc_x264.c:28-41, 86-125, 195-216; preview-stream.ts:8-59).
UnitsComeApart(bytes, length) ==
  LET units == { u \in SeqOf(bytes, length) : ProperUnit(u) } IN
  \A u, v \in units, short, long \in BOOLEAN :
    LET nals == <<LongCode(short) \o u, LongCode(long) \o v>>
        avcc == AnnexBToAVCC(nals[1] \o nals[2])
    IN /\ Parsed(avcc) = <<u, v>>
       /\ AppendAvcc(nals) = avcc
       /\ NalIsKeyframe(nals) \/ HasDescription(avcc) => AvccIsKeyframe(avcc)
       /\ AvccIsKeyframe(avcc) => {u[1] % 32, v[1] % 32} \cap {5, 7, 8} # {}
=============================================================================
